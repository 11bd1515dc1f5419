-------------------------------- MODULE Core --------------------------------
(***************************************************************************)
(* Core (Core/Core.cpp): the life of an emulation session and the calls    *)
(* through which the host threads reach the CPU, on top of CPUManager.     *)
(*                                                                         *)
(* s_core_mutex makes a host's use of CPUManager exclusive, and s_state    *)
(* says whether there is a CPU thread to synchronize with.  The EmuThread  *)
(* boots the hardware, becomes the CPU thread of CPUManager and shuts the  *)
(* hardware down; sessions follow one another on the same CPUManager.      *)
(***************************************************************************)
EXTENDS CPUManager

CONSTANTS
  Owners,       \* the hosts that call Core::Init and Core::Stop
  MaxSessions   \* bound on the number of calls to Core::Init

ASSUME CoreAssumption == Owners \subseteq Hosts /\ MaxSessions \in Nat /\ "Video" \notin Hosts

VARIABLES
  s_state,
  s_core_mutex,  \* its owner: a host, "Video" or NoThread
  emu_pc,        \* where EmuThread is
  core_op,       \* the Core call each host is in
  sessions       \* how many sessions were started

coreVars == <<s_state, s_core_mutex, emu_pc, core_op, sessions>>
cpuManagerVars == vars
allVars == <<coreVars, vars>>

CoreState == {"Uninitialized", "Starting", "Running", "Stopping"}
\* "None": no thread, or one that only has its exit left.  "Config": before
\* HW::Init.  "Hardware": before Break.  "Boot": until the CPU thread function.
\* "Ready": s_state was set.  "Run": inside CPUManager::Run.  Then the scope
\* guards of EmuThread: "Shutdown" of the hardware, and the "Flag".
EmuPc == {"None", "Config", "Hardware", "Boot", "Ready", "Run", "Shutdown", "Flag"}
CoreOp == {"None", "SetState", "Guard", "RunOnCPU", "RunDirect", "StopFifo", "StopCpu", "StopWait"}

\* Before the first session: the members' initial values.
CoreInit ==
  /\ Unused("PowerDown", "Exit")
  /\ s_state = "Uninitialized" /\ s_core_mutex = NoThread
  /\ emu_pc = "None" /\ core_op = [h \in Hosts |-> "None"] /\ sessions = 0

-----------------------------------------------------------------------------
IsRunning == s_state = "Running"

\* A host between calls.
Free(h) == core_op[h] = "None" /\ host_pc[h] = "Idle"

Goto(h, op) == core_op' = [core_op EXCEPT ![h] = op]

\* The host is past PauseAndLock, whether or not there was a CPU to lock.
Inside(h) ==
  core_op[h] \in {"Guard", "RunOnCPU", "RunDirect"} /\ host_pc[h] # "PauseWait"

-----------------------------------------------------------------------------
\* The session.

\* Core::Init, lines 255-288.
InitCore(h) ==
  /\ Free(h) /\ h \in Owners /\ sessions < MaxSessions
  /\ s_core_mutex = NoThread /\ s_state = "Uninitialized" /\ emu_pc = "None"
  /\ s_state' = "Starting" /\ emu_pc' = "Config" /\ sessions' = sessions + 1
  /\ CpuGoto("Boot")
  /\ UNCHANGED <<s_core_mutex, core_op, controlVars, stepVars, pauseVars, adjacentVars,
                 notifyVars, m_state_cpu_thread_active, jobVars,
                 m_state_system_request_stepping>>

\* Line 597: callbacks of an old change of the configuration, to no effect on the
\* FIFO as the core is not running; line 645: HW::Init, with CPUManager::Init's
\* unlocked store of m_state.
EmuInitHardware ==
  /\ emu_pc = "Config"
  /\ s_should_run_callbacks' = FALSE
  /\ emu_pc' = "Hardware"
  /\ m_state' = "Stepping" /\ requested' = "Stepping"
  /\ UNCHANGED <<s_state, s_core_mutex, core_op, sessions, stepVars, pauseVars, adjacentVars,
                 cpuVars, notifyVars, m_pending_jobs, in_callback, m_state_system_request_stepping>>

\* Line 696.
EmuBreak ==
  /\ emu_pc = "Hardware"
  /\ emu_pc' = "Boot"
  /\ BreakLocked
  /\ UNCHANGED <<s_state, s_core_mutex, core_op, sessions>>

\* Lines 667-691 and 712-713: no video backend, no DSP, or nothing to boot.
EmuFail ==
  /\ emu_pc \in {"Hardware", "Boot"}
  /\ emu_pc' = "Shutdown"
  /\ UNCHANGED <<s_state, s_core_mutex, core_op, sessions, cpuManagerVars>>

\* Mutant: forgets to say that the core runs.
EmuReadyStaysStarting ==
  /\ emu_pc = "Boot" /\ s_core_mutex = NoThread
  /\ emu_pc' = "Ready"
  /\ UNCHANGED <<s_state, s_core_mutex, core_op, sessions, cpuManagerVars>>

\* Lines 399-406: Starting becomes Running, unless Stop was called meanwhile.
EmuReady ==
  /\ emu_pc = "Boot" /\ s_core_mutex = NoThread
  /\ emu_pc' = "Ready"
  /\ s_state' = IF s_state = "Starting" THEN "Running" ELSE s_state
  /\ UNCHANGED <<s_core_mutex, core_op, sessions, cpuManagerVars>>

\* CPUSetInitialExecutionState (lines 349-355), which is SetState on the CPU
\* thread, before the entry of CPUManager::Run.
EmuRun ==
  /\ emu_pc = "Ready" /\ s_core_mutex = NoThread
  /\ emu_pc' = "Run"
  /\ CpuLeaveBoot
  /\ \/ IsRunning /\ \E stepping \in BOOLEAN : CpuSetStepping(stepping)
     \/ ~IsRunning /\ UNCHANGED <<controlVars, adjacentVars>>
  /\ UNCHANGED <<s_state, s_core_mutex, core_op, sessions>>

\* The callbacks of a changed configuration pause the FIFO of a running core only
\* (VideoConfig.cpp:71).
CallbacksAskIsRunning == in_callback' \subseteq in_callback \/ IsRunning

\* CPUManager::Run, and its return (line 433).
EmuCpuStep == emu_pc = "Run" /\ CpuStep /\ CallbacksAskIsRunning /\ UNCHANGED coreVars
EmuCpuWake == emu_pc = "Run" /\ CpuResume /\ UNCHANGED coreVars
EmuCpuBreak == emu_pc = "Run" /\ Break /\ UNCHANGED coreVars
EmuConfigChanged == ConfigStep /\ CallbacksAskIsRunning /\ UNCHANGED coreVars
EmuLeaveRun ==
  /\ emu_pc = "Run" /\ cpu_pc = "Exit"
  /\ emu_pc' = "Shutdown"
  /\ UNCHANGED <<s_state, s_core_mutex, core_op, sessions, cpuManagerVars>>

\* HW::Shutdown calls CPUManager::Stop (CPU.cpp:257-273) on this thread.
EmuShutdownHardware ==
  /\ emu_pc = "Shutdown" /\ StateLockFree /\ ~m_state_cpu_thread_active
  /\ emu_pc' = "Flag"
  /\ m_state' = "PowerDown"
  /\ RunAdjacentSystems(FALSE)
  /\ FlushStepSyncEventLocked
  /\ cpu_pc' = "Exit"
  /\ UNCHANGED <<s_state, s_core_mutex, core_op, sessions, requested, pauseVars, notifyVars,
                 m_state_change_lock, m_state_cpu_thread_active, jobVars,
                 m_state_system_request_stepping>>

\* The sound stream is gone (line 643), then lines 578-582.
EmuFlag ==
  /\ emu_pc = "Flag" /\ s_core_mutex = NoThread
  /\ emu_pc' = "None"
  /\ s_state' = "Uninitialized"
  /\ sound_running' = FALSE
  /\ UNCHANGED <<s_core_mutex, core_op, sessions, controlVars, stepVars, pauseVars, cpuVars,
                 notifyVars, fifo_running, jobVars, m_state_system_request_stepping>>

\* Mutant: announces the stop without s_core_mutex.
StopCoreUnlocked(h) ==
  /\ Free(h) /\ h \in Owners
  /\ s_state \in {"Starting", "Running"}
  /\ s_state' = "Stopping"
  /\ Goto(h, "StopFifo")
  /\ UNCHANGED <<s_core_mutex, emu_pc, sessions, cpuManagerVars>>

\* Core::Stop, lines 302-310; a call in any other state returns at once.
StopCore(h) ==
  /\ Free(h) /\ h \in Owners /\ s_core_mutex = NoThread
  /\ s_state \in {"Starting", "Running"}
  /\ s_state' = "Stopping"
  /\ Goto(h, "StopFifo")
  /\ UNCHANGED <<s_core_mutex, emu_pc, sessions, cpuManagerVars>>

\* Line 319.
StopFifo(h) ==
  /\ core_op[h] = "StopFifo"
  /\ fifo_running' = FALSE
  /\ Goto(h, "StopCpu")
  /\ UNCHANGED <<s_state, s_core_mutex, emu_pc, sessions, controlVars, stepVars, pauseVars,
                 cpuVars, notifyVars, sound_running, jobVars,
                 m_state_system_request_stepping>>

\* Line 325: CPUManager::Stop, and the return from it.
StopCpu(h) ==
  /\ \/ core_op[h] = "StopCpu" /\ Stop(h) /\ Goto(h, "StopWait")
     \/ core_op[h] = "StopWait" /\ StopResume(h) /\ UNCHANGED core_op
     \/ /\ core_op[h] = "StopWait" /\ host_pc[h] = "Stopped"
        /\ HostGoto(h, "Idle") /\ Goto(h, "None")
        /\ UNCHANGED <<controlVars, stepVars, adjacentVars, cpuVars, notifyVars, jobVars,
                       m_state_system_request_stepping, m_stepping_lock,
                       m_state_paused_and_locked, m_have_fake_cpu_thread, was_unpaused>>
  /\ UNCHANGED <<s_state, s_core_mutex, emu_pc, sessions>>

-----------------------------------------------------------------------------
\* The calls through which hosts reach the CPU.

\* What only the session itself changes.
SessionUnchanged == UNCHANGED <<s_state, emu_pc, sessions>>

\* SetState, lines 752-788: s_core_mutex is held while SetStepping waits for the
\* CPU thread.  Without a running core it does nothing.
SetState(h) ==
  /\ Free(h) /\ s_core_mutex = NoThread /\ IsRunning
  /\ SetSteppingOff(h) \/ SetSteppingOn(h)
  /\ IF host_pc'[h] = "SteppingWait"
     THEN s_core_mutex' = h /\ Goto(h, "SetState")
     ELSE UNCHANGED <<s_core_mutex, core_op>>
  /\ SessionUnchanged

SetStateResume(h) ==
  /\ core_op[h] = "SetState"
  /\ SetSteppingResume(h)
  /\ IF host_pc'[h] = "SteppingWait"
     THEN UNCHANGED <<s_core_mutex, core_op>>
     ELSE s_core_mutex' = NoThread /\ Goto(h, "None")
  /\ SessionUnchanged

\* PauseAndLock, lines 856-877, on behalf of the call op.  Without a running
\* core it only takes s_core_mutex.
PauseAndLockCore(h, op) ==
  /\ Free(h) /\ s_core_mutex = NoThread
  /\ s_core_mutex' = h /\ Goto(h, op)
  /\ \/ IsRunning /\ (PauseAndLock(h) \/ PauseAndLockOverDebugStep(h))
     \/ ~IsRunning /\ UNCHANGED cpuManagerVars
  /\ SessionUnchanged

\* CPUThreadGuard's constructor on a host thread, lines 1131-1136.
CPUThreadGuard(h) == PauseAndLockCore(h, "Guard")

\* RunOnCPUThread, lines 907-916.
RunOnCPUThread(h) == m_pending_jobs < MaxJobs /\ PauseAndLockCore(h, "RunOnCPU")

PauseAndLockResume(h) ==
  /\ core_op[h] \in {"Guard", "RunOnCPU"}
  /\ PauseResume(h)
  /\ UNCHANGED coreVars

\* Lines 918-927: queue the function, or run it here when there is no CPU thread
\* "we can race against".
RunOnCPUThreadBody(h) ==
  /\ core_op[h] = "RunOnCPU" /\ Inside(h)
  /\ \/ IsRunning /\ AddCPUThreadJob(h) /\ Goto(h, "Guard")
     \/ ~IsRunning /\ UNCHANGED cpuManagerVars /\ Goto(h, "RunDirect")
  /\ UNCHANGED s_core_mutex /\ SessionUnchanged

\* Mutant: gives back s_core_mutex only.
RestoreForgetsCpu(h) ==
  /\ core_op[h] \in {"Guard", "RunDirect"} /\ Inside(h)
  /\ s_core_mutex' = NoThread /\ Goto(h, "None")
  /\ UNCHANGED cpuManagerVars
  /\ SessionUnchanged

\* RestoreStateAndUnlock, lines 879-896, from line 930 and from ~CPUThreadGuard.
RestoreStateAndUnlockCore(h) ==
  /\ core_op[h] \in {"Guard", "RunDirect"} /\ Inside(h)
  /\ s_core_mutex' = NoThread /\ Goto(h, "None")
  /\ \/ IsRunning /\ RestoreStateAndUnlock(h)
     \/ ~IsRunning /\ UNCHANGED cpuManagerVars
  /\ SessionUnchanged

\* The debugger steps the CPU without Core (CPUManager::StepOpcode).
StepOpcodeCore(h) == core_op[h] = "None" /\ (StepOpcode(h) \/ StepReturn(h)) /\ UNCHANGED coreVars

\* TryRunUnlessPausedAndLocked, lines 898-905, called by the video thread for a
\* present while paused.
TryRunUnlessPausedAndLocked ==
  /\ \/ s_core_mutex = NoThread /\ s_core_mutex' = "Video"
     \/ s_core_mutex = "Video" /\ s_core_mutex' = NoThread
  /\ UNCHANGED <<core_op, cpuManagerVars>> /\ SessionUnchanged

-----------------------------------------------------------------------------
EmuStep ==
  \/ EmuInitHardware \/ EmuBreak \/ EmuFail \/ EmuReady \/ EmuRun
  \/ EmuCpuStep \/ EmuLeaveRun \/ EmuShutdownHardware \/ EmuFlag

\* A call that goes on.
CoreCallStep(h) ==
  \/ StopFifo(h) \/ StopCpu(h) \/ SetStateResume(h) \/ PauseAndLockResume(h)
  \/ RunOnCPUThreadBody(h) \/ RestoreStateAndUnlockCore(h)

CoreCall(h) ==
  \/ InitCore(h) \/ StopCore(h) \/ SetState(h) \/ CPUThreadGuard(h) \/ RunOnCPUThread(h)
  \/ StepOpcodeCore(h)

CoreNext ==
  \/ EmuStep \/ EmuCpuWake \/ EmuCpuBreak \/ EmuConfigChanged \/ TryRunUnlessPausedAndLocked
  \/ \E h \in Hosts : CoreCallStep(h) \/ CoreCall(h)

CoreSafety == CoreInit /\ [][CoreNext]_allVars

\* EmuThread moves on and answers notifications; so does every host inside a
\* call; the video thread returns the mutex.  None starves on a mutex.
CoreFairness ==
  /\ SF_allVars(EmuStep \/ (cpu_notified /\ EmuCpuWake))
  /\ \A h \in Hosts :
       SF_allVars(CoreCallStep(h) /\ (host_pc[h] \in HostWaiting => h \in idle_notified))
  /\ WF_allVars(s_core_mutex = "Video" /\ TryRunUnlessPausedAndLocked)
  /\ \A t \in Threads : WF_allVars(EndCallback(t) /\ UNCHANGED coreVars)

CoreSpec == CoreSafety /\ CoreFairness

-----------------------------------------------------------------------------
\* Properties.

\* Types of Core's variables.
CoreTypeOK ==
  /\ s_state \in CoreState /\ s_core_mutex \in Hosts \cup {NoThread, "Video"}
  /\ emu_pc \in EmuPc /\ core_op \in [Hosts -> CoreOp] /\ sessions \in 0..MaxSessions

\* RestoreStateAndUnlock finds the same answer of IsRunning as the PauseAndLock
\* it is paired with: whoever stores s_state holds s_core_mutex.  Otherwise a
\* guard would unlock a CPU it never locked, or leave it locked for ever
\* (Core.cpp:860, 883).
GuardMatchesState ==
  \A h \in Hosts : Inside(h) => (host_pc[h] = "Locked" <=> IsRunning)

\* When nobody is inside a Core call, nobody has the CPU: nothing that a session
\* leaves behind blocks the next one (CPU.h:98).
NothingHeldOutside ==
  (s_core_mutex \in {NoThread, "Video"}) => (m_stepping_lock = NoThread /\ ~m_state_paused_and_locked)

\* Guest code runs in a session only, and never while a host is inside a guard
\* of a running core (Core.cpp:116, 916).
GuestInSession ==
  cpu_pc \in CpuGuest =>
    /\ s_state \in {"Running", "Stopping"}
    /\ \A h \in Hosts : Inside(h) => s_state = "Stopping"

\* CPU.h:55-56 says of CPUManager::Stop, which Core::Stop calls: "Causes
\* shutdown", "Once started, State::PowerDown cannot be stopped."
StopEndsSession == s_state = "Stopping" ~> s_state = "Uninitialized"

\* A session whose Stop came after HW::Init ends.
LateStopEndsSession ==
  (s_state = "Stopping" /\ m_state = "PowerDown" /\ emu_pc # "Config") ~> s_state = "Uninitialized"

\* Every call into Core returns, whatever the session does meanwhile, unless the
\* debugger keeps single-stepping for ever: SetState waits for a moment at which
\* the CPU thread is idle (CPU.cpp:336-339), which each step may take from it.
CoreCallsReturn ==
  <>[](~m_state_cpu_step_instruction) =>
    \A h \in Hosts : core_op[h] # "None" ~> core_op[h] = "None"

=============================================================================
