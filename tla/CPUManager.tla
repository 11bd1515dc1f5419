----------------------------- MODULE CPUManager -----------------------------
(***************************************************************************)
(* CPU::CPUManager (Core/HW/CPU.cpp): the handshake between the CPU thread *)
(* that executes guest code and the host threads that pause it, resume it, *)
(* single-step it, borrow its role, hand it jobs and power it down.        *)
(*                                                                         *)
(* An action is one critical section of m_state_change_lock, or one        *)
(* unlocked stretch of CPUManager::Run.  Host sections are atomic, so only *)
(* the CPU thread is ever seen holding m_state_change_lock: it does at the *)
(* program points of CpuHolding.  The two condition variables are modelled *)
(* with their lost notifications and spurious wake-ups.                    *)
(***************************************************************************)
EXTENDS Naturals, FiniteSets

CONSTANTS
  Hosts,           \* the threads other than the CPU thread that use CPUManager
  NoThread,        \* "no owner" of a lock, "no event" of a pending step
  MaxJobs,         \* bound on the length of m_pending_jobs
  BreakpointsSet,  \* a breakpoint or watchpoint may be set (CPU.cpp:138)
  ConfigChanges    \* the configuration may change during the session

ASSUME HostsAssumption == NoThread \notin Hosts /\ "Cpu" \notin Hosts
ASSUME BoundsAssumption == MaxJobs \in Nat
ASSUME FlagsAssumption == {BreakpointsSet, ConfigChanges} \subseteq BOOLEAN

VARIABLES
  m_state,                            \* CPU::State
  m_stepping_lock,                    \* the host that holds it
  m_state_change_lock,                \* TRUE while the CPU thread holds it
  m_state_cpu_thread_active,
  m_state_paused_and_locked,
  m_state_system_request_stepping,
  m_state_cpu_step_instruction,
  m_state_cpu_step_instruction_sync,  \* the host whose stack holds the event
  m_pending_jobs,                     \* how many callbacks are queued
  s_should_run_callbacks,             \* of CPUThreadConfigCallback
  in_callback,                        \* threads inside the video backend's callback
  m_have_fake_cpu_thread,
  cpu_pc,                             \* where CPUManager::Run is
  cpu_notified,                       \* a pending wake-up of m_state_cpu_cvar
  idle_notified,                      \* hosts woken on m_state_cpu_idle_cvar
  host_pc,                            \* where each host's call is
  was_unpaused,                       \* what PauseAndLock returned to each host
  event_set,                          \* hosts whose step event is signalled
  fifo_running,                       \* FifoManager's emulator state
  sound_running,                      \* the sound stream's state
  requested                           \* history: what was last asked for

controlVars == <<m_state, requested>>
stepVars == <<m_state_cpu_step_instruction, m_state_cpu_step_instruction_sync, event_set>>
pauseVars == <<m_stepping_lock, m_state_paused_and_locked, m_have_fake_cpu_thread,
               was_unpaused, host_pc>>
adjacentVars == <<fifo_running, sound_running>>
cpuVars == <<m_state_change_lock, m_state_cpu_thread_active, cpu_pc>>
notifyVars == <<cpu_notified, idle_notified>>
jobVars == <<m_pending_jobs, s_should_run_callbacks, in_callback>>
vars == <<controlVars, stepVars, pauseVars, adjacentVars, cpuVars, notifyVars, jobVars,
          m_state_system_request_stepping>>

State == {"Running", "Stepping", "PowerDown"}

Threads == Hosts \cup {"Cpu"}

\* Guest code runs: between lines 130 and 153, and between 217 and 223.
CpuGuest == {"Enter", "DebugStep", "RunLoop", "Leave", "SingleStep"}
\* A callback of m_pending_jobs runs, from Run or from the wait predicate.
CpuJob == {"InJob", "InPredJob"}
\* The CPU thread owns m_state_change_lock between two steps of the model.
CpuHolding == {"Loop", "Jobs", "Switch", "PredJobs", "Pred"}
\* Waiting on m_state_cpu_cvar: line 122, and lines 191-205.
CpuAsleep == {"SleepUnlocked", "SleepStep"}
CpuPc == {"Boot", "Start", "Window", "Exit"} \cup CpuGuest \cup CpuJob \cup CpuHolding \cup CpuAsleep

\* Waiting on m_state_cpu_idle_cvar in SetStepping, PauseAndLock and Stop.
HostWaiting == {"SteppingWait", "PauseWait", "StopWait"}
HostPc == {"Idle", "Locked", "StepWait", "Stopped"} \cup HostWaiting

-----------------------------------------------------------------------------
\* A CPUManager nobody uses yet, in the given state, its CPU thread at pc.
Unused(state, pc) ==
  /\ m_state = state /\ requested = "Stepping"
  /\ m_stepping_lock = NoThread /\ m_state_change_lock = FALSE
  /\ m_state_cpu_thread_active = FALSE
  /\ m_state_paused_and_locked = FALSE
  /\ m_state_system_request_stepping = FALSE
  /\ m_state_cpu_step_instruction = FALSE
  /\ m_state_cpu_step_instruction_sync = NoThread
  /\ m_pending_jobs = 0 /\ s_should_run_callbacks = FALSE /\ in_callback = {}
  /\ m_have_fake_cpu_thread = FALSE
  /\ cpu_pc = pc /\ cpu_notified = FALSE /\ idle_notified = {}
  /\ host_pc = [h \in Hosts |-> "Idle"]
  /\ was_unpaused = [h \in Hosts |-> FALSE]
  /\ event_set = {}
  /\ fifo_running = FALSE /\ sound_running = FALSE

\* CPUManager::Init sets Stepping and Core::EmuThread calls Break() before the
\* CPU thread enters Run; the hosts may already call in (Core::s_state Running).
Init == Unused("Stepping", "Boot")

-----------------------------------------------------------------------------
\* Helpers: each stands for one private member function, or one call made with
\* m_state_change_lock held.

\* m_state_cpu_cvar.notify_one(): lost unless the CPU thread is waiting.
NotifyCpu == cpu_notified' = (cpu_notified \/ cpu_pc \in CpuAsleep)

\* m_state_cpu_idle_cvar.notify_all()
NotifyIdle == idle_notified' = {h \in Hosts : host_pc[h] \in HostWaiting}

FlushStepSyncEventLocked ==
  IF m_state_cpu_step_instruction
  THEN /\ event_set' = event_set \cup ({m_state_cpu_step_instruction_sync} \ {NoThread})
       /\ m_state_cpu_step_instruction_sync' = NoThread
       /\ m_state_cpu_step_instruction' = FALSE
  ELSE UNCHANGED stepVars

\* Mutant: PowerDown is not a priority state.
SetStateLockedUnguarded(s) == m_state' = s

\* PowerDown is never left through SetStateLocked.
SetStateLocked(s) == m_state' = IF m_state = "PowerDown" THEN m_state ELSE s

\* Reads m_state after the caller has set it; at PowerDown the sound stream is
\* left for Core to shut down.
RunAdjacentSystems(running) ==
  /\ fifo_running' = running
  /\ sound_running' = IF m_state' = "PowerDown" THEN sound_running ELSE running

\* A host enters a critical section of m_state_change_lock.
StateLockFree == ~m_state_change_lock

-----------------------------------------------------------------------------
\* CPUManager::Run, the CPU thread.

\* The CPU thread moves to pc, holding m_state_change_lock exactly when the
\* program point says so.
CpuGoto(pc) ==
  /\ cpu_pc' = pc
  /\ m_state_change_lock' = (pc \in CpuHolding)

\* Take m_state_change_lock, then move to pc.
CpuLockAndGoto(pc) == StateLockFree /\ CpuGoto(pc)

\* SetStepping called by the CPU thread itself: it does not wait for itself and
\* does not notify itself.
CpuSetStepping(stepping) ==
  /\ m_stepping_lock = NoThread /\ StateLockFree
  /\ SetStateLocked(IF stepping THEN "Stepping" ELSE "Running")
  /\ requested' = IF stepping THEN "Stepping" ELSE "Running"
  /\ IF ~stepping /\ m_state = "PowerDown"
     THEN UNCHANGED adjacentVars
     ELSE RunAdjacentSystems(~stepping)

\* The CPU thread past Core::CPUSetInitialExecutionState.
CpuLeaveBoot ==
  /\ cpu_pc = "Boot"
  /\ CpuGoto("Start")
  /\ UNCHANGED <<stepVars, pauseVars, notifyVars, m_state_cpu_thread_active,
                 jobVars, m_state_system_request_stepping>>

\* Core::CPUSetInitialExecutionState.  When Core::Stop has begun, Core::SetState
\* returns without touching the CPU.
CpuBoot ==
  /\ CpuLeaveBoot
  /\ \/ \E stepping \in BOOLEAN : CpuSetStepping(stepping)
     \/ UNCHANGED <<controlVars, adjacentVars>>

\* The entry of Run, line 119.
CpuEnterRun ==
  /\ cpu_pc = "Start"
  /\ CpuLockAndGoto("Loop")
  /\ UNCHANGED <<controlVars, stepVars, pauseVars, adjacentVars, notifyVars,
                 m_state_cpu_thread_active, jobVars, m_state_system_request_stepping>>

\* Lines 120-122: leave on PowerDown, else wait until no host has the lock.
CpuLoop ==
  /\ cpu_pc = "Loop"
  /\ CpuGoto(IF m_state = "PowerDown" THEN "Exit"
             ELSE IF m_state_paused_and_locked THEN "SleepUnlocked" ELSE "Jobs")
  /\ cpu_notified' = FALSE
  /\ UNCHANGED <<controlVars, stepVars, pauseVars, adjacentVars, idle_notified,
                 m_state_cpu_thread_active, jobVars, m_state_system_request_stepping>>

\* The callbacks of a changed configuration begin on thread t.  The one of the
\* video backend (VideoConfig.cpp:68-80) reads Core::IsRunning, which is Core's
\* to say and false once the CPU is powered down; when it is true, the callback
\* stops the FIFO and waits for the GPU thread, without a lock of its own.
RunCallbacks(t) ==
  \/ UNCHANGED <<fifo_running, in_callback>>
  \/ /\ m_state # "PowerDown" /\ t \notin in_callback
     /\ fifo_running' = FALSE
     /\ in_callback' = in_callback \cup {t}

\* VideoConfig.cpp:78-79: the callback ends and starts the FIFO, whatever the
\* CPU's state has become.  Run goes on when it was the caller.
EndCallback(t) ==
  /\ t \in in_callback
  /\ in_callback' = in_callback \ {t}
  /\ fifo_running' = TRUE
  /\ IF t = "Cpu"
     THEN CpuGoto(CASE cpu_pc = "Jobs" -> "Switch"
                    [] cpu_pc = "PredJobs" -> "Window"
                    [] OTHER -> cpu_pc)
     ELSE UNCHANGED <<cpu_pc, m_state_change_lock>>
  /\ UNCHANGED <<controlVars, stepVars, pauseVars, notifyVars, sound_running, m_pending_jobs,
                 s_should_run_callbacks, m_state_cpu_thread_active,
                 m_state_system_request_stepping>>

\* CPUThreadConfigCallback::CheckForConfigChanges, with m_state_change_lock held.
\* Run is at the program point `at' until a callback it began has ended.
CheckForConfigChanges(at, done) ==
  /\ s_should_run_callbacks' = FALSE
  /\ IF s_should_run_callbacks
     THEN RunCallbacks("Cpu") ELSE UNCHANGED <<fifo_running, in_callback>>
  /\ CpuGoto(IF "Cpu" \in in_callback' THEN at ELSE done)

\* ExecutePendingJobs (lines 59-69): each callback runs with the lock released.
\* When none is left, both callers check the configuration (lines 124 and 162).
\* `at' is the caller's program point, `job' that of the callback.
ExecutePendingJobs(at, job, done) ==
  /\ \/ /\ cpu_pc = at
        /\ IF m_pending_jobs > 0
           THEN /\ m_pending_jobs' = m_pending_jobs - 1
                /\ CpuGoto(job)
                /\ UNCHANGED <<s_should_run_callbacks, in_callback, fifo_running>>
           ELSE /\ CheckForConfigChanges(at, done)
                /\ UNCHANGED m_pending_jobs
     \/ /\ cpu_pc = job
        /\ CpuLockAndGoto(at)
        /\ UNCHANGED <<jobVars, fifo_running>>
  /\ UNCHANGED <<controlVars, stepVars, pauseVars, sound_running, notifyVars,
                 m_state_cpu_thread_active, m_state_system_request_stepping>>

\* Mutant: the wait predicate does not run jobs.
CpuPredJobsSkipped ==
  /\ cpu_pc = "PredJobs"
  /\ CpuGoto("Window")
  /\ UNCHANGED <<controlVars, stepVars, pauseVars, adjacentVars, notifyVars, jobVars,
                 m_state_cpu_thread_active, m_state_system_request_stepping>>

\* Lines 123-124, and lines 161-162 inside the wait predicate.
CpuJobs == ExecutePendingJobs("Jobs", "InJob", "Switch")
CpuPredJobs == ExecutePendingJobs("PredJobs", "InPredJob", "Window")

\* Line 127: switch (m_state).
CpuSwitch ==
  /\ cpu_pc = "Switch"
  /\ CpuGoto(CASE m_state = "Running" -> "Enter"
               [] m_state = "Stepping" -> "PredJobs"
               [] m_state = "PowerDown" -> "Loop")
  /\ m_state_cpu_thread_active' = (m_state = "Running")
  /\ UNCHANGED <<controlVars, stepVars, pauseVars, adjacentVars, notifyVars,
                 jobVars, m_state_system_request_stepping>>

\* Lines 138-141, without the lock: a breakpoint at the pc, or any watchpoint,
\* makes the CPU thread mark itself Stepping for one instruction.
CpuEnter ==
  /\ cpu_pc = "Enter"
  /\ \/ CpuGoto("RunLoop") /\ UNCHANGED m_state
     \/ BreakpointsSet /\ m_state' = "Stepping" /\ CpuGoto("DebugStep")
  /\ UNCHANGED <<stepVars, pauseVars, adjacentVars, notifyVars, requested, jobVars,
                 m_state_cpu_thread_active, m_state_system_request_stepping>>

\* Lines 144-146, without the lock: the instruction retires and m_state is set
\* back to Running whatever it has become meanwhile.
CpuDebugStep ==
  /\ cpu_pc = "DebugStep"
  /\ m_state' = "Running"
  /\ CpuGoto("RunLoop")
  /\ UNCHANGED <<stepVars, pauseVars, adjacentVars, notifyVars, requested, jobVars,
                 m_state_cpu_thread_active, m_state_system_request_stepping>>

\* Line 150: RunLoop returns after an unsynchronized read of m_state that is
\* not Running.
CpuRunLoop ==
  /\ cpu_pc = "RunLoop" /\ m_state # "Running"
  /\ CpuGoto("Leave")
  /\ UNCHANGED <<controlVars, stepVars, pauseVars, adjacentVars, notifyVars, jobVars,
                 m_state_cpu_thread_active, m_state_system_request_stepping>>

\* Mutant: waiting hosts are not notified.
CpuLeaveSilently ==
  /\ cpu_pc = "Leave"
  /\ CpuLockAndGoto("Loop")
  /\ m_state_cpu_thread_active' = FALSE
  /\ UNCHANGED <<controlVars, stepVars, pauseVars, adjacentVars, notifyVars, jobVars,
                 m_state_system_request_stepping>>

\* Lines 152-155: back to idle.
CpuLeave ==
  /\ cpu_pc = "Leave"
  /\ CpuLockAndGoto("Loop")
  /\ m_state_cpu_thread_active' = FALSE
  /\ NotifyIdle
  /\ UNCHANGED <<controlVars, stepVars, pauseVars, adjacentVars, cpu_notified, jobVars,
                 m_state_system_request_stepping>>

\* Line 183: the wait predicate takes the lock again after its unlocked window.
CpuWindow ==
  /\ cpu_pc = "Window"
  /\ CpuLockAndGoto("Pred")
  /\ UNCHANGED <<controlVars, stepVars, pauseVars, adjacentVars, notifyVars, jobVars,
                 m_state_cpu_thread_active, m_state_system_request_stepping>>

\* Mutant: without the test of line 213.
CpuPredIgnoresPause ==
  /\ cpu_pc = "Pred"
  /\ CpuGoto(IF m_state # "Stepping" THEN "Loop"
             ELSE IF m_state_cpu_step_instruction THEN "SingleStep" ELSE "SleepStep")
  /\ IF m_state # "Stepping" THEN FlushStepSyncEventLocked ELSE UNCHANGED stepVars
  /\ m_state_cpu_thread_active' = (m_state = "Stepping" /\ m_state_cpu_step_instruction)
  /\ cpu_notified' = FALSE
  /\ UNCHANGED <<controlVars, pauseVars, adjacentVars, idle_notified, jobVars,
                 m_state_system_request_stepping>>

\* Lines 184 and 207-218: the predicate's value, and what follows the wait.
CpuPred ==
  /\ cpu_pc = "Pred"
  /\ \/ /\ m_state # "Stepping"                  \* the mode changed
        /\ FlushStepSyncEventLocked
        /\ CpuGoto("Loop")
        /\ UNCHANGED <<m_state_cpu_thread_active, cpu_notified>>
     \/ /\ m_state = "Stepping" /\ m_state_cpu_step_instruction
        /\ m_state_cpu_thread_active' = ~m_state_paused_and_locked
        /\ CpuGoto(IF m_state_paused_and_locked THEN "Loop" ELSE "SingleStep")
        /\ UNCHANGED <<stepVars, cpu_notified>>
     \/ /\ m_state = "Stepping" /\ ~m_state_cpu_step_instruction
        /\ CpuGoto("SleepStep")
        /\ cpu_notified' = FALSE
        /\ UNCHANGED <<stepVars, m_state_cpu_thread_active>>
  /\ UNCHANGED <<controlVars, pauseVars, adjacentVars, idle_notified, jobVars,
                 m_state_system_request_stepping>>

\* Lines 220-228: one instruction, then idle again, then the caller's event.
CpuSingleStep ==
  /\ cpu_pc = "SingleStep"
  /\ CpuLockAndGoto("Loop")
  /\ m_state_cpu_thread_active' = FALSE
  /\ NotifyIdle
  /\ FlushStepSyncEventLocked
  /\ UNCHANGED <<controlVars, pauseVars, adjacentVars, cpu_notified, jobVars,
                 m_state_system_request_stepping>>

\* The CPU thread returns from a wait on m_state_cpu_cvar and evaluates the
\* wait's condition again: it was notified, or the 2 ms wait of lines 187-202
\* timed out (the present that runs between two such waits is an unlocked pause
\* like the wait itself), or the wake-up is spurious.  Only the first is fair:
\* but for a single core that feeds a headset, line 205 waits without a timeout.
\* Line 122 waits for the end of the pause only: a Stop does not end that wait.
CpuResume ==
  /\ cpu_pc \in CpuAsleep
  /\ CpuLockAndGoto(IF cpu_pc = "SleepStep" THEN "PredJobs"
                    ELSE IF m_state_paused_and_locked THEN "SleepUnlocked" ELSE "Jobs")
  /\ cpu_notified' = FALSE
  /\ UNCHANGED <<controlVars, stepVars, pauseVars, adjacentVars, idle_notified, jobVars,
                 m_state_cpu_thread_active, m_state_system_request_stepping>>

\* CPUManager::Break, lines 351-367.
BreakLocked ==
  /\ StateLockFree
  /\ requested' = "Stepping"
  /\ IF m_state_paused_and_locked
     THEN /\ m_state_system_request_stepping' = TRUE
          /\ UNCHANGED <<m_state, adjacentVars>>
     ELSE /\ SetStateLocked("Stepping")
          /\ RunAdjacentSystems(FALSE)
          /\ UNCHANGED m_state_system_request_stepping
  /\ UNCHANGED <<stepVars, pauseVars, cpuVars, notifyVars, jobVars>>

\* Guest code, or a job, calls it.
Break ==
  /\ cpu_pc \in {"DebugStep", "RunLoop", "SingleStep"} \cup CpuJob
  /\ "Cpu" \notin in_callback
  /\ BreakLocked

\* CPUThreadConfigCallback's OnConfigChanged, on any thread, without a lock: the
\* CPU thread, or the host that stands in for it, runs the callbacks at once.
\* Guest code also gets here through CoreTiming::Advance (CoreTiming.cpp:399).
OnConfigChanged ==
  /\ ConfigChanges
  /\ \/ s_should_run_callbacks' = TRUE /\ UNCHANGED <<fifo_running, in_callback>>
     \/ /\ s_should_run_callbacks' = FALSE
        /\ \/ cpu_pc \in CpuGuest \cup CpuJob /\ RunCallbacks("Cpu")
           \/ \E h \in Hosts : host_pc[h] = "Locked" /\ RunCallbacks(h)
  /\ UNCHANGED <<controlVars, stepVars, pauseVars, cpuVars, notifyVars, sound_running,
                 m_pending_jobs, m_state_system_request_stepping>>

-----------------------------------------------------------------------------
\* The host threads.

HostGoto(h, pc) == host_pc' = [host_pc EXCEPT ![h] = pc]

\* A wait on m_state_cpu_idle_cvar ends, notified or spuriously.
IdleWake(h) == StateLockFree /\ idle_notified' = idle_notified \ {h}

\* SetStepping(false), lines 327-328 and 342-348.
SetSteppingOff(h) ==
  /\ host_pc[h] = "Idle" /\ m_stepping_lock = NoThread /\ StateLockFree
  /\ requested' = "Running"
  /\ SetStateLocked("Running")
  /\ IF m_state = "PowerDown"
     THEN UNCHANGED <<adjacentVars, cpu_notified>>
     ELSE NotifyCpu /\ RunAdjacentSystems(TRUE)
  /\ UNCHANGED <<stepVars, pauseVars, cpuVars, idle_notified, jobVars,
                 m_state_system_request_stepping>>

\* Lines 336-340: wait while the CPU thread is active, else finish.
SteppingWaitOrFinish(h) ==
  /\ HostGoto(h, IF m_state_cpu_thread_active THEN "SteppingWait" ELSE "Idle")
  /\ m_stepping_lock' = IF m_state_cpu_thread_active THEN h ELSE NoThread
  /\ IF m_state_cpu_thread_active THEN UNCHANGED adjacentVars ELSE RunAdjacentSystems(FALSE)
  /\ UNCHANGED <<stepVars, cpuVars, cpu_notified, jobVars, m_state_paused_and_locked,
                 m_have_fake_cpu_thread, was_unpaused, m_state_system_request_stepping>>

\* SetStepping(true), lines 327-340.
SetSteppingOn(h) ==
  /\ host_pc[h] = "Idle" /\ m_stepping_lock = NoThread /\ StateLockFree
  /\ requested' = "Stepping"
  /\ SetStateLocked("Stepping")
  /\ SteppingWaitOrFinish(h)
  /\ UNCHANGED idle_notified

SetSteppingResume(h) ==
  /\ host_pc[h] = "SteppingWait"
  /\ IdleWake(h)
  /\ UNCHANGED controlVars
  /\ SteppingWaitOrFinish(h)

\* Lines 385-398: wait while the CPU thread is active, else become the CPU
\* thread's temporary replacement.
PauseWaitOrLock(h) ==
  /\ HostGoto(h, IF m_state_cpu_thread_active THEN "PauseWait" ELSE "Locked")
  /\ m_have_fake_cpu_thread' = ~m_state_cpu_thread_active
  /\ UNCHANGED <<stepVars, adjacentVars, cpu_notified, jobVars, requested,
                 m_state_cpu_thread_active, m_state_system_request_stepping>>

\* PauseAndLock, lines 377-387.
PauseAndLock(h) ==
  /\ host_pc[h] = "Idle" /\ m_stepping_lock = NoThread /\ StateLockFree
  /\ m_stepping_lock' = h
  /\ m_state_paused_and_locked' = TRUE
  /\ was_unpaused' = [was_unpaused EXCEPT ![h] = m_state = "Running"]
  /\ SetStateLocked("Stepping")
  /\ PauseWaitOrLock(h)
  /\ UNCHANGED <<cpu_pc, m_state_change_lock, idle_notified>>

\* The same, with the unlocked store of line 146 landing between the read of
\* line 382 and the store of line 383.
PauseAndLockOverDebugStep(h) ==
  /\ host_pc[h] = "Idle" /\ m_stepping_lock = NoThread /\ StateLockFree
  /\ cpu_pc = "DebugStep" /\ m_state = "Stepping" /\ "Cpu" \notin in_callback
  /\ m_stepping_lock' = h
  /\ m_state_paused_and_locked' = TRUE
  /\ was_unpaused' = [was_unpaused EXCEPT ![h] = FALSE]
  /\ CpuGoto("RunLoop")
  /\ PauseWaitOrLock(h)
  /\ UNCHANGED <<m_state, idle_notified>>

PauseResume(h) ==
  /\ host_pc[h] = "PauseWait"
  /\ IdleWake(h)
  /\ PauseWaitOrLock(h)
  /\ UNCHANGED <<m_state, m_stepping_lock, m_state_paused_and_locked, was_unpaused,
                 cpu_pc, m_state_change_lock>>

\* Mutant: a Break during the pause is not remembered.
RestoreForgetsBreak(h) ==
  /\ host_pc[h] = "Locked" /\ h \notin in_callback /\ StateLockFree
  /\ m_have_fake_cpu_thread' = FALSE
  /\ m_state_system_request_stepping' = FALSE
  /\ IF was_unpaused[h] THEN SetStateLocked("Running") ELSE UNCHANGED m_state
  /\ m_state_paused_and_locked' = FALSE
  /\ NotifyCpu
  /\ RunAdjacentSystems(m_state' = "Running")
  /\ m_stepping_lock' = NoThread
  /\ HostGoto(h, "Idle")
  /\ UNCHANGED <<stepVars, cpuVars, idle_notified, requested, jobVars, was_unpaused>>

\* Mutant: FIFO and sound are told what the caller paused, not what m_state is.
RestoreRunsAdjacent(h) ==
  /\ host_pc[h] = "Locked" /\ h \notin in_callback /\ StateLockFree
  /\ m_have_fake_cpu_thread' = FALSE
  /\ m_state_system_request_stepping' = FALSE
  /\ IF ~m_state_system_request_stepping /\ was_unpaused[h]
     THEN SetStateLocked("Running") ELSE UNCHANGED m_state
  /\ m_state_paused_and_locked' = FALSE
  /\ NotifyCpu
  /\ RunAdjacentSystems(was_unpaused[h])
  /\ m_stepping_lock' = NoThread
  /\ HostGoto(h, "Idle")
  /\ UNCHANGED <<stepVars, cpuVars, idle_notified, requested, jobVars, was_unpaused>>

\* RestoreStateAndUnlock, lines 403-428, given what PauseAndLock returned.
RestoreStateAndUnlock(h) ==
  /\ host_pc[h] = "Locked" /\ h \notin in_callback /\ StateLockFree
  /\ m_have_fake_cpu_thread' = FALSE
  /\ m_state_system_request_stepping' = FALSE
  /\ IF ~m_state_system_request_stepping /\ was_unpaused[h]
     THEN SetStateLocked("Running") ELSE UNCHANGED m_state
  /\ m_state_paused_and_locked' = FALSE
  /\ NotifyCpu
  /\ RunAdjacentSystems(m_state' = "Running")
  /\ m_stepping_lock' = NoThread
  /\ HostGoto(h, "Idle")
  /\ UNCHANGED <<stepVars, cpuVars, idle_notified, requested, jobVars, was_unpaused>>

\* AddCPUThreadJob, lines 430-434, called between PauseAndLock and
\* RestoreStateAndUnlock as Core::RunOnCPUThread does.  It notifies nobody.
AddCPUThreadJob(h) ==
  /\ host_pc[h] = "Locked" /\ h \notin in_callback /\ StateLockFree
  /\ m_pending_jobs < MaxJobs
  /\ m_pending_jobs' = m_pending_jobs + 1
  /\ UNCHANGED <<controlVars, stepVars, pauseVars, adjacentVars, cpuVars, notifyVars,
                 s_should_run_callbacks, in_callback, m_state_system_request_stepping>>

\* StepOpcode, lines 294-312, with an event on the caller's stack.
StepOpcode(h) ==
  /\ host_pc[h] = "Idle" /\ StateLockFree
  /\ IF m_state # "Stepping"
     THEN /\ event_set' = event_set \cup {h}
          /\ UNCHANGED <<m_state_cpu_step_instruction, m_state_cpu_step_instruction_sync,
                         cpu_notified>>
     ELSE /\ event_set' = (event_set \ {h}) \cup
                            ({m_state_cpu_step_instruction_sync} \ {NoThread, h})
          /\ m_state_cpu_step_instruction' = TRUE
          /\ m_state_cpu_step_instruction_sync' = h
          /\ NotifyCpu
  /\ HostGoto(h, "StepWait")
  /\ UNCHANGED <<controlVars, adjacentVars, cpuVars, idle_notified, jobVars,
                 m_stepping_lock, m_state_paused_and_locked, m_have_fake_cpu_thread,
                 was_unpaused, m_state_system_request_stepping>>

\* The caller's WaitFor returns: the event was signalled, or it timed out.
StepReturn(h) ==
  /\ host_pc[h] = "StepWait"
  /\ HostGoto(h, "Idle")
  /\ event_set' = event_set \ {h}
  /\ UNCHANGED <<controlVars, adjacentVars, cpuVars, notifyVars, jobVars,
                 m_state_cpu_step_instruction, m_state_cpu_step_instruction_sync,
                 m_stepping_lock, m_state_paused_and_locked, m_have_fake_cpu_thread,
                 was_unpaused, m_state_system_request_stepping>>

\* Lines 266-272: wait while the CPU thread is active, else finish.
StopWaitOrFinish(h) ==
  /\ HostGoto(h, IF m_state_cpu_thread_active THEN "StopWait" ELSE "Stopped")
  /\ IF m_state_cpu_thread_active
     THEN UNCHANGED <<adjacentVars, stepVars>>
     ELSE RunAdjacentSystems(FALSE) /\ FlushStepSyncEventLocked
  /\ UNCHANGED <<cpuVars, jobVars, requested, m_stepping_lock, m_state_paused_and_locked,
                 m_have_fake_cpu_thread, was_unpaused, m_state_system_request_stepping>>

\* Mutant: the CPU thread is not notified.
StopSilently(h) ==
  /\ host_pc[h] = "Idle" /\ StateLockFree
  /\ \A g \in Hosts : host_pc[g] \notin {"StopWait", "Stopped"}
  /\ m_state' = "PowerDown"
  /\ StopWaitOrFinish(h)
  /\ UNCHANGED notifyVars

\* Stop, lines 257-269; Core::Stop lets one caller through.
Stop(h) ==
  /\ host_pc[h] = "Idle" /\ StateLockFree
  /\ \A g \in Hosts : host_pc[g] \notin {"StopWait", "Stopped"}
  /\ m_state' = "PowerDown"
  /\ NotifyCpu
  /\ StopWaitOrFinish(h)
  /\ UNCHANGED idle_notified

StopResume(h) ==
  /\ host_pc[h] = "StopWait"
  /\ IdleWake(h)
  /\ UNCHANGED <<m_state, cpu_notified>>
  /\ StopWaitOrFinish(h)

-----------------------------------------------------------------------------
\* A callback of a changed configuration keeps its thread from going on.
CpuStep ==
  /\ "Cpu" \notin in_callback
  /\ \/ CpuBoot \/ CpuEnterRun \/ CpuLoop \/ CpuJobs \/ CpuSwitch
     \/ CpuEnter \/ CpuDebugStep \/ CpuRunLoop \/ CpuLeave
     \/ CpuPredJobs \/ CpuWindow \/ CpuPred \/ CpuSingleStep

ConfigStep == OnConfigChanged \/ \E t \in Threads : EndCallback(t)

HostStep(h) ==
  \/ SetSteppingOff(h) \/ SetSteppingOn(h) \/ SetSteppingResume(h)
  \/ host_pc[h] = "Idle" /\ (PauseAndLock(h) \/ PauseAndLockOverDebugStep(h))
  \/ PauseResume(h)
  \/ RestoreStateAndUnlock(h) \/ AddCPUThreadJob(h)
  \/ StepOpcode(h) \/ StepReturn(h) \/ Stop(h) \/ StopResume(h)

Next == CpuStep \/ CpuResume \/ Break \/ ConfigStep \/ \E h \in Hosts : HostStep(h)

Safety == Init /\ [][Next]_vars

\* The CPU thread moves on and answers notifications.
CpuProgress == CpuStep \/ (cpu_notified /\ CpuResume)

\* A host answers notifications and ends the pause it began: a CPUThreadGuard is
\* a scope.
HostProgress(h) ==
  \/ h \in idle_notified /\ (SetSteppingResume(h) \/ PauseResume(h) \/ StopResume(h))
  \/ RestoreStateAndUnlock(h)

\* The threads compete for the two mutexes: strong fairness says that none
\* starves on one, and that a thread also moves on between two callbacks.
Fairness ==
  /\ SF_vars(CpuProgress)
  /\ \A h \in Hosts : SF_vars(HostProgress(h))
  /\ \A t \in Threads : WF_vars(EndCallback(t))

Spec == Safety /\ Fairness

-----------------------------------------------------------------------------
\* Properties.

\* Types of the variables.
TypeOK ==
  /\ m_state \in State /\ requested \in {"Running", "Stepping"}
  /\ m_stepping_lock \in Hosts \cup {NoThread}
  /\ m_state_change_lock \in BOOLEAN
  /\ m_state_cpu_thread_active \in BOOLEAN
  /\ m_state_paused_and_locked \in BOOLEAN
  /\ m_state_system_request_stepping \in BOOLEAN
  /\ m_state_cpu_step_instruction \in BOOLEAN
  /\ m_state_cpu_step_instruction_sync \in Hosts \cup {NoThread}
  /\ m_pending_jobs \in 0..MaxJobs /\ s_should_run_callbacks \in BOOLEAN
  /\ in_callback \subseteq Threads
  /\ m_have_fake_cpu_thread \in BOOLEAN
  /\ cpu_pc \in CpuPc /\ cpu_notified \in BOOLEAN /\ idle_notified \subseteq Hosts
  /\ host_pc \in [Hosts -> HostPc] /\ was_unpaused \in [Hosts -> BOOLEAN]
  /\ event_set \subseteq Hosts
  /\ fifo_running \in BOOLEAN /\ sound_running \in BOOLEAN

\* What PauseAndLock is for: while a host has the CPU locked, the CPU thread is
\* not executing guest code and no other host has it locked, whatever jobs,
\* steps, breakpoints and shutdowns race with it (CPU.h:89-91).
LockedHostExcludesGuest ==
  \A h \in Hosts : host_pc[h] = "Locked" =>
    /\ cpu_pc \notin CpuGuest
    /\ \A g \in Hosts : host_pc[g] = "Locked" => g = h

\* The execution state is the one last asked for by SetStepping or Break once
\* nobody holds the CPU: RestoreStateAndUnlock neither undoes a Break that came
\* during the pause nor resumes a CPU it did not pause (CPU.cpp:355-361, 412-421).
IntentHonoured ==
  (m_state # "PowerDown" /\ ~m_state_paused_and_locked) => m_state = requested

\* FIFO and sound run exactly when the CPU does, once no host is in the middle
\* of SetStepping or of a pause (CPU.cpp:248-255), but for the callback of a
\* changed configuration (VideoConfig.cpp:72-79), which stops the FIFO while it
\* lasts and starts it at its end, even that of a paused CPU.
AdjacentFollowsState ==
  (m_state # "PowerDown" /\ m_stepping_lock = NoThread) =>
    /\ m_state = "Running" => (fifo_running \/ in_callback # {})
    /\ fifo_running => (m_state = "Running" \/ ConfigChanges)
    /\ sound_running <=> (m_state = "Running")

Stopped == \E h \in Hosts : host_pc[h] = "Stopped"

\* Once Stop has returned, guest code never runs again, no step request is left
\* behind and the FIFO is stopped, though other hosts still hold, release and
\* step the CPU (CPU.cpp:257-273).  Only a callback of a changed configuration
\* that had begun before can start the FIFO again (VideoConfig.cpp:79), and none
\* begins any more.
StopIsFinal ==
  /\ [](Stopped => cpu_pc \notin CpuGuest /\ ~m_state_cpu_step_instruction)
  /\ [][Stopped' /\ fifo_running' =>
           Stopped /\ (fifo_running \/ \E t \in in_callback : EndCallback(t))]_vars
  /\ [][Stopped => in_callback' \subseteq in_callback]_vars

\* A host waiting for the CPU thread in PauseAndLock gets it (CPU.cpp:385-388).
PauseEventuallyGranted ==
  \A h \in Hosts : host_pc[h] = "PauseWait" ~> host_pc[h] = "Locked"

\* Once powered down, Run returns, and so does the Stop that waits for the CPU
\* thread, unless hosts keep pausing the CPU for ever (CPU.cpp:120, 257-273).
StopEventuallyExits ==
  <>[](~m_state_paused_and_locked) =>
    /\ m_state = "PowerDown" ~> cpu_pc = "Exit"
    /\ \A h \in Hosts : host_pc[h] = "StopWait" ~> host_pc[h] = "Stopped"

\* Core.h:160 says of Core::RunOnCPUThread, which queues the job and releases
\* the CPU: "Run a function on the CPU thread, asynchronously."  Unless hosts
\* keep pausing the CPU for ever, a queued job runs.
JobsEventuallyRun ==
  <>[](~m_state_paused_and_locked) =>
    (m_pending_jobs > 0 ~> (m_pending_jobs = 0 \/ m_state = "PowerDown"))

\* What the code does see to: a queued job runs once the CPU goes on running, and
\* also on a stepping CPU when the CPU thread was asleep to hear that the pause in
\* which the job was queued has ended (CPU.cpp:123, 161).
JobsRunWhenHeard ==
  /\ <>[](m_state = "Running") => (m_pending_jobs > 0 ~> m_pending_jobs = 0)
  /\ <>[](~m_state_paused_and_locked) =>
       ((m_pending_jobs > 0 /\ cpu_notified) ~> (m_pending_jobs = 0 \/ m_state = "PowerDown"))

=============================================================================
