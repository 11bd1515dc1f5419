----------------------------- MODULE CoreProofs -----------------------------
(***************************************************************************)
(* Proofs about Core composed with CPUManager, for any set of hosts, any   *)
(* number of sessions and with or without breakpoints.                     *)
(***************************************************************************)
EXTENDS Core, CPUManagerProofs

-----------------------------------------------------------------------------
\* The invariant: s_core_mutex decides who may be inside CPUManager, and
\* s_state is only ever stored while it is held.

\* A call that spans several steps holds s_core_mutex; the CPU is paused by the
\* calls that found the core running, and the core still is.
CallInv ==
  \A h \in Hosts :
    /\ core_op[h] \in {"SetState", "Guard", "RunOnCPU", "RunDirect"} => s_core_mutex = h
    /\ host_pc[h] = "SteppingWait" => core_op[h] = "SetState"
    /\ host_pc[h] \in {"PauseWait", "Locked"} => core_op[h] \in {"Guard", "RunOnCPU"} /\ IsRunning
    /\ (core_op[h] \in {"Guard", "RunOnCPU"} /\ IsRunning) => host_pc[h] \in {"PauseWait", "Locked"}
    /\ core_op[h] = "RunDirect" => ~IsRunning

\* How far EmuThread can be in each state of the core.
SessionInv ==
  /\ emu_pc # "Run" => cpu_pc \in {"Boot", "Exit"}
  /\ s_state = "Uninitialized" <=> emu_pc = "None"
  /\ emu_pc \in {"Config", "Hardware", "Boot"} => s_state \in {"Starting", "Stopping"}
  /\ emu_pc \in {"Ready", "Run"} => s_state \in {"Running", "Stopping"}

CoreIInv == CoreTypeOK /\ ExclusionInv /\ CallInv /\ SessionInv

\* When s_core_mutex is free, no host is inside CPUManager's pause.
LEMMA MutexFree ==
  ASSUME CoreIInv, s_core_mutex \notin Hosts
  PROVE  /\ \A h \in Hosts : host_pc[h] \notin {"SteppingWait", "PauseWait", "Locked"}
         /\ m_stepping_lock = NoThread /\ ~m_state_paused_and_locked
<1>1. \A h \in Hosts : host_pc[h] \notin {"SteppingWait", "PauseWait", "Locked"}
  BY DEF CoreIInv, CallInv
<1>2. m_stepping_lock = NoThread
  BY <1>1 DEF CoreIInv, ExclusionInv, SteppingLockInv, TypeOK
<1> QED
  BY <1>1, <1>2, HostsAssumption DEF CoreIInv, ExclusionInv, PausedInv

\* The CPU thread's steps leave the hosts alone.
LEMMA CpuKeepsHosts ==
  ASSUME CpuStep \/ CpuResume \/ BreakLocked
  PROVE  host_pc' = host_pc
BY DEF CpuStep, CpuResume, BreakLocked, CpuBoot, CpuLeaveBoot, CpuEnterRun, CpuLoop, CpuJobs, CpuSwitch, CpuEnter,
       CpuDebugStep, CpuRunLoop, CpuLeave, CpuPredJobs, CpuWindow, CpuPred, CpuSingleStep,
       ExecutePendingJobs, pauseVars

\* The hosts' steps leave the CPU thread where it is, but for line 146.
LEMMA HostsKeepCpu ==
  ASSUME NEW h \in Hosts, HostStep(h)
  PROVE  cpu_pc' = cpu_pc \/ (cpu_pc = "DebugStep" /\ cpu_pc' = "RunLoop")
BY DEF HostStep, SetSteppingOff, SetSteppingOn, SetSteppingResume, SteppingWaitOrFinish,
       PauseAndLock, PauseAndLockOverDebugStep, PauseResume, RestoreStateAndUnlock, AddCPUThreadJob,
       StepOpcode, StepReturn, Stop, StopResume, StopWaitOrFinish, cpuVars, CpuGoto

\* A pause is a step of its host, whichever way it meets the store of line 146.
LEMMA PauseIsHostStep ==
  ASSUME NEW h \in Hosts, PauseAndLock(h) \/ PauseAndLockOverDebugStep(h)
  PROVE  HostStep(h)
<1>1. host_pc[h] = "Idle" BY DEF PauseAndLock, PauseAndLockOverDebugStep
<1> QED BY <1>1 DEF HostStep

-----------------------------------------------------------------------------
\* CPUManager's own invariant survives the composition.

LEMMA CpuStepKeeps ==
  ASSUME ExclusionInv, CpuActs
  PROVE  ExclusionInv'
BY CpuTypeStep, CpuExclusionStep DEF ExclusionInv

LEMMA HostStepKeeps ==
  ASSUME ExclusionInv, NEW h \in Hosts, HostStep(h)
  PROVE  ExclusionInv'
BY HostTypeStep, HostExclusionStep DEF ExclusionInv

LEMMA StutterKeeps ==
  ASSUME ExclusionInv, UNCHANGED vars
  PROVE  ExclusionInv'
BY DEF ExclusionInv, TypeOK, ActiveInv, SteppingLockInv, PausedInv, IdleInv, vars, controlVars,
       stepVars, pauseVars, adjacentVars, cpuVars, notifyVars, jobVars

\* The steps that Core adds to those of CPUManager.
LEMMA InitCoreKeeps ==
  ASSUME CoreIInv, NEW h \in Hosts, InitCore(h)
  PROVE  ExclusionInv'
<1>1. ~m_state_paused_and_locked /\ ~m_state_cpu_thread_active
  BY MutexFree, HostsAssumption DEF InitCore, CoreIInv, SessionInv, ExclusionInv, ActiveInv, CpuGuest
<1>2. TypeOK'
  BY GotoType, CpuPcMembers
  DEF InitCore, CoreIInv, ExclusionInv, TypeOK, controlVars, stepVars, pauseVars, adjacentVars,
      notifyVars, jobVars
<1> QED
  BY <1>1, <1>2
  DEF InitCore, CoreIInv, ExclusionInv, ActiveInv, SteppingLockInv, PausedInv, IdleInv, CpuGoto,
      CpuGuest, controlVars, pauseVars

LEMMA InitHardwareKeeps ==
  ASSUME CoreIInv, EmuInitHardware
  PROVE  ExclusionInv'
<1>1. TypeOK'
  BY StateMembers
  DEF EmuInitHardware, CoreIInv, ExclusionInv, TypeOK, stepVars, pauseVars, adjacentVars, cpuVars,
      notifyVars
<1> QED
  BY <1>1
  DEF EmuInitHardware, CoreIInv, ExclusionInv, ActiveInv, SteppingLockInv, PausedInv, IdleInv,
      pauseVars, cpuVars

LEMMA BreakKeeps ==
  ASSUME ExclusionInv, BreakLocked
  PROVE  ExclusionInv'
<1>1. TypeOK'
  BY SetStateType, AdjacentType, StateMembers
  DEF BreakLocked, ExclusionInv, TypeOK, stepVars, pauseVars, adjacentVars, cpuVars, notifyVars,
      jobVars
<1> QED
  BY <1>1
  DEF BreakLocked, SetStateLocked, ExclusionInv, ActiveInv, SteppingLockInv, PausedInv, IdleInv,
      pauseVars, cpuVars

LEMMA ShutdownHardwareKeeps ==
  ASSUME CoreIInv, EmuShutdownHardware
  PROVE  ExclusionInv'
<1>1. TypeOK'
  BY AdjacentType, FlushType, StateMembers, CpuPcMembers
  DEF EmuShutdownHardware, CoreIInv, ExclusionInv, TypeOK, pauseVars, notifyVars, jobVars
<1> QED
  BY <1>1
  DEF EmuShutdownHardware, CoreIInv, ExclusionInv, ActiveInv, SteppingLockInv, PausedInv, IdleInv,
      CpuGuest, pauseVars

LEMMA AdjacentKeeps ==
  ASSUME ExclusionInv, fifo_running' \in BOOLEAN, sound_running' \in BOOLEAN,
         UNCHANGED <<controlVars, stepVars, pauseVars, cpuVars, notifyVars, jobVars,
                     m_state_system_request_stepping>>
  PROVE  ExclusionInv'
BY DEF ExclusionInv, TypeOK, ActiveInv, SteppingLockInv, PausedInv, IdleInv, controlVars, stepVars,
       pauseVars, cpuVars, notifyVars, jobVars

LEMMA StopReturnKeeps ==
  ASSUME ExclusionInv, NEW h \in Hosts, host_pc[h] = "Stopped", HostGoto(h, "Idle"),
         UNCHANGED <<controlVars, stepVars, adjacentVars, cpuVars, notifyVars, jobVars,
                     m_state_system_request_stepping, m_stepping_lock,
                     m_state_paused_and_locked, m_have_fake_cpu_thread, was_unpaused>>
  PROVE  ExclusionInv'
<1>1. TypeOK'
  BY HostGotoType, HostPcMembers
  DEF ExclusionInv, TypeOK, controlVars, stepVars, adjacentVars, cpuVars, notifyVars, jobVars
<1> QED
  BY <1>1
  DEF HostGoto, ExclusionInv, TypeOK, ActiveInv, SteppingLockInv, PausedInv, IdleInv, controlVars,
      cpuVars

LEMMA EmuKeeps ==
  ASSUME CoreIInv,
         EmuStep \/ EmuCpuWake \/ EmuCpuBreak \/ EmuConfigChanged \/ TryRunUnlessPausedAndLocked
  PROVE  ExclusionInv'
<1> USE DEF CoreIInv, cpuManagerVars
<1>1. CASE EmuInitHardware
  BY <1>1, InitHardwareKeeps
<1>2. CASE EmuBreak
  BY <1>2, BreakKeeps DEF EmuBreak
<1>3. CASE EmuFail \/ EmuReady \/ EmuLeaveRun \/ TryRunUnlessPausedAndLocked
  BY <1>3, StutterKeeps DEF EmuFail, EmuReady, EmuLeaveRun, TryRunUnlessPausedAndLocked
<1>4. CASE EmuRun
  BY <1>4, CpuStepKeeps DEF EmuRun, CpuActs, CpuBoot
<1>5. CASE EmuCpuStep \/ EmuCpuWake \/ EmuCpuBreak \/ EmuConfigChanged
  BY <1>5, CpuStepKeeps DEF CpuActs, EmuCpuStep, EmuCpuWake, EmuCpuBreak, EmuConfigChanged
<1>6. CASE EmuShutdownHardware
  BY <1>6, ShutdownHardwareKeeps
<1>7. CASE EmuFlag
  BY <1>7, AdjacentKeeps DEF EmuFlag, ExclusionInv, TypeOK
<1> QED
  BY <1>1, <1>2, <1>3, <1>4, <1>5, <1>6, <1>7 DEF EmuStep

LEMMA CallKeeps ==
  ASSUME CoreIInv, NEW h \in Hosts, CoreCallStep(h) \/ CoreCall(h)
  PROVE  ExclusionInv'
<1> USE DEF CoreIInv, cpuManagerVars
<1>1. CASE InitCore(h)
  BY <1>1, InitCoreKeeps
<1>2. CASE StopCore(h)
  BY <1>2, StutterKeeps DEF StopCore
<1>3. CASE SetState(h) \/ SetStateResume(h)
  BY <1>3, HostStepKeeps DEF SetState, SetStateResume, HostStep
<1>4. CASE CPUThreadGuard(h) \/ RunOnCPUThread(h)
  BY <1>4, HostStepKeeps, PauseIsHostStep, StutterKeeps
  DEF CPUThreadGuard, RunOnCPUThread, PauseAndLockCore
<1>5. CASE StepOpcodeCore(h)
  BY <1>5, HostStepKeeps DEF StepOpcodeCore, HostStep
<1>6. CASE StopFifo(h)
  BY <1>6, AdjacentKeeps DEF StopFifo, ExclusionInv, TypeOK
<1>7. CASE StopCpu(h)
  BY <1>7, HostStepKeeps, StopReturnKeeps DEF StopCpu, HostStep
<1>8. CASE PauseAndLockResume(h)
  BY <1>8, HostStepKeeps DEF PauseAndLockResume, HostStep
<1>9. CASE RunOnCPUThreadBody(h)
  BY <1>9, HostStepKeeps, StutterKeeps DEF RunOnCPUThreadBody, HostStep
<1>10. CASE RestoreStateAndUnlockCore(h)
  BY <1>10, HostStepKeeps, StutterKeeps DEF RestoreStateAndUnlockCore, HostStep
<1> QED
  BY <1>1, <1>2, <1>3, <1>4, <1>5, <1>6, <1>7, <1>8, <1>9, <1>10 DEF CoreCallStep, CoreCall

-----------------------------------------------------------------------------
\* Core's own invariant.

LEMMA CoreMembers ==
  /\ "Uninitialized" \in CoreState /\ "Starting" \in CoreState
  /\ "Running" \in CoreState /\ "Stopping" \in CoreState
  /\ "None" \in EmuPc /\ "Config" \in EmuPc /\ "Hardware" \in EmuPc /\ "Boot" \in EmuPc
  /\ "Ready" \in EmuPc /\ "Run" \in EmuPc /\ "Shutdown" \in EmuPc /\ "Flag" \in EmuPc
  /\ "None" \in CoreOp /\ "SetState" \in CoreOp /\ "Guard" \in CoreOp /\ "RunOnCPU" \in CoreOp
  /\ "RunDirect" \in CoreOp /\ "StopFifo" \in CoreOp /\ "StopCpu" \in CoreOp
  /\ "StopWait" \in CoreOp
BY DEF CoreState, EmuPc, CoreOp

\* EmuThread and the video thread.
LEMMA EmuCoreStep ==
  ASSUME CoreIInv,
         EmuStep \/ EmuCpuWake \/ EmuCpuBreak \/ EmuConfigChanged \/ TryRunUnlessPausedAndLocked
  PROVE  (CoreTypeOK /\ CallInv /\ SessionInv)'
<1> USE CoreMembers, HostsAssumption, CoreAssumption
    DEF CoreIInv, CoreTypeOK, CallInv, SessionInv, IsRunning, coreVars
<1>1. CASE EmuInitHardware
  BY <1>1 DEF EmuInitHardware, pauseVars, cpuVars
<1>2. CASE EmuBreak
  BY <1>2 DEF EmuBreak, BreakLocked, pauseVars, cpuVars
<1>3. CASE EmuFail \/ EmuLeaveRun
  BY <1>3 DEF EmuFail, EmuLeaveRun, cpuManagerVars, vars, pauseVars, cpuVars
<1>4. CASE EmuReady
  <2>1. \A h \in Hosts : host_pc[h] \notin {"SteppingWait", "PauseWait", "Locked"}
    BY <1>4, MutexFree DEF EmuReady
  <2> QED
    BY <1>4, <2>1 DEF EmuReady, cpuManagerVars, vars, pauseVars, cpuVars
<1>5. CASE EmuRun
  BY <1>5 DEF EmuRun, CpuLeaveBoot, pauseVars
<1>6. CASE EmuCpuStep \/ EmuCpuWake \/ EmuCpuBreak
  <2>1. host_pc' = host_pc /\ emu_pc = "Run" /\ UNCHANGED coreVars
    BY <1>6, CpuKeepsHosts DEF EmuCpuStep, EmuCpuWake, EmuCpuBreak, Break
  <2> QED
    BY <2>1
<1>7. CASE EmuShutdownHardware
  BY <1>7 DEF EmuShutdownHardware, pauseVars
<1>8. CASE EmuFlag
  <2>1. \A h \in Hosts : host_pc[h] \notin {"SteppingWait", "PauseWait", "Locked"}
    BY <1>8, MutexFree DEF EmuFlag
  <2> QED
    BY <1>8, <2>1 DEF EmuFlag, pauseVars, cpuVars
<1>9. CASE TryRunUnlessPausedAndLocked
  BY <1>9 DEF TryRunUnlessPausedAndLocked, SessionUnchanged, cpuManagerVars, vars, pauseVars,
              cpuVars
<1>10. CASE EmuConfigChanged
  BY <1>10 DEF EmuConfigChanged, ConfigStep, OnConfigChanged, EndCallback, CpuGoto, pauseVars, cpuVars
<1> QED
  BY <1>1, <1>2, <1>3, <1>4, <1>5, <1>6, <1>7, <1>8, <1>9, <1>10 DEF EmuStep

\* A host's call moves the CPU thread at most over line 146.
LEMMA CallKeepsSession ==
  ASSUME SessionInv, SessionUnchanged, NEW h \in Hosts, HostStep(h) \/ UNCHANGED vars
  PROVE  SessionInv'
BY HostsKeepCpu DEF SessionInv, SessionUnchanged, vars, cpuVars

\* The hosts.
LEMMA CallCoreStep ==
  ASSUME CoreIInv, NEW h \in Hosts, CoreCallStep(h) \/ CoreCall(h)
  PROVE  (CoreTypeOK /\ CallInv /\ SessionInv)'
<1> USE CoreMembers, HostsAssumption, CoreAssumption
    DEF CoreIInv, CoreTypeOK, CallInv, IsRunning, coreVars, Goto, HostGoto, SessionUnchanged,
        cpuManagerVars
<1>0. host_pc \in [Hosts -> HostPc]
  BY DEF ExclusionInv, TypeOK
<1>1. CASE InitCore(h)
  <2>1. \A g \in Hosts : host_pc[g] \notin {"SteppingWait", "PauseWait", "Locked"}
    BY <1>1, MutexFree DEF InitCore
  <2> QED
    BY <1>1, <2>1 DEF InitCore, CpuGoto, SessionInv, pauseVars
<1>2. CASE StopCore(h)
  <2>1. \A g \in Hosts : host_pc[g] \notin {"SteppingWait", "PauseWait", "Locked"}
    BY <1>2, MutexFree DEF StopCore
  <2> QED
    BY <1>2, <2>1 DEF StopCore, SessionInv, vars, pauseVars, cpuVars
<1>3. CASE SetState(h)
  <2>1. SessionInv'
    BY <1>3, CallKeepsSession DEF SetState, HostStep
  <2> QED
    BY <1>0, <1>3, <2>1
    DEF SetState, Free, SetSteppingOff, SetSteppingOn, SteppingWaitOrFinish, pauseVars
<1>4. CASE SetStateResume(h)
  <2>1. SessionInv'
    BY <1>4, CallKeepsSession DEF SetStateResume, HostStep
  <2> QED
    BY <1>0, <1>4, <2>1 DEF SetStateResume, SetSteppingResume, SteppingWaitOrFinish
<1>5. CASE CPUThreadGuard(h) \/ RunOnCPUThread(h)
  <2>1. PICK op \in {"Guard", "RunOnCPU"} : PauseAndLockCore(h, op)
    BY <1>5 DEF CPUThreadGuard, RunOnCPUThread
  <2>2. SessionInv'
    BY <2>1, CallKeepsSession, PauseIsHostStep DEF PauseAndLockCore
  <2>3. \A g \in Hosts : host_pc[g] \notin {"SteppingWait", "PauseWait", "Locked"}
    BY <2>1, MutexFree DEF PauseAndLockCore
  <2>4. CASE IsRunning
    BY <1>0, <2>1, <2>2, <2>3, <2>4
    DEF PauseAndLockCore, Free, PauseAndLock, PauseAndLockOverDebugStep, PauseWaitOrLock
  <2>5. CASE ~IsRunning
    BY <1>0, <2>1, <2>2, <2>3, <2>5 DEF PauseAndLockCore, Free, vars, pauseVars
  <2> QED
    BY <2>4, <2>5
<1>6. CASE StepOpcodeCore(h)
  <2>1. SessionInv'
    BY <1>6, CallKeepsSession DEF StepOpcodeCore, HostStep
  <2> QED
    BY <1>0, <1>6, <2>1 DEF StepOpcodeCore, StepOpcode, StepReturn
<1>7. CASE StopFifo(h)
  BY <1>7 DEF StopFifo, SessionInv, pauseVars, cpuVars
<1>8. CASE StopCpu(h)
  <2>1. SessionInv'
    BY <1>8, CallKeepsSession DEF StopCpu, HostStep, SessionInv, cpuVars
  <2> QED
    BY <1>0, <1>8, <2>1 DEF StopCpu, Stop, StopResume, StopWaitOrFinish
<1>9. CASE PauseAndLockResume(h)
  <2>1. SessionInv'
    BY <1>9, CallKeepsSession DEF PauseAndLockResume, HostStep
  <2> QED
    BY <1>0, <1>9, <2>1 DEF PauseAndLockResume, PauseResume, PauseWaitOrLock
<1>10. CASE RunOnCPUThreadBody(h)
  <2>1. SessionInv'
    BY <1>10, CallKeepsSession DEF RunOnCPUThreadBody, HostStep
  <2> QED
    BY <1>0, <1>10, <2>1 DEF RunOnCPUThreadBody, AddCPUThreadJob, vars, pauseVars
<1>11. CASE RestoreStateAndUnlockCore(h)
  <2>1. SessionInv'
    BY <1>11, CallKeepsSession DEF RestoreStateAndUnlockCore, HostStep
  <2> QED
    BY <1>0, <1>11, <2>1
    DEF RestoreStateAndUnlockCore, RestoreStateAndUnlock, vars, pauseVars
<1> QED
  BY <1>1, <1>2, <1>3, <1>4, <1>5, <1>6, <1>7, <1>8, <1>9, <1>10, <1>11 DEF CoreCallStep, CoreCall

-----------------------------------------------------------------------------
\* The theorems.

LEMMA CoreInitInv == CoreInit => CoreIInv
<1> SUFFICES ASSUME CoreInit PROVE CoreIInv
  OBVIOUS
<1>1. TypeOK
  <2>1. m_pending_jobs \in 0..MaxJobs
    BY BoundsAssumption DEF CoreInit, Unused
  <2>2. host_pc \in [Hosts -> HostPc] /\ was_unpaused \in [Hosts -> BOOLEAN]
    BY HostPcMembers DEF CoreInit, Unused
  <2> QED
    BY <2>1, <2>2, CpuPcMembers, StateMembers DEF CoreInit, Unused, TypeOK
<1>2. ExclusionInv
  BY <1>1, HostsAssumption
  DEF CoreInit, Unused, ExclusionInv, ActiveInv, SteppingLockInv, PausedInv, IdleInv, CpuGuest
<1>3. CoreTypeOK
  BY CoreMembers, CoreAssumption DEF CoreInit, CoreTypeOK
<1>4. CallInv /\ SessionInv
  BY DEF CoreInit, Unused, CallInv, SessionInv, IsRunning
<1> QED
  BY <1>2, <1>3, <1>4 DEF CoreIInv

LEMMA CoreNextInv == CoreIInv /\ [CoreNext]_allVars => CoreIInv'
<1> SUFFICES ASSUME CoreIInv, [CoreNext]_allVars PROVE CoreIInv'
  OBVIOUS
<1>1. CASE EmuStep \/ EmuCpuWake \/ EmuCpuBreak \/ EmuConfigChanged \/ TryRunUnlessPausedAndLocked
  BY <1>1, EmuKeeps, EmuCoreStep DEF CoreIInv
<1>2. ASSUME NEW h \in Hosts, CoreCallStep(h) \/ CoreCall(h) PROVE CoreIInv'
  BY <1>2, CallKeeps, CallCoreStep DEF CoreIInv
<1>3. CASE UNCHANGED allVars
  <2>1. ExclusionInv'
    BY <1>3, StutterKeeps DEF CoreIInv, allVars
  <2>2. UNCHANGED <<s_state, s_core_mutex, emu_pc, core_op, sessions, host_pc, cpu_pc>>
    BY <1>3 DEF allVars, coreVars, vars, pauseVars, cpuVars
  <2> QED
    BY <2>1, <2>2 DEF CoreIInv, CoreTypeOK, CallInv, SessionInv, IsRunning
<1> QED
  BY <1>1, <1>2, <1>3 DEF CoreNext

\* Core's own state keeps its types, and s_state never holds "Paused": whether the
\* core is paused is asked of CPUManager (Core.cpp:796-803).
THEOREM CoreTypeCorrect == CoreSafety => []CoreTypeOK
<1>1. CoreIInv => CoreTypeOK
  BY DEF CoreIInv
<1> QED
  BY <1>1, CoreInitInv, CoreNextInv, PTL DEF CoreSafety

\* RestoreStateAndUnlock always undoes what its PauseAndLock did: a host inside
\* a guard holds the CPU exactly when the core runs (Core.cpp:856-896).
THEOREM GuardsBalanced == CoreSafety => []GuardMatchesState
<1>1. CoreIInv => GuardMatchesState
  BY DEF CoreIInv, CallInv, GuardMatchesState, Inside
<1> QED
  BY <1>1, CoreInitInv, CoreNextInv, PTL DEF CoreSafety

\* A host that is in no call of Core has neither m_stepping_lock nor the CPU,
\* in whatever way sessions begin, fail and end (Core.cpp:856-896).
THEOREM NothingLeaks == CoreSafety => []NothingHeldOutside
<1>1. CoreIInv => NothingHeldOutside
  BY MutexFree, HostsAssumption, CoreAssumption DEF NothingHeldOutside
<1> QED
  BY <1>1, CoreInitInv, CoreNextInv, PTL DEF CoreSafety

\* Guest code runs inside a session only, and beside a host that is inside a
\* guard only once Core::Stop has begun (Core.cpp:309, 860).
THEOREM GuestConfined == CoreSafety => []GuestInSession
<1>1. CoreIInv => GuestInSession
  <2> SUFFICES ASSUME CoreIInv, cpu_pc \in CpuGuest
               PROVE  /\ s_state \in {"Running", "Stopping"}
                      /\ \A h \in Hosts : Inside(h) => s_state = "Stopping"
    BY DEF GuestInSession
  <2>1. s_state \in {"Running", "Stopping"}
    BY DEF CoreIInv, SessionInv, CpuGuest
  <2>2. ASSUME NEW h \in Hosts, Inside(h), IsRunning PROVE FALSE
    <3>1. host_pc[h] = "Locked"
      BY <2>2 DEF CoreIInv, CallInv, Inside
    <3> QED
      BY <3>1 DEF CoreIInv, ExclusionInv, ActiveInv, IdleInv
  <2> QED
    BY <2>1, <2>2 DEF IsRunning
<1> QED
  BY <1>1, CoreInitInv, CoreNextInv, PTL DEF CoreSafety

-----------------------------------------------------------------------------
\* Notifications across sessions.

\* What the wait conditions and the notifications are made of.
waitVars == <<cpu_pc, cpu_notified, m_state, m_state_paused_and_locked,
              m_state_cpu_step_instruction, m_state_cpu_thread_active, host_pc, idle_notified>>

LEMMA WaitsKept ==
  ASSUME NoLostRequest, UNCHANGED waitVars
  PROVE  NoLostRequest'
BY DEF NoLostRequest, waitVars

LEMMA StutterWaits ==
  ASSUME UNCHANGED vars
  PROVE  UNCHANGED waitVars
BY DEF vars, waitVars, controlVars, stepVars, pauseVars, cpuVars, notifyVars

\* The CPU thread is awake outside Run: there is nothing it could miss.
LEMMA AwakeKept ==
  ASSUME NoLostRequest, cpu_pc' \notin CpuAsleep,
         UNCHANGED <<m_state_cpu_thread_active, host_pc, idle_notified>>
  PROVE  NoLostRequest'
BY DEF NoLostRequest, CpuAsleep

LEMMA EmuNotify ==
  ASSUME CoreIInv, NoLostRequest,
         EmuStep \/ EmuCpuWake \/ EmuCpuBreak \/ EmuConfigChanged \/ TryRunUnlessPausedAndLocked
  PROVE  NoLostRequest'
<1>0. ExclusionInv /\ (emu_pc # "Run" => cpu_pc \notin CpuAsleep)
  BY DEF CoreIInv, SessionInv, CpuAsleep
<1>1. CASE EmuInitHardware
  BY <1>0, <1>1, AwakeKept DEF EmuInitHardware, pauseVars, cpuVars, notifyVars
<1>2. CASE EmuBreak
  BY <1>0, <1>2, AwakeKept DEF EmuBreak, BreakLocked, pauseVars, cpuVars, notifyVars
<1>3. CASE EmuFail \/ EmuReady \/ EmuLeaveRun \/ TryRunUnlessPausedAndLocked
  BY <1>3, WaitsKept, StutterWaits
     DEF EmuFail, EmuReady, EmuLeaveRun, TryRunUnlessPausedAndLocked, cpuManagerVars
<1>4. CASE EmuRun
  BY <1>0, <1>4, CpuNotifyStep DEF EmuRun, CpuActs, CpuBoot
<1>5. CASE EmuCpuStep \/ EmuCpuWake \/ EmuCpuBreak \/ EmuConfigChanged
  BY <1>0, <1>5, CpuNotifyStep DEF CpuActs, EmuCpuStep, EmuCpuWake, EmuCpuBreak, EmuConfigChanged
<1>6. CASE EmuShutdownHardware
  BY <1>6, AwakeKept DEF EmuShutdownHardware, pauseVars, notifyVars, CpuAsleep
<1>7. CASE EmuFlag
  BY <1>7, WaitsKept DEF EmuFlag, waitVars, controlVars, stepVars, pauseVars, cpuVars, notifyVars
<1> QED
  BY <1>1, <1>2, <1>3, <1>4, <1>5, <1>6, <1>7 DEF EmuStep

LEMMA CallNotify ==
  ASSUME CoreIInv, NoLostRequest, NEW h \in Hosts, CoreCallStep(h) \/ CoreCall(h)
  PROVE  NoLostRequest'
<1>0. ExclusionInv
  BY DEF CoreIInv
<1> USE DEF cpuManagerVars
<1>1. CASE InitCore(h)
  BY <1>1, AwakeKept DEF InitCore, CpuGoto, pauseVars, notifyVars, CpuAsleep
<1>2. CASE StopCore(h)
  BY <1>2, WaitsKept, StutterWaits DEF StopCore
<1>3. CASE SetState(h) \/ SetStateResume(h)
  BY <1>0, <1>3, HostNotifyStep DEF SetState, SetStateResume, HostStep
<1>4. CASE CPUThreadGuard(h) \/ RunOnCPUThread(h)
  BY <1>0, <1>4, HostNotifyStep, PauseIsHostStep, WaitsKept, StutterWaits
     DEF CPUThreadGuard, RunOnCPUThread, PauseAndLockCore
<1>5. CASE StepOpcodeCore(h)
  BY <1>0, <1>5, HostNotifyStep DEF StepOpcodeCore, HostStep
<1>6. CASE StopFifo(h)
  BY <1>6, WaitsKept
     DEF StopFifo, waitVars, controlVars, stepVars, pauseVars, cpuVars, notifyVars
<1>7. CASE StopCpu(h)
  <2>1. CASE Stop(h) \/ StopResume(h)
    BY <1>0, <2>1, HostNotifyStep DEF HostStep
  <2>2. CASE ~(Stop(h) \/ StopResume(h))
    <3>1. /\ HostGoto(h, "Idle")
          /\ UNCHANGED <<controlVars, stepVars, cpuVars, notifyVars, m_state_paused_and_locked>>
      BY <1>7, <2>2 DEF StopCpu
    <3> QED
      BY <1>0, <3>1
         DEF NoLostRequest, ExclusionInv, TypeOK, HostGoto, HostWaiting, controlVars, stepVars,
             cpuVars, notifyVars
  <2> QED
    BY <2>1, <2>2
<1>8. CASE PauseAndLockResume(h)
  BY <1>0, <1>8, HostNotifyStep DEF PauseAndLockResume, HostStep
<1>9. CASE RunOnCPUThreadBody(h)
  BY <1>0, <1>9, HostNotifyStep, WaitsKept, StutterWaits DEF RunOnCPUThreadBody, HostStep
<1>10. CASE RestoreStateAndUnlockCore(h)
  BY <1>0, <1>10, HostNotifyStep, WaitsKept, StutterWaits DEF RestoreStateAndUnlockCore, HostStep
<1> QED
  BY <1>1, <1>2, <1>3, <1>4, <1>5, <1>6, <1>7, <1>8, <1>9, <1>10 DEF CoreCallStep, CoreCall

\* No request to pause, go on, step or stop, and no answer to one, is lost between the CPU
\* thread and the hosts in a session, nor when one session ends and the next begins while hosts
\* still wait for the first (CPU.cpp:122, 184-205, 266-269, 336-338, 385-388; Core.cpp:302-325).
\* For queued jobs JobsEventuallyRun shows the contrary.
THEOREM SessionsHearRequests == CoreSafety => []NoLostRequest
<1>1. CoreInit => NoLostRequest
  BY DEF CoreInit, Unused, NoLostRequest, HostWaiting
<1>2. CoreIInv /\ NoLostRequest /\ [CoreNext]_allVars => NoLostRequest'
  <2> SUFFICES ASSUME CoreIInv, NoLostRequest, [CoreNext]_allVars
               PROVE  NoLostRequest'
    OBVIOUS
  <2>1. CASE UNCHANGED allVars
    BY <2>1, WaitsKept, StutterWaits DEF allVars
  <2> QED
    BY <2>1, EmuNotify, CallNotify DEF CoreNext
<1> QED
  BY <1>1, <1>2, CoreInitInv, CoreNextInv, PTL DEF CoreSafety

=============================================================================
