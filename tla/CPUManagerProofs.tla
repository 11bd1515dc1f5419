-------------------------- MODULE CPUManagerProofs --------------------------
(***************************************************************************)
(* Proofs about CPUManager, for any set of hosts and any bounds.           *)
(***************************************************************************)
EXTENDS CPUManager, TLAPS

-----------------------------------------------------------------------------
\* Type correctness.

\* The members of the enumerations, so that no step needs to expand them.
LEMMA CpuPcMembers ==
  /\ "Boot" \in CpuPc /\ "Start" \in CpuPc /\ "Window" \in CpuPc /\ "Exit" \in CpuPc
  /\ "Enter" \in CpuPc /\ "DebugStep" \in CpuPc /\ "RunLoop" \in CpuPc
  /\ "Leave" \in CpuPc /\ "SingleStep" \in CpuPc
  /\ "InJob" \in CpuPc /\ "InPredJob" \in CpuPc
  /\ "Loop" \in CpuPc /\ "Jobs" \in CpuPc /\ "Switch" \in CpuPc
  /\ "PredJobs" \in CpuPc /\ "Pred" \in CpuPc
  /\ "SleepUnlocked" \in CpuPc /\ "SleepStep" \in CpuPc
BY DEF CpuPc, CpuGuest, CpuJob, CpuHolding, CpuAsleep

LEMMA HostPcMembers ==
  /\ "Idle" \in HostPc /\ "Locked" \in HostPc /\ "StepWait" \in HostPc /\ "Stopped" \in HostPc
  /\ "SteppingWait" \in HostPc /\ "PauseWait" \in HostPc /\ "StopWait" \in HostPc
BY DEF HostPc, HostWaiting

LEMMA StateMembers ==
  "Running" \in State /\ "Stepping" \in State /\ "PowerDown" \in State
BY DEF State

\* What the helpers leave in the variables they set.
LEMMA GotoType ==
  ASSUME NEW pc \in CpuPc, CpuGoto(pc)
  PROVE  cpu_pc' \in CpuPc /\ m_state_change_lock' \in BOOLEAN
BY DEF CpuGoto

LEMMA LockAndGotoType ==
  ASSUME NEW pc \in CpuPc, CpuLockAndGoto(pc)
  PROVE  cpu_pc' \in CpuPc /\ m_state_change_lock' \in BOOLEAN
BY GotoType DEF CpuLockAndGoto

LEMMA FlushType ==
  ASSUME TypeOK, FlushStepSyncEventLocked
  PROVE  /\ m_state_cpu_step_instruction' \in BOOLEAN
         /\ m_state_cpu_step_instruction_sync' \in Hosts \cup {NoThread}
         /\ event_set' \subseteq Hosts
BY DEF FlushStepSyncEventLocked, TypeOK, stepVars

LEMMA SetStateType ==
  ASSUME TypeOK, NEW s \in State, SetStateLocked(s)
  PROVE  m_state' \in State
BY DEF SetStateLocked, TypeOK

LEMMA AdjacentType ==
  ASSUME TypeOK, NEW running \in BOOLEAN, RunAdjacentSystems(running)
  PROVE  fifo_running' \in BOOLEAN /\ sound_running' \in BOOLEAN
BY DEF RunAdjacentSystems, TypeOK

LEMMA CallbacksType ==
  ASSUME TypeOK, NEW t \in Threads, RunCallbacks(t)
  PROVE  fifo_running' \in BOOLEAN /\ in_callback' \subseteq Threads
BY DEF RunCallbacks, TypeOK

LEMMA ConfigCheckType ==
  ASSUME TypeOK, NEW at \in CpuPc, NEW done \in CpuPc, CheckForConfigChanges(at, done)
  PROVE  /\ s_should_run_callbacks' \in BOOLEAN /\ fifo_running' \in BOOLEAN
         /\ in_callback' \subseteq Threads
         /\ cpu_pc' \in CpuPc /\ m_state_change_lock' \in BOOLEAN
<1>1. cpu_pc' \in CpuPc /\ m_state_change_lock' \in BOOLEAN
  BY GotoType DEF CheckForConfigChanges
<1>2. fifo_running' \in BOOLEAN /\ in_callback' \subseteq Threads
  BY CallbacksType DEF CheckForConfigChanges, TypeOK, Threads
<1> QED
  BY <1>1, <1>2 DEF CheckForConfigChanges

LEMMA NotifyType ==
  /\ NotifyCpu => cpu_notified' \in BOOLEAN
  /\ NotifyIdle => idle_notified' \subseteq Hosts
BY DEF NotifyCpu, NotifyIdle

LEMMA HostGotoType ==
  ASSUME TypeOK, NEW h \in Hosts, NEW pc \in HostPc, HostGoto(h, pc)
  PROVE  host_pc' \in [Hosts -> HostPc]
BY DEF HostGoto, TypeOK

LEMMA SteppingWaitType ==
  ASSUME TypeOK, NEW h \in Hosts, SteppingWaitOrFinish(h)
  PROVE  /\ host_pc' \in [Hosts -> HostPc] /\ m_stepping_lock' \in Hosts \cup {NoThread}
         /\ fifo_running' \in BOOLEAN /\ sound_running' \in BOOLEAN
<1>1. host_pc' \in [Hosts -> HostPc]
  BY HostGotoType, HostPcMembers DEF SteppingWaitOrFinish
<1>2. m_stepping_lock' \in Hosts \cup {NoThread}
  BY DEF SteppingWaitOrFinish
<1>3. fifo_running' \in BOOLEAN /\ sound_running' \in BOOLEAN
  BY AdjacentType DEF SteppingWaitOrFinish, TypeOK, adjacentVars
<1> QED
  BY <1>1, <1>2, <1>3

LEMMA PauseWaitType ==
  ASSUME TypeOK, NEW h \in Hosts, PauseWaitOrLock(h)
  PROVE  host_pc' \in [Hosts -> HostPc] /\ m_have_fake_cpu_thread' \in BOOLEAN
<1>1. host_pc' \in [Hosts -> HostPc]
  BY HostGotoType, HostPcMembers DEF PauseWaitOrLock
<1>2. m_have_fake_cpu_thread' \in BOOLEAN
  BY DEF PauseWaitOrLock
<1> QED
  BY <1>1, <1>2

LEMMA StopWaitType ==
  ASSUME TypeOK, NEW h \in Hosts, StopWaitOrFinish(h)
  PROVE  /\ host_pc' \in [Hosts -> HostPc] /\ event_set' \subseteq Hosts
         /\ fifo_running' \in BOOLEAN /\ sound_running' \in BOOLEAN
         /\ m_state_cpu_step_instruction' \in BOOLEAN
         /\ m_state_cpu_step_instruction_sync' \in Hosts \cup {NoThread}
<1>1. host_pc' \in [Hosts -> HostPc]
  BY HostGotoType, HostPcMembers DEF StopWaitOrFinish
<1>2. fifo_running' \in BOOLEAN /\ sound_running' \in BOOLEAN
  BY AdjacentType DEF StopWaitOrFinish, TypeOK, adjacentVars
<1>3. /\ m_state_cpu_step_instruction' \in BOOLEAN
      /\ m_state_cpu_step_instruction_sync' \in Hosts \cup {NoThread}
      /\ event_set' \subseteq Hosts
  BY FlushType DEF StopWaitOrFinish, TypeOK, stepVars
<1> QED
  BY <1>1, <1>2, <1>3

\* What the CPU thread does, the callbacks of a changed configuration included; as part of
\* Core it may boot by itself.
CpuActs == CpuBoot \/ CpuStep \/ CpuResume \/ Break \/ ConfigStep

LEMMA CpuTypeStep ==
  ASSUME TypeOK, CpuActs
  PROVE  TypeOK'
<1> USE CpuPcMembers, StateMembers
    DEF TypeOK, controlVars, stepVars, pauseVars, adjacentVars, cpuVars, notifyVars, jobVars
<1>1. CASE CpuBoot
  <2>1. cpu_pc' \in CpuPc /\ m_state_change_lock' \in BOOLEAN
    BY <1>1, GotoType DEF CpuBoot, CpuLeaveBoot
  <2>2. /\ m_state' \in State /\ requested' \in {"Running", "Stepping"}
        /\ fifo_running' \in BOOLEAN /\ sound_running' \in BOOLEAN
    <3>1. CASE UNCHANGED <<controlVars, adjacentVars>>
      BY <3>1
    <3>2. CASE \E stepping \in BOOLEAN : CpuSetStepping(stepping)
      BY <3>2, SetStateType, AdjacentType DEF CpuSetStepping
    <3> QED
      BY <1>1, <3>1, <3>2 DEF CpuBoot
  <2> QED
    BY <1>1, <2>1, <2>2 DEF CpuBoot, CpuLeaveBoot
<1>2. CASE CpuLoop
  BY <1>2, GotoType DEF CpuLoop
<1>3. CASE CpuJobs
  <2>1. cpu_pc' \in CpuPc /\ m_state_change_lock' \in BOOLEAN
    BY <1>3, GotoType, LockAndGotoType, ConfigCheckType DEF CpuJobs, ExecutePendingJobs
  <2>2. /\ s_should_run_callbacks' \in BOOLEAN /\ in_callback' \subseteq Threads
        /\ fifo_running' \in BOOLEAN
    BY <1>3, ConfigCheckType DEF CpuJobs, ExecutePendingJobs
  <2>3. m_pending_jobs' \in 0..MaxJobs
    BY <1>3, BoundsAssumption DEF CpuJobs, ExecutePendingJobs
  <2> QED
    BY <1>3, <2>1, <2>2, <2>3 DEF CpuJobs, ExecutePendingJobs
<1>4. CASE CpuSwitch
  <2>1. cpu_pc' \in CpuPc /\ m_state_change_lock' \in BOOLEAN
    BY <1>4, GotoType DEF CpuSwitch, State
  <2> QED
    BY <1>4, <2>1 DEF CpuSwitch
<1>5. CASE CpuEnter
  BY <1>5, GotoType DEF CpuEnter
<1>6. CASE CpuDebugStep
  BY <1>6, GotoType DEF CpuDebugStep
<1>7. CASE CpuRunLoop
  BY <1>7, GotoType DEF CpuRunLoop
<1>8. CASE CpuLeave
  <2>1. cpu_pc' \in CpuPc /\ m_state_change_lock' \in BOOLEAN
    BY <1>8, LockAndGotoType DEF CpuLeave
  <2>2. idle_notified' \subseteq Hosts
    BY <1>8, NotifyType DEF CpuLeave
  <2> QED
    BY <1>8, <2>1, <2>2 DEF CpuLeave
<1>9. CASE CpuPredJobs
  <2>1. cpu_pc' \in CpuPc /\ m_state_change_lock' \in BOOLEAN
    BY <1>9, GotoType, LockAndGotoType, ConfigCheckType DEF CpuPredJobs, ExecutePendingJobs
  <2>2. /\ s_should_run_callbacks' \in BOOLEAN /\ in_callback' \subseteq Threads
        /\ fifo_running' \in BOOLEAN
    BY <1>9, ConfigCheckType DEF CpuPredJobs, ExecutePendingJobs
  <2>3. m_pending_jobs' \in 0..MaxJobs
    BY <1>9, BoundsAssumption DEF CpuPredJobs, ExecutePendingJobs
  <2> QED
    BY <1>9, <2>1, <2>2, <2>3 DEF CpuPredJobs, ExecutePendingJobs
<1>10. CASE CpuWindow
  BY <1>10, LockAndGotoType DEF CpuWindow
<1>11. CASE CpuPred
  <2>1. cpu_pc' \in CpuPc /\ m_state_change_lock' \in BOOLEAN
    BY <1>11, GotoType DEF CpuPred
  <2>2. /\ m_state_cpu_step_instruction' \in BOOLEAN
        /\ m_state_cpu_step_instruction_sync' \in Hosts \cup {NoThread}
        /\ event_set' \subseteq Hosts
    BY <1>11, FlushType DEF CpuPred
  <2>3. m_state_cpu_thread_active' \in BOOLEAN /\ cpu_notified' \in BOOLEAN
    BY <1>11 DEF CpuPred
  <2> QED
    BY <1>11, <2>1, <2>2, <2>3 DEF CpuPred
<1>12. CASE CpuSingleStep
  <2>1. cpu_pc' \in CpuPc /\ m_state_change_lock' \in BOOLEAN
    BY <1>12, LockAndGotoType DEF CpuSingleStep
  <2>2. /\ m_state_cpu_step_instruction' \in BOOLEAN
        /\ m_state_cpu_step_instruction_sync' \in Hosts \cup {NoThread}
        /\ event_set' \subseteq Hosts
    BY <1>12, FlushType DEF CpuSingleStep
  <2>3. idle_notified' \subseteq Hosts
    BY <1>12, NotifyType DEF CpuSingleStep
  <2> QED
    BY <1>12, <2>1, <2>2, <2>3 DEF CpuSingleStep
<1>13. CASE CpuResume
  <2>1. cpu_pc' \in CpuPc /\ m_state_change_lock' \in BOOLEAN
    BY <1>13, LockAndGotoType DEF CpuResume
  <2> QED
    BY <1>13, <2>1 DEF CpuResume
<1>14. CASE Break
  <2>1. m_state' \in State
    BY <1>14, SetStateType DEF Break, BreakLocked
  <2>2. fifo_running' \in BOOLEAN /\ sound_running' \in BOOLEAN
    BY <1>14, AdjacentType DEF Break, BreakLocked
  <2> QED
    BY <1>14, <2>1, <2>2 DEF Break, BreakLocked
<1>15. CASE OnConfigChanged
  <2>1. /\ s_should_run_callbacks' \in BOOLEAN /\ in_callback' \subseteq Threads
        /\ fifo_running' \in BOOLEAN
    BY <1>15, CallbacksType DEF OnConfigChanged, Threads
  <2> QED
    BY <1>15, <2>1 DEF OnConfigChanged
<1>16. CASE CpuEnterRun
  BY <1>16, LockAndGotoType DEF CpuEnterRun
<1>17. ASSUME NEW t \in Threads, EndCallback(t) PROVE TypeOK'
  <2>1. cpu_pc' \in CpuPc /\ m_state_change_lock' \in BOOLEAN
    BY <1>17, GotoType DEF EndCallback
  <2> QED
    BY <1>17, <2>1 DEF EndCallback
<1> QED
  BY <1>1, <1>2, <1>3, <1>4, <1>5, <1>6, <1>7, <1>8, <1>9, <1>10, <1>11, <1>12,
     <1>13, <1>14, <1>15, <1>16, <1>17
  DEF CpuActs, CpuStep, ConfigStep

LEMMA HostTypeStep ==
  ASSUME TypeOK, NEW h \in Hosts, HostStep(h)
  PROVE  TypeOK'
<1> USE CpuPcMembers, HostPcMembers, StateMembers
    DEF TypeOK, controlVars, stepVars, pauseVars, adjacentVars, cpuVars, notifyVars, jobVars
<1>1. CASE SetSteppingOff(h)
  <2>1. m_state' \in State
    BY <1>1, SetStateType DEF SetSteppingOff
  <2>2. fifo_running' \in BOOLEAN /\ sound_running' \in BOOLEAN /\ cpu_notified' \in BOOLEAN
    BY <1>1, AdjacentType, NotifyType DEF SetSteppingOff
  <2> QED
    BY <1>1, <2>1, <2>2 DEF SetSteppingOff
<1>2. CASE SetSteppingOn(h)
  <2>1. m_state' \in State
    BY <1>2, SetStateType DEF SetSteppingOn
  <2>2. /\ host_pc' \in [Hosts -> HostPc] /\ m_stepping_lock' \in Hosts \cup {NoThread}
        /\ fifo_running' \in BOOLEAN /\ sound_running' \in BOOLEAN
    BY <1>2, SteppingWaitType DEF SetSteppingOn
  <2> QED
    BY <1>2, <2>1, <2>2 DEF SetSteppingOn, SteppingWaitOrFinish
<1>3. CASE SetSteppingResume(h)
  <2>1. /\ host_pc' \in [Hosts -> HostPc] /\ m_stepping_lock' \in Hosts \cup {NoThread}
        /\ fifo_running' \in BOOLEAN /\ sound_running' \in BOOLEAN
    BY <1>3, SteppingWaitType DEF SetSteppingResume
  <2>2. idle_notified' \subseteq Hosts
    BY <1>3 DEF SetSteppingResume, IdleWake
  <2> QED
    BY <1>3, <2>1, <2>2 DEF SetSteppingResume, SteppingWaitOrFinish
<1>4. CASE PauseAndLock(h)
  <2>1. m_state' \in State
    BY <1>4, SetStateType DEF PauseAndLock
  <2>2. host_pc' \in [Hosts -> HostPc] /\ m_have_fake_cpu_thread' \in BOOLEAN
    BY <1>4, PauseWaitType DEF PauseAndLock
  <2>3. was_unpaused' \in [Hosts -> BOOLEAN] /\ m_stepping_lock' \in Hosts \cup {NoThread}
    BY <1>4 DEF PauseAndLock
  <2> QED
    BY <1>4, <2>1, <2>2, <2>3 DEF PauseAndLock, PauseWaitOrLock
<1>5. CASE PauseAndLockOverDebugStep(h)
  <2>1. cpu_pc' \in CpuPc /\ m_state_change_lock' \in BOOLEAN
    BY <1>5, GotoType DEF PauseAndLockOverDebugStep
  <2>2. host_pc' \in [Hosts -> HostPc] /\ m_have_fake_cpu_thread' \in BOOLEAN
    BY <1>5, PauseWaitType DEF PauseAndLockOverDebugStep
  <2>3. was_unpaused' \in [Hosts -> BOOLEAN] /\ m_stepping_lock' \in Hosts \cup {NoThread}
    BY <1>5 DEF PauseAndLockOverDebugStep
  <2> QED
    BY <1>5, <2>1, <2>2, <2>3 DEF PauseAndLockOverDebugStep, PauseWaitOrLock
<1>6. CASE PauseResume(h)
  <2>1. host_pc' \in [Hosts -> HostPc] /\ m_have_fake_cpu_thread' \in BOOLEAN
    BY <1>6, PauseWaitType DEF PauseResume
  <2>2. idle_notified' \subseteq Hosts
    BY <1>6 DEF PauseResume, IdleWake
  <2> QED
    BY <1>6, <2>1, <2>2 DEF PauseResume, PauseWaitOrLock
<1>7. CASE RestoreStateAndUnlock(h)
  <2>1. m_state' \in State
    BY <1>7, SetStateType DEF RestoreStateAndUnlock
  <2>2. fifo_running' \in BOOLEAN /\ sound_running' \in BOOLEAN /\ cpu_notified' \in BOOLEAN
    BY <1>7, AdjacentType, NotifyType DEF RestoreStateAndUnlock
  <2>3. host_pc' \in [Hosts -> HostPc]
    BY <1>7, HostGotoType DEF RestoreStateAndUnlock
  <2> QED
    BY <1>7, <2>1, <2>2, <2>3 DEF RestoreStateAndUnlock
<1>8. CASE AddCPUThreadJob(h)
  BY <1>8, BoundsAssumption DEF AddCPUThreadJob
<1>9. CASE StepOpcode(h)
  <2>1. event_set' \subseteq Hosts /\ m_state_cpu_step_instruction' \in BOOLEAN
        /\ m_state_cpu_step_instruction_sync' \in Hosts \cup {NoThread}
    BY <1>9 DEF StepOpcode
  <2>2. cpu_notified' \in BOOLEAN /\ host_pc' \in [Hosts -> HostPc]
    BY <1>9, NotifyType, HostGotoType DEF StepOpcode
  <2> QED
    BY <1>9, <2>1, <2>2 DEF StepOpcode
<1>10. CASE StepReturn(h)
  BY <1>10, HostGotoType DEF StepReturn
<1>11. CASE Stop(h)
  <2>1. /\ host_pc' \in [Hosts -> HostPc] /\ event_set' \subseteq Hosts
        /\ fifo_running' \in BOOLEAN /\ sound_running' \in BOOLEAN
        /\ m_state_cpu_step_instruction' \in BOOLEAN
        /\ m_state_cpu_step_instruction_sync' \in Hosts \cup {NoThread}
    BY <1>11, StopWaitType DEF Stop
  <2>2. cpu_notified' \in BOOLEAN
    BY <1>11, NotifyType DEF Stop
  <2> QED
    BY <1>11, <2>1, <2>2 DEF Stop, StopWaitOrFinish
<1>12. CASE StopResume(h)
  <2>1. /\ host_pc' \in [Hosts -> HostPc] /\ event_set' \subseteq Hosts
        /\ fifo_running' \in BOOLEAN /\ sound_running' \in BOOLEAN
        /\ m_state_cpu_step_instruction' \in BOOLEAN
        /\ m_state_cpu_step_instruction_sync' \in Hosts \cup {NoThread}
    BY <1>12, StopWaitType DEF StopResume
  <2>2. idle_notified' \subseteq Hosts
    BY <1>12 DEF StopResume, IdleWake
  <2> QED
    BY <1>12, <2>1, <2>2 DEF StopResume, StopWaitOrFinish
<1> QED
  BY <1>1, <1>2, <1>3, <1>4, <1>5, <1>6, <1>7, <1>8, <1>9, <1>10, <1>11, <1>12
  DEF HostStep

LEMMA InitType == Init => TypeOK
<1> SUFFICES ASSUME Init PROVE TypeOK
  OBVIOUS
<1>1. m_pending_jobs \in 0..MaxJobs
  BY BoundsAssumption DEF Init, Unused
<1>2. host_pc \in [Hosts -> HostPc] /\ was_unpaused \in [Hosts -> BOOLEAN]
  BY HostPcMembers DEF Init, Unused
<1> QED
  BY <1>1, <1>2, CpuPcMembers, StateMembers DEF Init, Unused, TypeOK

LEMMA NextType == TypeOK /\ [Next]_vars => TypeOK'
<1> SUFFICES ASSUME TypeOK, [Next]_vars PROVE TypeOK'
  OBVIOUS
<1>1. CASE Next
  BY <1>1, CpuTypeStep, HostTypeStep DEF Next, CpuActs
<1>2. CASE UNCHANGED vars
  BY <1>2
  DEF vars, TypeOK, controlVars, stepVars, pauseVars, adjacentVars, cpuVars, notifyVars, jobVars
<1> QED
  BY <1>1, <1>2

\* The type invariant holds in every behaviour, whatever the hosts do.
THEOREM TypeCorrect == Safety => []TypeOK
BY InitType, NextType, PTL DEF Safety

-----------------------------------------------------------------------------
\* Mutual exclusion of guest code and a host's lock.  LockedHostExcludesGuest is
\* not inductive by itself: that the CPU thread does not start guest code under a
\* lock rests on m_state not being Running while a host holds the CPU, which in
\* turn rests on who may hold m_stepping_lock.

\* The flag that PauseAndLock waits on says exactly whether guest code runs.
ActiveInv == m_state_cpu_thread_active <=> cpu_pc \in CpuGuest

\* m_stepping_lock is held by the host inside SetStepping(true) or a pause.
SteppingLockInv ==
  \A h \in Hosts : host_pc[h] \in {"SteppingWait", "PauseWait", "Locked"} <=> m_stepping_lock = h

\* m_state_paused_and_locked is set exactly while a host pauses.
PausedInv ==
  /\ \A h \in Hosts : host_pc[h] \in {"PauseWait", "Locked"} => m_state_paused_and_locked
  /\ m_state_paused_and_locked =>
       m_stepping_lock \in Hosts /\ host_pc[m_stepping_lock] \in {"PauseWait", "Locked"}

\* A locked CPU is idle, and during a pause m_state can only be Running because
\* line 146 has just put it back, with the CPU thread entering RunLoop.
IdleInv ==
  /\ \A h \in Hosts : host_pc[h] = "Locked" => ~m_state_cpu_thread_active
  /\ (m_state_paused_and_locked /\ m_state = "Running") => cpu_pc = "RunLoop"

ExclusionInv == TypeOK /\ ActiveInv /\ SteppingLockInv /\ PausedInv /\ IdleInv

LEMMA CpuExclusionStep ==
  ASSUME ExclusionInv, CpuActs
  PROVE  (ActiveInv /\ SteppingLockInv /\ PausedInv /\ IdleInv)'
<1> USE HostsAssumption
    DEF ExclusionInv, ActiveInv, SteppingLockInv, PausedInv, IdleInv, CpuGuest, CpuGoto,
        controlVars, pauseVars, cpuVars
<1>1. CASE CpuBoot
  BY <1>1 DEF CpuBoot, CpuLeaveBoot, CpuSetStepping, SetStateLocked
<1>2. CASE CpuLoop
  BY <1>2 DEF CpuLoop
<1>3. CASE CpuJobs
  BY <1>3 DEF CpuJobs, ExecutePendingJobs, CheckForConfigChanges, CpuLockAndGoto
<1>4. CASE CpuSwitch
  <2>1. ~(m_state_paused_and_locked /\ m_state = "Running")
    BY <1>4 DEF CpuSwitch
  <2>2. CASE m_state = "Running"
    BY <1>4, <2>1, <2>2 DEF CpuSwitch
  <2>3. CASE m_state = "Stepping"
    BY <1>4, <2>1, <2>3 DEF CpuSwitch
  <2>4. CASE m_state = "PowerDown"
    BY <1>4, <2>1, <2>4 DEF CpuSwitch
  <2> QED
    BY <2>2, <2>3, <2>4 DEF TypeOK, State
<1>5. CASE CpuEnter
  BY <1>5 DEF CpuEnter
<1>6. CASE CpuDebugStep
  BY <1>6 DEF CpuDebugStep
<1>7. CASE CpuRunLoop
  BY <1>7 DEF CpuRunLoop
<1>8. CASE CpuLeave
  BY <1>8 DEF CpuLeave, CpuLockAndGoto
<1>9. CASE CpuPredJobs
  BY <1>9 DEF CpuPredJobs, ExecutePendingJobs, CheckForConfigChanges, CpuLockAndGoto
<1>10. CASE CpuWindow
  BY <1>10 DEF CpuWindow, CpuLockAndGoto
<1>11. CASE CpuPred
  <2>1. ~m_state_cpu_thread_active
    BY <1>11 DEF CpuPred
  <2>2. CASE cpu_pc' = "SingleStep"
    <3>1. ~m_state_paused_and_locked /\ m_state_cpu_thread_active' /\ m_state # "Running"
      BY <1>11, <2>2 DEF CpuPred, TypeOK
    <3> QED
      BY <1>11, <2>2, <3>1 DEF CpuPred
  <2>3. CASE cpu_pc' # "SingleStep"
    <3>1. ~m_state_cpu_thread_active' /\ cpu_pc' \in {"Loop", "SleepStep"}
      BY <1>11, <2>1, <2>3 DEF CpuPred, TypeOK
    <3> QED
      BY <1>11, <3>1 DEF CpuPred
  <2> QED
    BY <2>2, <2>3
<1>12. CASE CpuSingleStep
  BY <1>12 DEF CpuSingleStep, CpuLockAndGoto
<1>13. CASE CpuResume
  BY <1>13 DEF CpuResume, CpuLockAndGoto, CpuAsleep
<1>14. CASE Break
  BY <1>14 DEF Break, BreakLocked, SetStateLocked, CpuJob
<1>15. CASE OnConfigChanged
  BY <1>15 DEF OnConfigChanged
<1>16. CASE CpuEnterRun
  BY <1>16 DEF CpuEnterRun, CpuLockAndGoto
<1>17. ASSUME NEW t \in Threads, EndCallback(t) PROVE (ActiveInv /\ SteppingLockInv /\ PausedInv /\ IdleInv)'
  BY <1>17 DEF EndCallback
<1> QED
  BY <1>1, <1>2, <1>3, <1>4, <1>5, <1>6, <1>7, <1>8, <1>9, <1>10, <1>11, <1>12,
     <1>13, <1>14, <1>15, <1>16, <1>17
  DEF CpuActs, CpuStep, ConfigStep

LEMMA HostExclusionStep ==
  ASSUME ExclusionInv, NEW h \in Hosts, HostStep(h)
  PROVE  (ActiveInv /\ SteppingLockInv /\ PausedInv /\ IdleInv)'
<1> USE HostsAssumption
    DEF ExclusionInv, TypeOK, ActiveInv, SteppingLockInv, PausedInv, IdleInv, HostGoto,
        controlVars, pauseVars, cpuVars
<1>1. CASE SetSteppingOff(h)
  BY <1>1 DEF SetSteppingOff, SetStateLocked
<1>2. CASE SetSteppingOn(h)
  BY <1>2 DEF SetSteppingOn, SteppingWaitOrFinish, SetStateLocked
<1>3. CASE SetSteppingResume(h)
  BY <1>3 DEF SetSteppingResume, SteppingWaitOrFinish
<1>4. CASE PauseAndLock(h)
  BY <1>4 DEF PauseAndLock, PauseWaitOrLock, SetStateLocked
<1>5. CASE PauseAndLockOverDebugStep(h)
  BY <1>5 DEF PauseAndLockOverDebugStep, PauseWaitOrLock, CpuGoto, CpuGuest
<1>6. CASE PauseResume(h)
  BY <1>6 DEF PauseResume, PauseWaitOrLock
<1>7. CASE RestoreStateAndUnlock(h)
  BY <1>7 DEF RestoreStateAndUnlock, SetStateLocked
<1>8. CASE AddCPUThreadJob(h)
  BY <1>8 DEF AddCPUThreadJob
<1>9. CASE StepOpcode(h)
  BY <1>9 DEF StepOpcode
<1>10. CASE StepReturn(h)
  BY <1>10 DEF StepReturn
<1>11. CASE Stop(h)
  BY <1>11 DEF Stop, StopWaitOrFinish
<1>12. CASE StopResume(h)
  BY <1>12 DEF StopResume, StopWaitOrFinish
<1> QED
  BY <1>1, <1>2, <1>3, <1>4, <1>5, <1>6, <1>7, <1>8, <1>9, <1>10, <1>11, <1>12
  DEF HostStep

LEMMA ExclusionInit == Init => ExclusionInv
<1> SUFFICES ASSUME Init PROVE ExclusionInv
  OBVIOUS
<1>1. TypeOK
  BY InitType
<1> QED
  BY <1>1, HostsAssumption
  DEF Init, Unused, ExclusionInv, ActiveInv, SteppingLockInv, PausedInv, IdleInv, CpuGuest

LEMMA ExclusionNext == ExclusionInv /\ [Next]_vars => ExclusionInv'
<1> SUFFICES ASSUME ExclusionInv, [Next]_vars PROVE ExclusionInv'
  OBVIOUS
<1>1. TypeOK'
  BY NextType DEF ExclusionInv
<1>2. (ActiveInv /\ SteppingLockInv /\ PausedInv /\ IdleInv)'
  <2>1. CASE Next
    BY <2>1, CpuExclusionStep, HostExclusionStep DEF Next, CpuActs
  <2>2. CASE UNCHANGED vars
    BY <2>2 DEF vars, controlVars, pauseVars, cpuVars, ExclusionInv, ActiveInv, SteppingLockInv,
                PausedInv, IdleInv
  <2> QED
    BY <2>1, <2>2
<1> QED
  BY <1>1, <1>2 DEF ExclusionInv

\* While a host holds the CPU, no guest code runs and no other host holds it.
THEOREM MutualExclusion == Safety => []LockedHostExcludesGuest
<1>1. ExclusionInv => LockedHostExcludesGuest
  BY DEF ExclusionInv, ActiveInv, SteppingLockInv, IdleInv, LockedHostExcludesGuest
<1> QED
  BY <1>1, ExclusionInit, ExclusionNext, PTL DEF Safety

-----------------------------------------------------------------------------
\* The execution state follows what was asked for.  Without breakpoints nobody
\* stores m_state outside m_state_change_lock; a pause then remembers, in
\* was_unpaused and m_state_system_request_stepping together, what to restore.

\* What RestoreStateAndUnlock will make of m_state, unless powered down.
Restored ==
  IF ~m_state_system_request_stepping /\ was_unpaused[m_stepping_lock]
  THEN "Running" ELSE "Stepping"

IntentInv ==
  /\ ~BreakpointsSet /\ cpu_pc # "DebugStep"
  /\ (s_should_run_callbacks \/ in_callback # {}) => ConfigChanges
  /\ m_stepping_lock # NoThread => m_state # "Running"
  /\ \A h \in Hosts : host_pc[h] \in {"StopWait", "Stopped"} => m_state = "PowerDown"
  /\ ~m_state_paused_and_locked => ~m_state_system_request_stepping
  /\ (m_state_paused_and_locked /\ m_state # "PowerDown") => requested = Restored
  /\ IntentHonoured
  /\ AdjacentFollowsState

LEMMA CpuIntentStep ==
  ASSUME ExclusionInv, IntentInv, CpuActs
  PROVE  IntentInv'
<1> USE HostsAssumption
    DEF IntentInv, Restored, IntentHonoured, AdjacentFollowsState, CpuGoto, controlVars, pauseVars,
        adjacentVars, cpuVars, jobVars
<1>1. CASE CpuBoot
  <2>1. CASE UNCHANGED <<controlVars, adjacentVars>>
    BY <1>1, <2>1 DEF CpuBoot, CpuLeaveBoot
  <2>2. ASSUME NEW stepping \in BOOLEAN, CpuSetStepping(stepping) PROVE IntentInv'
    <3>1. ~m_state_paused_and_locked
      BY <2>2 DEF CpuSetStepping, ExclusionInv, PausedInv
    <3> QED
      BY <1>1, <2>2, <3>1
      DEF CpuBoot, CpuLeaveBoot, CpuSetStepping, SetStateLocked, RunAdjacentSystems
  <2> QED
    BY <1>1, <2>1, <2>2 DEF CpuBoot
<1>2. CASE CpuLoop
  BY <1>2 DEF CpuLoop
<1>3. CASE CpuJobs \/ CpuPredJobs
  <2>1. \/ UNCHANGED <<fifo_running, in_callback>>
        \/ ConfigChanges /\ ~fifo_running' /\ in_callback' # {}
    BY <1>3 DEF CpuJobs, CpuPredJobs, ExecutePendingJobs, CheckForConfigChanges, RunCallbacks
  <2>2. s_should_run_callbacks' => ConfigChanges
    BY <1>3 DEF CpuJobs, CpuPredJobs, ExecutePendingJobs, CheckForConfigChanges
  <2> QED
    BY <1>3, <2>1, <2>2
    DEF CpuJobs, CpuPredJobs, ExecutePendingJobs, CheckForConfigChanges, CpuLockAndGoto
<1>4. CASE CpuSwitch
  BY <1>4 DEF CpuSwitch, ExclusionInv, TypeOK, State
<1>5. CASE CpuEnter
  BY <1>5 DEF CpuEnter
<1>6. CASE CpuDebugStep
  BY <1>6 DEF CpuDebugStep
<1>7. CASE CpuRunLoop \/ CpuLeave \/ CpuWindow \/ CpuSingleStep
  BY <1>7 DEF CpuRunLoop, CpuLeave, CpuWindow, CpuSingleStep, CpuLockAndGoto
<1>8. CASE CpuPred
  BY <1>8 DEF CpuPred
<1>9. CASE CpuResume
  BY <1>9 DEF CpuResume, CpuLockAndGoto
<1>10. CASE Break
  <2>1. CASE m_state_paused_and_locked
    BY <1>10, <2>1 DEF Break, BreakLocked
  <2>2. CASE ~m_state_paused_and_locked
    BY <1>10, <2>2 DEF Break, BreakLocked, SetStateLocked, RunAdjacentSystems
  <2> QED
    BY <2>1, <2>2
<1>11. CASE OnConfigChanged
  BY <1>11 DEF OnConfigChanged, RunCallbacks
<1>12. CASE CpuEnterRun
  BY <1>12 DEF CpuEnterRun, CpuLockAndGoto
<1>13. ASSUME NEW t \in Threads, EndCallback(t) PROVE IntentInv'
  BY <1>13 DEF EndCallback
<1> QED
  BY <1>1, <1>2, <1>3, <1>4, <1>5, <1>6, <1>7, <1>8, <1>9, <1>10, <1>11, <1>12,
     <1>13
  DEF CpuActs, CpuStep, ConfigStep

LEMMA HostIntentStep ==
  ASSUME ExclusionInv, IntentInv, NEW h \in Hosts, HostStep(h)
  PROVE  IntentInv'
<1> USE HostsAssumption
    DEF IntentInv, Restored, IntentHonoured, AdjacentFollowsState, HostGoto, controlVars, pauseVars,
        adjacentVars, cpuVars, jobVars
<1>0. host_pc \in [Hosts -> HostPc]
  BY DEF ExclusionInv, TypeOK
<1>1. CASE SetSteppingOff(h)
  <2>1. ~m_state_paused_and_locked
    BY <1>1 DEF SetSteppingOff, ExclusionInv, PausedInv
  <2> QED
    BY <1>0, <1>1, <2>1 DEF SetSteppingOff, SetStateLocked, RunAdjacentSystems
<1>2. CASE SetSteppingOn(h)
  <2>1. ~m_state_paused_and_locked
    BY <1>2 DEF SetSteppingOn, ExclusionInv, PausedInv
  <2> QED
    BY <1>0, <1>2, <2>1 DEF SetSteppingOn, SteppingWaitOrFinish, SetStateLocked, RunAdjacentSystems
<1>3. CASE SetSteppingResume(h)
  <2>1. m_stepping_lock = h /\ ~m_state_paused_and_locked
    BY <1>3 DEF SetSteppingResume, ExclusionInv, SteppingLockInv, PausedInv
  <2>2. m_state = "Stepping" \/ m_state = "PowerDown"
    BY <2>1 DEF ExclusionInv, TypeOK, State
  <2> QED
    BY <1>0, <1>3, <2>1, <2>2 DEF SetSteppingResume, SteppingWaitOrFinish, RunAdjacentSystems
<1>4. CASE PauseAndLock(h)
  <2>1. ~m_state_paused_and_locked /\ was_unpaused \in [Hosts -> BOOLEAN]
    BY <1>4 DEF PauseAndLock, ExclusionInv, PausedInv, TypeOK
  <2>2. m_state \in State /\ requested \in {"Running", "Stepping"}
    BY DEF ExclusionInv, TypeOK
  <2> QED
    BY <1>0, <1>4, <2>1, <2>2 DEF PauseAndLock, PauseWaitOrLock, SetStateLocked, State
<1>5. CASE PauseAndLockOverDebugStep(h)
  BY <1>0, <1>5 DEF PauseAndLockOverDebugStep
<1>6. CASE PauseResume(h)
  BY <1>0, <1>6 DEF PauseResume, PauseWaitOrLock
<1>7. CASE RestoreStateAndUnlock(h)
  <2>1. m_stepping_lock = h /\ m_state_paused_and_locked
    BY <1>7 DEF RestoreStateAndUnlock, ExclusionInv, SteppingLockInv, PausedInv
  <2>2. m_state = "Stepping" \/ m_state = "PowerDown"
    BY <2>1 DEF ExclusionInv, TypeOK, State
  <2> QED
    BY <1>0, <1>7, <2>1, <2>2 DEF RestoreStateAndUnlock, SetStateLocked, RunAdjacentSystems
<1>8. CASE AddCPUThreadJob(h)
  BY <1>0, <1>8 DEF AddCPUThreadJob
<1>9. CASE StepOpcode(h) \/ StepReturn(h)
  BY <1>0, <1>9 DEF StepOpcode, StepReturn
<1>10. CASE Stop(h)
  BY <1>0, <1>10 DEF Stop, StopWaitOrFinish
<1>11. CASE StopResume(h)
  BY <1>0, <1>11 DEF StopResume, StopWaitOrFinish, RunAdjacentSystems
<1> QED
  BY <1>1, <1>2, <1>3, <1>4, <1>5, <1>6, <1>7, <1>8, <1>9, <1>10, <1>11 DEF HostStep

LEMMA IntentInit == Init /\ ~BreakpointsSet => IntentInv
BY DEF Init, Unused, IntentInv, IntentHonoured, AdjacentFollowsState

LEMMA IntentNext == ExclusionInv /\ IntentInv /\ [Next]_vars => IntentInv'
<1> SUFFICES ASSUME ExclusionInv, IntentInv, [Next]_vars PROVE IntentInv'
  OBVIOUS
<1>1. CASE Next
  BY <1>1, CpuIntentStep, HostIntentStep DEF Next, CpuActs
<1>2. CASE UNCHANGED vars
  BY <1>2
  DEF vars, controlVars, pauseVars, adjacentVars, cpuVars, jobVars, IntentInv, Restored,
      IntentHonoured, AdjacentFollowsState
<1> QED
  BY <1>1, <1>2

\* Without breakpoints, the CPU that nobody pauses is in the state last asked
\* for by SetStepping or Break (CPU.cpp:322-428).
THEOREM IntentCorrect == Safety /\ ~BreakpointsSet => []IntentHonoured
<1>1. IntentInv => IntentHonoured
  BY DEF IntentInv
<1> QED
  BY <1>1, ExclusionInit, ExclusionNext, IntentInit, IntentNext, PTL DEF Safety

\* Without breakpoints, FIFO and sound run exactly when the CPU does, outside
\* SetStepping and pauses, but for the callback of a changed configuration
\* (CPU.cpp:248-255).
THEOREM AdjacentCorrect == Safety /\ ~BreakpointsSet => []AdjacentFollowsState
<1>1. IntentInv => AdjacentFollowsState
  BY DEF IntentInv
<1> QED
  BY <1>1, ExclusionInit, ExclusionNext, IntentInit, IntentNext, PTL DEF Safety

-----------------------------------------------------------------------------
\* Stop is final.

\* No guest code and no step request once Stop has returned.
StoppedInv == Stopped => cpu_pc \notin CpuGuest /\ ~m_state_cpu_step_instruction

\* What a step from a stopped CPU does.
LEMMA StoppedStep ==
  ASSUME ExclusionInv, IntentInv, StoppedInv, Stopped, [Next]_vars
  PROVE  /\ cpu_pc' \notin CpuGuest /\ ~m_state_cpu_step_instruction'
         /\ fifo_running' => fifo_running \/ \E t \in in_callback : EndCallback(t)
         /\ in_callback' \subseteq in_callback
<1> USE DEF controlVars, stepVars, pauseVars, adjacentVars, cpuVars, jobVars
<1>1. m_state = "PowerDown" /\ cpu_pc \notin CpuGuest /\ ~m_state_cpu_step_instruction
  BY DEF IntentInv, StoppedInv, Stopped
<1>2. CASE CpuStep \/ CpuResume \/ Break \/ ConfigStep
  <2>1. cpu_pc' \notin CpuGuest
    BY <1>1, <1>2
    DEF CpuStep, CpuResume, Break, BreakLocked, ConfigStep, OnConfigChanged, EndCallback, CpuBoot,
        CpuLeaveBoot, CpuEnterRun, CpuLoop, CpuJobs, CpuSwitch, CpuEnter, CpuDebugStep, CpuRunLoop,
        CpuLeave, CpuPredJobs, CpuWindow, CpuPred, CpuSingleStep, ExecutePendingJobs,
        CheckForConfigChanges, CpuLockAndGoto, CpuGoto, CpuGuest
  <2>2. ~m_state_cpu_step_instruction'
    BY <1>1, <1>2
    DEF CpuStep, CpuResume, Break, BreakLocked, ConfigStep, OnConfigChanged, EndCallback, CpuBoot,
        CpuLeaveBoot, CpuEnterRun, CpuLoop, CpuJobs, CpuSwitch, CpuEnter, CpuDebugStep, CpuRunLoop,
        CpuLeave, CpuPredJobs, CpuWindow, CpuPred, CpuSingleStep, ExecutePendingJobs,
        FlushStepSyncEventLocked
  <2>3. CASE \E t \in Threads : EndCallback(t)
    BY <2>1, <2>2, <2>3 DEF EndCallback
  <2>4. CASE CpuBoot
    <3>1. CASE UNCHANGED adjacentVars
      BY <2>1, <2>2, <2>4, <3>1 DEF CpuBoot, CpuLeaveBoot
    <3>2. CASE ~UNCHANGED adjacentVars
      <4>1. ~fifo_running'
        BY <1>1, <2>4, <3>2 DEF CpuBoot, CpuSetStepping, RunAdjacentSystems
      <4> QED
        BY <2>1, <2>2, <2>4, <4>1 DEF CpuBoot, CpuLeaveBoot
    <3> QED
      BY <3>1, <3>2
  <2>5. CASE CpuJobs \/ CpuPredJobs \/ OnConfigChanged
    BY <1>1, <2>1, <2>2, <2>5
    DEF CpuJobs, CpuPredJobs, ExecutePendingJobs, OnConfigChanged, CheckForConfigChanges, RunCallbacks
  <2>6. CASE Break
    BY <2>1, <2>2, <2>6 DEF Break, BreakLocked, RunAdjacentSystems
  <2>7. CASE CpuResume \/ CpuEnterRun \/ CpuLoop \/ CpuSwitch \/ CpuEnter \/ CpuDebugStep \/ CpuRunLoop
             \/ CpuLeave \/ CpuWindow \/ CpuPred \/ CpuSingleStep
    <3>1. UNCHANGED <<fifo_running, in_callback>>
      BY <2>7
      DEF CpuResume, CpuEnterRun, CpuLoop, CpuSwitch, CpuEnter, CpuDebugStep, CpuRunLoop, CpuLeave,
          CpuWindow, CpuPred, CpuSingleStep
    <3> QED
      BY <2>1, <2>2, <3>1
  <2> QED
    BY <1>2, <2>3, <2>4, <2>5, <2>6, <2>7 DEF CpuStep, ConfigStep
<1>3. ASSUME NEW h \in Hosts, HostStep(h)
      PROVE  /\ cpu_pc' \notin CpuGuest /\ ~m_state_cpu_step_instruction'
             /\ fifo_running' => fifo_running
             /\ in_callback' \subseteq in_callback
  <2>1. cpu_pc' \notin CpuGuest
    BY <1>1, <1>3
    DEF HostStep, SetSteppingOff, SetSteppingOn, SetSteppingResume, SteppingWaitOrFinish,
        PauseAndLock, PauseAndLockOverDebugStep, PauseResume, RestoreStateAndUnlock,
        AddCPUThreadJob, StepOpcode, StepReturn, Stop, StopResume, StopWaitOrFinish
  <2>2. ~m_state_cpu_step_instruction'
    BY <1>1, <1>3
    DEF HostStep, SetSteppingOff, SetSteppingOn, SetSteppingResume, SteppingWaitOrFinish,
        PauseAndLock, PauseAndLockOverDebugStep, PauseResume, PauseWaitOrLock,
        RestoreStateAndUnlock, AddCPUThreadJob, StepOpcode, StepReturn, Stop, StopResume,
        StopWaitOrFinish, FlushStepSyncEventLocked
  <2>3. fifo_running' => fifo_running
    BY <1>1, <1>3
    DEF HostStep, SetSteppingOff, SetSteppingOn, SetSteppingResume, SteppingWaitOrFinish,
        PauseAndLock, PauseAndLockOverDebugStep, PauseResume, PauseWaitOrLock,
        RestoreStateAndUnlock, AddCPUThreadJob, StepOpcode, StepReturn, Stop, StopResume,
        StopWaitOrFinish, SetStateLocked, RunAdjacentSystems
  <2>4. in_callback' \subseteq in_callback
    BY <1>3
    DEF HostStep, SetSteppingOff, SetSteppingOn, SetSteppingResume, SteppingWaitOrFinish,
        PauseAndLock, PauseAndLockOverDebugStep, PauseResume, PauseWaitOrLock,
        RestoreStateAndUnlock, AddCPUThreadJob, StepOpcode, StepReturn, Stop, StopResume,
        StopWaitOrFinish
  <2> QED
    BY <2>1, <2>2, <2>3, <2>4
<1>4. CASE UNCHANGED vars
  BY <1>1, <1>4 DEF vars
<1> QED
  BY <1>2, <1>3, <1>4 DEF Next

\* The step in which Stop returns.
LEMMA StoppingStep ==
  ASSUME ExclusionInv, ~Stopped, Stopped', [Next]_vars
  PROVE  cpu_pc' \notin CpuGuest /\ ~m_state_cpu_step_instruction' /\ ~fifo_running'
<1> USE DEF controlVars, stepVars, pauseVars, adjacentVars, cpuVars, jobVars
<1>0. host_pc \in [Hosts -> HostPc] /\ (m_state_cpu_thread_active <=> cpu_pc \in CpuGuest)
  BY DEF ExclusionInv, TypeOK, ActiveInv
<1>1. PICK g \in Hosts : host_pc'[g] = "Stopped" /\ host_pc[g] # "Stopped"
  BY DEF Stopped
<1>2. PICK h \in Hosts : HostStep(h)
  BY <1>1
  DEF Next, vars, CpuStep, CpuResume, Break, BreakLocked, ConfigStep, OnConfigChanged, EndCallback,
      CpuBoot, CpuLeaveBoot, CpuEnterRun, CpuLoop, CpuJobs, CpuSwitch, CpuEnter, CpuDebugStep,
      CpuRunLoop, CpuLeave, CpuPredJobs, CpuWindow, CpuPred, CpuSingleStep, ExecutePendingJobs
<1>3. StopWaitOrFinish(h) /\ ~m_state_cpu_thread_active
  BY <1>0, <1>1, <1>2
  DEF HostStep, HostGoto, SetSteppingOff, SetSteppingOn, SetSteppingResume, SteppingWaitOrFinish,
      PauseAndLock, PauseAndLockOverDebugStep, PauseResume, PauseWaitOrLock,
      RestoreStateAndUnlock, AddCPUThreadJob, StepOpcode, StepReturn, Stop, StopResume,
      StopWaitOrFinish
<1> QED
  BY <1>0, <1>3 DEF StopWaitOrFinish, RunAdjacentSystems, FlushStepSyncEventLocked

\* Without breakpoints, once Stop has returned guest code never runs again, no step request is
\* pending and the FIFO is stopped; only a callback of a changed configuration that was already
\* under way starts it again (CPU.cpp:257-273, VideoConfig.cpp:71-79).
THEOREM StopCorrect == Safety /\ ~BreakpointsSet => StopIsFinal
<1>1. Init => StoppedInv
  BY DEF Init, Unused, StoppedInv, Stopped
<1>2. ExclusionInv /\ IntentInv /\ StoppedInv /\ [Next]_vars =>
        /\ StoppedInv'
        /\ [Stopped' /\ fifo_running' =>
               Stopped /\ (fifo_running \/ \E t \in in_callback : EndCallback(t))]_vars
        /\ [Stopped => in_callback' \subseteq in_callback]_vars
  BY StoppedStep, StoppingStep DEF StoppedInv
<1> QED
  BY <1>1, <1>2, ExclusionInit, ExclusionNext, IntentInit, IntentNext, PTL
     DEF Safety, StopIsFinal, StoppedInv

-----------------------------------------------------------------------------
\* Notifications.  A notification is lost when nobody waits, so each wait has to test what
\* it waits for under the lock before it begins.

\* No request to pause, go on, step or stop is lost: a CPU thread asleep with no notification
\* on its way has none to answer: the pause goes on (line 122), or it is to step and has no
\* step (line 184).  A host asleep in SetStepping, PauseAndLock or Stop with none on its way
\* still has the CPU thread to wait for.  This is not so for jobs: the CPU thread falls asleep
\* at line 205 with a job queued during the unlocked window of lines 163-183, and
\* JobsEventuallyRun fails.
NoLostRequest ==
  /\ cpu_pc = "SleepUnlocked" /\ ~cpu_notified => m_state_paused_and_locked
  /\ cpu_pc = "SleepStep" /\ ~cpu_notified =>
       m_state = "Stepping" /\ ~m_state_cpu_step_instruction
  /\ \A h \in Hosts :
       host_pc[h] \in HostWaiting /\ h \notin idle_notified => m_state_cpu_thread_active

\* The CPU thread clears m_state_cpu_thread_active only together with the notification, and
\* changes what it waits for only while awake.
LEMMA CpuNotifyStep ==
  ASSUME ExclusionInv, NoLostRequest, CpuActs
  PROVE  NoLostRequest'
<1> USE DEF NoLostRequest, ExclusionInv, ActiveInv, CpuGuest, CpuGoto, CpuLockAndGoto,
            controlVars, stepVars, pauseVars, cpuVars, notifyVars
<1>1. CASE CpuBoot
  BY <1>1 DEF CpuBoot, CpuLeaveBoot
<1>2. CASE CpuLoop
  BY <1>2 DEF CpuLoop
<1>3. CASE CpuJobs
  BY <1>3 DEF CpuJobs, ExecutePendingJobs, CheckForConfigChanges
<1>4. CASE CpuSwitch
  <2>1. ~m_state_cpu_thread_active /\ cpu_pc' \notin CpuAsleep
    BY <1>4 DEF CpuSwitch, TypeOK, State, CpuAsleep
  <2> QED
    BY <1>4, <2>1 DEF CpuSwitch, CpuAsleep
<1>5. CASE CpuEnter
  BY <1>5 DEF CpuEnter
<1>6. CASE CpuDebugStep
  BY <1>6 DEF CpuDebugStep
<1>7. CASE CpuRunLoop
  BY <1>7 DEF CpuRunLoop
<1>8. CASE CpuLeave
  BY <1>8 DEF CpuLeave, NotifyIdle
<1>9. CASE CpuPredJobs
  BY <1>9 DEF CpuPredJobs, ExecutePendingJobs, CheckForConfigChanges
<1>10. CASE CpuWindow
  BY <1>10 DEF CpuWindow
<1>11. CASE CpuPred
  BY <1>11 DEF CpuPred
<1>12. CASE CpuSingleStep
  BY <1>12 DEF CpuSingleStep, NotifyIdle
<1>13. CASE CpuResume
  BY <1>13 DEF CpuResume, CpuAsleep
<1>14. CASE Break
  BY <1>14 DEF Break, BreakLocked, CpuJob
<1>15. CASE OnConfigChanged
  BY <1>15 DEF OnConfigChanged
<1>16. CASE CpuEnterRun
  BY <1>16 DEF CpuEnterRun
<1>17. ASSUME NEW t \in Threads, EndCallback(t) PROVE NoLostRequest'
  BY <1>17 DEF EndCallback
<1> QED
  BY <1>1, <1>2, <1>3, <1>4, <1>5, <1>6, <1>7, <1>8, <1>9, <1>10, <1>11, <1>12,
     <1>13, <1>14, <1>15, <1>16, <1>17
  DEF CpuActs, CpuStep, ConfigStep

\* A host that changes what the CPU thread waits for notifies it, and waits only for a CPU
\* thread it has found active.
LEMMA HostNotifyStep ==
  ASSUME ExclusionInv, NoLostRequest, NEW h \in Hosts, HostStep(h)
  PROVE  NoLostRequest'
<1> USE DEF NoLostRequest, ExclusionInv, ActiveInv, TypeOK, HostGoto, NotifyCpu, CpuAsleep, IdleWake,
            HostWaiting, controlVars, stepVars, pauseVars, cpuVars, notifyVars
<1>1. CASE SetSteppingOff(h)
  BY <1>1 DEF SetSteppingOff, SetStateLocked
<1>2. CASE SetSteppingOn(h)
  BY <1>2 DEF SetSteppingOn, SteppingWaitOrFinish, SetStateLocked
<1>3. CASE SetSteppingResume(h)
  BY <1>3 DEF SetSteppingResume, SteppingWaitOrFinish
<1>4. CASE PauseAndLock(h)
  BY <1>4 DEF PauseAndLock, PauseWaitOrLock, SetStateLocked
<1>5. CASE PauseAndLockOverDebugStep(h)
  BY <1>5 DEF PauseAndLockOverDebugStep, PauseWaitOrLock, CpuGoto, CpuGuest
<1>6. CASE PauseResume(h)
  BY <1>6 DEF PauseResume, PauseWaitOrLock
<1>7. CASE RestoreStateAndUnlock(h)
  BY <1>7 DEF RestoreStateAndUnlock, SetStateLocked
<1>8. CASE AddCPUThreadJob(h)
  BY <1>8 DEF AddCPUThreadJob
<1>9. CASE StepOpcode(h)
  BY <1>9 DEF StepOpcode
<1>10. CASE StepReturn(h)
  BY <1>10 DEF StepReturn
<1>11. CASE Stop(h)
  BY <1>11 DEF Stop, StopWaitOrFinish, FlushStepSyncEventLocked
<1>12. CASE StopResume(h)
  BY <1>12 DEF StopResume, StopWaitOrFinish, FlushStepSyncEventLocked
<1> QED
  BY <1>1, <1>2, <1>3, <1>4, <1>5, <1>6, <1>7, <1>8, <1>9, <1>10, <1>11, <1>12
  DEF HostStep

LEMMA NotifyNext == ExclusionInv /\ NoLostRequest /\ [Next]_vars => NoLostRequest'
<1> SUFFICES ASSUME ExclusionInv, NoLostRequest, [Next]_vars PROVE NoLostRequest'
  OBVIOUS
<1>1. CASE Next
  BY <1>1, CpuNotifyStep, HostNotifyStep DEF Next, CpuActs
<1>2. CASE UNCHANGED vars
  BY <1>2 DEF NoLostRequest, vars, controlVars, stepVars, pauseVars, cpuVars, notifyVars
<1> QED
  BY <1>1, <1>2

\* No request to pause, go on, step or stop, and no answer to one, is lost between the CPU
\* thread and the hosts, for any number of hosts and also with breakpoints (CPU.cpp:122,
\* 184-205, 266-269, 336-338, 385-388).  Queued jobs are another matter: see NoLostRequest.
THEOREM RequestsHeard == Safety => []NoLostRequest
<1>1. Init => NoLostRequest
  BY DEF Init, Unused, NoLostRequest, HostWaiting
<1> QED
  BY <1>1, ExclusionInit, ExclusionNext, NotifyNext, PTL DEF Safety

\* What a waiting host waits for is on its way: guest code has been told to leave RunLoop.
GuestTold == \A h \in Hosts : host_pc[h] \in HostWaiting => m_state # "Running"

\* Without breakpoints, the CPU thread that a host waits for in SetStepping, PauseAndLock or
\* Stop is told to leave its run loop and not told otherwise before the host has it, whatever
\* the other hosts call (CPU.cpp:150, 327-340, 377-388).
THEOREM ToldCorrect == Safety /\ ~BreakpointsSet => []GuestTold
<1>1. ExclusionInv /\ IntentInv => GuestTold
  BY HostsAssumption
     DEF ExclusionInv, SteppingLockInv, IntentInv, GuestTold, HostWaiting
<1> QED
  BY <1>1, ExclusionInit, ExclusionNext, IntentInit, IntentNext, PTL DEF Safety

=============================================================================
