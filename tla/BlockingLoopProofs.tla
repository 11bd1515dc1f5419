------------------------- MODULE BlockingLoopProofs -------------------------
(***************************************************************************)
(* Proofs about BlockingLoop, for any number of clients, with or without a *)
(* timeout.                                                                *)
(***************************************************************************)
EXTENDS BlockingLoop, TLAPS

-----------------------------------------------------------------------------
\* The invariant.

\* Inside the critical section of m_prepare_lock; and the worker's loop.
Preparing == {"PrepareState", "PrepareShutdown", "PrepareSleep"}
Looping == {"Test", "Payload", "Switch", "NeedExecution", "LastExecution", "SetDone", "Done",
            "TrySleep", "Sleeping"}
Exiting == {"Exit", "ExitStopped", "ExitDone", "Ended"}
BeforeExchange == {"WakeLoad", "WakeExchange"}

\* Who is where: clients and worker keep to their code, and only the owner and
\* the worker prepare.
PlaceInv ==
  /\ pc[Worker] \in WorkerPc
  /\ \A c \in Clients : pc[c] \in ClientPc /\ (pc[c] \in PreparePc \cup {"StopShutdown"} => c = Owner)
  /\ \A t \in Threads : pc[t] \in Preparing <=> m_prepare_lock = t
  /\ m_prepare_lock # NoThread => ~m_stopped

\* A worker inside its loop is not prepared under its feet, a loop that has no
\* worker is stopped, and a worker only leaves the loop once it is shut down.
LifeInv ==
  /\ pc[Worker] \in Looping \cup {"Exit", "ExitStopped"} => ~m_stopped /\ m_prepare_lock = NoThread
  /\ pc[Worker] \in {"None", "ExitDone", "Ended"} => m_stopped
  /\ pc[Worker] \in Exiting => m_shutdown
  /\ pc[Owner] \in PreparePc => pc[Worker] \in PreparePc \cup Looping
  /\ pc[Worker] \in PreparePc /\ pc[Owner] \notin PreparePc => ~m_stopped /\ pc[Worker] = "Prepare"
  /\ pc[Owner] \in PreparePc /\ ~m_stopped /\ m_shutdown =>
       \E t \in {Owner, Worker} : pc[t] \in {"PrepareState", "PrepareShutdown"}

\* What the worker knows of m_running_state: only a Wakeup can have changed it.
StateInv ==
  /\ m_running_state \in STATE_SLEEPING..STATE_NEED_EXECUTION
  /\ pc[Worker] = "NeedExecution" => m_running_state = STATE_NEED_EXECUTION
  /\ pc[Worker] = "LastExecution" => m_running_state \in {STATE_LAST_EXECUTION, STATE_NEED_EXECUTION}
  /\ pc[Worker] \in {"SetDone", "Done", "TrySleep"} =>
       m_running_state \in {STATE_DONE, STATE_NEED_EXECUTION}
  /\ pc[Worker] = "Sleeping" => m_running_state \in {STATE_SLEEPING, STATE_NEED_EXECUTION}
  /\ (pc[Worker] \in PreparePc /\ ~m_stopped /\ \A t \in {Owner, Worker} : pc[t] # "PrepareState") =>
       m_running_state \in {STATE_LAST_EXECUTION, STATE_NEED_EXECUTION}

\* The worker will run the payload, or test m_shutdown, before it calls itself done.
WillLook ==
  \/ m_running_state = STATE_NEED_EXECUTION
  \/ m_running_state = STATE_LAST_EXECUTION /\ pc[Worker] \in PreparePc \cup {"Test", "Exit"}

\* Work and stops that were announced are still ahead of the worker.
WorkInv ==
  /\ \A c \in Clients : work[c] = "Taken" => pc[Worker] = "Payload"
  /\ ~m_shutdown =>
       \A c \in Clients : pc[c] \notin BeforeExchange =>
         /\ work[c] = "Posted" => WillLook
         /\ work[c] = "Taken" => m_running_state >= STATE_LAST_EXECUTION
  /\ (m_shutdown /\ pc[Owner] \notin BeforeExchange /\ pc[Worker] \in Looping \cup {"Exit"}) =>
       WillLook
  /\ (pc[Worker] = "Sleeping" /\ m_running_state = STATE_NEED_EXECUTION) =>
       m_new_work_event \/ \E c \in Clients : pc[c] = "WakeSet"

\* What a Wait has seen, and how far a blocking Stop has come.
CallInv ==
  /\ \A c \in served : work[c] = "None" /\ pc[c] \in {"Unlock", "Waited"}
  /\ \A c \in Clients : call[c] = "Stop" =>
       /\ c = Owner /\ pc[Worker] # "None"
       /\ pc[c] \in {"StopShutdown", "Waited"} \cup WakeupPc \cup WaitPc
       /\ pc[c] # "StopShutdown" => m_shutdown
       /\ pc[c] \in {"Unlock", "Waited"} => pc[Worker] \in {"ExitStopped", "ExitDone", "Ended"}
  /\ pc[Owner] = "StopShutdown" => pc[Worker] # "None"

LoopInv == TypeOK /\ PlaceInv /\ LifeInv /\ StateInv /\ WorkInv /\ CallInv

LEMMA ClientKeeps ==
  ASSUME LoopInv, NEW c \in Clients,
         \/ WakeupBegin(c) \/ WakeLoad(c) \/ WakeExchange(c) \/ WakeSet(c)
         \/ WaitBegin(c) \/ WaitTest(c) \/ WaitLock(c) \/ WaitLoop(c) \/ WaitEvent(c)
         \/ WaitEventTimeout(c) \/ WaitUnlock(c) \/ WaitReturn(c) \/ AllowSleep(c)
  PROVE  LoopInv'
<1> USE ThreadsAssumption
    DEF LoopInv, TypeOK, PlaceInv, LifeInv, StateInv, WorkInv, CallInv, WillLook, Goto, Threads,
        flagVars, eventVars, lockVars, historyVars, STATE_SLEEPING, STATE_DONE, STATE_LAST_EXECUTION,
        STATE_NEED_EXECUTION, Preparing, Looping, Exiting, BeforeExchange, WakeupPc, WaitPc,
        PreparePc, ClientPc, WorkerPc
<1>1. CASE WakeupBegin(c)
  BY <1>1 DEF WakeupBegin
<1>2. CASE WakeLoad(c)
  BY <1>2 DEF WakeLoad, AfterWakeup
<1>3. CASE WakeExchange(c)
  BY <1>3 DEF WakeExchange, AfterWakeup
<1>4. CASE WakeSet(c)
  BY <1>4 DEF WakeSet, AfterWakeup
<1>5. CASE WaitBegin(c)
  BY <1>5 DEF WaitBegin
<1>6. CASE WaitTest(c)
  BY <1>6 DEF WaitTest, IsDone, IsRunning
<1>7. CASE WaitLock(c)
  BY <1>7 DEF WaitLock
<1>8. CASE WaitLoop(c)
  BY <1>8 DEF WaitLoop, IsDone, IsRunning
<1>9. CASE WaitEvent(c)
  <2>1. TypeOK'
    BY <1>9 DEF WaitEvent
  <2>2. PlaceInv'
    BY <1>9 DEF WaitEvent
  <2>3. LifeInv'
    BY <1>9 DEF WaitEvent
  <2>4. StateInv'
    BY <1>9 DEF WaitEvent
  <2>5. WorkInv'
    BY <1>9 DEF WaitEvent
  <2>6. CallInv'
    BY <1>9 DEF WaitEvent
  <2> QED
    BY <2>1, <2>2, <2>3, <2>4, <2>5, <2>6
<1>10. CASE WaitEventTimeout(c)
  BY <1>10 DEF WaitEventTimeout
<1>11. CASE WaitUnlock(c)
  BY <1>11 DEF WaitUnlock
<1>12. CASE WaitReturn(c)
  BY <1>12 DEF WaitReturn
<1>13. CASE AllowSleep(c)
  BY <1>13 DEF AllowSleep
<1> QED
  BY <1>1, <1>2, <1>3, <1>4, <1>5, <1>6, <1>7, <1>8, <1>9, <1>10, <1>11, <1>12, <1>13

LEMMA RunKeeps ==
  ASSUME LoopInv,
         \/ RunTest \/ RunPayload \/ RunSwitch \/ RunNeedExecution \/ RunLastExecution
         \/ RunSetDone \/ RunDone \/ RunTrySleep \/ RunSleeping \/ RunSleepingTimeout \/ RunExit
  PROVE  LoopInv'
<1> USE ThreadsAssumption
    DEF LoopInv, TypeOK, PlaceInv, LifeInv, StateInv, WorkInv, CallInv, WillLook, Goto, Threads,
        flagVars, eventVars, lockVars, historyVars, STATE_SLEEPING, STATE_DONE, STATE_LAST_EXECUTION,
        STATE_NEED_EXECUTION, Preparing, Looping, Exiting, BeforeExchange, WakeupPc, WaitPc,
        PreparePc, ClientPc, WorkerPc
<1>1. CASE RunTest
  BY <1>1 DEF RunTest
<1>2. CASE RunPayload
  BY <1>2 DEF RunPayload
<1>3. CASE RunSwitch
  BY <1>3 DEF RunSwitch
<1>4. CASE RunNeedExecution
  BY <1>4 DEF RunNeedExecution
<1>5. CASE RunLastExecution
  BY <1>5 DEF RunLastExecution
<1>6. CASE RunSetDone
  BY <1>6 DEF RunSetDone
<1>7. CASE RunDone
  <2>1. TypeOK'
    BY <1>7 DEF RunDone
  <2>2. PlaceInv'
    BY <1>7 DEF RunDone
  <2>3. LifeInv'
    BY <1>7 DEF RunDone
  <2>4. StateInv'
    BY <1>7 DEF RunDone
  <2>5. WorkInv'
    BY <1>7 DEF RunDone
  <2>6. CallInv'
    BY <1>7 DEF RunDone
  <2> QED
    BY <2>1, <2>2, <2>3, <2>4, <2>5, <2>6
<1>8. CASE RunTrySleep
  BY <1>8 DEF RunTrySleep
<1>9. CASE RunSleeping
  BY <1>9 DEF RunSleeping
<1>10. CASE RunSleepingTimeout
  BY <1>10 DEF RunSleepingTimeout
<1>11. CASE RunExit
  <2>1. TypeOK'
    <3>1. pc' \in [Threads -> ClientPc \cup WorkerPc]
      BY <1>11 DEF RunExit
    <3>2. m_running_state' \in 0..3
      BY <1>11 DEF RunExit
    <3>3. m_stopped' \in BOOLEAN
      BY <1>11 DEF RunExit
    <3>4. m_done_event' \in BOOLEAN
      BY <1>11 DEF RunExit
    <3> QED
      BY <1>11, <3>1, <3>2, <3>3, <3>4 DEF RunExit
  <2>2. PlaceInv'
    BY <1>11 DEF RunExit
  <2>3. LifeInv'
    BY <1>11 DEF RunExit
  <2>4. StateInv'
    BY <1>11 DEF RunExit
  <2>5. WorkInv'
    BY <1>11 DEF RunExit
  <2>6. CallInv'
    BY <1>11 DEF RunExit
  <2> QED
    BY <2>1, <2>2, <2>3, <2>4, <2>5, <2>6
<1> QED
  BY <1>1, <1>2, <1>3, <1>4, <1>5, <1>6, <1>7, <1>8, <1>9, <1>10, <1>11

LEMMA OwnerKeeps ==
  ASSUME LoopInv, Start \/ StopBegin \/ StopShutdown \/ Join
  PROVE  LoopInv'
<1> USE ThreadsAssumption
    DEF LoopInv, TypeOK, PlaceInv, LifeInv, StateInv, WorkInv, CallInv, WillLook, Goto, Threads,
        flagVars, eventVars, lockVars, historyVars, STATE_SLEEPING, STATE_DONE, STATE_LAST_EXECUTION,
        STATE_NEED_EXECUTION, Preparing, Looping, Exiting, BeforeExchange, WakeupPc, WaitPc,
        PreparePc, ClientPc, WorkerPc
<1>1. CASE Start
  BY <1>1 DEF Start
<1>2. CASE StopBegin
  BY <1>2 DEF StopBegin
<1>3. CASE StopShutdown
  BY <1>3 DEF StopShutdown
<1>4. CASE Join
  BY <1>4 DEF Join
<1> QED
  BY <1>1, <1>2, <1>3, <1>4

LEMMA PrepareKeeps ==
  ASSUME LoopInv, NEW t \in {Owner, Worker},
         Prepare(t) \/ PrepareState(t) \/ PrepareShutdown(t) \/ PrepareSleep(t)
  PROVE  LoopInv'
<1> USE ThreadsAssumption
    DEF LoopInv, TypeOK, PlaceInv, LifeInv, StateInv, WorkInv, CallInv, WillLook, Goto, Threads,
        flagVars, eventVars, lockVars, historyVars, STATE_SLEEPING, STATE_DONE, STATE_LAST_EXECUTION,
        STATE_NEED_EXECUTION, Preparing, Looping, Exiting, BeforeExchange, WakeupPc, WaitPc,
        PreparePc, ClientPc, WorkerPc
<1>1. CASE Prepare(t)
  <2>1. TypeOK'
    <3>1. pc' \in [Threads -> ClientPc \cup WorkerPc]
      BY <1>1 DEF Prepare, AfterPrepare
    <3>2. m_running_state' \in 0..3 /\ m_stopped' \in BOOLEAN /\ m_done_event' \in BOOLEAN
      BY <1>1 DEF Prepare, AfterPrepare
    <3> QED
      BY <1>1, <3>1, <3>2 DEF Prepare, AfterPrepare
  <2>2. PlaceInv'
    BY <1>1 DEF Prepare, AfterPrepare
  <2>3. LifeInv'
    BY <1>1 DEF Prepare, AfterPrepare
  <2>4. StateInv'
    BY <1>1 DEF Prepare, AfterPrepare
  <2>5. WorkInv'
    BY <1>1 DEF Prepare, AfterPrepare
  <2>6. CallInv'
    BY <1>1 DEF Prepare, AfterPrepare
  <2> QED
    BY <2>1, <2>2, <2>3, <2>4, <2>5, <2>6
<1>2. CASE PrepareState(t)
  BY <1>2 DEF PrepareState
<1>3. CASE PrepareShutdown(t)
  <2>1. TypeOK'
    BY <1>3 DEF PrepareShutdown
  <2>2. PlaceInv'
    BY <1>3 DEF PrepareShutdown
  <2>3. LifeInv'
    BY <1>3 DEF PrepareShutdown
  <2>4. StateInv'
    BY <1>3 DEF PrepareShutdown
  <2>5. WorkInv'
    BY <1>3 DEF PrepareShutdown
  <2>6. CallInv'
    BY <1>3 DEF PrepareShutdown
  <2> QED
    BY <2>1, <2>2, <2>3, <2>4, <2>5, <2>6
<1>4. CASE PrepareSleep(t)
  BY <1>4 DEF PrepareSleep, AfterPrepare
<1> QED
  BY <1>1, <1>2, <1>3, <1>4

LEMMA LoopInit == Init => LoopInv
<1> USE ThreadsAssumption
    DEF Init, LoopInv, Threads, STATE_SLEEPING, STATE_DONE, STATE_LAST_EXECUTION,
        STATE_NEED_EXECUTION, Preparing, Looping, Exiting, BeforeExchange, WakeupPc, WaitPc,
        PreparePc, ClientPc, WorkerPc
<1> SUFFICES ASSUME Init PROVE LoopInv
  OBVIOUS
<1>1. TypeOK
  <2>1. pc \in [Threads -> ClientPc \cup WorkerPc]
    OBVIOUS
  <2>2. /\ call \in [Clients -> {"None", "Stop"}]
        /\ work \in [Clients -> {"None", "Posted", "Taken"}]
    OBVIOUS
  <2>3. m_running_state \in STATE_SLEEPING..STATE_NEED_EXECUTION /\ served \subseteq Clients
    OBVIOUS
  <2>4. /\ m_stopped \in BOOLEAN /\ m_shutdown \in BOOLEAN /\ m_may_sleep \in BOOLEAN
        /\ m_new_work_event \in BOOLEAN /\ m_done_event \in BOOLEAN
    OBVIOUS
  <2> QED
    BY <2>1, <2>2, <2>3, <2>4 DEF TypeOK
<1>2. PlaceInv /\ LifeInv /\ StateInv
  BY DEF PlaceInv, LifeInv, StateInv
<1>3. WorkInv /\ CallInv
  BY DEF WorkInv, CallInv, WillLook
<1> QED
  BY <1>1, <1>2, <1>3

LEMMA LoopNext == LoopInv /\ [Next]_vars => LoopInv'
<1> SUFFICES ASSUME LoopInv, [Next]_vars PROVE LoopInv'
  OBVIOUS
<1>1. CASE RunStep \/ RunSleepingTimeout
  BY <1>1, RunKeeps, PrepareKeeps DEF RunStep, PrepareStep
<1>2. CASE Start \/ StopBegin \/ Join
  BY <1>2, OwnerKeeps
<1>3. ASSUME NEW c \in Clients, ClientStep(c) \/ ClientCall(c) \/ WaitEventTimeout(c)
      PROVE  LoopInv'
  BY <1>3, ClientKeeps, PrepareKeeps, OwnerKeeps DEF ClientStep, ClientCall, PrepareStep
<1>4. CASE UNCHANGED vars
  <2>1. UNCHANGED <<m_running_state, m_stopped, m_shutdown, m_may_sleep, m_new_work_event,
                    m_done_event, m_wait_lock, m_prepare_lock, pc, call, work, served>>
    BY <1>4 DEF vars, flagVars, eventVars, lockVars, historyVars
  <2> QED
    BY <2>1 DEF LoopInv, TypeOK, PlaceInv, LifeInv, StateInv, WorkInv, CallInv, WillLook
<1> QED
  BY <1>1, <1>2, <1>3, <1>4 DEF Next

-----------------------------------------------------------------------------
\* The theorems.

\* m_running_state stays in RUNNING_TYPE, and the rest of the state in its
\* types, under every interleaving (BlockingLoop.h:252).
THEOREM LoopTypeCorrect == Safety => []TypeOK
<1>1. LoopInv => TypeOK
  BY DEF LoopInv
<1> QED
  BY <1>1, LoopInit, LoopNext, PTL DEF Safety

\* A Wait that finds a live loop done finds the caller's work done
\* (BlockingLoop.h:51).
THEOREM WaitCorrect == Safety => []WaitMeansRun
<1>1. LoopInv => WaitMeansRun
  BY DEF LoopInv, CallInv, WaitMeansRun
<1> QED
  BY <1>1, LoopInit, LoopNext, PTL DEF Safety

\* A sleeping worker has missed neither work nor a Stop (BlockingLoop.h:33, 210).
THEOREM WakeupCorrect == Safety => []NoLostWakeup
<1>1. LoopInv => NoLostWakeup
  <2> SUFFICES ASSUME LoopInv, pc[Worker] = "Sleeping", ~m_new_work_event,
                      \A c \in Clients : pc[c] # "WakeSet",
                      NEW c \in Clients, IF m_shutdown THEN c = Owner ELSE work[c] # "None",
                      pc[c] \notin {"WakeLoad", "WakeExchange"}
               PROVE  FALSE
    BY DEF NoLostWakeup
  <2>1. m_running_state = STATE_SLEEPING
    BY DEF LoopInv, StateInv, WorkInv
  <2>2. ~WillLook /\ work[c] # "Taken"
    BY <2>1
    DEF LoopInv, WorkInv, WillLook, STATE_SLEEPING, STATE_LAST_EXECUTION, STATE_NEED_EXECUTION
  <2> QED
    BY <2>2 DEF LoopInv, TypeOK, WorkInv, BeforeExchange, Looping
<1> QED
  BY <1>1, LoopInit, LoopNext, PTL DEF Safety

\* When a blocking Stop returns, the payload has run for the last time
\* (BlockingLoop.h:201).
THEOREM StopCorrect == Safety => []StopMeansQuit
<1>1. LoopInv => StopMeansQuit
  BY ThreadsAssumption DEF LoopInv, CallInv, StopMeansQuit
<1> QED
  BY <1>1, LoopInit, LoopNext, PTL DEF Safety

-----------------------------------------------------------------------------
\* The contract.

\* It shows m_running_state and the place of the worker only.
LEMMA ContractKept ==
  ASSUME m_running_state' = m_running_state, pc'[Worker] = pc[Worker]
  PROVE  LoopState' = LoopState /\ Place' = Place
BY DEF LoopState, Place

\* A client changes either by the exchange of a Wakeup alone.
LEMMA ClientContract ==
  ASSUME LoopInv, NEW c \in Clients,
         \/ WakeupBegin(c) \/ WakeLoad(c) \/ WakeExchange(c) \/ WakeSet(c)
         \/ WaitBegin(c) \/ WaitTest(c) \/ WaitLock(c) \/ WaitLoop(c) \/ WaitEvent(c)
         \/ WaitEventTimeout(c) \/ WaitUnlock(c) \/ WaitReturn(c) \/ AllowSleep(c)
  PROVE  Contract!Wakeup \/ UNCHANGED <<LoopState, Place>>
<1>1. pc'[Worker] = pc[Worker]
  BY ThreadsAssumption
     DEF LoopInv, TypeOK, Threads, Goto, WakeupBegin, WakeLoad, WakeExchange, WakeSet, WaitBegin,
         WaitTest, WaitLoop, IsDone, WaitLock, WaitEvent, WaitEventTimeout, WaitUnlock, WaitReturn,
         AllowSleep
<1>2. CASE WakeExchange(c)
  <2>1. Place' = Place
    BY <1>1 DEF Place
  <2>2. LoopState' = "Need"
    BY <1>2
       DEF WakeExchange, LoopState, STATE_SLEEPING, STATE_LAST_EXECUTION, STATE_NEED_EXECUTION
  <2> QED
    BY <2>1, <2>2 DEF Contract!Wakeup
<1>3. CASE ~WakeExchange(c)
  <2>1. m_running_state' = m_running_state
    BY <1>3 DEF WakeupBegin, WakeLoad, WakeSet, WaitBegin, WaitTest, WaitLoop, IsDone, WaitLock,
                WaitEvent, WaitEventTimeout, WaitUnlock, WaitReturn, AllowSleep
  <2> QED
    BY <1>1, <2>1, ContractKept
<1> QED
  BY <1>2, <1>3

\* Prepare lets the worker start, and stores its state only before that.
LEMMA PrepareContract ==
  ASSUME LoopInv, NEW t \in {Owner, Worker}, PrepareStep(t)
  PROVE  Contract!Prepare \/ Contract!Start \/ UNCHANGED <<LoopState, Place>>
<1> USE ThreadsAssumption
    DEF LoopInv, TypeOK, PlaceInv, LifeInv, StateInv, Goto, Threads, lockVars, flagVars, eventVars,
        STATE_SLEEPING, STATE_DONE, STATE_LAST_EXECUTION, STATE_NEED_EXECUTION, Preparing, Looping,
        PreparePc, WorkerPc, Place, LoopState
<1>1. CASE Prepare(t)
  BY <1>1 DEF Prepare, AfterPrepare, Contract!Start
<1>2. CASE PrepareState(t)
  BY <1>2 DEF PrepareState, Contract!Prepare
<1>3. CASE PrepareShutdown(t)
  BY <1>3 DEF PrepareShutdown
<1>4. CASE PrepareSleep(t)
  BY <1>4 DEF PrepareSleep, AfterPrepare, Contract!Start
<1> QED
  BY <1>1, <1>2, <1>3, <1>4 DEF PrepareStep

\* The owner changes neither.
LEMMA OwnerContract ==
  ASSUME LoopInv, Start \/ StopBegin \/ StopShutdown \/ Join
  PROVE  UNCHANGED <<LoopState, Place>>
BY ThreadsAssumption
   DEF LoopInv, TypeOK, Threads, Goto, Start, StopBegin, StopShutdown, Join, LoopState, Place

\* The steps of Run.
LEMMA RunContract ==
  ASSUME LoopInv,
         \/ RunTest \/ RunPayload \/ RunSwitch \/ RunNeedExecution \/ RunLastExecution
         \/ RunSetDone \/ RunDone \/ RunTrySleep \/ RunSleeping \/ RunSleepingTimeout \/ RunExit
  PROVE  Contract!Next \/ UNCHANGED <<LoopState, Place>>
<1> USE ThreadsAssumption
    DEF LoopInv, TypeOK, StateInv, Goto, Threads, STATE_SLEEPING, STATE_DONE,
        STATE_LAST_EXECUTION, STATE_NEED_EXECUTION, Place, LoopState, Contract!Next
<1>1. CASE RunTest
  BY <1>1 DEF RunTest, Contract!Begin, Contract!Quit
<1>2. CASE RunPayload
  BY <1>2 DEF RunPayload, Contract!Finish
<1>3. CASE RunSwitch
  BY <1>3 DEF RunSwitch, Contract!End
<1>4. CASE RunNeedExecution
  BY <1>4 DEF RunNeedExecution, Contract!End
<1>5. CASE RunLastExecution
  BY <1>5 DEF RunLastExecution, Contract!End
<1>6. CASE RunSetDone
  BY <1>6 DEF RunSetDone
<1>7. CASE RunDone
  BY <1>7 DEF RunDone, Contract!Settle
<1>8. CASE RunTrySleep
  BY <1>8 DEF RunTrySleep, Contract!Settle
<1>9. CASE RunSleeping
  BY <1>9 DEF RunSleeping, Contract!Settle
<1>10. CASE RunSleepingTimeout
  BY <1>10 DEF RunSleepingTimeout, Contract!Settle
<1>11. CASE RunExit
  BY <1>11 DEF RunExit, Contract!Stopped
<1> QED
  BY <1>1, <1>2, <1>3, <1>4, <1>5, <1>6, <1>7, <1>8, <1>9, <1>10, <1>11

LEMMA ContractStep == LoopInv /\ [Next]_vars => [Contract!Next]_<<LoopState, Place>>
<1> SUFFICES ASSUME LoopInv, [Next]_vars PROVE Contract!Next \/ UNCHANGED <<LoopState, Place>>
  OBVIOUS
<1>1. CASE RunStep \/ RunSleepingTimeout
  BY <1>1, RunContract, PrepareContract DEF RunStep, Contract!Next
<1>2. CASE Start \/ StopBegin \/ Join
  BY <1>2, OwnerContract
<1>3. ASSUME NEW c \in Clients, ClientStep(c) \/ ClientCall(c) \/ WaitEventTimeout(c)
      PROVE  Contract!Next \/ UNCHANGED <<LoopState, Place>>
  BY <1>3, ClientContract, PrepareContract, OwnerContract
     DEF ClientStep, ClientCall, Contract!Next
<1>4. CASE UNCHANGED vars
  BY <1>4, ContractKept DEF vars
<1> QED
  BY <1>1, <1>2, <1>3, <1>4 DEF Next

\* After a Wakeup the loop is done only when the payload has begun a new run and
\* ended it, for any number of clients and restarts (BlockingLoop.h:33-49,
\* 126-198).  This is what the GPU thread's loop in Fifo takes for granted.
THEOREM ContractCorrect == Safety => ImplementsContract
<1>1. Init => Contract!Init
  BY ThreadsAssumption
     DEF Init, Contract!Init, LoopState, Place, Threads, STATE_SLEEPING, STATE_LAST_EXECUTION,
         STATE_NEED_EXECUTION
<1> QED
  BY <1>1, LoopInit, LoopNext, ContractStep, PTL DEF Safety, ImplementsContract, Contract!Spec

=============================================================================
