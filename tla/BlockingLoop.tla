---------------------------- MODULE BlockingLoop ----------------------------
(***************************************************************************)
(* Common::BlockingLoop (Common/BlockingLoop.h), the main loop of the GPU  *)
(* thread: clients post work and call Wakeup, the worker runs the payload  *)
(* at least once afterwards, and Wait returns when it has.                 *)
(*                                                                         *)
(* An action is one access to an atomic variable, or one lock operation    *)
(* with the accesses it protects.  A Common::Event is a flag that a waiter *)
(* consumes: Event::Set takes the mutex of the condition variable between  *)
(* setting the flag and notifying, so that no notification is lost.        *)
(***************************************************************************)
EXTENDS Integers, FiniteSets

CONSTANTS
  Clients,     \* the threads that call Wakeup, Wait and AllowSleep
  Owner,       \* the client that starts, stops and joins the worker
  Worker,      \* the thread that calls Run
  NoThread,    \* "no owner" of a lock
  HasTimeout   \* whether Run was given a timeout

ASSUME ThreadsAssumption ==
  Owner \in Clients /\ Worker \notin Clients /\ NoThread \notin Clients \cup {Worker}
ASSUME TimeoutAssumption == HasTimeout \in BOOLEAN

VARIABLES
  m_running_state,
  m_stopped, m_shutdown, m_may_sleep,  \* the flags
  m_new_work_event, m_done_event,      \* the events
  m_wait_lock, m_prepare_lock,         \* their owners
  pc,                                  \* where each thread is
  call,                                \* whether a client's Wakeup or Wait is part of Stop
  work,                                \* what became of the work a client posted last
  served                               \* history: clients whose Wait has found a live loop done

flagVars == <<m_stopped, m_shutdown, m_may_sleep>>
eventVars == <<m_new_work_event, m_done_event>>
lockVars == <<m_wait_lock, m_prepare_lock>>
historyVars == <<work, served>>
vars == <<m_running_state, flagVars, eventVars, lockVars, pc, call, historyVars>>

\* RUNNING_TYPE
STATE_SLEEPING == 0
STATE_DONE == 1
STATE_LAST_EXECUTION == 2
STATE_NEED_EXECUTION == 3

Threads == Clients \cup {Worker}

\* Inside Wakeup, Wait, Prepare and Stop.
WakeupPc == {"WakeLoad", "WakeExchange", "WakeSet"}
WaitPc == {"DoneStopped", "DoneState", "Lock", "LoopStopped", "LoopState", "Event", "Unlock"}
PreparePc == {"Prepare", "PrepareState", "PrepareShutdown", "PrepareSleep"}
ClientPc == {"Idle", "StopShutdown", "Waited"} \cup WakeupPc \cup WaitPc \cup PreparePc
\* Run; "None" is no thread, "Ended" one to be joined.
WorkerPc == {"None", "Test", "Payload", "Switch", "NeedExecution", "LastExecution", "SetDone",
             "Done", "TrySleep", "Sleeping", "Exit", "ExitStopped", "ExitDone", "Ended"}
            \cup PreparePc

Init ==
  /\ m_running_state = STATE_SLEEPING
  /\ m_stopped = TRUE /\ m_shutdown = FALSE /\ m_may_sleep = FALSE
  /\ m_new_work_event = FALSE /\ m_done_event = FALSE
  /\ m_wait_lock = NoThread /\ m_prepare_lock = NoThread
  /\ pc = [t \in Threads |-> IF t = Worker THEN "None" ELSE "Idle"]
  /\ call = [c \in Clients |-> "None"]
  /\ work = [c \in Clients |-> "None"] /\ served = {}

Goto(t, to) == pc' = [pc EXCEPT ![t] = to]

-----------------------------------------------------------------------------
\* Wakeup, lines 35-49.

\* The client has new work for the payload and calls Wakeup.
WakeupBegin(c) ==
  /\ pc[c] = "Idle"
  /\ Goto(c, "WakeLoad")
  /\ work' = [work EXCEPT ![c] = "Posted"]
  /\ UNCHANGED <<m_running_state, flagVars, eventVars, lockVars, call, served>>

\* Wakeup returns, to the caller or into the Wait of Stop.
AfterWakeup(c) == IF call[c] = "Stop" THEN "DoneStopped" ELSE "Idle"

WakeLoad(c) ==
  /\ pc[c] = "WakeLoad"
  /\ Goto(c, IF m_running_state >= STATE_NEED_EXECUTION THEN AfterWakeup(c) ELSE "WakeExchange")
  /\ UNCHANGED <<m_running_state, flagVars, eventVars, lockVars, call, historyVars>>

\* Mutant: never sets the event.
WakeExchangeSilent(c) ==
  /\ pc[c] = "WakeExchange"
  /\ m_running_state' = STATE_NEED_EXECUTION
  /\ Goto(c, AfterWakeup(c))
  /\ UNCHANGED <<flagVars, eventVars, lockVars, call, historyVars>>

WakeExchange(c) ==
  /\ pc[c] = "WakeExchange"
  /\ m_running_state' = STATE_NEED_EXECUTION
  /\ Goto(c, IF m_running_state # STATE_SLEEPING THEN AfterWakeup(c) ELSE "WakeSet")
  /\ UNCHANGED <<flagVars, eventVars, lockVars, call, historyVars>>

WakeSet(c) ==
  /\ pc[c] = "WakeSet"
  /\ m_new_work_event' = TRUE
  /\ Goto(c, AfterWakeup(c))
  /\ UNCHANGED <<m_running_state, flagVars, m_done_event, lockVars, call, historyVars>>

-----------------------------------------------------------------------------
\* Wait and WaitYield, lines 53-100.

IsRunning == ~m_stopped /\ ~m_shutdown

WaitBegin(c) ==
  /\ pc[c] = "Idle"
  /\ Goto(c, "DoneStopped")
  /\ UNCHANGED <<m_running_state, flagVars, eventVars, lockVars, call, historyVars>>

\* IsDone (line 230) is two loads: m_stopped, at the point `stopped', and unless
\* it is set m_running_state, at the point `state'.
IsDone(c, stopped, state, yes, no) ==
  /\ \/ /\ pc[c] = stopped
        /\ Goto(c, IF m_stopped THEN yes ELSE state)
        /\ UNCHANGED served
     \/ /\ pc[c] = state
        /\ Goto(c, IF m_running_state <= STATE_DONE THEN yes ELSE no)
        /\ served' = IF m_running_state <= STATE_DONE /\ IsRunning THEN served \cup {c} ELSE served
  /\ UNCHANGED <<m_running_state, flagVars, eventVars, lockVars, call, work>>

\* Lines 56 and 65.
WaitTest(c) == IsDone(c, "DoneStopped", "DoneState", "Waited", "Lock")
WaitLoop(c) == IsDone(c, "LoopStopped", "LoopState", "Unlock", "Event")

WaitLock(c) ==
  /\ pc[c] = "Lock" /\ m_wait_lock = NoThread
  /\ m_wait_lock' = c
  /\ Goto(c, "LoopStopped")
  /\ UNCHANGED <<m_running_state, flagVars, eventVars, m_prepare_lock, call, historyVars>>

WaitEvent(c) ==
  /\ pc[c] = "Event" /\ m_done_event
  /\ m_done_event' = FALSE
  /\ Goto(c, "LoopStopped")
  /\ UNCHANGED <<m_running_state, flagVars, m_new_work_event, lockVars, call, historyVars>>

\* WaitYield's 100 ms are over.
WaitEventTimeout(c) ==
  /\ pc[c] = "Event"
  /\ Goto(c, "LoopStopped")
  /\ UNCHANGED <<m_running_state, flagVars, eventVars, lockVars, call, historyVars>>

WaitUnlock(c) ==
  /\ pc[c] = "Unlock"
  /\ m_may_sleep' = TRUE
  /\ m_wait_lock' = NoThread
  /\ Goto(c, "Waited")
  /\ UNCHANGED <<m_running_state, m_stopped, m_shutdown, eventVars, m_prepare_lock, call,
                 historyVars>>

\* Wait, or the Stop that called it, returns.
WaitReturn(c) ==
  /\ pc[c] = "Waited"
  /\ Goto(c, "Idle") /\ call' = [call EXCEPT ![c] = "None"]
  /\ served' = served \ {c}
  /\ UNCHANGED <<m_running_state, flagVars, eventVars, lockVars, work>>

AllowSleep(c) ==
  /\ pc[c] = "Idle"
  /\ m_may_sleep' = TRUE
  /\ UNCHANGED <<m_running_state, m_stopped, m_shutdown, eventVars, lockVars, pc, call,
                 historyVars>>

-----------------------------------------------------------------------------
\* Prepare, lines 106-118, called by the owner and by Run.

AfterPrepare(t) == IF t = Worker THEN "Test" ELSE "Idle"

Prepare(t) ==
  /\ pc[t] = "Prepare" /\ m_prepare_lock = NoThread
  /\ m_stopped' = FALSE
  /\ IF m_stopped
     THEN m_prepare_lock' = t /\ Goto(t, "PrepareState")
     ELSE UNCHANGED m_prepare_lock /\ Goto(t, AfterPrepare(t))
  /\ UNCHANGED <<m_running_state, m_shutdown, m_may_sleep, eventVars, m_wait_lock, call,
                 historyVars>>

PrepareState(t) ==
  /\ pc[t] = "PrepareState"
  /\ m_running_state' = STATE_LAST_EXECUTION
  /\ Goto(t, "PrepareShutdown")
  /\ UNCHANGED <<flagVars, eventVars, lockVars, call, historyVars>>

PrepareShutdown(t) ==
  /\ pc[t] = "PrepareShutdown"
  /\ m_shutdown' = FALSE
  /\ Goto(t, "PrepareSleep")
  /\ UNCHANGED <<m_running_state, m_stopped, m_may_sleep, eventVars, lockVars, call, historyVars>>

PrepareSleep(t) ==
  /\ pc[t] = "PrepareSleep"
  /\ m_may_sleep' = TRUE
  /\ m_prepare_lock' = NoThread
  /\ Goto(t, AfterPrepare(t))
  /\ UNCHANGED <<m_running_state, m_stopped, m_shutdown, eventVars, m_wait_lock, call, historyVars>>

-----------------------------------------------------------------------------
\* The owner.

\* It starts the worker and prepares the loop; the worker's own Prepare races.
Start ==
  /\ pc[Owner] = "Idle" /\ pc[Worker] = "None"
  /\ pc' = [pc EXCEPT ![Owner] = "Prepare", ![Worker] = "Prepare"]
  /\ UNCHANGED <<m_running_state, flagVars, eventVars, lockVars, call, historyVars>>

\* Stop, lines 203-219, in the modes NonBlock and Block.
StopBegin ==
  /\ pc[Owner] = "Idle" /\ pc[Worker] # "None"
  /\ \/ m_stopped /\ UNCHANGED <<pc, call>>
     \/ /\ ~m_stopped
        /\ Goto(Owner, "StopShutdown")
        /\ \E mode \in {"None", "Stop"} : call' = [call EXCEPT ![Owner] = mode]
  /\ UNCHANGED <<m_running_state, flagVars, eventVars, lockVars, historyVars>>

StopShutdown ==
  /\ pc[Owner] = "StopShutdown"
  /\ m_shutdown' = TRUE
  /\ Goto(Owner, "WakeLoad")
  /\ UNCHANGED <<m_running_state, m_stopped, m_may_sleep, eventVars, lockVars, call, historyVars>>

Join ==
  /\ pc[Owner] = "Idle" /\ pc[Worker] = "Ended"
  /\ Goto(Worker, "None")
  /\ UNCHANGED <<m_running_state, flagVars, eventVars, lockVars, call, historyVars>>

-----------------------------------------------------------------------------
\* Run, lines 126-198.

\* The payload sees the work posted before it begins.
RunTest ==
  /\ pc[Worker] = "Test"
  /\ \/ m_shutdown /\ Goto(Worker, "Exit") /\ UNCHANGED work
     \/ /\ ~m_shutdown /\ Goto(Worker, "Payload")
        /\ work' = [c \in Clients |-> IF work[c] = "Posted" THEN "Taken" ELSE work[c]]
  /\ UNCHANGED <<m_running_state, flagVars, eventVars, lockVars, call, served>>

RunPayload ==
  /\ pc[Worker] = "Payload"
  /\ Goto(Worker, "Switch")
  /\ work' = [c \in Clients |-> IF work[c] = "Taken" THEN "None" ELSE work[c]]
  /\ UNCHANGED <<m_running_state, flagVars, eventVars, lockVars, call, served>>

RunSwitch ==
  /\ pc[Worker] = "Switch"
  /\ Goto(Worker, CASE m_running_state = STATE_NEED_EXECUTION -> "NeedExecution"
                    [] m_running_state = STATE_LAST_EXECUTION -> "LastExecution"
                    [] m_running_state = STATE_DONE -> "Done"
                    [] m_running_state = STATE_SLEEPING -> "Sleeping")
  /\ UNCHANGED <<m_running_state, flagVars, eventVars, lockVars, call, historyVars>>

RunNeedExecution ==
  /\ pc[Worker] = "NeedExecution"
  /\ m_running_state' = m_running_state - 1
  /\ Goto(Worker, "Test")
  /\ UNCHANGED <<flagVars, eventVars, lockVars, call, historyVars>>

\* Mutant: stores STATE_DONE over a Wakeup that came since the load.
RunLastExecutionStore ==
  /\ pc[Worker] = "LastExecution"
  /\ m_running_state' = STATE_DONE
  /\ Goto(Worker, "SetDone")
  /\ UNCHANGED <<flagVars, eventVars, lockVars, call, historyVars>>

\* Line 153: the decrement returns what a Wakeup made of the state meanwhile.
RunLastExecution ==
  /\ pc[Worker] = "LastExecution"
  /\ m_running_state' = m_running_state - 1
  /\ Goto(Worker, IF m_running_state = STATE_LAST_EXECUTION THEN "SetDone" ELSE "Test")
  /\ UNCHANGED <<flagVars, eventVars, lockVars, call, historyVars>>

\* Mutant: does not tell the waiting threads.
RunSetDoneSilent ==
  /\ pc[Worker] = "SetDone"
  /\ Goto(Worker, "Done")
  /\ UNCHANGED <<m_running_state, flagVars, eventVars, lockVars, call, historyVars>>

RunSetDone ==
  /\ pc[Worker] = "SetDone"
  /\ m_done_event' = TRUE
  /\ Goto(Worker, "Done")
  /\ UNCHANGED <<m_running_state, flagVars, m_new_work_event, lockVars, call, historyVars>>

\* Line 165: sleep, or stay in the busy loop.
RunDone ==
  /\ pc[Worker] = "Done"
  /\ m_may_sleep' = FALSE
  /\ Goto(Worker, IF m_may_sleep THEN "TrySleep" ELSE "Test")
  /\ UNCHANGED <<m_running_state, m_stopped, m_shutdown, eventVars, lockVars, call, historyVars>>

\* Mutant: stores STATE_SLEEPING over a Wakeup that came since the load.
RunTrySleepStore ==
  /\ pc[Worker] = "TrySleep"
  /\ m_running_state' = STATE_SLEEPING
  /\ Goto(Worker, "Sleeping")
  /\ UNCHANGED <<flagVars, eventVars, lockVars, call, historyVars>>

RunTrySleep ==
  /\ pc[Worker] = "TrySleep"
  /\ m_running_state' = m_running_state - 1
  /\ Goto(Worker, IF m_running_state = STATE_DONE THEN "Sleeping" ELSE "Test")
  /\ UNCHANGED <<flagVars, eventVars, lockVars, call, historyVars>>

RunSleeping ==
  /\ pc[Worker] = "Sleeping" /\ m_new_work_event
  /\ m_new_work_event' = FALSE
  /\ Goto(Worker, "Test")
  /\ UNCHANGED <<m_running_state, flagVars, m_done_event, lockVars, call, historyVars>>

RunSleepingTimeout ==
  /\ pc[Worker] = "Sleeping" /\ HasTimeout
  /\ Goto(Worker, "Test")
  /\ UNCHANGED <<m_running_state, flagVars, eventVars, lockVars, call, historyVars>>

\* Lines 193-197.
RunExit ==
  /\ \/ /\ pc[Worker] = "Exit" /\ Goto(Worker, "ExitStopped")
        /\ m_running_state' = STATE_DONE /\ UNCHANGED <<m_stopped, m_done_event>>
     \/ /\ pc[Worker] = "ExitStopped" /\ Goto(Worker, "ExitDone")
        /\ m_stopped' = TRUE /\ UNCHANGED <<m_running_state, m_done_event>>
     \/ /\ pc[Worker] = "ExitDone" /\ Goto(Worker, "Ended")
        /\ m_done_event' = TRUE /\ UNCHANGED <<m_running_state, m_stopped>>
  /\ UNCHANGED <<m_shutdown, m_may_sleep, m_new_work_event, lockVars, call, historyVars>>

-----------------------------------------------------------------------------
PrepareStep(t) == Prepare(t) \/ PrepareState(t) \/ PrepareShutdown(t) \/ PrepareSleep(t)

RunStep ==
  \/ PrepareStep(Worker)
  \/ RunTest \/ RunPayload \/ RunSwitch \/ RunNeedExecution \/ RunLastExecution \/ RunSetDone
  \/ RunDone \/ RunTrySleep \/ RunSleeping \/ RunExit

\* A client's call goes on.
ClientStep(c) ==
  \/ WakeLoad(c) \/ WakeExchange(c) \/ WakeSet(c)
  \/ WaitTest(c) \/ WaitLock(c) \/ WaitLoop(c) \/ WaitEvent(c) \/ WaitUnlock(c) \/ WaitReturn(c)
  \/ c = Owner /\ (PrepareStep(c) \/ StopShutdown)

ClientCall(c) == WakeupBegin(c) \/ WaitBegin(c) \/ AllowSleep(c)

Next ==
  \/ RunStep \/ RunSleepingTimeout \/ Start \/ StopBegin \/ Join
  \/ \E c \in Clients : ClientStep(c) \/ ClientCall(c) \/ WaitEventTimeout(c)

Safety == Init /\ [][Next]_vars

\* Every thread inside a call moves on; no timeout is needed for it.
Fairness == WF_vars(RunStep) /\ \A c \in Clients : SF_vars(ClientStep(c))

Spec == Safety /\ Fairness

-----------------------------------------------------------------------------
\* Properties.

\* Types; m_running_state stays in RUNNING_TYPE although the worker decrements
\* what it has not just read (BlockingLoop.h:252).
TypeOK ==
  /\ m_running_state \in STATE_SLEEPING..STATE_NEED_EXECUTION
  /\ m_stopped \in BOOLEAN /\ m_shutdown \in BOOLEAN /\ m_may_sleep \in BOOLEAN
  /\ m_new_work_event \in BOOLEAN /\ m_done_event \in BOOLEAN
  /\ m_wait_lock \in Clients \cup {NoThread} /\ m_prepare_lock \in Threads \cup {NoThread}
  /\ pc \in [Threads -> ClientPc \cup WorkerPc]
  /\ call \in [Clients -> {"None", "Stop"}]
  /\ work \in [Clients -> {"None", "Posted", "Taken"}]
  /\ served \subseteq Clients

\* BlockingLoop.h:51, "Wait for a complete payload run after the last Wakeup()
\* call": a Wait that finds a live loop done finds the caller's work done,
\* across the optimistic early return of Wakeup and restarts of the loop.
WaitMeansRun == \A c \in served : work[c] = "None"

\* BlockingLoop.h:33, 210: when the worker is asleep with no event coming, the
\* only clients with unfinished work, and the only Stop, are those whose Wakeup
\* has not reached m_running_state yet.
NoLostWakeup ==
  (pc[Worker] = "Sleeping" /\ ~m_new_work_event /\ \A c \in Clients : pc[c] # "WakeSet") =>
    \A c \in Clients :
      (IF m_shutdown THEN c = Owner ELSE work[c] # "None") => pc[c] \in {"WakeLoad", "WakeExchange"}

\* BlockingLoop.h:201, "it will wait until the main loop quits": when a blocking
\* Stop returns, the worker is past its last payload.
StopMeansQuit ==
  (pc[Owner] = "Waited" /\ call[Owner] = "Stop") =>
    pc[Worker] \in {"ExitStopped", "ExitDone", "Ended"}

\* BlockingLoop.h:33, "Triggers to rerun the payload": without any timeout,
\* a payload run takes the posted work unless the loop is stopped first.
WakeupRunsPayload ==
  \A c \in Clients :
    (work[c] = "Posted" /\ pc[c] = "Idle" /\ IsRunning) ~> (work[c] # "Posted" \/ ~IsRunning)

\* Wait returns, unless Wakeup is called for ever (BlockingLoop.h:19-20).
WaitReturns ==
  <>[](\A c \in Clients : pc[c] \notin WakeupPc) =>
    \A c \in Clients : pc[c] \in WaitPc ~> pc[c] \notin WaitPc

-----------------------------------------------------------------------------
\* What the users of the loop rely on.

Place ==
  CASE pc[Worker] = "Test" -> "Test"
    [] pc[Worker] = "Payload" -> "Run"
    [] pc[Worker] \in {"Switch", "NeedExecution", "LastExecution"} -> "End"
    [] pc[Worker] \in {"SetDone", "Done", "TrySleep", "Sleeping"} -> "Settle"
    [] OTHER -> "Off"

LoopState ==
  CASE m_running_state = STATE_NEED_EXECUTION -> "Need"
    [] m_running_state = STATE_LAST_EXECUTION -> "Last"
    [] OTHER -> "Done"

Contract == INSTANCE LoopContract WITH loop <- LoopState, place <- Place

\* BlockingLoop.h:14-23: the loop is its contract, although Wakeup returns early on
\* what it has read, the worker decrements a state that Wakeup may have raised
\* since, and the owner's Prepare races with the worker's own.
ImplementsContract == Contract!Spec

=============================================================================
