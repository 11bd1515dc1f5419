-------------------------- MODULE WorkQueueThread ---------------------------
(***************************************************************************)
(* Common::WorkQueueThread and AsyncWorkThread (Common/WorkQueueThread.h)  *)
(* on Common::WaitableSPSCQueue (Common/SPSCQueue.h) and Common::Event:    *)
(* a worker thread takes items from a queue that several clients fill,     *)
(* cancel, wait for, stop and restart under one recursive mutex.           *)
(*                                                                         *)
(* An action is one access to the size of a queue, to the event or to the  *)
(* mutex.  A queue is the sequence its nodes form: only its size is shared *)
(* between the two sides, and it changes last in Emplace and in Pop.  The  *)
(* single-producer variants are the instances with one client.             *)
(***************************************************************************)
EXTENDS Naturals, Sequences

CONSTANTS
  Clients,    \* the threads that use the public interface
  Worker,     \* the thread that runs ThreadLoop
  NoThread,   \* "no owner" of the mutex
  MaxItems    \* bound: how many items are ever pushed

ASSUME ThreadsAssumption == Worker \notin Clients /\ NoThread \notin Clients \cup {Worker}
ASSUME ItemsAssumption == MaxItems \in Nat

VARIABLES
  m_mutex,
  m_items,      \* the items, numbered in the order of the pushes
  m_commands,   \* "Clear" is the command of Cancel, "Exit" the empty function
  m_event,
  pc, op,       \* where each client is, and in which call
  wpc,          \* where the worker is: "None" is no joinable thread
  future,       \* the item whose future is not ready, of a client in PushBlocking, or 0
  pushed,       \* how many items were pushed
  self_push     \* whether the queue's function pushes to the queue, chosen once

queueVars == <<m_items, m_commands, m_event>>
itemVars == <<future, pushed, self_push>>
vars == <<m_mutex, queueVars, pc, op, wpc, itemVars>>

Ops == {"Push", "PushBlocking", "Cancel", "WaitForCompletion", "Shutdown", "Stop",
        "StopAndCancel", "Reset"}
ClientPc == {"Idle", "Lock", "Emplace", "Set", "Cancel", "Command", "CommandSet", "CommandWait",
             "Completion", "StopThread", "StopSet", "Join", "Start", "Unlock", "Future"}
FunctionPc == {"Function", "PushLock", "PushEmplace", "PushSet", "PushUnlock", "Pop"}
WorkerPc == {"None", "Commands", "PopCommand", "Items", "Wait", "Returned"} \cup FunctionPc

Init ==
  /\ m_mutex = NoThread
  /\ m_items = <<>> /\ m_commands = <<>> /\ m_event = FALSE
  /\ pc = [c \in Clients |-> "Idle"] /\ op = [c \in Clients |-> "None"]
  /\ wpc = "None"
  /\ future = [c \in Clients |-> 0] /\ pushed = 0
  /\ self_push \in BOOLEAN

Goto(c, to) == pc' = [pc EXCEPT ![c] = to]

-----------------------------------------------------------------------------
\* The public interface: every call takes the mutex first and gives it up last.

IsRunning == wpc # "None"

\* Where a call goes once it has the mutex, and after it stopped the thread.
FirstStep(o) ==
  CASE o \in {"Push", "PushBlocking"} -> "Emplace"
    [] o = "Cancel" -> "Cancel"
    [] o \in {"WaitForCompletion", "Shutdown", "Reset"} -> "Completion"
    [] OTHER -> "StopThread"
AfterStop(o) ==
  CASE o = "StopAndCancel" -> "Cancel"
    [] o = "Reset" -> "Start"
    [] OTHER -> "Unlock"

Call(c, o) ==
  /\ pc[c] = "Idle"
  /\ o \in {"Push", "PushBlocking"} => pushed < MaxItems
  /\ op' = [op EXCEPT ![c] = o]
  /\ Goto(c, "Lock")
  /\ UNCHANGED <<m_mutex, queueVars, wpc, itemVars>>

Lock(c) ==
  /\ pc[c] = "Lock" /\ m_mutex = NoThread
  /\ m_mutex' = c
  /\ Goto(c, FirstStep(op[c]))
  /\ UNCHANGED <<queueVars, op, wpc, itemVars>>

Unlock(c) ==
  /\ pc[c] = "Unlock"
  /\ m_mutex' = NoThread
  /\ IF op[c] = "PushBlocking"
     THEN Goto(c, "Future") /\ op' = op
     ELSE Goto(c, "Idle") /\ op' = [op EXCEPT ![c] = "None"]
  /\ UNCHANGED <<queueVars, wpc, itemVars>>

\* EmplaceItem: the item, then the event.
Emplace(c) ==
  /\ pc[c] = "Emplace"
  /\ pushed' = pushed + 1
  /\ m_items' = Append(m_items, pushed')
  /\ future' = IF op[c] = "PushBlocking" THEN [future EXCEPT ![c] = pushed'] ELSE future
  /\ Goto(c, "Set")
  /\ UNCHANGED <<m_mutex, m_commands, m_event, op, wpc, self_push>>

\* Mutant: the event is not set.
SetSilent(c) ==
  /\ pc[c] = "Set"
  /\ Goto(c, "Unlock")
  /\ UNCHANGED <<m_mutex, queueVars, op, wpc, itemVars>>

Set(c) ==
  /\ pc[c] = "Set"
  /\ m_event' = TRUE
  /\ Goto(c, "Unlock")
  /\ UNCHANGED <<m_mutex, m_items, m_commands, op, wpc, itemVars>>

\* PushBlocking gets the future of its task outside the mutex.
Future(c) ==
  /\ pc[c] = "Future" /\ future[c] = 0
  /\ Goto(c, "Idle")
  /\ op' = [op EXCEPT ![c] = "None"]
  /\ UNCHANGED <<m_mutex, queueVars, wpc, itemVars>>

\* Cancel's fast path.
Cancel(c) ==
  /\ pc[c] = "Cancel"
  /\ Goto(c, IF m_items = <<>> THEN "Unlock" ELSE "Command")
  /\ UNCHANGED <<m_mutex, queueVars, op, wpc, itemVars>>

\* Mutant: the client clears the items itself.
CommandInPlace(c) ==
  /\ pc[c] = "Command"
  /\ m_items' = <<>>
  /\ Goto(c, "Unlock")
  /\ UNCHANGED <<m_mutex, m_commands, m_event, op, wpc, itemVars>>

\* RunCommand: in place if there is no worker, otherwise queued for it.
Command(c) ==
  /\ pc[c] = "Command"
  /\ IF IsRunning
     THEN m_commands' = Append(m_commands, "Clear") /\ m_items' = m_items /\ Goto(c, "CommandSet")
     ELSE m_items' = <<>> /\ m_commands' = m_commands /\ Goto(c, "Unlock")
  /\ UNCHANGED <<m_mutex, m_event, op, wpc, itemVars>>

\* Mutant: counts on the worker to look at the commands after its item.
CommandSetSilent(c) ==
  /\ pc[c] = "CommandSet"
  /\ Goto(c, "CommandWait")
  /\ UNCHANGED <<m_mutex, queueVars, op, wpc, itemVars>>

CommandSet(c) ==
  /\ pc[c] = "CommandSet"
  /\ m_event' = TRUE
  /\ Goto(c, "CommandWait")
  /\ UNCHANGED <<m_mutex, m_items, m_commands, op, wpc, itemVars>>

\* Mutant: does not wait for the worker.
CommandNoWait(c) ==
  /\ pc[c] = "CommandWait"
  /\ Goto(c, "Unlock")
  /\ UNCHANGED <<m_mutex, queueVars, op, wpc, itemVars>>

\* WaitForEmpty of the commands.
CommandWait(c) ==
  /\ pc[c] = "CommandWait" /\ m_commands = <<>>
  /\ Goto(c, "Unlock")
  /\ UNCHANGED <<m_mutex, queueVars, op, wpc, itemVars>>

\* WaitForCompletion, alone or as the first step of Shutdown.
Completion(c) ==
  /\ pc[c] = "Completion" /\ (IsRunning => m_items = <<>>)
  /\ Goto(c, IF op[c] = "WaitForCompletion" THEN "Unlock" ELSE "StopThread")
  /\ UNCHANGED <<m_mutex, queueVars, op, wpc, itemVars>>

StopThread(c) ==
  /\ pc[c] = "StopThread"
  /\ IF IsRunning
     THEN m_commands' = Append(m_commands, "Exit") /\ Goto(c, "StopSet")
     ELSE m_commands' = m_commands /\ Goto(c, AfterStop(op[c]))
  /\ UNCHANGED <<m_mutex, m_items, m_event, op, wpc, itemVars>>

StopSet(c) ==
  /\ pc[c] = "StopSet"
  /\ m_event' = TRUE
  /\ Goto(c, "Join")
  /\ UNCHANGED <<m_mutex, m_items, m_commands, op, wpc, itemVars>>

Join(c) ==
  /\ pc[c] = "Join" /\ wpc = "Returned"
  /\ wpc' = "None" /\ m_commands' = <<>>
  /\ Goto(c, AfterStop(op[c]))
  /\ UNCHANGED <<m_mutex, m_items, m_event, op, itemVars>>

Start(c) ==
  /\ pc[c] = "Start"
  /\ wpc' = "Commands"
  /\ Goto(c, "Unlock")
  /\ UNCHANGED <<m_mutex, queueVars, op, itemVars>>

-----------------------------------------------------------------------------
\* ThreadLoop.

Commands ==
  /\ wpc = "Commands"
  /\ IF m_commands = <<>> THEN wpc' = "Items" /\ m_items' = m_items
     ELSE IF Head(m_commands) = "Exit" THEN wpc' = "Returned" /\ m_items' = m_items
     ELSE wpc' = "PopCommand" /\ m_items' = <<>>
  /\ UNCHANGED <<m_mutex, m_commands, m_event, pc, op, itemVars>>

PopCommand ==
  /\ wpc = "PopCommand"
  /\ m_commands' = Tail(m_commands)
  /\ wpc' = "Commands"
  /\ UNCHANGED <<m_mutex, m_items, m_event, pc, op, itemVars>>

\* Mutant: a stale event is reset before the wait.
TestItemsReset ==
  /\ wpc = "Items"
  /\ wpc' = IF m_items = <<>> THEN "Wait" ELSE "Function"
  /\ m_event' = (m_event /\ m_items # <<>>)
  /\ UNCHANGED <<m_mutex, m_items, m_commands, pc, op, itemVars>>

TestItems ==
  /\ wpc = "Items"
  /\ wpc' = IF m_items = <<>> THEN "Wait" ELSE "Function"
  /\ UNCHANGED <<m_mutex, queueVars, pc, op, itemVars>>

\* Mutant: takes the event to mean that there is an item.
WaitEventTrusted ==
  /\ wpc = "Wait" /\ m_event
  /\ m_event' = FALSE
  /\ wpc' = IF m_commands = <<>> THEN "Function" ELSE "Commands"
  /\ UNCHANGED <<m_mutex, m_items, m_commands, pc, op, itemVars>>

WaitEvent ==
  /\ wpc = "Wait" /\ m_event
  /\ m_event' = FALSE
  /\ wpc' = "Commands"
  /\ UNCHANGED <<m_mutex, m_items, m_commands, pc, op, itemVars>>

\* The task of PushBlocking is run: its future becomes ready.
Ready(i) == [c \in Clients |-> IF future[c] = i THEN 0 ELSE future[c]]


\* The function runs for the item at the front, and may first push one itself.
Function ==
  /\ wpc = "Function"
  /\ \/ wpc' = "Pop" /\ future' = Ready(Head(m_items))
     \/ self_push /\ pushed < MaxItems /\ wpc' = "PushLock" /\ UNCHANGED future
  /\ UNCHANGED <<m_mutex, queueVars, pc, op, pushed, self_push>>

FunctionPush ==
  /\ \/ /\ wpc = "PushLock" /\ m_mutex = NoThread
        /\ m_mutex' = Worker /\ wpc' = "PushEmplace"
        /\ UNCHANGED <<m_items, m_event, pushed>>
     \/ /\ wpc = "PushEmplace"
        /\ pushed' = pushed + 1 /\ m_items' = Append(m_items, pushed') /\ wpc' = "PushSet"
        /\ UNCHANGED <<m_mutex, m_event>>
     \/ /\ wpc = "PushSet"
        /\ m_event' = TRUE /\ wpc' = "PushUnlock"
        /\ UNCHANGED <<m_mutex, m_items, pushed>>
     \/ /\ wpc = "PushUnlock"
        /\ m_mutex' = NoThread /\ wpc' = "Function"
        /\ UNCHANGED <<m_items, m_event, pushed>>
  /\ UNCHANGED <<m_commands, pc, op, future, self_push>>

Pop ==
  /\ wpc = "Pop"
  /\ m_items' = Tail(m_items)
  /\ wpc' = "Commands"
  /\ UNCHANGED <<m_mutex, m_commands, m_event, pc, op, itemVars>>

-----------------------------------------------------------------------------
\* What a client does inside a call once it has the mutex.
ClientStep(c) ==
  \/ Unlock(c) \/ Emplace(c) \/ Set(c) \/ Future(c)
  \/ Cancel(c) \/ Command(c) \/ CommandSet(c) \/ CommandWait(c)
  \/ Completion(c) \/ StopThread(c) \/ StopSet(c) \/ Join(c) \/ Start(c)

WorkerStep ==
  Commands \/ PopCommand \/ TestItems \/ WaitEvent \/ Function \/ FunctionPush \/ Pop

Next ==
  \/ \E c \in Clients : (\E o \in Ops : Call(c, o)) \/ Lock(c) \/ ClientStep(c)
  \/ WorkerStep

Safety == Init /\ [][Next]_vars

\* A thread in the middle of a call goes on, the function returns, and the mutex
\* does not pass one waiting thread over for ever.
Fairness ==
  /\ WF_vars(WorkerStep) /\ SF_vars(FunctionPush)
  /\ \A c \in Clients : WF_vars(ClientStep(c)) /\ SF_vars(Lock(c))

Spec == Safety /\ Fairness

-----------------------------------------------------------------------------
TypeOK ==
  /\ m_mutex \in Clients \cup {Worker, NoThread}
  /\ m_items \in Seq(Nat) /\ m_commands \in Seq({"Clear", "Exit"}) /\ m_event \in BOOLEAN
  /\ pc \in [Clients -> ClientPc] /\ op \in [Clients -> Ops \cup {"None"}]
  /\ wpc \in WorkerPc
  /\ future \in [Clients -> Nat] /\ pushed \in Nat /\ self_push \in BOOLEAN

\* Front and Pop are only called on a queue with an element ("assert(!Empty())",
\* SPSCQueue.h:62), although the event the worker wakes on may be an old one and
\* a client may have emptied the queue since.
PopHasElement ==
  /\ wpc \in FunctionPc => m_items # <<>>
  /\ wpc = "PopCommand" => m_commands # <<>>

\* "Blocks until the current work is cancelled", "blocks until the worker thread
\* exits", "blocks until all items have been processed" (lines 55-90): when a
\* call is about to give up the mutex, what it waited for holds and cannot be
\* undone by the worker, so that the caller may free what the items refer to.
QuietOnReturn ==
  \A c \in Clients : pc[c] = "Unlock" =>
    /\ op[c] \in {"Cancel", "StopAndCancel"} => m_items = <<>> /\ wpc \notin FunctionPc
    /\ op[c] = "WaitForCompletion" => wpc = "None" \/ (m_items = <<>> /\ wpc \notin FunctionPc)
    /\ op[c] \in {"Shutdown", "Stop", "StopAndCancel"} => wpc = "None"

\* ThreadLoop tests the commands and then the items, and only then waits: it is
\* never left waiting, with nobody about to set the event, while there is an item
\* or a command.
Waking == {"Set", "CommandSet", "StopSet"}
NoLostWakeup ==
  wpc = "Wait" /\ ~m_event /\ (m_items # <<>> \/ m_commands # <<>>) =>
    \E c \in Clients : m_mutex = c /\ pc[c] \in Waking

\* The queue, whatever the clients interleave, is a work queue: items are run one
\* at a time, in the order of their pushes and once each, an item leaves the queue
\* only when the function has run for it, and a cancellation never falls in the
\* middle of the function.
Queue == INSTANCE WorkQueue WITH queue <- m_items, busy <- wpc \in FunctionPc
ImplementsWorkQueue == Queue!WorkSpec

\* Every call returns, except PushBlocking, whose task may have been cancelled or
\* left in the queue of a stopped thread, and unless the function pushes to its
\* own queue: it would wait for the mutex that a call holds while it waits for it.
CallsReturn ==
  ~self_push =>
    \A c \in Clients : pc[c] \notin {"Idle", "Future"} ~> pc[c] \in {"Idle", "Future"}

\* An item pushed to a queue whose worker is not stopped is run or cancelled, and
\* PushBlocking returns unless its item is.
Queued == {m_items[n] : n \in DOMAIN m_items}
ItemsProcessed ==
  /\ \A i \in 1 .. MaxItems : ~self_push /\ i \in Queued ~> wpc = "None" \/ i \notin Queued
  /\ \A c \in Clients :
       ~self_push /\ pc[c] = "Future" ~> pc[c] = "Idle" \/ wpc = "None" \/ future[c] \notin Queued \cup {0}
=============================================================================
