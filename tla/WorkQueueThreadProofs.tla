----------------------- MODULE WorkQueueThreadProofs ------------------------
(***************************************************************************)
(* Proofs about WorkQueueThread, for any set of clients and any number of  *)
(* items.  The inductive invariant says who owns the mutex, which call a   *)
(* client is in at each point, and what the command queue holds: at most   *)
(* one command, that of the client that owns the mutex.                    *)
(***************************************************************************)
EXTENDS WorkQueueThread, TLAPS

Holding(c) == pc[c] \notin {"Idle", "Lock", "Future"}
WaitsForWorker == {"CommandSet", "CommandWait", "StopSet", "Join"}

LockInv ==
  /\ \A c \in Clients : m_mutex = c <=> Holding(c)
  /\ m_mutex = Worker <=> wpc \in {"PushEmplace", "PushSet", "PushUnlock"}

OpInv ==
  \A c \in Clients :
    /\ pc[c] # "Idle" => op[c] \in Ops
    /\ pc[c] \in {"Emplace", "Set"} => op[c] \in {"Push", "PushBlocking"}
    /\ pc[c] \in {"Cancel", "Command"} => op[c] \in {"Cancel", "StopAndCancel"}
    /\ pc[c] \in {"CommandSet", "CommandWait"} => op[c] = "Cancel"
    /\ pc[c] = "Completion" => op[c] \in {"WaitForCompletion", "Shutdown", "Reset"}
    /\ pc[c] \in {"StopThread", "StopSet", "Join"} =>
         op[c] \in {"Shutdown", "Stop", "StopAndCancel", "Reset"}
    /\ pc[c] = "Start" => op[c] = "Reset" /\ wpc = "None"
    /\ pc[c] \in {"Cancel", "Command"} /\ op[c] = "StopAndCancel" => wpc = "None"

CommandInv ==
  /\ \A c \in Clients : pc[c] \in {"CommandSet", "CommandWait"} =>
       /\ wpc \notin {"None", "Returned"}
       /\ m_commands = <<"Clear">> \/ (m_commands = <<>> /\ m_items = <<>>)
  /\ \A c \in Clients : pc[c] \in {"StopSet", "Join"} =>
       wpc # "None" /\ m_commands = <<"Exit">>
  /\ m_commands # <<>> => \E c \in Clients : pc[c] \in WaitsForWorker
  /\ wpc = "PopCommand" => m_commands = <<"Clear">> /\ m_items = <<>>
  /\ wpc = "Returned" => m_commands = <<"Exit">>

ItemInv == wpc \in FunctionPc => m_items # <<>>

WakeInv ==
  /\ wpc \in {"Items", "Wait"} /\ ~m_event /\ m_commands # <<>> => \E c \in Clients : pc[c] \in Waking
  /\ wpc = "Wait" /\ ~m_event /\ m_items # <<>> => \E c \in Clients : pc[c] \in Waking

IInv == TypeOK /\ LockInv /\ OpInv /\ CommandInv /\ ItemInv /\ WakeInv /\ QuietOnReturn

-----------------------------------------------------------------------------
\* A queue of one command, as the code builds it and takes it apart.
LEMMA OneCommand ==
  ASSUME NEW x
  PROVE  Append(<<>>, x) = <<x>> /\ Tail(<<x>>) = <<>> /\ Head(<<x>>) = x /\ <<x>> # <<>>
OBVIOUS

LEMMA CommandsDiffer == <<"Clear">> # <<"Exit">> /\ <<"Clear">> # <<>> /\ <<"Exit">> # <<>>
OBVIOUS

\* A push leaves a non-empty queue of items, and a pop a queue of items.
LEMMA Appended ==
  ASSUME NEW s \in Seq(Nat), NEW n \in Nat
  PROVE  Append(s, n) \in Seq(Nat) /\ Append(s, n) # <<>>
OBVIOUS

LEMMA Popped ==
  ASSUME NEW s \in Seq(Nat), s # <<>>
  PROVE  Tail(s) \in Seq(Nat) /\ Head(s) \in Nat
OBVIOUS

LEMMA EmptyQueues == <<>> \in Seq(Nat) /\ <<>> \in Seq({"Clear", "Exit"})
OBVIOUS

\* Where a call goes once it has the mutex, and once the thread is stopped.
LEMMA FirstSteps ==
  ASSUME NEW o \in Ops
  PROVE  /\ FirstStep(o) \in {"Emplace", "Cancel", "Completion", "StopThread"}
         /\ FirstStep(o) = "Emplace" => o \in {"Push", "PushBlocking"}
         /\ FirstStep(o) = "Cancel" => o = "Cancel"
         /\ FirstStep(o) = "Completion" => o \in {"WaitForCompletion", "Shutdown", "Reset"}
         /\ FirstStep(o) = "StopThread" => o \in {"Stop", "StopAndCancel"}
BY DEF FirstStep, Ops

LEMMA AfterStops ==
  ASSUME NEW o \in {"Shutdown", "Stop", "StopAndCancel", "Reset"}
  PROVE  /\ AfterStop(o) \in {"Cancel", "Start", "Unlock"}
         /\ AfterStop(o) = "Cancel" => o = "StopAndCancel"
         /\ AfterStop(o) = "Start" => o = "Reset"
         /\ AfterStop(o) = "Unlock" => o \in {"Shutdown", "Stop"}
BY DEF AfterStop

\* A client that owns the mutex is the only thread inside a call.
LEMMA OneHolder ==
  ASSUME IInv, NEW c \in Clients, NEW d \in Clients, Holding(c), Holding(d)
  PROVE  c = d
BY DEF IInv, LockInv

-----------------------------------------------------------------------------
LEMMA InitIInv == Init => IInv
<1> SUFFICES ASSUME Init PROVE IInv OBVIOUS
<1> USE DEF Init
<1>1. TypeOK
  <2>1. m_items \in Seq(Nat) /\ m_commands \in Seq({"Clear", "Exit"}) OBVIOUS
  <2>2. pc \in [Clients -> ClientPc] /\ op \in [Clients -> Ops \cup {"None"}] BY DEF ClientPc
  <2>3. future \in [Clients -> Nat] OBVIOUS
  <2> QED BY <2>1, <2>2, <2>3 DEF TypeOK, WorkerPc
<1>2. LockInv BY ThreadsAssumption DEF LockInv, Holding
<1>3. OpInv BY DEF OpInv
<1>4. CommandInv BY DEF CommandInv
<1>5. ItemInv BY DEF ItemInv, FunctionPc
<1>6. WakeInv BY DEF WakeInv
<1>7. QuietOnReturn BY DEF QuietOnReturn
<1> QED BY <1>1, <1>2, <1>3, <1>4, <1>5, <1>6, <1>7 DEF IInv

LEMMA CallKeeps ==
  ASSUME NEW c \in Clients, NEW o \in Ops, IInv, Call(c, o)
  PROVE  IInv'
<1>0. TypeOK /\ LockInv /\ OpInv /\ CommandInv /\ ItemInv /\ WakeInv /\ QuietOnReturn BY DEF IInv
<1> USE <1>0 DEF Call, Goto, queueVars, itemVars
<1>1. TypeOK' BY DEF TypeOK, ClientPc, WorkerPc, FunctionPc, Ops
<1>2. LockInv' BY ThreadsAssumption DEF TypeOK, LockInv, Holding
<1>3. OpInv' BY DEF TypeOK, ClientPc, WorkerPc, FunctionPc, Ops, LockInv, Holding, OpInv
<1>4. CommandInv' BY ThreadsAssumption, CommandsDiffer DEF TypeOK, ClientPc, WorkerPc, FunctionPc, Ops, CommandInv, LockInv, OpInv, Holding, WaitsForWorker
<1>5. ItemInv' BY CommandsDiffer DEF TypeOK, ClientPc, WorkerPc, FunctionPc, Ops, ItemInv, CommandInv, OpInv
<1>6. WakeInv' BY CommandsDiffer DEF TypeOK, ClientPc, WorkerPc, FunctionPc, Ops, WakeInv, Waking
<1>7. QuietOnReturn' BY ThreadsAssumption, CommandsDiffer DEF TypeOK, ClientPc, WorkerPc, FunctionPc, Ops, QuietOnReturn, LockInv, OpInv, CommandInv, ItemInv, Holding
<1> QED BY <1>1, <1>2, <1>3, <1>4, <1>5, <1>6, <1>7 DEF IInv

LEMMA LockKeeps ==
  ASSUME NEW c \in Clients, IInv, Lock(c)
  PROVE  IInv'
<1>0. TypeOK /\ LockInv /\ OpInv /\ CommandInv /\ ItemInv /\ WakeInv /\ QuietOnReturn BY DEF IInv
<1>a. op[c] \in Ops BY <1>0 DEF OpInv, Lock
<1>b. FirstStep(op[c]) \notin {"Idle", "Lock", "Future"} BY <1>a, FirstSteps
<1> USE <1>0, <1>a, <1>b, FirstSteps DEF Lock, Goto, queueVars, itemVars
<1>1. TypeOK' BY DEF TypeOK, ClientPc, WorkerPc, FunctionPc, Ops
<1>2. LockInv' BY ThreadsAssumption DEF TypeOK, LockInv, Holding
<1>3. OpInv' BY DEF TypeOK, ClientPc, WorkerPc, FunctionPc, Ops, LockInv, Holding, OpInv
<1>4. CommandInv' BY ThreadsAssumption, CommandsDiffer DEF TypeOK, ClientPc, WorkerPc, FunctionPc, Ops, CommandInv, LockInv, OpInv, Holding, WaitsForWorker
<1>5. ItemInv' BY CommandsDiffer DEF TypeOK, ClientPc, WorkerPc, FunctionPc, Ops, ItemInv, CommandInv, OpInv
<1>6. WakeInv' BY CommandsDiffer DEF TypeOK, ClientPc, WorkerPc, FunctionPc, Ops, WakeInv, Waking
<1>7. QuietOnReturn' BY ThreadsAssumption, CommandsDiffer DEF TypeOK, ClientPc, WorkerPc, FunctionPc, Ops, QuietOnReturn, LockInv, OpInv, CommandInv, ItemInv, Holding
<1> QED BY <1>1, <1>2, <1>3, <1>4, <1>5, <1>6, <1>7 DEF IInv

LEMMA UnlockKeeps ==
  ASSUME NEW c \in Clients, IInv, Unlock(c)
  PROVE  IInv'
<1>0. TypeOK /\ LockInv /\ OpInv /\ CommandInv /\ ItemInv /\ WakeInv /\ QuietOnReturn BY DEF IInv
<1> USE <1>0 DEF Unlock, Goto, queueVars, itemVars
<1>1. TypeOK' BY DEF TypeOK, ClientPc, WorkerPc, FunctionPc, Ops
<1>2. LockInv' BY ThreadsAssumption DEF TypeOK, LockInv, Holding
<1>3. OpInv' BY DEF TypeOK, ClientPc, WorkerPc, FunctionPc, Ops, LockInv, Holding, OpInv
<1>4. CommandInv' BY ThreadsAssumption, CommandsDiffer DEF TypeOK, ClientPc, WorkerPc, FunctionPc, Ops, CommandInv, LockInv, OpInv, Holding, WaitsForWorker
<1>5. ItemInv' BY CommandsDiffer DEF TypeOK, ClientPc, WorkerPc, FunctionPc, Ops, ItemInv, CommandInv, OpInv
<1>6. WakeInv' BY CommandsDiffer DEF TypeOK, ClientPc, WorkerPc, FunctionPc, Ops, WakeInv, Waking
<1>7. QuietOnReturn' BY ThreadsAssumption, CommandsDiffer DEF TypeOK, ClientPc, WorkerPc, FunctionPc, Ops, QuietOnReturn, LockInv, OpInv, CommandInv, ItemInv, Holding
<1> QED BY <1>1, <1>2, <1>3, <1>4, <1>5, <1>6, <1>7 DEF IInv

LEMMA EmplaceKeeps ==
  ASSUME NEW c \in Clients, IInv, Emplace(c)
  PROVE  IInv'
<1>0. TypeOK /\ LockInv /\ OpInv /\ CommandInv /\ ItemInv /\ WakeInv /\ QuietOnReturn BY DEF IInv
<1>b. \A n \in Nat : Append(m_items, n) \in Seq(Nat) /\ Append(m_items, n) # <<>>
  BY <1>0, Appended DEF TypeOK
<1> USE <1>0, <1>b DEF Emplace, Goto, queueVars, itemVars
<1>1. TypeOK' BY DEF TypeOK, ClientPc, WorkerPc, FunctionPc, Ops
<1>2. LockInv' BY ThreadsAssumption DEF TypeOK, LockInv, Holding
<1>3. OpInv' BY DEF TypeOK, ClientPc, WorkerPc, FunctionPc, Ops, LockInv, Holding, OpInv
<1>4. CommandInv' BY ThreadsAssumption, CommandsDiffer DEF TypeOK, ClientPc, WorkerPc, FunctionPc, Ops, CommandInv, LockInv, OpInv, Holding, WaitsForWorker
<1>5. ItemInv' BY CommandsDiffer DEF TypeOK, ClientPc, WorkerPc, FunctionPc, Ops, ItemInv, CommandInv, OpInv
<1>6. WakeInv' BY CommandsDiffer DEF TypeOK, ClientPc, WorkerPc, FunctionPc, Ops, WakeInv, Waking
<1>7. QuietOnReturn' BY ThreadsAssumption, CommandsDiffer DEF TypeOK, ClientPc, WorkerPc, FunctionPc, Ops, QuietOnReturn, LockInv, OpInv, CommandInv, ItemInv, Holding
<1> QED BY <1>1, <1>2, <1>3, <1>4, <1>5, <1>6, <1>7 DEF IInv

LEMMA SetKeeps ==
  ASSUME NEW c \in Clients, IInv, Set(c)
  PROVE  IInv'
<1>0. TypeOK /\ LockInv /\ OpInv /\ CommandInv /\ ItemInv /\ WakeInv /\ QuietOnReturn BY DEF IInv
<1> USE <1>0 DEF Set, Goto, queueVars, itemVars
<1>1. TypeOK' BY DEF TypeOK, ClientPc, WorkerPc, FunctionPc, Ops
<1>2. LockInv' BY ThreadsAssumption DEF TypeOK, LockInv, Holding
<1>3. OpInv' BY DEF TypeOK, ClientPc, WorkerPc, FunctionPc, Ops, LockInv, Holding, OpInv
<1>4. CommandInv' BY ThreadsAssumption, CommandsDiffer DEF TypeOK, ClientPc, WorkerPc, FunctionPc, Ops, CommandInv, LockInv, OpInv, Holding, WaitsForWorker
<1>5. ItemInv' BY CommandsDiffer DEF TypeOK, ClientPc, WorkerPc, FunctionPc, Ops, ItemInv, CommandInv, OpInv
<1>6. WakeInv' BY CommandsDiffer DEF TypeOK, ClientPc, WorkerPc, FunctionPc, Ops, WakeInv, Waking
<1>7. QuietOnReturn' BY ThreadsAssumption, CommandsDiffer DEF TypeOK, ClientPc, WorkerPc, FunctionPc, Ops, QuietOnReturn, LockInv, OpInv, CommandInv, ItemInv, Holding
<1> QED BY <1>1, <1>2, <1>3, <1>4, <1>5, <1>6, <1>7 DEF IInv

LEMMA FutureKeeps ==
  ASSUME NEW c \in Clients, IInv, Future(c)
  PROVE  IInv'
<1>0. TypeOK /\ LockInv /\ OpInv /\ CommandInv /\ ItemInv /\ WakeInv /\ QuietOnReturn BY DEF IInv
<1> USE <1>0 DEF Future, Goto, queueVars, itemVars
<1>1. TypeOK' BY DEF TypeOK, ClientPc, WorkerPc, FunctionPc, Ops
<1>2. LockInv' BY ThreadsAssumption DEF TypeOK, LockInv, Holding
<1>3. OpInv' BY DEF TypeOK, ClientPc, WorkerPc, FunctionPc, Ops, LockInv, Holding, OpInv
<1>4. CommandInv' BY ThreadsAssumption, CommandsDiffer DEF TypeOK, ClientPc, WorkerPc, FunctionPc, Ops, CommandInv, LockInv, OpInv, Holding, WaitsForWorker
<1>5. ItemInv' BY CommandsDiffer DEF TypeOK, ClientPc, WorkerPc, FunctionPc, Ops, ItemInv, CommandInv, OpInv
<1>6. WakeInv' BY CommandsDiffer DEF TypeOK, ClientPc, WorkerPc, FunctionPc, Ops, WakeInv, Waking
<1>7. QuietOnReturn' BY ThreadsAssumption, CommandsDiffer DEF TypeOK, ClientPc, WorkerPc, FunctionPc, Ops, QuietOnReturn, LockInv, OpInv, CommandInv, ItemInv, Holding
<1> QED BY <1>1, <1>2, <1>3, <1>4, <1>5, <1>6, <1>7 DEF IInv

LEMMA CancelKeeps ==
  ASSUME NEW c \in Clients, IInv, Cancel(c)
  PROVE  IInv'
<1>0. TypeOK /\ LockInv /\ OpInv /\ CommandInv /\ ItemInv /\ WakeInv /\ QuietOnReturn BY DEF IInv
<1> USE <1>0 DEF Cancel, Goto, queueVars, itemVars
<1>1. TypeOK' BY DEF TypeOK, ClientPc, WorkerPc, FunctionPc, Ops
<1>2. LockInv' BY ThreadsAssumption DEF TypeOK, LockInv, Holding
<1>3. OpInv' BY DEF TypeOK, ClientPc, WorkerPc, FunctionPc, Ops, LockInv, Holding, OpInv
<1>4. CommandInv' BY ThreadsAssumption, CommandsDiffer DEF TypeOK, ClientPc, WorkerPc, FunctionPc, Ops, CommandInv, LockInv, OpInv, Holding, WaitsForWorker
<1>5. ItemInv' BY CommandsDiffer DEF TypeOK, ClientPc, WorkerPc, FunctionPc, Ops, ItemInv, CommandInv, OpInv
<1>6. WakeInv' BY CommandsDiffer DEF TypeOK, ClientPc, WorkerPc, FunctionPc, Ops, WakeInv, Waking
<1>7. QuietOnReturn' BY ThreadsAssumption, CommandsDiffer DEF TypeOK, ClientPc, WorkerPc, FunctionPc, Ops, QuietOnReturn, LockInv, OpInv, CommandInv, ItemInv, Holding
<1> QED BY <1>1, <1>2, <1>3, <1>4, <1>5, <1>6, <1>7 DEF IInv

LEMMA CommandKeeps ==
  ASSUME NEW c \in Clients, IInv, Command(c)
  PROVE  IInv'
<1>0. TypeOK /\ LockInv /\ OpInv /\ CommandInv /\ ItemInv /\ WakeInv /\ QuietOnReturn BY DEF IInv
<1>b. m_commands = <<>>
  BY <1>0, OneHolder DEF CommandInv, Holding, WaitsForWorker, Command
<1>c. /\ Append(m_commands, "Clear") = <<"Clear">> /\ Append(m_commands, "Exit") = <<"Exit">>
      /\ <<"Clear">> \in Seq({"Clear", "Exit"}) /\ <<"Exit">> \in Seq({"Clear", "Exit"})
  BY <1>b, OneCommand
<1> USE <1>0, <1>b, <1>c DEF Command, Goto, queueVars, itemVars, IsRunning
<1>1. TypeOK'
  <2>1. m_items' \in Seq(Nat) /\ m_commands' \in Seq({"Clear", "Exit"}) BY EmptyQueues DEF TypeOK
  <2> QED BY <2>1 DEF TypeOK, ClientPc, WorkerPc, FunctionPc, Ops
<1>2. LockInv' BY ThreadsAssumption DEF TypeOK, LockInv, Holding
<1>3. OpInv' BY DEF TypeOK, ClientPc, WorkerPc, FunctionPc, Ops, LockInv, Holding, OpInv
<1>4. CommandInv' BY ThreadsAssumption, CommandsDiffer DEF TypeOK, ClientPc, WorkerPc, FunctionPc, Ops, CommandInv, LockInv, OpInv, Holding, WaitsForWorker
<1>5. ItemInv' BY CommandsDiffer DEF TypeOK, ClientPc, WorkerPc, FunctionPc, Ops, ItemInv, CommandInv, OpInv
<1>6. WakeInv' BY CommandsDiffer DEF TypeOK, ClientPc, WorkerPc, FunctionPc, Ops, WakeInv, Waking
<1>7. QuietOnReturn' BY ThreadsAssumption, CommandsDiffer DEF TypeOK, ClientPc, WorkerPc, FunctionPc, Ops, QuietOnReturn, LockInv, OpInv, CommandInv, ItemInv, Holding
<1> QED BY <1>1, <1>2, <1>3, <1>4, <1>5, <1>6, <1>7 DEF IInv

LEMMA CommandSetKeeps ==
  ASSUME NEW c \in Clients, IInv, CommandSet(c)
  PROVE  IInv'
<1>0. TypeOK /\ LockInv /\ OpInv /\ CommandInv /\ ItemInv /\ WakeInv /\ QuietOnReturn BY DEF IInv
<1> USE <1>0 DEF CommandSet, Goto, queueVars, itemVars
<1>1. TypeOK' BY DEF TypeOK, ClientPc, WorkerPc, FunctionPc, Ops
<1>2. LockInv' BY ThreadsAssumption DEF TypeOK, LockInv, Holding
<1>3. OpInv' BY DEF TypeOK, ClientPc, WorkerPc, FunctionPc, Ops, LockInv, Holding, OpInv
<1>4. CommandInv' BY ThreadsAssumption, CommandsDiffer DEF TypeOK, ClientPc, WorkerPc, FunctionPc, Ops, CommandInv, LockInv, OpInv, Holding, WaitsForWorker
<1>5. ItemInv' BY CommandsDiffer DEF TypeOK, ClientPc, WorkerPc, FunctionPc, Ops, ItemInv, CommandInv, OpInv
<1>6. WakeInv' BY CommandsDiffer DEF TypeOK, ClientPc, WorkerPc, FunctionPc, Ops, WakeInv, Waking
<1>7. QuietOnReturn' BY ThreadsAssumption, CommandsDiffer DEF TypeOK, ClientPc, WorkerPc, FunctionPc, Ops, QuietOnReturn, LockInv, OpInv, CommandInv, ItemInv, Holding
<1> QED BY <1>1, <1>2, <1>3, <1>4, <1>5, <1>6, <1>7 DEF IInv

LEMMA CommandWaitKeeps ==
  ASSUME NEW c \in Clients, IInv, CommandWait(c)
  PROVE  IInv'
<1>0. TypeOK /\ LockInv /\ OpInv /\ CommandInv /\ ItemInv /\ WakeInv /\ QuietOnReturn BY DEF IInv
<1> USE <1>0 DEF CommandWait, Goto, queueVars, itemVars
<1>1. TypeOK' BY DEF TypeOK, ClientPc, WorkerPc, FunctionPc, Ops
<1>2. LockInv' BY ThreadsAssumption DEF TypeOK, LockInv, Holding
<1>3. OpInv' BY DEF TypeOK, ClientPc, WorkerPc, FunctionPc, Ops, LockInv, Holding, OpInv
<1>4. CommandInv' BY ThreadsAssumption, CommandsDiffer DEF TypeOK, ClientPc, WorkerPc, FunctionPc, Ops, CommandInv, LockInv, OpInv, Holding, WaitsForWorker
<1>5. ItemInv' BY CommandsDiffer DEF TypeOK, ClientPc, WorkerPc, FunctionPc, Ops, ItemInv, CommandInv, OpInv
<1>6. WakeInv' BY CommandsDiffer DEF TypeOK, ClientPc, WorkerPc, FunctionPc, Ops, WakeInv, Waking
<1>7. QuietOnReturn' BY ThreadsAssumption, CommandsDiffer DEF TypeOK, ClientPc, WorkerPc, FunctionPc, Ops, QuietOnReturn, LockInv, OpInv, CommandInv, ItemInv, Holding
<1> QED BY <1>1, <1>2, <1>3, <1>4, <1>5, <1>6, <1>7 DEF IInv

LEMMA CompletionKeeps ==
  ASSUME NEW c \in Clients, IInv, Completion(c)
  PROVE  IInv'
<1>0. TypeOK /\ LockInv /\ OpInv /\ CommandInv /\ ItemInv /\ WakeInv /\ QuietOnReturn BY DEF IInv
<1> USE <1>0 DEF Completion, Goto, queueVars, itemVars, IsRunning
<1>1. TypeOK' BY DEF TypeOK, ClientPc, WorkerPc, FunctionPc, Ops
<1>2. LockInv' BY ThreadsAssumption DEF TypeOK, LockInv, Holding
<1>3. OpInv' BY DEF TypeOK, ClientPc, WorkerPc, FunctionPc, Ops, LockInv, Holding, OpInv
<1>4. CommandInv' BY ThreadsAssumption, CommandsDiffer DEF TypeOK, ClientPc, WorkerPc, FunctionPc, Ops, CommandInv, LockInv, OpInv, Holding, WaitsForWorker
<1>5. ItemInv' BY CommandsDiffer DEF TypeOK, ClientPc, WorkerPc, FunctionPc, Ops, ItemInv, CommandInv, OpInv
<1>6. WakeInv' BY CommandsDiffer DEF TypeOK, ClientPc, WorkerPc, FunctionPc, Ops, WakeInv, Waking
<1>7. QuietOnReturn' BY ThreadsAssumption, CommandsDiffer DEF TypeOK, ClientPc, WorkerPc, FunctionPc, Ops, QuietOnReturn, LockInv, OpInv, CommandInv, ItemInv, Holding
<1> QED BY <1>1, <1>2, <1>3, <1>4, <1>5, <1>6, <1>7 DEF IInv

LEMMA StopThreadKeeps ==
  ASSUME NEW c \in Clients, IInv, StopThread(c)
  PROVE  IInv'
<1>0. TypeOK /\ LockInv /\ OpInv /\ CommandInv /\ ItemInv /\ WakeInv /\ QuietOnReturn BY DEF IInv
<1>a. op[c] \in {"Shutdown", "Stop", "StopAndCancel", "Reset"} BY <1>0 DEF OpInv, StopThread
<1>b. m_commands = <<>>
  BY <1>0, OneHolder DEF CommandInv, Holding, WaitsForWorker, StopThread
<1>c. /\ Append(m_commands, "Clear") = <<"Clear">> /\ Append(m_commands, "Exit") = <<"Exit">>
      /\ <<"Clear">> \in Seq({"Clear", "Exit"}) /\ <<"Exit">> \in Seq({"Clear", "Exit"})
  BY <1>b, OneCommand
<1> USE <1>0, <1>a, AfterStops, <1>b, <1>c DEF StopThread, Goto, queueVars, itemVars, IsRunning
<1>1. TypeOK' BY DEF TypeOK, ClientPc, WorkerPc, FunctionPc, Ops
<1>2. LockInv' BY ThreadsAssumption DEF TypeOK, LockInv, Holding
<1>3. OpInv' BY DEF TypeOK, ClientPc, WorkerPc, FunctionPc, Ops, LockInv, Holding, OpInv
<1>4. CommandInv'
  <2>1. CASE IsRunning
    <3>1. m_commands' = <<"Exit">> /\ pc' = [pc EXCEPT ![c] = "StopSet"] BY <2>1
    <3>2. \A d \in Clients : d # c => pc'[d] \notin WaitsForWorker
      BY <3>1, OneHolder DEF TypeOK, Holding, WaitsForWorker
    <3>3. pc'[c] = "StopSet" BY <3>1 DEF TypeOK
    <3>4. wpc \notin {"PopCommand", "Returned", "None"}
      BY <2>1, CommandsDiffer DEF CommandInv
    <3> QED BY <3>1, <3>2, <3>3, <3>4, CommandsDiffer DEF CommandInv, WaitsForWorker
  <2>2. CASE ~IsRunning
    <3>1. UNCHANGED <<m_commands, m_items, wpc>> BY <2>2
    <3>2. \A d \in Clients : pc'[d] \in WaitsForWorker => pc[d] \in WaitsForWorker /\ pc'[d] = pc[d]
      BY <2>2 DEF TypeOK, WaitsForWorker
    <3> QED BY <3>1, <3>2 DEF CommandInv, WaitsForWorker
  <2> QED BY <2>1, <2>2
<1>5. ItemInv' BY CommandsDiffer DEF TypeOK, ClientPc, WorkerPc, FunctionPc, Ops, ItemInv, CommandInv, OpInv
<1>6. WakeInv' BY CommandsDiffer DEF TypeOK, ClientPc, WorkerPc, FunctionPc, Ops, WakeInv, Waking
<1>7. QuietOnReturn' BY ThreadsAssumption, CommandsDiffer DEF TypeOK, ClientPc, WorkerPc, FunctionPc, Ops, QuietOnReturn, LockInv, OpInv, CommandInv, ItemInv, Holding
<1> QED BY <1>1, <1>2, <1>3, <1>4, <1>5, <1>6, <1>7 DEF IInv

LEMMA StopSetKeeps ==
  ASSUME NEW c \in Clients, IInv, StopSet(c)
  PROVE  IInv'
<1>0. TypeOK /\ LockInv /\ OpInv /\ CommandInv /\ ItemInv /\ WakeInv /\ QuietOnReturn BY DEF IInv
<1> USE <1>0 DEF StopSet, Goto, queueVars, itemVars
<1>1. TypeOK' BY DEF TypeOK, ClientPc, WorkerPc, FunctionPc, Ops
<1>2. LockInv' BY ThreadsAssumption DEF TypeOK, LockInv, Holding
<1>3. OpInv' BY DEF TypeOK, ClientPc, WorkerPc, FunctionPc, Ops, LockInv, Holding, OpInv
<1>4. CommandInv' BY ThreadsAssumption, CommandsDiffer DEF TypeOK, ClientPc, WorkerPc, FunctionPc, Ops, CommandInv, LockInv, OpInv, Holding, WaitsForWorker
<1>5. ItemInv' BY CommandsDiffer DEF TypeOK, ClientPc, WorkerPc, FunctionPc, Ops, ItemInv, CommandInv, OpInv
<1>6. WakeInv' BY CommandsDiffer DEF TypeOK, ClientPc, WorkerPc, FunctionPc, Ops, WakeInv, Waking
<1>7. QuietOnReturn' BY ThreadsAssumption, CommandsDiffer DEF TypeOK, ClientPc, WorkerPc, FunctionPc, Ops, QuietOnReturn, LockInv, OpInv, CommandInv, ItemInv, Holding
<1> QED BY <1>1, <1>2, <1>3, <1>4, <1>5, <1>6, <1>7 DEF IInv

LEMMA JoinKeeps ==
  ASSUME NEW c \in Clients, IInv, Join(c)
  PROVE  IInv'
<1>0. TypeOK /\ LockInv /\ OpInv /\ CommandInv /\ ItemInv /\ WakeInv /\ QuietOnReturn BY DEF IInv
<1>a. op[c] \in {"Shutdown", "Stop", "StopAndCancel", "Reset"} BY <1>0 DEF OpInv, Join
<1> USE <1>0, <1>a, AfterStops DEF Join, Goto, queueVars, itemVars
<1>1. TypeOK' BY DEF TypeOK, ClientPc, WorkerPc, FunctionPc, Ops
<1>2. LockInv' BY ThreadsAssumption DEF TypeOK, LockInv, Holding
<1>3. OpInv' BY DEF TypeOK, ClientPc, WorkerPc, FunctionPc, Ops, LockInv, Holding, OpInv
<1>4. CommandInv' BY ThreadsAssumption, CommandsDiffer DEF TypeOK, ClientPc, WorkerPc, FunctionPc, Ops, CommandInv, LockInv, OpInv, Holding, WaitsForWorker
<1>5. ItemInv' BY CommandsDiffer DEF TypeOK, ClientPc, WorkerPc, FunctionPc, Ops, ItemInv, CommandInv, OpInv
<1>6. WakeInv' BY CommandsDiffer DEF TypeOK, ClientPc, WorkerPc, FunctionPc, Ops, WakeInv, Waking
<1>7. QuietOnReturn' BY ThreadsAssumption, CommandsDiffer DEF TypeOK, ClientPc, WorkerPc, FunctionPc, Ops, QuietOnReturn, LockInv, OpInv, CommandInv, ItemInv, Holding
<1> QED BY <1>1, <1>2, <1>3, <1>4, <1>5, <1>6, <1>7 DEF IInv

LEMMA StartKeeps ==
  ASSUME NEW c \in Clients, IInv, Start(c)
  PROVE  IInv'
<1>0. TypeOK /\ LockInv /\ OpInv /\ CommandInv /\ ItemInv /\ WakeInv /\ QuietOnReturn BY DEF IInv
<1> USE <1>0 DEF Start, Goto, queueVars, itemVars
<1>1. TypeOK' BY DEF TypeOK, ClientPc, WorkerPc, FunctionPc, Ops
<1>2. LockInv' BY ThreadsAssumption DEF TypeOK, LockInv, Holding
<1>3. OpInv' BY DEF TypeOK, ClientPc, WorkerPc, FunctionPc, Ops, LockInv, Holding, OpInv
<1>4. CommandInv' BY ThreadsAssumption, CommandsDiffer DEF TypeOK, ClientPc, WorkerPc, FunctionPc, Ops, CommandInv, LockInv, OpInv, Holding, WaitsForWorker
<1>5. ItemInv' BY CommandsDiffer DEF TypeOK, ClientPc, WorkerPc, FunctionPc, Ops, ItemInv, CommandInv, OpInv
<1>6. WakeInv' BY CommandsDiffer DEF TypeOK, ClientPc, WorkerPc, FunctionPc, Ops, WakeInv, Waking
<1>7. QuietOnReturn' BY ThreadsAssumption, CommandsDiffer DEF TypeOK, ClientPc, WorkerPc, FunctionPc, Ops, QuietOnReturn, LockInv, OpInv, CommandInv, ItemInv, Holding
<1> QED BY <1>1, <1>2, <1>3, <1>4, <1>5, <1>6, <1>7 DEF IInv

LEMMA CommandsKeeps ==
  ASSUME IInv, Commands
  PROVE  IInv'
<1>0. TypeOK /\ LockInv /\ OpInv /\ CommandInv /\ ItemInv /\ WakeInv /\ QuietOnReturn BY DEF IInv
<1>b. Head(<<"Clear">>) = "Clear" /\ Head(<<"Exit">>) = "Exit" BY OneCommand
<1> USE <1>0, <1>b DEF Commands, Goto, queueVars, itemVars
<1>1. TypeOK'
  <2>1. m_items' \in Seq(Nat) BY EmptyQueues DEF TypeOK
  <2> QED BY <2>1 DEF TypeOK, ClientPc, WorkerPc, FunctionPc, Ops
<1>2. LockInv' BY ThreadsAssumption DEF TypeOK, LockInv, Holding
<1>3. OpInv' BY DEF TypeOK, ClientPc, WorkerPc, FunctionPc, Ops, LockInv, Holding, OpInv
<1>4. CommandInv' BY ThreadsAssumption, CommandsDiffer DEF TypeOK, ClientPc, WorkerPc, FunctionPc, Ops, CommandInv, LockInv, OpInv, Holding, WaitsForWorker
<1>5. ItemInv' BY CommandsDiffer DEF TypeOK, ClientPc, WorkerPc, FunctionPc, Ops, ItemInv, CommandInv, OpInv
<1>6. WakeInv' BY CommandsDiffer DEF TypeOK, ClientPc, WorkerPc, FunctionPc, Ops, WakeInv, Waking
<1>7. QuietOnReturn' BY ThreadsAssumption, CommandsDiffer DEF TypeOK, ClientPc, WorkerPc, FunctionPc, Ops, QuietOnReturn, LockInv, OpInv, CommandInv, ItemInv, Holding
<1> QED BY <1>1, <1>2, <1>3, <1>4, <1>5, <1>6, <1>7 DEF IInv

LEMMA PopCommandKeeps ==
  ASSUME IInv, PopCommand
  PROVE  IInv'
<1>0. TypeOK /\ LockInv /\ OpInv /\ CommandInv /\ ItemInv /\ WakeInv /\ QuietOnReturn BY DEF IInv
<1>b. m_commands = <<"Clear">> /\ Tail(m_commands) = <<>>
  BY <1>0, OneCommand DEF CommandInv, PopCommand
<1> USE <1>0, <1>b DEF PopCommand, Goto, queueVars, itemVars
<1>1. TypeOK' BY DEF TypeOK, ClientPc, WorkerPc, FunctionPc, Ops
<1>2. LockInv' BY ThreadsAssumption DEF TypeOK, LockInv, Holding
<1>3. OpInv' BY DEF TypeOK, ClientPc, WorkerPc, FunctionPc, Ops, LockInv, Holding, OpInv
<1>4. CommandInv' BY ThreadsAssumption, CommandsDiffer DEF TypeOK, ClientPc, WorkerPc, FunctionPc, Ops, CommandInv, LockInv, OpInv, Holding, WaitsForWorker
<1>5. ItemInv' BY CommandsDiffer DEF TypeOK, ClientPc, WorkerPc, FunctionPc, Ops, ItemInv, CommandInv, OpInv
<1>6. WakeInv' BY CommandsDiffer DEF TypeOK, ClientPc, WorkerPc, FunctionPc, Ops, WakeInv, Waking
<1>7. QuietOnReturn' BY ThreadsAssumption, CommandsDiffer DEF TypeOK, ClientPc, WorkerPc, FunctionPc, Ops, QuietOnReturn, LockInv, OpInv, CommandInv, ItemInv, Holding
<1> QED BY <1>1, <1>2, <1>3, <1>4, <1>5, <1>6, <1>7 DEF IInv

LEMMA TestItemsKeeps ==
  ASSUME IInv, TestItems
  PROVE  IInv'
<1>0. TypeOK /\ LockInv /\ OpInv /\ CommandInv /\ ItemInv /\ WakeInv /\ QuietOnReturn BY DEF IInv
<1> USE <1>0 DEF TestItems, Goto, queueVars, itemVars
<1>1. TypeOK' BY DEF TypeOK, ClientPc, WorkerPc, FunctionPc, Ops
<1>2. LockInv' BY ThreadsAssumption DEF TypeOK, LockInv, Holding
<1>3. OpInv' BY DEF TypeOK, ClientPc, WorkerPc, FunctionPc, Ops, LockInv, Holding, OpInv
<1>4. CommandInv' BY ThreadsAssumption, CommandsDiffer DEF TypeOK, ClientPc, WorkerPc, FunctionPc, Ops, CommandInv, LockInv, OpInv, Holding, WaitsForWorker
<1>5. ItemInv' BY CommandsDiffer DEF TypeOK, ClientPc, WorkerPc, FunctionPc, Ops, ItemInv, CommandInv, OpInv
<1>6. WakeInv' BY CommandsDiffer DEF TypeOK, ClientPc, WorkerPc, FunctionPc, Ops, WakeInv, Waking
<1>7. QuietOnReturn' BY ThreadsAssumption, CommandsDiffer DEF TypeOK, ClientPc, WorkerPc, FunctionPc, Ops, QuietOnReturn, LockInv, OpInv, CommandInv, ItemInv, Holding
<1> QED BY <1>1, <1>2, <1>3, <1>4, <1>5, <1>6, <1>7 DEF IInv

LEMMA WaitEventKeeps ==
  ASSUME IInv, WaitEvent
  PROVE  IInv'
<1>0. TypeOK /\ LockInv /\ OpInv /\ CommandInv /\ ItemInv /\ WakeInv /\ QuietOnReturn BY DEF IInv
<1> USE <1>0 DEF WaitEvent, Goto, queueVars, itemVars
<1>1. TypeOK' BY DEF TypeOK, ClientPc, WorkerPc, FunctionPc, Ops
<1>2. LockInv' BY ThreadsAssumption DEF TypeOK, LockInv, Holding
<1>3. OpInv' BY DEF TypeOK, ClientPc, WorkerPc, FunctionPc, Ops, LockInv, Holding, OpInv
<1>4. CommandInv' BY ThreadsAssumption, CommandsDiffer DEF TypeOK, ClientPc, WorkerPc, FunctionPc, Ops, CommandInv, LockInv, OpInv, Holding, WaitsForWorker
<1>5. ItemInv' BY CommandsDiffer DEF TypeOK, ClientPc, WorkerPc, FunctionPc, Ops, ItemInv, CommandInv, OpInv
<1>6. WakeInv' BY CommandsDiffer DEF TypeOK, ClientPc, WorkerPc, FunctionPc, Ops, WakeInv, Waking
<1>7. QuietOnReturn' BY ThreadsAssumption, CommandsDiffer DEF TypeOK, ClientPc, WorkerPc, FunctionPc, Ops, QuietOnReturn, LockInv, OpInv, CommandInv, ItemInv, Holding
<1> QED BY <1>1, <1>2, <1>3, <1>4, <1>5, <1>6, <1>7 DEF IInv

LEMMA FunctionKeeps ==
  ASSUME IInv, Function
  PROVE  IInv'
<1>0. TypeOK /\ LockInv /\ OpInv /\ CommandInv /\ ItemInv /\ WakeInv /\ QuietOnReturn BY DEF IInv
<1>b. Tail(m_items) \in Seq(Nat) /\ Head(m_items) \in Nat
  BY <1>0, Popped DEF TypeOK, ItemInv, FunctionPc, Function
<1> USE <1>0, <1>b DEF Function, Goto, queueVars, itemVars
<1>1. TypeOK'
  <2>1. future' \in [Clients -> Nat] BY DEF TypeOK, Ready
  <2> QED BY <2>1 DEF TypeOK, ClientPc, WorkerPc, FunctionPc, Ops
<1>2. LockInv' BY ThreadsAssumption DEF TypeOK, LockInv, Holding
<1>3. OpInv' BY DEF TypeOK, ClientPc, WorkerPc, FunctionPc, Ops, LockInv, Holding, OpInv
<1>4. CommandInv' BY ThreadsAssumption, CommandsDiffer DEF TypeOK, ClientPc, WorkerPc, FunctionPc, Ops, CommandInv, LockInv, OpInv, Holding, WaitsForWorker
<1>5. ItemInv' BY CommandsDiffer DEF TypeOK, ClientPc, WorkerPc, FunctionPc, Ops, ItemInv, CommandInv, OpInv
<1>6. WakeInv' BY CommandsDiffer DEF TypeOK, ClientPc, WorkerPc, FunctionPc, Ops, WakeInv, Waking
<1>7. QuietOnReturn' BY ThreadsAssumption, CommandsDiffer DEF TypeOK, ClientPc, WorkerPc, FunctionPc, Ops, QuietOnReturn, LockInv, OpInv, CommandInv, ItemInv, Holding
<1> QED BY <1>1, <1>2, <1>3, <1>4, <1>5, <1>6, <1>7 DEF IInv

LEMMA FunctionPushKeeps ==
  ASSUME IInv, FunctionPush
  PROVE  IInv'
<1>0. TypeOK /\ LockInv /\ OpInv /\ CommandInv /\ ItemInv /\ WakeInv /\ QuietOnReturn BY DEF IInv
<1>b. \A n \in Nat : Append(m_items, n) \in Seq(Nat) /\ Append(m_items, n) # <<>>
  BY <1>0, Appended DEF TypeOK
<1> USE <1>0, <1>b DEF FunctionPush, Goto, queueVars, itemVars
<1>1. TypeOK'
  <2>1. pushed' \in Nat BY DEF TypeOK
  <2>2. m_items' = m_items \/ m_items' = Append(m_items, pushed') OBVIOUS
  <2>3. m_items' \in Seq(Nat) BY <2>1, <2>2 DEF TypeOK
  <2>4. m_event' \in BOOLEAN BY DEF TypeOK
  <2> QED BY <2>1, <2>3, <2>4 DEF TypeOK, ClientPc, WorkerPc, FunctionPc, Ops
<1>2. LockInv' BY ThreadsAssumption DEF TypeOK, LockInv, Holding
<1>3. OpInv' BY DEF TypeOK, ClientPc, WorkerPc, FunctionPc, Ops, LockInv, Holding, OpInv
<1>4. CommandInv' BY ThreadsAssumption, CommandsDiffer DEF TypeOK, ClientPc, WorkerPc, FunctionPc, Ops, CommandInv, LockInv, OpInv, Holding, WaitsForWorker
<1>5. ItemInv' BY CommandsDiffer DEF TypeOK, ClientPc, WorkerPc, FunctionPc, Ops, ItemInv, CommandInv, OpInv
<1>6. WakeInv' BY CommandsDiffer DEF TypeOK, ClientPc, WorkerPc, FunctionPc, Ops, WakeInv, Waking
<1>7. QuietOnReturn' BY ThreadsAssumption, CommandsDiffer DEF TypeOK, ClientPc, WorkerPc, FunctionPc, Ops, QuietOnReturn, LockInv, OpInv, CommandInv, ItemInv, Holding
<1> QED BY <1>1, <1>2, <1>3, <1>4, <1>5, <1>6, <1>7 DEF IInv

LEMMA PopKeeps ==
  ASSUME IInv, Pop
  PROVE  IInv'
<1>0. TypeOK /\ LockInv /\ OpInv /\ CommandInv /\ ItemInv /\ WakeInv /\ QuietOnReturn BY DEF IInv
<1>b. Tail(m_items) \in Seq(Nat) /\ Head(m_items) \in Nat
  BY <1>0, Popped DEF TypeOK, ItemInv, FunctionPc, Pop
<1> USE <1>0, <1>b DEF Pop, Goto, queueVars, itemVars
<1>1. TypeOK' BY DEF TypeOK, ClientPc, WorkerPc, FunctionPc, Ops
<1>2. LockInv' BY ThreadsAssumption DEF TypeOK, LockInv, Holding
<1>3. OpInv' BY DEF TypeOK, ClientPc, WorkerPc, FunctionPc, Ops, LockInv, Holding, OpInv
<1>4. CommandInv' BY ThreadsAssumption, CommandsDiffer DEF TypeOK, ClientPc, WorkerPc, FunctionPc, Ops, CommandInv, LockInv, OpInv, Holding, WaitsForWorker
<1>5. ItemInv' BY CommandsDiffer DEF TypeOK, ClientPc, WorkerPc, FunctionPc, Ops, ItemInv, CommandInv, OpInv
<1>6. WakeInv' BY CommandsDiffer DEF TypeOK, ClientPc, WorkerPc, FunctionPc, Ops, WakeInv, Waking
<1>7. QuietOnReturn' BY ThreadsAssumption, CommandsDiffer DEF TypeOK, ClientPc, WorkerPc, FunctionPc, Ops, QuietOnReturn, LockInv, OpInv, CommandInv, ItemInv, Holding
<1> QED BY <1>1, <1>2, <1>3, <1>4, <1>5, <1>6, <1>7 DEF IInv

LEMMA NextKeeps == IInv /\ [Next]_vars => IInv'
<1> SUFFICES ASSUME IInv, [Next]_vars PROVE IInv' OBVIOUS
<1>1. ASSUME NEW c \in Clients, NEW o \in Ops, Call(c, o) PROVE IInv' BY <1>1, CallKeeps
<1>2. ASSUME NEW c \in Clients, Lock(c) PROVE IInv' BY <1>2, LockKeeps
<1>3. ASSUME NEW c \in Clients, ClientStep(c) PROVE IInv'
  BY <1>3, UnlockKeeps, EmplaceKeeps, SetKeeps, FutureKeeps, CancelKeeps,
     CommandKeeps, CommandSetKeeps, CommandWaitKeeps, CompletionKeeps, StopThreadKeeps,
     StopSetKeeps, JoinKeeps, StartKeeps
     DEF ClientStep
<1>4. CASE WorkerStep
  BY <1>4, CommandsKeeps, PopCommandKeeps, TestItemsKeeps, WaitEventKeeps,
     FunctionKeeps, FunctionPushKeeps, PopKeeps DEF WorkerStep
<1>5. CASE UNCHANGED vars
  BY <1>5 DEF vars, queueVars, itemVars, IInv, TypeOK, LockInv, Holding, OpInv, CommandInv, ItemInv,
     WakeInv, QuietOnReturn
<1> QED BY <1>1, <1>2, <1>3, <1>4, <1>5 DEF Next

\* The invariant holds in every behaviour.
THEOREM WorkQueueInvariant == Safety => []IInv
BY InitIInv, NextKeeps, PTL DEF Safety

\* Every variable keeps its type.
THEOREM WorkQueueTypeCorrect == Safety => []TypeOK
<1>1. IInv => TypeOK BY DEF IInv
<1> QED BY <1>1, WorkQueueInvariant, PTL

\* Front and Pop are only called on a queue with an element: the assertion of
\* SPSCQueueBase::Pop never fails.
THEOREM PopCorrect == Safety => []PopHasElement
<1>1. IInv => PopHasElement BY CommandsDiffer DEF IInv, PopHasElement, ItemInv, CommandInv
<1> QED BY <1>1, WorkQueueInvariant, PTL

\* Cancel, WaitForCompletion, Shutdown, Stop and StopAndCancel return only when
\* the worker has nothing more to do with the items.
THEOREM ReturnCorrect == Safety => []QuietOnReturn
<1>1. IInv => QuietOnReturn BY DEF IInv
<1> QED BY <1>1, WorkQueueInvariant, PTL

\* ThreadLoop never waits on m_event over an item or a command that nobody is
\* about to announce.
THEOREM WakeCorrect == Safety => []NoLostWakeup
<1>1. ASSUME IInv PROVE NoLostWakeup
  <2>1. \A c \in Clients : pc[c] \in Waking => m_mutex = c
    BY <1>1 DEF IInv, LockInv, Holding, Waking
  <2> QED BY <1>1, <2>1 DEF IInv, WakeInv, NoLostWakeup
<1> QED BY <1>1, WorkQueueInvariant, PTL

-----------------------------------------------------------------------------
\* A step of the thread or of a client is a step of the work queue or none.
LEMMA StepRefines == IInv /\ [Next]_vars => [Queue!WorkNext]_<<m_items, wpc \in FunctionPc, pushed>>
<1> SUFFICES ASSUME IInv, [Next]_vars
             PROVE  Queue!WorkNext \/ UNCHANGED <<m_items, wpc \in FunctionPc, pushed>>
  OBVIOUS
<1> USE DEF queueVars, itemVars, FunctionPc
<1>1. ASSUME NEW c \in Clients, Emplace(c) PROVE Queue!WorkNext
  BY <1>1 DEF Emplace, Queue!WorkNext, Queue!Push, IInv, TypeOK
<1>2. ASSUME NEW c \in Clients, Command(c) PROVE Queue!WorkNext \/ UNCHANGED <<m_items, wpc, pushed>>
  BY <1>2 DEF Command, IsRunning, Queue!WorkNext, Queue!Clear
<1>3. ASSUME NEW c \in Clients, Join(c) \/ Start(c)
      PROVE  UNCHANGED <<m_items, wpc \in FunctionPc, pushed>>
  BY <1>3 DEF Join, Start, IInv, OpInv
<1>4. ASSUME NEW c \in Clients,
             \/ \E o \in Ops : Call(c, o)
             \/ Lock(c) \/ Unlock(c) \/ Set(c) \/ Future(c) \/ Cancel(c) \/ CommandSet(c)
             \/ CommandWait(c) \/ Completion(c) \/ StopThread(c) \/ StopSet(c)
      PROVE  UNCHANGED <<m_items, wpc, pushed>>
  BY <1>4 DEF Call, Lock, Unlock, Set, Future, Cancel, CommandSet, CommandWait, Completion,
     StopThread, StopSet
<1>5. CASE Commands BY <1>5 DEF Commands, Queue!WorkNext, Queue!Clear
<1>6. CASE TestItems BY <1>6 DEF TestItems, Queue!WorkNext, Queue!Begin
<1>7. CASE PopCommand \/ WaitEvent \/ Function
  BY <1>7 DEF PopCommand, WaitEvent, Function
<1>8. CASE FunctionPush
  BY <1>8 DEF FunctionPush, Queue!WorkNext, Queue!Push, IInv, TypeOK
<1>9. CASE Pop BY <1>9 DEF Pop, Queue!WorkNext, Queue!Finish
<1>10. CASE UNCHANGED vars BY <1>10 DEF vars
<1> QED BY <1>1, <1>2, <1>3, <1>4, <1>5, <1>6, <1>7, <1>8, <1>9, <1>10 DEF Next, ClientStep, WorkerStep

\* WorkQueueThread implements the contract of a work queue.
THEOREM Refinement == Safety => ImplementsWorkQueue
<1>1. Init => Queue!WorkInit BY DEF Init, Queue!WorkInit, FunctionPc
<1> QED BY <1>1, StepRefines, WorkQueueInvariant, PTL DEF Safety, ImplementsWorkQueue, Queue!WorkSpec

=============================================================================
