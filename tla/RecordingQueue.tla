---------------------------- MODULE RecordingQueue ----------------------------
(***************************************************************************)
(* Vulkan::RecordingQueue (VideoBackends/Vulkan/VKRecordingQueue.h), the   *)
(* ring between the video thread (the producer) and the recording worker   *)
(* (the consumer, RecordingWorker::ThreadMain).                            *)
(*                                                                         *)
(* Every load or store of a shared atomic that the other side can race is  *)
(* a step of its own; all of them are seq_cst or ordered by one that is,   *)
(* so interleaving is their semantics.  The free-running u32 indices count *)
(* modulo Modulus (2^32 in the code).                                      *)
(***************************************************************************)
EXTENDS Naturals, Sequences

CONSTANTS
  Commands,      \* what the producer pushes
  NoCommand,     \* the content of a slot never written
  Capacity,      \* slots of the ring
  Modulus        \* the indices' range, 2^32 in the code

ASSUME RingAssumption ==
  /\ Capacity \in Nat \ {0} /\ Modulus \in Nat
  /\ 2 * Capacity <= Modulus            \* a signed distance is exact
  /\ Modulus % Capacity = 0 /\ Modulus % 2 = 0
ASSUME CommandsAssumption == NoCommand \notin Commands

VARIABLES
  m_slots, m_write, m_read,
  m_cached_read,          \* the producer's copy of m_read
  m_consumer_sleeping,
  m_producer_waiting,
  m_shutdown,
  m_wait_target,
  m_wait_mutex,           \* TRUE while the producer holds it between two steps
  p_pc, p_op, p_command,  \* the producer: where it is, why it waits, what it pushes
  p_notified,             \* m_wait_cv: a wake-up is due to the sleeping producer
  c_pc                    \* the consumer

ringVars == <<m_slots, m_write, m_read, m_cached_read>>
waitVars == <<m_wait_target, m_producer_waiting, m_wait_mutex, p_notified>>
producerVars == <<p_pc, p_op, p_command>>
vars == <<ringVars, waitVars, producerVars, m_consumer_sleeping, m_shutdown, c_pc>>

\* The producer between calls, inside Push, after a drain, after Shutdown.
ProducerPc == {"Idle", "Push", "Reload", "Store", "Wake", "Spin", "SleepBegin", "SleepFlag",
               "SleepTest", "Asleep", "Drained", "Closed"}
\* The consumer: the spin and the sleep of WaitForCommand, the loop over Front,
\* the steps of Pop, and after WaitForCommand returned false.
ConsumerPc == {"Spin", "SpinShutdown", "SleepFlag", "SleepTest", "SleepShutdown", "Wait",
               "Blocked", "Awake", "Front", "Pop", "PopFlag", "PopTarget", "PopNotify", "Done"}

-------------------------------------------------------------------------------
\* u32 arithmetic.
Index == 0..(Modulus - 1)
U32Inc(a) == IF a = Modulus - 1 THEN 0 ELSE a + 1
U32Sub(a, b) == IF a >= b THEN a - b ELSE a + Modulus - b

\* Mutant: compares the indices as plain numbers.
HasReachedUnsigned(read, target) == read >= target

\* static_cast<s32>(read - target) >= 0
HasReached(read, target) == 2 * U32Sub(read, target) < Modulus

\* index & MASK
Slot(index) == index % Capacity

GetDepth == U32Sub(m_write, m_read)

Init ==
  /\ m_slots = [i \in 0..(Capacity - 1) |-> NoCommand]
  /\ m_write = 0 /\ m_read = 0 /\ m_cached_read = 0
  /\ m_consumer_sleeping = FALSE /\ m_producer_waiting = FALSE /\ m_shutdown = FALSE
  /\ m_wait_target = 0 /\ m_wait_mutex = FALSE
  /\ p_pc = "Idle" /\ p_op = "Push" /\ p_command = NoCommand /\ p_notified = FALSE
  /\ c_pc = "Spin"

-------------------------------------------------------------------------------
\* The producer.

ProducerGoto(pc) == p_pc' = pc /\ UNCHANGED <<p_op, p_command>>

\* Push(command) is called.
PushBegin ==
  /\ p_pc = "Idle"
  /\ \E c \in Commands : p_command' = c
  /\ p_pc' = "Push" /\ p_op' = "Push"
  /\ UNCHANGED <<ringVars, waitVars, m_consumer_sleeping, m_shutdown, c_pc>>

\* Mutant: off by one, lets the producer into the slot the consumer may read.
FullByOne == U32Sub(m_write, m_cached_read) > Capacity

\* Lines 82 and 85: by the cached read index, the ring may be full.
Full == U32Sub(m_write, m_cached_read) >= Capacity

\* Line 82.
PushCheck ==
  /\ p_pc = "Push"
  /\ ProducerGoto(IF Full THEN "Reload" ELSE "Store")
  /\ UNCHANGED <<ringVars, waitVars, m_consumer_sleeping, m_shutdown, c_pc>>

\* Lines 84-90: reload the consumer's index; sleep while the ring is full.
PushReload ==
  /\ p_pc = "Reload"
  /\ m_cached_read' = m_read
  /\ ProducerGoto(IF U32Sub(m_write, m_read) >= Capacity THEN "SleepBegin" ELSE "Store")
  /\ UNCHANGED <<m_slots, m_write, m_read, waitVars, m_consumer_sleeping, m_shutdown, c_pc>>

\* Lines 97-98: fill the slot, then publish it with the index.
PushStore ==
  /\ p_pc = "Store"
  /\ m_slots' = [m_slots EXCEPT ![Slot(m_write)] = p_command]
  /\ m_write' = U32Inc(m_write)
  /\ ProducerGoto("Wake")
  /\ UNCHANGED <<m_read, m_cached_read, waitVars, m_consumer_sleeping, m_shutdown, c_pc>>

\* Mutant: looks for a sleeping consumer, and never wakes it.
PushWakeNobody ==
  /\ p_pc = "Wake"
  /\ ProducerGoto(IF m_shutdown THEN "Closed" ELSE "Idle")
  /\ UNCHANGED <<ringVars, waitVars, m_consumer_sleeping, m_shutdown, c_pc>>

\* Lines 99-101: wake the consumer if it says it sleeps.  A notification finds
\* it blocked in m_write.wait, or is lost.
PushWake ==
  /\ p_pc = "Wake"
  /\ c_pc' = IF m_consumer_sleeping /\ c_pc = "Blocked" THEN "Wait" ELSE c_pc
  /\ ProducerGoto(IF m_shutdown THEN "Closed" ELSE "Idle")
  /\ UNCHANGED <<ringVars, waitVars, m_consumer_sleeping, m_shutdown>>

\* WaitForEmpty and WaitForEmptyFor are called.
DrainBegin ==
  /\ p_pc = "Idle"
  /\ p_op' \in {"WaitForEmpty", "WaitForEmptyFor"}
  /\ p_pc' = "Spin"
  /\ UNCHANGED <<ringVars, waitVars, p_command, m_consumer_sleeping, m_shutdown, c_pc>>

\* SpinUntilRead, lines 204-213: it sees the ring empty, or gives up.
DrainSpin ==
  /\ p_pc = "Spin"
  /\ ProducerGoto(IF HasReached(m_read, m_write) THEN "Drained" ELSE "SleepBegin")
  /\ UNCHANGED <<ringVars, waitVars, m_consumer_sleeping, m_shutdown, c_pc>>

\* Lines 234-235, called from line 89 or from a drain.
SleepBegin ==
  /\ p_pc = "SleepBegin" /\ ~m_wait_mutex
  /\ m_wait_mutex' = TRUE
  /\ m_wait_target' = IF p_op = "Push" THEN U32Sub(m_write, Capacity - 1) ELSE m_write
  /\ ProducerGoto("SleepFlag")
  /\ UNCHANGED <<ringVars, m_producer_waiting, p_notified, m_consumer_sleeping, m_shutdown, c_pc>>

\* Mutant: announces itself after the test instead of before it.
SleepFlagSkipped ==
  /\ p_pc = "SleepFlag"
  /\ ProducerGoto("SleepTest")
  /\ UNCHANGED <<ringVars, waitVars, m_consumer_sleeping, m_shutdown, c_pc>>

\* Line 236.
SleepFlag ==
  /\ p_pc = "SleepFlag"
  /\ m_producer_waiting' = TRUE
  /\ ProducerGoto("SleepTest")
  /\ UNCHANGED <<ringVars, m_wait_target, m_wait_mutex, p_notified, m_consumer_sleeping,
                 m_shutdown, c_pc>>

\* The wait is over, lines 242-243.
SleepEnd(pc) ==
  /\ m_producer_waiting' = FALSE /\ m_wait_mutex' = FALSE /\ p_notified' = FALSE
  /\ ProducerGoto(pc)

\* Lines 231-241: the predicate; when it fails, wait() releases the mutex.
SleepTest ==
  /\ p_pc = "SleepTest"
  /\ IF HasReached(m_read, m_wait_target)
     THEN SleepEnd(IF p_op = "Push" THEN "Reload" ELSE "Drained")
     ELSE /\ m_wait_mutex' = FALSE /\ p_notified' = FALSE
          /\ ProducerGoto("Asleep")
          /\ UNCHANGED m_producer_waiting
  /\ UNCHANGED <<ringVars, m_wait_target, m_consumer_sleeping, m_shutdown, c_pc>>

\* The wait on m_wait_cv returns, notified or spuriously: the predicate again.
SleepWake ==
  /\ p_pc = "Asleep" /\ ~m_wait_mutex
  /\ m_wait_mutex' = TRUE /\ p_notified' = FALSE
  /\ ProducerGoto("SleepTest")
  /\ UNCHANGED <<ringVars, m_wait_target, m_producer_waiting, m_consumer_sleeping, m_shutdown,
                 c_pc>>

\* Line 239: the deadline of WaitForEmptyFor passes; wait_until evaluates the
\* predicate once more, and the caller (RecordingWorker::Drain) tries again.
SleepTimeout ==
  /\ p_pc = "Asleep" /\ p_op = "WaitForEmptyFor" /\ ~m_wait_mutex
  /\ SleepEnd(IF HasReached(m_read, m_wait_target) THEN "Drained" ELSE "Idle")
  /\ UNCHANGED <<ringVars, m_wait_target, m_consumer_sleeping, m_shutdown, c_pc>>

\* WaitForEmpty returns, or WaitForEmptyFor returns true.
DrainEnd ==
  /\ p_pc = "Drained"
  /\ ProducerGoto("Idle")
  /\ UNCHANGED <<ringVars, waitVars, m_consumer_sleeping, m_shutdown, c_pc>>

\* Shutdown, lines 129-133, called by ~RecordingWorker right after a drain.
Shutdown ==
  /\ p_pc = "Drained"
  /\ m_shutdown' = TRUE
  /\ \E c \in Commands : p_command' = c
  /\ p_pc' = "Push" /\ p_op' = "Push"
  /\ UNCHANGED <<ringVars, waitVars, m_consumer_sleeping, c_pc>>

-------------------------------------------------------------------------------
\* The consumer.

ConsumerGoto(pc) == c_pc' = pc

\* Lines 139-142: the spin sees a command, or none and goes on spinning until it
\* comes to look at m_shutdown.
WaitSpin ==
  /\ c_pc = "Spin"
  /\ ConsumerGoto(IF m_write # m_read THEN "Front" ELSE "SpinShutdown")
  /\ UNCHANGED <<ringVars, waitVars, producerVars, m_consumer_sleeping, m_shutdown>>

\* Lines 143-146: every 256th iteration, the last one included.
WaitSpinShutdown ==
  /\ c_pc = "SpinShutdown"
  /\ \/ m_shutdown /\ ConsumerGoto("Done")
     \/ ~m_shutdown /\ ConsumerGoto("Spin")
     \/ ~m_shutdown /\ ConsumerGoto("SleepFlag")
  /\ UNCHANGED <<ringVars, waitVars, producerVars, m_consumer_sleeping, m_shutdown>>

\* Mutant: tests before announcing itself.
WaitSleepFlagLate ==
  /\ c_pc = "SleepFlag"
  /\ ConsumerGoto(IF m_write # m_read THEN "Awake" ELSE "SleepTest")
  /\ UNCHANGED <<ringVars, waitVars, producerVars, m_consumer_sleeping, m_shutdown>>

\* Line 149.
WaitSleepFlag ==
  /\ c_pc = "SleepFlag"
  /\ m_consumer_sleeping' = TRUE
  /\ ConsumerGoto("SleepTest")
  /\ UNCHANGED <<ringVars, waitVars, producerVars, m_shutdown>>

\* Lines 150-152.
WaitSleepTest ==
  /\ c_pc = "SleepTest"
  /\ ConsumerGoto(IF m_write # m_read THEN "Awake" ELSE "SleepShutdown")
  /\ UNCHANGED <<ringVars, waitVars, producerVars, m_consumer_sleeping, m_shutdown>>

\* Lines 153-157.
WaitSleepShutdown ==
  /\ c_pc = "SleepShutdown"
  /\ m_consumer_sleeping' = (m_consumer_sleeping /\ ~m_shutdown)
  /\ ConsumerGoto(IF m_shutdown THEN "Done" ELSE "Wait")
  /\ UNCHANGED <<ringVars, waitVars, producerVars, m_shutdown>>

\* Line 158: std::atomic::wait compares with the value loaded at line 150, which
\* equals m_read, and blocks or returns in one step.
WaitAtomic ==
  /\ c_pc = "Wait"
  /\ ConsumerGoto(IF m_write # m_read THEN "SleepFlag" ELSE "Blocked")
  /\ UNCHANGED <<ringVars, waitVars, producerVars, m_consumer_sleeping, m_shutdown>>

\* Line 160.
WaitAwake ==
  /\ c_pc = "Awake"
  /\ m_consumer_sleeping' = FALSE
  /\ ConsumerGoto("Front")
  /\ UNCHANGED <<ringVars, waitVars, producerVars, m_shutdown>>

\* Front, lines 165-171, and the execution of the command it returns.
Front ==
  /\ c_pc = "Front"
  /\ ConsumerGoto(IF m_read = m_write THEN "Spin" ELSE "Pop")
  /\ UNCHANGED <<ringVars, waitVars, producerVars, m_consumer_sleeping, m_shutdown>>

\* Pop, lines 176-177.
Pop ==
  /\ c_pc = "Pop"
  /\ m_read' = U32Inc(m_read)
  /\ ConsumerGoto("PopFlag")
  /\ UNCHANGED <<m_slots, m_write, m_cached_read, waitVars, producerVars, m_consumer_sleeping,
                 m_shutdown>>

\* Line 182.
PopFlag ==
  /\ c_pc = "PopFlag"
  /\ ConsumerGoto(IF m_producer_waiting THEN "PopTarget" ELSE "Front")
  /\ UNCHANGED <<ringVars, waitVars, producerVars, m_consumer_sleeping, m_shutdown>>

\* Mutant: expects the index before the increment.
PopTargetStale ==
  /\ c_pc = "PopTarget"
  /\ ConsumerGoto(IF m_read = U32Inc(m_wait_target) THEN "PopNotify" ELSE "Front")
  /\ UNCHANGED <<ringVars, waitVars, producerVars, m_consumer_sleeping, m_shutdown>>

\* Line 184.
PopTarget ==
  /\ c_pc = "PopTarget"
  /\ ConsumerGoto(IF m_read = m_wait_target THEN "PopNotify" ELSE "Front")
  /\ UNCHANGED <<ringVars, waitVars, producerVars, m_consumer_sleeping, m_shutdown>>

\* Lines 186-188.
PopNotify ==
  /\ c_pc = "PopNotify" /\ ~m_wait_mutex
  /\ p_notified' = (p_pc = "Asleep")
  /\ ConsumerGoto("Front")
  /\ UNCHANGED <<ringVars, m_wait_target, m_producer_waiting, m_wait_mutex, producerVars,
                 m_consumer_sleeping, m_shutdown>>

-------------------------------------------------------------------------------
\* Steps of a call in progress, apart from waking up and from the environment's
\* choice of the next call.
ProducerStep ==
  \/ PushCheck \/ PushReload \/ PushStore \/ PushWake
  \/ DrainSpin \/ SleepBegin \/ SleepFlag \/ SleepTest

ProducerCall == PushBegin \/ DrainBegin \/ DrainEnd \/ Shutdown

ConsumerStep ==
  \/ WaitSpin \/ WaitSpinShutdown \/ WaitSleepFlag \/ WaitSleepTest \/ WaitSleepShutdown
  \/ WaitAtomic \/ WaitAwake \/ Front \/ Pop \/ PopFlag \/ PopTarget \/ PopNotify

\* Both threads have returned.
Finished == p_pc = "Closed" /\ c_pc = "Done" /\ UNCHANGED vars

Next == ProducerStep \/ ProducerCall \/ SleepWake \/ SleepTimeout \/ ConsumerStep \/ Finished

Safety == Init /\ [][Next]_vars

\* Neither thread is suspended for ever, and a notified producer wakes.  No
\* deadline and no spurious wake-up helps.  The consumer may have to compete for
\* m_wait_mutex with a producer that keeps waking up: it does not starve.
Fairness ==
  /\ WF_vars(ProducerStep)
  /\ WF_vars(p_notified /\ SleepWake)
  /\ SF_vars(ConsumerStep)

Spec == Safety /\ Fairness

-------------------------------------------------------------------------------
\* Properties.

\* Types; the indices stay u32 values across their wrap (VKRecordingQueue.h:247-249).
TypeOK ==
  /\ m_slots \in [0..(Capacity - 1) -> Commands \cup {NoCommand}]
  /\ m_write \in Index /\ m_read \in Index /\ m_cached_read \in Index
  /\ m_wait_target \in Index
  /\ m_consumer_sleeping \in BOOLEAN /\ m_producer_waiting \in BOOLEAN
  /\ m_shutdown \in BOOLEAN /\ m_wait_mutex \in BOOLEAN /\ p_notified \in BOOLEAN
  /\ p_pc \in ProducerPc /\ c_pc \in ConsumerPc
  /\ p_op \in {"Push", "WaitForEmpty", "WaitForEmptyFor"}
  /\ p_command \in Commands \cup {NoCommand}

\* The commands in the ring, oldest first.
Contents == [i \in 1..GetDepth |-> m_slots[Slot((m_read + i - 1) % Modulus)]]

Fifo == INSTANCE CommandFifo WITH fifo <- Contents

\* The ring is a bounded first-in first-out queue, across the wrap of its
\* indices: no slot is overwritten before it is popped and none is read before
\* it is written (VKRecordingQueue.h:41-44).
ImplementsFifo == Fifo!Spec

\* When a drain reports the ring empty, every pushed command has been popped
\* (VKRecordingQueue.h:104, 112): the video thread then owns the recording state.
DrainMeansEmpty == p_pc = "Drained" => m_read = m_write

\* The argument of VKRecordingQueue.h:218-228: a producer asleep whose target is
\* reached has been notified, or the Pop that reached it is about to notify.
NoLostProducerWakeup ==
  (p_pc = "Asleep" /\ HasReached(m_read, m_wait_target)) =>
    p_notified \/ c_pc \in {"PopFlag", "PopTarget", "PopNotify"}

\* A consumer blocked while a command is queued is about to be woken by the Push
\* that queued it (VKRecordingQueue.h:46-48).
NoLostConsumerWakeup == (c_pc = "Blocked" /\ m_write # m_read) => p_pc = "Wake"

\* Every queued command is executed, unless the ring is being shut down.
EveryCommandExecuted ==
  \A r \in Index : (m_read = r /\ m_write # r) ~> (m_read # r \/ m_shutdown)

\* A producer that sleeps for a slot or for an empty ring gets it, without the
\* help of a deadline (VKRecordingQueue.h:104, 215).
ProducerResumes == p_pc = "Asleep" ~> p_pc \in {"Idle", "Drained", "Wake"}

\* Shutdown returns and so does the consumer's last WaitForCommand.
ShutdownTerminates == m_shutdown ~> (p_pc = "Closed" /\ c_pc = "Done")

==============================================================================
