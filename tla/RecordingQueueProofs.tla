------------------------ MODULE RecordingQueueProofs ------------------------
(***************************************************************************)
(* Proofs about RecordingQueue for every capacity, every index width and   *)
(* every set of commands.                                                  *)
(***************************************************************************)
EXTENDS RecordingQueue, Integers, SequenceTheorems, TLAPS

-----------------------------------------------------------------------------
\* u32 arithmetic.

LEMMA RingFacts == Capacity \in Nat /\ Capacity > 0 /\ Modulus \in Nat /\ 2 * Capacity <= Modulus
BY RingAssumption

LEMMA U32Type ==
  ASSUME NEW a \in Index, NEW b \in Index
  PROVE  U32Inc(a) \in Index /\ U32Sub(a, b) \in Index /\ (U32Sub(a, b) = 0 <=> a = b)
BY RingFacts DEF Index, U32Inc, U32Sub

LEMMA DistanceNat ==
  ASSUME NEW a \in Index, NEW b \in Index
  PROVE  U32Sub(a, b) \in Nat
BY RingFacts DEF Index, U32Sub

\* What the invariant says of the current distances, as numbers.
LEMMA DistancesNow ==
  ASSUME m_write \in Index, m_read \in Index, m_cached_read \in Index,
         GetDepth <= U32Sub(m_write, m_cached_read), U32Sub(m_write, m_cached_read) <= Capacity
  PROVE  /\ GetDepth \in Nat /\ U32Sub(m_write, m_cached_read) \in Nat
         /\ GetDepth <= Capacity
         /\ U32Sub(m_write, m_cached_read) < Capacity => GetDepth < Capacity
<1>1. GetDepth \in Nat /\ U32Sub(m_write, m_cached_read) \in Nat
  BY DistanceNat DEF GetDepth
<1> QED
  BY <1>1, RingFacts

\* Moving the lower index up shortens a distance by one.
LEMMA DistanceDown ==
  ASSUME NEW a \in Index, NEW b \in Index, a # b
  PROVE  U32Sub(a, U32Inc(b)) = U32Sub(a, b) - 1
BY RingFacts DEF Index, U32Inc, U32Sub

\* Moving the upper index up lengthens a distance by one, short of a full turn.
LEMMA DistanceUp ==
  ASSUME NEW a \in Index, NEW b \in Index, U32Sub(a, b) < Capacity
  PROVE  U32Sub(U32Inc(a), b) = U32Sub(a, b) + 1
BY RingFacts DEF Index, U32Inc, U32Sub

\* A signed distance that is not negative, to an index at most Capacity ahead.
LEMMA ReachedIsEqual ==
  ASSUME NEW r \in Index, NEW w \in Index, U32Sub(w, r) <= Capacity, HasReached(r, w)
  PROVE  r = w
BY RingFacts DEF Index, U32Sub, HasReached

\* The step of an index that first reaches a target lands on it exactly: this
\* is why an equality test in Pop is enough.
LEMMA ReachedExactly ==
  ASSUME NEW r \in Index, NEW t \in Index, ~HasReached(r, t), HasReached(U32Inc(r), t)
  PROVE  U32Inc(r) = t
BY RingFacts DEF Index, U32Inc, U32Sub, HasReached

-----------------------------------------------------------------------------
\* The inductive invariant.

\* The ring holds at most Capacity commands, the producer's stale copy of the
\* read index never hides more of them, and it stores only into a free slot.
DepthInv ==
  /\ GetDepth <= U32Sub(m_write, m_cached_read)
  /\ U32Sub(m_write, m_cached_read) <= Capacity
  /\ p_pc = "Store" => U32Sub(m_write, m_cached_read) < Capacity
  /\ c_pc = "Pop" => m_read # m_write

\* A drain waits for the write index, and ends when it is reached.
DrainInv ==
  /\ (p_pc \in {"SleepFlag", "SleepTest", "Asleep"} /\ p_op # "Push") => m_wait_target = m_write
  /\ p_pc = "Drained" => m_read = m_write

\* The producer announces itself before it tests; when its target is reached the
\* Pop that did it is on its way to the notification.
ProducerWakeInv ==
  /\ p_pc \in {"SleepTest", "Asleep"} => m_producer_waiting
  /\ (p_pc = "Asleep" /\ HasReached(m_read, m_wait_target)) =>
       \/ p_notified
       \/ c_pc \in {"PopFlag", "PopTarget"} /\ m_read = m_wait_target
       \/ c_pc = "PopNotify"

\* The same for the consumer and the Push that ends its wait.
ConsumerWakeInv ==
  /\ c_pc \in {"SleepTest", "SleepShutdown", "Wait", "Blocked"} => m_consumer_sleeping
  /\ (c_pc = "Blocked" /\ m_write # m_read) => p_pc = "Wake"

RingInv == TypeOK /\ DepthInv /\ DrainInv /\ ProducerWakeInv /\ ConsumerWakeInv

LEMMA ProducerInvStep ==
  ASSUME RingInv, ProducerStep \/ ProducerCall \/ SleepWake \/ SleepTimeout
  PROVE  RingInv'
<1> USE DEF ProducerGoto, ringVars, waitVars, producerVars
<1>0. TypeOK'
  <2> USE RingFacts, U32Type DEF RingInv, TypeOK, ProducerPc, ConsumerPc, SleepEnd
  <2>1. CASE PushBegin
    BY <2>1 DEF PushBegin
  <2>2. CASE PushCheck
    BY <2>2 DEF PushCheck
  <2>3. CASE PushReload
    BY <2>3 DEF PushReload
  <2>4. CASE PushStore
    BY <2>4 DEF PushStore
  <2>5. CASE PushWake
    BY <2>5 DEF PushWake
  <2>6. CASE DrainBegin
    BY <2>6 DEF DrainBegin
  <2>7. CASE DrainSpin
    BY <2>7 DEF DrainSpin
  <2>8. CASE SleepBegin
    <3>1. Capacity - 1 \in Index
      BY RingFacts DEF Index
    <3>2. m_wait_target' \in Index
      BY <2>8, <3>1 DEF SleepBegin
    <3> QED
      BY <2>8, <3>2 DEF SleepBegin
  <2>9. CASE SleepFlag
    BY <2>9 DEF SleepFlag
  <2>10. CASE SleepTest
    BY <2>10 DEF SleepTest
  <2>11. CASE SleepWake
    BY <2>11 DEF SleepWake
  <2>12. CASE SleepTimeout
    BY <2>12 DEF SleepTimeout
  <2>13. CASE DrainEnd
    BY <2>13 DEF DrainEnd
  <2>14. CASE Shutdown
    BY <2>14 DEF Shutdown
  <2> QED
    BY <2>1, <2>2, <2>3, <2>4, <2>5, <2>6, <2>7, <2>8, <2>9, <2>10, <2>11, <2>12, <2>13, <2>14
    DEF ProducerStep, ProducerCall
<1> USE DEF RingInv, DepthInv, DrainInv, ProducerWakeInv, ConsumerWakeInv, GetDepth
<1>1. CASE PushBegin
  BY <1>1, <1>0 DEF PushBegin
<1>2. CASE PushCheck
  <2>1. ~Full => U32Sub(m_write, m_cached_read) < Capacity
    BY RingFacts, DistancesNow DEF Full, TypeOK
  <2> QED
    BY <1>2, <1>0, <2>1 DEF PushCheck
<1>3. CASE PushReload
  <2>1. GetDepth \in Nat /\ GetDepth <= Capacity
    BY DistancesNow DEF TypeOK
  <2>2. DepthInv'
    BY <1>3, <2>1, RingFacts DEF PushReload
  <2> QED
    BY <1>3, <1>0, <2>2 DEF PushReload
<1>4. CASE PushStore
  <2>1. U32Sub(m_write, m_cached_read) < Capacity /\ GetDepth < Capacity
    BY <1>4, DistancesNow DEF PushStore, TypeOK
  <2>2. GetDepth' = GetDepth + 1 /\ U32Sub(m_write, m_cached_read)' = U32Sub(m_write, m_cached_read) + 1
    BY <1>4, <2>1, DistanceUp DEF PushStore, TypeOK
  <2>3. GetDepth \in Nat /\ U32Sub(m_write, m_cached_read) \in Nat
    BY U32Type DEF TypeOK, Index
  <2>4. m_write' # m_read
    <3>1. GetDepth' # 0 /\ GetDepth' = U32Sub(m_write', m_read)
      BY <1>4, <2>2, <2>3 DEF PushStore
    <3>2. m_write' \in Index /\ m_read \in Index
      BY <1>0 DEF TypeOK
    <3> QED
      BY <3>1, <3>2, U32Type
  <2>5. DepthInv'
    BY <1>4, <2>1, <2>2, <2>3, <2>4, RingFacts DEF PushStore
  <2> QED
    BY <1>4, <1>0, <2>5 DEF PushStore
<1>5. CASE PushWake
  BY <1>5, <1>0 DEF PushWake
<1>6. CASE DrainBegin
  BY <1>6, <1>0 DEF DrainBegin
<1>7. CASE DrainSpin
  <2>1. HasReached(m_read, m_write) => m_read = m_write
    BY ReachedIsEqual, DistancesNow DEF TypeOK
  <2> QED
    BY <1>7, <1>0, <2>1 DEF DrainSpin
<1>8. CASE SleepBegin
  BY <1>8, <1>0 DEF SleepBegin
<1>9. CASE SleepFlag
  BY <1>9, <1>0 DEF SleepFlag
<1>10. CASE SleepTest
  <2>1. HasReached(m_read, m_write) => m_read = m_write
    BY ReachedIsEqual, DistancesNow DEF TypeOK
  <2> QED
    BY <1>10, <1>0, <2>1 DEF SleepTest, SleepEnd
<1>11. CASE SleepWake
  BY <1>11, <1>0 DEF SleepWake
<1>12. CASE SleepTimeout
  <2>1. HasReached(m_read, m_write) => m_read = m_write
    BY ReachedIsEqual, DistancesNow DEF TypeOK
  <2> QED
    BY <1>12, <1>0, <2>1 DEF SleepTimeout, SleepEnd
<1>13. CASE DrainEnd
  BY <1>13, <1>0 DEF DrainEnd
<1>14. CASE Shutdown
  BY <1>14, <1>0 DEF Shutdown
<1> QED
  BY <1>1, <1>2, <1>3, <1>4, <1>5, <1>6, <1>7, <1>8, <1>9, <1>10, <1>11, <1>12, <1>13, <1>14
  DEF ProducerStep, ProducerCall

LEMMA ConsumerInvStep ==
  ASSUME RingInv, ConsumerStep
  PROVE  RingInv'
<1> USE DEF ConsumerGoto, ringVars, waitVars, producerVars
<1>0. TypeOK'
  <2> USE U32Type DEF RingInv, TypeOK, ConsumerPc
  <2>1. CASE WaitSpin
    BY <2>1 DEF WaitSpin
  <2>2. CASE WaitSpinShutdown
    BY <2>2 DEF WaitSpinShutdown
  <2>3. CASE WaitSleepFlag
    BY <2>3 DEF WaitSleepFlag
  <2>4. CASE WaitSleepTest
    BY <2>4 DEF WaitSleepTest
  <2>5. CASE WaitSleepShutdown
    BY <2>5 DEF WaitSleepShutdown
  <2>6. CASE WaitAtomic
    BY <2>6 DEF WaitAtomic
  <2>7. CASE WaitAwake
    BY <2>7 DEF WaitAwake
  <2>8. CASE Front
    BY <2>8 DEF Front
  <2>9. CASE Pop
    BY <2>9 DEF Pop
  <2>10. CASE PopFlag
    BY <2>10 DEF PopFlag
  <2>11. CASE PopTarget
    BY <2>11 DEF PopTarget
  <2>12. CASE PopNotify
    BY <2>12 DEF PopNotify
  <2> QED
    BY <2>1, <2>2, <2>3, <2>4, <2>5, <2>6, <2>7, <2>8, <2>9, <2>10, <2>11, <2>12
    DEF ConsumerStep
<1> USE DEF RingInv, DepthInv, DrainInv, ProducerWakeInv, ConsumerWakeInv, GetDepth
<1>1. CASE WaitSpin
  BY <1>1, <1>0 DEF WaitSpin
<1>2. CASE WaitSpinShutdown
  BY <1>2, <1>0 DEF WaitSpinShutdown
<1>3. CASE WaitSleepFlag
  BY <1>3, <1>0 DEF WaitSleepFlag
<1>4. CASE WaitSleepTest
  BY <1>4, <1>0 DEF WaitSleepTest
<1>5. CASE WaitSleepShutdown
  BY <1>5, <1>0 DEF WaitSleepShutdown
<1>6. CASE WaitAtomic
  BY <1>6, <1>0 DEF WaitAtomic
<1>7. CASE WaitAwake
  BY <1>7, <1>0 DEF WaitAwake
<1>8. CASE Front
  BY <1>8, <1>0 DEF Front
<1>9. CASE Pop
  <2>1. m_read # m_write /\ m_read' = U32Inc(m_read)
    BY <1>9 DEF Pop
  <2>2. GetDepth' = GetDepth - 1 /\ GetDepth \in Nat /\ U32Sub(m_write, m_cached_read) \in Nat
    BY <1>9, <2>1, DistanceDown, U32Type DEF Pop, TypeOK, Index
  <2>3. DepthInv'
    BY <1>9, <2>1, <2>2, RingFacts DEF Pop
  <2>4. ProducerWakeInv'
    BY <1>9, <2>1, ReachedExactly DEF Pop, TypeOK
  <2> QED
    BY <1>9, <1>0, <2>1, <2>3, <2>4 DEF Pop
<1>10. CASE PopFlag
  BY <1>10, <1>0 DEF PopFlag
<1>11. CASE PopTarget
  BY <1>11, <1>0 DEF PopTarget
<1>12. CASE PopNotify
  BY <1>12, <1>0 DEF PopNotify
<1> QED
  BY <1>1, <1>2, <1>3, <1>4, <1>5, <1>6, <1>7, <1>8, <1>9, <1>10, <1>11, <1>12
  DEF ConsumerStep

LEMMA InitInv == Init => RingInv
<1> SUFFICES ASSUME Init PROVE RingInv
  OBVIOUS
<1>1. 0 \in Index /\ U32Sub(0, 0) = 0
  BY RingFacts DEF Index, U32Sub
<1> QED
  <2>1. TypeOK
    BY <1>1 DEF Init, TypeOK, ProducerPc, ConsumerPc
  <2>2. DepthInv
    BY <1>1, RingFacts DEF Init, DepthInv, GetDepth
  <2> QED
    BY <2>1, <2>2 DEF Init, RingInv, DrainInv, ProducerWakeInv, ConsumerWakeInv

LEMMA NextInv == RingInv /\ [Next]_vars => RingInv'
<1> SUFFICES ASSUME RingInv, [Next]_vars PROVE RingInv'
  OBVIOUS
<1>1. CASE Next
  <2>1. CASE Finished
    BY <2>1 DEF Finished, vars, ringVars, waitVars, producerVars, RingInv, TypeOK, DepthInv,
                DrainInv, ProducerWakeInv, ConsumerWakeInv, GetDepth
  <2> QED
    BY <1>1, <2>1, ProducerInvStep, ConsumerInvStep DEF Next
<1>2. CASE UNCHANGED vars
  BY <1>2 DEF vars, ringVars, waitVars, producerVars, RingInv, TypeOK, DepthInv, DrainInv,
              ProducerWakeInv, ConsumerWakeInv, GetDepth
<1> QED
  BY <1>1, <1>2

THEOREM RingInvariant == Safety => []RingInv
BY InitInv, NextInv, PTL DEF Safety

\* The type invariant: in particular the indices stay in range as they wrap.
THEOREM RingTypeCorrect == Safety => []TypeOK
<1>1. RingInv => TypeOK
  BY DEF RingInv
<1> QED
  BY <1>1, RingInvariant, PTL

\* A drain that reports the ring empty is right, whatever index wraps meanwhile
\* and whichever of the spin, a notification and the deadline ends it.
THEOREM DrainCorrect == Safety => []DrainMeansEmpty
<1>1. RingInv => DrainMeansEmpty
  BY DEF RingInv, DrainInv, DrainMeansEmpty
<1> QED
  BY <1>1, RingInvariant, PTL

\* No wake-up of the sleeping producer is lost.
THEOREM ProducerWakeup == Safety => []NoLostProducerWakeup
<1>1. RingInv => NoLostProducerWakeup
  BY DEF RingInv, ProducerWakeInv, NoLostProducerWakeup
<1> QED
  BY <1>1, RingInvariant, PTL

\* No wake-up of the blocked consumer is lost.
THEOREM ConsumerWakeup == Safety => []NoLostConsumerWakeup
<1>1. RingInv => NoLostConsumerWakeup
  BY DEF RingInv, ConsumerWakeInv, NoLostConsumerWakeup
<1> QED
  BY <1>1, RingInvariant, PTL

-----------------------------------------------------------------------------
\* Remainders, for a divisor that is a parameter.

LEMMA Divides ==
  ASSUME NEW c \in Nat, c > 0, NEW x \in Nat
  PROVE  \E q \in Nat, r \in 0..(c - 1) : x = c * q + r /\ x % c = r
<1>1. x \div c \in Nat /\ x % c \in 0..(c - 1) /\ x = c * (x \div c) + (x % c)
  OBVIOUS
<1> QED
  BY <1>1

LEMMA NoSmallMultiple ==
  ASSUME NEW c \in Nat, c > 0, NEW d \in Int, d * c < c, d * c > -c
  PROVE  d = 0
OBVIOUS

LEMMA RemainderUnique ==
  ASSUME NEW c \in Nat, c > 0, NEW q \in Int, NEW p \in Int,
         NEW r \in 0..(c - 1), NEW s \in 0..(c - 1), c * q + r = c * p + s
  PROVE  r = s
<1>1. c * (q - p) = s - r
  OBVIOUS
<1>2. c * (q - p) < c /\ c * (q - p) > -c
  BY <1>1
<1> QED
  BY <1>1, <1>2, NoSmallMultiple

LEMMA RemainderOf ==
  ASSUME NEW c \in Nat, c > 0, NEW q \in Nat, NEW r \in 0..(c - 1)
  PROVE  (c * q + r) % c = r
<1>1. c * q + r \in Nat
  OBVIOUS
<1>2. PICK p \in Nat, s \in 0..(c - 1) : c * q + r = c * p + s /\ (c * q + r) % c = s
  BY <1>1, Divides
<1>3. r = s
  BY <1>2, RemainderUnique
<1> QED
  BY <1>2, <1>3

LEMMA RemainderPlus ==
  ASSUME NEW c \in Nat, c > 0, NEW x \in Nat, NEW k \in Nat
  PROVE  (x + c * k) % c = x % c
<1>1. PICK q \in Nat, r \in 0..(c - 1) : x = c * q + r /\ x % c = r
  BY Divides
<1>2. x + c * k = c * (q + k) + r
  BY <1>1
<1>3. (c * (q + k) + r) % c = r
  BY RemainderOf
<1> QED
  BY <1>1, <1>2, <1>3

LEMMA RemainderTwice ==
  ASSUME NEW c \in Nat, c > 0, NEW m \in Nat, m > 0, m % c = 0, NEW x \in Nat
  PROVE  (x % m) % c = x % c
<1>1. PICK q \in Nat, r \in 0..(m - 1) : x = m * q + r /\ x % m = r
  BY Divides
<1>2. PICK k \in Nat : m = c * k
  BY Divides
<1>3. PICK n \in Nat : n = k * q
  OBVIOUS
<1>4. x = r + c * n /\ r \in Nat
  BY <1>1, <1>2, <1>3
<1>5. (r + c * n) % c = r % c
  BY <1>4, RemainderPlus
<1> QED
  BY <1>1, <1>4, <1>5

\* Numbers less than c apart have different remainders.
LEMMA RemaindersDiffer ==
  ASSUME NEW c \in Nat, c > 0, NEW x \in Nat, NEW d \in 0..(c - 1), (x + d) % c = x % c
  PROVE  d = 0
<1>1. PICK q \in Nat, r \in 0..(c - 1) : x = c * q + r /\ x % c = r
  BY Divides
<1>2. PICK p \in Nat, s \in 0..(c - 1) : x + d = c * p + s /\ (x + d) % c = s
  BY Divides
<1>3. c * (p - q) + 0 = c * 0 + d
  BY <1>1, <1>2
<1>4. p - q \in Int
  OBVIOUS
<1> QED
  BY <1>3, <1>4, RemainderUnique

-----------------------------------------------------------------------------
\* The ring's slots.

LEMMA SlotRange ==
  ASSUME NEW x \in Nat
  PROVE  Slot(x) \in 0..(Capacity - 1)
<1>1. PICK q \in Nat, r \in 0..(Capacity - 1) : x % Capacity = r
  BY RingFacts, Divides
<1> QED
  BY <1>1 DEF Slot

\* The wrap of an index does not change its slot, as Capacity divides Modulus.
LEMMA SlotWraps ==
  ASSUME NEW x \in Nat
  PROVE  Slot(x % Modulus) = Slot(x) /\ Slot(x + Modulus) = Slot(x)
<1>0. Modulus > 0
  BY RingFacts
<1>1. Slot(x % Modulus) = Slot(x)
  BY <1>0, RingFacts, RingAssumption, RemainderTwice DEF Slot
<1>2. PICK k \in Nat : Modulus = Capacity * k
  BY RingFacts, RingAssumption, Divides
<1>3. (x + Capacity * k) % Capacity = x % Capacity
  BY RingFacts, RemainderPlus
<1> QED
  BY <1>1, <1>2, <1>3 DEF Slot

\* Positions of one ring's worth of commands are in different slots.
LEMMA SlotsDiffer ==
  ASSUME NEW x \in Nat, NEW i \in Nat, NEW j \in Nat, i < j, j < Capacity
  PROVE  Slot(x + i) # Slot(x + j)
<1>1. SUFFICES ASSUME Slot(x + i) = Slot(x + j) PROVE FALSE
  OBVIOUS
<1>2. j - i \in 0..(Capacity - 1) /\ x + i \in Nat
  BY RingFacts
<1>3. (x + i) + (j - i) = x + j
  OBVIOUS
<1>4. ((x + i) + (j - i)) % Capacity = (x + i) % Capacity
  BY <1>1, <1>3 DEF Slot
<1>5. j - i = 0
  BY <1>2, <1>4, RingFacts, RemaindersDiffer
<1> QED
  BY <1>5

\* The write index is in the slot behind the last command.
LEMMA WriteSlot ==
  ASSUME NEW r \in Index, NEW w \in Index
  PROVE  Slot(w) = Slot(r + U32Sub(w, r))
<1>1. r \in Nat /\ w \in Nat /\ U32Sub(w, r) \in Nat
  BY RingFacts, DistanceNat DEF Index
<1>2. r + U32Sub(w, r) = w \/ r + U32Sub(w, r) = w + Modulus
  BY <1>1, RingFacts DEF U32Sub
<1> QED
  BY <1>1, <1>2, SlotWraps

\* Incrementing the read index moves every position up by one.
LEMMA ReadSlot ==
  ASSUME NEW r \in Index, NEW i \in Nat
  PROVE  Slot(U32Inc(r) + i) = Slot(r + i + 1)
<1>1. r \in Nat /\ U32Inc(r) \in Nat
  BY RingFacts, U32Type DEF Index
<1>2. r + i + 1 = U32Inc(r) + i \/ r + i + 1 = (U32Inc(r) + i) + Modulus
  BY <1>1, RingFacts DEF U32Inc
<1>3. U32Inc(r) + i \in Nat
  BY <1>1
<1> QED
  BY <1>2, <1>3, SlotWraps

-----------------------------------------------------------------------------
\* The ring implements the bounded queue.

\* Sequences that agree with Append and with Tail position by position.
LEMMA AppendedSeq ==
  ASSUME NEW S, NEW s \in Seq(S), NEW t \in Seq(S), NEW e \in S, Len(t) = Len(s) + 1,
         \A i \in 1..Len(s) : t[i] = s[i], t[Len(s) + 1] = e
  PROVE  t = Append(s, e)
<1>1. Append(s, e) \in Seq(S) /\ Len(Append(s, e)) = Len(s) + 1
  BY AppendProperties
<1>2. \A i \in 1..(Len(s) + 1) : Append(s, e)[i] = t[i]
  BY AppendProperties
<1> QED
  BY <1>1, <1>2, SeqEqual

LEMMA TailSeq ==
  ASSUME NEW S, NEW s \in Seq(S), NEW t \in Seq(S), Len(s) # 0, Len(t) = Len(s) - 1,
         \A i \in 1..(Len(s) - 1) : t[i] = s[i + 1]
  PROVE  s # <<>> /\ t = Tail(s)
<1>1. s # <<>>
  BY EmptySeq
<1>2. Tail(s) \in Seq(S) /\ Len(Tail(s)) = Len(s) - 1
  BY <1>1, HeadTailProperties
<1>3. \A i \in 1..(Len(s) - 1) : Tail(s)[i] = t[i]
  BY <1>1, HeadTailProperties
<1> QED
  BY <1>1, <1>2, <1>3, SeqEqual

\* The queued commands as a function of the ring, for the states before and after
\* a step.
QueueOf(slots, r, w) == [i \in 1..U32Sub(w, r) |-> slots[Slot((r + i - 1) % Modulus)]]

LEMMA QueueOfFacts ==
  ASSUME NEW slots \in [0..(Capacity - 1) -> Commands \cup {NoCommand}],
         NEW r \in Index, NEW w \in Index
  PROVE  /\ U32Sub(w, r) \in Nat
         /\ QueueOf(slots, r, w) \in Seq(Commands \cup {NoCommand})
         /\ Len(QueueOf(slots, r, w)) = U32Sub(w, r)
         /\ \A i \in 1..U32Sub(w, r) : QueueOf(slots, r, w)[i] = slots[Slot(r + i - 1)]
<1>1. U32Sub(w, r) \in Nat
  BY DistanceNat
<1>2. ASSUME NEW i \in 1..U32Sub(w, r)
      PROVE  /\ Slot((r + i - 1) % Modulus) = Slot(r + i - 1)
             /\ Slot(r + i - 1) \in 0..(Capacity - 1)
  <2>1. r + i - 1 \in Nat
    BY <1>1, RingFacts DEF Index
  <2> QED
    BY <2>1, SlotWraps, SlotRange
<1>3. \A i \in 1..U32Sub(w, r) :
        slots[Slot((r + i - 1) % Modulus)] \in Commands \cup {NoCommand}
  BY <1>2
<1>4. QueueOf(slots, r, w) \in [1..U32Sub(w, r) -> Commands \cup {NoCommand}]
  BY <1>3 DEF QueueOf
<1>5. /\ QueueOf(slots, r, w) \in Seq(Commands \cup {NoCommand})
      /\ Len(QueueOf(slots, r, w)) = U32Sub(w, r)
  BY <1>1, <1>4
<1>6. \A i \in 1..U32Sub(w, r) : QueueOf(slots, r, w)[i] = slots[Slot(r + i - 1)]
  BY <1>2 DEF QueueOf
<1> QED
  BY <1>1, <1>5, <1>6

LEMMA ContentsNow ==
  ASSUME TypeOK, TypeOK'
  PROVE  /\ Contents \in Seq(Commands \cup {NoCommand}) /\ Len(Contents) = GetDepth
         /\ \A i \in 1..GetDepth : Contents[i] = m_slots[Slot(m_read + i - 1)]
         /\ Contents' \in Seq(Commands \cup {NoCommand}) /\ Len(Contents') = GetDepth'
         /\ \A i \in 1..GetDepth' : Contents'[i] = m_slots'[Slot(m_read' + i - 1)]
<1>1. Contents = QueueOf(m_slots, m_read, m_write) /\ GetDepth = U32Sub(m_write, m_read)
  BY DEF Contents, GetDepth, QueueOf
<1>2. Contents' = QueueOf(m_slots', m_read', m_write') /\ GetDepth' = U32Sub(m_write', m_read')
  BY DEF Contents, GetDepth, QueueOf
<1>3. /\ m_slots \in [0..(Capacity - 1) -> Commands \cup {NoCommand}]
      /\ m_read \in Index /\ m_write \in Index
      /\ m_slots' \in [0..(Capacity - 1) -> Commands \cup {NoCommand}]
      /\ m_read' \in Index /\ m_write' \in Index
  BY DEF TypeOK
<1>4. /\ Contents \in Seq(Commands \cup {NoCommand}) /\ Len(Contents) = GetDepth
      /\ \A i \in 1..GetDepth : Contents[i] = m_slots[Slot(m_read + i - 1)]
  BY <1>1, <1>3, QueueOfFacts
<1>5. /\ Contents' \in Seq(Commands \cup {NoCommand}) /\ Len(Contents') = GetDepth'
      /\ \A i \in 1..GetDepth' : Contents'[i] = m_slots'[Slot(m_read' + i - 1)]
  BY <1>2, <1>3, QueueOfFacts
<1> QED
  BY <1>4, <1>5

\* Lines 97-98 append the command: the slot they fill holds none that is queued.
LEMMA StoreAppends ==
  ASSUME RingInv, RingInv', PushStore
  PROVE  Len(Contents) < Capacity /\ Contents' = Append(Contents, p_command)
<1> USE DEF RingInv
<1>1. GetDepth \in Nat /\ GetDepth < Capacity
  BY DistancesNow DEF PushStore, DepthInv, TypeOK
<1>2. GetDepth' = GetDepth + 1
  BY <1>1, DistanceUp DEF PushStore, GetDepth, TypeOK
<1>3. m_write \in Index /\ m_read \in Index /\ m_read \in Nat /\ m_read' = m_read
  BY RingFacts DEF TypeOK, Index, PushStore
<1>4. Slot(m_write) = Slot(m_read + GetDepth) /\ Slot(m_write) \in 0..(Capacity - 1)
  <2>1. Slot(m_write) = Slot(m_read + GetDepth)
    BY <1>3, WriteSlot DEF GetDepth
  <2>2. m_write \in Nat
    BY RingFacts, <1>3 DEF Index
  <2> QED
    BY <2>1, <2>2, SlotRange
<1>5. ASSUME NEW i \in 1..GetDepth
      PROVE  Contents'[i] = Contents[i]
  <2>1. i - 1 \in Nat /\ i - 1 < GetDepth /\ i \in Nat /\ i \in 1..(GetDepth + 1)
    BY <1>1
  <2>2. Slot(m_read + (i - 1)) # Slot(m_read + GetDepth)
    BY <2>1, <1>1, <1>3, SlotsDiffer
  <2>3. m_read + (i - 1) = m_read + i - 1
    BY <2>1, <1>3
  <2>4. Slot(m_read + i - 1) # Slot(m_write)
    BY <2>2, <2>3, <1>4
  <2>5. Contents'[i] = m_slots'[Slot(m_read + i - 1)]
    BY <2>1, <1>2, <1>3, ContentsNow
  <2>6. m_slots'[Slot(m_read + i - 1)] = m_slots[Slot(m_read + i - 1)]
    BY <2>4 DEF PushStore, TypeOK
  <2> QED
    BY <2>5, <2>6, ContentsNow
<1>6. Contents'[GetDepth + 1] = p_command
  <2>1. m_read + (GetDepth + 1) - 1 = m_read + GetDepth
    BY <1>1, <1>3
  <2>2. Contents'[GetDepth + 1] = m_slots'[Slot(m_read + (GetDepth + 1) - 1)]
    BY <1>1, <1>2, <1>3, ContentsNow
  <2>3. m_slots'[Slot(m_write)] = p_command
    BY <1>4 DEF PushStore, TypeOK
  <2> QED
    BY <2>1, <2>2, <2>3, <1>4
<1>7. /\ Contents \in Seq(Commands \cup {NoCommand}) /\ Len(Contents) = GetDepth
      /\ Contents' \in Seq(Commands \cup {NoCommand}) /\ Len(Contents') = GetDepth + 1
  BY <1>2, ContentsNow
<1> QED
  BY <1>1, <1>5, <1>6, <1>7, AppendedSeq DEF TypeOK

\* Pop, line 177, removes the oldest command.
LEMMA PopRemoves ==
  ASSUME RingInv, RingInv', Pop
  PROVE  Contents # <<>> /\ Contents' = Tail(Contents)
<1> USE DEF RingInv
<1>1. GetDepth \in Nat /\ GetDepth # 0 /\ GetDepth' = GetDepth - 1
  BY DistanceNat, DistanceDown, U32Type DEF Pop, GetDepth, DepthInv, TypeOK
<1>2. m_read \in Index /\ m_read' = U32Inc(m_read) /\ m_slots' = m_slots
  BY DEF TypeOK, Pop
<1>3. ASSUME NEW i \in 1..(GetDepth - 1)
      PROVE  Contents'[i] = Contents[i + 1]
  <2>1. i - 1 \in Nat /\ i + 1 \in 1..GetDepth /\ m_read \in Nat /\ m_read' \in Nat
    BY <1>1, <1>2, RingFacts, U32Type DEF Index
  <2>2. Slot(m_read' + (i - 1)) = Slot(m_read + (i - 1) + 1)
    BY <2>1, <1>2, ReadSlot
  <2>3. m_read' + (i - 1) = m_read' + i - 1 /\ m_read + (i - 1) + 1 = m_read + (i + 1) - 1
    BY <2>1
  <2>4. Contents'[i] = m_slots'[Slot(m_read' + i - 1)]
    BY <1>1, ContentsNow
  <2>5. Contents[i + 1] = m_slots[Slot(m_read + (i + 1) - 1)]
    BY <2>1, ContentsNow
  <2> QED
    BY <2>2, <2>3, <2>4, <2>5, <1>2
<1>4. /\ Contents \in Seq(Commands \cup {NoCommand}) /\ Len(Contents) = GetDepth
      /\ Contents' \in Seq(Commands \cup {NoCommand}) /\ Len(Contents') = GetDepth - 1
  BY <1>1, ContentsNow
<1> QED
  BY <1>1, <1>3, <1>4, TailSeq

\* The producer stores what it was given: inside Push, also while it sleeps for a
\* slot, it holds a command.
CommandInv ==
  /\ (p_op = "Push" /\ p_pc # "Idle") => p_command \in Commands
  /\ p_pc \in {"Push", "Reload", "Store"} => p_op = "Push"

LEMMA CommandStep == CommandInv /\ [Next]_vars => CommandInv'
<1> SUFFICES ASSUME CommandInv, [Next]_vars PROVE CommandInv'
  OBVIOUS
<1> USE DEF CommandInv, ProducerGoto, producerVars
<1>1. CASE PushBegin \/ PushCheck \/ PushReload \/ PushStore \/ PushWake
  BY <1>1 DEF PushBegin, PushCheck, PushReload, PushStore, PushWake
<1>2. CASE DrainBegin \/ DrainSpin \/ DrainEnd \/ Shutdown
  BY <1>2 DEF DrainBegin, DrainSpin, DrainEnd, Shutdown
<1>3. CASE SleepBegin \/ SleepFlag \/ SleepTest \/ SleepWake \/ SleepTimeout
  BY <1>3 DEF SleepBegin, SleepFlag, SleepTest, SleepEnd, SleepWake, SleepTimeout
<1>4. CASE ConsumerStep \/ Finished \/ UNCHANGED vars
  BY <1>4 DEF ConsumerStep, WaitSpin, WaitSpinShutdown, WaitSleepFlag, WaitSleepTest,
              WaitSleepShutdown, WaitAtomic, WaitAwake, Front, Pop, PopFlag, PopTarget, PopNotify,
              Finished, vars
<1> QED
  BY <1>1, <1>2, <1>3, <1>4 DEF Next, ProducerStep, ProducerCall

\* Every other step leaves the slots and both indices alone.
LEMMA OtherStepsKeepContents ==
  ASSUME [Next]_vars, ~PushStore, ~Pop
  PROVE  Contents' = Contents
<1>1. UNCHANGED <<m_slots, m_write, m_read>>
  <2> USE DEF ringVars
  <2>1. CASE ProducerStep
    BY <2>1 DEF ProducerStep, PushCheck, PushReload, PushWake, DrainSpin, SleepBegin, SleepFlag,
                SleepTest
  <2>2. CASE ProducerCall \/ SleepWake \/ SleepTimeout
    BY <2>2 DEF ProducerCall, PushBegin, DrainBegin, DrainEnd, Shutdown, SleepWake, SleepTimeout
  <2>3. CASE ConsumerStep
    BY <2>3 DEF ConsumerStep, WaitSpin, WaitSpinShutdown, WaitSleepFlag, WaitSleepTest,
                WaitSleepShutdown, WaitAtomic, WaitAwake, Front, PopFlag, PopTarget, PopNotify
  <2>4. CASE Finished \/ UNCHANGED vars
    BY <2>4 DEF Finished, vars
  <2> QED
    BY <2>1, <2>2, <2>3, <2>4 DEF Next
<1> QED
  BY <1>1 DEF Contents, GetDepth

\* The ring is a bounded first-in first-out queue for every capacity, however the
\* free-running indices wrap: a store appends the pushed command and a Pop removes
\* the oldest one.
THEOREM RingIsFifo == Safety => ImplementsFifo
<1>1. Init => Fifo!Init
  <2> SUFFICES ASSUME Init PROVE Contents = <<>>
    BY DEF Fifo!Init
  <2>1. GetDepth = 0
    BY RingFacts DEF Init, GetDepth, U32Sub
  <2> QED
    BY <2>1 DEF Contents
<1>2. Init => CommandInv
  BY DEF Init, CommandInv
<1>3. RingInv /\ RingInv' /\ CommandInv /\ [Next]_vars => [Fifo!Next]_Contents
  <2> SUFFICES ASSUME RingInv, RingInv', CommandInv, [Next]_vars PROVE [Fifo!Next]_Contents
    OBVIOUS
  <2>1. CASE PushStore
    <3>1. p_command \in Commands
      BY <2>1 DEF PushStore, CommandInv
    <3>2. Len(Contents) < Capacity /\ Contents' = Append(Contents, p_command)
      BY <2>1, StoreAppends
    <3> QED
      BY <3>1, <3>2 DEF Fifo!Next, Fifo!Enqueue
  <2>2. CASE Pop
    BY <2>2, PopRemoves DEF Fifo!Next, Fifo!Dequeue
  <2> QED
    BY <2>1, <2>2, OtherStepsKeepContents
<1> QED
  BY <1>1, <1>2, <1>3, CommandStep, RingInvariant, PTL DEF Safety, ImplementsFifo, Fifo!Spec

=============================================================================
