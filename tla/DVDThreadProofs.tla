-------------------------- MODULE DVDThreadProofs ---------------------------
(***************************************************************************)
(* Proofs about CoreTiming and the DVD thread, for all discs, delays,      *)
(* overclock factors and lengths of a slice and of a block.  Three         *)
(* inductive invariants:                                                   *)
(* TimingInv relates the slice, the downcount and the events, ReadInv the  *)
(* reads, the results and the events, and MatchInv says that each read is  *)
(* in one place.  All speak of the saved state as well: a load makes it    *)
(* the current one.                                                        *)
(***************************************************************************)
EXTENDS DVDThread, FiniteSetTheorems, FunctionTheorems, SequenceTheorems, TLAPS

IsRead(e) == e.type = "FinishRead"

\* The timer is the clock itself inside Advance and stands still in a slice.
SaneInAdvance ==
  /\ pc \in InAdvance => m_is_global_timer_sane /\ slice_length = MAX_SLICE_LENGTH
  /\ pc \in {"In", "Block"} => ~m_is_global_timer_sane

\* Between two sessions nothing is left of the first.
OffIsEmpty ==
  pc = "Off" => /\ m_event_queue = {} /\ requests = <<>>
                /\ m_result_queue = <<>> /\ m_result_map = {}

-----------------------------------------------------------------------------
\* Outside Advance no event of another thread is before the slice and no read ends within it.
QueueAhead(queue, timer, slice) ==
  \A e \in queue : (e.type = "Other" => e.time >= timer) /\ (IsRead(e) => e.time >= timer + slice)

SliceFits(slice, left) == slice <= MAX_SLICE_LENGTH /\ left >= 0 - MaxBlock

SavedFits ==
  saved \in States =>
    /\ SliceFits(saved.timing.slice_length, saved.downcount)
    /\ QueueAhead(saved.timing.events, saved.timing.global_timer, saved.timing.slice_length)

NotLate ==
  \A e \in m_event_queue : \E f \in Factors :
    /\ IsRead(e) => global_timer - e.time <= ToCycles(f, MaxBlock)
    /\ e.type = "Other" => global_timer - e.time <= MAX_SLICE_LENGTH + ToCycles(f, MaxBlock)

TimingInv ==
  "Card" \notin scenario =>
    /\ SavedFits
    /\ pc \notin InAdvance => QueueAhead(m_event_queue, global_timer, slice_length)
    /\ pc \notin InAdvance \cup InLoad => SliceFits(slice_length, downcount)
    /\ pc = "Block" => downcount >= 0
    /\ pc \in InAdvance => NotLate
    /\ pc \in InLoad => slice_length = saved.timing.slice_length

-----------------------------------------------------------------------------
\* A read that is waited for, and what answers it.
Awaited(e) == (e \in m_event_queue /\ IsRead(e)) \/ (pc = "FinishRead" /\ e = current)

Found(r) == r \in m_result_map \/ \E i \in DOMAIN m_result_queue : r = m_result_queue[i]

Answers(r, e) ==
  r.id = e.userdata.id => r.data \in {<<e.userdata.disc, e.userdata.offset>>, <<>>}

SavedReads ==
  saved \in States /\ pc # "Save" =>
    /\ \A r \in saved.results : r.id < saved.next_id
    /\ \A e \in saved.timing.events : IsRead(e) =>
         e.userdata.id < saved.next_id /\ \A r \in saved.results : Answers(r, e)

ReadInv ==
  /\ \A i \in DOMAIN requests : requests[i].id < m_next_id /\ requests[i].disc = m_disc
  /\ \A r : Found(r) => r.id < m_next_id
  /\ pc # "Load" => \A e : Awaited(e) =>
       /\ e.userdata.id < m_next_id
       /\ \A i \in DOMAIN requests :
            requests[i].id = e.userdata.id => requests[i] = e.userdata
       /\ \A r : Found(r) => Answers(r, e)
  /\ pc = "Load" => m_event_queue = saved.timing.events
  /\ pc = "Save" => m_event_queue = saved.timing.events /\ m_next_id = saved.next_id
  /\ SavedReads
  /\ pc # "Callback" => reply = NoReply
  /\ AnswersTheRead

-----------------------------------------------------------------------------
\* Lemmas: the conversions.

LEMMA FactorParts == ASSUME NEW f \in Factors PROVE f[1] \in Nat \ {0} /\ f[2] \in Nat \ {0}
BY FactorAssumption

LEMMA TruncatedIs ==
  ASSUME NEW a \in Int, NEW b \in Nat \ {0}
  PROVE  /\ Truncated(a, b) \in Int
         /\ a >= 0 => /\ Truncated(a, b) \in Nat
                      /\ b * Truncated(a, b) <= a /\ a < b * Truncated(a, b) + b
         /\ a < 0 => Truncated(a, b) = 0 - Truncated(0 - a, b)
<1>1. ASSUME NEW n \in Nat PROVE n \div b \in Nat /\ b * (n \div b) <= n /\ n < b * (n \div b) + b
  OBVIOUS
<1> QED BY <1>1 DEF Truncated

LEMMA QuotientOrder ==
  ASSUME NEW p \in Int, NEW q \in Int, NEW b \in Nat \ {0}, NEW n \in Int, NEW m \in Int,
         n <= m, b * p <= n, m < b * q + b
  PROVE  p <= q
OBVIOUS

LEMMA ToCyclesType ==
  ASSUME NEW f \in Factors, NEW n \in Int
  PROVE  /\ ToCycles(f, n) \in Int /\ ToDowncount(f, n) \in Int
         /\ n >= 0 => ToCycles(f, n) \in Nat /\ ToDowncount(f, n) \in Nat
         /\ n < 0 => ToCycles(f, n) = 0 - ToCycles(f, 0 - n)
<1> USE FactorParts
<1>1. n * f[1] \in Int /\ n * f[2] \in Int OBVIOUS
<1>2. n >= 0 => n * f[1] >= 0 /\ n * f[2] >= 0 OBVIOUS
<1>3. n < 0 => n * f[2] < 0 /\ 0 - n * f[2] = (0 - n) * f[2] OBVIOUS
<1>4. ToCycles(f, n) \in Int /\ (n >= 0 => ToCycles(f, n) \in Nat)
  BY <1>1, <1>2, TruncatedIs DEF ToCycles
<1>5. ToDowncount(f, n) \in Int /\ (n >= 0 => ToDowncount(f, n) \in Nat)
  BY <1>1, <1>2, TruncatedIs DEF ToDowncount
<1>6. n < 0 => ToCycles(f, n) = 0 - ToCycles(f, 0 - n)
  BY <1>1, <1>3, TruncatedIs DEF ToCycles
<1> QED BY <1>4, <1>5, <1>6

LEMMA TruncatedUp ==
  ASSUME NEW n \in Nat, NEW m \in Nat, NEW b \in Nat \ {0}, n <= m
  PROVE  Truncated(n, b) <= Truncated(m, b)
<1>1. Truncated(n, b) \in Int /\ b * Truncated(n, b) <= n BY TruncatedIs
<1>2. Truncated(m, b) \in Int /\ m < b * Truncated(m, b) + b BY TruncatedIs
<1> QED BY <1>1, <1>2, QuotientOrder

LEMMA ToCyclesUp ==
  ASSUME NEW f \in Factors, NEW n \in Nat, NEW m \in Nat, n <= m
  PROVE  ToCycles(f, n) <= ToCycles(f, m)
<1>1. n * f[2] \in Nat /\ m * f[2] \in Nat /\ n * f[2] <= m * f[2] BY FactorParts
<1>2. f[1] \in Nat \ {0} BY FactorParts
<1> QED BY <1>1, <1>2, TruncatedUp DEF ToCycles

\* The more is left of the slice, the less of it is over.
LEMMA ToCyclesMonotone ==
  ASSUME NEW f \in Factors, NEW n \in Int, NEW m \in Int, n <= m
  PROVE  ToCycles(f, n) <= ToCycles(f, m)
<1>1. CASE n >= 0 BY <1>1, ToCyclesUp
<1>2. CASE n < 0 /\ m >= 0 BY <1>2, ToCyclesType
<1>3. CASE m < 0
  <2>1. ToCycles(f, 0 - m) <= ToCycles(f, 0 - n) BY <1>3, ToCyclesUp
  <2> QED BY <1>3, <2>1, ToCyclesType
<1> QED BY <1>1, <1>2, <1>3

\* What a block may run past the end of the slice.
LEMMA Overrun ==
  ASSUME NEW f \in Factors, NEW n \in Int, n >= 0 - MaxBlock
  PROVE  ToCycles(f, n) >= 0 - ToCycles(f, MaxBlock) /\ ToCycles(f, MaxBlock) \in Nat
<1>1. MaxBlock \in Nat BY TicksAssumption
<1>2. ToCycles(f, MaxBlock) \in Nat BY <1>1, ToCyclesType
<1>3. ToCycles(f, 0 - MaxBlock) >= 0 - ToCycles(f, MaxBlock)
  <2>1. CASE MaxBlock = 0 BY <1>2, <2>1
  <2>2. CASE MaxBlock # 0
    <3>1. 0 - MaxBlock < 0 /\ 0 - (0 - MaxBlock) = MaxBlock /\ 0 - MaxBlock \in Int BY <1>1, <2>2
    <3> QED BY <1>2, <3>1, ToCyclesType
  <2> QED BY <2>1, <2>2
<1>4. ToCycles(f, 0 - MaxBlock) <= ToCycles(f, n) BY <1>1, ToCyclesMonotone
<1>5. ToCycles(f, n) \in Int /\ ToCycles(f, 0 - MaxBlock) \in Int BY <1>1, ToCyclesType
<1> QED BY <1>2, <1>3, <1>4, <1>5

LEMMA RoundingBound ==
  ASSUME NEW n \in Nat \ {0}, NEW d \in Nat \ {0}, NEW c \in Nat, NEW k \in Nat, NEW x \in Nat,
         d * k <= c * n, c * n < d * k + d, n * x <= k * d, k * d < n * x + n
  PROVE  x <= c /\ (c - x) * n < n + d
OBVIOUS

LEMMA RoundingNone ==
  ASSUME NEW n \in Nat \ {0}, NEW c \in Nat, NEW k \in Nat, NEW x \in Nat,
         n * k <= c * n, c * n < n * k + n, n * x <= k * n, k * n < n * x + n
  PROVE  x = c
<1>1. k <= c /\ c <= k BY QuotientOrder
<1>2. x <= k /\ k <= x BY QuotientOrder
<1> QED BY <1>1, <1>2

\* To the downcount and back: nothing is gained, and what is lost is the rounding.
LEMMA RoundTrip ==
  ASSUME NEW f \in Factors, NEW c \in Nat
  PROVE  LET back == ToCycles(f, ToDowncount(f, c)) IN
         back \in Nat /\ back <= c /\ Rounding(f, c - back)
<1> DEFINE k == ToDowncount(f, c)
           x == ToCycles(f, k)
<1>1. f[1] \in Nat \ {0} /\ f[2] \in Nat \ {0} BY FactorParts
<1>2. k \in Nat BY ToCyclesType
<1>3. x \in Nat BY <1>2, ToCyclesType
<1>4. f[2] * k <= c * f[1] /\ c * f[1] < f[2] * k + f[2]
  <2>1. c * f[1] \in Int /\ c * f[1] >= 0 BY <1>1
  <2> QED BY <1>1, <2>1, TruncatedIs DEF ToDowncount
<1>5. f[1] * x <= k * f[2] /\ k * f[2] < f[1] * x + f[1]
  <2>1. k * f[2] \in Int /\ k * f[2] >= 0 BY <1>1, <1>2
  <2> HIDE DEF k
  <2> QED BY <1>1, <2>1, TruncatedIs DEF ToCycles
<1> HIDE DEF k, x
<1>6. x <= c /\ (c - x) * f[1] < f[1] + f[2] BY <1>1, <1>2, <1>3, <1>4, <1>5, RoundingBound
<1>7. f[1] = f[2] => x = c
  <2> SUFFICES ASSUME f[1] = f[2] PROVE x = c OBVIOUS
  <2> QED BY <1>1, <1>2, <1>3, <1>4, <1>5, RoundingNone
<1>8. x \in Nat /\ x <= c /\ Rounding(f, c - x) BY <1>3, <1>6, <1>7 DEF Rounding
<1> QED BY <1>8 DEF k, x

LEMMA NoRounding == ASSUME NEW f \in Factors PROVE Rounding(f, 0)
BY FactorParts DEF Rounding

-----------------------------------------------------------------------------
\* Lemmas: the types.

TimingType ==
  /\ m_event_queue \subseteq Events /\ m_ts_queue \in Seq(Waiting) /\ m_event_fifo_id \in Nat
  /\ global_timer \in Int /\ slice_length \in Int /\ downcount \in Int
  /\ m_is_global_timer_sane \in BOOLEAN
  /\ m_config_oc_factor \in Factors /\ m_last_oc_factor \in Factors

ControlType ==
  /\ pc \in {"Out", "In", "Block", "Save", "Off"} \cup InAdvance \cup InLoad
  /\ pc = "FinishRead" => current \in Events /\ current.type = "FinishRead"
  /\ pc = "SetDisc" => current \in Events /\ current.type \in {"Eject", "Insert"}

DriveType ==
  /\ requests \in Seq(Requests) /\ m_result_queue \in Seq(Results) /\ m_result_map \subseteq Results
  /\ m_next_id \in Nat /\ m_disc \in Discs \cup {NoDisc}
  /\ reply \in Results \cup {NoReply}

SavedType == saved \in States \cup {NoState} /\ (pc \in InLoad \cup {"Save"} => saved \in States)

LEMMA TypeParts == TypeOK <=> TimingType /\ ControlType /\ DriveType /\ SavedType
BY DEF TypeOK, TimingType, ControlType, DriveType, SavedType

LEMMA TypePartsNext == TypeOK' <=> TimingType' /\ ControlType' /\ DriveType' /\ SavedType'
BY DEF TypeOK, TimingType, ControlType, DriveType, SavedType

\* What is scheduled: an event to come, whatever its time and its number will be.
Schedulable ==
  [cycles : Nat, type : {"FinishRead"}, userdata : Requests]
    \cup [cycles : Nat, type : {"Eject", "Insert"}, userdata : Discs \cup {NoDisc}]
    \cup [cycles : Nat, type : {"Other", "Card"}, userdata : {NoReply}]

LEMMA EventType ==
  ASSUME NEW e \in Schedulable, NEW base \in Int, NEW order \in Nat
  PROVE  Event(e, base, order) \in Events
BY DEF Schedulable, Event, Events

LEMMA WaitingType == Waiting \subseteq Schedulable
BY TicksAssumption DEF Waiting, Schedulable

LEMMA EnteredType ==
  ASSUME NEW s \in Seq(Schedulable), NEW base \in Int, m_event_fifo_id \in Nat
  PROVE  /\ Entered(s, base) \subseteq Events
         /\ \A e \in Entered(s, base) : \E i \in DOMAIN s :
              e.time = base + s[i].cycles /\ e.type = s[i].type /\ e.userdata = s[i].userdata
<1>1. ASSUME NEW e \in Entered(s, base)
      PROVE  /\ e \in Events
             /\ \E i \in DOMAIN s :
                  e.time = base + s[i].cycles /\ e.type = s[i].type /\ e.userdata = s[i].userdata
  <2>1. PICK i \in DOMAIN s : e = Event(s[i], base, m_event_fifo_id + i - 1)
    BY DEF Entered
  <2>2. s[i] \in Schedulable /\ m_event_fifo_id + i - 1 \in Nat OBVIOUS
  <2>3. e \in Events BY <2>1, <2>2, EventType
  <2>4. e.time = base + s[i].cycles /\ e.type = s[i].type /\ e.userdata = s[i].userdata
    BY <2>1 DEF Event
  <2> QED BY <2>3, <2>4
<1> QED BY <1>1

\* The operations of CoreTiming keep its types.
LEMMA MovedType ==
  ASSUME TimingType
  PROVE  /\ WithMoved \subseteq Events
         /\ <<>> \in Seq(Waiting) /\ m_event_fifo_id + Len(m_ts_queue) \in Nat
<1>1. m_ts_queue \in Seq(Schedulable) BY WaitingType DEF TimingType
<1>2. Entered(m_ts_queue, global_timer) \subseteq Events BY <1>1, EnteredType DEF TimingType
<1> QED BY <1>2 DEF TimingType, WithMoved

\* What of a slice is over, in ticks.
Over(factor, slice, left) == slice - ToCycles(factor, left)

\* The part that is over grows by the rounding.
Rounded(factor, before, after) == after >= before /\ Rounding(factor, after - before)

LEMMA OverType ==
  ASSUME NEW f \in Factors, NEW slice \in Int, NEW left \in Int PROVE Over(f, slice, left) \in Int
BY ToCyclesType DEF Over

LEMMA NoneRounded == ASSUME NEW f \in Factors, NEW n \in Int PROVE Rounded(f, n, n)
<1>1. n - n = 0 OBVIOUS
<1> QED BY <1>1, NoRounding DEF Rounded

\* A slice that is shortened together with its downcount.
LEMMA ForceType ==
  ASSUME TimingType, NEW c \in Nat, ForceExceptionCheck(c)
  PROVE  LET f == m_last_oc_factor IN
         /\ slice_length' \in Int /\ downcount' \in Int /\ slice_length' <= slice_length
         /\ downcount' = downcount \/ downcount' \in Nat
         /\ slice_length' <= slice_length - ToCycles(f, downcount) + c
         /\ Rounded(f, Over(f, slice_length, downcount), Over(f, slice_length', downcount'))
<1> DEFINE f == m_last_oc_factor
           left == ToCycles(f, downcount)
           back == ToCycles(f, ToDowncount(f, c))
<1>1. f \in Factors /\ slice_length \in Int /\ downcount \in Int BY DEF TimingType
<1>2. left \in Int BY <1>1, ToCyclesType
<1>3. NotNegative(c) = c BY DEF NotNegative
<1>4. IF left > c THEN slice_length' = slice_length - (left - c) /\ downcount' = ToDowncount(f, c)
                  ELSE slice_length' = slice_length /\ downcount' = downcount
  BY <1>3 DEF ForceExceptionCheck, sliceVars, DowncountToCycles, CyclesToDowncount
<1> HIDE DEF f
<1>5. CASE left > c
  <2>1. ToDowncount(f, c) \in Nat BY <1>1, ToCyclesType
  <2>2. back \in Nat /\ back <= c /\ Rounding(f, c - back) BY <1>1, RoundTrip
  <2>3. Over(f, slice_length, downcount) = slice_length - left BY DEF Over
  <2>4. slice_length' = slice_length - (left - c) /\ downcount' = ToDowncount(f, c) BY <1>4, <1>5
  <2>5. Over(f, slice_length', downcount') = slice_length - (left - c) - back BY <2>4 DEF Over
  <2> HIDE DEF left, back
  <2>6. (slice_length - (left - c) - back) - (slice_length - left) = c - back
        /\ slice_length - (left - c) - back >= slice_length - left
    BY <1>1, <1>2, <2>2
  <2>7. Rounded(f, slice_length - left, slice_length - (left - c) - back)
    BY <2>2, <2>6 DEF Rounded
  <2>8. /\ slice_length' \in Int /\ downcount' \in Int /\ slice_length' <= slice_length
        /\ downcount' \in Nat /\ slice_length' <= slice_length - left + c
    BY <1>1, <1>2, <1>5, <2>1, <2>4
  <2> QED BY <2>3, <2>5, <2>7, <2>8 DEF f, left
<1>6. CASE ~(left > c)
  <2>1. slice_length' = slice_length /\ downcount' = downcount BY <1>4, <1>6
  <2>2. Rounded(f, Over(f, slice_length, downcount), Over(f, slice_length', downcount'))
    BY <1>1, <2>1, OverType, NoneRounded
  <2>3. slice_length <= slice_length - left + c
    <3> HIDE DEF left
    <3> QED BY <1>1, <1>2, <1>6
  <2> QED BY <1>1, <2>1, <2>2, <2>3 DEF f, left
<1> QED BY <1>5, <1>6

LEMMA TicksType ==
  ASSUME TimingType
  PROVE  /\ GetTicks \in Int
         /\ m_is_global_timer_sane => GetTicks = global_timer
         /\ ~m_is_global_timer_sane =>
              GetTicks = global_timer + Over(m_last_oc_factor, slice_length, downcount)
<1>1. Over(m_last_oc_factor, slice_length, downcount) \in Int BY OverType DEF TimingType
<1>2. GetTicks = global_timer + (IF m_is_global_timer_sane THEN 0
                                 ELSE Over(m_last_oc_factor, slice_length, downcount))
  BY DEF GetTicks, Over, DowncountToCycles
<1> QED BY <1>1, <1>2 DEF TimingType

LEMMA ScheduleType ==
  ASSUME TimingType, NEW s \in Seq(Schedulable), s # <<>>, ScheduleEvents(s)
  PROVE  /\ TimingType' /\ UNCHANGED <<m_ts_queue, global_timer, m_is_global_timer_sane, factorVars>>
         /\ Rounded(m_last_oc_factor, Over(m_last_oc_factor, slice_length, downcount),
                    Over(m_last_oc_factor, slice_length', downcount'))
         /\ m_event_queue' = m_event_queue \cup Entered(s, GetTicks)
<1>1. m_event_queue' \subseteq Events BY TicksType, EnteredType DEF TimingType, ScheduleEvents
<1>2. m_event_fifo_id' \in Nat BY DEF TimingType, ScheduleEvents
<1>3. /\ slice_length' \in Int /\ downcount' \in Int
      /\ Rounded(m_last_oc_factor, Over(m_last_oc_factor, slice_length, downcount),
                 Over(m_last_oc_factor, slice_length', downcount'))
  <2>1. CASE m_is_global_timer_sane
    BY <2>1, OverType, NoneRounded DEF TimingType, ScheduleEvents, sliceVars
  <2>2. CASE ~m_is_global_timer_sane
    <3>1. PICK i \in DOMAIN s : ForceExceptionCheck(s[i].cycles) BY <2>2 DEF ScheduleEvents
    <3>2. s[i].cycles \in Nat BY DEF Schedulable
    <3> QED BY <3>1, <3>2, ForceType
  <2> QED BY <2>1, <2>2
<1>4. UNCHANGED <<m_ts_queue, global_timer, m_is_global_timer_sane, factorVars>>
  BY DEF ScheduleEvents
<1>5. m_ts_queue' \in Seq(Waiting) /\ global_timer' \in Int BY <1>4 DEF TimingType
<1>6. m_is_global_timer_sane' \in BOOLEAN BY <1>4, Zenon DEF TimingType
<1>7. m_event_queue' = m_event_queue \cup Entered(s, GetTicks) BY DEF ScheduleEvents
<1>8. m_config_oc_factor' \in Factors /\ m_last_oc_factor' \in Factors
  BY <1>4 DEF TimingType, factorVars
<1> QED BY <1>1, <1>2, <1>3, <1>4, <1>5, <1>6, <1>7, <1>8 DEF TimingType

LEMMA EndSliceType == ASSUME TimingType, RefreshConfig, EndSlice PROVE TimingType'
<1>1. m_event_queue' \subseteq Events BY MovedType DEF EndSlice
<1>2. m_ts_queue' \in Seq(Waiting) /\ m_event_fifo_id' \in Nat
  BY MovedType DEF EndSlice, MoveEvents
<1>3. ToCycles(m_last_oc_factor, downcount) \in Int BY ToCyclesType DEF TimingType
<1>4. global_timer' \in Int /\ slice_length' \in Int /\ downcount' \in Int
  BY <1>3, SliceAssumption DEF EndSlice, TimingType, DowncountToCycles
<1>5. m_config_oc_factor' \in Factors BY DEF RefreshConfig, TimingType
<1>6. m_last_oc_factor' \in Factors BY <1>5 DEF EndSlice
<1> QED BY <1>1, <1>2, <1>4, <1>5, <1>6 DEF EndSlice, TimingType

LEMMA BeginSliceType ==
  ASSUME TimingType, BeginSlice
  PROVE  /\ TimingType' /\ downcount' = ToDowncount(m_last_oc_factor, slice_length')
         /\ ~m_is_global_timer_sane' /\ slice_length' <= slice_length
         /\ slice_length >= 0 => slice_length' >= 0
         /\ \A e \in m_event_queue : slice_length' <= e.time - global_timer
         /\ UNCHANGED <<eventVars, global_timer, factorVars>>
<1>1. PICK n \in {e.time - global_timer : e \in m_event_queue} \cup {slice_length} :
        /\ n <= slice_length /\ \A e \in m_event_queue : n <= e.time - global_timer
        /\ slice_length' = n /\ downcount' = ToDowncount(m_last_oc_factor, n)
  BY DEF BeginSlice, CyclesToDowncount
<1>2. n \in Int /\ (slice_length >= 0 => n >= 0)
  <2>1. \A e \in m_event_queue : e.time \in Int BY DEF TimingType, Events
  <2>2. \A e \in m_event_queue : ~(e.time <= global_timer) BY DEF BeginSlice, Due
  <2> QED BY <2>1, <2>2 DEF TimingType
<1>3. ToDowncount(m_last_oc_factor, n) \in Int BY <1>2, ToCyclesType DEF TimingType
<1>4. UNCHANGED <<eventVars, global_timer, factorVars>> /\ m_is_global_timer_sane' = FALSE
  BY DEF BeginSlice
<1>5. TimingType' BY <1>1, <1>2, <1>3, <1>4 DEF TimingType, eventVars, factorVars
<1> QED BY <1>1, <1>2, <1>4, <1>5

LEMMA TimingFrame == ASSUME TimingType, UNCHANGED timingVars PROVE TimingType'
BY DEF TimingType, timingVars, eventVars, clockVars, factorVars, sliceVars

LEMMA ChargeType == ASSUME TimingType, NEW n \in Int, ChargeBlock(n) PROVE TimingType'
BY DEF TimingType, ChargeBlock, eventVars, factorVars

LEMMA DriveFrame == ASSUME DriveType, UNCHANGED <<dvdVars, reply>> PROVE DriveType'
BY DEF DriveType, dvdVars

\* The results of the queue, set aside.
LEMMA AllResultsType == ASSUME DriveType PROVE AllResults \subseteq Results
BY DEF DriveType, AllResults

-----------------------------------------------------------------------------
\* The types are kept by every step.
LEMMA InitType == Init => TypeOK
<1> SUFFICES ASSUME Init PROVE TypeOK OBVIOUS
<1>1. TimingType BY SliceAssumption DEF Init, TimingInit, TimingType
<1>2. ControlType BY DEF Init, ControlType
<1>3. DriveType BY DiscAssumption DEF Init, DriveType
<1>4. SavedType BY DEF Init, SavedType, InLoad
<1> QED BY <1>1, <1>2, <1>3, <1>4, TypeParts

LEMMA SliceStepType ==
  ASSUME TypeOK, Advance \/ EndAdvance \/ StartBlock \/ IdleLoop \/ EndBlock \/ Leave
  PROVE  TypeOK'
<1> USE DEF Advance, EndAdvance, StartBlock, IdleLoop, EndBlock, Leave
<1>0. TimingType /\ ControlType /\ DriveType /\ SavedType BY TypeParts
<1>1. TimingType'
  <2>1. CASE Advance BY <1>0, <2>1, EndSliceType
  <2>2. CASE EndAdvance BY <1>0, <2>2, BeginSliceType
  <2>3. CASE StartBlock \/ Leave BY <1>0, <2>3, TimingFrame
  <2>4. CASE IdleLoop BY <1>0, <2>4, ChargeType DEF Idle, TimingType
  <2>5. CASE EndBlock
    <3>1. PICK n \in 1 .. MaxBlock : ChargeBlock(n) BY <2>5
    <3> QED BY <1>0, <3>1, ChargeType, TicksAssumption
  <2> QED BY <2>1, <2>2, <2>3, <2>4, <2>5
<1>2. ControlType' BY <1>0 DEF ControlType, InAdvance
<1>3. DriveType' BY <1>0, DriveFrame
<1>4. SavedType' BY <1>0 DEF SavedType, InLoad
<1> QED BY <1>1, <1>2, <1>3, <1>4, TypePartsNext

LEMMA StartReadType ==
  ASSUME TypeOK, NEW o \in Offsets, NEW t \in ReadTicks, StartRead(o, t) PROVE TypeOK'
<1> USE DEF StartRead
<1>0. TimingType /\ ControlType /\ DriveType /\ SavedType BY TypeParts
<1> DEFINE request == Request(m_next_id, o)
           event == [cycles |-> t, type |-> "FinishRead", userdata |-> request]
<1>1. request \in Requests BY <1>0 DEF DriveType, Request, Requests
<1>2. event \in Schedulable BY <1>1, TicksAssumption DEF Schedulable
<1>3. <<event>> \in Seq(Schedulable) /\ <<event>> # <<>> BY <1>2
<1>4. ScheduleEvents(<<event>>) OBVIOUS
<1>5. TimingType' BY <1>0, <1>3, <1>4, ScheduleType
<1>6. ControlType' BY <1>0 DEF ControlType
<1>7. DriveType'
  <2>1. requests' \in Seq(Requests) BY <1>0, <1>1 DEF DriveType
  <2>2. m_next_id' \in Nat BY <1>0 DEF DriveType
  <2> QED BY <1>0, <2>1, <2>2 DEF DriveType
<1>8. SavedType' BY <1>0 DEF SavedType
<1> QED BY <1>5, <1>6, <1>7, <1>8, TypePartsNext

LEMMA CallbackType ==
  ASSUME TypeOK, (\E e \in m_event_queue : RunEvent(e)) \/ FinishRead \/ Return PROVE TypeOK'
<1>0. TimingType /\ ControlType /\ DriveType /\ SavedType BY TypeParts
<1>1. ASSUME NEW e \in m_event_queue, RunEvent(e) PROVE TypeOK'
  <2> USE <1>1 DEF RunEvent
  <2>1. TimingType'
    BY <1>0 DEF PopEvent, TimingType, clockVars, factorVars, sliceVars
  <2>2. ControlType'
    <3>1. e \in Events BY <1>0 DEF TimingType
    <3> QED BY <3>1 DEF ControlType, InAdvance
  <2>3. DriveType' BY <1>0, DriveFrame
  <2>4. SavedType' BY <1>0 DEF SavedType, InLoad
  <2> QED BY <2>1, <2>2, <2>3, <2>4, TypePartsNext
<1>2. CASE Return
  <2> USE <1>2 DEF Return
  <2>1. TimingType' BY <1>0, TimingFrame
  <2>2. ControlType' BY DEF ControlType, InAdvance
  <2>3. DriveType' BY <1>0 DEF DriveType, dvdVars
  <2>4. SavedType' BY <1>0 DEF SavedType, InLoad
  <2> QED BY <2>1, <2>2, <2>3, <2>4, TypePartsNext
<1>3. CASE FinishRead
  <2> USE <1>3 DEF FinishRead
  <2>1. TimingType' BY <1>0, TimingFrame
  <2>2. ControlType' BY <1>0 DEF ControlType, InAdvance
  <2>3. DriveType'
    <3>1. m_result_queue # <<>> =>
            Head(m_result_queue) \in Results /\ Tail(m_result_queue) \in Seq(Results)
      BY <1>0 DEF DriveType
    <3>2. m_result_queue' \in Seq(Results) BY <1>0, <3>1 DEF DriveType
    <3>3. m_result_map' \subseteq Results BY <1>0, <3>1 DEF DriveType, Emplace
    <3>4. reply' \in Results \cup {NoReply} BY <1>0, <3>1 DEF DriveType
    <3> QED BY <1>0, <3>2, <3>3, <3>4 DEF DriveType
  <2>4. SavedType' BY <1>0 DEF SavedType, InLoad
  <2> QED BY <2>1, <2>2, <2>3, <2>4, TypePartsNext
<1> QED BY <1>1, <1>2, <1>3

LEMMA DiscType ==
  ASSUME TypeOK, (\E d \in Discs : ChangeDisc(d)) \/ SetDisc \/ InsertFails \/ CancelEvents
  PROVE  TypeOK'
<1>0. TimingType /\ ControlType /\ DriveType /\ SavedType BY TypeParts
<1>1. ASSUME NEW d \in Discs, ChangeDisc(d) PROVE TypeOK'
  <2> USE <1>1 DEF ChangeDisc
  <2> DEFINE s == <<[cycles |-> 0, type |-> "Eject", userdata |-> NoDisc],
                    [cycles |-> Second, type |-> "Insert", userdata |-> d]>>
  <2>1. s \in Seq(Schedulable) /\ s # <<>> BY TicksAssumption DEF Schedulable
  <2>2. ScheduleEvents(s) OBVIOUS
  <2>3. TimingType' BY <1>0, <2>1, <2>2, ScheduleType
  <2>4. ControlType' /\ SavedType' BY <1>0 DEF ControlType, SavedType
  <2>5. DriveType' BY <1>0, DriveFrame
  <2> QED BY <2>3, <2>4, <2>5, TypePartsNext
<1>2. CASE SetDisc \/ InsertFails
  <2> USE <1>2 DEF SetDisc, InsertFails
  <2>1. TimingType' BY <1>0, TimingFrame
  <2>2. ControlType' /\ SavedType' BY <1>0 DEF ControlType, SavedType, InAdvance, InLoad
  <2>3. DriveType'
    <3>1. CASE InsertFails BY <1>0, <3>1, DriveFrame
    <3>2. CASE SetDisc
      <4>1. current.userdata \in Discs \cup {NoDisc} BY <1>0, <3>2 DEF ControlType, Events
      <4> QED BY <1>0, <3>2, <4>1 DEF DriveType
    <3> QED BY <3>1, <3>2
  <2> QED BY <2>1, <2>2, <2>3, TypePartsNext
<1>3. CASE CancelEvents
  <2> USE <1>3 DEF CancelEvents
  <2>1. TimingType'
    BY <1>0, MovedType
    DEF TimingType, RemoveEvent, RemoveAllEvents, MoveEvents, clockVars, factorVars, sliceVars
  <2>2. ControlType' /\ SavedType' BY <1>0 DEF ControlType, SavedType
  <2>3. DriveType' BY <1>0, DriveFrame
  <2> QED BY <2>1, <2>2, <2>3, TypePartsNext
<1> QED BY <1>1, <1>2, <1>3

LEMMA StateType ==
  ASSUME TypeOK, Save \/ SaveDrive \/ Load \/ LoadDrive \/ LoadCards \/ LoadCpu PROVE TypeOK'
<1>0. TimingType /\ ControlType /\ DriveType /\ SavedType BY TypeParts
<1>1. CASE Save
  <2> USE <1>1 DEF Save
  <2>1. TimingType' BY <1>0, MovedType DEF TimingType, SaveTiming, MoveEvents, clockVars, factorVars, sliceVars
  <2>2. ControlType' BY DEF ControlType
  <2>3. DriveType' BY <1>0, DriveFrame
  <2>4. TimingState \in [slice_length : Int, global_timer : Int, oc_factor : Factors, fifo_id : Nat,
                         events : SUBSET Events]
    BY <1>0, MovedType DEF TimingState, TimingType
  <2>5. saved' \in States BY <1>0, <2>4 DEF States, TimingType, DriveType
  <2> QED BY <2>1, <2>2, <2>3, <2>5, TypePartsNext DEF SavedType
<1>2. CASE SaveDrive
  <2> USE <1>2 DEF SaveDrive
  <2>1. TimingType' BY <1>0, TimingFrame
  <2>2. ControlType' BY DEF ControlType
  <2>3. AllResults \subseteq Results BY <1>0, AllResultsType
  <2>4. DriveType' BY <1>0, <2>3 DEF DriveType
  <2>5. saved' \in States
    <3>1. saved \in States BY <1>0 DEF SavedType
    <3> QED BY <2>3, <3>1 DEF States
  <2> QED BY <2>1, <2>2, <2>4, <2>5, TypePartsNext DEF SavedType
<1>3. CASE Load \/ LoadDrive \/ LoadCards \/ LoadCpu
  <2> USE <1>3 DEF Load, LoadDrive, LoadCards, LoadCpu
  <2>1. saved \in States BY <1>0 DEF SavedType, InLoad
  <2>2. SavedType' BY <2>1 DEF SavedType
  <2>3. ControlType' BY DEF ControlType, InLoad
  <2>4. DriveType'
    <3>1. CASE LoadDrive BY <1>0, <2>1, <3>1 DEF DriveType, States
    <3> QED BY <1>0, <3>1, DriveFrame
  <2>5. TimingType'
    <3>1. CASE Load
      <4>1. m_ts_queue' \in Seq(Waiting) /\ m_event_fifo_id' \in Nat
        BY <1>0, <2>1, <3>1, MovedType DEF LoadTiming, TimingType, States
      <4> QED BY <1>0, <2>1, <3>1, <4>1 DEF LoadTiming, TimingType, States
    <3>2. CASE LoadDrive BY <1>0, <3>2, TimingFrame
    <3>3. CASE LoadCards
      <4> DEFINE s == <<[cycles |-> 0, type |-> "Card", userdata |-> NoReply],
                        [cycles |-> Second, type |-> "Card", userdata |-> NoReply]>>
      <4>1. s \in Seq(Schedulable) /\ s # <<>> BY TicksAssumption DEF Schedulable
      <4>2. ScheduleEvents(s) \/ UNCHANGED timingVars BY <3>3
      <4> QED BY <1>0, <4>1, <4>2, ScheduleType, TimingFrame
    <3>4. CASE LoadCpu BY <1>0, <2>1, <3>4 DEF TimingType, States, eventVars, factorVars
    <3> QED BY <3>1, <3>2, <3>3, <3>4
  <2> QED BY <2>2, <2>3, <2>4, <2>5, TypePartsNext
<1> QED BY <1>1, <1>2, <1>3

LEMMA SessionType ==
  ASSUME TypeOK, Stop \/ Start \/ ProcessReadRequest \/ OtherThread PROVE TypeOK'
<1>0. TimingType /\ ControlType /\ DriveType /\ SavedType BY TypeParts
<1>1. CASE Stop
  <2> USE <1>1 DEF Stop
  <2>1. TimingType' BY <1>0, MovedType DEF TimingType, MoveEvents, clockVars, factorVars, sliceVars
  <2>2. ControlType' /\ SavedType' BY <1>0 DEF ControlType, SavedType, InLoad
  <2>3. DriveType' BY <1>0 DEF DriveType
  <2> QED BY <2>1, <2>2, <2>3, TypePartsNext
<1>2. CASE Start
  <2> USE <1>2 DEF Start
  <2>1. TimingType'
    <3>1. m_config_oc_factor' \in Factors BY <1>0 DEF RefreshConfig, TimingType
    <3>2. downcount' \in Int
      BY <1>0, SliceAssumption, ToCyclesType DEF CyclesToDowncount, TimingType
    <3> QED BY <1>0, <3>1, <3>2, SliceAssumption DEF TimingType
  <2>2. ControlType' /\ SavedType' BY <1>0 DEF ControlType, SavedType, InLoad
  <2>3. DriveType' BY <1>0 DEF DriveType
  <2> QED BY <2>1, <2>2, <2>3, TypePartsNext
<1>3. CASE ProcessReadRequest
  <2> USE <1>3 DEF ProcessReadRequest
  <2>1. TimingType' BY <1>0, TimingFrame
  <2>2. ControlType' /\ SavedType' BY <1>0 DEF ControlType, SavedType
  <2>3. Head(requests) \in Requests /\ requests' \in Seq(Requests) BY <1>0 DEF DriveType
  <2>4. PICK data \in {<<m_disc, Head(requests).offset>>, <<>>} :
          m_result_queue' = Append(m_result_queue, [id |-> Head(requests).id, data |-> data])
    OBVIOUS
  <2>5. data \in ((Discs \cup {NoDisc}) \X Offsets) \cup {<<>>}
    BY <1>0, <2>3, <2>4 DEF DriveType, Requests
  <2>6. [id |-> Head(requests).id, data |-> data] \in Results
    BY <2>3, <2>5 DEF Requests, Results
  <2>7. DriveType' BY <1>0, <2>3, <2>4, <2>6 DEF DriveType
  <2> QED BY <2>1, <2>2, <2>7, TypePartsNext
<1>4. CASE OtherThread
  <2> USE <1>4 DEF OtherThread
  <2>1. TimingType'
    <3>1. PICK c \in OtherTicks :
            ScheduleEventFromOther([cycles |-> c, type |-> "Other", userdata |-> NoReply])
      OBVIOUS
    <3>2. m_ts_queue' \in Seq(Waiting)
      BY <1>0, <3>1 DEF TimingType, ScheduleEventFromOther, Waiting
    <3> QED BY <1>0, <3>1, <3>2 DEF TimingType, ScheduleEventFromOther, clockVars, factorVars, sliceVars
  <2>2. ControlType' /\ SavedType' BY <1>0 DEF ControlType, SavedType
  <2>3. DriveType' BY <1>0, DriveFrame
  <2> QED BY <2>1, <2>2, <2>3, TypePartsNext
<1> QED BY <1>1, <1>2, <1>3, <1>4

LEMMA TypeStep == TypeOK /\ [Next]_vars => TypeOK'
<1> SUFFICES ASSUME TypeOK, [Next]_vars PROVE TypeOK' OBVIOUS
<1>1. CASE UNCHANGED vars
  <2>1. UNCHANGED <<timingVars, dvdVars, reply>> BY <1>1 DEF vars
  <2>2. UNCHANGED <<pc, current, saved>> BY <1>1 DEF vars
  <2>3. TimingType' BY <2>1, TypeParts, TimingFrame
  <2>4. DriveType' BY <2>1, TypeParts, DriveFrame
  <2>5. ControlType' /\ SavedType' BY <2>2, TypeParts DEF ControlType, SavedType
  <2> QED BY <2>3, <2>4, <2>5, TypePartsNext
<1> QED
  BY <1>1, SliceStepType, StartReadType, CallbackType, DiscType, StateType, SessionType
  DEF Next, CpuThread

\* The events, the requests, the results and the saved state are what CoreTiming.cpp and
\* DVDThread.cpp declare, whatever the order of steps.
THEOREM TypeCorrect == Spec => []TypeOK
BY InitType, TypeStep, PTL DEF Spec

-----------------------------------------------------------------------------
\* Lemmas: the clock.

LEMMA InitSane == Init => SaneInAdvance
BY DEF Init, TimingInit, SaneInAdvance, InAdvance

LEMMA SaneStep == SaneInAdvance /\ [Next]_vars => SaneInAdvance'
<1> SUFFICES ASSUME SaneInAdvance, [Next]_vars PROVE SaneInAdvance' OBVIOUS
<1> USE DEF SaneInAdvance, InAdvance
<1>1. CASE UNCHANGED vars BY <1>1 DEF vars, timingVars, clockVars, sliceVars
<1>2. CASE Advance \/ EndAdvance BY <1>2 DEF Advance, EndAdvance, EndSlice, BeginSlice
<1>3. CASE StartBlock \/ IdleLoop \/ EndBlock \/ Leave
  BY <1>3 DEF StartBlock, IdleLoop, EndBlock, Leave, Idle, ChargeBlock, timingVars, clockVars, sliceVars
<1>4. ASSUME NEW o \in Offsets, NEW t \in ReadTicks, StartRead(o, t) PROVE SaneInAdvance'
  BY <1>4 DEF StartRead, ScheduleEvents, sliceVars
<1>5. ASSUME NEW e \in m_event_queue, RunEvent(e) PROVE SaneInAdvance'
  BY <1>5 DEF RunEvent, PopEvent, clockVars, sliceVars
<1>6. CASE FinishRead \/ Return \/ SetDisc \/ InsertFails
  BY <1>6 DEF FinishRead, Return, SetDisc, InsertFails, timingVars, clockVars, sliceVars
<1>7. CASE CancelEvents BY <1>7 DEF CancelEvents, RemoveEvent, RemoveAllEvents, clockVars, sliceVars
<1>8. ASSUME NEW d \in Discs, ChangeDisc(d) PROVE SaneInAdvance'
  BY <1>8 DEF ChangeDisc, ScheduleEvents, sliceVars
<1>9. CASE Save \/ SaveDrive BY <1>9 DEF Save, SaveDrive
<1>10. CASE Load \/ LoadDrive \/ LoadCards \/ LoadCpu
  BY <1>10 DEF Load, LoadDrive, LoadCards, LoadCpu
<1>11. CASE Stop \/ Start BY <1>11 DEF Stop, Start
<1>12. CASE ProcessReadRequest BY <1>12 DEF ProcessReadRequest, timingVars, clockVars, sliceVars
<1>13. CASE OtherThread
  BY <1>13 DEF OtherThread, ScheduleEventFromOther, clockVars, sliceVars
<1> QED
  BY <1>1, <1>2, <1>3, <1>4, <1>5, <1>6, <1>7, <1>8, <1>9, <1>10, <1>11, <1>12, <1>13
  DEF Next, CpuThread

\* The clock moves by the rounding, or a block ran, or one of the steps that set it was taken.
ClockRounds == GetTicks' >= GetTicks /\ Rounding(m_last_oc_factor', GetTicks' - GetTicks)

ClockStep ==
  \/ /\ GetTicks' >= GetTicks
     /\ \/ pc = "Block" /\ UNCHANGED eventVars
        \/ Rounding(m_last_oc_factor', GetTicks' - GetTicks)
  \/ "Load" \in {pc, pc'}
  \/ pc \in {"LoadCpu", "Off"}
  \/ pc = "Out" /\ m_is_global_timer_sane

LEMMA SameTicks ==
  ASSUME TimingType, m_last_oc_factor' \in Factors, GetTicks' = GetTicks PROVE ClockRounds
<1>1. GetTicks \in Int BY TicksType
<1>2. GetTicks' >= GetTicks /\ GetTicks' - GetTicks = 0 BY <1>1
<1> QED BY <1>2, NoRounding DEF ClockRounds

LEMMA SameClock == ASSUME TimingType, UNCHANGED clockVars PROVE ClockRounds
<1>1. GetTicks' = GetTicks BY DEF clockVars, factorVars, sliceVars, GetTicks, DowncountToCycles
<1>2. m_last_oc_factor' \in Factors BY DEF TimingType, clockVars, factorVars
<1> QED BY <1>1, <1>2, SameTicks

LEMMA ClockScheduled ==
  ASSUME TimingType, NEW s \in Seq(Schedulable), s # <<>>, ScheduleEvents(s)
  PROVE  ClockRounds
<1> DEFINE f == m_last_oc_factor
           a == Over(f, slice_length, downcount)
           b == Over(f, slice_length', downcount')
<1>1. TimingType' /\ UNCHANGED <<global_timer, m_is_global_timer_sane, m_last_oc_factor>>
  BY ScheduleType DEF factorVars
<1>2. Rounded(f, a, b) BY ScheduleType
<1>3. f \in Factors /\ a \in Int /\ b \in Int /\ global_timer \in Int
  BY <1>1, OverType DEF TimingType
<1>4. CASE m_is_global_timer_sane
  <2>1. GetTicks = global_timer BY <1>4, TicksType
  <2>2. GetTicks' = global_timer' BY <1>1, <1>4 DEF GetTicks, TimingType
  <2> QED BY <1>1, <1>3, <2>1, <2>2, SameTicks
<1>5. CASE ~m_is_global_timer_sane
  <2>1. GetTicks = global_timer + a BY <1>5, TicksType
  <2>2. GetTicks' = global_timer + b BY <1>1, <1>5 DEF GetTicks, Over, DowncountToCycles
  <2> HIDE DEF a, b
  <2>3. GetTicks' - GetTicks = b - a /\ (b >= a => GetTicks' >= GetTicks) BY <1>3, <2>1, <2>2
  <2> QED BY <1>1, <1>2, <2>3 DEF Rounded, ClockRounds
<1> QED BY <1>4, <1>5

LEMMA ClockSteps == TypeOK /\ SaneInAdvance /\ [Next]_vars => ClockStep
<1> SUFFICES ASSUME TypeOK, SaneInAdvance, [Next]_vars PROVE ClockStep OBVIOUS
<1> USE DEF ClockStep, ClockRounds
<1>0. TimingType BY TypeParts
<1>1. CASE UNCHANGED vars BY <1>1, <1>0, SameClock DEF vars, timingVars
<1>2. CASE Advance
  <2>1. CASE m_is_global_timer_sane
    BY <1>2, <2>1 DEF Advance, SaneInAdvance
  <2>2. CASE ~m_is_global_timer_sane
    <3>1. TimingType' BY <1>0, <1>2, EndSliceType DEF Advance
    <3>2. GetTicks' = global_timer' BY <1>2, <3>1 DEF Advance, EndSlice, GetTicks, TimingType
    <3>3. GetTicks = global_timer + Over(m_last_oc_factor, slice_length, downcount)
      BY <1>0, <2>2, TicksType
    <3>4. GetTicks' = GetTicks
      BY <1>2, <3>2, <3>3 DEF Advance, EndSlice, Over, DowncountToCycles
    <3> QED BY <1>0, <3>1, <3>4, SameTicks DEF TimingType, ClockRounds
  <2> QED BY <2>1, <2>2
<1>3. CASE EndAdvance
  <2> DEFINE f == m_last_oc_factor
             n == slice_length'
             back == ToCycles(f, ToDowncount(f, n))
  <2>1. m_is_global_timer_sane /\ slice_length = MAX_SLICE_LENGTH
    BY <1>3 DEF EndAdvance, SaneInAdvance, InAdvance
  <2>2. /\ TimingType' /\ downcount' = ToDowncount(f, n)
        /\ slice_length >= 0 => n >= 0
        /\ ~m_is_global_timer_sane' /\ global_timer' = global_timer /\ m_last_oc_factor' = f
    BY <1>0, <1>3, BeginSliceType DEF EndAdvance, factorVars
  <2>3. n \in Nat /\ f \in Factors /\ global_timer \in Int
    BY <1>0, <2>1, <2>2, SliceAssumption DEF TimingType
  <2>4. GetTicks = global_timer BY <1>0, <2>1, TicksType
  <2>5. GetTicks' = global_timer + (n - back) BY <2>2 DEF GetTicks, DowncountToCycles
  <2>6. back \in Nat /\ back <= n /\ Rounding(f, n - back) BY <2>3, RoundTrip
  <2> HIDE DEF back
  <2> HIDE DEF n
  <2>7. GetTicks' >= GetTicks /\ GetTicks' - GetTicks = n - back BY <2>3, <2>4, <2>5, <2>6
  <2> QED BY <2>2, <2>6, <2>7
<1>4. CASE StartBlock \/ Leave BY <1>0, <1>4, SameClock DEF StartBlock, Leave, timingVars
<1>5. CASE IdleLoop \/ EndBlock
  <2>1. /\ UNCHANGED <<eventVars, global_timer, m_is_global_timer_sane, m_last_oc_factor, slice_length>>
        /\ pc = "Block"
    BY <1>5 DEF IdleLoop, EndBlock, Idle, ChargeBlock, factorVars
  <2>2. downcount \in Int /\ downcount' \in Int /\ downcount' <= downcount
    <3>1. CASE IdleLoop BY <1>0, <3>1 DEF IdleLoop, Idle, ChargeBlock, TimingType
    <3>2. CASE EndBlock
      <4>1. PICK n \in 1 .. MaxBlock : downcount' = downcount - n
        BY <3>2 DEF EndBlock, ChargeBlock
      <4> QED BY <1>0, <4>1, TicksAssumption DEF TimingType
    <3> QED BY <1>5, <3>1, <3>2
  <2>3. ~m_is_global_timer_sane BY <2>1 DEF SaneInAdvance
  <2>4. GetTicks = global_timer + (slice_length - ToCycles(m_last_oc_factor, downcount))
    BY <2>3 DEF GetTicks, DowncountToCycles
  <2>5. GetTicks' = global_timer + (slice_length - ToCycles(m_last_oc_factor, downcount'))
    BY <2>1, <2>3 DEF GetTicks, DowncountToCycles
  <2>6. /\ ToCycles(m_last_oc_factor, downcount') <= ToCycles(m_last_oc_factor, downcount)
        /\ ToCycles(m_last_oc_factor, downcount') \in Int
        /\ ToCycles(m_last_oc_factor, downcount) \in Int
    BY <1>0, <2>2, ToCyclesMonotone, ToCyclesType DEF TimingType
  <2>7. GetTicks' >= GetTicks BY <1>0, <2>4, <2>5, <2>6 DEF TimingType
  <2> QED BY <2>1, <2>7
<1>6. ASSUME NEW o \in Offsets, NEW t \in ReadTicks, StartRead(o, t) PROVE ClockStep
  <2> DEFINE event == [cycles |-> t, type |-> "FinishRead", userdata |-> Request(m_next_id, o)]
  <2>1. <<event>> \in Seq(Schedulable) /\ <<event>> # <<>>
    BY <1>6, TypeParts, TicksAssumption DEF StartRead, DriveType, Request, Requests, Schedulable
  <2>2. ScheduleEvents(<<event>>) BY <1>6 DEF StartRead
  <2> QED BY <1>0, <2>1, <2>2, ClockScheduled
<1>7. ASSUME NEW e \in m_event_queue, RunEvent(e) PROVE ClockStep
  BY <1>7, <1>0, SameClock DEF RunEvent, PopEvent
<1>8. CASE FinishRead \/ Return \/ SetDisc \/ InsertFails
  BY <1>8, <1>0, SameClock DEF FinishRead, Return, SetDisc, InsertFails, timingVars
<1>9. CASE CancelEvents BY <1>9, <1>0, SameClock DEF CancelEvents, RemoveEvent, RemoveAllEvents
<1>10. ASSUME NEW d \in Discs, ChangeDisc(d) PROVE ClockStep
  <2> DEFINE s == <<[cycles |-> 0, type |-> "Eject", userdata |-> NoDisc],
                    [cycles |-> Second, type |-> "Insert", userdata |-> d]>>
  <2>1. s \in Seq(Schedulable) /\ s # <<>> BY TicksAssumption DEF Schedulable
  <2>2. ScheduleEvents(s) BY <1>10 DEF ChangeDisc
  <2> QED BY <1>0, <2>1, <2>2, ClockScheduled
<1>11. CASE Save \/ SaveDrive BY <1>11, <1>0, SameClock DEF Save, SaveTiming, SaveDrive, timingVars
<1>12. CASE Load \/ LoadDrive \/ LoadCpu BY <1>12 DEF Load, LoadDrive, LoadCpu
<1>13. CASE LoadCards
  <2> DEFINE s == <<[cycles |-> 0, type |-> "Card", userdata |-> NoReply],
                    [cycles |-> Second, type |-> "Card", userdata |-> NoReply]>>
  <2>1. s \in Seq(Schedulable) /\ s # <<>> BY TicksAssumption DEF Schedulable
  <2>2. ScheduleEvents(s) \/ UNCHANGED timingVars BY <1>13 DEF LoadCards
  <2> QED BY <1>0, <2>1, <2>2, ClockScheduled, SameClock DEF timingVars
<1>14. CASE Stop \/ Start BY <1>14, <1>0, SameClock DEF Stop, Start
<1>15. CASE ProcessReadRequest \/ OtherThread
  BY <1>15, <1>0, SameClock DEF ProcessReadRequest, OtherThread, ScheduleEventFromOther, timingVars
<1> QED
  BY <1>1, <1>2, <1>3, <1>4, <1>5, <1>6, <1>7, <1>8, <1>9, <1>10, <1>11, <1>12, <1>13, <1>14, <1>15
  DEF Next, CpuThread

\* The clock the game reads (CoreTimingManager::GetTicks) never goes back and moves with the cycles
\* the CPU executes or skips, but for what the truncation of CyclesToDowncount and
\* DowncountToCycles loses: less than one tick and one cycle, and nothing without overclock.  For
\* slices and blocks of any length and factors that change from slice to slice.
THEOREM ClockCorrect == Spec => ClockKeepsTime
<1>1. TypeOK /\ SaneInAdvance /\ [Next]_vars => [ClockStep]_vars BY ClockSteps
<1>2. Init => TypeOK /\ SaneInAdvance BY InitType, InitSane
<1>3. TypeOK /\ SaneInAdvance /\ [Next]_vars => TypeOK' /\ SaneInAdvance' BY TypeStep, SaneStep
<1> QED BY <1>1, <1>2, <1>3, PTL DEF Spec, ClockKeepsTime, ClockStep

-----------------------------------------------------------------------------
\* Lemmas: the slices and the events.

LEMMA EventTimes == ASSUME NEW e \in Events PROVE e.time \in Int
BY DEF Events

\* Reads scheduled in a slice end it in time, and nothing the CPU thread schedules is from
\* another thread.
LEMMA ScheduleTiming ==
  ASSUME TimingType, NEW s \in Seq(Schedulable), s # <<>>, ScheduleEvents(s),
         \A i \in DOMAIN s : s[i].type # "Other",
         m_is_global_timer_sane => \A i \in DOMAIN s : ~IsRead(s[i]),
         QueueAhead(m_event_queue, global_timer, slice_length)
  PROVE  QueueAhead(m_event_queue', global_timer', slice_length')
<1> DEFINE left == ToCycles(m_last_oc_factor, downcount)
<1>0. /\ TimingType' /\ UNCHANGED global_timer
      /\ m_event_queue' = m_event_queue \cup Entered(s, GetTicks)
  BY ScheduleType
<1>1. /\ slice_length \in Int /\ slice_length' \in Int /\ global_timer \in Int /\ left \in Int
      /\ \A i \in DOMAIN s : s[i].cycles \in Nat
  <2>1. left \in Int BY ToCyclesType DEF TimingType
  <2>2. \A i \in DOMAIN s : s[i].cycles \in Nat BY DEF Schedulable
  <2> QED BY <1>0, <2>1, <2>2 DEF TimingType
<1>2. slice_length' <= slice_length
      /\ (~m_is_global_timer_sane => \A i \in DOMAIN s : slice_length' <= slice_length - left + s[i].cycles)
  <2>1. CASE m_is_global_timer_sane BY <1>1, <2>1 DEF ScheduleEvents, sliceVars
  <2>2. CASE ~m_is_global_timer_sane
    <3>1. PICK i \in DOMAIN s : /\ \A j \in DOMAIN s : s[i].cycles <= s[j].cycles
                                /\ ForceExceptionCheck(s[i].cycles)
      BY <2>2 DEF ScheduleEvents
    <3>2. slice_length' <= slice_length /\ slice_length' <= slice_length - left + s[i].cycles
      BY <1>1, <3>1, ForceType
    <3> HIDE DEF left
    <3> QED BY <1>1, <3>1, <3>2
  <2> QED BY <2>1, <2>2
<1> DEFINE Ahead(e) == /\ e.type = "Other" => e.time >= global_timer'
                       /\ IsRead(e) => e.time >= global_timer' + slice_length'
<1>3. ASSUME NEW e \in m_event_queue PROVE Ahead(e)
  <2>1. e.time \in Int BY EventTimes DEF TimingType
  <2> QED BY <1>0, <1>1, <1>2, <2>1 DEF QueueAhead
<1>4. ASSUME NEW e \in Entered(s, GetTicks) PROVE Ahead(e)
  <2>1. PICK i \in DOMAIN s : e.time = GetTicks + s[i].cycles /\ e.type = s[i].type
    BY TicksType, EnteredType DEF TimingType
  <2>2. e.type # "Other" /\ (IsRead(e) <=> IsRead(s[i])) BY <2>1 DEF IsRead
  <2>3. CASE m_is_global_timer_sane BY <2>2, <2>3
  <2>4. CASE ~m_is_global_timer_sane
    <3>1. GetTicks = global_timer + (slice_length - left) BY <2>4, TicksType DEF Over
    <3>2. slice_length' <= slice_length - left + s[i].cycles /\ s[i].cycles \in Nat
      BY <1>1, <1>2, <2>4
    <3> HIDE DEF left
    <3>3. e.time >= global_timer + slice_length' BY <1>1, <2>1, <3>1, <3>2
    <3> QED BY <1>0, <2>2, <3>3
  <2> QED BY <2>3, <2>4
<1> QED BY <1>0, <1>3, <1>4 DEF QueueAhead

LEMMA ScheduleFits ==
  ASSUME TimingType, NEW s \in Seq(Schedulable), s # <<>>, ScheduleEvents(s),
         SliceFits(slice_length, downcount)
  PROVE  /\ SliceFits(slice_length', downcount')
         /\ downcount >= 0 => downcount' >= 0
<1>1. CASE m_is_global_timer_sane BY <1>1 DEF ScheduleEvents, sliceVars
<1>2. CASE ~m_is_global_timer_sane
  <2>1. PICK i \in DOMAIN s : ForceExceptionCheck(s[i].cycles) BY <1>2 DEF ScheduleEvents
  <2>2. s[i].cycles \in Nat BY DEF Schedulable
  <2>3. /\ slice_length' \in Int /\ downcount' \in Int
        /\ slice_length' <= slice_length
        /\ downcount' = downcount \/ downcount' \in Nat
    BY <2>1, <2>2, ForceType
  <2>4. slice_length \in Int /\ downcount \in Int BY DEF TimingType
  <2>5. downcount' >= 0 - MaxBlock /\ (downcount >= 0 => downcount' >= 0)
    BY <2>2, <2>3, <2>4, TicksAssumption DEF SliceFits
  <2>6. slice_length' <= MAX_SLICE_LENGTH
    BY <2>3, <2>4, SliceAssumption DEF SliceFits
  <2> QED BY <2>5, <2>6 DEF SliceFits
<1> QED BY <1>1, <1>2

\* What other threads scheduled is counted from the beginning of the slice.
LEMMA MovedEvents ==
  ASSUME TimingType, NEW e \in WithMoved
  PROVE  /\ e \in Events
         /\ e \in m_event_queue \/ (e.time >= global_timer /\ e.type = "Other")
<1>1. m_ts_queue \in Seq(Schedulable) BY WaitingType DEF TimingType
<1>2. e \in Events BY MovedType
<1>3. ASSUME e \in Entered(m_ts_queue, global_timer)
      PROVE  e.time >= global_timer /\ e.type = "Other"
  <2>1. PICK i \in DOMAIN m_ts_queue :
          e.time = global_timer + m_ts_queue[i].cycles /\ e.type = m_ts_queue[i].type
    BY <1>1, <1>3, EnteredType DEF TimingType
  <2>2. m_ts_queue[i] \in Waiting BY DEF TimingType
  <2>3. m_ts_queue[i].cycles \in Nat /\ m_ts_queue[i].type = "Other"
    BY <2>2, TicksAssumption DEF Waiting
  <2> QED BY <2>1, <2>3 DEF TimingType
<1> QED BY <1>2, <1>3 DEF WithMoved

LEMMA MovedAhead ==
  ASSUME TimingType, NEW slice \in Int, QueueAhead(m_event_queue, global_timer, slice)
  PROVE  QueueAhead(WithMoved, global_timer, slice)
BY MovedEvents DEF QueueAhead, IsRead

LEMMA InitOff == Init => OffIsEmpty
BY DEF Init, OffIsEmpty

LEMMA OffStep == OffIsEmpty /\ [Next]_vars => OffIsEmpty'
<1> SUFFICES ASSUME OffIsEmpty, [Next]_vars, pc' = "Off"
             PROVE  /\ m_event_queue' = {} /\ requests' = <<>>
                    /\ m_result_queue' = <<>> /\ m_result_map' = {}
  BY DEF OffIsEmpty
<1>1. CASE UNCHANGED vars BY <1>1 DEF OffIsEmpty, vars, timingVars, eventVars, dvdVars
<1>2. CASE Stop BY <1>2 DEF Stop
<1>3. CASE ProcessReadRequest BY <1>3 DEF OffIsEmpty, ProcessReadRequest
<1>4. CASE OtherThread BY <1>4 DEF OtherThread
<1>5. CASE CpuThread /\ ~Stop
  BY <1>5
  DEF CpuThread, Advance, EndAdvance, StartBlock, IdleLoop, EndBlock, Leave, StartRead, RunEvent,
      FinishRead, Return, CancelEvents, ChangeDisc, SetDisc, InsertFails, Save, SaveDrive, Load,
      LoadDrive, LoadCards, LoadCpu, Start
<1> QED BY <1>1, <1>2, <1>3, <1>4, <1>5 DEF Next

LEMMA InitTiming == Init => TimingInv
<1> SUFFICES ASSUME Init PROVE TimingInv OBVIOUS
<1>1. saved \in States => FALSE BY StateAssumption DEF Init
<1>2. QueueAhead(m_event_queue, global_timer, slice_length) BY DEF Init, TimingInit, QueueAhead
<1>3. SliceFits(slice_length, downcount)
  BY SliceAssumption, TicksAssumption DEF Init, TimingInit, SliceFits
<1> QED BY <1>1, <1>2, <1>3 DEF Init, TimingInv, SavedFits, InAdvance, InLoad

\* Nothing TimingInv speaks of changes, but for where the CPU thread is.
LEMMA TimingFrameInv ==
  ASSUME TimingInv, UNCHANGED <<clockVars, saved, scenario>>, m_event_queue' \subseteq m_event_queue,
         pc' = pc \/ (pc \in InAdvance /\ pc' \in InAdvance)
           \/ (pc \in {"Out", "In"} /\ pc' \in {"Out", "In", "Off"})
           \/ (pc \in InLoad /\ pc' \in InLoad)
           \/ (pc = "Save" /\ pc' = "Out")
  PROVE  TimingInv'
<1>1. UNCHANGED <<global_timer, slice_length, downcount>> BY DEF clockVars, factorVars, sliceVars
<1> QED
  BY <1>1 DEF TimingInv, SavedFits, QueueAhead, SliceFits, NotLate, InAdvance, InLoad

LEMMA AdvanceTiming == ASSUME TypeOK, TimingInv, Advance PROVE TimingInv'
<1> SUFFICES ASSUME "Card" \notin scenario PROVE TimingInv' BY DEF Advance, TimingInv
<1>0. TimingType BY TypeParts
<1>1. QueueAhead(m_event_queue, global_timer, slice_length) /\ SliceFits(slice_length, downcount)
  BY DEF Advance, TimingInv, InAdvance, InLoad
<1>2. NotLate'
  <2> DEFINE f == m_last_oc_factor
             left == ToCycles(f, downcount)
             block == ToCycles(f, MaxBlock)
  <2>1. /\ f \in Factors /\ left \in Int /\ block \in Nat /\ left >= 0 - block
        /\ global_timer \in Int /\ slice_length \in Int /\ slice_length <= MAX_SLICE_LENGTH
    BY <1>0, <1>1, Overrun, ToCyclesType DEF TimingType, SliceFits
  <2>2. global_timer' = global_timer + (slice_length - left)
    BY DEF Advance, EndSlice, DowncountToCycles
  <2>3. ASSUME NEW e \in WithMoved
        PROVE  /\ IsRead(e) => global_timer' - e.time <= block
               /\ e.type = "Other" => global_timer' - e.time <= MAX_SLICE_LENGTH + block
    <3>1. e.time \in Int BY <1>0, MovedEvents, EventTimes
    <3>2. /\ e.type = "Other" => e.time >= global_timer
          /\ IsRead(e) => e.time >= global_timer + slice_length
      BY <1>0, <1>1, MovedAhead DEF QueueAhead, TimingType
    <3> HIDE DEF left, block
    <3> QED BY <2>1, <2>2, <3>1, <3>2, SliceAssumption
  <2>4. m_event_queue' = WithMoved BY DEF Advance, EndSlice
  <2> QED BY <2>1, <2>3, <2>4 DEF NotLate
<1>3. SavedFits' BY DEF TimingInv, SavedFits, Advance
<1> QED BY <1>2, <1>3 DEF Advance, TimingInv, InAdvance, InLoad

LEMMA EndAdvanceTiming ==
  ASSUME TypeOK, SaneInAdvance, TimingInv, EndAdvance PROVE TimingInv'
<1> SUFFICES ASSUME "Card" \notin scenario PROVE TimingInv' BY DEF EndAdvance, TimingInv
<1>0. TimingType /\ BeginSlice BY TypeParts DEF EndAdvance
<1>1. /\ TimingType' /\ downcount' = ToDowncount(m_last_oc_factor, slice_length')
      /\ slice_length' <= slice_length /\ (slice_length >= 0 => slice_length' >= 0)
      /\ \A e \in m_event_queue : slice_length' <= e.time - global_timer
      /\ UNCHANGED <<eventVars, global_timer>>
  BY <1>0, BeginSliceType
<1>2. \A e \in m_event_queue : e.time \in Int /\ e.time > global_timer
  BY <1>0, EventTimes DEF BeginSlice, Due, TimingType
<1>3. slice_length = MAX_SLICE_LENGTH BY DEF EndAdvance, SaneInAdvance, InAdvance
<1>4. QueueAhead(m_event_queue', global_timer', slice_length')
  BY <1>0, <1>1, <1>2 DEF QueueAhead, TimingType, eventVars
<1>5. downcount' \in Nat
  <2>1. slice_length' \in Int /\ slice_length' >= 0 BY <1>1, <1>3, SliceAssumption DEF TimingType
  <2> QED BY <1>0, <1>1, <2>1, ToCyclesType DEF TimingType
<1>6. SliceFits(slice_length', downcount')
  BY <1>1, <1>3, <1>5, SliceAssumption, TicksAssumption DEF SliceFits, TimingType
<1>7. SavedFits' BY DEF TimingInv, SavedFits, EndAdvance
<1> QED BY <1>4, <1>6, <1>7 DEF EndAdvance, TimingInv, InAdvance, InLoad

LEMMA BlockTiming ==
  ASSUME TypeOK, TimingInv, StartBlock \/ IdleLoop \/ EndBlock PROVE TimingInv'
<1> SUFFICES ASSUME "Card" \notin scenario PROVE TimingInv'
  BY DEF StartBlock, IdleLoop, EndBlock, TimingInv
<1>0. TimingType BY TypeParts
<1>1. QueueAhead(m_event_queue, global_timer, slice_length) /\ SliceFits(slice_length, downcount)
  BY DEF StartBlock, IdleLoop, EndBlock, TimingInv, InAdvance, InLoad
<1>2. CASE StartBlock
  BY <1>0, <1>1, <1>2
  DEF StartBlock, TimingInv, SavedFits, InAdvance, InLoad, timingVars, eventVars, clockVars,
      sliceVars, TimingType
<1>3. CASE IdleLoop \/ EndBlock
  <2>1. UNCHANGED <<m_event_queue, global_timer, slice_length, saved, scenario>>
    BY <1>3 DEF IdleLoop, EndBlock, Idle, ChargeBlock, eventVars
  <2>2. CASE IdleLoop
    <3>1. downcount' = 0 /\ pc' = "Block" BY <1>0, <2>2 DEF IdleLoop, Idle, ChargeBlock, TimingType
    <3>2. downcount > 0 BY <2>2 DEF IdleLoop
    <3>3. SliceFits(slice_length', downcount')
      BY <1>0, <1>1, <2>1, <3>1, <3>2, TicksAssumption DEF SliceFits, TimingType
    <3> QED BY <1>1, <2>1, <3>1, <3>3 DEF TimingInv, SavedFits, InAdvance, InLoad
  <2>3. CASE EndBlock
    <3>1. PICK n \in 1 .. MaxBlock : downcount' = downcount - n
      BY <2>3 DEF EndBlock, ChargeBlock
    <3>2. downcount >= 0 /\ pc' = "In" BY <2>3 DEF EndBlock, TimingInv
    <3>3. SliceFits(slice_length', downcount')
      BY <1>0, <1>1, <2>1, <3>1, <3>2, TicksAssumption, SliceAssumption DEF SliceFits, TimingType
    <3> QED BY <1>1, <2>1, <3>2, <3>3 DEF TimingInv, SavedFits, InAdvance, InLoad
  <2> QED BY <1>3, <2>2, <2>3
<1> QED BY <1>2, <1>3

\* Scheduling from the CPU thread: in a block, in a callback or in a job.
LEMMA ScheduleInv ==
  ASSUME TypeOK, SaneInAdvance, TimingInv, NEW s \in Seq(Schedulable), s # <<>>, ScheduleEvents(s),
         pc \in {"Block", "Callback", "Out"}, UNCHANGED <<pc, saved, scenario>>,
         pc = "Out" => \A i \in DOMAIN s : ~IsRead(s[i]),
         \A i \in DOMAIN s : s[i].type # "Other"
  PROVE  TimingInv'
<1> SUFFICES ASSUME "Card" \notin scenario PROVE TimingInv' BY DEF TimingInv
<1>0. TimingType BY TypeParts
<1>1. SavedFits' BY DEF TimingInv, SavedFits
<1>2. CASE pc = "Callback"
  <2>1. m_is_global_timer_sane BY <1>2 DEF SaneInAdvance, InAdvance
  <2>2. UNCHANGED <<slice_length, global_timer>> BY <2>1 DEF ScheduleEvents, sliceVars
  <2>3. GetTicks = global_timer BY <1>0, <2>1, TicksType
  <2>4. ASSUME NEW e \in Entered(s, GetTicks)
        PROVE  e.time \in Int /\ e.time >= global_timer
    <3>1. PICK i \in DOMAIN s : e.time = GetTicks + s[i].cycles
      BY <1>0, TicksType, EnteredType DEF TimingType
    <3>2. s[i].cycles \in Nat BY DEF Schedulable
    <3> QED BY <1>0, <2>3, <3>1, <3>2 DEF TimingType
  <2>5. NotLate BY <1>2 DEF TimingInv, InAdvance
  <2>6. NotLate'
    <3>1. m_last_oc_factor \in Factors /\ ToCycles(m_last_oc_factor, MaxBlock) \in Nat
      <4>1. m_last_oc_factor \in Factors BY <1>0 DEF TimingType
      <4>2. MaxBlock \in Int /\ MaxBlock >= 0 BY TicksAssumption
      <4> QED BY <4>1, <4>2, ToCyclesType
    <3>2. ASSUME NEW e \in Entered(s, GetTicks)
          PROVE  /\ global_timer - e.time <= ToCycles(m_last_oc_factor, MaxBlock)
                 /\ global_timer - e.time <= MAX_SLICE_LENGTH + ToCycles(m_last_oc_factor, MaxBlock)
      BY <1>0, <2>4, <3>1, SliceAssumption DEF TimingType
    <3>3. m_event_queue' = m_event_queue \cup Entered(s, GetTicks) BY DEF ScheduleEvents
    <3> QED BY <2>2, <2>5, <3>1, <3>2, <3>3 DEF NotLate
  <2> QED BY <1>1, <1>2, <2>6 DEF TimingInv, InAdvance, InLoad
<1>3. CASE pc \in {"Block", "Out"}
  <2>1. QueueAhead(m_event_queue, global_timer, slice_length) /\ SliceFits(slice_length, downcount)
    BY <1>3 DEF TimingInv, InAdvance, InLoad
  <2>2. m_is_global_timer_sane => \A i \in DOMAIN s : ~IsRead(s[i]) BY <1>3 DEF SaneInAdvance
  <2>3. QueueAhead(m_event_queue', global_timer', slice_length')
    BY <1>0, <2>1, <2>2, ScheduleTiming DEF SliceFits
  <2>4. SliceFits(slice_length', downcount') /\ (downcount >= 0 => downcount' >= 0)
    BY <1>0, <2>1, ScheduleFits
  <2> QED BY <1>1, <1>3, <2>3, <2>4 DEF TimingInv, InAdvance, InLoad
<1> QED BY <1>2, <1>3

LEMMA SaveTimingInv == ASSUME TypeOK, TimingInv, Save \/ SaveDrive PROVE TimingInv'
<1> SUFFICES ASSUME "Card" \notin scenario PROVE TimingInv' BY DEF Save, SaveDrive, TimingInv
<1>0. TimingType /\ SavedType /\ SavedType' BY TypeParts, TypePartsNext, StateType
<1>1. QueueAhead(m_event_queue, global_timer, slice_length) /\ SliceFits(slice_length, downcount)
  BY DEF Save, SaveDrive, TimingInv, InAdvance, InLoad
<1>2. CASE Save
  <2>1. QueueAhead(WithMoved, global_timer, slice_length) BY <1>0, <1>1, MovedAhead DEF TimingType
  <2>2. /\ saved'.timing.slice_length = slice_length /\ saved'.timing.global_timer = global_timer
        /\ saved'.timing.events = WithMoved /\ saved'.downcount = downcount
    BY <1>2 DEF Save, TimingState
  <2>3. SavedFits' BY <1>1, <2>1, <2>2 DEF SavedFits
  <2>4. m_event_queue' = WithMoved /\ UNCHANGED <<global_timer, slice_length, downcount>>
    BY <1>2 DEF Save, SaveTiming, clockVars, factorVars, sliceVars
  <2> QED BY <1>1, <1>2, <2>1, <2>3, <2>4 DEF Save, TimingInv, InAdvance, InLoad
<1>3. CASE SaveDrive
  <2>1. saved \in States BY <1>0, <1>3 DEF SaveDrive, SavedType
  <2>2. saved'.timing = saved.timing /\ saved'.downcount = saved.downcount
    BY <1>3, <2>1 DEF SaveDrive, States
  <2>3. SavedFits BY DEF TimingInv
  <2>4. SavedFits' BY <2>1, <2>2, <2>3 DEF SavedFits
  <2>5. UNCHANGED <<m_event_queue, global_timer, slice_length, downcount>>
    BY <1>3 DEF SaveDrive, timingVars, eventVars, clockVars, factorVars, sliceVars
  <2> QED BY <1>1, <1>3, <2>4, <2>5 DEF SaveDrive, TimingInv, InAdvance, InLoad
<1> QED BY <1>2, <1>3

LEMMA LoadTimingInv ==
  ASSUME TypeOK, TimingInv, Load \/ LoadDrive \/ LoadCards \/ LoadCpu PROVE TimingInv'
<1> SUFFICES ASSUME "Card" \notin scenario PROVE TimingInv'
  BY DEF Load, LoadDrive, LoadCards, LoadCpu, TimingInv
<1>0. SavedType BY TypeParts
<1>1. saved \in States BY <1>0 DEF SavedType, InLoad, Load, LoadDrive, LoadCards, LoadCpu
<1>2. SavedFits BY DEF TimingInv
<1>3. CASE Load
  BY <1>1, <1>2, <1>3 DEF Load, LoadTiming, TimingInv, SavedFits, InAdvance, InLoad
<1>4. CASE LoadDrive
  BY <1>4, TimingFrameInv DEF LoadDrive, timingVars, eventVars, InLoad
<1>5. CASE LoadCards
  BY <1>5, TimingFrameInv DEF LoadCards, timingVars, eventVars, InLoad
<1>6. CASE LoadCpu
  <2>1. slice_length = saved.timing.slice_length /\ QueueAhead(m_event_queue, global_timer, slice_length)
    BY <1>6 DEF LoadCpu, TimingInv, InLoad, InAdvance
  <2>2. UNCHANGED <<m_event_queue, global_timer, slice_length, saved>> /\ downcount' = saved.downcount
    BY <1>6 DEF LoadCpu, eventVars
  <2>3. SliceFits(slice_length', downcount') BY <1>1, <1>2, <2>1, <2>2 DEF SavedFits
  <2> QED BY <1>2, <1>6, <2>1, <2>2, <2>3 DEF LoadCpu, TimingInv, SavedFits, InAdvance, InLoad
<1> QED BY <1>3, <1>4, <1>5, <1>6

LEMMA StartTiming == ASSUME TypeOK, TimingInv, OffIsEmpty, Start PROVE TimingInv'
<1> SUFFICES ASSUME "Card" \notin scenario PROVE TimingInv' BY DEF Start, TimingInv
<1>1. SavedFits' BY DEF TimingInv, SavedFits, Start
<1>2. QueueAhead(m_event_queue', global_timer', slice_length')
  BY DEF OffIsEmpty, Start, QueueAhead
<1>3. SliceFits(slice_length', downcount')
  <2>1. ToDowncount(m_last_oc_factor, MAX_SLICE_LENGTH) \in Nat
    <3>1. m_last_oc_factor \in Factors BY TypeParts DEF TimingType
    <3>2. MAX_SLICE_LENGTH \in Int /\ MAX_SLICE_LENGTH >= 0 BY SliceAssumption
    <3> QED BY <3>1, <3>2, ToCyclesType
  <2> QED
    BY <2>1, SliceAssumption, TicksAssumption DEF Start, SliceFits, CyclesToDowncount
<1> QED BY <1>1, <1>2, <1>3 DEF Start, TimingInv, InAdvance, InLoad

LEMMA TimingStep ==
  TypeOK /\ SaneInAdvance /\ OffIsEmpty /\ TimingInv /\ [Next]_vars => TimingInv'
<1> SUFFICES ASSUME TypeOK, SaneInAdvance, OffIsEmpty, TimingInv, [Next]_vars PROVE TimingInv' OBVIOUS
<1>1. CASE UNCHANGED vars BY <1>1, TimingFrameInv DEF vars, timingVars, eventVars
<1>2. CASE Leave BY <1>2, TimingFrameInv DEF Leave, timingVars, eventVars
<1>3. ASSUME NEW o \in Offsets, NEW t \in ReadTicks, StartRead(o, t) PROVE TimingInv'
  <2> DEFINE event == [cycles |-> t, type |-> "FinishRead", userdata |-> Request(m_next_id, o)]
  <2>1. <<event>> \in Seq(Schedulable) /\ <<event>> # <<>>
    BY <1>3, TypeParts, TicksAssumption DEF StartRead, DriveType, Request, Requests, Schedulable
  <2>2. ScheduleEvents(<<event>>) /\ pc \in {"Block", "Callback"} /\ UNCHANGED <<pc, saved, scenario>>
    BY <1>3 DEF StartRead
  <2>3. \A i \in DOMAIN <<event>> : <<event>>[i].type # "Other" OBVIOUS
  <2> QED BY <2>1, <2>2, <2>3, ScheduleInv
<1>4. ASSUME NEW e \in m_event_queue, RunEvent(e) PROVE TimingInv'
  BY <1>4, TimingFrameInv DEF RunEvent, PopEvent, InAdvance
<1>5. CASE FinishRead \/ Return \/ SetDisc \/ InsertFails
  BY <1>5, TimingFrameInv DEF FinishRead, Return, SetDisc, InsertFails, timingVars, eventVars, InAdvance
<1>6. CASE CancelEvents
  <2>1. CASE RemoveEvent("Other")
    BY <1>6, <2>1, TimingFrameInv DEF CancelEvents, RemoveEvent
  <2>2. CASE RemoveAllEvents("Other")
    <3>1. TimingType BY TypeParts
    <3>2. m_event_queue' \subseteq m_event_queue
      BY <2>2, <3>1, MovedEvents DEF RemoveAllEvents
    <3> QED BY <1>6, <2>2, <3>2, TimingFrameInv DEF CancelEvents, RemoveAllEvents
  <2> QED BY <1>6, <2>1, <2>2 DEF CancelEvents
<1>7. ASSUME NEW d \in Discs, ChangeDisc(d) PROVE TimingInv'
  <2> DEFINE s == <<[cycles |-> 0, type |-> "Eject", userdata |-> NoDisc],
                    [cycles |-> Second, type |-> "Insert", userdata |-> d]>>
  <2>1. s \in Seq(Schedulable) /\ s # <<>> BY TicksAssumption DEF Schedulable
  <2>2. ScheduleEvents(s) /\ pc = "Out" /\ UNCHANGED <<pc, saved, scenario>> BY <1>7 DEF ChangeDisc
  <2>3. \A i \in DOMAIN s : ~IsRead(s[i]) /\ s[i].type # "Other" BY DEF IsRead
  <2> QED BY <2>1, <2>2, <2>3, ScheduleInv
<1>8. CASE Stop BY <1>8, TimingFrameInv DEF Stop
<1>9. CASE ProcessReadRequest \/ OtherThread
  BY <1>9, TimingFrameInv
  DEF ProcessReadRequest, OtherThread, ScheduleEventFromOther, timingVars, eventVars
<1> QED
  BY <1>1, <1>2, <1>3, <1>4, <1>5, <1>6, <1>7, <1>8, <1>9, AdvanceTiming, EndAdvanceTiming,
     BlockTiming, SaveTimingInv, LoadTimingInv, StartTiming
  DEF Next, CpuThread

OnTimeStep ==
  \A e \in m_event_queue : RunEvent(e) /\ "Card" \notin scenario =>
    \E f \in Factors : LET block == ToCycles(f, MaxBlock) IN
      /\ e.type = "FinishRead" => global_timer - e.time <= block
      /\ e.type = "Other" => global_timer - e.time <= MAX_SLICE_LENGTH + block

LEMMA OnTimeSteps == TimingInv => OnTimeStep
BY DEF TimingInv, OnTimeStep, RunEvent, NotLate, IsRead, InAdvance

\* A read ends at most one block after its tick and an event of another thread at most a slice
\* and a block after its own, for slices and blocks of any length, factors that change from slice
\* to slice and however many events are scheduled: CoreTimingManager::ScheduleEvent shortens the slice, and Advance ends it in time.
THEOREM OnTimeCorrect == Spec => OnTime
<1> DEFINE Inv == TypeOK /\ SaneInAdvance /\ OffIsEmpty /\ TimingInv
<1>1. Init => Inv BY InitType, InitSane, InitOff, InitTiming
<1>2. Inv /\ [Next]_vars => Inv' BY TypeStep, SaneStep, OffStep, TimingStep
<1>3. Inv /\ [Next]_vars => [OnTimeStep]_vars BY OnTimeSteps
<1> QED BY <1>1, <1>2, <1>3, PTL DEF Spec, OnTime, OnTimeStep

-----------------------------------------------------------------------------
\* Lemmas: the reads.

LEMMA AppendElements ==
  ASSUME NEW S, NEW s \in Seq(S), NEW x \in S
  PROVE  \A i \in DOMAIN Append(s, x) :
           Append(s, x)[i] = x \/ \E j \in DOMAIN s : Append(s, x)[i] = s[j]
<1> TAKE i \in DOMAIN Append(s, x)
<1>1. CASE i = Len(s) + 1 BY <1>1
<1>2. CASE i \in DOMAIN s BY <1>2
<1> QED BY <1>1, <1>2

LEMMA TailElements ==
  ASSUME NEW S, NEW s \in Seq(S), s # <<>>
  PROVE  /\ \A i \in DOMAIN Tail(s) : \E j \in DOMAIN s : Tail(s)[i] = s[j]
         /\ 1 \in DOMAIN s /\ Head(s) = s[1]
<1>1. ASSUME NEW i \in DOMAIN Tail(s) PROVE \E j \in DOMAIN s : Tail(s)[i] = s[j]
  <2>1. i + 1 \in DOMAIN s /\ Tail(s)[i] = s[i + 1] OBVIOUS
  <2> QED BY <2>1
<1> QED BY <1>1

\* The parts of ReadInv that speak of the requests, the results and the events.
RequestsInv ==
  \A i \in DOMAIN requests : requests[i].id < m_next_id /\ requests[i].disc = m_disc

FoundInv == \A r : Found(r) => r.id < m_next_id

AwaitedInv ==
  pc # "Load" => \A e : Awaited(e) =>
    /\ e.userdata.id < m_next_id
    /\ \A i \in DOMAIN requests : requests[i].id = e.userdata.id => requests[i] = e.userdata
    /\ \A r : Found(r) => Answers(r, e)

StateInv ==
  /\ pc = "Load" => m_event_queue = saved.timing.events
  /\ pc = "Save" => m_event_queue = saved.timing.events /\ m_next_id = saved.next_id
  /\ SavedReads

ReplyInv == (pc # "Callback" => reply = NoReply) /\ AnswersTheRead

LEMMA ReadParts == ReadInv <=> RequestsInv /\ FoundInv /\ AwaitedInv /\ StateInv /\ ReplyInv
BY DEF ReadInv, RequestsInv, FoundInv, AwaitedInv, StateInv, ReplyInv

LEMMA ReadPartsNext ==
  ReadInv' <=> RequestsInv' /\ FoundInv' /\ AwaitedInv' /\ StateInv' /\ ReplyInv'
BY DEF ReadInv, RequestsInv, FoundInv, AwaitedInv, StateInv, ReplyInv

LEMMA InitRead == Init => ReadInv
<1> SUFFICES ASSUME Init PROVE ReadInv OBVIOUS
<1>1. RequestsInv BY DEF Init, RequestsInv
<1>2. FoundInv BY DEF Init, FoundInv, Found
<1>3. AwaitedInv BY DEF Init, TimingInit, AwaitedInv, Awaited
<1>4. StateInv BY StateAssumption DEF Init, StateInv, SavedReads
<1>5. ReplyInv BY DEF Init, ReplyInv, AnswersTheRead
<1> QED BY <1>1, <1>2, <1>3, <1>4, <1>5, ReadParts

\* Nothing of the drive changes, and no read is scheduled.
LEMMA ReadFrame ==
  ASSUME ReadInv, UNCHANGED <<dvdVars, saved, reply, current>>,
         \A e \in m_event_queue' : IsRead(e) => e \in m_event_queue,
         pc' = "FinishRead" => pc = "FinishRead",
         pc = pc' \/ (pc \notin {"Load", "Save", "Callback"} /\ pc' \notin {"Load", "Save"}),
         pc \in {"Load", "Save"} => UNCHANGED m_event_queue
  PROVE  ReadInv'
<1>0. RequestsInv /\ FoundInv /\ AwaitedInv /\ StateInv /\ ReplyInv BY ReadParts
<1>1. UNCHANGED <<requests, m_result_queue, m_result_map, m_next_id, m_disc>> BY DEF dvdVars
<1>2. RequestsInv' BY <1>0, <1>1 DEF RequestsInv
<1>3. \A r : Found(r)' <=> Found(r) BY <1>1 DEF Found
<1>4. FoundInv' BY <1>0, <1>1, <1>3 DEF FoundInv
<1>5. \A e : Awaited(e)' => Awaited(e) BY DEF Awaited
<1>6. AwaitedInv' BY <1>0, <1>1, <1>3, <1>5 DEF AwaitedInv, Answers
<1>7. StateInv' BY <1>0, <1>1 DEF StateInv, SavedReads
<1>8. ReplyInv' BY <1>0 DEF ReplyInv, AnswersTheRead
<1> QED BY <1>2, <1>4, <1>6, <1>7, <1>8, ReadPartsNext

LEMMA ScheduledNoRead ==
  ASSUME TimingType, NEW s \in Seq(Schedulable), s # <<>>, \A i \in DOMAIN s : ~IsRead(s[i]),
         ScheduleEvents(s) \/ UNCHANGED m_event_queue
  PROVE  \A e \in m_event_queue' : IsRead(e) => e \in m_event_queue
<1>1. CASE UNCHANGED m_event_queue BY <1>1
<1>2. CASE ScheduleEvents(s)
  <2>1. m_event_queue' = m_event_queue \cup Entered(s, GetTicks) BY <1>2 DEF ScheduleEvents
  <2>2. \A e \in Entered(s, GetTicks) : ~IsRead(e)
    BY TicksType, EnteredType DEF TimingType, IsRead
  <2> QED BY <2>1, <2>2
<1> QED BY <1>1, <1>2

LEMMA StartReadRead ==
  ASSUME TypeOK, ReadInv, NEW o \in Offsets, NEW t \in ReadTicks, StartRead(o, t) PROVE ReadInv'
<1>0. RequestsInv /\ FoundInv /\ AwaitedInv /\ StateInv /\ ReplyInv BY ReadParts
<1>1. TimingType /\ DriveType BY TypeParts
<1> DEFINE request == Request(m_next_id, o)
           event == [cycles |-> t, type |-> "FinishRead", userdata |-> request]
<1>2. request \in Requests BY <1>1 DEF StartRead, DriveType, Request, Requests
<1>3. request.id = m_next_id /\ request.disc = m_disc BY DEF Request
<1>4. <<event>> \in Seq(Schedulable) /\ <<event>> # <<>>
  BY <1>2, TicksAssumption DEF Schedulable
<1>5. ScheduleEvents(<<event>>) BY DEF StartRead
<1>6. \A e \in m_event_queue' : e \in m_event_queue \/ e.userdata = request
  <2>1. m_event_queue' = m_event_queue \cup Entered(<<event>>, GetTicks)
    BY <1>1, <1>4, <1>5, ScheduleType
  <2>2. \A e \in Entered(<<event>>, GetTicks) : e.userdata = request
    <3> TAKE e \in Entered(<<event>>, GetTicks)
    <3>1. PICK i \in DOMAIN <<event>> : e.userdata = <<event>>[i].userdata
      BY <1>1, <1>4, TicksType, EnteredType DEF TimingType
    <3> QED BY <3>1
  <2> QED BY <2>1, <2>2
<1>7. \A i \in DOMAIN requests' : requests'[i] = request \/ \E j \in DOMAIN requests : requests'[i] = requests[j]
  BY <1>1, <1>2, AppendElements DEF StartRead, DriveType
<1>8. m_next_id \in Nat /\ m_next_id' = m_next_id + 1 BY <1>1 DEF StartRead, DriveType
<1>9. \A j \in DOMAIN requests : requests[j].id \in Nat
  <2>1. \A j \in DOMAIN requests : requests[j] \in Requests BY <1>1 DEF DriveType
  <2> QED BY <2>1 DEF Requests
<1>10. \A r : Found(r) => r.id \in Nat
  <2>1. \A r : Found(r) => r \in Results BY <1>1 DEF Found, DriveType
  <2> QED BY <2>1 DEF Results
<1>11. \A r : Found(r)' <=> Found(r) BY DEF Found, StartRead
<1>12. RequestsInv'
  <2>1. m_disc' = m_disc BY DEF StartRead
  <2> QED BY <1>0, <1>3, <1>7, <1>8, <1>9, <2>1 DEF RequestsInv
<1>13. FoundInv' BY <1>0, <1>8, <1>10, <1>11 DEF FoundInv
<1>14. AwaitedInv'
  <2>1. pc \in {"Block", "Callback"} /\ pc' = pc BY DEF StartRead
  <2>2. SUFFICES ASSUME NEW e, Awaited(e)'
                 PROVE  /\ e.userdata.id < m_next_id'
                        /\ \A i \in DOMAIN requests' :
                             requests'[i].id = e.userdata.id => requests'[i] = e.userdata
                        /\ \A r : Found(r)' => Answers(r, e)
    BY DEF AwaitedInv, Answers
  <2>3. e \in m_event_queue' /\ IsRead(e) BY <2>1, <2>2 DEF Awaited
  <2>4. CASE e \in m_event_queue
    <3>1. Awaited(e) BY <2>3, <2>4 DEF Awaited
    <3>2. e.userdata.id \in Nat BY <1>1, <2>3, <2>4 DEF TimingType, Events, IsRead, Requests
    <3>3. /\ e.userdata.id < m_next_id
          /\ \A i \in DOMAIN requests : requests[i].id = e.userdata.id => requests[i] = e.userdata
          /\ \A r : Found(r) => Answers(r, e)
      BY <1>0, <2>1, <3>1 DEF AwaitedInv
    <3>4. e.userdata.id # m_next_id BY <1>8, <3>2, <3>3
    <3>5. e.userdata.id < m_next_id' BY <1>8, <3>2, <3>3
    <3> QED BY <1>3, <1>7, <1>11, <3>3, <3>4, <3>5
  <2>5. CASE e.userdata = request
    <3>1. \A j \in DOMAIN requests : requests[j].id # m_next_id
      BY <1>0, <1>8, <1>9 DEF RequestsInv
    <3>2. \A r : Found(r) => r.id # m_next_id BY <1>0, <1>8, <1>10 DEF FoundInv
    <3>3. m_next_id < m_next_id' BY <1>8
    <3> QED BY <1>3, <1>7, <1>11, <2>5, <3>1, <3>2, <3>3 DEF Answers
  <2> QED BY <1>6, <2>3, <2>4, <2>5
<1>15. StateInv' BY <1>0 DEF StartRead, StateInv, SavedReads
<1>16. ReplyInv' BY <1>0 DEF StartRead, ReplyInv, AnswersTheRead
<1> QED BY <1>12, <1>13, <1>14, <1>15, <1>16, ReadPartsNext

LEMMA RunEventRead ==
  ASSUME TypeOK, ReadInv, NEW e \in m_event_queue, RunEvent(e) PROVE ReadInv'
<1>0. RequestsInv /\ FoundInv /\ AwaitedInv /\ StateInv /\ ReplyInv BY ReadParts
<1>1. UNCHANGED <<requests, m_result_queue, m_result_map, m_next_id, m_disc, saved, reply>>
      /\ pc = "Advance" /\ m_event_queue' \subseteq m_event_queue
      /\ pc' \in {"FinishRead", "SetDisc", "Callback"}
      /\ (pc' = "FinishRead" => IsRead(e) /\ current' = e)
  BY DEF RunEvent, PopEvent, dvdVars, IsRead
<1>2. RequestsInv' BY <1>0, <1>1 DEF RequestsInv
<1>3. \A r : Found(r)' <=> Found(r) BY <1>1 DEF Found
<1>4. FoundInv' BY <1>0, <1>1, <1>3 DEF FoundInv
<1>5. \A f : Awaited(f)' => Awaited(f) BY <1>1 DEF Awaited
<1>6. AwaitedInv' BY <1>0, <1>1, <1>3, <1>5 DEF AwaitedInv, Answers
<1>7. StateInv' BY <1>0, <1>1 DEF StateInv, SavedReads
<1>8. ReplyInv' BY <1>0, <1>1 DEF ReplyInv, AnswersTheRead
<1> QED BY <1>2, <1>4, <1>6, <1>7, <1>8, ReadPartsNext

LEMMA FinishReadRead == ASSUME TypeOK, ReadInv, FinishRead \/ Return PROVE ReadInv'
<1>0. RequestsInv /\ FoundInv /\ AwaitedInv /\ StateInv /\ ReplyInv BY ReadParts
<1>1. DriveType BY TypeParts
<1>2. UNCHANGED <<requests, m_next_id, m_disc, saved, m_event_queue>>
      /\ pc \in {"FinishRead", "Callback"} /\ pc' \in {"FinishRead", "Callback", "Advance"}
      /\ (pc' = "FinishRead" => pc = "FinishRead" /\ current' = current)
  BY DEF FinishRead, Return, timingVars, eventVars, dvdVars
<1>3. \A r : Found(r)' => Found(r)
  <2>1. CASE Return BY <2>1 DEF Return, Found, dvdVars
  <2>2. CASE FinishRead
    <3>1. m_result_queue # <<>> =>
            /\ \A i \in DOMAIN Tail(m_result_queue) : \E j \in DOMAIN m_result_queue :
                 Tail(m_result_queue)[i] = m_result_queue[j]
            /\ 1 \in DOMAIN m_result_queue /\ Head(m_result_queue) = m_result_queue[1]
      BY <1>1, TailElements DEF DriveType
    <3>2. m_result_queue' = m_result_queue
          \/ (m_result_queue # <<>> /\ m_result_queue' = Tail(m_result_queue))
      BY <2>2 DEF FinishRead
    <3>3. m_result_map' \subseteq m_result_map
          \/ (m_result_queue # <<>> /\ m_result_map' \subseteq m_result_map \cup {Head(m_result_queue)})
      BY <2>2 DEF FinishRead, Emplace
    <3> QED BY <3>1, <3>2, <3>3 DEF Found
  <2> QED BY <2>1, <2>2
<1>4. RequestsInv' BY <1>0, <1>2 DEF RequestsInv
<1>5. FoundInv' BY <1>0, <1>2, <1>3 DEF FoundInv
<1>6. \A e : Awaited(e)' => Awaited(e) BY <1>2 DEF Awaited
<1>7. AwaitedInv' BY <1>0, <1>2, <1>3, <1>6 DEF AwaitedInv, Answers
<1>8. StateInv' BY <1>0, <1>2 DEF StateInv, SavedReads
<1>9. ReplyInv'
  <2>1. CASE Return BY <2>1 DEF Return, ReplyInv, AnswersTheRead
  <2>2. CASE FinishRead /\ pc' = "FinishRead"
    BY <1>0, <2>2 DEF FinishRead, ReplyInv, AnswersTheRead
  <2>3. CASE FinishRead /\ pc' # "FinishRead"
    <3>1. Awaited(current) /\ pc = "FinishRead" BY <2>3 DEF FinishRead, Awaited
    <3>2. pc' = "Callback" /\ current' = current BY <2>3 DEF FinishRead
    <3>3. Found(reply') /\ reply'.id = current.userdata.id
      <4>1. m_result_queue # <<>> =>
              1 \in DOMAIN m_result_queue /\ Head(m_result_queue) = m_result_queue[1]
        BY <1>1, TailElements DEF DriveType
      <4> QED BY <2>3, <4>1 DEF FinishRead, Found
    <3>4. Answers(reply', current) BY <1>0, <3>1, <3>3 DEF AwaitedInv
    <3> QED BY <3>2, <3>3, <3>4 DEF ReplyInv, AnswersTheRead, Answers
  <2> QED BY <2>1, <2>2, <2>3
<1> QED BY <1>4, <1>5, <1>7, <1>8, <1>9, ReadPartsNext

LEMMA SetDiscRead == ASSUME TypeOK, ReadInv, SetDisc PROVE ReadInv'
<1>0. RequestsInv /\ FoundInv /\ AwaitedInv /\ StateInv /\ ReplyInv BY ReadParts
<1>1. UNCHANGED <<requests, m_result_queue, m_result_map, m_next_id, saved, reply, current, m_event_queue>>
      /\ pc = "SetDisc" /\ pc' = "Callback" /\ requests = <<>>
  BY DEF SetDisc, WaitUntilIdle, timingVars, eventVars
<1>2. RequestsInv' BY <1>1 DEF RequestsInv
<1>3. \A r : Found(r)' <=> Found(r) BY <1>1 DEF Found
<1>4. FoundInv' BY <1>0, <1>1, <1>3 DEF FoundInv
<1>5. \A e : Awaited(e)' => Awaited(e) BY <1>1 DEF Awaited
<1>6. AwaitedInv' BY <1>0, <1>1, <1>3, <1>5 DEF AwaitedInv, Answers
<1>7. StateInv' BY <1>0, <1>1 DEF StateInv, SavedReads
<1>8. ReplyInv' BY <1>0, <1>1 DEF ReplyInv, AnswersTheRead
<1> QED BY <1>2, <1>4, <1>6, <1>7, <1>8, ReadPartsNext

LEMMA SaveRead == ASSUME TypeOK, ReadInv, Save \/ SaveDrive PROVE ReadInv'
<1>0. RequestsInv /\ FoundInv /\ AwaitedInv /\ StateInv /\ ReplyInv BY ReadParts
<1>1. TimingType /\ DriveType /\ SavedType BY TypeParts
<1>2. UNCHANGED <<requests, m_next_id, m_disc, current, reply>>
      /\ pc \in {"Out", "Save"} /\ pc' \in {"Out", "Save"}
  BY DEF Save, SaveDrive, dvdVars
<1>3. \A r : Found(r)' => Found(r)
  <2>1. CASE Save BY <2>1 DEF Save, dvdVars, Found
  <2>2. CASE SaveDrive
    <3>1. \A r \in AllResults : Found(r) BY DEF AllResults, Found
    <3> QED BY <2>2, <3>1 DEF SaveDrive, Found
  <2> QED BY <2>1, <2>2
<1>4. \A e : Awaited(e)' => Awaited(e)
  <2>1. CASE Save
    <3>1. \A e \in WithMoved : IsRead(e) => e \in m_event_queue BY <1>1, MovedEvents DEF IsRead
    <3> QED BY <2>1, <3>1 DEF Save, SaveTiming, Awaited
  <2>2. CASE SaveDrive BY <2>2 DEF SaveDrive, timingVars, eventVars, Awaited
  <2> QED BY <2>1, <2>2
<1>5. RequestsInv' BY <1>0, <1>2 DEF RequestsInv
<1>6. FoundInv' BY <1>0, <1>2, <1>3 DEF FoundInv
<1>7. AwaitedInv' BY <1>0, <1>2, <1>3, <1>4 DEF AwaitedInv, Answers
<1>8. StateInv'
  <2>1. CASE Save
    <3>1. saved'.timing.events = WithMoved /\ saved'.next_id = m_next_id
      BY <2>1 DEF Save, TimingState
    <3> QED BY <2>1, <1>2, <3>1 DEF Save, SaveTiming, StateInv, SavedReads
  <2>2. CASE SaveDrive
    <3>1. saved \in States /\ pc = "Save" BY <1>1, <2>2 DEF SaveDrive, SavedType
    <3>2. /\ saved'.timing = saved.timing /\ saved'.next_id = saved.next_id
          /\ saved'.results = AllResults
      BY <2>2, <3>1 DEF SaveDrive, States
    <3>3. \A r \in AllResults : Found(r) BY DEF AllResults, Found
    <3>4. m_event_queue = saved.timing.events /\ m_next_id = saved.next_id
      BY <1>0, <3>1 DEF StateInv
    <3>5. \A r \in saved'.results : r.id < saved'.next_id
      BY <1>0, <3>2, <3>3, <3>4 DEF FoundInv
    <3>6. \A e \in saved'.timing.events : IsRead(e) =>
            e.userdata.id < saved'.next_id /\ \A r \in saved'.results : Answers(r, e)
      BY <1>0, <3>1, <3>2, <3>3, <3>4 DEF AwaitedInv, Awaited
    <3> QED BY <2>2, <3>5, <3>6 DEF SaveDrive, StateInv, SavedReads, Answers
  <2> QED BY <2>1, <2>2
<1>9. ReplyInv' BY <1>0, <1>2 DEF ReplyInv, AnswersTheRead
<1> QED BY <1>5, <1>6, <1>7, <1>8, <1>9, ReadPartsNext

LEMMA LoadRead == ASSUME TypeOK, ReadInv, Load \/ LoadDrive PROVE ReadInv'
<1>0. RequestsInv /\ FoundInv /\ AwaitedInv /\ StateInv /\ ReplyInv BY ReadParts
<1>1. SavedType BY TypeParts
<1>2. CASE Load
  <2> USE <1>2 DEF Load
  <2>1. UNCHANGED <<requests, m_result_queue, m_result_map, m_next_id, m_disc>> BY DEF dvdVars
  <2>2. RequestsInv' BY <1>0, <2>1 DEF RequestsInv
  <2>3. FoundInv' BY <1>0, <2>1 DEF FoundInv, Found
  <2>4. AwaitedInv' BY DEF AwaitedInv
  <2>5. StateInv' BY <1>0 DEF StateInv, SavedReads, LoadTiming
  <2>6. ReplyInv' BY <1>0 DEF ReplyInv, AnswersTheRead
  <2> QED BY <2>2, <2>3, <2>4, <2>5, <2>6, ReadPartsNext
<1>3. CASE LoadDrive
  <2> USE <1>3 DEF LoadDrive
  <2>1. saved \in States /\ UNCHANGED m_event_queue /\ requests' = <<>>
    BY <1>1 DEF SavedType, InLoad, timingVars, eventVars, WaitUntilIdle
  <2>2. /\ \A r \in saved.results : r.id < saved.next_id
        /\ \A e \in saved.timing.events : IsRead(e) =>
             e.userdata.id < saved.next_id /\ \A r \in saved.results : Answers(r, e)
        /\ m_event_queue = saved.timing.events
    BY <1>0, <2>1 DEF StateInv, SavedReads
  <2>3. \A r : Found(r)' => r \in saved.results BY DEF Found
  <2>4. \A e : Awaited(e)' => e \in saved.timing.events /\ IsRead(e) BY <2>1, <2>2 DEF Awaited
  <2>5. RequestsInv' BY <2>1 DEF RequestsInv
  <2>6. FoundInv' BY <2>2, <2>3 DEF FoundInv
  <2>7. AwaitedInv' BY <2>1, <2>2, <2>3, <2>4 DEF AwaitedInv, Answers
  <2>8. StateInv' BY <1>0 DEF StateInv, SavedReads
  <2>9. ReplyInv' BY <1>0 DEF ReplyInv, AnswersTheRead
  <2> QED BY <2>5, <2>6, <2>7, <2>8, <2>9, ReadPartsNext
<1> QED BY <1>2, <1>3

LEMMA SessionRead == ASSUME TypeOK, OffIsEmpty, ReadInv, Stop \/ Start PROVE ReadInv'
<1>0. StateInv /\ ReplyInv BY ReadParts
<1>1. requests' = <<>> /\ m_result_queue' = <<>> /\ m_result_map' = {} /\ m_event_queue' = {}
      /\ UNCHANGED <<saved, reply, current>>
      /\ pc \in {"Out", "Off"} /\ pc' \in {"Out", "Off"}
  BY DEF Stop, Start, OffIsEmpty
<1>2. RequestsInv' BY <1>1 DEF RequestsInv
<1>3. \A r : ~Found(r)' BY <1>1 DEF Found
<1>4. \A e : ~Awaited(e)' BY <1>1 DEF Awaited
<1>5. FoundInv' /\ AwaitedInv' BY <1>3, <1>4 DEF FoundInv, AwaitedInv
<1>6. StateInv' BY <1>0, <1>1 DEF StateInv, SavedReads
<1>7. ReplyInv' BY <1>0, <1>1 DEF ReplyInv, AnswersTheRead
<1> QED BY <1>2, <1>5, <1>6, <1>7, ReadPartsNext

LEMMA ProcessRead == ASSUME TypeOK, ReadInv, ProcessReadRequest PROVE ReadInv'
<1>0. RequestsInv /\ FoundInv /\ AwaitedInv /\ StateInv /\ ReplyInv BY ReadParts
<1>1. DriveType BY TypeParts
<1>2. UNCHANGED <<m_event_queue, pc, current, m_result_map, m_next_id, m_disc, reply, saved>>
      /\ requests # <<>> /\ requests' = Tail(requests)
  BY DEF ProcessReadRequest, timingVars, eventVars
<1>3. PICK data \in {<<m_disc, Head(requests).offset>>, <<>>} :
        m_result_queue' = Append(m_result_queue, [id |-> Head(requests).id, data |-> data])
  BY DEF ProcessReadRequest
<1> DEFINE result == [id |-> Head(requests).id, data |-> data]
<1>4. 1 \in DOMAIN requests /\ Head(requests) = requests[1]
      /\ \A i \in DOMAIN requests' : \E j \in DOMAIN requests : requests'[i] = requests[j]
  BY <1>1, <1>2, TailElements DEF DriveType
<1>5. result \in Results
  <2>1. requests[1] \in Requests BY <1>1, <1>4 DEF DriveType
  <2>2. data \in ((Discs \cup {NoDisc}) \X Offsets) \cup {<<>>}
    BY <1>1, <1>3, <1>4, <2>1 DEF DriveType, Requests
  <2> QED BY <1>4, <2>1, <2>2 DEF Requests, Results
<1>6. \A r : Found(r)' => Found(r) \/ r = result
  <2>1. \A i \in DOMAIN m_result_queue' :
          m_result_queue'[i] = result \/ \E j \in DOMAIN m_result_queue : m_result_queue'[i] = m_result_queue[j]
    BY <1>1, <1>3, <1>5, AppendElements DEF DriveType
  <2> QED BY <1>2, <2>1 DEF Found
<1>7. RequestsInv' BY <1>0, <1>2, <1>4 DEF RequestsInv
<1>8. FoundInv' BY <1>0, <1>2, <1>4, <1>6 DEF FoundInv, RequestsInv
<1>9. \A e : Awaited(e)' => Awaited(e) BY <1>2 DEF Awaited
<1>10. AwaitedInv'
  <2>1. SUFFICES ASSUME pc # "Load", NEW e, Awaited(e)
                 PROVE  /\ e.userdata.id < m_next_id'
                        /\ \A i \in DOMAIN requests' :
                             requests'[i].id = e.userdata.id => requests'[i] = e.userdata
                        /\ \A r : Found(r)' => Answers(r, e)
    BY <1>2, <1>9 DEF AwaitedInv, Answers
  <2>2. /\ e.userdata.id < m_next_id
        /\ \A i \in DOMAIN requests : requests[i].id = e.userdata.id => requests[i] = e.userdata
        /\ \A r : Found(r) => Answers(r, e)
    BY <1>0, <2>1 DEF AwaitedInv
  <2>3. Answers(result, e)
    <3>1. requests[1].disc = m_disc BY <1>0, <1>4 DEF RequestsInv
    <3>2. requests[1].id = e.userdata.id => requests[1] = e.userdata BY <1>4, <2>2
    <3> QED BY <1>3, <1>4, <3>1, <3>2 DEF Answers
  <2> QED BY <1>2, <1>4, <1>6, <2>2, <2>3
<1>11. StateInv' BY <1>0, <1>2 DEF StateInv, SavedReads
<1>12. ReplyInv' BY <1>0, <1>2 DEF ReplyInv, AnswersTheRead
<1> QED BY <1>7, <1>8, <1>10, <1>11, <1>12, ReadPartsNext

LEMMA ReadStep == TypeOK /\ OffIsEmpty /\ ReadInv /\ [Next]_vars => ReadInv'
<1> SUFFICES ASSUME TypeOK, OffIsEmpty, ReadInv, [Next]_vars PROVE ReadInv' OBVIOUS
<1>0. TimingType BY TypeParts
<1>1. CASE UNCHANGED vars BY <1>1, ReadFrame DEF vars, timingVars, eventVars
<1>2. CASE Advance
  <2>1. \A e \in m_event_queue' : IsRead(e) => e \in m_event_queue
    BY <1>0, <1>2, MovedEvents DEF Advance, EndSlice, IsRead
  <2> QED BY <1>2, <2>1, ReadFrame DEF Advance
<1>3. CASE EndAdvance \/ StartBlock \/ Leave
  BY <1>3, ReadFrame DEF EndAdvance, StartBlock, Leave, BeginSlice, timingVars, eventVars
<1>4. CASE IdleLoop \/ EndBlock
  BY <1>4, ReadFrame DEF IdleLoop, EndBlock, Idle, ChargeBlock, eventVars
<1>5. CASE CancelEvents
  <2>1. \A e \in m_event_queue' : IsRead(e) => e \in m_event_queue
    BY <1>0, <1>5, MovedEvents DEF CancelEvents, RemoveEvent, RemoveAllEvents, IsRead
  <2> QED BY <1>5, <2>1, ReadFrame DEF CancelEvents
<1>6. ASSUME NEW d \in Discs, ChangeDisc(d) PROVE ReadInv'
  <2> DEFINE s == <<[cycles |-> 0, type |-> "Eject", userdata |-> NoDisc],
                    [cycles |-> Second, type |-> "Insert", userdata |-> d]>>
  <2>1. s \in Seq(Schedulable) /\ s # <<>> BY TicksAssumption DEF Schedulable
  <2>2. \A i \in DOMAIN s : ~IsRead(s[i]) BY DEF IsRead
  <2>3. ScheduleEvents(s) BY <1>6 DEF ChangeDisc
  <2>4. \A e \in m_event_queue' : IsRead(e) => e \in m_event_queue
    BY <1>0, <2>1, <2>2, <2>3, ScheduledNoRead
  <2> QED BY <1>6, <2>4, ReadFrame DEF ChangeDisc
<1>7. CASE InsertFails BY <1>7, ReadFrame DEF InsertFails, timingVars, eventVars
<1>8. CASE LoadCards
  <2> DEFINE s == <<[cycles |-> 0, type |-> "Card", userdata |-> NoReply],
                    [cycles |-> Second, type |-> "Card", userdata |-> NoReply]>>
  <2>1. s \in Seq(Schedulable) /\ s # <<>> BY TicksAssumption DEF Schedulable
  <2>2. \A i \in DOMAIN s : ~IsRead(s[i]) BY DEF IsRead
  <2>3. ScheduleEvents(s) \/ UNCHANGED m_event_queue BY <1>8 DEF LoadCards, timingVars, eventVars
  <2>4. \A e \in m_event_queue' : IsRead(e) => e \in m_event_queue
    BY <1>0, <2>1, <2>2, <2>3, ScheduledNoRead
  <2> QED BY <1>8, <2>4, ReadFrame DEF LoadCards
<1>9. CASE LoadCpu BY <1>9, ReadFrame DEF LoadCpu, eventVars
<1>10. CASE OtherThread BY <1>10, ReadFrame DEF OtherThread, ScheduleEventFromOther
<1> QED
  BY <1>1, <1>2, <1>3, <1>4, <1>5, <1>6, <1>7, <1>8, <1>9, <1>10, StartReadRead, RunEventRead,
     FinishReadRead, SetDiscRead, SaveRead, LoadRead, SessionRead, ProcessRead
  DEF Next, CpuThread

\* Every read is answered with what it asked for, from the disc that was in the drive when it
\* was started, or with its error: FinishRead looks the result up by id, SetDisc and the saved
\* state wait for the DVD thread, and ids begin anew only when nothing of the old ones is left.
THEOREM AnswersCorrect == Spec => []AnswersTheRead
<1> DEFINE Inv == TypeOK /\ OffIsEmpty /\ ReadInv
<1>1. Init => Inv BY InitType, InitOff, InitRead
<1>2. Inv /\ [Next]_vars => Inv' BY TypeStep, OffStep, ReadStep
<1>3. Inv => AnswersTheRead BY DEF ReadInv
<1> QED BY <1>1, <1>2, <1>3, PTL DEF Spec

-----------------------------------------------------------------------------
\* The places a read can be in, by its id: with the DVD thread, in the queue and in
\* the map of results; and the events that wait for one.
Ids(s) == {s[i].id : i \in DOMAIN s}

IdsOnce(s) == \A i, j \in DOMAIN s : s[i].id = s[j].id => i = j

ResultIds(map) == {r.id : r \in map}

ResultsOnce(map) == \A r, q \in map : r.id = q.id => r = q

EventIds(reads) == {e.userdata.id : e \in reads}

EventsOnce(reads) == \A e, f \in reads : e.userdata.id = f.userdata.id => e = f

Reads(events) == {e \in events : IsRead(e)}

AwaitedReads == Reads(m_event_queue) \cup (IF pc = "FinishRead" THEN {current} ELSE {})

\* No id twice, no id in two places, and the ids found are the ids that are awaited.
Matched(asked, queue, map, reads) ==
  /\ IdsOnce(asked) /\ IdsOnce(queue) /\ ResultsOnce(map) /\ EventsOnce(reads)
  /\ Ids(asked) \cap Ids(queue) = {}
  /\ ResultIds(map) \cap (Ids(asked) \cup Ids(queue)) = {}
  /\ ResultIds(map) \cup Ids(asked) \cup Ids(queue) = EventIds(reads)

\* The same of the saved state, whose results a load makes the current ones.
MatchInv ==
  /\ pc # "Load" => Matched(requests, m_result_queue, m_result_map, AwaitedReads)
  /\ pc = "FinishRead" => current \notin m_event_queue
  /\ saved \in States /\ pc # "Save" =>
       Matched(<<>>, <<>>, saved.results, Reads(saved.timing.events))

-----------------------------------------------------------------------------
\* Lemmas: what each step does to the ids.

LEMMA AppendIds ==
  ASSUME NEW S, NEW s \in Seq(S), NEW x \in S, IdsOnce(s), x.id \notin Ids(s)
  PROVE  IdsOnce(Append(s, x)) /\ Ids(Append(s, x)) = Ids(s) \cup {x.id}
<1> DEFINE t == Append(s, x)
<1>1. DOMAIN t = DOMAIN s \cup {Len(s) + 1} /\ Len(s) + 1 \notin DOMAIN s
  OBVIOUS
<1>2. t[Len(s) + 1] = x /\ \A i \in DOMAIN s : t[i] = s[i] OBVIOUS
<1> HIDE DEF t
<1>3. Ids(t) = Ids(s) \cup {x.id} BY <1>1, <1>2 DEF Ids
<1>4. \A i \in DOMAIN s : s[i].id # x.id BY DEF Ids
<1>5. IdsOnce(t) BY <1>1, <1>2, <1>4 DEF IdsOnce
<1> QED BY <1>3, <1>5 DEF t

LEMMA TailIds ==
  ASSUME NEW S, NEW s \in Seq(S), s # <<>>, IdsOnce(s)
  PROVE  /\ IdsOnce(Tail(s)) /\ Ids(Tail(s)) = Ids(s) \ {Head(s).id}
         /\ Head(s) \in S /\ Tail(s) \in Seq(S) /\ Head(s).id \in Ids(s)
<1> DEFINE t == Tail(s)
<1>1. t \in Seq(S) /\ Head(s) \in S /\ Head(s) = s[1] /\ 1 \in DOMAIN s OBVIOUS
<1>2. \A i \in DOMAIN t : i \in Nat /\ i + 1 \in DOMAIN s /\ t[i] = s[i + 1] /\ i + 1 # 1 OBVIOUS
<1>3. \A j \in DOMAIN s : j # 1 => j - 1 \in DOMAIN t /\ t[j - 1] = s[j]
  <2> TAKE j \in DOMAIN s
  <2>1. ASSUME j # 1 PROVE j - 1 \in DOMAIN t /\ (j - 1) + 1 = j BY <2>1
  <2> QED BY <1>2, <2>1
<1> HIDE DEF t
<1>4. IdsOnce(t)
  <2> SUFFICES ASSUME NEW i \in DOMAIN t, NEW j \in DOMAIN t, t[i].id = t[j].id PROVE i = j
    BY DEF IdsOnce
  <2>1. s[i + 1].id = s[j + 1].id /\ i + 1 \in DOMAIN s /\ j + 1 \in DOMAIN s BY <1>2
  <2>2. i + 1 = j + 1 BY <2>1 DEF IdsOnce
  <2>3. i \in Nat /\ j \in Nat BY <1>2
  <2> QED BY <2>2, <2>3
<1>5. Ids(t) \subseteq Ids(s) \ {s[1].id}
  <2> SUFFICES ASSUME NEW i \in DOMAIN t PROVE t[i].id \in Ids(s) /\ t[i].id # s[1].id BY DEF Ids
  <2>1. i + 1 \in DOMAIN s /\ t[i] = s[i + 1] /\ i + 1 # 1 BY <1>2
  <2>2. s[i + 1].id # s[1].id BY <1>1, <2>1 DEF IdsOnce
  <2> QED BY <2>1, <2>2 DEF Ids
<1>6. Ids(s) \ {s[1].id} \subseteq Ids(t)
  <2> SUFFICES ASSUME NEW j \in DOMAIN s, s[j].id # s[1].id PROVE s[j].id \in Ids(t) BY DEF Ids
  <2>1. j # 1 OBVIOUS
  <2> QED BY <1>3, <2>1 DEF Ids
<1>7. s[1].id \in Ids(s) BY <1>1 DEF Ids
<1> QED BY <1>1, <1>4, <1>5, <1>6, <1>7 DEF t

LEMMA NoneMatched == Matched(<<>>, <<>>, {}, {})
BY DEF Matched, IdsOnce, Ids, ResultsOnce, ResultIds, EventsOnce, EventIds

\* A read is started: a new id, asked for and awaited.
LEMMA MatchStart ==
  ASSUME NEW a \in Seq(Requests), NEW q, NEW m, NEW w, Matched(a, q, m, w),
         NEW x \in Requests, NEW f, f.userdata.id = x.id, x.id \notin EventIds(w)
  PROVE  Matched(Append(a, x), q, m, w \cup {f})
<1>1. x.id \notin Ids(a) /\ x.id \notin Ids(q) /\ x.id \notin ResultIds(m) BY DEF Matched
<1>2. IdsOnce(Append(a, x)) /\ Ids(Append(a, x)) = Ids(a) \cup {x.id}
  BY <1>1, AppendIds DEF Matched
<1>3. EventIds(w \cup {f}) = EventIds(w) \cup {x.id} BY DEF EventIds
<1>4. EventsOnce(w \cup {f}) BY DEF EventsOnce, EventIds, Matched
<1> QED BY <1>1, <1>2, <1>3, <1>4 DEF Matched

\* The DVD thread carries one out.
LEMMA MatchProcess ==
  ASSUME NEW a \in Seq(Requests), NEW q \in Seq(Results), NEW m, NEW w, Matched(a, q, m, w),
         a # <<>>, NEW r \in Results, r.id = Head(a).id
  PROVE  Matched(Tail(a), Append(q, r), m, w)
<1>1. IdsOnce(Tail(a)) /\ Ids(Tail(a)) = Ids(a) \ {r.id} /\ r.id \in Ids(a)
  BY TailIds DEF Matched
<1>2. r.id \notin Ids(q) BY <1>1 DEF Matched
<1>3. IdsOnce(Append(q, r)) /\ Ids(Append(q, r)) = Ids(q) \cup {r.id}
  BY <1>2, AppendIds DEF Matched
<1> QED BY <1>1, <1>3 DEF Matched

\* The end of a read takes its result, from the map or from the queue.
LEMMA RemoveEventId ==
  ASSUME NEW w, EventsOnce(w), NEW f \in w
  PROVE  EventsOnce(w \ {f}) /\ EventIds(w \ {f}) = EventIds(w) \ {f.userdata.id}
<1>1. EventsOnce(w \ {f}) BY DEF EventsOnce
<1>2. EventIds(w \ {f}) = EventIds(w) \ {f.userdata.id} BY DEF EventsOnce, EventIds
<1> QED BY <1>1, <1>2

LEMMA MatchTakeMapped ==
  ASSUME NEW a, NEW q, NEW m, NEW w, Matched(a, q, m, w),
         NEW r \in m, NEW f \in w, r.id = f.userdata.id
  PROVE  Matched(a, q, m \ {r}, w \ {f})
<1>1. ResultsOnce(m \ {r}) BY DEF Matched, ResultsOnce
<1>2. ResultIds(m \ {r}) = ResultIds(m) \ {r.id} /\ r.id \in ResultIds(m)
  BY DEF Matched, ResultsOnce, ResultIds
<1>3. EventsOnce(w \ {f}) /\ EventIds(w \ {f}) = EventIds(w) \ {r.id}
  BY RemoveEventId DEF Matched
<1> QED BY <1>1, <1>2, <1>3 DEF Matched

LEMMA MatchTakeQueued ==
  ASSUME NEW a, NEW q \in Seq(Results), NEW m, NEW w, Matched(a, q, m, w), q # <<>>,
         NEW f \in w, Head(q).id = f.userdata.id
  PROVE  Matched(a, Tail(q), m, w \ {f})
<1>1. /\ IdsOnce(Tail(q)) /\ Ids(Tail(q)) = Ids(q) \ {f.userdata.id}
      /\ f.userdata.id \in Ids(q)
  BY TailIds DEF Matched
<1>2. EventsOnce(w \ {f}) /\ EventIds(w \ {f}) = EventIds(w) \ {f.userdata.id}
  BY RemoveEventId DEF Matched
<1> QED BY <1>1, <1>2 DEF Matched

\* The result of another read is set aside.
LEMMA MatchSetAside ==
  ASSUME NEW a, NEW q \in Seq(Results), NEW m, NEW w, Matched(a, q, m, w), q # <<>>
  PROVE  Matched(a, Tail(q), Emplace(m, Head(q)), w)
<1> DEFINE r == Head(q)
<1>1. IdsOnce(Tail(q)) /\ Ids(Tail(q)) = Ids(q) \ {r.id} /\ r.id \in Ids(q)
  BY TailIds DEF Matched
<1> HIDE DEF r
<1>2. r.id \notin ResultIds(m) BY <1>1 DEF Matched
<1>3. Emplace(m, r) = m \cup {r} BY <1>2 DEF Emplace, ResultIds
<1>4. ResultIds(m \cup {r}) = ResultIds(m) \cup {r.id} BY DEF ResultIds
<1>5. ResultsOnce(m \cup {r}) BY <1>2 DEF ResultsOnce, ResultIds, Matched
<1>6. Matched(a, Tail(q), m \cup {r}, w) BY <1>1, <1>4, <1>5 DEF Matched
<1> QED BY <1>3, <1>6 DEF r

\* A state is saved: all results are set aside.
LEMMA MatchAll ==
  ASSUME NEW w, m_result_queue \in Seq(Results), Matched(<<>>, m_result_queue, m_result_map, w)
  PROVE  Matched(<<>>, <<>>, AllResults, w)
<1> DEFINE Q == {m_result_queue[i] : i \in DOMAIN m_result_queue}
<1>1. Ids(<<>>) = {} /\ IdsOnce(<<>>) BY DEF Ids, IdsOnce
<1>2. ResultIds(Q) = Ids(m_result_queue) /\ ResultsOnce(Q)
  BY DEF ResultIds, Ids, ResultsOnce, IdsOnce, Matched
<1>3. AllResults = m_result_map \cup Q
  <2>1. ASSUME NEW k \in DOMAIN m_result_queue
        PROVE  ~ \E r \in m_result_map : r.id = m_result_queue[k].id
    BY DEF Matched, ResultIds, Ids
  <2>2. ASSUME NEW k \in DOMAIN m_result_queue, NEW j \in 1 .. (k - 1)
        PROVE  m_result_queue[j].id # m_result_queue[k].id
    <3>1. j \in DOMAIN m_result_queue /\ j # k OBVIOUS
    <3> QED BY <3>1 DEF Matched, IdsOnce
  <2> QED BY <2>1, <2>2 DEF AllResults
<1> HIDE DEF Q
<1>4. ResultIds(m_result_map \cup Q) = ResultIds(m_result_map) \cup Ids(m_result_queue)
  BY <1>2 DEF ResultIds
<1>5. ResultsOnce(m_result_map \cup Q)
  <2> SUFFICES ASSUME NEW r \in m_result_map \cup Q, NEW p \in m_result_map \cup Q, r.id = p.id
               PROVE  r = p
    BY DEF ResultsOnce
  <2>1. ResultIds(m_result_map) \cap ResultIds(Q) = {} BY <1>1, <1>2 DEF Matched
  <2>2. r \in m_result_map <=> p \in m_result_map BY <2>1 DEF ResultIds
  <2>3. CASE r \in m_result_map BY <2>2, <2>3 DEF Matched, ResultsOnce
  <2>4. CASE r \in Q /\ p \in Q BY <1>2, <2>4 DEF ResultsOnce
  <2> QED BY <2>2, <2>3, <2>4
<1> QED BY <1>1, <1>3, <1>4, <1>5 DEF Matched

-----------------------------------------------------------------------------
\* The steps.

LEMMA InitMatch == Init => MatchInv
<1> SUFFICES ASSUME Init PROVE MatchInv OBVIOUS
<1>1. AwaitedReads = {} BY DEF Init, TimingInit, AwaitedReads, Reads
<1> QED BY <1>1, NoneMatched, StateAssumption DEF Init, MatchInv

\* Nothing of the drive changes, and the reads that are awaited stay the same.
LEMMA MatchFrame ==
  ASSUME MatchInv, UNCHANGED <<requests, m_result_queue, m_result_map, saved, current>>,
         Reads(m_event_queue') = Reads(m_event_queue),
         pc' = "FinishRead" <=> pc = "FinishRead",
         pc = "FinishRead" => UNCHANGED m_event_queue,
         pc \in {"Load", "Save"} => pc' = pc, pc' # "Load" \/ pc = "Load"
  PROVE  MatchInv'
<1>1. AwaitedReads' = AwaitedReads BY DEF AwaitedReads, Reads
<1>2. (pc # "Load" => Matched(requests, m_result_queue, m_result_map, AwaitedReads))'
  BY <1>1 DEF MatchInv
<1>3. (pc = "FinishRead" => current \notin m_event_queue)' BY DEF MatchInv
<1>4. (saved \in States /\ pc # "Save" =>
         Matched(<<>>, <<>>, saved.results, Reads(saved.timing.events)))'
  BY DEF MatchInv
<1> QED BY <1>2, <1>3, <1>4 DEF MatchInv

LEMMA MovedReads == ASSUME TimingType PROVE Reads(WithMoved) = Reads(m_event_queue)
<1>1. m_event_queue \subseteq WithMoved BY DEF WithMoved
<1>2. \A e \in WithMoved : IsRead(e) => e \in m_event_queue BY MovedEvents DEF IsRead
<1> QED BY <1>1, <1>2 DEF Reads

LEMMA ScheduledReads ==
  ASSUME TimingType, NEW s \in Seq(Schedulable), s # <<>>, \A i \in DOMAIN s : ~IsRead(s[i]),
         ScheduleEvents(s) \/ UNCHANGED m_event_queue
  PROVE  Reads(m_event_queue') = Reads(m_event_queue)
<1>1. \A e \in m_event_queue' : IsRead(e) => e \in m_event_queue BY ScheduledNoRead
<1>2. m_event_queue \subseteq m_event_queue' BY DEF ScheduleEvents
<1> QED BY <1>1, <1>2 DEF Reads

LEMMA StartReadMatch ==
  ASSUME TypeOK, ReadInv, MatchInv, NEW o \in Offsets, NEW t \in ReadTicks, StartRead(o, t)
  PROVE  MatchInv'
<1>0. TimingType /\ DriveType BY TypeParts
<1>1. AwaitedInv BY ReadParts
<1> DEFINE request == Request(m_next_id, o)
           event == [cycles |-> t, type |-> "FinishRead", userdata |-> request]
           f == Event(event, GetTicks, m_event_fifo_id)
<1>2. request \in Requests /\ request.id = m_next_id
  BY <1>0 DEF StartRead, DriveType, Request, Requests
<1>3. pc \in {"Block", "Callback"} /\ UNCHANGED <<pc, saved, m_result_queue, m_result_map>>
      /\ requests' = Append(requests, request)
  BY DEF StartRead
<1>4. m_event_queue' = m_event_queue \cup {f}
  <2>1. <<event>> \in Seq(Schedulable) /\ <<event>> # <<>>
    BY <1>2, TicksAssumption DEF Schedulable
  <2>2. m_event_queue' = m_event_queue \cup Entered(<<event>>, GetTicks)
    BY <1>0, <2>1, ScheduleType DEF StartRead
  <2>3. m_event_fifo_id + 1 - 1 = m_event_fifo_id BY <1>0 DEF TimingType
  <2>4. DOMAIN <<event>> = {1} /\ <<event>>[1] = event OBVIOUS
  <2>5. Entered(<<event>>, GetTicks) = {f} BY <2>3, <2>4 DEF Entered
  <2> QED BY <2>2, <2>5
<1>5. IsRead(f) /\ f.userdata = request BY DEF Event, IsRead
<1> HIDE DEF request, event, f
<1>6. AwaitedReads' = AwaitedReads \cup {f} BY <1>3, <1>4, <1>5 DEF AwaitedReads, Reads
<1>7. request.id \notin EventIds(AwaitedReads)
  <2> SUFFICES ASSUME NEW e \in AwaitedReads PROVE e.userdata.id # m_next_id BY <1>2 DEF EventIds
  <2>1. Awaited(e) /\ e \in Events /\ IsRead(e)
    BY <1>0, <1>3 DEF AwaitedReads, Reads, Awaited, TimingType
  <2>2. e.userdata.id < m_next_id BY <1>1, <1>3, <2>1 DEF AwaitedInv
  <2>3. e.userdata.id \in Nat BY <2>1 DEF Events, IsRead, Requests
  <2> QED BY <1>0, <2>2, <2>3 DEF DriveType
<1>8. Matched(requests, m_result_queue, m_result_map, AwaitedReads) BY <1>3 DEF MatchInv
<1>9. Matched(requests', m_result_queue, m_result_map, AwaitedReads')
  BY <1>0, <1>2, <1>3, <1>5, <1>6, <1>7, <1>8, MatchStart DEF DriveType
<1> QED BY <1>3, <1>9 DEF MatchInv

\* An event that runs is still awaited, as the current one.
LEMMA RunEventMatch ==
  ASSUME TypeOK, MatchInv, NEW e \in m_event_queue, RunEvent(e) PROVE MatchInv'
<1>1. UNCHANGED <<requests, m_result_queue, m_result_map, saved>> /\ pc = "Advance"
      /\ m_event_queue' = m_event_queue \ {e} /\ current' = e
      /\ pc' \in {"FinishRead", "SetDisc", "Callback"} /\ (pc' = "FinishRead" <=> IsRead(e))
  BY DEF RunEvent, PopEvent, dvdVars, IsRead
<1>2. AwaitedReads' = AwaitedReads BY <1>1 DEF AwaitedReads, Reads
<1>3. Matched(requests, m_result_queue, m_result_map, AwaitedReads) BY <1>1 DEF MatchInv
<1>4. Matched(requests', m_result_queue', m_result_map', AwaitedReads') BY <1>1, <1>2, <1>3
<1>5. (saved \in States /\ pc # "Save" =>
         Matched(<<>>, <<>>, saved.results, Reads(saved.timing.events)))'
  BY <1>1 DEF MatchInv
<1> QED BY <1>1, <1>4, <1>5 DEF MatchInv

LEMMA FinishReadMatch == ASSUME TypeOK, MatchInv, FinishRead PROVE MatchInv'
<1>0. m_result_queue \in Seq(Results) BY TypeParts DEF DriveType
<1>1. UNCHANGED <<requests, saved, current, m_event_queue>> /\ pc = "FinishRead"
      /\ pc' \in {"FinishRead", "Callback"}
  BY DEF FinishRead, timingVars, eventVars
<1>2. Matched(requests, m_result_queue, m_result_map, AwaitedReads) /\ current \notin m_event_queue
  BY <1>1 DEF MatchInv
<1>3. current \in AwaitedReads BY <1>1 DEF AwaitedReads
<1>4. pc' = "Callback" => AwaitedReads' = AwaitedReads \ {current}
  BY <1>1, <1>2 DEF AwaitedReads, Reads
<1>5. pc' = "FinishRead" => AwaitedReads' = AwaitedReads BY <1>1 DEF AwaitedReads
<1>6. Matched(requests, m_result_queue', m_result_map', AwaitedReads')
  <2>1. ASSUME NEW r \in m_result_map, r.id = current.userdata.id, pc' = "Callback",
               m_result_map' = m_result_map \ {r}, m_result_queue' = m_result_queue
        PROVE  Matched(requests, m_result_queue', m_result_map', AwaitedReads')
    BY <1>2, <1>3, <1>4, <2>1, MatchTakeMapped
  <2>2. ASSUME m_result_queue # <<>>, m_result_queue' = Tail(m_result_queue), pc' = "Callback",
               Head(m_result_queue).id = current.userdata.id, m_result_map' = m_result_map
        PROVE  Matched(requests, m_result_queue', m_result_map', AwaitedReads')
    BY <1>0, <1>2, <1>3, <1>4, <2>2, MatchTakeQueued
  <2>3. ASSUME m_result_queue # <<>>, m_result_queue' = Tail(m_result_queue), pc' = "FinishRead",
               m_result_map' = Emplace(m_result_map, Head(m_result_queue))
        PROVE  Matched(requests, m_result_queue', m_result_map', AwaitedReads')
    BY <1>0, <1>2, <1>5, <2>3, MatchSetAside
  <2> QED BY <1>1, <2>1, <2>2, <2>3 DEF FinishRead
<1>7. (saved \in States /\ pc # "Save" =>
         Matched(<<>>, <<>>, saved.results, Reads(saved.timing.events)))'
  BY <1>1 DEF MatchInv
<1>8. (pc = "FinishRead" => current \notin m_event_queue)' BY <1>1, <1>2
<1>9. Matched(requests', m_result_queue', m_result_map', AwaitedReads') BY <1>1, <1>6
<1> QED BY <1>7, <1>8, <1>9 DEF MatchInv

LEMMA ProcessMatch == ASSUME TypeOK, MatchInv, ProcessReadRequest PROVE MatchInv'
<1>0. DriveType BY TypeParts
<1>1. UNCHANGED <<m_event_queue, pc, current, m_result_map, saved>>
      /\ requests # <<>> /\ requests' = Tail(requests)
  BY DEF ProcessReadRequest, timingVars, eventVars
<1>2. PICK data \in {<<m_disc, Head(requests).offset>>, <<>>} :
        m_result_queue' = Append(m_result_queue, [id |-> Head(requests).id, data |-> data])
  BY DEF ProcessReadRequest
<1> DEFINE result == [id |-> Head(requests).id, data |-> data]
<1>3. result \in Results
  <2>1. Head(requests) \in Requests BY <1>0, <1>1 DEF DriveType
  <2>2. data \in ((Discs \cup {NoDisc}) \X Offsets) \cup {<<>>}
    BY <1>0, <1>2, <2>1 DEF DriveType, Requests
  <2> QED BY <2>1, <2>2 DEF Requests, Results
<1>4. result.id = Head(requests).id /\ m_result_queue' = Append(m_result_queue, result) BY <1>2
<1> HIDE DEF result
<1>5. AwaitedReads' = AwaitedReads BY <1>1 DEF AwaitedReads
<1>6. pc # "Load" => Matched(requests', m_result_queue', m_result_map', AwaitedReads')
  BY <1>0, <1>1, <1>3, <1>4, <1>5, MatchProcess DEF MatchInv, DriveType
<1>7. (saved \in States /\ pc # "Save" =>
         Matched(<<>>, <<>>, saved.results, Reads(saved.timing.events)))'
  BY <1>1 DEF MatchInv
<1>8. (pc = "FinishRead" => current \notin m_event_queue)' BY <1>1 DEF MatchInv
<1> QED BY <1>1, <1>6, <1>7, <1>8 DEF MatchInv

LEMMA SaveMatch == ASSUME TypeOK, ReadInv, MatchInv, Save \/ SaveDrive PROVE MatchInv'
<1>0. TimingType /\ DriveType /\ SavedType BY TypeParts
<1>1. CASE Save
  <2>1. UNCHANGED <<requests, m_result_queue, m_result_map>> /\ m_event_queue' = WithMoved
        /\ pc = "Out" /\ pc' = "Save"
    BY <1>1 DEF Save, SaveTiming, dvdVars
  <2>2. AwaitedReads' = AwaitedReads BY <1>0, <2>1, MovedReads DEF AwaitedReads
  <2>3. Matched(requests', m_result_queue', m_result_map', AwaitedReads')
    BY <2>1, <2>2 DEF MatchInv
  <2> QED BY <2>1, <2>3 DEF MatchInv
<1>2. CASE SaveDrive
  <2>1. UNCHANGED m_event_queue /\ pc = "Save" /\ pc' = "Out" /\ requests = <<>> /\ requests' = <<>>
        /\ m_result_queue' = <<>> /\ m_result_map' = AllResults
    BY <1>2 DEF SaveDrive, WaitUntilIdle, timingVars, eventVars
  <2>2. saved \in States BY <1>0, <2>1 DEF SavedType
  <2>3. saved'.timing = saved.timing /\ saved'.results = AllResults
    BY <1>2, <2>2 DEF SaveDrive, States
  <2>4. AwaitedReads' = AwaitedReads BY <2>1 DEF AwaitedReads
  <2>5. Matched(<<>>, m_result_queue, m_result_map, AwaitedReads) BY <2>1 DEF MatchInv
  <2>6. Matched(<<>>, <<>>, AllResults, AwaitedReads) BY <1>0, <2>5, MatchAll DEF DriveType
  <2>7. AwaitedReads = Reads(saved.timing.events)
    BY <2>1 DEF ReadInv, AwaitedReads
  <2> QED BY <2>1, <2>3, <2>4, <2>6, <2>7 DEF MatchInv
<1> QED BY <1>1, <1>2

LEMMA LoadMatch == ASSUME TypeOK, ReadInv, MatchInv, Load \/ LoadDrive PROVE MatchInv'
<1>0. SavedType BY TypeParts
<1>1. CASE Load
  <2>1. pc = "Out" /\ pc' = "Load" /\ saved' = saved BY <1>1 DEF Load
  <2> QED BY <2>1 DEF MatchInv
<1>2. CASE LoadDrive
  <2>1. UNCHANGED <<m_event_queue, saved>> /\ pc = "Load" /\ pc' = "LoadCards" /\ requests' = <<>>
        /\ m_result_queue' = <<>> /\ m_result_map' = saved.results
    BY <1>2 DEF LoadDrive, WaitUntilIdle, timingVars, eventVars
  <2>2. saved \in States BY <1>0, <2>1 DEF SavedType, InLoad
  <2>3. AwaitedReads' = Reads(saved.timing.events) BY <2>1 DEF AwaitedReads, ReadInv
  <2> QED BY <2>1, <2>2, <2>3 DEF MatchInv
<1> QED BY <1>1, <1>2

LEMMA SessionMatch == ASSUME OffIsEmpty, MatchInv, Stop \/ Start PROVE MatchInv'
<1>1. requests' = <<>> /\ m_result_queue' = <<>> /\ m_result_map' = {} /\ m_event_queue' = {}
      /\ saved' = saved /\ pc \in {"Out", "Off"} /\ pc' \in {"Out", "Off"}
  BY DEF Stop, Start, OffIsEmpty
<1>2. AwaitedReads' = {} BY <1>1 DEF AwaitedReads, Reads
<1> QED BY <1>1, <1>2, NoneMatched DEF MatchInv

LEMMA MatchStep == TypeOK /\ OffIsEmpty /\ ReadInv /\ MatchInv /\ [Next]_vars => MatchInv'
<1> SUFFICES ASSUME TypeOK, OffIsEmpty, ReadInv, MatchInv, [Next]_vars PROVE MatchInv' OBVIOUS
<1>0. TimingType BY TypeParts
<1> USE DEF dvdVars
<1>1. CASE UNCHANGED vars BY <1>1, MatchFrame DEF vars, timingVars, eventVars
<1>2. CASE Advance
  <2>1. Reads(m_event_queue') = Reads(m_event_queue)
    BY <1>0, <1>2, MovedReads DEF Advance, EndSlice
  <2> QED BY <1>2, <2>1, MatchFrame DEF Advance
<1>3. CASE EndAdvance \/ StartBlock \/ Leave
  BY <1>3, MatchFrame DEF EndAdvance, StartBlock, Leave, BeginSlice, timingVars, eventVars
<1>4. CASE IdleLoop \/ EndBlock
  BY <1>4, MatchFrame DEF IdleLoop, EndBlock, Idle, ChargeBlock, eventVars
<1>5. CASE CancelEvents
  <2>1. Reads(m_event_queue') = Reads(m_event_queue)
    BY <1>0, <1>5, MovedReads DEF CancelEvents, RemoveEvent, RemoveAllEvents, Reads, IsRead
  <2> QED BY <1>5, <2>1, MatchFrame DEF CancelEvents
<1>6. ASSUME NEW d \in Discs, ChangeDisc(d) PROVE MatchInv'
  <2> DEFINE s == <<[cycles |-> 0, type |-> "Eject", userdata |-> NoDisc],
                    [cycles |-> Second, type |-> "Insert", userdata |-> d]>>
  <2>1. s \in Seq(Schedulable) /\ s # <<>> BY TicksAssumption DEF Schedulable
  <2>2. \A i \in DOMAIN s : ~IsRead(s[i]) BY DEF IsRead
  <2>3. ScheduleEvents(s) BY <1>6 DEF ChangeDisc
  <2>4. Reads(m_event_queue') = Reads(m_event_queue)
    BY <1>0, <2>1, <2>2, <2>3, ScheduledReads
  <2> QED BY <1>6, <2>4, MatchFrame DEF ChangeDisc
<1>7. CASE SetDisc \/ InsertFails
  BY <1>7, MatchFrame DEF SetDisc, InsertFails, timingVars, eventVars
<1>8. CASE LoadCards
  <2> DEFINE s == <<[cycles |-> 0, type |-> "Card", userdata |-> NoReply],
                    [cycles |-> Second, type |-> "Card", userdata |-> NoReply]>>
  <2>1. s \in Seq(Schedulable) /\ s # <<>> BY TicksAssumption DEF Schedulable
  <2>2. \A i \in DOMAIN s : ~IsRead(s[i]) BY DEF IsRead
  <2>3. ScheduleEvents(s) \/ UNCHANGED m_event_queue BY <1>8 DEF LoadCards, timingVars, eventVars
  <2>4. Reads(m_event_queue') = Reads(m_event_queue)
    BY <1>0, <2>1, <2>2, <2>3, ScheduledReads
  <2> QED BY <1>8, <2>4, MatchFrame DEF LoadCards
<1>9. CASE LoadCpu BY <1>9, MatchFrame DEF LoadCpu, eventVars
<1>10. CASE OtherThread BY <1>10, MatchFrame DEF OtherThread, ScheduleEventFromOther
<1>11. CASE Return
  <2>1. UNCHANGED <<requests, m_result_queue, m_result_map, saved, m_event_queue>>
        /\ pc = "Callback" /\ pc' = "Advance"
    BY <1>11 DEF Return, timingVars, eventVars
  <2>2. AwaitedReads' = AwaitedReads BY <2>1 DEF AwaitedReads
  <2> QED BY <2>1, <2>2 DEF MatchInv
<1> QED
  BY <1>1, <1>2, <1>3, <1>4, <1>5, <1>6, <1>7, <1>8, <1>9, <1>10, <1>11, StartReadMatch,
     RunEventMatch, FinishReadMatch, ProcessMatch, SaveMatch, LoadMatch, SessionMatch
  DEF Next, CpuThread

-----------------------------------------------------------------------------
\* Counting.

LEMMA CountInjective ==
  ASSUME NEW n \in Nat, NEW f, DOMAIN f = 1 .. n, \A i, j \in 1 .. n : f[i] = f[j] => i = j,
         NEW T, T = {f[i] : i \in 1 .. n}, f \in [1 .. n -> T]
  PROVE  IsFiniteSet(T) /\ Cardinality(T) = n
<1>1. f \in Bijection(1 .. n, T) BY Fun_IsBij
<1>2. ExistsBijection(1 .. n, T) BY <1>1 DEF ExistsBijection
<1> QED BY <1>2, FS_CountingElements, FS_NatBijection

\* The ids of two sequences, one after the other.
IdSeq(a, q) == [i \in DOMAIN a |-> a[i].id] \o [i \in DOMAIN q |-> q[i].id]

LEMMA ConcatIds ==
  ASSUME NEW a \in Seq(Requests), NEW q \in Seq(Results),
         IdsOnce(a), IdsOnce(q), Ids(a) \cap Ids(q) = {}
  PROVE  /\ {IdSeq(a, q)[i] : i \in DOMAIN IdSeq(a, q)} = Ids(a) \cup Ids(q)
         /\ IsFiniteSet(Ids(a) \cup Ids(q)) /\ Len(IdSeq(a, q)) \in Nat
         /\ Cardinality(Ids(a) \cup Ids(q)) = Len(IdSeq(a, q))
<1> DEFINE c == IdSeq(a, q)
           s == [i \in DOMAIN a |-> a[i].id]
           t == [i \in DOMAIN q |-> q[i].id]
           A == Len(a)
           N == Len(a) + Len(q)
<1>1. A \in Nat /\ Len(q) \in Nat /\ N \in Nat /\ DOMAIN a = 1 .. A /\ DOMAIN q = 1 .. Len(q)
  OBVIOUS
<1>2. s \in [1 .. A -> Nat] /\ t \in [1 .. Len(q) -> Nat]
  <2>1. \A i \in DOMAIN a : a[i] \in Requests OBVIOUS
  <2>2. \A i \in DOMAIN q : q[i] \in Results OBVIOUS
  <2> QED BY <1>1, <2>1, <2>2 DEF Requests, Results
<1>3. s \in Seq(Nat) /\ t \in Seq(Nat) /\ Len(s) = A /\ Len(t) = Len(q) BY <1>1, <1>2
<1>4. c = s \o t BY DEF IdSeq
<1>5. \A i \in 1 .. A : s[i] = a[i].id BY <1>1
<1>6. \A i \in 1 .. Len(q) : t[i] = q[i].id BY <1>1
<1> HIDE DEF c, s, t
<1>7. c \in [1 .. N -> Nat] /\ Len(c) = N /\ DOMAIN c = 1 .. N
      /\ \A i \in 1 .. N : c[i] = IF i <= A THEN s[i] ELSE t[i - A]
  <2>1. /\ s \o t \in Seq(Nat) /\ Len(s \o t) = Len(s) + Len(t)
        /\ \A i \in 1 .. Len(s) + Len(t) :
             (s \o t)[i] = IF i <= Len(s) THEN s[i] ELSE t[i - Len(s)]
    BY <1>3, ConcatProperties
  <2>2. c \in Seq(Nat) /\ Len(c) = N BY <1>3, <1>4, <2>1
  <2>3. c \in [1 .. N -> Nat] /\ DOMAIN c = 1 .. N BY <2>2, LenProperties
  <2>4. \A i \in 1 .. N : c[i] = IF i <= A THEN s[i] ELSE t[i - A]
    BY <1>3, <1>4, <2>1
  <2> QED BY <2>2, <2>3, <2>4
<1>8. ASSUME NEW i \in 1 .. N
      PROVE  \/ i \in 1 .. A /\ c[i] = a[i].id
             \/ i - A \in 1 .. Len(q) /\ c[i] = q[i - A].id /\ i > A
  <2>1. CASE i <= A BY <1>1, <1>5, <1>7, <2>1
  <2>2. CASE i > A
    <3>1. i - A \in 1 .. Len(q) BY <1>1, <2>2
    <3> QED BY <1>1, <1>6, <1>7, <2>2, <3>1
  <2> QED BY <1>1, <2>1, <2>2
<1>9. ASSUME NEW i \in 1 .. A PROVE i \in 1 .. N /\ c[i] = a[i].id BY <1>1, <1>5, <1>7
<1>10. ASSUME NEW i \in 1 .. Len(q) PROVE i + A \in 1 .. N /\ c[i + A] = q[i].id
  <2>1. i + A \in 1 .. N /\ ~(i + A <= A) /\ (i + A) - A = i BY <1>1
  <2> QED BY <1>6, <1>7, <2>1
<1>11. {c[i] : i \in 1 .. N} = Ids(a) \cup Ids(q)
  <2>1. \A i \in 1 .. N : c[i] \in Ids(a) \cup Ids(q) BY <1>1, <1>8 DEF Ids
  <2>2. \A x \in Ids(a) : \E i \in 1 .. N : x = c[i] BY <1>1, <1>9 DEF Ids
  <2>3. \A x \in Ids(q) : \E i \in 1 .. N : x = c[i] BY <1>1, <1>10 DEF Ids
  <2>4. {c[i] : i \in 1 .. N} \subseteq Ids(a) \cup Ids(q) BY <2>1
  <2>5. Ids(a) \cup Ids(q) \subseteq {c[i] : i \in 1 .. N} BY <2>2, <2>3
  <2> QED BY <2>4, <2>5
<1>12. ASSUME NEW i \in 1 .. N, NEW j \in 1 .. N, c[i] = c[j] PROVE i = j
  <2>1. \A x \in 1 .. A : a[x].id \in Ids(a) BY <1>1 DEF Ids
  <2>2. \A x \in 1 .. Len(q) : q[x].id \in Ids(q) BY <1>1 DEF Ids
  <2>3. CASE i \in 1 .. A /\ j \in 1 .. A BY <1>1, <1>9, <1>12, <2>3 DEF IdsOnce
  <2>4. CASE i - A \in 1 .. Len(q) /\ j - A \in 1 .. Len(q) /\ i > A /\ j > A
    <3>1. c[i] = q[i - A].id /\ c[j] = q[j - A].id BY <1>1, <1>8, <2>4
    <3>2. i - A = j - A BY <1>1, <1>12, <2>4, <3>1 DEF IdsOnce
    <3> QED BY <1>1, <3>2
  <2> QED BY <1>8, <1>12, <2>1, <2>2, <2>3, <2>4
<1>13. c \in [1 .. N -> Ids(a) \cup Ids(q)] BY <1>7, <1>11
<1> HIDE DEF A, N
<1>14. IsFiniteSet(Ids(a) \cup Ids(q)) /\ Cardinality(Ids(a) \cup Ids(q)) = N
  BY <1>1, <1>7, <1>11, <1>12, <1>13, CountInjective
<1> QED BY <1>1, <1>7, <1>11, <1>14 DEF c

\* There are as many events as ids.
LEMMA CountEvents ==
  ASSUME NEW w, EventsOnce(w), IsFiniteSet(EventIds(w))
  PROVE  Cardinality(w) = Cardinality(EventIds(w))
<1> DEFINE f == [e \in w |-> e.userdata.id]
<1>1. f \in [w -> EventIds(w)] BY DEF EventIds
<1>2. \A x \in EventIds(w) : \E e \in w : f[e] = x BY DEF EventIds
<1>3. \A d, e \in w : f[d] = f[e] => d = e BY DEF EventsOnce
<1> HIDE DEF f
<1>4. f \in Bijection(w, EventIds(w)) BY <1>1, <1>2, <1>3, Fun_IsBij
<1>5. ExistsBijection(EventIds(w), w) BY <1>4, Fun_ExistsBijSymmetric DEF ExistsBijection
<1> QED BY <1>5, FS_Bijection

LEMMA MatchCounts ==
  ASSUME NEW a \in Seq(Requests), NEW q \in Seq(Results), NEW m, NEW w, Matched(a, q, m, w),
         NEW n \in Nat, ResultIds(m) \subseteq 0 .. n
  PROVE  /\ {IdSeq(a, q)[i] : i \in DOMAIN IdSeq(a, q)} = Ids(a) \cup Ids(q)
         /\ Cardinality(Ids(a) \cup Ids(q)) = Len(IdSeq(a, q))
         /\ Cardinality(ResultIds(m)) + Len(IdSeq(a, q)) = Cardinality(w)
<1> DEFINE c == IdSeq(a, q)
<1>1. /\ {c[i] : i \in DOMAIN c} = Ids(a) \cup Ids(q)
      /\ IsFiniteSet(Ids(a) \cup Ids(q)) /\ Len(c) \in Nat
      /\ Cardinality(Ids(a) \cup Ids(q)) = Len(c)
  BY ConcatIds DEF Matched
<1> HIDE DEF c
<1>2. IsFiniteSet(ResultIds(m))
  <2>1. IsFiniteSet(0 .. n) BY FS_Interval
  <2> QED BY <2>1, FS_Subset
<1>3. ResultIds(m) \cap (Ids(a) \cup Ids(q)) = {}
      /\ EventIds(w) = ResultIds(m) \cup (Ids(a) \cup Ids(q))
  BY DEF Matched
<1>4. IsFiniteSet(EventIds(w))
      /\ Cardinality(EventIds(w)) = Cardinality(ResultIds(m)) + Cardinality(Ids(a) \cup Ids(q))
                                      - Cardinality(ResultIds(m) \cap (Ids(a) \cup Ids(q)))
  <2> DEFINE I == Ids(a) \cup Ids(q)
  <2>1. IsFiniteSet(I) /\ IsFiniteSet(ResultIds(m)) BY <1>1, <1>2
  <2> HIDE DEF I
  <2>2. IsFiniteSet(ResultIds(m) \cup I)
        /\ Cardinality(ResultIds(m) \cup I) = Cardinality(ResultIds(m)) + Cardinality(I)
                                                - Cardinality(ResultIds(m) \cap I)
    BY <2>1, FS_Union
  <2> QED BY <1>3, <2>2 DEF I
<1>5. Cardinality(ResultIds(m)) \in Nat /\ Cardinality(ResultIds(m) \cap (Ids(a) \cup Ids(q))) = 0
  BY <1>2, <1>3, FS_CardinalityType, FS_EmptySet
<1>6. Cardinality(w) = Cardinality(EventIds(w)) BY <1>4, CountEvents DEF Matched
<1>7. Cardinality(ResultIds(m)) + Len(c) = Cardinality(w) BY <1>1, <1>4, <1>5, <1>6
<1> QED BY <1>1, <1>7 DEF c

\* Every read that is waited for is in exactly one place, for any number of reads and whatever
\* is saved, loaded, cancelled or changed in between.
THEOREM ReadsMatchedCorrect == Spec => []ReadsMatched
<1> DEFINE Inv == TypeOK /\ OffIsEmpty /\ ReadInv /\ MatchInv
<1>1. Init => Inv BY InitType, InitOff, InitRead, InitMatch
<1>2. Inv /\ [Next]_vars => Inv' BY TypeStep, OffStep, ReadStep, MatchStep
<1>3. Inv => ReadsMatched
  <2> SUFFICES ASSUME Inv, pc # "Load" PROVE ReadsMatched BY DEF ReadsMatched
  <2>1. DriveType BY TypeParts
  <2>2. Matched(requests, m_result_queue, m_result_map, AwaitedReads) BY DEF MatchInv
  <2>3. ResultIds(m_result_map) \subseteq 0 .. m_next_id
    <3>1. \A r \in m_result_map : r \in Results /\ r.id < m_next_id
      BY <2>1 DEF DriveType, ReadInv, Found
    <3> QED BY <2>1, <3>1 DEF ResultIds, Results, DriveType
  <2> DEFINE ids == [i \in DOMAIN requests |-> requests[i].id]
                      \o [i \in DOMAIN m_result_queue |-> m_result_queue[i].id]
             waiting == {e \in m_event_queue : e.type = "FinishRead"}
                          \cup (IF pc = "FinishRead" THEN {current} ELSE {})
             mapped == {r.id : r \in m_result_map}
             queued == {ids[i] : i \in DOMAIN ids}
  <2>4. waiting = AwaitedReads /\ mapped = ResultIds(m_result_map)
    BY DEF AwaitedReads, Reads, IsRead, ResultIds
  <2>5. /\ queued = Ids(requests) \cup Ids(m_result_queue)
        /\ Cardinality(Ids(requests) \cup Ids(m_result_queue)) = Len(ids)
        /\ Cardinality(ResultIds(m_result_map)) + Len(ids) = Cardinality(AwaitedReads)
    <3>1. ids = IdSeq(requests, m_result_queue) BY DEF IdSeq
    <3> DEFINE c == IdSeq(requests, m_result_queue)
    <3>2. requests \in Seq(Requests) /\ m_result_queue \in Seq(Results) /\ m_next_id \in Nat
      BY <2>1 DEF DriveType
    <3>3. /\ {c[i] : i \in DOMAIN c} = Ids(requests) \cup Ids(m_result_queue)
          /\ Cardinality(Ids(requests) \cup Ids(m_result_queue)) = Len(c)
          /\ Cardinality(ResultIds(m_result_map)) + Len(c) = Cardinality(AwaitedReads)
      BY <2>2, <2>3, <3>2, MatchCounts
    <3> QED BY <3>1, <3>3
  <2>6. {e.userdata.id : e \in waiting} = EventIds(waiting) BY DEF EventIds
  <2> HIDE DEF ids, waiting, mapped, queued
  <2>7. /\ mapped \cap queued = {}
        /\ mapped \cup queued = {e.userdata.id : e \in waiting}
        /\ Cardinality(queued) = Len(ids)
        /\ Cardinality(mapped) + Len(ids) = Cardinality(waiting)
    BY <2>2, <2>4, <2>5, <2>6 DEF Matched
  <2> QED BY <2>7 DEF ReadsMatched, ids, waiting, mapped, queued
<1> QED BY <1>1, <1>2, <1>3, PTL DEF Spec
=============================================================================
