----------------------------- MODULE CoreTiming -----------------------------
(***************************************************************************)
(* CoreTiming (Core/CoreTiming.cpp): the emulated clock and the events     *)
(* that are due at its ticks.  The CPU runs slices: Advance ends one, runs *)
(* the events that are due and cuts the next one so that it ends at the    *)
(* first event left.  An event scheduled in the middle of a slice by the   *)
(* CPU thread shortens the slice; one scheduled by another thread waits in *)
(* a queue of its own until the CPU thread moves it.                       *)
(*                                                                         *)
(* This module holds the state and the operations; DVDThread composes them *)
(* into the steps of the CPU thread.  The heap is the set of its events:   *)
(* which of several equal ones pop_heap would return is left open.         *)
(*                                                                         *)
(* The clock is in ticks of the emulated machine, the downcount in cycles  *)
(* of a CPU that is faster or slower by the overclock factor; every        *)
(* conversion between the two truncates.  A factor is a fraction           *)
(* <<numerator, denominator>>, and what single precision loses beyond the  *)
(* truncation is left out.                                                 *)
(***************************************************************************)
EXTENDS Integers, Sequences

CONSTANTS
  MAX_SLICE_LENGTH,
  Factors             \* the overclock factors that may be configured

ASSUME SliceAssumption == MAX_SLICE_LENGTH \in Nat \ {0}
ASSUME FactorAssumption == Factors \subseteq (Nat \ {0}) \X (Nat \ {0})

VARIABLES
  m_event_queue,      \* set of [time, fifo_order, type, userdata]
  m_ts_queue,         \* what other threads scheduled: [cycles, type, userdata], in order
  m_event_fifo_id,
  global_timer,       \* the clock at the beginning of the slice
  slice_length,
  downcount,          \* cycles left in the slice, negative when a block ran past its end
  m_is_global_timer_sane,
  m_config_oc_factor,
  m_last_oc_factor    \* the factor of the slice, with its inverse last_OC_factor_inverted

sliceVars == <<slice_length, downcount>>
factorVars == <<m_config_oc_factor, m_last_oc_factor>>
clockVars == <<global_timer, m_is_global_timer_sane, factorVars, sliceVars>>
eventVars == <<m_event_queue, m_ts_queue, m_event_fifo_id>>
timingVars == <<eventVars, clockVars>>

-----------------------------------------------------------------------------
\* Conversions.

\* static_cast<int> of the quotient: towards zero.
Truncated(a, b) == IF a >= 0 THEN a \div b ELSE 0 - ((0 - a) \div b)

ToCycles(factor, n) == Truncated(n * factor[2], factor[1])
ToDowncount(factor, n) == Truncated(n * factor[1], factor[2])

DowncountToCycles(n) == ToCycles(m_last_oc_factor, n)
CyclesToDowncount(n) == ToDowncount(m_last_oc_factor, n)

\* Init computes the downcount before it sets the factor, which is 0.0 in the first session.
TimingInit ==
  /\ m_event_queue = {} /\ m_ts_queue = <<>> /\ m_event_fifo_id = 0
  /\ global_timer = 0 /\ m_is_global_timer_sane = TRUE
  /\ slice_length = MAX_SLICE_LENGTH /\ downcount = 0
  /\ m_config_oc_factor \in Factors /\ m_last_oc_factor = m_config_oc_factor

GetTicks ==
  global_timer
    + (IF m_is_global_timer_sane THEN 0 ELSE slice_length - DowncountToCycles(downcount))

-----------------------------------------------------------------------------
\* Scheduling.

NotNegative(cycles) == IF cycles > 0 THEN cycles ELSE 0

\* Mutants: the slice is never shortened; the cycles already executed are not accounted for.
SliceNotShortened(cycles) == UNCHANGED sliceVars

CyclesNotAccounted(cycles) ==
  LET left == NotNegative(cycles) IN
  /\ slice_length' = slice_length
  /\ downcount' = IF DowncountToCycles(downcount) > left THEN CyclesToDowncount(left) ELSE downcount

ForceExceptionCheck(cycles) ==
  LET left == NotNegative(cycles) IN
  IF DowncountToCycles(downcount) > left
  THEN /\ slice_length' = slice_length - (DowncountToCycles(downcount) - left)
       /\ downcount' = CyclesToDowncount(left)
  ELSE UNCHANGED sliceVars

Event(e, base, order) ==
  [time |-> base + e.cycles, fifo_order |-> order, type |-> e.type, userdata |-> e.userdata]

\* The events of a sequence, entered one after the other at the given base time.
Entered(s, base) ==
  {Event(s[i], base, m_event_fifo_id + i - 1) : i \in DOMAIN s}

\* ScheduleEvent on the CPU thread, for each event of s.  Where it is used with more than one
\* event the first has no delay: the slice ends at once, and the clock stands until the others
\* are entered.
ScheduleEvents(s) ==
  /\ m_event_queue' = m_event_queue \cup Entered(s, GetTicks)
  /\ m_event_fifo_id' = m_event_fifo_id + Len(s)
  /\ IF m_is_global_timer_sane
     THEN UNCHANGED sliceVars
     ELSE \E i \in DOMAIN s : /\ \A j \in DOMAIN s : s[i].cycles <= s[j].cycles
                             /\ ForceExceptionCheck(s[i].cycles)
  /\ UNCHANGED <<m_ts_queue, global_timer, m_is_global_timer_sane, factorVars>>

\* ScheduleEvent on any other thread.
ScheduleEventFromOther(e) ==
  m_ts_queue' = Append(m_ts_queue, e) /\ UNCHANGED <<m_event_queue, m_event_fifo_id, clockVars>>

\* MoveEvents; what becomes of the moved events is up to the caller.
MoveEvents ==
  m_ts_queue' = <<>> /\ m_event_fifo_id' = m_event_fifo_id + Len(m_ts_queue)

WithMoved == m_event_queue \cup Entered(m_ts_queue, global_timer)

RemoveEvent(type) ==
  /\ m_event_queue' = {e \in m_event_queue : e.type # type}
  /\ UNCHANGED <<m_ts_queue, m_event_fifo_id, clockVars>>

RemoveAllEvents(type) ==
  MoveEvents /\ m_event_queue' = {e \in WithMoved : e.type # type} /\ UNCHANGED clockVars

-----------------------------------------------------------------------------
\* Advance: its beginning, one turn of its loop, and its end.

\* The configuration was refreshed before, and the next slice has its factor.
EndSlice ==
  /\ MoveEvents /\ m_event_queue' = WithMoved
  /\ global_timer' = global_timer + (slice_length - DowncountToCycles(downcount))
  /\ m_last_oc_factor' = m_config_oc_factor'
  /\ slice_length' = MAX_SLICE_LENGTH /\ downcount' = downcount
  /\ m_is_global_timer_sane' = TRUE

Due == {e \in m_event_queue : e.time <= global_timer}

SortsAfter(e, f) == e.time > f.time \/ (e.time = f.time /\ e.fifo_order > f.fifo_order)

PopEvent(e) ==
  /\ e \in Due /\ \A f \in m_event_queue : ~SortsAfter(e, f)
  /\ m_event_queue' = m_event_queue \ {e}
  /\ UNCHANGED <<m_ts_queue, m_event_fifo_id, clockVars>>

BeginSlice ==
  /\ Due = {}
  /\ m_is_global_timer_sane' = FALSE
  /\ \E n \in {e.time - global_timer : e \in m_event_queue} \cup {slice_length} :
        /\ n <= slice_length /\ \A e \in m_event_queue : n <= e.time - global_timer
        /\ slice_length' = n /\ downcount' = CyclesToDowncount(n)
  /\ UNCHANGED <<eventVars, global_timer, factorVars>>

-----------------------------------------------------------------------------
\* What the CPU core does with the downcount: a block is charged as a whole, after it ran.

ChargeBlock(cycles) ==
  downcount' = downcount - cycles
    /\ UNCHANGED <<eventVars, global_timer, m_is_global_timer_sane, factorVars, slice_length>>

Idle == ChargeBlock(downcount)

-----------------------------------------------------------------------------
\* DoState writes the fields in this order: the next order number before the events move.
TimingState ==
  [slice_length |-> slice_length, global_timer |-> global_timer,
   oc_factor |-> m_last_oc_factor, fifo_id |-> m_event_fifo_id, events |-> WithMoved]

SaveTiming == MoveEvents /\ m_event_queue' = WithMoved /\ UNCHANGED clockVars

\* In read mode MoveEvents numbers the waiting events before the queue is replaced.
LoadTiming(s) ==
  /\ slice_length' = s.slice_length /\ global_timer' = s.global_timer
  /\ m_last_oc_factor' = s.oc_factor
  /\ m_event_fifo_id' = s.fifo_id + Len(m_ts_queue) /\ m_ts_queue' = <<>>
  /\ m_event_queue' = s.events
  /\ UNCHANGED <<downcount, m_is_global_timer_sane, m_config_oc_factor>>
=============================================================================
