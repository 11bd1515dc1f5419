----------------------------- MODULE DVDThread ------------------------------
(***************************************************************************)
(* The DVD thread (Core/HW/DVD/DVDThread.cpp) on CoreTiming: the CPU       *)
(* thread starts reads of the disc, the DVD thread carries them out in     *)
(* order, and an event of CoreTiming takes each result at the emulated     *)
(* time at which the drive would have delivered it.  Saving and loading a  *)
(* state, changing the disc and ending the session come in between.        *)
(*                                                                         *)
(* The work queue is used by one thread and keeps what WorkQueue promises, *)
(* so a read is one step here: WorkQueueThread shows why that is sound.    *)
(***************************************************************************)
EXTENDS CoreTiming, FiniteSets

CONSTANTS
  Discs, NoDisc,
  BootDisc,       \* the disc of the first session
  Offsets,        \* what a read may ask for
  ReadTicks,      \* how long a read may take the emulated drive
  OtherTicks,     \* the delays of events from other threads
  Second,         \* the ticks of one second
  MaxBlock,       \* the cycles of the longest block of instructions, as the downcount has them
  MaxTicks,       \* bound: no block begins after this tick
  MaxEvents,      \* bound: how many events are scheduled in a session
  MaxWaiting,     \* bound: how many events of other threads wait to be moved
  MaxReads,       \* bound: how many reads are started in a session
  NoState,        \* no state was saved
  NoReply,
  Scenarios       \* bound: which of the things that come in between are combined

Interferences == {"Other", "Disc", "Cancel", "State", "Card", "Session", "Overclock", "Error"}

ASSUME DiscAssumption == NoDisc \notin Discs /\ BootDisc \in Discs
ASSUME TicksAssumption ==
  ReadTicks \subseteq Nat /\ OtherTicks \subseteq Nat /\ Second \in Nat /\ MaxBlock \in Nat
ASSUME ScenarioAssumption == Scenarios \subseteq SUBSET Interferences

VARIABLES
  pc,             \* where the CPU thread is
  current,        \* the event whose callback runs
  requests,       \* m_dvd_thread: the requests that are not yet processed
  m_result_queue, m_result_map,
  m_next_id, m_disc,
  reply,          \* what FinishRead handed to the drive in this callback
  saved,          \* the saved state
  scenario        \* what comes in between the reads, chosen once

dvdVars == <<requests, m_result_queue, m_result_map, m_next_id, m_disc>>
vars == <<timingVars, pc, current, dvdVars, reply, saved, scenario>>

Request(id, offset) == [id |-> id, offset |-> offset, disc |-> m_disc]

Init ==
  /\ TimingInit
  /\ pc = "Out" /\ current = NoReply /\ reply = NoReply /\ saved = NoState
  /\ requests = <<>> /\ m_result_queue = <<>> /\ m_result_map = {}
  /\ m_next_id = 0 /\ m_disc = BootDisc
  /\ scenario \in Scenarios
  /\ "Overclock" \in scenario \/ m_config_oc_factor[1] = m_config_oc_factor[2]

-----------------------------------------------------------------------------
\* The DVD thread.

\* The data is what the disc holds at the offset, or nothing when it cannot be read.
ProcessReadRequest ==
  /\ requests # <<>> /\ requests' = Tail(requests)
  /\ \E data \in {<<m_disc, Head(requests).offset>>, <<>>} :
        /\ data = <<>> => "Error" \in scenario
        /\ m_result_queue' = Append(m_result_queue, [id |-> Head(requests).id, data |-> data])
  /\ UNCHANGED <<timingVars, pc, current, m_result_map, m_next_id, m_disc, reply, saved, scenario>>

\* Another thread schedules an event, as the reset button or a USB transfer does.
OtherThread ==
  /\ "Other" \in scenario /\ pc # "Off"
  /\ Len(m_ts_queue) < MaxWaiting /\ m_event_fifo_id + Len(m_ts_queue) < MaxEvents
  /\ \E c \in OtherTicks :
        ScheduleEventFromOther([cycles |-> c, type |-> "Other", userdata |-> NoReply])
  /\ UNCHANGED <<pc, current, dvdVars, reply, saved, scenario>>

-----------------------------------------------------------------------------
\* The CPU thread: slices and blocks.

\* The user may have changed the overclock factor, or the headset its refresh rate.
RefreshConfig ==
  m_config_oc_factor' \in IF "Overclock" \in scenario THEN Factors ELSE {m_config_oc_factor}

Advance ==
  /\ pc = "Out" \/ (pc = "In" /\ downcount <= 0)
  /\ RefreshConfig /\ EndSlice /\ pc' = "Advance"
  /\ UNCHANGED <<current, dvdVars, reply, saved, scenario>>

EndAdvance ==
  /\ pc = "Advance" /\ BeginSlice /\ pc' = "In"
  /\ UNCHANGED <<current, dvdVars, reply, saved, scenario>>

StartBlock ==
  /\ pc = "In" /\ downcount > 0 /\ GetTicks < MaxTicks /\ pc' = "Block"
  /\ UNCHANGED <<timingVars, current, dvdVars, reply, saved, scenario>>

\* The block waits for an event, and the time until the end of the slice is skipped.
IdleLoop ==
  /\ pc = "Block" /\ downcount > 0 /\ Idle
  /\ UNCHANGED <<pc, current, dvdVars, reply, saved, scenario>>

EndBlock ==
  /\ pc = "Block" /\ pc' = "In"
  /\ \E n \in 1 .. MaxBlock : ChargeBlock(n)
  /\ UNCHANGED <<current, dvdVars, reply, saved, scenario>>

\* The CPU thread leaves the CPU core: jobs run here.
Leave ==
  /\ pc = "In" /\ pc' = "Out"
  /\ UNCHANGED <<timingVars, current, dvdVars, reply, saved, scenario>>

-----------------------------------------------------------------------------
\* Reads.  The code that starts one runs in a block or in the callback of an event.

StartRead(offset, ticks) ==
  /\ pc \in {"Block", "Callback"} /\ m_disc # NoDisc
  /\ m_next_id < MaxReads /\ m_event_fifo_id + Len(m_ts_queue) < MaxEvents
  /\ LET request == Request(m_next_id, offset) IN
       /\ requests' = Append(requests, request)
       /\ ScheduleEvents(<<[cycles |-> ticks, type |-> "FinishRead", userdata |-> request]>>)
  /\ m_next_id' = m_next_id + 1
  /\ UNCHANGED <<pc, current, m_result_queue, m_result_map, m_disc, reply, saved, scenario>>

\* A turn of the loop of Advance: each callback is entered here.
RunEvent(e) ==
  /\ pc = "Advance" /\ PopEvent(e) /\ current' = e
  /\ pc' = CASE e.type = "FinishRead" -> "FinishRead"
             [] e.type \in {"Eject", "Insert"} -> "SetDisc"
             [] OTHER -> "Callback"
  /\ UNCHANGED <<dvdVars, reply, saved, scenario>>

Return ==
  /\ pc = "Callback" /\ pc' = "Advance" /\ current' = NoReply /\ reply' = NoReply
  /\ UNCHANGED <<timingVars, dvdVars, saved, scenario>>

\* emplace keeps the entry that is already there.
Emplace(map, r) == IF \E q \in map : q.id = r.id THEN map ELSE map \cup {r}

\* Mutant: the results of other reads are thrown away.
FinishReadDroppingOthers ==
  /\ pc = "FinishRead"
  /\ LET id == current.userdata.id
         Mine == {r \in m_result_map : r.id = id} IN
     \/ /\ \E r \in Mine : reply' = r /\ m_result_map' = m_result_map \ {r}
        /\ pc' = "Callback" /\ m_result_queue' = m_result_queue
     \/ /\ Mine = {} /\ m_result_queue # <<>> /\ m_result_queue' = Tail(m_result_queue)
        /\ IF Head(m_result_queue).id = id
           THEN reply' = Head(m_result_queue) /\ pc' = "Callback"
           ELSE UNCHANGED <<reply, pc>>
        /\ m_result_map' = m_result_map
  /\ UNCHANGED <<timingVars, current, requests, m_next_id, m_disc, saved, scenario>>

FinishRead ==
  /\ pc = "FinishRead"
  /\ LET id == current.userdata.id
         Mine == {r \in m_result_map : r.id = id} IN
     \/ /\ \E r \in Mine : reply' = r /\ m_result_map' = m_result_map \ {r}
        /\ pc' = "Callback" /\ m_result_queue' = m_result_queue
     \/ /\ Mine = {} /\ m_result_queue # <<>> /\ m_result_queue' = Tail(m_result_queue)
        /\ LET r == Head(m_result_queue) IN
           IF r.id = id
           THEN reply' = r /\ pc' = "Callback" /\ m_result_map' = m_result_map
           ELSE m_result_map' = Emplace(m_result_map, r) /\ UNCHANGED <<reply, pc>>
  /\ UNCHANGED <<timingVars, current, requests, m_next_id, m_disc, saved, scenario>>

-----------------------------------------------------------------------------
\* The disc: ejected at once and inserted a second later, both by events.

ChangeDisc(disc) ==
  /\ "Disc" \in scenario /\ pc = "Out"
  /\ ~ \E e \in m_event_queue : e.type = "Insert"          \* one is about to be inserted
  /\ m_event_fifo_id + Len(m_ts_queue) + 1 < MaxEvents
  /\ ScheduleEvents(<<[cycles |-> 0, type |-> "Eject", userdata |-> NoDisc],
                      [cycles |-> Second, type |-> "Insert", userdata |-> disc]>>)
  /\ UNCHANGED <<pc, current, dvdVars, reply, saved, scenario>>

\* Mutant: no wait.
NoWait == TRUE

WaitUntilIdle == requests = <<>>

SetDisc ==
  /\ pc = "SetDisc" /\ WaitUntilIdle
  /\ m_disc' = current.userdata /\ pc' = "Callback"
  /\ UNCHANGED <<timingVars, current, requests, m_result_queue, m_result_map, m_next_id, reply,
                 saved, scenario>>

\* The callback of the insertion does nothing when the file is gone.
InsertFails ==
  /\ pc = "SetDisc" /\ current.type = "Insert" /\ pc' = "Callback"
  /\ UNCHANGED <<timingVars, current, dvdVars, reply, saved, scenario>>

\* Code in a block or in a callback takes back the events of a type.
CancelEvents ==
  /\ "Cancel" \in scenario /\ pc \in {"Block", "Callback"}
  /\ RemoveEvent("Other") \/ RemoveAllEvents("Other")
  /\ UNCHANGED <<pc, current, dvdVars, reply, saved, scenario>>

-----------------------------------------------------------------------------
\* Saving and loading a state, jobs of the CPU thread: first CoreTiming, then the drive, then
\* the memory cards, then the CPU with its downcount.

Save ==
  /\ "State" \in scenario /\ pc = "Out" /\ saved = NoState /\ pc' = "Save"
  /\ SaveTiming
  /\ saved' = [timing |-> TimingState, downcount |-> downcount,
               results |-> {}, next_id |-> m_next_id, had_disc |-> m_disc # NoDisc]
  /\ UNCHANGED <<current, dvdVars, reply, scenario>>

\* The map after every queued result was emplaced: the first one of an id counts.
AllResults ==
  m_result_map \cup
    {m_result_queue[i] : i \in {k \in DOMAIN m_result_queue :
       /\ ~ \E r \in m_result_map : r.id = m_result_queue[k].id
       /\ ~ \E j \in 1 .. (k - 1) : m_result_queue[j].id = m_result_queue[k].id}}

SaveDrive ==
  /\ pc = "Save" /\ WaitUntilIdle /\ pc' = "Out"
  /\ m_result_map' = AllResults /\ m_result_queue' = <<>>
  /\ saved' = [saved EXCEPT !.results = AllResults]
  /\ UNCHANGED <<timingVars, current, requests, m_next_id, m_disc, reply, scenario>>

Load ==
  /\ pc = "Out" /\ saved # NoState /\ pc' = "Load"
  /\ LoadTiming(saved.timing)
  /\ UNCHANGED <<current, dvdVars, reply, saved, scenario>>

LoadDrive ==
  /\ pc = "Load" /\ WaitUntilIdle /\ pc' = "LoadCards"
  /\ m_result_map' = saved.results /\ m_result_queue' = <<>> /\ m_next_id' = saved.next_id
  /\ m_disc' = IF saved.had_disc THEN m_disc ELSE NoDisc
  /\ UNCHANGED <<timingVars, current, requests, reply, saved, scenario>>

\* A folder card with another content is taken out at once and put back a second later.
LoadCards ==
  /\ pc = "LoadCards" /\ pc' = "LoadCpu"
  /\ \/ UNCHANGED timingVars
     \/ "Card" \in scenario
        /\ ScheduleEvents(<<[cycles |-> 0, type |-> "Card", userdata |-> NoReply],
                             [cycles |-> Second, type |-> "Card", userdata |-> NoReply]>>)
  /\ UNCHANGED <<current, dvdVars, reply, saved, scenario>>

LoadCpu ==
  /\ pc = "LoadCpu" /\ pc' = "Out" /\ downcount' = saved.downcount
  /\ UNCHANGED <<eventVars, global_timer, m_is_global_timer_sane, factorVars, slice_length>>
  /\ UNCHANGED <<current, dvdVars, reply, saved, scenario>>

-----------------------------------------------------------------------------
\* The session: Stop cancels what the DVD thread has not begun and joins it.

\* Mutant: the results that were set aside survive the session.
StopKeepingResults ==
  /\ "Session" \in scenario /\ pc = "Out" /\ pc' = "Off"
  /\ requests' = <<>> /\ m_result_queue' = <<>> /\ m_disc' = NoDisc
  /\ MoveEvents /\ m_event_queue' = {}
  /\ UNCHANGED <<clockVars, current, m_result_map, m_next_id, reply, saved, scenario>>

Stop ==
  /\ "Session" \in scenario /\ pc = "Out" /\ pc' = "Off"
  /\ requests' = <<>> /\ m_result_queue' = <<>> /\ m_result_map' = {} /\ m_disc' = NoDisc
  /\ MoveEvents /\ m_event_queue' = {}
  /\ UNCHANGED <<clockVars, current, m_next_id, reply, saved, scenario>>

\* The downcount is still computed with the factor of the last session.
Start ==
  /\ pc = "Off" /\ pc' = "Out"
  /\ m_event_fifo_id' = 0 /\ global_timer' = 0 /\ m_is_global_timer_sane' = TRUE
  /\ slice_length' = MAX_SLICE_LENGTH /\ downcount' = CyclesToDowncount(MAX_SLICE_LENGTH)
  /\ RefreshConfig /\ m_last_oc_factor' = m_config_oc_factor'
  /\ m_next_id' = 0 /\ m_disc' \in Discs
  /\ UNCHANGED <<m_event_queue, m_ts_queue, current, requests, m_result_queue, m_result_map,
                 reply, saved, scenario>>

-----------------------------------------------------------------------------
CpuThread ==
  \/ Advance \/ EndAdvance \/ StartBlock \/ IdleLoop \/ EndBlock \/ Leave
  \/ \E o \in Offsets, t \in ReadTicks : StartRead(o, t)
  \/ \E e \in m_event_queue : RunEvent(e)
  \/ FinishRead \/ Return \/ CancelEvents
  \/ \E d \in Discs : ChangeDisc(d)
  \/ SetDisc \/ InsertFails
  \/ Save \/ SaveDrive \/ Load \/ LoadDrive \/ LoadCards \/ LoadCpu
  \/ Stop \/ Start

Next == CpuThread \/ ProcessReadRequest \/ OtherThread

\* The DVD thread is scheduled, and so is the CPU thread.
Spec == Init /\ [][Next]_vars /\ WF_vars(CpuThread) /\ WF_vars(ProcessReadRequest)

-----------------------------------------------------------------------------
\* Types.

Requests == [id : Nat, offset : Offsets, disc : Discs]
Results == [id : Nat, data : ((Discs \cup {NoDisc}) \X Offsets) \cup {<<>>}]
Waiting == [cycles : OtherTicks, type : {"Other"}, userdata : {NoReply}]
Events ==
  [time : Int, fifo_order : Nat, type : {"FinishRead"}, userdata : Requests]
    \cup [time : Int, fifo_order : Nat, type : {"Eject", "Insert"}, userdata : Discs \cup {NoDisc}]
    \cup [time : Int, fifo_order : Nat, type : {"Other", "Card"}, userdata : {NoReply}]
States ==
  [timing : [slice_length : Int, global_timer : Int, oc_factor : Factors, fifo_id : Nat,
             events : SUBSET Events],
   downcount : Int, results : SUBSET Results, next_id : Nat, had_disc : BOOLEAN]

ASSUME StateAssumption == NoState \notin States

InAdvance == {"Advance", "FinishRead", "SetDisc", "Callback"}
InLoad == {"Load", "LoadCards", "LoadCpu"}

TypeOK ==
  /\ m_event_queue \subseteq Events /\ m_ts_queue \in Seq(Waiting) /\ m_event_fifo_id \in Nat
  /\ global_timer \in Int /\ slice_length \in Int /\ downcount \in Int
  /\ m_is_global_timer_sane \in BOOLEAN
  /\ m_config_oc_factor \in Factors /\ m_last_oc_factor \in Factors
  /\ pc \in {"Out", "In", "Block", "Save", "Off"} \cup InAdvance \cup InLoad
  /\ pc = "FinishRead" => current \in Events /\ current.type = "FinishRead"
  /\ pc = "SetDisc" => current \in Events /\ current.type \in {"Eject", "Insert"}
  /\ requests \in Seq(Requests) /\ m_result_queue \in Seq(Results) /\ m_result_map \subseteq Results
  /\ m_next_id \in Nat /\ m_disc \in Discs \cup {NoDisc}
  /\ reply \in Results \cup {NoReply}
  /\ saved \in States \cup {NoState} /\ (pc \in InLoad \cup {"Save"} => saved \in States)

-----------------------------------------------------------------------------
\* Properties.

\* Every read the game still waits for is in exactly one place: with the DVD thread, in the
\* queue of results or in the map of results.  And nothing else is in any of them, so that no
\* id is ever answered twice or with a stale result.  While a load is half done the events
\* are already the loaded ones and the results are not.
ReadsMatched ==
  pc # "Load" =>
    LET ids == [i \in DOMAIN requests |-> requests[i].id]
                 \o [i \in DOMAIN m_result_queue |-> m_result_queue[i].id]
        waiting == {e \in m_event_queue : e.type = "FinishRead"}
                     \cup (IF pc = "FinishRead" THEN {current} ELSE {})
        mapped == {r.id : r \in m_result_map}
        queued == {ids[i] : i \in DOMAIN ids} IN
    /\ mapped \cap queued = {}
    /\ mapped \cup queued = {e.userdata.id : e \in waiting}
    /\ Cardinality(queued) = Len(ids)
    /\ Cardinality(mapped) + Len(ids) = Cardinality(waiting)

\* What FinishRead hands to the drive is what this read asked for, read from the disc that was
\* in the drive when the read was started, or the error of that read.
AnswersTheRead ==
  reply # NoReply => reply.data \in {<<current.userdata.disc, current.userdata.offset>>, <<>>}

\* A read ends at the tick it was scheduled for or at most one block later, however the slices
\* and the overclock factor change, and across saved and loaded states; an event of another
\* thread, which counts from the beginning of the slice, is late by at most a slice and a block.
\* A load that changes a memory card is left out: it moves the clock (LoadRestoresClock).
OnTime ==
  [][\A e \in m_event_queue : RunEvent(e) /\ "Card" \notin scenario =>
       \E f \in Factors : LET block == ToCycles(f, MaxBlock) IN
         /\ e.type = "FinishRead" => global_timer - e.time <= block
         /\ e.type = "Other" => global_timer - e.time <= MAX_SLICE_LENGTH + block]_vars

\* What two conversions, to the downcount and back, may lose of the clock.
Rounding(factor, ticks) ==
  ticks * factor[1] < factor[1] + factor[2] /\ (factor[1] = factor[2] => ticks = 0)

\* The clock the game reads never goes back, and it moves with the cycles the CPU executes or
\* skips: scheduling, the end and the beginning of a slice move it at most by what truncation
\* loses, and not at all without overclock.  A load sets it, and so does the first slice of a
\* session.
ClockKeepsTime ==
  [][\/ /\ GetTicks' >= GetTicks
        /\ \/ pc = "Block" /\ UNCHANGED eventVars
           \/ Rounding(m_last_oc_factor', GetTicks' - GetTicks)
     \/ "Load" \in {pc, pc'}
     \/ pc \in {"LoadCpu", "Off"}
     \/ pc = "Out" /\ m_is_global_timer_sane]_vars

\* Whatever makes the CPU thread wait for the DVD thread, the end of a read, a change of the disc
\* or a state that is saved or loaded, lets it go on.
CpuWaits == pc \in {"FinishRead", "SetDisc", "Save", "Load"}

WaitsEnd == CpuWaits ~> ~CpuWaits

\* Loading a state restores the clock: State.cpp:185 has CoreTiming loaded first "because the
\* controller code might need to schedule an event if the controller has changed".
LoadRestoresClock ==
  [][pc = "LoadCpu" =>
       (global_timer + slice_length - DowncountToCycles(downcount))' =
         saved.timing.global_timer + saved.timing.slice_length
           - ToCycles(saved.timing.oc_factor, saved.downcount)]_vars
=============================================================================
