---------------------------- MODULE LoopContract ----------------------------
(***************************************************************************)
(* What Common::BlockingLoop promises its users: after a Wakeup the loop   *)
(* is done only when the payload has begun a new run and ended it.  The    *)
(* payload may also run when nobody asked for it.                          *)
(***************************************************************************)
VARIABLES
  loop,   \* "Need": a new run has to begin; "Last": it may be the current one; "Done"
  place   \* where the loop is; "Off" outside of it

Init == loop = "Done" /\ place = "Off"

Wakeup == loop' = "Need" /\ UNCHANGED place

\* A loop is prepared before it starts, so that the payload runs at least once.
Prepare == place = "Off" /\ loop' = "Last" /\ UNCHANGED place

Start == place = "Off" /\ loop # "Done" /\ place' = "Test" /\ UNCHANGED loop

\* The payload begins and returns.
Begin == place = "Test" /\ place' = "Run" /\ UNCHANGED loop

Finish == place = "Run" /\ place' = "End" /\ UNCHANGED loop

\* A run that was asked for before it began has served everybody.
End ==
  /\ place = "End"
  /\ loop' = IF loop = "Need" THEN "Last" ELSE "Done"
  /\ place' = IF loop = "Need" THEN "Test" ELSE "Settle"

\* The loop sleeps or not, and looks again; a new run follows a Wakeup in any case.
Settle ==
  /\ place = "Settle" /\ place' = "Test"
  /\ UNCHANGED loop \/ (loop = "Need" /\ loop' = "Last")

\* The loop is stopped between two runs, and then is done.
Quit == place = "Test" /\ place' = "Off" /\ UNCHANGED loop

Stopped == place = "Off" /\ loop' = "Done" /\ UNCHANGED place

Next ==
  Wakeup \/ Prepare \/ Start \/ Begin \/ Finish \/ End \/ Settle \/ Quit \/ Stopped

Spec == Init /\ [][Next]_<<loop, place>>
=============================================================================
