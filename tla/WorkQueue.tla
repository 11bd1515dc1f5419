----------------------------- MODULE WorkQueue ------------------------------
(***************************************************************************)
(* What a work queue promises to those who push to it: one item is worked  *)
(* on at a time, in the order of the pushes, an item leaves the queue when *)
(* the work on it is over, and a cancellation empties the queue between    *)
(* two items, never in the middle of one.                                  *)
(***************************************************************************)
EXTENDS Naturals, Sequences

VARIABLES
  queue,   \* the items pushed and not yet done, the one in progress included
  busy,    \* whether the item at the head is in progress
  pushed   \* how many items were pushed: they are numbered in that order

WorkInit == queue = <<>> /\ busy = FALSE /\ pushed = 0

Push == pushed' = pushed + 1 /\ queue' = Append(queue, pushed + 1) /\ busy' = busy

Begin == queue # <<>> /\ ~busy /\ busy' = TRUE /\ UNCHANGED <<queue, pushed>>

Finish == busy /\ queue' = Tail(queue) /\ busy' = FALSE /\ pushed' = pushed

Clear == ~busy /\ queue' = <<>> /\ UNCHANGED <<busy, pushed>>

WorkNext == Push \/ Begin \/ Finish \/ Clear

WorkSpec == WorkInit /\ [][WorkNext]_<<queue, busy, pushed>>
=============================================================================
