----------------------------- MODULE CommandFifo -----------------------------
(***************************************************************************)
(* What the Vulkan recording ring promises its two users: a bounded queue  *)
(* of commands that keeps their order, loses none and repeats none.        *)
(***************************************************************************)
EXTENDS Naturals, Sequences

CONSTANTS Commands, Capacity

VARIABLE fifo

Init == fifo = <<>>

Enqueue == Len(fifo) < Capacity /\ \E c \in Commands : fifo' = Append(fifo, c)

Dequeue == fifo # <<>> /\ fifo' = Tail(fifo)

Next == Enqueue \/ Dequeue

Spec == Init /\ [][Next]_fifo
==============================================================================
