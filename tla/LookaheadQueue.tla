--------------------------- MODULE LookaheadQueue ---------------------------
(***************************************************************************)
(* What the lookahead buffer of CompensationPreprocessor promises its      *)
(* caller, whatever it does to the geometry: a FIFO queue of at most       *)
(* Capacity buffered commands.  buffer_gcode appends when there is room    *)
(* (and is refused otherwise), get_compensated_gcode hands out the oldest  *)
(* buffered command, and clear discards every buffered command.  Items    *)
(* are numbered 1, 2, ... in the order they are offered; last is the item *)
(* handed out most recently (0 before the first).                          *)
(***************************************************************************)
EXTENDS Naturals, Sequences

CONSTANTS Capacity, Items

VARIABLES queue, last

vars == <<queue, last>>

Init == queue = <<>> /\ last = 0

Insert(c) ==
    /\ Len(queue) < Capacity
    /\ queue' = Append(queue, c)
    /\ UNCHANGED last

Remove ==
    /\ queue # <<>>
    /\ last' = Head(queue)
    /\ queue' = Tail(queue)

Discard ==
    /\ queue' = <<>>
    /\ UNCHANGED last

Next == (\E c \in Items : Insert(c)) \/ Remove \/ Discard

Spec == Init /\ [][Next]_vars
=============================================================================
