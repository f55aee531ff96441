----------------------------- MODULE ErrorQueue -----------------------------
(***************************************************************************)
(* What the error queue promises its users: a bounded queue that delivers  *)
(* errors oldest first and, when one arrives while it is full, gives up    *)
(* the youngest entry for the mark Overflow.                               *)
(***************************************************************************)
EXTENDS Integers, Sequences

CONSTANTS
  Errors,     \* what can be pushed
  Overflow,   \* the mark left where errors were lost
  Capacity    \* number of entries the queue can hold

VARIABLE queue

Init == queue = << >>

Push(e) ==
  queue' = IF Len(queue) < Capacity
             THEN Append(queue, e)
             ELSE [queue EXCEPT ![Capacity] = Overflow]

Pop == queue # << >> /\ queue' = Tail(queue)

Clear == queue' = << >>

Next == (\E e \in Errors : Push(e)) \/ Pop \/ Clear

Spec == Init /\ [][Next]_queue

=============================================================================
