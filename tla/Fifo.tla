-------------------------------- MODULE Fifo --------------------------------
(***************************************************************************)
(* The ring buffer of libscpi/src/fifo.c that holds the error queue.       *)
(*                                                                         *)
(* A fifo is the record of the fields of scpi_fifo_t: the backing array    *)
(* "data", the next slot to write "wr", the next slot to read "rd" and the *)
(* number of elements "count".  Each function of the C file is an operator *)
(* from a fifo to the fifo it leaves behind, so that a caller that runs    *)
(* several of them in one step (the overflow path of error.c) composes     *)
(* them.  The functions' return values are the predicates IsEmpty/IsFull   *)
(* of the state they are called in.                                        *)
(***************************************************************************)
EXTENDS Integers, Sequences

CONSTANT Size   \* number of slots, the error_queue_size given to SCPI_Init

ASSUME SizeAssumption == Size \in Nat \ {0}

Slots == 0 .. Size - 1

Fifos(Element) ==
  [data : [Slots -> Element], wr : Slots, rd : Slots, count : 0 .. Size]

(* fifo_init: the caller's array is handed over as it is. *)
FifoInit(array) == [data |-> array, wr |-> 0, rd |-> 0, count |-> 0]

FifoClear(f) == [data |-> f.data, wr |-> 0, rd |-> 0, count |-> 0]

IsEmpty(f) == f.count = 0

IsFull(f) == f.count = Size

FifoAdd(f, v) ==
  IF IsFull(f) THEN f
  ELSE [data |-> [f.data EXCEPT ![f.wr] = v],
        wr |-> (f.wr + 1) % Size, rd |-> f.rd, count |-> f.count + 1]

FifoRemove(f) ==
  IF IsEmpty(f) THEN f
  ELSE [data |-> f.data,
        wr |-> f.wr, rd |-> (f.rd + 1) % Size, count |-> f.count - 1]

(* Seeded fault: the write index is not stepped back. *)
FifoRemoveLastKeepingWr(f) ==
  IF IsEmpty(f) THEN f ELSE [f EXCEPT !.count = f.count - 1]

FifoRemoveLast(f) ==
  IF IsEmpty(f) THEN f
  ELSE [data |-> f.data,
        wr |-> (f.wr + Size - 1) % Size, rd |-> f.rd, count |-> f.count - 1]

(* The element fifo_remove hands to its caller. *)
Oldest(f) == f.data[f.rd]

-----------------------------------------------------------------------------

(* The queue a fifo stands for, oldest element first. *)
Contents(f) == [i \in 1 .. f.count |-> f.data[(f.rd + i - 1) % Size]]

(* The two indices and the count agree.  The C code keeps all three and    *)
(* never recomputes one from the others.                                   *)
IndicesAgree(f) == f.wr = (f.rd + f.count) % Size

=============================================================================
