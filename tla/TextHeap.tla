------------------------------ MODULE TextHeap ------------------------------
(***************************************************************************)
(* The circular heap of libscpi/src/utils.c in which error.c keeps a copy  *)
(* of the text of each queued error (with device dependent error           *)
(* information and without malloc): its operations, and what they are to   *)
(* keep true of the errors whose texts it holds.                           *)
(*                                                                         *)
(* The heap knows no block table: the end of a text is its NUL, the room   *)
(* left is a counter, and freeing trusts its caller to free the oldest     *)
(* text first or, with rollback, the youngest.                             *)
(***************************************************************************)
EXTENDS Integers, Sequences, SequencesExt, FiniteSetsExt

CONSTANTS
  HeapSize,     \* error_info_heap_length given to SCPI_InitHeap
  QueueSize,    \* error_queue_size
  Texts         \* texts an error may carry, after truncation to info_len

NUL == "NUL"
NULL == -1     \* the null pointer; other pointers are indices of cells

Cells == 0 .. HeapSize - 1

Characters == UNION { Range(t) : t \in Texts }

ASSUME HeapAssumption ==
  /\ HeapSize \in Nat \ {0}
  /\ QueueSize \in Nat \ {0}
  /\ Texts \subseteq Seq(Characters \ {NUL}) \ {<< >>}

VARIABLES
  heap,      \* [data, wr, count]: context->error_info_heap
  errors,    \* the queued errors: address of the text, and the text meant
  reading    \* SYSTem:ERRor? between ErrorPop and free: at most one entry

(* strnlen from cell "from" over at most max cells *)
StrNLen(data, from, max) ==
  CHOOSE k \in 0 .. max :
    /\ k = max \/ data[from + k] = NUL
    /\ \A j \in 0 .. k - 1 : data[from + j] # NUL

(* The text followed by its terminator. *)
Terminated(text) == Append(text, NUL)

(* Seeded fault: the room for the terminator is not asked for. *)
RefusesForgettingNul(h, text) == h.data[h.wr] # NUL \/ Len(text) > h.count

(* scpiheap_strndup: does it refuse? *)
Refuses(h, text) ==
  \/ h.data[h.wr] # NUL
  \/ Len(text) + 1 > h.count

(* Seeded fault: a text that ends on the last cell does not wrap wr. *)
StrNDupLateWrap(h, text) ==
  LET src   == Terminated(text)
      len   == Len(src)
      rem   == HeapSize - h.wr
      wraps == len > rem
  IN  [data  |-> [i \in Cells |->
                    IF i >= h.wr /\ i < h.wr + len THEN src[i - h.wr + 1]
                    ELSE IF wraps /\ i < len - rem THEN src[rem + i + 1]
                    ELSE h.data[i]],
       wr    |-> IF wraps THEN len - rem ELSE h.wr + len,
       count |-> h.count - len]

(* scpiheap_strndup of a text that is accepted; it starts at h.wr. *)
StrNDup(h, text) ==
  LET src   == Terminated(text)
      len   == Len(src)
      rem   == HeapSize - h.wr
      wraps == len >= rem
  IN  [data  |-> [i \in Cells |->
                    IF i >= h.wr /\ i < h.wr + len THEN src[i - h.wr + 1]
                    ELSE IF wraps /\ i < len - rem THEN src[rem + i + 1]
                    ELSE h.data[i]],
       wr    |-> IF wraps THEN len - rem ELSE h.wr + len,
       count |-> h.count - len]

(* scpiheap_get_parts: the lengths of the part that starts at s and of the *)
(* part that continues in cell 0, if the first runs into the last cell.    *)
Len1(h, s) == StrNLen(h.data, s, HeapSize - s)

IsSplit(h, s) == s + Len1(h, s) = HeapSize

Len2(h, s) == IF IsSplit(h, s) THEN StrNLen(h.data, 0, HeapSize) ELSE 0

(* The text SCPI_ResultError prints for s. *)
TextAt(h, s) ==
  [i \in 1 .. Len1(h, s) |-> h.data[s + i - 1]]
    \o [i \in 1 .. Len2(h, s) |-> h.data[i - 1]]

(* Seeded fault: the terminator of a split text stays counted as used. *)
FreedForgettingSplitNul(h, s) == Len1(h, s) + Len2(h, s) + IF IsSplit(h, s) THEN 0 ELSE 1

(* The cells scpiheap_free gives back: both parts and the terminator. *)
Freed(h, s) == Len1(h, s) + Len2(h, s) + 1

(* Seeded fault: only the count changes, the text stays. *)
NotWiped(h, s) == h.data

Wiped(h, s) ==
  LET first  == Len1(h, s) + IF IsSplit(h, s) THEN 0 ELSE 1
      second == IF IsSplit(h, s) THEN Len2(h, s) + 1 ELSE 0
  IN  [i \in Cells |-> IF (i >= s /\ i < s + first) \/ i < second THEN NUL ELSE h.data[i]]

(* Seeded faults: rolling back stops at cell 0; an empty heap keeps wr. *)
WrAfterFreeUnwrapped(wr, count, back, rollback) ==
  IF count = HeapSize \/ (rollback /\ back > wr) THEN 0
  ELSE IF rollback THEN wr - back ELSE wr

WrAfterFreeKept(wr, count, back, rollback) ==
  IF rollback THEN (IF back > wr THEN wr + HeapSize ELSE wr) - back ELSE wr

WrAfterFree(wr, count, back, rollback) ==
  IF count = HeapSize THEN 0
  ELSE IF rollback THEN (IF back > wr THEN wr + HeapSize ELSE wr) - back
  ELSE wr

(* scpiheap_free: with rollback the text is the youngest, else the oldest. *)
Free(h, s, rollback) ==
  IF s = NULL \/ h.data[s] = NUL THEN h
  ELSE LET back  == Freed(h, s)
           count == h.count + back
       IN  [data  |-> Wiped(h, s),
            wr    |-> WrAfterFree(h.wr, count, back, rollback),
            count |-> count]

-----------------------------------------------------------------------------

(* All errors not yet freed, oldest first; some have a text in the heap.   *)
Kept == reading \o errors

Stored == {i \in DOMAIN Kept : Kept[i].at # NULL}

Room(e) == IF e.at = NULL THEN 0 ELSE Len(e.text) + 1

(* Every text still to be reported reads back exactly as it was given,     *)
(* whatever was stored, freed and rolled back around it.                   *)
TextsIntact == \A i \in Stored : TextAt(heap, Kept[i].at) = Kept[i].text

(* The counter of free cells is the cells no text occupies, so that space  *)
(* is neither leaked nor given out twice.                                  *)
CountExact == heap.count = HeapSize - FoldLeft(LAMBDA n, e : n + Room(e), 0, Kept)

(* The texts lie one behind the other, the youngest ends where the next    *)
(* will be written.                                                        *)
BackToBack ==
  \A i \in Stored :
    LET younger == {j \in Stored : j > i}
    IN  (Kept[i].at + Room(Kept[i])) % HeapSize
           = IF younger = {} THEN heap.wr ELSE Kept[Min(younger)].at

(* The probe of the cell at wr never refuses a text there is room for.     *)
RoomIsUsable == heap.count > 0 => heap.data[heap.wr] = NUL

(* With no text left the heap is as scpiheap_init made it, so the longest  *)
(* text fits again.                                                        *)
DrainedIsFresh ==
  Stored = {} => /\ heap.count = HeapSize
                 /\ heap.wr = 0
                 /\ \A i \in Cells : heap.data[i] = NUL

(* The text heap keeps every text given to it and loses no room.           *)
HeapSound == TextsIntact /\ CountExact /\ BackToBack /\ RoomIsUsable /\ DrainedIsFresh

=============================================================================
