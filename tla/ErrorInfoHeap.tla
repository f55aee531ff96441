---------------------------- MODULE ErrorInfoHeap ----------------------------
(***************************************************************************)
(* Device dependent error information without malloc: error.c, the caller  *)
(* that the heap of TextHeap trusts, and minimal.c.  The error queue       *)
(* itself is abstracted to the sequence ErrorQueue promises.               *)
(***************************************************************************)
EXTENDS TextHeap

vars == <<heap, errors, reading>>

Entry(at, text) == [at |-> at, text |-> IF at = NULL THEN << >> ELSE text]

(* SCPI_ErrorAddInternal: the text is copied before the queue is known to  *)
(* have room; on overflow the copy and the text of the entry given up are  *)
(* rolled back, and the overflow mark carries no text.                     *)
AddError(text) ==
  LET stored == text # << >> /\ ~ Refuses(heap, text)
      copied == IF stored THEN StrNDup(heap, text) ELSE heap
      at     == IF stored THEN heap.wr ELSE NULL
  IN  IF Len(errors) < QueueSize
        THEN /\ heap' = copied
             /\ errors' = Append(errors, Entry(at, text))
        ELSE /\ heap' = Free(Free(copied, at, TRUE), Last(errors).at, TRUE)
             /\ errors' = Append(Front(errors), Entry(NULL, << >>))

(* SCPI_ErrorPushEx with a text, or SCPI_ErrorPush without one.  Either    *)
(* may be called from the write callback while SYSTem:ERRor? answers       *)
(* (test-vxi11's SCPI_Write pushes QUERY_INTERRUPTED).                     *)
ErrorPush(text) == AddError(text) /\ UNCHANGED reading

(* SCPI_SystemErrorNextQ: pop, print, then free the text printed.          *)
ErrorPop ==
  /\ reading = << >>
  /\ errors # << >>
  /\ reading' = << Head(errors) >>
  /\ errors' = Tail(errors)
  /\ UNCHANGED heap

ErrorRead ==
  /\ reading # << >>
  /\ heap' = Free(heap, Head(reading).at, FALSE)
  /\ reading' = << >>
  /\ UNCHANGED errors

(* SCPI_ErrorClear frees the queued texts oldest first. *)
ErrorClear ==
  /\ reading = << >>
  /\ heap' = FoldLeft(LAMBDA h, e : Free(h, e.at, FALSE), heap, errors)
  /\ errors' = << >>
  /\ UNCHANGED reading

Init ==
  /\ heap = [data |-> [i \in Cells |-> NUL], wr |-> 0, count |-> HeapSize]
  /\ errors = << >>
  /\ reading = << >>

Next ==
  \/ \E text \in Texts \cup {<< >>} : ErrorPush(text)
  \/ ErrorPop
  \/ ErrorRead
  \/ ErrorClear

Spec == Init /\ [][Next]_vars

-----------------------------------------------------------------------------

TypeOK ==
  /\ heap.wr \in Cells
  /\ heap.count \in 0 .. HeapSize
  /\ heap.data \in [Cells -> Characters \cup {NUL}]
  /\ Len(errors) <= QueueSize
  /\ Len(reading) <= 1

=============================================================================
