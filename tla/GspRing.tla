------------------------------ MODULE GspRing ------------------------------
(***************************************************************************)
(* Cursor arithmetic of the GSP command and status rings                   *)
(* (src/gsp_ring.zig).  A ring has "slots" element slots; a cursor is an   *)
(* index below "slots"; a record takes one to MaxElements consecutive      *)
(* slots and may wrap.  One slot always stays empty, so equal cursors mean *)
(* an empty ring.                                                          *)
(***************************************************************************)
EXTENDS Naturals

CONSTANT MaxElements          \* message.max_elements (16 in the code)

ASSUME MaxElementsAssumption == MaxElements \in Nat \ {0}

Cursors(slots) == 0 .. slots - 1

(* distance() of gsp_transport.zig: how far "after" is ahead of "before". *)
Distance(slots, before, after) ==
    IF after >= before THEN after - before ELSE slots - before + after

(* available(): the elements a reader at "read" may take. *)
Available(slots, read, write) == Distance(slots, read, write)

(* transmit() leaves one slot free between the writer and the reader. *)
Free(slots, write, read) == slots - Available(slots, read, write) - 1

(* plan(): the two spans of a record of "count" elements at "cursor", and  *)
(* the cursor behind it.                                                   *)
FirstSpan(slots, cursor, count) ==
    IF count <= slots - cursor THEN count ELSE slots - cursor

SecondSpan(slots, cursor, count) == count - FirstSpan(slots, cursor, count)

NextCursor(slots, cursor, count) ==
    IF SecondSpan(slots, cursor, count) = 0 /\ cursor + count < slots
        THEN cursor + count
        ELSE SecondSpan(slots, cursor, count)

PlanFits(count, capacity) == count \in 1 .. MaxElements /\ count <= capacity

(* The slots of the two spans, and the position of a slot in the record. *)
SpanOne(slots, cursor, count) ==
    cursor .. cursor + FirstSpan(slots, cursor, count) - 1

SpanTwo(slots, cursor, count) ==
    0 .. SecondSpan(slots, cursor, count) - 1

SpanSlots(slots, cursor, count) ==
    SpanOne(slots, cursor, count) \cup SpanTwo(slots, cursor, count)

Part(slots, cursor, slot) == Distance(slots, cursor, slot) + 1

(* inspectLink()/receive() admit a peer cursor only inside the ring. *)
CursorValid(slots, cursor) == cursor < slots

(* send(): a reader cursor never passes what was written; receive(): a     *)
(* writer cursor never passes the slots the reader has given back.         *)
ReaderProgress(slots, old, peer, write) ==
    /\ CursorValid(slots, peer)
    /\ Distance(slots, old, peer) <= Distance(slots, old, write)

\* Mutant: a writer that fills the whole ring is refused.
WriterProgressStrict(slots, read, old, peer) ==
    CursorValid(slots, peer) /\ Distance(slots, old, peer) < Free(slots, old, read)

WriterProgress(slots, read, old, peer) ==
    /\ CursorValid(slots, peer)
    /\ Distance(slots, old, peer) <= Free(slots, old, read)
=============================================================================
