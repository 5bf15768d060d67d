--------------------------- MODULE GspRingProofs ---------------------------
(***************************************************************************)
(* The cursor arithmetic of GspRing for rings of every size.  A slot is    *)
(* unread when it lies between the reader's and the writer's cursor, going *)
(* round; everything else follows from where a slot is relative to a       *)
(* cursor.                                                                 *)
(***************************************************************************)
EXTENDS GspRing, Integers, TLAPS

Rings == Nat \ {0, 1}

Unread(slots, read, write) ==
    {i \in Cursors(slots) : Distance(slots, read, i) < Distance(slots, read, write)}

(* distance() of two cursors is below the ring size, and zero only for     *)
(* equal cursors: an empty ring is never taken for a full one.             *)
LEMMA DistanceRange ==
    ASSUME NEW slots \in Rings, NEW a \in Cursors(slots), NEW b \in Cursors(slots)
    PROVE  Distance(slots, a, b) \in Cursors(slots) /\ (Distance(slots, a, b) = 0 <=> a = b)
BY DEF Rings, Cursors, Distance

(* plan(): the cursor behind a record stays inside the ring and is exactly *)
(* the record's length ahead.                                              *)
THEOREM NextCursorAhead ==
    ASSUME NEW slots \in Rings, NEW cursor \in Cursors(slots), NEW count \in 1 .. slots - 1
    PROVE  /\ NextCursor(slots, cursor, count) \in Cursors(slots)
           /\ Distance(slots, cursor, NextCursor(slots, cursor, count)) = count
<1>1. slots \in Nat /\ cursor \in Nat /\ count \in Nat /\ cursor < slots /\ 0 < count /\ count < slots
  BY DEF Rings, Cursors
<1>2. CASE cursor + count < slots
  BY <1>1, <1>2 DEF NextCursor, SecondSpan, FirstSpan, Distance, Cursors
<1>3. CASE ~(cursor + count < slots)
  BY <1>1, <1>3 DEF NextCursor, SecondSpan, FirstSpan, Distance, Cursors
<1> QED BY <1>2, <1>3

(* plan(): the two spans are disjoint, lie inside the ring, and cover      *)
(* exactly the slots less than count ahead of the cursor.                  *)
THEOREM SpansAreTheRecord ==
    ASSUME NEW slots \in Rings, NEW cursor \in Cursors(slots), NEW count \in 1 .. slots - 1
    PROVE  /\ SpanOne(slots, cursor, count) \cap SpanTwo(slots, cursor, count) = {}
           /\ SpanSlots(slots, cursor, count) =
                  {i \in Cursors(slots) : Distance(slots, cursor, i) < count}
<1>1. slots \in Nat /\ cursor \in Nat /\ count \in Nat /\ cursor < slots /\ 0 < count /\ count < slots
  BY DEF Rings, Cursors
<1>2. CASE count <= slots - cursor
  <2>1. FirstSpan(slots, cursor, count) = count /\ SecondSpan(slots, cursor, count) = 0
    BY <1>1, <1>2 DEF FirstSpan, SecondSpan
  <2>2. SpanOne(slots, cursor, count) = cursor .. cursor + count - 1 /\ SpanTwo(slots, cursor, count) = 0 .. -1
    BY <1>1, <2>1 DEF SpanOne, SpanTwo
  <2>3. SpanTwo(slots, cursor, count) = {} BY <2>2
  <2>4. ASSUME NEW i PROVE i \in cursor .. cursor + count - 1 <=> i \in Cursors(slots) /\ Distance(slots, cursor, i) < count
    BY <1>1, <1>2 DEF Cursors, Distance
  <2> QED BY <2>2, <2>3, <2>4 DEF SpanSlots
<1>3. CASE ~(count <= slots - cursor)
  <2>1. FirstSpan(slots, cursor, count) = slots - cursor /\ SecondSpan(slots, cursor, count) = count - (slots - cursor)
    BY <1>1, <1>3 DEF FirstSpan, SecondSpan
  <2>2. SpanOne(slots, cursor, count) = cursor .. slots - 1
        /\ SpanTwo(slots, cursor, count) = 0 .. count - (slots - cursor) - 1
    BY <1>1, <2>1 DEF SpanOne, SpanTwo
  <2>3. SpanOne(slots, cursor, count) \cap SpanTwo(slots, cursor, count) = {}
    BY <1>1, <1>3, <2>2
  <2>4. ASSUME NEW i PROVE i \in cursor .. slots - 1 \/ i \in 0 .. count - (slots - cursor) - 1
                           <=> i \in Cursors(slots) /\ Distance(slots, cursor, i) < count
    BY <1>1, <1>3 DEF Cursors, Distance
  <2> QED BY <2>2, <2>3, <2>4 DEF SpanSlots
<1> QED BY <1>2, <1>3

(* transmit(): a record that fits the free room touches no unread slot,    *)
(* and does not make the ring look empty afterwards.                       *)
THEOREM TransmitKeepsUnread ==
    ASSUME NEW slots \in Rings, NEW write \in Cursors(slots), NEW read \in Cursors(slots),
           NEW count \in Nat, PlanFits(count, Free(slots, write, read))
    PROVE  /\ SpanSlots(slots, write, count) \cap Unread(slots, read, write) = {}
           /\ NextCursor(slots, write, count) # read
           /\ Available(slots, read, NextCursor(slots, write, count)) =
                  Available(slots, read, write) + count
<1>1. /\ slots \in Nat /\ write \in Nat /\ read \in Nat /\ write < slots /\ read < slots
      /\ count >= 1 /\ count <= slots - Distance(slots, read, write) - 1
  BY MaxElementsAssumption DEF Rings, Cursors, PlanFits, Free, Available
<1>2. count \in 1 .. slots - 1
  BY <1>1 DEF Distance
<1>3. SpanSlots(slots, write, count) = {i \in Cursors(slots) : Distance(slots, write, i) < count}
  BY <1>2, SpansAreTheRecord
<1>4. ASSUME NEW i \in Cursors(slots), Distance(slots, write, i) < count
      PROVE  ~(Distance(slots, read, i) < Distance(slots, read, write))
  BY <1>1, <1>4 DEF Cursors, Distance
<1>5. SpanSlots(slots, write, count) \cap Unread(slots, read, write) = {}
  BY <1>3, <1>4 DEF Unread
<1> DEFINE next == NextCursor(slots, write, count)
<1>6. next \in Cursors(slots) /\ Distance(slots, write, next) = count
  BY <1>2, NextCursorAhead
<1> HIDE DEF next
<1>7. next # read /\ Distance(slots, read, next) = Distance(slots, read, write) + count
  BY <1>1, <1>6 DEF Cursors, Distance
<1> QED BY <1>5, <1>7 DEF Available, next

(* send() and receive() check the peer's cursor against what was last      *)
(* seen; a cursor that passes the check leaves a consistent ring: what the *)
(* reader may still take shrinks by what it took, what the writer may add  *)
(* shrinks by what it added.                                               *)
THEOREM ProgressIsSound ==
    ASSUME NEW slots \in Rings, NEW read \in Cursors(slots), NEW write \in Cursors(slots),
           NEW peer \in Nat
    PROVE  /\ ReaderProgress(slots, read, peer, write) =>
                  /\ peer \in Cursors(slots)
                  /\ Available(slots, peer, write) + Distance(slots, read, peer) = Available(slots, read, write)
           /\ WriterProgress(slots, read, write, peer) =>
                  /\ peer \in Cursors(slots)
                  /\ Free(slots, peer, read) + Distance(slots, write, peer) = Free(slots, write, read)
<1>1. slots \in Nat /\ read \in Nat /\ write \in Nat /\ read < slots /\ write < slots
  BY DEF Rings, Cursors
<1>2. ASSUME ReaderProgress(slots, read, peer, write)
      PROVE  /\ peer \in Cursors(slots)
             /\ Available(slots, peer, write) + Distance(slots, read, peer) = Available(slots, read, write)
  BY <1>1, <1>2 DEF ReaderProgress, CursorValid, Available, Distance, Cursors
<1>3. ASSUME WriterProgress(slots, read, write, peer)
      PROVE  /\ peer \in Cursors(slots)
             /\ Free(slots, peer, read) + Distance(slots, write, peer) = Free(slots, write, read)
  BY <1>1, <1>3 DEF WriterProgress, CursorValid, Free, Available, Distance, Cursors
<1> QED BY <1>2, <1>3
============================================================================
