---------------------------- MODULE GspTransport ----------------------------
(***************************************************************************)
(* The single-owner message transport between the driver and the GSP       *)
(* firmware: Session of src/gsp_transport.zig over the two rings of        *)
(* src/gsp_ring.zig with the records of src/gsp_message.zig.               *)
(*                                                                         *)
(* Every I/O of a Session operation is one step, because the firmware runs *)
(* between any two of them.  A publication that reports a failure may or   *)
(* may not have reached memory; a check that fails (generation, clock,     *)
(* deadline) after a publication is the same case.  The firmware is        *)
(* external: it is modelled by the protocol the driver relies on, and may  *)
(* once publish an arbitrary cursor.                                       *)
(***************************************************************************)
EXTENDS GspRing, Sequences, FiniteSets

CONSTANTS CmdSlots,      \* slots of the command ring (63 in the code)
          StatSlots,     \* slots of the status ring
          SeqMod,        \* modulus of the queue sequence (2^32)
          MaxTicket,     \* next_ticket at which receive is exhausted (2^64-1)
          Sizes,         \* elements per record that the run uses
          MaxRecords,    \* bound: records in one direction
          Loads          \* bounds of a behaviour: records sent by the driver (tx),
                         \* by the firmware (rx), wrong cursors published (faults)

ASSUME TransportAssumption ==
    /\ CmdSlots \in Nat \ {0, 1} /\ StatSlots \in Nat \ {0, 1}
    /\ SeqMod \in Nat /\ SeqMod > CmdSlots /\ SeqMod > StatSlots
    /\ MaxTicket \in Nat \ {0}
    /\ Sizes \subseteq 1 .. MaxElements
    /\ MaxRecords \in Nat
    /\ Loads \subseteq [tx : 0 .. MaxRecords, rx : 0 .. MaxRecords, faults : Nat]

VARIABLES ses,           \* the Session: state, cursors, sequences, ticket
          op,            \* the I/O the Session operation under way does next
          cmdRing, cmdWrite, cmdRead,       \* command queue memory
          statRing, statWrite, statRead,    \* status queue memory
          bell,          \* a doorbell the firmware has not yet answered
          held,          \* the device run is retained (notification.prepare)
          fw,            \* the firmware: its positions and sequences
          txLog, fwGot,  \* records visible on / taken from the command ring
          fwLog, cpuGot, \* records written to / delivered from the status ring
          load           \* the bounds of this behaviour

mem == <<cmdRing, cmdWrite, cmdRead, statRing, statWrite, statRead>>
hist == <<txLog, fwGot, fwLog, cpuGot, load>>
vars == <<ses, op, mem, bell, held, fw, hist>>

None == [serial |-> 0, sequence |-> 0, cursor |-> 0, next |-> 0]
Idle == [at |-> "idle"]
Element(id, part, size, seq) == [id |-> id, part |-> part, size |-> size, seq |-> seq]
Blank == Element(0, 0, 0, 0)

Init ==
    /\ ses = [state |-> "linking", preloaded |-> FALSE,
              tx_write |-> 0, tx_peer_read |-> 0, rx_read |-> 0, rx_peer_write |-> 0,
              tx_sequence |-> 0, rx_sequence |-> 0, next_ticket |-> 1, pending |-> None]
    /\ op = Idle
    /\ cmdRing = [i \in Cursors(CmdSlots) |-> Blank]
    /\ statRing = [i \in Cursors(StatSlots) |-> Blank]
    /\ cmdWrite = 0 /\ cmdRead = 0 /\ statWrite = 0 /\ statRead = 0
    /\ bell = FALSE /\ held = FALSE
    /\ fw = [ready |-> FALSE, rx_seq |-> 0, tx_seq |-> 0, pos |-> 0, left |-> 0,
             torn |-> FALSE, faults |-> 0]
    /\ txLog = <<>> /\ fwGot = <<>> /\ fwLog = <<>> /\ cpuGot = <<>>
    /\ load \in Loads

-----------------------------------------------------------------------------
(* Session: fail-stop.  fail() and stop() only set the state; an operation *)
(* that fails does no further I/O.                                         *)
Fail == /\ ses' = [ses EXCEPT !.state = "failed"]
        /\ op' = Idle

Stop == /\ op.at = "idle" /\ ses.state # "failed"
        /\ Fail
        /\ UNCHANGED <<mem, bell, held, fw, hist>>

(* A publication: performed and reported, performed but reported as failed *)
(* (or the check behind it fails), or not performed at all.                *)
Outcomes == {"ok", "lost_report", "not_done"}
Performed(o) == o # "not_done"

Continue(o, next) == IF o = "ok" THEN op' = next /\ UNCHANGED ses ELSE Fail

(* message.encode and ring.scatter: the elements of one record. *)
Scatter(ring, slots, span, cursor, id, size, seq) ==
    [i \in DOMAIN ring |->
        IF i \in span THEN Element(id, Part(slots, cursor, i), size, seq) ELSE ring[i]]

(* message.inspectPrefix on one element, and message.decode on a record:   *)
(* the checksum ties the elements together, then the sequence must match.  *)
PrefixValid(e) == e.part = 1 /\ e.size \in 1 .. MaxElements

\* Mutant: the sequence number is not compared.
RecordUnsequenced(ring, slots, cursor, size, seq) ==
    \A i \in SpanSlots(slots, cursor, size) :
        ring[i] = Element(ring[cursor].id, Part(slots, cursor, i), size, ring[cursor].seq)

RecordValid(ring, slots, cursor, size, seq) ==
    \A i \in SpanSlots(slots, cursor, size) :
        ring[i] = Element(ring[cursor].id, Part(slots, cursor, i), size, seq)

(* preloadInit(): two early records before the firmware sees the queue;    *)
(* the same span and cursor publications, without notification.            *)
PreloadInit(system, registry) ==
    /\ op.at = "idle" /\ ses.state = "linking" /\ ~ses.preloaded
    /\ IF fw.ready \/ ~PlanFits(system, Free(CmdSlots, 0, 0))
       THEN /\ ses' = [ses EXCEPT !.preloaded = TRUE, !.state = "failed"]
            /\ op' = Idle
       ELSE /\ ses' = [ses EXCEPT !.preloaded = TRUE]
            /\ op' = [at |-> "span1", kind |-> "preload", size |-> system,
                      rest |-> registry, next |-> NextCursor(CmdSlots, 0, system)]
    /\ UNCHANGED <<mem, bell, held, fw, hist>>

(* send() up to the plan: reads the peer cursor, checks its progress and   *)
(* the room.  Unavailable only refreshes tx_peer_read.                     *)
SendBegin(size) ==
    /\ op.at = "idle" /\ ses.state = "active"
    /\ IF ~ReaderProgress(CmdSlots, ses.tx_peer_read, cmdRead, ses.tx_write)
       THEN Fail
       ELSE /\ ses' = [ses EXCEPT !.tx_peer_read = cmdRead]
            /\ op' = IF PlanFits(size, Free(CmdSlots, ses.tx_write, cmdRead))
                     THEN [at |-> "prepare", kind |-> "send", size |-> size, rest |-> 0,
                           next |-> NextCursor(CmdSlots, ses.tx_write, size)]
                     ELSE Idle
    /\ UNCHANGED <<mem, bell, held, fw, hist>>

(* signal(prepare): retains the whole device run before any queue byte. *)
SendPrepare ==
    /\ op.at = "prepare"
    /\ \E o \in Outcomes :
        /\ held' = (held \/ Performed(o))
        /\ Continue(o, [op EXCEPT !.at = "span1"])
    /\ UNCHANGED <<mem, bell, fw, hist>>

SendSpan ==
    /\ op.at \in {"span1", "span2"}
    /\ LET span == IF op.at = "span1" THEN SpanOne(CmdSlots, ses.tx_write, op.size)
                                      ELSE SpanTwo(CmdSlots, ses.tx_write, op.size)
           more == op.at = "span1" /\ SecondSpan(CmdSlots, ses.tx_write, op.size) > 0
       IN \E o \in Outcomes :
            /\ cmdRing' = IF Performed(o)
                          THEN Scatter(cmdRing, CmdSlots, span, ses.tx_write,
                                       Len(txLog) + 1, op.size, ses.tx_sequence)
                          ELSE cmdRing
            /\ Continue(o, [op EXCEPT !.at = IF more THEN "span2" ELSE "cursor"])
    /\ UNCHANGED <<cmdWrite, cmdRead, statRing, statWrite, statRead, bell, held, fw, hist>>

Advance == [ses EXCEPT !.tx_write = op.next, !.tx_sequence = (@ + 1) % SeqMod]

(* The write cursor makes the record visible.  A preloaded record is then  *)
(* committed; the second one must still fit or the session fails.          *)
SendCursor ==
    /\ op.at = "cursor"
    /\ \E o \in Outcomes :
        /\ cmdWrite' = IF Performed(o) THEN op.next ELSE cmdWrite
        /\ txLog' = IF Performed(o) THEN Append(txLog, Len(txLog) + 1) ELSE txLog
        /\ \/ op.kind = "send" /\ Continue(o, [op EXCEPT !.at = "submit"])
           \/ op.kind = "preload" /\ o # "ok" /\ Fail
           \/ /\ op.kind = "preload" /\ o = "ok"
              /\ IF op.rest # 0 /\ ~PlanFits(op.rest, Free(CmdSlots, op.next, 0))
                 THEN ses' = [Advance EXCEPT !.state = "failed"] /\ op' = Idle
                 ELSE /\ ses' = Advance
                      /\ op' = IF op.rest = 0 THEN Idle
                               ELSE [at |-> "span1", kind |-> "preload", size |-> op.rest,
                                     rest |-> 0, next |-> NextCursor(CmdSlots, op.next, op.rest)]
    /\ UNCHANGED <<cmdRing, cmdRead, statRing, statWrite, statRead, bell, held, fw,
                   fwGot, fwLog, cpuGot, load>>

\* Mutant: a doubtful doorbell leaves the record to be sent again.
SubmitRetryable ==
    /\ op.at = "submit"
    /\ bell' = TRUE /\ op' = Idle
    /\ ses' \in {ses, Advance}
    /\ UNCHANGED <<mem, held, fw, hist>>

\* Mutant: the doorbell is not rung.
SubmitSilent ==
    /\ op.at = "submit"
    /\ ses' = Advance /\ op' = Idle
    /\ UNCHANGED <<mem, bell, held, fw, hist>>

(* signal(submit) rings the doorbell; only then do the CPU-side cursor and *)
(* sequence move.                                                          *)
SendSubmit ==
    /\ op.at = "submit"
    /\ \E o \in Outcomes :
        /\ bell' = (bell \/ Performed(o))
        /\ IF o = "ok" THEN ses' = Advance /\ op' = Idle ELSE Fail
    /\ UNCHANGED <<mem, held, fw, hist>>

-----------------------------------------------------------------------------
(* connect(): headers first, then the two read cursors. *)
ConnectHeaders ==
    /\ op.at = "idle" /\ ses.state = "linking"
    /\ fw.ready /\ CursorValid(StatSlots, statWrite)
    /\ op' = [at |-> "connect", write |-> statWrite, own |-> cmdWrite]
    /\ UNCHANGED <<ses, mem, bell, held, fw, hist>>

ConnectCursors ==
    /\ op.at = "connect"
    /\ LET adopted == /\ ses.tx_sequence = 2 % SeqMod /\ op.own = ses.tx_write
                      /\ cmdRead <= ses.tx_write /\ statRead = 0
           fresh == op.own = 0 /\ cmdRead = 0 /\ statRead = 0
       IN IF IF ses.preloaded THEN adopted ELSE fresh
          THEN /\ ses' = [ses EXCEPT !.state = "active", !.tx_peer_read = cmdRead,
                                     !.rx_peer_write = op.write]
               /\ op' = Idle
          ELSE Fail
    /\ UNCHANGED <<mem, bell, held, fw, hist>>

(* receive(): the peer write cursor, the prefix of the next record, then   *)
(* the whole record.  The ticket names the exact record.                   *)
RecvBegin ==
    /\ op.at = "idle" /\ ses.state = "active" /\ ses.pending = None
    /\ \/ /\ ses.next_ticket = MaxTicket
          /\ Fail
       \/ /\ ses.next_ticket # MaxTicket
          /\ IF ~WriterProgress(StatSlots, ses.rx_read, ses.rx_peer_write, statWrite)
             THEN Fail
             ELSE /\ ses' = [ses EXCEPT !.rx_peer_write = statWrite]
                  /\ op' = IF statWrite = ses.rx_read THEN Idle ELSE [at |-> "prefix"]
    /\ UNCHANGED <<mem, bell, held, fw, hist>>

RecvPrefix ==
    /\ op.at = "prefix"
    /\ LET e == statRing[ses.rx_read] IN
       IF ~PrefixValid(e) THEN Fail
       ELSE /\ op' = IF PlanFits(e.size, Available(StatSlots, ses.rx_read, ses.rx_peer_write))
                     THEN [at |-> "gather", size |-> e.size] ELSE Idle
            /\ UNCHANGED ses
    /\ UNCHANGED <<mem, bell, held, fw, hist>>

(* The spans are read one after the other; a record that wraps is put       *)
(* together from what each read found.                                     *)
RecvSpan ==
    /\ op.at = "gather" /\ SpanTwo(StatSlots, ses.rx_read, op.size) # {}
    /\ op' = [at |-> "second", size |-> op.size,
              first |-> [i \in SpanOne(StatSlots, ses.rx_read, op.size) |-> statRing[i]]]
    /\ UNCHANGED <<mem, bell, held, fw, ses, hist>>

Gathered ==
    IF op.at = "second"
    THEN [i \in DOMAIN statRing |-> IF i \in DOMAIN op.first THEN op.first[i] ELSE statRing[i]]
    ELSE statRing

RecvGather ==
    /\ \/ op.at = "gather" /\ SpanTwo(StatSlots, ses.rx_read, op.size) = {}
       \/ op.at = "second"
    /\ \/ /\ ~RecordValid(Gathered, StatSlots, ses.rx_read, op.size, ses.rx_sequence)
          /\ Fail
          /\ UNCHANGED cpuGot
       \/ /\ RecordValid(Gathered, StatSlots, ses.rx_read, op.size, ses.rx_sequence)
          /\ ses' = [ses EXCEPT
                !.next_ticket = @ + 1,
                !.pending = [serial |-> ses.next_ticket, sequence |-> ses.rx_sequence,
                             cursor |-> ses.rx_read,
                             next |-> NextCursor(StatSlots, ses.rx_read, op.size)]]
          /\ op' = Idle
          /\ cpuGot' = Append(cpuGot, Gathered[ses.rx_read].id)
    /\ UNCHANGED <<mem, bell, held, fw, txLog, fwGot, fwLog, load>>

\* Mutant: the ticket stays pending after its cursor was published.
AcknowledgeKeepsTicket ==
    /\ op.at = "idle" /\ ses.state = "active" /\ ses.pending # None
    /\ statRead' = ses.pending.next
    /\ ses' = [ses EXCEPT !.rx_read = ses.pending.next]
    /\ UNCHANGED <<op, cmdRing, cmdWrite, cmdRead, statRing, statWrite, bell, held, fw, hist>>

(* acknowledge(): publishes the read cursor behind the pending record. *)
Acknowledge ==
    /\ op.at = "idle" /\ ses.state = "active" /\ ses.pending # None
    /\ \E o \in Outcomes :
        /\ statRead' = IF Performed(o) THEN ses.pending.next ELSE statRead
        /\ IF o = "ok"
           THEN /\ ses' = [ses EXCEPT !.rx_read = ses.pending.next, !.pending = None,
                                      !.rx_sequence = (@ + 1) % SeqMod]
                /\ op' = Idle
           ELSE Fail
    /\ UNCHANGED <<cmdRing, cmdWrite, cmdRead, statRing, statWrite, bell, held, fw, hist>>

(* Any read of an operation under way may fail instead. *)
ReadFail ==
    /\ op.at \in {"connect", "prefix", "gather", "second"}
    /\ Fail
    /\ UNCHANGED <<mem, bell, held, fw, hist>>

-----------------------------------------------------------------------------
(* The firmware.  It is started between two operations of the Session and  *)
(* looks at the command ring once by itself.                               *)
FwInit == /\ ~fw.ready /\ op.at = "idle"
          /\ fw' = [fw EXCEPT !.ready = TRUE]
          /\ bell' = (cmdRead # cmdWrite)
          /\ UNCHANGED <<ses, op, mem, held, hist>>

(* Takes the next command record; a record it cannot read is torn. *)
FwTake ==
    /\ fw.ready /\ CursorValid(CmdSlots, cmdRead) /\ cmdRead # cmdWrite
    /\ LET e == cmdRing[cmdRead]
           good == /\ PrefixValid(e)
                   /\ e.size <= Available(CmdSlots, cmdRead, cmdWrite)
                   /\ RecordValid(cmdRing, CmdSlots, cmdRead, e.size, fw.rx_seq)
       IN \/ /\ good
             /\ cmdRead' = NextCursor(CmdSlots, cmdRead, e.size)
             /\ fw' = [fw EXCEPT !.rx_seq = (@ + 1) % SeqMod]
             /\ fwGot' = Append(fwGot, e.id)
             /\ bell' = (bell /\ cmdRead' # cmdWrite)
          \/ /\ ~good /\ ~fw.torn
             /\ fw' = [fw EXCEPT !.torn = TRUE]
             /\ UNCHANGED <<cmdRead, fwGot, bell>>
    /\ UNCHANGED <<ses, op, cmdRing, cmdWrite, statRing, statWrite, statRead, held,
                   txLog, fwLog, cpuGot, load>>

(* Writes one element and publishes the cursor behind it, so the driver    *)
(* can see a record of which only the first elements are there.            *)
FwPut(size) ==
    /\ fw.ready
    /\ \/ /\ fw.left = 0 /\ Len(fwLog) < load.rx
          /\ size <= Free(StatSlots, fw.pos, statRead)
          /\ fwLog' = Append(fwLog, Len(fwLog) + 1)
          /\ statRing' = [statRing EXCEPT ![fw.pos] =
                            Element(Len(fwLog) + 1, 1, size, fw.tx_seq)]
          /\ fw' = [fw EXCEPT !.left = size - 1, !.pos = NextCursor(StatSlots, @, 1),
                              !.tx_seq = IF size = 1 THEN (@ + 1) % SeqMod ELSE @]
       \/ /\ fw.left > 0
          /\ LET last == statRing[IF fw.pos = 0 THEN StatSlots - 1 ELSE fw.pos - 1]
             IN /\ size = last.size
                /\ statRing' = [statRing EXCEPT ![fw.pos] =
                                  Element(last.id, last.part + 1, last.size, fw.tx_seq)]
          /\ fw' = [fw EXCEPT !.left = @ - 1, !.pos = NextCursor(StatSlots, @, 1),
                              !.tx_seq = IF fw.left = 1 THEN (@ + 1) % SeqMod ELSE @]
          /\ UNCHANGED fwLog
    /\ statWrite' = fw'.pos
    /\ UNCHANGED <<ses, op, cmdRing, cmdWrite, cmdRead, statRead, bell, held,
                   txLog, fwGot, cpuGot, load>>

(* A faulty firmware publishes a wrong cursor. *)
FwFault ==
    /\ fw.ready /\ fw.faults < load.faults
    /\ fw' = [fw EXCEPT !.faults = @ + 1]
    /\ \/ statWrite' \in 0 .. StatSlots /\ UNCHANGED cmdRead
       \/ cmdRead' \in 0 .. CmdSlots /\ UNCHANGED statWrite
    /\ UNCHANGED <<ses, op, cmdRing, cmdWrite, statRing, statRead, bell, held, hist>>

-----------------------------------------------------------------------------
Send == \E size \in Sizes : Len(txLog) < load.tx /\ SendBegin(size)
Preload == \E system, registry \in Sizes : load.tx >= 2 /\ PreloadInit(system, registry)
Driver == \/ Stop \/ Preload \/ Send \/ SendPrepare \/ SendSpan \/ SendCursor \/ SendSubmit
          \/ ConnectHeaders \/ ConnectCursors
          \/ RecvBegin \/ RecvPrefix \/ RecvSpan \/ RecvGather \/ Acknowledge \/ ReadFail
Put == \E size \in Sizes : FwPut(size)
Next == Driver \/ FwInit \/ FwTake \/ Put \/ FwFault

Spec == Init /\ [][Next]_vars

(* The worker drives an operation to its end and polls; the firmware works *)
(* off its command ring once its doorbell rang and finishes a record it    *)
(* has begun.  Nothing makes the driver send or the firmware report.       *)
Worker == \/ SendPrepare \/ SendSpan \/ SendCursor \/ SendSubmit \/ ConnectCursors
          \/ RecvPrefix \/ RecvSpan \/ RecvGather
Fairness == /\ WF_vars(Worker) /\ WF_vars(ConnectHeaders)
            /\ WF_vars(RecvBegin) /\ WF_vars(Acknowledge)
            /\ WF_vars(bell /\ FwTake) /\ WF_vars(fw.left > 0 /\ Put)
FairSpec == Spec /\ Fairness

-----------------------------------------------------------------------------
(* Properties *)

CommandChannel == INSTANCE GspChannel WITH
    sent <- txLog, got <- fwGot, senderOpen <- ses.state # "failed", receiverOpen <- TRUE
StatusChannel == INSTANCE GspChannel WITH
    sent <- fwLog, got <- cpuGot, senderOpen <- TRUE, receiverOpen <- ses.state # "failed"

(* The command direction is a FIFO channel: what the firmware takes is the *)
(* gap-free prefix of what send() and preloadInit() made visible, and a    *)
(* failed Session makes nothing visible any more, whichever I/O failed.    *)
CommandFifo == CommandChannel!Spec

(* The status direction is a FIFO channel even when the firmware publishes *)
(* a wrong cursor: receive() never delivers a record twice, out of order,  *)
(* torn or left over from an earlier lap of the ring.                      *)
StatusFifo == StatusChannel!Spec

(* No false alarm: as long as the firmware follows the protocol, none of   *)
(* the terminal checks of connect(), send() and receive() can fire, at     *)
(* whatever point of its own work the firmware is.                         *)
HonestPeerAccepted ==
    fw.faults = 0 =>
        /\ ses.state = "active" /\ op.at = "idle" =>
            /\ ReaderProgress(CmdSlots, ses.tx_peer_read, cmdRead, ses.tx_write)
            /\ WriterProgress(StatSlots, ses.rx_read, ses.rx_peer_write, statWrite)
        /\ op.at = "prefix" => PrefixValid(statRing[ses.rx_read])
        /\ op.at \in {"gather", "second"} =>
            RecordValid(Gathered, StatSlots, ses.rx_read, op.size, ses.rx_sequence)
        /\ op.at = "connect" =>
            /\ op.own = ses.tx_write /\ cmdRead <= ses.tx_write /\ statRead = 0
            /\ ses.tx_sequence = IF ses.preloaded THEN 2 % SeqMod ELSE 0

(* Visible commands are eventually all taken whole by a started firmware   *)
(* that follows the protocol, unless the Session has failed: their slots   *)
(* were written before the cursor covered them and stay until they are     *)
(* read.                                                                   *)
CommandsTaken ==
    (fw.ready /\ Len(fwGot) < Len(txLog))
        ~> (Len(fwGot) = Len(txLog) \/ ses.state = "failed" \/ fw.faults > 0)

(* The records the firmware wrote by the protocol are eventually all       *)
(* delivered to the driver, unless the Session has failed: a partly        *)
(* visible record is retried.                                              *)
RecordsDelivered ==
    Len(cpuGot) < Len(fwLog)
        ~> (Len(cpuGot) = Len(fwLog) \/ ses.state = "failed" \/ fw.faults > 0)
=============================================================================
