---------------------------- MODULE GspExchange ----------------------------
(***************************************************************************)
(* The owners of the GSP queue after the firmware was started: Boot of     *)
(* src/gsp_boot_events.zig up to INIT_DONE, then a succession of Exchange  *)
(* owners (src/gsp_exchange.zig) that pass one Handoff token along, each   *)
(* with at most one RPC outstanding, and the notification dispatch of      *)
(* src/gsp_runtime_events.zig.                                             *)
(*                                                                         *)
(* The transport is used through what GspTransport shows it implements: a  *)
(* FIFO in each direction whose head stays until it is acknowledged, and a *)
(* fail-stop session whose failed send or ACK may have taken effect.       *)
(***************************************************************************)
EXTENDS Naturals, Sequences, FiniteSets

CONSTANTS Owners,        \* successive Exchange owners
          Functions,     \* RPC functions
          MaxTime,       \* bound of the clock
          MaxReq,        \* bound: requests per run
          MaxNote,       \* bound: notifications the firmware sends
          MaxRevision    \* revision at which invalidate is exhausted (2^64-1)

ASSUME ExchangeAssumption ==
    /\ IsFiniteSet(Owners) /\ Functions # {}
    /\ MaxTime \in Nat /\ MaxReq \in Nat /\ MaxNote \in Nat
    /\ MaxRevision \in Nat \ {0}

VARIABLES now,           \* monotonic clock
          ses,           \* state of the transport session
          boot,          \* Boot
          ex,            \* Exchange per owner
          token,         \* the unclaimed Handoff, if any
          toFw, toCpu,   \* the two channels
          fw,            \* firmware progress; reqs numbers the requests begun
          lockSeen,      \* history: the driver has admitted a lockdown
          runs           \* history: handler runs per notification number

vars == <<now, ses, boot, ex, token, toFw, toCpu, fw, lockSeen, runs>>

NoDeadline == MaxTime + 1
(* What a caller may pass: the last one is later than the clock gets. *)
Deadlines == 1 .. MaxTime + 1
Min2(a, b) == IF a <= b THEN a ELSE b
Expired(end) == now >= end

NoRecord == [kind |-> "none", function |-> 0, req |-> 0, number |-> 0]
Reply(f, r) == [kind |-> "reply", function |-> f, req |-> r, number |-> 0]
Note(k, n) == [kind |-> k, function |-> 0, req |-> 0, number |-> n]
Notices == {"lockdown_on", "lockdown_off", "libos_print", "post_event", "unknown"}

Unborn == [phase |-> "unborn", deadline |-> NoDeadline, function |-> 0, req |-> 0,
           revision |-> 1, in_lockdown |-> FALSE, pending |-> NoRecord, response |-> FALSE]
NoToken == [present |-> FALSE, in_lockdown |-> FALSE]

Init ==
    /\ now = 0
    /\ ses = "linking"
    /\ boot \in [state : {"waiting"}, deadline : Deadlines, pending : {NoRecord},
                 in_lockdown : {FALSE}]
    /\ ex = [o \in Owners |-> Unborn]
    /\ token = NoToken
    /\ toFw = <<>> /\ toCpu = <<>>
    /\ fw = [linked |-> FALSE, init_done |-> FALSE, notes |-> 0, reqs |-> 0]
    /\ lockSeen = FALSE
    /\ runs = [n \in 1 .. MaxNote + 1 |-> 0]

-----------------------------------------------------------------------------
(* Failure of the current owner stops the session. *)
BootFail == /\ boot' = [boot EXCEPT !.state = "failed"]
            /\ ses' = "failed"

Fail(o) == /\ ex' = [ex EXCEPT ![o].phase = "failed"]
           /\ ses' = "failed"

Count(r) == IF r.number = 0 THEN runs ELSE [runs EXCEPT ![r.number] = @ + 1]

(* A failed acknowledgement may have moved the read cursor. *)
AckLost == toCpu' \in {toCpu, Tail(toCpu)}

(* Boot.poll: the link once its headers are there, then one record,        *)
(* decoded; a lockdown notice takes effect at once.                        *)
BootPoll ==
    /\ boot.state = "waiting"
    /\ \/ Expired(boot.deadline) /\ BootFail /\ UNCHANGED lockSeen
       \/ /\ ~Expired(boot.deadline) /\ ses = "linking" /\ fw.linked /\ toCpu = <<>>
          /\ ses' = "active" /\ UNCHANGED <<boot, lockSeen>>
       \/ /\ ~Expired(boot.deadline) /\ fw.linked /\ toCpu # <<>>
          /\ LET r == Head(toCpu) IN
             IF r.kind \in {"unknown", "reply", "post_event"}
             THEN BootFail /\ UNCHANGED lockSeen
             ELSE /\ boot' = [boot EXCEPT !.state = "dispatching", !.pending = r,
                                !.in_lockdown = @ \/ r.kind = "lockdown_on"]
                  /\ lockSeen' = (lockSeen \/ r.kind = "lockdown_on")
                  /\ ses' = "active"
    /\ UNCHANGED <<now, ex, token, toFw, toCpu, fw, runs>>

(* Boot.complete after the handler ran, or Boot.reject when it failed. *)
BootComplete ==
    /\ boot.state = "dispatching"
    /\ runs' = Count(boot.pending)
    /\ \/ Expired(boot.deadline) /\ BootFail /\ UNCHANGED <<toCpu, lockSeen>>
       \/ ~Expired(boot.deadline) /\ BootFail /\ AckLost /\ UNCHANGED lockSeen
       \/ /\ ~Expired(boot.deadline)
          /\ toCpu' = Tail(toCpu)
          /\ boot' = [boot EXCEPT
                !.pending = NoRecord,
                !.state = IF boot.pending.kind = "init_done" THEN "init_done" ELSE "waiting",
                !.in_lockdown = IF boot.pending.kind = "lockdown_off" THEN FALSE ELSE @]
          /\ lockSeen' = (lockSeen /\ boot.pending.kind # "lockdown_off")
          /\ UNCHANGED ses
    /\ UNCHANGED <<now, ex, token, toFw, fw>>

BootHandoff(deadline) ==
    /\ boot.state = "init_done"
    /\ \/ Expired(deadline) /\ BootFail /\ UNCHANGED token
       \/ /\ ~Expired(deadline)
          /\ boot' = [boot EXCEPT !.state = "handed_off"]
          /\ token' = [present |-> TRUE, in_lockdown |-> boot.in_lockdown]
          /\ UNCHANGED ses
    /\ UNCHANGED <<now, ex, toFw, toCpu, fw, lockSeen, runs>>

-----------------------------------------------------------------------------
Live(o) == ex[o].phase \in {"idle", "prepared", "waiting"}

\* Mutant: a later call extends the work it continues.
Extended(o, deadline) == deadline
(* Repeated calls keep the earliest deadline of the work they continue. *)
End(o, deadline) == Min2(ex[o].deadline, deadline)

\* Mutant: init leaves the token claimable.
ClaimTwice(o, deadline) ==
    /\ token.present /\ ses = "active" /\ ex[o].phase \in {"unborn", "handed_off"}
    /\ ~Expired(deadline)
    /\ ex' = [ex EXCEPT ![o] = [Unborn EXCEPT !.phase = "idle", !.in_lockdown = token.in_lockdown]]
    /\ UNCHANGED <<now, ses, boot, token, toFw, toCpu, fw, lockSeen, runs>>

(* Exchange.init claims the token; an expired deadline fails the session   *)
(* and leaves the token unclaimed.                                         *)
Claim(o, deadline) ==
    /\ token.present /\ ses = "active" /\ ex[o].phase \in {"unborn", "handed_off"}
    /\ IF Expired(deadline)
       THEN ses' = "failed" /\ UNCHANGED <<ex, token>>
       ELSE /\ ex' = [ex EXCEPT ![o] = [Unborn EXCEPT
                        !.phase = "idle", !.in_lockdown = token.in_lockdown]]
            /\ token' = NoToken
            /\ UNCHANGED ses
    /\ UNCHANGED <<now, boot, toFw, toCpu, fw, lockSeen, runs>>

Begin(o, f, deadline) ==
    /\ ex[o].phase = "idle" /\ ex[o].pending = NoRecord /\ fw.reqs < MaxReq
    /\ LET end == End(o, deadline) IN
       IF Expired(end) THEN Fail(o) /\ UNCHANGED fw
       ELSE /\ ex' = [ex EXCEPT ![o].phase = "prepared", ![o].deadline = end,
                                ![o].function = f, ![o].req = fw.reqs + 1]
            /\ fw' = [fw EXCEPT !.reqs = @ + 1]
            /\ UNCHANGED ses
    /\ UNCHANGED <<now, boot, token, toFw, toCpu, lockSeen, runs>>

CancelPrepared(o) ==
    /\ ex[o].phase = "prepared" /\ ex[o].pending = NoRecord
    /\ IF Expired(ex[o].deadline) THEN Fail(o)
       ELSE /\ ex' = [ex EXCEPT ![o].phase = "idle", ![o].deadline = NoDeadline]
            /\ UNCHANGED ses
    /\ UNCHANGED <<now, boot, token, toFw, toCpu, fw, lockSeen, runs>>

(* The receive half of poll(): a reply only answers a waiting request of   *)
(* its function; anything else must be a known notification.               *)
Receive(o, end) ==
    LET r == Head(toCpu)
        response == ex[o].phase = "waiting" /\ r.kind = "reply" /\ r.function = ex[o].function
    IN IF \/ ~response /\ r.kind \in {"reply", "unknown", "init_done"}
          \/ ~response /\ r.kind # "libos_print" /\ ex[o].revision = MaxRevision
       THEN Fail(o) /\ UNCHANGED lockSeen
       ELSE /\ ex' = [ex EXCEPT ![o].deadline = end, ![o].pending = r,
                        ![o].response = response,
                        ![o].in_lockdown = @ \/ r.kind = "lockdown_on",
                        ![o].revision = IF response \/ r.kind = "libos_print" THEN @ ELSE @ + 1]
            /\ lockSeen' = (lockSeen \/ r.kind = "lockdown_on")
            /\ UNCHANGED ses

(* The send half, reached only with an empty status queue.  A ring without *)
(* room keeps the request prepared; a failed send may be visible.          *)
Submit(o, end) ==
    \/ /\ ex' = [ex EXCEPT ![o].deadline = end]
       /\ UNCHANGED <<toFw, ses>>
    \/ /\ ex' = [ex EXCEPT ![o].deadline = end, ![o].phase = "waiting"]
       /\ toFw' = Append(toFw, [function |-> ex[o].function, req |-> ex[o].req])
       /\ UNCHANGED ses
    \/ /\ Fail(o)
       /\ toFw' \in {toFw, Append(toFw, [function |-> ex[o].function, req |-> ex[o].req])}

Poll(o, deadline) ==
    /\ Live(o)
    /\ LET end == End(o, deadline) IN
       \/ /\ Expired(end)
          /\ Fail(o) /\ UNCHANGED <<toFw, lockSeen>>
       \/ /\ ~Expired(end) /\ ex[o].pending = NoRecord       \* receive() failed
          /\ Fail(o) /\ UNCHANGED <<toFw, lockSeen>>
       \/ /\ ~Expired(end)           \* error.Pending, or a record not yet complete
          /\ ex[o].pending # NoRecord \/ toCpu # <<>>
          /\ ex' = [ex EXCEPT ![o].deadline = end]
          /\ UNCHANGED <<ses, toFw, lockSeen>>
       \/ /\ ~Expired(end) /\ ex[o].pending = NoRecord /\ toCpu # <<>>
          /\ Receive(o, end) /\ UNCHANGED toFw
       \/ /\ ~Expired(end) /\ ex[o].pending = NoRecord /\ toCpu = <<>>
          /\ UNCHANGED lockSeen
          /\ IF ex[o].phase = "prepared" /\ ~ex[o].in_lockdown
             THEN Submit(o, end)
             ELSE /\ ex' = [ex EXCEPT ![o].deadline =
                              IF ex[o].phase = "idle" THEN NoDeadline ELSE end]
                  /\ UNCHANGED <<ses, toFw>>
    /\ UNCHANGED <<now, boot, token, toCpu, fw, runs>>

\* Mutant: any completed record ends the lockdown.
CompleteReopens(o) ==
    /\ toCpu' = Tail(toCpu)
    /\ ex' = [ex EXCEPT ![o].pending = NoRecord, ![o].in_lockdown = FALSE,
                        ![o].phase = IF ex[o].response THEN "idle" ELSE @]
    /\ UNCHANGED <<ses, lockSeen>>

(* complete(): the ACK, then the request ends or the lockdown flag follows *)
(* the handled notice.                                                     *)
Complete(o) ==
    LET p == ex[o].pending
        idle == ex[o].response \/ ex[o].phase = "idle"
    IN \/ Fail(o) /\ AckLost /\ UNCHANGED lockSeen
       \/ /\ toCpu' = Tail(toCpu)
          /\ ex' = [ex EXCEPT ![o].pending = NoRecord,
                ![o].phase = IF ex[o].response THEN "idle" ELSE @,
                ![o].in_lockdown = IF p.kind = "lockdown_off" THEN FALSE ELSE @,
                ![o].deadline = IF idle THEN NoDeadline ELSE @]
          /\ lockSeen' = (lockSeen /\ p.kind # "lockdown_off")
          /\ UNCHANGED ses

(* An owner admits its response and completes it, or fails on its content. *)
CompleteResponse(o) ==
    /\ Live(o) /\ ex[o].pending # NoRecord /\ ex[o].response
    /\ \/ Fail(o) /\ UNCHANGED <<toCpu, lockSeen>>
       \/ ~Expired(ex[o].deadline) /\ Complete(o)
    /\ UNCHANGED <<now, boot, token, toFw, fw, runs>>

\* Mutant: a denied event is acknowledged.
AcknowledgeDenied(o) ==
    /\ Live(o) /\ ex[o].pending # NoRecord /\ ~ex[o].response
    /\ ~Expired(ex[o].deadline)
    /\ Complete(o)
    /\ UNCHANGED <<now, boot, token, toFw, fw, runs>>

(* runtime_events.Dispatch: admission, at most one delivery, then the ACK. *)
(* A denied event is not delivered; a failed delivery is not acknowledged. *)
DispatchNotification(o) ==
    /\ Live(o) /\ ex[o].pending # NoRecord /\ ~ex[o].response
    /\ \/ /\ Fail(o)
          /\ UNCHANGED <<toCpu, lockSeen, runs>>
       \/ /\ ~Expired(ex[o].deadline)
          /\ runs' = Count(ex[o].pending)
          /\ \/ Fail(o) /\ UNCHANGED <<toCpu, lockSeen>>
             \/ Complete(o)
    /\ UNCHANGED <<now, boot, token, toFw, fw>>

(* handoff(); nothing reads the other fields of a handed-off Exchange. *)
Handoff(o, deadline) ==
    /\ ex[o].phase = "idle" /\ ex[o].pending = NoRecord
    /\ \/ Expired(End(o, deadline)) /\ Fail(o) /\ UNCHANGED token
       \/ /\ ~Expired(End(o, deadline))
          /\ ex' = [ex EXCEPT ![o] = [Unborn EXCEPT !.phase = "handed_off"]]
          /\ token' = [present |-> TRUE, in_lockdown |-> ex[o].in_lockdown]
          /\ UNCHANGED ses
    /\ UNCHANGED <<now, boot, toFw, toCpu, fw, lockSeen, runs>>

-----------------------------------------------------------------------------
(* The firmware publishes its queue header, answers requests in order and  *)
(* notifies when it likes; it announces INIT_DONE once.                    *)
FwLink ==
    /\ ~fw.linked
    /\ fw' = [fw EXCEPT !.linked = TRUE]
    /\ UNCHANGED <<now, ses, boot, ex, token, toFw, toCpu, lockSeen, runs>>

FwReply ==
    /\ toFw # <<>>
    /\ toCpu' = Append(toCpu, Reply(Head(toFw).function, Head(toFw).req))
    /\ toFw' = Tail(toFw)
    /\ UNCHANGED <<now, ses, boot, ex, token, fw, lockSeen, runs>>

FwNotify ==
    /\ fw.linked
    /\ \/ /\ fw.notes < MaxNote
          /\ \E k \in Notices : toCpu' = Append(toCpu, Note(k, fw.notes + 1))
          /\ fw' = [fw EXCEPT !.notes = @ + 1]
       \/ /\ ~fw.init_done
          /\ toCpu' = Append(toCpu, Note("init_done", MaxNote + 1))
          /\ fw' = [fw EXCEPT !.init_done = TRUE]
    /\ UNCHANGED <<now, ses, boot, ex, token, toFw, lockSeen, runs>>

Tick == /\ now < MaxTime
        /\ now' = now + 1
        /\ UNCHANGED <<ses, boot, ex, token, toFw, toCpu, fw, lockSeen, runs>>

-----------------------------------------------------------------------------
Step(o) == \/ CancelPrepared(o) \/ CompleteResponse(o) \/ DispatchNotification(o)
           \/ \E d \in Deadlines :
                \/ Claim(o, d) \/ Poll(o, d) \/ Handoff(o, d)
                \/ \E f \in Functions : Begin(o, f, d)
Booting == BootPoll \/ BootComplete \/ \E d \in Deadlines : BootHandoff(d)
Next == Booting \/ (\E o \in Owners : Step(o)) 
        \/ FwLink \/ FwReply \/ FwNotify \/ Tick

Spec == Init /\ [][Next]_vars

(* The clock advances, and the device worker keeps polling the live owner, *)
(* with whatever deadline: a poll is made after the owner's own has passed. *)
(* Nothing else is assumed of a poll, not even that it receives or fails.  *)
FairSpec ==
    /\ Spec /\ WF_vars(Tick)
    /\ \A o \in Owners :
          WF_vars(Expired(ex[o].deadline) /\ \E d \in Deadlines : Poll(o, d))

-----------------------------------------------------------------------------

BootOwns == boot.state \in {"waiting", "dispatching", "init_done"}
Holders == {o \in Owners : Live(o)}

(* While the session is usable there is exactly one party entitled to      *)
(* drive it: Boot, one Exchange, or whoever will claim the one Handoff     *)
(* token.  handoff() and init() never duplicate or lose the queue.         *)
SoleOwner ==
    LET parties == Cardinality(Holders) + (IF BootOwns THEN 1 ELSE 0)
                     + (IF token.present THEN 1 ELSE 0)
    IN IF ses = "failed" THEN parties <= 1 ELSE parties = 1

(* The reply poll() pairs with a request by its function number alone is   *)
(* the reply to that very request: cancelPrepared() leaves no reply behind *)
(* and a failed submission leaves no later request to confuse it with.     *)
ReplyMatchesRequest ==
    \A o \in Owners : Live(o) /\ ex[o].response /\ ex[o].pending # NoRecord
        => ex[o].pending.req = ex[o].req

(* The notifications the firmware has put into the queue so far. *)
Issued(n) == n \in 1 .. fw.notes \/ (n = MaxNote + 1 /\ fw.init_done)

(* A notification handler runs at most once per record, whatever becomes   *)
(* of the acknowledgement that follows it, across Boot and all owners, and *)
(* a record leaves the queue only after its handler ran.                   *)
HandledOnce ==
    \A n \in DOMAIN runs :
        /\ runs[n] <= 1
        /\ Issued(n) /\ runs[n] = 0 => \E i \in 1 .. Len(toCpu) : toCpu[i].number = n

(* Every record of the status queue is served to the one it is meant for,  *)
(* once: a reply to its request, a notification to its handler (poll,       *)
(* complete, Dispatch.step).                                                *)
ServedOnce == ReplyMatchesRequest /\ HandledOnce

(* No request is published after a lockdown notice was admitted and before *)
(* its release was acknowledged.                                           *)
NoSendInLockdown ==
    [][Len(toFw') > Len(toFw) => ~lockSeen]_vars

(* A request that was begun with a deadline ends, by its reply, by         *)
(* cancellation or by that deadline, as long as the worker keeps polling,  *)
(* with whatever later deadlines it polls.                                 *)
RequestsEnd ==
    \A o \in Owners : ex[o].phase \in {"prepared", "waiting"} /\ ex[o].deadline <= MaxTime
        ~> (ex[o].phase \in {"idle", "handed_off", "failed"})
=============================================================================
