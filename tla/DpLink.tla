------------------------------- MODULE DpLink -------------------------------
(* One mode set on a DisplayPort output: gsp_dp_mode selects an             *)
(* uncompressed or a compressed plan from the captured receiver,            *)
(* gsp_dp_link reads the live receiver, trains and configures the link,     *)
(* gsp_dp_stop takes FEC and the decoder down, and gsp_runtime commits,     *)
(* rolls back, abandons and detaches around them while receivers come and   *)
(* go.  The receiver, RM and the two display channels are external: an      *)
(* event changes the hardware first and is noticed later.                   *)
(*                                                                          *)
(* A monitor is [captured, revision, framing, rate, lanes, tps4, enhanced,  *)
(* extended, bits, fec, dsc, vsc, repeaters], captured when its DPCD could  *)
(* be read for the capture; a mode is [pclk, width, height, total, bpc,   *)
(* vsc].  Colour admission is left out: signal_color.admit accepts.         *)
EXTENDS DscPlan

CONSTANTS Mode,       \* Mode name -> timing
          Monitor,    \* Receiver name -> what its DPCD and EDID say
          Source,     \* RM's source capabilities
          MaxEvents,  \* Receiver events in a behaviour
          MaxCommits  \* Mode sets in a behaviour

None == "none"
Modes == DOMAIN Mode
Monitors == DOMAIN Monitor
ASSUME DpNames == /\ None \notin Modes \cup Monitors
                  /\ MaxEvents \in Nat /\ MaxCommits \in Nat

VARIABLES hw,      \* [monitor, config, fec, decoder]: what is plugged in and how it is set
          dirty,   \* The receiver changed and GSP's notification has not been handled
          seen,    \* The captured receiver, None once invalidated
          image,   \* The published image's [plan, config], NoImage when retired
          owner,   \* The output's owner: initial, online, leaving or headless
          tried,   \* The owner already used this capture
          work,    \* The display transaction, [role |-> None] when there is none
          channel, \* The exchange: idle, prepared or waiting
          refused, \* A refused mode set its owner has not taken yet
          fault,   \* The runtime stopped
          events, commits,
          table    \* The answers of the admission functions, which never change
vars == <<hw, dirty, seen, image, owner, tried, work, channel, refused, fault, events, commits, table>>
bounds == <<events, commits>>

NoWork == [role |-> None]
NoImage == [plan |-> None]
NoConfig == [rate |-> 0, lanes |-> 0]
Idle == work = NoWork
paused == owner \in {"leaving", "headless"}

-----------------------------------------------------------------------------
(* Plans.  A plan names the mode and, when compressed, the receiver whose   *)
(* parameter set it carries and the exact link it was generated for.        *)

\* receiverCaps: the DPCD revisions, lane counts and rates the driver knows.
receiverCaps(k) == /\ k.revision \in 16 .. 20 \cup {32} /\ k.framing
                   /\ k.lanes \in {1, 2, 4} /\ k.rate \in {6, 10, 20, 30}
\* HBR3 needs TPS4; without it only the lower rates are granted.
receiverRate(k) == IF k.rate = 30 /\ ~k.tps4 THEN 20 ELSE k.rate

DpRequest(m, k, c) ==
    [transport |-> "sst", pclk |-> m.pclk, width |-> m.width, height |-> m.height,
     bpc |-> m.bpc, hblank |-> m.total - m.width, payload |-> payload(c.rate, c.lanes),
     rate |-> c.rate, lanes |-> c.lanes, forced_bpp |-> 0, forced_slice_width |-> 0,
     source |-> Source.dsc, sink |-> k.dsc]

Params(m, k, c) == generate(DpRequest(Mode[m], Monitor[k], c))

Plain(m) == [mode |-> m, compressed |-> FALSE]
Compressed(m, k, c) == [mode |-> m, compressed |-> TRUE, from |-> k, link |-> c]

\* gsp_dp_mode.select: uncompressed where it fits or where the capture does
\* not say (the link decides when it has read the receiver), else the exact
\* DSC configuration of the best link, or the reason there is none.
DscOn(m, k, c, params) ==
    IF params.error # "none" THEN params
    ELSE IF ~withFec(Mode[m], c, params, Monitor[k].enhanced, Source.increased) THEN Error("Bandwidth")
    ELSE Compressed(m, k, c)
SelectPlan(m, k) ==
    LET v == Mode[m]
        s == Monitor[k]
        c == [rate |-> Least(Source.rate, receiverRate(s)), lanes |-> s.lanes]
    IN  IF \/ ~s.captured \/ ~receiverCaps(s)
           \/ /\ Fits(v.pclk, 48 * v.bpc, dp8b10bPayload(c.rate, c.lanes))
              /\ v.bpc = 8 \/ s.bits >= v.bpc
        THEN Plain(m)
        ELSE IF ~Source.dp14 \/ ~Source.fec \/ ~s.fec \/ ~s.dsc.usable \/ s.repeaters THEN Error("Bandwidth")
        ELSE DscOn(m, k, c, Params(m, k, c))

\* gsp_dp_link.stream for the receiver the transaction itself read.
stream(plan, k, c) ==
    LET s == Monitor[k]
    IN  /\ c.rate <= Least(Source.rate, receiverRate(s)) /\ c.lanes <= s.lanes
        /\ IF plan.compressed
           THEN /\ Source.dp14 /\ Source.fec /\ Source.dsc.usable /\ c = plan.link
                /\ withFec(Mode[plan.mode], c, Params(plan.mode, plan.from, c), s.enhanced, Source.increased)
           ELSE plainStream(Mode[plan.mode], Mode[plan.mode].bpc, c, s.enhanced, Source.increased)

\* Rates downwards, then lanes downwards.
Descending == [i \in 1 .. 12 |-> [rate |-> <<30, 20, 10, 6>>[1 + (i - 1) \div 3],
                                  lanes |-> <<4, 2, 1>>[1 + ((i - 1) % 3)]]]
Candidates(plan, k) == SelectSeq(Descending, LAMBDA c : stream(plan, k, c))

\* The admission functions over all modes and receivers: the plan of a mode
\* on a receiver, the links a plan may use on one, and the receivers for
\* which the generator answers a compressed plan with the same set.
Admission0 ==
    LET plans == {SelectPlan(m, k) : m \in Modes, k \in Monitors}
        good == {p \in plans : "error" \notin DOMAIN p}
    IN  [select |-> [q \in Modes \X Monitors |-> SelectPlan(q[1], q[2])],
         candidates |-> [q \in good \X Monitors |-> Candidates(q[1], q[2])],
         same |-> {q \in good \X Monitors :
                      /\ q[1].compressed
                      /\ Params(q[1].mode, q[2], q[1].link) = Params(q[1].mode, q[1].from, q[1].link)}]
Selected(m, k) == table.select[<<m, k>>]
SameParams(plan, k) == <<plan, k>> \in table.same

-----------------------------------------------------------------------------
(* The transaction.  gsp_display_link.Work and its gsp_dp_link and          *)
(* gsp_dp_stop parts are one record; "clear" is the stop part's stage.      *)

Clearing == {"fec_disable", "decoder_disable", "decoder_verify"}

initInPlace(role, plan) ==
    [role |-> role, plan |-> plan, stage |-> "source", clear |-> None, present |-> TRUE,
     mutated |-> FALSE, sink |-> None, dsc |-> None, fec |-> FALSE,
     candidates |-> <<>>, index |-> 1, retries |-> 0, polls |-> 0, core |-> FALSE, noted |-> FALSE,
     abandoned |-> FALSE, error |-> None]
clearPrevious(w) == [w EXCEPT !.clear = "fec_disable"]
stopExtended(role, plan, present, noted) ==
    [initInPlace(role, plan) EXCEPT !.stage = None, !.clear = "fec_disable", !.present = present,
                                    !.abandoned = ~present, !.noted = noted]

extended(w) == w.plan.compressed \/ w.clear # None
request(w) == IF w.clear \in Clearing THEN w.clear ELSE w.stage
phase(w) == IF w.clear \in Clearing THEN "before_scanout"
            ELSE CASE w.stage \in {None, "post_complete"} -> "complete"
                   [] w.stage = "complete" -> "scanout"
                   [] w.stage \in {"vsc", "hdr"} -> "after_scanout"
                   [] OTHER -> "before_scanout"
Linked == work.role \in {"commit", "restore", "stop"}
Transacting == Linked /\ phase(work) \in {"before_scanout", "after_scanout"}

\* The operations that change the source or the receiver.
mutating(w) == request(w) \in {"power_on", "train", "stream", "mute", "vsc", "hdr", "fec_clear",
                               "fec_enable", "dsc_enable", "fec_disable", "decoder_disable"}
\* The setters among them that the receiver itself executes or answers.
ReceiverSetters == {"power_on", "train", "fec_clear", "dsc_enable", "decoder_disable"}

\* An admitted transaction whose receiver has changed: the output's pause is
\* the barrier for an existing image, the first image has no owner to pause.
displayWorkObsolete == /\ work.role \in {"commit", "restore"}
                       /\ work.noted /\ (paused \/ owner = "initial")

trainingStart(w) == IF w.plan.compressed THEN "fec_clear" ELSE "train"
afterExtended(w) == IF Mode[w.plan.mode].vsc THEN "color_caps" ELSE "repeaters"
afterDsc(w) == IF Source.dp14 /\ Source.fec THEN "fec_caps" ELSE afterExtended(w)
afterMst(w) == IF Source.dp14 /\ Source.dsc.advertised THEN "dsc_caps" ELSE afterDsc(w)
afterCaps(w) == IF Source.mst THEN "mst_caps" ELSE afterMst(w)

Go(w, stage) == [w EXCEPT !.stage = stage, !.retries = 0]
Reject(w, reason) == [w EXCEPT !.error = reason]

\* Mutant: retries without a limit.
RetryForever(w) == w
\* At most three requests for one operation.
retry(w) == IF w.retries >= 2 THEN Reject(w, "RetryExhausted") ELSE [w EXCEPT !.retries = @ + 1]

fallback(w) == IF w.index >= Len(w.candidates) THEN Reject(w, "LinkTraining")
               ELSE [Go(w, "train") EXCEPT !.index = @ + 1]

\* Mutant: the admitted parameter set is used without generating it again.
SelectTrustsCapture(w) ==
    LET list == table.candidates[<<w.plan, w.sink>>]
    IN  IF list = <<>> THEN Reject(w, "Bandwidth")
        ELSE [Go(w, IF Monitor[w.sink].revision >= 17 THEN "power" ELSE trainingStart(w))
                EXCEPT !.candidates = list]
\* A compressed plan must be what the live capabilities generate.
select(w) ==
    LET list == table.candidates[<<w.plan, w.sink>>]
    IN  IF w.plan.compressed /\ (~Source.fec \/ ~w.fec \/ w.dsc = None) THEN Reject(w, "Bandwidth")
        ELSE IF w.plan.compressed /\ ~SameParams(w.plan, w.dsc)
        THEN Reject(w, "Stale")
        ELSE IF list = <<>> THEN Reject(w, "Bandwidth")
        ELSE [Go(w, IF Monitor[w.sink].revision >= 17 THEN "power" ELSE trainingStart(w))
                EXCEPT !.candidates = list]

optionalUnavailable(w) ==
    CASE w.stage = "mst_caps" -> Go(w, afterMst(w))
      [] w.stage = "dsc_caps" -> Go(w, afterDsc(w))
      [] w.stage = "fec_caps" -> Go(w, afterExtended(w))
Optional(w) == w.clear \notin Clearing /\ w.stage \in {"mst_caps", "dsc_caps", "fec_caps"}

afterTrained(w) == IF w.plan.compressed THEN "fec_enable" ELSE "stream"

\* The stop part on an acknowledged request; h is the hardware it read.
AckedClear(w, h) ==
    CASE w.clear = "fec_disable" -> [w EXCEPT !.clear = IF w.present THEN "decoder_disable" ELSE "disabled"]
      [] w.clear = "decoder_disable" -> [w EXCEPT !.clear = "decoder_verify", !.retries = 0]
      [] w.clear = "decoder_verify" ->
             IF h.decoder THEN Reject(w, "LinkTraining") ELSE [w EXCEPT !.clear = "disabled", !.retries = 0]

\* The link part on an acknowledged request; good is what a status read says
\* of lock and of FEC detection.
AckedStage(w, h, good) ==
    LET s == w.stage
        k == Monitor[h.monitor]
        c == w.candidates[w.index]
    IN  CASE s = "source" -> IF Mode[w.plan.mode].vsc /\ ~Source.dp14 THEN Reject(w, "Unsupported") ELSE Go(w, "caps")
          [] s = "caps" -> IF ~receiverCaps(k) THEN Reject(w, "Unsupported")
                           ELSE [Go(w, IF k.extended THEN "extended_caps" ELSE afterCaps(w)) EXCEPT !.sink = h.monitor]
          [] s = "extended_caps" -> IF ~receiverCaps(k) THEN Reject(w, "Unsupported")
                                    ELSE [Go(w, afterCaps(w)) EXCEPT !.sink = h.monitor]
          [] s = "mst_caps" -> Go(w, afterMst(w))
          [] s = "dsc_caps" -> [Go(w, afterDsc(w)) EXCEPT !.dsc = IF k.dsc.usable THEN h.monitor ELSE None]
          [] s = "fec_caps" -> [Go(w, afterExtended(w)) EXCEPT !.fec = k.fec]
          [] s = "color_caps" -> IF k.vsc /\ Source.dp14 THEN Go(w, "repeaters") ELSE Reject(w, "Unsupported")
          [] s = "repeaters" -> IF k.repeaters THEN Reject(w, "Unsupported") ELSE select(w)
          [] s = "power" -> Go(w, "power_on")
          [] s = "power_on" -> Go(w, trainingStart(w))
          [] s = "fec_clear" -> Go(w, "train")
          [] s = "train" -> IF good THEN Go(w, "link_config") ELSE fallback(w)
          [] s = "link_config" -> IF h.config = c THEN Go(w, "link_status") ELSE fallback([w EXCEPT !.retries = 0])
          [] s = "link_status" -> IF good /\ h.config = c THEN Go(w, afterTrained(w))
                                  ELSE fallback([w EXCEPT !.retries = 0])
          [] s = "fec_enable" -> Go(w, "fec_status")
          [] s = "fec_status" -> IF good /\ h.fec THEN Go(w, "dsc_enable")
                                 ELSE IF w.polls >= 2 THEN Reject(w, "LinkTraining")
                                 ELSE [w EXCEPT !.polls = @ + 1, !.retries = 0]
          [] s = "dsc_enable" -> Go(w, "dsc_verify")
          [] s = "dsc_verify" -> IF h.decoder THEN Go(w, "stream") ELSE Reject(w, "LinkTraining")
          [] s = "stream" -> Go(w, "mute")
          [] s = "mute" -> Go(w, "complete")
          [] s = "vsc" -> Go(w, "hdr")
          [] s = "hdr" -> Go(w, "post_complete")

\* What the transaction makes of a reply: ack, bad (an acknowledged status
\* that says no), busy (BUSY, NOT_READY or an AUX defer), nack, where it is
\* told from any other refusal, or error.
consume(w, h, reply) ==
    CASE reply \in {"ack", "bad"} ->
             IF w.clear \in Clearing THEN AckedClear(w, h) ELSE AckedStage(w, h, reply = "ack")
      [] reply = "busy" -> LET r == retry(w)
                           IN  IF Optional(w) /\ r.error # None THEN optionalUnavailable(w) ELSE r
      [] reply = "nack" -> IF Optional(w) THEN optionalUnavailable(w)
                           ELSE select(w)
      [] OTHER -> IF Optional(w) THEN optionalUnavailable(w) ELSE Reject(w, "RmRejected")

\* The replies a request can get.  RM controls that are not AUX transfers
\* or training are neither deferred nor refused by the receiver.
Replies(w) ==
    CASE request(w) \in {"train", "link_status", "fec_status"} -> {"ack", "bad", "busy", "error"}
      [] request(w) \in {"source", "fec_enable", "fec_disable", "stream", "mute", "vsc", "hdr"} -> {"ack", "error"}
      [] Optional(w) \/ request(w) = "repeaters" -> {"ack", "busy", "nack", "error"}
      [] OTHER -> {"ack", "busy", "error"}

\* The hardware an executed request leaves; a training that fails leaves no link.
Effect(w, reply) ==
    CASE request(w) = "train" -> [hw EXCEPT !.config = IF reply = "ack" THEN w.candidates[w.index] ELSE NoConfig]
      [] request(w) = "link_status" /\ reply = "bad" -> [hw EXCEPT !.config = NoConfig]
      [] request(w) = "fec_enable" -> [hw EXCEPT !.fec = TRUE]
      [] request(w) = "fec_disable" -> [hw EXCEPT !.fec = FALSE]
      [] request(w) = "dsc_enable" -> [hw EXCEPT !.decoder = TRUE]
      [] request(w) = "decoder_disable" -> [hw EXCEPT !.decoder = FALSE]
      [] OTHER -> hw
Executed(w, reply) == CASE reply \in {"ack", "bad"} -> {Effect(w, reply)}
                        [] reply = "error" -> {hw, Effect(w, reply)}
                        [] OTHER -> {hw}

-----------------------------------------------------------------------------
(* The runtime's side.  End is a finished transaction, Stop the runtime's   *)
(* own stop, after which nothing is sent.                                   *)

End == work' = NoWork /\ channel' = "idle"
Stop == fault' = TRUE /\ UNCHANGED <<image, work, channel, refused>>

\* Mutant: the restored plan starts without taking the candidate's FEC down.
RestoreUncleared(w) == [initInPlace("restore", image.plan) EXCEPT !.noted = w.noted]
\* The old plan, after the candidate's (or the old plan's own) FEC and decoder.
RestoreOld(w) == [clearPrevious(initInPlace("restore", image.plan)) EXCEPT !.noted = w.noted]

\* A known refusal before any channel submission unwinds its link setters.
rollbackDisplayLink(w) ==
    IF \/ ~extended(w) \/ w.core \/ phase(w) = "after_scanout"
       \/ image = NoImage /\ owner = "initial"
       \/ image # NoImage /\ ~displayWorkObsolete /\ image.plan # Selected(image.plan.mode, seen)
    THEN Stop
    ELSE /\ UNCHANGED <<image, fault>>
         /\ IF ~w.mutated
            THEN End /\ refused' = ~displayWorkObsolete
            ELSE /\ channel' = "idle" /\ UNCHANGED refused
                 /\ work' = IF image # NoImage /\ ~displayWorkObsolete THEN RestoreOld(w)
                            ELSE stopExtended("restore", w.plan, ~displayWorkObsolete, w.noted)

Init ==
    /\ hw \in [monitor : Monitors, config : {NoConfig}, fec : {FALSE}, decoder : {FALSE}]
    /\ dirty = FALSE /\ seen = None /\ image = NoImage /\ owner = "initial" /\ tried = FALSE
    /\ work = NoWork /\ channel = "idle" /\ refused = FALSE /\ fault = FALSE
    /\ events = 0 /\ commits = 0 /\ table = Admission0

\* A receiver is exchanged or plugged again, or only raises its interrupt.
ReceiverEvent(k) ==
    /\ events < MaxEvents /\ events' = events + 1
    /\ dirty' = TRUE
    /\ hw' \in {[hw EXCEPT !.monitor = k, !.config = NoConfig, !.decoder = FALSE]}
                 \cup (IF k = hw.monitor THEN {hw} ELSE {})
    /\ UNCHANGED <<seen, image, owner, tried, work, channel, refused, fault, commits>>

\* The runtime handles the notification and, in the same pass of the device
\* loop, the output's owner pauses the output.
Notification ==
    /\ dirty /\ dirty' = FALSE
    /\ seen' = None
    /\ owner' = IF owner = "initial" THEN owner ELSE "leaving"
    /\ work' = IF Idle THEN work ELSE [work EXCEPT !.noted = TRUE]
    /\ UNCHANGED <<hw, image, tried, channel, refused, fault, bounds>>

\* A fresh capture; it waits for the display transaction.
beginReceiverRefresh ==
    /\ seen = None /\ Idle
    /\ seen' = hw.monitor /\ tried' = FALSE
    /\ UNCHANGED <<hw, dirty, image, owner, work, channel, refused, fault, bounds>>

\* The screen is put to sleep: the output is paused without an event.
PowerOff ==
    /\ owner = "online" /\ Idle /\ seen # None /\ events < MaxEvents
    /\ owner' = "leaving" /\ tried' = FALSE /\ events' = events + 1
    /\ UNCHANGED <<hw, dirty, seen, image, work, channel, refused, fault, commits>>

Settle ==
    /\ owner = "leaving" /\ Idle /\ image = NoImage
    /\ owner' = "headless"
    /\ UNCHANGED <<hw, dirty, seen, image, tried, work, channel, refused, fault, bounds>>
Unpause ==
    /\ owner = "headless" /\ Idle /\ image # NoImage
    /\ owner' = "online"
    /\ UNCHANGED <<hw, dirty, seen, image, tried, work, channel, refused, fault, bounds>>
takeDisplayLinkFailure ==
    /\ refused /\ Idle
    /\ refused' = FALSE
    /\ UNCHANGED <<hw, dirty, seen, image, owner, tried, work, channel, fault, bounds>>

commitModeDisplayImage(m) ==
    /\ Idle /\ seen # None /\ ~refused /\ commits < MaxCommits
    /\ (owner = "online" /\ image # NoImage) \/ (owner \in {"initial", "headless"} /\ image = NoImage /\ ~tried)
    /\ tried' = (owner # "online") /\ commits' = commits + 1
    /\ "error" \notin DOMAIN Selected(m, seen)
    /\ LET w == initInPlace("commit", Selected(m, seen))
       IN  work' = IF image # NoImage /\ image.plan.compressed THEN clearPrevious(w) ELSE w
    /\ UNCHANGED <<hw, dirty, seen, image, owner, channel, refused, fault, events>>

\* Mutant: only the candidate's own requests stop at the receiver's change.
CommitOnly == work.role = "commit" /\ displayWorkObsolete
\* The transaction has to turn aside before it sends anything more.
MustTurn == \/ displayWorkObsolete /\ ~work.abandoned
            \/ work.role = "stop" /\ work.present /\ seen = None

prepare ==
    /\ Transacting /\ ~MustTurn /\ channel = "idle"
    /\ channel' = "prepared"
    /\ UNCHANGED <<hw, dirty, seen, image, owner, tried, work, refused, fault, bounds>>
submit ==
    /\ Transacting /\ ~MustTurn /\ channel = "prepared"
    /\ channel' = "waiting"
    /\ UNCHANGED <<hw, dirty, seen, image, owner, tried, work, refused, fault, bounds>>

\* The reply of the request in flight, consumed even when it is obsolete.  A
\* refused setter may have taken effect.
receiveDisplayLink ==
    /\ channel = "waiting"
    /\ \E reply \in Replies(work) : \E h \in Executed(work, reply) :
         \E w \in {[work EXCEPT !.mutated = @ \/ mutating(work)]} : \E after \in {consume(w, h, reply)} :
            /\ hw' = h
            /\ IF after.error = None
               THEN work' = after /\ channel' = "idle" /\ UNCHANGED <<image, refused, fault>>
               ELSE IF work.role = "commit" THEN rollbackDisplayLink(w) ELSE Stop
    /\ UNCHANGED <<dirty, seen, owner, tried, bounds>>

\* The candidate's receiver changed before its image was submitted: a
\* prepared request is cancelled and what was set is taken down.
AbandonCandidate ==
    /\ work.role = "commit" /\ displayWorkObsolete /\ channel # "waiting"
    /\ phase(work) = "before_scanout" \/ (phase(work) = "scanout" /\ ~work.core)
    /\ IF work.mutated /\ extended(work) THEN rollbackDisplayLink(work)
       ELSE End /\ UNCHANGED <<image, refused, fault>>
    /\ UNCHANGED <<hw, dirty, seen, owner, tried, bounds>>
\* A restoration, or a stop, goes on with the source alone.
AbandonReceiver ==
    /\ work.role \in {"restore", "stop"} /\ MustTurn /\ channel # "waiting"
    /\ work.role = "stop" => Transacting
    /\ work' = stopExtended(work.role, work.plan, FALSE, work.noted) /\ channel' = "idle"
    /\ UNCHANGED <<hw, dirty, seen, image, owner, tried, refused, fault, bounds>>

SubmitScanout ==
    /\ work.role = "commit" /\ phase(work) = "scanout" /\ ~work.core /\ ~displayWorkObsolete
    /\ work' = [work EXCEPT !.core = TRUE]
    /\ UNCHANGED <<hw, dirty, seen, image, owner, tried, channel, refused, fault, bounds>>
\* A restoration's old image never left the screen.
scanoutComplete ==
    /\ Linked /\ phase(work) = "scanout" /\ (work.core \/ (work.role = "restore" /\ ~displayWorkObsolete))
    /\ work' = [work EXCEPT !.stage = "vsc"]
    /\ UNCHANGED <<hw, dirty, seen, image, owner, tried, channel, refused, fault, bounds>>
\* A known image of a changed receiver gets no further packets.
SkipPackets ==
    /\ work.role = "commit" /\ phase(work) = "after_scanout" /\ displayWorkObsolete /\ channel # "waiting"
    /\ work' = [work EXCEPT !.stage = "post_complete"] /\ channel' = "idle"
    /\ UNCHANGED <<hw, dirty, seen, image, owner, tried, refused, fault, bounds>>

\* The first image puts its owner online; if its receiver changed on the way
\* the takeover of the screen fails.
publishCompletedDisplayImage ==
    /\ work.role = "commit" /\ phase(work) = "complete"
    /\ image' = [plan |-> work.plan, config |-> work.candidates[work.index]]
    /\ owner' = IF owner = "initial" THEN "online" ELSE owner
    /\ fault' = (owner = "initial" /\ work.noted)
    /\ End
    /\ UNCHANGED <<hw, dirty, seen, tried, refused, bounds>>

\* The restoration is complete: the old image's link is proved again, or
\* the candidate's FEC is down; then the owner learns of the refusal.
advanceDisplayLinkRecovery ==
    /\ work.role = "restore" /\ phase(work) = "complete" /\ ~MustTurn
    /\ End
    /\ refused' = ~work.abandoned
    /\ image' = IF work.stage = None THEN image ELSE [image EXCEPT !.config = work.candidates[work.index]]
    /\ UNCHANGED <<hw, dirty, seen, owner, tried, fault, bounds>>

detachDisplayImage ==
    /\ paused /\ owner = "leaving" /\ Idle /\ image # NoImage
    /\ work' = [role |-> "detach", noted |-> FALSE]
    /\ UNCHANGED <<hw, dirty, seen, image, owner, tried, channel, refused, fault, bounds>>
\* The NULL image is proved; a compressed route is stopped before it retires.
completeDisplayDetach ==
    /\ work.role = "detach" \/ (work.role = "stop" /\ phase(work) = "complete")
    /\ IF work.role = "detach" /\ image.plan.compressed
       THEN /\ work' = stopExtended("stop", image.plan, seen # None, work.noted)
            /\ UNCHANGED <<image, channel, refused>>
       ELSE image' = NoImage /\ refused' = FALSE /\ End
    /\ UNCHANGED <<hw, dirty, seen, owner, tried, fault, bounds>>

\* The transaction's deadline.
Timeout ==
    /\ ~Idle /\ Stop
    /\ UNCHANGED <<hw, dirty, seen, owner, tried, bounds>>

\* One pass of the runtime over its transaction.
Progress == \/ prepare \/ submit \/ receiveDisplayLink \/ AbandonCandidate \/ AbandonReceiver
            \/ SubmitScanout \/ scanoutComplete \/ SkipPackets \/ publishCompletedDisplayImage
            \/ advanceDisplayLinkRecovery \/ completeDisplayDetach
Own == \/ beginReceiverRefresh \/ Settle \/ Unpause \/ takeDisplayLinkFailure \/ detachDisplayImage
Next ==
    /\ ~fault /\ UNCHANGED table
    /\ \/ Progress \/ Own \/ Timeout \/ PowerOff \/ Notification
       \/ \E k \in Monitors : ReceiverEvent(k)
       \/ \E m \in Modes : commitModeDisplayImage(m)
Spec == Init /\ [][Next]_vars
\* The device loop keeps stepping, RM answers and the channels complete; the
\* owner, the runtime and the notifications share that one loop.
FairSpec == Spec /\ WF_vars(~fault /\ UNCHANGED table /\ (Progress \/ Own \/ Notification))

-----------------------------------------------------------------------------
\* Whether the link carries this plan at this configuration.  A receiver
\* that only raised its interrupt keeps an old decoder bit, so an
\* uncompressed plan asks only for FEC to be off.
Carries(plan, config) == /\ hw.config = config /\ hw.fec = plan.compressed
                         /\ plan.compressed => hw.decoder /\ config = plan.link
\* While the receiver has not changed, a submitted image is on a link that
\* was trained for it, and the image left after a mode set, whether it was
\* replaced or restored after a refusal, still is (readyScanout,
\* rollbackDisplayLink, advanceDisplayLinkRecovery).
ScanoutCovered ==
    ~fault /\ ~dirty =>
        /\ work.role = "commit" /\ work.core /\ ~work.noted => Carries(work.plan, work.candidates[work.index])
        /\ Idle /\ owner = "online" => Carries(image.plan, image.config)

\* A compressed image is submitted only with the parameter set that the
\* receiver read by this very transaction asks for, even when the capture
\* it was admitted with was of another receiver (gsp_dp_link.select).
LiveAdmitted ==
    work.role = "commit" /\ work.core /\ work.plan.compressed =>
        SameParams(work.plan, work.dsc)

\* Once a change of receiver is known, no transaction sends the receiver
\* another setter; a stop goes on with the source alone (displayWorkObsolete,
\* cancelPrepared, gsp_dp_stop.receiver_present).
SetterStopsAtHotplug ==
    [][channel = "prepared" /\ channel' = "waiting" /\ work.noted => request(work) \notin ReceiverSetters]_vars

\* A transaction ends: published, refused, cancelled or with the runtime
\* stopped; busy replies and late statuses do not keep it alive (retry,
\* fec_polls, fallback).
TransactionEnds == ~Idle ~> Idle \/ fault

=============================================================================
