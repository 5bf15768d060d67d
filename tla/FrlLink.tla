------------------------------ MODULE FrlLink ------------------------------
(* HDMI fixed-rate links: gsp_mode_control asks RM for a rate and, when the *)
(* raster does not fit, for a compressed depth (gsp_frl_link, gsp_hdmi_dsc);*)
(* gsp_display_link repeats the admission, trains the link and has RM judge *)
(* it again before the image is submitted, and gsp_runtime restores the old *)
(* image when a candidate is refused.  RM and the receiver are external: a  *)
(* capacity [raw, least, top, layout, hc, vic] says from which rate on RM   *)
(* carries a raster uncompressed (raw) and compressed (least, up to top     *)
(* sixteenths of a bit per pixel), which slices and which active raster it  *)
(* computes, and what its table of known formats holds.  Receiver changes   *)
(* follow DpLink's rules and are left out.                                  *)
EXTENDS DscPlan

CONSTANTS Mode,        \* Mode name -> [frl, only, sink_max, pclk, width, height, total, bpc, receiver]
          Source,      \* [frl, dsc]: the source's greatest rate and its DSC capabilities
          Boot,        \* The TMDS mode on the screen at first
          Capacities,  \* What RM's capacity may be at first
          Later,       \* What it may become
          MaxChanges, MaxQueries

VARIABLES cap,      \* RM's present capacity
          hw,       \* The trained rate, 0 when FRL is off
          proven,   \* What RM said it carries since the last training: <<mode, rate, plan>>
          query,    \* gsp_mode_control's owner
          result,   \* Its last answer, NoResult before it and once it is used up
          image,    \* The published [mode, dsc], NoImage when retired
          work,     \* The display transaction
          fault,    \* The error the runtime stopped with
          changes, queries
vars == <<cap, hw, proven, query, result, image, work, fault, changes, queries>>

None == "none"
NoDsc == [rate |-> 0]
NoResult == [mode |-> None]
NoImage == [mode |-> None]
NoQuery == [mode |-> None]
NoWork == [role |-> None]
Idle == work = NoWork
Querying == query # NoQuery

Refuse(x, error) == [x EXCEPT !.error = error]

-----------------------------------------------------------------------------
(* gsp_hdmi_dsc.Work: the search for a rate and a depth.                    *)

ProbeLimit == 64
linkMax(v) == Least(Source.frl, v.sink_max)
maximum(v) == Least(linkMax(v), v.receiver.max_frl)

NewSearch(fixed) ==
    [stage |-> "source", fixed |-> fixed, rate |-> 0, bpp |-> 128, slices |-> 0, width |-> 0,
     search |-> "rate", plan |-> NoDsc, probes |-> 0, error |-> None]
startSearch(d) == [d EXCEPT !.rate = 1, !.bpp = 128, !.search = "rate", !.stage = "capacity"]

\* The parameter set of the chosen values must exist and, when the search
\* only confirms an admitted plan, be that plan.
Finished(d, c, error) ==
    LET plan == [rate |-> d.rate, bpp |-> d.bpp, slices |-> d.slices, width |-> d.width, hc |-> c.hc]
    IN  IF error # "none" THEN Refuse(d, error)
        ELSE IF d.fixed # NoDsc /\ plan # d.fixed THEN Refuse(d, "Stale")
        ELSE [d EXCEPT !.stage = "complete", !.plan = plan]
finish(d, v, c) ==
    Finished(d, c, pps(v, Source.dsc, v.receiver, d.rate, d.bpp, d.slices, d.width).error)

layout(d, v, c) ==
    LET n == c.layout.slices
        w == c.layout.width
    IN  IF n = 0 THEN Refuse(d, "Unsupported")
        ELSE IF \/ n > Least(Source.dsc.max_slices, v.receiver.max_slices) \/ n > 16
                \/ w \notin 1 .. 2720 \/ Ceil(v.width, w) # n
        THEN Refuse(d, "Payload")
        ELSE IF d.fixed = NoDsc THEN [d EXCEPT !.slices = n, !.width = w, !.stage = "precalc"]
        ELSE IF d.fixed.slices # n \/ d.fixed.width # w THEN Refuse(d, "Stale")
        ELSE [d EXCEPT !.slices = n, !.width = w, !.rate = d.fixed.rate, !.bpp = d.fixed.bpp,
                       !.search = "fixed", !.stage = "capacity"]

preconfig(d, v, c) ==
    IF c.vic.rate = 7 THEN startSearch(d)
    ELSE IF c.vic.rate > maximum(v) \/ c.vic.bpp \notin 128 .. maxBpp(v.receiver, v.bpc)
    THEN Refuse(d, "Bandwidth")
    ELSE [d EXCEPT !.rate = c.vic.rate, !.bpp = c.vic.bpp, !.search = "fixed", !.stage = "capacity"]

\* Mutant: half the way up.
FineFromHalf(d, v) == [d EXCEPT !.bpp = Least(maxBpp(v.receiver, v.bpc), @ + 8), !.search = "fine"]
\* The fine search starts one below the coarse probe that failed.
fineFrom(d, v) == [d EXCEPT !.bpp = Least(maxBpp(v.receiver, v.bpc), @ + 15), !.search = "fine"]

possible(d, v, c) ==
    LET most == maxBpp(v.receiver, v.bpc)
    IN  CASE d.search = "rate" /\ d.bpp # most -> [d EXCEPT !.bpp = most, !.search = "coarse"]
          [] d.search = "coarse" /\ d.bpp # most -> fineFrom(d, v)
          [] OTHER -> finish(d, v, c)

step(d) == IF d.search = "coarse" THEN 16 ELSE 1

impossible(d, v) ==
    CASE d.search = "fixed" -> Refuse(d, "Bandwidth")
      [] d.search = "rate" -> IF d.rate = maximum(v) THEN Refuse(d, "Bandwidth") ELSE [d EXCEPT !.rate = @ + 1]
      [] OTHER -> IF d.bpp = 128 THEN Refuse(d, "Bandwidth") ELSE [d EXCEPT !.bpp = Max({128, @ - step(d)})]

\* One reply of the search, within its budget of probes.
consumeDsc(d, v, c) ==
    LET next == CASE d.stage = "source" -> IF Source.dsc.usable /\ Source.dsc.step = 1 THEN [d EXCEPT !.stage = "layout"]
                                           ELSE Refuse(d, "Unsupported")
                  [] d.stage = "layout" -> layout(d, v, c)
                  [] d.stage = "precalc" -> IF c.vic.rate # 0 THEN [d EXCEPT !.stage = "preconfig"] ELSE startSearch(d)
                  [] d.stage = "preconfig" -> preconfig(d, v, c)
                  [] d.stage = "capacity" -> IF d.rate >= c.least /\ d.bpp <= c.top THEN possible(d, v, c)
                                             ELSE impossible(d, v)
    IN  IF d.probes >= ProbeLimit THEN Refuse(d, "Stale") ELSE [next EXCEPT !.probes = @ + 1]

-----------------------------------------------------------------------------
(* gsp_frl_link.Work.                                                       *)

\* Video shares the blanking of a line, at 16 bits in 18.
codingCeiling(rate) == (FrlPayload(rate) * 8) \div 9
fitsCoding(v, rate) == v.total > v.width /\ v.pclk * v.width * v.bpc * 3 < codingCeiling(rate) * v.total

NoFrl == [stage |-> None]
NoAnswer == [rate |-> 0]
NewFrl(m, fixed) ==
    IF ~Mode[m].frl THEN NoFrl
    ELSE [stage |-> "source", fixed |-> fixed, rate |-> 0, dsc |-> NoDsc, answer |-> NoAnswer,
          trained |-> FALSE, error |-> None]
active(f) == f.stage \notin {None, "admitted", "complete"}

beginDsc(f, v, fixed) ==
    IF ~v.receiver.usable THEN Refuse(f, "Bandwidth") ELSE [f EXCEPT !.stage = "dsc", !.dsc = NewSearch(fixed)]
nextRate(f, v) ==
    LET later == {r \in f.rate + 1 .. linkMax(v) : fitsCoding(v, r)}
    IN  IF later = {} THEN beginDsc(f, v, NoDsc) ELSE [f EXCEPT !.rate = Min(later), !.stage = "capacity"]

Answered(f, rate, plan, stage) ==
    [f EXCEPT !.rate = rate, !.answer = [rate |-> rate, plan |-> plan, fresh |-> f.trained],
              !.dsc = NoDsc, !.stage = stage]

\* Mutant: the answer of the admission stands at the trained rate.
TrainedComplete(f, v, rate) ==
    [f EXCEPT !.rate = rate, !.answer.rate = rate, !.trained = TRUE, !.stage = "complete"]
\* A trained link is judged again at the rate it was trained to.
recheck(f, v, rate) ==
    LET g == [f EXCEPT !.trained = TRUE]
    IN  IF f.answer.plan # NoDsc
        THEN IF rate # f.answer.plan.rate THEN Refuse(g, "LinkTraining") ELSE beginDsc(g, v, f.answer.plan)
        ELSE IF ~fitsCoding(v, rate) THEN Refuse(g, "Bandwidth")
        ELSE [g EXCEPT !.rate = rate, !.stage = "recheck"]

\* The search d has taken a reply.
Searched(f, d) ==
    IF d.error # None THEN Refuse(f, d.error)
    ELSE IF d.stage # "complete" THEN [f EXCEPT !.dsc = d]
    ELSE Answered(f, d.plan.rate, d.plan, IF f.trained THEN "complete" ELSE "admitted")

\* Whether the request can be encoded at all: a search refuses a receiver
\* whose decoder lacks the mode's depth only here.
Encodable(f, v) ==
    f.stage = "dsc" =>
        /\ v.receiver.usable /\ maximum(v) # 0 /\ v.bpc \in {8, 10} \cap v.receiver.bpc_mask
        /\ v.receiver.max_chunk # 0 /\ v.receiver.max_chunk % 1024 = 0
        /\ v.total > v.width /\ v.width \in 1 .. 65535 /\ v.height \in 8 .. 65535
        /\ f.dsc.stage \in {"layout", "capacity"} => v.pclk <= 40000
        /\ f.dsc.stage = "capacity" => /\ f.dsc.rate \in 1 .. maximum(v)
                                       /\ f.dsc.bpp \in 128 .. maxBpp(v.receiver, v.bpc)

\* One reply; rate is the one a training ended with.
consume(f, v, c, rate) ==
    CASE f.stage = "source" -> IF Source.frl = 0 THEN Refuse(f, "Unsupported")
                               ELSE IF f.fixed # NoDsc THEN beginDsc(f, v, f.fixed)
                               ELSE IF v.only THEN beginDsc(f, v, NoDsc) ELSE nextRate(f, v)
      [] f.stage = "dsc" -> Searched(f, consumeDsc(f.dsc, v, c))
      [] f.stage \in {"capacity", "recheck"} ->
             IF f.rate >= c.raw THEN Answered(f, f.rate, NoDsc, IF f.stage = "capacity" THEN "admitted" ELSE "complete")
             ELSE IF f.stage = "recheck" THEN Refuse(f, "Bandwidth") ELSE nextRate(f, v)
      [] f.stage = "train" -> IF rate \notin 1 .. linkMax(v) THEN Refuse(f, "LinkTraining") ELSE recheck(f, v, rate)

-----------------------------------------------------------------------------
(* The display transaction: gsp_display_link.Work around the FRL part, and  *)
(* the HDMI operations of gsp_hdmi_link.                                    *)

Begin(role, m, dsc) ==
    [role |-> role, mode |-> m, dsc |-> dsc, clear |-> None, frl |-> NewFrl(m, dsc), op |-> "caps",
     mutated |-> FALSE, core |-> FALSE]
clearPrevious(w) == [w EXCEPT !.clear = "disable"]
\* Only the FRL link of mode m is disabled.
stopExtended(m) == [clearPrevious(Begin("stop", m, NoDsc)) EXCEPT !.frl = NoFrl, !.op = "complete"]

request(w) == IF w.clear = "disable" THEN "disable" ELSE IF active(w.frl) THEN w.frl.stage ELSE w.op
phase(w) ==
    IF w.clear = "disable" \/ active(w.frl) \/ w.op \in {"caps", "enable"} THEN "before_scanout"
    ELSE IF w.op \in {"scanout", "complete"} THEN w.op ELSE "after_scanout"
extended(w) == Mode[w.mode].frl \/ w.clear # None

\* gsp_hdmi_link.afterAck; enabling HDMI starts the training.
afterAck(w) ==
    CASE w.op = "caps" -> [w EXCEPT !.op = "enable"]
      [] w.op = "enable" -> IF Mode[w.mode].frl THEN [w EXCEPT !.op = "scanout", !.frl.stage = "train"]
                            ELSE [w EXCEPT !.op = "scanout"]
      [] w.op = "audio_mute" -> [w EXCEPT !.op = "avi"]
      [] w.op = "avi" -> [w EXCEPT !.op = "vsi"]
      [] w.op = "vsi" -> [w EXCEPT !.op = "hdr_disable"]
      [] w.op = "hdr_disable" -> [w EXCEPT !.op = "gcp"]
      [] w.op = "gcp" -> [w EXCEPT !.op = "complete"]

readyScanout(w) ==
    /\ w.role # "stop" /\ phase(w) = "scanout"
    /\ Mode[w.mode].frl => /\ w.frl.stage = "complete" /\ w.frl.trained
                           /\ w.frl.answer.plan = w.dsc
                           /\ w.dsc # NoDsc => w.frl.answer.fresh

-----------------------------------------------------------------------------
(* The runtime.                                                             *)

End == work' = NoWork
Stop(error) == fault' = error /\ UNCHANGED work
Recoverable == {"Unsupported", "Bandwidth", "LinkTraining", "RmRejected", "Stale", "Pps"}

Restore == clearPrevious(Begin("restore", image.mode, image.dsc))

\* A known refusal before any channel submission unwinds its link setters.
rollbackDisplayLink(w, error) ==
    IF phase(w) # "before_scanout" \/ ~extended(w) \/ error \notin Recoverable THEN Stop(error)
    ELSE /\ fault' = fault
         /\ IF ~w.mutated THEN End
            ELSE work' = IF image # NoImage THEN Restore ELSE stopExtended(w.mode)

Init ==
    /\ cap \in Capacities /\ hw = 0 /\ proven = {} /\ query = NoQuery /\ result = NoResult
    /\ image = [mode |-> Boot, dsc |-> NoDsc] /\ work = NoWork /\ fault = None
    /\ changes = 0 /\ queries = 0

\* RM's judgement changes, as after a training or with another head's mode.
Change ==
    /\ changes < MaxChanges /\ changes' = changes + 1
    /\ cap' \in Later
    /\ query' = IF Querying THEN [query EXCEPT !.steady = FALSE] ELSE query
    /\ UNCHANGED <<hw, proven, result, image, work, fault, queries>>

\* The intent carries no compressed plan: each query searches anew.
queryDisplayMode(m) ==
    /\ Idle /\ ~Querying /\ queries < MaxQueries /\ queries' = queries + 1
    /\ query' = [mode |-> m, op |-> "pclk", frl |-> NewFrl(m, NoDsc), steady |-> TRUE]
    /\ result' = NoResult
    /\ UNCHANGED <<cap, hw, proven, image, work, fault, changes>>

Ready(allowed, reason) ==
    /\ query' = NoQuery
    /\ result' = [mode |-> query.mode, possible |-> allowed, reason |-> reason, steady |-> query.steady, cap |-> cap,
                  answer |-> IF reason = None /\ query.frl # NoFrl THEN query.frl.answer ELSE NoAnswer]

\* The receiver changes: the query ends without a result, and a result it
\* had is withheld.
Obsolete ==
    /\ Idle /\ (Querying \/ result # NoResult)
    /\ query' = NoQuery /\ result' = NoResult
    /\ UNCHANGED <<cap, hw, proven, image, work, fault, changes, queries>>

\* One reply to the query.  A refused link is an answer; any other error of
\* the FRL part, a reply that is not of the request's form and a request that
\* cannot be encoded fail the owner.
advance ==
    /\ Querying
    /\ \/ /\ query.op = "pclk"
          /\ \/ Ready(FALSE, "clock")
             \/ /\ query' = [query EXCEPT !.op = IF active(query.frl) THEN "frl" ELSE "possible"]
                /\ UNCHANGED result
          /\ UNCHANGED fault
       \/ /\ query.op = "frl" /\ ~Encodable(query.frl, Mode[query.mode])
          /\ fault' = "Encode" /\ UNCHANGED <<query, result>>
       \/ /\ query.op = "frl" /\ Encodable(query.frl, Mode[query.mode])
          /\ Ready(FALSE, "RmRejected") /\ UNCHANGED fault
       \/ /\ query.op = "frl" /\ Encodable(query.frl, Mode[query.mode])
          /\ \E f \in {consume(query.frl, Mode[query.mode], cap, 0)} :
                CASE f.error \in {"Unsupported", "Bandwidth"} -> Ready(FALSE, f.error) /\ UNCHANGED fault
                  [] f.error = None -> /\ query' = [query EXCEPT !.frl = f, !.op = IF active(f) THEN "frl" ELSE "possible"]
                                       /\ UNCHANGED <<result, fault>>
                  [] OTHER -> fault' = f.error /\ UNCHANGED <<query, result>>
       \/ /\ query.op = "possible"
          /\ \E allowed \in BOOLEAN : Ready(allowed, None)
          /\ UNCHANGED fault
       \/ fault' = "Payload" /\ UNCHANGED <<query, result>>
    /\ UNCHANGED <<cap, hw, proven, image, work, changes, queries>>

commitModeDisplayImage ==
    /\ Idle /\ ~Querying /\ result # NoResult /\ result.possible
    /\ LET dsc == IF Mode[result.mode].frl THEN result.answer.plan ELSE NoDsc
           w == Begin("commit", result.mode, dsc)
           clear == image # NoImage /\ (image.dsc # NoDsc \/ (Mode[image.mode].frl /\ ~Mode[result.mode].frl))
       IN  work' = IF clear THEN clearPrevious(w) ELSE w
    /\ UNCHANGED <<cap, hw, proven, query, result, image, fault, changes, queries>>

\* The rates a request may leave the link at.
Rates(w) == CASE request(w) = "train" -> 0 .. 6
              [] request(w) = "disable" -> {0, hw}
              [] OTHER -> {hw}
\* What RM has just said it carries.
Claim(w, f) == IF f.answer # w.frl.answer THEN {<<w.mode, f.answer.rate, f.answer.plan>>} ELSE {}

Sending == ~Idle /\ phase(work) \in {"before_scanout", "after_scanout"}
Encodes == Sending /\ (work.clear # "disable" /\ active(work.frl) => Encodable(work.frl, Mode[work.mode]))
\* A request that cannot be encoded is no reply to roll back from.
prepare ==
    /\ Sending /\ ~Encodes /\ Stop("Encode")
    /\ UNCHANGED <<cap, hw, proven, query, result, image, changes, queries>>

\* One reply to the transaction, its refusal by RM, or an error of the call
\* or of the reply's form.
receiveDisplayLink ==
    /\ Encodes
    /\ \E rate \in Rates(work), reply \in {"ok", "RmRejected", "rpc"} :
       \E w \in {[work EXCEPT !.mutated = @ \/ request(work) \in {"disable", "train"} \/ ~active(work.frl)]} :
       \E f \in {IF reply = "ok" /\ w.clear # "disable" /\ active(w.frl) THEN consume(w.frl, Mode[w.mode], cap, rate) ELSE w.frl} :
       \E error \in {IF reply # "ok" THEN reply
                     ELSE IF w.clear = "disable" THEN (IF rate = 0 THEN None ELSE "LinkTraining")
                     ELSE IF active(w.frl) THEN f.error ELSE None} :
          /\ hw' = rate
          /\ proven' = (IF request(w) \in {"train", "disable"} THEN {} ELSE proven)
                         \cup (IF active(w.frl) /\ w.clear # "disable" THEN Claim(w, f) ELSE {})
          /\ IF error # None
             THEN IF w.role = "commit" THEN rollbackDisplayLink(w, error) ELSE Stop(error)
             ELSE /\ work' = IF w.clear = "disable" THEN [w EXCEPT !.clear = "disabled"]
                             ELSE IF active(w.frl) THEN [w EXCEPT !.frl = f]
                             ELSE afterAck(w)
                  /\ fault' = fault
    /\ UNCHANGED <<cap, query, result, image, changes, queries>>

\* The channels are written only for a link that is ready.
SubmitScanout ==
    /\ work.role = "commit" /\ phase(work) = "scanout" /\ ~work.core
    /\ IF readyScanout(work) THEN work' = [work EXCEPT !.core = TRUE] /\ fault' = fault ELSE Stop("Binding")
    /\ UNCHANGED <<cap, hw, proven, query, result, image, changes, queries>>
\* A restored image never left the screen.
scanoutComplete ==
    /\ ~Idle /\ phase(work) = "scanout" /\ (work.core \/ work.role = "restore")
    /\ IF readyScanout(work) THEN work' = [work EXCEPT !.op = "audio_mute"] /\ fault' = fault ELSE Stop("State")
    /\ UNCHANGED <<cap, hw, proven, query, result, image, changes, queries>>

\* Published, restored or stopped; a stop retires the image, a publication
\* makes the answer it was admitted with stale.
Complete ==
    /\ ~Idle /\ phase(work) = "complete"
    /\ image' = CASE work.role = "commit" -> [mode |-> work.mode, dsc |-> work.dsc]
                  [] work.role = "restore" -> image
                  [] work.role = "stop" -> NoImage
    /\ result' = IF work.role = "commit" THEN NoResult ELSE result
    /\ End
    /\ UNCHANGED <<cap, hw, proven, query, fault, changes, queries>>

\* The image is taken off the screen; an FRL link is stopped behind it.
detachDisplayImage ==
    /\ Idle /\ ~Querying /\ image # NoImage
    /\ IF Mode[image.mode].frl THEN work' = stopExtended(image.mode) /\ UNCHANGED image
       ELSE image' = NoImage /\ UNCHANGED work
    /\ UNCHANGED <<cap, hw, proven, query, result, fault, changes, queries>>

Timeout ==
    /\ ~Idle \/ Querying
    /\ Stop("Timeout")
    /\ UNCHANGED <<cap, hw, proven, query, result, image, changes, queries>>

Progress == advance \/ prepare \/ receiveDisplayLink \/ SubmitScanout \/ scanoutComplete \/ Complete
Next ==
    /\ fault = None
    /\ \/ Progress \/ Change \/ Obsolete \/ commitModeDisplayImage \/ detachDisplayImage \/ Timeout
       \/ \E m \in DOMAIN Mode : queryDisplayMode(m)
Spec == Init /\ [][Next]_vars

-----------------------------------------------------------------------------
Carried(m, dsc) ==
    IF Mode[m].frl THEN <<m, hw, dsc>> \in proven /\ (dsc # NoDsc => dsc.rate = hw) ELSE hw = 0
\* A submitted image, and the image left after a mode set, whether replaced
\* or restored, is on a link whose trained rate RM has judged, after that
\* training, to carry exactly this raster and compressed plan; a TMDS image
\* or none is left with FRL off (recheck, readyScanout, rollbackDisplayLink).
LinkCarriesImage ==
    fault = None =>
        /\ work.role = "commit" /\ work.core => Carried(work.mode, work.dsc)
        /\ Idle => IF image = NoImage THEN hw = 0 ELSE Carried(image.mode, image.dsc)

\* The plan RM's capacity asks for: the lowest rate that carries the raster
\* uncompressed, else the lowest that carries 8 bits per pixel, with the
\* greatest depth it carries.
Best(m, c) ==
    LET v == Mode[m]
        plain == IF v.only THEN {} ELSE {r \in 1 .. linkMax(v) : fitsCoding(v, r) /\ r >= c.raw}
        packed == {r \in 1 .. maximum(v) : v.receiver.usable /\ r >= c.least /\ c.top >= 128}
    IN  IF plain # {} THEN [rate |-> Min(plain), bpp |-> 0]
        ELSE IF packed = {} THEN [rate |-> 0, bpp |-> 0]
        ELSE [rate |-> Min(packed), bpp |-> Least(c.top, maxBpp(v.receiver, v.bpc))]
\* While RM's judgement stays the same, the search over single yes-or-no
\* probes finds that plan, refuses a mode only when there is none, and never
\* runs out of its 64 probes, which would fail the query's owner (nextRate,
\* consumeDsc with its rate, coarse and fine searches).
SearchBest ==
    /\ Querying /\ query.steady => fault # "Stale"
    /\ result # NoResult /\ result.steady /\ Mode[result.mode].frl /\ result.cap.vic.rate \in {0, 7} =>
           LET best == Best(result.mode, result.cap)
           IN  /\ result.reason = None =>
                     /\ result.answer.rate = best.rate
                     /\ best.bpp = IF result.answer.plan = NoDsc THEN 0 ELSE result.answer.plan.bpp
               /\ result.reason = "Bandwidth" => best.rate = 0

\* The comment on the query's replies says that an optional link cannot
\* retire the shared query owner: a mode whose link is refused is an answer.
\* Only a deadline or a malformed reply of the firmware may.
QueryOwnerSurvives == Querying => fault \in {None, "Timeout", "Payload"}

=============================================================================
