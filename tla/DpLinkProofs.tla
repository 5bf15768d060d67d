---------------------------- MODULE DpLinkProofs ----------------------------
(* The DisplayPort transaction for any modes, receivers, sources, events    *)
(* and mode sets.  That no setter follows a known change of receiver rests  *)
(* on what "noted" says of the capture and of the output's owner, and on a  *)
(* transaction without its receiver having one request left; that a         *)
(* compressed image is live-admitted rests on the one way into the stages   *)
(* behind gsp_dp_link.select.                                               *)
EXTENDS DpLink, TLAPS

Fields == {"role", "plan", "stage", "clear", "present", "mutated", "sink", "dsc", "fec", "candidates",
           "index", "retries", "polls", "core", "noted", "abandoned", "error"}
(* The stages before select, and those only select leads to. *)
Reading == {"source", "caps", "extended_caps", "mst_caps", "dsc_caps", "fec_caps", "color_caps", "repeaters"}
Setting == {"power", "power_on", "fec_clear", "train", "link_config", "link_status", "fec_enable",
            "fec_status", "dsc_enable", "dsc_verify", "stream", "mute", "vsc", "hdr"}
Admitted == Setting \cup {"complete", "post_complete"}

IsWork(w) == /\ w = [x \in Fields |-> w[x]]
             /\ w.role \in {"commit", "restore", "stop"}
             /\ w.stage \in Reading \cup Admitted \cup {None}
             /\ w.clear \in Clearing \cup {None, "disabled"}
             /\ w.present \in BOOLEAN /\ w.abandoned = ~w.present /\ w.noted \in BOOLEAN

Shape == /\ channel \in {"idle", "prepared", "waiting"}
         /\ \/ work = NoWork
            \/ work = [role |-> "detach", noted |-> work.noted] /\ work.noted \in BOOLEAN
            \/ IsWork(work)

(* A noted change has taken the capture, and the output is not online. *)
Noticed == work.role # None /\ work.noted => seen = None /\ owner \in {"initial", "leaving"}

(* Without its receiver a transaction only takes the source's FEC down. *)
Alone(w) == w.present \/ (w.role # "commit" /\ w.stage = None /\ w.clear \in {"fec_disable", "disabled"})
Aside == Linked => Alone(work)

(* Requests are in flight only for an operation that is due. *)
Due(w) == w.clear \in Clearing \/ w.stage \in Reading \cup Setting
Flight == channel # "idle" => Linked /\ Due(work)

(* Only select leads past the reading stages, and it admits. *)
Live(w) == w.role = "commit" => /\ w.plan.compressed /\ w.stage \in Admitted => SameParams(w.plan, w.dsc)
                                /\ w.core => w.stage \in Admitted
Lived == Linked => Live(work)

IInv == Shape /\ Noticed /\ Aside /\ Flight /\ Lived

(* Nothing is under way at first. *)
LEMMA InitIInv == Init => IInv
BY DEF Init, IInv, Shape, Noticed, Aside, Flight, Lived, Linked, NoWork, None

-----------------------------------------------------------------------------
(* What an acknowledged, deferred or refused request leaves of the          *)
(* transaction: its identity, its shape and, past select, its admission.    *)

Same(w, a) == /\ a.role = w.role /\ a.plan = w.plan /\ a.present = w.present
              /\ a.noted = w.noted /\ a.abandoned = w.abandoned /\ a.core = w.core

(* Going to another stage changes the stage and the retry count only. *)
LEMMA GoKeeps ==
    ASSUME NEW w, IsWork(w), NEW s \in Reading \cup Admitted
    PROVE  /\ IsWork(Go(w, s)) /\ Same(w, Go(w, s))
           /\ Go(w, s).stage = s /\ Go(w, s).dsc = w.dsc /\ Go(w, s).clear = w.clear
BY DEF IsWork, Go, Same, Fields

(* A refusal changes the error only. *)
LEMMA RejectKeeps ==
    ASSUME NEW w, IsWork(w), NEW e
    PROVE  /\ IsWork(Reject(w, e)) /\ Same(w, Reject(w, e)) /\ Reject(w, e).error = e
           /\ Reject(w, e).stage = w.stage /\ Reject(w, e).dsc = w.dsc /\ Reject(w, e).clear = w.clear
BY DEF IsWork, Reject, Same, Fields

(* The retry counter is no part of what is kept. *)
LEMMA CounterKeeps ==
    ASSUME NEW w, IsWork(w), NEW r
    PROVE  /\ IsWork([w EXCEPT !.retries = r]) /\ Same(w, [w EXCEPT !.retries = r])
           /\ [w EXCEPT !.retries = r].stage = w.stage /\ [w EXCEPT !.retries = r].dsc = w.dsc
           /\ [w EXCEPT !.retries = r].clear = w.clear
BY DEF IsWork, Same, Fields

(* A further request for the same operation, or the third refused one. *)
LEMMA RetryKeeps ==
    ASSUME NEW w, IsWork(w)
    PROVE  /\ IsWork(retry(w)) /\ Same(w, retry(w))
           /\ retry(w).stage = w.stage /\ retry(w).dsc = w.dsc /\ retry(w).clear = w.clear
<1>1. CASE w.retries >= 2
    BY <1>1, RejectKeeps DEF retry
<1>2. CASE ~(w.retries >= 2)
    BY <1>2, CounterKeeps DEF retry
<1> QED
    BY <1>1, <1>2

(* The stages that follow the reading of the receiver's capabilities. *)
LEMMA AfterStages ==
    ASSUME NEW w
    PROVE  /\ afterExtended(w) \in Reading /\ afterDsc(w) \in Reading /\ afterMst(w) \in Reading
           /\ afterCaps(w) \in Reading
           /\ trainingStart(w) \in Setting /\ afterTrained(w) \in Setting
BY DEF afterExtended, afterDsc, afterMst, afterCaps, trainingStart, afterTrained, Reading, Setting

(* A step of the link part: it stays behind select or it was admitted by it. *)
Onward(w, a) == /\ IsWork(a) /\ Same(w, a) /\ a.clear = w.clear /\ a.stage # None
                /\ w.stage \in Admitted => a.stage \in Admitted /\ a.dsc = w.dsc
                /\ a.error = None /\ a.stage \in Admitted /\ a.plan.compressed =>
                       w.stage \in Admitted \/ SameParams(a.plan, a.dsc)

(* Any move among the reading stages, or among the later ones, is one. *)
LEMMA MoveOnward ==
    ASSUME NEW w, IsWork(w), w.stage # None, NEW a, IsWork(a), Same(w, a), a.clear = w.clear,
           \/ w.stage \in Reading /\ a.stage \in Reading
           \/ w.stage \in Admitted /\ a.stage \in Admitted /\ a.dsc = w.dsc
    PROVE  Onward(w, a)
BY DEF Onward, Reading, Admitted, Setting, None

(* So is a refusal, whatever it says. *)
LEMMA RejectOnward ==
    ASSUME NEW w, IsWork(w), w.stage # None, NEW e
    PROVE  Onward(w, Reject(w, e))
<1>1. w.stage \in Reading \cup Admitted
    BY DEF IsWork
<1> QED
    BY <1>1, RejectKeeps, MoveOnward

(* Candidates are tried in order until none is left. *)
LEMMA FallbackOnward ==
    ASSUME NEW w, IsWork(w), w.stage \in Admitted
    PROVE  Onward(w, fallback(w))
<1>0. w.stage # None /\ "train" \in Admitted
    BY DEF Admitted, Setting, None
<1>1. CASE w.index >= Len(w.candidates)
    BY <1>0, <1>1, RejectOnward DEF fallback
<1>2. CASE ~(w.index >= Len(w.candidates))
    <2> DEFINE g == Go(w, "train")
               a == [g EXCEPT !.index = @ + 1]
    <2>1. IsWork(g) /\ Same(w, g) /\ g.stage = "train" /\ g.dsc = w.dsc /\ g.clear = w.clear
        BY <1>0, GoKeeps
    <2>2. IsWork(a) /\ Same(g, a) /\ a.stage = g.stage /\ a.dsc = g.dsc /\ a.clear = g.clear
        <3> HIDE DEF g
        <3> QED BY <2>1 DEF IsWork, Same, Fields
    <2>3. Onward(w, a)
        <3> HIDE DEF a, g
        <3> QED BY <1>0, <2>1, <2>2, MoveOnward DEF Same
    <2> QED
        BY <1>2, <2>3 DEF fallback
<1> QED
    BY <1>1, <1>2

(* gsp_dp_link.select admits a compressed plan only for its own parameters. *)
LEMMA SelectOnward ==
    ASSUME NEW w, IsWork(w), w.stage \in Reading
    PROVE  Onward(w, select(w))
<1> DEFINE list == table.candidates[<<w.plan, w.sink>>]
           s == IF Monitor[w.sink].revision >= 17 THEN "power" ELSE trainingStart(w)
           g == Go(w, s)
           a == [g EXCEPT !.candidates = list]
<1>0. w.stage # None /\ w.stage \notin Admitted
    BY DEF Reading, Admitted, Setting, None
<1>1. s \in Setting
    BY AfterStages DEF Setting
<1>2. IsWork(g) /\ Same(w, g) /\ g.stage = s /\ g.dsc = w.dsc /\ g.clear = w.clear
    <2> HIDE DEF s
    <2> QED BY <1>1, GoKeeps DEF Admitted
<1>3. IsWork(a) /\ Same(g, a) /\ a.stage = g.stage /\ a.dsc = g.dsc /\ a.clear = g.clear
    <2> HIDE DEF g, list
    <2> QED BY <1>2 DEF IsWork, Same, Fields
<1>4. ASSUME w.plan.compressed => SameParams(w.plan, w.dsc)
      PROVE  Onward(w, a)
    <2>1. s # None
        <3> HIDE DEF s
        <3> QED BY <1>1 DEF Setting, None
    <2> HIDE DEF a, g, s
    <2> QED BY <1>0, <1>2, <1>3, <1>4, <2>1 DEF Onward, Same
<1>5. \/ \E e \in {"Bandwidth", "Stale"} : select(w) = Reject(w, e)
      \/ select(w) = a /\ (w.plan.compressed => SameParams(w.plan, w.dsc))
    BY DEF select
<1> QED
    <2> HIDE DEF a
    <2> QED BY <1>0, <1>4, <1>5, RejectOnward

(* A stage reached by Go is a move. *)
LEMMA GoOnward ==
    ASSUME NEW w, IsWork(w), NEW s,
           \/ w.stage \in Reading /\ s \in Reading
           \/ w.stage \in Admitted /\ s \in Admitted
    PROVE  Onward(w, Go(w, s))
<1>1. w.stage # None
    BY DEF Reading, Admitted, Setting, None
<1> QED
    BY <1>1, GoKeeps, MoveOnward

(* What a capability read stores moves nothing. *)
LEMMA StoreOnward ==
    ASSUME NEW w, IsWork(w), w.stage \in Reading, NEW s \in Reading, NEW v
    PROVE  /\ Onward(w, [Go(w, s) EXCEPT !.sink = v])
           /\ Onward(w, [Go(w, s) EXCEPT !.dsc = v])
           /\ Onward(w, [Go(w, s) EXCEPT !.fec = v])
<1> DEFINE g == Go(w, s)
<1>0. w.stage # None
    BY DEF Reading, None
<1>1. IsWork(g) /\ Same(w, g) /\ g.stage = s /\ g.clear = w.clear
    BY GoKeeps
<1> HIDE DEF g
<1>2. /\ IsWork([g EXCEPT !.sink = v]) /\ Same(g, [g EXCEPT !.sink = v])
      /\ [g EXCEPT !.sink = v].stage = s /\ [g EXCEPT !.sink = v].clear = g.clear
    BY <1>1 DEF IsWork, Same, Fields
<1>3. /\ IsWork([g EXCEPT !.dsc = v]) /\ Same(g, [g EXCEPT !.dsc = v])
      /\ [g EXCEPT !.dsc = v].stage = s /\ [g EXCEPT !.dsc = v].clear = g.clear
    BY <1>1 DEF IsWork, Same, Fields
<1>4. /\ IsWork([g EXCEPT !.fec = v]) /\ Same(g, [g EXCEPT !.fec = v])
      /\ [g EXCEPT !.fec = v].stage = s /\ [g EXCEPT !.fec = v].clear = g.clear
    BY <1>1 DEF IsWork, Same, Fields
<1>5. ASSUME NEW a, IsWork(a), Same(g, a), a.stage = s, a.clear = g.clear
      PROVE  Onward(w, a)
    BY <1>0, <1>1, <1>5, MoveOnward DEF Same
<1>6. Onward(w, [g EXCEPT !.sink = v])
    BY <1>2, <1>5
<1>7. Onward(w, [g EXCEPT !.dsc = v])
    BY <1>3, <1>5
<1>8. Onward(w, [g EXCEPT !.fec = v])
    BY <1>4, <1>5
<1> QED
    BY <1>6, <1>7, <1>8 DEF g

(* A capability block that is not there is skipped. *)
LEMMA OptionalOnward ==
    ASSUME NEW w, IsWork(w), Optional(w)
    PROVE  Onward(w, optionalUnavailable(w))
<1>1. w.stage \in Reading
    BY DEF Optional, Reading
<1>2. \E s \in Reading : optionalUnavailable(w) = Go(w, s)
    <2>1. CASE w.stage = "mst_caps"
        BY <2>1, AfterStages DEF optionalUnavailable
    <2>2. CASE w.stage = "dsc_caps"
        BY <2>2, AfterStages DEF optionalUnavailable
    <2>3. CASE w.stage = "fec_caps"
        BY <2>3, AfterStages DEF optionalUnavailable
    <2> QED
        BY <2>1, <2>2, <2>3 DEF Optional
<1> QED
    BY <1>1, <1>2, GoOnward

(* The link part on every acknowledged request. *)
LEMMA AckedStageOnward ==
    ASSUME NEW w, IsWork(w), w.stage \in Reading \cup Setting, NEW h, NEW good
    PROVE  Onward(w, AckedStage(w, h, good))
<1> DEFINE a == AckedStage(w, h, good)
           k == Monitor[h.monitor]
           z == [w EXCEPT !.retries = 0]
<1>0. w.stage # None /\ (w.stage \in Setting => w.stage \in Admitted)
    BY DEF Reading, Setting, Admitted, None
<1>1. ASSUME w.stage \in Admitted PROVE Onward(w, fallback(z))
    <2>1. IsWork(z) /\ Same(w, z) /\ z.stage = w.stage /\ z.dsc = w.dsc /\ z.clear = w.clear
        BY CounterKeeps
    <2>2. Onward(z, fallback(z))
        <3> HIDE DEF z
        <3> QED BY <1>1, <2>1, FallbackOnward
    <2> HIDE DEF z
    <2> QED BY <1>1, <2>1, <2>2 DEF Onward, Same
<1> SUFFICES Onward(w, a)
    OBVIOUS
<1> HIDE DEF z
<1>2. CASE w.stage = "source"
    <2>1. (\E e \in {"Unsupported"} : a = Reject(w, e)) \/ a = Go(w, "caps")
        BY <1>2 DEF AckedStage, z
    <2> HIDE DEF a
    <2> QED BY <1>0, <1>2, <2>1, RejectOnward, GoOnward DEF Reading
<1>3. CASE w.stage = "caps"
    <2>1. \/ a = [Go(w, "extended_caps") EXCEPT !.sink = h.monitor]
          \/ a = [Go(w, afterCaps(w)) EXCEPT !.sink = h.monitor]
          \/ a = Reject(w, "Unsupported")
        BY <1>3 DEF AckedStage
    <2>2. w.stage \in Reading /\ "extended_caps" \in Reading /\ afterCaps(w) \in Reading
        BY <1>3, AfterStages DEF Reading
    <2>3. ASSUME NEW s \in Reading, NEW v
          PROVE  Onward(w, [Go(w, s) EXCEPT !.sink = v])
        BY <2>2, StoreOnward
    <2> HIDE DEF a
    <2> QED BY <1>0, <2>1, <2>2, <2>3, RejectOnward
<1>4. CASE w.stage = "extended_caps"
    <2>1. \/ a = [Go(w, afterCaps(w)) EXCEPT !.sink = h.monitor]
          \/ a = Reject(w, "Unsupported")
        BY <1>4 DEF AckedStage, z
    <2>2. w.stage \in Reading /\ afterCaps(w) \in Reading
        BY <1>4, AfterStages DEF Reading
    <2>3. Onward(w, [Go(w, afterCaps(w)) EXCEPT !.sink = h.monitor])
        BY <2>2, StoreOnward
    <2> HIDE DEF a
    <2> QED BY <1>0, <2>1, <2>2, <2>3, RejectOnward
<1>5. CASE w.stage = "mst_caps"
    <2>1. a = Go(w, afterMst(w))
        BY <1>5 DEF AckedStage, z
    <2> HIDE DEF a
    <2> QED BY <1>0, <1>5, <2>1, AfterStages, GoOnward DEF Reading
<1>6. CASE w.stage = "dsc_caps"
    <2>1. \/ a = [Go(w, afterDsc(w)) EXCEPT !.dsc = h.monitor]
          \/ a = [Go(w, afterDsc(w)) EXCEPT !.dsc = None]
        BY <1>6 DEF AckedStage
    <2>2. w.stage \in Reading /\ afterDsc(w) \in Reading
        BY <1>6, AfterStages DEF Reading
    <2>3. ASSUME NEW s \in Reading, NEW v
          PROVE  Onward(w, [Go(w, s) EXCEPT !.dsc = v])
        BY <2>2, StoreOnward
    <2> HIDE DEF a
    <2> QED BY <2>1, <2>2, <2>3
<1>7. CASE w.stage = "fec_caps"
    <2>1. a = [Go(w, afterExtended(w)) EXCEPT !.fec = k.fec]
        BY <1>7 DEF AckedStage, z
    <2> HIDE DEF a
    <2> QED BY <1>0, <1>7, <2>1, AfterStages, StoreOnward DEF Reading
<1>8. CASE w.stage = "color_caps"
    <2>1. a = Go(w, "repeaters") \/ a = Reject(w, "Unsupported")
        BY <1>8 DEF AckedStage, z
    <2> HIDE DEF a
    <2> QED BY <1>0, <1>8, <2>1, RejectOnward, GoOnward DEF Reading
<1>9. CASE w.stage = "repeaters"
    <2>1. a = Reject(w, "Unsupported") \/ a = select(w)
        BY <1>9 DEF AckedStage, z
    <2> HIDE DEF a
    <2> QED BY <1>0, <1>9, <2>1, RejectOnward, SelectOnward DEF Reading
<1>10. CASE w.stage = "power"
    <2>1. a = Go(w, "power_on")
        BY <1>10 DEF AckedStage, z
    <2> HIDE DEF a
    <2> QED BY <1>0, <1>10, <2>1, GoOnward DEF Setting, Admitted
<1>11. CASE w.stage = "power_on"
    <2>1. a = Go(w, trainingStart(w))
        BY <1>11 DEF AckedStage, z
    <2> HIDE DEF a
    <2> QED BY <1>0, <1>11, <2>1, AfterStages, GoOnward DEF Setting, Admitted
<1>12. CASE w.stage = "fec_clear"
    <2>1. a = Go(w, "train")
        BY <1>12 DEF AckedStage, z
    <2> HIDE DEF a
    <2> QED BY <1>0, <1>12, <2>1, GoOnward DEF Setting, Admitted
<1>13. CASE w.stage = "train"
    <2>1. a = Go(w, "link_config") \/ a = fallback(w)
        BY <1>13 DEF AckedStage, z
    <2> HIDE DEF a
    <2> QED BY <1>0, <1>13, <2>1, FallbackOnward, GoOnward DEF Setting, Admitted
<1>14. CASE w.stage = "link_config"
    <2>1. a = Go(w, "link_status") \/ a = fallback(z)
        BY <1>14 DEF AckedStage, z
    <2> HIDE DEF a
    <2> QED BY <1>0, <1>14, <2>1, <1>1, GoOnward DEF Setting, Admitted
<1>15. CASE w.stage = "link_status"
    <2>1. a = Go(w, afterTrained(w)) \/ a = fallback(z)
        BY <1>15 DEF AckedStage, z
    <2> HIDE DEF a
    <2> QED BY <1>0, <1>15, <2>1, <1>1, AfterStages, GoOnward DEF Setting, Admitted
<1>16. CASE w.stage = "fec_enable"
    <2>1. a = Go(w, "fec_status")
        BY <1>16 DEF AckedStage, z
    <2> HIDE DEF a
    <2> QED BY <1>0, <1>16, <2>1, GoOnward DEF Setting, Admitted
<1>17. CASE w.stage = "fec_status"
    <2> DEFINE p == [w EXCEPT !.polls = w.polls + 1, !.retries = 0]
    <2>1. a = Go(w, "dsc_enable") \/ a = Reject(w, "LinkTraining") \/ a = p
        BY <1>17 DEF AckedStage
    <2>2. Onward(w, p)
        <3>1. IsWork(p) /\ Same(w, p) /\ p.stage = w.stage /\ p.dsc = w.dsc /\ p.clear = w.clear
            BY DEF IsWork, Same, Fields
        <3> HIDE DEF p
        <3> QED BY <1>0, <1>17, <3>1, MoveOnward DEF Setting
    <2> HIDE DEF a, p
    <2> QED BY <1>0, <1>17, <2>1, <2>2, RejectOnward, GoOnward DEF Setting, Admitted
<1>18. CASE w.stage = "dsc_enable"
    <2>1. a = Go(w, "dsc_verify")
        BY <1>18 DEF AckedStage, z
    <2> HIDE DEF a
    <2> QED BY <1>0, <1>18, <2>1, GoOnward DEF Setting, Admitted
<1>19. CASE w.stage = "dsc_verify"
    <2>1. a = Go(w, "stream") \/ a = Reject(w, "LinkTraining")
        BY <1>19 DEF AckedStage, z
    <2> HIDE DEF a
    <2> QED BY <1>0, <1>19, <2>1, RejectOnward, GoOnward DEF Setting, Admitted
<1>20. CASE w.stage = "stream"
    <2>1. a = Go(w, "mute")
        BY <1>20 DEF AckedStage, z
    <2> HIDE DEF a
    <2> QED BY <1>0, <1>20, <2>1, GoOnward DEF Setting, Admitted
<1>21. CASE w.stage = "mute"
    <2>1. a = Go(w, "complete")
        BY <1>21 DEF AckedStage, z
    <2> HIDE DEF a
    <2> QED BY <1>0, <1>21, <2>1, GoOnward DEF Setting, Admitted
<1>22. CASE w.stage = "vsc"
    <2>1. a = Go(w, "hdr")
        BY <1>22 DEF AckedStage, z
    <2> HIDE DEF a
    <2> QED BY <1>0, <1>22, <2>1, GoOnward DEF Setting, Admitted
<1>23. CASE w.stage = "hdr"
    <2>1. a = Go(w, "post_complete")
        BY <1>23 DEF AckedStage, z
    <2> HIDE DEF a
    <2> QED BY <1>0, <1>23, <2>1, GoOnward DEF Setting, Admitted
<1> QED
    BY <1>2, <1>3, <1>4, <1>5, <1>6, <1>7, <1>8, <1>9, <1>10, <1>11, <1>12,
       <1>13, <1>14, <1>15, <1>16, <1>17, <1>18, <1>19, <1>20, <1>21, <1>22, <1>23 DEF Reading, Setting

(* The stop part leaves the link part alone; the source's FEC is the last *)
(* thing it takes down when the receiver is gone.                         *)
LEMMA AckedClearKeeps ==
    ASSUME NEW w, IsWork(w), w.clear \in Clearing, NEW h
    PROVE  LET a == AckedClear(w, h)
           IN  /\ IsWork(a) /\ Same(w, a) /\ a.stage = w.stage /\ a.dsc = w.dsc
               /\ w.clear = "fec_disable" /\ ~w.present => a.clear = "disabled"
<1> DEFINE a == AckedClear(w, h)
           Cleared == /\ IsWork(a) /\ Same(w, a) /\ a.stage = w.stage /\ a.dsc = w.dsc
                      /\ w.clear = "fec_disable" /\ ~w.present => a.clear = "disabled"
<1> SUFFICES Cleared
    OBVIOUS
<1>1. ASSUME NEW c \in Clearing \cup {"disabled"}, w.clear = "fec_disable" /\ ~w.present => c = "disabled",
             a = [w EXCEPT !.clear = c] \/ a = [w EXCEPT !.clear = c, !.retries = 0]
      PROVE  Cleared
    <2>1. CASE a = [w EXCEPT !.clear = c]
        <3> HIDE DEF a
        <3> QED BY <1>1, <2>1 DEF IsWork, Same, Fields
    <2>2. CASE a = [w EXCEPT !.clear = c, !.retries = 0]
        <3> HIDE DEF a
        <3> QED BY <1>1, <2>2 DEF IsWork, Same, Fields
    <2> QED
        BY <1>1, <2>1, <2>2
<1>2. CASE w.clear = "fec_disable"
    <2> DEFINE c == IF w.present THEN "decoder_disable" ELSE "disabled"
    <2>1. a = [w EXCEPT !.clear = c]
        BY <1>2 DEF AckedClear
    <2>2. c \in Clearing \cup {"disabled"} /\ (~w.present => c = "disabled")
        BY DEF Clearing
    <2> HIDE DEF a, c, Cleared
    <2> QED
        BY <1>1, <2>1, <2>2
<1>3. CASE w.clear = "decoder_disable"
    <2>1. a = [w EXCEPT !.clear = "decoder_verify", !.retries = 0]
        BY <1>3 DEF AckedClear
    <2> HIDE DEF a, Cleared
    <2> QED
        BY <1>1, <1>3, <2>1 DEF Clearing
<1>4. CASE w.clear = "decoder_verify"
    <2>1. a = Reject(w, "LinkTraining") \/ a = [w EXCEPT !.clear = "disabled", !.retries = 0]
        BY <1>4 DEF AckedClear
    <2>2. CASE a = Reject(w, "LinkTraining")
        <3> HIDE DEF a
        <3> QED BY <1>4, <2>2, RejectKeeps
    <2>3. CASE a = [w EXCEPT !.clear = "disabled", !.retries = 0]
        <3> HIDE DEF a, Cleared
        <3> QED BY <1>1, <2>3
    <2> QED
        BY <2>1, <2>2, <2>3
<1> QED
    BY <1>2, <1>3, <1>4 DEF Clearing

(* What consume makes of an accepted reply is again a transaction that is   *)
(* alone without its receiver and live-admitted past select.                *)
Kept(w, a) == IsWork(a) /\ Same(w, a) /\ Alone(a) /\ Live(a)

(* A reply that moves a transaction onward keeps it so. *)
LEMMA OnwardKept ==
    ASSUME NEW w, IsWork(w), Alone(w), Live(w), w.stage # None, NEW a, Onward(w, a), a.error = None
    PROVE  Kept(w, a)
<1>1. w.present /\ a.present
    BY DEF Alone, Onward, Same
<1>2. Live(a)
    BY DEF Live, Onward, Same
<1> QED
    BY <1>1, <1>2 DEF Kept, Alone, Onward

(* So does every reply that consume accepts. *)
LEMMA ConsumeKept ==
    ASSUME NEW w, IsWork(w), Alone(w), Due(w), Live(w), NEW h, NEW reply \in Replies(w),
           consume(w, h, reply).error = None
    PROVE  Kept(w, consume(w, h, reply))
<1> DEFINE a == consume(w, h, reply)
<1>0. reply \in {"ack", "bad", "busy", "nack", "error"}
    BY DEF Replies
<1>1. CASE w.clear \in Clearing
    <2>1. ~Optional(w) /\ request(w) = w.clear
        BY <1>1 DEF Optional, request
    <2>2. reply # "nack"
        BY <1>1, <2>1 DEF Replies, Clearing
    <2>3. ~w.present => w.clear = "fec_disable" /\ reply \in {"ack", "error"}
        BY <1>1, <2>1 DEF Alone, Replies, Clearing
    <2>4. CASE reply \in {"ack", "bad"}
        <3>1. a = AckedClear(w, h)
            BY <1>1, <2>4 DEF consume
        <3> HIDE DEF a
        <3>2. /\ IsWork(a) /\ Same(w, a) /\ a.stage = w.stage /\ a.dsc = w.dsc
              /\ w.clear = "fec_disable" /\ ~w.present => a.clear = "disabled"
            BY <1>1, <3>1, AckedClearKeeps
        <3>3. Live(a)
            BY <3>2 DEF Live, Same
        <3>4. Alone(a)
            BY <2>3, <3>2 DEF Alone, Same
        <3> QED
            BY <3>2, <3>3, <3>4 DEF Kept, a
    <2>5. CASE reply = "busy"
        <3>1. a = retry(w)
            BY <1>1, <2>1, <2>5 DEF consume
        <3> HIDE DEF a
        <3>2. IsWork(a) /\ Same(w, a) /\ a.stage = w.stage /\ a.dsc = w.dsc /\ a.clear = w.clear
            BY <3>1, RetryKeeps
        <3> QED
            BY <3>2 DEF Kept, Live, Alone, Same, a
    <2>6. CASE reply = "error"
        <3>1. a = Reject(w, "RmRejected")
            BY <2>1, <2>6 DEF consume
        <3> QED
            BY <3>1, RejectKeeps DEF None
    <2> QED
        BY <1>0, <2>2, <2>4, <2>5, <2>6
<1>2. CASE w.clear \notin Clearing
    <2>1. w.stage \in Reading \cup Setting /\ w.stage # None /\ request(w) = w.stage
        BY <1>2 DEF Due, Reading, Setting, None, request
    <2>2. CASE reply \in {"ack", "bad"}
        <3>1. a = AckedStage(w, h, reply = "ack")
            BY <1>2, <2>2 DEF consume
        <3>2. Onward(w, a)
            BY <2>1, <3>1, AckedStageOnward
        <3> QED
            BY <2>1, <3>2, OnwardKept
    <2>3. CASE reply # "ack" /\ reply # "bad" /\ Optional(w)
        <3>1. a = optionalUnavailable(w) \/ a = retry(w)
            BY <2>3 DEF consume
        <3>2. CASE a = optionalUnavailable(w)
            BY <2>1, <2>3, <3>2, OptionalOnward, OnwardKept
        <3>3. CASE a = retry(w)
            <4>1. IsWork(a) /\ Same(w, a) /\ a.stage = w.stage /\ a.dsc = w.dsc /\ a.clear = w.clear
                BY <3>3, RetryKeeps
            <4> QED
                BY <4>1 DEF Kept, Live, Alone, Same
        <3> QED
            BY <3>1, <3>2, <3>3
    <2>4. CASE reply = "busy" /\ ~Optional(w)
        <3>1. a = retry(w)
            BY <2>4 DEF consume
        <3>2. IsWork(a) /\ Same(w, a) /\ a.stage = w.stage /\ a.dsc = w.dsc /\ a.clear = w.clear
            BY <3>1, RetryKeeps
        <3> QED
            BY <3>2 DEF Kept, Live, Alone, Same
    <2>5. CASE reply = "nack" /\ ~Optional(w)
        <3>1. w.stage \in Reading
            BY <2>1, <2>5 DEF Replies, Reading
        <3>2. a = select(w)
            BY <2>5 DEF consume
        <3> QED
            BY <2>1, <3>1, <3>2, SelectOnward, OnwardKept
    <2>6. CASE reply = "error" /\ ~Optional(w)
        <3>1. a = Reject(w, "RmRejected")
            BY <2>6 DEF consume
        <3> QED
            BY <3>1, RejectKeeps DEF None
    <2> QED
        BY <1>0, <2>2, <2>3, <2>4, <2>5, <2>6
<1> QED
    BY <1>1, <1>2

-----------------------------------------------------------------------------
(* The transactions the runtime starts.                                     *)

Good(w) == IsWork(w) /\ Alone(w) /\ Live(w)

(* A new link transaction has read nothing and admitted nothing. *)
LEMMA FreshGood ==
    ASSUME NEW role \in {"commit", "restore", "stop"}, NEW plan, NEW noted \in BOOLEAN
    PROVE  /\ Good(initInPlace(role, plan)) /\ initInPlace(role, plan).noted = FALSE
           /\ Good(clearPrevious(initInPlace(role, plan)))
           /\ clearPrevious(initInPlace(role, plan)).noted = FALSE
           /\ Good([clearPrevious(initInPlace(role, plan)) EXCEPT !.noted = noted])
           /\ [clearPrevious(initInPlace(role, plan)) EXCEPT !.noted = noted].noted = noted
<1> DEFINE w == initInPlace(role, plan)
           c == clearPrevious(w)
           d == [c EXCEPT !.noted = noted]
<1>0. "source" \in Reading /\ "source" \notin Admitted
    BY DEF Reading, Admitted, Setting
<1>1. /\ IsWork(w) /\ w.noted = FALSE /\ w.stage = "source" /\ w.present = TRUE /\ w.core = FALSE
      /\ w.role = role
    BY <1>0 DEF initInPlace, IsWork, Fields
<1> HIDE DEF w
<1>2. /\ IsWork(c) /\ c.noted = FALSE /\ c.stage = "source" /\ c.present = TRUE /\ c.core = FALSE
      /\ c.role = role
    BY <1>1 DEF clearPrevious, IsWork, Fields, Clearing
<1> HIDE DEF c
<1>3. /\ IsWork(d) /\ d.noted = noted /\ d.stage = "source" /\ d.present = TRUE /\ d.core = FALSE
      /\ d.role = role
    BY <1>2 DEF IsWork, Fields
<1> HIDE DEF d
<1>4. Good(w) /\ Good(c) /\ Good(d)
    BY <1>0, <1>1, <1>2, <1>3 DEF Good, Alone, Live
<1> QED
    BY <1>1, <1>2, <1>3, <1>4 DEF w, c, d

(* A stop has only its stop part, which the receiver's absence cuts short. *)
LEMMA StopGood ==
    ASSUME NEW role \in {"restore", "stop"}, NEW plan, NEW present \in BOOLEAN, NEW noted \in BOOLEAN
    PROVE  /\ Good(stopExtended(role, plan, present, noted))
           /\ stopExtended(role, plan, present, noted).noted = noted
<1> DEFINE w == stopExtended(role, plan, present, noted)
<1>1. /\ IsWork(w) /\ w.noted = noted /\ w.stage = None /\ w.clear = "fec_disable" /\ w.role = role
    BY ZenonT(60) DEF stopExtended, initInPlace, IsWork, Fields, Clearing
<1> HIDE DEF w
<1>2. Good(w)
    BY <1>1 DEF Good, Alone, Live
<1> QED
    BY <1>1, <1>2 DEF w

-----------------------------------------------------------------------------
(* The next state, by what a step does to the transaction.                  *)

(* No transaction is left. *)
LEMMA NoneInstalled ==
    ASSUME work' = NoWork, channel' = "idle"
    PROVE  IInv'
BY DEF IInv, Shape, Noticed, Aside, Flight, Lived, Linked, NoWork, None

(* The transaction is a, with or without a request in flight. *)
LEMMA GoodInstalled ==
    ASSUME NEW a, Good(a), work' = a, UNCHANGED table,
           channel' \in {"idle", "prepared", "waiting"}, channel' # "idle" => Due(a),
           a.noted => seen' = None /\ owner' \in {"initial", "leaving"}
    PROVE  IInv'
<1>1. Shape'
    BY DEF Shape, Good, IsWork
<1>2. Noticed'
    BY DEF Noticed
<1>3. Aside' /\ Lived'
    BY DEF Aside, Lived, Good, Live, Alone, SameParams
<1>4. Flight'
    BY DEF Flight, Linked, Good, IsWork, Due
<1> QED
    BY <1>1, <1>2, <1>3, <1>4 DEF IInv

(* Nothing the invariant speaks of changes. *)
LEMMA NothingInstalled ==
    ASSUME IInv, UNCHANGED <<work, channel, seen, owner, table>>
    PROVE  IInv'
BY DEF IInv, Shape, Noticed, Aside, Flight, Lived, Linked, Live, Alone, Due, SameParams

(* What the invariant says of the transaction under way. *)
LEMMA WorkCases ==
    ASSUME IInv
    PROVE  /\ Linked => Good(work)
           /\ ~Linked => channel = "idle"
           /\ Idle => ~Linked
<1>1. Linked => IsWork(work)
    BY DEF IInv, Shape, Linked, NoWork, None
<1>2. Idle => ~Linked
    BY DEF Idle, Linked, NoWork, None
<1> QED
    BY <1>1, <1>2 DEF IInv, Good, Aside, Lived, Flight

(* The owner's own steps wait for the transaction to be over. *)
LEMMA IdleInstalled ==
    ASSUME IInv, Idle, UNCHANGED <<work, channel>>
    PROVE  IInv'
BY WorkCases, NoneInstalled DEF Idle

(* A rollback leaves the transaction, ends it or replaces it by one that    *)
(* takes the link down again.                                               *)
LEMMA RollbackInstalled ==
    ASSUME IInv, UNCHANGED <<seen, owner, table>>, NEW w, w.noted = work.noted, Linked,
           rollbackDisplayLink(w)
    PROVE  IInv'
<1>0. Good(work) /\ work.noted \in BOOLEAN
    BY WorkCases DEF Good, IsWork
<1>1. CASE Stop
    BY <1>1, NothingInstalled DEF Stop
<1>2. CASE End
    BY <1>2, NoneInstalled DEF End
<1>3. CASE channel' = "idle" /\ work' = RestoreOld(w)
    <2>1. Good(RestoreOld(w)) /\ RestoreOld(w).noted = work.noted
        BY <1>0, FreshGood DEF RestoreOld
    <2>2. work.noted => seen' = None /\ owner' \in {"initial", "leaving"}
        BY DEF IInv, Noticed, Linked, None
    <2> QED
        BY <1>3, <2>1, <2>2, GoodInstalled
<1>4. CASE channel' = "idle" /\ work' = stopExtended("restore", w.plan, ~displayWorkObsolete, w.noted)
    <2> DEFINE a == stopExtended("restore", w.plan, ~displayWorkObsolete, w.noted)
    <2>1. Good(a) /\ a.noted = work.noted
        BY <1>0, StopGood
    <2>2. work.noted => seen' = None /\ owner' \in {"initial", "leaving"}
        BY DEF IInv, Noticed, Linked, None
    <2> HIDE DEF a
    <2>3. work' = a
        BY <1>4 DEF a
    <2> QED
        BY <1>4, <2>1, <2>2, <2>3, GoodInstalled
<1> QED
    BY <1>1, <1>2, <1>3, <1>4 DEF rollbackDisplayLink

(* A reply: the transaction goes on as consume says, or rolls back. *)
LEMMA ReceiveInstalled ==
    ASSUME IInv, UNCHANGED table, receiveDisplayLink
    PROVE  IInv'
<1>0. Linked /\ Due(work) /\ Good(work) /\ UNCHANGED <<seen, owner>>
    BY WorkCases DEF IInv, Flight, receiveDisplayLink
<1>1. PICK reply \in Replies(work) : \E h \in Executed(work, reply) :
         \E w \in {[work EXCEPT !.mutated = @ \/ mutating(work)]} : \E after \in {consume(w, h, reply)} :
            /\ hw' = h
            /\ IF after.error = None
               THEN work' = after /\ channel' = "idle" /\ UNCHANGED <<image, refused, fault>>
               ELSE IF work.role = "commit" THEN rollbackDisplayLink(w) ELSE Stop
    BY DEF receiveDisplayLink
<1> DEFINE w == [work EXCEPT !.mutated = @ \/ mutating(work)]
<1>2. PICK h : /\ hw' = h
               /\ IF consume(w, h, reply).error = None
                  THEN work' = consume(w, h, reply) /\ channel' = "idle"
                  ELSE IF work.role = "commit" THEN rollbackDisplayLink(w) ELSE Stop
    BY <1>1
<1>3. /\ IsWork(w) /\ Same(work, w) /\ w.stage = work.stage /\ w.clear = work.clear /\ w.dsc = work.dsc
    BY <1>0 DEF Good, IsWork, Same, Fields
<1> HIDE DEF w
<1>4. Alone(w) /\ Live(w) /\ Due(w) /\ Replies(w) = Replies(work)
    BY <1>0, <1>3 DEF Good, Alone, Live, Due, Same, Replies, request, Optional
<1>5. CASE consume(w, h, reply).error = None
    <2> DEFINE a == consume(w, h, reply)
    <2>1. Kept(w, a)
        BY <1>3, <1>4, <1>5, ConsumeKept
    <2> HIDE DEF a
    <2>2. Good(a) /\ a.noted = work.noted
        BY <1>3, <2>1 DEF Kept, Good, Same
    <2>3. work.noted => seen' = None /\ owner' \in {"initial", "leaving"}
        BY <1>0 DEF IInv, Noticed, Linked, None
    <2>4. work' = a /\ channel' = "idle"
        BY <1>2, <1>5 DEF a
    <2> QED
        BY <2>2, <2>3, <2>4, GoodInstalled
<1>6. CASE consume(w, h, reply).error # None /\ work.role = "commit"
    <2>1. rollbackDisplayLink(w) /\ w.noted = work.noted
        BY <1>2, <1>3, <1>6 DEF Same
    <2> QED
        BY <1>0, <2>1, RollbackInstalled
<1>7. CASE consume(w, h, reply).error # None /\ work.role # "commit"
    <2>1. Stop
        BY <1>2, <1>7
    <2> QED
        BY <1>0, <2>1, NothingInstalled DEF Stop
<1> QED
    BY <1>5, <1>6, <1>7

(* Where a linked transaction stands in each phase. *)
LEMMA PhaseStage ==
    ASSUME NEW w, IsWork(w)
    PROVE  /\ phase(w) = "scanout" => w.clear \notin Clearing /\ w.stage = "complete"
           /\ phase(w) = "after_scanout" => w.clear \notin Clearing /\ w.stage \in {"vsc", "hdr"}
           /\ phase(w) \in {"before_scanout", "after_scanout"} => Due(w)
<1>1. CASE w.clear \in Clearing
    BY <1>1 DEF phase, Due
<1>2. CASE w.clear \notin Clearing /\ w.stage \in Reading \cup Setting
    <2>1. phase(w) = IF w.stage \in {"vsc", "hdr"} THEN "after_scanout" ELSE "before_scanout"
        BY <1>2 DEF phase, Reading, Setting, None
    <2> QED
        BY <1>2, <2>1 DEF Due
<1>3. CASE w.clear \notin Clearing /\ w.stage \in {"complete", "post_complete", None}
    BY <1>3 DEF phase, None
<1> QED
    BY <1>1, <1>2, <1>3 DEF IsWork, Admitted

(* Every step keeps the invariant. *)
LEMMA NextIInv ==
    ASSUME IInv, [Next]_vars
    PROVE  IInv'
<1>0. CASE UNCHANGED vars
    BY <1>0, NothingInstalled DEF vars
<1> SUFFICES ASSUME Next PROVE IInv'
    BY <1>0
<1>1. UNCHANGED table
    BY DEF Next
<1>2. Linked /\ work.noted => seen = None /\ owner \in {"initial", "leaving"}
    BY DEF IInv, Noticed, Linked, None
<1>3. channel \in {"idle", "prepared", "waiting"} /\ (channel # "idle" => Due(work))
    BY DEF IInv, Shape, Flight
<1>4. ASSUME NEW c \in {"prepared", "waiting"}, Transacting, channel' = c, UNCHANGED <<seen, owner, work>>
      PROVE  IInv'
    <2>1. Good(work) /\ Due(work)
        BY <1>4, WorkCases, PhaseStage DEF Transacting, Good
    <2> QED
        BY <1>1, <1>2, <1>4, <2>1, GoodInstalled DEF Transacting
<1>5. CASE prepare
    BY <1>4, <1>5 DEF prepare
<1>6. CASE submit
    BY <1>4, <1>6 DEF submit
<1>7. CASE receiveDisplayLink
    BY <1>1, <1>7, ReceiveInstalled
<1>8. CASE AbandonCandidate
    <2>1. Linked /\ UNCHANGED <<seen, owner>> /\ (rollbackDisplayLink(work) \/ End)
        BY <1>8 DEF AbandonCandidate, Linked
    <2> QED
        BY <1>1, <2>1, RollbackInstalled, NoneInstalled DEF End
<1>9. CASE AbandonReceiver
    <2> DEFINE a == stopExtended(work.role, work.plan, FALSE, work.noted)
    <2>1. Linked /\ work' = a /\ channel' = "idle" /\ UNCHANGED <<seen, owner>> /\ work.role \in {"restore", "stop"}
        BY <1>9 DEF AbandonReceiver, Linked
    <2>2. work.noted \in BOOLEAN
        BY <2>1, WorkCases DEF Good, IsWork
    <2>3. Good(a) /\ a.noted = work.noted
        BY <2>1, <2>2, StopGood
    <2> HIDE DEF a
    <2> QED
        BY <1>1, <1>2, <2>1, <2>3, GoodInstalled
<1>10. ASSUME NEW s \in {"vsc", "post_complete"}, Linked, work.clear \notin Clearing,
              work.stage \in Admitted, work' = [work EXCEPT !.stage = s], channel' = "idle",
              UNCHANGED <<seen, owner>>
       PROVE  IInv'
    <2> DEFINE a == [work EXCEPT !.stage = s]
    <2>0. work.stage # None /\ s \in Admitted
        BY <1>10 DEF Admitted, Setting, None
    <2>1. Good(work)
        BY <1>10, WorkCases
    <2>2. /\ IsWork(a) /\ Same(work, a) /\ a.stage = s /\ a.clear = work.clear /\ a.dsc = work.dsc
        BY <2>0, <2>1 DEF Good, IsWork, Same, Fields
    <2>3. work' = a
        BY <1>10
    <2> HIDE DEF a
    <2>4. Good(a)
        BY <1>10, <2>0, <2>1, <2>2 DEF Good, Alone, Live, Same
    <2> QED
        BY <1>1, <1>2, <1>10, <2>2, <2>3, <2>4, GoodInstalled DEF Same
<1>11. CASE SubmitScanout
    <2> DEFINE a == [work EXCEPT !.core = TRUE]
    <2>0. Linked /\ work' = a /\ UNCHANGED <<seen, owner, channel>> /\ phase(work) = "scanout"
        BY <1>11 DEF SubmitScanout, Linked
    <2>1. Good(work) /\ work.stage = "complete" /\ work.clear \notin Clearing
        BY <2>0, WorkCases, PhaseStage DEF Good
    <2>2. channel = "idle"
        BY <1>3, <2>1 DEF Due, Reading, Setting
    <2>3. /\ IsWork(a) /\ a.role = work.role /\ a.plan = work.plan /\ a.stage = work.stage
          /\ a.present = work.present /\ a.clear = work.clear /\ a.dsc = work.dsc /\ a.noted = work.noted
        BY <2>1 DEF Good, IsWork, Fields
    <2> HIDE DEF a
    <2>4. Good(a)
        BY <2>1, <2>3 DEF Good, Alone, Live, Admitted
    <2> QED
        BY <1>1, <1>2, <2>0, <2>2, <2>3, <2>4, GoodInstalled
<1>12. CASE scanoutComplete
    <2>1. /\ Linked /\ phase(work) = "scanout" /\ work' = [work EXCEPT !.stage = "vsc"]
          /\ UNCHANGED <<seen, owner, channel>>
        BY <1>12 DEF scanoutComplete
    <2>2. work.stage = "complete" /\ work.clear \notin Clearing
        BY <2>1, WorkCases, PhaseStage DEF Good
    <2>3. channel = "idle" /\ work.stage \in Admitted
        BY <1>3, <2>2 DEF Due, Reading, Setting, Admitted
    <2> QED
        BY <1>10, <2>1, <2>2, <2>3
<1>13. CASE SkipPackets
    <2>1. /\ Linked /\ phase(work) = "after_scanout" /\ work' = [work EXCEPT !.stage = "post_complete"]
          /\ UNCHANGED <<seen, owner>> /\ channel' = "idle"
        BY <1>13 DEF SkipPackets, Linked
    <2>2. work.stage \in {"vsc", "hdr"} /\ work.clear \notin Clearing
        BY <2>1, WorkCases, PhaseStage DEF Good
    <2> QED
        BY <1>10, <2>1, <2>2 DEF Admitted, Setting
<1>14. CASE publishCompletedDisplayImage \/ advanceDisplayLinkRecovery
    BY <1>14, NoneInstalled DEF publishCompletedDisplayImage, advanceDisplayLinkRecovery, End
<1>15. CASE completeDisplayDetach
    <2>1. CASE End
        BY <2>1, NoneInstalled DEF End
    <2>2. CASE /\ work.role = "detach" /\ UNCHANGED <<seen, owner, channel>>
               /\ work' = stopExtended("stop", image.plan, seen # None, work.noted)
        <3> DEFINE a == stopExtended("stop", image.plan, seen # None, work.noted)
        <3>1. ~Linked /\ work.noted \in BOOLEAN /\ (work.noted => seen = None /\ owner \in {"initial", "leaving"})
            BY <2>2 DEF IInv, Shape, Noticed, Linked, IsWork, NoWork, None
        <3>2. Good(a) /\ a.noted = work.noted
            BY <3>1, StopGood
        <3>3. work' = a /\ channel' = "idle"
            BY <2>2, <3>1, WorkCases
        <3> HIDE DEF a
        <3> QED
            BY <1>1, <2>2, <3>1, <3>2, <3>3, GoodInstalled
    <2> QED
        BY <1>15, <2>1, <2>2 DEF completeDisplayDetach
<1>16. CASE Own
    <2>1. CASE detachDisplayImage
        <3>1. channel = "idle"
            BY <2>1, WorkCases DEF detachDisplayImage
        <3> QED
            BY <2>1, <3>1 DEF detachDisplayImage, IInv, Shape, Noticed, Aside, Flight, Lived, Linked
    <2>2. CASE beginReceiverRefresh \/ Settle \/ Unpause \/ takeDisplayLinkFailure
        BY <2>2, IdleInstalled DEF beginReceiverRefresh, Settle, Unpause, takeDisplayLinkFailure
    <2> QED
        BY <1>16, <2>1, <2>2 DEF Own
<1>17. CASE Timeout
    BY <1>1, <1>17, NothingInstalled DEF Timeout, Stop
<1>18. CASE PowerOff
    BY <1>18, IdleInstalled DEF PowerOff
<1>19. CASE Notification
    <2>0. seen' = None /\ owner' \in {"initial", "leaving"} /\ channel' = channel
        BY <1>19 DEF Notification
    <2>1. CASE Idle
        BY <1>19, <2>1, IdleInstalled DEF Notification
    <2>2. CASE ~Idle /\ ~Linked
        <3>1. work = [role |-> "detach", noted |-> work.noted]
            BY <2>2 DEF IInv, Shape, IsWork, Linked, Idle
        <3>2. work' = [role |-> "detach", noted |-> TRUE] /\ channel' = "idle"
            <4>1. channel' = "idle" /\ work' = [work EXCEPT !.noted = TRUE]
                BY <1>19, <2>0, <2>2, WorkCases DEF Notification
            <4>2. PICK n : work = [role |-> "detach", noted |-> n]
                BY <3>1
            <4> QED
                BY <4>1, <4>2
        <3> QED
            BY <2>0, <3>2 DEF IInv, Shape, Noticed, Aside, Flight, Lived, Linked
    <2>3. CASE Linked
        <3> DEFINE a == [work EXCEPT !.noted = TRUE]
        <3>1. work' = a
            BY <1>19, <2>3, WorkCases DEF Notification
        <3>2. Good(work)
            BY <2>3, WorkCases
        <3>3. /\ IsWork(a) /\ a.role = work.role /\ a.plan = work.plan /\ a.stage = work.stage
              /\ a.present = work.present /\ a.clear = work.clear /\ a.dsc = work.dsc /\ a.core = work.core
            BY <3>2 DEF Good, IsWork, Fields
        <3> HIDE DEF a
        <3>4. Good(a) /\ (Due(work) => Due(a))
            BY <3>2, <3>3 DEF Good, Alone, Live, Due
        <3> QED
            BY <1>1, <1>3, <2>0, <3>1, <3>4, GoodInstalled
    <2> QED
        BY <2>1, <2>2, <2>3
<1>20. CASE \E k \in Monitors : ReceiverEvent(k)
    BY <1>1, <1>20, NothingInstalled DEF ReceiverEvent
<1>21. ASSUME NEW m \in Modes, commitModeDisplayImage(m)
       PROVE  IInv'
    <2> DEFINE w == initInPlace("commit", Selected(m, seen))
    <2>1. channel' = "idle" /\ (work' = w \/ work' = clearPrevious(w))
        BY <1>21, WorkCases DEF commitModeDisplayImage
    <2>2. Good(w) /\ w.noted = FALSE /\ Good(clearPrevious(w)) /\ clearPrevious(w).noted = FALSE
        BY FreshGood
    <2> HIDE DEF w
    <2> QED
        BY <1>1, <2>1, <2>2, GoodInstalled
<1> QED
    BY <1>5, <1>6, <1>7, <1>8, <1>9, <1>11, <1>12, <1>13, <1>14, <1>15, <1>16, <1>17, <1>18, <1>19,
       <1>20, <1>21 DEF Next, Progress

-----------------------------------------------------------------------------
(* Always, for any modes, receivers, source and bounds: a compressed image  *)
(* is submitted only with the parameter set the receiver that this very     *)
(* transaction read asks for (gsp_dp_link.select, readyScanout).            *)
THEOREM ImageIsLiveAdmitted == Spec => []LiveAdmitted
<1>1. IInv => LiveAdmitted
    <2> SUFFICES ASSUME IInv, work.role = "commit", work.core, work.plan.compressed
                 PROVE  SameParams(work.plan, work.dsc)
        BY DEF LiveAdmitted
    <2>1. Linked
        BY DEF Linked
    <2> QED
        BY <2>1 DEF IInv, Lived, Live
<1> QED
    BY <1>1, InitIInv, NextIInv, PTL DEF Spec

(* Only submit puts a request in flight, and not for a transaction that has *)
(* to turn aside.                                                           *)
LEMMA SubmitStops ==
    ASSUME IInv, submit, work.noted
    PROVE  request(work) \notin ReceiverSetters
<1>1. Transacting /\ Linked /\ ~MustTurn
    BY DEF submit, Transacting
<1>2. Good(work) /\ Due(work)
    BY <1>1, WorkCases, PhaseStage DEF Transacting, Good
<1>3. seen = None /\ owner \in {"initial", "leaving"}
    BY <1>1 DEF IInv, Noticed, Linked, None
<1>4. ~work.present
    BY <1>1, <1>2, <1>3 DEF Linked, MustTurn, displayWorkObsolete, paused, Good, IsWork
<1>5. work.clear = "fec_disable"
    BY <1>2, <1>4 DEF Good, Alone, Due, Reading, Setting, Clearing, None
<1> QED
    BY <1>5 DEF request, Clearing, ReceiverSetters

(* Always: once a change of receiver is known, no transaction sends the     *)
(* receiver another setter (displayWorkObsolete, cancelPrepared,            *)
(* gsp_dp_stop.receiver_present).                                           *)
THEOREM NoSetterAfterHotplug == Spec => SetterStopsAtHotplug
<1> DEFINE Quiet == channel = "prepared" /\ channel' = "waiting" /\ work.noted =>
                        request(work) \notin ReceiverSetters
<1>1. IInv /\ [Next]_vars => [Quiet]_vars
    <2> SUFFICES ASSUME IInv, Next, channel = "prepared", channel' = "waiting", work.noted
                 PROVE  request(work) \notin ReceiverSetters
        OBVIOUS
    <2>1. CASE submit
        BY <2>1, SubmitStops
    <2>2. CASE receiveDisplayLink \/ AbandonCandidate
        BY <2>2 DEF receiveDisplayLink, AbandonCandidate, rollbackDisplayLink, End, Stop
    <2>3. CASE prepare \/ AbandonReceiver \/ SubmitScanout \/ scanoutComplete \/ SkipPackets
        BY <2>3 DEF prepare, AbandonReceiver, SubmitScanout, scanoutComplete, SkipPackets
    <2>4. CASE \/ publishCompletedDisplayImage \/ advanceDisplayLinkRecovery \/ completeDisplayDetach
               \/ Own \/ Timeout \/ PowerOff \/ Notification
        BY <2>4 DEF publishCompletedDisplayImage, advanceDisplayLinkRecovery, completeDisplayDetach, Own,
                    beginReceiverRefresh, Settle, Unpause, takeDisplayLinkFailure, detachDisplayImage,
                    Timeout, Stop, End, PowerOff, Notification
    <2>5. CASE \/ \E k \in Monitors : ReceiverEvent(k)
               \/ \E m \in Modes : commitModeDisplayImage(m)
        BY <2>5 DEF ReceiverEvent, commitModeDisplayImage
    <2> QED
        BY <2>1, <2>2, <2>3, <2>4, <2>5 DEF Next, Progress
<1> QED
    BY <1>1, InitIInv, NextIInv, PTL DEF Spec, SetterStopsAtHotplug

=============================================================================
