------------------------- MODULE GspExchangeProofs -------------------------
(* The succession of queue owners for any owners, functions, deadlines and  *)
(* numbers of requests and notifications.  Each property needs to know who  *)
(* drives the queue; a reply belongs to its request because nothing else    *)
(* can be outstanding, and a handler runs once because a record that stays  *)
(* in the queue after its handler ran has stopped the session.              *)
EXTENDS GspExchange, TLAPS

Kinds == Notices \cup {"none", "reply", "init_done"}
Records == [kind : Kinds, function : Functions \cup {0}, req : Nat, number : 0 .. MaxNote + 1]
Sent == [function : Functions \cup {0}, req : Nat]
Exchanges == [phase : {"unborn", "idle", "prepared", "waiting", "handed_off", "failed"},
              deadline : Nat, function : Functions \cup {0}, req : Nat, revision : Nat,
              in_lockdown : BOOLEAN, pending : Records, response : BOOLEAN]
TypeOK ==
    /\ now \in Nat /\ ses \in {"linking", "active", "failed"}
    /\ boot \in [state : {"waiting", "dispatching", "init_done", "handed_off", "failed"},
                 deadline : Nat, pending : Records, in_lockdown : BOOLEAN]
    /\ ex \in [Owners -> Exchanges]
    /\ token \in [present : BOOLEAN, in_lockdown : BOOLEAN]
    /\ toFw \in Seq(Sent) /\ toCpu \in Seq(Records)
    /\ fw \in [linked : BOOLEAN, init_done : BOOLEAN, notes : 0 .. MaxNote, reqs : Nat]
    /\ lockSeen \in BOOLEAN
    /\ runs \in [1 .. MaxNote + 1 -> Nat]

(* One party drives the queue, and none drives a failed session. *)
Own ==
    /\ \A o, p \in Owners : Live(o) /\ Live(p) => o = p
    /\ \A o \in Owners : Live(o) => ~BootOwns /\ ~token.present /\ ses # "failed"
    /\ BootOwns => ~token.present /\ ses # "failed"
    /\ ses # "failed" => BootOwns \/ token.present \/ \E o \in Owners : Live(o)

(* A record that is being served is still the first of the queue. *)
Held ==
    /\ boot.state = "dispatching" => toCpu # <<>> /\ boot.pending = Head(toCpu)
    /\ \A o \in Owners : Live(o) /\ ex[o].pending # NoRecord => toCpu # <<>> /\ ex[o].pending = Head(toCpu)

(* Whoever drives the queue, or will, knows of the lockdown. *)
Locked ==
    /\ \A o \in Owners : Live(o) => ex[o].in_lockdown = lockSeen
    /\ token.present => token.in_lockdown = lockSeen
    /\ BootOwns => boot.in_lockdown = lockSeen

(* Only the request of a waiting owner is outstanding, in one place. *)
Asked(r) == \E o \in Owners : ex[o].phase = "waiting" /\ ex[o].req = r
Outstanding ==
    ses # "failed" =>
        /\ \A i \in 1 .. Len(toFw) : Asked(toFw[i].req)
        /\ \A i \in 1 .. Len(toCpu) : toCpu[i].kind = "reply" => Asked(toCpu[i].req)
        /\ Len(toFw) <= 1
        /\ \A i, j \in 1 .. Len(toCpu) : toCpu[i].kind = "reply" /\ toCpu[j].kind = "reply" => i = j
        /\ \A i \in 1 .. Len(toCpu) : toCpu[i].kind = "reply" => toFw = <<>>
Paired ==
    \A o \in Owners : Live(o) /\ ex[o].pending # NoRecord =>
        /\ ex[o].response => ex[o].phase = "waiting"
        /\ ex[o].response <=> ex[o].pending.kind = "reply"

(* A notification in the queue has a number of its own, its handler has not *)
(* run while the session is usable, and it is there until the handler runs. *)
Numbered ==
    /\ \A i \in 1 .. Len(toCpu) : toCpu[i].number # 0 => Issued(toCpu[i].number)
    /\ \A i, j \in 1 .. Len(toCpu) : toCpu[i].number # 0 /\ toCpu[i].number = toCpu[j].number => i = j
    /\ \A i \in 1 .. Len(toCpu) : toCpu[i].kind = "reply" => toCpu[i].number = 0
Queued(n) == \E i \in 1 .. Len(toCpu) : toCpu[i].number = n
Once ==
    /\ \A n \in 1 .. MaxNote + 1 : runs[n] <= 1 /\ (~Issued(n) => runs[n] = 0)
    /\ ses # "failed" => \A i \in 1 .. Len(toCpu) : toCpu[i].number # 0 => runs[toCpu[i].number] = 0
    /\ \A n \in 1 .. MaxNote + 1 : Issued(n) /\ runs[n] = 0 => Queued(n)

IInv == TypeOK /\ Own /\ Held /\ Locked /\ Outstanding /\ Paired /\ Numbered /\ Once

-----------------------------------------------------------------------------
(* What the small operators return.                                         *)

(* The initial values have their types. *)
LEMMA Values ==
    /\ NoDeadline \in Nat /\ Deadlines \subseteq Nat
    /\ NoRecord \in Records /\ Unborn \in Exchanges
    /\ NoToken \in [present : BOOLEAN, in_lockdown : BOOLEAN]
BY ExchangeAssumption DEF NoDeadline, Deadlines, NoRecord, Records, Kinds, Unborn, Exchanges, NoToken

(* The earlier of two deadlines is a deadline. *)
LEMMA EndType ==
    ASSUME TypeOK, NEW o \in Owners, NEW d \in Deadlines
    PROVE  End(o, d) \in Nat
BY Values DEF TypeOK, Exchanges, End, Min2

(* What is left of a queue whose first record is taken. *)
LEMMA TailType ==
    ASSUME NEW S, NEW q \in Seq(S), q # <<>>
    PROVE  /\ Head(q) \in S /\ Tail(q) \in Seq(S) /\ Len(Tail(q)) = Len(q) - 1
           /\ \A i \in 1 .. Len(Tail(q)) : i + 1 \in 1 .. Len(q) /\ Tail(q)[i] = q[i + 1]
           /\ Len(q) \in Nat \ {0} /\ Head(q) = q[1]
OBVIOUS

(* A failing owner keeps everything but its phase. *)
LEMMA FailType ==
    ASSUME TypeOK, NEW o \in Owners, Fail(o)
    PROVE  /\ ex' \in [Owners -> Exchanges] /\ ses' = "failed"
           /\ \A p \in Owners : p # o => ex'[p] = ex[p]
           /\ ex'[o].phase = "failed"
<1>1. ex' = [ex EXCEPT ![o] = [ex[o] EXCEPT !.phase = "failed"]] /\ ses' = "failed"
    BY DEF Fail
<1>2. ex \in [Owners -> Exchanges] /\ ex[o] \in Exchanges
    BY DEF TypeOK
<1>3. [ex[o] EXCEPT !.phase = "failed"] \in Exchanges /\ [ex[o] EXCEPT !.phase = "failed"].phase = "failed"
    BY <1>2 DEF Exchanges
<1> QED
    BY <1>1, <1>2, <1>3

(* Handling a record counts its number. *)
LEMMA CountType ==
    ASSUME TypeOK, NEW r \in Records
    PROVE  /\ Count(r) \in [1 .. MaxNote + 1 -> Nat]
           /\ \A n \in 1 .. MaxNote + 1 : Count(r)[n] = IF n = r.number THEN runs[n] + 1 ELSE runs[n]
<1>1. runs \in [1 .. MaxNote + 1 -> Nat] /\ r.number \in 0 .. MaxNote + 1
    BY DEF TypeOK, Records
<1>2. CASE r.number = 0
    BY <1>1, <1>2 DEF Count
<1>3. CASE r.number # 0
    <2>1. Count(r) = [runs EXCEPT ![r.number] = runs[r.number] + 1] /\ r.number \in 1 .. MaxNote + 1
        BY <1>1, <1>3, ExchangeAssumption DEF Count
    <2>2. runs[r.number] + 1 \in Nat
        BY <1>1, <2>1
    <2> QED
        BY <1>1, <2>1, <2>2
<1> QED
    BY <1>2, <1>3

(* The initial states: Boot owns empty queues. *)
LEMMA InitIInv == Init => IInv
<1> SUFFICES ASSUME Init PROVE IInv
    OBVIOUS
<1>1. TypeOK
    <2>1. now \in Nat /\ ses = "linking" /\ lockSeen \in BOOLEAN
        BY Zenon DEF Init
    <2>2. boot \in [state : {"waiting", "dispatching", "init_done", "handed_off", "failed"},
                    deadline : Nat, pending : Records, in_lockdown : BOOLEAN]
        BY Values, Zenon DEF Init
    <2>3. ex \in [Owners -> Exchanges] /\ token \in [present : BOOLEAN, in_lockdown : BOOLEAN]
        BY Values DEF Init
    <2>4. toFw \in Seq(Sent) /\ toCpu \in Seq(Records)
        BY DEF Init
    <2>5. fw \in [linked : BOOLEAN, init_done : BOOLEAN, notes : 0 .. MaxNote, reqs : Nat]
        BY ExchangeAssumption DEF Init
    <2>6. runs \in [1 .. MaxNote + 1 -> Nat]
        BY DEF Init
    <2> QED
        BY <2>1, <2>2, <2>3, <2>4, <2>5, <2>6 DEF TypeOK
<1>2. BootOwns /\ \A o \in Owners : ~Live(o)
    BY DEF Init, BootOwns, Live, Unborn
<1>3. Own /\ Held /\ Locked /\ Paired
    BY <1>2, Zenon DEF Init, Own, Held, Locked, Paired, NoToken
<1>4. Outstanding /\ Numbered /\ Once
    BY ExchangeAssumption DEF Init, Outstanding, Numbered, Once, Issued
<1> QED
    BY <1>1, <1>3, <1>4 DEF IInv

-----------------------------------------------------------------------------
(* The queues.                                                              *)

(* What becomes of a queue that gets one more record. *)
LEMMA AppendType ==
    ASSUME NEW S, NEW q \in Seq(S), NEW r \in S
    PROVE  /\ Append(q, r) \in Seq(S) /\ Append(q, r) # <<>> /\ Len(Append(q, r)) = Len(q) + 1
           /\ Len(q) \in Nat
           /\ \A i \in 1 .. Len(q) : Append(q, r)[i] = q[i]
           /\ Append(q, r)[Len(q) + 1] = r
           /\ q # <<>> => Head(Append(q, r)) = Head(q)
<1>1. /\ Append(q, r) \in Seq(S) /\ Append(q, r) # <<>> /\ Len(Append(q, r)) = Len(q) + 1
      /\ Len(q) \in Nat
    OBVIOUS
<1>2. \A i \in 1 .. Len(q) : Append(q, r)[i] = q[i]
    OBVIOUS
<1>3. Append(q, r)[Len(q) + 1] = r
    OBVIOUS
<1>4. ASSUME q # <<>> PROVE Head(Append(q, r)) = Head(q)
    BY <1>1, <1>2, <1>4, TailType
<1> QED
    BY <1>1, <1>2, <1>3, <1>4

(* Steps that leave the status queue and the handlers alone. *)
LEMMA QueueSame ==
    ASSUME IInv, UNCHANGED <<toCpu, runs>>, fw'.notes = fw.notes, fw'.init_done = fw.init_done,
           ses' # "failed" => ses # "failed"
    PROVE  Numbered' /\ Once'
BY DEF IInv, Numbered, Once, Issued, Queued

(* Taking the first record off the status queue, its handler having run if  *)
(* it is a notification.                                                    *)
LEMMA QueueServed ==
    ASSUME IInv, toCpu # <<>>, ses # "failed", toCpu' \in {toCpu, Tail(toCpu)}, UNCHANGED fw,
           runs' = Count(Head(toCpu)),
           \/ ses' = "failed"
           \/ toCpu' = Tail(toCpu)
    PROVE  toCpu' \in Seq(Records) /\ runs' \in [1 .. MaxNote + 1 -> Nat] /\ Numbered' /\ Once'
<1>0. TypeOK /\ Numbered /\ Once /\ toCpu \in Seq(Records)
    BY DEF IInv, TypeOK
<1>1. /\ Head(toCpu) \in Records /\ Tail(toCpu) \in Seq(Records)
      /\ Len(Tail(toCpu)) = Len(toCpu) - 1 /\ Len(toCpu) \in Nat \ {0} /\ Head(toCpu) = toCpu[1]
      /\ \A i \in 1 .. Len(Tail(toCpu)) : i + 1 \in 1 .. Len(toCpu) /\ Tail(toCpu)[i] = toCpu[i + 1]
    BY <1>0, TailType
<1>2. toCpu' \in Seq(Records)
    BY <1>0, <1>1
<1>3. Numbered'
    <2>1. CASE toCpu' = toCpu
        BY <1>0, <2>1 DEF Numbered, Issued
    <2>2. CASE toCpu' = Tail(toCpu)
        BY <1>0, <1>1, <2>2 DEF Numbered, Issued
    <2> QED
        BY <2>1, <2>2
<1> DEFINE n0 == Head(toCpu).number
<1>4. /\ runs' \in [1 .. MaxNote + 1 -> Nat]
      /\ \A n \in 1 .. MaxNote + 1 : runs'[n] = runs[n] \/ (n = n0 /\ runs'[n] = runs[n] + 1)
    BY <1>0, <1>1, CountType
<1>5. n0 \in 0 .. MaxNote + 1 /\ (n0 # 0 => Issued(n0) /\ runs[n0] = 0)
    BY <1>0, <1>1 DEF Numbered, Once, Records
<1>6. \A n \in 1 .. MaxNote + 1 : runs'[n] <= 1 /\ (~Issued(n)' => runs'[n] = 0)
    BY <1>0, <1>4, <1>5 DEF Once, Issued, TypeOK
<1>7. ses' # "failed" => \A i \in 1 .. Len(toCpu') : toCpu'[i].number # 0 => runs'[toCpu'[i].number] = 0
    <2> SUFFICES ASSUME ses' # "failed", NEW i \in 1 .. Len(toCpu'), toCpu'[i].number # 0
                 PROVE  runs'[toCpu'[i].number] = 0
        OBVIOUS
    <2>1. toCpu' = Tail(toCpu) /\ i + 1 \in 1 .. Len(toCpu) /\ toCpu'[i] = toCpu[i + 1] /\ i \in Nat
        BY <1>1
    <2>2. toCpu[i + 1] \in Records
        BY <1>0, <2>1
    <2>3. toCpu[i + 1].number # n0
        BY <1>0, <1>1, <2>1 DEF Numbered
    <2>4. toCpu[i + 1].number \in 1 .. MaxNote + 1 /\ runs[toCpu[i + 1].number] = 0
        <3>1. toCpu[i + 1].number \in 1 .. MaxNote + 1
            BY <2>1, <2>2, ExchangeAssumption DEF Records
        <3>2. runs[toCpu[i + 1].number] = 0
            BY <1>0, <2>1 DEF Once
        <3> QED
            BY <3>1, <3>2
    <2> QED
        BY <1>4, <2>1, <2>3, <2>4
<1>8. \A n \in 1 .. MaxNote + 1 : Issued(n)' /\ runs'[n] = 0 => Queued(n)'
    <2> SUFFICES ASSUME NEW n \in 1 .. MaxNote + 1, Issued(n)', runs'[n] = 0 PROVE Queued(n)'
        OBVIOUS
    <2>1. Issued(n) /\ n # 0
        BY ExchangeAssumption DEF Issued
    <2>2. runs[n] = 0 /\ n # n0
        <3>1. runs \in [1 .. MaxNote + 1 -> Nat] /\ runs[n] \in Nat
            BY <1>0 DEF TypeOK
        <3>2. CASE n = n0
            BY <2>1, <3>1, <3>2 DEF Count
        <3>3. CASE n # n0
            BY <1>4, <3>1, <3>3
        <3> QED
            BY <3>2, <3>3
    <2>3. PICK i \in 1 .. Len(toCpu) : toCpu[i].number = n
        BY <1>0, <2>1, <2>2 DEF Once, Queued
    <2>4. CASE toCpu' = toCpu
        BY <2>3, <2>4 DEF Queued
    <2>5. CASE toCpu' = Tail(toCpu)
        <3>1. i # 1
            BY <1>1, <2>2, <2>3
        <3>2. i - 1 \in 1 .. Len(Tail(toCpu)) /\ (i - 1) + 1 = i
            BY <1>1, <2>3, <3>1
        <3>3. Tail(toCpu)[i - 1] = toCpu[i]
            BY <1>1, <3>2
        <3> QED
            BY <2>3, <2>5, <3>2, <3>3 DEF Queued
    <2> QED
        BY <2>4, <2>5
<1> QED
    BY <1>2, <1>3, <1>4, <1>6, <1>7, <1>8 DEF Once

(* An owner that does not wait has nothing outstanding, nor has a session   *)
(* without an owner.                                                        *)
LEMMA NothingOutstanding ==
    ASSUME IInv, ses # "failed", \A p \in Owners : ex[p].phase # "waiting"
    PROVE  toFw = <<>> /\ \A i \in 1 .. Len(toCpu) : toCpu[i].kind # "reply"
<1>1. \A r : ~Asked(r)
    BY DEF Asked
<1>2. Len(toFw) = 0
    <2>1. toFw \in Seq(Sent) /\ Len(toFw) \in Nat
        BY DEF IInv, TypeOK
    <2> QED
        BY <1>1, <2>1 DEF IInv, Outstanding
<1> QED
    BY <1>1, <1>2 DEF IInv, TypeOK, Outstanding

(* The one who lives waits for whatever is outstanding. *)
LEMMA LiveAlone ==
    ASSUME IInv, NEW o \in Owners, Live(o)
    PROVE  /\ \A p \in Owners : Live(p) => p = o
           /\ \A p \in Owners : ex[p].phase = "waiting" => p = o
           /\ ~BootOwns /\ ~token.present /\ ses # "failed"
           /\ boot.state # "dispatching" /\ ex[o] \in Exchanges
BY DEF IInv, Own, Live, BootOwns, TypeOK

-----------------------------------------------------------------------------
(* The next state, by what a step does to the party that drives the queue.  *)

(* The owner fails: nobody is left. *)
LEMMA OwnerFailed ==
    ASSUME IInv, NEW o \in Owners, Live(o), Fail(o), UNCHANGED <<now, boot, token, fw, lockSeen>>,
           toFw' \in Seq(Sent), toCpu' \in Seq(Records), runs' \in [1 .. MaxNote + 1 -> Nat],
           Numbered', Once'
    PROVE  IInv'
<1>1. /\ ex' \in [Owners -> Exchanges] /\ ses' = "failed" /\ ex'[o].phase = "failed"
      /\ \A p \in Owners : p # o => ex'[p] = ex[p]
    BY FailType DEF IInv
<1>2. \A p \in Owners : ~Live(p)'
    BY <1>1, LiveAlone DEF Live
<1>3. ~BootOwns' /\ ~token'.present /\ boot'.state # "dispatching"
    BY LiveAlone DEF BootOwns
<1>4. TypeOK'
    BY <1>1 DEF IInv, TypeOK
<1>5. Own' /\ Held' /\ Locked' /\ Outstanding' /\ Paired'
    BY <1>1, <1>2, <1>3 DEF Own, Held, Locked, Outstanding, Paired
<1> QED
    BY <1>4, <1>5 DEF IInv

(* Boot fails: nobody is left either. *)
LEMMA BootFailed ==
    ASSUME IInv, BootOwns, BootFail, UNCHANGED <<now, ex, token, toFw, fw, lockSeen>>,
           toCpu' \in Seq(Records), runs' \in [1 .. MaxNote + 1 -> Nat], Numbered', Once'
    PROVE  IInv'
<1>1. boot' = [boot EXCEPT !.state = "failed"] /\ ses' = "failed"
    BY DEF BootFail
<1>2. ~BootOwns' /\ boot'.state = "failed" /\ TypeOK'
    BY <1>1, Zenon DEF IInv, TypeOK, BootOwns
<1>3. ~token'.present /\ \A p \in Owners : ~Live(p)'
    BY DEF IInv, Own, Live
<1>4. Own' /\ Held' /\ Locked' /\ Outstanding' /\ Paired'
    BY <1>1, <1>2, <1>3 DEF Own, Held, Locked, Outstanding, Paired
<1> QED
    BY <1>2, <1>4 DEF IInv

(* The owner goes on as e. *)
LEMMA OwnerDrives ==
    ASSUME IInv, NEW o \in Owners, Live(o), NEW e \in Exchanges, e.phase \in {"idle", "prepared", "waiting"},
           ex' = [ex EXCEPT ![o] = e], UNCHANGED <<now, ses, boot, token>>,
           toFw' \in Seq(Sent), toCpu' \in Seq(Records),
           fw' \in [linked : BOOLEAN, init_done : BOOLEAN, notes : 0 .. MaxNote, reqs : Nat],
           lockSeen' \in BOOLEAN, runs' \in [1 .. MaxNote + 1 -> Nat],
           e.pending # NoRecord => /\ toCpu' # <<>> /\ e.pending = Head(toCpu')
                                   /\ e.response => e.phase = "waiting"
                                   /\ e.response <=> e.pending.kind = "reply",
           e.in_lockdown = lockSeen', Numbered', Once', Outstanding'
    PROVE  IInv'
<1>1. ex' \in [Owners -> Exchanges] /\ ex'[o] = e /\ \A p \in Owners : p # o => ex'[p] = ex[p]
    BY DEF IInv, TypeOK
<1>2. Live(o)' /\ \A p \in Owners : Live(p)' => p = o
    BY <1>1, LiveAlone DEF Live
<1>3. ~BootOwns' /\ ~token'.present /\ ses' # "failed" /\ boot'.state # "dispatching"
    BY LiveAlone DEF BootOwns
<1>4. TypeOK'
    BY <1>1 DEF IInv, TypeOK
<1>5. Own'
    BY <1>2, <1>3 DEF Own
<1>6. Held' /\ Paired'
    BY <1>1, <1>2, <1>3 DEF Held, Paired
<1>7. Locked'
    BY <1>1, <1>2, <1>3 DEF Locked
<1> QED
    BY <1>4, <1>5, <1>6, <1>7 DEF IInv

(* Queues that stay leave the outstanding request to an owner that goes on  *)
(* waiting for it.                                                          *)
LEMMA OutstandingKept ==
    ASSUME IInv, NEW o \in Owners, Live(o), NEW e \in Exchanges, ex' = [ex EXCEPT ![o] = e],
           UNCHANGED <<toFw, toCpu, ses>>,
           ex[o].phase = "waiting" => e.phase = "waiting" /\ e.req = ex[o].req
    PROVE  Outstanding'
<1>1. ex'[o] = e
    BY DEF IInv, TypeOK
<1>2. ASSUME NEW r, Asked(r) PROVE Asked(r)'
    BY <1>1, <1>2, LiveAlone DEF Asked
<1> QED
    BY <1>2 DEF IInv, Outstanding

(* The owner goes on as e and the queues stay. *)
LEMMA OwnerTurns ==
    ASSUME IInv, NEW o \in Owners, Live(o), NEW e \in Exchanges, e.phase \in {"idle", "prepared", "waiting"},
           ex' = [ex EXCEPT ![o] = e], UNCHANGED <<now, ses, boot, token, toFw, toCpu, runs>>,
           fw' \in [linked : BOOLEAN, init_done : BOOLEAN, notes : 0 .. MaxNote, reqs : Nat],
           fw'.notes = fw.notes, fw'.init_done = fw.init_done, lockSeen' \in BOOLEAN,
           e.pending # NoRecord => /\ toCpu # <<>> /\ e.pending = Head(toCpu)
                                   /\ e.response => e.phase = "waiting"
                                   /\ e.response <=> e.pending.kind = "reply",
           e.in_lockdown = lockSeen',
           ex[o].phase = "waiting" => e.phase = "waiting" /\ e.req = ex[o].req
    PROVE  IInv'
<1>1. Numbered' /\ Once'
    BY QueueSame
<1>2. Outstanding'
    BY OutstandingKept, Zenon
<1>3. toFw' \in Seq(Sent) /\ toCpu' \in Seq(Records) /\ runs' \in [1 .. MaxNote + 1 -> Nat]
    BY DEF IInv, TypeOK
<1> QED
    BY <1>1, <1>2, <1>3, OwnerDrives, Zenon

(* The owner fails and the status queue stays. *)
LEMMA OwnerStops ==
    ASSUME IInv, NEW o \in Owners, Live(o), Fail(o), UNCHANGED <<now, boot, token, fw, lockSeen, toCpu, runs>>,
           toFw' \in Seq(Sent)
    PROVE  IInv'
<1>1. ses' = "failed"
    BY DEF Fail
<1>2. Numbered' /\ Once'
    BY <1>1, QueueSame
<1>3. toCpu' \in Seq(Records) /\ runs' \in [1 .. MaxNote + 1 -> Nat]
    BY DEF IInv, TypeOK
<1> QED
    BY <1>2, <1>3, OwnerFailed

-----------------------------------------------------------------------------
(* One lemma per action.                                                    *)

(* begin() prepares a request of an idle owner; nothing is outstanding yet. *)
LEMMA BeginStep ==
    ASSUME IInv, NEW o \in Owners, NEW f \in Functions, NEW d \in Deadlines, Begin(o, f, d)
    PROVE  IInv'
<1>0. Live(o) /\ toFw \in Seq(Sent) /\ ex[o] \in Exchanges /\ ex \in [Owners -> Exchanges]
    BY DEF Begin, Live, IInv, TypeOK
<1>1. CASE Expired(End(o, d))
    <2>1. Fail(o) /\ UNCHANGED <<now, boot, token, fw, lockSeen, toCpu, runs>> /\ toFw' \in Seq(Sent)
        BY <1>0, <1>1 DEF Begin
    <2> QED
        BY <1>0, <2>1, OwnerStops
<1>2. CASE ~Expired(End(o, d))
    <2> DEFINE e == [ex[o] EXCEPT !.phase = "prepared", !.deadline = End(o, d), !.function = f, !.req = fw.reqs + 1]
    <2>1. fw \in [linked : BOOLEAN, init_done : BOOLEAN, notes : 0 .. MaxNote, reqs : Nat] /\ End(o, d) \in Nat
        BY EndType DEF IInv, TypeOK
    <2>2. e \in Exchanges
        <3>1. fw.reqs + 1 \in Nat /\ f \in Functions \cup {0}
            BY <2>1
        <3>2. \A m \in Nat : [ex[o] EXCEPT !.phase = "prepared", !.deadline = End(o, d), !.function = f, !.req = m]
                                \in Exchanges
            BY <1>0, <2>1, <3>1, Zenon DEF Exchanges
        <3> QED
            BY <3>1, <3>2, Zenon
    <2>3. e.phase = "prepared" /\ e.pending = ex[o].pending /\ e.in_lockdown = ex[o].in_lockdown
        BY <1>0 DEF Exchanges
    <2>4. ex' = [ex EXCEPT ![o] = e]
        BY <1>0, <1>2, Zenon DEF Begin
    <2> HIDE DEF e
    <2>5. UNCHANGED <<now, ses, boot, token, toFw, toCpu, runs, lockSeen>> /\ fw' = [fw EXCEPT !.reqs = @ + 1]
        BY <1>2 DEF Begin
    <2>6. /\ fw' \in [linked : BOOLEAN, init_done : BOOLEAN, notes : 0 .. MaxNote, reqs : Nat]
          /\ fw'.notes = fw.notes /\ fw'.init_done = fw.init_done
        BY <2>1, <2>5
    <2>7. ex[o].phase = "idle" /\ e.pending = NoRecord /\ e.in_lockdown = lockSeen' /\ lockSeen' \in BOOLEAN
        BY <1>0, <2>3, <2>5 DEF Begin, IInv, Locked, TypeOK
    <2> QED
        BY <1>0, <2>2, <2>3, <2>4, <2>5, <2>6, <2>7, OwnerTurns, Zenon
<1> QED
    BY <1>1, <1>2

(* cancelPrepared() drops a request that was never sent. *)
LEMMA CancelStep ==
    ASSUME IInv, NEW o \in Owners, CancelPrepared(o)
    PROVE  IInv'
<1>0. Live(o) /\ toFw \in Seq(Sent) /\ ex[o] \in Exchanges /\ ex \in [Owners -> Exchanges]
    BY DEF CancelPrepared, Live, IInv, TypeOK
<1>1. CASE Expired(ex[o].deadline)
    <2>1. Fail(o) /\ UNCHANGED <<now, boot, token, fw, lockSeen, toCpu, runs>> /\ toFw' \in Seq(Sent)
        BY <1>0, <1>1 DEF CancelPrepared
    <2> QED
        BY <1>0, <2>1, OwnerStops
<1>2. CASE ~Expired(ex[o].deadline)
    <2> DEFINE e == [ex[o] EXCEPT !.phase = "idle", !.deadline = NoDeadline]
    <2>1. e \in Exchanges
        BY <1>0, Values, Zenon DEF Exchanges
    <2>2. e.phase = "idle" /\ e.pending = ex[o].pending /\ e.in_lockdown = ex[o].in_lockdown
        BY <1>0 DEF Exchanges
    <2>3. ex' = [ex EXCEPT ![o] = e]
        BY <1>0, <1>2, Zenon DEF CancelPrepared
    <2> HIDE DEF e
    <2>4. UNCHANGED <<now, ses, boot, token, toFw, toCpu, runs, lockSeen, fw>>
        BY <1>2 DEF CancelPrepared
    <2>5. ex[o].phase = "prepared" /\ e.pending = NoRecord /\ e.in_lockdown = lockSeen' /\ lockSeen' \in BOOLEAN
        BY <1>0, <2>2, <2>4 DEF CancelPrepared, IInv, Locked, TypeOK
    <2>6. fw' \in [linked : BOOLEAN, init_done : BOOLEAN, notes : 0 .. MaxNote, reqs : Nat]
        BY <2>4 DEF IInv, TypeOK
    <2> QED
        BY <1>0, <2>1, <2>2, <2>3, <2>4, <2>5, <2>6, OwnerTurns, Zenon
<1> QED
    BY <1>1, <1>2

(* Exchange.init() takes the token; the owner starts with its lockdown flag. *)
LEMMA ClaimStep ==
    ASSUME IInv, NEW o \in Owners, NEW d \in Deadlines, Claim(o, d)
    PROVE  IInv'
<1>0. /\ token.present /\ ses = "active" /\ ~BootOwns /\ \A p \in Owners : ~Live(p)
      /\ UNCHANGED <<now, boot, toFw, toCpu, fw, lockSeen, runs>>
    BY DEF Claim, IInv, Own
<1>1. CASE Expired(d)
    <2>1. ses' = "failed" /\ UNCHANGED <<ex, token>>
        BY <1>1 DEF Claim
    <2>2. Numbered' /\ Once'
        BY <1>0, <2>1, QueueSame
    <2>3. \A p \in Owners : ~Live(p)'
        BY <1>0, <2>1 DEF Live
    <2>4. TypeOK' /\ Own' /\ Held' /\ Locked' /\ Outstanding' /\ Paired'
        BY <1>0, <2>1, <2>3 DEF IInv, TypeOK, Own, Held, Locked, Outstanding, Paired, BootOwns
    <2> QED
        BY <2>2, <2>4 DEF IInv
<1>2. CASE ~Expired(d)
    <2> DEFINE e == [Unborn EXCEPT !.phase = "idle", !.in_lockdown = token.in_lockdown]
    <2>1. e \in Exchanges
        BY Values, Zenon DEF Exchanges, IInv, TypeOK
    <2>2. e.phase = "idle" /\ e.pending = NoRecord /\ e.in_lockdown = lockSeen
        BY <1>0 DEF Unborn, IInv, Locked
    <2>3. ex' = [ex EXCEPT ![o] = e] /\ token' = NoToken /\ ses' = ses
        BY <1>2 DEF Claim
    <2> HIDE DEF e
    <2>4. ex' \in [Owners -> Exchanges] /\ ex'[o] = e /\ \A p \in Owners : p # o => ex'[p] = ex[p]
        BY <2>1, <2>3 DEF IInv, TypeOK
    <2>5. Live(o)' /\ (\A p \in Owners : Live(p)' => p = o) /\ ~BootOwns' /\ ~token'.present /\ ses' # "failed"
        BY <1>0, <2>2, <2>3, <2>4 DEF Live, BootOwns, NoToken
    <2>6. TypeOK'
        BY <1>0, <2>3, <2>4, Values DEF IInv, TypeOK
    <2>7. Own' /\ Held' /\ Locked' /\ Paired'
        BY <1>0, <2>2, <2>4, <2>5 DEF IInv, Own, Held, Locked, Paired, BootOwns
    <2>8. toFw = <<>> /\ \A i \in 1 .. Len(toCpu) : toCpu[i].kind # "reply"
        BY <1>0, NothingOutstanding DEF Live
    <2>9. Outstanding' /\ Numbered' /\ Once'
        <3>1. Numbered' /\ Once'
            BY <1>0, <2>3, QueueSame
        <3>2. toFw' = <<>> /\ Len(toFw') = 0 /\ \A i \in 1 .. Len(toCpu') : toCpu'[i].kind # "reply"
            BY <1>0, <2>8
        <3> QED
            BY <3>1, <3>2 DEF Outstanding
    <2> QED
        BY <2>6, <2>7, <2>9 DEF IInv
<1> QED
    BY <1>1, <1>2

(* handoff() puts the lockdown flag of an idle owner into the token. *)
LEMMA HandoffStep ==
    ASSUME IInv, NEW o \in Owners, NEW d \in Deadlines, Handoff(o, d)
    PROVE  IInv'
<1>0. /\ Live(o) /\ toFw \in Seq(Sent) /\ ex[o].phase = "idle"
      /\ UNCHANGED <<now, boot, toFw, toCpu, fw, lockSeen, runs>>
    BY DEF Handoff, Live, IInv, TypeOK
<1>1. CASE Fail(o) /\ UNCHANGED token
    BY <1>0, <1>1, OwnerStops
<1>2. CASE /\ ex' = [ex EXCEPT ![o] = [Unborn EXCEPT !.phase = "handed_off"]]
           /\ token' = [present |-> TRUE, in_lockdown |-> ex[o].in_lockdown] /\ UNCHANGED ses
    <2> DEFINE e == [Unborn EXCEPT !.phase = "handed_off"]
    <2>1. e \in Exchanges /\ e.phase = "handed_off"
        BY Values DEF Exchanges
    <2>2. ex' = [ex EXCEPT ![o] = e]
        BY <1>2
    <2> HIDE DEF e
    <2>3. ex' \in [Owners -> Exchanges] /\ ex'[o] = e /\ \A p \in Owners : p # o => ex'[p] = ex[p]
        BY <2>1, <2>2 DEF IInv, TypeOK
    <2>4. \A p \in Owners : ~Live(p)'
        BY <1>0, <2>1, <2>3, LiveAlone DEF Live
    <2>5. token' \in [present : BOOLEAN, in_lockdown : BOOLEAN] /\ token'.present /\ token'.in_lockdown = lockSeen'
        BY <1>0, <1>2 DEF IInv, TypeOK, Exchanges, Locked
    <2>6. ~BootOwns' /\ ses' # "failed" /\ boot'.state # "dispatching"
        BY <1>0, <1>2, LiveAlone DEF BootOwns
    <2>7. TypeOK'
        BY <1>0, <1>2, <2>3, <2>5 DEF IInv, TypeOK
    <2>8. Own' /\ Held' /\ Locked' /\ Paired'
        BY <2>4, <2>5, <2>6 DEF Own, Held, Locked, Paired
    <2>9. toFw = <<>> /\ \A i \in 1 .. Len(toCpu) : toCpu[i].kind # "reply"
        BY <1>0, LiveAlone, NothingOutstanding
    <2>10. Outstanding' /\ Numbered' /\ Once'
        BY <1>0, <1>2, <2>9, QueueSame DEF Outstanding
    <2> QED
        BY <2>7, <2>8, <2>10 DEF IInv
<1> QED
    BY <1>1, <1>2 DEF Handoff

(* poll() that only renews the deadline. *)
LEMMA DeadlineTurn ==
    ASSUME IInv, NEW o \in Owners, Live(o), NEW x \in Nat, ex' = [ex EXCEPT ![o].deadline = x],
           UNCHANGED <<now, ses, boot, token, toFw, toCpu, fw, lockSeen, runs>>
    PROVE  IInv'
<1> DEFINE e == [ex[o] EXCEPT !.deadline = x]
<1>1. ex[o] \in Exchanges /\ ex \in [Owners -> Exchanges]
    BY DEF IInv, TypeOK
<1>2. e \in Exchanges
    BY <1>1 DEF Exchanges
<1>3. /\ e.phase = ex[o].phase /\ e.pending = ex[o].pending /\ e.response = ex[o].response
      /\ e.req = ex[o].req /\ e.in_lockdown = ex[o].in_lockdown
    BY <1>1 DEF Exchanges
<1>4. ex' = [ex EXCEPT ![o] = e]
    BY <1>1
<1> HIDE DEF e
<1>5. e.phase \in {"idle", "prepared", "waiting"} /\ e.in_lockdown = lockSeen' /\ lockSeen' \in BOOLEAN
    BY <1>3 DEF Live, IInv, Locked, TypeOK
<1>6. e.pending # NoRecord => /\ toCpu # <<>> /\ e.pending = Head(toCpu)
                              /\ e.response => e.phase = "waiting"
                              /\ e.response <=> e.pending.kind = "reply"
    BY <1>3 DEF IInv, Held, Paired
<1>7. fw' \in [linked : BOOLEAN, init_done : BOOLEAN, notes : 0 .. MaxNote, reqs : Nat]
    BY DEF IInv, TypeOK
<1> QED
    BY <1>2, <1>3, <1>4, <1>5, <1>6, <1>7, OwnerTurns, Zenon

(* poll() that takes a record over; a reply only if the owner waits. *)
LEMMA ReceiveStep ==
    ASSUME IInv, NEW o \in Owners, Live(o), NEW end \in Nat, toCpu # <<>>, Receive(o, end),
           UNCHANGED <<now, boot, token, toFw, toCpu, fw, runs>>
    PROVE  IInv'
<1> DEFINE r == Head(toCpu)
           response == ex[o].phase = "waiting" /\ r.kind = "reply" /\ r.function = ex[o].function
           rev == IF response \/ r.kind = "libos_print" THEN ex[o].revision ELSE ex[o].revision + 1
           lock == ex[o].in_lockdown \/ r.kind = "lockdown_on"
           e == [ex[o] EXCEPT !.deadline = end, !.pending = r, !.response = response,
                              !.in_lockdown = lock, !.revision = rev]
<1>1. ex[o] \in Exchanges /\ ex \in [Owners -> Exchanges] /\ toFw \in Seq(Sent) /\ toCpu \in Seq(Records)
    BY DEF IInv, TypeOK
<1>2. r \in Records
    BY <1>1, TailType
<1>3. CASE Fail(o) /\ UNCHANGED lockSeen
    BY <1>1, <1>3, OwnerStops
<1>4. CASE /\ ~(~response /\ r.kind \in {"reply", "unknown", "init_done"})
           /\ ex' = [ex EXCEPT ![o].deadline = end, ![o].pending = r, ![o].response = response,
                               ![o].in_lockdown = @ \/ r.kind = "lockdown_on",
                               ![o].revision = IF response \/ r.kind = "libos_print" THEN @ ELSE @ + 1]
           /\ lockSeen' = (lockSeen \/ r.kind = "lockdown_on") /\ UNCHANGED ses
    <2>1. ex' = [ex EXCEPT ![o] = e]
        BY <1>1, <1>4, ZenonT(30)
    <2>2. response \in BOOLEAN /\ rev \in Nat /\ lock \in BOOLEAN
        BY <1>1 DEF Exchanges
    <2>3. (r.kind = "reply" <=> response) /\ (response => ex[o].phase = "waiting")
        BY <1>4
    <2>4. lock = lockSeen' /\ lockSeen' \in BOOLEAN
        BY <1>4 DEF IInv, Locked, TypeOK
    <2> HIDE DEF response, rev, lock
    <2>5. e \in Exchanges
        BY <1>1, <1>2, <2>2, Zenon DEF Exchanges
    <2>6. /\ e.phase = ex[o].phase /\ e.req = ex[o].req /\ e.pending = r /\ e.response = response
          /\ e.in_lockdown = lock
        BY <1>1 DEF Exchanges
    <2> HIDE DEF e
    <2>7. e.phase \in {"idle", "prepared", "waiting"}
        BY <2>6 DEF Live
    <2>8. fw' \in [linked : BOOLEAN, init_done : BOOLEAN, notes : 0 .. MaxNote, reqs : Nat]
        BY DEF IInv, TypeOK
    <2>9. e.pending = Head(toCpu) /\ (e.response => e.phase = "waiting") /\ (e.response <=> e.pending.kind = "reply")
        BY <2>3, <2>6
    <2>10. e.in_lockdown = lockSeen' /\ (ex[o].phase = "waiting" => e.phase = "waiting" /\ e.req = ex[o].req)
        BY <2>4, <2>6
    <2>11. ses' = ses
        BY <1>4
    <2> QED
        BY <2>1, <2>4, <2>5, <2>7, <2>8, <2>9, <2>10, <2>11, OwnerTurns, Zenon
<1> QED
    BY <1>3, <1>4 DEF Receive

(* poll() that sends: the request becomes the only one outstanding. *)
LEMMA SubmitStep ==
    ASSUME IInv, NEW o \in Owners, NEW end \in Nat, ex[o].phase = "prepared", ex[o].pending = NoRecord,
           toCpu = <<>>, Submit(o, end), UNCHANGED <<now, boot, token, toCpu, fw, lockSeen, runs>>
    PROVE  IInv'
<1> DEFINE m == [function |-> ex[o].function, req |-> ex[o].req]
           e == [ex[o] EXCEPT !.deadline = end, !.phase = "waiting"]
<1>1. /\ ex[o] \in Exchanges /\ ex \in [Owners -> Exchanges] /\ toFw \in Seq(Sent) /\ toCpu \in Seq(Records)
      /\ Live(o)
    BY DEF IInv, TypeOK, Live
<1>2. m \in Sent /\ m.req = ex[o].req
    BY <1>1 DEF Exchanges, Sent
<1>3. CASE ex' = [ex EXCEPT ![o].deadline = end] /\ UNCHANGED <<toFw, ses>>
    BY <1>1, <1>3, DeadlineTurn, Zenon
<1>4. CASE Fail(o) /\ toFw' \in {toFw, Append(toFw, m)}
    <2>1. toFw' \in Seq(Sent)
        BY <1>1, <1>2, <1>4, AppendType
    <2> QED
        BY <1>1, <1>4, <2>1, OwnerStops
<1>5. CASE /\ ex' = [ex EXCEPT ![o].deadline = end, ![o].phase = "waiting"]
           /\ toFw' = Append(toFw, m) /\ UNCHANGED ses
    <2>1. ex' = [ex EXCEPT ![o] = e]
        BY <1>1, <1>5, Zenon
    <2>2. e \in Exchanges
        BY <1>1, Zenon DEF Exchanges
    <2>3. e.phase = "waiting" /\ e.pending = NoRecord /\ e.req = ex[o].req /\ e.in_lockdown = ex[o].in_lockdown
        BY <1>1 DEF Exchanges
    <2> HIDE DEF e, m
    <2>4. toFw = <<>>
        BY <1>1, LiveAlone, NothingOutstanding
    <2>5. toFw' \in Seq(Sent) /\ Len(toFw') = 1 /\ toFw'[1] = m
        BY <1>1, <1>2, <1>5, <2>4, AppendType
    <2>6. ex'[o].phase = "waiting" /\ ex'[o].req = ex[o].req
        BY <1>1, <2>1, <2>3
    <2>7. Outstanding'
        <3>1. Len(toCpu') = 0 /\ 1 .. Len(toCpu') = {}
            OBVIOUS
        <3>2. \A i \in 1 .. Len(toFw') : toFw'[i].req = ex[o].req
            BY <1>2, <2>5
        <3>3. (\A i \in 1 .. Len(toFw) : Asked(toFw[i].req))'
            BY <2>6, <3>2 DEF Asked
        <3> QED
            BY <2>5, <3>1, <3>3 DEF Outstanding
    <2>8. Numbered' /\ Once'
        BY <1>5, QueueSame
    <2>9. /\ fw' \in [linked : BOOLEAN, init_done : BOOLEAN, notes : 0 .. MaxNote, reqs : Nat]
          /\ toCpu' \in Seq(Records) /\ runs' \in [1 .. MaxNote + 1 -> Nat]
          /\ lockSeen' \in BOOLEAN /\ e.in_lockdown = lockSeen'
        BY <1>1, <2>3 DEF IInv, TypeOK, Locked
    <2> QED
        BY <1>1, <1>5, <2>1, <2>2, <2>3, <2>5, <2>7, <2>8, <2>9, OwnerDrives, Zenon
<1> QED
    BY <1>3, <1>4, <1>5 DEF Submit

(* poll() in all its outcomes. *)
LEMMA PollStep ==
    ASSUME IInv, NEW o \in Owners, NEW d \in Deadlines, Poll(o, d)
    PROVE  IInv'
<1> DEFINE end == End(o, d)
<1>0. /\ Live(o) /\ end \in Nat /\ NoDeadline \in Nat /\ toFw \in Seq(Sent)
      /\ UNCHANGED <<now, boot, token, toCpu, fw, runs>>
    BY EndType, Values DEF Poll, IInv, TypeOK
<1>1. \/ Fail(o) /\ UNCHANGED <<toFw, lockSeen>>
      \/ ex' = [ex EXCEPT ![o].deadline = end] /\ UNCHANGED <<ses, toFw, lockSeen>>
      \/ toCpu # <<>> /\ Receive(o, end) /\ UNCHANGED toFw
      \/ /\ ex[o].pending = NoRecord /\ toCpu = <<>> /\ ex[o].phase = "prepared"
         /\ Submit(o, end) /\ UNCHANGED lockSeen
      \/ ex' = [ex EXCEPT ![o].deadline = NoDeadline] /\ UNCHANGED <<ses, toFw, lockSeen>>
    BY DEF Poll
<1> HIDE DEF end
<1> QED
    BY <1>0, <1>1, OwnerStops, DeadlineTurn, ReceiveStep, SubmitStep

(* Taking the first record leaves the requests that the others answer. *)
LEMMA OutstandingServed ==
    ASSUME IInv, NEW o \in Owners, Live(o), toCpu # <<>>, NEW e \in Exchanges, ex' = [ex EXCEPT ![o] = e],
           toCpu' = Tail(toCpu), UNCHANGED <<toFw, ses>>,
           \/ Head(toCpu).kind = "reply"
           \/ e.phase = ex[o].phase /\ e.req = ex[o].req
    PROVE  Outstanding'
<1>1. /\ Len(Tail(toCpu)) = Len(toCpu) - 1 /\ Len(toCpu) \in Nat \ {0} /\ Head(toCpu) = toCpu[1]
      /\ \A i \in 1 .. Len(Tail(toCpu)) : i + 1 \in 1 .. Len(toCpu) /\ Tail(toCpu)[i] = toCpu[i + 1]
    BY TailType DEF IInv, TypeOK
<1>2. ses # "failed" /\ Outstanding /\ toFw \in Seq(Sent) /\ ex'[o] = e
    BY LiveAlone DEF IInv, TypeOK
<1>3. CASE Head(toCpu).kind = "reply"
    <2>1. toFw = <<>>
        BY <1>1, <1>2, <1>3 DEF Outstanding
    <2>2. \A i \in 1 .. Len(toCpu') : toCpu'[i].kind # "reply"
        BY <1>1, <1>2, <1>3 DEF Outstanding
    <2>3. Len(toFw') = 0
        BY <2>1
    <2> QED
        BY <2>2, <2>3 DEF Outstanding
<1>4. CASE e.phase = ex[o].phase /\ e.req = ex[o].req
    <2>1. ASSUME NEW r, Asked(r) PROVE Asked(r)'
        BY <1>2, <1>4, <2>1, LiveAlone DEF Asked
    <2>2. ses' # "failed" => Len(toFw') <= 1
        BY <1>2 DEF Outstanding
    <2>3. (\A i \in 1 .. Len(toFw) : Asked(toFw[i].req))'
        BY <1>2, <2>1 DEF Outstanding
    <2>4. (\A i \in 1 .. Len(toCpu) : toCpu[i].kind = "reply" => Asked(toCpu[i].req))'
        BY <1>1, <1>2, <2>1 DEF Outstanding
    <2>5. \A i, j \in 1 .. Len(toCpu') : toCpu'[i].kind = "reply" /\ toCpu'[j].kind = "reply" => i = j
        BY <1>1, <1>2 DEF Outstanding
    <2>6. \A i \in 1 .. Len(toCpu') : toCpu'[i].kind = "reply" => toFw' = <<>>
        BY <1>1, <1>2 DEF Outstanding
    <2> QED
        BY <2>2, <2>3, <2>4, <2>5, <2>6 DEF Outstanding
<1> QED
    BY <1>3, <1>4

(* complete(): the acknowledgement, made, failed or ambiguous. *)
LEMMA CompleteStep ==
    ASSUME IInv, NEW o \in Owners, Live(o), ex[o].pending # NoRecord, Complete(o),
           runs' = Count(ex[o].pending), UNCHANGED <<now, boot, token, toFw, fw>>
    PROVE  IInv'
<1> DEFINE off == ex[o].pending.kind = "lockdown_off"
           phase == IF ex[o].response THEN "idle" ELSE ex[o].phase
           lock == IF off THEN FALSE ELSE ex[o].in_lockdown
           end == IF ex[o].response \/ ex[o].phase = "idle" THEN NoDeadline ELSE ex[o].deadline
           e == [ex[o] EXCEPT !.pending = NoRecord, !.phase = phase, !.in_lockdown = lock, !.deadline = end]
<1>1. /\ ex[o] \in Exchanges /\ ex \in [Owners -> Exchanges] /\ toFw \in Seq(Sent) /\ toCpu \in Seq(Records)
      /\ fw \in [linked : BOOLEAN, init_done : BOOLEAN, notes : 0 .. MaxNote, reqs : Nat]
    BY DEF IInv, TypeOK
<1>2. toCpu # <<>> /\ ex[o].pending = Head(toCpu) /\ ses # "failed"
    BY LiveAlone DEF IInv, Held
<1>3. runs' = Count(Head(toCpu))
    BY <1>2
<1>4. CASE Fail(o) /\ AckLost /\ UNCHANGED lockSeen
    <2>1. ses' = "failed" /\ toCpu' \in {toCpu, Tail(toCpu)}
        BY <1>4 DEF Fail, AckLost
    <2>2. toCpu' \in Seq(Records) /\ runs' \in [1 .. MaxNote + 1 -> Nat] /\ Numbered' /\ Once'
        BY <1>2, <1>3, <2>1, QueueServed
    <2> QED
        BY <1>1, <1>4, <2>2, OwnerFailed
<1>5. CASE /\ toCpu' = Tail(toCpu)
           /\ ex' = [ex EXCEPT ![o].pending = NoRecord,
                       ![o].phase = IF ex[o].response THEN "idle" ELSE @,
                       ![o].in_lockdown = IF ex[o].pending.kind = "lockdown_off" THEN FALSE ELSE @,
                       ![o].deadline = IF ex[o].response \/ ex[o].phase = "idle" THEN NoDeadline ELSE @]
           /\ lockSeen' = (lockSeen /\ ex[o].pending.kind # "lockdown_off") /\ UNCHANGED ses
    <2>1. ex' = [ex EXCEPT ![o] = e]
        BY <1>1, <1>5, Zenon
    <2>2. /\ phase \in {"idle", "prepared", "waiting"} /\ lock \in BOOLEAN /\ end \in Nat
          /\ ~ex[o].response => phase = ex[o].phase
        BY <1>1, Values, Zenon DEF Exchanges, Live
    <2>3. lock = lockSeen' /\ lockSeen' \in BOOLEAN
        BY <1>5, Zenon DEF IInv, Locked, TypeOK
    <2> HIDE DEF phase, lock, end
    <2>4. e \in Exchanges
        BY <1>1, <2>2, Values, Zenon DEF Exchanges
    <2>5. e.phase = phase /\ e.req = ex[o].req /\ e.pending = NoRecord /\ e.in_lockdown = lock
        BY <1>1 DEF Exchanges
    <2> HIDE DEF e
    <2>6. toCpu' \in Seq(Records) /\ runs' \in [1 .. MaxNote + 1 -> Nat] /\ Numbered' /\ Once'
        BY <1>2, <1>3, <1>5, QueueServed
    <2>7. ex[o].response => Head(toCpu).kind = "reply"
        BY <1>2 DEF IInv, Paired
    <2>8. Outstanding'
        BY <1>2, <1>5, <2>1, <2>2, <2>4, <2>5, <2>7, OutstandingServed, Zenon
    <2>9. e.phase \in {"idle", "prepared", "waiting"} /\ e.in_lockdown = lockSeen'
        BY <2>2, <2>3, <2>5
    <2>10. /\ UNCHANGED <<now, ses, boot, token>> /\ toFw' \in Seq(Sent)
           /\ fw' \in [linked : BOOLEAN, init_done : BOOLEAN, notes : 0 .. MaxNote, reqs : Nat]
        BY <1>1, <1>5
    <2>11. e.pending = NoRecord
        BY <2>5
    <2> QED
        BY <2>1, <2>3, <2>4, <2>6, <2>8, <2>9, <2>10, <2>11, OwnerDrives, Zenon
<1> QED
    BY <1>4, <1>5, Zenon DEF Complete

(* An admitted response is completed, or fails the owner. *)
LEMMA ResponseStep ==
    ASSUME IInv, NEW o \in Owners, CompleteResponse(o)
    PROVE  IInv'
<1>1. /\ Live(o) /\ ex[o].pending # NoRecord /\ toFw \in Seq(Sent)
      /\ UNCHANGED <<now, boot, token, toFw, fw, runs>>
      /\ (Fail(o) /\ UNCHANGED <<toCpu, lockSeen>>) \/ Complete(o)
    BY DEF CompleteResponse, IInv, TypeOK
<1>2. runs' = Count(ex[o].pending)
    <2>1. toCpu # <<>> /\ ex[o].pending = Head(toCpu) /\ Head(toCpu).kind = "reply"
        BY <1>1 DEF CompleteResponse, IInv, Held, Paired
    <2>2. Head(toCpu).number = 0
        BY <2>1, TailType DEF IInv, TypeOK, Numbered
    <2> QED
        BY <1>1, <2>1, <2>2 DEF Count
<1> QED
    BY <1>1, <1>2, OwnerStops, CompleteStep

(* A notification is delivered at most once, then completed. *)
LEMMA DispatchStep ==
    ASSUME IInv, NEW o \in Owners, DispatchNotification(o)
    PROVE  IInv'
<1>1. /\ Live(o) /\ ex[o].pending # NoRecord /\ toFw \in Seq(Sent)
      /\ UNCHANGED <<now, boot, token, toFw, fw>>
      /\ \/ Fail(o) /\ UNCHANGED <<toCpu, lockSeen, runs>>
         \/ runs' = Count(ex[o].pending) /\ Fail(o) /\ UNCHANGED <<toCpu, lockSeen>>
         \/ runs' = Count(ex[o].pending) /\ Complete(o)
    BY DEF DispatchNotification, IInv, TypeOK
<1>2. CASE runs' = Count(ex[o].pending) /\ Fail(o) /\ UNCHANGED <<toCpu, lockSeen>>
    <2>1. toCpu # <<>> /\ ex[o].pending = Head(toCpu) /\ ses # "failed" /\ ses' = "failed"
        BY <1>1, <1>2, LiveAlone DEF IInv, Held, Fail
    <2>2. toCpu' \in Seq(Records) /\ runs' \in [1 .. MaxNote + 1 -> Nat] /\ Numbered' /\ Once'
        BY <1>1, <1>2, <2>1, QueueServed
    <2> QED
        BY <1>1, <1>2, <2>2, OwnerFailed
<1> QED
    BY <1>1, <1>2, OwnerStops, CompleteStep

(* Boot goes on as b: nothing is outstanding before the first owner. *)
LEMMA BootDrives ==
    ASSUME IInv, BootOwns, BootOwns', ses' \in {"linking", "active"}, UNCHANGED <<now, ex, token, toFw, fw>>,
           boot' \in [state : {"waiting", "dispatching", "init_done", "handed_off", "failed"},
                      deadline : Nat, pending : Records, in_lockdown : BOOLEAN],
           boot'.state = "dispatching" => toCpu' # <<>> /\ boot'.pending = Head(toCpu'),
           boot'.in_lockdown = lockSeen', lockSeen' \in BOOLEAN,
           toCpu' = toCpu \/ (toCpu # <<>> /\ toCpu' = Tail(toCpu)),
           toCpu' \in Seq(Records), runs' \in [1 .. MaxNote + 1 -> Nat], Numbered', Once'
    PROVE  IInv'
<1>1. ~token.present /\ ses # "failed" /\ \A p \in Owners : ~Live(p)
    BY DEF IInv, Own
<1>2. toFw = <<>> /\ \A i \in 1 .. Len(toCpu) : toCpu[i].kind # "reply"
    BY <1>1, NothingOutstanding DEF Live
<1>3. toFw' = <<>> /\ \A i \in 1 .. Len(toCpu') : toCpu'[i].kind # "reply"
    <2>1. CASE toCpu' = toCpu
        BY <1>2, <2>1
    <2>2. CASE toCpu # <<>> /\ toCpu' = Tail(toCpu)
        BY <1>2, <2>2, TailType DEF IInv, TypeOK
    <2> QED
        BY <1>2, <2>1, <2>2
<1>4. ~token'.present /\ ses' # "failed" /\ \A p \in Owners : ~Live(p)'
    BY <1>1 DEF Live
<1>5. TypeOK'
    BY DEF IInv, TypeOK
<1>6. Own' /\ Held' /\ Locked' /\ Paired'
    BY <1>4 DEF Own, Held, Locked, Paired
<1>7. Outstanding'
    <2>1. Len(toFw') = 0
        BY <1>3
    <2> QED
        BY <1>3, <2>1 DEF Outstanding
<1> QED
    BY <1>5, <1>6, <1>7 DEF IInv

(* Boot.poll: the link, a record, or a failure. *)
LEMMA BootPollStep ==
    ASSUME IInv, BootPoll
    PROVE  IInv'
<1>0. /\ BootOwns /\ UNCHANGED <<now, ex, token, toFw, toCpu, fw, runs>> /\ ses # "failed"
      /\ toCpu' \in Seq(Records) /\ runs' \in [1 .. MaxNote + 1 -> Nat]
      /\ boot \in [state : {"waiting", "dispatching", "init_done", "handed_off", "failed"},
                   deadline : Nat, pending : Records, in_lockdown : BOOLEAN]
      /\ boot.in_lockdown = lockSeen /\ lockSeen \in BOOLEAN /\ boot.state = "waiting"
    BY DEF BootPoll, IInv, TypeOK, BootOwns, Own, Locked
<1>1. Numbered' /\ Once'
    BY <1>0, QueueSame
<1>2. CASE BootFail /\ UNCHANGED lockSeen
    BY <1>0, <1>1, <1>2, BootFailed
<1>3. CASE ses' = "active" /\ UNCHANGED <<boot, lockSeen>>
    <2>1. BootOwns' /\ boot'.state # "dispatching"
        BY <1>0, <1>3 DEF BootOwns
    <2> QED
        BY <1>0, <1>1, <1>3, <2>1, BootDrives
<1>4. CASE /\ toCpu # <<>> /\ ses' = "active"
           /\ boot' = [boot EXCEPT !.state = "dispatching", !.pending = Head(toCpu),
                                   !.in_lockdown = @ \/ Head(toCpu).kind = "lockdown_on"]
           /\ lockSeen' = (lockSeen \/ Head(toCpu).kind = "lockdown_on")
    <2>1. Head(toCpu) \in Records
        BY <1>0, <1>4, TailType
    <2>2. boot' \in [state : {"waiting", "dispatching", "init_done", "handed_off", "failed"},
                     deadline : Nat, pending : Records, in_lockdown : BOOLEAN]
        BY <1>0, <1>4, <2>1, Zenon
    <2>3. boot'.state = "dispatching" /\ boot'.pending = Head(toCpu') /\ BootOwns'
        BY <1>0, <1>4 DEF BootOwns
    <2>4. boot'.in_lockdown = lockSeen' /\ lockSeen' \in BOOLEAN
        BY <1>0, <1>4
    <2> QED
        BY <1>0, <1>1, <1>4, <2>2, <2>3, <2>4, BootDrives
<1> QED
    BY <1>2, <1>3, <1>4 DEF BootPoll

(* Boot.complete after the handler, its acknowledgement perhaps lost. *)
LEMMA BootCompleteStep ==
    ASSUME IInv, BootComplete
    PROVE  IInv'
<1>0. /\ BootOwns /\ UNCHANGED <<now, ex, token, toFw, fw>> /\ ses \in {"linking", "active"}
      /\ boot \in [state : {"waiting", "dispatching", "init_done", "handed_off", "failed"},
                   deadline : Nat, pending : Records, in_lockdown : BOOLEAN]
      /\ boot.in_lockdown = lockSeen /\ lockSeen \in BOOLEAN /\ boot.state = "dispatching"
    BY DEF BootComplete, IInv, TypeOK, BootOwns, Own, Locked
<1>1. toCpu # <<>> /\ runs' = Count(Head(toCpu))
    BY <1>0 DEF BootComplete, IInv, Held
<1>2. CASE BootFail /\ toCpu' \in {toCpu, Tail(toCpu)} /\ UNCHANGED lockSeen
    <2>1. ses' = "failed" /\ ses # "failed"
        BY <1>0, <1>2 DEF BootFail
    <2>2. toCpu' \in Seq(Records) /\ runs' \in [1 .. MaxNote + 1 -> Nat] /\ Numbered' /\ Once'
        BY <1>0, <1>1, <1>2, <2>1, QueueServed
    <2> QED
        BY <1>0, <1>2, <2>2, BootFailed
<1>3. CASE /\ toCpu' = Tail(toCpu)
           /\ boot' = [boot EXCEPT
                !.pending = NoRecord,
                !.state = IF boot.pending.kind = "init_done" THEN "init_done" ELSE "waiting",
                !.in_lockdown = IF boot.pending.kind = "lockdown_off" THEN FALSE ELSE @]
           /\ lockSeen' = (lockSeen /\ boot.pending.kind # "lockdown_off") /\ UNCHANGED ses
    <2>1. toCpu' \in Seq(Records) /\ runs' \in [1 .. MaxNote + 1 -> Nat] /\ Numbered' /\ Once'
        BY <1>0, <1>1, <1>3, QueueServed
    <2>2. boot' \in [state : {"waiting", "dispatching", "init_done", "handed_off", "failed"},
                     deadline : Nat, pending : Records, in_lockdown : BOOLEAN]
        BY <1>0, <1>3, Values, Zenon
    <2>3. boot'.state # "dispatching" /\ BootOwns'
        BY <1>0, <1>3 DEF BootOwns
    <2>4. boot'.in_lockdown = lockSeen' /\ lockSeen' \in BOOLEAN
        BY <1>0, <1>3, Zenon
    <2> QED
        BY <1>0, <1>1, <1>3, <2>1, <2>2, <2>3, <2>4, BootDrives
<1> QED
    BY <1>2, <1>3 DEF BootComplete, AckLost

(* Boot.handoff puts the lockdown flag into the first token. *)
LEMMA BootHandoffStep ==
    ASSUME IInv, NEW d \in Deadlines, BootHandoff(d)
    PROVE  IInv'
<1>0. /\ BootOwns /\ UNCHANGED <<now, ex, toFw, toCpu, fw, lockSeen, runs>> /\ ses # "failed"
      /\ ~token.present /\ \A p \in Owners : ~Live(p)
      /\ boot.in_lockdown = lockSeen
    BY DEF BootHandoff, IInv, BootOwns, Own, Locked
<1>1. CASE BootFail /\ UNCHANGED token
    <2>1. Numbered' /\ Once' /\ toCpu' \in Seq(Records) /\ runs' \in [1 .. MaxNote + 1 -> Nat]
        BY <1>0, QueueSame DEF IInv, TypeOK
    <2> QED
        BY <1>0, <1>1, <2>1, BootFailed
<1>2. CASE /\ boot' = [boot EXCEPT !.state = "handed_off"] /\ UNCHANGED ses
           /\ token' = [present |-> TRUE, in_lockdown |-> boot.in_lockdown]
    <2>1. boot' \in [state : {"waiting", "dispatching", "init_done", "handed_off", "failed"},
                     deadline : Nat, pending : Records, in_lockdown : BOOLEAN]
        BY <1>2, Zenon DEF IInv, TypeOK
    <2>2. boot'.state = "handed_off" /\ ~BootOwns'
        BY <1>2 DEF IInv, TypeOK, BootOwns
    <2>3. token' \in [present : BOOLEAN, in_lockdown : BOOLEAN] /\ token'.present /\ token'.in_lockdown = lockSeen'
        BY <1>0, <1>2 DEF IInv, TypeOK
    <2>4. \A p \in Owners : ~Live(p)'
        BY <1>0 DEF Live
    <2>5. TypeOK'
        BY <1>0, <1>2, <2>1, <2>3 DEF IInv, TypeOK
    <2>6. Own' /\ Held' /\ Locked' /\ Paired'
        BY <2>2, <2>3, <2>4 DEF Own, Held, Locked, Paired
    <2>7. Numbered' /\ Once'
        BY <1>0, <1>2, QueueSame
    <2>8. Outstanding'
        <3>1. toFw = <<>> /\ \A i \in 1 .. Len(toCpu) : toCpu[i].kind # "reply"
            BY <1>0, NothingOutstanding DEF Live
        <3> QED
            BY <1>0, <3>1 DEF Outstanding
    <2> QED
        BY <2>5, <2>6, <2>7, <2>8 DEF IInv
<1> QED
    BY <1>1, <1>2 DEF BootHandoff

(* The firmware adds a record at the end of the status queue. *)
LEMMA FirmwareAdds ==
    ASSUME IInv, NEW r \in Records, toCpu' = Append(toCpu, r), toFw' \in Seq(Sent),
           UNCHANGED <<now, ses, boot, ex, token, lockSeen, runs>>,
           fw' \in [linked : BOOLEAN, init_done : BOOLEAN, notes : 0 .. MaxNote, reqs : Nat],
           Numbered', Once', Outstanding'
    PROVE  IInv'
<1>1. toCpu' \in Seq(Records) /\ toCpu' # <<>> /\ (toCpu # <<>> => Head(toCpu') = Head(toCpu))
    BY AppendType DEF IInv, TypeOK
<1>2. TypeOK'
    BY <1>1 DEF IInv, TypeOK
<1>3. Own' /\ Locked' /\ Paired'
    BY DEF IInv, Own, Locked, Paired, Live, BootOwns
<1>4. Held'
    BY <1>1 DEF IInv, Held, Live
<1> QED
    BY <1>2, <1>3, <1>4 DEF IInv

(* The one outstanding request moves from one queue to the other. *)
LEMMA ReplyStep ==
    ASSUME IInv, FwReply
    PROVE  IInv'
<1> DEFINE r == Reply(Head(toFw).function, Head(toFw).req)
<1>0. /\ toFw \in Seq(Sent) /\ toFw # <<>> /\ toCpu \in Seq(Records) /\ Numbered /\ Once
      /\ toCpu' = Append(toCpu, r) /\ toFw' = Tail(toFw)
      /\ UNCHANGED <<now, ses, boot, ex, token, fw, lockSeen, runs>>
      /\ fw' \in [linked : BOOLEAN, init_done : BOOLEAN, notes : 0 .. MaxNote, reqs : Nat]
    BY DEF FwReply, IInv, TypeOK
<1>1. /\ Head(toFw) \in Sent /\ toFw' \in Seq(Sent) /\ Len(toFw') = Len(toFw) - 1 /\ Len(toFw) \in Nat \ {0}
      /\ Head(toFw) = toFw[1]
    BY <1>0, TailType
<1>2. r \in Records /\ r.kind = "reply" /\ r.number = 0 /\ r.req = toFw[1].req
    BY <1>1, ExchangeAssumption DEF Reply, Records, Kinds, Sent
<1> HIDE DEF r
<1>3. /\ Len(toCpu') = Len(toCpu) + 1 /\ Len(toCpu) \in Nat /\ toCpu'[Len(toCpu) + 1] = r
      /\ \A i \in 1 .. Len(toCpu) : toCpu'[i] = toCpu[i]
    BY <1>0, <1>2, AppendType
<1>4. \A i \in 1 .. Len(toCpu') : i \in 1 .. Len(toCpu) \/ i = Len(toCpu) + 1
    BY <1>3
<1>5. Numbered'
    <2>1. \A i \in 1 .. Len(toCpu') : toCpu'[i].number # 0 => i \in 1 .. Len(toCpu) /\ toCpu'[i] = toCpu[i]
        BY <1>2, <1>3, <1>4
    <2>2. (\A i \in 1 .. Len(toCpu) : toCpu[i].number # 0 => Issued(toCpu[i].number))'
        BY <1>0, <2>1 DEF Numbered, Issued
    <2>3. \A i, j \in 1 .. Len(toCpu') : toCpu'[i].number # 0 /\ toCpu'[i].number = toCpu'[j].number => i = j
        BY <1>0, <2>1 DEF Numbered
    <2>4. \A i \in 1 .. Len(toCpu') : toCpu'[i].kind = "reply" => toCpu'[i].number = 0
        BY <1>0, <1>2, <1>3, <1>4 DEF Numbered
    <2> QED
        BY <2>2, <2>3, <2>4 DEF Numbered
<1>6. Once'
    <2>1. \A n : Queued(n) => Queued(n)'
        BY <1>3 DEF Queued
    <2>2. ses' # "failed" => \A i \in 1 .. Len(toCpu') : toCpu'[i].number # 0 => runs'[toCpu'[i].number] = 0
        BY <1>0, <1>2, <1>3, <1>4 DEF Once
    <2> QED
        BY <1>0, <2>1, <2>2 DEF Once, Issued
<1>7. Outstanding'
    <2> SUFFICES ASSUME ses # "failed" PROVE Outstanding'
        BY <1>0 DEF Outstanding
    <2>1. Len(toFw) = 1 /\ (\A i \in 1 .. Len(toCpu) : toCpu[i].kind # "reply")
        BY <1>0, <1>1 DEF IInv, Outstanding
    <2>2. Len(toFw') = 0 /\ toFw' = <<>>
        BY <1>1, <2>1
    <2>3. \A i \in 1 .. Len(toCpu') : toCpu'[i].kind = "reply" => i = Len(toCpu) + 1 /\ toCpu'[i].req = toFw[1].req
        BY <1>2, <1>3, <1>4, <2>1
    <2>4. Asked(toFw[1].req)
        BY <1>1 DEF IInv, Outstanding
    <2>5. (\A i \in 1 .. Len(toCpu) : toCpu[i].kind = "reply" => Asked(toCpu[i].req))'
        BY <1>0, <2>3, <2>4 DEF Asked
    <2> QED
        BY <2>2, <2>3, <2>5 DEF Outstanding
<1> QED
    BY <1>0, <1>1, <1>2, <1>5, <1>6, <1>7, FirmwareAdds

(* A notification takes the next number, or INIT_DONE its own, so no record *)
(* of the queue and no handler has it.                                      *)
LEMMA NotifyStep ==
    ASSUME IInv, FwNotify
    PROVE  IInv'
<1>0. /\ toCpu \in Seq(Records) /\ Numbered /\ Once /\ toFw' \in Seq(Sent)
      /\ UNCHANGED <<now, ses, boot, ex, token, toFw, lockSeen, runs>>
      /\ fw \in [linked : BOOLEAN, init_done : BOOLEAN, notes : 0 .. MaxNote, reqs : Nat]
    BY DEF FwNotify, IInv, TypeOK
<1>1. PICK k \in Kinds \ {"reply"}, n \in 1 .. MaxNote + 1 :
            /\ toCpu' = Append(toCpu, Note(k, n)) /\ ~Issued(n) /\ Issued(n)'
            /\ \A m \in 1 .. MaxNote + 1 : Issued(m)' <=> Issued(m) \/ m = n
            /\ fw' \in [linked : BOOLEAN, init_done : BOOLEAN, notes : 0 .. MaxNote, reqs : Nat]
    <2>1. CASE /\ fw.notes < MaxNote /\ fw' = [fw EXCEPT !.notes = @ + 1]
               /\ \E k \in Notices : toCpu' = Append(toCpu, Note(k, fw.notes + 1))
        <3>1. PICK k \in Notices : toCpu' = Append(toCpu, Note(k, fw.notes + 1))
            BY <2>1
        <3>2. k \in Kinds \ {"reply"} /\ fw.notes + 1 \in 1 .. MaxNote /\ fw.notes + 1 \in 1 .. MaxNote + 1
            BY <1>0, <2>1, ExchangeAssumption DEF Kinds, Notices
        <3>3. fw'.notes = fw.notes + 1 /\ fw'.init_done = fw.init_done
            BY <1>0, <2>1
        <3>4. ~Issued(fw.notes + 1)
            BY <1>0, <3>2, ExchangeAssumption DEF Issued
        <3>5. /\ \A m \in 1 .. MaxNote + 1 : Issued(m)' <=> Issued(m) \/ m = fw.notes + 1
              /\ fw' \in [linked : BOOLEAN, init_done : BOOLEAN, notes : 0 .. MaxNote, reqs : Nat]
            <4>1. \A m \in 1 .. MaxNote + 1 : m \in 1 .. fw.notes + 1 <=> m \in 1 .. fw.notes \/ m = fw.notes + 1
                BY <1>0, <3>2, ExchangeAssumption
            <4>2. \A m \in 1 .. MaxNote + 1 : Issued(m)' <=> Issued(m) \/ m = fw.notes + 1
                BY <3>3, <4>1 DEF Issued
            <4>3. fw.notes + 1 \in 0 .. MaxNote
                BY <1>0, <3>2, ExchangeAssumption
            <4>4. fw' \in [linked : BOOLEAN, init_done : BOOLEAN, notes : 0 .. MaxNote, reqs : Nat]
                BY <1>0, <2>1, <4>3, Zenon
            <4> QED
                BY <4>2, <4>4
        <3> DEFINE n == fw.notes + 1
        <3> HIDE DEF n
        <3>6. n = fw.notes + 1
            BY DEF n
        <3> QED
            BY <3>1, <3>2, <3>4, <3>5, <3>6
    <2>2. CASE /\ ~fw.init_done /\ fw' = [fw EXCEPT !.init_done = TRUE]
               /\ toCpu' = Append(toCpu, Note("init_done", MaxNote + 1))
        <3>1. /\ fw'.init_done /\ fw'.notes = fw.notes /\ MaxNote + 1 \in 1 .. MaxNote + 1
              /\ "init_done" \in Kinds \ {"reply"}
            BY <1>0, <2>2, ExchangeAssumption DEF Kinds
        <3>2. ~Issued(MaxNote + 1)
            BY <1>0, <2>2, ExchangeAssumption DEF Issued
        <3>3. /\ \A m \in 1 .. MaxNote + 1 : Issued(m)' <=> Issued(m) \/ m = MaxNote + 1
              /\ fw' \in [linked : BOOLEAN, init_done : BOOLEAN, notes : 0 .. MaxNote, reqs : Nat]
            BY <1>0, <2>2, <3>1, ExchangeAssumption, Zenon DEF Issued
        <3> QED
            BY <2>2, <3>1, <3>2, <3>3
    <2> QED
        BY <2>1, <2>2 DEF FwNotify
<1> DEFINE r == Note(k, n)
<1>2. r \in Records /\ r.kind # "reply" /\ r.number = n
    BY <1>1, ExchangeAssumption DEF Note, Records
<1> HIDE DEF r
<1>3. /\ Len(toCpu') = Len(toCpu) + 1 /\ Len(toCpu) \in Nat /\ toCpu'[Len(toCpu) + 1] = r
      /\ \A i \in 1 .. Len(toCpu) : toCpu'[i] = toCpu[i]
    BY <1>0, <1>1, <1>2, AppendType DEF r
<1>4. \A i \in 1 .. Len(toCpu') : i \in 1 .. Len(toCpu) \/ i = Len(toCpu) + 1
    BY <1>3
<1>5. \A i \in 1 .. Len(toCpu) : toCpu[i].number \in 0 .. MaxNote + 1 /\ toCpu[i].number # n
    <2>1. n # 0
        BY <1>1, ExchangeAssumption
    <2>2. \A i \in 1 .. Len(toCpu) : toCpu[i].number # n
        BY <1>0, <1>1, <2>1 DEF Numbered
    <2>3. \A i \in 1 .. Len(toCpu) : toCpu[i].number \in 0 .. MaxNote + 1
        <3>1. \A i \in 1 .. Len(toCpu) : toCpu[i] \in Records
            BY <1>0
        <3>2. \A x \in Records : x.number \in 0 .. MaxNote + 1
            BY DEF Records
        <3> QED
            BY <3>1, <3>2
    <2> QED
        BY <2>2, <2>3
<1>6. Numbered'
    <2>1. \A i \in 1 .. Len(toCpu') : toCpu'[i].number # 0 => toCpu'[i].number = n \/ Issued(toCpu'[i].number)
        BY <1>0, <1>2, <1>3, <1>4 DEF Numbered
    <2>2. (\A i \in 1 .. Len(toCpu) : toCpu[i].number # 0 => Issued(toCpu[i].number))'
        <3> DEFINE J(m) == m \in 1 .. fw'.notes \/ (m = MaxNote + 1 /\ fw'.init_done)
        <3>1. \A m \in 1 .. MaxNote + 1 : Issued(m) \/ m = n => J(m)
            BY <1>1 DEF Issued
        <3>2. \A i \in 1 .. Len(toCpu') : toCpu'[i].number # 0 => toCpu'[i].number \in 1 .. MaxNote + 1
            BY <1>1, <1>2, <1>3, <1>4, <1>5, ExchangeAssumption
        <3> HIDE DEF J
        <3>3. \A i \in 1 .. Len(toCpu') : toCpu'[i].number # 0 => J(toCpu'[i].number)
            BY <2>1, <3>1, <3>2
        <3> QED
            BY <3>3 DEF J, Issued
    <2>3. \A i, j \in 1 .. Len(toCpu') : toCpu'[i].number # 0 /\ toCpu'[i].number = toCpu'[j].number => i = j
        <3> SUFFICES ASSUME NEW i \in 1 .. Len(toCpu'), NEW j \in 1 .. Len(toCpu'),
                            toCpu'[i].number # 0, toCpu'[i].number = toCpu'[j].number
                     PROVE  i = j
            OBVIOUS
        <3>1. CASE i \in 1 .. Len(toCpu) /\ j \in 1 .. Len(toCpu)
            <4>1. toCpu'[i] = toCpu[i] /\ toCpu'[j] = toCpu[j]
                BY <1>3, <3>1
            <4> QED
                BY <1>0, <3>1, <4>1 DEF Numbered
        <3>2. CASE i \in 1 .. Len(toCpu) /\ j = Len(toCpu) + 1
            BY <1>2, <1>3, <1>5, <3>2
        <3>3. CASE i = Len(toCpu) + 1 /\ j \in 1 .. Len(toCpu)
            BY <1>2, <1>3, <1>5, <3>3
        <3> QED
            BY <1>4, <3>1, <3>2, <3>3
    <2>4. \A i \in 1 .. Len(toCpu') : toCpu'[i].kind = "reply" => toCpu'[i].number = 0
        BY <1>0, <1>2, <1>3, <1>4 DEF Numbered
    <2> QED
        BY <2>2, <2>3, <2>4 DEF Numbered
<1>7. Once'
    <2>1. \A m \in 1 .. MaxNote + 1 : runs'[m] <= 1 /\ (~Issued(m)' => runs'[m] = 0)
        BY <1>0, <1>1 DEF Once
    <2>2. ses' # "failed" => \A i \in 1 .. Len(toCpu') : toCpu'[i].number # 0 => runs'[toCpu'[i].number] = 0
        <3>1. runs[n] = 0
            BY <1>0, <1>1 DEF Once
        <3>2. ses # "failed" => \A i \in 1 .. Len(toCpu) : toCpu[i].number # 0 => runs[toCpu[i].number] = 0
            BY <1>0 DEF Once
        <3>3. \A i \in 1 .. Len(toCpu') : toCpu'[i].number = n \/ (i \in 1 .. Len(toCpu) /\ toCpu'[i] = toCpu[i])
            BY <1>2, <1>3, <1>4
        <3> QED
            BY <1>0, <3>1, <3>2, <3>3
    <2>3. \A m \in 1 .. MaxNote + 1 : Issued(m)' /\ runs'[m] = 0 => Queued(m)'
        <3>1. \A m : Queued(m) \/ m = n => Queued(m)'
            BY <1>2, <1>3 DEF Queued
        <3>2. \A m \in 1 .. MaxNote + 1 : Issued(m)' /\ runs'[m] = 0 => Queued(m) \/ m = n
            BY <1>0, <1>1 DEF Once
        <3> QED
            BY <3>1, <3>2
    <2> QED
        BY <2>1, <2>2, <2>3 DEF Once
<1>8. Outstanding'
    <2> SUFFICES ASSUME ses # "failed" PROVE Outstanding'
        BY <1>0 DEF Outstanding
    <2>1. \A i \in 1 .. Len(toCpu') : toCpu'[i].kind = "reply" => i \in 1 .. Len(toCpu) /\ toCpu'[i] = toCpu[i]
        BY <1>2, <1>3, <1>4
    <2> QED
        <3>1. UNCHANGED <<toFw, ex, ses>> /\ Outstanding
            BY <1>0 DEF IInv
        <3>2. \A m : Asked(m)' <=> Asked(m)
            BY <3>1 DEF Asked
        <3>3. (\A i \in 1 .. Len(toFw) : Asked(toFw[i].req))' /\ Len(toFw') <= 1
            BY <3>1, <3>2 DEF Outstanding
        <3>4. (\A i \in 1 .. Len(toCpu) : toCpu[i].kind = "reply" => Asked(toCpu[i].req))'
            BY <2>1, <3>1, <3>2 DEF Outstanding
        <3>5. \A i, j \in 1 .. Len(toCpu') : toCpu'[i].kind = "reply" /\ toCpu'[j].kind = "reply" => i = j
            BY <2>1, <3>1 DEF Outstanding
        <3>6. \A i \in 1 .. Len(toCpu') : toCpu'[i].kind = "reply" => toFw' = <<>>
            BY <2>1, <3>1 DEF Outstanding
        <3> QED
            BY <3>3, <3>4, <3>5, <3>6 DEF Outstanding
<1> QED
    BY <1>0, <1>1, <1>2, <1>6, <1>7, <1>8, FirmwareAdds DEF r

(* Steps that touch neither queues nor owners. *)
LEMMA QuietStep ==
    ASSUME IInv, FwLink \/ Tick \/ UNCHANGED vars
    PROVE  IInv'
<1>1. /\ UNCHANGED <<ses, boot, ex, token, toFw, toCpu, lockSeen, runs>> /\ now' \in Nat
      /\ fw' \in [linked : BOOLEAN, init_done : BOOLEAN, notes : 0 .. MaxNote, reqs : Nat]
      /\ fw'.notes = fw.notes /\ fw'.init_done = fw.init_done
    <2>0. /\ fw \in [linked : BOOLEAN, init_done : BOOLEAN, notes : 0 .. MaxNote, reqs : Nat]
          /\ now \in Nat
        BY DEF IInv, TypeOK
    <2>1. CASE FwLink
        BY <2>0, <2>1, Zenon DEF FwLink
    <2>2. CASE Tick
        BY <2>0, <2>2 DEF Tick
    <2>3. CASE UNCHANGED vars
        BY <2>0, <2>3 DEF vars
    <2> QED
        BY <2>1, <2>2, <2>3
<1>2. TypeOK'
    BY <1>1 DEF IInv, TypeOK
<1>3. Own' /\ Held' /\ Locked' /\ Paired'
    BY <1>1 DEF IInv, Own, Held, Locked, Paired, Live, BootOwns
<1>4. Outstanding' /\ Numbered' /\ Once'
    BY <1>1, QueueSame DEF IInv, Outstanding, Asked
<1> QED
    BY <1>2, <1>3, <1>4 DEF IInv

(* IInv is inductive: one case per action. *)
LEMMA NextIInv == IInv /\ [Next]_vars => IInv'
<1> SUFFICES ASSUME IInv, [Next]_vars PROVE IInv'
    OBVIOUS
<1>1. CASE Booting
    BY <1>1, BootPollStep, BootCompleteStep, BootHandoffStep DEF Booting
<1>2. ASSUME NEW o \in Owners, Step(o) PROVE IInv'
    BY <1>2, CancelStep, ResponseStep, DispatchStep, ClaimStep, PollStep, HandoffStep, BeginStep DEF Step
<1>3. CASE FwReply
    BY <1>3, ReplyStep
<1>4. CASE FwNotify
    BY <1>4, NotifyStep
<1>5. CASE FwLink \/ Tick \/ UNCHANGED vars
    BY <1>5, QuietStep
<1> QED
    BY <1>1, <1>2, <1>3, <1>4, <1>5 DEF Next

(* Every reachable state satisfies IInv. *)
LEMMA Inductive == Spec => []IInv
BY InitIInv, NextIInv, PTL DEF Spec

-----------------------------------------------------------------------------
(* A reply reaches the request it answers although poll() compares only the *)
(* function number, and no notification handler runs twice although a       *)
(* failed acknowledgement leaves its record in the queue.                   *)
THEOREM RecordsServedOnce == Spec => []ServedOnce
<1>1. ASSUME IInv PROVE ServedOnce
    <2>1. ReplyMatchesRequest
        <3> SUFFICES ASSUME NEW o \in Owners, Live(o), ex[o].response, ex[o].pending # NoRecord
                     PROVE  ex[o].pending.req = ex[o].req
            BY DEF ReplyMatchesRequest
        <3>1. /\ toCpu # <<>> /\ ex[o].pending = Head(toCpu) /\ ex[o].pending.kind = "reply"
              /\ ses # "failed" /\ toCpu \in Seq(Records)
            BY <1>1, LiveAlone DEF IInv, Held, Paired, TypeOK
        <3>2. Head(toCpu) = toCpu[1] /\ 1 \in 1 .. Len(toCpu)
            BY <3>1, TailType
        <3>3. Asked(toCpu[1].req)
            BY <1>1, <3>1, <3>2 DEF IInv, Outstanding
        <3> QED
            BY <1>1, <3>1, <3>2, <3>3, LiveAlone DEF Asked
    <2>2. HandledOnce
        BY <1>1 DEF HandledOnce, IInv, TypeOK, Once, Queued
    <2> QED
        BY <2>1, <2>2 DEF ServedOnce
<1> QED
    BY <1>1, Inductive, PTL

(* No request is published between the admission of a lockdown notice and   *)
(* the acknowledgement of its release, whichever owners the flag was handed *)
(* through: only poll() sends, and its owner's flag is the admitted one.    *)
THEOREM LockdownHoldsRequests == Spec => NoSendInLockdown
<1>1. ASSUME IInv, [Next]_vars PROVE [Len(toFw') > Len(toFw) => ~lockSeen]_vars
    <2> SUFFICES ASSUME Len(toFw') > Len(toFw) PROVE ~lockSeen
        OBVIOUS
    <2>0. toFw \in Seq(Sent) /\ Len(toFw) \in Nat
        BY <1>1 DEF IInv, TypeOK
    <2>1. toFw' # toFw
        BY <2>0
    <2>2. ~FwReply
        <3>1. ASSUME FwReply PROVE FALSE
            <4>1. toFw # <<>> /\ toFw' = Tail(toFw)
                BY <3>1 DEF FwReply
            <4>2. Len(toFw') = Len(toFw) - 1
                BY <2>0, <4>1, TailType
            <4> QED
                BY <2>0, <4>2
        <3> QED
            BY <3>1
    <2>3. ASSUME NEW o \in Owners, Step(o) PROVE ~lockSeen
        <3>1. \E d \in Deadlines : Poll(o, d)
            <4>1. ~CancelPrepared(o) /\ ~CompleteResponse(o) /\ ~DispatchNotification(o)
                BY <2>1 DEF CancelPrepared, CompleteResponse, DispatchNotification
            <4>2. \A d \in Deadlines : ~Claim(o, d) /\ ~Handoff(o, d) /\ \A f \in Functions : ~Begin(o, f, d)
                BY <2>1, Zenon DEF Claim, Handoff, Begin
            <4> QED
                BY <2>3, <4>1, <4>2 DEF Step
        <3>2. Live(o) /\ ~ex[o].in_lockdown
            BY <2>1, <3>1 DEF Poll
        <3> QED
            BY <1>1, <3>2 DEF IInv, Locked
    <2>4. ~Booting /\ ~FwLink /\ ~FwNotify /\ ~Tick /\ ~UNCHANGED vars
        BY <2>1 DEF Booting, BootPoll, BootComplete, BootHandoff, FwLink, FwNotify, Tick, vars
    <2> QED
        BY <1>1, <2>2, <2>3, <2>4 DEF Next
<1> QED
    BY <1>1, Inductive, PTL DEF Spec, NoSendInLockdown
----------------------------------------------------------------------------
Finite == INSTANCE FiniteSetTheorems

(* The library's Cardinality is the one SoleOwner counts with. *)
LEMMA Sizes == \A S : Cardinality(S) = Finite!Cardinality(S)
BY Zenon DEF Cardinality, Finite!Cardinality, IsFiniteSet, Finite!IsFiniteSet

(* The queue has one driver while the session is usable, and at most one    *)
(* party is left when it failed: handoff() and Exchange.init() neither      *)
(* duplicate nor lose it, for any owners and deadlines.                     *)
THEOREM QueueHasOneOwner == Spec => []SoleOwner
<1>1. ASSUME IInv PROVE SoleOwner
    <2>1. CASE \E o \in Owners : Live(o)
        <3>1. PICK o \in Owners : Live(o)
            BY <2>1
        <3>2. Holders = {o} /\ ~BootOwns /\ ~token.present
            BY <1>1, <3>1, LiveAlone DEF Holders
        <3>3. Cardinality(Holders) = 1
            BY <3>2, Sizes, Finite!FS_Singleton, ZenonT(30)
        <3> QED
            BY <3>2, <3>3 DEF SoleOwner
    <2>2. CASE ~\E o \in Owners : Live(o)
        <3>1. Holders = {}
            BY <2>2 DEF Holders
        <3>2. Cardinality(Holders) = 0
            BY <3>1, Sizes, Finite!FS_EmptySet
        <3> QED
            BY <1>1, <2>2, <3>2 DEF SoleOwner, IInv, Own
    <2> QED
        BY <2>1, <2>2
<1> QED
    BY <1>1, Inductive, PTL
============================================================================
