---------------------------- MODULE GspIrqProofs ----------------------------
(***************************************************************************)
(* The gate of the interrupt endpoint for any number of CPUs, refusals and *)
(* display set-ups.  The safety properties of GspIrq are not inductive by  *)
(* themselves: that close() finds nobody inside follows from the value of  *)
(* `gate`, which says whether somebody holds the register sequence, whether*)
(* the BAR0 lease must be there, and what close() may have loaded before   *)
(* its compare-and-swap.                                                   *)
(***************************************************************************)
EXTENDS GspIrq, TLAPS

Retired == {"unregister", "unroute", "release"}

(* The program counters and the gate, as far as the proof needs types. *)
Types ==
    /\ pc \in [Actors -> Points] /\ gate \in 0 .. 3
    /\ found = [a \in Actors |-> found[a]]

(* Whoever runs the register sequence holds the gate, and is alone. *)
Owned == GateExclusive /\ \A a \in Actors : Inside(a) => gate \in {2, 3}

(* The gate is opened only behind an acquired lease, and a gate that is    *)
(* not disabled means that the lease is still held.                        *)
Mapped ==
    /\ pc[Worker] \in Opening \ {"arm"} => gate = 0
    /\ pc[Worker] \in Opening \ {"unopened"} => lease
    /\ gate # 0 => lease

(* close() passes on only with the gate disabled; before that it has       *)
(* loaded nothing but an admitted or an active gate.                       *)
Shut ==
    /\ pc[Worker] \in Retired \cup {"quiet"} => gate = 0
    /\ pc[Worker] = "retire" => found[Worker] \subseteq {1, 2}
    /\ closed => pc[Worker] = "closing" /\ gate = 0

(* Behind the unarm of close() the top level stays unarmed. *)
Silent == touched /\ (closed \/ pc[Worker] \in Retired) => ~armed /\ ~allow

IInv == Types /\ Owned /\ Mapped /\ Shut /\ Silent

(* The unopened endpoint satisfies the inductive invariant. *)
LEMMA InitIInv == Init => IInv
BY DEF Init, IInv, Types, Owned, GateExclusive, Inside, Mapped, Shut, Silent,
       Actors, Points, Body, Opening, Closing, Retired

(* The inductive invariant contains the safety properties. *)
LEMMA IInvSafe == IInv => GateExclusive /\ CloseWaits /\ RegistersMapped /\ ClosedSilent
BY DEF IInv, Types, Owned, Mapped, Shut, Silent, CloseWaits, RegistersMapped, ClosedSilent,
       Actors, Retired

(* A step inside the register sequence leaves gate, lease and retirement   *)
(* alone; since its actor holds the gate, close() is not past it, and so   *)
(* such a step may write any register.                                     *)
LEMMA InsideStep ==
    ASSUME IInv, NEW a \in Actors, NEW q \in Body,
           Inside(a), pc' = [pc EXCEPT ![a] = q],
           found' = [b \in Actors |-> found'[b]], a # Worker => found'[Worker] = found[Worker],
           UNCHANGED <<gate, lease, closed, touched>>
    PROVE  IInv'
<1>1. gate \in {2, 3} /\ ~closed
  BY DEF IInv, Owned, Shut
<1>2. Types'
  BY DEF IInv, Types, Points
<1>3. \A b \in Actors : Inside(b)' <=> Inside(b)
  BY DEF IInv, Types, Inside
<1>4. Owned'
  BY <1>1, <1>3 DEF IInv, Owned, GateExclusive
<1>5. pc'[Worker] = pc[Worker] \/ pc'[Worker] \in Body
  BY DEF IInv, Types, Actors
<1>6. Mapped'
  BY <1>1, <1>5 DEF IInv, Mapped, Opening, Body
<1>7. pc'[Worker] \notin Retired \cup {"quiet"}
  <2>1. pc[Worker] \notin Retired \cup {"quiet"} BY <1>1 DEF IInv, Shut
  <2> QED BY <1>5, <2>1 DEF Retired, Body
<1>8. pc'[Worker] = "retire" => pc[Worker] = "retire" /\ found'[Worker] = found[Worker]
  BY <1>5 DEF IInv, Types, Inside, Body, Actors
<1>9. Shut' /\ Silent'
  BY <1>1, <1>7, <1>8 DEF IInv, Shut, Silent
<1> QED BY <1>2, <1>4, <1>6, <1>9 DEF IInv

(* An actor that enters through an admitted gate is alone, and finds the   *)
(* lease held.                                                             *)
LEMMA TakeGate ==
    ASSUME IInv, NEW a \in Actors, ~Inside(a), gate = 1, gate' = 2,
           a = Worker => pc[Worker] = "run",
           pc' = [pc EXCEPT ![a] = "unarm"],
           UNCHANGED <<found, lease, closed, touched, armed, allow>>
    PROVE  IInv'
<1>1. \A b \in Actors : ~Inside(b)
  BY DEF IInv, Owned
<1>2. Types'
  BY DEF IInv, Types, Points, Body
<1>3. \A b \in Actors : Inside(b)' => b = a
  BY <1>1 DEF IInv, Types, Inside
<1>4. Owned'
  BY <1>3 DEF Owned, GateExclusive
<1>5. pc'[Worker] = pc[Worker] \/ pc'[Worker] = "unarm"
  BY DEF IInv, Types, Actors
<1>6. Mapped'
  BY <1>5 DEF IInv, Mapped, Opening
<1>7. Shut'
  BY <1>5 DEF IInv, Shut, Retired
<1>8. Silent'
  BY <1>5 DEF IInv, Silent, Retired
<1> QED BY <1>2, <1>4, <1>6, <1>7, <1>8 DEF IInv

(* leave() gives the gate up: whatever close() did to it meanwhile, nobody *)
(* is inside afterwards.                                                   *)
LEMMA DropIInv == ASSUME IInv, NEW a \in Actors, Drop(a) PROVE IInv'
<1>1. Inside(a) /\ gate \in {2, 3} /\ ~closed
  BY DEF IInv, Owned, Shut, Drop, At, Inside, Body
<1>2. /\ gate' \in {0, 1} /\ UNCHANGED <<lease, closed, touched, armed, allow>>
      /\ UNCHANGED found
      /\ \E q \in {"run", "idle"} : pc' = [pc EXCEPT ![a] = q]
  BY DEF Drop, Goto, hw, res, cl
<1>3. Types'
  BY <1>2 DEF IInv, Types, Points
<1>4. \A b \in Actors : ~Inside(b)'
  BY <1>1, <1>2 DEF IInv, Types, Owned, GateExclusive, Inside, Body
<1>5. Owned'
  BY <1>4 DEF Owned, GateExclusive
<1>6. pc'[Worker] = pc[Worker] \/ pc'[Worker] \in {"run", "idle"}
  BY <1>2 DEF IInv, Types, Actors
<1>7. Mapped'
  BY <1>1, <1>2, <1>6 DEF IInv, Mapped, Opening
<1>8. Shut'
  BY <1>1, <1>2, <1>6 DEF IInv, Shut, Retired
<1>9. Silent'
  BY <1>2, <1>6 DEF IInv, Silent, Retired
<1> QED BY <1>3, <1>5, <1>7, <1>8, <1>9 DEF IInv

(* Every step between the gate's compare-and-swap and leave() preserves    *)
(* the invariant.                                                          *)
LEMMA GateStepIInv == ASSUME IInv, NEW a \in Actors, GateStep(a) PROVE IInv'
<1> DEFINE Stays == /\ Inside(a) /\ \E q \in Body : pc' = [pc EXCEPT ![a] = q]
                    /\ found' = [b \in Actors |-> found'[b]]
                    /\ a # Worker => found'[Worker] = found[Worker]
                    /\ UNCHANGED <<gate, lease, closed, touched>>
<1>0. Worker \in Actors BY DEF Actors
<1> USE DEF IInv, Types, At, Goto, Inside, Body, cl, hw, res, msg
<1>1. CASE Unarm(a) BY <1>1, InsideStep DEF Unarm
<1>2. CASE Look(a) BY <1>2, InsideStep DEF Look
<1>3. CASE Status(a)
  <2>1. Stays BY <1>0, <1>3 DEF Status
  <2> QED BY <2>1, InsideStep
<1>4. CASE Ack(a) BY <1>4, InsideStep DEF Ack
<1>5. CASE Retrigger(a)
  <2>1. Stays BY <1>0, <1>5 DEF Retrigger
  <2> QED BY <2>1, InsideStep
<1>6. CASE Signal(a) BY <1>6, InsideStep DEF Signal
<1>7. CASE Leave(a) BY <1>7, InsideStep DEF Leave
<1>8. CASE Rearm(a) BY <1>8, InsideStep DEF Rearm
<1>9. CASE Drop(a) BY <1>9, DropIInv
<1> QED BY <1>1, <1>2, <1>3, <1>4, <1>5, <1>6, <1>7, <1>8, <1>9 DEF GateStep

(* A worker step outside the register sequence that leaves the gate alone, *)
(* or disables it while nobody is inside.                                  *)
LEMMA WorkerMoves ==
    ASSUME IInv, NEW q \in Points \ Body, pc' = [pc EXCEPT ![Worker] = q],
           found' = [b \in Actors |-> found'[b]],
           gate' = gate \/ (gate \in {0, 1} /\ gate' \in {0, 1}) \/ (gate = 2 /\ gate' = 3)
    PROVE  Types' /\ Owned' /\ pc'[Worker] = q
<1>1. pc'[Worker] = q /\ Types'
  BY DEF IInv, Types, Actors
<1>2. \A b \in Actors : Inside(b)' => Inside(b)
  BY <1>1 DEF IInv, Types, Inside
<1>3. Owned'
  <2>1. CASE gate \in {0, 1}
    BY <1>2, <2>1 DEF IInv, Owned, GateExclusive
  <2>2. CASE gate \notin {0, 1}
    BY <1>2, <2>2 DEF IInv, Owned, GateExclusive
  <2> QED BY <2>1, <2>2
<1> QED BY <1>1, <1>3

(* open() preserves the invariant: the gate is admitted behind the lease.  *)
LEMMA OpenIInv == ASSUME IInv, OpenStep PROVE IInv'
<1> USE DEF At, Goto, cl, hw, res, msg
<1>1. \E q \in Points \ Body : pc' = [pc EXCEPT ![Worker] = q]
  BY DEF OpenStep, Acquire, Block, Route, Register, Clear, Allow, Forget, Admit, Arm, Points, Body, Opening, Closing
<1>2. UNCHANGED <<found, closed>>
  BY DEF OpenStep, Acquire, Block, Route, Register, Clear, Allow, Forget, Admit, Arm
<1>3. pc[Worker] \in Opening /\ (pc[Worker] # "arm" => gate = 0)
  BY DEF OpenStep, Acquire, Block, Route, Register, Clear, Allow, Forget, Admit, Arm, Opening, IInv, Mapped
<1>4. gate' = gate \/ (gate = 0 /\ gate' = 1)
  BY <1>3 DEF OpenStep, Acquire, Block, Route, Register, Clear, Allow, Forget, Admit, Arm
<1>5. found' = [b \in Actors |-> found'[b]]
  BY <1>2 DEF IInv, Types
<1>6. Types' /\ Owned'
  BY <1>1, <1>4, <1>5, WorkerMoves
<1>7. ~closed
  BY <1>3 DEF IInv, Shut, Opening
<1>8. Worker \in DOMAIN pc BY DEF IInv, Types, Actors
<1>9. pc'[Worker] \in Opening \cup {"run", "closing"}
  BY <1>8 DEF OpenStep, Acquire, Block, Route, Register, Clear, Allow, Forget, Admit, Arm, Opening
<1>10. Shut' /\ Silent'
  BY <1>2, <1>7, <1>9 DEF Shut, Silent, Opening, Retired
<1>11. Mapped'
  BY <1>8 DEF IInv, Mapped, OpenStep, Acquire, Block, Route, Register, Clear, Allow, Forget, Admit, Arm, Opening
<1> QED BY <1>6, <1>10, <1>11 DEF IInv

(* close() preserves the invariant: it disables an admitted gate, asks an  *)
(* active one to retire, and goes on only with a disabled one.             *)
LEMMA CloseIInv == ASSUME IInv, CloseStep PROVE IInv'
<1> USE DEF At, Goto, cl, hw, res, msg
<1>0. /\ Worker \in DOMAIN pc /\ Worker \in Actors /\ gate \in 0 .. 3
      /\ found = [b \in Actors |-> found[b]]
  BY DEF IInv, Types, Actors
<1>1. CASE CloseStart
  <2>1. Types' /\ Owned' /\ pc'[Worker] = "retire"
    BY <1>0, <1>1, WorkerMoves DEF CloseStart, Points, Body, Closing
  <2>2. found'[Worker] = {} BY <1>0, <1>1 DEF CloseStart
  <2> QED BY <1>1, <2>1, <2>2 DEF CloseStart, IInv, Mapped, Shut, Silent, Retired, Opening
<1>2. CASE CloseLoad
  <2>1. CASE gate = 0 /\ Goto(Worker, "quiet") /\ UNCHANGED found
    <3>1. Types' /\ Owned' /\ pc'[Worker] = "quiet"
      BY <1>0, <1>2, <2>1, WorkerMoves DEF CloseLoad, Points, Body, Closing
    <3> QED BY <1>2, <2>1, <3>1 DEF CloseLoad, IInv, Mapped, Shut, Silent, Retired, Opening
  <2>2. CASE gate = 3 /\ Goto(Worker, "closing") /\ UNCHANGED found
    <3>1. Types' /\ Owned' /\ pc'[Worker] = "closing"
      BY <1>0, <1>2, <2>2, WorkerMoves DEF CloseLoad, Points, Body, Closing
    <3> QED BY <1>2, <2>2, <3>1 DEF CloseLoad, IInv, Mapped, Shut, Silent, Retired, Opening
  <2>3. CASE gate \in {1, 2} /\ found' = [found EXCEPT ![Worker] = {gate}] /\ UNCHANGED pc
    <3>1. Types' /\ Owned'
      BY <1>0, <1>2, <2>3 DEF CloseLoad, IInv, Types, Owned, GateExclusive, Inside
    <3>2. found'[Worker] = {gate} BY <1>0, <2>3
    <3> QED BY <1>2, <2>3, <3>1, <3>2 DEF CloseLoad, IInv, Mapped, Shut, Silent, Retired, Opening
  <2> QED BY <1>2, <2>1, <2>2, <2>3 DEF CloseLoad
<1>3. CASE CloseSwap
  <2>1. found'[Worker] = {} /\ found' = [b \in Actors |-> found'[b]] /\ ~closed /\ found[Worker] \subseteq {1, 2}
    BY <1>0, <1>3 DEF CloseSwap, IInv, Shut
  <2>2. CASE gate \in found[Worker] /\ gate = 2
    <3>1. gate' = 3 /\ pc' = [pc EXCEPT ![Worker] = "closing"] BY <1>3, <2>2 DEF CloseSwap
    <3>2. Types' /\ Owned' /\ pc'[Worker] = "closing"
      BY <2>1, <2>2, <3>1, WorkerMoves DEF Points, Body, Closing
    <3> QED BY <1>3, <2>1, <2>2, <3>1, <3>2 DEF CloseSwap, IInv, Mapped, Shut, Silent, Retired, Opening
  <2>3. CASE gate \in found[Worker] /\ gate # 2
    <3>1. gate = 1 /\ gate' = 0 /\ pc' = [pc EXCEPT ![Worker] = "quiet"] BY <1>3, <2>1, <2>3 DEF CloseSwap
    <3>2. Types' /\ Owned' /\ pc'[Worker] = "quiet"
      BY <2>1, <3>1, WorkerMoves DEF Points, Body, Closing
    <3> QED BY <1>3, <2>1, <3>1, <3>2 DEF CloseSwap, IInv, Mapped, Shut, Silent, Retired, Opening
  <2>4. CASE gate \notin found[Worker]
    <3>1. gate' = gate /\ \E r \in {"closing", "retire"} : pc' = [pc EXCEPT ![Worker] = r]
      BY <1>3, <2>4 DEF CloseSwap
    <3>2. Types' /\ Owned' /\ pc'[Worker] \in {"closing", "retire"}
      BY <2>1, <3>1, WorkerMoves DEF Points, Body, Closing
    <3> QED BY <1>3, <2>1, <3>1, <3>2 DEF CloseSwap, IInv, Mapped, Shut, Silent, Retired, Opening
  <2> QED BY <2>2, <2>3, <2>4
<1>4. CASE Quiet
  <2>1. Types' /\ Owned' /\ pc'[Worker] = "unregister"
    BY <1>0, <1>4, WorkerMoves DEF Quiet, Points, Body, Closing
  <2> QED BY <1>4, <2>1 DEF Quiet, IInv, Mapped, Shut, Silent, Retired, Opening
<1>5. CASE Unregister \/ Unroute \/ Release
  <2>1. \E r \in {"closing", "unroute", "release"} : pc' = [pc EXCEPT ![Worker] = r]
    BY <1>5 DEF Unregister, Unroute, Release, Refused
  <2>2. UNCHANGED <<found, gate, touched, armed, allow>> /\ gate = 0 /\ pc[Worker] \in Retired
    BY <1>5 DEF Unregister, Unroute, Release, Refused, IInv, Shut, Retired
  <2>3. Types' /\ Owned' /\ pc'[Worker] \in {"closing", "unroute", "release"}
    BY <1>0, <2>1, <2>2, WorkerMoves DEF Points, Body, Closing
  <2>4. ~closed BY <2>2 DEF IInv, Shut, Retired
  <2>5. closed' => pc'[Worker] = "closing"
    BY <1>0, <1>5, <2>4 DEF Unregister, Unroute, Release, Refused
  <2> QED BY <2>2, <2>3, <2>5 DEF IInv, Mapped, Shut, Silent, Retired, Opening
<1> QED BY <1>1, <1>2, <1>3, <1>4, <1>5 DEF CloseStep

(* The inductive invariant holds in every behaviour: a CPU's handler, the  *)
(* worker and the device interleave in any way.                            *)
THEOREM Invariance == Spec => []IInv
<1>1. ASSUME IInv, [Next]_vars PROVE IInv'
  <2> USE DEF At, Goto, cl, hw, res, msg
  <2>0. Worker \in Actors /\ \A c \in Cpus : c \in Actors /\ c # Worker
    BY IrqAssumption DEF Actors
  <2>1. CASE OpenStep BY <1>1, <2>1, OpenIInv
  <2>2. CASE CloseStep BY <1>1, <2>2, CloseIInv
  <2>3. CASE GateStep(Worker) BY <1>1, <2>0, <2>3, GateStepIInv
  <2>4. CASE Drain
    BY <1>1, <2>4 DEF Drain, IInv, Types, Owned, GateExclusive, Inside, Mapped, Shut, Silent
  <2>5. CASE Display
    BY <1>1, <2>0, <2>5, InsideStep DEF Display, Inside, Body, IInv, Types
  <2>6. CASE ConfigureDisplay
    BY <1>1, <2>0, <2>6, TakeGate DEF ConfigureDisplay, Inside, Body
  <2>7. CASE BeginClose
    <3>1. Types' /\ Owned' /\ pc'[Worker] = "closing"
      BY <1>1, <2>7, WorkerMoves DEF BeginClose, Points, Body, Closing, IInv, Types
    <3> QED BY <1>1, <2>7, <3>1 DEF BeginClose, IInv, Mapped, Shut, Silent, Retired, Opening
  <2>8. ASSUME NEW c \in Cpus, Enter(c) PROVE IInv'
    <3>1. CASE gate = 1 BY <1>1, <2>0, <2>8, <3>1, TakeGate DEF Enter, Inside, Body
    <3>2. CASE gate # 1
      BY <1>1, <2>0, <2>8, <3>2 DEF Enter, IInv, Types, Owned, GateExclusive, Inside, Mapped, Shut,
         Silent, Points, Body
    <3> QED BY <3>1, <3>2
  <2>9. ASSUME NEW c \in Cpus, Deliver(c) PROVE IInv'
    BY <1>1, <2>0, <2>9 DEF Deliver, IInv, Types, Owned, GateExclusive, Inside, Mapped, Shut,
       Silent, Points, Body
  <2>10. ASSUME NEW c \in Cpus, GateStep(c) PROVE IInv'
    BY <1>1, <2>0, <2>10, GateStepIInv
  <2>11. CASE Message \/ OddBit \/ Remove
    BY <1>1, <2>11 DEF Message, OddBit, Remove, IInv, Types, Owned, GateExclusive, Inside, Mapped,
       Shut, Silent
  <2>12. CASE UNCHANGED vars
    BY <1>1, <2>12 DEF vars, IInv, Types, Owned, GateExclusive, Inside, Mapped, Shut, Silent
  <2> QED BY <1>1, <2>1, <2>2, <2>3, <2>4, <2>5, <2>6, <2>7, <2>8, <2>9, <2>10, <2>11, <2>12
          DEF Next, WorkerStep
<1> QED BY InitIInv, <1>1, PTL DEF Spec

(* One actor at a time runs the register sequence, however many CPUs the   *)
(* handler may run on.                                                     *)
THEOREM GateIsExclusive == Spec => []GateExclusive
BY Invariance, IInvSafe, PTL

(* close() unarms, unregisters and unmaps only when no handler is inside.  *)
THEOREM CloseFindsNobody == Spec => []CloseWaits
BY Invariance, IInvSafe, PTL

(* Handlers touch registers only while the BAR0 lease is held.             *)
THEOREM RegistersStayMapped == Spec => []RegistersMapped
BY Invariance, IInvSafe, PTL

(* A closed endpoint is unarmed and stays so.                              *)
THEOREM ClosedStaysSilent == Spec => []ClosedSilent
BY Invariance, IInvSafe, PTL

(* The three together, for any number of CPUs: one actor at a time, close   *)
(* behind the last of them, and silence afterwards.                         *)
THEOREM EndpointIsGuarded == Spec => []EndpointGuarded
<1>1. GateExclusive /\ CloseWaits /\ ClosedSilent => EndpointGuarded BY DEF EndpointGuarded
<1> QED BY <1>1, GateIsExclusive, CloseFindsNobody, ClosedStaysSilent, PTL
=============================================================================
