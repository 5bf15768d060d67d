-------------------------- MODULE StartWorkProofs --------------------------
(***************************************************************************)
(* The pacing of StartWork for every slice length and retry budget, with   *)
(* and without failing kernel services.  The three safety properties are   *)
(* not inductive: that pause may step the device, or finishPause destroy   *)
(* the semaphore, rests on what a joined task left behind, and that in     *)
(* turn on who holds the ticket at every point of the task's loop.  IInv   *)
(* says exactly that.                                                      *)
(***************************************************************************)
EXTENDS StartWork, TLAPS

(* Where the task stands decides which ticket the kernel and the owner     *)
(* know: none outside finish, the same one inside it, an unpublished one   *)
(* in between; a task that ended leaves no ticket that the owner forgot.   *)
TicketOfTask ==
    /\ p.pc \in {"none", "top", "submit", "clear", "after", "sleep"} => ticket.state = "none"
    /\ p.pc \in {"none", "top", "submit", "publish", "after", "sleep"} => work.completion = 0
    /\ p.pc = "publish" => ticket.state # "none" /\ ticket.id = p.local
    /\ p.pc \in {"status", "release", "cancel", "wait"} =>
           ticket.state # "none" /\ work.completion = ticket.id
    /\ p.pc = "exit" => ticket.state = "none" \/ work.completion = ticket.id

(* A live ticket has a name, its wake follows its final state, and a slice *)
(* is on the lane exactly while its ticket runs.                           *)
TicketOfLane ==
    /\ ticket.state # "none" => ticket.id # 0
    /\ ticket.woken => ticket.state \in {"completed", "cancelled"}
    /\ lane.pc # "idle" <=> ticket.state = "running"

(* What the lifecycle caller's position says about the handles. *)
HandlesOfCaller ==
    /\ ~work.task => p.pc \in {"none", "exit"}
    /\ life.pc = "unstarted" => p.pc = "none" /\ ~work.task /\ ~work.alive
    /\ life.pc \in {"pause", "load", "cancel", "join", "paused", "device"} => work.alive
    /\ life.pc \in {"load", "cancel", "join"} => work.task
    /\ life.pc \in {"paused", "device"} => ~work.task /\ work.completion = 0
    /\ ~work.alive => ~work.task /\ work.completion = 0
    /\ (~work.alive /\ life.pc # "unstarted") => IrqQuiet

(* What completeSlice stores is a disposition; a task that still paces has *)
(* not spent its retry budget.                                             *)
InBounds ==
    /\ lane.pc = "publish" => lane.said \in Dispositions
    /\ p.pc # "exit" => p.retries < OwnerRetries

IInv == TypeOK /\ TicketOfTask /\ TicketOfLane /\ HandlesOfCaller /\ InBounds

(* The ranges contain the values that the code assigns. *)
LEMMA Ranges ==
    /\ 0 \in Names /\ 1 \in Names \ {0} /\ \A n \in Names \ {0} : n \in Names /\ 3 - n \in Names \ {0}
    /\ 0 < OwnerRetries /\ 0 \in Counts /\ \A n \in Counts : n + 1 < OwnerRetries => n + 1 \in Counts
    /\ \A n \in Counts : n < OwnerRetries => n + 1 \in Counts
    /\ 0 \in Steps /\ \A n \in Steps : n + 1 < SliceSteps => n + 1 \in Steps
    /\ {0, 1, 2, 3} = Dispositions /\ Dispositions \subseteq Results \cap Published
    /\ {OwnerBusy, Error} \subseteq Results /\ None \in Published
    /\ \A r \in Published \ Dispositions : r = None
BY StartWorkAssumption
DEF Names, Counts, Steps, Dispositions, Results, Published, OwnerBusy, Error, None

(* The owner before start satisfies the inductive invariant. *)
LEMMA InitIInv == Init => IInv
<1> SUFFICES ASSUME Init PROVE IInv
  OBVIOUS
<1> USE Ranges DEF Init, NoTicket
<1>1. work \in WorkStates BY DEF WorkStates
<1>2. p \in TaskStates BY DEF TaskStates
<1>3. ticket \in Tickets BY DEF Tickets
<1>4. lane \in LaneStates BY DEF LaneStates
<1>5. life \in LifeStates BY DEF LifeStates
<1>6. TypeOK BY <1>1, <1>2, <1>3, <1>4, <1>5 DEF TypeOK
<1> QED BY <1>6 DEF IInv, InBounds, TicketOfTask, TicketOfLane, HandlesOfCaller, IrqQuiet

(* The inductive invariant contains the safety properties: a ticket that   *)
(* is live carries a name other than zero, so an owner that names none has *)
(* none, and without a ticket no slice is on the lane.                     *)
LEMMA IInvSafe == IInv => DestroyedQuiet /\ DeviceSerial /\ TicketNamed
<1> SUFFICES ASSUME IInv PROVE DestroyedQuiet /\ DeviceSerial /\ TicketNamed
  OBVIOUS
<1>1. ~work.task /\ work.completion = 0 => ticket.state = "none" /\ lane.pc = "idle"
  BY DEF IInv, TicketOfTask, TicketOfLane, HandlesOfCaller
<1>2. TicketNamed
  BY DEF IInv, TypeOK, TaskStates, TicketOfTask, TicketNamed
<1> QED BY <1>1, <1>2 DEF IInv, HandlesOfCaller, DestroyedQuiet, DeviceSerial

(* Every step of the pacing task preserves the invariant. *)
LEMMA PaceIInv == IInv /\ (Pace \/ WaitBroken) => IInv'
<1> SUFFICES ASSUME IInv, Pace \/ WaitBroken PROVE IInv'
  OBVIOUS
<1> USE Ranges DEF IInv, TypeOK, Go, Exit
<1>1. CASE Top
  <2>1. work' \in WorkStates BY <1>1 DEF Top, WorkStates
  <2>2. p' \in TaskStates BY <1>1 DEF Top, TaskStates
  <2>3. TypeOK' BY <1>1, <2>1, <2>2 DEF Top
  <2>4. TicketOfTask' BY <1>1 DEF Top, TicketOfTask, WorkStates, TaskStates
  <2>5. TicketOfLane' BY <1>1 DEF Top, TicketOfLane
  <2>6. HandlesOfCaller' BY <1>1 DEF Top, HandlesOfCaller, IrqQuiet, WorkStates, TaskStates
  <2>7. InBounds' BY <1>1 DEF Top, InBounds, TaskStates
  <2> QED BY <2>3, <2>4, <2>5, <2>6, <2>7
<1>2. CASE Submit
  <2>1. p' \in TaskStates
    <3>1. p.next \in Names /\ 3 - p.next \in Names \ {0} BY DEF TaskStates
    <3>2. CASE Exit BY <3>2 DEF TaskStates
    <3>3. CASE p' = [p EXCEPT !.pc = "publish", !.local = p.next, !.next = 3 - p.next]
      BY <3>1, <3>3 DEF TaskStates
    <3> QED BY <1>2, <3>2, <3>3 DEF Submit
  <2>2. ticket' \in Tickets
    <3>1. CASE UNCHANGED ticket BY <3>1
    <3>2. CASE ticket' = [id |-> p.next, state |-> "queued", result |-> 0, woken |-> FALSE]
      <4>1. p.next \in Names BY DEF TaskStates
      <4> QED BY <3>2, <4>1 DEF Tickets
    <3> QED BY <1>2, <3>1, <3>2 DEF Submit
  <2>3. TypeOK' BY <1>2, <2>1, <2>2 DEF Submit
  <2>4. TicketOfTask'
    <3>1. CASE Exit /\ UNCHANGED ticket BY <1>2, <3>1 DEF Submit, TicketOfTask, TaskStates
    <3>2. CASE /\ ticket' = [id |-> p.next, state |-> "queued", result |-> 0, woken |-> FALSE]
               /\ p' = [p EXCEPT !.pc = "publish", !.local = p.next, !.next = 3 - p.next]
      <4>1. p'.pc = "publish" /\ p'.local = p.next BY <3>2 DEF TaskStates
      <4>2. ticket'.state # "none" /\ ticket'.id = p.next BY <3>2
      <4> QED BY <1>2, <4>1, <4>2 DEF Submit, TicketOfTask
    <3> QED BY <1>2, <3>1, <3>2 DEF Submit
  <2>5. TicketOfLane' BY <1>2 DEF Submit, TicketOfLane, TicketOfTask, TaskStates, Tickets
  <2>6. HandlesOfCaller' BY <1>2 DEF Submit, HandlesOfCaller, IrqQuiet, TicketOfTask, TaskStates
  <2>7. InBounds' BY <1>2 DEF Submit, InBounds, TaskStates
  <2> QED BY <2>3, <2>4, <2>5, <2>6, <2>7
<1>3. CASE Publish
  <2>1. work' \in WorkStates BY <1>3 DEF Publish, WorkStates, TaskStates
  <2>2. p' \in TaskStates BY <1>3 DEF Publish, TaskStates
  <2>3. TypeOK' BY <1>3, <2>1, <2>2 DEF Publish
  <2>4. TicketOfTask' BY <1>3 DEF Publish, TicketOfTask, WorkStates, TaskStates
  <2>5. TicketOfLane' BY <1>3 DEF Publish, TicketOfLane
  <2>6. HandlesOfCaller' BY <1>3 DEF Publish, HandlesOfCaller, IrqQuiet, TicketOfTask, WorkStates, TaskStates
  <2>7. InBounds' BY <1>3 DEF Publish, InBounds, TaskStates
  <2> QED BY <2>3, <2>4, <2>5, <2>6, <2>7
<1>4. CASE Status
  <2>1. p' \in TaskStates
    <3>1. ticket.result \in Results BY DEF Tickets
    <3>2. ASSUME NEW s \in Results, p' = [p EXCEPT !.pc = "release", !.result = s] PROVE p' \in TaskStates
      BY <3>2 DEF TaskStates
    <3>3. CASE Exit BY <3>3 DEF TaskStates
    <3>4. CASE ~Final /\ p' = [p EXCEPT !.pc = "cancel", !.state = ticket.state]
      <4>1. ticket.state \in {"none", "queued", "running"} BY <3>4 DEF Final, Tickets
      <4> QED BY <3>4, <4>1 DEF TaskStates
    <3> QED BY <1>4, <3>1, <3>2, <3>3, <3>4 DEF Status
  <2>2. TypeOK' BY <1>4, <2>1 DEF Status
  <2>3. TicketOfTask' BY <1>4, ZenonT(60) DEF Status, TicketOfTask, Final, TaskStates
  <2>4. TicketOfLane' BY <1>4 DEF Status, TicketOfLane
  <2>5. HandlesOfCaller' BY <1>4 DEF Status, HandlesOfCaller, IrqQuiet, TaskStates
  <2>6. InBounds' BY <1>4 DEF Status, InBounds, TaskStates
  <2> QED BY <2>2, <2>3, <2>4, <2>5, <2>6
<1>5. CASE Release
  <2>1. p' \in TaskStates BY <1>5 DEF Release, TaskStates
  <2>2. ticket' \in Tickets
    <3>1. NoTicket \in Tickets BY DEF NoTicket, Tickets
    <3> QED BY <1>5, <3>1 DEF Release
  <2>3. TypeOK' BY <1>5, <2>1, <2>2 DEF Release
  <2>4. TicketOfTask' BY <1>5 DEF Release, TicketOfTask, NoTicket, TicketOfLane, TaskStates, Tickets
  <2>5. TicketOfLane' BY <1>5 DEF Release, TicketOfLane, NoTicket, Tickets
  <2>6. HandlesOfCaller' BY <1>5 DEF Release, HandlesOfCaller, IrqQuiet, TaskStates
  <2>7. InBounds' BY <1>5 DEF Release, InBounds, TaskStates
  <2> QED BY <2>3, <2>4, <2>5, <2>6, <2>7
<1>6. CASE Clear
  <2>1. work' \in WorkStates BY <1>6 DEF Clear, WorkStates
  <2>2. p' \in TaskStates BY <1>6 DEF Clear, TaskStates
  <2>3. TypeOK' BY <1>6, <2>1, <2>2 DEF Clear
  <2>4. TicketOfTask' BY <1>6 DEF Clear, TicketOfTask, WorkStates, TaskStates
  <2>5. TicketOfLane' BY <1>6 DEF Clear, TicketOfLane
  <2>6. HandlesOfCaller' BY <1>6 DEF Clear, HandlesOfCaller, IrqQuiet, WorkStates, TaskStates
  <2>7. InBounds' BY <1>6 DEF Clear, InBounds, TaskStates
  <2> QED BY <2>3, <2>4, <2>5, <2>6, <2>7
<1>7. CASE Cancel
  <2>1. p' \in TaskStates BY <1>7 DEF Cancel, TaskStates
  <2>2. ticket' \in Tickets BY <1>7 DEF Cancel, Tickets
  <2>3. TypeOK' BY <1>7, <2>1, <2>2 DEF Cancel
  <2>4. TicketOfTask' BY <1>7 DEF Cancel, TicketOfTask, TaskStates, Tickets
  <2>5. TicketOfLane' BY <1>7 DEF Cancel, TicketOfLane, Tickets
  <2>6. HandlesOfCaller' BY <1>7 DEF Cancel, HandlesOfCaller, IrqQuiet, TaskStates
  <2>7. InBounds' BY <1>7 DEF Cancel, InBounds, TaskStates
  <2> QED BY <2>3, <2>4, <2>5, <2>6, <2>7
<1>8. CASE Wait
  <2>1. p' \in TaskStates BY <1>8 DEF Wait, TaskStates
  <2>2. TypeOK' BY <1>8, <2>1 DEF Wait
  <2>3. TicketOfTask' BY <1>8 DEF Wait, TicketOfTask, Final, TaskStates
  <2>4. TicketOfLane' BY <1>8 DEF Wait, TicketOfLane
  <2>5. HandlesOfCaller' BY <1>8 DEF Wait, HandlesOfCaller, IrqQuiet, TaskStates
  <2>6. InBounds' BY <1>8 DEF Wait, InBounds, TaskStates
  <2> QED BY <2>2, <2>3, <2>4, <2>5, <2>6
<1>9. CASE WaitBroken
  <2>1. p' \in TaskStates BY <1>9 DEF WaitBroken, TaskStates
  <2>2. TypeOK' BY <1>9, <2>1 DEF WaitBroken
  <2>3. TicketOfTask' BY <1>9 DEF WaitBroken, TicketOfTask, Final, TaskStates
  <2>4. TicketOfLane' BY <1>9 DEF WaitBroken, TicketOfLane
  <2>5. HandlesOfCaller' BY <1>9 DEF WaitBroken, HandlesOfCaller, IrqQuiet, TaskStates
  <2>6. InBounds' BY <1>9 DEF WaitBroken, InBounds, TaskStates
  <2> QED BY <2>2, <2>3, <2>4, <2>5, <2>6
<1>10. CASE After
  <2>1. p' \in TaskStates
    <3>1. p.retries \in Counts /\ p.retries < OwnerRetries BY <1>10 DEF After, TaskStates, InBounds
    <3>2. p.retries + 1 \in Counts BY <3>1
    <3>3. CASE Exit BY <3>3 DEF TaskStates
    <3>4. ASSUME NEW c \in {"exit", "sleep", "top"}, NEW n \in Counts, p' = [p EXCEPT !.pc = c, !.retries = n]
          PROVE  p' \in TaskStates
      BY <3>4 DEF TaskStates
    <3> QED BY <1>10, <3>2, <3>3, <3>4 DEF After
  <2>2. TypeOK' BY <1>10, <2>1 DEF After
  <2>3. TicketOfTask' BY <1>10, ZenonT(60) DEF After, TicketOfTask, TaskStates
  <2>4. TicketOfLane' BY <1>10 DEF After, TicketOfLane
  <2>5. HandlesOfCaller' BY <1>10 DEF After, HandlesOfCaller, IrqQuiet, TaskStates
  <2>6. InBounds'
    <3>1. p.retries < OwnerRetries /\ p.retries \in Counts BY <1>10 DEF After, InBounds, TaskStates
    <3>2. CASE p.retries + 1 >= OwnerRetries
      BY <1>10, <3>1, <3>2 DEF After, InBounds, TaskStates
    <3>3. CASE ~(p.retries + 1 >= OwnerRetries)
      <4>1. p.retries + 1 < OwnerRetries
        BY <3>3, <3>1, StartWorkAssumption DEF Counts
      <4> QED BY <1>10, <3>1, <3>3, <4>1 DEF After, InBounds, TaskStates
    <3> QED BY <3>2, <3>3
  <2> QED BY <2>2, <2>3, <2>4, <2>5, <2>6
<1>11. CASE Sleep
  <2>1. p' \in TaskStates BY <1>11 DEF Sleep, TaskStates
  <2>2. TypeOK' BY <1>11, <2>1 DEF Sleep
  <2>3. TicketOfTask' BY <1>11 DEF Sleep, TicketOfTask, TaskStates
  <2>4. TicketOfLane' BY <1>11 DEF Sleep, TicketOfLane
  <2>5. HandlesOfCaller' BY <1>11 DEF Sleep, HandlesOfCaller, IrqQuiet, TaskStates
  <2>6. InBounds' BY <1>11 DEF Sleep, InBounds, TaskStates
  <2> QED BY <2>2, <2>3, <2>4, <2>5, <2>6
<1> QED BY <1>1, <1>2, <1>3, <1>4, <1>5, <1>6, <1>7, <1>8, <1>9, <1>10, <1>11 DEF Pace

(* Every step of the lane, the slice and the interrupt handler does. *)
LEMMA LaneIInv == IInv /\ (LaneTake \/ Lane \/ Interrupt) => IInv'
<1> SUFFICES ASSUME IInv, LaneTake \/ Lane \/ Interrupt PROVE IInv'
  OBVIOUS
<1> USE Ranges DEF IInv, TypeOK, Say
<1>1. CASE LaneTake
  <2>1. ticket' \in Tickets BY <1>1 DEF LaneTake, Tickets
  <2>2. lane' \in LaneStates BY <1>1 DEF LaneTake, LaneStates
  <2>3. TypeOK' BY <1>1, <2>1, <2>2 DEF LaneTake
  <2>4. TicketOfTask' BY <1>1 DEF LaneTake, TicketOfTask, TicketOfLane, Tickets
  <2>5. TicketOfLane' BY <1>1 DEF LaneTake, TicketOfLane, Tickets, LaneStates
  <2>6. HandlesOfCaller' BY <1>1 DEF LaneTake, HandlesOfCaller, IrqQuiet
  <2>7. InBounds' BY <1>1 DEF LaneTake, InBounds, LaneStates
  <2> QED BY <2>3, <2>4, <2>5, <2>6, <2>7
<1>2. CASE SliceCheck
  <2>1. lane' \in LaneStates BY <1>2 DEF SliceCheck, LaneStates
  <2>2. TypeOK' BY <1>2, <2>1 DEF SliceCheck
  <2>3. TicketOfTask' BY <1>2 DEF SliceCheck, TicketOfTask
  <2>4. TicketOfLane'
    <3>1. lane.pc # "idle" /\ lane'.pc # "idle" BY <1>2 DEF SliceCheck, LaneStates
    <3> QED BY <1>2, <3>1 DEF SliceCheck, TicketOfLane
  <2>5. HandlesOfCaller' BY <1>2 DEF SliceCheck, HandlesOfCaller, IrqQuiet
  <2>6. InBounds' BY <1>2 DEF SliceCheck, InBounds, LaneStates
  <2> QED BY <2>2, <2>3, <2>4, <2>5, <2>6
<1>3. CASE SliceStep
  <2>1. lane' \in LaneStates
    <3>1. ASSUME NEW s \in {0, 1, 2, 3}, Say(s) PROVE lane' \in LaneStates
      BY <3>1 DEF LaneStates
    <3>2. CASE lane.steps + 1 < SliceSteps /\ lane' = [lane EXCEPT !.pc = "check", !.steps = @ + 1]
      BY <3>2 DEF LaneStates
    <3> QED BY <1>3, <3>1, <3>2 DEF SliceStep
  <2>2. TypeOK' BY <1>3, <2>1 DEF SliceStep
  <2>3. TicketOfTask' BY <1>3 DEF SliceStep, TicketOfTask
  <2>4. TicketOfLane' BY <1>3 DEF SliceStep, TicketOfLane, LaneStates
  <2>5. HandlesOfCaller' BY <1>3 DEF SliceStep, HandlesOfCaller, IrqQuiet, TicketOfTask, TicketOfLane
  <2>6. InBounds' BY <1>3 DEF SliceStep, InBounds, LaneStates
  <2> QED BY <2>2, <2>3, <2>4, <2>5, <2>6
<1>4. CASE SlicePublish
  <2>1. work' \in WorkStates BY <1>4 DEF SlicePublish, WorkStates, InBounds, LaneStates
  <2>2. lane' \in LaneStates BY <1>4 DEF SlicePublish, LaneStates
  <2>3. TypeOK' BY <1>4, <2>1, <2>2 DEF SlicePublish
  <2>4. TicketOfTask' BY <1>4 DEF SlicePublish, TicketOfTask, WorkStates
  <2>5. TicketOfLane' BY <1>4 DEF SlicePublish, TicketOfLane, LaneStates
  <2>6. HandlesOfCaller' BY <1>4 DEF SlicePublish, HandlesOfCaller, IrqQuiet, WorkStates
  <2>7. InBounds' BY <1>4 DEF SlicePublish, InBounds, LaneStates
  <2> QED BY <2>3, <2>4, <2>5, <2>6, <2>7
<1>5. CASE SliceReturn
  <2>1. lane' \in LaneStates BY <1>5 DEF SliceReturn, LaneStates
  <2>2. ticket' \in Tickets BY <1>5 DEF SliceReturn, Tickets
  <2>3. TypeOK' BY <1>5, <2>1, <2>2 DEF SliceReturn
  <2>4. TicketOfTask' BY <1>5 DEF SliceReturn, TicketOfTask, TicketOfLane, Tickets
  <2>5. TicketOfLane' BY <1>5 DEF SliceReturn, TicketOfLane, LaneStates, Tickets
  <2>6. HandlesOfCaller' BY <1>5 DEF SliceReturn, HandlesOfCaller, IrqQuiet
  <2>7. InBounds' BY <1>5 DEF SliceReturn, InBounds, LaneStates
  <2> QED BY <2>3, <2>4, <2>5, <2>6, <2>7
<1>6. CASE PublishWake
  <2>1. ticket' \in Tickets BY <1>6 DEF PublishWake, Tickets
  <2>2. TypeOK' BY <1>6, <2>1 DEF PublishWake
  <2>3. TicketOfTask' BY <1>6 DEF PublishWake, TicketOfTask, TicketOfLane, Tickets
  <2>4. TicketOfLane' BY <1>6 DEF PublishWake, TicketOfLane, Final, Tickets
  <2>5. HandlesOfCaller' BY <1>6 DEF PublishWake, HandlesOfCaller, IrqQuiet
  <2>6. InBounds' BY <1>6 DEF PublishWake, InBounds
  <2> QED BY <2>2, <2>3, <2>4, <2>5, <2>6
<1>7. CASE Interrupt
  <2>1. TypeOK' BY <1>7 DEF Interrupt
  <2>2. TicketOfTask' BY <1>7 DEF Interrupt, TicketOfTask
  <2>3. TicketOfLane' BY <1>7 DEF Interrupt, TicketOfLane
  <2>4. HandlesOfCaller' BY <1>7 DEF Interrupt, HandlesOfCaller, IrqQuiet
  <2>5. InBounds' BY <1>7 DEF Interrupt, InBounds
  <2> QED BY <2>1, <2>2, <2>3, <2>4, <2>5
<1> QED BY <1>1, <1>2, <1>3, <1>4, <1>5, <1>6, <1>7 DEF Lane

(* Every step of the lifecycle caller does. *)
LEMMA LifeIInv == IInv /\ (Life \/ Calls) => IInv'
<1> SUFFICES ASSUME IInv, Life \/ Calls PROVE IInv'
  OBVIOUS
<1> USE Ranges DEF IInv, TypeOK, Return
<1>1. CASE Start
  <2>1. work' \in WorkStates BY <1>1 DEF Start, WorkStates
  <2>2. p' \in TaskStates BY <1>1 DEF Start, TaskStates
  <2>3. life' \in LifeStates BY <1>1 DEF Start, LifeStates
  <2>4. TypeOK' BY <1>1, <2>1, <2>2, <2>3 DEF Start
  <2>5. TicketOfTask' BY <1>1, ZenonT(60) DEF Start, TicketOfTask, HandlesOfCaller, WorkStates, TaskStates
  <2>6. TicketOfLane' BY <1>1 DEF Start, TicketOfLane
  <2>7. HandlesOfCaller' BY <1>1, ZenonT(60) DEF Start, HandlesOfCaller, IrqQuiet, TicketOfTask, WorkStates, TaskStates, LifeStates
  <2>8. InBounds' BY <1>1 DEF Start, InBounds, HandlesOfCaller, TaskStates
  <2> QED BY <2>4, <2>5, <2>6, <2>7, <2>8
<1>2. CASE LoadPending
  <2>1. life' \in LifeStates BY <1>2 DEF LoadPending, LifeStates, WorkStates
  <2>2. TypeOK' BY <1>2, <2>1 DEF LoadPending
  <2>3. TicketOfTask' BY <1>2 DEF LoadPending, TicketOfTask
  <2>4. TicketOfLane' BY <1>2 DEF LoadPending, TicketOfLane
  <2>5. HandlesOfCaller' BY <1>2 DEF LoadPending, HandlesOfCaller, IrqQuiet, LifeStates
  <2>6. InBounds' BY <1>2 DEF LoadPending, InBounds
  <2> QED BY <2>2, <2>3, <2>4, <2>5, <2>6
<1>3. CASE CancelPending
  <2>1. ticket' \in Tickets BY <1>3 DEF CancelPending, Tickets
  <2>2. life' \in LifeStates BY <1>3 DEF CancelPending, LifeStates
  <2>3. TypeOK' BY <1>3, <2>1, <2>2 DEF CancelPending
  <2>4. TicketOfTask' BY <1>3 DEF CancelPending, TicketOfTask, TicketOfLane, Tickets
  <2>5. TicketOfLane' BY <1>3 DEF CancelPending, TicketOfLane, Tickets
  <2>6. HandlesOfCaller' BY <1>3 DEF CancelPending, HandlesOfCaller, IrqQuiet, LifeStates
  <2>7. InBounds' BY <1>3 DEF CancelPending, InBounds
  <2> QED BY <2>3, <2>4, <2>5, <2>6, <2>7
<1>4. CASE Join
  <2>1. work' \in WorkStates BY <1>4 DEF Join, WorkStates
  <2>2. life' \in LifeStates BY <1>4 DEF Join, LifeStates
  <2>3. TypeOK' BY <1>4, <2>1, <2>2 DEF Join
  <2>4. TicketOfTask' BY <1>4 DEF Join, TicketOfTask, TicketOfLane, HandlesOfCaller, WorkStates
  <2>5. TicketOfLane' BY <1>4 DEF Join, TicketOfLane
  <2>6. HandlesOfCaller' BY <1>4 DEF Join, HandlesOfCaller, IrqQuiet, WorkStates, LifeStates
  <2>7. InBounds' BY <1>4 DEF Join, InBounds
  <2> QED BY <2>3, <2>4, <2>5, <2>6, <2>7
<1>5. CASE OwnStepEnds
  <2>1. life' \in LifeStates BY <1>5 DEF OwnStepEnds, LifeStates
  <2>2. TypeOK' BY <1>5, <2>1 DEF OwnStepEnds
  <2>3. TicketOfTask' BY <1>5 DEF OwnStepEnds, TicketOfTask
  <2>4. TicketOfLane' BY <1>5 DEF OwnStepEnds, TicketOfLane
  <2>5. HandlesOfCaller' BY <1>5 DEF OwnStepEnds, HandlesOfCaller, IrqQuiet, LifeStates
  <2>6. InBounds' BY <1>5 DEF OwnStepEnds, InBounds
  <2> QED BY <2>2, <2>3, <2>4, <2>5, <2>6
<1>6. CASE Stop
  <2>1. work' \in WorkStates BY <1>6 DEF Stop, WorkStates
  <2>2. life' \in LifeStates BY <1>6 DEF Stop, LifeStates
  <2>3. TypeOK' BY <1>6, <2>1, <2>2 DEF Stop
  <2>4. TicketOfTask' BY <1>6 DEF Stop, TicketOfTask, WorkStates
  <2>5. TicketOfLane' BY <1>6 DEF Stop, TicketOfLane
  <2>6. HandlesOfCaller' BY <1>6 DEF Stop, HandlesOfCaller, IrqQuiet, WorkStates, LifeStates
  <2>7. InBounds' BY <1>6 DEF Stop, InBounds
  <2> QED BY <2>3, <2>4, <2>5, <2>6, <2>7
<1>7. CASE Pause
  <2>1. work' \in WorkStates BY <1>7 DEF Pause, WorkStates
  <2>2. p' \in TaskStates BY <1>7, ZenonT(60) DEF Pause, TaskStates
  <2>3. life' \in LifeStates BY <1>7 DEF Pause, LifeStates
  <2>4. TypeOK' BY <1>7, <2>1, <2>2, <2>3 DEF Pause
  <2>5. TicketOfTask' BY <1>7 DEF Pause, TicketOfTask, WorkStates, TaskStates
  <2>6. TicketOfLane' BY <1>7 DEF Pause, TicketOfLane
  <2>7. HandlesOfCaller' BY <1>7 DEF Pause, HandlesOfCaller, IrqQuiet, WorkStates, TaskStates, LifeStates
  <2>8. InBounds' BY <1>7 DEF Pause, InBounds, TaskStates
  <2> QED BY <2>4, <2>5, <2>6, <2>7, <2>8
<1>8. CASE OwnStep
  <2>1. life' \in LifeStates BY <1>8 DEF OwnStep, LifeStates
  <2>2. TypeOK' BY <1>8, <2>1 DEF OwnStep
  <2>3. TicketOfTask' BY <1>8 DEF OwnStep, TicketOfTask
  <2>4. TicketOfLane' BY <1>8 DEF OwnStep, TicketOfLane
  <2>5. HandlesOfCaller' BY <1>8 DEF OwnStep, HandlesOfCaller, IrqQuiet, LifeStates
  <2>6. InBounds' BY <1>8 DEF OwnStep, InBounds
  <2> QED BY <2>2, <2>3, <2>4, <2>5, <2>6
<1>9. CASE GiveUp
  <2>1. life' \in LifeStates BY <1>9 DEF GiveUp, LifeStates
  <2>2. TypeOK' BY <1>9, <2>1 DEF GiveUp
  <2>3. TicketOfTask' BY <1>9 DEF GiveUp, TicketOfTask
  <2>4. TicketOfLane' BY <1>9 DEF GiveUp, TicketOfLane
  <2>5. HandlesOfCaller' BY <1>9 DEF GiveUp, HandlesOfCaller, IrqQuiet, LifeStates
  <2>6. InBounds' BY <1>9 DEF GiveUp, InBounds
  <2> QED BY <2>2, <2>3, <2>4, <2>5, <2>6
<1>10. CASE FinishPause
  <2>1. work' \in WorkStates
    <3>1. CASE work' = [work EXCEPT !.alive = FALSE, !.sem = FALSE, !.stopping = FALSE]
      BY <3>1 DEF WorkStates
    <3>2. CASE work' = work
      BY <3>2
    <3> QED BY <1>10, <3>1, <3>2 DEF FinishPause
  <2>2. life' \in LifeStates BY <1>10 DEF FinishPause, LifeStates
  <2>3. TypeOK' BY <1>10, <2>1, <2>2 DEF FinishPause
  <2>4. TicketOfTask' BY <1>10 DEF FinishPause, TicketOfTask, WorkStates
  <2>5. TicketOfLane' BY <1>10 DEF FinishPause, TicketOfLane
  <2>6. HandlesOfCaller' BY <1>10 DEF FinishPause, HandlesOfCaller, IrqQuiet, WorkStates, LifeStates
  <2>7. InBounds' BY <1>10 DEF FinishPause, InBounds
  <2> QED BY <2>3, <2>4, <2>5, <2>6, <2>7
<1> QED BY <1>1, <1>2, <1>3, <1>4, <1>5, <1>6, <1>7, <1>8, <1>9, <1>10 DEF Life, Calls

(* The inductive invariant holds in every behaviour. *)
THEOREM Invariance == Spec => []IInv
<1>1. IInv /\ UNCHANGED vars => IInv'
  BY DEF vars, IInv, TypeOK, InBounds, TicketOfTask, TicketOfLane, HandlesOfCaller, IrqQuiet
<1>2. IInv /\ [Next]_vars => IInv'
  BY <1>1, PaceIInv, LaneIInv, LifeIInv DEF Next
<1> QED BY InitIInv, <1>2, PTL DEF Spec

(* finishPause destroys the semaphore only when the task, the lane and the *)
(* interrupt handler are done with it, whatever the slice length, the      *)
(* retry budget and the kernel's failures.                                 *)
THEOREM SemaphoreOutlives == Spec => []DestroyedQuiet
BY Invariance, IInvSafe, PTL

(* The lifecycle caller steps the device only when no slice can. *)
THEOREM DeviceSteppedAlone == Spec => []DeviceSerial
BY Invariance, IInvSafe, PTL

(* A pause hands over a quiet device, for every slice length and retry budget. *)
THEOREM PauseIsQuiet == Spec => []PauseQuiet
<1>1. DestroyedQuiet /\ DeviceSerial => PauseQuiet BY DEF PauseQuiet
<1> QED BY <1>1, SemaphoreOutlives, DeviceSteppedAlone, PTL

(* A ticket the kernel knows is named by the owner until it is released. *)
THEOREM TicketNeverForgotten == Spec => []TicketNamed
BY Invariance, IInvSafe, PTL

(* The state of task, ticket, lane and caller keeps its type. *)
THEOREM TypeCorrect == Spec => []TypeOK
BY Invariance, PTL DEF IInv
============================================================================
