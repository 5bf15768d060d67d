------------------------------ MODULE StartWork ------------------------------
(***************************************************************************)
(* The pacing of the device (gsp_start_work.zig).  A dedicated task hands  *)
(* one bounded slice at a time to the kernel's shared work lane, sleeps on *)
(* its completion and then on a semaphore that the interrupt handler       *)
(* posts.  The lifecycle caller pauses this machinery, joins the task,     *)
(* steps the device itself during shutdown and finally destroys the        *)
(* semaphore.  Task, lane, interrupt handler and lifecycle caller          *)
(* interleave between every two accesses to what they share.               *)
(*                                                                         *)
(* The kernel services (threads, owned work, completions, semaphores) are  *)
(* external: they may refuse, time out, publish a final state before its   *)
(* wake, or leave a queued ticket behind another driver's work for ever.   *)
(* A completion is named 1 or 2 in turn: the kernel does not give a name   *)
(* that was just released to the next submission.                          *)
(***************************************************************************)
EXTENDS Naturals

CONSTANTS
    SliceSteps,   \* device steps of one slice
    OwnerRetries  \* busy answers in a row before pacing gives up

ASSUME StartWorkAssumption ==
    SliceSteps \in Nat \ {0} /\ OwnerRetries \in Nat \ {0}

VARIABLES
    work,     \* the shared owner: handles, stopping, completion, disposition
    p,        \* the pacing task
    ticket,   \* the kernel's record of the submitted work
    lane,     \* the slice callback on the shared work lane
    life,     \* the lifecycle caller
    permit,   \* the semaphore's count
    irq,      \* the interrupt endpoint: "none", "open" or "closed"
    message,  \* firmware has something the device has not looked at
    faults    \* whether kernel services may fail or time out in this behaviour

vars == <<work, p, ticket, lane, life, permit, irq, message, faults>>

None == 9                                  \* an unpublished disposition
OwnerBusy == 7                             \* driver_work_owner_busy
Error == 8                                 \* a negative result
NoTicket == [id |-> 0, state |-> "none", result |-> 0, woken |-> FALSE]
Dispositions == 0 .. 3

Final == ticket.state \in {"completed", "cancelled"}
IrqQuiet == irq # "open"

------------------------------------------------------------------------------
Init ==
    /\ work = [alive |-> FALSE, stopping |-> FALSE, completion |-> 0, disposition |-> None,
               task |-> FALSE, sem |-> FALSE]
    /\ p = [pc |-> "none", local |-> 0, state |-> "none", result |-> 0, retries |-> 0,
            told |-> FALSE, next |-> 1]
    /\ ticket = NoTicket
    /\ lane = [pc |-> "idle", steps |-> 0, said |-> 0]
    /\ life = [pc |-> "unstarted", pending |-> 0]
    /\ permit = 0
    /\ irq = "none"
    /\ message = FALSE
    /\ faults \in BOOLEAN

\* Work.start: the semaphore, the wake of the device, the task; each can fail.
Start ==
    /\ life.pc = "unstarted"
    /\ life' = [life EXCEPT !.pc = "idle"]
    /\ \/ work' = [work EXCEPT !.alive = TRUE, !.sem = TRUE, !.task = TRUE] /\ p' = [p EXCEPT !.pc = "top"]
       \/ faults /\ work' = [work EXCEPT !.alive = TRUE] /\ UNCHANGED p
       \/ faults /\ work' = [work EXCEPT !.alive = TRUE, !.sem = TRUE] /\ UNCHANGED p
    /\ UNCHANGED <<ticket, lane, permit, irq, message>>

------------------------------------------------------------------------------
(* The pacing task *)

Exit == p' = [p EXCEPT !.pc = "exit"]
Go(pc) == p' = [p EXCEPT !.pc = pc]

\* The loop test, and the disposition cleared for the next callback.
Top ==
    /\ p.pc = "top"
    /\ \/ work.stopping /\ Exit /\ UNCHANGED work
       \/ /\ ~work.stopping
          /\ Go("submit")
          /\ work' = IF work.completion = 0 THEN [work EXCEPT !.disposition = None] ELSE work
    /\ UNCHANGED <<ticket, lane, life, permit, irq, message>>

Submit ==
    /\ p.pc = "submit"
    /\ \/ (faults \/ work.completion # 0) /\ Exit /\ UNCHANGED ticket
       \/ /\ work.completion = 0
          /\ ticket' = [id |-> p.next, state |-> "queued", result |-> 0, woken |-> FALSE]
          /\ p' = [p EXCEPT !.pc = "publish", !.local = p.next, !.next = 3 - p.next]
    /\ UNCHANGED <<work, lane, life, permit, irq, message>>

Publish ==
    /\ p.pc = "publish"
    /\ work' = [work EXCEPT !.completion = p.local]
    /\ Go("status")
    /\ UNCHANGED <<ticket, lane, life, permit, irq, message>>

\* finish: a final state keeps the kernel's result or the callback's own
\* disposition; a missing one keeps the ticket.
Status ==
    /\ p.pc = "status"
    /\ LET own == ticket.state = "completed" /\ ticket.result = 0
       IN  \/ (faults \/ (own /\ work.disposition \notin Dispositions)) /\ Exit
           \/ /\ Final /\ (own => work.disposition \in Dispositions)
              /\ p' = [p EXCEPT !.pc = "release",
                                !.result = IF own THEN work.disposition ELSE ticket.result]
           \/ ~Final /\ p' = [p EXCEPT !.pc = "cancel", !.state = ticket.state]
    /\ UNCHANGED <<work, ticket, lane, life, permit, irq, message>>

\* The ticket is released first; a state published before its wake is retried.
Release ==
    /\ p.pc = "release"
    /\ \/ ticket.woken /\ ticket' = NoTicket /\ Go("clear")
       \/ ~ticket.woken /\ Go("status") /\ UNCHANGED ticket
       \/ faults /\ Exit /\ UNCHANGED ticket
    /\ UNCHANGED <<work, lane, life, permit, irq, message>>

Clear ==
    /\ p.pc = "clear"
    /\ work' = [work EXCEPT !.completion = 0, !.disposition = None]
    /\ Go("after")
    /\ UNCHANGED <<ticket, lane, life, permit, irq, message>>

\* Mutant: workCancel is never called for the task's own queued ticket.
CancelNever ==
    /\ p.pc = "cancel"
    /\ UNCHANGED ticket
    /\ Go("wait")
    /\ UNCHANGED <<work, lane, life, permit, irq, message>>

\* A stop that preceded the publication is honoured here.
Cancel ==
    /\ p.pc = "cancel"
    /\ ticket' = IF work.stopping /\ p.state = "queued" /\ ticket.state = "queued"
                 THEN [ticket EXCEPT !.state = "cancelled", !.result = Error] ELSE ticket
    /\ Go("wait")
    /\ UNCHANGED <<work, lane, life, permit, irq, message>>

\* completionWait wakes on the final state.
Wait ==
    /\ p.pc = "wait"
    /\ Final /\ ticket.woken
    /\ Go("status")
    /\ UNCHANGED <<work, ticket, lane, life, permit, irq, message>>

\* Mutant: a timed-out ticket is no longer the task's concern.
WaitAbandons ==
    /\ p.pc = "wait"
    /\ \/ p.told /\ work.stopping /\ Go("status") /\ UNCHANGED work
       \/ faults /\ Exit /\ work' = [work EXCEPT !.completion = 0]
    /\ UNCHANGED <<ticket, lane, life, permit, irq, message>>

\* A stopped task may have its wait cancelled; a timeout keeps the ticket
\* unless the final state won the race.
WaitBroken ==
    /\ p.pc = "wait"
    /\ \/ p.told /\ work.stopping /\ Go("status")
       \/ faults /\ IF Final THEN Go("status") ELSE Exit
    /\ UNCHANGED <<work, ticket, lane, life, permit, irq, message>>

\* Mutant: a busy lifecycle owner is an error of the work lane.
AfterBusyFatal ==
    /\ p.pc = "after"
    /\ \/ p.result \in {1, Error, OwnerBusy} /\ Exit
       \/ p.result = 3 /\ p' = [p EXCEPT !.pc = "top", !.retries = 0]
       \/ p.result \in {0, 2} /\ p' = [p EXCEPT !.pc = "sleep", !.retries = 0]
    /\ UNCHANGED <<work, ticket, lane, life, permit, irq, message>>

After ==
    /\ p.pc = "after"
    /\ \/ p.result \in {1, Error} /\ Exit
       \/ /\ p.result = OwnerBusy
          /\ p' = [p EXCEPT !.pc = IF p.retries + 1 >= OwnerRetries THEN "exit" ELSE "sleep", !.retries = @ + 1]
       \/ p.result = 3 /\ p' = [p EXCEPT !.pc = "top", !.retries = 0]
       \/ p.result \in {0, 2} /\ p' = [p EXCEPT !.pc = "sleep", !.retries = 0]
    /\ UNCHANGED <<work, ticket, lane, life, permit, irq, message>>

\* A permit or the finite timeout; a stopped task's wait is cancelled.
Sleep ==
    /\ p.pc = "sleep"
    /\ \/ permit = 1 /\ permit' = 0 /\ Go("top")
       \/ permit = 0 /\ Go("top") /\ UNCHANGED permit
       \/ (faults \/ p.told) /\ Exit /\ UNCHANGED permit
    /\ UNCHANGED <<work, ticket, lane, life, irq, message>>

Pace == Top \/ Submit \/ Publish \/ Status \/ Release \/ Clear \/ Cancel \/ Wait \/ After \/ Sleep

------------------------------------------------------------------------------
(* The shared work lane, the slice callback and the interrupt handler *)

\* The lane takes the ticket up, or finds the lifecycle owner busy.
LaneTake ==
    /\ ticket.state = "queued"
    /\ \/ /\ ticket' = [ticket EXCEPT !.state = "running"]
          /\ lane' = [lane EXCEPT !.pc = "check", !.steps = 0]
       \/ /\ ticket' = [ticket EXCEPT !.state = "completed", !.result = OwnerBusy]
          /\ UNCHANGED lane
    /\ UNCHANGED <<work, p, life, permit, irq, message>>

Say(r) == lane' = [lane EXCEPT !.pc = "publish", !.said = r]

\* slice: the stop test before every step; a clock failure publishes nothing.
SliceCheck ==
    /\ lane.pc = "check"
    /\ \/ work.stopping /\ Say(1)
       \/ ~work.stopping /\ lane' = [lane EXCEPT !.pc = "device"]
       \/ faults /\ lane' = [lane EXCEPT !.pc = "return", !.said = Error]
    /\ UNCHANGED <<work, p, ticket, life, permit, irq, message>>

\* One device step.  It drains what firmware posted and may open, close or
\* reset the interrupt endpoint.
SliceStep ==
    /\ lane.pc = "device"
    /\ \/ \E r \in {0, 1, 2} : Say(r)
       \/ Say(3)
       \/ lane.steps + 1 < SliceSteps /\ lane' = [lane EXCEPT !.pc = "check", !.steps = @ + 1]
    /\ \E i \in {"none", "open", "closed"} : (irq = "open" => i # "none") /\ irq' = i
    /\ message' = FALSE
    /\ UNCHANGED <<work, p, ticket, life, permit>>

\* completeSlice
SlicePublish ==
    /\ lane.pc = "publish"
    /\ work' = [work EXCEPT !.disposition = lane.said]
    /\ lane' = [lane EXCEPT !.pc = "return"]
    /\ UNCHANGED <<p, ticket, life, permit, irq, message>>

SliceReturn ==
    /\ lane.pc = "return"
    /\ lane' = [lane EXCEPT !.pc = "idle"]
    /\ ticket' = [ticket EXCEPT !.state = "completed",
                                !.result = IF lane.said = Error THEN Error ELSE 0]
    /\ UNCHANGED <<work, p, life, permit, irq, message>>

\* The kernel publishes the wake of a final state.
PublishWake ==
    /\ Final /\ ~ticket.woken
    /\ ticket' = [ticket EXCEPT !.woken = TRUE]
    /\ UNCHANGED <<work, p, lane, life, permit, irq, message>>

\* Firmware posts; an open endpoint's handler calls wake, whose permits coalesce.
Interrupt ==
    /\ ~message /\ message' = TRUE
    /\ permit' = IF irq = "open" THEN 1 ELSE permit
    /\ UNCHANGED <<work, p, ticket, lane, life, irq>>

Lane == SliceCheck \/ SliceStep \/ SlicePublish \/ SliceReturn \/ PublishWake

------------------------------------------------------------------------------
(* The lifecycle caller *)

Return == life' = [life EXCEPT !.pc = "idle"]

\* stop (closeBootInit): no new slices, then the device closes its interrupt
\* endpoint.  Owned work holds the driver's lifecycle guard, so no slice is in
\* the device while this call is.
Stop ==
    /\ life.pc = "idle" /\ work.alive
    /\ lane.pc # "device"
    /\ work' = [work EXCEPT !.stopping = TRUE]
    /\ \/ irq' = (IF irq = "open" THEN "closed" ELSE irq) /\ life' = [life EXCEPT !.pc = "pause"]
       \/ faults /\ Return /\ UNCHANGED irq
    /\ UNCHANGED <<p, ticket, lane, permit, message>>

\* pause: stopping, the wake, the thread stop.
Pause ==
    /\ life.pc \in {"idle", "pause"} /\ work.alive
    /\ work' = [work EXCEPT !.stopping = TRUE]
    /\ permit' = IF work.sem THEN 1 ELSE permit
    /\ \/ ~work.task /\ life' = [life EXCEPT !.pc = IF work.completion = 0 THEN "paused" ELSE "idle"] /\ UNCHANGED p
       \/ work.task /\ p' = [p EXCEPT !.told = TRUE] /\ life' = [life EXCEPT !.pc = "load"]
       \/ work.task /\ faults /\ Return /\ UNCHANGED p
    /\ UNCHANGED <<ticket, lane, irq, message>>

LoadPending ==
    /\ life.pc = "load"
    /\ life' = [life EXCEPT !.pc = "cancel", !.pending = work.completion]
    /\ UNCHANGED <<work, p, ticket, lane, permit, irq, message>>

\* workCancel acts on a queued ticket of exactly this name.
CancelPending ==
    /\ life.pc = "cancel"
    /\ ticket' = IF ticket.state = "queued" /\ ticket.id = life.pending
                 THEN [ticket EXCEPT !.state = "cancelled", !.result = Error] ELSE ticket
    /\ life' = [life EXCEPT !.pc = "join", !.pending = 0]
    /\ UNCHANGED <<work, p, lane, permit, irq, message>>

\* The bounded join, the retained ticket, and the task's retirement.
Join ==
    /\ life.pc = "join"
    /\ \/ /\ p.pc = "exit" /\ work.completion = 0
          /\ work' = [work EXCEPT !.task = FALSE]
          /\ life' = [life EXCEPT !.pc = "paused"]
       \/ (faults \/ (p.pc = "exit" /\ work.completion # 0)) /\ Return /\ UNCHANGED work
    /\ UNCHANGED <<p, ticket, lane, permit, irq, message>>

\* shutdownNative steps the device itself once pacing is drained.
OwnStep ==
    /\ life.pc = "paused"
    /\ life' = [life EXCEPT !.pc = "device"]
    /\ UNCHANGED <<work, p, ticket, lane, permit, irq, message>>

OwnStepEnds ==
    /\ life.pc = "device"
    /\ life' = [life EXCEPT !.pc = "paused"]
    /\ irq' \in {irq} \cup (IF irq = "open" THEN {"closed"} ELSE {})
    /\ message' = FALSE
    /\ UNCHANGED <<work, p, ticket, lane, permit>>

\* The shutdown attempt ends without terminal retirement.
GiveUp ==
    /\ life.pc = "paused"
    /\ faults /\ Return
    /\ UNCHANGED <<work, p, ticket, lane, permit, irq, message>>

\* finishPause: only then is the semaphore destroyed and the owner forgotten.
FinishPause ==
    /\ life.pc \in {"idle", "paused"} /\ work.alive
    /\ ~work.task /\ work.completion = 0 /\ work.stopping
    /\ IrqQuiet
    /\ \/ work' = [work EXCEPT !.alive = FALSE, !.sem = FALSE, !.stopping = FALSE] /\ permit' = 0
       \/ faults /\ UNCHANGED <<work, permit>>
    /\ Return
    /\ UNCHANGED <<p, ticket, lane, irq, message>>

Life == Start \/ LoadPending \/ CancelPending \/ Join \/ OwnStepEnds
Calls == Stop \/ Pause \/ OwnStep \/ GiveUp \/ FinishPause

Next ==
    /\ Pace \/ WaitBroken \/ LaneTake \/ Lane \/ Interrupt \/ Life \/ Calls
    /\ UNCHANGED faults

Spec == Init /\ [][Next]_vars

\* The task, a slice already running and a call already made go on; the lane
\* owes nobody to take a queued ticket up.
FairSpec ==
    /\ Spec /\ WF_vars(Pace /\ UNCHANGED faults) /\ WF_vars(Lane /\ UNCHANGED faults)
    /\ WF_vars(Life /\ UNCHANGED faults)

------------------------------------------------------------------------------
Names == 0 .. 2
Counts == 0 .. OwnerRetries
Steps == 0 .. SliceSteps - 1
Results == Dispositions \cup {OwnerBusy, Error}
Published == Dispositions \cup {None}
WorkStates ==
    [alive : BOOLEAN, stopping : BOOLEAN, completion : Names,
     disposition : Published, task : BOOLEAN, sem : BOOLEAN]
TaskStates ==
    [pc : {"none", "top", "submit", "publish", "status", "release", "clear", "cancel", "wait",
           "after", "sleep", "exit"},
     local : Names, state : {"none", "queued", "running"},
     result : Results, retries : Counts,
     told : BOOLEAN, next : Names \ {0}]
Tickets ==
    [id : Names, state : {"none", "queued", "running", "completed", "cancelled"},
     result : Results, woken : BOOLEAN]
LaneStates ==
    [pc : {"idle", "check", "device", "publish", "return"}, steps : Steps,
     said : Results]
LifeStates ==
    [pc : {"unstarted", "idle", "pause", "load", "cancel", "join", "paused", "device"},
     pending : Names]

\* Handles, tickets, results and program counters keep their ranges; the retry
\* count of a busy owner stops at its budget.
TypeOK ==
    /\ work \in WorkStates /\ p \in TaskStates /\ ticket \in Tickets
    /\ lane \in LaneStates /\ life \in LifeStates
    /\ permit \in {0, 1} /\ irq \in {"none", "open", "closed"} /\ message \in BOOLEAN

\* finishPause destroys the wake semaphore and forgets the owner while nobody
\* can reach them any more: the pacing task is over, no ticket of it is queued
\* or running on the lane, no slice is inside, and the interrupt handler that
\* would post the semaphore is closed.
DestroyedQuiet ==
    (~work.alive /\ life.pc # "unstarted") =>
        /\ p.pc \in {"none", "exit"}
        /\ ticket.state = "none" /\ lane.pc = "idle"
        /\ IrqQuiet

\* shutdownNative steps the device itself after pause: never while a slice is
\* still on the lane, even when the pacing task timed out and left its ticket.
DeviceSerial == life.pc \in {"paused", "device"} => lane.pc = "idle" /\ ticket.state = "none"

\* A pause hands over a quiet device: nobody steps it beside the caller, and
\* what the task, the lane and the handler used is destroyed only behind them
\* (pause, finishPause, shutdownNative).
PauseQuiet == DestroyedQuiet /\ DeviceSerial

\* A ticket the kernel still knows is named by the owner from its publication
\* to its release, so that a later pause can find, cancel or keep it.
TicketNamed ==
    (ticket.state # "none" /\ p.pc # "publish") => work.completion = ticket.id

\* pause does not depend on the shared lane: once the lifecycle caller waits in
\* join, the task ends with its ticket drained although a queued slice may stay
\* behind another driver's work for ever and the stop may come at any point of
\* the task's loop.
StopJoins ==
    (life.pc = "join" /\ ~faults) ~> p.pc = "exit" /\ work.completion = 0

\* A message is never left behind by pacing: whatever slices, requeues, sleeps
\* and busy answers of the lifecycle owner lie in between, what firmware posted
\* is looked at by a device step while the lane keeps taking tickets up, unless
\* the driver is stopping, the device stopped its own pacing, or the owner
\* stayed busy for the whole retry budget.
MessageServed ==
    WF_vars(LaneTake /\ UNCHANGED faults) =>
        ((message /\ work.task /\ ~faults) ~>
            (~message \/ work.stopping \/ p.result = 1 \/ p.retries = OwnerRetries))

==============================================================================
