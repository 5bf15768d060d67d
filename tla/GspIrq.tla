------------------------------- MODULE GspIrq -------------------------------
(***************************************************************************)
(* The GSP interrupt endpoint, src/gsp_irq.zig: open, configureDisplay and *)
(* close run in the serialized device worker, interrupt() on any CPU at    *)
(* any time.  `gate` is the only lock: 0 disabled, 1 admitted, 2 handler   *)
(* (or display setup) active, 3 it must retire.  Each step is one register *)
(* access group or one atomic operation.                                   *)
(*                                                                         *)
(* The device is modelled from the registers the code uses: a message sets *)
(* the falcon status bit, whose rising edge latches the leaf; an armed and *)
(* allowed leaf interrupts; retrigger latches the leaf again while a       *)
(* status bit is set.  An MSI is sent once per request, when armed, allowed *)
(* and latched first hold together; a shared line is level triggered and   *)
(* also calls the handler for other devices.  Once the display is enabled  *)
(* its own leaf interrupts too, whenever the device likes.                 *)
(***************************************************************************)
EXTENDS Naturals, FiniteSets

CONSTANTS Cpus,           \* CPUs that may run the handler
          Worker,         \* the serialized device worker
          MaxRefusals,    \* bound: kernel calls that refuse a close
          MaxSetups       \* display set-ups: one enable, then one per added head

ASSUME IrqAssumption == Worker \notin Cpus /\ MaxRefusals \in Nat /\ MaxSetups \in Nat

VARIABLES gate, fault, pc, found, tries, setups, shown,
          armed, allow, leaf, fired, status, odd, gone, \* device
          lease, touched, registered, msi, closed, refusals,  \* resources
          wake, unseen, upset                           \* semaphore, messages, history

vars == <<gate, fault, pc, found, tries, setups, shown, armed, allow, leaf, fired, status, odd,
          gone, lease, touched, registered, msi, closed, refusals, wake, unseen, upset>>
hw == <<armed, allow, leaf, fired, status, odd, gone>>
cl == <<tries, setups, shown>>
res == <<lease, touched, registered, msi, closed, refusals>>
msg == <<wake, unseen>>

Actors == Cpus \cup {Worker}
(* Program points at which an actor holds the gate and touches registers.  *)
Body == {"unarm", "look", "status", "ack", "retrigger", "signal", "leave", "rearm", "drop",
         "display"}
Opening == {"unopened", "block", "route", "register", "clear", "allow", "forget", "admit", "arm"}
Closing == {"closing", "retire", "quiet", "unregister", "unroute", "release"}

Init ==
    /\ gate = 0 /\ fault = FALSE /\ tries = 0 /\ setups = 0 /\ shown = FALSE
    /\ pc = [a \in Actors |-> IF a = Worker THEN "unopened" ELSE "idle"]
    /\ found = [a \in Actors |-> {}]
    /\ armed = TRUE /\ allow = TRUE /\ leaf \in BOOLEAN /\ status \in BOOLEAN
    /\ fired = FALSE /\ odd = FALSE /\ gone = FALSE
    /\ lease = FALSE /\ touched = FALSE /\ registered = FALSE /\ msi = "off" /\ closed = FALSE /\ refusals = 0
    /\ wake = FALSE /\ unseen = FALSE /\ upset = FALSE

At(a, p) == pc[a] = p
Goto(a, p) == pc' = [pc EXCEPT ![a] = p]
(* latch(): only that there was a first fault matters, not which. *)
Latch == fault' = TRUE
(* flush(): a removed device is a fault. *)
Flush == IF gone THEN Latch ELSE UNCHANGED fault

-----------------------------------------------------------------------------

(* open(), in the order of its effects; any step may fail, and the owner   *)
(* then closes what was acquired.                                          *)
Acquire ==
    /\ At(Worker, "unopened")
    /\ \/ Goto(Worker, "block") /\ lease' = TRUE
       \/ Goto(Worker, "closing") /\ UNCHANGED lease
    /\ UNCHANGED <<gate, fault, found, cl, hw, touched, registered, msi, closed, refusals, msg, upset>>

Block ==
    /\ At(Worker, "block")
    /\ touched' = TRUE /\ armed' = FALSE /\ allow' = FALSE
    /\ Goto(Worker, IF gone THEN "closing" ELSE "route")
    /\ fired' = FALSE
    /\ UNCHANGED <<gate, fault, found, cl, leaf, status, odd, gone, lease, registered, msi, closed, refusals, msg, upset>>

(* MSI if the kernel grants it, the line otherwise; an unknown status      *)
(* leaves the routing uncertain.                                           *)
Route ==
    /\ At(Worker, "route")
    /\ \/ msi' = "on" /\ Goto(Worker, "register")
       \/ msi' = "off" /\ (Goto(Worker, "register") \/ Goto(Worker, "closing"))
       \/ msi' = "uncertain" /\ Goto(Worker, "closing")
    /\ UNCHANGED <<gate, fault, found, cl, hw, lease, touched, registered, closed, refusals, msg, upset>>

Register ==
    /\ At(Worker, "register")
    /\ \/ registered' = TRUE /\ Goto(Worker, "clear")
       \/ registered' = FALSE /\ Goto(Worker, "closing")
    /\ UNCHANGED <<gate, fault, found, cl, hw, lease, touched, msi, closed, refusals, msg, upset>>

(* The leaf is cleared, then allowed, then the falcon status is cleared: a  *)
(* bit that rises between the first and the last leaves a leaf without a   *)
(* status.                                                                 *)
Clear ==
    /\ At(Worker, "clear")
    /\ leaf' = FALSE /\ fired' = FALSE
    /\ Goto(Worker, "allow")
    /\ UNCHANGED <<gate, fault, found, cl, armed, allow, status, odd, gone, res, msg, upset>>

Allow ==
    /\ At(Worker, "allow") /\ allow' = TRUE /\ Goto(Worker, "forget")
    /\ UNCHANGED <<gate, fault, found, cl, armed, leaf, fired, status, odd, gone, res, msg, upset>>

Forget ==
    /\ At(Worker, "forget") /\ status' = FALSE /\ Goto(Worker, "admit")
    /\ UNCHANGED <<gate, fault, found, cl, armed, allow, leaf, fired, odd, gone, res, msg, upset>>

Admit ==
    /\ At(Worker, "admit")
    /\ IF gone THEN Goto(Worker, "closing") /\ UNCHANGED gate
               ELSE Goto(Worker, "arm") /\ gate' = 1
    /\ UNCHANGED <<fault, found, cl, hw, res, msg, upset>>

Arm ==
    /\ At(Worker, "arm") /\ armed' = ~gone /\ Flush
    /\ Goto(Worker, IF gone THEN "closing" ELSE "run")
    /\ UNCHANGED <<fired, gate, found, cl, allow, leaf, status, odd, gone, res, msg, upset>>

-----------------------------------------------------------------------------
(* interrupt(): delivered to a CPU, for this device or, on a shared line,  *)
(* for another one.                                                        *)
Requested == armed /\ allow /\ leaf /\ ~gone

Deliver(a) ==
    /\ a \in Cpus /\ At(a, "idle") /\ registered
    /\ \/ msi = "on" /\ Requested /\ ~fired /\ fired' = TRUE
       \/ msi = "on" /\ shown /\ armed /\ UNCHANGED fired
       \/ msi = "off" /\ UNCHANGED fired
    /\ Goto(a, "enter")
    /\ UNCHANGED <<gate, fault, found, cl, armed, allow, leaf, status, odd, gone, res, msg, upset>>

Enter(a) ==
    /\ a \in Cpus /\ At(a, "enter")
    /\ IF gate = 1 THEN gate' = 2 /\ Goto(a, "unarm") ELSE Goto(a, "idle") /\ UNCHANGED gate
    /\ UNCHANGED <<fault, found, cl, hw, res, msg, upset>>

Unarm(a) ==
    /\ At(a, "unarm")
    /\ armed' = FALSE /\ Flush
    /\ Goto(a, IF a = Worker THEN IF gone THEN "leave" ELSE "display"
               ELSE IF gone THEN "signal" ELSE "look")
    /\ fired' = FALSE
    /\ UNCHANGED <<gate, found, cl, allow, leaf, status, odd, gone, res, msg, upset>>

\* Mutant: the leaf is looked at and not cleared.
LookKeeps(a) ==
    /\ At(a, "look")
    /\ Goto(a, IF leaf THEN "status" ELSE "leave")
    /\ UNCHANGED <<gate, fault, found, cl, hw, res, msg, upset>>

(* Neither leaf is ours: leave without a wake.  The display's is served    *)
(* first and may latch a fault; alone, it wakes the worker.  Then the leaf *)
(* of the falcon is cleared.                                               *)
Look(a) ==
    /\ At(a, "look") /\ leaf' = FALSE /\ fired' = FALSE
    /\ \/ /\ Goto(a, IF leaf THEN "status" ELSE "leave")
          /\ UNCHANGED <<fault, upset>>
       \/ /\ shown /\ Goto(a, IF leaf THEN "status" ELSE "signal")
          /\ \/ (IF leaf THEN UNCHANGED fault ELSE Flush) /\ UNCHANGED upset
             \/ Latch /\ upset' = TRUE
    /\ UNCHANGED <<gate, found, cl, armed, allow, status, odd, gone, res, msg>>

Status(a) ==
    /\ At(a, "status") /\ Goto(a, "ack")
    /\ found' = [found EXCEPT ![a] = (IF status THEN {"message"} ELSE {}) \cup
                                     (IF odd THEN {"odd"} ELSE {})]
    /\ UNCHANGED <<gate, fault, cl, hw, res, msg, upset>>

(* Clear what was found; nothing, or anything but a message, is a fault.   *)
Ack(a) ==
    /\ At(a, "ack") /\ Goto(a, "retrigger")
    /\ status' = (status /\ "message" \notin found[a]) /\ odd' = (odd /\ "odd" \notin found[a])
    /\ IF found[a] # {"message"} THEN Latch ELSE UNCHANGED fault
    /\ UNCHANGED <<fired, gate, found, cl, armed, allow, leaf, gone, res, msg, upset>>

Retrigger(a) ==
    /\ At(a, "retrigger") /\ Goto(a, "signal") /\ Flush
    /\ leaf' = (leaf \/ (found[a] # {} /\ (status \/ odd)))
    /\ found' = [found EXCEPT ![a] = {}]
    /\ UNCHANGED <<fired, gate, cl, armed, allow, status, odd, gone, res, msg, upset>>

Signal(a) ==
    /\ At(a, "signal") /\ Goto(a, "leave")
    /\ \/ wake' = TRUE /\ UNCHANGED <<fault, upset>>
       \/ Latch /\ upset' = TRUE /\ UNCHANGED wake
    /\ UNCHANGED <<gate, found, cl, hw, res, unseen>>

(* leave(): rearm unless failed or asked to retire, then give the gate up. *)
Leave(a) ==
    /\ At(a, "leave") /\ Goto(a, IF ~fault /\ gate = 2 THEN "rearm" ELSE "drop")
    /\ UNCHANGED <<gate, fault, found, cl, hw, res, msg, upset>>

Rearm(a) ==
    /\ At(a, "rearm") /\ armed' = ~gone /\ Flush /\ Goto(a, "drop")
    /\ UNCHANGED <<fired, gate, found, cl, allow, leaf, status, odd, gone, res, msg, upset>>

\* Mutant: leave never gives the gate back to a waiting close.
DropKeeps(a) ==
    /\ At(a, "drop") /\ gate' = IF ~fault /\ gate = 2 THEN 1 ELSE gate
    /\ Goto(a, IF a = Worker THEN "run" ELSE "idle")
    /\ UNCHANGED <<fault, found, cl, hw, res, msg, upset>>

Drop(a) ==
    /\ At(a, "drop") /\ gate' = IF ~fault /\ gate = 2 THEN 1 ELSE 0
    /\ Goto(a, IF a = Worker THEN "run" ELSE "idle")
    /\ UNCHANGED <<fault, found, cl, hw, res, msg, upset>>

-----------------------------------------------------------------------------
\* Mutant: the worker drains only when woken.
DrainOnWake ==
    /\ At(Worker, "run") /\ wake /\ wake' = FALSE /\ unseen' = FALSE
    /\ UNCHANGED <<gate, fault, pc, found, cl, hw, res, upset>>

(* pace(): the worker drains the status queue when woken, and also when    *)
(* its finite wait times out.                                              *)
Drain ==
    /\ At(Worker, "run") /\ (wake \/ unseen) /\ wake' = FALSE /\ unseen' = FALSE
    /\ UNCHANGED <<gate, fault, pc, found, cl, hw, res, upset>>

(* configureDisplay() takes the gate like a handler; busy is an error.     *)
ConfigureDisplay ==
    /\ At(Worker, "run") /\ ~fault /\ gate = 1
    /\ setups < MaxSetups /\ setups' = setups + 1
    /\ gate' = 2 /\ Goto(Worker, "unarm")
    /\ UNCHANGED <<fault, found, tries, shown, hw, res, msg, upset>>

(* display.enable or extend refuses, or the display interrupts from now on. *)
Display ==
    /\ At(Worker, "display") /\ Goto(Worker, "leave")
    /\ \/ UNCHANGED <<fault, shown>>
       \/ shown' = TRUE /\ Flush
    /\ UNCHANGED <<gate, found, tries, setups, hw, res, msg, upset>>

(* The owner decides to close, whatever the state of the endpoint.         *)
BeginClose ==
    /\ At(Worker, "run") /\ Goto(Worker, "closing")
    /\ UNCHANGED <<gate, fault, found, cl, hw, res, msg, upset>>

-----------------------------------------------------------------------------
(* close(): load the gate, then compare-and-swap the loaded value (kept in *)
(* found[Worker]); at most four rounds, then the owner calls it again.     *)
CloseStart ==
    /\ At(Worker, "closing") /\ ~closed
    /\ Goto(Worker, "retire")
    /\ tries' = 4 /\ found' = [found EXCEPT ![Worker] = {}]
    /\ UNCHANGED <<gate, fault, setups, shown, hw, res, msg, upset>>

CloseLoad ==
    /\ At(Worker, "retire") /\ found[Worker] = {} /\ tries > 0
    /\ \/ gate = 0 /\ Goto(Worker, "quiet") /\ tries' = 0 /\ UNCHANGED found
       \/ gate = 3 /\ Goto(Worker, "closing") /\ tries' = 0 /\ UNCHANGED found
       \/ gate \in {1, 2} /\ found' = [found EXCEPT ![Worker] = {gate}] /\ UNCHANGED <<pc, tries>>
    /\ UNCHANGED <<gate, fault, setups, shown, hw, res, msg, upset>>

\* Mutant: the gate is stored, not swapped.
CloseSwapBlind ==
    /\ At(Worker, "retire") /\ found[Worker] # {}
    /\ gate' = 0 /\ Goto(Worker, "quiet")
    /\ tries' = tries - 1 /\ found' = [found EXCEPT ![Worker] = {}]
    /\ UNCHANGED <<fault, setups, shown, hw, res, msg, upset>>

CloseSwap ==
    /\ At(Worker, "retire") /\ found[Worker] # {}
    /\ IF gate \in found[Worker]
       THEN /\ tries' = 0
            /\ IF gate = 2 THEN gate' = 3 /\ Goto(Worker, "closing")
               ELSE gate' = 0 /\ Goto(Worker, "quiet")
       ELSE /\ tries' = tries - 1 /\ UNCHANGED gate
            /\ Goto(Worker, IF tries = 1 THEN "closing" ELSE "retire")
    /\ found' = [found EXCEPT ![Worker] = {}]
    /\ UNCHANGED <<fault, setups, shown, hw, res, msg, upset>>

Quiet ==
    /\ At(Worker, "quiet") /\ Goto(Worker, "unregister")
    /\ IF touched THEN armed' = FALSE /\ allow' = FALSE /\ fired' = FALSE
       ELSE UNCHANGED <<armed, allow, fired>>
    /\ shown' = (shown /\ gone)
    /\ UNCHANGED <<gate, fault, found, tries, setups, leaf, status, odd, gone, res, msg, upset>>

(* The kernel may refuse to unregister, to disable MSI or to unmap; close  *)
(* then returns false and is called again.                                 *)
Refused ==
    /\ refusals < MaxRefusals /\ refusals' = refusals + 1
    /\ Goto(Worker, "closing") /\ UNCHANGED <<lease, touched, registered, msi, closed>>

Unregister ==
    /\ At(Worker, "unregister")
    /\ \/ registered /\ Refused
       \/ /\ registered' = FALSE /\ UNCHANGED <<lease, touched, msi, closed, refusals>>
          /\ Goto(Worker, IF msi = "uncertain" THEN "closing" ELSE "unroute")
    /\ UNCHANGED <<gate, fault, found, cl, hw, msg, upset>>

Unroute ==
    /\ At(Worker, "unroute")
    /\ \/ msi = "on" /\ Refused
       \/ msi' = "off" /\ Goto(Worker, "release") /\ UNCHANGED <<lease, touched, registered, closed, refusals>>
    /\ UNCHANGED <<gate, fault, found, cl, hw, msg, upset>>

Release ==
    /\ At(Worker, "release")
    /\ \/ Refused
       \/ /\ lease' = FALSE /\ closed' = TRUE /\ Goto(Worker, "closing")
          /\ UNCHANGED <<touched, registered, msi, refusals>>
    /\ UNCHANGED <<gate, fault, found, cl, hw, msg, upset>>

-----------------------------------------------------------------------------
(* The device: a message, an unexpected status bit, a removal.             *)
Message ==
    /\ ~gone
    /\ status' = TRUE /\ leaf' = (leaf \/ ~(status \/ odd)) /\ unseen' = TRUE
    /\ upset' = (upset \/ (pc[Worker] \in {"allow", "forget"} /\ ~status))
    /\ UNCHANGED <<fired, gate, fault, pc, found, cl, armed, allow, odd, gone, res, wake>>

OddBit ==
    /\ ~gone /\ ~odd
    /\ odd' = TRUE /\ leaf' = (leaf \/ ~(status \/ odd)) /\ upset' = TRUE
    /\ UNCHANGED <<fired, gate, fault, pc, found, cl, armed, allow, status, gone, res, msg>>

Remove ==
    /\ ~gone /\ gone' = TRUE /\ armed' = FALSE /\ upset' = TRUE
    /\ fired' = FALSE
    /\ UNCHANGED <<gate, fault, pc, found, cl, allow, leaf, status, odd, res, msg>>

-----------------------------------------------------------------------------
OpenStep == Acquire \/ Block \/ Route \/ Register \/ Clear \/ Allow \/ Forget
            \/ Admit \/ Arm
GateStep(a) == Unarm(a) \/ Look(a) \/ Status(a) \/ Ack(a) \/ Retrigger(a) \/ Signal(a)
               \/ Leave(a) \/ Rearm(a) \/ Drop(a)
CloseStep == CloseStart \/ CloseLoad \/ CloseSwap \/ Quiet \/ Unregister \/ Unroute \/ Release
WorkerStep == OpenStep \/ Drain \/ Display \/ GateStep(Worker) \/ CloseStep

Next ==
    \/ WorkerStep \/ ConfigureDisplay \/ BeginClose
    \/ \E c \in Cpus : Deliver(c) \/ Enter(c) \/ GateStep(c)
    \/ Message \/ OddBit \/ Remove

Spec == Init /\ [][Next]_vars

(* The worker and an entered handler keep running; an interrupt of the     *)
(* falcon that stays requested is delivered to some CPU.                   *)
FairSpec ==
    /\ Spec /\ WF_vars(WorkerStep)
    /\ \A c \in Cpus : WF_vars(Enter(c) \/ GateStep(c))
    /\ WF_vars(Requested /\ \E c \in Cpus : Deliver(c))

-----------------------------------------------------------------------------
Points == Body \cup Opening \cup Closing \cup {"idle", "enter", "run"}

Inside(a) == pc[a] \in Body

(* The gate: one actor at a time runs the register sequence between the    *)
(* compare-and-swap of interrupt() or configureDisplay() and leave().      *)
GateExclusive == \A a, b \in Actors : Inside(a) /\ Inside(b) => a = b

(* close() (and its comment on `gate`) never touches the hardware, nor the  *)
(* mapping, while a handler owns the register sequence.                    *)
CloseWaits ==
    pc[Worker] \in {"quiet", "unregister", "unroute", "release"} => \A a \in Actors : ~Inside(a)

(* A handler, however late it was delivered, only touches registers while  *)
(* the BAR0 lease is held.                                                  *)
RegistersMapped == \A a \in Actors : Inside(a) => lease

(* A retired endpoint stays silent: no rearm of a leaving handler undoes    *)
(* the unarm of close().                                                    *)
ClosedSilent == closed /\ touched => ~armed /\ ~allow

(* The endpoint is guarded: the register sequence has one actor, close()    *)
(* takes the endpoint down only behind the last of them, and nobody arms it *)
(* again (gate, interrupt, leave, close).                                   *)
EndpointGuarded == GateExclusive /\ CloseWaits /\ ClosedSilent

(* With a device that raises only message bits, none of which rises between *)
(* the two clears of open(), a display served without an error and a        *)
(* semaphore that works, the endpoint never latches a fault: retrigger and  *)
(* clear, in the order open() and interrupt() use them, produce no          *)
(* interrupt without a cause, whatever display interrupts come in between.  *)
HonestNoFault == ~upset => ~fault

(* A message is drained, or the endpoint failed or is being closed, also    *)
(* when its MSI met a gate that leave() had not given up yet: pace() waits  *)
(* for a finite time only.                                                  *)
MessageDrained == unseen ~> (~unseen \/ fault \/ gone \/ pc[Worker] \in Closing)

(* close(), called again until it succeeds, retires the endpoint unless     *)
(* the MSI routing is unknown, once interrupts stop arriving: a handler may *)
(* win each of its compare-and-swaps, but never keeps the gate.             *)
CloseEnds ==
    <>[](\A c \in Cpus : pc[c] = "idle")
        => (pc[Worker] = "closing" ~> closed \/ msi = "uncertain")
=============================================================================
