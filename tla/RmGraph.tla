------------------------------ MODULE RmGraph ------------------------------
(***************************************************************************)
(* The resource-manager client of the driver: src/gsp_rm_graph.zig and the *)
(* owners it passes the queue token through, in creation order             *)
(*   base     root, device, subdevice, display   src/gsp_objects.zig       *)
(*   i2c      optional NV40_I2C                  src/gsp_i2c_object.zig     *)
(*   vaspace  GPU address space, host binding    src/gsp_vaspace.zig       *)
(*   control  private DMA control buffer         src/gsp_control_buffer.zig *)
(*   events   hotplug and DP subscriptions       src/gsp_event_objects.zig  *)
(* against the firmware's own object tree.  A reply is ok, an RM error     *)
(* (the operation did not happen) or an RPC error (unknown); freeing a     *)
(* parent frees its descendants.  One RPC is outstanding at a time and its *)
(* reply and the notifications share one FIFO (GspExchange, GspTransport). *)
(***************************************************************************)
EXTENDS Naturals, Sequences, FiniteSets

CONSTANT MaxEvents            \* bound: notifications the firmware posts

ASSUME GraphAssumption == MaxEvents \in Nat

VARIABLES cfg,       \* control_context and host_mmu_io are configured
          g,         \* graph state
          own,       \* state of each owner, "none" before its init
          slot,      \* what the driver believes of each resource
          notif,     \* notification state of each subscription
          rpc,       \* the outstanding operation
          q,         \* status queue: replies and posted events
          dev,       \* resources that exist on the device
          armed,     \* subscriptions the firmware reports for
          backing,   \* DMA pages of the control buffer
          names,     \* the graph's lease in the RM namespace
          kid,       \* a borrower's child lease and what it believes of its object
          dead,      \* the session was stopped
          posted, changes, taken      \* event numbers

vars == <<cfg, g, own, slot, notif, rpc, q, dev, armed, backing, names, kid, dead,
          posted, changes, taken>>
evs == <<posted, changes, taken>>

Base == <<"client", "device", "subdevice", "display">>
Subs == <<"hotplug", "dp_irq">>
Events == {"hotplug", "dp_irq"}
Parent == [client |-> {}, device |-> {"client"}, subdevice |-> {"device"},
           display |-> {"device"}, i2c |-> {"subdevice"}, vaspace |-> {"device"},
           binding |-> {"vaspace"}, memory |-> {"device"}, virtual |-> {"vaspace"},
           mapping |-> {"memory", "virtual"}, hotplug |-> {"subdevice"},
           dp_irq |-> {"subdevice"}, child |-> {"device"}]
Res == DOMAIN Parent
Owners == {"base", "i2c", "vaspace", "control", "events"}
NoRpc == [phase |-> "none", op |-> "none", res |-> "none"]

(* The owner that poll() drives in each graph state. *)
Driven == [base_creating |-> "base", base_destroying |-> "base",
           i2c_creating |-> "i2c", i2c_destroying |-> "i2c",
           vaspace_creating |-> "vaspace", vaspace_destroying |-> "vaspace",
           control_creating |-> "control", control_destroying |-> "control",
           events_creating |-> "events", events_destroying |-> "events"]
Polling == g \in DOMAIN Driven
Current == Driven[g]
Busy == {"creating", "destroying", "unwinding"}

Init ==
    /\ cfg \in [control : BOOLEAN, external : BOOLEAN] /\ (cfg.external => cfg.control)
    /\ g = "base_creating"
    /\ own = [o \in Owners |-> IF o = "base" THEN "creating" ELSE "none"]
    /\ slot = [r \in Res |-> "absent"] /\ notif = [e \in Events |-> "disabled"]
    /\ rpc = NoRpc /\ q = <<>> /\ dev = {} /\ armed = {}
    /\ backing = "unchecked" /\ names = "reserved" /\ kid = "none" /\ dead = FALSE
    /\ posted = 0 /\ changes = {} /\ taken = {}

-----------------------------------------------------------------------------
(* fail() of the graph and of the owner it drives: the target of an        *)
(* outstanding base or event operation becomes uncertain, the names are    *)
(* retained, the session is stopped.  An unfinished request stays out.     *)
Fail ==
    /\ g' = "failed" /\ names' = "retained" /\ dead' = TRUE
    /\ own' = IF Polling THEN [own EXCEPT ![Current] = "failed"] ELSE own
    /\ slot' = IF Polling /\ Current \in {"base", "events"} /\ rpc.op \in {"allocate", "free"}
               THEN [slot EXCEPT ![rpc.res] = "uncertain"] ELSE slot
    /\ notif' = IF rpc.op \in {"enable", "disable"}
                THEN [notif EXCEPT ![rpc.res] = "uncertain"] ELSE notif

(* Deadline, transport, acknowledgement or local failure of any poll; a    *)
(* failed send may have been visible, an unfinished host page-table change *)
(* may have reached the device.                                            *)
Break ==
    /\ Polling /\ ~dead
    /\ Fail
    /\ rpc' \in IF rpc.phase = "prepared" THEN {rpc, [rpc EXCEPT !.phase = "sent"]} ELSE {rpc}
    /\ dev' \in IF rpc.phase = "host" THEN {dev \cup {rpc.res}, dev \ {rpc.res}} ELSE {dev}
    /\ UNCHANGED <<cfg, q, armed, backing, kid, evs>>

-----------------------------------------------------------------------------
(* Which operation an owner starts next; "done" when it has none left.     *)
Nothing == [op |-> "done", res |-> "none"]
Do(o, r) == [op |-> o, res |-> r]

BaseOperation ==
    LET missing == {i \in 1 .. 4 : slot[Base[i]] = "absent"}
        alive == 1 .. 4 \ missing
    IN IF own.base = "creating"
       THEN IF missing = {} THEN Nothing
            ELSE Do("allocate", Base[CHOOSE i \in missing : \A j \in missing : i <= j])
       ELSE IF alive = {} THEN Nothing
            ELSE Do("free", Base[CHOOSE i \in alive : \A j \in alive : i >= j])

I2cOperation ==
    IF own.i2c = "creating" THEN Do("allocate", "i2c")
    ELSE IF slot["i2c"] = "live" THEN Do("free", "i2c") ELSE Nothing

(* With a host MMU the address space is bound to the host's page tables    *)
(* after its allocation and unbound before its free.                       *)
VaspaceOperation ==
    IF own.vaspace = "creating"
    THEN IF slot["vaspace"] = "live" THEN Do("allocate", "binding") ELSE Do("allocate", "vaspace")
    ELSE IF slot["binding"] = "live" THEN Do("free", "binding")
    ELSE IF slot["vaspace"] = "live" THEN Do("free", "vaspace") ELSE Nothing

\* Mutant: the unwinding leaves the memory object out.
ControlSkipsMemory ==
    IF own.control = "creating"
    THEN IF backing = "unchecked" THEN Do("query", "none")
         ELSE IF slot["memory"] # "live" THEN Do("allocate", "memory")
         ELSE IF slot["virtual"] # "live" THEN Do("allocate", "virtual")
         ELSE Do("allocate", "mapping")
    ELSE IF slot["mapping"] = "live" THEN Do("free", "mapping")
    ELSE IF slot["virtual"] = "live" THEN Do("free", "virtual") ELSE Nothing

(* The control buffer queries the memory capabilities, then builds memory, *)
(* virtual range and mapping; it takes them down in reverse, when destroyed *)
(* and when a step was rejected.                                           *)
ControlOperation ==
    IF own.control = "creating"
    THEN IF backing = "unchecked" THEN Do("query", "none")
         ELSE IF slot["memory"] # "live" THEN Do("allocate", "memory")
         ELSE IF slot["virtual"] # "live" THEN Do("allocate", "virtual")
         ELSE Do("allocate", "mapping")
    ELSE IF slot["mapping"] = "live" THEN Do("free", "mapping")
    ELSE IF slot["virtual"] = "live" THEN Do("free", "virtual")
    ELSE IF slot["memory"] = "live" THEN Do("free", "memory") ELSE Nothing

EventsOperation ==
    LET todo == {i \in 1 .. 2 : slot[Subs[i]] = "absent" \/ notif[Subs[i]] = "disabled"}
        held == {i \in 1 .. 2 : slot[Subs[i]] # "absent"}
    IN IF own.events = "creating"
       THEN IF todo = {} THEN Nothing
            ELSE LET e == Subs[CHOOSE i \in todo : \A j \in todo : i <= j]
                 IN Do(IF slot[e] = "absent" THEN "allocate" ELSE "enable", e)
       ELSE IF held = {} THEN Nothing
            ELSE LET e == Subs[CHOOSE i \in held : \A j \in held : i >= j]
                 IN Do(IF notif[e] \in {"enabled", "uncertain"} THEN "disable" ELSE "free", e)

Operation == CASE Current = "base" -> BaseOperation
               [] Current = "i2c" -> I2cOperation
               [] Current = "vaspace" -> VaspaceOperation
               [] Current = "control" -> ControlOperation
               [] Current = "events" -> EventsOperation

(* Address-space and mapping steps of the control buffer are local to the  *)
(* host page tables when the address space is bound to them.               *)
Local(r) == slot["binding"] = "live" /\ r \in {"virtual", "mapping"}

CanStart == Polling /\ ~dead /\ own[Current] \in Busy /\ rpc = NoRpc

(* pollHost(): the host page tables are prepared in a poll of their own.   *)
HostPrepare ==
    /\ CanStart /\ Operation = Do("allocate", "binding") /\ slot["binding"] = "absent"
    /\ slot' = [slot EXCEPT !["binding"] = "prepared"]
    /\ UNCHANGED <<cfg, g, own, notif, rpc, q, dev, armed, backing, names, kid, dead, evs>>

Starts ==
    /\ CanStart /\ Operation # Nothing /\ ~Local(Operation.res)
    /\ g = "control_creating" => backing # "none"
    /\ Operation = Do("allocate", "binding") => slot["binding"] = "prepared"

(* The host page tables cannot be unbound while they have ranges.          *)
RangesLeft == Operation = Do("free", "binding") /\ slot["virtual"] # "absent"

(* The RPC is encoded and its target marked.  Memory registration retains  *)
(* the backing from here on.                                               *)
Prepare(o) ==
    /\ rpc' = [phase |-> "prepared", op |-> o.op, res |-> o.res]
    /\ slot' = IF Current \in {"base", "events"} /\ o.op \in {"allocate", "free"}
               THEN [slot EXCEPT ![o.res] = IF o.op = "allocate" THEN "creating" ELSE "freeing"]
               ELSE slot
    /\ notif' = IF o.op \in {"enable", "disable"}
                THEN [notif EXCEPT ![o.res] = IF o.op = "enable" THEN "enabling" ELSE "disabling"]
                ELSE notif
    /\ backing' = IF o = Do("allocate", "memory") THEN "retained" ELSE backing
    /\ UNCHANGED <<cfg, g, own, q, dev, armed, names, kid, dead, evs>>

(* An owner starts its next operation, or fails on an address space in use. *)
Begin ==
    /\ Starts
    /\ IF RangesLeft
       THEN Fail /\ UNCHANGED <<cfg, rpc, q, dev, armed, backing, kid, evs>>
       ELSE Prepare(Operation)

(* Storage.prepare(): a failure keeps what it acquired and unwinds.        *)
ControlPrepare ==
    /\ CanStart /\ g = "control_creating" /\ own.control = "creating" /\ backing = "none"
    /\ backing' = "prepared"
    /\ \/ UNCHANGED own
       \/ own' = [own EXCEPT !.control = "unwinding"]
    /\ UNCHANGED <<cfg, g, slot, notif, rpc, q, dev, armed, names, kid, dead, evs>>

(* advanceHost(): range bookkeeping at once, page-table changes begun and  *)
(* finished in different polls; only on an empty status queue.             *)
HostRange ==
    /\ CanStart /\ Current = "control" /\ q = <<>>
    /\ Operation.res = "virtual" /\ Local("virtual")
    /\ dev' = IF Operation.op = "allocate" THEN dev \cup {"virtual"} ELSE dev \ {"virtual"}
    /\ slot' = [slot EXCEPT !["virtual"] = IF Operation.op = "allocate" THEN "live" ELSE "absent"]
    /\ UNCHANGED <<cfg, g, own, notif, rpc, q, armed, backing, names, kid, dead, evs>>

HostBegin ==
    /\ CanStart /\ Current = "control" /\ q = <<>>
    /\ Operation.res = "mapping" /\ Local("mapping")
    /\ rpc' = [phase |-> "host", op |-> Operation.op, res |-> Operation.res]
    /\ UNCHANGED <<cfg, g, own, slot, notif, q, dev, armed, backing, names, kid, dead, evs>>

HostEnd ==
    /\ Polling /\ ~dead /\ rpc.phase = "host" /\ q = <<>>
    /\ rpc' = NoRpc
    /\ IF rpc.op = "allocate"
       THEN /\ dev' = dev \cup {rpc.res} /\ slot' = [slot EXCEPT ![rpc.res] = "live"]
            /\ \E s \in {"ready", "unwinding"} : own' = [own EXCEPT !.control = s]
       ELSE dev' = dev \ {rpc.res} /\ slot' = [slot EXCEPT ![rpc.res] = "absent"] /\ UNCHANGED own
    /\ UNCHANGED <<cfg, g, notif, q, armed, backing, names, kid, dead, evs>>

(* Nothing left to undo: the owner is closed; the control buffer releases  *)
(* its pages first and, when it only unwound, goes on as ready.            *)
Close ==
    /\ CanStart /\ Operation = Nothing
    /\ backing' = IF Current = "control" THEN "released" ELSE backing
    /\ own' = [own EXCEPT ![Current] = IF @ = "unwinding" THEN "ready" ELSE "closed"]
    /\ g' = IF g = "base_destroying" THEN "closed" ELSE g
    /\ UNCHANGED <<cfg, slot, notif, rpc, q, dev, armed, names, kid, dead, evs>>

Send ==
    /\ Polling /\ ~dead /\ rpc.phase = "prepared" /\ q = <<>>
    /\ rpc' = [rpc EXCEPT !.phase = "sent"]
    /\ UNCHANGED <<cfg, g, own, slot, notif, q, dev, armed, backing, names, kid, dead, evs>>

(* The firmware runs a visible request.  An RPC error does not say whether *)
(* it ran; enabling with an RM error may have armed the notification.      *)
Descendants(r) ==
    LET Under(S) == S \cup {x \in Res : Parent[x] \cap S # {}}
    IN Under(Under(Under(Under({r}))))

FwExec ==
    /\ rpc.phase = "sent"
    /\ rpc' = [rpc EXCEPT !.phase = "answered"]
    /\ \E result \in {"ok", "rm_error", "rpc_error"}, ran \in BOOLEAN :
         /\ (result = "ok") => ran
         /\ (result = "rm_error") => (~ran \/ rpc.op = "enable")
         /\ (result = "ok" /\ rpc.op = "allocate") => Parent[rpc.res] \subseteq dev
         /\ q' = Append(q, [kind |-> "reply", result |-> result])
         /\ dev' = CASE ran /\ rpc.op = "allocate" -> dev \cup {rpc.res}
                      [] ran /\ rpc.op = "free" -> dev \ Descendants(rpc.res)
                      [] OTHER -> dev
         /\ armed' = CASE ran /\ rpc.op = "enable" -> armed \cup {rpc.res}
                        [] ran /\ rpc.op = "disable" -> armed \ {rpc.res}
                        [] ran /\ rpc.op = "free" -> armed \ Descendants(rpc.res)
                        [] OTHER -> armed
    /\ UNCHANGED <<cfg, g, own, slot, notif, backing, names, kid, dead, evs>>

(* A post names an armed subscription, or a handle that is not the graph's. *)
FwPost ==
    /\ posted < MaxEvents /\ dev # {}
    /\ \E e \in armed \cup {"stray"} :
         q' = Append(q, [kind |-> "event", event |-> e, number |-> posted + 1])
    /\ posted' = posted + 1
    /\ UNCHANGED <<cfg, g, own, slot, notif, rpc, dev, armed, backing, names, kid, dead, changes, taken>>

(* The graph state that follows the driven owner's, in the same poll.      *)
Follow(o) ==
    CASE g = "base_creating" /\ o = "rejected" -> "rejected"
      [] g = "events_creating" /\ o \in {"ready", "rejected"} -> o
      [] g = "base_destroying" /\ o = "closed" -> "closed"
      [] OTHER -> g

(* The owner's state after a confirmed operation.                          *)
AfterOk ==
    CASE rpc.op = "allocate" /\ rpc.res \in {"display", "i2c", "binding"} -> {"ready"}
      [] rpc.op = "allocate" /\ rpc.res = "vaspace" /\ ~cfg.external -> {"ready"}
      [] rpc.op = "allocate" /\ rpc.res = "mapping" -> {"ready", "unwinding"}
      [] rpc.op = "enable" /\ rpc.res = "dp_irq" -> {"ready"}
      [] rpc.op = "free" /\ rpc.res \in {"client", "i2c", "vaspace", "hotplug"} -> {"closed"}
      [] OTHER -> {own[Current]}

Reply == Polling /\ ~dead /\ q # <<>> /\ Head(q).kind = "reply"

\* Mutant: every reply counts as success.
CompleteUnread ==
    /\ Reply /\ Head(q).result # "rpc_error"
    /\ q' = Tail(q) /\ rpc' = NoRpc
    /\ slot' = CASE rpc.op = "allocate" -> [slot EXCEPT ![rpc.res] = "live"]
                 [] rpc.op = "free" -> [slot EXCEPT ![rpc.res] = "absent"]
                 [] OTHER -> slot
    /\ \E s \in AfterOk : own' = [own EXCEPT ![Current] = s] /\ g' = Follow(s)
    /\ UNCHANGED <<cfg, notif, backing, dev, armed, names, kid, dead, evs>>

CompleteOk ==
    /\ Reply /\ Head(q).result = "ok"
    /\ q' = Tail(q) /\ rpc' = NoRpc
    /\ slot' = CASE rpc.op = "allocate" -> [slot EXCEPT ![rpc.res] = "live"]
                 [] rpc.op = "free" -> [slot EXCEPT ![rpc.res] = "absent"]
                 [] OTHER -> slot
    /\ notif' = CASE rpc.op = "enable" -> [notif EXCEPT ![rpc.res] = "enabled"]
                  [] rpc.op = "disable" -> [notif EXCEPT ![rpc.res] = "disabled"]
                  [] OTHER -> notif
    /\ backing' = IF rpc.op = "query" THEN "none" ELSE backing
    /\ \E s \in AfterOk : own' = [own EXCEPT ![Current] = s] /\ g' = Follow(s)
    /\ UNCHANGED <<cfg, dev, armed, names, kid, dead, evs>>

\* Mutant: every rejection is tolerated.
TolerateAll == TRUE

(* An RM error: an allocation is only rejected (the optional I2C and       *)
(* address-space objects are then done without, the control buffer         *)
(* unwinds), anything else is a failure.                                   *)
Tolerated == rpc.op \in {"allocate", "enable", "query"} /\ rpc.res # "binding"

CompleteRejected ==
    /\ Reply /\ Head(q).result = "rm_error" /\ Tolerated
    /\ q' = Tail(q) /\ rpc' = NoRpc
    /\ slot' = IF rpc.op = "allocate" THEN [slot EXCEPT ![rpc.res] = "absent"] ELSE slot
    /\ notif' = IF rpc.op = "enable" THEN [notif EXCEPT ![rpc.res] = "uncertain"] ELSE notif
    /\ LET s == CASE Current \in {"base", "events"} -> "rejected"
                  [] Current \in {"i2c", "vaspace"} -> "ready"
                  [] Current = "control" -> "unwinding"
       IN own' = [own EXCEPT ![Current] = s] /\ g' = Follow(s)
    /\ UNCHANGED <<cfg, dev, armed, backing, names, kid, dead, evs>>

(* An RPC error, or a rejected free, disable or bind.                      *)
CompleteFailed ==
    /\ Reply
    /\ \/ Head(q).result = "rpc_error"
       \/ Head(q).result = "rm_error" /\ ~Tolerated
    /\ Fail
    /\ UNCHANGED <<cfg, rpc, q, dev, armed, backing, kid, evs>>
-----------------------------------------------------------------------------
(* Token transitions between owners.                                       *)
Pass(from, to, next) ==
    /\ Polling /\ ~dead /\ own[Current] = from
    /\ own' = [o \in Owners |-> CASE o = Current -> IF from = "ready" THEN "loaned" ELSE "finished"
                                [] o = next -> to
                                [] OTHER -> own[o]]
    /\ UNCHANGED <<cfg, slot, notif, rpc, q, dev, armed, backing, names, kid, dead, evs>>

(* The control buffer needs a context and an address space.                *)
PassForward ==
    \/ g = "base_creating" /\ Pass("ready", "creating", "i2c") /\ g' = "i2c_creating"
    \/ g = "i2c_creating" /\ Pass("ready", "creating", "vaspace") /\ g' = "vaspace_creating"
    \/ /\ g = "vaspace_creating"
       /\ IF cfg.control /\ slot["vaspace"] = "live"
          THEN Pass("ready", "creating", "control") /\ g' = "control_creating"
          ELSE Pass("ready", "creating", "events") /\ g' = "events_creating"
    \/ g = "control_creating" /\ Pass("ready", "creating", "events") /\ g' = "events_creating"

PassBack ==
    \/ /\ g = "events_destroying"
       /\ IF own.control # "none"
          THEN Pass("closed", "destroying", "control") /\ g' = "control_destroying"
          ELSE Pass("closed", "destroying", "vaspace") /\ g' = "vaspace_destroying"
    \/ g = "control_destroying" /\ Pass("closed", "destroying", "vaspace") /\ g' = "vaspace_destroying"
    \/ g = "vaspace_destroying" /\ Pass("closed", "destroying", "i2c") /\ g' = "i2c_destroying"
    \/ g = "i2c_destroying" /\ Pass("closed", "destroying", "base") /\ g' = "base_destroying"

-----------------------------------------------------------------------------
(* An event is admitted and delivered to the subscription it names, by the *)
(* poll of the current owner or by the borrower of the graph; a denied     *)
(* event stops the session.                                                *)
Listening == g = "loaned" \/ (Polling /\ (rpc # NoRpc \/ Local(Operation.res)))
Admits(e) == names = "reserved" /\ own.events \notin {"none", "closed", "finished", "failed"}
             /\ e \in Events /\ slot[e] \in {"live", "freeing"}
AtHead == ~dead /\ Listening /\ q # <<>> /\ Head(q).kind = "event"

\* Mutant: a delivered change replaces the ones not taken yet.
DeliverOverwrites ==
    /\ AtHead /\ Admits(Head(q).event)
    /\ q' = Tail(q) /\ changes' = {Head(q).number}
    /\ UNCHANGED <<cfg, g, own, slot, notif, rpc, dev, armed, backing, names, kid, dead, posted, taken>>

Deliver ==
    /\ AtHead /\ Admits(Head(q).event)
    /\ q' = Tail(q) /\ changes' = changes \cup {Head(q).number}
    /\ UNCHANGED <<cfg, g, own, slot, notif, rpc, dev, armed, backing, names, kid, dead, posted, taken>>

Deny ==
    /\ AtHead /\ ~Admits(Head(q).event)
    /\ IF g = "loaned" THEN dead' = TRUE /\ UNCHANGED <<g, own, slot, notif, names>> ELSE Fail
    /\ UNCHANGED <<cfg, rpc, q, dev, armed, backing, kid, evs>>

(* stable(): the lease is in the ledger and not retained; the session runs. *)
Stable == names = "reserved" /\ ~dead

TakeChanges ==
    /\ g \in {"ready", "loaned"} /\ Stable /\ changes # {}
    /\ taken' = taken \cup changes /\ changes' = {}
    /\ UNCHANGED <<cfg, g, own, slot, notif, rpc, q, dev, armed, backing, names, kid, dead, posted>>

(* loan() and reclaim(); the borrower may stop the session.                *)
Loan ==
    /\ g = "ready" /\ Stable
    /\ g' = "loaned" /\ own' = [own EXCEPT !.events = "loaned"]
    /\ UNCHANGED <<cfg, slot, notif, rpc, q, dev, armed, backing, names, kid, dead, evs>>

Reclaim ==
    /\ g = "loaned" /\ Stable
    /\ g' = "ready" /\ own' = [own EXCEPT !.events = "ready"]
    /\ UNCHANGED <<cfg, slot, notif, rpc, q, dev, armed, backing, names, kid, dead, evs>>

BorrowerStops ==
    /\ g = "loaned" /\ ~dead /\ dead' = TRUE
    /\ UNCHANGED <<cfg, g, own, slot, notif, rpc, q, dev, armed, backing, names, kid, evs>>

(* A borrower's child lease: its object is created under it, and it is     *)
(* retired only when the object is known to be gone.                       *)
ChildStep ==
    /\ g = "loaned" /\ Stable
    /\ \/ kid = "none" /\ kid' = "reserved" /\ UNCHANGED dev
       \/ kid = "reserved" /\ kid' = "live" /\ dev' = dev \cup {"child"}
       \/ kid = "live" /\ kid' = "reserved" /\ dev' = dev \ {"child"}
       \/ kid = "reserved" /\ kid' = "none" /\ UNCHANGED dev
    /\ UNCHANGED <<cfg, g, own, slot, notif, rpc, q, armed, backing, names, dead, evs>>

(* retainChildren() of a failing borrower retains the graph's lease too;   *)
(* most of them also stop the session.                                     *)
RetainChildren ==
    /\ g = "loaned" /\ Stable /\ kid \in {"reserved", "live"}
    /\ kid' = "retained" /\ names' = "retained" /\ dead' \in BOOLEAN
    /\ UNCHANGED <<cfg, g, own, slot, notif, rpc, q, dev, armed, backing, evs>>

BeginDestroy ==
    /\ g \in {"ready", "rejected"} /\ Stable
    /\ kid = "none"
    /\ IF own.events # "none"
       THEN own' = [own EXCEPT !.events = "destroying"] /\ g' = "events_destroying"
       ELSE own' = [own EXCEPT !.base = "destroying"] /\ g' = "base_destroying"
    /\ UNCHANGED <<cfg, slot, notif, rpc, q, dev, armed, backing, names, kid, dead, evs>>

Finish ==
    /\ g = "closed" /\ ~dead
    /\ g' = "finished" /\ names' = "retired" /\ own' = [own EXCEPT !.base = "finished"]
    /\ UNCHANGED <<cfg, slot, notif, rpc, q, dev, armed, backing, kid, dead, evs>>

CancelUnsubmitted ==
    /\ g = "base_creating" /\ own.base = "creating" /\ rpc = NoRpc /\ ~dead
    /\ \A i \in 1 .. 4 : slot[Base[i]] = "absent"
    /\ g' = "finished" /\ names' = "retired" /\ own' = [own EXCEPT !.base = "finished"]
    /\ UNCHANGED <<cfg, slot, notif, rpc, q, dev, armed, backing, kid, dead, evs>>

(* A guard of beginDestroy() or finish() that fails the graph.             *)
Abort ==
    /\ g \in {"ready", "rejected", "closed"} /\ ~dead
    /\ Fail
    /\ UNCHANGED <<cfg, rpc, q, dev, armed, backing, kid, evs>>

-----------------------------------------------------------------------------
Poll == \/ HostPrepare \/ Begin \/ ControlPrepare \/ HostRange \/ HostBegin \/ HostEnd \/ Close \/ Send
        \/ CompleteOk \/ CompleteRejected \/ CompleteFailed \/ PassForward \/ PassBack
        \/ Deliver \/ Deny
Caller == Loan \/ Reclaim \/ ChildStep \/ RetainChildren \/ BorrowerStops \/ TakeChanges \/ BeginDestroy
          \/ Finish \/ CancelUnsubmitted \/ Abort

Next == Poll \/ Break \/ FwExec \/ FwPost \/ Caller

Spec == Init /\ [][Next]_vars
(* The device worker keeps polling a graph that is being built or torn     *)
(* down, and the firmware answers.                                         *)
FairSpec == Spec /\ WF_vars(Poll) /\ WF_vars(FwExec)

-----------------------------------------------------------------------------

(* Apart from the target of the operation in flight, the five owners' slots *)
(* and a borrower's child agree with the firmware: what is believed live    *)
(* exists, what is believed absent does not, also across rejections,        *)
(* unwinding, failures and the recursive frees of a teardown.               *)
BeliefSound ==
    /\ \A r \in Res \ {rpc.res, "child"} :
        /\ slot[r] = "live" => r \in dev
        /\ slot[r] \in {"absent", "prepared"} => r \notin dev
    /\ kid = "live" => "child" \in dev
    /\ kid \in {"none", "reserved"} => "child" \notin dev

(* finish() and cancelUnsubmitted() retire the names: the firmware then     *)
(* holds nothing under them and never will.                                 *)
RetiredNamesUnused == names = "retired" => dev = {} /\ armed = {} /\ rpc = NoRpc

(* backing.close(): the control buffer's pages go back to the allocator    *)
(* only when the device can no longer reach them.                          *)
PagesReleasedUnreachable ==
    backing = "released" => /\ {"memory", "mapping"} \cap dev = {}
                            /\ rpc.res \notin {"memory", "mapping"}

(* What the graph gives back, names and pages, is out of the firmware's     *)
(* hands (finish, cancelUnsubmitted, backing.close).                        *)
ReturnedUnused == RetiredNamesUnused /\ PagesReleasedUnreachable

(* resolve(): unless a failed borrower retained the graph's names, a       *)
(* notification of a subscription the driver enabled is never denied,      *)
(* whenever it arrives, also while the graph is torn down.                  *)
EventsAdmitted ==
    AtHead /\ names = "reserved" /\ Head(q).event # "stray" => Admits(Head(q).event)

(* takeChanges() and deliver(): an event the firmware posted is queued,    *)
(* accumulated or taken, until the session stops.                          *)
NoEventLost ==
    ~dead => \A n \in 1 .. posted :
        \/ n \in changes \cup taken
        \/ \E i \in DOMAIN q : q[i].kind = "event" /\ q[i].number = n

(* An event is neither refused nor dropped (resolve, deliver, takeChanges). *)
EventsKept == EventsAdmitted /\ NoEventLost

(* With a polling worker and a firmware that answers, a graph being built  *)
(* or torn down settles.                                                    *)
BuildSettles == Polling ~> ~Polling
=============================================================================
