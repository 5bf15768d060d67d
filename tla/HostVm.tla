------------------------------- MODULE HostVm -------------------------------
(***************************************************************************)
(* The GPU address space whose page tables the driver owns itself           *)
(* (gsp_host_vm.zig), with the four parties that share it:                  *)
(*                                                                         *)
(*   the worker     reserves virtual ranges, writes directory and page      *)
(*                  entries a word at a time, invalidates the TLB through   *)
(*                  three registers (gsp_host_tlb.zig) and only then gives  *)
(*                  table pages back (gsp_host_vm_storage.zig);             *)
(*   the clients    virtual ranges and aliases of buffers                   *)
(*                  (gsp_virtual_resources.zig, gsp_virtual_range.zig,      *)
(*                  gsp_memory_alias.zig) and the buffers themselves        *)
(*                  (gsp_buffer_mapping.zig);                               *)
(*   the GPU        jobs that use mappings, and a walker that reads tables  *)
(*                  at any moment and caches directories and pages;         *)
(*   the firmware   which binds and unbinds the root (gsp_vaspace.zig).     *)
(*                                                                         *)
(* Addresses are page numbers.  A table has Fanout entries at every level   *)
(* (4, 512, 512, 256 and 512 in the code) and the tree has Depth levels     *)
(* under the root (4 in the code).                                          *)
(***************************************************************************)
EXTENDS Integers, Sequences, FiniteSets, SequencesExt

CONSTANTS Fanout, Depth,    \* the shape of the tree
          Base, Size,       \* the window of pages RM granted
          Floor,            \* the lowest page reserve() hands out by itself
          Frames,           \* pages that can hold a table
          Ranges, Bindings, \* the resident nodes of the clients
          Buffers, Length,  \* buffers, and the pages of each
          Requests,         \* [bytes, align, fixed] a client may ask for
          MaxCached,        \* entries the walker holds at a time
          None              \* no range, binding, work or frame

ASSUME ShapeAssumption ==
    /\ Fanout \in Nat \ {0, 1} /\ Depth \in Nat \ {0}
    /\ Base \in Nat /\ Size \in Nat /\ Floor \in Nat
    /\ Length \in [Buffers -> Nat \ {0}]

VARIABLES
    vm,        \* host_vm.Owner and its vaspace.Owner: phase, failed, proof
    mem,       \* what every table page holds: the words the walker reads
    frame,     \* the storage node of every table page: free, held, deferred
    tables,    \* Owner.tables: key -> [frame, used, retiring]
    retired,   \* Owner.retired, a stack of keys
    work,      \* Owner.work, None when no edit is under way
    ranges,    \* Owner.ranges, the list ordered by address
    rng,       \* the range of every client and of every buffer (host_range)
    bind,      \* the binding of every alias and of every buffer (host_binding)
    buffer,    \* buffer_mapping.Owner.state of every buffer
    active,    \* the range and the binding that hold the exchange
    hw         \* the walker and the invalidate registers

vars == <<vm, mem, frame, tables, retired, work, ranges, rng, bind, buffer,
          active, hw>>
client == <<ranges, rng, bind, buffer, active>>
store == <<mem, frame, tables, retired>>

-----------------------------------------------------------------------------
(* The shape of the tree (gsp_host_page.zig).                              *)

(* Pages covered by one entry of a table of this level.                    *)
Span(level) == Fanout ^ (Depth - level)
(* tableKey: two addresses share a table of a level iff the keys agree.  A   *)
(* page is keyed as a table of level Depth + 1.                             *)
TableKey(level, va) == <<level, va \div Fanout ^ (Depth + 1 - level)>>
(* index and slot: the entry of va in its table of this level.              *)
Slot(level, va) == (va \div Span(level)) % Fanout
Root == <<0, 0>>
Addresses == Base .. Base + Size - 1

Empty == <<"none", None>>
Directory(f) == <<"directory", f>>
Page(b, i) == <<"page", <<b, i>>>>
Blank == [s \in 0 .. Fanout - 1 |-> Empty]
(* A page that went back to the kernel holds whatever its next user wrote.  *)
Foreign == [s \in 0 .. Fanout - 1 |-> <<"foreign", None>>]

-----------------------------------------------------------------------------
NoRange == [state |-> "none", address |-> 0, bytes |-> 0, align |-> 1, fixed |-> 0]
NoBinding == [state |-> "none", range |-> None, offset |-> 0, buffer |-> None,
              executions |-> 0]
Idle == [range |-> None, binding |-> None]

(* The page a binding puts at an address, and the addresses it covers.      *)
First(b) == rng[bind[b].range].address + bind[b].offset
Covers(b, va) == va \in First(b) .. First(b) + Length[bind[b].buffer] - 1
PageAt(b, va) == Page(bind[b].buffer, va - First(b))
(* A buffer maps itself first, at a range of its own; aliases come on top.   *)
Spaces == Ranges \cup Buffers
Mappings == Bindings \cup Buffers
Linked(b) == bind[b].state \in {"mapping", "mapped", "unmapping"}

(* What a walk of the words in memory finds at va: the entry of every       *)
(* level in turn, from the root.                                            *)
Walk(va) ==
    LET at[l \in 0 .. Depth + 1] ==
            IF l = 0 THEN Directory(tables[Root].frame)
            ELSE IF at[l - 1][1] # "directory" THEN Empty
            ELSE mem[at[l - 1][2]][Slot(l - 1, va)]
    IN  at[Depth + 1]

Init ==
    /\ vm = [phase |-> "none", failed |-> FALSE, proof |-> FALSE]
    /\ mem = [f \in Frames |-> Foreign]
    /\ frame = [f \in Frames |-> "free"]
    /\ tables = <<>>
    /\ retired = <<>>
    /\ work = None
    /\ ranges = <<>>
    /\ rng = [r \in Spaces |-> NoRange]
    /\ bind = [b \in Mappings |-> NoBinding]
    /\ buffer = [o \in Buffers |-> "none"]
    /\ active = Idle
    /\ hw = [bound |-> FALSE, cached |-> {}, pdb |-> None, trigger |-> FALSE]

(* stable(): the owner serves nothing once it has failed.                   *)
Stable == ~vm.failed
Attached == Stable /\ vm.phase = "attached"

(* fail(): the error is kept, the session stops and everything stays held.  *)
Fail == vm' = [vm EXCEPT !.failed = TRUE]

-----------------------------------------------------------------------------
(* Ranges of addresses (reserve, releaseRange).                            *)

AlignUp(a, n) == ((a + n - 1) \div n) * n
End(r) == rng[r].address + rng[r].bytes

(* reserve(): walk the list in address order.  A candidate that ends before *)
(* the next range stays; one that overlaps it moves behind it, or is refused *)
(* when the client fixed the address.  at[i] is the candidate before the     *)
(* i-th range, None once the request is refused.                            *)
ReserveAt(q) ==
    LET start == IF q.fixed # 0 THEN q.fixed
                 ELSE AlignUp(IF Base > Floor THEN Base ELSE Floor, q.align)
        fits(a, r) == a + q.bytes <= rng[r].address
        at[i \in 1 .. Len(ranges) + 1] ==
            IF i = 1 THEN IF start % q.align = 0 THEN start ELSE None
            ELSE LET a == at[i - 1]
                     r == ranges[i - 1]
                 IN  IF a = None \/ fits(a, r) THEN a
                     ELSE IF a >= End(r) THEN a
                     ELSE IF q.fixed # 0 THEN None
                     ELSE AlignUp(End(r), q.align)
        a == at[Len(ranges) + 1]
    IN  IF a # None /\ a >= Base /\ a + q.bytes <= Base + Size THEN a ELSE None

(* The position at which reserve() links the new range.                     *)
Place(a) == Cardinality({i \in 1 .. Len(ranges) : rng[ranges[i]].address < a}) + 1

-----------------------------------------------------------------------------
(* Clients: the operations the worker admits while the exchange is idle     *)
(* (gsp_runtime.zig).  Each borrows it until Complete.                      *)

(* admitVirtual: no other owner has the exchange and no batch executes.     *)
Executing == {b \in Bindings : bind[b].executions > 0}
ExchangeFree ==
    /\ active = Idle /\ Executing = {}
    /\ \A o \in Buffers : buffer[o] \notin {"creating", "closing"}

AllocateRange(r, q) ==
    /\ Attached /\ ExchangeFree
    /\ rng[r].state = "none"
    /\ rng' = [rng EXCEPT ![r] = [NoRange EXCEPT !.state = "creating",
                  !.bytes = q.bytes, !.align = q.align, !.fixed = q.fixed]]
    /\ active' = [Idle EXCEPT !.range = r]
    /\ UNCHANGED <<vm, store, work, ranges, bind, buffer, hw>>

(* mapVirtualBuffer: the alias is linked to its live buffer before the map  *)
(* begins; a mapping that would overlap another of the range is refused.    *)
MapBuffer(b, r, o, off) ==
    /\ Attached /\ ExchangeFree
    /\ bind[b].state = "none"
    /\ rng[r].state = "ready"
    /\ buffer[o] = "live"
    /\ off + Length[o] <= rng[r].bytes
    /\ \A c \in Bindings : bind[c].range = r =>
          \/ off + Length[o] <= bind[c].offset
          \/ bind[c].offset + Length[bind[c].buffer] <= off
    /\ bind' = [bind EXCEPT ![b] = [state |-> "mapping", range |-> r,
                  offset |-> off, buffer |-> o, executions |-> 0]]
    /\ active' = [range |-> r, binding |-> b]
    /\ UNCHANGED <<vm, store, work, ranges, rng, buffer, hw>>

(* unmapVirtualBuffer: refused while a job executes on the mapping.         *)
UnmapBuffer(b) ==
    /\ Attached /\ ExchangeFree
    /\ bind[b].state = "mapped"
    /\ bind[b].executions = 0
    /\ bind' = [bind EXCEPT ![b].state = "unmapping"]
    /\ active' = [range |-> bind[b].range, binding |-> b]
    /\ UNCHANGED <<vm, store, work, ranges, rng, buffer, hw>>

RetireRange(r) ==
    /\ Attached /\ ExchangeFree
    /\ rng[r].state = "ready"
    /\ \A b \in Bindings : bind[b].range # r
    /\ rng' = [rng EXCEPT ![r].state = "destroying"]
    /\ active' = [Idle EXCEPT !.range = r]
    /\ UNCHANGED <<vm, store, work, ranges, bind, buffer, hw>>

(* handoff() and complete(): the exchange returns; a retired binding or      *)
(* range gives up its node.                                                 *)
Complete ==
    /\ Stable /\ active.range \in Ranges
    /\ rng[active.range].state \in {"ready", "closed"}
    /\ active.binding # None => bind[active.binding].state \in {"mapped", "detached"}
    /\ active' = Idle
    /\ bind' = [b \in Mappings |->
                  IF bind[b].state = "detached" THEN NoBinding ELSE bind[b]]
    /\ rng' = [r \in Spaces |->
                  IF rng[r].state = "closed" THEN NoRange ELSE rng[r]]
    /\ UNCHANGED <<vm, store, work, ranges, buffer, hw>>

(* startPushBatch: one batch at a time holds the mappings it uses, until the *)
(* GPU has passed its point.                                                *)
StartBatch(uses) ==
    /\ Attached /\ ExchangeFree
    /\ uses # {} /\ \A b \in uses : bind[b].state = "mapped"
    /\ bind' = [b \in Mappings |->
                  IF b \in uses THEN [bind[b] EXCEPT !.executions = @ + 1] ELSE bind[b]]
    /\ UNCHANGED <<vm, store, work, ranges, rng, buffer, active, hw>>

ReleaseExecutions ==
    bind' = [b \in Mappings |-> [bind[b] EXCEPT !.executions = 0]]

BatchDone ==
    /\ Stable /\ Executing # {}
    /\ ReleaseExecutions
    /\ UNCHANGED <<vm, store, work, ranges, rng, buffer, active, hw>>

-----------------------------------------------------------------------------
(* Buffers (gsp_buffer_mapping.zig): a buffer takes a loan on its pages,     *)
(* reserves a range of its own, registers with the firmware and maps itself  *)
(* before any client may map it.                                            *)

CreateBuffer(o) ==
    /\ Attached /\ ExchangeFree
    /\ buffer[o] = "none"
    /\ buffer' = [buffer EXCEPT ![o] = "creating"]
    /\ rng' = [rng EXCEPT ![o] = [NoRange EXCEPT !.state = "creating",
                                                !.bytes = Length[o]]]
    /\ active' = [Idle EXCEPT !.range = o]
    /\ UNCHANGED <<vm, store, work, ranges, bind, hw>>

(* advance(), .unwinding: the loan or the registration was rejected; what    *)
(* was reserved goes back.                                                  *)
RejectBuffer(o) ==
    /\ Stable /\ buffer[o] = "creating" /\ bind[o].state = "none"
    /\ buffer' = [buffer EXCEPT ![o] = "closing"]
    /\ rng' = [rng EXCEPT ![o] = IF rng[o].state = "ready"
                                 THEN [rng[o] EXCEPT !.state = "destroying"]
                                 ELSE NoRange]
    /\ UNCHANGED <<vm, store, work, ranges, bind, active, hw>>

(* advanceHost, .map: every part is registered.                             *)
MapOwn(o) ==
    /\ Attached /\ buffer[o] = "creating"
    /\ rng[o].state = "ready" /\ bind[o].state = "none"
    /\ bind' = [bind EXCEPT ![o] = [NoBinding EXCEPT !.state = "mapping",
                                        !.range = o, !.buffer = o]]
    /\ active' = [range |-> o, binding |-> o]
    /\ UNCHANGED <<vm, store, work, ranges, rng, buffer, hw>>

(* The buffer is ready and the exchange returns, unless the lease for the    *)
(* GPU is rejected: then the buffer unmaps itself again.                    *)
OwnMapped(o) ==
    /\ Stable /\ buffer[o] = "creating" /\ bind[o].state = "mapped"
    /\ \/ /\ buffer' = [buffer EXCEPT ![o] = "live"]
          /\ active' = Idle
          /\ UNCHANGED bind
       \/ /\ buffer' = [buffer EXCEPT ![o] = "closing"]
          /\ bind' = [bind EXCEPT ![o].state = "unmapping"]
          /\ UNCHANGED active
    /\ UNCHANGED <<vm, store, work, ranges, rng, hw>>

(* beginDestroy: only a buffer no alias is linked to; it unmaps itself.      *)
RetireBuffer(o) ==
    /\ Attached /\ ExchangeFree
    /\ buffer[o] = "live"
    /\ \A b \in Bindings : bind[b].buffer # o
    /\ buffer' = [buffer EXCEPT ![o] = "closing"]
    /\ bind' = [bind EXCEPT ![o].state = "unmapping"]
    /\ active' = [range |-> o, binding |-> o]
    /\ UNCHANGED <<vm, store, work, ranges, rng, hw>>

(* advanceHost, .free_virtual: unmapped, the buffer gives its range back.    *)
FreeOwn(o) ==
    /\ Attached /\ buffer[o] = "closing" /\ bind[o].state = "detached"
    /\ bind' = [bind EXCEPT ![o] = NoBinding]
    /\ rng' = [rng EXCEPT ![o].state = "destroying"]
    /\ active' = [Idle EXCEPT !.range = o]
    /\ UNCHANGED <<vm, store, work, ranges, buffer, hw>>

Gone(o) == buffer[o] \in {"none", "closed"}

(* closeBacking: with no alias, no range and no mapping left the loans on    *)
(* its pages go back to the kernel; a busy collector only delays the         *)
(* metadata.                                                                *)
CloseBuffer(o) ==
    /\ Stable
    /\ buffer[o] = "closing"
    /\ \A b \in Bindings : bind[b].buffer # o
    /\ rng[o].state \in {"none", "closed"} /\ bind[o].state = "none"
    /\ buffer' = [buffer EXCEPT ![o] = "closed"]
    /\ rng' = [rng EXCEPT ![o] = NoRange]
    /\ active' = Idle
    /\ UNCHANGED <<vm, store, work, ranges, bind, hw>>

-----------------------------------------------------------------------------
(* Polls of the worker.  A poll edits many pages, but the walker reads       *)
(* between any two words, so every word written is a step of its own.       *)

(* advanceHost, .creating: a request no gap can satisfy fails the session.  *)
PollReserve ==
    /\ Attached /\ active.binding = None /\ active.range # None
    /\ rng[active.range].state = "creating"
    /\ LET r == active.range
           a == ReserveAt(rng[r])
       IN  \/ /\ a # None
              /\ rng' = [rng EXCEPT ![r].state = "ready", ![r].address = a]
              /\ ranges' = InsertAt(ranges, Place(a), r)
              /\ UNCHANGED vm
           \/ a = None /\ Fail /\ UNCHANGED <<rng, ranges>>
    /\ UNCHANGED <<store, work, bind, buffer, active, hw>>

PollRelease ==
    /\ Attached /\ active.range # None
    /\ rng[active.range].state = "destroying"
    /\ rng' = [rng EXCEPT ![active.range].state = "closed"]
    /\ ranges' = SelectSeq(ranges, LAMBDA r : r # active.range)
    /\ UNCHANGED <<vm, store, work, bind, buffer, active, hw>>

(* beginMap and beginUnmap of the address space.                            *)
StartEdit ==
    /\ Attached /\ work = None /\ active.binding # None
    /\ bind[active.binding].state \in {"mapping", "unmapping"}
    /\ work' = [binding |-> active.binding,
                mapping |-> bind[active.binding].state = "mapping",
                offset |-> 0, level |-> 1, phase |-> "editing",
                tlb |-> "idle"]
    /\ UNCHANGED <<vm, store, client, hw>>

Working(phase) == Attached /\ work # None /\ work.phase = phase
Pages == Length[bind[work.binding].buffer]
Target == First(work.binding) + work.offset
(* The table the edit has reached, and the one under it.                    *)
Here == TableKey(work.level - 1, Target)
Below == TableKey(work.level, Target)
Word(key, level) == mem[tables[key].frame][Slot(level, Target)]
Written(key, level, word) ==
    [mem EXCEPT ![tables[key].frame][Slot(level, Target)] = word]

(* leaf(): follow the entry of the next level...                            *)
Descend ==
    /\ Working("editing") /\ work.offset < Pages /\ work.level <= Depth
    /\ Below \in DOMAIN tables
    /\ ~tables[Below].retiring
    /\ Word(Here, work.level - 1) = Directory(tables[Below].frame)
    /\ work' = [work EXCEPT !.level = @ + 1]
    /\ UNCHANGED <<vm, store, client, hw>>

(* ... or create the table, zeroed, before the entry that reaches it.       *)
CreateTable(f) ==
    /\ Working("editing") /\ work.offset < Pages /\ work.level <= Depth
    /\ work.mapping
    /\ Below \notin DOMAIN tables
    /\ Word(Here, work.level - 1) = Empty
    /\ frame[f] = "free"
    /\ frame' = [frame EXCEPT ![f] = "held"]
    /\ mem' = [Written(Here, work.level - 1, Directory(f)) EXCEPT ![f] = Blank]
    /\ tables' = (Below :> [frame |-> f, used |-> 0, retiring |-> FALSE])
                 @@ [tables EXCEPT ![Here].used = @ + 1]
    /\ work' = [work EXCEPT !.level = @ + 1]
    /\ UNCHANGED <<vm, retired, client, hw>>

NextPage == [work EXCEPT !.offset = @ + 1, !.level = 1]

WritePage ==
    /\ Working("editing") /\ work.offset < Pages /\ work.level = Depth + 1
    /\ work.mapping
    /\ Word(Here, Depth) = Empty
    /\ mem' = Written(Here, Depth, PageAt(work.binding, Target))
    /\ tables' = [tables EXCEPT ![Here].used = @ + 1]
    /\ work' = NextPage
    /\ UNCHANGED <<vm, frame, retired, client, hw>>

(* An entry is cleared, then, while a table has lost its last one,           *)
(* retireEmpty() clears the entry that reaches it and keeps it on the        *)
(* retired stack, table by table up to the root.                            *)
Emptied(level) ==
    level > 0 /\ tables[TableKey(level, Target)].used = 1
Pruned(level) ==
    IF Emptied(level) THEN [work EXCEPT !.phase = "retiring", !.level = level]
    ELSE [NextPage EXCEPT !.phase = "editing"]

ClearPage ==
    /\ Working("editing") /\ work.offset < Pages /\ work.level = Depth + 1
    /\ ~work.mapping
    /\ Word(Here, Depth) = PageAt(work.binding, Target)
    /\ mem' = Written(Here, Depth, Empty)
    /\ tables' = [tables EXCEPT ![Here].used = @ - 1]
    /\ work' = Pruned(Depth)
    /\ UNCHANGED <<vm, frame, retired, client, hw>>

\* Mutant: retireEmpty() without its walk to the parents.
UnlinkLeaf ==
    /\ Working("retiring")
    /\ Word(Here, work.level - 1) = Directory(tables[Below].frame)
    /\ mem' = Written(Here, work.level - 1, Empty)
    /\ tables' = [tables EXCEPT ![Here].used = @ - 1, ![Below].retiring = TRUE]
    /\ retired' = <<Below>> \o retired
    /\ work' = [NextPage EXCEPT !.phase = "editing"]
    /\ UNCHANGED <<vm, frame, client, hw>>

Unlink ==
    /\ Working("retiring")
    /\ Word(Here, work.level - 1) = Directory(tables[Below].frame)
    /\ mem' = Written(Here, work.level - 1, Empty)
    /\ tables' = [tables EXCEPT ![Here].used = @ - 1, ![Below].retiring = TRUE]
    /\ retired' = <<Below>> \o retired
    /\ work' = Pruned(work.level - 1)
    /\ UNCHANGED <<vm, frame, client, hw>>

\* Mutant: the edit goes on to release without an invalidate.
EditDoneQuick ==
    /\ Working("editing") /\ work.offset = Pages
    /\ work' = [work EXCEPT !.phase = "releasing"]
    /\ UNCHANGED <<vm, store, client, hw>>

EditDone ==
    /\ Working("editing") /\ work.offset = Pages
    /\ work' = [work EXCEPT !.phase = "invalidating"]
    /\ UNCHANGED <<vm, store, client, hw>>

(* tlb.Operation: name the root, check the registers took it, publish the   *)
(* command behind a fence, wait for its acknowledgement, check again.       *)
RootFrame == tables[Root].frame
RegisterWrite ==
    [hw EXCEPT !.pdb = IF work.tlb = "address" THEN RootFrame ELSE @,
               !.trigger = @ \/ work.tlb = "publish"]
Step(from, to) == work.tlb = from /\ work' = [work EXCEPT !.tlb = to]

Invalidate ==
    /\ Working("invalidating")
    /\ \/ Step("idle", "address") /\ ~hw.trigger
       \/ Step("address", "verify")
       \/ Step("verify", "publish") /\ hw.pdb = RootFrame
       \/ Step("publish", "waiting")
       \/ Step("waiting", "final") /\ ~hw.trigger
       \/ /\ work.tlb = "final" /\ hw.pdb = RootFrame
          /\ work' = [work EXCEPT !.phase = "releasing"]
    /\ hw' = RegisterWrite
    /\ UNCHANGED <<vm, store, client>>

(* One retired table per poll: out of the index, then back to the storage,  *)
(* which frees it, keeps it for the kernel's collector, or fails and keeps  *)
(* it held.                                                                 *)
ReleaseTable ==
    /\ Working("releasing") /\ retired # <<>>
    /\ LET k == Head(retired)
           f == tables[k].frame
       IN  /\ mem[f] = Blank
           /\ tables' = [j \in DOMAIN tables \ {k} |-> tables[j]]
           /\ retired' = Tail(retired)
           /\ \/ /\ frame' = [frame EXCEPT ![f] = "free"]
                 /\ mem' = [mem EXCEPT ![f] = Foreign]
                 /\ UNCHANGED vm
              \/ /\ frame' = [frame EXCEPT ![f] = "deferred"]
                 /\ UNCHANGED <<vm, mem>>
              \/ Fail /\ UNCHANGED <<frame, mem>>
    /\ UNCHANGED <<work, client, hw>>

(* The edit is done; an unmapped alias lets go of its buffer.               *)
FinishEdit ==
    /\ Working("releasing") /\ retired = <<>>
    /\ bind' = [bind EXCEPT ![work.binding] =
                  IF work.mapping THEN [@ EXCEPT !.state = "mapped"]
                  ELSE [@ EXCEPT !.state = "detached", !.buffer = None]]
    /\ work' = None
    /\ UNCHANGED <<vm, store, ranges, rng, buffer, active, hw>>

(* A poll of whatever holds the exchange fails behind the deadline, without   *)
(* an answer of a register, without a page for a table or with one that is   *)
(* not as expected; everything stays as it was left.  A register write that  *)
(* failed may be visible all the same.                                      *)
PollFault ==
    /\ Stable /\ ~ExchangeFree
    /\ Fail
    /\ hw' \in {hw, IF work # None /\ work.phase = "invalidating" THEN RegisterWrite ELSE hw}
    /\ UNCHANGED <<store, work, client>>

(* collectDeferred: the kernel finally collected a released table page.     *)
CollectDeferred(f) ==
    /\ Stable /\ frame[f] = "deferred"
    /\ frame' = [frame EXCEPT ![f] = "free"]
    /\ mem' = [mem EXCEPT ![f] = Foreign]
    /\ UNCHANGED <<vm, tables, retired, work, client, hw>>

-----------------------------------------------------------------------------
(* The root (gsp_vaspace.zig, pollHost).                                   *)

Prepare(f) ==
    /\ Stable /\ vm.phase = "none" /\ frame[f] = "free"
    /\ frame' = [frame EXCEPT ![f] = "held"]
    /\ mem' = [mem EXCEPT ![f] = Blank]
    /\ tables' = Root :> [frame |-> f, used |-> 0, retiring |-> FALSE]
    /\ vm' = [vm EXCEPT !.phase = "prepared"]
    /\ UNCHANGED <<retired, work, client, hw>>

(* From bindSubmitted on the hardware may hold the root.                    *)
SubmitBind ==
    /\ Stable /\ vm.phase = "prepared"
    /\ vm' = [vm EXCEPT !.phase = "binding"]
    /\ UNCHANGED <<store, work, client, hw>>

ConfirmBind ==
    /\ Stable /\ vm.phase = "binding" /\ hw.bound
    /\ vm' = [vm EXCEPT !.phase = "attached"]
    /\ UNCHANGED <<store, work, client, hw>>

(* The graph is destroyed after every range and buffer of it.               *)
SubmitUnbind ==
    /\ Attached /\ ExchangeFree
    /\ \A r \in Ranges : rng[r].state = "none"
    /\ \A o \in Buffers : Gone(o)
    /\ vm' = [vm EXCEPT !.phase = "unbinding"]
    /\ UNCHANGED <<store, work, client, hw>>

(* unbindConfirmed(), close() and closeEmpty(): the root, empty and alone,   *)
(* goes back, and every deferred page must now be collected; the close      *)
(* fails on a page the kernel still keeps.                                  *)
ConfirmUnbind ==
    /\ Stable /\ vm.phase = "unbinding" /\ ~hw.bound
    /\ ranges = <<>> /\ work = None /\ retired = <<>>
    /\ DOMAIN tables = {Root} /\ mem[RootFrame] = Blank
    /\ tables' = <<>>
    /\ \/ /\ frame' = [f \in Frames |-> "free"]
          /\ mem' = [f \in Frames |-> Foreign]
          /\ vm' = [vm EXCEPT !.phase = "closed"]
       \/ /\ \E kept \in SUBSET {f \in Frames : frame[f] # "free"} :
                /\ kept # {}
                /\ frame' = [f \in Frames |-> IF f \in kept THEN "deferred" ELSE "free"]
                /\ mem' = [f \in Frames |-> IF f \in kept THEN mem[f] ELSE Foreign]
          /\ Fail
    /\ UNCHANGED <<retired, work, client, hw>>

(* A rejected or failed request of the firmware.                            *)
RootFault ==
    /\ Stable /\ vm.phase \in {"binding", "unbinding"}
    /\ Fail
    /\ UNCHANGED <<store, work, client, hw>>

-----------------------------------------------------------------------------
(* The firmware and the GPU.                                               *)

FirmwareBind ==
    /\ vm.phase = "binding" /\ ~hw.bound /\ ~vm.proof
    /\ hw' = [hw EXCEPT !.bound = TRUE]
    /\ UNCHANGED <<vm, store, work, client>>

FirmwareUnbind ==
    /\ vm.phase = "unbinding" /\ hw.bound
    /\ hw' = [hw EXCEPT !.bound = FALSE, !.cached = {}]
    /\ UNCHANGED <<vm, store, work, client>>

(* The walker reads the entry of va in a table it reaches from the root or   *)
(* from a directory it has cached, and caches what it finds.                *)
Fetch(va, level) ==
    /\ hw.bound /\ Cardinality(hw.cached) < MaxCached
    /\ \E d \in IF level = 0 THEN {Directory(RootFrame)}
                ELSE {c.word : c \in {e \in hw.cached : e.key = TableKey(level, va)}} :
          /\ d[1] = "directory"
          /\ mem[d[2]][Slot(level, va)] # Empty
          /\ hw' = [hw EXCEPT !.cached = @ \cup
                      {[key |-> TableKey(level + 1, va),
                        word |-> mem[d[2]][Slot(level, va)]]}]
    /\ hw'.cached # hw.cached
    /\ UNCHANGED <<vm, store, work, client>>

Evict(c) ==
    /\ c \in hw.cached
    /\ hw' = [hw EXCEPT !.cached = @ \ {c}]
    /\ UNCHANGED <<vm, store, work, client>>

(* The invalidate command drops what was cached under the named root.       *)
Acknowledge ==
    /\ hw.trigger
    /\ hw' = [hw EXCEPT !.trigger = FALSE,
                        !.cached = IF hw.pdb = RootFrame THEN {} ELSE @]
    /\ UNCHANGED <<vm, store, work, client>>

-----------------------------------------------------------------------------
(* Reset after a failure: one quiescence proof, consumed in the order of     *)
(* gsp_runtime.zig: aliases and ranges, buffers, table pages.               *)

Reset ==
    /\ vm.failed /\ ~vm.proof
    /\ vm' = [vm EXCEPT !.proof = TRUE]
    /\ hw' = [hw EXCEPT !.bound = FALSE, !.cached = {}, !.trigger = FALSE]
    /\ UNCHANGED <<store, work, client>>

(* The batch gives its mappings back with the proof.                        *)
ResetBatch ==
    /\ vm.proof /\ Executing # {}
    /\ ReleaseExecutions
    /\ UNCHANGED <<vm, store, work, ranges, rng, buffer, active, hw>>

\* Mutant: the alias is taken off its range but not off its buffer.
ResetBindingHalf(b) ==
    /\ vm.proof /\ bind[b].state # "none" /\ Executing = {}
    /\ bind' = [bind EXCEPT ![b] = [NoBinding EXCEPT !.buffer = bind[b].buffer]]
    /\ active' = Idle
    /\ UNCHANGED <<vm, store, work, ranges, rng, buffer, hw>>

(* One alias per slice: it lets go of its buffer and of its range...        *)
ResetBinding(b) ==
    /\ vm.proof /\ bind[b].state # "none" /\ Executing = {}
    /\ bind' = [bind EXCEPT ![b] = NoBinding]
    /\ active' = Idle
    /\ UNCHANGED <<vm, store, work, ranges, rng, buffer, hw>>

(* ... and then the range itself.                                           *)
ResetRange(r) ==
    /\ vm.proof /\ rng[r].state # "none"
    /\ \A b \in Bindings : bind[b].range # r
    /\ rng' = [rng EXCEPT ![r] = NoRange]
    /\ active' = Idle
    /\ UNCHANGED <<vm, store, work, ranges, bind, buffer, hw>>

ResetBuffer(o) ==
    /\ vm.proof
    /\ \A r \in Ranges : rng[r].state = "none"
    /\ \A b \in Bindings : bind[b].buffer # o
    /\ ~Gone(o)
    /\ buffer' = [buffer EXCEPT ![o] = "closed"]
    /\ rng' = [rng EXCEPT ![o] = NoRange]
    /\ bind' = [bind EXCEPT ![o] = NoBinding]
    /\ active' = Idle
    /\ UNCHANGED <<vm, store, work, ranges, hw>>

ResetFrame(f) ==
    /\ vm.proof
    /\ \A o \in Buffers : Gone(o)
    /\ frame[f] # "free"
    /\ frame' = [frame EXCEPT ![f] = "free"]
    /\ mem' = [mem EXCEPT ![f] = Foreign]
    /\ UNCHANGED <<vm, tables, retired, work, client, hw>>

ResetDone ==
    /\ vm.proof /\ vm.phase # "closed"
    /\ \A o \in Buffers : Gone(o)
    /\ \A f \in Frames : frame[f] = "free"
    /\ vm' = [vm EXCEPT !.phase = "closed"]
    /\ tables' = <<>> /\ retired' = <<>> /\ work' = None /\ ranges' = <<>>
    /\ UNCHANGED <<mem, frame, rng, bind, buffer, active, hw>>

-----------------------------------------------------------------------------
Poll ==
    \/ PollReserve \/ PollRelease \/ StartEdit
    \/ Descend \/ (\E f \in Frames : CreateTable(f)) \/ WritePage \/ ClearPage \/ Unlink
    \/ EditDone \/ Invalidate \/ ReleaseTable \/ FinishEdit
    \/ PollFault \/ Complete
    \/ \E o \in Buffers : \/ RejectBuffer(o) \/ MapOwn(o) \/ OwnMapped(o)
                         \/ FreeOwn(o) \/ CloseBuffer(o)

ResetSlice ==
    \/ ResetBatch \/ (\E b \in Bindings : ResetBinding(b))
    \/ (\E r \in Ranges : ResetRange(r)) \/ (\E o \in Buffers : ResetBuffer(o))
    \/ (\E f \in Frames : ResetFrame(f)) \/ ResetDone

Next ==
    \/ Poll \/ ResetSlice
    \/ \E f \in Frames : Prepare(f) \/ CollectDeferred(f)
    \/ SubmitBind \/ ConfirmBind \/ SubmitUnbind \/ ConfirmUnbind \/ RootFault
    \/ \E r \in Ranges, q \in Requests : AllocateRange(r, q)
    \/ \E b \in Bindings, r \in Ranges, o \in Buffers, off \in 0 .. Size - 1 :
          MapBuffer(b, r, o, off)
    \/ \E b \in Bindings : UnmapBuffer(b)
    \/ \E r \in Ranges : RetireRange(r)
    \/ \E uses \in SUBSET Bindings : StartBatch(uses)
    \/ BatchDone
    \/ \E o \in Buffers : CreateBuffer(o) \/ RetireBuffer(o)
    \/ FirmwareBind \/ FirmwareUnbind \/ Acknowledge \/ Reset
    \/ \E va \in Addresses, l \in 0 .. Depth : Fetch(va, l)
    \/ \E c \in hw.cached : Evict(c)

Spec == Init /\ [][Next]_vars

-----------------------------------------------------------------------------
(* Whatever the walker has cached is backed: a directory is a table page     *)
(* the storage still holds for that very key, and a page belongs to an open  *)
(* buffer some alias still maps at that address.  Tables are zeroed before   *)
(* they are linked and pages and tables leave only behind an acknowledged    *)
(* invalidate (releasing in advance(), or the reset proof).                 *)
TranslationHeld ==
    \A c \in hw.cached :
        IF c.key[1] <= Depth
        THEN /\ c.key \in DOMAIN tables
             /\ c.word = Directory(tables[c.key].frame)
             /\ frame[tables[c.key].frame] = "held"
        ELSE \E b \in Mappings : /\ Linked(b) /\ Covers(b, c.key[2])
                                 /\ c.word = PageAt(b, c.key[2])
                                 /\ buffer[bind[b].buffer] # "closed"

(* Between edits the tables say exactly what the clients mapped: a walk      *)
(* finds the page of the alias that covers the address and nothing           *)
(* elsewhere, every table counts its entries, none lingers empty, and no     *)
(* table page is held that the tree does not use (leaf, retireEmpty).       *)
MappedExact ==
    (Attached /\ work = None) =>
        /\ \A va \in Addresses :
             LET at == {b \in Mappings : bind[b].state \in {"mapped", "unmapping"}
                                         /\ Covers(b, va)}
             IN  IF at = {} THEN Walk(va) = Empty
                 ELSE \E b \in at : at = {b} /\ Walk(va) = PageAt(b, va)
        /\ \A k \in DOMAIN tables :
             /\ tables[k].used = Cardinality({s \in 0 .. Fanout - 1 :
                                                mem[tables[k].frame][s] # Empty})
             /\ k # Root => tables[k].used > 0
        /\ {f \in Frames : frame[f] = "held"} = {tables[k].frame : k \in DOMAIN tables}

(* Wherever the failure struck, one proof takes everything down: each owner  *)
(* refuses to close while a child of it is left, and the stages of the       *)
(* runtime's reset leave no child behind, so that a slice is always possible *)
(* until the address space is closed.  Every slice removes something for     *)
(* good, so there is an end.                                                *)
ResetNeverStuck == vm.proof /\ vm.phase # "closed" => ENABLED ResetSlice

(* reserve() finds an address exactly when one exists: the fixed one if it   *)
(* is free, else the lowest aligned gap of the window that is large enough.  *)
Gap(q, a) ==
    /\ a % q.align = 0 /\ a >= Base /\ a + q.bytes <= Base + Size
    /\ IF q.fixed # 0 THEN a = q.fixed ELSE a >= Floor
    /\ \A i \in 1 .. Len(ranges) :
          a + q.bytes <= rng[ranges[i]].address \/ End(ranges[i]) <= a

FirstFit ==
    ~vm.proof => \A q \in Requests :
        LET gaps == {a \in Addresses : Gap(q, a)}
        IN  IF gaps = {} THEN ReserveAt(q) = None
            ELSE ReserveAt(q) \in gaps /\ \A a \in gaps : ReserveAt(q) <= a

(* The address space is what its owner believes: the tables hold exactly    *)
(* what is mapped, and the free addresses are exactly those reserve() finds. *)
SpaceExact == MappedExact /\ FirstFit

=============================================================================
