# A verification of the R4OS NVIDIA driver

The driver (`src/src/*.zig`) starts NVIDIA's GSP firmware on a GA10x GPU and
then works through it: memory, channels, displays and power are requests to the
firmware's resource manager (RM), sent over two message rings in DMA memory.
Nearly every file holds an *owner*: a struct with a phase, polled one bounded
step at a time from one device worker. The rule throughout is fail-stop: when
the driver cannot tell whether the device took a step, it retains everything
the device might still reach, until a function level reset proves otherwise.

The hard part is not any one owner. It is what the firmware, the interrupt
handler, the kernel's work lane and the shutdown caller do between two steps of
one, and what is still reachable after a step failed half-way.

## Parts of the system

| part | main files | state | hard behaviour | modelled by |
|---|---|---|---|---|
| queue rings, framing | `gsp_ring`, `gsp_message` | cursors, sequence | wrap, full ring, record split over the end | `GspRing`, `GspTransport` |
| transport | `gsp_transport` | session, cursors, one pending ticket | firmware between any two I/Os, a failed publication that took effect | `GspTransport`, `GspChannel` |
| boot events, exchange, dispatch | `gsp_boot_events`, `gsp_exchange`, `gsp_runtime_events` | token, one request, deadline, lockdown | notifications between request and reply, handoff, ambiguous ACK | `GspExchange` |
| RM names | `gsp_rm_names` | ledger of leases | stale leases, burned names, retention | `RmNames` |
| RM client graph | `gsp_rm_graph`, `gsp_objects`, `gsp_i2c_object`, `gsp_vaspace`, `gsp_control_buffer`, `gsp_event_objects` | five owners, device objects, DMA pages | rejection or unknown outcome at every step, recursive free, late events | `RmGraph` |
| interrupt endpoint | `gsp_irq` | gate word, registers, MSI | handler on any CPU against close | `GspIrq` |
| device pacing | `gsp_start_work` | ticket, semaphore, disposition | four actors, time-outs against late completions | `StartWork` |
| recovery, reset, shutdown | `gsp_device`, `gsp_reset`, `gsp_teardown`, `gsp_run_memory`, `gsp_logs`, `main` | phases, epoch, proof | posted writes, shutdown in the middle of a restart | `GspRecovery` |
| GPU address spaces | `gsp_host_vm`, `gsp_host_vm_storage`, `gsp_host_tlb`, `gsp_host_page`, `gsp_virtual_*`, `gsp_memory_alias` | ranges, page tables, table pages | the GPU walks the tables while they are edited; TLB invalidation before reuse | `HostVm` |
| DSC parameter generator | `dsc/*.c`, `dsc/*.h` | none: a pure function | table reads, truncating bit fields, closed forms, 1/16 bit steps | `DscPps` |
| DSC admission | `gsp_dsc`, `gsp_dp_watermark` | none | agreement with what the generator was asked and what it packed | `DscPlan`, `DscAdmission` |
| DisplayPort links | `gsp_dp_link`, `gsp_dp_stop`, `gsp_dp_mode`, the display transaction of `gsp_runtime` | stages, retries, candidates, receiver capture | the receiver changes anywhere in a mode set; rollback after partial set-up | `DpLink` |
| HDMI links | `gsp_hdmi_link`, `gsp_frl_link`, `gsp_hdmi_dsc`, `gsp_mode_control` | search state, trained rate, shared query owner | capacity judged before training, bounded search, a refused query | `FrlLink` |
| resident runtime | `gsp_runtime` | one exchange lent to many owners | arbitration, preemption by events | in part: the display transaction (`DpLink`, `FrlLink`) and address-space loans (`HostVm`) |
| GPU memory | `gsp_vram`, `gsp_buffer_mapping`, `gsp_native_backing` | reservations, registrations | last-use release, deferred collection | the mapping of a buffer, from its reservation to its release: `HostVm` |
| channels and jobs | `gsp_fifo`, `gsp_context`, `gsp_push_ring`, `gsp_native_queue`, `gsp_native_{copy,graphics,video}` | push ring, fences, jobs | hardware GET against producer, cancel against completion | no |
| display engine, outputs, MST | `gsp_display_*`, `gsp_flip`, `gsp_native_{output,modes}`, `gsp_receiver`, `gsp_mst_*` | channels, notifiers, payload table | acknowledged against requested state | no |
| power | `gsp_power` | demand, status page | retained status backing | no |
| firmware start, boot capture, VBIOS | `gsp_boot`, `booter`, `fwsec*`, `boot_*`, `vbios*` | one-shot sequences | layout arithmetic | no |

`PROJECT.json` lists every part with its files, and the hazards with the line
at which each one bites.

## Modules

Variables and operators carry the names of the source; a comment above every
operator says which function it is. What the code does between two places where
another actor can run is one action, and what a handler does at its end belongs
to the action.

### GspRing, GspTransport, GspChannel

`GspRing` is the arithmetic of `gsp_ring.zig`: distance of cursors, free and
available slots, the two spans of a plan, the next cursor, and the two checks of
a peer's cursor. `GspTransport` is `Session`: `ses` its fields, `op` the I/O an
operation in progress does next. `preloadInit`, `connect`, `send`, `receive`
and `acknowledge` are broken at every read, publication and notification,
because the firmware runs in between; a record that wraps is copied in two reads.
A publication may be applied and reported as failed. Slots hold "part i of record n", which is what length, sequence and
checksum let `decode` tell apart. The firmware is external: it reads and writes
records by the protocol, and a bounded number of times publishes any cursor.

`GspChannel` is the promise: a FIFO of records per direction. `CommandFifo` and
`StatusFifo` are refinements of it, with the slots from the reader's to the
writer's cursor as the channel's contents.

### GspExchange

`Boot` until INIT_DONE, then a succession of `Exchange` owners over one
`Handoff` token; one request outstanding per owner; notifications, lockdown and
replies arrive in one FIFO (the promise above). The clock is explicit and may
pass a deadline between any two steps; a caller may poll with a later deadline
than the request was begun with, and the earlier of the two counts. A receive can
fail, and a send or an acknowledgement can fail with or without its effect. A
handler may refuse its notification, which then stays unacknowledged. Histories:
`lockSeen`, `runs`.

### RmNames and RmGraph

`RmNames` is the ledger, driven by callers that present any lease they were
ever given. `RmGraph` is the client: creation in order base, i2c, address space,
control buffer, events, and destruction in the opposite order, against the set
`dev` of objects that exist in the firmware. A reply is ok, an RM error (it did
not happen) or an RPC error (unknown). `kid` is the lease of a user of the loan
and what that user believes of its object (`RetainChildren` is what its failure
does to the graph). The host page tables are prepared in a poll of their own, and
an owner told to unbind them while ranges are left fails. Reserving a host
address range takes effect at once; a host mapping has a beginning and an end.

### GspIrq

`gate` is the only lock: 0 disabled, 1 admitted, 2 active, 3 active and to be
retired. `interrupt` runs on any CPU at any time; `open`, `configureDisplay` and
`close` in the worker. Device behaviour comes from how the code uses the
registers: a message sets the status bit, its rising edge latches the leaf, an
armed, allowed and latched leaf interrupts; once `configureDisplay` has enabled
the display, its leaf may interrupt at any time, alone or with the falcon's, and
is served first; each register write of `open` is a step. An MSI is sent when the three first
hold together, so one that finds the gate taken is lost; a shared line is level
triggered and calls the handler for other devices too.

### StartWork

The pacing task, the callback on the kernel's work lane, the interrupt handler
and the lifecycle caller, step by step between accesses to what they share.
Kernel services are external and may refuse, time out, or publish a final state
before its wake. A queued ticket may stay behind another driver's work for ever.
A slice runs under the driver's lifecycle guard, so that the stop callback never
overlaps the body of a slice; completions are named 1 and 2 in turn because the
kernel does not reuse a name that was just released.

### GspRecovery

Device phases (running, recovering, resetting, retiring, failed), the port that
marks its effects before the first one, the run-memory lease and its log reader,
the teardown, and the phases of the function level reset, against a PCI function
with a bus-master bit, transactions in flight and a reset that takes effect some
time after its trigger. Every register write can be lost or applied with an
error; the queue may refuse to be retained, a staged image may refuse to close,
and the console may refuse to come back after a restart. An epoch names one
lease of the memory the firmware was given.

### HostVm

The address space whose page tables the driver writes itself. `tables`,
`retired`, `work` and `ranges` are the fields of `host_vm.Owner`; `mem` is what
the table pages hold and `frame` what the storage thinks of each page. Clients
reserve ranges, alias buffers into them and run batches on the mappings, one
operation at a time through the exchange. A buffer has a range and a mapping of
its own, made when it is imported and taken down, after its last alias, before
its pages go back; both kinds of mapping run through the same editor. The worker's poll edits many pages,
but the GPU's walker reads between any two words, so that each level followed,
each table created, each page written or cleared and each emptied table
unlinked is an action. The
invalidate is the register sequence of `gsp_host_tlb`. The walker starts at the
bound root, follows directories it has cached, and caches what it reads; a page
that went back to the kernel holds something foreign. Any poll may fail, a
failed register write may be visible, and from then on nothing is released until
a reset, whose stages are actions too. Addresses are page numbers and a tree has
`Depth` levels of `Fanout` entries, where the code has 4 levels of 256 or 512
under a root of 4. A request that no gap can satisfy fails the address space and
with it the session, as in the code; where RM owns the tables it would be
rejected.

### DscPps, DscPlan, DscAdmission

`DscPps` is the C generator as `r4os_dsc_generate` can reach it: RGB 4:4:4 over
an 8b/10b link or HDMI, from the link's share of bits per pixel through slices,
rate control and quantiser tables to the packed fields, one operator per C
function with its rounding and truncation. `DscPlan` is `gsp_dsc.generate`:
what it refuses before the call, passes on, re-reads from the bytes and accepts,
with the watermarks and blanking of `gsp_dp_watermark` (FEC) and
`gsp_dp_link.stream` (uncompressed). Their 64-bit products are exact: `MulDiv`
multiplies and divides in steps that stay inside TLC's 32-bit integers. `DscAdmission` runs the two over a
family of requests.

The operators were compared with the C, compiled for the host, on about 3100
requests (admitted and refused): every field of every parameter set agreed.

### DpLink

One output, its receiver and the mode sets on it. `work` is
`gsp_display_link.Work` with its link part (`stage`) and its stop part
(`clear`); `channel` is the exchange's view of the one request under way, so
that a receiver event can fall between preparation, submission and reply.
`hw` is what is plugged in and how it was last set; `seen` is the driver's
capture of it. `consume` is the whole of `gsp_dp_link.consume` and
`gsp_dp_stop.consume`: deferred, refused and negative replies, the retry and
poll limits, the fallback to the next link. `rollbackDisplayLink`,
`advanceDisplayLinkRecovery`, the two ways to abandon and the detach are the
runtime's. A refused setter may have taken effect. Plans are selected, and
admitted again against the live receiver, by the operators of `DscPlan`;
`table` holds their answers, computed once. A receiver may never have been
captured, or report capabilities `receiverCaps` refuses: the plan is then
uncompressed, and the link decides once it has read the receiver. A retry delay
outside 1..500 ms is one of the error replies. Colour admission accepts.

### FrlLink

A TMDS or FRL route and the mode query beside it. The query searches for a rate
and, when none carries the raw mode, for a compressed depth: rates upwards, then
whole-bit steps down, then sixteenths, within 64 probes. A mode set trains,
rechecks what RM carries at the trained rate, shows the image, or rolls back to
the old one. RM's answers are a capacity (`cap`) that may change at any time. A
receiver that changes makes the query obsolete, and a malformed reply fails its
owner.

## Runs

| run | asks | bounds |
|---|---|---|
| `transport` | are commands and status records FIFOs of whole records, and all taken or delivered? does an honest firmware trip no check? | rings of 4 slots, records of 1-2 slots; 7 commands with one wrong peer cursor, or 7 status records with two, or 2 of each together (every start slot, a wrapping record, a full ring); sequence modulo 5, ticket limit 7 |
| `exchange` | one owner, the right reply, handlers once, nothing sent under lockdown, an end of every request? | 2 owners, 1 function, clock to 2, deadlines up to one beyond it, 2 requests, 2 notifications, revision limit 3 |
| `rm_names` | are names burned, stale leases refused, parents kept for children? | 2 root slots for 3 client names, 2 table slots, 1 resident node, 5 object names |
| `rm_graph` | does the driver's belief match the device wherever it acts on it? do creation, unwinding and teardown settle? | 2 events; with and without control buffer and host page tables |
| `irq` | is the gate a lock and close a barrier? does an honest device latch no fault? is a message drained although its MSI was lost, does close end? | 2 CPUs, 1 display set-up, 1 refused kernel call |
| `recovery` | is memory held while it is reachable, is the proof of quiescence sound, is a shutdown final? do recovery and shutdown come to rest? | none needed: epochs end with the one automatic restart |
| `pacing` | does the semaphore outlive its users, is the device stepped from one side? does a stop join, is a message served? | 2 device steps per slice, 2 busy answers, failing kernel services |
| `host_vm` | is what the walker cached still there, do the tables say what is mapped, is a free address found, does the reset get on? | 4 pages across both halves of a two-level tree (neighbours in one table, and a mapping that straddles two), 5 table pages (all the tree needs), buffers of 1 and 2 pages with ranges of their own, 1 client range, 2 aliases, 2 cached entries (a walk goes on from the last directory); pages and aliases symmetric |
| `dsc_admission` | are table reads in range, is the link left its headroom, are the closed forms right, is anything lost in the packed bytes? | 10 timings x 3 depths x 2 rates x 1, 2, 4 lanes x 3 encoders x 5 decoders, and 336 forced HDMI requests, chosen at the edges of blanking, slice count and precision |
| `dp_link` | is the image on a link trained for it, also after a rollback? is a compressed image admitted for the receiver it meets? does the receiver get no setter after a known change? does every transaction end? | 2 modes, one compressed; 4 receivers (two parameter sets, one never captured, one with unsupported lanes); 1 receiver event or power-off; 2 mode sets; every reply to every request |
| `frl_link` | is the image on a link RM judged after its training? is the searched plan the best one, within the probes? | a TMDS and two FRL modes, 58 capacities around every kind of probe, one later change out of 5, 2 queries |
| `frl_owner` | does the query owner survive every answer about an optional link? **No**, see below | as `frl_link` |

No run checks deadlock: a failed session, a retained graph, a closed endpoint
and a finished shutdown are places where the driver stops by design, and the
bounded inputs end. What must not stop is said by the liveness properties.

Two CPUs suffice for `irq` to have one handler inside and one arriving
while the worker closes; the theorems below hold for any number. Two owners
suffice for a handoff; replies are paired by function alone, so one function is
the case in which they are easiest to confuse. The sequence
modulus is larger than the ring, as 2^32 is larger than 63 slots, and small
enough to wrap. One receiver event suffices in `dp_link` because the runtime
keeps no count: what a second event could meet (a transaction already turned
aside) is covered by the theorems, which bound neither events nor mode sets.

### What `frl_owner` shows

`gsp_mode_control.zig:554` promises that "an optional link cannot retire the
shared query owner". Replies keep that promise. But when no uncompressed rate
fits, the query goes on to a compressed search, also for a decoder that lacks
the mode's component depth; the next request then cannot be encoded, the error
leaves `poll` outside the handler under that comment, and the owner and its
exchange fail.

### Observations

Not properties, but consequences of the code met on the way:

* `nvt_dsc_pps.c:2476` says that 128 will be the lowest value of the padding
  search; the loop leaves 127. The generator rounds 126 and 127 up to 128 for a
  precision of 1/16 or 1/8 bit; a sink that steps by 1/4 bit or more aligns 127
  down below 8 bits per pixel and the mode is refused.
* After a transaction was turned aside, the receiver's decoder bit is left as
  it was; `ScanoutCovered` therefore asks nothing of it for an uncompressed
  image.
* If the first image is compressed and its receiver changes during training,
  or an uncompressed mode set is refused, the runtime stops: there is nothing to
  roll back to, or the plan is not one that can be rolled back. An encoding
  refused within a transaction also stops the runtime.
* An FRL mode admitted without compression whose capacity is gone at commit
  falls into the compressed search, trains, and then is not the plan that was
  committed, which stops the runtime.
* If RM's capacity falls during the fine search, 64 probes may not suffice and
  the owner fails; `SearchBest` speaks of an unchanged capacity.

### Fairness

* Worker steps: the pacing task schedules slices for as long as the device
  runs (`MessageServed` shows it does), and each slice polls. Weak fairness of
  polling is therefore justified by `StartWork`, under fairness of its task and
  callback, which are kernel threads.
* The shared work lane belongs to all drivers. Nothing is assumed of it except
  that a callback that began goes on; `MessageServed` says what holds *if* the
  lane keeps taking tickets up, `StopJoins` holds without.
* Firmware: a doorbell is answered and an RPC executed only where a run says so
  (`CommandsTaken`, `RecordsDelivered`, `BuildSettles`). `RequestsEnd` needs no answer:
  the clock passes the deadline and some poll is made after it.
* Interrupts: a pending interrupt of the falcon is delivered, a handler that
  entered goes on. Nothing is assumed of the display's.
* Display transactions: the device loop goes on and RM and the channels answer
  (`TransactionEnds`); without an answer the deadline stops the runtime.
* Recovery: a deadline passes, and a device step after the deadline happens.
  Nothing is assumed of the display, the firmware or the function.

## Theorems

All proofs are for every value of the constants that satisfies the named
assumption of the module.

* `GspRingProofs`: for rings of every size, a plan's cursor is exactly the
  record ahead, its spans are the record and disjoint, a transmitted record
  touches no unread slot and never makes a full ring look empty, and a peer
  cursor that passes the checks leaves a consistent ring. `DistanceRange` is the
  only arithmetic fact; the rest is where a slot lies relative to a cursor.
* `RmNamesProofs`: names are never issued twice, a retired lease never
  validates again, no child outlives its parent's lease, and retention ends
  only by a reset. The invariant says that every range ever issued lies below
  the counter and that ranges are disjoint; without it a reissued name could not
  be excluded for the next step.
* `GspIrqProofs`: mutual exclusion of the register sequence, close as a
  barrier, registers mapped while a handler runs, no rearm after retirement, for
  any set of CPUs. The invariant is `Types /\ Owned /\ Mapped /\ Shut /\ Silent`:
  the gate is 2 or 3 exactly while one actor is at a program point of the body;
  once close has passed its swap the gate is 0 and stays 0.
* `StartWorkProofs`: the semaphore is destroyed last, the device is stepped from
  one side, a ticket known to the kernel is named by the owner. The invariant is
  `TypeOK /\ TicketOfTask /\ TicketOfLane /\ HandlesOfCaller /\ InBounds`: what
  each of the three actors knows of the ticket and the handles at each of its
  program points.
* `GspExchangeProofs`: for any owners, functions, deadlines and numbers of
  requests and notifications, the queue has one driver, a reply is completed
  against the request it answers, no handler runs twice, and nothing is sent
  under lockdown. The invariant is `TypeOK /\ Own /\ Held /\ Locked /\
  Outstanding /\ Paired /\ Numbered /\ Once`. `poll` compares function numbers
  only, so that the reply is the right one needs `Outstanding`: at most one
  request or reply exists in the two queues, and the waiting owner asked for it.
  `Once` needs the session state: a record may stay in the queue after its
  handler ran, but then the session has failed and nobody reads it again. The
  firmware is the modelled one, which answers each request once.
* `DpLinkProofs`: for any modes, receivers, source and number of events and mode
  sets, a compressed image is submitted only with the parameter set of the
  receiver its own transaction read, and no setter goes to a receiver after its
  change is known. The invariant is `Shape /\ Noticed /\ Aside /\ Flight /\
  Lived`. A known change has taken the capture and put the output aside
  (`Noticed`), and a transaction without its receiver has one request left, the
  source's FEC (`Aside`): neither theorem's formula says so, and without it a
  reply consumed after the change could lead back to a setter. `Lived` is that
  `select` is the only way past the reading stages. `consume` is treated stage
  by stage. No assumption on the constants is used, and nothing of what the
  admission functions compute: the theorems hold for any table of answers.

Only model-checked: the transport session and its refinement, the
graph, the address space, the recovery, the DSC arithmetic, the FRL link and
`ScanoutCovered`; and all liveness, which is outside the prover.

## What is not modelled

Byte layouts (the repository compares them with NVIDIA's structures in its own
tests), log and VBIOS decoding, boot capture, and the parts without a module in
the table. The start-up of a device is one phase of `GspRecovery`, and the
execution of sequencer records, with the notices they post, is left out. Of the
display interrupt, what is done per head is left out; of a buffer's import, the
registration of its pages with RM. `DpLink` has one
output, so the hotplug owner's refresh after another receiver's change is left
out, and of a power cycle only that the output is put aside is modelled.
`open` clears the leaf before the status bit, so a bit that rises between the two
clears leaves a leaf without a status and the first interrupt takes it for a
fault; `HonestNoFault` excludes exactly that window.

Most of the C in the repository has no behaviour that could be modelled. It is
declarations and constants of NVIDIA's headers and byte-layout checks. Of the
rest:

* `dsc/nvt_dsc_pps.c` is modelled where the driver can reach it. The driver asks
  for RGB 4:4:4 over 8b/10b links only, so the 4:2:2 and 4:2:0 branches, the
  dual-mode and drop-mode limits, 128b/132b links and embedded panels are dead
  code here, and so are `DSC_GeneratePPSWithSliceCountMask` and the offset
  function that only it and those branches use.
* `rm/*.c` put NVIDIA's OS interface (clock, formatting, log, memory, semaphore,
  wait) on kernel services. Only the self-checks in the probes call it; the
  running driver does not.

The driver's concurrency and state are in Zig; that is where the modules are.

## Next

* `gsp_push_ring`, `gsp_fifo` and `gsp_context` (producer against hardware GET,
  retirement), the jobs over them, memory objects with last-use release, MST
  payload tables, and the arbitration of `gsp_runtime` over all of them.
* Proofs of the command refinement, `BeliefSound`, `DmaGuarded`,
  and `TranslationHeld` for trees of every shape.
