----------------------------- MODULE GspRecovery -----------------------------
(***************************************************************************)
(* Loss of a running GPU and what the driver may take back from it: the    *)
(* run-memory lease and its log reader (gsp_run_memory.zig, gsp_logs.zig), *)
(* the firmware teardown (gsp_teardown.zig), the function level reset and  *)
(* its quiescence proof (gsp_reset.zig), and the device owner that drives  *)
(* them one worker slice at a time through recovering, resetting and       *)
(* retiring, into one automatic restart or into a terminal shutdown        *)
(* (gsp_device.zig, main.zig).  Opposite them stands the PCI function: a   *)
(* bus-master bit, the run memory its firmware was given, transactions     *)
(* still in flight, and a reset that takes effect some time after the      *)
(* register write that triggers it.                                        *)
(*                                                                         *)
(* An epoch names one lease of the queue, log and argument storage.  A     *)
(* slice that finds its condition not yet met changes nothing; it is not   *)
(* an action here.                                                         *)
(***************************************************************************)
EXTENDS Naturals, FiniteSets

VARIABLES
    dev,      \* the Device owner
    late,     \* the deadline that governs the current phase has passed
    port,     \* the MMIO/transport port (gsp_sequencer_port)
    lease,    \* the run-memory lease
    reader,   \* the log reader, a borrower of the lease
    rec,      \* the firmware teardown
    rst,      \* the reset owner
    irq,      \* the interrupt endpoint: "none", "open" or "closed"
    hw,       \* the PCI function
    issued,   \* last queue epoch the storage handed out
    freed,    \* epochs whose storage was unmapped and may have been recycled
    resets    \* epochs whose function level reset was triggered (history)

vars == <<dev, late, port, lease, reader, rec, rst, irq, hw, issued, freed, resets>>

NoPort == [open |-> FALSE, effects |-> FALSE, epoch |-> 0]
NoLease == [held |-> FALSE, epoch |-> 0, retained |-> FALSE, failed |-> FALSE,
            log |-> FALSE, recovery |-> FALSE]
NoReader == [open |-> FALSE, enabled |-> TRUE, epoch |-> 0]
NoRecovery == [held |-> FALSE, phase |-> "sb", failed |-> FALSE]
NoReset == [held |-> FALSE, epoch |-> 0, phase |-> "detached", failed |-> FALSE,
            triggered |-> FALSE, resumed |-> FALSE]

------------------------------------------------------------------------------
(* What the owners can tell about one another *)

\* Lease.generation: the epoch transport users may still work in.
Generation == IF lease.held /\ ~lease.failed /\ ~lease.recovery THEN lease.epoch ELSE 0

\* resetGeneration of the device, as the reset owner sees it.
DeviceGeneration == IF dev.stopped THEN 0 ELSE dev.epoch

ProofValid(e) ==
    /\ e # 0
    /\ rst.held /\ rst.phase = "complete" /\ ~rst.failed
    /\ rst.epoch = e /\ rst.triggered /\ ~rst.resumed
    /\ DeviceGeneration = e

Quiescent == ProofValid(rst.epoch)

HasResumedResetEpoch ==
    /\ dev.faultTried
    /\ rst.held /\ rst.phase = "complete" /\ ~rst.failed /\ rst.triggered /\ rst.resumed
    /\ dev.epoch > rst.epoch

\* admitReset: the one gate of every PCI and MMIO access of the reset owner.
AdmitReset ==
    /\ ~dev.stopped /\ dev.phase \in {"resetting", "retiring"} /\ dev.failed
    /\ dev.display /\ irq # "open" /\ ~reader.enabled

------------------------------------------------------------------------------
Init ==
    /\ \E hooks, capable \in BOOLEAN :
          dev = [phase |-> "boot", epoch |-> 1, failed |-> FALSE, stopped |-> FALSE,
                 started |-> FALSE, terminal |-> FALSE, retired |-> FALSE,
                 faultTried |-> FALSE, termTried |-> FALSE, stage |-> "runtime",
                 handoff |-> FALSE, console |-> FALSE, display |-> FALSE,
                 hooks |-> hooks, capable |-> capable]
    /\ late = FALSE
    /\ port = [open |-> TRUE, effects |-> FALSE, epoch |-> 1]
    /\ lease = [NoLease EXCEPT !.held = TRUE, !.epoch = 1, !.log = TRUE]
    /\ reader = [open |-> TRUE, enabled |-> TRUE, epoch |-> 1]
    /\ rec = NoRecovery
    /\ rst = NoReset
    /\ irq = "none"
    /\ hw = [bm |-> TRUE, users |-> {}, pending |-> {}, flr |-> FALSE]
    /\ issued = 1
    /\ freed = {}
    /\ resets = {}

------------------------------------------------------------------------------
(* The PCI function *)

\* Firmware starts a transfer with memory it was given.
HwIssue ==
    /\ hw.bm
    /\ \E e \in hw.users \ hw.pending : hw' = [hw EXCEPT !.pending = @ \cup {e}]
    /\ UNCHANGED <<dev, late, port, lease, reader, rec, rst, irq, issued, freed, resets>>

HwDrain ==
    /\ \E e \in hw.pending : hw' = [hw EXCEPT !.pending = @ \ {e}]
    /\ UNCHANGED <<dev, late, port, lease, reader, rec, rst, irq, issued, freed, resets>>

\* A function level reset forgets firmware, transactions and the command word.
HwReset ==
    /\ hw.flr
    /\ hw' = [bm |-> FALSE, users |-> {}, pending |-> {}, flr |-> FALSE]
    /\ UNCHANGED <<dev, late, port, lease, reader, rec, rst, irq, issued, freed, resets>>

\* The deadline of a phase that has one passes.
Expire ==
    /\ ~late
    /\ dev.phase \in {"recovering", "resetting", "retiring"} \/ dev.terminal
    /\ late' = TRUE
    /\ UNCHANGED <<dev, port, lease, reader, rec, rst, irq, hw, issued, freed, resets>>

------------------------------------------------------------------------------
(* A live run: the first device effect, readiness, and failure *)

\* Device.fail: an exposed run is recovered, an unexposed one just stops.
Failed(d, p, l) ==
    {[d EXCEPT !.failed = TRUE, !.phase = q] :
        q \in IF p.effects /\ l.retained THEN {"recovering", "failed"} ELSE {"failed"}}

\* The first register write of a run.  Effects are recorded, the lease and the
\* boot display are retained, and only then is the register written.
Submit ==
    /\ dev.phase = "boot" /\ ~dev.stopped /\ port.open /\ ~port.effects
    /\ port' = [port EXCEPT !.effects = TRUE]
    /\ \/ /\ Generation = dev.epoch
          /\ lease' = [lease EXCEPT !.retained = TRUE]
          /\ \/ /\ dev' = [dev EXCEPT !.display = TRUE]
                /\ hw' = [hw EXCEPT !.users = {dev.epoch}]
             \/ /\ dev' \in Failed(dev, port', lease')     \* the display refuses
                /\ UNCHANGED hw
       \/ /\ Generation = dev.epoch                        \* the queue refuses
          /\ lease' = [lease EXCEPT !.retained = TRUE, !.failed = TRUE]
          /\ dev' \in Failed(dev, port', lease')
          /\ UNCHANGED hw
       \/ /\ dev' \in Failed(dev, port', lease)            \* the lease refuses
          /\ UNCHANGED <<lease, hw>>
    /\ late' = FALSE
    /\ UNCHANGED <<reader, rec, rst, irq, issued, freed, resets>>

\* INIT_DONE was acknowledged; later the interrupt endpoint opens.
BootDone ==
    /\ dev.phase = "boot" /\ ~dev.stopped /\ port.effects /\ dev.display /\ Generation = dev.epoch
    /\ dev' = [dev EXCEPT !.phase = "ready"]
    /\ UNCHANGED <<late, port, lease, reader, rec, rst, irq, hw, issued, freed, resets>>

OpenIrq ==
    /\ dev.phase = "ready" /\ ~dev.terminal /\ irq = "none"
    /\ irq' = "open"
    /\ UNCHANGED <<dev, late, port, lease, reader, rec, rst, hw, issued, freed, resets>>

\* A queue or log access fails: the lease stops serving transport.
LeaseFails ==
    /\ dev.phase \in {"boot", "ready"} /\ Generation # 0
    /\ lease' = [lease EXCEPT !.failed = TRUE]
    /\ UNCHANGED <<dev, late, port, reader, rec, rst, irq, hw, issued, freed, resets>>

\* Any error of a boot or runtime slice, the console restore request and the
\* shutdown deadline among them.
RunFails ==
    /\ dev.phase \in {"boot", "ready"} /\ ~dev.stopped
    /\ \E console \in BOOLEAN :
          /\ console => dev.phase = "ready" /\ ~dev.terminal /\ ~dev.console /\ ~rst.held
          /\ dev' \in Failed([dev EXCEPT !.console = @ \/ console], port, lease)
    /\ late' = FALSE
    /\ UNCHANGED <<port, lease, reader, rec, rst, irq, hw, issued, freed, resets>>

------------------------------------------------------------------------------
(* Recovering: interrupts are retired, the lease changes hands, firmware is torn down *)

ResetFailed(d) == [d EXCEPT !.phase = "failed"]

\* hasUnstartedRestartHandoff, with the runtime owners left open.
MayKeepHandoff ==
    /\ HasResumedResetEpoch /\ dev.phase = "failed" /\ dev.stage = "restart" /\ ~dev.console
    /\ ~port.effects /\ lease.held /\ ~lease.retained /\ Generation = dev.epoch /\ dev.handoff

Opened == [held |-> TRUE, epoch |-> dev.epoch, phase |-> "disable_dma", failed |-> FALSE,
           triggered |-> FALSE, resumed |-> FALSE]

\* beginReset from device state d; one attempt for a fault, one for a shutdown.
BeginReset(d) ==
    LET tried == IF d.terminal THEN d.termTried ELSE d.faultTried
        stale == rst.held /\ ~(d.terminal /\ HasResumedResetEpoch)
        refused == ~reader.open \/ ~d.capable \/ tried \/ stale
        begun(keep) == [d EXCEPT !.phase = "resetting", !.stage = "runtime", !.handoff = keep,
                                 !.faultTried = @ \/ ~d.terminal, !.termTried = @ \/ d.terminal]
    IN  \/ /\ irq = "open"                                  \* IrqRetirement
           /\ dev' = ResetFailed(d)
           /\ UNCHANGED <<reader, rst, irq>>
        \/ /\ irq' = IF irq = "open" THEN "closed" ELSE irq
           /\ reader' = IF reader.open THEN [reader EXCEPT !.enabled = FALSE] ELSE reader
           /\ \/ /\ refused
                 /\ dev' = ResetFailed(d)
                 /\ UNCHANGED rst
              \/ /\ ~refused /\ (d.hooks \/ d.terminal)
                 /\ \E keep \in BOOLEAN :
                       /\ keep => d.terminal /\ MayKeepHandoff
                       /\ dev' = begun(keep)
                 /\ rst' = NoReset
              \/ /\ ~refused /\ ~d.hooks /\ ~d.terminal
                 /\ \/ dev' = begun(FALSE) /\ d.display /\ d.failed /\ rst' = Opened
                    \/ dev' = ResetFailed(begun(FALSE)) /\ UNCHANGED rst

\* The next slice after a failure retires interrupt delivery and opens the
\* teardown, which stops log polling and takes the lease over; any error goes
\* straight to the reset.
StartRecovery ==
    /\ dev.phase = "recovering" /\ ~dev.started /\ ~dev.stopped
    /\ \/ /\ ~late
          /\ irq' = IF irq = "open" THEN "closed" ELSE irq
          /\ lease.retained /\ ~lease.recovery /\ reader.open
          /\ reader' = [reader EXCEPT !.enabled = FALSE]
          /\ lease' = [lease EXCEPT !.recovery = TRUE, !.failed = TRUE]
          /\ rec' = [held |-> TRUE, phase |-> "sb", failed |-> FALSE]
          /\ dev' = [dev EXCEPT !.started = TRUE]
          /\ UNCHANGED <<rst, late>>
       \/ /\ \/ UNCHANGED <<lease, rec>>                    \* refused before the handoff
             \/ /\ rec' = [NoRecovery EXCEPT !.held = TRUE, !.failed = TRUE]
                /\ lease' \in {lease, [lease EXCEPT !.recovery = TRUE, !.failed = TRUE]}
          /\ BeginReset(dev)
          /\ late' = FALSE
    /\ UNCHANGED <<port, hw, issued, freed, resets>>

\* One teardown slice.  A rejected SB still unloads; nothing is released.
StepRecovery ==
    /\ dev.phase = "recovering" /\ dev.started /\ ~dev.stopped
    /\ \/ /\ ~late /\ rec.phase = "sb"
          /\ rec' = [rec EXCEPT !.phase = "unload"]
          /\ UNCHANGED <<dev, reader, rst, irq, late>>
       \/ /\ ~late /\ rec.phase = "unload"
          /\ rec' = [rec EXCEPT !.phase = "complete"]
          /\ BeginReset(dev)
          /\ late' = FALSE
       \/ /\ rec' = [rec EXCEPT !.failed = TRUE]
          /\ BeginReset(dev)
          /\ late' = FALSE
    /\ UNCHANGED <<port, lease, hw, issued, freed, resets>>

------------------------------------------------------------------------------
(* Resetting: the display lets go, then the function level reset runs *)

\* Mutant: a busy display service can hold the hand-over up.
HandOverUnbounded ==
    /\ dev.phase = "resetting" /\ ~dev.stopped
    /\ (dev.hooks \/ dev.terminal) /\ ~dev.handoff
    /\ ~late
    /\ \/ dev' = [dev EXCEPT !.handoff = TRUE]
       \/ dev' = ResetFailed(dev)
    /\ UNCHANGED <<late, port, lease, reader, rec, rst, irq, hw, issued, freed, resets>>

\* deviceReset(prepare) of the display service: busy, refused, or handed over.
HandOver ==
    /\ dev.phase = "resetting" /\ ~dev.stopped
    /\ (dev.hooks \/ dev.terminal) /\ ~dev.handoff
    /\ \/ ~late /\ dev' = [dev EXCEPT !.handoff = TRUE]
       \/ dev' = ResetFailed(dev)
    /\ UNCHANGED <<late, port, lease, reader, rec, rst, irq, hw, issued, freed, resets>>

HandedOver ==
    dev.phase = "resetting" /\ ~dev.stopped /\ (dev.handoff \/ ~(dev.hooks \/ dev.terminal))

OpenReset ==
    /\ HandedOver /\ ~rst.held
    /\ \/ AdmitReset /\ rst' = Opened /\ late' = FALSE /\ UNCHANGED dev
       \/ dev' = ResetFailed(dev) /\ UNCHANGED <<rst, late>>
    /\ UNCHANGED <<port, lease, reader, rec, irq, hw, issued, freed, resets>>

\* An error is terminal for this reset owner and for the device's recovery.
ResetError ==
    /\ rst' = [rst EXCEPT !.phase = "failed", !.failed = TRUE]
    /\ dev' = ResetFailed(dev)

Stepping(p) == HandedOver /\ rst.held /\ ~Quiescent /\ rst.phase = p

\* A step of the reset that is neither late nor refused.
Live == AdmitReset /\ DeviceGeneration = rst.epoch /\ ~late /\ ~rst.resumed

Goto(p) == rst' = [rst EXCEPT !.phase = p] /\ UNCHANGED dev

Rest == <<late, port, lease, reader, rec, irq, issued, freed, resets>>

\* Any error before or instead of an effect: admission, clock, deadline, a
\* vanished or changed device, a refused access, a wrong readback.
StepError == HandedOver /\ rst.held /\ ~Quiescent /\ ResetError /\ UNCHANGED <<hw, Rest>>

\* Bus mastering goes off.  The write may reach the device and still fail.
DisableDma ==
    /\ Stepping("disable_dma") /\ Live
    /\ hw' = [hw EXCEPT !.bm = FALSE]
    /\ Goto("drain") \/ ResetError
    /\ UNCHANGED Rest

Drain ==
    /\ Stepping("drain") /\ Live
    /\ hw.pending = {}
    /\ Goto("trigger")
    /\ UNCHANGED <<hw, Rest>>

\* The trigger is recorded before the write that may or may not arrive.
Trigger ==
    /\ Stepping("trigger") /\ Live /\ ~hw.bm
    /\ \/ /\ hw' = [hw EXCEPT !.flr = TRUE]
          /\ rst' = [rst EXCEPT !.phase = "quiet", !.triggered = TRUE]
          /\ UNCHANGED dev
       \/ /\ hw' \in {hw, [hw EXCEPT !.flr = TRUE]}
          /\ rst' = [rst EXCEPT !.phase = "failed", !.failed = TRUE, !.triggered = TRUE]
          /\ dev' = ResetFailed(dev)
    /\ resets' = resets \cup {rst.epoch}
    /\ UNCHANGED <<late, port, lease, reader, rec, irq, issued, freed>>

\* Until the reset is over, configuration reads do not return the identity.
ConfigWait ==
    /\ Stepping("config_wait") /\ Live
    /\ ~hw.flr
    /\ Goto("bars")
    /\ UNCHANGED <<hw, Rest>>

\* The command word is rewritten without bus mastering and read back.
Command ==
    /\ Stepping("command") /\ Live
    /\ hw' = [hw EXCEPT !.bm = FALSE]
    /\ Goto("restore") \/ ResetError
    /\ UNCHANGED Rest

After == [quiet |-> "config_wait", bars |-> "command", restore |-> "gfw", gfw |-> "counter_trigger",
          counter_trigger |-> "counter_wait", counter_wait |-> "verify"]

\* The mandatory silence, the six BARs, the restored words (never the command
\* word), the firmware boot wait and the downstream counter.
Restore ==
    /\ \E p \in DOMAIN After : Stepping(p) /\ Live /\ Goto(After[p])
    /\ UNCHANGED <<hw, Rest>>

Verify ==
    /\ Stepping("verify") /\ Live
    /\ ~hw.bm /\ hw.pending = {} /\ ~hw.flr
    /\ rst' = [rst EXCEPT !.phase = "complete"]
    /\ late' = FALSE
    /\ dev' = [dev EXCEPT !.phase = IF dev.hooks \/ dev.terminal THEN "retiring" ELSE "failed"]
    /\ UNCHANGED <<hw, port, lease, reader, rec, irq, issued, freed, resets>>

\* A proof that an earlier attempt left is simply taken up again.
TakeUpProof ==
    /\ HandedOver /\ rst.held /\ Quiescent
    /\ late' = FALSE
    /\ dev' = [dev EXCEPT !.phase = IF dev.hooks \/ dev.terminal THEN "retiring" ELSE "failed"]
    /\ UNCHANGED <<hw, port, lease, reader, rec, rst, irq, issued, freed, resets>>

ResetStep == \/ StepError \/ DisableDma \/ Drain \/ Trigger \/ ConfigWait \/ Command
             \/ Restore \/ Verify \/ TakeUpProof

------------------------------------------------------------------------------
(* Retiring: every old owner consumes the proof, then a fresh run or the end *)

Retiring(stage) == dev.phase = "retiring" /\ ~dev.stopped /\ dev.stage = stage

\* A stage runs only under a live proof and before its deadline.
Retires(stage) == Retiring(stage) /\ Quiescent /\ ~late

RetireError ==
    /\ dev.phase = "retiring" /\ ~dev.stopped
    /\ dev' = ResetFailed(dev)
    /\ UNCHANGED <<late, port, lease, reader, rec, rst, irq, hw, issued, freed, resets>>

Advance(stage) == dev' = [dev EXCEPT !.stage = stage]

\* The runtime graph, the common display queue, native output and, for a
\* console restore, the staged console image.
RetireOwners ==
    /\ \/ Retires("runtime") /\ Advance("common")
       \/ Retires("common") /\ Advance("output")
       \/ Retires("output") /\ Advance(IF dev.console /\ ~dev.terminal THEN "console_memory" ELSE "port")
       \/ Retires("console_memory") /\ Advance("port")
    /\ UNCHANGED <<late, port, lease, reader, rec, rst, irq, hw, issued, freed, resets>>

\* Port.closeAfterReset; unmapping the registers can be refused and retried.
RetirePort ==
    /\ Retires("port")
    /\ port.open => ProofValid(port.epoch)
    /\ \/ port' = NoPort /\ Advance("reader")
       \/ port' = [port EXCEPT !.effects = FALSE] /\ UNCHANGED dev
    /\ UNCHANGED <<late, lease, reader, rec, rst, irq, hw, issued, freed, resets>>

RetireReader ==
    /\ Retires("reader")
    /\ reader.open => lease.held /\ lease.log /\ lease.epoch = reader.epoch
    /\ reader' = NoReader
    /\ lease' = [lease EXCEPT !.log = FALSE]
    /\ Advance("memory")
    /\ UNCHANGED <<late, port, rec, rst, irq, hw, issued, freed, resets>>

AfterMemory == IF dev.terminal THEN "terminal" ELSE "restage"

RetireMemory ==
    /\ Retires("memory")
    /\ lease.held /\ ProofValid(lease.epoch) /\ ~lease.log
    /\ lease' = NoLease
    /\ Advance(AfterMemory)
    /\ UNCHANGED <<late, port, reader, rec, rst, irq, hw, issued, freed, resets>>

RetireTerminal ==
    /\ Retires("terminal")
    /\ dev' = [dev EXCEPT !.retired = TRUE]
    /\ UNCHANGED <<late, port, lease, reader, rec, rst, irq, hw, issued, freed, resets>>

\* A shutdown that arrives before the fresh run was staged needs no fresh run.
RestageTerminal ==
    /\ Retires("restage") /\ dev.terminal
    /\ ~lease.held /\ ~port.open
    /\ Advance("terminal")
    /\ UNCHANGED <<late, port, lease, reader, rec, rst, irq, hw, issued, freed, resets>>

\* restageBootAfterReset: the old storage is closed, zeroed storage is staged,
\* leased under a new epoch and opened for logs.  It can stop after any part;
\* storage that does not close is kept and nothing is staged.
Restage ==
    /\ Retires("restage") /\ ~dev.terminal
    /\ ~lease.held /\ ~reader.open
    /\ \/ /\ freed' \in {freed, freed \cup {issued}}
          /\ UNCHANGED <<issued, lease, reader>>
          /\ dev' = ResetFailed(dev)
       \/ /\ freed' = freed \cup {issued} /\ issued' = issued + 1
          /\ \/ /\ lease' = [NoLease EXCEPT !.held = TRUE, !.epoch = issued + 1]
                /\ UNCHANGED reader
                /\ dev' = ResetFailed(dev)
             \/ /\ lease' = [NoLease EXCEPT !.held = TRUE, !.epoch = issued + 1, !.log = TRUE]
                /\ reader' = [open |-> TRUE, enabled |-> TRUE, epoch |-> issued + 1]
                /\ dev' = ResetFailed(dev)
             \/ /\ lease' = [NoLease EXCEPT !.held = TRUE, !.epoch = issued + 1, !.log = TRUE]
                /\ reader' = [open |-> TRUE, enabled |-> FALSE, epoch |-> issued + 1]
                /\ Advance("restart")
    /\ UNCHANGED <<late, port, rec, rst, irq, hw, resets>>

\* Mutant: the proof is revoked only after the command word was accepted.
RevokeLate(ok) == rst' = IF ok THEN [rst EXCEPT !.resumed = TRUE] ELSE rst

\* The proof is revoked before the first possibly posted bus-master write.
Revoke(ok) == rst' = [rst EXCEPT !.resumed = TRUE]

\* Mutant: a shutdown request cannot arrive between two slices.
RestartAlways == TRUE

RestartAllowed == ~dev.terminal

\* Restart after resumeDma: the device moves to the new epoch and opens the
\* port; the first fault stays recorded.  It can stop after any part.
Restart ==
    /\ Retires("restart") /\ RestartAllowed
    /\ AdmitReset /\ ~hw.bm
    /\ \/ /\ Revoke(FALSE)                                  \* the write is refused or misread
          /\ \E on \in BOOLEAN : hw' = [hw EXCEPT !.bm = on]
          /\ dev' = ResetFailed(dev)
          /\ UNCHANGED <<port, reader, rec, irq, late>>
       \/ /\ Revoke(TRUE)
          /\ hw' = [hw EXCEPT !.bm = TRUE]
          /\ dev.console                                    \* the console does not activate
          /\ dev' = [ResetFailed(dev) EXCEPT !.epoch = lease.epoch]
          /\ late' = FALSE
          /\ UNCHANGED <<port, reader, rec, irq>>
       \/ /\ Revoke(TRUE)
          /\ hw' = [hw EXCEPT !.bm = TRUE]
          /\ rec' = NoRecovery
          /\ irq' = "none"
          /\ \E opened \in BOOLEAN :
                port' = IF opened THEN [open |-> TRUE, effects |-> FALSE, epoch |-> lease.epoch]
                                  ELSE NoPort
          /\ \/ /\ port'.open
                /\ dev' = [dev EXCEPT !.epoch = lease.epoch, !.started = FALSE, !.phase = "boot"]
                /\ reader' = [reader EXCEPT !.enabled = TRUE]
             \/ /\ dev' = [ResetFailed(dev) EXCEPT !.epoch = lease.epoch, !.started = FALSE]
                /\ reader' \in {reader, [reader EXCEPT !.enabled = port'.open]}
          /\ late' = FALSE
    /\ UNCHANGED <<lease, issued, freed, resets>>

Retire == \/ RetireError \/ RetireOwners \/ RetirePort \/ RetireReader \/ RetireMemory
          \/ RetireTerminal \/ RestageTerminal \/ Restage \/ Restart

------------------------------------------------------------------------------
(* Shutdown, between two slices: pacing has been joined *)

\* main.shutdownNative reaches the device only when something may be exposed.
Exposed == port.effects \/ dev.display \/ dev.terminal

\* requestShutdown, first call.
RequestShutdown ==
    /\ Exposed /\ ~dev.stopped /\ ~dev.terminal
    /\ port.effects \/ Quiescent \/ HasResumedResetEpoch
    /\ LET d == [dev EXCEPT !.terminal = TRUE]
       IN  \/ /\ dev.phase = "failed" /\ ~Quiescent
              /\ \/ ~HasResumedResetEpoch /\ dev' = d /\ UNCHANGED <<reader, rst, irq>>
                 \/ HasResumedResetEpoch /\ BeginReset(d)
           \/ /\ dev.phase = "failed" /\ Quiescent
              /\ dev' = [d EXCEPT !.phase = "resetting"]
              /\ UNCHANGED <<reader, rst, irq>>
           \/ /\ dev.phase \in {"boot", "ready"}
              /\ dev' \in Failed(d, port, lease)
              /\ UNCHANGED <<reader, rst, irq>>
           \/ /\ dev' = d      \* an idle runtime drains, a recovery goes on, or the catalog stays open
              /\ UNCHANGED <<reader, rst, irq>>
    /\ late' = FALSE
    /\ UNCHANGED <<port, lease, rec, hw, issued, freed, resets>>

\* A later call only resumes cleanup that the same proof already covers.
RetryShutdown ==
    /\ dev.terminal /\ ~dev.stopped /\ ~dev.retired
    /\ dev.phase = "failed" /\ Quiescent
    /\ dev' = [dev EXCEPT !.phase = IF dev.handoff THEN "retiring" ELSE "resetting"]
    /\ late' = FALSE
    /\ UNCHANGED <<port, lease, reader, rec, rst, irq, hw, issued, freed, resets>>

\* A run that never reached the device is closed without a reset.
CloseBeforeSubmission ==
    /\ ~Exposed /\ ~dev.stopped
    /\ ~lease.retained /\ ~lease.recovery
    /\ dev' = [dev EXCEPT !.stopped = TRUE]
    /\ irq' = IF irq = "open" THEN "closed" ELSE irq
    /\ port' = NoPort /\ reader' = NoReader /\ lease' = NoLease
    /\ freed' = freed \cup {issued}
    /\ UNCHANGED <<late, rec, rst, hw, issued, resets>>

\* closeBootPreparation and finishTerminal after a terminal retirement.
CloseTerminal ==
    /\ dev.retired /\ ~dev.stopped
    /\ Quiescent /\ ~lease.held /\ ~port.open /\ irq # "open"
    /\ freed' = freed \cup {issued}
    /\ dev' = [dev EXCEPT !.stopped = TRUE, !.display = FALSE]
    /\ UNCHANGED <<late, port, lease, reader, rec, rst, irq, hw, issued, resets>>

Step == \/ Submit \/ BootDone \/ OpenIrq \/ RunFails \/ StartRecovery \/ StepRecovery
        \/ HandOver \/ OpenReset \/ ResetStep \/ (~dev.retired /\ Retire)

Next == \/ HwIssue \/ HwDrain \/ HwReset \/ Expire \/ LeaseFails
        \/ Step \/ RequestShutdown \/ RetryShutdown \/ CloseBeforeSubmission \/ CloseTerminal

Spec == Init /\ [][Next]_vars

\* The pacing task keeps stepping the device, and time passes.
FairSpec == Spec /\ WF_vars(Expire) /\ WF_vars(late /\ Step)

------------------------------------------------------------------------------
(* Properties *)

\* Whatever the function may still read or write belongs to the lease that is
\* held and retained now: no failure, teardown, reset, restage or shutdown path
\* lets go of memory that firmware was given.
ReachableHeld ==
    \A e \in hw.users \cup hw.pending :
        lease.held /\ lease.retained /\ lease.epoch = e /\ e \notin freed

\* A live quiescence proof means what it says: bus mastering is off, nothing
\* is in flight and no firmware runs (gsp_reset.zig Quiescence).
ProofSound ==
    Quiescent => ~hw.bm /\ hw.users = {} /\ hw.pending = {}

\* The device's memory is guarded from both sides: what the function can
\* reach is held, and what is given back rests on a proof that is true.
DmaGuarded == ReachableHeld /\ ProofSound

\* After a shutdown request bus mastering is never switched on again, whatever
\* stage of an automatic restart the request interrupts.
TerminalNeverResumes ==
    [][dev.terminal /\ ~hw.bm => ~hw'.bm]_vars

\* A failed or incomplete reset is never retried: an epoch is reset at most
\* once, so a second reset belongs to a run that was rebuilt after the first.
ResetOncePerEpoch ==
    [][rst.held /\ rst'.triggered /\ ~rst.triggered => rst.epoch \notin resets]_vars

\* No step goes back: a shutdown is final and an epoch is reset only once
\* (retireAfterReset, hasResumedResetEpoch, beginReset).
NoWayBack == TerminalNeverResumes /\ ResetOncePerEpoch

\* Every recovery comes to rest: a rebuilt run, a retired device or a retained
\* one, whatever the display service, the firmware or the function leave out.
RecoverySettles ==
    dev.phase \in {"recovering", "resetting", "retiring"} ~>
        dev.phase \in {"boot", "failed"} \/ dev.retired

\* A shutdown request ends retired or retained; main.shutdownNative's loop
\* over Device.step terminates.
ShutdownSettles ==
    dev.terminal ~> dev.phase = "failed" \/ dev.retired

\* Recoveries and shutdowns both end (Device.step, shutdownNative).
Settles == RecoverySettles /\ ShutdownSettles
==============================================================================
