---------------------------- MODULE DscAdmission ----------------------------
(* One admission of a compressed mode, over every request of a family: the  *)
(* request, the C generator's answer, and the plan the driver makes of it.  *)
EXTENDS DscPlan

CONSTANT Requests

VARIABLES request, raw, plan

vars == <<request, raw, plan>>

NotYet == [error |-> "not yet"]

Init ==
    /\ request \in Requests
    /\ raw = [ok |-> FALSE]
    /\ plan = NotYet

\* The request is refused before the C generator is entered, or generated.
Call ==
    /\ plan = NotYet /\ ~raw.ok
    /\ IF Admission(request) # "none"
       THEN plan' = Error(Admission(request)) /\ raw' = raw
       ELSE LET o == r4os_dsc_generate(DscInput(request))
            IN  /\ raw' = o
                /\ plan' = IF o.ok THEN NotYet ELSE Error("Unsupported")
    /\ UNCHANGED request

\* The output is re-read and judged.
Judge ==
    /\ plan = NotYet /\ raw.ok
    /\ plan' = Checked(request, raw)
    /\ UNCHANGED <<request, raw>>

Next == Call \/ Judge

Spec == Init /\ [][Next]_vars

Admitted == plan.error = "none"

-----------------------------------------------------------------------------

\* The generator's array reads stay inside its tables: whatever request the
\* driver lets through, the quantiser column CalcRcParam computes from the
\* bits per pixel exists in the table of that component depth.  The C makes
\* no check of its own; the cap at three components per pixel and the
\* driver's guard on forced values are all that keeps the column in range.
QpInTable == raw.ok => raw.qp_column \in 0 .. QpColumns(request.bpc) - 1

\* A DisplayPort plan leaves the room the hardware needs: an eighth of a bit
\* per pixel below the payload unless the value is the lowest, and at most 96%
\* of the payload on one lane, also where 126 and 127 are rounded up to 128;
\* encoders of more than four slices never exceed 16 bits per pixel.
LinkHeadroom ==
    (Admitted /\ request.transport # "hdmi") =>
        /\ request.pclk * (IF plan.bpp > 128 THEN plan.bpp + 2 ELSE 128) <= 16 * request.payload
        /\ request.lanes = 1 => 100 * request.pclk * plan.bpp <= 1536 * request.payload
        /\ request.source.max_slices > 4 => plan.bpp <= 256

\* The slice count of a DisplayPort plan is the least count that the sink
\* advertises, the source can encode, and whose slices are narrow and slow
\* enough; the count the driver derives again from the slice width is the
\* count the generator chose.
SlicesMinimal ==
    (Admitted /\ request.transport # "hdmi") =>
        LET enough(n) ==
              /\ n <= request.source.max_slices
              /\ Ceil(request.width, n) <= Least(request.sink.max_slice_width,
                                                 1024 * request.source.line_units)
              /\ request.pclk <= 10 * n * request.sink.slice_clock
        IN  /\ plan.slices = raw.slice_num /\ enough(plan.slices)
            /\ \A n \in request.sink.slice_mask : enough(n) => n >= plan.slices

\* The closed form for the padding of the last mux words agrees with the
\* search it replaces: take the most that can be needed and give bits back
\* until the rest of the slice is a whole number of mux words.
MuxPaddingExact ==
    raw.ok =>
        LET bits == 8 * raw.chunk_size * raw.slice_height
            word == MuxWordSize(request.bpc)
            whole == {e \in 1 .. MostExtraBits(request.bpc) : (bits - e) % word = 0}
        IN  raw.num_extra_mux_bits = (IF whole = {} THEN 0 ELSE Max(whole))

\* Nothing is lost in the parameter set: each field read back from its bytes,
\* at the width the decoder reads, is the value rate control was computed
\* with, although the packing truncates every one of them.
PpsFaithful ==
    raw.ok =>
        LET b == DSC_PpsConstruct(raw)
        IN  /\ BppOf(b) = raw.bits_per_pixel /\ be(b, 10) = raw.slice_height
            /\ be(b, 14) = raw.chunk_size /\ be(b, 16) = raw.initial_xmit_delay
            /\ be(b, 18) = raw.initial_dec_delay /\ be(b, 20) = raw.initial_scale_value
            /\ be(b, 22) = raw.scale_increment_interval
            /\ be(b, 24) = raw.scale_decrement_interval
            /\ be(b, 26) = raw.first_line_bpg_offset /\ be(b, 28) = raw.nfl_bpg_offset
            /\ be(b, 30) = raw.slice_bpg_offset /\ be(b, 32) = raw.initial_offset
            /\ be(b, 34) = raw.final_offset
            /\ \A i \in 1 .. 15 :
                  LET packed == PackedBpgOffset(raw)[i]
                  IN  raw.range_bpg_offset[i] = (IF packed >= 32 THEN packed - 64 ELSE packed)

=============================================================================
