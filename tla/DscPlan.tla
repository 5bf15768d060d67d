------------------------------ MODULE DscPlan -------------------------------
(* Admission of a compressed mode: gsp_dsc.generate, which guards the C     *)
(* generator and re-reads its output, and the blanking rule of              *)
(* gsp_dp_watermark.withFec.  Units are those of DscPps; a payload that is  *)
(* not a multiple of 100 kbit/s is rounded down, as the code rounds it down *)
(* to a bit per second.                                                     *)
(*                                                                          *)
(* A source is [advertised, usable, line_units, rate_buffer, step,          *)
(* max_slices, line_bits]; a sink is [usable, minor, rc_buffer, slice_mask, *)
(* line_bits, block_prediction, max_bpp, bpc_mask, slice_clock,             *)
(* max_slice_width, step].  A request is [transport, pclk, width, height,   *)
(* bpc, hblank, payload, rate, lanes, forced_bpp, forced_slice_width,       *)
(* source, sink].                                                           *)
EXTENDS DscPps

Error(name) == [error |-> name]

\* Payload of an 8b/10b link whose rate is in 270 MHz units.
dp8b10bPayload(rate, lanes) == 2160 * rate * lanes
fecPayload(rate, lanes) == (dp8b10bPayload(rate, lanes) * 976) \div 1000

\* FEC and downspread, the capacity the callers pass in.
payload(rate, lanes) == (dp8b10bPayload(rate, lanes) * 97) \div 100

\* links.Demand.fits: the stream does not exceed the payload.
Fits(pclk, bpp, capacity) == pclk * bpp <= 16 * capacity

\* RM's encoder capabilities: a precision code outside 1..5 gives step 0.
DscSource(c) ==
    LET step == IF c.precision \in 1 .. 5 THEN 2 ^ (c.precision - 1) ELSE 0
    IN  [advertised |-> TRUE, line_units |-> c.line_units, rate_buffer |-> c.rate_kb * 1024,
         step |-> step, max_slices |-> c.max_slices, line_bits |-> c.line_bits,
         usable |-> /\ step # 0 /\ c.line_units # 0 /\ c.rate_kb # 0 /\ c.max_slices # 0
                    /\ c.line_bits \in 8 .. 16]

powerStep(step) == step \in {1, 2, 4, 8, 16}

\* The DPCD code of a slice clock, 0 for the clocks the code refuses.
ThroughputCode(mhz) ==
    CASE mhz = 170 -> 15
      [] mhz = 340 -> 1
      [] mhz \in 400 .. 1000 /\ mhz % 50 = 0 -> 2 + (mhz - 400) \div 50
      [] OTHER -> 0

\* The guards before the C generator is entered.
Admission(q) ==
    LET s == q.source  k == q.sink
    IN  IF \/ ~s.advertised \/ ~s.usable \/ ~k.usable
           \/ k.minor \notin {1, 2} \/ q.bpc \notin {8, 10, 12} \/ q.bpc \notin k.bpc_mask
        THEN "Unsupported"
        ELSE IF \/ ~powerStep(s.step) \/ ~powerStep(k.step)
                \/ s.line_units \notin 1 .. 64 \/ s.max_slices \notin 1 .. 24
                \/ s.line_bits \notin 8 .. 16 \/ k.line_bits \notin 8 .. 16
                \/ k.max_slice_width = 0 \/ k.slice_mask = {}
                \/ q.width \notin 1 .. 65535 \/ q.height \notin 8 .. 65535
                \/ q.hblank > 65535 \/ q.pclk = 0
                \/ /\ q.transport = "hdmi"
                   /\ \/ q.forced_bpp < 128 \/ q.forced_bpp >= 48 * q.bpc
                      \/ q.forced_bpp % Max({s.step, k.step}) # 0
                      \/ q.forced_slice_width \notin 1 .. k.max_slice_width
                \/ q.transport # "hdmi" /\ (q.forced_bpp # 0 \/ q.forced_slice_width # 0)
                \/ q.pclk > 40000 \/ q.payload \notin 1 .. 640000
        THEN "Parameter"
        ELSE IF \/ q.transport # "hdmi" /\ q.payload > fecPayload(q.rate, q.lanes)
                \/ ~Fits(q.pclk, 128, q.payload)
        THEN "Bandwidth"
        ELSE IF ThroughputCode(k.slice_clock) = 0 THEN "Unsupported" ELSE "none"

\* The C request: only the counts the mask format can name are passed on.
DscInput(q) ==
    [transport |-> q.transport, pclk |-> q.pclk, payload |-> q.payload,
     link_rate |-> 27 * q.rate, width |-> q.width, height |-> q.height, bpc |-> q.bpc,
     lanes |-> q.lanes, hblank |-> q.hblank, sink_step |-> q.sink.step,
     max_slice_width |-> q.sink.max_slice_width,
     slice_mask |-> q.sink.slice_mask \cap ValidSliceNum,
     sink_line_bits |-> q.sink.line_bits, bpc_mask |-> q.sink.bpc_mask,
     revision_minor |-> q.sink.minor, block_prediction |-> q.sink.block_prediction,
     throughput_code |-> ThroughputCode(q.sink.slice_clock), max_bpp |-> q.sink.max_bpp,
     source_line_units |-> q.source.line_units, source_slices |-> q.source.max_slices,
     source_line_bits |-> q.source.line_bits, forced_bpp |-> q.forced_bpp,
     forced_slice_width |-> q.forced_slice_width]

\* What the code reads back from the bytes of the parameter set.
be(bytes, offset) == 256 * bytes[offset + 1] + bytes[offset + 2]
BppOf(bytes) == 256 * (bytes[5] % 4) + bytes[6]

\* The checks made on the generator's output, on its bytes.
Readback(q, bpp, bytes) ==
    LET width == be(bytes, 12)
        height == be(bytes, 10)
        rc == Ceil(be(bytes, 38), 8)
        slices == Ceil(q.width, width)
    IN  /\ q.transport = "hdmi" => bpp = q.forced_bpp /\ width = q.forced_slice_width
        /\ bpp >= 128 /\ bpp < 48 * q.bpc /\ bpp <= 1023
        /\ bytes[1] = 16 + q.sink.minor /\ bytes[4] \div 16 = q.bpc
        /\ (bytes[5] % 32) \div 4 = 4 /\ BppOf(bytes) = bpp
        /\ be(bytes, 6) = q.height /\ be(bytes, 8) = q.width
        /\ bytes[5] \div 32 = 1 => q.sink.block_prediction = 1
        /\ width \in 1 .. Least(q.sink.max_slice_width, q.source.line_units * 1024)
        /\ height >= 8 /\ q.height % height = 0 /\ be(bytes, 14) # 0
        /\ rc \in 1 .. q.source.rate_buffer
        /\ q.transport # "hdmi" => rc <= q.sink.rc_buffer
        /\ slices <= Least(24, q.source.max_slices) /\ slices \in q.sink.slice_mask
        /\ q.pclk <= slices * q.sink.slice_clock * 10
        /\ bpp % Max({q.sink.step, q.source.step}) = 0
        /\ q.sink.max_bpp # 0 => bpp <= q.sink.max_bpp

\* Chunk rounding can take more than the ideal rate.
ChunkFits(q, chunk, slices) == chunk * slices * q.pclk < Ceil(q.payload * q.width, 8)

\* What the driver keeps of the parameter set it has read back.
PlanOf(q, bpp, bytes) ==
    [error |-> "none", bytes |-> bytes, bpp |-> bpp, slices |-> Ceil(q.width, be(bytes, 12)),
     slice_width |-> be(bytes, 12), slice_height |-> be(bytes, 10), chunk_bytes |-> be(bytes, 14)]
Accepted(q, bpp, bytes) ==
    IF ~Readback(q, bpp, bytes) THEN Error("Pps")
    ELSE IF \/ ~Fits(q.pclk, bpp, q.payload)
            \/ ~ChunkFits(q, be(bytes, 14), Ceil(q.width, be(bytes, 12)))
    THEN Error("Bandwidth")
    ELSE PlanOf(q, bpp, bytes)

\* A plan from the C generator's answer o, or the error the caller sees.
Checked(q, o) ==
    IF ~o.ok THEN Error("Unsupported") ELSE Accepted(q, o.bits_per_pixel, DSC_PpsConstruct(o))

generate(q) ==
    IF Admission(q) # "none" THEN Error(Admission(q))
    ELSE Checked(q, r4os_dsc_generate(DscInput(q)))

-----------------------------------------------------------------------------
(* HDMI: gsp_hdmi_dsc.pps.  A receiver is [usable, max_frl, bpc_mask,       *)
(* all_bpp, max_slices, slice_clock, max_chunk].                            *)

\* links.Frl: lanes times gigabits of the six fixed rates.
FrlRates == 1 .. 6
FrlPayload(rate) == 10000 * <<9, 18, 24, 32, 40, 48>>[rate]

maxBpp(receiver, bpc) == IF receiver.all_bpp THEN 48 * bpc - 1 ELSE 192

\* The decoder profile HDMI defines, which is not read from the receiver.
HdmiSink(receiver, bpc) ==
    [usable |-> TRUE, minor |-> 2, rc_buffer |-> 0,
     slice_mask |-> {n \in {1, 2, 4, 8, 12, 16} : n <= receiver.max_slices},
     line_bits |-> 13, block_prediction |-> 1, max_bpp |-> maxBpp(receiver, bpc),
     bpc_mask |-> receiver.bpc_mask, slice_clock |-> receiver.slice_clock,
     max_slice_width |-> 2720, step |-> 1]

\* The request for mode v at a rate, a depth and a slice layout.
HdmiRequest(v, source, receiver, rate, bpp, width) ==
    [transport |-> "hdmi", pclk |-> v.pclk, width |-> v.width, height |-> v.height,
     bpc |-> v.bpc, hblank |-> v.total - v.width, payload |-> FrlPayload(rate), rate |-> 0,
     lanes |-> 0, forced_bpp |-> bpp, forced_slice_width |-> width, source |-> source,
     sink |-> HdmiSink(receiver, v.bpc)]

\* The plan must be laid out as RM said and fit the receiver's buffer.
LaidOut(plan, slices, most) ==
    IF plan.error = "none" /\ (plan.slices # slices \/ plan.chunk_bytes * plan.slices > most)
    THEN Error("Bandwidth") ELSE plan

pps(v, source, receiver, rate, bpp, slices, width) ==
    IF \/ ~receiver.usable \/ rate \notin 1 .. receiver.max_frl
       \/ v.bpc \notin {8, 10} \cap receiver.bpc_mask
    THEN Error("Unsupported")
    ELSE IF \/ bpp \notin 128 .. maxBpp(receiver, v.bpc)
            \/ width = 0 \/ slices \notin 1 .. receiver.max_slices
            \/ receiver.max_chunk = 0 \/ Ceil(v.width, width) # slices
    THEN Error("Parameter")
    ELSE LaidOut(generate(HdmiRequest(v, source, receiver, rate, bpp, width)), slices, receiver.max_chunk)

-----------------------------------------------------------------------------
(* Whether a link's transfer units and a raster's blanking carry a stream:  *)
(* the acceptance rules of withFec and of gsp_dp_link.stream.  A raster v   *)
(* is [pclk, width, total], a link c is [rate, lanes].                      *)

Monus(a, b) == IF a > b THEN a - b ELSE 0

\* (x * y) \div d in 64 bits, in steps that stay within 32.
MulDiv(x, y, d) ==
    LET high == (x % d) * (y \div 1000)
    IN  (x \div d) * y + 1000 * (high \div d)
          + (1000 * (high % d) + (x % d) * (y % 1000)) \div d

\* The fill level at which a line may start, from the stream's share of the
\* link in units of 1 / Precision.
Precision == 100000
Fraction(ratio) == MulDiv(64 * ratio, Precision - ratio, Precision)
fecWatermark(v, c, bpp, increased) ==
    LET ratio == MulDiv(v.pclk * bpp, 15625, 5238 * c.rate * c.lanes)
    IN  (IF increased THEN 8 ELSE 2)
          + (3 * ((bpp * Precision) \div (128 * c.lanes)) + Fraction(ratio)) \div Precision
          + 8 \div c.lanes + 3 + (ratio * (IF c.lanes = 1 THEN 15 ELSE 10)) \div Precision
plainWatermark(v, c, bpp, increased) ==
    LET ratio == MulDiv(v.pclk * bpp, 1250, 27 * c.rate * c.lanes)
    IN  Max({IF increased THEN 22 ELSE 20,
             (IF increased THEN 8 ELSE 2)
               + (2 * ((bpp * Precision) \div (8 * c.lanes)) + Fraction(ratio)) \div Precision})

\* Clocks FEC parity takes out of an interval.
parity(lanes, clocks) ==
    LET block == IF lanes = 1 THEN 512 ELSE 256
        bytes == IF lanes = 1 THEN 12 ELSE 6
    IN  Least(clocks % block, bytes) + (clocks \div block) * bytes + bytes + 1

\* Bits the chunks of a line leave unused in their last link symbols.
PaddingBits(v, c, plan) ==
    LET chunk == plan.chunk_bytes
        padded == Ceil(chunk, c.lanes) * c.lanes
        ideal == (plan.slice_width * plan.bpp) \div 16
        rate == (270 * c.rate * 97) \div 100
    IN  IF (chunk + 1) * plan.slices * v.pclk < rate * c.lanes * v.width
        THEN 8 * c.lanes + 8 * chunk - ideal + 8 * plan.slices * (padded - chunk)
        ELSE plan.slices * (8 * c.lanes + 8 * padded - ideal)

withFec(v, c, plan, enhanced, increased) ==
    LET peak == 270 * c.rate
        capacity == payload(c.rate, c.lanes)
        symbols == Ceil(96 + 16 * c.lanes + PaddingBits(v, c, plan), 8 * c.lanes)
                     + (IF enhanced THEN 3 ELSE 0)
        margin == parity(c.lanes, symbols)
        least == Ceil((symbols + margin) * v.pclk, peak) + 3
        blank == v.total - v.width
        hblank == Monus(((blank - least) * peak) \div v.pclk + margin,
                        parity(c.lanes, Ceil(blank * peak, v.pclk)) + 7)
        vpre == Monus(((v.width - 3) * peak) \div v.pclk,
                      Monus(96, hblank) + 36 \div c.lanes + 3)
        vblank == Monus(vpre, parity(c.lanes, vpre) + 3)
    IN  /\ v.pclk <= 40000 /\ plan.bpp \in 1 .. 768
        /\ v.width \in 61 .. 65535 /\ v.total \in v.width + 1 .. 65535
        /\ Fits(v.pclk, plan.bpp, capacity)
        /\ v.pclk * plan.bpp * 64 >= capacity * 16
        /\ MulDiv(v.pclk * plan.bpp, 15625, 5238 * c.rate * c.lanes) < Precision
        /\ fecWatermark(v, c, plan.bpp, increased) <= (v.width * plan.bpp) \div (128 * c.lanes)
        /\ plan.slices \in 1 .. 24 /\ Ceil(v.width, plan.slice_width) = plan.slices
        /\ plan.chunk_bytes > 0 /\ Ceil(plan.slice_width * plan.bpp, 128) = plan.chunk_bytes
        /\ least <= blank
        /\ vblank >= (CASE c.lanes = 1 -> 183 [] c.lanes = 2 -> 89 [] OTHER -> 47)

\* The uncompressed rule.
plainStream(v, bpc, c, enhanced, increased) ==
    LET steering == IF v.width % c.lanes # 0
                    THEN (c.lanes - (v.width % c.lanes)) * 3 * bpc ELSE 0
        bits == 24 * c.lanes * (IF enhanced THEN 2 ELSE 1) + 96 + steering
    IN  /\ bpc \in {8, 10} /\ v.width > 60 /\ v.total > v.width
        /\ Fits(v.pclk, 48 * bpc, dp8b10bPayload(c.rate, c.lanes))
        /\ plainWatermark(v, c, 3 * bpc, increased)
             <= Least(39, (v.width * 3 * bpc) \div (8 * c.lanes))
        /\ (bits * v.pclk) \div (8 * c.lanes * 270 * c.rate) + 12 <= v.total - v.width

=============================================================================
