------------------------------- MODULE DscPps -------------------------------
(* The picture parameter set generator: nvt_dsc_pps.c and the boundary      *)
(* dsc/pps.c puts in front of it.  The driver asks for RGB only, so the     *)
(* YCbCr, dual-head, drop-mode, eDP and 128b/132b branches, which no input  *)
(* of the driver selects, are left out.  Every operator is the C function   *)
(* of the same name: it takes the parameters computed so far and returns    *)
(* them with its own filled in, "ok" turning FALSE where the C returns an   *)
(* error status.                                                            *)
(*                                                                          *)
(* Units: clocks are multiples of 100 kHz and payloads of 100 kbit/s, so    *)
(* that the 64-bit products of the C stay within TLC's integers; link rates *)
(* are the C's 10 MHz units; bits per pixel are multiplied by 16.  A slice  *)
(* mask is the set of the slice counts it advertises.                       *)
EXTENDS Integers, Sequences, FiniteSetsExt

BppUnit == 16
RcModelSize == 8192

\* Valid slice counts of a DisplayPort sink.
ValidSliceNum == {1, 2, 4, 6, 8, 10, 12, 16, 20, 24}

Ceil(a, b) == (a + b - 1) \div b
Least(a, b) == IF a <= b THEN a ELSE b
Clamp(a, lo, hi) == IF a <= lo THEN lo ELSE Least(a, hi)
Msb(a) == (a \div 256) % 256
Lsb(a) == a % 256
Be(a) == <<Msb(a), Lsb(a)>>

DSC_AlignDownForBppPrecision(bpp, step) ==
    LET unit == IF step \in {1, 2, 4, 8, 16} THEN step ELSE 16
    IN  bpp - (bpp % unit)

-----------------------------------------------------------------------------
(* Slices across a line.                                                    *)

\* The counts below the maximum; "inclusive" adds the first count that is not
\* below it, which is the maximum itself only when that is a valid count.
DSC_GetSliceCountMask(maxSliceNum, inclusive) ==
    LET below == {n \in ValidSliceNum : n < maxSliceNum}
        next == ValidSliceNum \ below
    IN  IF maxSliceNum = 0 THEN {}
        ELSE IF inclusive /\ next # {} THEN below \cup {Min(next)} ELSE below

\* The first count of the mask above the current one, 0 when there is none.
DSC_GetHigherSliceCount(mask, current) ==
    LET higher == {n \in mask : n > current}
    IN  IF higher = {} THEN 0 ELSE Min(higher)

\* Mutant: the count needed is never taken itself.
HigherSliceCountOnly(picWidth, pclkMHz, maxSliceWidth, mps, maxSlices, mask) ==
    LET need == Max({Ceil(picWidth, maxSliceWidth), Ceil(pclkMHz, mps)})
    IN  IF maxSlices < need THEN 0 ELSE DSC_GetHigherSliceCount(mask, need)

\* 0 stands for NVT_STATUS_MIN_SLICE_COUNT_ERROR.
DSC_GetMinSliceCountForMode(picWidth, pclkMHz, maxSliceWidth, mps, maxSlices, mask) ==
    LET need == Max({Ceil(picWidth, maxSliceWidth), Ceil(pclkMHz, mps)})
    IN  IF maxSlices < need THEN 0
        ELSE IF need \in mask THEN need ELSE DSC_GetHigherSliceCount(mask, need)

\* Slice count and width, groups per line and chunk size.
DSC_PpsCalcSliceParams(in, o) ==
    LET mask == DSC_GetSliceCountMask(in.max_slice_num, TRUE) \cap in.slice_mask
        forced == o.slice_width # 0
        num == IF forced THEN Ceil(o.pic_width, o.slice_width)
               ELSE DSC_GetMinSliceCountForMode(o.pic_width, in.pclkMHz, in.max_slice_width,
                        in.mps, in.max_slice_num, mask)
        width == IF forced THEN o.slice_width ELSE Ceil(o.pic_width, num)
        chunk == Ceil(width * o.bits_per_pixel, 8 * BppUnit)
    IN  IF \/ mask = {} \/ in.mps = 0
           \/ forced /\ (o.slice_width > in.max_slice_width \/ num \notin mask)
           \/ num = 0
        THEN [o EXCEPT !.ok = FALSE]
        ELSE [o EXCEPT !.slice_num = num, !.slice_width = width,
                       !.groups_per_line = Ceil(width, 3), !.chunk_size = chunk,
                       !.ok = /\ in.pclkMHz \div num <= in.mps
                              /\ width >= 32
                              /\ ((chunk + 3) \div 4) * num <= o.pic_width]

-----------------------------------------------------------------------------
(* Rate control.                                                            *)

\* The initial offset, scale and transmission delay.
DSC_PpsCalcRcInitValue(o) ==
    LET bpp == o.bits_per_pixel
        offset == CASE bpp >= 12 * BppUnit -> 2048
                    [] bpp >= 10 * BppUnit /\ bpp < 12 * BppUnit ->
                         5632 - ((bpp - 10 * BppUnit) * 1792 + 8) \div BppUnit
                    [] bpp >= 8 * BppUnit /\ bpp < 10 * BppUnit ->
                         6144 - ((bpp - 8 * BppUnit) * 256 + 8) \div BppUnit
                    [] OTHER -> 6144
        scale == Least((8 * RcModelSize) \div (RcModelSize - offset), o.groups_per_line + 8)
        delay == (4096 * BppUnit + bpp \div 2) \div bpp
    IN  [o EXCEPT !.initial_offset = offset, !.initial_scale_value = scale,
                  !.initial_xmit_delay = delay,
                  !.ok = scale <= 63 /\ delay <= 1023]

MuxWordSize(bpc) == IF bpc >= 12 THEN 64 ELSE 48
MostExtraBits(bpc) == 3 * (MuxWordSize(bpc) + (4 * bpc + 4) - 2)

\* Mutant: the rest itself is given back, not what is missing to a whole word.
ExtraBitsLessRest(o) ==
    LET word == MuxWordSize(o.bits_per_component)
        most == MostExtraBits(o.bits_per_component)
        over == (8 * o.chunk_size * o.slice_height - most) % word
    IN  [o EXCEPT !.num_extra_mux_bits = IF over = 0 THEN most ELSE most - Least(most, over)]

\* The padding bits of the last mux words of a slice, in closed form.
DSC_PpsCalcExtraBits(o) ==
    LET word == MuxWordSize(o.bits_per_component)
        most == MostExtraBits(o.bits_per_component)
        over == (8 * o.chunk_size * o.slice_height - most) % word
    IN  [o EXCEPT !.num_extra_mux_bits =
            IF over = 0 THEN most ELSE most - Least(most, word - over)]

\* Bits per group: what the first line takes, how the other lines and the
\* whole slice pay it back (in 1/2048 bit), and the decoder's initial delay.
DSC_PpsCalcBpg(o) ==
    LET bpp == o.bits_per_pixel
        room == ((3 * o.bits_per_component + 2) * 3 * BppUnit - 3 * bpp) \div BppUnit
        first == Clamp(IF o.slice_height >= 8 THEN 12 + (Least(34, o.slice_height - 8) * 9) \div 100
                       ELSE 2 * (o.slice_height - 1), 0, room)
        nfl == IF o.slice_height > 1 THEN Ceil(first * 2048, o.slice_height - 1) ELSE 0
        groups == o.groups_per_line * o.slice_height
        slice == Ceil((RcModelSize - o.initial_offset + o.num_extra_mux_bits) * 2048, groups)
        left == 3 * bpp * 2048 - (slice + nfl) * BppUnit
        rbsMin == RcModelSize - o.initial_offset + Ceil(o.initial_xmit_delay * bpp, BppUnit)
                    + o.groups_per_line * first
        dec == Ceil(rbsMin * BppUnit, bpp) - o.initial_xmit_delay
    IN  [o EXCEPT !.first_line_bpg_offset = first, !.nfl_bpg_offset = nfl,
                  !.slice_bpg_offset = slice, !.initial_dec_delay = dec,
                  !.ok = /\ first <= 31 /\ nfl <= 65535 /\ slice <= 65535
                         \* unsigned: a negative remainder wraps to a large one
                         /\ left < 0 \/ left >= 16 * BppUnit * 2048
                         /\ dec \in 0 .. 65535]

\* Mutant: the interval is not compared with its sixteen bits.
ScaleUpUnchecked(scale, up, down) == scale <= 63 /\ down \in 1 .. 4095

\* RANGE_CHECK of the scale and of the two intervals.
ScaleInRange(scale, up, down) == scale <= 63 /\ up <= 65535 /\ down \in 1 .. 4095

\* The final offset and the intervals at which the scale factor moves.
DSC_PpsCalcScaleInterval(o) ==
    LET final == RcModelSize - (o.initial_xmit_delay * o.bits_per_pixel + 8) \div BppUnit
                    + o.num_extra_mux_bits
        scale == (8 * RcModelSize) \div (RcModelSize - final)
        up == IF scale > 9
              THEN (final * 2048) \div ((scale - 9) * (o.nfl_bpg_offset + o.slice_bpg_offset))
              ELSE 0
        down == IF o.initial_scale_value > 8
                THEN o.groups_per_line \div (o.initial_scale_value - 8) ELSE 4095
    IN  IF final \notin 0 .. RcModelSize - 1 THEN [o EXCEPT !.ok = FALSE]
        ELSE [o EXCEPT !.final_offset = final, !.scale_increment_interval = up,
                       !.scale_decrement_interval = down,
                       !.ok = ScaleInRange(scale, up, down)]

DSC_PpsCheckSliceHeight(o) ==
    LET b == DSC_PpsCalcBpg(DSC_PpsCalcExtraBits(o))
    IN  IF b.ok THEN DSC_PpsCalcScaleInterval(b) ELSE b

\* The tallest of the sixteen equal divisions of the picture that is valid.
Dsc_PpsCalcHeight(o) ==
    LET tried(i) == DSC_PpsCheckSliceHeight([o EXCEPT !.slice_height = o.pic_height \div i])
        good == {i \in 1 .. 16 : o.pic_height % i = 0 /\ tried(i).ok}
    IN  IF good = {} THEN [o EXCEPT !.ok = FALSE] ELSE tried(Min(good))

\* The bits-per-group adjustment of each of the fifteen buffer ranges.
RangeBpgOffset(bpp) ==
    LET low == <<2, 0, 0, -2, -4, -6, -8, -8, -8, -10, -10, -10, -12, -12, -12>>
        high == <<10, 8, 6, 4, 2, 0, -2, -4, -6, -8, -10, -10, -12, -12, -12>>
    IN  [i \in 1 .. 15 |->
            IF bpp <= 12 * BppUnit THEN low[i]
            ELSE IF bpp <= 15 * BppUnit
            THEN low[i] + ((bpp - 12 * BppUnit) * (high[i] - low[i]) + 24) \div 48
            ELSE high[i]]

\* The column of the quantiser tables, which have 37, 49 and 61 columns for
\* 8, 10 and 12 bits per component.
QpColumn(bpp) == (2 * (bpp - 6 * BppUnit)) \div BppUnit
QpColumns(bpc) == CASE bpc = 8 -> 37 [] bpc = 10 -> 49 [] OTHER -> 61

DSC_PpsCalcRcParam(o) ==
    LET over8 == (o.bits_per_component - 8) * 2
    IN  [o EXCEPT !.flatness_min_qp = 3 + over8, !.flatness_max_qp = 12 + over8,
                  !.rc_quant_incr_limit = 11 + over8,
                  !.qp_column = QpColumn(o.bits_per_pixel),
                  !.range_bpg_offset = RangeBpgOffset(o.bits_per_pixel)]

-----------------------------------------------------------------------------
(* From the caller's request to the parameters and their bytes.             *)

\* DSC_OUTPUT_PARAMS before anything is computed.
NoOutput ==
    [ok |-> TRUE, dsc_version_minor |-> 0, bits_per_component |-> 0, linebuf_depth |-> 0,
     block_pred_enable |-> 0, bits_per_pixel |-> 0, pic_width |-> 0, pic_height |-> 0,
     slice_width |-> 0, slice_height |-> 0, slice_num |-> 0, groups_per_line |-> 0,
     chunk_size |-> 0, num_extra_mux_bits |-> 0, initial_xmit_delay |-> 0,
     initial_dec_delay |-> 0, initial_scale_value |-> 0, scale_increment_interval |-> 0,
     scale_decrement_interval |-> 0, first_line_bpg_offset |-> 0, nfl_bpg_offset |-> 0,
     slice_bpg_offset |-> 0, initial_offset |-> 0, final_offset |-> 0, flatness_min_qp |-> 0,
     flatness_max_qp |-> 0, rc_quant_incr_limit |-> 0, qp_column |-> 0, range_bpg_offset |-> <<>>]

\* The picture limits are wider on encoders with more than four slices.
DSC_PpsCalcBase(in) ==
    [NoOutput EXCEPT
        !.ok = /\ in.dsc_version_minor \in {1, 2}
               /\ in.bits_per_component \in {8, 10, 12}
               /\ in.linebuf_depth \in 8 .. 13
               /\ IF in.multi_tile
                  THEN in.pic_width \in 64 .. 16384 /\ in.pic_height \in 8 .. 16384
                  ELSE in.pic_width \in 32 .. 5120 /\ in.pic_height \in 8 .. 8192,
        !.dsc_version_minor = in.dsc_version_minor,
        !.bits_per_component = in.bits_per_component, !.linebuf_depth = in.linebuf_depth,
        !.block_pred_enable = in.block_pred_enable, !.bits_per_pixel = in.bits_per_pixel,
        !.pic_width = in.pic_width, !.pic_height = in.pic_height,
        !.slice_width = in.slice_width]

\* Peak decoder throughput of a DPCD code, in Mpixel/s; 0 for a reserved code.
DSC_GetPeakThroughputMps(code) ==
    CASE code = 1 -> 340
      [] code \in 2 .. 14 -> 400 + 50 * (code - 2)
      [] code = 15 -> 170
      [] OTHER -> 0

DSC_PpsCalc(in) ==
    LET base == DSC_PpsCalcBase(in)
        sliced == DSC_PpsCalcSliceParams(in, base)
        started == DSC_PpsCalcRcInitValue(sliced)
        tall == Dsc_PpsCalcHeight(started)
    IN  IF ~base.ok THEN base
        ELSE IF ~sliced.ok THEN sliced
        ELSE IF ~started.ok THEN started
        ELSE IF ~tall.ok THEN tall
        ELSE DSC_PpsCalcRcParam(tall)

(* A request r is the record of dsc/pps.c's caller: R4OS_DSC_INPUT, with    *)
(* transport one of "sst", "mst" and "hdmi".                                *)
IsDp(r) == r.transport # "hdmi"

\* The largest slice count the mask advertises.
MaxNumHztSlices(r) == Max(r.slice_mask)

\* HDMI is held to DSC 1.2; 0 leaves the revision to the sink.
ForcedRevision(r) == IF IsDp(r) THEN 0 ELSE 2

\* What _validateInput refuses beyond what the record's fields already say:
\* an empty capability of the sink or of the encoder,
ValidCaps(r) ==
    /\ r.sink_step \in {1, 2, 4, 8, 16}
    /\ r.max_slice_width # 0 /\ r.slice_mask # {}
    /\ r.sink_line_bits # 0 /\ r.revision_minor # 0
    /\ r.source_line_units # 0 /\ r.source_slices # 0 /\ r.source_line_bits # 0

\* a forced width or revision the sink does not have,
ValidForced(r) ==
    /\ r.forced_slice_width <= Least(r.max_slice_width, r.width)
    /\ ForcedRevision(r) <= r.revision_minor

\* an empty mode, or a depth the sink does not decode,
ValidMode(r) ==
    /\ r.pclk # 0 /\ r.width # 0 /\ r.height # 0 /\ r.bpc # 0 /\ r.payload # 0
    /\ r.max_bpp <= 1024
    /\ r.bpc_mask # {} => r.bpc \in r.bpc_mask

\* and a link that does not exist.
ValidLink(r) ==
    IsDp(r) => /\ r.lanes \in {0, 1, 2, 4, 8}
               /\ r.link_rate \in {162, 216, 243, 250, 270, 324, 432, 500, 540, 675, 810,
                                   1000, 1350, 2000}
               /\ r.hblank <= 7680

_validateInput(r) == ValidCaps(r) /\ ValidForced(r) /\ ValidMode(r) /\ ValidLink(r)

\* Slice count assumed while the blanking is checked: one per 340 MHz.
BlankSlices(r) ==
    LET n == Ceil(r.pclk, 3400)
    IN  CASE n = 3 -> 4 [] n > 4 -> 8 [] OTHER -> n

\* A blanking interval too short for the padding of each chunk.
ShortBlank(r) ==
    LET protocol == CASE r.lanes = 1 -> 42 [] r.lanes = 2 -> 24 [] OTHER -> 21
    IN  /\ r.transport = "sst" /\ r.hblank < 100
        /\ (r.hblank * r.link_rate * 10) \div r.pclk < protocol + 2 * BlankSlices(r) + 3

\* A value at which no chunk is padded to a whole number of link symbols.
Unpadded(r, bpp) ==
    (bpp * Ceil(r.width, BlankSlices(r))) % (8 * BlankSlices(r) * r.lanes * 16) = 0

\* Mutant: one lane is filled like any other link.
ShareOneLaneFull(r) == (r.payload * BppUnit) \div r.pclk

\* Bits per pixel that fill the payload, 96% of it on a single lane.
Share(r) ==
    IF r.lanes = 1 THEN (96 * r.payload * BppUnit) \div (100 * r.pclk)
    ELSE (r.payload * BppUnit) \div r.pclk

\* The most bits per pixel the link carries: 1/8 bit below its share on
\* DisplayPort, and unpadded in a short blanking.
LinkBpp(r) ==
    LET dp == Share(r) - 2
        even == {i \in 128 .. dp : Unpadded(r, i)}
    IN  CASE ~IsDp(r) -> (r.payload * BppUnit) \div r.pclk
          [] IsDp(r) /\ ShortBlank(r) /\ dp >= 128 -> IF even = {} THEN 127 ELSE Max(even)
          [] OTHER -> dp

\* Mutant: only the generator's own maximum.
MostBppOfAnyDepth(r) == 32 * BppUnit

\* Three components, or 32 bits, per pixel.
MostBpp(r) == Least(3 * r.bpc, 32) * BppUnit

\* The value put in the parameter set, 0 for NVT_STATUS_INVALID_BPP.
ChosenBpp(r) ==
    LET multiTile == r.source_slices > 4
        link == DSC_AlignDownForBppPrecision(Least(LinkBpp(r), MostBpp(r)), r.sink_step)
        asked == DSC_AlignDownForBppPrecision(r.forced_bpp, r.sink_step)
        tiled == IF multiTile THEN Least(link, 256) ELSE link
        rounded == IF tiled \in {126, 127} THEN 128 ELSE tiled
        capped == IF r.max_bpp # 0 THEN Least(rounded, r.max_bpp) ELSE rounded
        forcedOk == /\ IsDp(r) => asked <= link
                    /\ multiTile => asked <= 256
                    /\ r.max_bpp # 0 => asked <= r.max_bpp
        bpp == IF r.forced_bpp = 0 THEN capped ELSE IF forcedOk THEN asked ELSE 0
    IN  IF bpp \in 128 .. 512 THEN bpp ELSE 0

\* DSC_INPUT_PARAMS of a request.
InputParams(r) ==
    [dsc_version_minor |-> IF ForcedRevision(r) # 0 THEN ForcedRevision(r)
                           ELSE r.revision_minor,
     bits_per_component |-> r.bpc, bits_per_pixel |-> ChosenBpp(r),
     linebuf_depth |-> Least(r.sink_line_bits, r.source_line_bits),
     block_pred_enable |-> r.block_prediction, multi_tile |-> r.source_slices > 4,
     pic_width |-> r.width, pic_height |-> r.height, slice_width |-> r.forced_slice_width,
     max_slice_num |-> Least(MaxNumHztSlices(r), r.source_slices),
     max_slice_width |-> Least(r.max_slice_width, r.source_line_units * 1024),
     slice_mask |-> r.slice_mask, pclkMHz |-> r.pclk \div 10,
     mps |-> DSC_GetPeakThroughputMps(r.throughput_code)]

\* The parameters for a request; "ok" is FALSE when the C returns an error.
DSC_GeneratePPS(r) ==
    IF _validateInput(r) /\ ChosenBpp(r) # 0 THEN DSC_PpsCalc(InputParams(r)) ELSE [ok |-> FALSE]

\* The boundary: only an HDMI request forces a value and a slice width.
r4os_dsc_generate(r) ==
    DSC_GeneratePPS(IF IsDp(r) THEN [r EXCEPT !.forced_bpp = 0, !.forced_slice_width = 0] ELSE r)

\* The bytes of the parameter set up to the quantiser ranges, in which the
\* table entry is named by its column: byte k is at index k + 1.
DSC_PpsConstruct(o) ==
    <<16 + o.dsc_version_minor, 0, 0, o.bits_per_component * 16 + (o.linebuf_depth % 16),
      o.block_pred_enable * 32 + 16 + Msb(o.bits_per_pixel % 1024), Lsb(o.bits_per_pixel)>>
    \o Be(o.pic_height) \o Be(o.pic_width) \o Be(o.slice_height) \o Be(o.slice_width)
    \o Be(o.chunk_size) \o Be(o.initial_xmit_delay % 1024) \o Be(o.initial_dec_delay)
    \o <<0, o.initial_scale_value % 64>> \o Be(o.scale_increment_interval)
    \o Be(o.scale_decrement_interval % 4096) \o <<0, o.first_line_bpg_offset % 32>>
    \o Be(o.nfl_bpg_offset) \o Be(o.slice_bpg_offset) \o Be(o.initial_offset)
    \o Be(o.final_offset) \o <<o.flatness_min_qp % 32, o.flatness_max_qp % 32>>
    \o Be(RcModelSize) \o <<6, o.rc_quant_incr_limit % 32, o.rc_quant_incr_limit % 32, 51>>
    \o <<14, 28, 42, 56, 70, 84, 98, 105, 112, 119, 121, 123, 125, 126>>

\* The six-bit offset of each range as it is packed beside its quantisers.
PackedBpgOffset(o) == [i \in 1 .. 15 |-> o.range_bpg_offset[i] % 64]

=============================================================================
