--------------------------- MODULE MCDscAdmission ---------------------------
(* A family of requests around the edges of the generator: short and long   *)
(* blanking, one, two and four lanes, clocks at which the slice count       *)
(* changes, precisions from 1/16 to 1 bit, small and large encoders, and    *)
(* forced HDMI values.                                                      *)
EXTENDS DscAdmission

Mode(pclk, width, height, total) ==
    [pclk |-> pclk, width |-> width, height |-> height, total |-> total]

Modes ==
    { Mode(11880, 3840, 2160, 4400), Mode(10750, 3840, 2160, 3920),
      Mode(16680, 3440, 1440, 3520), Mode(19470, 5120, 1440, 5200),
      Mode(20890, 7680, 4320, 7760), Mode(15000, 2560, 1440, 2640),
      Mode(5940, 3840, 2160, 4400), Mode(7857, 1366, 768, 1446),
      Mode(6000, 1920, 1080, 2000), Mode(4500, 3840, 120, 3920) }

Source(slices, bits) ==
    DscSource([precision |-> 1, line_units |-> 5, rate_kb |-> 80, max_slices |-> slices,
               line_bits |-> bits])

Sink(minor, mask, clock, step, most, depths) ==
    [usable |-> TRUE, minor |-> minor, rc_buffer |-> 65536, slice_mask |-> mask,
     line_bits |-> 9, block_prediction |-> minor - 1, max_bpp |-> most, bpc_mask |-> depths,
     slice_clock |-> clock, max_slice_width |-> 2560, step |-> step]

Sinks ==
    { Sink(2, {1, 2, 4, 8}, 400, 1, 0, {8, 10, 12}),
      Sink(2, {1, 2, 4, 6, 8, 10, 12, 16, 20, 24}, 340, 16, 0, {8, 10, 12}),
      Sink(1, {1, 2, 4}, 650, 2, 0, {8, 10}),
      Sink(2, {2, 6, 12}, 1000, 4, 250, {8, 10}),
      Sink(2, {1, 4, 16}, 170, 8, 192, {8, 12}) }

DpRequests ==
    { [transport |-> t, pclk |-> v.pclk, width |-> v.width, height |-> v.height, bpc |-> bpc,
       hblank |-> v.total - v.width, payload |-> payload(rate, lanes), rate |-> rate,
       lanes |-> lanes, forced_bpp |-> 0, forced_slice_width |-> 0, source |-> s, sink |-> k] :
       t \in {"sst"}, v \in Modes, bpc \in {8, 10, 12}, rate \in {20, 30}, lanes \in {1, 2, 4},
       s \in {Source(4, 13), Source(8, 16), Source(3, 10)}, k \in Sinks }

Receiver(slices, all) ==
    [usable |-> TRUE, max_frl |-> 6, bpc_mask |-> {8, 10}, all_bpp |-> all,
     max_slices |-> slices, slice_clock |-> 340, max_chunk |-> 8192]

HdmiRequests ==
    { HdmiRequest([pclk |-> 11880, width |-> 3840, height |-> 2160, total |-> 4400, bpc |-> bpc],
                  s, Receiver(8, all), rate, bpp, width) :
       s \in {Source(4, 13), Source(8, 16)}, bpc \in {8, 10}, rate \in {3, 6},
       all \in BOOLEAN, bpp \in {128, 191, 192, 256, 257, 383, 479}, width \in {960, 480, 482} }

MCRequests == DpRequests \cup HdmiRequests

=============================================================================
