------------------------------ MODULE MCDpLink ------------------------------
(* Two modes, one of which needs compression, and four receivers: two whose *)
(* decoders ask for different parameter sets, one whose capabilities were   *)
(* never captured, and one with a lane count the driver refuses.            *)
EXTENDS DpLink

MCMode == [qhd |-> [pclk |-> 5800, width |-> 2560, height |-> 1440, total |-> 2720, bpc |-> 8, vsc |-> FALSE],
           uhd |-> [pclk |-> 11880, width |-> 3840, height |-> 2160, total |-> 4400, bpc |-> 10, vsc |-> TRUE]]
Sink(buffer, prediction) ==
    [usable |-> TRUE, minor |-> 2, rc_buffer |-> buffer, slice_mask |-> {1, 2, 4, 8}, line_bits |-> 13,
     block_prediction |-> prediction, max_bpp |-> 0, bpc_mask |-> {8, 10, 12}, slice_clock |-> 600,
     max_slice_width |-> 2560, step |-> 1]
Receiver == [captured |-> TRUE, revision |-> 20, framing |-> TRUE, rate |-> 30, lanes |-> 4,
             tps4 |-> TRUE, enhanced |-> TRUE, extended |-> FALSE, bits |-> 10, fec |-> TRUE,
             dsc |-> Sink(65536, 0), vsc |-> TRUE, repeaters |-> FALSE]
MCMonitor ==
    [a |-> [Receiver EXCEPT !.extended = TRUE, !.dsc = Sink(65536, 1)],
     b |-> Receiver,
     c |-> [Receiver EXCEPT !.captured = FALSE],
     d |-> [Receiver EXCEPT !.lanes = 3]]
MCSource == [rate |-> 30, dp14 |-> TRUE, fec |-> TRUE, mst |-> TRUE, increased |-> TRUE,
             dsc |-> DscSource([precision |-> 1, line_units |-> 5, rate_kb |-> 64, max_slices |-> 4, line_bits |-> 13])]

=============================================================================
