----------------------------- MODULE MCFrlLink -----------------------------
(* A TMDS mode, a mode that needs four lanes at ten gigabits or compression *)
(* to any sixteenth of a bit, and the same mode on a receiver that decodes  *)
(* only eight bits per component.  The first capacities put the greatest    *)
(* depth on both sides of every kind of probe.                              *)
EXTENDS FrlLink

Receiver(depths) ==
    [usable |-> TRUE, max_frl |-> 6, bpc_mask |-> depths, all_bpp |-> TRUE,
     max_slices |-> 8, slice_clock |-> 400, max_chunk |-> 16384]
Uhd(depths) ==
    [frl |-> TRUE, only |-> FALSE, sink_max |-> 6, pclk |-> 11880, width |-> 3840, height |-> 2160,
     total |-> 4400, bpc |-> 10, receiver |-> Receiver(depths)]
MCMode == [fhd |-> [frl |-> FALSE], uhd |-> Uhd({8, 10}), deep |-> Uhd({8})]
MCSource == [frl |-> 6, dsc |-> DscSource([precision |-> 1, line_units |-> 5, rate_kb |-> 80,
                                           max_slices |-> 8, line_bits |-> 13])]

Four == [slices |-> 4, width |-> 960]
Capacity(raw, least, top, vic) ==
    [raw |-> raw, least |-> least, top |-> top, layout |-> Four, hc |-> 1, vic |-> vic]
NoVic == [rate |-> 0, bpp |-> 0]
MCCapacities ==
    {Capacity(7, 6, top, NoVic) : top \in (127 .. 145) \cup {255, 256} \cup (462 .. 480)}
      \cup {Capacity(raw, least, 200, [rate |-> 7, bpp |-> 0]) : raw \in 5 .. 7, least \in 2 .. 7}
MCLater ==
    { Capacity(6, 3, 150, NoVic), Capacity(7, 7, 200, NoVic), Capacity(7, 2, 200, [rate |-> 3, bpp |-> 192]),
      [Capacity(7, 6, 300, NoVic) EXCEPT !.hc = 2],
      [Capacity(7, 6, 300, NoVic) EXCEPT !.layout = [slices |-> 8, width |-> 480]] }

=============================================================================
