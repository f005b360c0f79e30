------------------------------- MODULE TopDown ------------------------------
(***************************************************************************)
(* The sequence that chooses all delays up-front, under the constraint     *)
(* that they fill the window, and then drives the packets.                 *)
(***************************************************************************)
EXTENDS Integers, Functions

CONSTANTS nof_packets, window_delay, max_delay

VARIABLES
  driven,            \* packets driven
  spent,             \* the delays of those packets
  inter_packet_delay

Delays == [1..nof_packets - 1 -> 0..max_delay]

\* Before randomize all delays are 0.
Init ==
  /\ driven = 0 /\ spent = 0
  /\ inter_packet_delay = [n \in 1..nof_packets - 1 |-> 0]

\* Variant: the sum may be any that does not exceed the window.
Randomized_AtMost(delays) == FoldFunction(+, 0, delays) <= window_delay

Randomized(delays) == FoldFunction(+, 0, delays) = window_delay

\* The first packet, then randomize, before the next one is driven.
FirstPacket ==
  /\ driven = 0 /\ driven' = 1
  /\ inter_packet_delay' \in {delays \in Delays : Randomized(delays)}
  /\ UNCHANGED spent

Drive ==
  /\ driven \in 1..nof_packets - 1
  /\ driven' = driven + 1
  /\ spent' = spent + inter_packet_delay[driven]
  /\ UNCHANGED inter_packet_delay

Next == FirstPacket \/ Drive
=============================================================================
