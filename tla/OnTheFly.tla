------------------------------ MODULE OnTheFly ------------------------------
(***************************************************************************)
(* The sequence that chooses the delay before each packet just before it   *)
(* drives it.  The delays have to fill a window exactly, so each is chosen *)
(* such that those that are left still can.                                *)
(***************************************************************************)
EXTENDS Integers

CONSTANTS nof_packets, window_delay, max_delay

\* Some delays fill the window.
ASSUME WindowAssumption ==
  /\ nof_packets \in Nat /\ nof_packets >= 2
  /\ max_delay \in Nat
  /\ window_delay \in 0..max_delay * (nof_packets - 1)

VARIABLES
  driven,            \* packets driven
  spent              \* inter_packet_delay.sum()

delayVars == <<driven, spent>>

DelaysTypeOK == driven \in 0..nof_packets /\ spent \in 0..window_delay

OnTheFlyInit == driven = 0 /\ spent = 0

\* The first packet is driven immediately.
FirstPacket == driven = 0 /\ driven' = 1 /\ UNCHANGED spent

available_window_delay == window_delay - spent

\* Variant: one packet more is counted on than is left.
min_delay_OneMore == available_window_delay - max_delay * (nof_packets - driven)

\* Variant: the packet about to be driven is counted twice.
min_delay_OneLess == available_window_delay - max_delay * (nof_packets - driven - 2)

\* If less is used now, too much is left for the packets to come.
min_delay == available_window_delay - max_delay * (nof_packets - driven - 1)

\* The constraints of randomize.
Legal(new_delay) ==
  /\ new_delay \in 0..max_delay
  /\ new_delay >= min_delay
  /\ new_delay <= available_window_delay

Drive(new_delay) ==
  /\ driven \in 1..nof_packets - 1
  /\ Legal(new_delay)
  /\ driven' = driven + 1
  /\ spent' = spent + new_delay

OnTheFlyNext == FirstPacket \/ \E new_delay \in 0..max_delay : Drive(new_delay)

OnTheFlySpec == OnTheFlyInit /\ [][OnTheFlyNext]_delayVars
-----------------------------------------------------------------------------
\* assert(randomize(new_delay) with ...): whatever was chosen before, there is
\* a delay that satisfies all three constraints.
RandomizeSucceeds == driven \in 1..nof_packets - 1 => \E new_delay \in 0..max_delay : Legal(new_delay)

\* "sum of all inter-packet delays equal to window delay", which the other
\* sequence asks for (top_down.sv:32), holds here by the choice of each delay.
WindowFilled == driven = nof_packets => spent = window_delay
=============================================================================
