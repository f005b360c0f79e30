------------------------------- MODULE Stimuli ------------------------------
(***************************************************************************)
(* The sources of stimuli in the examples, of which a test uses one: the   *)
(* Python server, or one of the two sequences of the coverage closure      *)
(* study, which fill the same window in two ways.                          *)
(***************************************************************************)
EXTENDS BlockingCall, OnTheFly

VARIABLES
  source,              \* what the test takes its stimuli from
  inter_packet_delay   \* what the top-down sequence has chosen

TopDownSeq == INSTANCE TopDown

stimuliVars == <<vars, delayVars, source, inter_packet_delay>>

StimuliInit ==
  /\ source \in {"server", "on_the_fly", "top_down"}
  /\ Init
  /\ TopDownSeq!Init

ServerStep ==
  source = "server" /\ Next /\ UNCHANGED <<delayVars, source, inter_packet_delay>>

OnTheFlyStep ==
  source = "on_the_fly" /\ OnTheFlyNext /\ UNCHANGED <<vars, source, inter_packet_delay>>

TopDownStep ==
  source = "top_down" /\ TopDownSeq!Next /\ UNCHANGED <<vars, source>>

\* All packets have been driven.
SequenceDone == source # "server" /\ driven = nof_packets /\ UNCHANGED stimuliVars

StimuliNext == ServerStep \/ OnTheFlyStep \/ TopDownStep \/ SequenceDone

\* The processes of the blocking calls are run, as in Spec.
StimuliSpec ==
  /\ StimuliInit /\ [][StimuliNext]_stimuliVars
  /\ WF_stimuliVars(source = "server" /\ Client /\ UNCHANGED <<delayVars, source, inter_packet_delay>>)
  /\ WF_stimuliVars(source = "server" /\ Server /\ UNCHANGED <<delayVars, source, inter_packet_delay>>)
-----------------------------------------------------------------------------
\* CallsEnd, for a test that calls the server: every call of client.cc and of
\* the testbench returns (in the e example once attempts stop failing).
ServerCallsEnd == source = "server" => CallsEnd

\* Every sequence of delays that is chosen top-down can be chosen on the fly:
\* the minimum and the maximum there exclude none.
ChosenOnTheFly == OnTheFlySpec
=============================================================================
