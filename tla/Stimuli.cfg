SPECIFICATION StimuliSpec
CONSTANTS
  Twins = {"sv", "e"}
  HostKnown = {TRUE, FALSE}
  MAX_NB_OF_ATTEMPTS = 5
  MaxCrashes = 2
  nof_packets = 6
  window_delay = 8
  max_delay = 3
INVARIANTS
  OwnAnswer
  RandomizeSucceeds
  WindowFilled
PROPERTIES
  ServerCallsEnd
  ServerFreed
  ChosenOnTheFly
