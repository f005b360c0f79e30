SPECIFICATION Spec
CONSTANTS
  ToServerRoom = 6
  ToClientRoom = 12
  PollOutMin = 3
  BufferSize = 5
  ItemCount = 2
  MaxSessions = 2
  MayBeKilled = TRUE
  InForkOrder = TRUE
INVARIANTS
  RequestsConserved
  RepliesConserved
PROPERTIES
  TestFinishes
  ImplementsService
