SPECIFICATION Spec
CONSTANTS
  Fifo = {fifo_msgs, fifo_resp}
  Users = {u1, u2}
  Counts = {1, 2}
  Limits = {2, 3}
INVARIANTS
  KeysConserved
  AllFreeIsExact
PROPERTIES
  EveryLockServed
  ImplementsPool
