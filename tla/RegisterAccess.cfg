SPECIFICATION Spec
CONSTANTS
  t1 = t1
  t2 = t2
  Threads = {t1, t2}
  Regs = {reg_a, reg_b}
  Data = {0, 1}
  MaxAccesses = 3
  Setups <- ServedSetups
INVARIANTS
  NoRequestLost
  MirrorExact
PROPERTIES
  ImplementsRegisters
