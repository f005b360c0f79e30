SPECIFICATION Spec
CONSTANTS
  t1 = t1
  t2 = t2
  Threads = {t1, t2}
  Regs = {reg_a, reg_b}
  Data = {0, 1}
  MaxAccesses = 2
  Setups <- HandshakeSetups
PROPERTIES
  AccessesReturn
