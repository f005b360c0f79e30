SPECIFICATION Spec
CONSTANTS
  Builds = {b1, b2}
  Kinds = {"serial", "parallel", "optimized", "internship"}
  Nodes = {"amun"}
  AmunExecutors = 3
INVARIANTS
  VerdictExact
PROPERTIES
  BuildsEnd
