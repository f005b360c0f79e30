SPECIFICATION SearchSpec
CONSTANTS
  Undefined = "undefined"
  Empty = ""
  SearchTerms = {"undefined", "", "a", "b"}
  Pages <- MCPages
  MaxAsks = 7
INVARIANTS
  PagesInOrder
PROPERTIES
  LoadingEnds
  ImplementsFresh
CHECK_DEADLOCK FALSE
