SPECIFICATION PageSpec
CONSTANTS
  Module <- MCModules
  DepGraphs <- MCDepGraphs
  MaxBackdrops = 3
  MaxAwaited = 2
  Length = 3
  MaxQueued = 3
  Panels = {p1, p2, p3}
  Tabs = {t1, t2, t3}
  Menus = {m1, m2, m3}
  Entries = 2
  Sections = 3
  Height = 4
  Choices = {c1, c2}
  MaxDue = 3
  Options = {1, 2}
  Terms <- MCTerms
  TermLength <- MCTermLength
  Hits <- MCHits
  ItemOf <- MCItemOf
  Setups <- MCSetups
  MaxHandlers = 5
  StackLimit = 40
INVARIANTS
  ModalSettled
  TipFollows
  CarouselSettled
  ControlsSettled
  FactoryOnce
  DepsFirst
  SelectionShown
  MarksCurrent
  HandlersMatch
  ListAnswersBox
  AtMostMaximum
CHECK_DEADLOCK FALSE
