CONSTANTS
  Probes = {p1, p2}
  Targets = {t1}
  Elsewhere = Elsewhere
  Ids = {1}
  SeqSpace = 2
  MaxSocks = 2
  MaxCalls = 3
SYMMETRY Symmetry
CHECK_DEADLOCK FALSE
SPECIFICATION Spec
INVARIANTS AnswerIsOwn WaiterIsAnswerable NoLeakedSocket
