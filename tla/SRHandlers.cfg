CONSTANTS
  Requests = {r1}
  Pros = {p1, p2}
  Calls = {c1, c2}
  NoCall = NoCall
  Cap = 1
SPECIFICATION Spec
SYMMETRY Symmetry
CHECK_DEADLOCK FALSE
INVARIANTS TypeOK CapRespected
PROPERTIES OnlyDeclineUndoes ImplementsIntroductions
