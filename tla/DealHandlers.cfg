SPECIFICATION Spec
CONSTANTS
  Calls = {c1, c2}
  c1 = c1
  c2 = c2
  Amounts = {2}
  Deposits = {0, 1}
  Figures = {1}
SYMMETRY Symmetry
INVARIANTS
  TypeOK
  DoneIsComplete
  InSpineOrder
PROPERTIES
  KeepsARecord
  AgreementStands
CHECK_DEADLOCK FALSE
