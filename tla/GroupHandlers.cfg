SPECIFICATION Spec
CONSTANTS
  Procs = {p1, p2}
  Users = {creator, u1, u2}
  Creator = creator
  MaxAsked = 7
SYMMETRY Symmetry
INVARIANT BooksAgree
PROPERTY RemovalIsFinal
CHECK_DEADLOCK FALSE
