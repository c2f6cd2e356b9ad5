SPECIFICATION Spec
CONSTANTS
  Reconcilers = {r1, r2}
  Uuids = {u1, u2, u3, u4}
  URLs = {}
  None = None
  Builtin = TRUE
  Template = TRUE
  RequeueAfter = 2
  MaxOps = 2
  MaxFaults = 2
SYMMETRY Symmetry
INVARIANTS
  TypeOK
  EveryLeakIsAFault
PROPERTIES
  DeletedIsTerminal
  OnlyTheDoomedGo
