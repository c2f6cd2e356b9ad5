SPECIFICATION Spec
CONSTANTS
  Reconcilers = {r1}
  Uuids = {u1}
  URLs = {a, b}
  None = None
  Builtin = FALSE
  Template = FALSE
  RequeueAfter = 2
  MaxOps = 2
  MaxFaults = 0
INVARIANT
  BindingIsTheLastOne
