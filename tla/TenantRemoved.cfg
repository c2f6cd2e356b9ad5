SPECIFICATION Spec
CONSTANTS
  Reconcilers = {r1}
  Uuids = {u1}
  URLs = {a}
  None = None
  Builtin = FALSE
  Template = FALSE
  RequeueAfter = 2
  MaxOps = 1
  MaxFaults = 1
PROPERTY
  RemovedWhileDeleted
