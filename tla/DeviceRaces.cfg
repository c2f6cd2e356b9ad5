SPECIFICATION Spec
CONSTANTS
  Codes = {c1}
  Subjects = {s1, s2}
  Polls = {p1, p2}
  Verifs = {v1, v2}
  NoSubject = NoSubject
  NoCode = NoCode
  DeviceTTL = 1
  PollInterval = 1
  SlowDownIncrement = 1
  MaxInterval = 2
  MaxClock = 2
  MaxAborts = 0
  StoreFaults = TRUE
SYMMETRY Symmetry
INVARIANTS
  TypeOK
  OneTokenPerCode
  IssuedInsideWindow
  ConsumedIffIssued
  PollsSeeTheApproval
PROPERTIES
  DecisionsAreFinal
  ImplementsPromise
