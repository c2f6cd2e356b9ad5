SPECIFICATION Spec
CONSTANTS
  Instances = {p1, p2}
  Nobody = Nobody
  Former = Former
  Goroutines = {"renewer", "worker", "probe"}
  TTL = 1
  MaxStall = 2
  MaxFaults = 2
SYMMETRY Symmetry
INVARIANTS
  TypeOK
  OneLeader
  AtMostOneStaleSegment
PROPERTIES
  NoWorkAfterDenial
