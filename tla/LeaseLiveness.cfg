SPECIFICATION FairSpec
CONSTANTS
  Instances = {p1}
  Nobody = Nobody
  Former = Former
  Goroutines = {"renewer", "worker", "probe"}
  TTL = 2
  MaxStall = 1
  MaxFaults = 2
PROPERTIES
  LeadershipReturns
