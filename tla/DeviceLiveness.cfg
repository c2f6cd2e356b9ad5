SPECIFICATION FairSpec
CONSTANTS
  Codes = {c1}
  Subjects = {s1}
  Polls = {p1, p2}
  Verifs = {v1}
  NoSubject = NoSubject
  NoCode = NoCode
  DeviceTTL = 1
  PollInterval = 1
  SlowDownIncrement = 1
  MaxInterval = 2
  MaxClock = 2
  MaxAborts = 1
  StoreFaults = FALSE
PROPERTIES
  AnswersAreFinal
  CodesSettle
