CONSTANTS
  Streams = {s1}
  Leavers = {s1}
  QueueMax = 1
  Workers = 1
  Events = 9
  Modules = 1
  Rounds = 5
  Found = 2
  NoReport = NoReport
  Rid = Rid
  Now = Now
SPECIFICATION GreySpec
CHECK_DEADLOCK FALSE
INVARIANT ReportSound
PROPERTIES ImplementsEvents StreamsOfScanEnd
