CONSTANTS
  Streams = {s1, s2}
  Leavers = {s1, s2}
  QueueMax = 2
  Workers = 1
  Events = 2
SPECIFICATION EventsSpec
CHECK_DEADLOCK FALSE
PROPERTIES ImplementsFeed StreamsEnd
