SPECIFICATION FairSpec
CONSTANTS
  s1 = s1
  s2 = s2
  c1 = c1
  c2 = c2
  Server = {s1, s2}
  Chat = {c1, c2}
  Listener = {l1}
  Worker = {w1}
  Request = {1, 2}
  NoConn = NoConn
  NoServer = NoServer
  NoListener = NoListener
  NoJob = NoJob
  Setups <- MCSetups
  Overlap = FALSE
  MaxEvents = 2
  MaxAttempts = 2
INVARIANTS
  RelayTypeOK
  NothingAfterEnd
  ListenersTold
  RunningIsAbortable
  QuotaNeverEarly
PROPERTIES
  StreamInOrder
  RefinesStream
  Answered
  ChannelsReleased
CHECK_DEADLOCK FALSE
