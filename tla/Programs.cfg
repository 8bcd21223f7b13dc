CONSTANTS
  g1 = g1
  r1 = r1
  r2 = r2
  d1 = d1
  d2 = d2
  Node = {g1, r1, r2, d1, d2}
  Name <- OwnName
  Endpoint <- MCEndpoint
  Program <- MCProgram
  Launch <- MCLaunch
  StartAfter <- InTurn
  PublishCount = 2
  HistogramSize = 1
  QueueCapacity = 1
  MaxPublish = 2
  CounterMod = 64
  FaultKind = {"send"}
  MaxFaults = 1
  TypeName <- MCTypeName
  TopicName <- MCTopicName
  MessageSize <- MCSize
  TopicPriority <- MCPriority
  MaxEndpoints = 2
SPECIFICATION ProgramsFairSpec
INVARIANTS TypeOK HistogramFaithful BacklogIsFailedSends
PROPERTIES LoopsReturn
CHECK_DEADLOCK FALSE
