CONSTANTS
  p1 = p1
  p2 = p2
  s1 = s1
  Node = {p1, s1}
  Name <- OwnName
  Endpoint <- PingPong
  QueueCapacity = 2
  MaxPublish = 2
  CounterMod = 4
  FaultKind = {}
  MaxFaults = 0
  TypeName <- MCTypeName
  TopicName <- MCTopicName
  MessageSize <- MCSize
  TopicPriority <- MCPriority
  MaxEndpoints = 2
SPECIFICATION FairSpec
INVARIANTS SubscriberKeepsUp
PROPERTIES ConnectReturns EventuallyDelivered
