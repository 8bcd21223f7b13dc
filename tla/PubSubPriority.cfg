CONSTANTS
  p1 = p1
  p2 = p2
  s1 = s1
  Node = {p1}
  Name <- OwnName
  Endpoint <- TwoPriorities
  QueueCapacity = 2
  MaxPublish = 2
  CounterMod = 32
  FaultKind = {}
  MaxFaults = 0
  TypeName <- MCTypeName
  TopicName <- MCTopicName
  MessageSize <- MCSize
  TopicPriority <- MCPriority
  MaxEndpoints = 2
SPECIFICATION Spec
PROPERTIES PriorityRespected
CHECK_DEADLOCK FALSE
