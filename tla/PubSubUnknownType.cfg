CONSTANTS
  p1 = p1
  p2 = p2
  s1 = s1
  Node = {p1}
  Name <- OwnName
  Endpoint <- TwoPriorities
  QueueCapacity = 2
  MaxPublish = 1
  CounterMod = 32
  FaultKind = {"restart"}
  MaxFaults = 1
  TypeName <- MCTypeName
  TopicName <- MCTopicName
  MessageSize <- MCSize
  TopicPriority <- MCPriority
  MaxEndpoints = 2
SPECIFICATION Spec
INVARIANTS TopicTypeKnown
CHECK_DEADLOCK FALSE
