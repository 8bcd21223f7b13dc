CONSTANTS
  p1 = p1
  p2 = p2
  s1 = s1
  Node = {p1, s1}
  Name <- OwnName
  Endpoint <- Twice
  QueueCapacity = 2
  MaxPublish = 3
  CounterMod = 32
  FaultKind = {"lose_up", "duplicate_up", "delay_up", "send", "receive", "socket", "restart"}
  MaxFaults = 1
  TypeName <- MCTypeName
  TopicName <- MCTopicName
  MessageSize <- MCSize
  TopicPriority <- MCPriority
  MaxEndpoints = 2
SPECIFICATION Spec
INVARIANTS InOrder AnswersMatch
PROPERTIES ImplementsFeed GapIsFinal
CHECK_DEADLOCK FALSE
