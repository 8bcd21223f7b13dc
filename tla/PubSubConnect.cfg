CONSTANTS
  p1 = p1
  p2 = p2
  s1 = s1
  Node = {p1, p2, s1}
  Name <- SameName
  Endpoint <- Clash
  QueueCapacity = 1
  MaxPublish = 0
  CounterMod = 16
  FaultKind = {"lose_up", "duplicate_up", "delay_up", "receive", "socket"}
  MaxFaults = 1
  TypeName <- MCTypeName
  TopicName <- MCTopicName
  MessageSize <- MCSize
  TopicPriority <- MCPriority
  MaxEndpoints = 2
SPECIFICATION Spec
INVARIANTS RegistrationAgrees AnswersMatch
PROPERTIES NameIsFinal
CHECK_DEADLOCK FALSE
