CONSTANTS
  p1 = p1
  p2 = p2
  s1 = s1
  Node = {p1, s1}
  Name <- OwnName
  Endpoint <- Crossing
  QueueCapacity = 2
  MaxPublish = 1
  CounterMod = 32
  FaultKind = {"duplicate_down", "delay_down", "lose_down", "broker_send", "send"}
  MaxFaults = 1
  TypeName <- MCTypeName
  TopicName <- MCTopicName
  MessageSize <- MCSize
  TopicPriority <- MCPriority
  MaxEndpoints = 2
SPECIFICATION Spec
INVARIANTS RoutedRight ForwardedRight SubscriberKeepsUp
CHECK_DEADLOCK FALSE
