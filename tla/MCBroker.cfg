CONSTANTS
  CounterMod = 2
  Address = {a1, a2}
  NodeName = {n1, n2}
  TypeName = {t1, t2}
  TopicName = {x1}
  MessageSize = {s1, s2}
  TopicPriority <- MCPriority
  Payload = {d1}
  Id <- MCId
  RpcId = {0}
  MaxEndpoints = 1
SPECIFICATION Spec
INVARIANTS TypeOK RegistryInv
CHECK_DEADLOCK FALSE
PROPERTIES IdsStable AnswersTruthful
SYMMETRY Symmetry
