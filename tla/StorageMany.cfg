CONSTANTS
  QueueCapacity = 2
  MaxCreate = 2
SPECIFICATION StorageSpec
INVARIANTS UsesLiveMemory
CHECK_DEADLOCK FALSE
