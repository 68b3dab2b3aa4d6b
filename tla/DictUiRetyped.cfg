SPECIFICATION Spec
CONSTANTS
  Words = {"a", "ab"}
  MaxWorkers = 3
  MaxConnections = 1
PROPERTIES
  StopsAfterTyping
