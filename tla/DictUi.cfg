SPECIFICATION FairSpec
CONSTANTS
  Words = {"a", "ab"}
  MaxWorkers = 2
  MaxConnections = 3
INVARIANTS
  SuggestionsFit
  WindowConnected
  NoneForgotten
PROPERTY WorkersEnd
