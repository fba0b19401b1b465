SPECIFICATION Spec
CONSTANTS
  milk = milk
  bread = bread
  none = none
  Names <- MCNames
  Empty = none
  MaxLists = 3
  MaxItems = 1
INVARIANTS RowCountsMatch CrashOnlyAfterLostCommit EditButtonCoherent
PROPERTIES ListsDivergeOnlyByDelete ImplementsToDoData
