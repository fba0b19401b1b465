SPECIFICATION Spec
CONSTANTS
  milk = milk
  bread = bread
  none = none
  Names <- MCNames
  Empty = none
  MaxLists = 2
  MaxItems = 3
INVARIANTS TypeOK ReadsAreDurable EditHitsCapturedItem ShowsOwnItems NameFieldShowsStored
PROPERTIES ItemsDivergeOnlyByDelete ObjectsKept
