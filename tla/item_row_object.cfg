SPECIFICATION Spec
CONSTANTS
  milk = milk
  bread = bread
  none = none
  Names <- MCNames
  Empty = none
  MaxLists = 1
  MaxItems = 3
INVARIANT ItemRowIsItsObject
