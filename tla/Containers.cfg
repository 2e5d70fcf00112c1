\* Up to three pairs over three resizes, equal pairs and equal globals included.
CONSTANTS
  Global = {1, 2, 3}
  Attribute = {0, 1}
  Local = {0, 1}
  MaxSize = 3
  MaxSeqNo = 3
  chunkSize = 2
  MaxPushes = 6
  Items = {1, 2}
  elements = 2
  MaxCells = 4
  Keys = {1, 2, 3}
  Data = {1, 2}
  MaxNodes = 4
SPECIFICATION SpecAll
INVARIANTS TypeOK AlwaysSorted NoDeletedBetweenResizes LookupFindsFirst ArrayListExact SLListExact CellsPartitioned LruExact
PROPERTY ResizeIsExact
\* The number of resizes is bounded.
CHECK_DEADLOCK FALSE
