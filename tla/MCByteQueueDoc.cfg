SPECIFICATION Spec
CONSTANTS
  Size = 4
  Item = {0, 1, 2}
  MaxBulk = 4
PROPERTIES
  BulkStoreIsComplete
