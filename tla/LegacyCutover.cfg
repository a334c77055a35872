SPECIFICATION Spec
CONSTANTS
  Releases = {1, 2}
  Marks = {hold}
  MaxWrites = 2
  MaxLosses = 2
INVARIANTS RowsKept BlobBytesKept
PROPERTIES DeletionProven
CHECK_DEADLOCK FALSE
