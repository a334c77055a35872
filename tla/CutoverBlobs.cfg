SPECIFICATION Spec
CONSTANTS
  Releases = {1}
  Marks = {hold}
  MaxWrites = 2
  MaxLosses = 0
INVARIANTS BlobsReadable
CHECK_DEADLOCK FALSE
