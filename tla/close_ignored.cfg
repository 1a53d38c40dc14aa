SPECIFICATION Spec
CONSTANTS
  HEADER_SIZE = 2
  CHUNK_SIZE = 2
  PageSizes = {1, 3}
  FileSizes = {0, 1, 4}
  RangeNumbers = {1, 2}
  FilesShrink = FALSE
  RESTART_BOUND = 1
INVARIANT CloseIsHonoured
