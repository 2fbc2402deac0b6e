SPECIFICATION FairSpec
CONSTANTS
  Version = {v1}
  Bare = {v1}
  MaxRun = 3
  Save = {s1}
  Pool = 1
  None = None
CHECK_DEADLOCK FALSE
INVARIANTS OneGenerationUnlessTogether OneCopyUnlessTogether
PROPERTIES ChunksStay SearchStays RunsEnd
