SPECIFICATION Spec
CONSTANTS
  a1=a1 a2=a2 c1=c1 c2=c2 j1=j1 j2=j2 u=u w=w
  Ann <- MCAnn
  User = {u}
  Author <- MCAuthor
  Limit = 1
  Client <- MCClient
  Job <- MCJob
  None = None
  Erased = Erased
  Moved = Moved
CONSTRAINT ThreeAtWork
SYMMETRY MCSymmetry
CHECK_DEADLOCK FALSE
INVARIANTS RepliesHaveTheirRoot MentionsFollowText
PROPERTIES ArchiveIsTheLastState
