SPECIFICATION Spec
CONSTANTS
  f1=f1 f2=f2 f3=f3 c1=c1 c2=c2 d1=d1 a=a s=s
  Folder <- MCFolder
  Name <- MCName
  Doc = {d1}
  Client <- MCClients
  MaxDepth = 3
  Left <- Patterns
  Escaped = {s}
  Root = Root
  Idle = Idle
SYMMETRY Symmetric
CHECK_DEADLOCK FALSE
CONSTRAINT WhileRight
INVARIANTS TypeOK ChainedUnlessLeft NoCycleUnlessLeft
PROPERTIES OnlyTheSubtreeMoves
