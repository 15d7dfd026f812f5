SPECIFICATION Spec
CONSTANTS
  t1 = t1
  t2 = t2
  t3 = t3
  lib = lib
  old = old
  new = new
  Turn <- MCTurn
  File <- MCFile
  Content <- MCContent
  None = None
  MaxCommits = 1
  MaxCrashes = 1
SYMMETRY Symmetry
INVARIANT BuildIsCurrent
CHECK_DEADLOCK FALSE
