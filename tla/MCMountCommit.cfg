SPECIFICATION MountSpec
CONSTANTS
  Name = {p, q}
  Nowhere = Nowhere
  MaxHandles = 2
  Call = {c1, c2}
  Extent = 2
  MaxIssued = 3
  t1 = t1
  t2 = t2
  lib = lib
  old = old
  new = new
  one = one
  two = two
  draft = draft
  final = final
  shell = shell
  tool = tool
  Turn <- MCTurn
  File <- MCFile
  Content <- MCContent
  Caller <- MCCaller
  Component <- MCComponent
  Bytes <- MCBytes
  Bases <- MCBases
  Ignored <- MCIgnored
  MaxDepth = 2
  MaxOps = 3
  None = None
  MaxCommits = 2
  MaxCrashes = 1
SYMMETRY Symmetry
INVARIANT CommitIsView
CHECK_DEADLOCK FALSE
