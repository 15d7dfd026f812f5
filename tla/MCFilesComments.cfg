SPECIFICATION FilesSpec
CONSTANTS
  t1 = t1
  t2 = t2
  path = path
  dotted = dotted
  file = file
  v1 = v1
  v2 = v2
  Task <- MCTask
  Path <- MCPath
  FileOf <- MCFileOf
  Contents <- MCContents
  Absent = Absent
  Unset = Unset
  MaxCalls = 3
  Ink <- MCInk
  ORDER_STRIDE = 4
  LCS_CELL_BUDGET = 9
  Pieces <- MCPieces
  MaxEdits <- MCMaxEdits
  lib = lib
  ann = ann
  Repo <- MCRepo
  Elsewhere = {}
  User <- MCUser
  DefaultRepo = DefaultRepo
  None = None
  MaxTyped = 3
  MaxSockets = 2
  Tools <- MCTools
  Vocabulary <- MCVocabulary
  Openings <- MCOpenings
  MaxTokens = 4
  JTurn = {"a", "b", "d"}
  JUser = {"ann", "bob"}
  UserOf <- MCUserOf
  TAIL = 2
  SHOWN = 1
  MaxLists = 1
  MaxFalls = 1
SYMMETRY Symmetry
INVARIANT IntroducesTheElementBelow
CHECK_DEADLOCK FALSE
