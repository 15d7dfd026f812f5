SPECIFICATION WebSpec
CONSTANTS
  lib = lib
  ann = ann
  Repo <- MCRepo
  User <- MCUser
  Elsewhere = {}
  DefaultRepo = DefaultRepo
  None = None
  MaxTyped = 4
  MaxSockets = 2
INVARIANT PromptRunsWherePlaced
CHECK_DEADLOCK FALSE
