SPECIFICATION GuideSpec
CONSTANTS
  Tools <- MCTools
  Vocabulary <- MCVocabulary
  Openings <- MCOpenings
  MaxTokens = 4
INVARIANTS
  StructureIsConstrained
CHECK_DEADLOCK FALSE
