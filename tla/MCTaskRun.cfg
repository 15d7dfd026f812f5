SPECIFICATION FairSpec
CONSTANTS
  coder = coder
  elsewhere = elsewhere
  look = look
  build = build
  Task <- MCTask
  Asker <- MCAsker
  Loops <- MCLoops
  MaxInflight <- MCMaxInflight
  MaxRetries = 1
  Routed = {}
  Coder = {coder}
  FANOUT = 2
  MAX_STEPS = 2
  ToolCall = {look, build}
  Batches <- MCBatches
  Mutating = {build}
  Check = {build}
  HasNeedle = TRUE
  ReviewRemote = FALSE
  Budget = 1

  
PROPERTIES
  TaskEnds
