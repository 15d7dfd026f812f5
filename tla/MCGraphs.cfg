SPECIFICATION GraphsSpec
SYMMETRY Twins
CONSTANTS
  Role <- MCRole
  Review <- MCReview
  MaxSubtasks = 2
  MaxPlanTasks = 3
  FollowupCap = 1
  MaxEmits = 1
  BoundsOptions <- Bounded
  PlanReview = TRUE
  Ink <- MCInk
  Noted <- MCNoted
  Cites <- MCCites
  Source <- MCSource
  ORDER_STRIDE = 2
  LCS_CELL_BUDGET = 9
  Path = {a}
  Tracked = {a}
  Absent = Absent
  Ending = {t1, t2}
  Opening = Opening
  Reader = {r}
  MaxChanges = 1
  MaxEnds = 2
  MaxReads = 1
  MaxDeaths = 1
  Doc = {d}
  DocContent <- MCDocContent
  Model = {m1, m2}
  None = None
  BATCH = 2
  Ingester = {w1, w2}
  Asker = {a1}
  MaxEdits = 1
  MaxIngests = 2
  MaxRestarts = 2
  Task = {k1, k2}
  File = {f1, f2}
  Trace <- MCTrace
  Finding = {"f", "g"}
  Returning = {"read"}
  MaxRuns = 3
INVARIANTS
  OnlyFailureStrands
  CompleteIsHonest
  OneHandoffPerRole
  
  
  
  VectorsAreChunks
  RankedByOneModel
  ReportedIsStored
  HeadReachesNotes
  PlanRevealsNotes
PROPERTIES
  ReviewSettlesFirst
  SweepCatchesUp
