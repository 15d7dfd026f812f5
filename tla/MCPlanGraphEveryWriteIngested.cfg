SPECIFICATION Spec
CONSTANTS
  Role <- MCRole
  Review <- MCReview
  MaxSubtasks = 2
  MaxPlanTasks = 3
  FollowupCap = 1
  MaxEmits = 1
  BoundsOptions <- Bounded
  PlanReview = TRUE
INVARIANT EveryWriteIngested
