SPECIFICATION ApprovalsSpec
CONSTANTS
  here = here
  there = there
  tab = tab
  r1 = r1
  r2 = r2
  r3 = r3
  Session <- MCSession
  Client <- MCClient
  Request <- MCRequest
  HomeOf <- MCHomeOf
  Unbound = Unbound
INVARIANTS
  ApprovedAsShown
