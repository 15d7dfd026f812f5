SPECIFICATION SessionSpec
CONSTANTS
  turn = turn
  conn = conn
  Turn <- MCTurn
  Conn <- MCConn
  RingCap = 2
  LiveCap = 2
  QueueCap = 1
  MaxEvents = 2
  MaxBinds = 2
  here = here
  there = there
  tab = tab
  r1 = r1
  r2 = r2
  Session <- MCSessions
  Client <- MCClient
  Request <- MCRequest
  HomeOf <- MCHomeOf
  Unbound = Unbound
INVARIANTS
  TurnBrackets
  NothingLostUnsaid
  ApprovedByFirstAnswer
  GateHoldsTheWaiting
PROPERTIES
  TurnEnds
  TurnSeenToItsEnd
  EveryRequestSettles
CHECK_DEADLOCK FALSE
