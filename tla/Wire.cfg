SPECIFICATION Spec
CONSTANTS
  Plan <- MCPlan
  Follower <- MCFollower
  Piece = {1, 40}
  MaxCalls = 2
INVARIANTS
  RoundTrip
  Restartable
  NothingHeldBack
CHECK_DEADLOCK FALSE
