\* One route through its life, two workers; the proofs are for any number of routes.
CONSTANTS
  Routes = {r1}
  MaxEvents = 3
  Workers = {w1, w2}
  None = None
SPECIFICATION FairSpec
INVARIANTS NeverBackwards DeletedIsGone
PROPERTIES DroppedWhenHandled FollowsOutbox FailureIsRetried RebuiltAfterRestart
