\* Two deployments, as targets or as a mirror.
CONSTANTS
  d1 = d1
  d2 = d2
  Deployments = {d1, d2}
  Hosts = {h1}
  Wishes <- MCWishes
  StatusIsLost = FALSE
  None = None
SPECIFICATION FairSpec
INVARIANT MarkIsTrue
PROPERTIES TargetsAreRouted StateFollowsTargets ComesToRest NothingIsLeft
