\* One deployment, whose host or model changes.
CONSTANTS
  d1 = d1
  d2 = d2
  Deployments = {d1}
  Hosts = {h1, h2}
  Wishes <- MCOneTarget
  StatusIsLost = TRUE
  None = None
SPECIFICATION FairSpec
PROPERTIES TargetsAreRouted
