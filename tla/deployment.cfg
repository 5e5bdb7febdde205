\* Model deployments: marked deletion, foreground propagation.
CONSTANTS
  N = 1
  Specs = {s1, s2}
  Replicas = {c1}
  StoragePage = 1
  RuntimePage = 1
  MarkedDelete = TRUE
  Foreground = TRUE
  Finite = FALSE
  KeepsStatus = TRUE
  Immutable = FALSE
  JoinsService = FALSE
  HidesErrors = FALSE
  None = None
SPECIFICATION PassFairSpec
INVARIANTS NoOrphanObject PollScheduled
PROPERTIES ImplementsLifecycle LifecycleProgress SpecConverges
