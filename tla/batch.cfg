\* Batch jobs whose services can all be read: marked deletion, no update, runtime
\* lists that come empty when they fail and show one job of two.
CONSTANTS
  N = 2
  Specs = {s1}
  Replicas = {c1}
  StoragePage = 2
  RuntimePage = 1
  MarkedDelete = TRUE
  Foreground = FALSE
  Finite = TRUE
  KeepsStatus = FALSE
  Immutable = TRUE
  JoinsService = FALSE
  HidesErrors = TRUE
  None = None
SPECIFICATION Spec
PROPERTY StartedOnce
