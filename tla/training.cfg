\* Trainings and packagings: the API deletes the row at once, the result is final.
CONSTANTS
  N = 1
  Specs = {s1, s2}
  Replicas = {c1}
  StoragePage = 1
  RuntimePage = 1
  MarkedDelete = FALSE
  Foreground = FALSE
  Finite = TRUE
  KeepsStatus = FALSE
  Immutable = FALSE
  JoinsService = FALSE
  HidesErrors = FALSE
  None = None
SPECIFICATION FairSpec
INVARIANTS DoneIsOfSpec
PROPERTIES ZombiesRemoved ResultDelivered
