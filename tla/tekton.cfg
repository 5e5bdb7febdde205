\* The three operators, caches that may show any earlier version.
CONSTANTS
  Specs = {s1, s2}
  Kinds = {"training", "packaging", "batch"}
  Lagging = {"cr", "run", "cm"}
  None = None
SPECIFICATION Spec
INVARIANT RunIsOfSpec
PROPERTIES EditsAreKept FinishedIsFinal RunIsKept
