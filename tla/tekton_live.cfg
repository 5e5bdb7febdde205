\* A packaging, whose cache of task runs may be behind: what must eventually
\* happen.
CONSTANTS
  Specs = {s1, s2}
  Kinds = {"packaging"}
  Lagging = {"run"}
  None = None
SPECIFICATION FairSpec
PROPERTIES EditIsStarted OutcomeIsReported
