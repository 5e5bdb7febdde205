\* One client; the request that nobody waits for may be anybody's.
CONSTANTS
  Sessions = {u1}
  Calls = {c1, c2}
  S1 = S1
  S2 = S2
  Secrets = {S1, S2}
  Mask = Mask
  Files <- MCFiles
  Stores = {"vault", "kubernetes"}
  Retries = 2
  None = None
SPECIFICATION FairSpec
INVARIANT StoredIsSound
PROPERTIES ReportIsRight CreatedOnce CommandsEnd
