\* One deployment, a role that is changed, a password that changes.
CONSTANTS
  Models = {m1}
  r1 = r1
  r2 = r2
  Roles = {r1, r2}
  Passwords = {p1, p2}
  Setups <- MCSetups
  None = None
SPECIFICATION FairSpec
INVARIANTS RestsInAgreement
PROPERTIES EditsAreKept ServiceFollowsSpec StateFollowsService
  CredentialsArrive NothingIsLeft
