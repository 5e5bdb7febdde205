---------------------------- MODULE MCReflector -----------------------------
(***************************************************************************)
(* The reflector for TLC: what must eventually happen.                     *)
(***************************************************************************)
EXTENDS ReflectorProps

\* A Ready event whose handler failed is handled later, unless a newer event of
\* the route takes its place or the process stops (AddRateLimited).
FailureIsRetried ==
  \A r \in Routes, n \in 1..MaxEvents :
    /\ cache[r] # None /\ cache[r].event = [id |-> n, kind |-> "ready"]
    /\ \E w \in Workers :
         job[w] # None /\ job[w].phase = "failed" /\ job[w].cached = cache[r]
    ~> cache[r] = None \/ cache[r].event.id # n

\* The process has fetched nothing yet.
Fresh == cursor = 0 /\ fetched = 0

Last(r, n) == outbox[r] # None /\ outbox[r].id = n /\ outbox[r].kind # "pending"

\* A catalog that is started over catches up with what does not change any more:
\* the last event of every route is in the outbox and gets handled.
RebuiltAfterRestart ==
  \A r \in Routes, n \in 1..MaxEvents :
    []((Fresh /\ []Last(r, n) /\ <>[]~Fresh) => <>(handled[r] = outbox[r]))

=============================================================================
