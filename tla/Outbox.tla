------------------------------- MODULE Outbox -------------------------------
(***************************************************************************)
(* The route events of the API server (packages/operator/pkg/repository/   *)
(* outbox).  A service publishes an event in the transaction that changes  *)
(* the route; the table keeps the last event of a route and the reader     *)
(* asks for what is behind its cursor.                                     *)
(*                                                                         *)
(* The id of an event comes from a sequence when it is inserted, and the   *)
(* event is visible when its transaction commits.  Two transactions on one *)
(* route exclude each other: both delete the previous event, and the       *)
(* second one fails at REPEATABLE READ.  On two routes they overlap.       *)
(***************************************************************************)
EXTENDS Integers, FiniteSetsExt

CONSTANTS
  Routes,     \* ids of model routes
  MaxEvents,  \* bound: values of the sequence that are used
  None        \* no event

ASSUME OutboxAssumption == MaxEvents \in Nat

\* What an event says of its route: not the default one of its deployment; the
\* default one, and not Ready; the default one, and Ready; deleted.
Kinds == {"other", "pending", "ready", "deleted"}

Event == [id: 1..MaxEvents, kind: Kinds]

ASSUME OutboxNoneAssumption == None \notin Event

VARIABLES
  nextval,  \* the next value of the sequence
  open,     \* the event a transaction on a route has inserted, or None
  outbox    \* the committed event of a route, or None

outboxVars == <<nextval, open, outbox>>

OutboxTypeOK ==
  /\ nextval \in 1..(MaxEvents + 1)
  /\ open \in [Routes -> Event \cup {None}]
  /\ outbox \in [Routes -> Event \cup {None}]

\* What may be published of a route after event e: it is created, by a user or
\* with its deployment; a user updates a route that is not a default one and may
\* make it one; its status is reported; it is deleted.
Follows(e) ==
  IF e = None THEN {"other", "pending"}
  ELSE CASE e.kind = "other"              -> {"other", "pending", "deleted"}
         [] e.kind \in {"pending", "ready"} -> {"pending", "ready", "deleted"}
         [] e.kind = "deleted"            -> {"other"}

Publish(r, k) ==
  /\ nextval <= MaxEvents
  /\ open[r] = None
  /\ k \in Follows(outbox[r])
  /\ open' = [open EXCEPT ![r] = [id |-> nextval, kind |-> k]]
  /\ nextval' = nextval + 1
  /\ UNCHANGED outbox

\* FinishTx; the previous event of the route goes with the same transaction.
Commit(r) ==
  /\ open[r] # None
  /\ outbox' = [outbox EXCEPT ![r] = open[r]]
  /\ open' = [open EXCEPT ![r] = None]
  /\ UNCHANGED nextval

\* The change of the route fails, or the commit does, which FinishTx only logs.
Rollback(r) ==
  /\ open[r] # None
  /\ open' = [open EXCEPT ![r] = None]
  /\ UNCHANGED <<nextval, outbox>>

\* RouteEventGetter.Get: the routes with an event behind the cursor.
Behind(cursor) == {r \in Routes : outbox[r] # None /\ outbox[r].id > cursor}

\* The id of the last event that was read, or zero.
NewCursor(cursor) == Max({0} \cup {outbox[r].id : r \in Behind(cursor)})

OutboxInit ==
  /\ nextval = 1
  /\ open = [r \in Routes |-> None]
  /\ outbox = [r \in Routes |-> None]

OutboxNext ==
  \E r \in Routes :
    \/ \E k \in Kinds : Publish(r, k)
    \/ Commit(r)
    \/ Rollback(r)

=============================================================================
