------------------------------ MODULE ApiServer ------------------------------
(***************************************************************************)
(* Deployments and routes in the API server: requests become transactions  *)
(* on three tables, the deployments, the routes and the outbox (packages/  *)
(* operator/pkg/service and pkg/repository).                               *)
(*                                                                         *)
(* All transactions run at REPEATABLE READ.  Each reads what was committed *)
(* when it began, and one that changes a row another one has changed since *)
(* then fails; so a transaction is known, from its beginning to its        *)
(* commit, by what it is going to write.  An insert is different: it only  *)
(* needs that the row is gone, and waits for a transaction that deletes    *)
(* it.  A request that fails before it has written anything is left out.   *)
(***************************************************************************)
EXTENDS Integers, FiniteSets

CONSTANTS
  Deployments,  \* ids of deployments
  Routes,       \* ids of routes
  Specs,        \* what deployments are asked to be
  Clients,      \* users and the system controller, each with one request at a time
  Promoted,     \* the deployments a user asks a second default route for
  None          \* no row, no event, no status, no transaction

\* A status is known by the specification it was reported for.
Deployment == [spec: Specs, status: Specs \cup {None}, mark: BOOLEAN]

\* A route is known by its first target, the one a default route has, and whether
\* its status is Ready.
Route == [target: Deployments, default: BOOLEAN, ready: BOOLEAN]

\* Created, updated and reported events all show the row.
Types == {"changed", "marked", "deleted"}

Event == [type: Types, payload: Deployment \cup Route \cup {None}]

Entities == Deployments \cup Routes

ASSUME ApiAssumption ==
  /\ Deployments \cap Routes = {}
  /\ Promoted \subseteq Deployments
  /\ None \notin Specs \cup Deployment \cup Route \cup Event

VARIABLES
  md,      \* the table of deployments
  mr,      \* the table of routes
  outbox,  \* the last event of an entity
  tx,      \* the transaction of a client
  belated  \* only remembered: whose last event comes of a request that found neither
           \* a row nor an event, and committed after others that did have one

vars == <<md, mr, outbox, tx, belated>>

\* One row, or one event.
Only(x, v) == [y \in {x} |-> v]

Row(x) == IF x \in Deployments THEN md[x] ELSE mr[x]

-----------------------------------------------------------------------------
(* Transactions                                                            *)

\* What it inserts, all it writes (None for a row it deletes), and the events; it
\* replaces those it finds.
Begin(c, inserts, rows, events) ==
  /\ tx[c] = None
  /\ tx' = [tx EXCEPT ![c] =
              [inserts |-> inserts, rows |-> rows, events |-> events,
               replaces |-> {x \in DOMAIN events : outbox[x] # None}]]
  /\ UNCHANGED <<md, mr, outbox, belated>>

\* Mutant of Late: the second writer of a row overwrites the first one.
NeverLate(other, done) == FALSE

\* Mutant of Late: an event is replaced without looking at who else replaces it.
LateByRows(other, done) == (DOMAIN other.rows \ other.inserts) \cap DOMAIN done.rows # {}

\* Both change a row or replace the same event.  An event that replaces none is one more
\* row; of two, the one committed last is kept here.
Late(other, done) ==
  \/ (DOMAIN other.rows \ other.inserts) \cap DOMAIN done.rows # {}
  \/ other.replaces \cap done.replaces # {}

Overwritten(table, by) ==
  [x \in DOMAIN table |-> IF x \in DOMAIN by THEN by[x] ELSE table[x]]

\* The transactions that are late have lost: they are rolled back.
Commit(c) ==
  /\ tx[c] # None
  /\ \A x \in tx[c].inserts : Row(x) = None
  /\ md' = Overwritten(md, tx[c].rows)
  /\ mr' = Overwritten(mr, tx[c].rows)
  /\ outbox' = Overwritten(outbox, tx[c].events)
  /\ belated' = (belated \ DOMAIN tx[c].events) \cup
       {x \in DOMAIN tx[c].events \ (DOMAIN tx[c].rows \cup tx[c].replaces) :
          outbox[x] # None}
  /\ tx' = [k \in Clients |->
              IF k = c \/ tx[k] = None \/ Late(tx[k], tx[c]) THEN None ELSE tx[k]]

\* A statement or the commit fails; FinishTx rolls back, or logs the error.
Rollback(c) ==
  /\ tx[c] # None
  /\ tx' = [tx EXCEPT ![c] = None]
  /\ UNCHANGED <<md, mr, outbox, belated>>

Says(type, payload) == [type |-> type, payload |-> payload]

-----------------------------------------------------------------------------
(* Deployments                                                             *)

DefaultRoutes(d) == {r \in Routes : mr[r] # None /\ mr[r].default /\ mr[r].target = d}

NewDeployment(s) == [spec |-> s, status |-> None, mark |-> FALSE]

DefaultRoute(d) == [target |-> d, default |-> TRUE, ready |-> FALSE]

Deletes(c, x) == tx[c] # None /\ x \in DOMAIN tx[c].rows /\ tx[c].rows[x] = None

\* A row that is being deleted is gone when the insert has waited for it.
MayInsert(x) == Row(x) = None \/ \E c \in Clients : Deletes(c, x)

\* If there is a default route the function returns before it publishes anything.
SaveOnly(c, d, s) ==
  /\ DefaultRoutes(d) # {}
  /\ Begin(c, {d}, Only(d, NewDeployment(s)), <<>>)

\* The id of a default route has a random part: it is a new one, and no user has it.
SaveWithRoute(c, d, s, r) ==
  /\ DefaultRoutes(d) = {}
  /\ outbox[r] = None
  /\ \A k \in Clients : tx[k] # None => r \notin tx[k].inserts
  /\ LET new(x) == IF x = d THEN NewDeployment(s) ELSE DefaultRoute(d)
     IN Begin(c, {d, r}, [x \in {d, r} |-> new(x)],
              [x \in {d, r} |-> Says("changed", new(x))])

CreateModelDeployment(c, d, s) ==
  /\ MayInsert(d)
  /\ \/ SaveOnly(c, d, s)
     \/ \E r \in Routes : SaveWithRoute(c, d, s, r)

\* Mutant of UpdateModelDeployment: the row gets the mark of the request.
UpdateUnmarks(c, d, s) ==
  /\ md[d] # None
  /\ Begin(c, {}, Only(d, NewDeployment(s)), Only(d, Says("changed", NewDeployment(s))))

\* The request has no mark and its payload neither; the column is not written.
UpdateModelDeployment(c, d, s) ==
  /\ md[d] # None
  /\ Begin(c, {}, Only(d, [NewDeployment(s) EXCEPT !.mark = md[d].mark]),
           Only(d, Says("changed", NewDeployment(s))))

\* The event is published first, and stays when there is no such row: the error of
\* the repository is returned and not assigned.
SetDeletionMark(c, d) ==
  Begin(c, {}, IF md[d] = None THEN <<>> ELSE Only(d, [md[d] EXCEPT !.mark = TRUE]),
        Only(d, Says("marked", None)))

\* The system controller reports the status for the specification it has seen.
UpdateModelDeploymentStatus(c, d, s) ==
  /\ md[d] # None
  /\ md[d].spec = s
  /\ md[d].status # s
  /\ LET row == [md[d] EXCEPT !.status = s]
     IN Begin(c, {}, Only(d, row), Only(d, Says("changed", row)))

\* The system controller asks for it when it has seen the mark, a former leader also
\* when the row is gone or another one has its id; the service looks at no mark.  The
\* error of the repository is overwritten, and the event published all the same.  More
\* than one default route is an error.
DeleteModelDeployment(c, d) ==
  /\ Cardinality(DefaultRoutes(d)) <= 1
  /\ LET row == IF md[d] = None THEN {} ELSE {d}
     IN Begin(c, {}, [x \in row \cup DefaultRoutes(d) |-> None],
              [x \in {d} \cup DefaultRoutes(d) |-> Says("deleted", None)])

-----------------------------------------------------------------------------
(* Routes                                                                  *)

\* The targets are validated before the transaction begins: they may be gone.  A
\* default route that another transaction inserts has an id of its own.
CreateModelRoute(c, r, d) ==
  /\ mr[r] = None
  /\ \A k \in Clients : tx[k] # None /\ r \in tx[k].inserts => ~tx[k].rows[r].default
  /\ LET row == [target |-> d, default |-> FALSE, ready |-> FALSE]
     IN Begin(c, {r}, Only(r, row), Only(r, Says("changed", row)))

\* Mutant of UpdateModelRoute: default routes are updated as well.
UpdateAnyRoute(c, r, d, default) ==
  /\ mr[r] # None
  /\ default => d \in Promoted
  /\ LET row == [target |-> d, default |-> default, ready |-> FALSE]
     IN Begin(c, {}, Only(r, row), Only(r, Says("changed", row)))

\* A default route is not updated, and any other one may become a default one.
UpdateModelRoute(c, r, d, default) ==
  /\ mr[r] # None
  /\ ~mr[r].default
  /\ default => d \in Promoted
  /\ LET row == [target |-> d, default |-> default, ready |-> FALSE]
     IN Begin(c, {}, Only(r, row), Only(r, Says("changed", row)))

\* The system controller reports it for the specification it has seen.
UpdateModelRouteStatus(c, r, d, ready) ==
  /\ mr[r] # None
  /\ mr[r].target = d
  /\ mr[r].ready # ready
  /\ LET row == [mr[r] EXCEPT !.ready = ready]
     IN Begin(c, {}, Only(r, row), Only(r, Says("changed", row)))

DeleteModelRoute(c, r) ==
  /\ mr[r] # None
  /\ ~mr[r].default
  /\ Begin(c, {}, Only(r, None), Only(r, Says("deleted", None)))

-----------------------------------------------------------------------------
(* Specification                                                           *)

Init ==
  /\ md = [d \in Deployments |-> None]
  /\ mr = [r \in Routes |-> None]
  /\ outbox = [x \in Entities |-> None]
  /\ tx = [c \in Clients |-> None]
  /\ belated = {}

DeploymentRequest(c, d) ==
  \/ \E s \in Specs : \/ CreateModelDeployment(c, d, s)
                      \/ UpdateModelDeployment(c, d, s)
                      \/ UpdateModelDeploymentStatus(c, d, s)
  \/ SetDeletionMark(c, d)
  \/ DeleteModelDeployment(c, d)

RouteRequest(c, r) ==
  \/ \E d \in Deployments : \/ CreateModelRoute(c, r, d)
                            \/ \E b \in BOOLEAN : \/ UpdateModelRoute(c, r, d, b)
                                                  \/ UpdateModelRouteStatus(c, r, d, b)
  \/ DeleteModelRoute(c, r)

Next ==
  \E c \in Clients :
    \/ \E d \in Deployments : DeploymentRequest(c, d)
    \/ \E r \in Routes : RouteRequest(c, r)
    \/ Commit(c)
    \/ Rollback(c)

Spec == Init /\ [][Next]_vars

=============================================================================
