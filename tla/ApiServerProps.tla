--------------------------- MODULE ApiServerProps ---------------------------
(***************************************************************************)
(* What is promised about deployments, their routes and their events.      *)
(***************************************************************************)
EXTENDS ApiServer

\* A transaction writes rows of the two tables and events.
Typed(t) ==
  /\ t.inserts \subseteq DOMAIN t.rows
  /\ t.replaces \subseteq DOMAIN t.events
  /\ DOMAIN t.rows \cup DOMAIN t.events \subseteq Entities
  /\ \A d \in Deployments \cap DOMAIN t.rows : t.rows[d] \in Deployment \cup {None}
  /\ \A r \in Routes \cap DOMAIN t.rows : t.rows[r] \in Route \cup {None}
  /\ \A x \in DOMAIN t.events : t.events[x] \in Event

\* Tables, outbox and transactions hold what the declarations say.
TypeOK ==
  /\ md \in [Deployments -> Deployment \cup {None}]
  /\ mr \in [Routes -> Route \cup {None}]
  /\ outbox \in [Entities -> Event \cup {None}]
  /\ DOMAIN tx = Clients
  /\ \A c \in Clients : tx[c] # None => Typed(tx[c])
  /\ belated \subseteq Entities

\* If no user asks for a second one, a deployment never has two default routes, whatever
\* creations, deletions and status reports overlap, and no default route outlives its
\* deployment: the functions look for the route in another table than they write.
DefaultRouteIsOwned ==
  \A d \in Deployments \ Promoted :
    /\ Cardinality(DefaultRoutes(d)) <= 1
    /\ DefaultRoutes(d) # {} => md[d] # None

\* As it was created: nobody has edited, reported or marked it since.
IsNew(row) == row.status = None /\ ~row.mark

LastIs(x, type) == outbox[x] # None /\ outbox[x].type = type

\* Whoever follows the events knows the rows.  The last event of a route shows the row as
\* it is, or that it is gone.  That of a deployment shows the row but for the mark, or
\* that it has been marked, or deleted.  There are two exceptions: a deployment that finds
\* a default route at its creation has no event of that (deployment_service.go:279), so
\* there may be a new row that no event tells of; and a deletion that was asked for before
\* there was anything may be told of after the creation it has overlapped with.
EventsTellRows ==
  /\ \A r \in Routes :
       IF mr[r] = None THEN outbox[r] = None \/ LastIs(r, "deleted")
       ELSE outbox[r] # None /\ outbox[r].payload = mr[r]
  /\ \A d \in Deployments :
       LET unseen == md[d] = None \/ IsNew(md[d])
       IN /\ outbox[d] = None => unseen
          /\ LastIs(d, "changed") =>
               /\ md[d] # None
               /\ outbox[d].payload = [md[d] EXCEPT !.mark = outbox[d].payload.mark]
          /\ LastIs(d, "marked") => unseen \/ md[d].mark \/ d \in belated
          /\ LastIs(d, "deleted") => unseen \/ d \in belated

\* What was asked to be deleted stays so until it is gone, whoever updates it meanwhile.
MarkStays ==
  [][\A d \in Deployments :
       md[d] # None /\ md[d].mark /\ md'[d] # None => md'[d].mark]_vars

\* What the event of a route is to the service catalog.
Kind(e) ==
  IF e.type = "deleted" THEN "deleted"
  ELSE IF ~e.payload.default THEN "other"
  ELSE IF e.payload.ready THEN "ready" ELSE "pending"

O == INSTANCE Outbox WITH MaxEvents <- 1, nextval <- 1, open <- mr

ASSUME EventAssumption == None \notin O!Event

\* The events of a route come in the order that module Outbox takes for granted, on
\* which the service catalog is modelled: overlapping requests never show a default
\* route as an ordinary one again, nor a deleted one as ready.
RouteEventsFollow ==
  [][\A r \in Routes : outbox'[r] # outbox[r] =>
       Kind(outbox'[r]) \in O!Follows(IF outbox[r] = None THEN None
                                      ELSE [id |-> 1, kind |-> Kind(outbox[r])])]_vars

-----------------------------------------------------------------------------
(* The inductive invariant: what is known of a transaction until it ends   *)

\* What it changes is there, unlike what it inserts, and keeps its mark.  A deployment it
\* inserts is new.
WritesRows(t) ==
  /\ \A x \in t.inserts : t.rows[x] # None
  /\ \A x \in DOMAIN t.rows \ t.inserts : Row(x) # None
  /\ \A d \in Deployments \cap (DOMAIN t.rows \ t.inserts) :
       t.rows[d] # None /\ md[d].mark => t.rows[d].mark
  /\ \A d \in Deployments \cap t.inserts : IsNew(t.rows[d])

\* A new default route comes with its deployment and is not ready; no other route becomes
\* one, but for those a user promotes, and none ceases to be one; with its deployment it
\* goes.
KeepsDefaults(t) ==
  /\ \A r \in Routes \cap t.inserts : t.rows[r].default =>
       t.rows[r].target \in t.inserts /\ outbox[r] = None /\ ~t.rows[r].ready
  /\ \A q, r \in Routes \cap t.inserts : t.rows[q].default /\ t.rows[r].default => q = r
  /\ \A r \in Routes \cap (DOMAIN t.rows \ t.inserts) : t.rows[r] # None =>
       /\ mr[r].default => t.rows[r].default
       /\ t.rows[r].default /\ t.rows[r].ready => mr[r].default
       /\ t.rows[r].default /\ t.rows[r].target \notin Promoted =>
            mr[r].default /\ mr[r].target = t.rows[r].target
  /\ \A d \in (Deployments \ Promoted) \cap DOMAIN t.rows : t.rows[d] = None =>
       \A r \in DefaultRoutes(d) : r \in DOMAIN t.rows /\ t.rows[r] = None

\* Every write has its event, but for a deployment that finds a default route.
Tells(t) ==
  /\ Routes \cap DOMAIN t.events = Routes \cap DOMAIN t.rows
  /\ \A r \in Routes \cap DOMAIN t.rows :
       IF t.rows[r] = None THEN t.events[r].type = "deleted"
       ELSE t.events[r].type = "changed" /\ t.events[r].payload = t.rows[r]
  /\ \A d \in Deployments \cap DOMAIN t.events : t.events[d].type = "changed" =>
       /\ d \in DOMAIN t.rows /\ t.rows[d] # None
       /\ t.events[d].payload = [t.rows[d] EXCEPT !.mark = t.events[d].payload.mark]
  /\ \A d \in Deployments \cap DOMAIN t.events \cap DOMAIN t.rows :
       /\ t.events[d].type = "marked" => t.rows[d] # None /\ t.rows[d].mark
       /\ t.events[d].type = "deleted" => t.rows[d] = None
  /\ Deployments \cap DOMAIN t.rows \subseteq DOMAIN t.events \cup t.inserts

\* What it replaces is there.  A deployment it has found no row of is still missing, or
\* new, unless there was no event to replace either.
Replaces(t) ==
  /\ \A x \in t.replaces : outbox[x] # None
  /\ \A d \in Deployments \cap (t.replaces \ DOMAIN t.rows) : md[d] = None \/ IsNew(md[d])

RoutesAreTold ==
  \A r \in Routes : mr[r] # None => LastIs(r, "changed")

\* Nobody else inserts a new default route: its id has a random part.
InsertsApart(t, u) ==
  \A r \in Routes \cap t.inserts \cap u.inserts : ~t.rows[r].default

\* Who changes a deployment replaces the event that another one replaces who has found no
\* row of it: one of the two is rolled back.
ReplacesToo(t, u) ==
  \A d \in Deployments \cap (t.replaces \ DOMAIN t.rows) :
    d \in DOMAIN u.rows \ u.inserts /\ u.rows[d] # None => d \in u.replaces

AtMostOneDefault ==
  \A d \in Deployments \ Promoted :
    /\ \A q, r \in DefaultRoutes(d) : q = r
    /\ DefaultRoutes(d) # {} => md[d] # None

IInv ==
  /\ TypeOK
  /\ AtMostOneDefault /\ EventsTellRows /\ RoutesAreTold
  /\ \A c \in Clients : tx[c] # None =>
       WritesRows(tx[c]) /\ KeepsDefaults(tx[c]) /\ Tells(tx[c]) /\ Replaces(tx[c])
  /\ \A b, c \in Clients : b # c /\ tx[b] # None /\ tx[c] # None =>
       InsertsApart(tx[b], tx[c]) /\ ReplacesToo(tx[b], tx[c])

=============================================================================
