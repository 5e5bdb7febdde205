--------------------------- MODULE ReflectorProps ---------------------------
(***************************************************************************)
(* What the reflector of the service catalog owes to the events of the     *)
(* outbox.                                                                 *)
(***************************************************************************)
EXTENDS Reflector

\* Every variable has its type; in particular a cached event is one the outbox
\* has had and its version a cursor.
TypeOK ==
  /\ OutboxTypeOK
  /\ cursor \in 0..MaxEvents
  /\ batch \in [Routes -> Event \cup {None}]
  /\ fetched \in 0..MaxEvents
  /\ added \in Routes \cup {None}
  /\ cache \in [Routes -> Cached \cup {None}]
  /\ {dirty, processing, waiting} \subseteq SUBSET Routes
  /\ job \in [Workers -> Job \cup {None}]
  /\ catalog \in [Routes -> Event \cup {None}]
  /\ models \in SUBSET Routes
  /\ handled \in [Routes -> Event \cup {None}]

-----------------------------------------------------------------------------
(* Safety                                                                  *)

\* A worker never carries an event that is older than what was handled of its
\* route: with retries, several workers and new events arriving under their hands,
\* the catalog is never taken back to an earlier state (reflector.go, runProcessor).
NeverBackwards ==
  \A w \in Workers :
    /\ job[w] # None /\ job[w].phase = "read" /\ job[w].cached # None
    /\ handled[job[w].route] # None
    => handled[job[w].route].id <= job[w].cached.event.id

\* An event leaves the cache only after it was handled, or with the process: a
\* worker that finishes late does not take the next event with it (eventCache.delete).
DroppedWhenHandled ==
  [][\A r \in Routes :
       cache[r] # None /\ cache'[r] = None
         => handled[r] = cache[r].event \/ ReflectorInit']_vars

\* A route whose deletion was handled is not in the catalog, however late a handler
\* of an earlier event of it comes to its end (UpdateHandler.Handle).
DeletedIsGone ==
  \A r \in Routes :
    handled[r] # None /\ handled[r].kind = "deleted" => catalog[r] = None

\* "If more than one event with the same GenericEvent.EntityID was fetched before
\* worker is able to process them then only last one will be processed": an event
\* that is cached and not handled is going to be looked at by some worker.
LastEventIsProcessed ==
  \A r \in Routes :
    cache[r] # None /\ handled[r] # cache[r].event
      => \/ r \in dirty \cup processing \cup waiting
         \/ \E w \in Workers : job[w] # None /\ job[w].route = r

-----------------------------------------------------------------------------
(* The inductive invariant                                                 *)

Active(w) == job[w] # None /\ job[w].phase \in {"got", "read"}

\* The cached versions of a route's events that somebody may still use.
Held(r) ==
  ({cache[r]} \cup
     {job[w].cached : w \in {v \in Workers : job[v] # None /\ job[v].route = r}}) \ {None}

\* What is fetched lies between the cursor and the one that comes next.
FetchedIsAhead ==
  /\ fetched # 0 => cursor < fetched
  /\ added # None => batch[added] # None
  /\ \A r \in Routes : batch[r] # None => batch[r].id \in (cursor + 1)..fetched

\* The workqueue gives a route to one worker at a time.
OneWorker ==
  /\ \A w \in Workers : Active(w) => job[w].route \in processing
  /\ \A v, w \in Workers :
       v # w /\ Active(v) /\ Active(w) => job[v].route # job[w].route

\* A version names one event of a route, and a later version a later event; the cache
\* has the latest one.
VersionsOrder ==
  \A r \in Routes : \A x \in Held(r) :
    /\ x.version < x.event.id /\ x.version <= cursor
    /\ IF x.version = cursor THEN batch[r] = None /\ x.event.id <= fetched
       ELSE x.event.id <= cursor
    /\ \A y \in Held(r) : /\ x.version = y.version => x = y
                          /\ x.version < y.version => x.event.id <= y.version
    /\ cache[r] # None => x.version <= cache[r].version

\* What was handled is one of these events, or older than all of them.
HandledIsPast ==
  \A r \in Routes : handled[r] # None =>
    /\ handled[r].id <= cursor \/ (batch[r] = None /\ handled[r].id <= fetched)
    /\ cache[r] # None => handled[r].id <= cache[r].event.id
    /\ \A x \in Held(r) : handled[r].id = x.event.id => handled[r] = x.event

\* A worker that has succeeded, and whose event is still cached, is the last one.
SucceededIsHandled ==
  \A w \in Workers : job[w] # None /\ job[w].phase = "succeeded" =>
    LET r == job[w].route IN
      /\ job[w].cached # None
      /\ cache[r] # None /\ cache[r].version = job[w].cached.version =>
           handled[r] = job[w].cached.event

IInv ==
  /\ TypeOK
  /\ FetchedIsAhead /\ OneWorker /\ VersionsOrder /\ HandledIsPast /\ SucceededIsHandled
  /\ NeverBackwards /\ DeletedIsGone

-----------------------------------------------------------------------------
(* Refinement                                                              *)

Catalog == INSTANCE RouteCatalog
  WITH feed <- outbox, last <- handled, entry <- catalog

\* The service catalog follows the outbox: it takes the committed events of a route in
\* their order, is never ahead of them, and shows a route with a ready event after which
\* it has taken no deletion (Reflector, UpdateHandler.Handle, Catalog).
FollowsOutbox == Catalog!Spec

\* Nothing is made up: an event that no transaction commits for a route is never taken
\* for one of it, nor shown (RouteEventGetter.Get, eventCache).
NothingInvented ==
  \A r \in Routes, e \in Event :
    [](outbox[r] # e) => [](handled[r] # e /\ catalog[r] # e)

\* The inductive part of it.  The ids of a route grow, also that of the event that is not
\* committed yet.
IdsGrow ==
  \A r \in Routes :
    /\ open[r] # None => open[r].id < nextval
    /\ outbox[r] # None => outbox[r].id < nextval
    /\ open[r] # None /\ outbox[r] # None => outbox[r].id < open[r].id

\* Event e, if there is one, is f or older.
IsPast(e, f) == e # None => f # None /\ (e = f \/ e.id < f.id)

\* The process knows of no event that the outbox does not have yet.
KnownIsPast ==
  /\ \A r \in Routes :
       /\ IsPast(batch[r], outbox[r])
       /\ cache[r] # None => IsPast(cache[r].event, outbox[r])
  /\ \A w \in Workers :
       job[w] # None /\ job[w].cached # None =>
         IsPast(job[w].cached.event, outbox[job[w].route])

\* An event of a route is nowhere in the process.
Unknown(r, e) ==
  /\ batch[r] # e /\ handled[r] # e /\ catalog[r] # e
  /\ cache[r] # None => cache[r].event # e
  /\ \A w \in Workers :
       job[w] # None /\ job[w].route = r /\ job[w].cached # None => job[w].cached.event # e

=============================================================================
