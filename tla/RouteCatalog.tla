---------------------------- MODULE RouteCatalog ----------------------------
(***************************************************************************)
(* What a catalog of the served routes promises that follows a feed of     *)
(* their events: it learns the events of a route in their order, passes    *)
(* some over, learns one more than once, is never ahead of the feed, and   *)
(* shows what it has learned.  It may forget everything and start over.    *)
(*                                                                         *)
(* Reflector implements it behind its fetcher, cache, queue and workers.   *)
(***************************************************************************)
EXTENDS Naturals

CONSTANTS
  Routes,  \* ids of model routes
  Event,   \* events with an id and a kind
  None     \* no event

VARIABLES
  feed,   \* the last event of a route that was announced, or None
  last,   \* the last event of a route that was learned, or None
  entry   \* the event a route is shown with, or None

catalogVars == <<feed, last, entry>>

Nothing == [r \in Routes |-> None]

\* Event e is later than f.
After(e, f) == f = None \/ f.id < e.id

Announce(r, e) ==
  /\ After(e, feed[r])
  /\ feed' = [feed EXCEPT ![r] = e]
  /\ UNCHANGED <<last, entry>>

\* What the catalog makes of an event: a ready route whose model cannot be described
\* stays as it was, and so does a route that is not a default one any more.
Show(r, e) ==
  \/ e.kind = "ready" /\ entry' = [entry EXCEPT ![r] = e]
  \/ e.kind \in {"ready", "other"} /\ entry' = entry
  \/ e.kind = "deleted" /\ entry' = [entry EXCEPT ![r] = None]

Learn(r, e) ==
  /\ e = feed[r] \/ (feed[r] # None /\ After(feed[r], e))
  /\ e = last[r] \/ After(e, last[r])
  /\ last' = [last EXCEPT ![r] = e]
  /\ Show(r, e)
  /\ UNCHANGED feed

StartOver ==
  /\ last' = Nothing
  /\ entry' = Nothing
  /\ UNCHANGED feed

Init == feed = Nothing /\ last = Nothing /\ entry = Nothing

Next ==
  \/ \E r \in Routes, e \in Event : Announce(r, e) \/ Learn(r, e)
  \/ StartOver

Spec == Init /\ [][Next]_catalogVars

=============================================================================
