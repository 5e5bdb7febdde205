-------------------------- MODULE EntityLifecycle --------------------------
(***************************************************************************)
(* What the system controller promises about an entity whose deletion is   *)
(* requested with a mark (model deployments, batch inference jobs): an      *)
(* entity runs only while it is declared, it is stopped only after its      *)
(* deletion was requested, and it is forgotten only after it was stopped.   *)
(* GenericWorker implements this specification.                            *)
(***************************************************************************)
CONSTANTS Entities

VARIABLES
  declared,   \* entities the storage knows
  condemned,  \* declared entities whose deletion was requested
  running     \* entities the runtime knows

lvars == <<declared, condemned, running>>

Init ==
  /\ declared = {}
  /\ condemned = {}
  /\ running = {}

Declare(e) ==
  /\ e \notin declared
  /\ declared' = declared \cup {e}
  /\ UNCHANGED <<condemned, running>>

Condemn(e) ==
  /\ e \in declared
  /\ condemned' = condemned \cup {e}
  /\ UNCHANGED <<declared, running>>

\* A start that was decided before the deletion was requested may still happen.
Start(e) ==
  /\ e \in declared
  /\ running' = running \cup {e}
  /\ UNCHANGED <<declared, condemned>>

Stop(e) ==
  /\ e \in condemned
  /\ running' = running \ {e}
  /\ UNCHANGED <<declared, condemned>>

Forget(e) ==
  /\ e \in condemned
  /\ e \notin running
  /\ declared' = declared \ {e}
  /\ condemned' = condemned \ {e}
  /\ UNCHANGED running

Next ==
  \E e \in Entities :
    Declare(e) \/ Condemn(e) \/ Start(e) \/ Stop(e) \/ Forget(e)

Spec == Init /\ [][Next]_lvars

\* What is declared gets started unless it is condemned; what is condemned gets
\* stopped and forgotten.  A user may condemn an entity or let it be.
Fairness ==
  \A e \in Entities :
    /\ WF_lvars(e \notin condemned /\ Start(e))
    /\ WF_lvars(Stop(e))
    /\ WF_lvars(Forget(e))

FairSpec == Spec /\ Fairness

=============================================================================
