-------------------------------- MODULE Slots --------------------------------
(***************************************************************************)
(* What the operator promises about concurrency (K8SI_MAX_CONCURRENT_      *)
(* BACKUPS): at most N backups execute at once, each executes once.  How   *)
(* they wait for their turn is not said.  Module Pool implements this.     *)
(***************************************************************************)
EXTENDS Naturals, FiniteSets

CONSTANTS Backups, N

VARIABLES executing, finished

Init == executing = {} /\ finished = {}

Start(b) == /\ b \notin executing \union finished
            /\ Cardinality(executing) < N
            /\ executing' = executing \union {b}
            /\ UNCHANGED finished

Finish(b) == /\ b \in executing
             /\ executing' = executing \ {b}
             /\ finished' = finished \union {b}

\* A slot that becomes free may go to the next backup at once.
HandOver(b, q) == /\ b \in executing
                  /\ q \notin executing \union finished
                  /\ executing' = (executing \ {b}) \union {q}
                  /\ finished' = finished \union {b}

Next == \/ \E b \in Backups : Start(b) \/ Finish(b)
        \/ \E b, q \in Backups : HandOver(b, q)

Spec == Init /\ [][Next]_<<executing, finished>>
=============================================================================
