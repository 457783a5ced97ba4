--------------------------- MODULE ReadersWriter ---------------------------
(***************************************************************************)
(* What the locks of a repository are for: clients that read it or add to   *)
(* it may do so together, a client that deletes from it (forget --prune) or  *)
(* checks it is alone.  A client leaves when it is done and when it dies.    *)
(***************************************************************************)
CONSTANT Clients

VARIABLES readers, writers

vars == <<readers, writers>>

Init == readers = {} /\ writers = {}

Read(c) == /\ writers = {}
           /\ readers' = readers \union {c}
           /\ UNCHANGED writers

Write(c) == /\ readers = {} /\ writers = {}
            /\ writers' = {c}
            /\ UNCHANGED readers

Leave(c) == /\ readers' = readers \ {c}
            /\ writers' = writers \ {c}

Next == \E c \in Clients : Read(c) \/ Write(c) \/ Leave(c)

Spec == Init /\ [][Next]_vars
=============================================================================
