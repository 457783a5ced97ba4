------------------------------ MODULE RunTurns ------------------------------
(***************************************************************************)
(* What the operator promises about the runs of one backup while nothing   *)
(* goes wrong: they take turns.  A run waits alone; it is executed once,   *)
(* while no other is, recorded before its execution is over, and over when *)
(* run and record agree; or it is refused, for the one that is executed.   *)
(* Which guards, looks and patches bring this about is not said.  Module   *)
(* RunLifecycle implements this.                                           *)
(***************************************************************************)
CONSTANT Runs

\* Of each run: "new", "waiting", "executing", "recorded", "over" or "refused".
VARIABLE place

Init == place = [r \in Runs |-> "new"]

Free == \A r \in Runs : place[r] \notin {"executing", "recorded"}

Goes(r, from, to) == place[r] = from /\ place' = [place EXCEPT ![r] = to]

Ask(r)    == Goes(r, "new", "waiting") /\ \A q \in Runs : place[q] # "waiting"
Begin(r)  == Goes(r, "waiting", "executing") /\ Free
Refuse(r) == Goes(r, "waiting", "refused") /\ ~Free
Record(r) == Goes(r, "executing", "recorded")
End(r)    == Goes(r, "recorded", "over")

\* (That a run goes on is said first: most steps of RunLifecycle move none.)
Next == /\ place' # place
        /\ \E r \in Runs : Ask(r) \/ Begin(r) \/ Refuse(r) \/ Record(r) \/ End(r)

Spec == Init /\ [][Next]_place
=============================================================================
