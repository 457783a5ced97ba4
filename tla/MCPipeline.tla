----------------------------- MODULE MCPipeline -----------------------------
(***************************************************************************)
(* Pipeline for TLC: the executions of one backup, or of two backups of the *)
(* same PVC.                                                               *)
(***************************************************************************)
EXTENDS Pipeline

OneBackup == [e \in Execs |-> "app"]

Snapshots == [e \in Execs |-> "snapshot"]
LastDirect ==
  [e \in Execs |-> IF \A f \in Execs : f <= e THEN "direct" ELSE "snapshot"]

TwoBackups == [e \in Execs |-> IF e = CHOOSE f \in Execs : TRUE THEN "app-kopia" ELSE "app"]
=============================================================================
