------------------------------ MODULE HostAgent ------------------------------
(***************************************************************************)
(* What happens on the host: Open Cluster Management's work agent applies  *)
(* and finalizes ManifestWorks and reports conditions, and K3k runs the    *)
(* child cluster while the instance Work is applied.  Neither is part of   *)
(* the repository; both are modelled from how the controllers use them.    *)
(***************************************************************************)
EXTENDS ClusterState

\* The controller's watch on ManifestWorks enqueues the VirtualCluster.
SetWork(v, k, m, w) ==
    /\ work' = [work EXCEPT ![v][k][m] = w]
    /\ queue' = queue \cup {v}
    /\ UNCHANGED <<vc, cell, secret, seen, round, drained>>

Apply(v, k, m) ==
    LET w == work[v][k][m] IN
    /\ w.owner = "own" /\ ~w.deleting
    /\ ~w.applied \/ w.failed
    /\ SetWork(v, k, m, [w EXCEPT !.applied = TRUE, !.failed = FALSE])
    /\ UNCHANGED child

\* The agent withdraws Applied, or reports Degraded beside it.
Degrade(v, k, m) ==
    LET w == work[v][k][m] IN
    /\ "agentFail" \in Faults
    /\ w.owner = "own" /\ ~w.deleting
    /\ \/ w.applied /\ SetWork(v, k, m, [w EXCEPT !.applied = FALSE])
       \/ ~w.failed /\ SetWork(v, k, m, [w EXCEPT !.failed = TRUE])
    /\ UNCHANGED child

\* The objects of the Work are removed from the host, then the Work itself.
Finalize(v, k, m) ==
    LET w == work[v][k][m] IN
    /\ w.deleting
    /\ SetWork(v, k, m, NoWork)
    /\ child' = IF k = "instance" /\ w.owner = "own"
                THEN [child EXCEPT ![v] = FALSE] ELSE child

ChildStarts(v) ==
    /\ ~child[v]
    /\ \E m \in MC : LET w == work[v]["instance"][m] IN
                     w.owner = "own" /\ w.applied /\ ~w.deleting
    /\ child' = [child EXCEPT ![v] = TRUE]
    /\ UNCHANGED <<vc, cell, work, secret, seen, queue, round, drained>>

ChildStops(v) ==
    /\ "childDown" \in Faults
    /\ child[v]
    /\ child' = [child EXCEPT ![v] = FALSE]
    /\ UNCHANGED <<vc, cell, work, secret, seen, queue, round, drained>>
=============================================================================
