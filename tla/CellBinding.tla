----------------------------- MODULE CellBinding -----------------------------
(***************************************************************************)
(* What KubeCell lets happen to the Cell while VirtualClusters refer to    *)
(* it: the admission of a change of managedClusterRef, and the deletion    *)
(* round of the Cell controller.  The other rounds of that controller are  *)
(* seen here only by their outcome, the verdict.                           *)
(***************************************************************************)
EXTENDS ClusterState

\* The webhook counts the cached VirtualClusters that name the Cell and are
\* not being deleted.
isCellReferenced == \E v \in VC : knownVC[v].meta = "live"

\* An operator points the Cell at another ManagedCluster and is admitted, also
\* while the Cell is being deleted: then the Update of a round that was about
\* to remove its finalizer conflicts.
Rebind(m) ==
    /\ "rebind" \in Faults
    /\ cell.meta # "absent" /\ m # cell.ref
    /\ ~isCellReferenced
    /\ cell' = [cell EXCEPT !.ref = m]
    /\ drained' = FALSE
    /\ UNCHANGED <<vc, work, secret, child, seen, queue, round>>

\* The Cell controller publishes what it found out about the host.
CellVerdict(verdict) ==
    /\ cell.meta = "present" /\ verdict # cell.verdict
    /\ "flap" \in Faults \/ verdict = "Accepted"
    /\ cell' = [cell EXCEPT !.verdict = verdict]
    /\ UNCHANGED <<vc, work, secret, child, seen, queue, round, drained>>

\* An operator deletes the Cell; its finalizer keeps it for now.
DeleteCell ==
    /\ "deleteCell" \in Faults
    /\ cell.meta = "present"
    /\ cell' = [cell EXCEPT !.meta = "deleting"]
    /\ UNCHANGED <<vc, work, secret, child, seen, queue, round, drained>>

\* CellReconciler.reconcileDeletion lists the VirtualClusters that refer to the
\* Cell by name and namespace.  While there is one the Cell's phase is Deleting.
HoldCell ==
    /\ cell.meta = "deleting" /\ ~drained
    /\ \E v \in Qualified : Exists(knownVC[v])
    /\ cell.verdict # "NotReady"
    /\ cell' = [cell EXCEPT !.verdict = "NotReady"]
    /\ UNCHANGED <<vc, work, secret, child, seen, queue, round, drained>>

\* Otherwise the round goes on to remove the finalizer ...
DrainCell ==
    /\ cell.meta = "deleting" /\ ~drained
    /\ \A v \in Qualified : ~Exists(knownVC[v])
    /\ drained' = TRUE
    /\ UNCHANGED <<vc, cell, work, secret, child, seen, queue, round>>

\* ... with an Update that succeeds when the Cell has not been written since.
ReleaseCell ==
    /\ drained
    /\ cell' = [cell EXCEPT !.meta = "absent"]
    /\ drained' = FALSE
    /\ UNCHANGED <<vc, work, secret, child, seen, queue, round>>

CellDeletion == HoldCell \/ DrainCell \/ ReleaseCell
=============================================================================
