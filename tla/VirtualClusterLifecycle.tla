----------------------- MODULE VirtualClusterLifecycle -----------------------
(***************************************************************************)
(* The life of the VirtualClusters of one Cell: users, the VirtualCluster  *)
(* controller, the guards on the Cell and the host, put together.          *)
(***************************************************************************)
EXTENDS VirtualClusterController, CellBinding, HostAgent

\* Works of another owner are applied on the host as any other.
ForeignWork == [NoWork EXCEPT !.owner = "foreign", !.applied = TRUE]

Init ==
    /\ vc = [v \in VC |-> NoVC]
    /\ cell \in [meta : {"present"}, ref : MC, verdict : {"NotReady"}]
    /\ work \in [VC -> [Kinds -> [MC ->
                    IF "foreign" \in Faults THEN {NoWork, ForeignWork}
                                            ELSE {NoWork}]]]
    /\ secret \in [VC -> IF "foreign" \in Faults THEN {"none", "foreign"}
                                                 ELSE {"none"}]
    /\ child = [v \in VC |-> FALSE]
    /\ seen = [vc |-> vc, cell |-> cell, work |-> work, secret |-> secret]
    /\ queue = {}
    /\ round = Idle
    /\ drained = FALSE

-----------------------------------------------------------------------------
(* Users, the garbage collector and the process.                           *)

Create(v) ==
    /\ vc[v].meta = "absent"
    /\ vc' = [vc EXCEPT ![v].meta = "live"]
    /\ queue' = queue \cup {v}
    /\ UNCHANGED <<cell, work, secret, child, seen, round, drained>>

\* Without a finalizer the object is gone at once.
Delete(v) ==
    /\ vc[v].meta = "live"
    /\ vc' = IF vc[v].fin THEN [vc EXCEPT ![v].meta = "deleting"]
             ELSE [vc EXCEPT ![v] = [NoVC EXCEPT !.meta = "gone"]]
    /\ queue' = queue \cup {v}
    /\ UNCHANGED <<cell, work, secret, child, seen, round, drained>>

\* Someone other than the controller deletes one of its Works.
DeleteOutOfBand(v, k, m) ==
    /\ "extDelete" \in Faults
    /\ work[v][k][m].owner = "own" /\ ~work[v][k][m].deleting
    /\ SetWork(v, k, m, [work[v][k][m] EXCEPT !.deleting = TRUE])
    /\ UNCHANGED child

\* Someone else creates a ManifestWork under one of our names.
CreateForeign(v, k, m) ==
    /\ "foreignRace" \in Faults
    /\ work[v][k][m].owner = "none"
    /\ SetWork(v, k, m, ForeignWork)
    /\ UNCHANGED child

\* The published Secret has the VirtualCluster as its controlling owner.
CollectSecret(v) ==
    /\ vc[v].meta = "gone" /\ secret[v] = "own"
    /\ secret' = [secret EXCEPT ![v] = "none"]
    /\ UNCHANGED <<vc, cell, work, child, seen, queue, round, drained>>

\* The process restarts: rounds are lost, the caches are listed anew.
Crash ==
    /\ "crash" \in Faults
    /\ round' = Idle /\ drained' = FALSE
    /\ seen' = Relisted
    /\ queue' = {v \in VC : Exists(vc[v])}
    /\ UNCHANGED <<vc, cell, work, secret, child>>

Next ==
    \/ Worker \/ RequestFails \/ Sync \/ Resync \/ Crash
    \/ CellDeletion \/ DeleteCell
    \/ \E m \in MC : Rebind(m)
    \/ \E verdict \in Verdicts : CellVerdict(verdict)
    \/ \E v \in VC : Create(v) \/ Delete(v) \/ CollectSecret(v)
                     \/ ChildStarts(v) \/ ChildStops(v)
    \/ \E v \in VC, k \in Kinds, m \in MC :
          \/ Apply(v, k, m) \/ Degrade(v, k, m) \/ Finalize(v, k, m)
          \/ DeleteOutOfBand(v, k, m) \/ CreateForeign(v, k, m)

Spec == Init /\ [][Next]_vars

-----------------------------------------------------------------------------
(* Safety.                                                                 *)

OwnWork(v, k, m) == work[v][k][m].owner = "own"

\* NoOrphan: a VirtualCluster that is gone has left no ManifestWork behind, in
\* any namespace: reconcileDeletion removes the finalizer last.
NoOrphan ==
    \A v \in VC : ~Exists(vc[v]) =>
        \A k \in Kinds, m \in MC : ~OwnWork(v, k, m)

\* InstanceOnFoundation: an instance Work exists only where its foundation Work
\* (namespace, quota, policy) does: it is created second and deleted first.
InstanceOnFoundation ==
    \A v \in VC, m \in MC :
        OwnWork(v, "instance", m) => OwnWork(v, "foundation", m)

\* CredentialRevokedFirst: once the controller has begun to tear a child
\* cluster down, its admin kubeconfig is no longer published and will not be.
CredentialRevokedFirst ==
    \A v \in VC :
        (\E k \in Kinds, m \in MC : OwnWork(v, k, m) /\ work[v][k][m].deleting)
        \/ vc[v].meta = "gone"
        => secret[v] # "own"

\* CellOutlivesWorks: while a VirtualCluster has Works, its Cell exists (the
\* Cell's finalizer is removed only after the VirtualClusters are gone).
CellOutlivesWorks ==
    (\E v \in VC, k \in Kinds, m \in MC : OwnWork(v, k, m))
    => cell.meta # "absent"

\* ResolvedFrozen: no round, whatever it read, replaces a persisted snapshot by
\* one that names another ManagedCluster.
ResolvedFrozen ==
    [][\A v \in VC : vc[v].status.resolved # None /\ Exists(vc'[v])
         => vc'[v].status.resolved = vc[v].status.resolved]_vars

\* ForeignUntouched: a ManifestWork of another owner under one of our names is
\* neither overwritten nor deleted.
ForeignUntouched ==
    [][\A v \in VC, k \in Kinds, m \in MC : work[v][k][m].owner = "foreign"
         => work'[v][k][m] = work[v][k][m]]_vars

\* MirrorKept: the mirrored Ingresses are not taken out of an instance Work
\* again while the child cluster (and with it its Ingresses) lives on.
MirrorKept ==
    [][\A v \in VC, m \in MC :
          LET w == work[v]["instance"][m] IN
          w.mirror /\ work'[v]["instance"][m].owner = "own"
          => work'[v]["instance"][m].mirror]_vars

-----------------------------------------------------------------------------
(* The contract the lifecycle keeps.                                       *)

\* Steps of a live round that lead to, or have just made, a write of a Work.
Provisions(v) ==
    round.v = v /\ round.pc \in {"resolve", "foundation", "works", "publish",
                                 "mirror", "instance", "refresh"}

\* A VirtualCluster is closing once the controller has seen its deletion and
\* no round that had not seen it is left.
Life(v) ==
    IF ~Exists(vc[v]) THEN vc[v].meta
    ELSE IF knownVC[v].meta = "deleting" /\ ~Provisions(v) THEN "closing"
    ELSE "open"

Delivered(v) == {k \in Kinds : \E m \in MC : OwnWork(v, k, m)}

Contract == INSTANCE ProvisioningContract
            WITH life <- [v \in VC |-> Life(v)],
                 delivered <- [v \in VC |-> Delivered(v)]

\* KeepsContract: the lifecycle implements the provisioning contract.
KeepsContract == Contract!Spec

-----------------------------------------------------------------------------
(* Liveness.                                                               *)

\* The worker takes the keys in the order of its queue and finishes rounds; the
\* watches deliver; the resync comes round.
ControllerFairness ==
    /\ WF_vars(Worker)
    /\ \A v \in VC : SF_vars(NothingToDo(v) \/ Reconcile(v) \/ ReconcileDeletion(v))
    /\ WF_vars(SyncVC) /\ WF_vars(SyncWork) /\ WF_vars(SyncCell)
    /\ WF_vars(SyncSecret) /\ WF_vars(Resync)

\* The work agent does its job, and the Cell is found usable.
AgentFairness ==
    /\ \A v \in VC, k \in Kinds, m \in MC :
          WF_vars(Apply(v, k, m)) /\ WF_vars(Finalize(v, k, m))
    /\ WF_vars(CellVerdict("Accepted"))

\* K3k starts, and restarts, the child clusters.
ChildFairness == \A v \in VC : WF_vars(ChildStarts(v))

\* The Cell controller looks at a Cell that is being deleted every 15 seconds.
CellFairness == WF_vars(DrainCell) /\ WF_vars(ReleaseCell)

ControllerSpec == Spec /\ ControllerFairness
ChildlessSpec == ControllerSpec /\ AgentFairness
FairSpec == ControllerSpec /\ AgentFairness /\ ChildFairness /\ CellFairness

\* DeletionCompletes: a deleted VirtualCluster eventually goes away.
DeletionCompletes ==
    \A v \in VC : vc[v].meta = "deleting" ~> vc[v].meta = "gone"

\* CellDeletionCompletes: the Cell waits for its VirtualClusters, and the cleanup
\* of a VirtualCluster may need the Cell; they do not wait for each other.  A
\* deleted Cell goes away unless a VirtualCluster is kept.
CellDeletionCompletes ==
    cell.meta = "deleting"
        ~> (cell.meta = "absent" \/ \E v \in VC : vc[v].meta = "live")

\* ProvisioningCompletes: a VirtualCluster becomes Ready unless it is deleted.
ProvisioningCompletes ==
    \A v \in VC : vc[v].meta = "live"
        ~> (vc[v].meta # "live" \/ vc[v].status.phase = "Ready")

\* Both Works of v exist and are Applied.
BothApplied(v) ==
    \A k \in Kinds : \E m \in MC : OwnWork(v, k, m) /\ work[v][k][m].applied

\* ReadyWithdrawn: the controller does not report Ready for ever while one of
\* the two Works is not Applied.
ReadyWithdrawn ==
    \A v \in VC : []<>(vc[v].status.phase # "Ready" \/ BothApplied(v))

\* ChildLossReported: nor while the child cluster does not answer; a failed
\* observation clears the projection in the status.
ChildLossReported ==
    \A v \in VC :
        []<>(vc[v].status.phase # "Ready" \/ child[v] \/ ~BothApplied(v))
=============================================================================
