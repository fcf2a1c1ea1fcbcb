---------------------------- MODULE ClusterState ----------------------------
(***************************************************************************)
(* The state the KubeCell controllers share: the objects stored by the     *)
(* management cluster's API server, the informer caches through which the  *)
(* controllers and the webhooks read them, and the workqueue and reconcile *)
(* round of the VirtualCluster controller.                                 *)
(*                                                                         *)
(* All VirtualClusters refer to one Cell by name.  Object names embed the  *)
(* UID of their VirtualCluster, so an object is identified by the          *)
(* VirtualCluster it is named after, its kind, and, for a ManifestWork, the *)
(* namespace (that of the ManagedCluster) it lives in.                     *)
(***************************************************************************)
CONSTANTS
    VC,         \* VirtualClusters (one UID each)
    Qualified,  \* those whose spec.cellRef carries the Cell's namespace
    MC,         \* ManagedClusters, that is, namespaces for ManifestWorks
    None,       \* no ManagedCluster: an empty name
    Faults      \* the environment's optional behaviours, a set of FaultKinds

(***************************************************************************)
(* "crash"       the manager process restarts                              *)
(* "apiError"    a request to the API server fails                         *)
(* "hostRead"    a read through the cluster proxy fails                    *)
(* "backendRead" the backend Service of a child Ingress cannot be read     *)
(* "flap"        the Cell controller's verdict on the Cell changes         *)
(* "childDown"   a running child cluster stops answering                   *)
(* "agentFail"   the work agent reports Degraded or withdraws Applied      *)
(* "extDelete"   someone else deletes a ManifestWork                       *)
(* "foreign"     objects of another owner have our names from the start    *)
(* "foreignRace" such an object appears later                              *)
(* "rebind"      an operator changes the Cell's managedClusterRef          *)
(* "deleteCell"  an operator deletes the Cell                              *)
(* "lagX"        reads of X may be answered from an outdated cache         *)
(***************************************************************************)
FaultKinds == {"crash", "apiError", "hostRead", "backendRead", "flap",
               "childDown", "agentFail", "extDelete", "foreign",
               "foreignRace", "rebind", "deleteCell",
               "lagVC", "lagCell", "lagWork", "lagSecret"}

ASSUME QualifiedAssumption == Qualified \subseteq VC
ASSUME NoneAssumption == None \notin MC /\ None \notin VC
ASSUME FaultsAssumption == Faults \subseteq FaultKinds

VARIABLES
    vc,         \* the VirtualCluster objects
    cell,       \* the Cell object
    work,       \* work[v][k][m]: v's ManifestWork of kind k in m's namespace
    secret,     \* the admin kubeconfig Secrets
    child,      \* whether v's child cluster answers (host side)
    seen,       \* the lagging caches of vc, cell, work and secret
    queue,      \* workqueue of the VirtualCluster controller, timers included
    round,      \* the reconcile round its single worker is in
    drained     \* the Cell controller has found no VirtualCluster left

vars == <<vc, cell, work, secret, child, seen, queue, round, drained>>

-----------------------------------------------------------------------------
(* Objects.                                                                *)

Phases == {"", "Provisioning", "Ready", "Degraded", "Failed", "Deleting"}

\* The CleanupBlocked condition: its reason, or "" when it is not set.
Cleanups == {"", "CellUnavailable", "ForeignObject", "DeletionRequested"}

\* status.resolved is abstracted to the ManagedCluster it names, status.child
\* to its three flags together, which the production observer sets as one.
Statuses == [phase : Phases, resolved : MC \cup {None}, child : BOOLEAN,
             cleanup : Cleanups]

EmptyStatus == [phase |-> "", resolved |-> None, child |-> FALSE,
                cleanup |-> ""]

\* "deleting": deletionTimestamp is set.  fin: KubeCell's finalizer is present.
VirtualClusters == [meta : {"absent", "live", "deleting", "gone"},
                    fin : BOOLEAN, status : Statuses]

NoVC == [meta |-> "absent", fin |-> FALSE, status |-> EmptyStatus]

Exists(object) == object.meta \in {"live", "deleting"}

\* What a reconcile round concludes from the Cell (and the class): its phase is
\* not Ready, the references do not resolve, or the feasibility decision.
Verdicts == {"NotReady", "Invalid", "Rejected", "Unknown", "Accepted"}

Cells == [meta : {"present", "deleting", "absent"}, ref : MC,
          verdict : Verdicts]

Kinds == {"foundation", "instance"}

\* mirror: the Work carries the mirrored child Ingresses.
Works == [owner : {"none", "own", "foreign"}, deleting : BOOLEAN,
          applied : BOOLEAN, failed : BOOLEAN, mirror : BOOLEAN]

NoWork == [owner |-> "none", deleting |-> FALSE, applied |-> FALSE,
           failed |-> FALSE, mirror |-> FALSE]

WorkTable == [VC -> [Kinds -> [MC -> Works]]]

Secrets == {"none", "own", "foreign"}

-----------------------------------------------------------------------------
(* Reads.  Every read of the controllers and the webhooks goes through an  *)
(* informer cache.  seen tracks the caches that may lag; one that may not  *)
(* answers with the stored objects.                                        *)

Cached(lag, old, current) == IF lag \in Faults THEN old ELSE current

knownVC == Cached("lagVC", seen.vc, vc)
knownCell == Cached("lagCell", seen.cell, cell)
knownWork == Cached("lagWork", seen.work, work)
knownSecret == Cached("lagSecret", seen.secret, secret)

\* Mutant: a Cell that is being deleted is treated as missing.
FindsPresentCell(v) == v \in Qualified /\ knownCell.meta = "present"

\* Get of the Cell that v's cellRef names: without a namespace it finds nothing.
FindsCell(v) == v \in Qualified /\ knownCell.meta # "absent"

\* A watch brings a lagging cache up to date; for VirtualClusters and
\* ManifestWorks its handler enqueues the VirtualClusters concerned.
SyncVC ==
    /\ "lagVC" \in Faults /\ seen.vc # vc
    /\ seen' = [seen EXCEPT !.vc = vc]
    /\ queue' = queue \cup {v \in VC : seen.vc[v] # vc[v]}
    /\ UNCHANGED <<vc, cell, work, secret, child, round, drained>>

SyncWork ==
    /\ "lagWork" \in Faults /\ seen.work # work
    /\ seen' = [seen EXCEPT !.work = work]
    /\ queue' = queue \cup {v \in VC : seen.work[v] # work[v]}
    /\ UNCHANGED <<vc, cell, work, secret, child, round, drained>>

\* The VirtualCluster controller watches neither Cells nor Secrets.
SyncCell ==
    /\ "lagCell" \in Faults /\ seen.cell # cell
    /\ seen' = [seen EXCEPT !.cell = cell]
    /\ UNCHANGED <<vc, cell, work, secret, child, queue, round, drained>>

SyncSecret ==
    /\ "lagSecret" \in Faults /\ seen.secret # secret
    /\ seen' = [seen EXCEPT !.secret = secret]
    /\ UNCHANGED <<vc, cell, work, secret, child, queue, round, drained>>

Sync == SyncVC \/ SyncWork \/ SyncCell \/ SyncSecret

\* The periodic resync of the informer enqueues what the cache holds.
Resync ==
    /\ \E v \in VC \ queue : Exists(knownVC[v])
    /\ queue' = queue \cup {v \in VC : Exists(knownVC[v])}
    /\ UNCHANGED <<vc, cell, work, secret, child, seen, round, drained>>

\* After a restart the caches are listed anew.
Relisted == [vc |-> Cached("lagVC", vc, seen.vc),
             cell |-> Cached("lagCell", cell, seen.cell),
             work |-> Cached("lagWork", work, seen.work),
             secret |-> Cached("lagSecret", secret, seen.secret)]

-----------------------------------------------------------------------------
(* The reconcile round.                                                     *)

\* The request that comes next in the round; "idle" between rounds.
Steps == {"idle", "resolve", "foundation", "works", "publish", "mirror",
          "instance", "refresh", "save", "secret", "lookup", "delInstance",
          "delFoundation", "removeFinalizer"}

\* read: the VirtualCluster as a deletion round has read it; status: its
\* status as the round has changed it so far; mc: the namespace
\* for its ManifestWorks; requeue: whether the round returns RequeueAfter.
Rounds == [pc : Steps, v : VC \cup {None}, read : VirtualClusters,
           status : Statuses, mc : MC \cup {None}, mirror : BOOLEAN,
           requeue : BOOLEAN]

Idle == [pc |-> "idle", v |-> None, read |-> NoVC, status |-> EmptyStatus,
         mc |-> None, mirror |-> FALSE, requeue |-> FALSE]

TypeOK ==
    /\ vc \in [VC -> VirtualClusters]
    /\ cell \in Cells
    /\ work \in WorkTable
    /\ secret \in [VC -> Secrets]
    /\ child \in [VC -> BOOLEAN]
    /\ seen \in [vc : [VC -> VirtualClusters], cell : Cells,
                 work : WorkTable, secret : [VC -> Secrets]]
    /\ queue \subseteq VC
    /\ round \in Rounds
    /\ drained \in BOOLEAN
=============================================================================
