---------------------- MODULE VirtualClusterController ----------------------
(***************************************************************************)
(* VirtualClusterReconciler.Reconcile and everything it calls.  One worker *)
(* runs the rounds; a round is split where it talks to the API server or   *)
(* the host, so that other actors (and a crash) can come in between.       *)
(***************************************************************************)
EXTENDS ClusterState

\* The round goes on at step pc with the status it holds.
Goto(pc, status) == round' = [round EXCEPT !.pc = pc, !.status = status]

\* The round returns by saving the status it holds.
SaveAndReturn(status, requeue) ==
    round' = [round EXCEPT !.pc = "save", !.status = status,
                           !.requeue = requeue]

\* The round is over; an error or RequeueAfter puts v back into the queue.
Return(requeue) ==
    /\ round' = Idle
    /\ queue' = IF requeue THEN queue \cup {round.v} ELSE queue

ReturnError == Return(TRUE)

At(pc) == round.pc = pc

\* Mutant: the phase lands in the wrong field.
WithPhaseMisplaced(status, phase) == [status EXCEPT !.cleanup = phase]

WithPhase(status, phase) == [status EXCEPT !.phase = phase]

-----------------------------------------------------------------------------
(* The round of a VirtualCluster that is not being deleted.                *)

\* A key is taken from the queue and its object read from the cache.
Take(v) ==
    /\ At("idle")
    /\ v \in queue

\* The object is not there, or its deletion is no longer KubeCell's business.
NothingToDo(v) ==
    /\ Take(v)
    /\ \/ ~Exists(knownVC[v])
       \/ knownVC[v].meta = "deleting" /\ ~knownVC[v].fin
    /\ queue' = queue \ {v}
    /\ UNCHANGED <<vc, cell, work, secret, child, seen, round, drained>>

\* The round starts at step pc from the object read; a round that deletes
\* keeps it, with its resourceVersion, for its final Update.
Enter(v, pc) ==
    round' = [Idle EXCEPT
                !.pc = pc, !.v = v, !.status = knownVC[v].status,
                !.read = IF pc = "secret" THEN knownVC[v] ELSE NoVC]

\* The finalizer is there already, or an Update adds it; the Update fails, and
\* the key stays queued, when the object that was read is not the current one.
\* When it succeeds the change enqueues the key again.
Reconcile(v) ==
    /\ Take(v)
    /\ knownVC[v].meta = "live"
    /\ \/ /\ knownVC[v].fin
          /\ queue' = queue \ {v}
          /\ UNCHANGED vc
       \/ /\ ~knownVC[v].fin
          /\ knownVC[v] = vc[v]
          /\ vc' = [vc EXCEPT ![v].fin = TRUE]
          /\ UNCHANGED queue
    /\ Enter(v, "resolve")
    /\ UNCHANGED <<cell, work, secret, child, seen, drained>>

\* The snapshot persisted, if there is one, agrees with the references of now.
sameResolvedProvider(current, desired) == current \in {None, desired}

\* Mutant: the snapshot is replaced instead of compared.
ResolveAnew ==
    /\ At("resolve") /\ FindsCell(round.v)
    /\ round' = [round EXCEPT !.pc = "foundation", !.mc = knownCell.ref,
                              !.status.resolved = knownCell.ref]
    /\ UNCHANGED <<vc, cell, work, secret, child, seen, queue, drained>>

\* The Cell is read and the references resolved against the frozen snapshot;
\* then the feasibility is decided and the host's addresses are read.
Resolve ==
    LET now == knownCell
        status == [round.status EXCEPT !.resolved = now.ref]
        drift == ~sameResolvedProvider(round.status.resolved, now.ref)
    IN
    /\ At("resolve")
    /\ \/ /\ ~FindsCell(round.v)
          /\ ReturnError
       \/ /\ FindsCell(round.v)
          /\ UNCHANGED queue
          /\ \/ /\ now.verdict = "NotReady"
                /\ SaveAndReturn(WithPhase(round.status, "Degraded"), TRUE)
             \/ /\ \/ now.verdict = "Invalid"
                   \/ now.verdict # "NotReady" /\ drift
                /\ SaveAndReturn(WithPhase(round.status, "Failed"), FALSE)
             \/ /\ now.verdict = "Rejected" /\ ~drift
                /\ SaveAndReturn(WithPhase(status, "Failed"), FALSE)
             \/ /\ now.verdict = "Unknown" /\ ~drift
                /\ SaveAndReturn(WithPhase(status, "Degraded"), TRUE)
             \/ /\ now.verdict = "Accepted" /\ ~drift
                /\ \/ /\ "hostRead" \in Faults
                      /\ SaveAndReturn(status, TRUE)
                   \/ round' = [round EXCEPT !.pc = "foundation",
                                             !.status = status, !.mc = now.ref]
    /\ UNCHANGED <<vc, cell, work, secret, child, seen, drained>>

\* Mutant: the ownership labels of an existing Work are not checked.
ApplyUnchecked(k, mirror, pc) ==
    /\ work' = [work EXCEPT ![round.v][k][round.mc].owner = "own",
                            ![round.v][k][round.mc].mirror = mirror]
    /\ Goto(pc, round.status)
    /\ UNCHANGED <<vc, cell, secret, child, seen, queue, drained>>

\* createOrUpdateWork: Create when the cache has none; an error when it exists
\* after all or belongs to someone else; a forced server-side Apply otherwise,
\* which creates the Work when it has meanwhile gone.  A change is an event.
createOrUpdateWork(k, mirror, pc) ==
    LET v == round.v
        m == round.mc
        known == knownWork[v][k][m]
        current == work[v][k][m]
        Put(w) == /\ work' = [work EXCEPT ![v][k][m] = w]
                  /\ queue' = IF w = current THEN queue ELSE queue \cup {v}
                  /\ Goto(pc, round.status)
    IN
    /\ \/ /\ known.owner = "none" /\ current.owner = "none"
          /\ Put([NoWork EXCEPT !.owner = "own", !.mirror = mirror])
       \/ /\ known.owner = "own"
          /\ Put([current EXCEPT !.owner = "own", !.mirror = mirror])
       \/ /\ \/ known.owner = "none" /\ current.owner # "none"
             \/ known.owner = "foreign"
          /\ ReturnError
          /\ UNCHANGED work
    /\ UNCHANGED <<vc, cell, secret, child, seen, drained>>

WriteFoundation ==
    /\ At("foundation")
    /\ createOrUpdateWork("foundation", FALSE, "works")

\* Mutant: only a VirtualCluster that is Ready already is Ready.
FinalPhaseSticky(status) ==
    IF status.phase = "Ready" THEN status
                              ELSE WithPhase(status, "Provisioning")

\* Ready iff the child's flags in the status are set, whatever set them.
FinalPhase(status) ==
    WithPhase(status, IF status.child THEN "Ready" ELSE "Provisioning")

\* Mutant: the projection outlives a failed observation.
ChildLostSilently(status) == status

\* The observation failed: no stale projection is kept.
ChildLost(status) ==
    [status EXCEPT !.child = FALSE,
                   !.phase = IF @ = "Ready" THEN "Degraded" ELSE @]

\* The child cluster is observed through the host: its kubeconfig, its API, its
\* node and its StorageClass, all or nothing.
ObserveFails(v) == ~child[v] \/ "hostRead" \in Faults

\* Both Works are read back; the child is observed when the instance Work is
\* Applied.  Without an instance Work the round creates it.
ReadWorks ==
    LET v == round.v
        foundation == knownWork[v]["foundation"][round.mc]
        instance == knownWork[v]["instance"][round.mc]
        onward == foundation.owner # "none" /\ ~foundation.failed
                  /\ foundation.applied
        observes == onward /\ ~instance.failed /\ instance.applied
    IN
    /\ At("works")
    /\ \/ /\ foundation.owner = "none" \/ "apiError" \in Faults
          /\ SaveAndReturn(round.status, TRUE)
       \/ /\ foundation.failed \/ (onward /\ instance.failed)
          /\ SaveAndReturn(WithPhase(round.status, "Degraded"), TRUE)
       \/ /\ foundation.owner # "none" /\ ~foundation.failed
          /\ ~foundation.applied
          /\ SaveAndReturn(WithPhase(round.status, "Provisioning"), TRUE)
       \/ /\ onward /\ ~instance.failed /\ "hostRead" \in Faults
          /\ SaveAndReturn(round.status, TRUE)
       \/ /\ onward /\ instance.owner = "none"
          /\ Goto("instance", round.status)
       \/ /\ onward /\ instance.owner # "none" /\ ~instance.failed
          /\ ~instance.applied
          /\ SaveAndReturn(FinalPhase(round.status), TRUE)
       \/ /\ observes /\ ObserveFails(v)
          /\ SaveAndReturn(ChildLost(round.status), TRUE)
       \/ /\ observes /\ child[v]
          /\ Goto("publish", [round.status EXCEPT !.child = TRUE])
    /\ UNCHANGED <<vc, cell, work, secret, child, seen, queue, drained>>

\* publishAdminKubeconfig: Create, or Update of whatever Secret has the name.
Publish ==
    LET v == round.v
        known == knownSecret[v]
    IN
    /\ At("publish")
    /\ \/ /\ known = secret[v]
          /\ secret' = [secret EXCEPT ![v] = "own"]
          /\ Goto("mirror", round.status)
          /\ UNCHANGED queue
       \/ /\ known # secret[v]
          /\ ReturnError
          /\ UNCHANGED secret
    /\ UNCHANGED <<vc, cell, work, child, seen, drained>>

\* Mutant: after a failed read the Work is written without its mirror.
MirrorUngated ==
    /\ At("mirror")
    /\ \E read \in {TRUE, "hostRead" \notin Faults} :
          round' = [round EXCEPT !.pc = "instance", !.mirror = read]
    /\ UNCHANGED <<vc, cell, work, secret, child, seen, queue, drained>>

\* The host's Pods are listed and the child's Ingresses collected.  When that
\* fails the instance Work is not written in this round.  An Ingress whose
\* backend Service cannot be read is left out.
Mirror ==
    /\ At("mirror")
    /\ \/ /\ "hostRead" \in Faults
          /\ \/ SaveAndReturn(round.status, TRUE)
             \/ SaveAndReturn(FinalPhase(round.status), TRUE)
       \/ round' = [round EXCEPT !.pc = "instance", !.mirror = TRUE]
       \/ /\ "backendRead" \in Faults
          /\ round' = [round EXCEPT !.pc = "instance", !.mirror = FALSE]
    /\ UNCHANGED <<vc, cell, work, secret, child, seen, queue, drained>>

WriteInstance ==
    /\ At("instance")
    /\ createOrUpdateWork("instance", round.mirror, "refresh")

\* The instance Work is read back and, unless that fails, the phase decided.
Refresh ==
    LET found == knownWork[round.v]["instance"][round.mc].owner # "none" IN
    /\ At("refresh")
    /\ \/ /\ ~found \/ "apiError" \in Faults
          /\ SaveAndReturn(round.status, TRUE)
       \/ /\ found
          /\ SaveAndReturn(FinalPhase(round.status), TRUE)
    /\ UNCHANGED <<vc, cell, work, secret, child, seen, queue, drained>>

\* updateVirtualClusterStatus: the whole status is overwritten, provided the
\* cached object is the current one; conflicts are retried a few times only.
\* A change is an event that enqueues the key again.
SaveStatus ==
    LET v == round.v IN
    /\ At("save")
    /\ \/ /\ knownVC[v] = vc[v] /\ Exists(vc[v])
          /\ vc' = [vc EXCEPT ![v].status = round.status]
          /\ Return(round.requeue \/ vc' # vc)
       \/ /\ knownVC[v] # vc[v] \/ ~Exists(vc[v])
          /\ ReturnError
          /\ UNCHANGED vc
    /\ UNCHANGED <<cell, work, secret, child, seen, drained>>

-----------------------------------------------------------------------------
(* reconcileDeletion.                                                      *)

ReconcileDeletion(v) ==
    /\ Take(v)
    /\ knownVC[v].meta = "deleting"
    /\ knownVC[v].fin
    /\ Enter(v, "secret")
    /\ queue' = queue \ {v}
    /\ UNCHANGED <<vc, cell, work, secret, child, seen, drained>>

\* Mutant: the Secret is left to the garbage collector.
KeepSecret ==
    /\ At("secret")
    /\ Goto("lookup", round.status)
    /\ UNCHANGED <<vc, cell, work, secret, child, seen, queue, drained>>

\* Mutant: not finding the Secret is an error.
DeleteSecretStrict ==
    /\ At("secret")
    /\ IF knownSecret[round.v] = "own"
       THEN /\ secret' = [secret EXCEPT ![round.v] = "none"]
            /\ Goto("lookup", round.status)
            /\ UNCHANGED queue
       ELSE ReturnError /\ UNCHANGED secret
    /\ UNCHANGED <<vc, cell, work, child, seen, drained>>

\* deleteOwnedSecret: a Secret with another UID label is an error.
DeleteSecret ==
    LET v == round.v IN
    /\ At("secret")
    /\ \/ /\ knownSecret[v] = "none"
          /\ Goto("lookup", round.status)
          /\ UNCHANGED <<secret, queue>>
       \/ /\ knownSecret[v] = "own"
          /\ secret' = [secret EXCEPT ![v] = "none"]
          /\ Goto("lookup", round.status)
          /\ UNCHANGED queue
       \/ /\ knownSecret[v] = "foreign"
          /\ ReturnError
          /\ UNCHANGED secret
    /\ UNCHANGED <<vc, cell, work, child, seen, drained>>

Deleting(status, reason) ==
    [status EXCEPT !.phase = "Deleting", !.cleanup = reason]

\* The namespace of the Works: the snapshot's, else the Cell's current one.
CleanupNamespace ==
    IF round.status.resolved # None THEN round.status.resolved
                                    ELSE knownCell.ref

\* Mutant: with the instance Work gone the finalizer is removed at once.
LookupInstanceOnly ==
    /\ At("lookup") /\ FindsCell(round.v)
    /\ round' = [round EXCEPT
         !.mc = CleanupNamespace,
         !.pc = IF knownWork[round.v]["instance"][CleanupNamespace].owner # "none"
                THEN "delInstance" ELSE "removeFinalizer"]
    /\ UNCHANGED <<vc, cell, work, secret, child, seen, queue, drained>>

\* Mutant: the Works are deleted in the order of their creation.
LookupFoundationFirst ==
    LET m == CleanupNamespace
        Has(k) == knownWork[round.v][k][m].owner # "none"
    IN
    /\ At("lookup") /\ FindsCell(round.v)
    /\ round' = [round EXCEPT
         !.mc = m,
         !.pc = IF Has("foundation") THEN "delFoundation"
                ELSE IF Has("instance") THEN "delInstance"
                ELSE "removeFinalizer"]
    /\ UNCHANGED <<vc, cell, work, secret, child, seen, queue, drained>>

\* BuildDeletionPlan: a Work with another UID label blocks everything.
DeletionBlocked(owners) == "foreign" \in owners

\* The Works are looked up and the next object to delete is chosen.
Lookup ==
    LET m == CleanupNamespace
        instance == knownWork[round.v]["instance"][m].owner
        foundation == knownWork[round.v]["foundation"][m].owner
        blocked == DeletionBlocked({instance, foundation})
        noCell == round.status.resolved = None
                  /\ (~FindsCell(round.v) \/ "apiError" \in Faults)
        step == IF instance # "none" THEN "delInstance"
                ELSE IF foundation # "none" THEN "delFoundation"
                ELSE "removeFinalizer"
    IN
    /\ At("lookup")
    /\ \/ /\ noCell
          /\ SaveAndReturn(Deleting(round.status, "CellUnavailable"), TRUE)
       \/ /\ round.status.resolved # None \/ FindsCell(round.v)
          /\ \/ /\ blocked
                /\ SaveAndReturn(Deleting(round.status, "ForeignObject"), TRUE)
             \/ /\ ~blocked
                /\ round' = [round EXCEPT !.pc = step, !.mc = m]
    /\ UNCHANGED <<vc, cell, work, secret, child, seen, queue, drained>>

\* Delete by name, without a UID precondition; not finding it is fine.
DeleteWork(k) ==
    LET v == round.v
        m == round.mc
    IN
    /\ At(IF k = "instance" THEN "delInstance" ELSE "delFoundation")
    /\ work' = IF work[v][k][m].owner = "none" THEN work
               ELSE [work EXCEPT ![v][k][m].deleting = TRUE]
    /\ SaveAndReturn(Deleting(round.status, "DeletionRequested"), TRUE)
    /\ UNCHANGED <<vc, cell, secret, child, seen, queue, drained>>

\* Update without the finalizer, on the object the round read.
RemoveFinalizer ==
    LET v == round.v IN
    /\ At("removeFinalizer")
    /\ \/ /\ round.read = vc[v]
          /\ vc' = [vc EXCEPT ![v] = [NoVC EXCEPT !.meta = "gone"]]
          /\ Return(FALSE)
       \/ /\ round.read # vc[v]
          /\ ReturnError
          /\ UNCHANGED vc
    /\ UNCHANGED <<cell, work, secret, child, seen, drained>>

-----------------------------------------------------------------------------

\* A request of the round fails: Reconcile returns the error at once.  (Reading
\* the instance Work back is the one request whose failure is swallowed; the
\* mirror is read from the host and the child, see Mirror.)
RequestFails ==
    /\ "apiError" \in Faults
    /\ ~At("idle") /\ ~At("mirror") /\ ~At("refresh")
    /\ ReturnError
    /\ UNCHANGED <<vc, cell, work, secret, child, seen, drained>>

Worker ==
    \/ \E v \in VC : NothingToDo(v) \/ Reconcile(v) \/ ReconcileDeletion(v)
    \/ Resolve \/ WriteFoundation \/ ReadWorks \/ Publish \/ Mirror
    \/ WriteInstance \/ Refresh \/ SaveStatus
    \/ DeleteSecret \/ Lookup \/ RemoveFinalizer
    \/ \E k \in Kinds : DeleteWork(k)
=============================================================================
