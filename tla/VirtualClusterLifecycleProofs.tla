-------------------- MODULE VirtualClusterLifecycleProofs --------------------
(***************************************************************************)
(* Proofs about VirtualClusterLifecycle, for every set of VirtualClusters, *)
(* ManagedClusters and faults.  First type correctness and, as lemmas, what *)
(* each action does to the parts of the state the properties are about and *)
(* which actions can change what; then the safety invariants and the action *)
(* properties, each of which names the faults it excludes and admits all   *)
(* the others; last that the lifecycle implements ProvisioningContract.    *)
(***************************************************************************)
EXTENDS VirtualClusterLifecycle, TLAPS

\* The steps of a live round after the namespace of the Works is known, and
\* those of a deletion round.
Writing == {"foundation", "works", "publish", "mirror", "instance", "refresh"}
Removing == {"delInstance", "delFoundation", "removeFinalizer"}

\* TypeInv: the type invariant, made inductive: a round under way has a
\* VirtualCluster, and a namespace from the step on that uses it.
TypeInv ==
    /\ TypeOK
    /\ round.pc # "idle" => round.v \in VC
    /\ round.pc \in Writing \cup Removing => round.mc \in MC

-----------------------------------------------------------------------------
(* The records.                                                            *)

\* The values the specification starts from have their types.
LEMMA BlankTypes ==
    /\ EmptyStatus \in Statuses
    /\ NoVC \in VirtualClusters
    /\ [NoVC EXCEPT !.meta = "gone"] \in VirtualClusters
    /\ NoWork \in Works
    /\ ForeignWork \in Works
    /\ Idle \in Rounds
    /\ Idle.pc = "idle"
  <1>1. EmptyStatus \in Statuses
    BY DEF EmptyStatus, Statuses, Phases, Cleanups
  <1>2. NoVC \in VirtualClusters /\ [NoVC EXCEPT !.meta = "gone"] \in VirtualClusters
    BY <1>1, Zenon DEF NoVC, VirtualClusters
  <1>3. NoWork \in Works /\ ForeignWork \in Works
    BY ZenonT(30) DEF NoWork, ForeignWork, Works
  <1>4. Idle \in Rounds /\ Idle.pc = "idle"
    BY <1>1, <1>2 DEF Idle, Rounds, Steps
  <1> QED
    BY <1>1, <1>2, <1>3, <1>4

\* What the controller writes into a status keeps its type and its snapshot.
LEMMA StatusUpdate ==
    ASSUME NEW status \in Statuses
    PROVE  /\ \A phase \in Phases :
                 /\ WithPhase(status, phase) \in Statuses
                 /\ WithPhase(status, phase).resolved = status.resolved
           /\ FinalPhase(status) \in Statuses
           /\ FinalPhase(status).resolved = status.resolved
           /\ ChildLost(status) \in Statuses
           /\ ChildLost(status).resolved = status.resolved
           /\ [status EXCEPT !.child = TRUE] \in Statuses
           /\ [status EXCEPT !.child = TRUE].resolved = status.resolved
           /\ \A reason \in Cleanups :
                 /\ Deleting(status, reason) \in Statuses
                 /\ Deleting(status, reason).resolved = status.resolved
           /\ \A m \in MC :
                 /\ [status EXCEPT !.resolved = m] \in Statuses
                 /\ [status EXCEPT !.resolved = m].resolved = m
           /\ status.resolved \in MC \cup {None}
    BY ZenonT(60) DEF Statuses, Phases, WithPhase, FinalPhase, ChildLost, Deleting

\* The writes to a VirtualCluster.
LEMMA ObjectUpdate ==
    ASSUME NEW object \in VirtualClusters
    PROVE  /\ [object EXCEPT !.fin = TRUE] \in VirtualClusters
           /\ [object EXCEPT !.fin = TRUE].meta = object.meta
           /\ [object EXCEPT !.fin = TRUE].fin
           /\ [object EXCEPT !.fin = TRUE].status = object.status
           /\ object.status \in Statuses
    BY ZenonT(60) DEF VirtualClusters

\* Creation and deletion of a VirtualCluster change its metadata alone.
LEMMA ObjectMetaUpdate ==
    ASSUME NEW object \in VirtualClusters, NEW meta \in {"live", "deleting"}
    PROVE  /\ [object EXCEPT !.meta = meta] \in VirtualClusters
           /\ [object EXCEPT !.meta = meta].meta = meta
           /\ [object EXCEPT !.meta = meta].fin = object.fin
           /\ [object EXCEPT !.meta = meta].status = object.status
    BY DEF VirtualClusters

\* A status update changes the status alone.
LEMMA ObjectStatusUpdate ==
    ASSUME NEW object \in VirtualClusters, NEW status \in Statuses
    PROVE  /\ [object EXCEPT !.status = status] \in VirtualClusters
           /\ [object EXCEPT !.status = status].meta = object.meta
           /\ [object EXCEPT !.status = status].fin = object.fin
           /\ [object EXCEPT !.status = status].status = status
    BY DEF VirtualClusters

\* An object that has gone has no finalizer and no snapshot.
LEMMA GoneObject ==
    LET gone == [NoVC EXCEPT !.meta = "gone"] IN
    /\ gone.meta = "gone" /\ ~gone.fin /\ gone.status.resolved = None
    /\ NoVC.meta = "absent" /\ ~NoVC.fin /\ NoVC.status.resolved = None
    BY Zenon DEF NoVC, EmptyStatus

\* The writes to a Work: the controller's Apply, a Delete, the agent's reports.
LEMMA WorkUpdate ==
    ASSUME NEW w \in Works
    PROVE  /\ \A mirror \in BOOLEAN :
                 LET applied == [w EXCEPT !.owner = "own", !.mirror = mirror] IN
                 /\ applied \in Works
                 /\ applied.owner = "own"
                 /\ applied.deleting = w.deleting
           /\ LET deleted == [w EXCEPT !.deleting = TRUE] IN
                 /\ deleted \in Works
                 /\ deleted.owner = w.owner
           /\ \A x \in {[w EXCEPT !.applied = TRUE, !.failed = FALSE],
                        [w EXCEPT !.applied = FALSE],
                        [w EXCEPT !.failed = TRUE]} :
                 /\ x \in Works
                 /\ x.owner = w.owner
                 /\ x.deleting = w.deleting
    BY ZenonT(60) DEF Works

\* The caches hold what the API server holds, or held.
LEMMA KnownType ==
    TypeOK => /\ knownVC \in [VC -> VirtualClusters]
              /\ knownCell \in Cells
              /\ knownWork \in WorkTable
              /\ knownSecret \in [VC -> Secrets]
    BY DEF TypeOK, knownVC, knownCell, knownWork, knownSecret, Cached

-----------------------------------------------------------------------------
(* How a round moves.                                                      *)

\* The round returns by saving status.
Saves(status) == SaveAndReturn(status, TRUE) \/ SaveAndReturn(status, FALSE)

\* A round that saves keeps its VirtualCluster.
LEMMA SaveStep ==
    ASSUME TypeOK, NEW status \in Statuses, Saves(status)
    PROVE  /\ round' \in Rounds
           /\ round'.pc = "save"
           /\ round'.v = round.v
           /\ round'.status = status
  <1>1. round \in Rounds
    BY DEF TypeOK
  <1> QED
    BY <1>1, ZenonT(180) DEF Saves, SaveAndReturn, Rounds, Steps

\* A round that goes on keeps its VirtualCluster and its namespace.
LEMMA GotoStep ==
    ASSUME TypeOK, NEW status \in Statuses, NEW pc \in Steps, Goto(pc, status)
    PROVE  /\ round' \in Rounds
           /\ round'.pc = pc
           /\ round'.v = round.v
           /\ round'.mc = round.mc
           /\ round'.status = status
  <1>1. round \in Rounds
    BY DEF TypeOK
  <1> QED
    BY <1>1, Zenon DEF Goto, Rounds

\* A round that returns leaves the worker idle.
LEMMA ReturnStep ==
    ASSUME TypeInv, round.pc # "idle", NEW requeue \in BOOLEAN, Return(requeue)
    PROVE  round' = Idle /\ round' \in Rounds /\ round'.pc = "idle" /\ queue' \subseteq VC
    BY BlankTypes DEF TypeInv, TypeOK, Return

\* A round starts from the VirtualCluster the cache holds.
LEMMA EnterStep ==
    ASSUME TypeOK, NEW v \in VC, NEW pc \in {"resolve", "secret"}, Enter(v, pc)
    PROVE  /\ round' \in Rounds
           /\ round'.pc = pc
           /\ round'.v = v
           /\ round'.status = knownVC[v].status
  <1>1. knownVC[v] \in VirtualClusters
    BY KnownType
  <1>2. knownVC[v].status \in Statuses
    BY <1>1, ObjectUpdate, Zenon
  <1> QED
    BY <1>1, <1>2, BlankTypes, ZenonT(60) DEF Enter, Idle, Rounds, Steps

-----------------------------------------------------------------------------
(* What the actions do.                                                    *)

\* The initial states have their types.
LEMMA TypeInit == Init => TypeInv
  <1> SUFFICES ASSUME Init PROVE TypeInv
    OBVIOUS
  <1>1. vc \in [VC -> VirtualClusters] /\ round \in Rounds /\ round.pc = "idle"
    BY BlankTypes DEF Init
  <1>2. cell \in Cells
    BY DEF Init, Cells, Verdicts
  <1>3. work \in WorkTable
    BY BlankTypes DEF Init, WorkTable
  <1>4. secret \in [VC -> Secrets]
    BY DEF Init, Secrets
  <1> QED
    BY <1>1, <1>2, <1>3, <1>4, Zenon DEF Init, TypeOK, TypeInv, Writing, Removing

\* A write to one VirtualCluster leaves the others alone.
LEMMA VCWrite ==
    ASSUME TypeOK, NEW v \in VC, NEW object \in VirtualClusters,
           vc' = [vc EXCEPT ![v] = object]
    PROVE  /\ vc' \in [VC -> VirtualClusters]
           /\ \A u \in VC : vc'[u] = IF u = v THEN object ELSE vc[u]
    BY DEF TypeOK

\* One Work is written.
WritesWork(v, k, m, w) == work' = [work EXCEPT ![v][k][m] = w]

\* The Works other than one stay as they are.
OthersKept(v, k, m) ==
    \A u \in VC, l \in Kinds, n \in MC :
        ~(u = v /\ l = k /\ n = m) => work'[u][l][n] = work[u][l][n]

\* A write to one Work leaves the others alone.
LEMMA WorkWrite ==
    ASSUME TypeOK, NEW v \in VC, NEW k \in Kinds, NEW m \in MC, NEW w \in Works,
           WritesWork(v, k, m, w)
    PROVE  work' \in WorkTable /\ work'[v][k][m] = w /\ OthersKept(v, k, m)
  <1>1. work \in WorkTable
    BY DEF TypeOK
  <1>2. work' \in WorkTable
    BY <1>1 DEF WorkTable, WritesWork
  <1>3. work'[v][k][m] = w
    BY <1>1 DEF WorkTable, WritesWork
  <1>4. OthersKept(v, k, m)
    BY <1>1 DEF WorkTable, WritesWork, OthersKept
  <1> QED
    BY <1>2, <1>3, <1>4

\* Reconcile starts a live round, under the finalizer.
LEMMA ReconcileEffect ==
    ASSUME TypeInv, NEW v \in VC, Reconcile(v)
    PROVE  /\ TypeInv'
           /\ UNCHANGED <<cell, work, secret, seen>>
           /\ round.pc = "idle"
           /\ knownVC[v].meta = "live"
           /\ round'.pc = "resolve" /\ round'.v = v
           /\ round'.status = knownVC[v].status
           /\ \/ vc' = vc /\ knownVC[v].fin
              \/ /\ knownVC[v] = vc[v]
                 /\ \A u \in VC \ {v} : vc'[u] = vc[u]
                 /\ vc'[v].meta = vc[v].meta
                 /\ vc'[v].fin
                 /\ vc'[v].status = vc[v].status
  <1> USE DEF TypeInv
  <1>1. /\ round' \in Rounds /\ round'.pc = "resolve" /\ round'.v = v
        /\ round'.status = knownVC[v].status
    BY EnterStep DEF Reconcile
  <1>2. vc[v] \in VirtualClusters
    BY DEF TypeOK
  <1>3. CASE vc' = vc /\ knownVC[v].fin
    BY <1>1, <1>3 DEF Reconcile, Take, At, TypeOK, Writing, Removing
  <1>4. CASE knownVC[v] = vc[v] /\ vc' = [vc EXCEPT ![v] = [vc[v] EXCEPT !.fin = TRUE]]
    <2> DEFINE object == [vc[v] EXCEPT !.fin = TRUE]
    <2>1. /\ object \in VirtualClusters /\ object.meta = vc[v].meta
          /\ object.fin /\ object.status = vc[v].status
      BY <1>2, ObjectUpdate
    <2> HIDE DEF object
    <2>2. /\ vc' \in [VC -> VirtualClusters]
          /\ \A u \in VC : vc'[u] = IF u = v THEN object ELSE vc[u]
      BY <1>4, <2>1, VCWrite, Zenon DEF object
    <2> QED
      BY <1>1, <1>4, <2>1, <2>2 DEF Reconcile, Take, At, TypeOK, Writing, Removing
  <1> QED
    BY <1>3, <1>4 DEF Reconcile

\* ReconcileDeletion starts a deletion round.
LEMMA ReconcileDeletionEffect ==
    ASSUME TypeInv, NEW v \in VC, ReconcileDeletion(v)
    PROVE  /\ TypeInv'
           /\ UNCHANGED <<vc, cell, work, secret, seen>>
           /\ knownVC[v].meta = "deleting"
           /\ round'.pc = "secret" /\ round'.v = v
           /\ round'.status = knownVC[v].status
  <1>1. /\ round' \in Rounds /\ round'.pc = "secret" /\ round'.v = v
        /\ round'.status = knownVC[v].status
    BY EnterStep DEF TypeInv, ReconcileDeletion
  <1> QED
    BY <1>1 DEF TypeInv, TypeOK, ReconcileDeletion, Writing, Removing

\* Resolve ends the round, saves, or goes on to write in the Cell's namespace,
\* with the snapshot it found or the one it took because there was none.
Resolves ==
    /\ UNCHANGED <<vc, cell, work, secret, seen>>
    /\ round.pc = "resolve"
    /\ round'.pc \in {"idle", "save", "foundation"}
    /\ round'.pc # "idle" =>
          /\ round'.v = round.v
          /\ \/ round'.status.resolved = round.status.resolved
             \/ /\ round'.status.resolved = knownCell.ref
                /\ round.status.resolved \in {None, knownCell.ref}
    /\ round'.pc = "foundation" => round'.mc = knownCell.ref

\* Resolve does what Resolves says.
LEMMA ResolveEffect ==
    ASSUME TypeInv, Resolve
    PROVE  TypeInv' /\ Resolves
  <1> DEFINE status == [round.status EXCEPT !.resolved = knownCell.ref]
             drift == ~sameResolvedProvider(round.status.resolved, knownCell.ref)
  <1>1. round.status \in Statuses /\ knownCell.ref \in MC
    BY KnownType DEF TypeInv, TypeOK, Rounds, Cells
  <1>2. status \in Statuses /\ status.resolved = knownCell.ref
    BY <1>1, StatusUpdate, Zenon
  <1>3. \A phase \in {"Degraded", "Failed"} :
           /\ WithPhase(round.status, phase) \in Statuses
           /\ WithPhase(round.status, phase).resolved = round.status.resolved
           /\ WithPhase(status, phase) \in Statuses
           /\ WithPhase(status, phase).resolved = knownCell.ref
    BY <1>1, <1>2, StatusUpdate, ZenonT(180) DEF Phases
  <1> HIDE DEF status
  <1>4. /\ UNCHANGED <<vc, cell, work, secret, child, seen, drained>>
        /\ round.pc = "resolve"
        /\ \/ ReturnError
           \/ /\ queue' = queue
              /\ \/ Saves(WithPhase(round.status, "Degraded"))
                 \/ Saves(WithPhase(round.status, "Failed"))
                 \/ /\ ~drift
                    /\ \/ Saves(WithPhase(status, "Degraded"))
                       \/ Saves(WithPhase(status, "Failed"))
                       \/ Saves(status)
                 \/ /\ ~drift
                    /\ round' = [round EXCEPT !.pc = "foundation",
                                              !.status = status, !.mc = knownCell.ref]
    BY Zenon DEF Resolve, At, status, Saves
  <1>5. CASE ReturnError
    BY <1>4, <1>5, ReturnStep, Zenon DEF ReturnError, Resolves, TypeInv, TypeOK, Writing, Removing
  <1>6. ASSUME queue' = queue, NEW s \in Statuses, Saves(s),
               \/ s.resolved = round.status.resolved
               \/ s.resolved = knownCell.ref /\ ~drift
        PROVE  TypeInv' /\ Resolves
    <2>1. round' \in Rounds /\ round'.pc = "save" /\ round'.v = round.v /\ round'.status = s
      BY <1>6, SaveStep DEF TypeInv
    <2> QED
      BY <1>4, <1>6, <2>1 DEF Resolves, TypeInv, TypeOK, Writing, Removing, sameResolvedProvider
  <1>7. CASE /\ queue' = queue /\ ~drift
             /\ round' = [round EXCEPT !.pc = "foundation",
                                       !.status = status, !.mc = knownCell.ref]
    <2>1. /\ round' \in Rounds /\ round'.pc = "foundation" /\ round'.v = round.v
          /\ round'.mc = knownCell.ref /\ round'.status = status
      <3>1. round \in Rounds
        BY DEF TypeInv, TypeOK
      <3> QED
        BY <1>1, <1>2, <1>7, <3>1, Zenon DEF Rounds, Steps
    <2> QED
      BY <1>1, <1>2, <1>4, <1>7, <2>1
         DEF Resolves, TypeInv, TypeOK, Writing, Removing, sameResolvedProvider
  <1> QED
    BY <1>2, <1>3, <1>4, <1>5, <1>6, <1>7, <1>1

\* The round ends, or goes on at one of the steps to for the same
\* VirtualCluster, with the same snapshot and in the same namespace.
Moves(to) ==
    /\ round'.pc \in to \cup {"idle"}
    /\ round'.pc # "idle" =>
          round'.v = round.v /\ round'.status.resolved = round.status.resolved
    /\ round'.pc \in Writing \cup Removing => round'.mc = round.mc

\* A round that saves moves to "save".
LEMMA MovesToSave ==
    ASSUME TypeInv, NEW s \in Statuses, s.resolved = round.status.resolved, Saves(s)
    PROVE  round' \in Rounds /\ Moves({"save"})
  <1>1. round' \in Rounds /\ round'.pc = "save" /\ round'.v = round.v /\ round'.status = s
    BY SaveStep DEF TypeInv
  <1> QED
    BY <1>1 DEF Moves, Writing, Removing

\* A round that goes on moves to the given step.
LEMMA MovesOn ==
    ASSUME TypeInv, NEW pc \in Steps, NEW s \in Statuses,
           s.resolved = round.status.resolved, Goto(pc, s)
    PROVE  round' \in Rounds /\ Moves({pc})
  <1>1. /\ round' \in Rounds /\ round'.pc = pc /\ round'.v = round.v
        /\ round'.mc = round.mc /\ round'.status = s
    BY GotoStep DEF TypeInv
  <1> QED
    BY <1>1 DEF Moves

\* A round that returns moves to no step.
LEMMA MovesToEnd ==
    ASSUME TypeInv, round.pc # "idle", NEW requeue \in BOOLEAN, Return(requeue)
    PROVE  round' \in Rounds /\ queue' \subseteq VC /\ Moves({})
  <1>1. round' = Idle /\ round' \in Rounds /\ round'.pc = "idle" /\ queue' \subseteq VC
    BY ReturnStep
  <1> QED
    BY <1>1 DEF Moves, Writing, Removing

\* The status a round carries has its type.
LEMMA RoundStatus == TypeInv => round \in Rounds /\ round.status \in Statuses
    BY DEF TypeInv, TypeOK, Rounds

\* ReadWorks moves the round and writes nothing.
LEMMA ReadWorksEffect ==
    ASSUME TypeInv, ReadWorks
    PROVE  /\ TypeInv'
           /\ UNCHANGED <<vc, cell, work, secret, seen>>
           /\ round.pc = "works"
           /\ Moves({"save", "instance", "publish"})
  <1> DEFINE status == round.status
             child1 == [status EXCEPT !.child = TRUE]
  <1>1. status \in Statuses
    BY RoundStatus
  <1>2. \A s \in {status, WithPhase(status, "Degraded"), WithPhase(status, "Provisioning"),
                  FinalPhase(status), ChildLost(status), child1} :
           s \in Statuses /\ s.resolved = status.resolved
    BY <1>1, StatusUpdate, ZenonT(180) DEF Phases
  <1> HIDE DEF child1
  <1>3. /\ UNCHANGED <<vc, cell, work, secret, child, seen, queue, drained>>
        /\ round.pc = "works"
        /\ \/ Saves(status) \/ Saves(WithPhase(status, "Degraded"))
           \/ Saves(WithPhase(status, "Provisioning")) \/ Saves(FinalPhase(status))
           \/ Saves(ChildLost(status))
           \/ Goto("instance", status) \/ Goto("publish", child1)
    BY Zenon DEF ReadWorks, At, Saves, child1
  <1>4. round' \in Rounds /\ Moves({"save", "instance", "publish"})
    <2>1. CASE \E s \in Statuses : s.resolved = status.resolved /\ Saves(s)
      BY <2>1, MovesToSave DEF Moves
    <2>2. CASE Goto("instance", status)
      BY <1>2, <2>2, MovesOn DEF Moves, Steps
    <2>3. CASE Goto("publish", child1)
      BY <1>2, <2>3, MovesOn DEF Moves, Steps
    <2> QED
      BY <1>2, <1>3, <2>1, <2>2, <2>3
  <1> QED
    BY <1>3, <1>4 DEF TypeInv, TypeOK, Moves, Writing, Removing

\* Publish writes the Secret and moves the round.
LEMMA PublishEffect ==
    ASSUME TypeInv, Publish
    PROVE  /\ TypeInv'
           /\ UNCHANGED <<vc, cell, work, seen>>
           /\ round.pc = "publish"
           /\ Moves({"mirror"})
  <1>1. /\ UNCHANGED <<vc, cell, work, child, seen, drained>>
        /\ round.pc = "publish"
        /\ \/ /\ secret' = [secret EXCEPT ![round.v] = "own"] /\ queue' = queue
              /\ Goto("mirror", round.status)
           \/ secret' = secret /\ Return(TRUE)
    BY Zenon DEF Publish, At, ReturnError
  <1>2. secret' \in [VC -> Secrets]
    BY <1>1, Zenon DEF TypeInv, TypeOK, Secrets
  <1>3. round' \in Rounds /\ queue' \subseteq VC /\ Moves({"mirror"})
    <2>1. CASE Goto("mirror", round.status) /\ queue' = queue
      BY <2>1, RoundStatus, MovesOn DEF Steps, TypeInv, TypeOK
    <2>2. CASE Return(TRUE)
      BY <1>1, <2>2, MovesToEnd, Zenon DEF Moves
    <2> QED
      BY <1>1, <2>1, <2>2, Zenon
  <1> QED
    BY <1>1, <1>2, <1>3 DEF TypeInv, TypeOK, Moves, Writing, Removing

\* Mirror moves the round and writes nothing.
LEMMA MirrorEffect ==
    ASSUME TypeInv, Mirror
    PROVE  /\ TypeInv'
           /\ UNCHANGED <<vc, cell, work, secret, seen>>
           /\ round.pc = "mirror"
           /\ Moves({"save", "instance"})
  <1>1. /\ UNCHANGED <<vc, cell, work, secret, child, seen, queue, drained>>
        /\ round.pc = "mirror"
        /\ \/ Saves(round.status) \/ Saves(FinalPhase(round.status))
           \/ round' = [round EXCEPT !.pc = "instance", !.mirror = TRUE]
           \/ round' = [round EXCEPT !.pc = "instance", !.mirror = FALSE]
    BY Zenon DEF Mirror, At, Saves
  <1>2. round' \in Rounds /\ Moves({"save", "instance"})
    <2>1. CASE Saves(round.status) \/ Saves(FinalPhase(round.status))
      BY <2>1, RoundStatus, StatusUpdate, MovesToSave, Zenon DEF Moves
    <2>2. CASE \/ round' = [round EXCEPT !.pc = "instance", !.mirror = TRUE]
               \/ round' = [round EXCEPT !.pc = "instance", !.mirror = FALSE]
      BY <2>2, RoundStatus, ZenonT(60) DEF Moves, Rounds, Steps
    <2> QED
      BY <1>1, <2>1, <2>2
  <1> QED
    BY <1>1, <1>2 DEF TypeInv, TypeOK, Moves, Writing, Removing

\* Refresh moves the round and writes nothing.
LEMMA RefreshEffect ==
    ASSUME TypeInv, Refresh
    PROVE  /\ TypeInv'
           /\ UNCHANGED <<vc, cell, work, secret, seen>>
           /\ round.pc = "refresh"
           /\ Moves({"save"})
  <1>1. /\ UNCHANGED <<vc, cell, work, secret, child, seen, queue, drained>>
        /\ round.pc = "refresh"
        /\ Saves(round.status) \/ Saves(FinalPhase(round.status))
    BY Zenon DEF Refresh, At, Saves
  <1>2. round' \in Rounds /\ Moves({"save"})
    BY <1>1, RoundStatus, StatusUpdate, MovesToSave, Zenon
  <1> QED
    BY <1>1, <1>2 DEF TypeInv, TypeOK, Moves, Writing, Removing

\* DeleteSecret writes the Secret and moves the round.
LEMMA DeleteSecretEffect ==
    ASSUME TypeInv, DeleteSecret
    PROVE  /\ TypeInv'
           /\ UNCHANGED <<vc, cell, work, seen>>
           /\ round.pc = "secret"
           /\ Moves({"lookup"})
  <1>1. /\ UNCHANGED <<vc, cell, work, child, seen, drained>>
        /\ round.pc = "secret"
        /\ secret' = secret \/ secret' = [secret EXCEPT ![round.v] = "none"]
        /\ \/ queue' = queue /\ Goto("lookup", round.status)
           \/ Return(TRUE)
    BY Zenon DEF DeleteSecret, At, ReturnError
  <1>2. secret' \in [VC -> Secrets]
    BY <1>1 DEF TypeInv, TypeOK, Secrets
  <1>3. round' \in Rounds /\ queue' \subseteq VC /\ Moves({"lookup"})
    <2>1. CASE Goto("lookup", round.status) /\ queue' = queue
      BY <2>1, RoundStatus, MovesOn DEF Steps, TypeInv, TypeOK
    <2>2. CASE Return(TRUE)
      BY <1>1, <2>2, MovesToEnd, Zenon DEF Moves
    <2> QED
      BY <1>1, <2>1, <2>2, Zenon
  <1> QED
    BY <1>1, <1>2, <1>3 DEF TypeInv, TypeOK, Moves, Writing, Removing

\* A failing request ends the round and writes nothing.
LEMMA RequestFailsEffect ==
    ASSUME TypeInv, RequestFails
    PROVE  /\ TypeInv'
           /\ UNCHANGED <<vc, cell, work, secret, seen>>
           /\ round'.pc = "idle"
  <1>1. round' \in Rounds /\ queue' \subseteq VC /\ Moves({})
    BY MovesToEnd, Zenon DEF RequestFails, At, ReturnError
  <1> QED
    BY <1>1 DEF RequestFails, TypeInv, TypeOK, Moves, Writing, Removing

\* createOrUpdateWork(k, mirror, pc) ends the round, or makes the Work of kind k
\* in the round's namespace the VirtualCluster's own and goes on at pc.
Puts(k, pc) ==
    LET before == work[round.v][k][round.mc]
        after == work'[round.v][k][round.mc]
    IN
    /\ UNCHANGED <<vc, cell, secret, seen>>
    /\ \/ work' = work /\ Moves({}) /\ round'.pc = "idle"
       \/ /\ Moves({pc}) /\ round'.pc = pc
          /\ after.owner = "own"
          /\ "lagWork" \notin Faults =>
                /\ before.owner \in {"none", "own"}
                /\ after.deleting => before.deleting /\ before.owner = "own"
          /\ OthersKept(round.v, k, round.mc)

\* createOrUpdateWork does what Puts says.
LEMMA PutEffect ==
    ASSUME TypeInv, round.v \in VC, round.mc \in MC, round.pc # "idle",
           NEW k \in Kinds, NEW mirror \in BOOLEAN, NEW pc \in Steps \ {"idle"},
           createOrUpdateWork(k, mirror, pc)
    PROVE  Puts(k, pc) /\ TypeOK'
  <1> DEFINE known == knownWork[round.v][k][round.mc]
             current == work[round.v][k][round.mc]
             new == [NoWork EXCEPT !.owner = "own", !.mirror = mirror]
             next == [current EXCEPT !.owner = "own", !.mirror = mirror]
  <1>1. current \in Works
    BY DEF TypeInv, TypeOK, WorkTable
  <1>2. new \in Works /\ new.owner = "own" /\ ~new.deleting
    BY Zenon DEF NoWork, Works
  <1>3. next \in Works /\ next.owner = "own" /\ next.deleting = current.deleting
    BY <1>1, WorkUpdate, ZenonT(30)
  <1>4. "lagWork" \notin Faults => known = current
    BY DEF knownWork, Cached
  <1> HIDE DEF new, next
  <1>5. /\ UNCHANGED <<vc, cell, secret, child, seen, drained>>
        /\ \/ work' = work /\ Return(TRUE)
           \/ /\ queue' = queue \/ queue' = queue \cup {round.v}
              /\ Goto(pc, round.status)
              /\ \/ /\ known.owner = "none" /\ current.owner = "none"
                    /\ work' = [work EXCEPT ![round.v][k][round.mc] = new]
                 \/ /\ known.owner = "own"
                    /\ work' = [work EXCEPT ![round.v][k][round.mc] = next]
    BY ZenonT(30) DEF createOrUpdateWork, ReturnError, new, next
  <1>6. CASE work' = work /\ Return(TRUE)
    <2>1. round' \in Rounds /\ queue' \subseteq VC /\ Moves({})
      BY <1>6, MovesToEnd, ZenonT(60)
    <2> QED
      BY <1>5, <1>6, <2>1, Zenon DEF Puts, Moves, TypeInv, TypeOK
  <1>7. ASSUME Goto(pc, round.status), queue' = queue \/ queue' = queue \cup {round.v},
               NEW w \in Works, work' = [work EXCEPT ![round.v][k][round.mc] = w],
               w.owner = "own",
               "lagWork" \notin Faults =>
                  /\ current.owner \in {"none", "own"}
                  /\ w.deleting => current.deleting /\ current.owner = "own"
        PROVE  Puts(k, pc) /\ TypeOK'
    <2>1. round' \in Rounds /\ Moves({pc})
      BY <1>7, RoundStatus, MovesOn, ZenonT(60)
    <2>2. round'.pc = pc
      BY <1>7, RoundStatus, GotoStep DEF TypeInv
    <2>3. /\ work' \in WorkTable /\ work'[round.v][k][round.mc] = w
          /\ OthersKept(round.v, k, round.mc)
      <3>1. WritesWork(round.v, k, round.mc, w)
        BY <1>7, ZenonT(60) DEF WritesWork
      <3> QED
        BY <3>1, WorkWrite DEF TypeInv
    <2>4. queue' \subseteq VC
      BY <1>7, ZenonT(60) DEF TypeInv, TypeOK
    <2> HIDE DEF Moves
    <2>5. Puts(k, pc)
      BY <1>5, <1>7, <2>1, <2>2, <2>3, ZenonT(60) DEF Puts
    <2> QED
      BY <1>5, <2>1, <2>3, <2>4, <2>5 DEF TypeInv, TypeOK
  <1> QED
    BY <1>2, <1>3, <1>4, <1>5, <1>6, <1>7, Zenon

\* WriteFoundation puts the foundation Work.
LEMMA WriteFoundationEffect ==
    ASSUME TypeInv, WriteFoundation
    PROVE  TypeInv' /\ round.pc = "foundation" /\ Puts("foundation", "works")
  <1>1. round.v \in VC /\ round.mc \in MC /\ round.pc = "foundation"
    BY DEF TypeInv, WriteFoundation, At, Writing
  <1>2. Puts("foundation", "works") /\ TypeOK'
    BY <1>1, PutEffect, Zenon DEF WriteFoundation, Kinds, Steps
  <1> QED
    BY <1>1, <1>2 DEF TypeInv, Puts, Moves, Writing, Removing

\* WriteInstance puts the instance Work.
LEMMA WriteInstanceEffect ==
    ASSUME TypeInv, WriteInstance
    PROVE  TypeInv' /\ round.pc = "instance" /\ Puts("instance", "refresh")
  <1>1. round.v \in VC /\ round.mc \in MC /\ round.pc = "instance"
    BY DEF TypeInv, WriteInstance, At, Writing
  <1>2. round.mirror \in BOOLEAN
    BY RoundStatus DEF Rounds
  <1>3. Puts("instance", "refresh") /\ TypeOK'
    BY <1>1, <1>2, PutEffect DEF WriteInstance, Kinds, Steps
  <1> QED
    BY <1>1, <1>3 DEF TypeInv, Puts, Moves, Writing, Removing

\* SaveStatus ends the round and overwrites the status, or nothing.
LEMMA SaveStatusEffect ==
    ASSUME TypeInv, SaveStatus
    PROVE  /\ TypeInv'
           /\ UNCHANGED <<cell, work, secret, seen>>
           /\ round.pc = "save" /\ round'.pc = "idle"
           /\ \/ vc' = vc
              \/ /\ Exists(vc[round.v])
                 /\ \A u \in VC \ {round.v} : vc'[u] = vc[u]
                 /\ vc'[round.v].meta = vc[round.v].meta
                 /\ vc'[round.v].fin = vc[round.v].fin
                 /\ vc'[round.v].status = round.status
  <1> DEFINE object == [vc[round.v] EXCEPT !.status = round.status]
  <1>1. round.pc = "save" /\ round.v \in VC
    BY DEF SaveStatus, At, TypeInv
  <1>2. /\ object \in VirtualClusters /\ object.meta = vc[round.v].meta
        /\ object.fin = vc[round.v].fin /\ object.status = round.status
    BY <1>1, RoundStatus, ObjectStatusUpdate DEF TypeInv, TypeOK
  <1> HIDE DEF object
  <1>3. /\ UNCHANGED <<cell, work, secret, child, seen, drained>>
        /\ Return(TRUE) \/ Return(FALSE)
        /\ \/ Exists(vc[round.v]) /\ vc' = [vc EXCEPT ![round.v] = object]
           \/ vc' = vc
    <2>1. round.requeue \in BOOLEAN
      BY RoundStatus DEF Rounds
    <2> QED
      BY <2>1 DEF SaveStatus, ReturnError, Return, object
  <1>4. round' \in Rounds /\ queue' \subseteq VC /\ round'.pc = "idle"
    BY <1>1, <1>3, ReturnStep, ZenonT(60)
  <1>5. CASE vc' = vc
    BY <1>1, <1>3, <1>4, <1>5 DEF TypeInv, TypeOK, Writing, Removing
  <1>6. CASE Exists(vc[round.v]) /\ vc' = [vc EXCEPT ![round.v] = object]
    <2>1. /\ vc' \in [VC -> VirtualClusters]
          /\ \A u \in VC : vc'[u] = IF u = round.v THEN object ELSE vc[u]
      BY <1>1, <1>2, <1>6, VCWrite, Zenon DEF TypeInv
    <2> QED
      BY <1>1, <1>2, <1>3, <1>4, <1>6, <2>1 DEF TypeInv, TypeOK, Writing, Removing
  <1> QED
    BY <1>3, <1>5, <1>6

\* Lookup saves, or picks what to remove in the namespace of the snapshot or
\* the Cell: the instance Work, the foundation Work when that is not there, or
\* the finalizer when neither is; and never with a foreign Work about.
Looks ==
    LET Owner(k) == knownWork[round.v][k][CleanupNamespace].owner IN
    /\ UNCHANGED <<vc, cell, work, secret, seen>>
    /\ round.pc = "lookup"
    /\ round'.pc \in Removing \cup {"save"}
    /\ round'.v = round.v
    /\ round'.status.resolved = round.status.resolved
    /\ round'.pc \in Removing =>
          /\ round'.mc = CleanupNamespace
          /\ Owner("instance") # "foreign" /\ Owner("foundation") # "foreign"
    /\ round'.pc \in {"delFoundation", "removeFinalizer"} => Owner("instance") = "none"
    /\ round'.pc = "removeFinalizer" => Owner("foundation") = "none"

\* Lookup does what Looks says.
LEMMA LookupEffect ==
    ASSUME TypeInv, Lookup
    PROVE  TypeInv' /\ Looks
  <1> DEFINE m == CleanupNamespace
             instance == knownWork[round.v]["instance"][m].owner
             foundation == knownWork[round.v]["foundation"][m].owner
             step == IF instance # "none" THEN "delInstance"
                     ELSE IF foundation # "none" THEN "delFoundation"
                     ELSE "removeFinalizer"
  <1>1. round.status \in Statuses /\ m \in MC
    <2>1. knownCell.ref \in MC
      BY KnownType DEF TypeInv, Cells
    <2> QED
      BY <2>1, RoundStatus, StatusUpdate, ZenonT(60) DEF CleanupNamespace
  <1>2. \A reason \in {"CellUnavailable", "ForeignObject"} :
           /\ Deleting(round.status, reason) \in Statuses
           /\ Deleting(round.status, reason).resolved = round.status.resolved
    BY <1>1, StatusUpdate, Zenon DEF Cleanups
  <1>3. /\ UNCHANGED <<vc, cell, work, secret, child, seen, queue, drained>>
        /\ round.pc = "lookup"
        /\ \/ Saves(Deleting(round.status, "CellUnavailable"))
           \/ Saves(Deleting(round.status, "ForeignObject"))
           \/ /\ instance # "foreign" /\ foundation # "foreign"
              /\ round' = [round EXCEPT !.pc = step, !.mc = m]
    BY Zenon DEF Lookup, At, Saves, DeletionBlocked
  <1>4. ASSUME NEW s \in Statuses, s.resolved = round.status.resolved, Saves(s)
        PROVE  TypeInv' /\ Looks
    <2>1. round' \in Rounds /\ round'.pc = "save" /\ round'.v = round.v /\ round'.status = s
      BY <1>4, SaveStep DEF TypeInv
    <2> QED
      BY <1>3, <1>4, <2>1 DEF Looks, TypeInv, TypeOK, Writing, Removing
  <1>5. CASE /\ instance # "foreign" /\ foundation # "foreign"
             /\ round' = [round EXCEPT !.pc = step, !.mc = m]
    <2>1. step \in Removing /\ step \in Steps
      BY DEF Removing, Steps
    <2>2. /\ step \in {"delFoundation", "removeFinalizer"} => instance = "none"
          /\ step = "removeFinalizer" => foundation = "none"
      OBVIOUS
    <2> HIDE DEF step
    <2>3. /\ round' \in Rounds /\ round'.pc = step /\ round'.v = round.v
          /\ round'.mc = m /\ round'.status = round.status
      BY <1>1, <1>5, <2>1, RoundStatus, ZenonT(60) DEF Rounds
    <2>4. Looks
      BY <1>3, <1>5, <2>1, <2>2, <2>3 DEF Looks
    <2> HIDE DEF m
    <2> QED
      BY <1>1, <1>3, <2>1, <2>3, <2>4 DEF TypeInv, TypeOK, Removing
  <1> QED
    BY <1>1, <1>2, <1>3, <1>4, <1>5

\* DeleteWork(k) marks the Work, if there is one, and saves.
Marks(k) ==
    LET before == work[round.v][k][round.mc]
        after == work'[round.v][k][round.mc]
    IN
    /\ UNCHANGED <<vc, cell, secret, seen>>
    /\ Moves({"save"})
    /\ after.owner = before.owner
    /\ OthersKept(round.v, k, round.mc)

\* DeleteWork does what Marks says.
LEMMA DeleteWorkEffect ==
    ASSUME TypeInv, NEW k \in Kinds, DeleteWork(k)
    PROVE  /\ TypeInv'
           /\ round.pc = IF k = "instance" THEN "delInstance" ELSE "delFoundation"
           /\ Marks(k)
  <1> DEFINE current == work[round.v][k][round.mc]
             next == [current EXCEPT !.deleting = TRUE]
  <1>1. /\ round.pc = IF k = "instance" THEN "delInstance" ELSE "delFoundation"
        /\ round.v \in VC /\ round.mc \in MC
    BY DEF DeleteWork, At, TypeInv, Removing
  <1>2. current \in Works
    BY <1>1 DEF TypeInv, TypeOK, WorkTable
  <1>3. next \in Works /\ next.owner = current.owner
    BY <1>2, WorkUpdate, ZenonT(60)
  <1> HIDE DEF next
  <1>4. /\ UNCHANGED <<vc, cell, secret, child, seen, queue, drained>>
        /\ Saves(Deleting(round.status, "DeletionRequested"))
        /\ work' = work \/ WritesWork(round.v, k, round.mc, next)
    BY Zenon DEF DeleteWork, Saves, WritesWork, next
  <1>5. round' \in Rounds /\ Moves({"save"})
    <2>1. /\ Deleting(round.status, "DeletionRequested") \in Statuses
          /\ Deleting(round.status, "DeletionRequested").resolved = round.status.resolved
      BY RoundStatus, StatusUpdate, Zenon DEF Cleanups
    <2> QED
      BY <1>4, <2>1, MovesToSave
  <1>6. work' \in WorkTable /\ Marks(k)
    <2>1. CASE work' = work
      BY <1>4, <1>5, <2>1 DEF Marks, OthersKept, TypeInv, TypeOK
    <2>2. CASE WritesWork(round.v, k, round.mc, next)
      <3>1. TypeOK
        BY DEF TypeInv
      <3>2. /\ work' \in WorkTable /\ work'[round.v][k][round.mc] = next
            /\ OthersKept(round.v, k, round.mc)
        BY <1>1, <1>3, <2>2, <3>1, WorkWrite, ZenonT(60)
      <3> QED
        BY <1>3, <1>4, <1>5, <3>2 DEF Marks
    <2> QED
      BY <1>4, <2>1, <2>2
  <1> QED
    BY <1>1, <1>4, <1>5, <1>6 DEF TypeInv, TypeOK, Moves, Writing, Removing

\* v is gone, and nothing else has changed in vc.
Vanishes(v) ==
    /\ vc'[v].meta = "gone" /\ ~vc'[v].fin /\ vc'[v].status.resolved = None
    /\ \A u \in VC \ {v} : vc'[u] = vc[u]

\* An object without finalizers vanishes when it is deleted.
LEMMA VanishEffect ==
    ASSUME TypeOK, NEW v \in VC, vc' = [vc EXCEPT ![v] = [NoVC EXCEPT !.meta = "gone"]]
    PROVE  vc' \in [VC -> VirtualClusters] /\ Vanishes(v)
  <1> DEFINE gone == [NoVC EXCEPT !.meta = "gone"]
  <1>1. /\ gone \in VirtualClusters
        /\ gone.meta = "gone" /\ ~gone.fin /\ gone.status.resolved = None
    BY BlankTypes, GoneObject
  <1> HIDE DEF gone
  <1>2. /\ vc' \in [VC -> VirtualClusters]
        /\ \A u \in VC : vc'[u] = IF u = v THEN gone ELSE vc[u]
    BY <1>1, VCWrite, Zenon DEF gone
  <1> QED
    BY <1>1, <1>2, Zenon DEF Vanishes

\* RemoveFinalizer ends the round; its VirtualCluster vanishes, or nothing
\* changes.
LEMMA RemoveFinalizerEffect ==
    ASSUME TypeInv, RemoveFinalizer
    PROVE  /\ TypeInv'
           /\ UNCHANGED <<cell, work, secret, seen>>
           /\ round.pc = "removeFinalizer" /\ round'.pc = "idle"
           /\ vc' = vc \/ Vanishes(round.v)
  <1>1. /\ UNCHANGED <<cell, work, secret, child, seen, drained>>
        /\ round.pc = "removeFinalizer" /\ round.v \in VC
        /\ Return(TRUE) \/ Return(FALSE)
        /\ vc' = vc \/ vc' = [vc EXCEPT ![round.v] = [NoVC EXCEPT !.meta = "gone"]]
    BY Zenon DEF RemoveFinalizer, At, ReturnError, TypeInv
  <1>2. round' \in Rounds /\ queue' \subseteq VC /\ round'.pc = "idle"
    BY <1>1, ReturnStep, Zenon
  <1>3. vc' \in [VC -> VirtualClusters] /\ (vc' = vc \/ Vanishes(round.v))
    BY <1>1, VanishEffect DEF TypeInv, TypeOK
  <1> QED
    BY <1>1, <1>2, <1>3 DEF TypeInv, TypeOK, Writing, Removing

\* A cache stays as it is or becomes current.
CachesFollow ==
    /\ knownVC' = knownVC \/ knownVC' = vc'
    /\ knownCell' = knownCell \/ knownCell' = cell'

\* A step that leaves the caches alone leaves them as they were, or, where
\* they cannot lag, current.
LEMMA CachesKept == seen' = seen => CachesFollow
    BY DEF CachesFollow, knownVC, knownCell, Cached

\* Steps outside the round that change no VirtualCluster and no Work.
Quiet ==
    /\ UNCHANGED <<vc, work, round>>
    /\ cell'.ref = cell.ref
    /\ CachesFollow

\* Watches and resync are quiet.
LEMMA SyncEffect ==
    ASSUME TypeInv, Sync \/ Resync
    PROVE  TypeInv' /\ Quiet
  <1> USE DEF TypeInv, TypeOK
  <1>1. CASE SyncVC
    BY <1>1 DEF SyncVC, Quiet, CachesFollow, knownVC, knownCell, Cached
  <1>2. CASE SyncWork
    BY <1>2 DEF SyncWork, Quiet, CachesFollow, knownVC, knownCell, Cached
  <1>3. CASE SyncCell
    BY <1>3 DEF SyncCell, Quiet, CachesFollow, knownVC, knownCell, Cached
  <1>4. CASE SyncSecret
    BY <1>4 DEF SyncSecret, Quiet, CachesFollow, knownVC, knownCell, Cached
  <1>5. CASE Resync
    BY <1>5, CachesKept DEF Resync, Quiet
  <1> QED
    BY <1>1, <1>2, <1>3, <1>4, <1>5 DEF Sync

\* The Cell controller, and the deletion of the Cell, are quiet.
LEMMA CellEffect ==
    ASSUME TypeInv,
           CellDeletion \/ DeleteCell \/ \E verdict \in Verdicts : CellVerdict(verdict)
    PROVE  TypeInv' /\ Quiet
  <1>1. cell \in Cells
    BY DEF TypeInv, TypeOK
  <1>2. /\ UNCHANGED <<vc, work, secret, child, seen, queue, round>>
        /\ drained' \in BOOLEAN
        /\ \/ cell' = cell
           \/ cell' = [cell EXCEPT !.meta = "deleting"]
           \/ cell' = [cell EXCEPT !.meta = "absent"]
           \/ \E verdict \in Verdicts : cell' = [cell EXCEPT !.verdict = verdict]
    BY Zenon DEF CellDeletion, HoldCell, DrainCell, ReleaseCell, DeleteCell, CellVerdict,
           Verdicts, TypeInv, TypeOK
  <1>3. cell' \in Cells /\ cell'.ref = cell.ref
    BY <1>1, <1>2 DEF Cells
  <1> QED
    BY <1>2, <1>3, CachesKept DEF Quiet, TypeInv, TypeOK

\* So are a round with nothing to do, the garbage collector and K3k.
LEMMA BackgroundEffect ==
    ASSUME TypeInv, NEW v \in VC,
           NothingToDo(v) \/ CollectSecret(v) \/ ChildStarts(v) \/ ChildStops(v)
    PROVE  TypeInv' /\ Quiet
  <1>1. /\ UNCHANGED <<vc, cell, work, seen, round, drained>>
        /\ queue' \subseteq VC
        /\ secret' \in [VC -> Secrets]
        /\ child' \in [VC -> BOOLEAN]
    BY Zenon DEF NothingToDo, CollectSecret, ChildStarts, ChildStops, TypeInv, TypeOK, Secrets
  <1> QED
    BY <1>1, CachesKept DEF Quiet, TypeInv, TypeOK

\* Rebind changes the Cell, and interrupts the round that would release it.
LEMMA RebindEffect ==
    ASSUME TypeInv, NEW m \in MC, Rebind(m)
    PROVE  /\ TypeInv'
           /\ "rebind" \in Faults
           /\ UNCHANGED <<vc, work, round, seen>>
  <1>1. cell' \in Cells
    BY DEF Rebind, TypeInv, TypeOK, Cells
  <1> QED
    BY <1>1, Zenon DEF Rebind, TypeInv, TypeOK

\* A crash ends the round.
LEMMA CrashEffect ==
    ASSUME TypeInv, Crash
    PROVE  /\ TypeInv'
           /\ UNCHANGED <<vc, cell, work>>
           /\ round'.pc = "idle"
           /\ CachesFollow
  <1>1. seen' \in [vc : [VC -> VirtualClusters], cell : Cells,
                   work : WorkTable, secret : [VC -> Secrets]]
    BY DEF Crash, Relisted, Cached, TypeInv, TypeOK
  <1>2. round' \in Rounds /\ round'.pc = "idle"
    BY BlankTypes DEF Crash
  <1>3. CachesFollow
    BY DEF Crash, Relisted, CachesFollow, knownVC, knownCell, Cached
  <1> QED
    BY <1>1, <1>2, <1>3, Zenon DEF Crash, TypeInv, TypeOK, Writing, Removing

\* Create makes an absent VirtualCluster live.
LEMMA CreateEffect ==
    ASSUME TypeInv, NEW v \in VC, Create(v)
    PROVE  /\ TypeInv'
           /\ UNCHANGED <<cell, work, secret, seen, round>>
           /\ vc[v].meta = "absent" /\ vc'[v].meta = "live"
           /\ vc'[v].fin = vc[v].fin /\ vc'[v].status = vc[v].status
           /\ \A u \in VC \ {v} : vc'[u] = vc[u]
  <1> DEFINE object == [vc[v] EXCEPT !.meta = "live"]
  <1>1. /\ object \in VirtualClusters /\ object.meta = "live"
        /\ object.fin = vc[v].fin /\ object.status = vc[v].status
    BY ObjectMetaUpdate, Zenon DEF TypeInv, TypeOK
  <1> HIDE DEF object
  <1>2. /\ vc' \in [VC -> VirtualClusters]
        /\ \A u \in VC : vc'[u] = IF u = v THEN object ELSE vc[u]
    BY <1>1, VCWrite, Zenon DEF Create, object, TypeInv
  <1> QED
    BY <1>1, <1>2 DEF Create, TypeInv, TypeOK

\* Delete marks a live VirtualCluster, or makes it vanish.
LEMMA DeleteEffect ==
    ASSUME TypeInv, NEW v \in VC, Delete(v)
    PROVE  /\ TypeInv'
           /\ UNCHANGED <<cell, work, secret, seen, round>>
           /\ vc[v].meta = "live"
           /\ \/ /\ vc'[v].meta = "deleting"
                 /\ vc[v].fin /\ vc'[v].fin /\ vc'[v].status = vc[v].status
                 /\ \A u \in VC \ {v} : vc'[u] = vc[u]
              \/ ~vc[v].fin /\ Vanishes(v)
  <1> DEFINE object == [vc[v] EXCEPT !.meta = "deleting"]
  <1>1. /\ object \in VirtualClusters /\ object.meta = "deleting"
        /\ object.fin = vc[v].fin /\ object.status = vc[v].status
    BY ObjectMetaUpdate, Zenon DEF TypeInv, TypeOK
  <1> HIDE DEF object
  <1>2. CASE vc[v].fin
    <2>1. vc' = [vc EXCEPT ![v] = object]
      BY <1>2 DEF Delete, object
    <2>2. /\ vc' \in [VC -> VirtualClusters]
          /\ \A u \in VC : vc'[u] = IF u = v THEN object ELSE vc[u]
      BY <1>1, <2>1, VCWrite, Zenon DEF TypeInv
    <2> QED
      BY <1>1, <1>2, <2>2 DEF Delete, TypeInv, TypeOK
  <1>3. CASE ~vc[v].fin
    <2>1. vc' \in [VC -> VirtualClusters] /\ Vanishes(v)
      BY <1>3, VanishEffect, Zenon DEF Delete, TypeInv
    <2> QED
      BY <1>3, <2>1 DEF Delete, TypeInv, TypeOK
  <1> QED
    BY <1>2, <1>3

\* One Work is changed from outside the round.
Touches(v, k, m) ==
    UNCHANGED <<vc, cell, seen, round>> /\ OthersKept(v, k, m)

\* SetWork touches one Work.
LEMMA SetWorkEffect ==
    ASSUME TypeInv, NEW v \in VC, NEW k \in Kinds, NEW m \in MC, NEW w \in Works,
           SetWork(v, k, m, w), child' \in [VC -> BOOLEAN]
    PROVE  TypeInv' /\ Touches(v, k, m) /\ work'[v][k][m] = w
  <1>1. WritesWork(v, k, m, w)
    BY DEF SetWork, WritesWork
  <1>2. work' \in WorkTable /\ work'[v][k][m] = w /\ OthersKept(v, k, m)
    BY <1>1, WorkWrite DEF TypeInv
  <1>3. /\ UNCHANGED <<vc, cell, secret, seen, round, drained>>
        /\ queue' \subseteq VC
    BY DEF SetWork, TypeInv, TypeOK
  <1>4. Touches(v, k, m) /\ work'[v][k][m] = w
    BY <1>2, <1>3 DEF Touches
  <1> QED
    BY <1>2, <1>3, <1>4 DEF TypeInv, TypeOK

\* Every Work has its type.
LEMMA CurrentWork ==
    ASSUME TypeInv, NEW v \in VC, NEW k \in Kinds, NEW m \in MC
    PROVE  work[v][k][m] \in Works
    BY DEF TypeInv, TypeOK, WorkTable

\* The agent's reports change neither owner nor deletion.
LEMMA ReportEffect ==
    ASSUME TypeInv, NEW v \in VC, NEW k \in Kinds, NEW m \in MC,
           Apply(v, k, m) \/ Degrade(v, k, m)
    PROVE  /\ TypeInv' /\ Touches(v, k, m)
           /\ work[v][k][m].owner = "own" /\ ~work[v][k][m].deleting
           /\ work'[v][k][m].owner = "own" /\ ~work'[v][k][m].deleting
  <1> DEFINE w == work[v][k][m]
             applied == [w EXCEPT !.applied = TRUE, !.failed = FALSE]
             withdrawn == [w EXCEPT !.applied = FALSE]
             failed == [w EXCEPT !.failed = TRUE]
  <1>1. \A x \in {applied, withdrawn, failed} :
           x \in Works /\ x.owner = w.owner /\ x.deleting = w.deleting
    <2>1. w \in Works
      BY CurrentWork
    <2> QED
      BY <2>1, WorkUpdate, ZenonT(60)
  <1> HIDE DEF applied, withdrawn, failed
  <1>2. /\ w.owner = "own" /\ ~w.deleting
        /\ child' = child
        /\ \/ SetWork(v, k, m, applied) \/ SetWork(v, k, m, withdrawn)
           \/ SetWork(v, k, m, failed)
    BY DEF Apply, Degrade, applied, withdrawn, failed
  <1>3. child' \in [VC -> BOOLEAN]
    BY <1>2 DEF TypeInv, TypeOK
  <1>4. PICK x \in {applied, withdrawn, failed} : SetWork(v, k, m, x)
    BY <1>2
  <1>5. x \in Works /\ x.owner = w.owner /\ x.deleting = w.deleting
    BY <1>1, <1>4
  <1> HIDE DEF w
  <1>6. TypeInv' /\ Touches(v, k, m) /\ work'[v][k][m] = x
    BY <1>3, <1>4, <1>5, SetWorkEffect, SMT, ZenonT(60)
  <1> QED
    BY <1>2, <1>5, <1>6 DEF w

\* The agent removes only what is being deleted.
LEMMA FinalizeEffect ==
    ASSUME TypeInv, NEW v \in VC, NEW k \in Kinds, NEW m \in MC, Finalize(v, k, m)
    PROVE  /\ TypeInv' /\ Touches(v, k, m)
           /\ work[v][k][m].deleting
           /\ work'[v][k][m].owner = "none" /\ ~work'[v][k][m].deleting
  <1>1. work[v][k][m].deleting /\ SetWork(v, k, m, NoWork)
    BY DEF Finalize
  <1>2. child' \in [VC -> BOOLEAN]
    BY DEF Finalize, TypeInv, TypeOK
  <1>3. TypeInv' /\ Touches(v, k, m) /\ work'[v][k][m] = NoWork
    BY <1>1, <1>2, BlankTypes, SetWorkEffect
  <1>4. NoWork.owner = "none" /\ ~NoWork.deleting
    BY DEF NoWork
  <1> QED
    BY <1>1, <1>3, <1>4

\* A deletion from outside changes no owner.
LEMMA DeleteOutOfBandEffect ==
    ASSUME TypeInv, NEW v \in VC, NEW k \in Kinds, NEW m \in MC,
           DeleteOutOfBand(v, k, m)
    PROVE  /\ TypeInv' /\ Touches(v, k, m)
           /\ "extDelete" \in Faults
           /\ work[v][k][m].owner = "own" /\ work'[v][k][m].owner = "own"
  <1> DEFINE w == work[v][k][m]
             next == [w EXCEPT !.deleting = TRUE]
  <1>1. next \in Works /\ next.owner = w.owner
    BY CurrentWork, WorkUpdate, Zenon
  <1> HIDE DEF next
  <1>2. /\ "extDelete" \in Faults /\ w.owner = "own"
        /\ SetWork(v, k, m, next) /\ child' = child
    BY DEF DeleteOutOfBand, next
  <1>3. child' \in [VC -> BOOLEAN]
    BY <1>2 DEF TypeInv, TypeOK
  <1>4. TypeInv' /\ Touches(v, k, m) /\ work'[v][k][m] = next
    BY <1>1, <1>2, <1>3, SetWorkEffect
  <1> QED
    BY <1>1, <1>2, <1>4

\* A foreign Work appears only where there was none.
LEMMA CreateForeignEffect ==
    ASSUME TypeInv, NEW v \in VC, NEW k \in Kinds, NEW m \in MC,
           CreateForeign(v, k, m)
    PROVE  /\ TypeInv' /\ Touches(v, k, m)
           /\ "foreignRace" \in Faults
           /\ work[v][k][m].owner = "none"
           /\ work'[v][k][m].owner = "foreign" /\ ~work'[v][k][m].deleting
  <1>1. /\ "foreignRace" \in Faults /\ work[v][k][m].owner = "none"
        /\ SetWork(v, k, m, ForeignWork) /\ child' = child
    BY DEF CreateForeign
  <1>2. child' \in [VC -> BOOLEAN]
    BY <1>1 DEF TypeInv, TypeOK
  <1>3. TypeInv' /\ Touches(v, k, m) /\ work'[v][k][m] = ForeignWork
    BY <1>1, <1>2, BlankTypes, SetWorkEffect
  <1>4. ForeignWork.owner = "foreign" /\ ~ForeignWork.deleting
    BY DEF ForeignWork, NoWork
  <1> QED
    BY <1>1, <1>3, <1>4

-----------------------------------------------------------------------------

\* Every step preserves the inductive type invariant.
LEMMA TypeStep == TypeInv /\ [Next]_vars => TypeInv'
  <1> SUFFICES ASSUME TypeInv, [Next]_vars PROVE TypeInv'
    OBVIOUS
  <1>1. CASE Worker
    BY <1>1, BackgroundEffect, ReconcileEffect, ReconcileDeletionEffect, ResolveEffect,
       WriteFoundationEffect, ReadWorksEffect, PublishEffect, MirrorEffect,
       WriteInstanceEffect, RefreshEffect, SaveStatusEffect, DeleteSecretEffect,
       LookupEffect, RemoveFinalizerEffect, DeleteWorkEffect, Zenon DEF Worker
  <1>2. CASE RequestFails
    BY <1>2, RequestFailsEffect
  <1>3. CASE Sync \/ Resync
    BY <1>3, SyncEffect
  <1>4. CASE Crash
    BY <1>4, CrashEffect
  <1>5. CASE CellDeletion \/ DeleteCell \/ \E verdict \in Verdicts : CellVerdict(verdict)
    BY <1>5, CellEffect
  <1>6. CASE \E m \in MC : Rebind(m)
    BY <1>6, RebindEffect
  <1>7. CASE \E v \in VC : \/ Create(v) \/ Delete(v) \/ CollectSecret(v)
                            \/ ChildStarts(v) \/ ChildStops(v)
    BY <1>7, CreateEffect, DeleteEffect, BackgroundEffect
  <1>8. CASE \E v \in VC, k \in Kinds, m \in MC :
                \/ Apply(v, k, m) \/ Degrade(v, k, m) \/ Finalize(v, k, m)
                \/ DeleteOutOfBand(v, k, m) \/ CreateForeign(v, k, m)
    BY <1>8, ReportEffect, FinalizeEffect, DeleteOutOfBandEffect, CreateForeignEffect
  <1>9. CASE UNCHANGED vars
    BY <1>9 DEF vars, TypeInv, TypeOK
  <1> QED
    BY <1>1, <1>2, <1>3, <1>4, <1>5, <1>6, <1>7, <1>8, <1>9 DEF Next

\* In every step the caches stay or become current.
LEMMA CachesStep == TypeInv /\ [Next]_vars => CachesFollow
  <1> SUFFICES ASSUME TypeInv, [Next]_vars PROVE CachesFollow
    OBVIOUS
  <1>1. CASE Worker \/ RequestFails
    BY <1>1, CachesKept, BackgroundEffect, ReconcileEffect, ReconcileDeletionEffect,
       ResolveEffect, WriteFoundationEffect, ReadWorksEffect, PublishEffect, MirrorEffect,
       WriteInstanceEffect, RefreshEffect, SaveStatusEffect, DeleteSecretEffect,
       LookupEffect, RemoveFinalizerEffect, DeleteWorkEffect, RequestFailsEffect, Zenon
       DEF Worker, Quiet, Resolves, Looks, Puts, Marks
  <1>2. CASE Sync \/ Resync
    BY <1>2, SyncEffect DEF Quiet
  <1>3. CASE Crash
    BY <1>3, CrashEffect
  <1>4. CASE CellDeletion \/ DeleteCell \/ \E verdict \in Verdicts : CellVerdict(verdict)
    BY <1>4, CellEffect DEF Quiet
  <1>5. CASE \E m \in MC : Rebind(m)
    BY <1>5, CachesKept DEF Rebind
  <1>6. CASE \E v \in VC : \/ Create(v) \/ Delete(v) \/ CollectSecret(v)
                            \/ ChildStarts(v) \/ ChildStops(v)
    BY <1>6, CachesKept DEF Create, Delete, CollectSecret, ChildStarts, ChildStops
  <1>7. CASE \E v \in VC, k \in Kinds, m \in MC :
                \/ Apply(v, k, m) \/ Degrade(v, k, m) \/ Finalize(v, k, m)
                \/ DeleteOutOfBand(v, k, m) \/ CreateForeign(v, k, m)
    BY <1>7, CachesKept, ReportEffect, FinalizeEffect, DeleteOutOfBandEffect,
       CreateForeignEffect DEF Touches
  <1>8. CASE UNCHANGED vars
    BY <1>8, CachesKept DEF vars
  <1> QED
    BY <1>1, <1>2, <1>3, <1>4, <1>5, <1>6, <1>7, <1>8 DEF Next

\* TypeCorrect: the lifecycle keeps the types of its state, and a round under
\* way always has a VirtualCluster and, where it needs one, a namespace.
THEOREM TypeCorrect == Spec => []TypeInv
  <1>1. Init => TypeInv
    BY TypeInit
  <1>2. TypeInv /\ [Next]_vars => TypeInv'
    BY TypeStep
  <1> QED
    BY <1>1, <1>2, PTL DEF Spec

\* TypesKept: whatever fails, restarts, lags or comes from outside, every
\* object, cache and round of the lifecycle keeps its type.
THEOREM TypesKept == Spec => []TypeOK
  <1>1. TypeInv => TypeOK
    BY DEF TypeInv
  <1> QED
    BY <1>1, TypeCorrect, PTL

-----------------------------------------------------------------------------
(* Which actions can change what: the case analyses that the proofs of the *)
(* safety properties share.                                                *)

\* Steps of a live round, and of a deletion round, before their status is saved.
LiveSteps == Writing \cup {"resolve"}
DeletionSteps == Removing \cup {"secret", "lookup"}

\* Initially the caches are current, no round is under way, and no
\* VirtualCluster and no Work of one exists.
LEMMA InitKnown ==
    Init => /\ knownVC = vc /\ knownCell = cell
            /\ round.pc = "idle"
            /\ \A v \in VC : /\ vc[v].meta = "absent" /\ ~vc[v].fin
                             /\ vc[v].status.resolved = None
            /\ \A v \in VC, k \in Kinds, m \in MC :
                  ~OwnWork(v, k, m) /\ ~work[v][k][m].deleting
  <1> SUFFICES ASSUME Init
               PROVE  /\ knownVC = vc /\ knownCell = cell
                      /\ round.pc = "idle"
                      /\ \A v \in VC : /\ vc[v].meta = "absent" /\ ~vc[v].fin
                                       /\ vc[v].status.resolved = None
                      /\ \A v \in VC, k \in Kinds, m \in MC :
                            ~OwnWork(v, k, m) /\ ~work[v][k][m].deleting
    OBVIOUS
  <1>1. knownVC = vc /\ knownCell = cell
    BY DEF Init, knownVC, knownCell, Cached
  <1>2. round.pc = "idle"
    BY BlankTypes DEF Init
  <1>3. \A v \in VC : vc[v].meta = "absent" /\ ~vc[v].fin /\ vc[v].status.resolved = None
    BY GoneObject, Zenon DEF Init
  <1>4. \A v \in VC, k \in Kinds, m \in MC : work[v][k][m] \in {NoWork, ForeignWork}
    <2>1. CASE "foreign" \in Faults
      BY <2>1 DEF Init
    <2>2. CASE "foreign" \notin Faults
      BY <2>2 DEF Init
    <2> QED
      BY <2>1, <2>2
  <1>5. /\ NoWork.owner = "none" /\ ~NoWork.deleting
        /\ ForeignWork.owner = "foreign" /\ ~ForeignWork.deleting
    BY DEF NoWork, ForeignWork
  <1> QED
    BY <1>1, <1>2, <1>3, <1>4, <1>5 DEF OwnWork

-----------------------------------------------------------------------------
(* The VirtualClusters.                                                    *)

\* The actions that write a VirtualCluster.
LEMMA OnlyWriters ==
    ASSUME TypeInv, [Next]_vars
    PROVE  \/ vc' = vc
           \/ \E v \in VC : Reconcile(v) \/ Create(v) \/ Delete(v)
           \/ SaveStatus \/ RemoveFinalizer
  <1>1. CASE Worker \/ RequestFails
    BY <1>1, BackgroundEffect, ReconcileDeletionEffect, ResolveEffect,
       WriteFoundationEffect, ReadWorksEffect, PublishEffect, MirrorEffect,
       WriteInstanceEffect, RefreshEffect, DeleteSecretEffect,
       LookupEffect, DeleteWorkEffect, RequestFailsEffect, Zenon
       DEF Worker, Quiet, Resolves, Looks, Puts, Marks
  <1>2. CASE Sync \/ Resync \/ Crash \/ CellDeletion \/ DeleteCell
    BY <1>2, SyncEffect, CrashEffect, CellEffect DEF Quiet
  <1>3. CASE \/ \E m \in MC : Rebind(m)
             \/ \E verdict \in Verdicts : CellVerdict(verdict)
             \/ \E v \in VC : CollectSecret(v) \/ ChildStarts(v) \/ ChildStops(v)
    BY <1>3, RebindEffect, CellEffect, BackgroundEffect, Zenon DEF Quiet
  <1>4. CASE \E v \in VC, k \in Kinds, m \in MC :
                \/ Apply(v, k, m) \/ Degrade(v, k, m) \/ Finalize(v, k, m)
                \/ DeleteOutOfBand(v, k, m) \/ CreateForeign(v, k, m)
    BY <1>4, ReportEffect, FinalizeEffect, DeleteOutOfBandEffect,
       CreateForeignEffect, ZenonT(60) DEF Touches
  <1>5. CASE UNCHANGED vars
    BY <1>5 DEF vars
  <1> QED
    BY <1>1, <1>2, <1>3, <1>4, <1>5 DEF Next

\* Once deleted a VirtualCluster stays deleted, once gone it stays gone.
LEMMA LifeStep ==
    ASSUME TypeInv, [Next]_vars, NEW v \in VC
    PROVE  /\ vc[v].meta \in {"deleting", "gone"} => vc'[v].meta \in {"deleting", "gone"}
           /\ vc[v].meta = "gone" => vc'[v].meta = "gone"
  <1>1. CASE vc' = vc
    BY <1>1
  <1>2. CASE \E u \in VC : Reconcile(u)
    BY <1>2, ReconcileEffect
  <1>3. CASE SaveStatus
    BY <1>3, SaveStatusEffect
  <1>4. CASE RemoveFinalizer
    BY <1>4, RemoveFinalizerEffect DEF Vanishes
  <1>5. CASE \E u \in VC : Create(u) \/ Delete(u)
    BY <1>5, CreateEffect, DeleteEffect DEF Vanishes
  <1> QED
    BY <1>1, <1>2, <1>3, <1>4, <1>5, OnlyWriters

\* Only the end of a deletion round takes a finalizer away.
LEMMA FinalizerKept ==
    ASSUME TypeInv, [Next]_vars, NEW v \in VC, vc[v].fin, ~vc'[v].fin
    PROVE  round.pc = "removeFinalizer" /\ round'.pc = "idle" /\ round.v = v
  <1>1. CASE \E u \in VC : Reconcile(u)
    BY <1>1, ReconcileEffect
  <1>2. CASE SaveStatus
    BY <1>2, SaveStatusEffect
  <1>3. CASE RemoveFinalizer
    BY <1>3, RemoveFinalizerEffect DEF Vanishes
  <1>4. CASE \E u \in VC : Create(u) \/ Delete(u)
    BY <1>4, CreateEffect, DeleteEffect DEF Vanishes
  <1> QED
    BY <1>1, <1>2, <1>3, <1>4, OnlyWriters

-----------------------------------------------------------------------------
(* The round.                                                              *)

\* The actions that move the round.
LEMMA OnlyRounds ==
    ASSUME TypeInv, [Next]_vars
    PROVE  \/ round' = round \/ round'.pc = "idle"
           \/ \E v \in VC : Reconcile(v) \/ ReconcileDeletion(v)
           \/ Resolve \/ WriteFoundation \/ ReadWorks \/ Publish \/ Mirror
           \/ WriteInstance \/ Refresh \/ DeleteSecret \/ Lookup
           \/ \E k \in Kinds : DeleteWork(k)
  <1>1. CASE Worker \/ RequestFails
    BY <1>1, BackgroundEffect, SaveStatusEffect, RemoveFinalizerEffect, RequestFailsEffect
       DEF Worker, Quiet
  <1>2. CASE Sync \/ Resync \/ Crash \/ CellDeletion \/ DeleteCell
    BY <1>2, SyncEffect, CrashEffect, CellEffect DEF Quiet
  <1>3. CASE \/ \E m \in MC : Rebind(m)
             \/ \E verdict \in Verdicts : CellVerdict(verdict)
             \/ \E v \in VC : \/ Create(v) \/ Delete(v) \/ CollectSecret(v)
                              \/ ChildStarts(v) \/ ChildStops(v)
    BY <1>3, RebindEffect, CellEffect, CreateEffect, DeleteEffect, BackgroundEffect DEF Quiet
  <1>4. CASE \E v \in VC, k \in Kinds, m \in MC :
                \/ Apply(v, k, m) \/ Degrade(v, k, m) \/ Finalize(v, k, m)
                \/ DeleteOutOfBand(v, k, m) \/ CreateForeign(v, k, m)
    BY <1>4, ReportEffect, FinalizeEffect, DeleteOutOfBandEffect,
       CreateForeignEffect, Zenon DEF Touches
  <1>5. CASE UNCHANGED vars
    BY <1>5 DEF vars
  <1> QED
    BY <1>1, <1>2, <1>3, <1>4, <1>5, ZenonT(60) DEF Next

\* Where the round can be after a step: a live round stays live until it saves
\* or ends, and so does a deletion round; both are about one VirtualCluster.
LEMMA RoundStep ==
    ASSUME TypeInv, [Next]_vars
    PROVE  /\ round'.pc \in DeletionSteps =>
                 \/ round.pc \in DeletionSteps /\ round'.v = round.v
                 \/ round'.v \in VC /\ knownVC[round'.v].meta = "deleting"
           /\ round'.pc \in LiveSteps =>
                 \/ round.pc \in LiveSteps /\ round'.v = round.v
                 \/ round'.v \in VC /\ Reconcile(round'.v)
  <1> USE DEF DeletionSteps, LiveSteps, Writing, Removing
  <1>1. CASE round' = round \/ round'.pc = "idle"
    BY <1>1
  <1>2. CASE \E v \in VC : Reconcile(v)
    BY <1>2, ReconcileEffect
  <1>3. CASE \E v \in VC : ReconcileDeletion(v)
    BY <1>3, ReconcileDeletionEffect
  <1>4. CASE Resolve
    BY <1>4, ResolveEffect DEF Resolves
  <1>5. CASE WriteFoundation \/ WriteInstance
    BY <1>5, WriteFoundationEffect, WriteInstanceEffect, ZenonT(60) DEF Puts, Moves
  <1>6. CASE ReadWorks \/ Publish \/ Mirror \/ Refresh
    BY <1>6, ReadWorksEffect, PublishEffect, MirrorEffect, RefreshEffect DEF Moves
  <1>7. CASE DeleteSecret
    BY <1>7, DeleteSecretEffect DEF Moves
  <1>8. CASE Lookup
    BY <1>8, LookupEffect, ZenonT(60) DEF Looks
  <1>9. CASE \E k \in Kinds : DeleteWork(k)
    BY <1>9, DeleteWorkEffect DEF Marks, Moves
  <1> QED
    BY <1>1, <1>2, <1>3, <1>4, <1>5, <1>6, <1>7, <1>8, <1>9, OnlyRounds

\* A round that removes something has just looked, or goes on as it was.
LEMMA RemovingStep ==
    ASSUME TypeInv, [Next]_vars, round'.pc \in Removing
    PROVE  round' = round \/ Lookup
  <1> USE DEF Removing
  <1>1. CASE \E v \in VC : Reconcile(v) \/ ReconcileDeletion(v)
    BY <1>1, ReconcileEffect, ReconcileDeletionEffect
  <1>2. CASE Resolve
    BY <1>2, ResolveEffect DEF Resolves
  <1>3. CASE WriteFoundation \/ WriteInstance
    BY <1>3, WriteFoundationEffect, WriteInstanceEffect, ZenonT(60) DEF Puts, Moves
  <1>4. CASE ReadWorks \/ Publish \/ Mirror \/ Refresh \/ DeleteSecret
    BY <1>4, ReadWorksEffect, PublishEffect, MirrorEffect, RefreshEffect,
       DeleteSecretEffect DEF Moves
  <1>5. CASE \E k \in Kinds : DeleteWork(k)
    BY <1>5, DeleteWorkEffect, ZenonT(60) DEF Marks, Moves
  <1> QED
    BY <1>1, <1>2, <1>3, <1>4, <1>5, OnlyRounds

-----------------------------------------------------------------------------
(* The Cell and the Works.                                                 *)

\* Only an admitted change of managedClusterRef changes it.
LEMMA RefFixed ==
    ASSUME TypeInv, [Next]_vars, "rebind" \notin Faults
    PROVE  cell'.ref = cell.ref
  <1>1. CASE Worker \/ RequestFails
    BY <1>1, BackgroundEffect, ReconcileEffect, ReconcileDeletionEffect, ResolveEffect,
       WriteFoundationEffect, ReadWorksEffect, PublishEffect, MirrorEffect,
       WriteInstanceEffect, RefreshEffect, SaveStatusEffect, DeleteSecretEffect,
       LookupEffect, RemoveFinalizerEffect, DeleteWorkEffect, RequestFailsEffect, Zenon
       DEF Worker, Quiet, Resolves, Looks, Puts, Marks
  <1>2. CASE Sync \/ Resync \/ Crash \/ CellDeletion \/ DeleteCell
    BY <1>2, SyncEffect, CrashEffect, CellEffect DEF Quiet
  <1>3. CASE \/ \E m \in MC : Rebind(m)
             \/ \E verdict \in Verdicts : CellVerdict(verdict)
             \/ \E v \in VC : \/ Create(v) \/ Delete(v) \/ CollectSecret(v)
                              \/ ChildStarts(v) \/ ChildStops(v)
    BY <1>3, RebindEffect, CellEffect, CreateEffect, DeleteEffect, BackgroundEffect DEF Quiet
  <1>4. CASE \E v \in VC, k \in Kinds, m \in MC :
                \/ Apply(v, k, m) \/ Degrade(v, k, m) \/ Finalize(v, k, m)
                \/ DeleteOutOfBand(v, k, m) \/ CreateForeign(v, k, m)
    BY <1>4, ReportEffect, FinalizeEffect, DeleteOutOfBandEffect,
       CreateForeignEffect, Zenon DEF Touches
  <1>5. CASE UNCHANGED vars
    BY <1>5 DEF vars
  <1> QED
    BY <1>1, <1>2, <1>3, <1>4, <1>5, ZenonT(60) DEF Next

\* The actions that write Works.
LEMMA OnlyWorkers ==
    ASSUME TypeInv, [Next]_vars
    PROVE  \/ work' = work
           \/ WriteFoundation \/ WriteInstance \/ \E k \in Kinds : DeleteWork(k)
           \/ \E v \in VC, k \in Kinds, m \in MC :
                 \/ Apply(v, k, m) \/ Degrade(v, k, m) \/ Finalize(v, k, m)
                 \/ DeleteOutOfBand(v, k, m) \/ CreateForeign(v, k, m)
  <1>1. CASE Worker \/ RequestFails
    BY <1>1, BackgroundEffect, ReconcileEffect, ReconcileDeletionEffect, ResolveEffect,
       ReadWorksEffect, PublishEffect, MirrorEffect, RefreshEffect, SaveStatusEffect,
       DeleteSecretEffect, LookupEffect, RemoveFinalizerEffect, RequestFailsEffect, Zenon
       DEF Worker, Quiet, Resolves, Looks
  <1>2. CASE Sync \/ Resync \/ Crash \/ CellDeletion \/ DeleteCell
    BY <1>2, SyncEffect, CrashEffect, CellEffect DEF Quiet
  <1>3. CASE \/ \E m \in MC : Rebind(m)
             \/ \E verdict \in Verdicts : CellVerdict(verdict)
             \/ \E v \in VC : \/ Create(v) \/ Delete(v) \/ CollectSecret(v)
                              \/ ChildStarts(v) \/ ChildStops(v)
    BY <1>3, RebindEffect, CellEffect, CreateEffect, DeleteEffect, BackgroundEffect, Zenon DEF Quiet
  <1>4. CASE UNCHANGED vars
    BY <1>4 DEF vars
  <1> QED
    BY <1>1, <1>2, <1>3, <1>4 DEF Next

\* What a deletion of the kind l does to a Work.
MarkedAt(l, v, k, m) ==
    \/ work'[v][k][m] = work[v][k][m]
    \/ /\ v = round.v /\ k = l /\ m = round.mc
       /\ work'[v][k][m].owner = work[v][k][m].owner

\* DeleteWork leaves every Work its owner, and all but one as they are.
LEMMA MarkedWork ==
    ASSUME TypeInv, NEW l \in Kinds, DeleteWork(l),
           NEW v \in VC, NEW k \in Kinds, NEW m \in MC
    PROVE  MarkedAt(l, v, k, m)
  <1>1. Marks(l)
    BY DeleteWorkEffect
  <1> QED
    BY <1>1, ZenonT(60) DEF Marks, OthersKept, MarkedAt

\* What a step from outside a round does to a Work.
TouchedAt(v, k, m) ==
    LET before == work[v][k][m]
        after == work'[v][k][m]
    IN \/ after = before
       \/ /\ before.owner = "own" /\ ~before.deleting
          /\ after.owner = "own" /\ ~after.deleting
       \/ before.deleting /\ after.owner = "none" /\ ~after.deleting
       \/ /\ "extDelete" \in Faults
          /\ before.owner = "own" /\ after.owner = "own"
       \/ /\ "foreignRace" \in Faults
          /\ before.owner = "none" /\ after.owner = "foreign"
          /\ ~after.deleting

\* The steps from outside a round leave it, and do no more to any Work.
LEMMA TouchedWork ==
    ASSUME TypeInv, NEW u \in VC, NEW l \in Kinds, NEW n \in MC,
           \/ Apply(u, l, n) \/ Degrade(u, l, n) \/ Finalize(u, l, n)
           \/ DeleteOutOfBand(u, l, n) \/ CreateForeign(u, l, n),
           NEW v \in VC, NEW k \in Kinds, NEW m \in MC
    PROVE  round' = round /\ TouchedAt(v, k, m)
  <1>1. CASE Apply(u, l, n) \/ Degrade(u, l, n)
    <2>1. /\ Touches(u, l, n)
          /\ work[u][l][n].owner = "own" /\ ~work[u][l][n].deleting
          /\ work'[u][l][n].owner = "own" /\ ~work'[u][l][n].deleting
      BY <1>1, ReportEffect, ZenonT(60)
    <2> QED
      BY <2>1, ZenonT(60) DEF Touches, OthersKept, TouchedAt
  <1>2. CASE Finalize(u, l, n)
    <2>1. /\ Touches(u, l, n) /\ work[u][l][n].deleting
          /\ work'[u][l][n].owner = "none" /\ ~work'[u][l][n].deleting
      BY <1>2, FinalizeEffect, Zenon
    <2> QED
      BY <2>1, ZenonT(90) DEF Touches, OthersKept, TouchedAt
  <1>3. CASE DeleteOutOfBand(u, l, n)
    <2>1. /\ Touches(u, l, n) /\ "extDelete" \in Faults
          /\ work[u][l][n].owner = "own" /\ work'[u][l][n].owner = "own"
      BY <1>3, DeleteOutOfBandEffect
    <2> QED
      BY <2>1, ZenonT(60) DEF Touches, OthersKept, TouchedAt
  <1>4. CASE CreateForeign(u, l, n)
    <2>1. /\ Touches(u, l, n) /\ "foreignRace" \in Faults
          /\ work[u][l][n].owner = "none"
          /\ work'[u][l][n].owner = "foreign" /\ ~work'[u][l][n].deleting
      BY <1>4, CreateForeignEffect
    <2> QED
      BY <2>1, ZenonT(60) DEF Touches, OthersKept, TouchedAt
  <1> QED
    BY <1>1, <1>2, <1>3, <1>4, ZenonT(60)

\* A Work becomes a VirtualCluster's own only by a write of a live round, where
\* that round works.
LEMMA OwnStep ==
    ASSUME TypeInv, [Next]_vars,
           NEW v \in VC, NEW k \in Kinds, NEW m \in MC, OwnWork(v, k, m)'
    PROVE  \/ OwnWork(v, k, m)
           \/ /\ round.v = v /\ round.mc = m
              /\ \/ round.pc = "foundation" /\ k = "foundation" /\ WriteFoundation
                 \/ round.pc = "instance" /\ k = "instance" /\ WriteInstance
  <1> USE DEF OwnWork
  <1>1. CASE work' = work
    BY <1>1
  <1>2. CASE WriteFoundation
    BY <1>2, WriteFoundationEffect, ZenonT(60) DEF Puts, OthersKept
  <1>3. CASE WriteInstance
    BY <1>3, WriteInstanceEffect, ZenonT(60) DEF Puts, OthersKept
  <1>4. CASE \E l \in Kinds : DeleteWork(l)
    <2>1. PICK l \in Kinds : DeleteWork(l)
      BY <1>4
    <2>2. MarkedAt(l, v, k, m)
      BY <2>1, MarkedWork
    <2> QED
      BY <2>1, <2>2 DEF MarkedAt
  <1>5. ASSUME NEW u \in VC, NEW l \in Kinds, NEW n \in MC,
               \/ Apply(u, l, n) \/ Degrade(u, l, n) \/ Finalize(u, l, n)
               \/ DeleteOutOfBand(u, l, n) \/ CreateForeign(u, l, n)
        PROVE  OwnWork(v, k, m)
    <2>1. round' = round /\ TouchedAt(v, k, m)
      BY <1>5, TouchedWork
    <2> QED
      BY <2>1 DEF TouchedAt
  <1> QED
    BY <1>1, <1>2, <1>3, <1>4, <1>5, OnlyWorkers, ZenonT(60)

\* A Work that is lost was being deleted.
LEMMA OwnLost ==
    ASSUME TypeInv, [Next]_vars, NEW v \in VC, NEW k \in Kinds, NEW m \in MC,
           OwnWork(v, k, m), work'[v][k][m].owner # "own"
    PROVE  work[v][k][m].deleting /\ round' = round
  <1> USE DEF OwnWork
  <1>1. CASE WriteFoundation
    BY <1>1, WriteFoundationEffect, ZenonT(60) DEF Puts, OthersKept
  <1>2. CASE WriteInstance
    BY <1>2, WriteInstanceEffect, ZenonT(60) DEF Puts, OthersKept
  <1>3. CASE \E l \in Kinds : DeleteWork(l)
    <2>1. PICK l \in Kinds : DeleteWork(l)
      BY <1>3
    <2>2. MarkedAt(l, v, k, m)
      BY <2>1, MarkedWork
    <2> QED
      BY <2>1, <2>2 DEF MarkedAt
  <1>4. ASSUME NEW u \in VC, NEW l \in Kinds, NEW n \in MC,
               \/ Apply(u, l, n) \/ Degrade(u, l, n) \/ Finalize(u, l, n)
               \/ DeleteOutOfBand(u, l, n) \/ CreateForeign(u, l, n)
        PROVE  work[v][k][m].deleting /\ round' = round
    <2>1. round' = round /\ TouchedAt(v, k, m)
      BY <1>4, TouchedWork
    <2> QED
      BY <2>1 DEF TouchedAt
  <1> QED
    BY <1>1, <1>2, <1>3, <1>4, OnlyWorkers, ZenonT(60)

\* A Work is marked for deletion by a deletion round alone.
LEMMA MarkedStep ==
    ASSUME TypeInv, [Next]_vars, "lagWork" \notin Faults, "extDelete" \notin Faults,
           NEW v \in VC, NEW k \in Kinds, NEW m \in MC,
           work'[v][k][m].owner = "own", work'[v][k][m].deleting
    PROVE  \/ OwnWork(v, k, m) /\ work[v][k][m].deleting
           \/ DeleteWork(k) /\ round.v = v /\ round.mc = m
  <1> USE DEF OwnWork
  <1>1. CASE work' = work
    BY <1>1
  <1>2. CASE WriteFoundation
    BY <1>2, WriteFoundationEffect, ZenonT(60) DEF Puts, OthersKept
  <1>3. CASE WriteInstance
    BY <1>3, WriteInstanceEffect, ZenonT(60) DEF Puts, OthersKept
  <1>4. CASE \E l \in Kinds : DeleteWork(l)
    <2>1. PICK l \in Kinds : DeleteWork(l)
      BY <1>4
    <2>2. MarkedAt(l, v, k, m)
      BY <2>1, MarkedWork
    <2> QED
      BY <2>1, <2>2 DEF MarkedAt
  <1>5. ASSUME NEW u \in VC, NEW l \in Kinds, NEW n \in MC,
               \/ Apply(u, l, n) \/ Degrade(u, l, n) \/ Finalize(u, l, n)
               \/ DeleteOutOfBand(u, l, n) \/ CreateForeign(u, l, n)
        PROVE  OwnWork(v, k, m) /\ work[v][k][m].deleting
    <2>1. round' = round /\ TouchedAt(v, k, m)
      BY <1>5, TouchedWork
    <2> QED
      BY <2>1 DEF TouchedAt
  <1> QED
    BY <1>1, <1>2, <1>3, <1>4, <1>5, OnlyWorkers, ZenonT(60)

-----------------------------------------------------------------------------
(* What the caches and the rounds know of a deletion.                      *)

\* DeletionInv: the caches do not run ahead of the objects, and a deletion
\* round has seen the deletion.
DeletionInv ==
    /\ \A v \in VC :
          /\ knownVC[v].meta = "deleting" => vc[v].meta \in {"deleting", "gone"}
          /\ knownVC[v].meta = "gone" => vc[v].meta = "gone"
    /\ round.pc \in DeletionSteps => knownVC[round.v].meta \in {"deleting", "gone"}

\* The steps preserve DeletionInv.
LEMMA DeletionStep ==
    ASSUME TypeInv, DeletionInv, [Next]_vars
    PROVE  DeletionInv'
  <1>1. \A v \in VC :
           /\ vc[v].meta \in {"deleting", "gone"} => vc'[v].meta \in {"deleting", "gone"}
           /\ vc[v].meta = "gone" => vc'[v].meta = "gone"
    BY LifeStep
  <1>2. knownVC' = knownVC \/ knownVC' = vc'
    BY CachesStep DEF CachesFollow
  <1>3. \A v \in VC :
           /\ knownVC'[v].meta = "deleting" => vc'[v].meta \in {"deleting", "gone"}
           /\ knownVC'[v].meta = "gone" => vc'[v].meta = "gone"
           /\ knownVC[v].meta \in {"deleting", "gone"} =>
                 knownVC'[v].meta \in {"deleting", "gone"}
    BY <1>1, <1>2 DEF DeletionInv
  <1>4. round.pc # "idle" => round.v \in VC
    BY DEF TypeInv
  <1>5. round'.pc \in DeletionSteps => knownVC'[round'.v].meta \in {"deleting", "gone"}
    BY <1>3, <1>4, RoundStep DEF DeletionInv, DeletionSteps, Removing
  <1> QED
    BY <1>3, <1>5 DEF DeletionInv

\* Once a deletion is known it stays known.
LEMMA KnownDeletion ==
    ASSUME TypeInv, DeletionInv, [Next]_vars, NEW v \in VC,
           knownVC[v].meta \in {"deleting", "gone"}
    PROVE  knownVC'[v].meta \in {"deleting", "gone"}
    BY LifeStep, CachesStep DEF CachesFollow, DeletionInv

-----------------------------------------------------------------------------
(* No Work is orphaned.                                                    *)

\* RefInv: with the Cell's reference fixed, every snapshot and every round
\* agrees with it.
RefInv ==
    /\ \A v \in VC : /\ vc[v].status.resolved \in {None, cell.ref}
                     /\ knownVC[v].status.resolved \in {None, cell.ref}
    /\ knownCell.ref = cell.ref
    /\ round.pc # "idle" => round.status.resolved \in {None, cell.ref}
    /\ round.pc \in Writing \cup Removing => round.mc = cell.ref

\* FinalizerInv: a live round works under the finalizer.
FinalizerInv ==
    /\ \A v \in VC :
          /\ vc[v].fin => Exists(vc[v])
          /\ knownVC[v].meta = "live" /\ knownVC[v].fin => vc[v].fin
    /\ round.pc \in LiveSteps => vc[round.v].fin

\* WorkInv: the Works of a VirtualCluster are covered by its finalizer, and are
\* where its cleanup looks for them.
WorkInv ==
    /\ \A v \in VC, k \in Kinds, m \in MC :
          OwnWork(v, k, m) => vc[v].fin /\ m = cell.ref
    /\ round.pc = "removeFinalizer" =>
          \A k \in Kinds, m \in MC : ~OwnWork(round.v, k, m)

\* The steps preserve RefInv.
LEMMA RefStep ==
    ASSUME TypeInv, RefInv, [Next]_vars, "rebind" \notin Faults
    PROVE  RefInv'
  <1>1. cell'.ref = cell.ref
    BY RefFixed
  <1>2. CachesFollow
    BY CachesStep
  <1>3. \A v \in VC : vc'[v].status.resolved \in {None, cell.ref}
    <2>1. CASE vc' = vc
      BY <2>1 DEF RefInv
    <2>2. CASE \E u \in VC : Reconcile(u)
      <3> PICK u \in VC : Reconcile(u)
        BY <2>2
      <3> QED
        BY ReconcileEffect DEF RefInv
    <2>3. CASE SaveStatus
      BY <2>3, SaveStatusEffect DEF RefInv
    <2>4. CASE RemoveFinalizer
      BY <2>4, RemoveFinalizerEffect DEF RefInv, Vanishes
    <2>5. CASE \E u \in VC : Create(u) \/ Delete(u)
      BY <2>5, CreateEffect, DeleteEffect, ZenonT(90) DEF RefInv, Vanishes
    <2> QED
      BY <2>1, <2>2, <2>3, <2>4, <2>5, OnlyWriters
  <1>4. \A v \in VC : knownVC'[v].status.resolved \in {None, cell.ref}
    BY <1>2, <1>3 DEF RefInv, CachesFollow
  <1>5. knownCell'.ref = cell'.ref
    BY <1>1, <1>2 DEF RefInv, CachesFollow
  <1>6. /\ round'.pc # "idle" => round'.status.resolved \in {None, cell.ref}
        /\ round'.pc \in Writing \cup Removing => round'.mc = cell.ref
    <2> USE DEF RefInv, Writing, Removing
    <2>1. CASE round' = round \/ round'.pc = "idle"
      BY <2>1
    <2>2. CASE \E v \in VC : Reconcile(v)
      BY <2>2, ReconcileEffect, ZenonT(60)
    <2>3. CASE \E v \in VC : ReconcileDeletion(v)
      BY <2>3, ReconcileDeletionEffect
    <2>4. CASE Resolve
      BY <2>4, ResolveEffect DEF Resolves
    <2>5. CASE WriteFoundation \/ WriteInstance
      BY <2>5, WriteFoundationEffect, WriteInstanceEffect, Zenon DEF Puts, Moves
    <2>6. CASE ReadWorks \/ Publish \/ Mirror \/ Refresh
      BY <2>6, ReadWorksEffect, PublishEffect, MirrorEffect, RefreshEffect DEF Moves
    <2>7. CASE DeleteSecret
      BY <2>7, DeleteSecretEffect DEF Moves
    <2>8. CASE Lookup
      BY <2>8, LookupEffect, ZenonT(60) DEF Looks, CleanupNamespace
    <2>9. CASE \E k \in Kinds : DeleteWork(k)
      BY <2>9, DeleteWorkEffect, ZenonT(60) DEF Marks, Moves
    <2> QED
      BY <2>1, <2>2, <2>3, <2>4, <2>5, <2>6, <2>7, <2>8, <2>9, OnlyRounds, ZenonT(60)
  <1> QED
    BY <1>1, <1>3, <1>4, <1>5, <1>6 DEF RefInv

\* The steps preserve FinalizerInv.
LEMMA FinalizerStep ==
    ASSUME TypeInv, DeletionInv, FinalizerInv, [Next]_vars
    PROVE  FinalizerInv'
  <1>1. knownVC' = knownVC \/ knownVC' = vc'
    BY CachesStep DEF CachesFollow
  <1>2. \A v \in VC : vc'[v].fin => Exists(vc'[v])
    <2>1. CASE vc' = vc
      BY <2>1 DEF FinalizerInv
    <2>2. CASE \E u \in VC : Reconcile(u)
      <3> PICK u \in VC : Reconcile(u)
        BY <2>2
      <3> QED
        BY ReconcileEffect DEF FinalizerInv, Exists
    <2>3. CASE SaveStatus
      BY <2>3, SaveStatusEffect DEF FinalizerInv, Exists
    <2>4. CASE RemoveFinalizer
      BY <2>4, RemoveFinalizerEffect DEF FinalizerInv, Vanishes
    <2>5. CASE \E u \in VC : Create(u) \/ Delete(u)
      BY <2>5, CreateEffect, DeleteEffect DEF FinalizerInv, Vanishes, Exists
    <2> QED
      BY <2>1, <2>2, <2>3, <2>4, <2>5, OnlyWriters
  <1>3. \A v \in VC : vc[v].fin /\ ~vc'[v].fin =>
           round.pc = "removeFinalizer" /\ round'.pc = "idle" /\ round.v = v
    BY FinalizerKept
  <1>4. \A v \in VC : knownVC'[v].meta = "live" /\ knownVC'[v].fin => vc'[v].fin
    BY <1>1, <1>3 DEF FinalizerInv, DeletionInv, DeletionSteps, Removing
  <1>5. round'.pc \in LiveSteps => vc'[round'.v].fin
    <2>1. ASSUME round'.pc \in LiveSteps, round.pc \in LiveSteps, round'.v = round.v
          PROVE  vc'[round'.v].fin
      BY <1>3, <2>1 DEF FinalizerInv, TypeInv, LiveSteps, Writing
    <2>2. ASSUME round'.v \in VC, Reconcile(round'.v)
          PROVE  vc'[round'.v].fin
      BY <2>2, ReconcileEffect DEF FinalizerInv
    <2> QED
      BY <2>1, <2>2, RoundStep
  <1> QED
    BY <1>2, <1>4, <1>5 DEF FinalizerInv

\* The steps preserve WorkInv.
LEMMA WorkStep ==
    ASSUME TypeInv, RefInv, FinalizerInv, WorkInv, [Next]_vars,
           "rebind" \notin Faults, "lagWork" \notin Faults
    PROVE  WorkInv'
  <1>1. ASSUME NEW v \in VC, NEW k \in Kinds, NEW m \in MC, OwnWork(v, k, m)'
        PROVE  vc'[v].fin /\ m = cell'.ref
    <2>1. cell'.ref = cell.ref
      BY RefFixed
    <2>2. CASE OwnWork(v, k, m)
      BY <2>1, <2>2, FinalizerKept DEF WorkInv
    <2>3. CASE /\ round.v = v /\ round.mc = m
               /\ \/ round.pc = "foundation" /\ WriteFoundation
                  \/ round.pc = "instance" /\ WriteInstance
      <3>1. vc[v].fin /\ m = cell.ref
        BY <2>3 DEF FinalizerInv, RefInv, LiveSteps, Writing
      <3>2. vc' = vc
        BY <2>3, WriteFoundationEffect, WriteInstanceEffect DEF Puts
      <3> QED
        BY <2>1, <3>1, <3>2
    <2> QED
      BY <1>1, <2>2, <2>3, OwnStep
  <1>2. ASSUME round'.pc = "removeFinalizer", NEW v \in VC, round'.v = v,
               NEW k \in Kinds, NEW m \in MC, OwnWork(v, k, m)'
        PROVE  FALSE
    <2>1. CASE round' = round
      <3>1. round.pc = "removeFinalizer" /\ ~OwnWork(v, k, m)
        BY <1>2, <2>1 DEF WorkInv
      <3> QED
        BY <1>2, <3>1, OwnStep
    <2>2. CASE Lookup
      <3>1. /\ round.v = v /\ work' = work
            /\ \A l \in Kinds : knownWork[v][l][CleanupNamespace].owner = "none"
        BY <1>2, <2>2, LookupEffect DEF Looks, Kinds
      <3>2. knownWork = work /\ CleanupNamespace = cell.ref
        BY <2>2, LookupEffect, Zenon DEF knownWork, Cached, CleanupNamespace, RefInv, Looks
      <3>3. OwnWork(v, k, m) => m = cell.ref
        BY DEF WorkInv
      <3> QED
        BY <1>2, <3>1, <3>2, <3>3 DEF OwnWork
    <2> QED
      BY <1>2, <2>1, <2>2, RemovingStep DEF Removing
  <1>3. round'.pc = "removeFinalizer" => round'.v \in VC
    BY TypeStep DEF TypeInv
  <1>4. \A v \in VC, k \in Kinds, m \in MC :
           work'[v][k][m].owner = "own" => vc'[v].fin /\ m = cell'.ref
    BY <1>1 DEF OwnWork
  <1>5. round'.pc = "removeFinalizer" =>
           \A k \in Kinds, m \in MC : work'[round'.v][k][m].owner # "own"
    BY <1>2, <1>3 DEF OwnWork
  <1> QED
    BY <1>4, <1>5 DEF WorkInv, OwnWork

\* No VirtualCluster is gone while one of its ManifestWorks is left, in any
\* namespace, whatever crashes, fails, is deleted from outside or lags, as long
\* as the Cell's reference is not changed and the cache of ManifestWorks
\* answers with what is there.  (The runs rebind_orphan and stale_works show
\* that neither condition can be dropped.)
THEOREM NothingOrphaned ==
    ASSUME "rebind" \notin Faults, "lagWork" \notin Faults
    PROVE  Spec => []NoOrphan
  <1> DEFINE Inv == TypeInv /\ RefInv /\ DeletionInv /\ FinalizerInv /\ WorkInv
  <1>1. Init => Inv
    <2> SUFFICES ASSUME Init PROVE Inv
      OBVIOUS
    <2>1. RefInv /\ DeletionInv /\ FinalizerInv /\ WorkInv
      BY InitKnown DEF RefInv, DeletionInv, FinalizerInv, WorkInv, DeletionSteps,
                       LiveSteps, Writing, Removing
    <2> QED
      BY <2>1, TypeInit
  <1>2. Inv /\ [Next]_vars => Inv'
    BY TypeStep, RefStep, DeletionStep, FinalizerStep, WorkStep
  <1>3. Inv => NoOrphan
    BY DEF FinalizerInv, WorkInv, NoOrphan
  <1> QED
    BY <1>1, <1>2, <1>3, PTL DEF Spec

-----------------------------------------------------------------------------
(* The order of the two Works.                                             *)

\* FoundationInv: a foundation Work is deleted only after its instance Work, by
\* a round after which no live round follows.
FoundationInv ==
    /\ InstanceOnFoundation
    /\ \A v \in VC, m \in MC :
          OwnWork(v, "foundation", m) /\ work[v]["foundation"][m].deleting =>
             /\ ~OwnWork(v, "instance", m)
             /\ knownVC[v].meta \in {"deleting", "gone"}
             /\ ~(round.pc \in LiveSteps /\ round.v = v)
    /\ round.pc \in Writing \ {"foundation"} => OwnWork(round.v, "foundation", round.mc)
    /\ round.pc = "delFoundation" => ~OwnWork(round.v, "instance", round.mc)

\* The steps preserve FoundationInv.
LEMMA FoundationStep ==
    ASSUME TypeInv, DeletionInv, FoundationInv, [Next]_vars,
           "lagWork" \notin Faults, "extDelete" \notin Faults
    PROVE  FoundationInv'
  <1> DEFINE Own(v, k, m) == work'[v][k][m].owner = "own"
  <1>1. ASSUME NEW v \in VC, NEW m \in MC, Own(v, "instance", m)
        PROVE  Own(v, "foundation", m)
    <2>1. CASE OwnWork(v, "instance", m)
      <3>1. OwnWork(v, "foundation", m) /\ ~work[v]["foundation"][m].deleting
        BY <2>1 DEF FoundationInv, InstanceOnFoundation
      <3> QED
        BY <3>1, OwnLost DEF Kinds
    <2>2. CASE round.v = v /\ round.mc = m /\ round.pc = "instance" /\ WriteInstance
      <3>1. OwnWork(v, "foundation", m)
        BY <2>2 DEF FoundationInv, Writing
      <3>2. work'[v]["foundation"][m] = work[v]["foundation"][m]
        BY <2>2, WriteInstanceEffect, ZenonT(60) DEF Puts, OthersKept, Kinds
      <3> QED
        BY <3>1, <3>2 DEF OwnWork
    <2> QED
      BY <1>1, <2>1, <2>2, OwnStep, SMT, ZenonT(90) DEF OwnWork, Kinds
  <1>2. ASSUME NEW v \in VC, NEW m \in MC,
               Own(v, "foundation", m), work'[v]["foundation"][m].deleting
        PROVE  /\ ~Own(v, "instance", m)
               /\ knownVC'[v].meta \in {"deleting", "gone"}
               /\ ~(round'.pc \in LiveSteps /\ round'.v = v)
    <2>1. CASE OwnWork(v, "foundation", m) /\ work[v]["foundation"][m].deleting
      <3>1. /\ ~OwnWork(v, "instance", m)
            /\ knownVC[v].meta \in {"deleting", "gone"}
            /\ ~(round.pc \in LiveSteps /\ round.v = v)
        BY <2>1 DEF FoundationInv
      <3>2. ~Own(v, "instance", m)
        BY <3>1, OwnStep, SMT, ZenonT(60) DEF OwnWork, Kinds, LiveSteps, Writing
      <3>3. knownVC'[v].meta \in {"deleting", "gone"}
        BY <3>1, KnownDeletion
      <3>4. ~(round'.pc \in LiveSteps /\ round'.v = v)
        BY <3>1, RoundStep, ReconcileEffect
      <3> QED
        BY <3>2, <3>3, <3>4
    <2>2. CASE DeleteWork("foundation") /\ round.v = v /\ round.mc = m
      <3>1. round.pc = "delFoundation" /\ round'.pc \in {"save", "idle"}
        BY <2>2, DeleteWorkEffect DEF Kinds, Marks, Moves
      <3>2. ~OwnWork(v, "instance", m) /\ knownVC[v].meta \in {"deleting", "gone"}
        BY <2>2, <3>1 DEF FoundationInv, DeletionInv, DeletionSteps, Removing
      <3>3. ~Own(v, "instance", m)
        BY <3>1, <3>2, OwnStep DEF OwnWork, Kinds
      <3>4. knownVC'[v].meta \in {"deleting", "gone"}
        BY <3>2, KnownDeletion
      <3> QED
        BY <3>1, <3>3, <3>4 DEF LiveSteps, Writing
    <2> QED
      BY <1>2, <2>1, <2>2, MarkedStep DEF Kinds
  <1>3. ASSUME round'.pc \in Writing \ {"foundation"}
        PROVE  Own(round'.v, "foundation", round'.mc)
    <2> USE DEF Writing
    <2>1. CASE round' = round
      <3>1. round.v \in VC /\ round.mc \in MC /\ OwnWork(round.v, "foundation", round.mc)
        BY <1>3, <2>1 DEF FoundationInv, TypeInv
      <3>2. ~work[round.v]["foundation"][round.mc].deleting
        BY <1>3, <2>1, <3>1 DEF FoundationInv, LiveSteps
      <3> QED
        BY <2>1, <3>1, <3>2, OwnLost, ZenonT(60) DEF Kinds
    <2>2. CASE WriteFoundation
      BY <1>3, <2>2, WriteFoundationEffect, ZenonT(60) DEF Puts, Moves
    <2>3. CASE WriteInstance
      <3>1. /\ round.v \in VC /\ round.mc \in MC
            /\ OwnWork(round.v, "foundation", round.mc)
            /\ round'.v = round.v /\ round'.mc = round.mc
        BY <1>3, <2>3, WriteInstanceEffect, ZenonT(60) DEF FoundationInv, TypeInv, Puts, Moves
      <3>2. work'[round.v]["foundation"][round.mc] = work[round.v]["foundation"][round.mc]
        BY <2>3, <3>1, WriteInstanceEffect, ZenonT(60) DEF Puts, OthersKept, Kinds
      <3> QED
        BY <3>1, <3>2 DEF OwnWork
    <2>4. CASE ReadWorks \/ Publish \/ Mirror \/ Refresh
      BY <1>3, <2>4, ReadWorksEffect, PublishEffect, MirrorEffect, RefreshEffect
         DEF FoundationInv, OwnWork, Moves
    <2>5. CASE \E v \in VC : Reconcile(v) \/ ReconcileDeletion(v)
      BY <1>3, <2>5, ReconcileEffect, ReconcileDeletionEffect, ZenonT(60)
    <2>6. CASE Resolve \/ Lookup
      BY <1>3, <2>6, ResolveEffect, LookupEffect, ZenonT(60) DEF Resolves, Looks, Removing
    <2>7. CASE DeleteSecret \/ \E k \in Kinds : DeleteWork(k)
      BY <1>3, <2>7, DeleteSecretEffect, DeleteWorkEffect, ZenonT(60) DEF Marks, Moves
    <2> QED
      BY <1>3, <2>1, <2>2, <2>3, <2>4, <2>5, <2>6, <2>7, OnlyRounds
  <1>4. ASSUME round'.pc = "delFoundation"
        PROVE  ~Own(round'.v, "instance", round'.mc)
    <2>1. round'.v \in VC /\ round'.mc \in MC
      BY <1>4, TypeStep DEF TypeInv, Removing
    <2>2. CASE round' = round
      <3>1. ~OwnWork(round.v, "instance", round.mc)
        BY <1>4, <2>2 DEF FoundationInv
      <3> QED
        BY <1>4, <2>1, <2>2, <3>1, OwnStep, ZenonT(60) DEF OwnWork, Kinds
    <2>3. CASE Lookup
      <3>1. knownWork = work
        BY DEF knownWork, Cached
      <3> QED
        BY <1>4, <2>3, <3>1, LookupEffect DEF Looks, Removing
    <2> QED
      BY <1>4, <2>2, <2>3, RemovingStep DEF Removing
  <1> QED
    BY <1>1, <1>2, <1>3, <1>4, ZenonT(60) DEF FoundationInv, InstanceOnFoundation, OwnWork

\* An instance Work exists only where its foundation Work does, although both
\* are written and deleted by rounds that crash, race and read outdated
\* VirtualClusters, as long as nobody else deletes the Works and their cache is
\* current.  The Cell's reference may change.
THEOREM FoundationFirstAndLast ==
    ASSUME "lagWork" \notin Faults, "extDelete" \notin Faults
    PROVE  Spec => []InstanceOnFoundation
  <1> DEFINE Inv == TypeInv /\ DeletionInv /\ FoundationInv
  <1>1. Init => Inv
    <2> SUFFICES ASSUME Init PROVE Inv
      OBVIOUS
    <2>1. DeletionInv /\ FoundationInv
      BY InitKnown DEF DeletionInv, FoundationInv, InstanceOnFoundation, DeletionSteps,
                       Writing, Removing, Kinds
    <2> QED
      BY <2>1, TypeInit
  <1>2. Inv /\ [Next]_vars => Inv'
    BY TypeStep, DeletionStep, FoundationStep
  <1>3. Inv => InstanceOnFoundation
    BY DEF FoundationInv
  <1> QED
    BY <1>1, <1>2, <1>3, PTL DEF Spec

-----------------------------------------------------------------------------
(* The credential goes before the child cluster.                           *)

\* The actions that write Secrets.
LEMMA OnlyPublishers ==
    ASSUME [Next]_vars
    PROVE  \/ secret' = secret
           \/ Publish \/ DeleteSecret \/ \E v \in VC : CollectSecret(v)
  <1>1. CASE Worker \/ RequestFails
    BY <1>1, ZenonT(60) DEF Worker, NothingToDo, Reconcile, ReconcileDeletion, Resolve,
       WriteFoundation, WriteInstance, createOrUpdateWork, ReadWorks, Mirror,
       Refresh, SaveStatus, Lookup, DeleteWork, RemoveFinalizer, RequestFails
  <1>2. CASE Sync \/ Resync \/ Crash \/ CellDeletion \/ DeleteCell
    BY <1>2 DEF Sync, SyncVC, SyncWork, SyncCell, SyncSecret, Resync, Crash,
       CellDeletion, HoldCell, DrainCell, ReleaseCell, DeleteCell
  <1>3. CASE \/ \E m \in MC : Rebind(m)
             \/ \E verdict \in Verdicts : CellVerdict(verdict)
             \/ \E v \in VC : \/ Create(v) \/ Delete(v) \/ CollectSecret(v)
                              \/ ChildStarts(v) \/ ChildStops(v)
    BY <1>3 DEF Rebind, CellVerdict, Create, Delete, ChildStarts, ChildStops
  <1>4. CASE \E v \in VC, k \in Kinds, m \in MC :
                \/ Apply(v, k, m) \/ Degrade(v, k, m) \/ Finalize(v, k, m)
                \/ DeleteOutOfBand(v, k, m) \/ CreateForeign(v, k, m)
    <2>1. \A v, k, m, w : SetWork(v, k, m, w) => secret' = secret
      BY DEF SetWork
    <2>2. PICK v \in VC, k \in Kinds, m \in MC :
             \/ Apply(v, k, m) \/ Degrade(v, k, m) \/ Finalize(v, k, m)
             \/ DeleteOutOfBand(v, k, m) \/ CreateForeign(v, k, m)
      BY <1>4
    <2>3. \E w : SetWork(v, k, m, w)
      <3>1. CASE Apply(v, k, m) \/ Finalize(v, k, m)
        BY <3>1, Zenon DEF Apply, Finalize
      <3>2. CASE Degrade(v, k, m)
        BY <3>2, Zenon DEF Degrade
      <3>3. CASE DeleteOutOfBand(v, k, m) \/ CreateForeign(v, k, m)
        BY <3>3, Zenon DEF DeleteOutOfBand, CreateForeign
      <3> QED
        BY <2>2, <3>1, <3>2, <3>3
    <2> QED
      BY <2>1, <2>3
  <1>5. CASE UNCHANGED vars
    BY <1>5 DEF vars
  <1> QED
    BY <1>1, <1>2, <1>3, <1>4, <1>5 DEF Next

\* Only a live round publishes, and it writes no VirtualCluster then.
LEMMA SecretStep ==
    ASSUME TypeInv, [Next]_vars, NEW v \in VC, secret'[v] = "own"
    PROVE  \/ secret[v] = "own"
           \/ round.pc = "publish" /\ round.v = v /\ vc' = vc
  <1>1. secret \in [VC -> Secrets]
    BY DEF TypeInv, TypeOK
  <1>2. CASE Publish
    BY <1>1, <1>2 DEF Publish, At
  <1>3. CASE DeleteSecret
    BY <1>1, <1>3 DEF DeleteSecret
  <1>4. CASE \E u \in VC : CollectSecret(u)
    BY <1>1, <1>4 DEF CollectSecret
  <1> QED
    BY <1>2, <1>3, <1>4, OnlyPublishers

\* MarkedInv: the Works of a VirtualCluster are being deleted only when the
\* controller knows of its deletion and no live round has it in hand.
MarkedInv ==
    \A v \in VC, k \in Kinds, m \in MC :
        OwnWork(v, k, m) /\ work[v][k][m].deleting =>
            /\ knownVC[v].meta \in {"deleting", "gone"}
            /\ ~(round.pc \in LiveSteps /\ round.v = v)

\* The steps preserve MarkedInv.
LEMMA MarkedInvStep ==
    ASSUME TypeInv, DeletionInv, MarkedInv, [Next]_vars,
           "lagWork" \notin Faults, "extDelete" \notin Faults
    PROVE  MarkedInv'
  <1>1. ASSUME NEW v \in VC, NEW k \in Kinds, NEW m \in MC,
               work'[v][k][m].owner = "own", work'[v][k][m].deleting
        PROVE  /\ knownVC'[v].meta \in {"deleting", "gone"}
               /\ ~(round'.pc \in LiveSteps /\ round'.v = v)
    <2>1. /\ knownVC[v].meta \in {"deleting", "gone"}
          /\ ~(round.pc \in LiveSteps /\ round.v = v)
      <3>1. CASE OwnWork(v, k, m) /\ work[v][k][m].deleting
        BY <3>1 DEF MarkedInv
      <3>2. CASE DeleteWork(k) /\ round.v = v /\ round.mc = m
        <4>1. round.pc \in {"delInstance", "delFoundation"}
          BY <3>2, DeleteWorkEffect
        <4> QED
          BY <3>2, <4>1 DEF DeletionInv, DeletionSteps, Removing, LiveSteps, Writing
      <3> QED
        BY <1>1, <3>1, <3>2, MarkedStep, SMT, ZenonT(60)
    <2>2. knownVC'[v].meta \in {"deleting", "gone"}
      BY <2>1, KnownDeletion
    <2>3. ~(round'.pc \in LiveSteps /\ round'.v = v)
      BY <2>1, RoundStep, ReconcileEffect
    <2> QED
      BY <2>2, <2>3
  <1> QED
    BY <1>1 DEF MarkedInv, OwnWork

\* RevokedInv: a Secret is covered by the finalizer; from the look-up on a
\* deletion round has none to leave behind; and a child cluster whose Works are
\* being deleted has none.
RevokedInv ==
    /\ \A v \in VC : secret[v] = "own" => vc[v].fin
    /\ round.pc \in Removing \cup {"lookup"} => secret[round.v] # "own"
    /\ \A v \in VC, k \in Kinds, m \in MC :
          OwnWork(v, k, m) /\ work[v][k][m].deleting => secret[v] # "own"

\* The steps preserve RevokedInv.
LEMMA RevokedStep ==
    ASSUME TypeInv, FinalizerInv, MarkedInv, RevokedInv, [Next]_vars,
           "lagWork" \notin Faults, "extDelete" \notin Faults,
           "lagSecret" \notin Faults
    PROVE  RevokedInv'
  <1>1. ASSUME NEW v \in VC, secret'[v] = "own"
        PROVE  vc'[v].fin
    <2>1. CASE secret[v] = "own"
      BY <2>1, FinalizerKept DEF RevokedInv, Removing
    <2>2. CASE round.pc = "publish" /\ round.v = v /\ vc' = vc
      BY <2>2 DEF FinalizerInv, LiveSteps, Writing
    <2> QED
      BY <1>1, <2>1, <2>2, SecretStep
  <1>2. ASSUME round'.pc \in Removing \cup {"lookup"}
        PROVE  secret'[round'.v] # "own"
    <2>1. round'.v \in VC
      BY <1>2, TypeStep DEF TypeInv, Removing
    <2>2. CASE round' = round
      BY <1>2, <2>1, <2>2, SecretStep DEF RevokedInv, Removing
    <2>3. CASE Lookup
      BY <1>2, <2>1, <2>3, LookupEffect, ZenonT(60) DEF Looks, RevokedInv
    <2>4. CASE DeleteSecret
      <3>1. round'.pc = "lookup" /\ round'.v = round.v
        BY <1>2, <2>4, DeleteSecretEffect DEF Moves, Removing
      <3>2. knownSecret = secret /\ secret \in [VC -> Secrets]
        BY DEF knownSecret, Cached, TypeInv, TypeOK
      <3> QED
        BY <2>1, <2>4, <3>1, <3>2 DEF DeleteSecret, ReturnError, Return, Idle
    <2>5. CASE \E v \in VC : Reconcile(v) \/ ReconcileDeletion(v)
      BY <1>2, <2>5, ReconcileEffect, ReconcileDeletionEffect DEF Removing
    <2>6. CASE Resolve
      BY <1>2, <2>6, ResolveEffect DEF Resolves, Removing
    <2>7. CASE WriteFoundation \/ WriteInstance
      BY <1>2, <2>7, WriteFoundationEffect, WriteInstanceEffect, ZenonT(60) DEF Puts, Moves, Removing
    <2>8. CASE ReadWorks \/ Publish \/ Mirror \/ Refresh
      BY <1>2, <2>8, ReadWorksEffect, PublishEffect, MirrorEffect, RefreshEffect
         DEF Moves, Removing
    <2>9. CASE \E k \in Kinds : DeleteWork(k)
      BY <1>2, <2>9, DeleteWorkEffect, ZenonT(60) DEF Marks, Moves, Removing
    <2> QED
      BY <1>2, <2>2, <2>3, <2>4, <2>5, <2>6, <2>7, <2>8, <2>9, OnlyRounds DEF Removing
  <1>3. ASSUME NEW v \in VC, NEW k \in Kinds, NEW m \in MC,
               work'[v][k][m].owner = "own", work'[v][k][m].deleting
        PROVE  secret'[v] # "own"
    <2>1. CASE OwnWork(v, k, m) /\ work[v][k][m].deleting
      BY <2>1, SecretStep DEF RevokedInv, MarkedInv, LiveSteps, Writing
    <2>2. CASE DeleteWork(k) /\ round.v = v
      <3>1. round.pc \in {"delInstance", "delFoundation"}
        BY <2>2, DeleteWorkEffect
      <3> QED
        BY <2>2, <3>1, SecretStep DEF RevokedInv, Removing
    <2> QED
      BY <1>3, <2>1, <2>2, MarkedStep
  <1> QED
    BY <1>1, <1>2, <1>3 DEF RevokedInv, OwnWork

\* A child cluster that is being torn down, or is gone, has no published admin
\* kubeconfig and gets none any more: no live round that read the VirtualCluster
\* before its deletion publishes it late.  Works that someone else deletes, and
\* outdated caches of Works and Secrets, are excluded; everything else may
\* happen, outdated VirtualClusters included.
THEOREM CredentialGoesFirst ==
    ASSUME "lagWork" \notin Faults, "extDelete" \notin Faults,
           "lagSecret" \notin Faults
    PROVE  Spec => []CredentialRevokedFirst
  <1> DEFINE Inv == /\ TypeInv /\ DeletionInv /\ FinalizerInv
                    /\ MarkedInv /\ RevokedInv
  <1>1. Init => Inv
    <2> SUFFICES ASSUME Init PROVE Inv
      OBVIOUS
    <2>1. \A v \in VC : secret[v] # "own"
      <3>1. CASE "foreign" \in Faults
        BY <3>1, Zenon DEF Init
      <3>2. CASE "foreign" \notin Faults
        BY <3>2, Zenon DEF Init
      <3> QED
        BY <3>1, <3>2, Zenon
    <2>2. DeletionInv /\ FinalizerInv /\ MarkedInv /\ RevokedInv
      BY <2>1, InitKnown DEF DeletionInv, FinalizerInv, MarkedInv, RevokedInv,
                             DeletionSteps, LiveSteps, Writing, Removing
    <2> QED
      BY <2>2, TypeInit
  <1>2. Inv /\ [Next]_vars => Inv'
    BY TypeStep, DeletionStep, FinalizerStep, MarkedInvStep, RevokedStep
  <1>3. Inv => CredentialRevokedFirst
    BY DEF FinalizerInv, RevokedInv, CredentialRevokedFirst, Exists
  <1> QED
    BY <1>1, <1>2, <1>3, PTL DEF Spec

-----------------------------------------------------------------------------
(* Works of another owner.                                                 *)

\* ForeignInv: nothing that belongs to someone else is being deleted, or about
\* to be.
ForeignInv ==
    /\ \A v \in VC, k \in Kinds, m \in MC :
          work[v][k][m].owner = "foreign" => ~work[v][k][m].deleting
    /\ round.pc \in Removing => \A k \in Kinds :
          work[round.v][k][round.mc].owner # "foreign"

\* A foreign Work stays as it is in every step.
LEMMA ForeignKept ==
    ASSUME TypeInv, ForeignInv, [Next]_vars, "lagWork" \notin Faults,
           NEW v \in VC, NEW k \in Kinds, NEW m \in MC, work[v][k][m].owner = "foreign"
    PROVE  work'[v][k][m] = work[v][k][m]
  <1>1. CASE work' = work
    BY <1>1
  <1>2. CASE WriteFoundation
    BY <1>2, WriteFoundationEffect, ZenonT(60) DEF Puts, OthersKept
  <1>3. CASE WriteInstance
    BY <1>3, WriteInstanceEffect, ZenonT(60) DEF Puts, OthersKept
  <1>4. CASE \E l \in Kinds : DeleteWork(l)
    <2>1. PICK l \in Kinds : DeleteWork(l)
      BY <1>4
    <2>2. /\ round.pc = IF l = "instance" THEN "delInstance" ELSE "delFoundation"
          /\ Marks(l)
      BY <2>1, DeleteWorkEffect
    <2>3. work[round.v][l][round.mc].owner # "foreign"
      BY <2>2, ZenonT(60) DEF ForeignInv, Removing
    <2> QED
      BY <2>2, <2>3, ZenonT(60) DEF Marks, OthersKept
  <1>5. ASSUME NEW u \in VC, NEW l \in Kinds, NEW n \in MC,
               \/ Apply(u, l, n) \/ Degrade(u, l, n) \/ Finalize(u, l, n)
               \/ DeleteOutOfBand(u, l, n) \/ CreateForeign(u, l, n)
        PROVE  work'[v][k][m] = work[v][k][m]
    <2>1. round' = round /\ TouchedAt(v, k, m)
      BY <1>5, TouchedWork
    <2> QED
      BY <2>1 DEF TouchedAt, ForeignInv
  <1> QED
    BY <1>1, <1>2, <1>3, <1>4, <1>5, OnlyWorkers

\* Without a race no Work becomes foreign.
LEMMA NoNewForeign ==
    ASSUME TypeInv, [Next]_vars, "foreignRace" \notin Faults,
           NEW v \in VC, NEW k \in Kinds, NEW m \in MC, work'[v][k][m].owner = "foreign"
    PROVE  work[v][k][m].owner = "foreign"
  <1>1. CASE work' = work
    BY <1>1
  <1>2. CASE WriteFoundation
    BY <1>2, WriteFoundationEffect, ZenonT(60) DEF Puts, OthersKept
  <1>3. CASE WriteInstance
    BY <1>3, WriteInstanceEffect, ZenonT(60) DEF Puts, OthersKept
  <1>4. CASE \E l \in Kinds : DeleteWork(l)
    <2>1. PICK l \in Kinds : DeleteWork(l)
      BY <1>4
    <2>2. MarkedAt(l, v, k, m)
      BY <2>1, MarkedWork
    <2> QED
      BY <2>1, <2>2 DEF MarkedAt
  <1>5. ASSUME NEW u \in VC, NEW l \in Kinds, NEW n \in MC,
               \/ Apply(u, l, n) \/ Degrade(u, l, n) \/ Finalize(u, l, n)
               \/ DeleteOutOfBand(u, l, n) \/ CreateForeign(u, l, n)
        PROVE  work[v][k][m].owner = "foreign"
    <2>1. round' = round /\ TouchedAt(v, k, m)
      BY <1>5, TouchedWork
    <2> QED
      BY <2>1 DEF TouchedAt
  <1> QED
    BY <1>1, <1>2, <1>3, <1>4, <1>5, OnlyWorkers

\* The steps preserve ForeignInv.
LEMMA ForeignStep ==
    ASSUME TypeInv, ForeignInv, [Next]_vars,
           "lagWork" \notin Faults, "foreignRace" \notin Faults
    PROVE  ForeignInv'
  <1>1. \A v \in VC, k \in Kinds, m \in MC :
           work'[v][k][m].owner = "foreign" =>
              work[v][k][m].owner = "foreign" /\ work'[v][k][m] = work[v][k][m]
    BY NoNewForeign, ForeignKept
  <1>2. round'.pc \in Removing => round'.v \in VC /\ round'.mc \in MC
    BY TypeStep DEF TypeInv, Removing
  <1>3. ASSUME round'.pc \in Removing, NEW k \in Kinds
        PROVE  work[round'.v][k][round'.mc].owner # "foreign"
    <2>1. CASE round' = round
      BY <1>3, <2>1, ZenonT(60) DEF ForeignInv
    <2>2. CASE Lookup
      <3>1. knownWork = work
        BY DEF knownWork, Cached
      <3> QED
        BY <1>3, <2>2, <3>1, LookupEffect DEF Looks, Kinds
    <2> QED
      BY <1>3, <2>1, <2>2, RemovingStep
  <1>4. ASSUME NEW v \in VC, NEW k \in Kinds, NEW m \in MC,
               work'[v][k][m].owner = "foreign"
        PROVE  ~work'[v][k][m].deleting
    BY <1>1, <1>4, SMT, ZenonT(60) DEF ForeignInv
  <1>5. ASSUME round'.pc \in Removing, NEW k \in Kinds
        PROVE  work'[round'.v][k][round'.mc].owner # "foreign"
    BY <1>1, <1>2, <1>3, <1>5
  <1> QED
    BY <1>4, <1>5 DEF ForeignInv

\* A ManifestWork of another owner under one of our names is never overwritten
\* nor deleted, as long as it is there from the start and the cache of
\* ManifestWorks is current.  (One that appears between the look-up and the
\* Delete is deleted: with "foreignRace" TLC finds ForeignUntouched violated.)
THEOREM ForeignKeptUntouched ==
    ASSUME "lagWork" \notin Faults, "foreignRace" \notin Faults
    PROVE  Spec => ForeignUntouched
  <1> DEFINE Inv == TypeInv /\ ForeignInv
             Kept == \A v \in VC, k \in Kinds, m \in MC :
                        work[v][k][m].owner = "foreign"
                        => work'[v][k][m] = work[v][k][m]
  <1>1. Init => Inv
    <2> SUFFICES ASSUME Init PROVE Inv
      OBVIOUS
    <2>1. ForeignInv
      BY InitKnown DEF ForeignInv, Removing
    <2> QED
      BY <2>1, TypeInit
  <1>2. Inv /\ [Next]_vars => Inv'
    BY TypeStep, ForeignStep
  <1>3. Inv /\ [Next]_vars => [Kept]_vars
    BY ForeignKept
  <1> QED
    BY <1>1, <1>2, <1>3, PTL DEF Spec, ForeignUntouched

-----------------------------------------------------------------------------
(* The snapshot.                                                           *)

\* FrozenInv: the snapshot a round carries is the persisted one, if any.
FrozenInv ==
    round.pc # "idle" =>
        vc[round.v].status.resolved \in {None, round.status.resolved}

\* What a step does to a persisted snapshot.
LEMMA SnapshotStep ==
    ASSUME TypeInv, FrozenInv, [Next]_vars, NEW v \in VC
    PROVE  \/ vc'[v].status.resolved = vc[v].status.resolved
           \/ vc[v].status.resolved = None
           \/ vc'[v].meta = "gone" /\ vc'[v].status.resolved = None
  <1>1. CASE vc' = vc
    BY <1>1
  <1>2. CASE \E u \in VC : Reconcile(u)
    <2> PICK u \in VC : Reconcile(u)
      BY <1>2
    <2> QED
      BY ReconcileEffect
  <1>3. CASE SaveStatus
    BY <1>3, SaveStatusEffect, ZenonT(60) DEF FrozenInv
  <1>4. CASE RemoveFinalizer
    BY <1>4, RemoveFinalizerEffect DEF Vanishes
  <1>5. CASE \E u \in VC : Create(u) \/ Delete(u)
    BY <1>5, CreateEffect, DeleteEffect DEF Vanishes
  <1> QED
    BY <1>1, <1>2, <1>3, <1>4, <1>5, OnlyWriters

\* While a round is under way only its own save writes a snapshot.
LEMMA SnapshotKept ==
    ASSUME TypeInv, [Next]_vars, round'.pc # "idle", NEW v \in VC
    PROVE  vc'[v].status.resolved \in {vc[v].status.resolved, None}
  <1>1. CASE vc' = vc
    BY <1>1
  <1>2. CASE \E u \in VC : Reconcile(u)
    <2> PICK u \in VC : Reconcile(u)
      BY <1>2
    <2> QED
      BY ReconcileEffect
  <1>3. CASE SaveStatus \/ RemoveFinalizer
    BY <1>3, SaveStatusEffect, RemoveFinalizerEffect
  <1>4. CASE \E u \in VC : Create(u) \/ Delete(u)
    BY <1>4, CreateEffect, DeleteEffect DEF Vanishes
  <1> QED
    BY <1>1, <1>2, <1>3, <1>4, OnlyWriters, ZenonT(60)

\* The steps preserve FrozenInv.
LEMMA FrozenStep ==
    ASSUME TypeInv, FrozenInv, [Next]_vars, "lagVC" \notin Faults
    PROVE  FrozenInv'
  <1>1. \A v \in VC : round'.pc # "idle" =>
           vc'[v].status.resolved \in {vc[v].status.resolved, None}
    BY SnapshotKept
  <1>2. round'.pc # "idle" => round'.v \in VC
    BY TypeStep DEF TypeInv
  <1>3. round'.pc # "idle" =>
           vc[round'.v].status.resolved \in {None, round'.status.resolved}
    <2> USE DEF FrozenInv
    <2>0. knownVC = vc
      BY DEF knownVC, Cached
    <2>1. CASE round' = round \/ round'.pc = "idle"
      BY <2>1
    <2>2. CASE \E v \in VC : Reconcile(v)
      BY <2>0, <2>2, ReconcileEffect
    <2>3. CASE \E v \in VC : ReconcileDeletion(v)
      BY <2>0, <2>3, ReconcileDeletionEffect
    <2>4. CASE Resolve
      BY <2>4, ResolveEffect DEF Resolves
    <2>5. CASE WriteFoundation \/ WriteInstance
      BY <2>5, WriteFoundationEffect, WriteInstanceEffect, ZenonT(60) DEF Puts, Moves
    <2>6. CASE ReadWorks \/ Publish \/ Mirror \/ Refresh
      BY <2>6, ReadWorksEffect, PublishEffect, MirrorEffect, RefreshEffect DEF Moves
    <2>7. CASE DeleteSecret
      BY <2>7, DeleteSecretEffect DEF Moves
    <2>8. CASE Lookup
      BY <2>8, LookupEffect DEF Looks
    <2>9. CASE \E k \in Kinds : DeleteWork(k)
      BY <2>9, DeleteWorkEffect DEF Marks, Moves, Kinds
    <2> QED
      BY <2>1, <2>2, <2>3, <2>4, <2>5, <2>6, <2>7, <2>8, <2>9, OnlyRounds, Zenon
  <1> QED
    BY <1>1, <1>2, <1>3 DEF FrozenInv

\* No round replaces the ManagedCluster persisted in status.resolved by another
\* one, whatever becomes of the Cell, as long as the rounds start from current
\* VirtualClusters.  (The run erased_snapshot shows what a round that starts
\* from an outdated one can do.)
THEOREM SnapshotFrozen ==
    ASSUME "lagVC" \notin Faults
    PROVE  Spec => ResolvedFrozen
  <1> DEFINE Inv == TypeInv /\ FrozenInv
             Kept == \A v \in VC : vc[v].status.resolved # None /\ Exists(vc'[v])
                        => vc'[v].status.resolved = vc[v].status.resolved
  <1>1. Init => Inv
    <2> SUFFICES ASSUME Init PROVE Inv
      OBVIOUS
    <2>1. FrozenInv
      BY InitKnown DEF FrozenInv
    <2> QED
      BY <2>1, TypeInit
  <1>2. Inv /\ [Next]_vars => Inv'
    BY TypeStep, FrozenStep
  <1>3. Inv /\ [Next]_vars => [Kept]_vars
    BY SnapshotStep DEF Exists
  <1> QED
    BY <1>1, <1>2, <1>3, PTL DEF Spec, ResolvedFrozen

-----------------------------------------------------------------------------
(* The mirrored Ingresses.                                                 *)

\* What a step can do to the instance Work of a VirtualCluster: keep its mirror,
\* remove it, put one of someone else in its place, or write it.
Keeps(before, after) ==
    after.mirror = before.mirror /\ after.owner = before.owner
Rewrites(after) ==
    after.owner = "own" /\ after.mirror = round.mirror

\* No field but the one it names is changed by an update of a Work.
LEMMA MirrorUpdate ==
    ASSUME NEW w \in Works
    PROVE  /\ \A x \in {[w EXCEPT !.applied = TRUE, !.failed = FALSE],
                        [w EXCEPT !.applied = FALSE], [w EXCEPT !.failed = TRUE],
                        [w EXCEPT !.deleting = TRUE]} :
                 x \in Works /\ Keeps(w, x)
           /\ \A mirror \in BOOLEAN :
                 LET x == [w EXCEPT !.owner = "own", !.mirror = mirror] IN
                 x \in Works /\ x.owner = "own" /\ x.mirror = mirror
    BY Zenon DEF Works, Keeps

\* WriteInstance writes the mirror the round has collected.
LEMMA MirrorPut ==
    ASSUME TypeInv, WriteInstance, work' # work
    PROVE  /\ round.v \in VC /\ round.mc \in MC
           /\ Rewrites(work'[round.v]["instance"][round.mc])
           /\ \A u \in VC, n \in MC : <<u, n>> # <<round.v, round.mc>> =>
                 work'[u]["instance"][n] = work[u]["instance"][n]
  <1> DEFINE current == work[round.v]["instance"][round.mc]
             new == [NoWork EXCEPT !.owner = "own", !.mirror = round.mirror]
             next == [current EXCEPT !.owner = "own", !.mirror = round.mirror]
  <1>1. /\ round.v \in VC /\ round.mc \in MC /\ round.mirror \in BOOLEAN
        /\ "instance" \in Kinds
    BY RoundStatus DEF TypeInv, WriteInstance, At, Writing, Rounds, Kinds
  <1>2. \A w \in {new, next} : w \in Works /\ Rewrites(w)
    <2>1. NoWork \in Works /\ current \in Works
      BY <1>1, BlankTypes, CurrentWork
    <2> HIDE DEF current
    <2>2. new \in Works /\ new.owner = "own" /\ new.mirror = round.mirror
      BY <1>1, <2>1, MirrorUpdate, ZenonT(60)
    <2>3. next \in Works /\ next.owner = "own" /\ next.mirror = round.mirror
      BY <1>1, <2>1, MirrorUpdate, Zenon
    <2> HIDE DEF new, next
    <2> QED
      BY <2>2, <2>3 DEF Rewrites
  <1> HIDE DEF new, next
  <1>3. \E w \in {new, next} : WritesWork(round.v, "instance", round.mc, w)
    BY ZenonT(30) DEF WriteInstance, createOrUpdateWork, WritesWork, new, next
  <1>4. PICK w \in Works : Rewrites(w) /\ WritesWork(round.v, "instance", round.mc, w)
    BY <1>2, <1>3
  <1>5. work'[round.v]["instance"][round.mc] = w /\ OthersKept(round.v, "instance", round.mc)
    BY <1>1, <1>4, WorkWrite DEF TypeInv
  <1> QED
    BY <1>1, <1>4, <1>5 DEF OthersKept

\* What every step does to the instance Works.
LEMMA MirrorStep ==
    ASSUME TypeInv, [Next]_vars, NEW v \in VC, NEW m \in MC
    PROVE  LET before == work[v]["instance"][m]
               after == work'[v]["instance"][m]
           IN \/ Keeps(before, after)
              \/ after \in {NoWork, ForeignWork}
              \/ /\ WriteInstance /\ round.v = v /\ round.mc = m
                 /\ Rewrites(after)
  <1> DEFINE before == work[v]["instance"][m]
             after == work'[v]["instance"][m]
  <1>0. "instance" \in Kinds /\ after = before => Keeps(before, after)
    BY DEF Keeps
  <1>1. CASE work' = work
    BY <1>1 DEF Keeps
  <1>2. CASE WriteFoundation
    <2>1. after = before
      BY <1>2, WriteFoundationEffect, ZenonT(60) DEF Puts, OthersKept, Kinds
    <2> QED
      BY <2>1 DEF Keeps
  <1>3. CASE WriteInstance /\ work' # work
    <2>1. CASE <<v, m>> = <<round.v, round.mc>>
      BY <1>3, <2>1, MirrorPut
    <2>2. CASE <<v, m>> # <<round.v, round.mc>>
      <3>1. after = before
        BY <1>3, <2>2, MirrorPut
      <3> QED
        BY <3>1 DEF Keeps
    <2> QED
      BY <2>1, <2>2
  <1>4. ASSUME NEW u \in VC, NEW k \in Kinds, NEW n \in MC, NEW w,
               WritesWork(u, k, n, w),
               Keeps(work[u][k][n], w) \/ w \in {NoWork, ForeignWork}, w \in Works
        PROVE  Keeps(before, after) \/ after \in {NoWork, ForeignWork}
    <2>1. work'[u][k][n] = w /\ OthersKept(u, k, n)
      BY <1>4, WorkWrite DEF TypeInv
    <2>2. after = IF v = u /\ "instance" = k /\ m = n THEN w ELSE before
      BY <2>1 DEF OthersKept, Kinds
    <2> QED
      BY <1>4, <2>2 DEF Keeps
  <1>5. CASE \E k \in Kinds : DeleteWork(k)
    <2>1. PICK k \in Kinds : DeleteWork(k)
      BY <1>5
    <2>2. round.v \in VC /\ round.mc \in MC
      BY <2>1, DeleteWorkEffect DEF TypeInv, Removing
    <2> DEFINE w == work[round.v][k][round.mc]
               next == [w EXCEPT !.deleting = TRUE]
    <2>3. next \in Works /\ Keeps(w, next)
      BY <2>2, CurrentWork, MirrorUpdate, ZenonT(60)
    <2> HIDE DEF next
    <2>4. work' = work \/ WritesWork(round.v, k, round.mc, next)
      BY <2>1 DEF DeleteWork, WritesWork, next
    <2> QED
      BY <1>1, <1>4, <2>2, <2>3, <2>4, ZenonT(60)
  <1>6. ASSUME NEW u \in VC, NEW k \in Kinds, NEW n \in MC,
               \/ Apply(u, k, n) \/ Degrade(u, k, n) \/ Finalize(u, k, n)
               \/ DeleteOutOfBand(u, k, n) \/ CreateForeign(u, k, n)
        PROVE  Keeps(before, after) \/ after \in {NoWork, ForeignWork}
    <2> DEFINE w == work[u][k][n]
               applied == [w EXCEPT !.applied = TRUE, !.failed = FALSE]
               withdrawn == [w EXCEPT !.applied = FALSE]
               failed == [w EXCEPT !.failed = TRUE]
               deleted == [w EXCEPT !.deleting = TRUE]
    <2>1. \A x \in {applied, withdrawn, failed, deleted} : x \in Works /\ Keeps(w, x)
      BY CurrentWork, MirrorUpdate, Zenon
    <2> HIDE DEF applied, withdrawn, failed, deleted
    <2>2. \E x \in {applied, withdrawn, failed, deleted, NoWork, ForeignWork} :
             SetWork(u, k, n, x)
      BY <1>6, ZenonT(60) DEF Apply, Degrade, Finalize, DeleteOutOfBand, CreateForeign,
                  applied, withdrawn, failed, deleted
    <2>3. PICK x \in {applied, withdrawn, failed, deleted, NoWork, ForeignWork} :
             WritesWork(u, k, n, x)
      BY <2>2, Zenon DEF SetWork, WritesWork
    <2> QED
      BY <1>4, <2>1, <2>3, BlankTypes
  <1> QED
    BY <1>1, <1>2, <1>3, <1>4, <1>5, <1>6, OnlyWorkers, ZenonT(60)

\* MirrorInv: where there is no instance Work there is no mirror, and a round
\* about to write one without a mirror takes none away.
MirrorInv ==
    /\ \A v \in VC, m \in MC :
          work[v]["instance"][m].owner = "none" => ~work[v]["instance"][m].mirror
    /\ round.pc = "instance" /\ ~round.mirror =>
          ~work[round.v]["instance"][round.mc].mirror

\* Only two steps lead to the write: Mirror, with the mirror collected, and
\* ReadWorks, when there is no instance Work yet.
LEMMA InstanceStep ==
    ASSUME TypeInv, MirrorInv, [Next]_vars, round'.pc = "instance",
           "backendRead" \notin Faults, "lagWork" \notin Faults
    PROVE  \/ round' = round
           \/ round'.mirror /\ work' = work
           \/ ~work[round'.v]["instance"][round'.mc].mirror /\ work' = work
  <1>1. CASE \E v \in VC : Reconcile(v) \/ ReconcileDeletion(v)
    BY <1>1, ReconcileEffect, ReconcileDeletionEffect, ZenonT(60)
  <1>2. CASE Resolve
    BY <1>2, ResolveEffect DEF Resolves
  <1>3. CASE WriteFoundation \/ WriteInstance
    BY <1>3, WriteFoundationEffect, WriteInstanceEffect, ZenonT(60) DEF Puts, Moves
  <1>4. CASE Publish \/ Refresh \/ DeleteSecret
    BY <1>4, PublishEffect, RefreshEffect, DeleteSecretEffect DEF Moves
  <1>5. CASE Lookup
    BY <1>5, LookupEffect DEF Looks, Removing
  <1>6. CASE \E k \in Kinds : DeleteWork(k)
    BY <1>6, DeleteWorkEffect DEF Marks, Moves, Removing
  <1>7. CASE ReadWorks
    <2>1. /\ work' = work /\ round'.v = round.v /\ round'.mc = round.mc
          /\ round'.v \in VC /\ round'.mc \in MC
      BY <1>7, ReadWorksEffect DEF Moves, TypeInv, Writing
    <2>2. knownWork = work
      BY DEF knownWork, Cached
    <2>3. work[round.v]["instance"][round.mc].owner = "none"
      <3> DEFINE Stops == \E status : SaveAndReturn(status, TRUE)
      <3>1. \/ Stops
            \/ \E status : Goto("publish", status)
            \/ work[round.v]["instance"][round.mc].owner = "none"
        BY <1>7, <2>2, Zenon DEF ReadWorks
      <3>2. ~Stops /\ ~(\E status : Goto("publish", status))
        BY RoundStatus, ZenonT(60) DEF SaveAndReturn, Goto, Rounds
      <3> QED
        BY <3>1, <3>2, Zenon
    <2> QED
      BY <2>1, <2>3, ZenonT(60) DEF MirrorInv
  <1>8. CASE Mirror
    <2>1. \/ Saves(round.status) \/ Saves(FinalPhase(round.status))
          \/ round' = [round EXCEPT !.pc = "instance", !.mirror = TRUE]
      BY <1>8, Zenon DEF Mirror, Saves
    <2>2. CASE Saves(round.status) \/ Saves(FinalPhase(round.status))
      BY <2>2, RoundStatus, StatusUpdate, SaveStep, Zenon DEF TypeInv
    <2>3. CASE round' = [round EXCEPT !.pc = "instance", !.mirror = TRUE]
      BY <1>8, <2>3, MirrorEffect, RoundStatus DEF Rounds
    <2> QED
      BY <2>1, <2>2, <2>3
  <1> QED
    BY <1>1, <1>2, <1>3, <1>4, <1>5, <1>6, <1>7, <1>8, OnlyRounds

\* Every step preserves the invariant.
LEMMA MirrorInvStep ==
    ASSUME TypeInv, MirrorInv, [Next]_vars,
           "backendRead" \notin Faults, "lagWork" \notin Faults
    PROVE  MirrorInv'
  <1>1. NoWork.owner = "none" /\ ~NoWork.mirror
        /\ ForeignWork.owner = "foreign" /\ ~ForeignWork.mirror
    BY DEF NoWork, ForeignWork
  <1>2. ASSUME NEW v \in VC, NEW m \in MC, work'[v]["instance"][m].owner = "none"
        PROVE  ~work'[v]["instance"][m].mirror
    BY <1>1, <1>2, MirrorStep, SMT, ZenonT(60) DEF MirrorInv, Keeps, Rewrites
  <1>3. ASSUME round'.pc = "instance", ~round'.mirror
        PROVE  ~work'[round'.v]["instance"][round'.mc].mirror
    <2>1. CASE round' = round
      <3>1. PICK v \in VC, m \in MC : v = round.v /\ m = round.mc
        BY <1>3, <2>1 DEF TypeInv, Writing
      <3>2. ~WriteInstance
        BY <1>3, <2>1, WriteInstanceEffect DEF Puts, Moves
      <3>3. ~work[v]["instance"][m].mirror
        BY <1>3, <2>1, <3>1 DEF MirrorInv
      <3> QED
        BY <1>1, <2>1, <3>1, <3>2, <3>3, MirrorStep, ZenonT(60) DEF Keeps
    <2> QED
      BY <1>3, <2>1, InstanceStep
  <1> QED
    BY <1>2, <1>3 DEF MirrorInv

\* The mirrored Ingresses are never taken out of an instance Work again, as long
\* as the Services they point to can be read and the cache of ManifestWorks is
\* current.  (An Ingress whose Service cannot be read is left out of the Work,
\* and a cache that does not show the Work yet has it written anew without.)
THEOREM MirrorsStay ==
    ASSUME "backendRead" \notin Faults, "lagWork" \notin Faults
    PROVE  Spec => MirrorKept
  <1> DEFINE Inv == TypeInv /\ MirrorInv
             Kept == \A v \in VC, m \in MC :
                        LET w == work[v]["instance"][m] IN
                        w.mirror /\ work'[v]["instance"][m].owner = "own"
                        => work'[v]["instance"][m].mirror
  <1>1. Init => Inv
    <2> SUFFICES ASSUME Init PROVE Inv
      OBVIOUS
    <2>1. \A v \in VC, m \in MC : ~work[v]["instance"][m].mirror
      <3>1. NoWork.mirror = FALSE /\ ForeignWork.mirror = FALSE
        BY DEF NoWork, ForeignWork
      <3>2. work \in [VC -> [Kinds -> [MC -> {NoWork, ForeignWork}]]]
        <4>1. CASE "foreign" \in Faults
          BY <4>1 DEF Init
        <4>2. CASE "foreign" \notin Faults
          <5>1. work \in [VC -> [Kinds -> [MC -> {NoWork}]]]
            BY <4>2 DEF Init
          <5> QED
            BY <5>1
        <4> QED
          BY <4>1, <4>2
      <3>3. \A v \in VC, m \in MC : work[v]["instance"][m] \in {NoWork, ForeignWork}
        BY <3>2 DEF Kinds
      <3> QED
        BY <3>1, <3>3, Zenon
    <2> QED
      BY <2>1, TypeInit, InitKnown DEF MirrorInv
  <1>2. Inv /\ [Next]_vars => Inv'
    BY TypeStep, MirrorInvStep
  <1>3. Inv /\ [Next]_vars => [Kept]_vars
    <2> SUFFICES ASSUME Inv, [Next]_vars, NEW v \in VC, NEW m \in MC,
                        work[v]["instance"][m].mirror,
                        work'[v]["instance"][m].owner = "own"
                 PROVE  work'[v]["instance"][m].mirror
      OBVIOUS
    <2>1. NoWork.owner # "own" /\ ForeignWork.owner # "own"
      BY DEF NoWork, ForeignWork
    <2>2. CASE Keeps(work[v]["instance"][m], work'[v]["instance"][m])
      BY <2>2 DEF Keeps
    <2>3. CASE /\ WriteInstance /\ round.v = v /\ round.mc = m
               /\ Rewrites(work'[v]["instance"][m])
      <3>1. round.mirror
        BY <2>3 DEF WriteInstance, At, MirrorInv
      <3> QED
        BY <2>3, <3>1 DEF Rewrites
    <2> QED
      BY <2>1, <2>2, <2>3, MirrorStep, SMT, ZenonT(60)
  <1> QED
    BY <1>1, <1>2, <1>3, PTL DEF Spec, MirrorKept

-----------------------------------------------------------------------------
(* The contract: every step of the lifecycle is a step of                  *)
(* ProvisioningContract or none.                                           *)

\* A step of the contract, or none.
ContractStep ==
    [Contract!Next]_<<[v \in VC |-> Life(v)], [v \in VC |-> Delivered(v)]>>

-----------------------------------------------------------------------------
(* Four ways to take a step of the contract.                               *)

\* Nothing changes but that some VirtualClusters begin to close.
LEMMA StepCloses ==
    ASSUME \A v \in VC : \/ Life(v)' = Life(v)
                         \/ Life(v) = "open" /\ Life(v)' = "closing",
           \A v \in VC : Delivered(v)' = Delivered(v)
    PROVE  ContractStep
  <1> DEFINE S == {v \in VC : Life(v)' # Life(v)}
  <1>1. [v \in VC |-> Delivered(v)]' = [v \in VC |-> Delivered(v)]
    OBVIOUS
  <1>2. CASE S = {}
    <2>1. [v \in VC |-> Life(v)]' = [v \in VC |-> Life(v)]
      BY <1>2
    <2> QED
      BY <1>1, <2>1 DEF ContractStep
  <1>3. CASE S # {}
    <2>1. Contract!BeginClosing(S)
      BY <1>1, <1>3 DEF Contract!BeginClosing
    <2> QED
      BY <2>1 DEF ContractStep, Contract!Next
  <1> QED
    BY <1>2, <1>3

\* One VirtualCluster opens, or goes with nothing left.
LEMMA StepBecomes ==
    ASSUME NEW v \in VC,
           \/ Life(v) = "absent" /\ Life(v)' = "open"
           \/ /\ Life(v) \in {"open", "closing"} /\ Life(v)' = "gone"
              /\ Delivered(v) = {},
           \A u \in VC \ {v} : Life(u)' = Life(u),
           \A u \in VC : Delivered(u)' = Delivered(u)
    PROVE  ContractStep
  <1>1. [u \in VC |-> Delivered(u)]' = [u \in VC |-> Delivered(u)]
    OBVIOUS
  <1>2. [u \in VC |-> Life(u)]' = [[u \in VC |-> Life(u)] EXCEPT ![v] = Life(v)']
    BY Zenon
  <1>3. Contract!Open(v) \/ Contract!Close(v)
    BY <1>1, <1>2, Zenon DEF Contract!Open, Contract!Close, Contract!Become
  <1> QED
    BY <1>3 DEF ContractStep, Contract!Next

\* A Work of one VirtualCluster is delivered.
LEMMA StepDelivers ==
    ASSUME NEW v \in VC, NEW k \in Kinds,
           Life(v) = "open", k \notin Delivered(v),
           k = "instance" => "foundation" \in Delivered(v),
           \A u \in VC : Life(u)' = Life(u),
           \A u \in VC \ {v} : Delivered(u)' = Delivered(u),
           Delivered(v)' = Delivered(v) \cup {k}
    PROVE  ContractStep
  <1>1. [u \in VC |-> Life(u)]' = [u \in VC |-> Life(u)]
    OBVIOUS
  <1>2. [u \in VC |-> Delivered(u)]' =
           [[u \in VC |-> Delivered(u)] EXCEPT ![v] = @ \cup {k}]
    BY Zenon
  <1>3. Contract!Deliver(v, k)
    BY <1>1, <1>2 DEF Contract!Deliver
  <1> QED
    BY <1>3 DEF ContractStep, Contract!Next, Kinds

\* A Work of one VirtualCluster is withdrawn.
LEMMA StepWithdraws ==
    ASSUME NEW v \in VC, NEW k \in Kinds,
           Life(v) = "closing", k \in Delivered(v),
           k = "foundation" => "instance" \notin Delivered(v),
           \A u \in VC : Life(u)' = Life(u),
           \A u \in VC \ {v} : Delivered(u)' = Delivered(u),
           Delivered(v)' = Delivered(v) \ {k}
    PROVE  ContractStep
  <1>1. [u \in VC |-> Life(u)]' = [u \in VC |-> Life(u)]
    OBVIOUS
  <1>2. [u \in VC |-> Delivered(u)]' =
           [[u \in VC |-> Delivered(u)] EXCEPT ![v] = @ \ {k}]
    BY Zenon
  <1>3. Contract!Withdraw(v, k)
    BY <1>1, <1>2 DEF Contract!Withdraw
  <1> QED
    BY <1>3 DEF ContractStep, Contract!Next, Kinds

-----------------------------------------------------------------------------
(* The life of a VirtualCluster, seen through the mapping.                 *)

\* A live round of v is one the mapping counts as provisioning.
LEMMA ProvisionsLive == \A v : Provisions(v) <=> round.pc \in LiveSteps /\ round.v = v
    BY DEF Provisions, LiveSteps, Writing

\* A step that creates and removes no VirtualCluster can only begin to close
\* some: a deletion becomes known, or the last live round ends.
LEMMA LifeFollows ==
    ASSUME TypeInv, DeletionInv, [Next]_vars, NEW v \in VC,
           \/ vc'[v].meta = vc[v].meta
           \/ vc[v].meta = "live" /\ vc'[v].meta = "deleting"
    PROVE  \/ Life(v)' = Life(v)
           \/ Life(v) = "open" /\ Life(v)' = "closing"
  <1>1. knownVC'[v] = knownVC[v] \/ knownVC'[v] = vc'[v]
    BY CachesStep DEF CachesFollow
  <1>2. knownVC[v].meta = "deleting" => vc[v].meta \in {"deleting", "gone"}
    BY DEF DeletionInv
  <1>3. ASSUME Provisions(v)'
        PROVE  Provisions(v) \/ knownVC'[v].meta # "deleting"
    <2>1. round'.pc \in LiveSteps /\ round'.v = v
      BY <1>3 DEF Provisions, LiveSteps, Writing
    <2>2. CASE round.pc \in LiveSteps /\ round.v = v
      BY <2>2, ProvisionsLive
    <2>3. CASE Reconcile(v)
      BY <2>3, ReconcileEffect DEF knownVC, Cached
    <2> QED
      BY <2>1, <2>2, <2>3, RoundStep, Zenon
  <1> QED
    BY <1>1, <1>2, <1>3 DEF Life, Exists

\* While vc, the caches and the live rounds stay, so does the mapping's life.
LEMMA LifeStays ==
    ASSUME UNCHANGED <<vc, seen>>,
           \A v \in VC : (Provisions(v)' <=> Provisions(v))
    PROVE  \A v \in VC : Life(v)' = Life(v)
  <1>1. knownVC' = knownVC
    BY DEF knownVC, Cached
  <1> QED
    BY <1>1 DEF Life

\* While the owners of the Works stay, so does what is delivered.
LEMMA DeliveredStays ==
    ASSUME NEW v \in VC,
           \A k \in Kinds, m \in MC : OwnWork(v, k, m)' <=> OwnWork(v, k, m)
    PROVE  Delivered(v)' = Delivered(v)
    BY DEF Delivered

-----------------------------------------------------------------------------
(* Every step keeps the contract.                                          *)

\* PlacedInv: what the proofs of NoOrphan and InstanceOnFoundation know of a
\* state, together with MarkedInv.
PlacedInv ==
    /\ TypeInv /\ RefInv /\ DeletionInv /\ FinalizerInv /\ WorkInv
    /\ FoundationInv /\ MarkedInv

\* Steps that neither create nor remove a VirtualCluster or a Work of one.
LEMMA QuietStep ==
    ASSUME PlacedInv, [Next]_vars,
           \A v \in VC, k \in Kinds, m \in MC :
              work'[v][k][m].owner = "own" <=> work[v][k][m].owner = "own",
           \A v \in VC : \/ vc'[v].meta = vc[v].meta
                         \/ vc[v].meta = "live" /\ vc'[v].meta = "deleting"
    PROVE  ContractStep
  <1>1. \A v \in VC : Delivered(v)' = Delivered(v)
    BY DeliveredStays DEF OwnWork
  <1>2. \A v \in VC : \/ Life(v)' = Life(v)
                      \/ Life(v) = "open" /\ Life(v)' = "closing"
    BY LifeFollows DEF PlacedInv
  <1> QED
    BY <1>1, <1>2, StepCloses

\* Steps that write no Work and neither create nor remove a VirtualCluster.
LEMMA WorklessStep ==
    ASSUME PlacedInv, [Next]_vars, work' = work,
           \A v \in VC : \/ vc'[v].meta = vc[v].meta
                         \/ vc[v].meta = "live" /\ vc'[v].meta = "deleting"
    PROVE  ContractStep
  <1>1. \A v \in VC, k \in Kinds, m \in MC :
           work'[v][k][m].owner = "own" <=> work[v][k][m].owner = "own"
    OBVIOUS
  <1> QED
    BY <1>1, QuietStep

\* What happens to one VirtualCluster does not change the life of another.
LEMMA OthersStay ==
    ASSUME NEW v \in VC, seen' = seen, \A u \in VC \ {v} : vc'[u] = vc[u],
           \A u \in VC : (Provisions(u)' <=> Provisions(u))
    PROVE  \A u \in VC \ {v} : Life(u)' = Life(u)
  <1>1. \A u \in VC \ {v} : knownVC'[u] = knownVC[u]
    BY DEF knownVC, Cached
  <1> QED
    BY <1>1 DEF Life

\* A VirtualCluster without Works goes.
LEMMA GoneStep ==
    ASSUME NEW v \in VC, Vanishes(v), Exists(vc[v]), UNCHANGED <<work, seen>>,
           \A u \in VC : (Provisions(u)' <=> Provisions(u)),
           \A k \in Kinds, m \in MC : ~OwnWork(v, k, m)
    PROVE  ContractStep
  <1>1. Life(v) \in {"open", "closing"} /\ Life(v)' = "gone"
    BY Zenon DEF Life, Vanishes, Exists
  <1>2. Delivered(v) = {} /\ \A u \in VC : Delivered(u)' = Delivered(u)
    BY DEF Delivered, OwnWork
  <1>3. \A u \in VC \ {v} : Life(u)' = Life(u)
    BY OthersStay DEF Vanishes
  <1> QED
    BY <1>1, <1>2, <1>3, StepBecomes

\* The steps that write VirtualClusters keep the contract.
LEMMA WriterSteps ==
    ASSUME PlacedInv, [Next]_vars,
           \/ \E v \in VC : Reconcile(v) \/ Create(v) \/ Delete(v)
           \/ SaveStatus \/ RemoveFinalizer
    PROVE  ContractStep
  <1>0. TypeInv /\ DeletionInv /\ WorkInv
    BY DEF PlacedInv
  <1>1. ASSUME NEW v \in VC, Reconcile(v) PROVE ContractStep
    <2>1. work' = work /\ \A u \in VC : vc'[u].meta = vc[u].meta
      BY <1>1, <1>0, ReconcileEffect
    <2> QED
      BY <2>1, WorklessStep
  <1>2. CASE SaveStatus
    <2>1. work' = work /\ \A u \in VC : vc'[u].meta = vc[u].meta
      BY <1>2, <1>0, SaveStatusEffect
    <2> QED
      BY <2>1, WorklessStep
  <1>3. ASSUME NEW v \in VC, Create(v) PROVE ContractStep
    <2>1. /\ UNCHANGED <<work, seen, round>>
          /\ vc[v].meta = "absent" /\ vc'[v].meta = "live"
          /\ \A u \in VC \ {v} : vc'[u] = vc[u]
      BY <1>3, <1>0, CreateEffect
    <2>2. knownVC'[v].meta # "deleting"
      <3>1. knownVC[v].meta # "deleting"
        BY <1>0, <2>1 DEF DeletionInv
      <3> QED
        BY <2>1, <3>1 DEF knownVC, Cached
    <2>3. Life(v) = "absent" /\ Life(v)' = "open"
      BY <2>1, <2>2 DEF Life, Exists
    <2>4. \A u \in VC \ {v} : Life(u)' = Life(u)
      BY <2>1, OthersStay DEF Provisions
    <2>5. \A u \in VC : Delivered(u)' = Delivered(u)
      BY <2>1 DEF Delivered, OwnWork
    <2> QED
      BY <2>3, <2>4, <2>5, StepBecomes
  <1>4. ASSUME NEW v \in VC, Delete(v) PROVE ContractStep
    <2>1. UNCHANGED <<work, seen, round>> /\ vc[v].meta = "live"
      BY <1>4, <1>0, DeleteEffect
    <2>2. CASE ~vc[v].fin /\ Vanishes(v)
      <3>1. \A k \in Kinds, m \in MC : ~OwnWork(v, k, m)
        BY <1>0, <2>2 DEF WorkInv
      <3> QED
        BY <2>1, <2>2, <3>1, GoneStep DEF Exists, Provisions
    <2>3. CASE vc'[v].meta = "deleting" /\ \A u \in VC \ {v} : vc'[u] = vc[u]
      BY <2>1, <2>3, WorklessStep
    <2> QED
      BY <1>4, <2>2, <2>3, <1>0, DeleteEffect
  <1>5. CASE RemoveFinalizer
    <2>1. /\ UNCHANGED <<work, seen>> /\ round.v \in VC
          /\ round.pc = "removeFinalizer" /\ round'.pc = "idle"
          /\ vc' = vc \/ Vanishes(round.v)
      BY <1>5, <1>0, RemoveFinalizerEffect DEF TypeInv
    <2>2. vc[round.v].meta \in {"deleting", "gone"}
      BY <1>0, <2>1 DEF DeletionInv, DeletionSteps, Removing
    <2>3. \A u \in VC : ~Provisions(u) /\ ~Provisions(u)'
      BY <2>1 DEF Provisions
    <2>4. CASE vc' = vc \/ vc[round.v].meta = "gone"
      <3>1. \A u \in VC : vc'[u].meta = vc[u].meta
        BY <2>1, <2>4 DEF Vanishes
      <3> QED
        BY <2>1, <3>1, WorklessStep
    <2>5. CASE Vanishes(round.v) /\ vc[round.v].meta = "deleting"
      <3>1. \A k \in Kinds, m \in MC : ~OwnWork(round.v, k, m)
        BY <1>0, <2>1 DEF WorkInv
      <3> QED
        BY <2>1, <2>3, <2>5, <3>1, GoneStep DEF Exists
    <2> QED
      BY <2>1, <2>2, <2>4, <2>5
  <1> QED
    BY <1>1, <1>2, <1>3, <1>4, <1>5

\* A write of a Work by a live round delivers it, or finds it delivered.
LEMMA PutSteps ==
    ASSUME PlacedInv, [Next]_vars, NEW k \in Kinds, NEW pc \in {"works", "refresh"},
           Puts(k, pc), round.pc \in Writing,
           k = "instance" => OwnWork(round.v, "foundation", round.mc)
    PROVE  ContractStep
  <1>1. PICK v \in VC : v = round.v /\ round.mc \in MC
    BY DEF PlacedInv, TypeInv, Writing
  <1>2. CASE work' = work
    BY <1>2, WorklessStep DEF Puts
  <1>3. CASE /\ Moves({pc}) /\ round'.pc = pc
             /\ work'[v][k][round.mc].owner = "own"
             /\ OthersKept(v, k, round.mc)
    <2>1. round'.v = v /\ round'.pc \in Writing
      BY <1>1, <1>3 DEF Moves, Writing
    <2>2. \A u \in VC : Life(u)' = Life(u)
      <3>1. \A u \in VC : Provisions(u)' <=> Provisions(u)
        BY <1>1, <2>1 DEF Provisions, Writing
      <3> QED
        BY <3>1, LifeStays, Zenon DEF Puts
    <2>3. Life(v) = "open"
      <3>1. Exists(vc[v])
        BY <1>1 DEF PlacedInv, FinalizerInv, LiveSteps
      <3> QED
        BY <1>1, <3>1, ProvisionsLive DEF Life, LiveSteps
    <2>4. \A u \in VC \ {v} : Delivered(u)' = Delivered(u)
      <3>1. \A u \in VC \ {v}, l \in Kinds, n \in MC : work'[u][l][n] = work[u][l][n]
        BY <1>3 DEF OthersKept
      <3> QED
        BY <3>1, SMT, ZenonT(60) DEF Delivered, OwnWork
    <2>5. Delivered(v)' = Delivered(v) \cup {k}
      <3>1. \A l \in Kinds : l # k => \A n \in MC : work'[v][l][n] = work[v][l][n]
        BY <1>1, <1>3 DEF OthersKept
      <3>2. \A l \in Kinds : l \in Delivered(v)' <=> l \in Delivered(v) \/ l = k
        <4>1. \A l \in Kinds : l # k => (l \in Delivered(v)' <=> l \in Delivered(v))
          BY <3>1, ZenonT(60) DEF Delivered, OwnWork
        <4>2. k \in Delivered(v)'
          BY <1>1, <1>3 DEF Delivered, OwnWork
        <4> QED
          BY <4>1, <4>2
      <3>3. Delivered(v) \subseteq Kinds /\ Delivered(v)' \subseteq Kinds
        BY DEF Delivered
      <3> QED
        BY <3>2, <3>3
    <2>6. CASE k \in Delivered(v)
      <3>1. \A u \in VC : Delivered(u)' = Delivered(u)
        BY <2>4, <2>5, <2>6
      <3> QED
        BY <2>2, <3>1, StepCloses
    <2>7. CASE k \notin Delivered(v)
      <3>1. k = "instance" => "foundation" \in Delivered(v)
        BY <1>1 DEF Delivered, Kinds
      <3> QED
        BY <1>1, <2>2, <2>3, <2>4, <2>5, <2>7, <3>1, StepDelivers
    <2> QED
      BY <2>6, <2>7
  <1> QED
    BY <1>1, <1>2, <1>3, ZenonT(60) DEF Puts

\* The removal of a Work that was being deleted withdraws it.
LEMMA FinalizeSteps ==
    ASSUME PlacedInv, [Next]_vars, NEW v \in VC, NEW k \in Kinds, NEW m \in MC,
           Finalize(v, k, m)
    PROVE  ContractStep
  <1>0. TypeInv
    BY DEF PlacedInv
  <1>1. /\ UNCHANGED <<vc, seen, round>>
        /\ OthersKept(v, k, m)
        /\ work[v][k][m].deleting /\ work'[v][k][m].owner = "none"
    BY <1>0, FinalizeEffect, Zenon DEF Touches
  <1>2. CASE work[v][k][m].owner # "own"
    <2>1. \A u \in VC, l \in Kinds, n \in MC :
             work'[u][l][n].owner = "own" <=> work[u][l][n].owner = "own"
      <3> SUFFICES ASSUME NEW u \in VC, NEW l \in Kinds, NEW n \in MC
                   PROVE  work'[u][l][n].owner = "own" <=> work[u][l][n].owner = "own"
        OBVIOUS
      <3>1. CASE u = v /\ l = k /\ n = m
        BY <1>1, <1>2, <3>1
      <3>2. CASE ~(u = v /\ l = k /\ n = m)
        BY <1>1, <3>2 DEF OthersKept
      <3> QED
        BY <3>1, <3>2
    <2> QED
      BY <1>1, <2>1, QuietStep
  <1>3. CASE work[v][k][m].owner = "own"
    <2>1. OwnWork(v, k, m)
      BY <1>3 DEF OwnWork
    <2>2. Life(v) = "closing"
      <3>1. Exists(vc[v])
        BY <2>1, Zenon DEF PlacedInv, WorkInv, FinalizerInv
      <3>2. /\ knownVC[v].meta \in {"deleting", "gone"}
            /\ ~(round.pc \in LiveSteps /\ round.v = v)
        BY <1>1, <2>1, Zenon DEF PlacedInv, MarkedInv
      <3>3. knownVC[v].meta = "deleting"
        BY <3>1, <3>2 DEF PlacedInv, DeletionInv, Exists
      <3> QED
        BY <3>1, <3>2, <3>3, ProvisionsLive DEF Life
    <2>3. \A l \in Kinds, n \in MC : OwnWork(v, l, n) => n = m
      BY <2>1 DEF PlacedInv, WorkInv
    <2>4. k \in Delivered(v)
      BY <2>1 DEF Delivered
    <2>5. k = "foundation" => "instance" \notin Delivered(v)
      BY <1>1, <2>1, <2>3 DEF PlacedInv, FoundationInv, Delivered, Kinds
    <2>6. \A u \in VC : Life(u)' = Life(u)
      <3>1. \A u \in VC : Provisions(u)' <=> Provisions(u)
        BY <1>1 DEF Provisions
      <3> QED
        BY <1>1, <3>1, LifeStays
    <2>7. \A u \in VC \ {v} : Delivered(u)' = Delivered(u)
      <3>1. \A u \in VC \ {v}, l \in Kinds, n \in MC : work'[u][l][n] = work[u][l][n]
        BY <1>1 DEF OthersKept
      <3> QED
        BY <3>1 DEF Delivered, OwnWork
    <2>8. Delivered(v)' = Delivered(v) \ {k}
      <3>1. \A l \in Kinds : l \in Delivered(v)' <=> l \in Delivered(v) /\ l # k
        <4>1. \A l \in Kinds : l # k => \A n \in MC : work'[v][l][n] = work[v][l][n]
          BY <1>1 DEF OthersKept
        <4>2. \A n \in MC : n # m => work'[v][k][n] = work[v][k][n]
          BY <1>1 DEF OthersKept
        <4>3. \A l \in Kinds : l # k => (l \in Delivered(v)' <=> l \in Delivered(v))
          BY <4>1, ZenonT(60) DEF Delivered, OwnWork
        <4>4. \A n \in MC : ~OwnWork(v, k, n)'
          BY <1>1, <2>3, <4>2, ZenonT(60) DEF OwnWork
        <4>5. k \notin Delivered(v)'
          BY <4>4 DEF Delivered
        <4> QED
          BY <4>3, <4>5
      <3>2. Delivered(v) \subseteq Kinds /\ Delivered(v)' \subseteq Kinds
        BY DEF Delivered
      <3> QED
        BY <3>1, <3>2
    <2> QED
      BY <2>2, <2>4, <2>5, <2>6, <2>7, <2>8, StepWithdraws
  <1> QED
    BY <1>2, <1>3

\* The other steps that write Works change no owner.
LEMMA ReportSteps ==
    ASSUME PlacedInv, [Next]_vars, "extDelete" \notin Faults,
           \/ \E k \in Kinds : DeleteWork(k)
           \/ \E v \in VC, k \in Kinds, m \in MC :
                 \/ Apply(v, k, m) \/ Degrade(v, k, m)
                 \/ DeleteOutOfBand(v, k, m) \/ CreateForeign(v, k, m)
    PROVE  ContractStep
  <1>0. TypeInv
    BY DEF PlacedInv
  <1>1. CASE \E k \in Kinds : DeleteWork(k)
    <2>1. vc' = vc /\ \A v \in VC, l \in Kinds, m \in MC :
             work'[v][l][m].owner = "own" <=> work[v][l][m].owner = "own"
      <3>1. vc' = vc
        BY <1>0, <1>1, DeleteWorkEffect, ZenonT(60) DEF Marks
      <3>2. ASSUME NEW v \in VC, NEW l \in Kinds, NEW m \in MC
            PROVE  work'[v][l][m].owner = "own" <=> work[v][l][m].owner = "own"
        <4>1. PICK k \in Kinds : DeleteWork(k)
          BY <1>1
        <4>2. MarkedAt(k, v, l, m)
          BY <1>0, <4>1, MarkedWork
        <4> QED
          BY <4>2 DEF MarkedAt
      <3> QED
        BY <3>1, <3>2
    <2> QED
      BY <2>1, QuietStep, Zenon
  <1>2. ASSUME NEW v \in VC, NEW k \in Kinds, NEW m \in MC,
               \/ Apply(v, k, m) \/ Degrade(v, k, m)
               \/ DeleteOutOfBand(v, k, m) \/ CreateForeign(v, k, m)
        PROVE  ContractStep
    <2>1. vc' = vc /\ \A u \in VC, l \in Kinds, n \in MC :
             work'[u][l][n].owner = "own" <=> work[u][l][n].owner = "own"
      <3>1. Touches(v, k, m)
        BY <1>0, <1>2, ReportEffect, DeleteOutOfBandEffect, CreateForeignEffect, ZenonT(60)
      <3>2. work'[v][k][m].owner = "own" <=> work[v][k][m].owner = "own"
        <4>1. CASE Apply(v, k, m) \/ Degrade(v, k, m)
          BY <1>0, <4>1, ReportEffect, Zenon
        <4>2. CASE DeleteOutOfBand(v, k, m)
          BY <1>0, <4>2, DeleteOutOfBandEffect
        <4>3. CASE CreateForeign(v, k, m)
          BY <1>0, <4>3, CreateForeignEffect
        <4> QED
          BY <1>2, <4>1, <4>2, <4>3, Zenon
      <3>3. vc' = vc /\ OthersKept(v, k, m)
        BY <3>1 DEF Touches
      <3>4. ASSUME NEW u \in VC, NEW l \in Kinds, NEW n \in MC
            PROVE  work'[u][l][n].owner = "own" <=> work[u][l][n].owner = "own"
        <4>1. CASE u = v /\ l = k /\ n = m
          BY <3>2, <4>1
        <4>2. CASE ~(u = v /\ l = k /\ n = m)
          BY <3>3, <4>2, Zenon DEF OthersKept
        <4> QED
          BY <4>1, <4>2
      <3> QED
        BY <3>3, <3>4
    <2> QED
      BY <2>1, QuietStep, ZenonT(60)
  <1> QED
    BY <1>1, <1>2

-----------------------------------------------------------------------------
(* The refinement.                                                         *)

\* In every state that PlacedInv describes the steps keep the contract.
LEMMA EveryStep ==
    ASSUME PlacedInv, [Next]_vars, "extDelete" \notin Faults
    PROVE  ContractStep
  <1>0. TypeInv
    BY DEF PlacedInv
  <1>1. CASE vc' # vc
    BY <1>0, <1>1, OnlyWriters, WriterSteps
  <1>2. CASE vc' = vc /\ work' = work
    BY <1>2, WorklessStep
  <1>3. CASE vc' = vc /\ work' # work
    <2>1. CASE WriteFoundation
      <3>1. Puts("foundation", "works") /\ round.pc = "foundation"
        BY <1>0, <2>1, WriteFoundationEffect
      <3> QED
        BY <3>1, PutSteps DEF Kinds, Writing
    <2>2. CASE WriteInstance
      <3>1. Puts("instance", "refresh") /\ round.pc = "instance"
        BY <1>0, <2>2, WriteInstanceEffect
      <3>2. OwnWork(round.v, "foundation", round.mc)
        BY <3>1 DEF PlacedInv, FoundationInv, Writing
      <3> QED
        BY <3>1, <3>2, PutSteps DEF Kinds, Writing
    <2>3. CASE \E v \in VC, k \in Kinds, m \in MC : Finalize(v, k, m)
      BY <2>3, FinalizeSteps
    <2>4. CASE \/ \E k \in Kinds : DeleteWork(k)
               \/ \E v \in VC, k \in Kinds, m \in MC :
                     \/ Apply(v, k, m) \/ Degrade(v, k, m)
                     \/ DeleteOutOfBand(v, k, m) \/ CreateForeign(v, k, m)
      BY <2>4, ReportSteps
    <2> QED
      BY <1>0, <1>3, <2>1, <2>2, <2>3, <2>4, OnlyWorkers
  <1> QED
    BY <1>1, <1>2, <1>3

\* The controllers keep the provisioning contract: Works are delivered only to a
\* VirtualCluster that is open, foundation first, withdrawn only from one that
\* is closing, foundation last, and none is left when it is gone, under any
\* crashes, failures and outdated VirtualClusters and Cells, as long as the
\* Cell's reference stays, the cache of ManifestWorks is current and nobody else
\* deletes them.
THEOREM ContractKept ==
    ASSUME "rebind" \notin Faults, "lagWork" \notin Faults, "extDelete" \notin Faults
    PROVE  Spec => KeepsContract
  <1>1. Init => PlacedInv
    <2> SUFFICES ASSUME Init PROVE PlacedInv
      OBVIOUS
    <2>1. /\ RefInv /\ DeletionInv /\ FinalizerInv /\ WorkInv
          /\ FoundationInv /\ MarkedInv
      BY InitKnown, Zenon DEF RefInv, DeletionInv, FinalizerInv, WorkInv, FoundationInv,
         InstanceOnFoundation, MarkedInv, DeletionSteps, LiveSteps, Writing,
         Removing, Kinds
    <2> QED
      BY <2>1, TypeInit DEF PlacedInv
  <1>2. PlacedInv /\ [Next]_vars => PlacedInv'
    BY TypeStep, RefStep, DeletionStep, FinalizerStep, WorkStep, FoundationStep,
       MarkedInvStep DEF PlacedInv
  <1>3. Init => Contract!Init
    <2> SUFFICES ASSUME Init PROVE Contract!Init
      OBVIOUS
    <2>1. \A v \in VC : Life(v) = "absent" /\ Delivered(v) = {}
      BY InitKnown, Zenon DEF Life, Delivered, Exists
    <2> QED
      BY <2>1 DEF Contract!Init
  <1>4. PlacedInv /\ [Next]_vars =>
           [Contract!Next]_<<[v \in VC |-> Life(v)], [v \in VC |-> Delivered(v)]>>
    BY EveryStep DEF ContractStep
  <1> QED
    BY <1>1, <1>2, <1>3, <1>4, PTL DEF Spec, KeepsContract, Contract!Spec
==============================================================================
