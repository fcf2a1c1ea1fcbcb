--------------------------- MODULE CellController ---------------------------
(***************************************************************************)
(* CellReconciler.Reconcile for a Cell that is not being deleted: it reads *)
(* the ManagedCluster and its lease, the host baseline, the                *)
(* VirtualClusters, the Nodes, the Pods, the storage objects and the       *)
(* Services one after the other, while they change, and then writes the    *)
(* whole status.                                                           *)
(***************************************************************************)
EXTENDS Feasibility, FiniteSets

CONSTANTS
    Tenant,         \* the VirtualClusters that refer to the Cell
    Allocatable,    \* what a Node can allocate of the aggregate resource
    Devices,        \* and of the device
    PodRequest      \* what the Pods of a VirtualCluster request in aggregate

ASSUME QuantityAssumption ==
    /\ Allocatable \in Nat \ {0} /\ Devices \in Nat \ {0} /\ PodRequest \in Nat
    /\ IsFiniteSet(Node) /\ IsFiniteSet(Tenant)

VARIABLES
    managedCluster, \* what OCM says of the host
    host,           \* the host's Nodes and components
    pod,            \* the host Pods of every VirtualCluster (one stands for all)
    tenant,         \* the VirtualCluster objects
    cellStatus,     \* status of the Cell
    cellRound,      \* the round of the Cell controller
    evidence        \* history: what the round that wrote the status had found

ManagedClusters == {"absent", "unjoined", "unavailable", "leaseStale",
                    "available"}

\* "uncertified": Ready, but without a TopoLVM capacity annotation.  "notReady"
\* stands for a Node without the profile label or a declared device as well.
NodeStates == {"ready", "uncertified", "notReady"}

Hosts == [node : [Node -> NodeStates],
          baseline : BOOLEAN, reachable : BOOLEAN, portsFree : BOOLEAN]

\* "none": there is no Pod, or it is over (Succeeded or Failed).
Pods == [phase : {"none", "Pending", "Running"}, node : Node]

Tenants == [life : {"absent", "live", "gone"}, resolved : BOOLEAN,
            works : BOOLEAN, phase : {"", "Degraded", "Failed", "Provisioned"}]

\* What a round can find in order, and has to for the Cell to take a
\* VirtualCluster.
Facts == {"managed", "baseline", "nodes", "storage", "ports", "capacity"}

\* status is the copy the round works on, found a history of what it has seen.
Rounds == [pc : {"idle", "nodes", "project"}, status : CellStatuses,
           names : SUBSET Tenant, found : SUBSET Facts,
           nodes : [Node -> NodeStates]]

NewStatus ==
    [phase |-> "Pending", joined |-> FALSE, available |-> FALSE,
     leaseFresh |-> FALSE, provider |-> FALSE, version |-> FALSE,
     inventoryFresh |-> FALSE, allocatable |-> 0, availableEstimate |-> 0,
     nodes |-> [n \in Node |-> [ready |-> FALSE, device |-> 0]],
     storage |-> "absent", nodePorts |-> "stale"]

IdleRound == [pc |-> "idle", status |-> NewStatus, names |-> {}, found |-> {},
              nodes |-> [n \in Node |-> "notReady"]]

managedClusterLeaseFresh == managedCluster \in {"available", "unavailable"}

-----------------------------------------------------------------------------
(* projectInventory.                                                       *)

\* Pods that count as requested: of a VirtualCluster of this Cell, and neither
\* Pending nor over.
ActivePods(names) == {v \in names : pod[v].phase = "Running"}

ReadyNodes(nodes) == {n \in Node : nodes[n] \in {"ready", "uncertified"}}

\* Mutant: what is overcommitted becomes negative.
EstimateUnclamped(allocatable, requested) == allocatable - requested

Estimate(allocatable, requested) ==
    IF allocatable < requested THEN 0 ELSE allocatable - requested

\* The resource totals and the Nodes, from the Nodes read before and the Pods.
WithNodes(status, nodes, names) ==
    LET allocatable == Allocatable * Cardinality(ReadyNodes(nodes))
        requested == PodRequest * Cardinality(ActivePods(names))
    IN [status EXCEPT
          !.allocatable = allocatable,
          !.availableEstimate = Estimate(allocatable, requested),
          !.storage = "absent",
          !.nodes = [n \in Node |->
             IF n \in ReadyNodes(nodes)
             THEN [ready |-> TRUE,
                   device |-> Devices - DeviceRequest * Cardinality(
                                {v \in ActivePods(names) : pod[v].node = n})]
             ELSE [ready |-> FALSE, device |-> 0]]]

\* Free capacity is known only if every eligible Node reports it.
projectStorageInventory(status, nodes) ==
    IF \E n \in ReadyNodes(nodes) : nodes[n] = "uncertified"
    THEN [status EXCEPT !.storage = "unknown", !.inventoryFresh = FALSE]
    ELSE [status EXCEPT !.storage = "known"]

projectNodePorts(status) ==
    [status EXCEPT !.nodePorts = IF host.portsFree THEN "free"
                                 ELSE "exhausted"]

\* Where the projection ends, and the status it leaves.  Without a Ready Node
\* and after a failed read of the Services the InventoryFresh condition keeps
\* the value of an earlier round.
projectInventory(round) ==
    LET projected == WithNodes(round.status, round.nodes, round.names)
        stored == projectStorageInventory(projected, round.nodes)
    IN IF ReadyNodes(round.nodes) = {} THEN {<<FALSE, projected>>}
       ELSE IF ~host.reachable THEN
         {<<FALSE, [projected EXCEPT !.inventoryFresh = FALSE]>>,
          IF stored.storage = "unknown" THEN <<FALSE, stored>>
          ELSE <<FALSE, [stored EXCEPT !.nodePorts = "stale"]>>}
       ELSE IF stored.storage = "unknown" THEN {<<FALSE, stored>>}
       ELSE {<<TRUE, [projectNodePorts(stored) EXCEPT
                        !.inventoryFresh = TRUE]>>}

-----------------------------------------------------------------------------
(* The round.                                                              *)

outside == <<managedCluster, host, pod, tenant>>

\* updateCellStatus: the whole status is replaced.
updateCellStatus(status, found) ==
    cellStatus' = status /\ cellRound' = IdleRound /\ evidence' = found

\* Facts that hold of the host itself, for the history.
When(fact, condition) == IF condition THEN {fact} ELSE {}

ManagedFacts ==
    When("managed", managedCluster = "available")
    \cup When("baseline", host.reachable /\ host.baseline)

HostFacts(nodes, names) ==
    When("nodes", ReadyNodes(nodes) # {})
    \cup When("storage", \A n \in ReadyNodes(nodes) : nodes[n] = "ready")
    \cup When("ports", host.reachable /\ host.portsFree)
    \cup When("capacity",
              PodRequest * Cardinality(ActivePods(names)) + Envelope
              <= Allocatable * Cardinality(ReadyNodes(nodes)))

\* Mutant: the phase of the round before is kept.
ManagedClusterForgotten ==
    /\ cellRound.pc = "idle" /\ managedCluster = "absent"
    /\ updateCellStatus([cellStatus EXCEPT
          !.joined = FALSE, !.available = FALSE, !.leaseFresh = FALSE], {})
    /\ UNCHANGED outside

\* The referenced ManagedCluster does not exist.
ManagedClusterNotFound ==
    /\ cellRound.pc = "idle" /\ managedCluster = "absent"
    /\ updateCellStatus([cellStatus EXCEPT
          !.phase = "Degraded", !.joined = FALSE, !.available = FALSE,
          !.leaseFresh = FALSE], {})
    /\ UNCHANGED outside

\* The status after the reads of the ManagedCluster, its lease and the host
\* baseline; the baseline cannot be read from a host that is not reachable.
Observed ==
    [cellStatus EXCEPT
        !.joined = managedCluster # "unjoined",
        !.available = managedCluster = "available",
        !.leaseFresh = managedClusterLeaseFresh,
        !.provider = host.reachable /\ host.baseline,
        !.version = TRUE]

BeginRound ==
    /\ cellRound.pc = "idle" /\ managedCluster # "absent"
    /\ cellRound' = [IdleRound EXCEPT
          !.pc = "nodes", !.status = Observed, !.found = ManagedFacts,
          !.names = {v \in Tenant : tenant[v].life = "live"
                                    /\ tenant[v].resolved}]
    /\ UNCHANGED <<cellStatus, evidence, outside>>

\* Mutant: the verdict on the inventory is kept when the list fails.
ListFailsQuietly ==
    /\ cellRound.pc = "nodes"
    /\ updateCellStatus(cellRound.status, cellRound.found)
    /\ UNCHANGED outside

\* The VirtualClusters cannot be listed: the status is saved with the phase of
\* the round before.
VirtualClusterListFails ==
    /\ cellRound.pc = "nodes"
    /\ updateCellStatus([cellRound.status EXCEPT !.inventoryFresh = FALSE],
                        cellRound.found)
    /\ UNCHANGED outside

\* The round ends: the Cell is Ready when everything was found in order.
Conclude(status, inventoryReady, found) ==
    updateCellStatus([status EXCEPT
        !.phase = IF status.joined /\ status.available /\ status.provider
                     /\ inventoryReady
                  THEN "Ready" ELSE "Degraded"], found)

HostReadFails ==
    /\ cellRound.pc \in {"nodes", "project"} /\ ~host.reachable
    /\ Conclude([cellRound.status EXCEPT !.inventoryFresh = FALSE], FALSE,
                cellRound.found)
    /\ UNCHANGED outside

ListNodes ==
    /\ cellRound.pc = "nodes" /\ host.reachable
    /\ cellRound' = [cellRound EXCEPT !.pc = "project", !.nodes = host.node]
    /\ UNCHANGED <<cellStatus, evidence, outside>>

\* The Pods are listed and everything is projected.  When the host is lost only
\* after the Pods were listed, the storage objects or the Services are missed.
ProjectInventory ==
    /\ cellRound.pc = "project"
    /\ \E result \in projectInventory(cellRound) :
          Conclude(result[2], result[1], cellRound.found
                   \cup HostFacts(cellRound.nodes, cellRound.names))
    /\ UNCHANGED outside

\* A request fails or the manager restarts; nothing has been written.
RoundLost ==
    /\ cellRound.pc # "idle"
    /\ cellRound' = IdleRound
    /\ UNCHANGED <<cellStatus, evidence, outside>>

CellStep ==
    ManagedClusterNotFound \/ BeginRound \/ HostReadFails \/ ListNodes
    \/ ProjectInventory
=============================================================================
