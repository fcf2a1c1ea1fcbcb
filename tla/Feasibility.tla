---------------------------- MODULE Feasibility ----------------------------
(***************************************************************************)
(* evaluateVirtualClusterPlan: the checks that the VirtualCluster          *)
(* controller and the VirtualClusterPlan controller run on the status of a *)
(* Cell.  One resource stands for those that are compared in aggregate     *)
(* (CPU, memory, ephemeral storage), one device for those that must fit on *)
(* a single Node, one StorageClass for the class's approved one.           *)
(***************************************************************************)
EXTENDS Integers

CONSTANTS
    Node,           \* the host's Nodes
    Envelope,       \* requests plus reservation of a VirtualCluster
    DeviceRequest   \* devices it is entitled to

ASSUME EnvelopeAssumption == Envelope \in Nat /\ DeviceRequest \in Nat

CheckStatuses == {"Passed", "Failed", "Unknown"}
Decisions == {"Rejected", "Unknown", "Accepted"}

\* What projectInventory leaves in a Cell's status of one Node.
NodeStatuses == [ready : BOOLEAN, device : Int]

\* The part of a Cell's status that the evaluator reads.
CellStatuses ==
    [phase : {"Pending", "Ready", "Degraded"},
     joined : BOOLEAN, available : BOOLEAN, leaseFresh : BOOLEAN,
     provider : BOOLEAN, version : BOOLEAN, inventoryFresh : BOOLEAN,
     allocatable : Nat, availableEstimate : Nat,
     nodes : [Node -> NodeStatuses],
     storage : {"absent", "unknown", "known"},
     nodePorts : {"stale", "free", "exhausted"}]

PassedOrUnknown(condition) == IF condition THEN "Passed" ELSE "Unknown"

cellAvailabilityCheck(cell) ==
    PassedOrUnknown(cell.phase = "Ready" /\ cell.joined /\ cell.available)

leaseFreshnessCheck(cell) == PassedOrUnknown(cell.leaseFresh)

hostBaselineCheck(cell) == PassedOrUnknown(cell.provider)

inventoryFreshnessCheck(cell) == PassedOrUnknown(cell.inventoryFresh)

\* The version in the status is the locked constant once a round has run, so
\* the check can be Unknown but never Failed.
lockedVersionCheck(cell) == PassedOrUnknown(cell.version)

capacityCheck(cell) ==
    IF cell.allocatable = 0 /\ cell.availableEstimate = 0 THEN "Unknown"
    ELSE IF cell.availableEstimate < Envelope THEN "Failed" ELSE "Passed"

acceleratorCheck(cell) ==
    LET matched == {n \in Node : cell.nodes[n].ready} IN
    IF DeviceRequest = 0
       \/ \E n \in matched : cell.nodes[n].device >= DeviceRequest
    THEN "Passed"
    ELSE IF matched = {} THEN "Unknown" ELSE "Failed"

storageCheck(cell) == PassedOrUnknown(cell.storage = "known")

nodePortCheck(cell) ==
    CASE cell.nodePorts = "stale" -> "Unknown"
      [] cell.nodePorts = "exhausted" -> "Failed"
      [] cell.nodePorts = "free" -> "Passed"

checks(cell) ==
    {cellAvailabilityCheck(cell), leaseFreshnessCheck(cell),
     hostBaselineCheck(cell), inventoryFreshnessCheck(cell),
     lockedVersionCheck(cell), capacityCheck(cell), acceleratorCheck(cell),
     storageCheck(cell), nodePortCheck(cell)}

finalizePlanEvaluation(results) ==
    IF "Failed" \in results THEN "Rejected"
    ELSE IF "Unknown" \in results \/ results = {} THEN "Unknown"
    ELSE "Accepted"

evaluateVirtualClusterPlan(cell) == finalizePlanEvaluation(checks(cell))
=============================================================================
