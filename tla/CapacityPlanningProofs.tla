----------------------- MODULE CapacityPlanningProofs -----------------------
(***************************************************************************)
(* That nothing is provisioned or promised on evidence pieced together from *)
(* several rounds of the Cell controller, for all Nodes, VirtualClusters    *)
(* and quantities.                                                         *)
(***************************************************************************)
EXTENDS CapacityPlanning, FiniteSetTheorems, TLAPS

\* What the running round has read so far is what its copy of the status says.
RoundOnEvidence ==
    cellRound.pc # "idle" =>
      /\ cellRound.status.available => "managed" \in cellRound.found
      /\ cellRound.status.provider => "baseline" \in cellRound.found

\* A status that passes the evaluator was written by a round that found
\* everything in order.
StatusOnEvidence ==
    evaluateVirtualClusterPlan(cellStatus) = "Accepted" => evidence = Facts

\* The inductive invariant.
Inv == TypeOK /\ RoundOnEvidence /\ StatusOnEvidence

-----------------------------------------------------------------------------
(* The evaluator.                                                          *)

\* Every check has to pass: the parts of the status that the proof looks at.
LEMMA AcceptedMeans ==
    ASSUME NEW cell \in CellStatuses,
           evaluateVirtualClusterPlan(cell) = "Accepted"
    PROVE /\ cell.phase = "Ready" /\ cell.available /\ cell.provider
          /\ cell.inventoryFresh
          /\ cell.availableEstimate >= Envelope
          /\ cell.storage = "known"
          /\ cell.nodePorts = "free"
  <1>1. "Failed" \notin checks(cell) /\ "Unknown" \notin checks(cell)
        BY DEF evaluateVirtualClusterPlan, finalizePlanEvaluation
  <1>2. /\ cellAvailabilityCheck(cell) # "Unknown"
        /\ hostBaselineCheck(cell) # "Unknown"
        /\ inventoryFreshnessCheck(cell) # "Unknown"
        /\ capacityCheck(cell) \notin {"Failed", "Unknown"}
        /\ storageCheck(cell) # "Unknown"
        /\ nodePortCheck(cell) \notin {"Failed", "Unknown"}
        BY <1>1, Zenon DEF checks
  <1>3. cell.phase = "Ready" /\ cell.available
        BY <1>2 DEF cellAvailabilityCheck, PassedOrUnknown
  <1>4. cell.provider BY <1>2 DEF hostBaselineCheck, PassedOrUnknown
  <1>5. cell.inventoryFresh BY <1>2 DEF inventoryFreshnessCheck, PassedOrUnknown
  <1>6. cell.storage = "known" BY <1>2 DEF storageCheck, PassedOrUnknown
  <1>7. cell.availableEstimate >= Envelope
        BY <1>2, EnvelopeAssumption DEF capacityCheck, CellStatuses
  <1>8. cell.nodePorts = "free" BY <1>2 DEF nodePortCheck, CellStatuses
  <1> QED BY <1>3, <1>4, <1>5, <1>6, <1>7, <1>8

\* Nothing is accepted on the status of a Cell that is not Ready, or whose
\* inventory is not fresh.
LEMMA NotAccepted ==
    ASSUME NEW cell \in CellStatuses, cell.phase # "Ready" \/ ~cell.inventoryFresh
    PROVE  evaluateVirtualClusterPlan(cell) # "Accepted"
  BY AcceptedMeans

-----------------------------------------------------------------------------
(* The projection.                                                         *)

\* The totals of Nodes and Pods are natural numbers.
LEMMA Totals ==
    ASSUME TypeOK, NEW nodes, NEW names \in SUBSET Tenant
    PROVE /\ Allocatable * Cardinality(ReadyNodes(nodes)) \in Nat
          /\ PodRequest * Cardinality(ActivePods(names)) \in Nat
          /\ \A n : DeviceRequest * Cardinality(
                      {v \in ActivePods(names) : pod[v].node = n}) \in Nat
  <1>1. Cardinality(ReadyNodes(nodes)) \in Nat
    <2>1. ReadyNodes(nodes) \subseteq Node BY DEF ReadyNodes
    <2> QED BY <2>1, QuantityAssumption, FS_Subset, FS_CardinalityType
  <1>2. IsFiniteSet(names)
        BY QuantityAssumption, FS_Subset
  <1>3. Cardinality(ActivePods(names)) \in Nat
    <2>1. ActivePods(names) \subseteq names BY DEF ActivePods
    <2> QED BY <1>2, <2>1, FS_Subset, FS_CardinalityType
  <1>4. ASSUME NEW n
        PROVE Cardinality({v \in ActivePods(names) : pod[v].node = n}) \in Nat
    <2>1. {v \in ActivePods(names) : pod[v].node = n} \subseteq names
          BY DEF ActivePods
    <2> QED BY <1>2, <2>1, FS_Subset, FS_CardinalityType
  <1>5. \A a, b \in Nat : a * b \in Nat BY SMT
  <1>6. Allocatable \in Nat /\ PodRequest \in Nat /\ DeviceRequest \in Nat
        BY QuantityAssumption, EnvelopeAssumption
  <1> QED BY <1>1, <1>3, <1>4, <1>5, <1>6

\* projectInventory: the status it leaves is a status; when it reports a ready
\* inventory the round has seen Nodes, storage and Services; and it does not
\* touch what the round had learnt before.
LEMMA Projection ==
    ASSUME TypeOK, cellRound.pc # "idle",
           NEW result \in projectInventory(cellRound)
    PROVE /\ result[1] \in BOOLEAN
          /\ result[2] \in CellStatuses
          /\ result[2].available = cellRound.status.available
          /\ result[2].provider = cellRound.status.provider
          /\ result[1] =>
               /\ host.reachable
               /\ ReadyNodes(cellRound.nodes) # {}
               /\ \A n \in ReadyNodes(cellRound.nodes) :
                     cellRound.nodes[n] = "ready"
               /\ result[2].nodePorts = "free" => host.portsFree
               /\ result[2].availableEstimate =
                    Estimate(Allocatable * Cardinality(ReadyNodes(cellRound.nodes)),
                             PodRequest * Cardinality(ActivePods(cellRound.names)))
  <1> DEFINE A == Allocatable * Cardinality(ReadyNodes(cellRound.nodes))
             R == PodRequest * Cardinality(ActivePods(cellRound.names))
             D(n) == DeviceRequest * Cardinality(
                       {v \in ActivePods(cellRound.names) : pod[v].node = n})
             nodes == [n \in Node |-> IF n \in ReadyNodes(cellRound.nodes)
                         THEN [ready |-> TRUE, device |-> Devices - D(n)]
                         ELSE [ready |-> FALSE, device |-> 0]]
             projected == WithNodes(cellRound.status, cellRound.nodes,
                                    cellRound.names)
             stored == projectStorageInventory(projected, cellRound.nodes)
  <1>1. cellRound.status \in CellStatuses /\ cellRound.names \in SUBSET Tenant
        /\ cellRound.nodes \in [Node -> NodeStates] /\ host \in Hosts
        BY DEF TypeOK, Rounds
  <1>2. A \in Nat /\ R \in Nat /\ \A n : D(n) \in Nat
        BY <1>1, Totals, Zenon
  <1>3. nodes \in [Node -> NodeStatuses]
    <2>1. ASSUME NEW n \in Node
          PROVE (IF n \in ReadyNodes(cellRound.nodes)
                 THEN [ready |-> TRUE, device |-> Devices - D(n)]
                 ELSE [ready |-> FALSE, device |-> 0]) \in NodeStatuses
      <3> HIDE DEF D
      <3>1. Devices - D(n) \in Int
            BY <1>2, QuantityAssumption
      <3> QED BY <3>1 DEF NodeStatuses
    <2> QED BY <2>1
  <1>4. Estimate(A, R) \in Nat
    <2> HIDE DEF A, R
    <2> QED BY <1>2 DEF Estimate
  <1>5. projected = [cellRound.status EXCEPT !.allocatable = A,
                       !.availableEstimate = Estimate(A, R),
                       !.storage = "absent", !.nodes = nodes]
        BY DEF WithNodes
  <1> HIDE DEF A, R, nodes
  <1>6. /\ projected \in CellStatuses
        /\ projected.available = cellRound.status.available
        /\ projected.provider = cellRound.status.provider
        /\ projected.availableEstimate = Estimate(A, R)
        BY <1>1, <1>2, <1>3, <1>4, <1>5, ZenonT(180) DEF CellStatuses
  <1> HIDE DEF projected
  <1>7. /\ stored \in CellStatuses
        /\ stored.available = cellRound.status.available
        /\ stored.provider = cellRound.status.provider
        /\ stored.availableEstimate = Estimate(A, R)
        /\ stored.storage # "unknown" =>
             \A n \in ReadyNodes(cellRound.nodes) :
                cellRound.nodes[n] # "uncertified"
        BY <1>6, ZenonT(60) DEF projectStorageInventory, CellStatuses
  <1>8. result \in
          IF ReadyNodes(cellRound.nodes) = {} THEN {<<FALSE, projected>>}
          ELSE IF ~host.reachable THEN
            {<<FALSE, [projected EXCEPT !.inventoryFresh = FALSE]>>,
             IF stored.storage = "unknown" THEN <<FALSE, stored>>
             ELSE <<FALSE, [stored EXCEPT !.nodePorts = "stale"]>>}
          ELSE IF stored.storage = "unknown" THEN {<<FALSE, stored>>}
          ELSE {<<TRUE, [projectNodePorts(stored) EXCEPT
                           !.inventoryFresh = TRUE]>>}
        BY Zenon DEF projectInventory, projected
  <1> HIDE DEF stored
  <1>9. CASE result = <<FALSE, projected>>
        BY <1>6, <1>9
  <1>10. CASE result = <<FALSE, [projected EXCEPT !.inventoryFresh = FALSE]>>
        BY <1>6, <1>10, Zenon DEF CellStatuses
  <1>11. CASE result = <<FALSE, stored>>
        BY <1>7, <1>11
  <1>12. CASE result = <<FALSE, [stored EXCEPT !.nodePorts = "stale"]>>
        BY <1>7, <1>12 DEF CellStatuses
  <1>13. CASE /\ result = <<TRUE, [projectNodePorts(stored) EXCEPT
                                     !.inventoryFresh = TRUE]>>
              /\ ReadyNodes(cellRound.nodes) # {} /\ host.reachable
              /\ stored.storage # "unknown"
    <2> DEFINE last == [projectNodePorts(stored) EXCEPT !.inventoryFresh = TRUE]
    <2>1. /\ last \in CellStatuses
          /\ last.available = cellRound.status.available
          /\ last.provider = cellRound.status.provider
          /\ last.availableEstimate = Estimate(A, R)
          /\ last.nodePorts = "free" => host.portsFree
          BY <1>1, <1>7, ZenonT(60) DEF projectNodePorts, CellStatuses, Hosts
    <2>2. \A n \in ReadyNodes(cellRound.nodes) : cellRound.nodes[n] = "ready"
          BY <1>7, <1>13, Zenon DEF ReadyNodes
    <2>3. result[1] = TRUE /\ result[2] = last BY <1>13
    <2> QED BY <1>13, <2>1, <2>2, <2>3, Zenon DEF A, R
  <1> QED BY <1>8, <1>9, <1>10, <1>11, <1>12, <1>13, Zenon

-----------------------------------------------------------------------------
(* The steps.                                                              *)

\* The states before the first round.
LEMMA InitInv == Init => Inv
  <1> SUFFICES ASSUME Init PROVE Inv OBVIOUS
  <1>1. NewStatus \in CellStatuses /\ ~NewStatus.inventoryFresh
        BY DEF NewStatus, CellStatuses, NodeStatuses
  <1>2. IdleRound \in Rounds /\ IdleRound.pc = "idle"
        BY <1>1 DEF IdleRound, Rounds, NodeStates
  <1>3. TypeOK
    <2>1. PICK n \in Node : pod = [v \in Tenant |-> [phase |-> "none", node |-> n]]
          BY Zenon DEF Init
    <2>2. pod \in [Tenant -> Pods] BY <2>1 DEF Pods
    <2>3. tenant \in [Tenant -> Tenants] BY Zenon DEF Init, Tenants
    <2>4. host \in Hosts BY Zenon DEF Init, Hosts, NodeStates
    <2>5. plan \in Plans BY Zenon DEF Init, Plans
    <2>6. changes \in 0 .. MaxChanges
      <3>1. changes = 0 BY Zenon DEF Init
      <3> QED BY <3>1, ReservationAssumption
    <2> QED BY <1>1, <1>2, <2>2, <2>3, <2>4, <2>5, <2>6, Zenon
            DEF Init, TypeOK, ManagedClusters
  <1>4. RoundOnEvidence BY <1>2, Zenon DEF Init, RoundOnEvidence
  <1>5. StatusOnEvidence BY <1>1, NotAccepted, Zenon DEF Init, StatusOnEvidence
  <1> QED BY <1>3, <1>4, <1>5 DEF Inv

\* A round that writes its status and ends.
LEMMA StatusWritten ==
    ASSUME Inv, NEW status \in CellStatuses, NEW found \in SUBSET Facts,
           updateCellStatus(status, found), UNCHANGED outside,
           UNCHANGED <<due, plan>>, changes' \in 0 .. MaxChanges,
           evaluateVirtualClusterPlan(status) = "Accepted" => found = Facts
    PROVE  Inv'
  <1>1. NewStatus \in CellStatuses
        BY DEF NewStatus, CellStatuses, NodeStatuses
  <1>2. IdleRound \in Rounds /\ IdleRound.pc = "idle"
        BY <1>1 DEF IdleRound, Rounds, NodeStates
  <1>3. cellStatus' = status /\ cellRound' = IdleRound /\ evidence' = found
        BY DEF updateCellStatus
  <1>4. TypeOK'
        BY <1>2, <1>3 DEF Inv, TypeOK, outside
  <1>5. RoundOnEvidence' BY <1>2, <1>3 DEF RoundOnEvidence
  <1>6. StatusOnEvidence' BY <1>3 DEF StatusOnEvidence
  <1> QED BY <1>4, <1>5, <1>6 DEF Inv

\* The Cell's conditions are booleans and a round's copy of the status is one.
LEMMA RoundTypes ==
    ASSUME Inv
    PROVE /\ cellStatus \in CellStatuses /\ cellRound.status \in CellStatuses
          /\ cellRound.found \in SUBSET Facts /\ host \in Hosts
          /\ cellRound.nodes \in [Node -> NodeStates]
          /\ cellRound.names \in SUBSET Tenant
          /\ changes \in 0 .. MaxChanges
  BY DEF Inv, TypeOK, Rounds

\* A round begins with what it reads of the ManagedCluster and the baseline.
LEMMA BeginInv ==
    ASSUME Inv, BeginRound, UNCHANGED <<due, plan, changes>> PROVE Inv'
  <1>1. cellStatus \in CellStatuses /\ host \in Hosts BY RoundTypes
  <1>2. /\ Observed \in CellStatuses
        /\ Observed.available => managedCluster = "available"
        /\ Observed.provider => host.reachable /\ host.baseline
    <2> DEFINE joined == managedCluster # "unjoined"
               available == managedCluster = "available"
               provider == host.reachable /\ host.baseline
               fresh == managedClusterLeaseFresh
    <2>1. joined \in BOOLEAN /\ available \in BOOLEAN /\ provider \in BOOLEAN
          /\ fresh \in BOOLEAN
          BY SMT DEF managedClusterLeaseFresh
    <2>2. Observed = [cellStatus EXCEPT !.joined = joined,
                        !.available = available, !.leaseFresh = fresh,
                        !.provider = provider, !.version = TRUE]
          BY Zenon DEF Observed
    <2> HIDE DEF joined, available, provider, fresh
    <2>3. Observed \in CellStatuses /\ Observed.available = available
          /\ Observed.provider = provider
      <3>1. ASSUME NEW j \in BOOLEAN, NEW a \in BOOLEAN, NEW l \in BOOLEAN,
                   NEW p \in BOOLEAN,
                   Observed = [cellStatus EXCEPT !.joined = j,
                                 !.available = a, !.leaseFresh = l,
                                 !.provider = p, !.version = TRUE]
            PROVE  Observed \in CellStatuses /\ Observed.available = a
                   /\ Observed.provider = p
        <4>1. Observed \in CellStatuses BY <1>1, <3>1, ZenonT(240) DEF CellStatuses
        <4>2. Observed.available = a BY <1>1, <3>1 DEF CellStatuses
        <4>3. Observed.provider = p BY <1>1, <3>1 DEF CellStatuses
        <4> QED BY <4>1, <4>2, <4>3
      <3> QED BY <2>1, <2>2, <3>1, ZenonT(60)
    <2> QED BY <2>3, Zenon DEF available, provider
  <1>3. /\ ManagedFacts \in SUBSET Facts
        /\ managedCluster = "available" => "managed" \in ManagedFacts
        /\ host.reachable /\ host.baseline => "baseline" \in ManagedFacts
        BY DEF ManagedFacts, When, Facts
  <1>4. NewStatus \in CellStatuses
        BY DEF NewStatus, CellStatuses, NodeStatuses
  <1>5. IdleRound \in Rounds BY <1>4 DEF IdleRound, Rounds, NodeStates
  <1> DEFINE names == {v \in Tenant : tenant[v].life = "live"
                                      /\ tenant[v].resolved}
  <1>6. names \in SUBSET Tenant OBVIOUS
  <1>7. cellRound' = [IdleRound EXCEPT !.pc = "nodes", !.status = Observed,
                        !.found = ManagedFacts, !.names = names]
        BY DEF BeginRound
  <1> HIDE DEF names
  <1>8. cellRound' \in Rounds /\ cellRound'.status = Observed
        /\ cellRound'.found = ManagedFacts
        BY <1>2, <1>3, <1>5, <1>6, <1>7, Zenon DEF Rounds
  <1>9. TypeOK' BY <1>8 DEF BeginRound, Inv, TypeOK, outside
  <1>10. RoundOnEvidence' BY <1>2, <1>3, <1>8 DEF RoundOnEvidence
  <1>11. StatusOnEvidence' BY DEF BeginRound, Inv, StatusOnEvidence
  <1> QED BY <1>9, <1>10, <1>11 DEF Inv

\* The round that projects an inventory: Ready and accepted only with all Facts.
LEMMA ProjectInv ==
    ASSUME Inv, ProjectInventory, UNCHANGED <<due, plan, changes>> PROVE Inv'
  <1>1. PICK result \in projectInventory(cellRound) :
           Conclude(result[2], result[1], cellRound.found
                    \cup HostFacts(cellRound.nodes, cellRound.names))
        BY DEF ProjectInventory
  <1> DEFINE ready == result[2].joined /\ result[2].available
                      /\ result[2].provider /\ result[1]
             status == [result[2] EXCEPT
                          !.phase = IF ready THEN "Ready" ELSE "Degraded"]
             seen == HostFacts(cellRound.nodes, cellRound.names)
             found == cellRound.found \cup seen
             A == Allocatable * Cardinality(ReadyNodes(cellRound.nodes))
             R == PodRequest * Cardinality(ActivePods(cellRound.names))
  <1>2. cellRound.pc # "idle" BY DEF ProjectInventory
  <1>3. TypeOK BY DEF Inv
  <1>4. /\ result[1] \in BOOLEAN /\ result[2] \in CellStatuses
        /\ result[2].available = cellRound.status.available
        /\ result[2].provider = cellRound.status.provider
        /\ result[1] =>
             /\ host.reachable /\ ReadyNodes(cellRound.nodes) # {}
             /\ \A n \in ReadyNodes(cellRound.nodes) :
                   cellRound.nodes[n] = "ready"
             /\ result[2].nodePorts = "free" => host.portsFree
             /\ result[2].availableEstimate = Estimate(A, R)
        BY <1>1, <1>2, <1>3, Projection
  <1>5. A \in Nat /\ R \in Nat BY <1>3, Totals, RoundTypes
  <1>6. /\ "nodes" \in seen <=> ReadyNodes(cellRound.nodes) # {}
        /\ "storage" \in seen <=> \A n \in ReadyNodes(cellRound.nodes) :
                                     cellRound.nodes[n] = "ready"
        /\ "ports" \in seen <=> host.reachable /\ host.portsFree
        /\ "capacity" \in seen <=> R + Envelope <= A
        /\ seen \in SUBSET Facts
        BY Zenon DEF HostFacts, When, Facts
  <1> HIDE DEF A, R, seen
  <1>7. Estimate(A, R) >= Envelope => R + Envelope <= A
        BY <1>5, ReservationAssumption, EnvelopeAssumption DEF Estimate
  <1>8. /\ status \in CellStatuses
        /\ status.phase = "Ready" => ready
        /\ status.nodePorts = result[2].nodePorts
        /\ status.availableEstimate = result[2].availableEstimate
        BY <1>4 DEF CellStatuses
  <1>9. found \in SUBSET Facts BY <1>6, RoundTypes
  <1>10. ASSUME evaluateVirtualClusterPlan(status) = "Accepted"
         PROVE  found = Facts
    <2> HIDE DEF status
    <2>1. /\ status.phase = "Ready" /\ status.nodePorts = "free"
          /\ status.availableEstimate >= Envelope
          BY <1>8, <1>10, AcceptedMeans
    <2>2. ready BY <1>8, <2>1
    <2>3. "managed" \in found /\ "baseline" \in found
          BY <1>2, <1>4, <2>2 DEF Inv, RoundOnEvidence
    <2>4. "nodes" \in found /\ "storage" \in found /\ "ports" \in found
          BY <1>4, <1>6, <1>8, <2>1, <2>2
    <2>5. "capacity" \in found BY <1>4, <1>6, <1>7, <1>8, <2>1, <2>2
    <2> QED BY <1>9, <2>3, <2>4, <2>5 DEF Facts
  <1>11. updateCellStatus(status, found) BY <1>1 DEF Conclude, seen
  <1> HIDE DEF status, found
  <1> QED BY <1>8, <1>9, <1>10, <1>11, StatusWritten, RoundTypes
          DEF ProjectInventory

\* The other ends of a round write a status that is accepted by nobody.
LEMMA RoundEndsInv ==
    ASSUME Inv, UNCHANGED <<due, plan>>, changes' \in 0 .. MaxChanges,
           ManagedClusterNotFound \/ VirtualClusterListFails \/ HostReadFails
    PROVE  Inv'
  <1> USE RoundTypes
  <1>1. CASE ManagedClusterNotFound
    <2> DEFINE status == [cellStatus EXCEPT
                            !.phase = "Degraded", !.joined = FALSE,
                            !.available = FALSE, !.leaseFresh = FALSE]
    <2>1. status \in CellStatuses /\ status.phase # "Ready"
          BY ZenonT(180) DEF CellStatuses
    <2>2. updateCellStatus(status, {}) /\ UNCHANGED outside
          BY <1>1 DEF ManagedClusterNotFound
    <2> HIDE DEF status
    <2> QED BY <2>1, <2>2, NotAccepted, StatusWritten
  <1>2. CASE VirtualClusterListFails
    <2> DEFINE status == [cellRound.status EXCEPT !.inventoryFresh = FALSE]
    <2>1. status \in CellStatuses /\ ~status.inventoryFresh
          BY Zenon DEF CellStatuses
    <2>2. updateCellStatus(status, cellRound.found) /\ UNCHANGED outside
          BY <1>2 DEF VirtualClusterListFails
    <2> HIDE DEF status
    <2> QED BY <2>1, <2>2, NotAccepted, StatusWritten
  <1>3. CASE HostReadFails
    <2> DEFINE status == [[cellRound.status EXCEPT !.inventoryFresh = FALSE]
                            EXCEPT !.phase = "Degraded"]
    <2>1. status \in CellStatuses /\ status.phase # "Ready"
          BY ZenonT(180) DEF CellStatuses
    <2>2. updateCellStatus(status, cellRound.found) /\ UNCHANGED outside
          BY <1>3 DEF HostReadFails, Conclude
    <2> HIDE DEF status
    <2> QED BY <2>1, <2>2, NotAccepted, StatusWritten
  <1> QED BY <1>1, <1>2, <1>3

\* Nothing is written by a round that lists the Nodes or is lost.
LEMMA RoundGoesOnInv ==
    ASSUME Inv, UNCHANGED <<due, plan>>, changes' \in 0 .. MaxChanges,
           ListNodes \/ RoundLost
    PROVE  Inv'
  <1>1. StatusOnEvidence'
        BY DEF ListNodes, RoundLost, Inv, StatusOnEvidence
  <1>2. CASE ListNodes
    <2>1. /\ cellRound \in Rounds /\ host \in Hosts
          /\ cellRound' = [cellRound EXCEPT !.pc = "project",
                                            !.nodes = host.node]
          /\ cellRound.pc # "idle"
          BY <1>2 DEF ListNodes, Inv, TypeOK
    <2>2. /\ cellRound' \in Rounds /\ cellRound'.status = cellRound.status
          /\ cellRound'.found = cellRound.found
          BY <2>1, Zenon DEF Rounds, Hosts
    <2>3. TypeOK' BY <1>2, <2>2 DEF ListNodes, Inv, TypeOK, outside
    <2>4. RoundOnEvidence' BY <2>1, <2>2 DEF Inv, RoundOnEvidence
    <2> QED BY <1>1, <2>3, <2>4 DEF Inv
  <1>3. CASE RoundLost
    <2>1. NewStatus \in CellStatuses
          BY DEF NewStatus, CellStatuses, NodeStatuses
    <2>2. IdleRound \in Rounds /\ IdleRound.pc = "idle"
          BY <2>1 DEF IdleRound, Rounds, NodeStates
    <2>3. TypeOK' BY <1>3, <2>2 DEF RoundLost, Inv, TypeOK, outside
    <2>4. RoundOnEvidence' BY <1>3, <2>2 DEF RoundLost, RoundOnEvidence
    <2> QED BY <1>1, <2>3, <2>4 DEF Inv
  <1> QED BY <1>2, <1>3

\* Steps that leave the Cell's status and its round alone.
LEMMA CellUntouched ==
    ASSUME Inv, TypeOK', UNCHANGED <<cellStatus, cellRound, evidence>>
    PROVE  Inv'
  BY DEF Inv, RoundOnEvidence, StatusOnEvidence

\* The decision of the evaluator is one of three.
LEMMA DecisionType ==
    \A cell : evaluateVirtualClusterPlan(cell) \in Decisions
  BY DEF evaluateVirtualClusterPlan, finalizePlanEvaluation, Decisions

\* The gate.
LEMMA GateInv == ASSUME Inv, NEW v \in Tenant, Gate(v) PROVE Inv'
  <1>1. PICK new \in Tenants, requeue \in BOOLEAN : Report(v, new, requeue)
    <2>1. tenant[v] \in Tenants BY DEF Inv, TypeOK
    <2>2. /\ [tenant[v] EXCEPT !.phase = "Provisioned", !.works = TRUE,
                               !.resolved = TRUE] \in Tenants
          /\ [tenant[v] EXCEPT !.phase = "Failed", !.resolved = TRUE] \in Tenants
          /\ [tenant[v] EXCEPT !.phase = "Degraded"] \in Tenants
          /\ [tenant[v] EXCEPT !.phase = "Degraded", !.resolved = TRUE]
             \in Tenants
          BY <2>1, Zenon DEF Tenants
    <2> QED BY <2>2, Zenon DEF Gate, Accept, Reject, Wait
  <1>2. TypeOK' BY <1>1 DEF Report, Inv, TypeOK
  <1> QED BY <1>1, <1>2, CellUntouched DEF Report

\* Everything else that happens to VirtualClusters, Plans and the host.
LEMMA OtherInv ==
    ASSUME Inv, \/ Resync \/ ReconcilePlan \/ HostChanges
                \/ \E v \in Tenant : Create(v) \/ Deleted(v) \/ PodMoves(v)
    PROVE  Inv'
  <1> USE DEF Inv, TypeOK
  <1>1. CASE Resync
        BY <1>1, CellUntouched DEF Resync
  <1>2. CASE ReconcilePlan
    <2>1. PICK moved \in BOOLEAN :
             plan' = [pending |-> moved \/ evaluateVirtualClusterPlan(cellStatus)
                                           # plan.decision,
                      decision |-> evaluateVirtualClusterPlan(cellStatus)]
          BY <1>2 DEF ReconcilePlan
    <2>2. evaluateVirtualClusterPlan(cellStatus) \in Decisions BY DecisionType
    <2>3. plan' \in Plans BY <2>1, <2>2, Zenon DEF Plans
    <2> QED BY <1>2, <2>3, CellUntouched, ZenonT(60) DEF ReconcilePlan
  <1>3. CASE HostChanges
    <2>1. changes' \in 0 .. MaxChanges
          BY <1>3, ReservationAssumption DEF HostChanges
    <2>2. host' \in Hosts
      <3>1. CASE UNCHANGED host BY <3>1
      <3>2. ASSUME NEW n \in Node, NEW s \in NodeStates,
                   host' = [host EXCEPT !.node[n] = s]
            PROVE host' \in Hosts
            BY <3>2 DEF Hosts
      <3>3. CASE host' = [host EXCEPT !.baseline = ~@] BY <3>3, Zenon DEF Hosts
      <3>4. CASE host' = [host EXCEPT !.reachable = ~@] BY <3>4, Zenon DEF Hosts
      <3>5. CASE host' = [host EXCEPT !.portsFree = ~@] BY <3>5, Zenon DEF Hosts
      <3> QED BY <1>3, <3>1, <3>2, <3>3, <3>4, <3>5 DEF HostChanges
    <2>3. managedCluster' \in ManagedClusters BY <1>3 DEF HostChanges
    <2> QED BY <1>3, <2>1, <2>2, <2>3, CellUntouched DEF HostChanges
  <1>4. ASSUME NEW v \in Tenant, Create(v) PROVE Inv'
    <2>1. [tenant[v] EXCEPT !.life = "live"] \in Tenants BY Zenon DEF Tenants
    <2>2. tenant' \in [Tenant -> Tenants] BY <1>4, <2>1 DEF Create
    <2> QED BY <1>4, <2>2, CellUntouched DEF Create
  <1>5. ASSUME NEW v \in Tenant, Deleted(v) PROVE Inv'
    <2>1. [life |-> "gone", resolved |-> FALSE, works |-> FALSE,
           phase |-> ""] \in Tenants BY Zenon DEF Tenants
    <2>2. [pod[v] EXCEPT !.phase = "none"] \in Pods BY DEF Pods
    <2>3. tenant' \in [Tenant -> Tenants] /\ pod' \in [Tenant -> Pods]
          BY <1>5, <2>1, <2>2, Zenon DEF Deleted
    <2> QED BY <1>5, <2>3, CellUntouched, Zenon DEF Deleted
  <1>6. ASSUME NEW v \in Tenant, PodMoves(v) PROVE Inv'
    <2>1. pod' \in [Tenant -> Pods]
      <3>1. pod[v] \in Pods OBVIOUS
      <3>2. [pod[v] EXCEPT !.phase = "Running"] \in Pods
            /\ [pod[v] EXCEPT !.phase = "none"] \in Pods
            /\ \A n \in Node : [phase |-> "Pending", node |-> n] \in Pods
            BY <3>1 DEF Pods
      <3>3. CASE \E n \in Node : Schedule(v, n) BY <3>2, <3>3 DEF Schedule
      <3>4. CASE pod' = [pod EXCEPT ![v].phase = "Running"] BY <3>2, <3>4
      <3>5. CASE pod' = [pod EXCEPT ![v].phase = "none"] BY <3>2, <3>5
      <3> QED BY <1>6, <3>3, <3>4, <3>5 DEF PodMoves
    <2> QED BY <1>6, <2>1, CellUntouched DEF PodMoves
  <1> QED BY <1>1, <1>2, <1>3, <1>4, <1>5, <1>6

\* Every step of the system.
LEMMA StepInv == Inv /\ [Next]_vars => Inv'
  <1> SUFFICES ASSUME Inv, [Next]_vars PROVE Inv' OBVIOUS
  <1>1. CASE CellStep /\ UNCHANGED <<due, plan, changes>>
        BY <1>1, BeginInv, ProjectInv, RoundEndsInv, RoundGoesOnInv, RoundTypes
        DEF CellStep
  <1>2. CASE RequestFails
    <2>1. changes' \in 0 .. MaxChanges
          BY <1>2, RoundTypes, ReservationAssumption DEF RequestFails
    <2> QED BY <1>2, <2>1, RoundEndsInv, RoundGoesOnInv DEF RequestFails
  <1>3. CASE UNCHANGED vars
    <2>1. TypeOK' BY <1>3 DEF vars, Inv, TypeOK
    <2> QED BY <1>3, <2>1, CellUntouched DEF vars
  <1> QED BY <1>1, <1>2, <1>3, GateInv, OtherInv, Zenon DEF Next

\* The invariant always holds.
LEMMA AlwaysInv == Spec => []Inv
  BY InitInv, StepInv, PTL DEF Spec

-----------------------------------------------------------------------------
(* Theorems.                                                               *)

\* Types: in particular the estimate of what is available in a Cell's status
\* never becomes negative, however much the Pods request.
THEOREM TypesKept == Spec => []TypeOK
  <1>1. Inv => TypeOK BY DEF Inv
  <1> QED BY <1>1, AlwaysInv, PTL

\* A VirtualCluster gets Works, and a Plan is accepted, only on a status that
\* one round of the Cell controller wrote having found everything in order.
THEOREM DecisionsHaveEvidence == Spec => DecidedOnEvidence
  <1>1. ASSUME Inv, [Next]_vars,
               \/ \E v \in Tenant : ~tenant[v].works /\ tenant'[v].works
               \/ plan.decision # "Accepted" /\ plan'.decision = "Accepted"
        PROVE  evidence = Facts
    <2> SUFFICES evaluateVirtualClusterPlan(cellStatus) = "Accepted"
        BY <1>1 DEF Inv, StatusOnEvidence
    <2>1. CASE /\ plan.decision # "Accepted" /\ plan'.decision = "Accepted"
      <3>1. ReconcilePlan
            BY <1>1, <2>1, Zenon DEF Next, vars, Resync, HostChanges, RequestFails,
               Gate, Accept, Reject, Wait, Report, Create, Deleted, PodMoves
      <3> QED BY <2>1, <3>1 DEF ReconcilePlan
    <2>2. ASSUME NEW v \in Tenant, ~tenant[v].works, tenant'[v].works
          PROVE  evaluateVirtualClusterPlan(cellStatus) = "Accepted"
      <3>1. tenant \in [Tenant -> Tenants] BY <1>1 DEF Inv, TypeOK
      <3>2. tenant' # tenant BY <2>2
      <3>3. \E u \in Tenant : Gate(u) \/ Create(u) \/ Deleted(u)
            BY <1>1, <3>2, Zenon DEF Next, vars, CellStep, ManagedClusterNotFound,
               BeginRound, HostReadFails, ListNodes, ProjectInventory,
               RoundLost, VirtualClusterListFails, outside, Resync,
               ReconcilePlan, HostChanges, RequestFails, PodMoves
      <3>4. ASSUME NEW u \in Tenant, Create(u) PROVE FALSE
        <4>1. tenant'[v].works = tenant[v].works
              BY <3>1, <3>4, Zenon DEF Create, Tenants
        <4> QED BY <2>2, <4>1
      <3>5. ASSUME NEW u \in Tenant, Deleted(u) PROVE FALSE
            BY <2>2, <3>1, <3>5, Zenon DEF Deleted, Tenants
      <3>6. ASSUME NEW u \in Tenant, Reject(u) \/ Wait(u) PROVE FALSE
        <4>1. PICK new : new.works = tenant[u].works
                         /\ tenant' = [tenant EXCEPT ![u] = new]
              BY <3>1, <3>6, Zenon DEF Reject, Wait, Report, Tenants
        <4>2. tenant'[v].works = tenant[v].works BY <3>1, <4>1
        <4> QED BY <2>2, <4>2
      <3> QED BY <3>3, <3>4, <3>5, <3>6, Zenon DEF Gate, Accept
    <2> QED BY <1>1, <2>1, <2>2
  <1>2. Inv /\ [Next]_vars =>
          [\/ \E v \in Tenant : ~tenant[v].works /\ tenant'[v].works
           \/ plan.decision # "Accepted" /\ plan'.decision = "Accepted"
           => evidence = Facts]_vars
        BY <1>1
  <1> QED BY <1>2, AlwaysInv, PTL DEF Spec, DecidedOnEvidence
=============================================================================
