-------------------------- MODULE CapacityPlanning --------------------------
(***************************************************************************)
(* From the host's capacity to the decision to provision: the Cell         *)
(* controller, the feasibility gate in the rounds of the VirtualCluster    *)
(* controller, the VirtualClusterPlan controller, and a host that changes  *)
(* under them.  What a round does beyond the gate is the subject of        *)
(* VirtualClusterController.                                               *)
(***************************************************************************)
EXTENDS CellController

CONSTANT MaxChanges     \* bound: changes of the host and failed requests

ASSUME ReservationAssumption == Envelope > 0 /\ MaxChanges \in Nat

VARIABLES
    due,        \* VirtualClusters with a key in the workqueue
    plan,       \* a VirtualClusterPlan for one more VirtualCluster
    changes     \* number of changes and failures so far

vars == <<managedCluster, host, pod, tenant, cellStatus, cellRound, evidence,
          due, plan, changes>>

Plans == [pending : BOOLEAN, decision : Decisions \cup {""}]

TypeOK ==
    /\ managedCluster \in ManagedClusters
    /\ host \in Hosts
    /\ pod \in [Tenant -> Pods]
    /\ tenant \in [Tenant -> Tenants]
    /\ cellStatus \in CellStatuses
    /\ cellRound \in Rounds
    /\ evidence \subseteq Facts
    /\ due \subseteq Tenant
    /\ plan \in Plans
    /\ changes \in 0 .. MaxChanges

Init ==
    /\ managedCluster = "available"
    /\ host = [node |-> [n \in Node |-> "ready"], baseline |-> TRUE,
               reachable |-> TRUE, portsFree |-> TRUE]
    /\ \E n \in Node : pod = [v \in Tenant |-> [phase |-> "none", node |-> n]]
    /\ tenant = [v \in Tenant |-> [life |-> "absent", resolved |-> FALSE,
                                   works |-> FALSE, phase |-> ""]]
    /\ cellStatus = NewStatus
    /\ cellRound = IdleRound
    /\ evidence = {}
    /\ due = {}
    /\ plan = [pending |-> TRUE, decision |-> ""]
    /\ changes = 0

-----------------------------------------------------------------------------
(* The gate: Reconcile of a VirtualCluster up to its first Work.           *)

\* A status that differs from the stored one wakes the controller again, as
\* does RequeueAfter.
Report(v, new, requeue) ==
    /\ tenant' = [tenant EXCEPT ![v] = new]
    /\ due' = IF requeue \/ new # tenant[v] THEN due \cup {v} ELSE due \ {v}
    /\ UNCHANGED <<managedCluster, host, pod, cellStatus, cellRound, evidence,
                   plan, changes>>

\* Mutant: a Failed VirtualCluster is not looked at again.
AcceptUnlessFailed(v) ==
    /\ v \in due /\ tenant[v].life = "live" /\ cellStatus.phase = "Ready"
    /\ evaluateVirtualClusterPlan(cellStatus) = "Accepted"
    /\ tenant[v].phase # "Failed"
    /\ Report(v, [tenant[v] EXCEPT !.phase = "Provisioned", !.works = TRUE,
                                   !.resolved = TRUE], TRUE)

Accept(v) ==
    /\ v \in due /\ tenant[v].life = "live" /\ cellStatus.phase = "Ready"
    /\ evaluateVirtualClusterPlan(cellStatus) = "Accepted"
    /\ Report(v, [tenant[v] EXCEPT !.phase = "Provisioned", !.works = TRUE,
                                   !.resolved = TRUE], TRUE)

\* No requeue is asked for; the checks in the status carry their time, and when
\* that has moved since the round before the write wakes the controller again.
Reject(v) ==
    /\ v \in due /\ tenant[v].life = "live" /\ cellStatus.phase = "Ready"
    /\ evaluateVirtualClusterPlan(cellStatus) = "Rejected"
    /\ \E moved \in BOOLEAN :
          Report(v, [tenant[v] EXCEPT !.phase = "Failed", !.resolved = TRUE],
                 moved)

Wait(v) ==
    /\ v \in due /\ tenant[v].life = "live"
    /\ \/ /\ cellStatus.phase # "Ready"
          /\ Report(v, [tenant[v] EXCEPT !.phase = "Degraded"], TRUE)
       \/ /\ cellStatus.phase = "Ready"
          /\ evaluateVirtualClusterPlan(cellStatus) = "Unknown"
          /\ Report(v, [tenant[v] EXCEPT !.phase = "Degraded",
                                         !.resolved = TRUE], TRUE)

Gate(v) == Accept(v) \/ Reject(v) \/ Wait(v)

\* The informer's resync brings every key back.
Resync ==
    /\ due' = {v \in Tenant : tenant[v].life = "live"}
    /\ UNCHANGED <<managedCluster, host, pod, tenant, cellStatus, cellRound,
                   evidence, plan, changes>>

-----------------------------------------------------------------------------
(* The VirtualClusterPlan controller.                                      *)

\* A Plan is evaluated when its key comes up.  Writing the status is itself an
\* event that brings the key back, unless nothing in it has changed; the times
\* in it may have.
ReconcilePlan ==
    /\ plan.pending
    /\ LET decision == evaluateVirtualClusterPlan(cellStatus) IN
       \E moved \in BOOLEAN :
          plan' = [pending |-> moved \/ decision # plan.decision,
                   decision |-> decision]
    /\ UNCHANGED <<managedCluster, host, pod, tenant, cellStatus, cellRound,
                   evidence, due, changes>>

-----------------------------------------------------------------------------
(* Users and the host.                                                     *)

Create(v) ==
    /\ tenant[v].life = "absent"
    /\ tenant' = [tenant EXCEPT ![v].life = "live"]
    /\ due' = due \cup {v}
    /\ UNCHANGED <<managedCluster, host, pod, cellStatus, cellRound, evidence,
                   plan, changes>>

\* Its Works, and with them its Pods, are gone (see VirtualClusterController).
Deleted(v) ==
    /\ tenant[v].life = "live"
    /\ tenant' = [tenant EXCEPT ![v] = [life |-> "gone", resolved |-> FALSE,
                                        works |-> FALSE, phase |-> ""]]
    /\ pod' = [pod EXCEPT ![v].phase = "none"]
    /\ due' = due \ {v}
    /\ UNCHANGED <<managedCluster, host, cellStatus, cellRound, evidence, plan,
                   changes>>

\* The host's scheduler places a Pod where its requests fit.
Placed(n) == {v \in Tenant : pod[v].node = n
                             /\ pod[v].phase \in {"Pending", "Running"}}

Schedule(v, n) ==
    /\ tenant[v].works /\ pod[v].phase = "none"
    /\ host.node[n] \in {"ready", "uncertified"}
    /\ PodRequest * (Cardinality(Placed(n)) + 1) <= Allocatable
    /\ DeviceRequest * (Cardinality(Placed(n)) + 1) <= Devices
    /\ pod' = [pod EXCEPT ![v] = [phase |-> "Pending", node |-> n]]

PodMoves(v) ==
    /\ \/ \E n \in Node : Schedule(v, n)
       \/ /\ pod[v].phase = "Pending"
          /\ pod' = [pod EXCEPT ![v].phase = "Running"]
       \/ /\ pod[v].phase = "Running"
          /\ pod' = [pod EXCEPT ![v].phase = "none"]
    /\ UNCHANGED <<managedCluster, host, tenant, cellStatus, cellRound,
                   evidence, due, plan, changes>>

\* The host or what OCM says of it changes.
HostChanges ==
    /\ changes < MaxChanges /\ changes' = changes + 1
    /\ \/ /\ managedCluster' \in ManagedClusters \ {managedCluster}
          /\ UNCHANGED host
       \/ /\ \/ \E n \in Node, s \in NodeStates :
                   host' = [host EXCEPT !.node[n] = s]
             \/ host' = [host EXCEPT !.baseline = ~@]
             \/ host' = [host EXCEPT !.reachable = ~@]
             \/ host' = [host EXCEPT !.portsFree = ~@]
          /\ UNCHANGED managedCluster
    /\ UNCHANGED <<pod, tenant, cellStatus, cellRound, evidence, due, plan>>

RequestFails ==
    /\ changes < MaxChanges /\ changes' = changes + 1
    /\ RoundLost \/ VirtualClusterListFails
    /\ UNCHANGED <<due, plan>>

Next ==
    \/ CellStep /\ UNCHANGED <<due, plan, changes>>
    \/ Resync \/ ReconcilePlan \/ HostChanges \/ RequestFails
    \/ \E v \in Tenant : Gate(v) \/ Create(v) \/ Deleted(v) \/ PodMoves(v)

Spec == Init /\ [][Next]_vars

\* The Cell's round comes again after 10 or 30 seconds whatever it returned, the
\* queue of the VirtualClusters is served and the informers resync.
Fairness ==
    /\ WF_vars(CellStep /\ UNCHANGED <<due, plan, changes>>)
    /\ WF_vars(Resync) /\ \A v \in Tenant : SF_vars(Gate(v))

FairSpec == Spec /\ Fairness

-----------------------------------------------------------------------------
(* Properties.                                                             *)

\* DecidedOnEvidence: a VirtualCluster is provisioned, and a Plan accepted, only
\* when one and the same round of the Cell controller has found everything in
\* order; nothing left over from earlier rounds (the conditions and the
\* inventory are kept across failed reads) makes up for what it has missed.
DecidedOnEvidence ==
    [][\/ \E v \in Tenant : ~tenant[v].works /\ tenant'[v].works
       \/ plan.decision # "Accepted" /\ plan'.decision = "Accepted"
       => evidence = Facts]_vars

\* The Cell can be found Ready.
Healthy ==
    /\ managedCluster = "available" /\ host.baseline /\ host.reachable
    /\ ReadyNodes(host.node) # {}
    /\ \A n \in Node : host.node[n] # "uncertified"

\* CellFollowsHost: the Cell controller's phase ends up right: Ready if the host
\* stays fit, not Ready if it stays unfit.
CellFollowsHost ==
    /\ <>[]Healthy => <>[](cellStatus.phase = "Ready")
    /\ <>[]~Healthy => <>[](cellStatus.phase # "Ready")

\* RejectionReconsidered: a VirtualCluster that is kept is provisioned once the
\* Cell has, and keeps, room for it, although a rejected one is not requeued.
RejectionReconsidered ==
    \A v \in Tenant :
        <>[](tenant[v].life = "live"
             /\ evaluateVirtualClusterPlan(cellStatus) = "Accepted")
        => <>tenant[v].works

\* ProvisionedKept: a VirtualCluster whose Works were created after a successful
\* check is not failed by a later round's check for capacity that its own Pods
\* occupy.
ProvisionedKept ==
    [][\A v \in Tenant : tenant[v].works /\ ActivePods(Tenant) = {v}
         /\ Healthy /\ host.portsFree
         => tenant'[v].phase # "Failed" \/ tenant[v].phase = "Failed"]_vars
=============================================================================
