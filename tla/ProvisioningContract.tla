------------------------- MODULE ProvisioningContract -------------------------
(***************************************************************************)
(* What the management plane promises about the ManifestWorks of a child   *)
(* cluster, without saying how: while it is open Works are delivered, the  *)
(* foundation first; once it is closing they are only withdrawn, the       *)
(* foundation last; it is gone only when nothing is left.                  *)
(***************************************************************************)
CONSTANTS VC        \* VirtualClusters

VARIABLES
    life,           \* life[v]: absent, open, closing or gone
    delivered       \* delivered[v]: the kinds of Work that exist for v

Become(v, state) ==
    /\ life' = [life EXCEPT ![v] = state]
    /\ UNCHANGED delivered

Init ==
    /\ life = [v \in VC |-> "absent"]
    /\ delivered = [v \in VC |-> {}]

Open(v) == life[v] = "absent" /\ Become(v, "open")

\* The deletion of several VirtualClusters may come to be known at once.
BeginClosing(S) ==
    /\ S # {} /\ \A v \in S : life[v] = "open"
    /\ life' = [v \in VC |-> IF v \in S THEN "closing" ELSE life[v]]
    /\ UNCHANGED delivered

Close(v) ==
    /\ life[v] \in {"open", "closing"}
    /\ delivered[v] = {}
    /\ Become(v, "gone")

Deliver(v, k) ==
    /\ life[v] = "open"
    /\ k \notin delivered[v]
    /\ k = "instance" => "foundation" \in delivered[v]
    /\ delivered' = [delivered EXCEPT ![v] = @ \cup {k}]
    /\ UNCHANGED life

Withdraw(v, k) ==
    /\ life[v] = "closing"
    /\ k \in delivered[v]
    /\ k = "foundation" => "instance" \notin delivered[v]
    /\ delivered' = [delivered EXCEPT ![v] = @ \ {k}]
    /\ UNCHANGED life

Next ==
    \/ \E S \in SUBSET VC : BeginClosing(S)
    \/ \E v \in VC :
        \/ Open(v) \/ Close(v)
        \/ \E k \in {"foundation", "instance"} : Deliver(v, k) \/ Withdraw(v, k)

Spec == Init /\ [][Next]_<<life, delivered>>
=============================================================================
