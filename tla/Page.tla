-------------------------------- MODULE Page --------------------------------
(***************************************************************************)
(* A component on a page of the website.  React calls its effects when it  *)
(* is mounted or its inputs change, and their cleanups before they run     *)
(* again and when it is unmounted; the browser calls back what the effects *)
(* have registered.                                                        *)
(*                                                                         *)
(* The components do not share state, so a behaviour has one of them on    *)
(* the page: widget names it, ui is its state (props that may change,      *)
(* React state, refs, what it has drawn).  A cancelled handle is that of   *)
(* the latest registration of its kind: whatever else is registered stays. *)
(***************************************************************************)
EXTENDS Naturals, Sequences

VARIABLES
    widget,     \* the component
    ui,         \* its state
    pending     \* pending[k]: registrations of kind k that may call back

Calls == {"timer", "frame", "resize", "view", "pointer", "annotation"}

Nothing == [k \in Calls |-> 0]

Register(p, kinds) == [k \in Calls |-> IF k \in kinds THEN p[k] + 1 ELSE p[k]]

Cancel(p, kinds) ==
    [k \in Calls |-> IF k \in kinds /\ p[k] > 0 THEN p[k] - 1 ELSE p[k]]

\* A one-shot registration calls back.
Fires(k) == pending[k] > 0

On(name) == widget = name /\ ui.mounted

\* The component is on the page with state new and registrations calls.
Becomes(new, calls) == ui' = new /\ pending' = calls /\ UNCHANGED widget

\* Registers the kinds iff the condition holds.
RegisterIf(condition, p, kinds) == IF condition THEN Register(p, kinds) ELSE p
=============================================================================
