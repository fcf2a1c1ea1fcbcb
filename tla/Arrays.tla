------------------------------- MODULE Arrays -------------------------------
(***************************************************************************)
(* What the programs beside the operator use of JavaScript's arrays and    *)
(* strings.  SequencesExt has some of it; it also brings Bags into every   *)
(* proof, which are then checked an order of magnitude slower.             *)
(***************************************************************************)
EXTENDS Integers, Sequences, Functions, FiniteSetsExt

\* flat, and join: the elements of all the sequences, in their order.
Flat(ss) ==
    LET before[i \in 1 .. Len(ss) + 1] ==
            IF i = 1 THEN <<>> ELSE before[i - 1] \o ss[i - 1]
    IN before[Len(ss) + 1]

\* filter: the elements outside the set, in their order.
Without(s, set) ==
    Flat([i \in DOMAIN s |-> IF s[i] \in set THEN <<>> ELSE <<s[i]>>])

\* at(-1).
Final(s) == s[Len(s)]

\* startsWith.
StartsWith(s, start) ==
    Len(start) <= Len(s) /\ \A i \in DOMAIN start : s[i] = start[i]
=============================================================================
