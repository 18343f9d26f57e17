--------------------------- MODULE SessionContract ---------------------------
(***************************************************************************)
(* What the auth service promises about the token pairs it hands out,      *)
(* without requests, Redis or a clock: each pair is granted once, and from *)
(* then on what it is good for is only ever withdrawn, whoever withdraws   *)
(* it: a refresh, a logout, the passing of time or a failure.              *)
(***************************************************************************)
CONSTANT Pairs

VARIABLES granted,     \* the pairs a peer was given
          renewable,   \* those whose refresh token would be renewed
          admitted     \* those whose access token would be admitted

vars == <<granted, renewable, admitted>>

TypeOK == /\ granted \in SUBSET Pairs
          /\ renewable \in SUBSET granted
          /\ admitted \in SUBSET granted

Init == granted = {} /\ renewable = {} /\ admitted = {}

\* A pair is handed out, at best with all its uses.
Grant(j) ==
    /\ j \in Pairs \ granted
    /\ granted' = granted \cup {j}
    /\ renewable' \in {renewable, renewable \cup {j}}
    /\ admitted' \in {admitted, admitted \cup {j}}

\* Uses of pairs end, of several at once when they expire together.
Withdraw ==
    /\ renewable' \in SUBSET renewable
    /\ admitted' \in SUBSET admitted
    /\ UNCHANGED granted

Next == Withdraw \/ \E j \in Pairs : Grant(j)

Spec == Init /\ [][Next]_vars
=============================================================================
