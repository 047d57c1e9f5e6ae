--------------------------- MODULE MCAppOperations ---------------------------
(* Instances of AppOperations for TLC. *)
EXTENDS AppOperations, TLC

CONSTANTS a1, a2, r1, r2, r3

MCOneApp      == {a1}
MCTwoApps     == {a1, a2}
MCTwoRequests == {r1, r2}
MCThreeRequests == {r1, r2, r3}

(* Apps and requests are interchangeable where no instance names one. *)
Symmetry == Permutations(App) \cup Permutations(Request)
=============================================================================
