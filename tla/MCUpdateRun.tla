---------------------------- MODULE MCUpdateRun ----------------------------
(* Instances of UpdateRun for TLC. *)
EXTENDS UpdateRun

CONSTANTS web, ai

MCService == {web, ai}

(* The first commit changes packages, the second a service, the third moves *)
(* a file from one service to the other.                                    *)
MCTouches == [c \in 1..Commits |-> CASE c = 1 -> {} [] c = 2 -> {web} [] OTHER -> {web, ai}]
MCMoves   == [c \in 1..Commits |-> IF c = 3 THEN {ai} ELSE {}]
MCStays   == [c \in 1..Commits |-> {}]
=============================================================================
