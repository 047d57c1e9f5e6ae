---------------------------- MODULE MCBotOutbox ----------------------------
(* Instances of BotOutbox for TLC. *)
EXTENDS BotOutbox

CONSTANTS e1, e2, u1, u2

MCEvents == {e1, e2}
MCPatient == {e2}
MCUsers == {u1, u2}
MCRank == [f \in File |-> (IF f[1] = e1 THEN 0 ELSE 2) + (IF f[2] = u1 THEN 0 ELSE 1)]
=============================================================================
