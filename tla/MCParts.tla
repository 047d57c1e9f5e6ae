------------------------------ MODULE MCParts ------------------------------
(* Components that share no state, one at a time, each with the fairness of   *)
(* its own specification: in the other's behaviours nothing of it is enabled. *)
EXTENDS MCBotOutbox, MCSidecarUpdater

VARIABLE part

partsVars == <<part, outboxVars, vars>>

PartsInit == part \in {"outbox", "sidecar"} /\ OutboxInit /\ Init

(* A bound: once a start met a job RUNNING_PROCESS does not show, only       *)
(* JobsAreReported still says something; such a start comes before commits   *)
(* and restarts, and the state file is not reset any more.                   *)
SidecarNext ==
    /\ Next
    /\ "hidden" \in overlap' => /\ remote' = 0 /\ crashes' = 0
                                /\ file' \in {file, "running", "stopping"} \cup Verdict

PartsNext ==
    /\ UNCHANGED part
    /\ \/ part = "outbox" /\ OutboxNext /\ UNCHANGED vars
       \/ part = "sidecar" /\ SidecarNext /\ UNCHANGED outboxVars

PartsFairness ==
    /\ WF_outboxVars(part = "outbox" /\ BotLoops)
    /\ \A s \in Slot : WF_vars(part = "sidecar" /\ Handling(s))
    /\ \A j \in Job : /\ WF_vars(part = "sidecar" /\ Working(j))
                      /\ WF_vars(part = "sidecar" /\ Scripting(j))

PartsSpec == PartsInit /\ [][PartsNext]_partsVars /\ PartsFairness
=============================================================================
