------------------------- MODULE CloudflareAddress --------------------------
(***************************************************************************)
(* Public addresses through a Cloudflare tunnel (services/cloudflare.py): a   *)
(* DNS record first, then a rule in the tunnel's configuration, which is      *)
(* read, changed and written as a whole under a lock of the hub's database.   *)
(* Others change the same zone and tunnel at Cloudflare meanwhile.           *)
(***************************************************************************)
EXTENDS Naturals, FiniteSets

CONSTANTS Editor,        \* requests of the hub's administrators
          Name,          \* host names of the zone
          MaxTunnel,     \* bound on the versions of the tunnel's configuration
          CloudMishaps   \* bound on answers that are lost and calls that fail

ASSUME CloudAssumption == MaxTunnel \in Nat /\ CloudMishaps \in Nat

VARIABLES dns,        \* per name: whose record, "else" for one made at Cloudflare
          rules,      \* per name: whose rule
          tunnel,     \* the version of the tunnel's configuration
          editor,     \* per request: its next step, name, version shown and rules read
          dbLock,     \* the write lock of the hub's database
          foreign,    \* history: requests during whose PUT the rules were changed elsewhere
          cloudMishaps

cloudVars == <<dns, rules, tunnel, editor, dbLock, foreign, cloudMishaps>>

Owner   == Editor \cup {"else"}
NoEdit  == [at |-> "idle", name |-> {}, version |-> 0, rules |-> {}, creates |-> FALSE]

CloudTypeOK ==
    /\ dns \in [Name -> SUBSET Owner] /\ rules \in [Name -> SUBSET Owner]
    /\ tunnel \in 0..MaxTunnel
    /\ editor \in [Editor -> [at : {"idle", "shown", "checked", "made", "locked", "writes", "undoes"},
                              name : SUBSET Name, version : 0..MaxTunnel,
                              rules : {{}} \cup {{r} : r \in [Name -> SUBSET Owner]},
                              creates : BOOLEAN]]
    /\ dbLock \subseteq Editor /\ foreign \subseteq Editor
    /\ cloudMishaps \in 0..CloudMishaps

CloudInit ==
    /\ dns = [n \in Name |-> {}] /\ rules = [n \in Name |-> {}] /\ tunnel = 0
    /\ editor = [e \in Editor |-> NoEdit]
    /\ dbLock = {} /\ foreign = {} /\ cloudMishaps = 0

CloudMishap == cloudMishaps < CloudMishaps /\ cloudMishaps' = cloudMishaps + 1

EditorAt(e, n, step) == editor[e].at = step /\ editor[e].name = {n}
EditorGoes(e, step)  == editor' = [editor EXCEPT ![e].at = step]
EditEnds(e)          == editor' = [editor EXCEPT ![e] = NoEdit]

-----------------------------------------------------------------------------
(* create_address and route, after an overview that gave the version          *)

ShowsTunnel(e, n, creates) ==
    /\ editor[e].at = "idle"
    /\ editor' = [editor EXCEPT ![e] = [at |-> "shown", name |-> {n}, version |-> tunnel,
                                        rules |-> {}, creates |-> creates]]
    /\ UNCHANGED <<dns, rules, tunnel, dbLock, foreign, cloudMishaps>>

(* The version is the shown one, and the name has neither rule nor record.     *)
ChecksAddress(e, n) ==
    /\ EditorAt(e, n, "shown") /\ editor[e].creates
    /\ IF tunnel = editor[e].version /\ rules[n] = {} /\ dns[n] = {}
       THEN EditorGoes(e, "checked") ELSE EditEnds(e)
    /\ UNCHANGED <<dns, rules, tunnel, dbLock, foreign, cloudMishaps>>

(* Cloudflare refuses a second record of the name.  An answer that is lost      *)
(* ends the request, with the record made or not.                           *)
MakesRecord(e, n) ==
    /\ EditorAt(e, n, "checked")
    /\ \/ dns[n] = {} /\ dns' = [dns EXCEPT ![n] = {e}] /\ EditorGoes(e, "made")
          /\ UNCHANGED cloudMishaps
       \/ dns[n] # {} /\ EditEnds(e) /\ UNCHANGED <<dns, cloudMishaps>>
       \/ dns[n] = {} /\ CloudMishap /\ EditEnds(e) /\ dns' = [dns EXCEPT ![n] = {e}]
    /\ UNCHANGED <<rules, tunnel, dbLock, foreign>>

LocksAnyway(e, n) ==
    /\ \/ EditorAt(e, n, "made")
       \/ EditorAt(e, n, "shown") /\ ~editor[e].creates
    /\ dbLock' = dbLock \cup {e} /\ EditorGoes(e, "locked")
    /\ UNCHANGED <<dns, rules, tunnel, foreign, cloudMishaps>>

(* route: BEGIN IMMEDIATE.  Its wait has a limit that another request's two     *)
(* calls can outlast, and that error is not one of Cloudflare's.             *)
Locks(e, n) ==
    /\ \/ EditorAt(e, n, "made")
       \/ EditorAt(e, n, "shown") /\ ~editor[e].creates
    /\ dbLock = {} /\ dbLock' = {e} /\ EditorGoes(e, "locked")
    /\ UNCHANGED <<dns, rules, tunnel, foreign, cloudMishaps>>

LockTimesOut(e, n) ==
    /\ EditorAt(e, n, "made") /\ dbLock # {} /\ CloudMishap
    /\ EditEnds(e)
    /\ UNCHANGED <<dns, rules, tunnel, dbLock, foreign>>

(* The rule failed: create_address removes its record again.                  *)
RuleFails(e) ==
    /\ dbLock' = dbLock \ {e}
    /\ IF editor[e].creates THEN EditorGoes(e, "undoes") ELSE EditEnds(e)

ReadsRules(e, n) ==
    /\ EditorAt(e, n, "locked") /\ foreign' = foreign \ {e}
    /\ IF tunnel = editor[e].version
       THEN /\ editor' = [editor EXCEPT ![e].at = "writes", ![e].rules = {rules}]
            /\ UNCHANGED dbLock
       ELSE RuleFails(e)
    /\ UNCHANGED <<dns, rules, tunnel, cloudMishaps>>

(* The whole configuration, with the name's rule set, changed or left out.     *)
Puts(e, n) ==
    /\ tunnel < MaxTunnel /\ tunnel' = tunnel + 1
    /\ \E read \in editor[e].rules, rule \in IF editor[e].creates THEN {{e}} ELSE {{e}, {}} :
        rules' = [read EXCEPT ![n] = rule]

WritesRules(e, n) ==
    /\ EditorAt(e, n, "writes") /\ Puts(e, n)
    /\ dbLock' = dbLock \ {e} /\ EditEnds(e)
    /\ UNCHANGED <<dns, foreign, cloudMishaps>>

WriteOfRulesFails(e, n) ==
    /\ EditorAt(e, n, "writes") /\ CloudMishap
    /\ Puts(e, n) \/ UNCHANGED <<rules, tunnel>>
    /\ RuleFails(e) /\ UNCHANGED <<dns, foreign>>

(* The record is removed by its id, so that another's of the name stays.      *)
UndoesRecord(e, n) ==
    /\ EditorAt(e, n, "undoes") /\ EditEnds(e)
    /\ \/ dns' = [dns EXCEPT ![n] = @ \ {e}] /\ UNCHANGED cloudMishaps
       \/ CloudMishap /\ UNCHANGED dns
    /\ UNCHANGED <<rules, tunnel, dbLock, foreign>>

-----------------------------------------------------------------------------
(* The records' own requests (save_record, delete_record), and what others do  *)
(* at Cloudflare.                                                           *)

ChangesRecord(n) ==
    /\ dns' \in {[dns EXCEPT ![n] = {"else"}], [dns EXCEPT ![n] = {}]} /\ dns' # dns
    /\ UNCHANGED <<rules, tunnel, editor, dbLock, foreign, cloudMishaps>>

ChangesRule(n) ==
    /\ tunnel < MaxTunnel /\ tunnel' = tunnel + 1
    /\ rules' \in {[rules EXCEPT ![n] = {"else"}], [rules EXCEPT ![n] = {}]} /\ rules' # rules
    /\ foreign' = foreign \cup {e \in Editor : editor[e].at = "writes"}
    /\ UNCHANGED <<dns, editor, dbLock, cloudMishaps>>

CloudNext ==
    \/ \E n \in Name :
        \/ \E e \in Editor :
            \/ \E creates \in BOOLEAN : ShowsTunnel(e, n, creates)
            \/ ChecksAddress(e, n) \/ MakesRecord(e, n) \/ Locks(e, n) \/ LockTimesOut(e, n)
            \/ ReadsRules(e, n) \/ WritesRules(e, n) \/ WriteOfRulesFails(e, n)
            \/ UndoesRecord(e, n)
        \/ ChangesRecord(n) \/ ChangesRule(n)

CloudSpec == CloudInit /\ [][CloudNext]_cloudVars

-----------------------------------------------------------------------------
(* Properties *)

(* A request of the hub changes no rule but its own name's, however many change *)
(* the tunnel at once, unless somebody did elsewhere between its reading and    *)
(* its writing: the configuration is written as a whole.                      *)
NoRuleIsLost ==
    [][\A e \in Editor, n \in Name :
        EditorAt(e, n, "writes") /\ rules' # rules /\ editor'[e].at # "writes" /\ e \notin foreign
            => \A m \in Name \ {n} : rules'[m] = rules[m]]_cloudVars
=============================================================================
