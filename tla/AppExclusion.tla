---------------------------- MODULE AppExclusion ----------------------------
(***************************************************************************)
(* What FjordHub promises about the operations on its apps: every app has  *)
(* at most one operation at a time (an installation, an update, a start or *)
(* a stop, a removal, a storage migration), and the containers of an app   *)
(* change only in the hands of the operation that has it.  The exception   *)
(* is a link to the hub, which recreates containers with no owner's leave  *)
(* unless the owner is one that must be alone.  A restart of the hub ends  *)
(* all operations and leaves the containers as they are.                   *)
(***************************************************************************)
CONSTANTS App,        \* the managed apps
          Request,    \* the operations' identities
          Nobody,     \* the app is free
          Linking     \* whether apps are linked to the hub meanwhile

VARIABLES owner,      \* App -> the operation that has the app, or Nobody
          sole,       \* App -> whether that operation must be alone
          runtime     \* App -> what exists of the app in Docker

vars == <<owner, sole, runtime>>

Runtime == {"absent", "stopped", "running"}

Init == /\ owner = [a \in App |-> Nobody]
        /\ sole = [a \in App |-> FALSE]
        /\ runtime \in [App -> Runtime]

(* An operation takes a free app. *)
Take(a, r) == /\ owner[a] = Nobody
              /\ owner' = [owner EXCEPT ![a] = r]
              /\ \E b \in BOOLEAN : sole' = [sole EXCEPT ![a] = b]
              /\ UNCHANGED runtime

(* The operation that has the app changes its containers, and may end.     *)
Act(a) == /\ owner[a] # Nobody
          /\ \E s \in Runtime : runtime' = [runtime EXCEPT ![a] = s]
          /\ \/ UNCHANGED owner /\ \E b \in BOOLEAN : sole' = [sole EXCEPT ![a] = b]
             \/ owner' = [owner EXCEPT ![a] = Nobody] /\ sole' = [sole EXCEPT ![a] = FALSE]

(* A link to the hub brings the containers up anew, whoever has the app.    *)
Recreate(a) == /\ Linking /\ ~sole[a]
               /\ \E s \in Runtime \ {"absent"} : runtime' = [runtime EXCEPT ![a] = s]
               /\ UNCHANGED <<owner, sole>>

Restart == /\ owner' = [a \in App |-> Nobody]
           /\ sole' = [a \in App |-> FALSE]
           /\ UNCHANGED runtime

Next == \/ \E a \in App : (\E r \in Request : Take(a, r)) \/ Act(a) \/ Recreate(a)
        \/ Restart

Spec == Init /\ [][Next]_vars
=============================================================================
