----------------------------- MODULE Membership -----------------------------
(***************************************************************************)
(* Who the hub's accounts are and which of them may use an app: the tables  *)
(* users, user_app_access and app_hub_keys of services/auth.py, written by  *)
(* the administrators' pages and, with its key, by the app itself.  Every   *)
(* request reads first and writes in a transaction of its own later.  An    *)
(* account is its id, which is never used again.  One app stands for all;   *)
(* AppKeys has its key.                                                     *)
(***************************************************************************)
EXTENDS Naturals, FiniteSets

CONSTANTS Person,   \* ids of accounts
          Caller    \* requests, one at a time each

ASSUME MembershipAssumption == IsFiniteSet(Person)

VARIABLES person,       \* the table users
          initialized,  \* the row of install_state that says there were users
          access,       \* the table user_app_access
          registered,   \* the hub has a key for the app
          caller        \* the requests, and if another one took an admin away meanwhile

memberVars == <<person, initialized, access, registered, caller>>

NoCall == [at |-> "idle", who |-> {}, role |-> "user", crossed |-> FALSE]

MembershipTypeOK ==
    /\ person \in [Person -> {"new", "user", "admin", "gone"}]
    /\ initialized \in BOOLEAN /\ registered \in BOOLEAN
    /\ access \subseteq Person
    /\ caller \in [Caller -> [at : {"idle", "setup", "created", "edit", "edited", "delete",
                                    "sync", "syncNew", "syncMade", "role"},
                              who : SUBSET Person, role : {"user", "admin"}, crossed : BOOLEAN]]

(* A new hub, or one with two administrators and a user of the app.          *)
MembershipInit ==
    /\ \/ person = [p \in Person |-> "new"] /\ access = {} /\ initialized = FALSE
       \/ /\ person \in [Person -> {"new", "user", "admin"}]
          /\ Cardinality({p \in Person : person[p] = "admin"}) = 2
          /\ access = {p \in Person : person[p] = "user"} /\ initialized = TRUE
    /\ registered = TRUE
    /\ caller = [c \in Caller |-> NoCall]

Users  == {p \in Person : person[p] \in {"user", "admin"}}
Admins == {p \in Person : person[p] = "admin"}

CallerAt(c, at) == caller[c].at = at
Calls(c, at, who, role) ==
    caller' = [caller EXCEPT ![c] = [NoCall EXCEPT !.at = at, !.who = who, !.role = role]]
CallEnds(c) == caller' = [caller EXCEPT ![c] = NoCall]

-----------------------------------------------------------------------------
(* The first administrator *)

SetupReads(c) ==
    /\ CallerAt(c, "idle") /\ Users = {} /\ ~initialized
    /\ Calls(c, "setup", {}, "admin")
    /\ UNCHANGED <<person, initialized, access, registered>>

(* BEGIN IMMEDIATE, and the count again.                                     *)
SetupInserts(c) ==
    /\ CallerAt(c, "setup") /\ CallEnds(c)
    /\ \/ Users # {} /\ UNCHANGED person
       \/ /\ Users = {}
          /\ \E p \in Person : person[p] = "new" /\ person' = [person EXCEPT ![p] = "admin"]
    /\ UNCHANGED <<initialized, access, registered>>

(* By the end of the setup and by every page while there are users.          *)
MarksInitialized ==
    /\ Users # {} /\ ~initialized /\ initialized' = TRUE
    /\ UNCHANGED <<person, access, registered, caller>>

-----------------------------------------------------------------------------
(* The administrators' pages *)

Grants(p) == access' = access \cup {p}

Withdraws(people) == access' = access \ people

(* A row of users as it is from here on; whoever checked before that there   *)
(* is another administrator is overtaken by the loss of one.                 *)
Becomes(c, p, status, at) ==
    /\ person' = [person EXCEPT ![p] = status]
    /\ caller' = [d \in Caller |->
          IF d = c THEN IF at = "idle" THEN NoCall ELSE [NoCall EXCEPT !.at = at, !.who = {p}]
          ELSE IF caller[d].at \in {"edit", "delete"} /\ person[p] = "admin" /\ status # "admin"
               THEN [caller[d] EXCEPT !.crossed = TRUE]
               ELSE caller[d]]

Creates(c, p, role) ==
    /\ CallerAt(c, "idle") /\ Admins # {} /\ person[p] = "new"
    /\ person' = [person EXCEPT ![p] = role]
    /\ Calls(c, "created", {p}, "user")
    /\ UNCHANGED <<initialized, access, registered>>

(* The apps ticked in the form, or none.                                     *)
CreateGrants(c) ==
    /\ CallerAt(c, "created") /\ CallEnds(c)
    /\ (\E p \in caller[c].who : Grants(p)) \/ UNCHANGED access
    /\ UNCHANGED <<person, initialized, registered>>

(* admin_count() <= 1: the target and the count, one read after the other.    *)
IsLastAdmin(p) == person[p] = "admin" /\ Cardinality(Admins) <= 1

EditReadsBlind(c, p, role) ==
    /\ CallerAt(c, "idle") /\ Admins # {} /\ p \in Users
    /\ Calls(c, "edit", {p}, role)
    /\ UNCHANGED <<person, initialized, access, registered>>

EditReads(c, p, role) ==
    /\ CallerAt(c, "idle") /\ Admins # {} /\ p \in Users
    /\ role # "admin" => ~IsLastAdmin(p)
    /\ Calls(c, "edit", {p}, role)
    /\ UNCHANGED <<person, initialized, access, registered>>

EditWrites(c) ==
    /\ CallerAt(c, "edit")
    /\ \E p \in caller[c].who :
         Becomes(c, p, IF p \in Users THEN caller[c].role ELSE person[p], "edited")
    /\ UNCHANGED <<initialized, access, registered>>

EditGrants(c) ==
    /\ CallerAt(c, "edited") /\ CallEnds(c)
    /\ (\E p \in caller[c].who : Grants(p)) \/ Withdraws(caller[c].who)
    /\ UNCHANGED <<person, initialized, registered>>

DeleteReads(c, p) ==
    /\ CallerAt(c, "idle") /\ Admins \ {p} # {} /\ p \in Users
    /\ ~IsLastAdmin(p)
    /\ Calls(c, "delete", {p}, "user")
    /\ UNCHANGED <<person, initialized, access, registered>>

DeleteWrites(c) ==
    /\ CallerAt(c, "delete")
    /\ \E p \in caller[c].who : Becomes(c, p, "gone", "idle")
    /\ UNCHANGED <<initialized, access, registered>>

-----------------------------------------------------------------------------
(* The app, which shows the key of its .env *)

(* create_or_grant_app_user, also of the older user-sync: an account it finds *)
(* keeps the access it has, or none (the role is not in the model).          *)
SyncFinds(c, p) ==
    /\ CallerAt(c, "idle") /\ registered /\ p \in Users
    /\ Calls(c, "sync", {p}, "user")
    /\ UNCHANGED <<person, initialized, access, registered>>

SyncUpdates(c) ==
    /\ CallerAt(c, "sync") /\ CallEnds(c)
    /\ UNCHANGED <<person, initialized, access, registered>>

(* One it does not find is made, unless the name is taken by now.            *)
SyncMisses(c) ==
    /\ CallerAt(c, "idle") /\ registered
    /\ Calls(c, "syncNew", {}, "user")
    /\ UNCHANGED <<person, initialized, access, registered>>

SyncCreates(c) ==
    /\ CallerAt(c, "syncNew")
    /\ \/ /\ Users # {} /\ CallEnds(c) /\ UNCHANGED person
       \/ \E p \in Person :
            /\ person[p] = "new" /\ person' = [person EXCEPT ![p] = "user"]
            /\ Calls(c, "syncMade", {p}, "user")
    /\ UNCHANGED <<initialized, access, registered>>

SyncGrants(c) ==
    /\ CallerAt(c, "syncMade") /\ CallEnds(c)
    /\ access' = access \cup caller[c].who
    /\ UNCHANGED <<person, initialized, registered>>

(* update_app_user_role: looks for the row, then writes it whether it is      *)
(* there or not.                                                             *)
RoleReads(c, p) ==
    /\ CallerAt(c, "idle") /\ registered /\ p \in Users /\ p \in access
    /\ Calls(c, "role", {p}, "user")
    /\ UNCHANGED <<person, initialized, access, registered>>

RoleWrites(c) ==
    /\ CallerAt(c, "role") /\ CallEnds(c)
    /\ access' = access \cup caller[c].who
    /\ UNCHANGED <<person, initialized, registered>>

AppRemoves(p) ==
    /\ registered /\ p \in access /\ Withdraws({p})
    /\ UNCHANGED <<person, initialized, registered, caller>>

-----------------------------------------------------------------------------
(* A removal forgets the key and everybody's access; an installation or a     *)
(* link makes a key anew, and an installation that succeeds grants access to  *)
(* whoever began it.                                                         *)

UninstallForgets ==
    /\ Admins # {} /\ registered
    /\ registered' = FALSE /\ Withdraws(Person)
    /\ UNCHANGED <<person, initialized, caller>>

Registers ==
    /\ Admins # {} /\ ~registered /\ registered' = TRUE
    /\ UNCHANGED <<person, initialized, access, caller>>

InstallSucceeds(p) ==
    /\ registered /\ person[p] # "new" /\ Grants(p)
    /\ UNCHANGED <<person, initialized, registered, caller>>

-----------------------------------------------------------------------------
MembershipNext ==
    \/ \E c \in Caller :
        \/ SetupReads(c) \/ SetupInserts(c)
        \/ \E p \in Person :
            \/ \E role \in {"user", "admin"} : Creates(c, p, role) \/ EditReads(c, p, role)
            \/ DeleteReads(c, p) \/ SyncFinds(c, p) \/ RoleReads(c, p)
        \/ CreateGrants(c) \/ EditWrites(c) \/ EditGrants(c) \/ DeleteWrites(c)
        \/ SyncUpdates(c) \/ SyncMisses(c) \/ SyncCreates(c) \/ SyncGrants(c) \/ RoleWrites(c)
    \/ MarksInitialized \/ Registers \/ UninstallForgets
    \/ \E p \in Person : AppRemoves(p) \/ InstallSucceeds(p)

MembershipSpec == MembershipInit /\ [][MembershipNext]_memberVars

-----------------------------------------------------------------------------
(* Properties *)

(* An edit or a deletion takes the last administrator away only if another   *)
(* administrator was lost between its check and its write.                   *)
AdminRemains ==
    [][Admins # {} /\ Admins' = {}
          => \E c \in Caller : caller[c].crossed /\ caller'[c] # caller[c]]_memberVars
=============================================================================
