------------------------------ MODULE Accounts ------------------------------
(***************************************************************************)
(* One account of the hub and what gives access to it: the row of users     *)
(* (services/auth.py), the login cookies and the SSO handoffs that carry    *)
(* its session_version, and the tickets of a first login in an app.         *)
(*                                                                         *)
(* A password is named by the session_version it was set with: every change *)
(* of one moves the other.  What somebody knows is a history: the password  *)
(* the holder of a cookie, a handoff or a ticket proved to know last.  The   *)
(* app is one the account has been assigned: without, its requests change    *)
(* nothing.                                                                 *)
(***************************************************************************)
EXTENDS Naturals, FiniteSets

CONSTANTS Visit,       \* requests to the hub, one at a time each
          MaxVersion,  \* bound on session_version
          MaxGiven     \* bound on what is given out at a time

ASSUME AccountsAssumption == MaxVersion \in Nat \ {0} /\ MaxGiven \in Nat

VARIABLES account,  \* the row of users
          visit,    \* the requests: where each is and what it needs of what it read
          given     \* login cookies, _sso_tokens, first_login_tokens

accountVars == <<account, visit, given>>

Version == 1..MaxVersion
Row == [exists : BOOLEAN, role : {"admin", "user"}, password : Version, version : Version,
        must : BOOLEAN, email : BOOLEAN, old : BOOLEAN]
Place == {"idle", "login", "profile", "relogin", "edit", "ownPassword", "setting",
          "handoff", "app", "appTicket", "appChange", "complete"}
Read == [at : Place, knows : Version, version : Version,
         must : BOOLEAN, email : BOOLEAN, old : BOOLEAN]
Credential == [as : {"cookie", "handoff", "ticket"}, version : Version, knows : Version,
               overtaken : BOOLEAN]

AccountsTypeOK ==
    /\ account \in Row
    /\ visit \in [Visit -> Read]
    /\ given \subseteq Credential

Idle == [at |-> "idle", knows |-> 1, version |-> 1,
         must |-> FALSE, email |-> FALSE, old |-> FALSE]

(* Created by an administrator with a password to be changed (must) and an   *)
(* email to be confirmed; or imported from an app with its Argon2 hash,      *)
(* which may be an older one; or the first administrator.                    *)
AccountsInit ==
    /\ account \in [exists : {TRUE}, role : {"admin", "user"}, password : {1}, version : {1},
                    must : BOOLEAN, email : BOOLEAN, old : BOOLEAN]
    /\ account.must => account.email /\ ~account.old
    /\ account.role = "admin" => ~account.email
    /\ visit = [v \in Visit |-> Idle]
    /\ given = {}

(* get_by_session_id                                                        *)
Accepted(c) == account.exists /\ c.version = account.version
Cookie == {c \in given : c.as = "cookie" /\ Accepted(c)}

AtPlace(v, places) == visit[v].at \in places
Leaves(v)   == visit' = [visit EXCEPT ![v] = Idle]
Goes(v, at) == visit' = [visit EXCEPT ![v].at = at]
Stays       == UNCHANGED <<account, given>>

Gives(as, v, version) ==
    /\ Cardinality(given) < MaxGiven
    /\ given' = given \cup {[as |-> as, version |-> version, knows |-> visit[v].knows,
                             overtaken |-> /\ version = account.version
                                           /\ visit[v].knows # account.password
                                           /\ visit[v].at \in {"relogin", "handoff", "appTicket"}]}

(* The row as it is by now, if it is there.                                 *)
GivesAnew(as, v) == IF account.exists THEN Gives(as, v, account.version) ELSE UNCHANGED given

(* UPDATE users SET password_hash=?, must_change_password=0,                *)
(* session_version=session_version+1: nothing if the row is gone.           *)
SetsPassword ==
    /\ account.exists => account.version < MaxVersion
    /\ account' = IF account.exists
                  THEN [account EXCEPT !.password = account.version + 1, !.old = FALSE,
                                       !.version = account.version + 1, !.must = FALSE]
                  ELSE account

-----------------------------------------------------------------------------
(* Checking a password.  The row is read once; the caller goes on with it.   *)

(* check_password by somebody who knows it.  Others change nothing here.     *)
Checks(v, at) ==
    /\ AtPlace(v, {"idle"}) /\ account.exists
    /\ visit' = [visit EXCEPT ![v] =
         [at |-> at, knows |-> account.password, old |-> account.old,
          version |-> IF at \in {"login", "app"} THEN account.version ELSE 1,
          must |-> at = "app" /\ account.must,
          email |-> at \in {"app", "appChange"} /\ account.email]]
    /\ Stays

(* An older hash is replaced unless it changed since: "a concurrent reset    *)
(* wins over transparent hash migration".                                    *)
Rehashes(v) ==
    /\ AtPlace(v, {"login", "profile", "edit", "app", "appChange"}) /\ visit[v].old
    /\ IF account.exists /\ account.old /\ account.password = visit[v].knows
       THEN /\ account' = [account EXCEPT !.old = FALSE]
            /\ visit' = [visit EXCEPT ![v].old = FALSE]
       ELSE Leaves(v) /\ UNCHANGED account
    /\ UNCHANGED given

Checked(v, at) == AtPlace(v, {at}) /\ ~visit[v].old

-----------------------------------------------------------------------------
(* The hub's own pages *)

(* The cookie of a login says the version of the row that was checked.       *)
LogsInUnread(v) ==
    /\ Checked(v, "login") /\ Leaves(v)
    /\ Gives("cookie", v, account.version)
    /\ UNCHANGED account

LogsIn(v) ==
    /\ Checked(v, "login") /\ Leaves(v)
    /\ Gives("cookie", v, visit[v].version)
    /\ UNCHANGED account

(* The profile page changes the password of whom its cookie and the current  *)
(* password identified; so does an administrator's edit of their own account.*)
ProfileChecks(v) == Cookie # {} /\ Checks(v, "profile")

OwnPassword(v) ==
    /\ SetsPassword
    /\ IF account.exists
       THEN visit' = [visit EXCEPT ![v] = [Idle EXCEPT !.at = "relogin",
                                                       !.knows = account.version + 1]]
       ELSE Leaves(v)
    /\ UNCHANGED given

ProfileChanges(v) == Checked(v, "profile") /\ OwnPassword(v)

(* _login_on_device(get_by_id): the row as it is by now.                     *)
LogsInAgain(v) ==
    /\ AtPlace(v, {"relogin"}) /\ Leaves(v)
    /\ GivesAnew("cookie", v)
    /\ UNCHANGED account

(* A handoff to an app, from a page whose cookie was accepted; again with    *)
(* the row as it is by now.                                                  *)
AsksHandoff(v) ==
    /\ AtPlace(v, {"idle"}) /\ ~account.must /\ ~account.email
    /\ \E c \in Cookie :
         visit' = [visit EXCEPT ![v] = [Idle EXCEPT !.at = "handoff", !.knows = c.knows]]
    /\ Stays

HandsOff(v) ==
    /\ AtPlace(v, {"handoff"}) /\ Leaves(v)
    /\ GivesAnew("handoff", v)
    /\ UNCHANGED account

(* A logout, the end of the thirty days, or of the minute or ten minutes of   *)
(* a handoff or ticket; a handoff is also gone once an app asked about it.    *)
Ends(c) == given' = given \ {c} /\ UNCHANGED <<account, visit>>

(* An administrator edits the account: one write of the row, which ends the  *)
(* sessions if the role changes, and another one for a new password.         *)
WritesRow(role, email) ==
    /\ account.exists
    /\ role # account.role => account.version < MaxVersion
    /\ account' = [account EXCEPT !.role = role, !.email = email,
                                  !.version = IF role # account.role THEN @ + 1 ELSE @]
    /\ UNCHANGED given

Edits(v, role, email) ==
    /\ AtPlace(v, {"idle"})
    /\ WritesRow(role, email) /\ (Leaves(v) \/ Goes(v, "setting"))

(* PasswordResetService.complete: a verified code is its holder's word for it.*)
ResetChecks(v) == AtPlace(v, {"idle"}) /\ account.exists /\ Goes(v, "setting") /\ Stays

(* change_password at the end of either.                                    *)
SetsForOther(v) ==
    /\ AtPlace(v, {"setting"})
    /\ SetsPassword /\ Leaves(v) /\ UNCHANGED given

(* Their own account: logged in again at the end, and the current password   *)
(* is asked for if there is a new one.                                       *)
OwnEditChecks(v) == account.role = "admin" /\ Cookie # {} /\ Checks(v, "edit")

OwnEdits(v, role, email) ==
    /\ WritesRow(role, email)
    /\ \/ Checked(v, "edit") /\ Goes(v, "ownPassword")
       \/ /\ AtPlace(v, {"idle"}) /\ account.role = "admin"
          /\ \E c \in Cookie :
               visit' = [visit EXCEPT ![v].at = "relogin", ![v].knows = c.knows]

OwnEditChanges(v) == AtPlace(v, {"ownPassword"}) /\ OwnPassword(v)

Deletes ==
    /\ account.exists /\ account' = [account EXCEPT !.exists = FALSE]
    /\ UNCHANGED <<visit, given>>

-----------------------------------------------------------------------------
(* Logins in apps *)

(* The password of a first login: a compare-and-set, and the email with it.  *)
FirstPassword(current) ==
    /\ current => account.version < MaxVersion
    /\ account' = IF current
                  THEN [account EXCEPT !.password = account.version + 1, !.old = FALSE,
                                       !.version = account.version + 1,
                                       !.must = FALSE, !.email = FALSE]
                  ELSE account
    /\ UNCHANGED given

AppFirstPasswordBlind(v) ==
    /\ Checked(v, "app") /\ visit[v].must
    /\ FirstPassword(account.exists) /\ Leaves(v)

AppFirstPassword(v) ==
    /\ Checked(v, "app") /\ visit[v].must
    /\ FirstPassword(/\ account.exists /\ account.must
                     /\ account.version = visit[v].version)
    /\ Leaves(v)

(* Whose email only is to be confirmed, and who sends it at once.            *)
AppFirstEmail(v) ==
    /\ Checked(v, "app") /\ ~visit[v].must /\ visit[v].email
    /\ account' = [account EXCEPT !.email = @ /\ ~account.exists]
    /\ Leaves(v) /\ UNCHANGED given

(* Otherwise the user is answered, and given a ticket if something is        *)
(* missing, with the version of the row as it is by then.                    *)
AppAnswers(v) ==
    /\ Checked(v, "app")
    /\ IF (visit[v].must \/ visit[v].email)
       THEN Goes(v, "appTicket") ELSE Leaves(v)
    /\ Stays

AppTicket(v) ==
    /\ AtPlace(v, {"appTicket"}) /\ Leaves(v)
    /\ GivesAnew("ticket", v)
    /\ UNCHANGED account

CompleteReads(v) ==
    /\ AtPlace(v, {"idle"}) /\ (account.must \/ account.email)
    /\ \E t \in given :
         /\ t.as = "ticket" /\ Accepted(t)
         /\ visit' = [visit EXCEPT ![v] = [at |-> "complete", knows |-> t.knows,
                                           version |-> t.version, must |-> account.must,
                                           email |-> account.email, old |-> FALSE]]
    /\ Stays

(* A compare-and-set on the version and on what was missing.                 *)
Completes(v) ==
    LET current == /\ account.exists /\ account.version = visit[v].version
                   /\ account.email = visit[v].email /\ account.must = visit[v].must IN
    /\ AtPlace(v, {"complete"}) /\ Leaves(v)
    /\ IF visit[v].must
       THEN FirstPassword(current)
       ELSE /\ current => account.version < MaxVersion
            /\ account' = IF current
                          THEN [account EXCEPT !.email = FALSE, !.version = @ + 1]
                          ELSE account
            /\ UNCHANGED given

(* change_app_user_password changes what it checked a moment ago.            *)
AppChanges(v) ==
    /\ Checked(v, "appChange") /\ Leaves(v)
    /\ IF ~visit[v].email THEN SetsPassword ELSE UNCHANGED account
    /\ UNCHANGED given

(* The profile page, or an app for its members.                              *)
ConfirmsEmail ==
    /\ account.exists /\ account.email
    /\ account' = [account EXCEPT !.email = FALSE]
    /\ UNCHANGED <<visit, given>>

-----------------------------------------------------------------------------
AccountsNext ==
    \/ \E v \in Visit :
        \/ \E at \in {"login", "app", "appChange"} : Checks(v, at)
        \/ Rehashes(v) \/ LogsIn(v) \/ LogsInAgain(v)
        \/ ProfileChecks(v) \/ ProfileChanges(v)
        \/ AsksHandoff(v) \/ HandsOff(v)
        \/ \E role \in {"admin", "user"}, email \in BOOLEAN :
             Edits(v, role, email) \/ OwnEdits(v, role, email)
        \/ OwnEditChecks(v) \/ OwnEditChanges(v)
        \/ ResetChecks(v) \/ SetsForOther(v)
        \/ AppFirstPassword(v) \/ AppFirstEmail(v) \/ AppAnswers(v) \/ AppTicket(v)
        \/ CompleteReads(v) \/ Completes(v) \/ AppChanges(v)
    \/ \E c \in given : Ends(c)
    \/ Deletes \/ ConfirmsEmail

AccountsSpec == AccountsInit /\ [][AccountsNext]_accountVars

-----------------------------------------------------------------------------
(* Properties *)

(* Password resets and password changes revoke what was given out before: a  *)
(* cookie, handoff or ticket that is accepted is of somebody who knows the    *)
(* current password, unless it was made by a request that read the row anew  *)
(* after another one had changed it.                                        *)
CredentialsFollowPassword ==
    \A c \in given : Accepted(c) => c.knows = account.password \/ c.overtaken

(* A first login never replaces a password its sender did not know, however  *)
(* many logins, resets and edits go on at once.                             *)
FirstLoginIsTheOwners ==
    [][\A v \in Visit :
          AtPlace(v, {"app", "complete"}) /\ visit'[v] # visit[v]
            => account'.password = account.password \/ visit[v].knows = account.password]_accountVars
=============================================================================
