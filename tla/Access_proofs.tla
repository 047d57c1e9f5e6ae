---------------------------- MODULE Access_proofs ----------------------------
(***************************************************************************)
(* What holds of who gets in, for any accounts, apps and overlapping        *)
(* requests: an app's key, the administrators, and what is accepted for a   *)
(* password.                                                                *)
(***************************************************************************)
EXTENDS AppKeys, Membership, Accounts, FiniteSetTheorems, TLAPS

-----------------------------------------------------------------------------
(* The key of an app.  Unless the app and the hub have parted, a link under  *)
(* way has the hub's key, and without one that key is in the .env or still   *)
(* to be written by an installation.                                        *)

UnderWay ==
    lost = {} =>
        /\ linking \subseteq {key.number}
        /\ linking = {} /\ key.number # 0 =>
             envKey = key.number \/ (installing.key = key.number /\ ~installing.wrote)

KeysInv == KeysTypeOK /\ UnderWay

LEMMA KeysInitInv == KeysInit => KeysInv
<1> SUFFICES ASSUME KeysInit PROVE KeysInv
  OBVIOUS
<1>1. key \in {[number |-> 0, plain |-> FALSE]} \cup [number : {1}, plain : BOOLEAN]
  BY DEF KeysInit
<1>2. key \in [number : 0..MaxKey, plain : BOOLEAN] /\ key.number \in 0..MaxKey
  <2>1. CASE key = [number |-> 0, plain |-> FALSE]
    BY <2>1, AppKeysAssumption
  <2>2. CASE key \in [number : {1}, plain : BOOLEAN]
    BY <2>2, AppKeysAssumption
  <2> QED BY <1>1, <2>1, <2>2
<1>3. installing \in [key : 0..MaxKey, wrote : BOOLEAN]
  BY AppKeysAssumption DEF KeysInit, NoInstallation
<1>4. /\ envKey = key.number /\ linking = {} /\ rewriting = {} /\ verifying = 0 /\ lost = {}
  BY DEF KeysInit
<1>5. 0 \in 0..MaxKey
  BY AppKeysAssumption
<1> QED BY <1>2, <1>3, <1>4, <1>5 DEF KeysInv, KeysTypeOK, UnderWay

(* Saving a key.                                                            *)
LEMMA SavedKey ==
  ASSUME NEW n \in 1..MaxKey, SavesHubKey(n)
  PROVE  /\ key' \in [number : 0..MaxKey, plain : BOOLEAN] /\ key'.number = n /\ n \in 0..MaxKey
         /\ lost' = {}
BY AppKeysAssumption DEF SavesHubKey

(* A write of the .env that is not of the hub's key.                         *)
LEMMA KeyPut ==
  ASSUME KeysTypeOK, NEW k \in 0..MaxKey, NEW cause \in {"crossed", "rewritten"}, PutsKey(k, cause)
  PROVE  /\ envKey' \in 0..MaxKey /\ envKey' = k
         /\ lost' \subseteq {"unwritten", "crossed", "rewritten", "hashed"}
         /\ lost' = {} => lost = {} /\ (envKey # key.number \/ k = envKey)
BY DEF KeysTypeOK, PutsKey

LEMMA KeysNextInv == ASSUME KeysInv, [KeysNext]_keysVars PROVE KeysInv'
<1> USE AppKeysAssumption
<1> DEFINE Causes == {"unwritten", "crossed", "rewritten", "hashed"}
<1>0. /\ key \in [number : 0..MaxKey, plain : BOOLEAN] /\ key.number \in 0..MaxKey
      /\ envKey \in 0..MaxKey /\ verifying \in 0..MaxKey
      /\ installing \in [key : 0..MaxKey, wrote : BOOLEAN]
      /\ installing.key \in 0..MaxKey /\ 0 \in 0..MaxKey
      /\ linking \subseteq 1..MaxKey /\ rewriting \subseteq 0..MaxKey
      /\ lost \subseteq Causes /\ KeysTypeOK /\ UnderWay
  BY DEF KeysInv, KeysTypeOK
<1>f. /\ key' \in [number : 0..MaxKey, plain : BOOLEAN]
      /\ envKey' \in 0..MaxKey /\ verifying' \in 0..MaxKey
      /\ installing' \in [key : 0..MaxKey, wrote : BOOLEAN]
      /\ linking' \subseteq 1..MaxKey /\ rewriting' \subseteq 0..MaxKey
      /\ lost' \subseteq Causes /\ UnderWay'
      => KeysInv'
  BY DEF KeysInv, KeysTypeOK
<1>1. ASSUME NEW n \in 1..MaxKey, LinkSaves(n) PROVE KeysInv'
  <2>1. /\ key' \in [number : 0..MaxKey, plain : BOOLEAN] /\ key'.number = n /\ lost' = {}
        /\ linking' = {n} /\ UNCHANGED <<envKey, installing, rewriting, verifying>>
    BY <1>1, SavedKey DEF LinkSaves
  <2>2. UnderWay'
    BY <2>1 DEF UnderWay
  <2> QED BY <1>0, <1>f, <2>1, <2>2
<1>2. ASSUME NEW n \in 1..MaxKey, InstallSaves(n) PROVE KeysInv'
  <2>1. /\ key' \in [number : 0..MaxKey, plain : BOOLEAN] /\ key'.number = n /\ lost' = {}
        /\ linking = {} /\ UNCHANGED <<envKey, linking, rewriting, verifying>>
    BY <1>2, SavedKey DEF InstallSaves
  <2>2. /\ installing' = [key |-> n, wrote |-> FALSE]
        /\ installing' \in [key : 0..MaxKey, wrote : BOOLEAN]
    BY <1>2, SavedKey DEF InstallSaves
  <2>3. installing'.key = n /\ ~installing'.wrote
    BY <2>2, Zenon
  <2>4. UnderWay'
    BY <2>1, <2>3 DEF UnderWay
  <2> QED BY <1>0, <1>f, <2>1, <2>2, <2>4
<1>3. ASSUME NEW n \in linking, NEW left \in 0..MaxKey, LinkWrites(n, left) PROVE KeysInv'
  <2>1. /\ lost' \subseteq Causes /\ (lost' = {} => lost = {} /\ left = n)
        /\ linking' = linking \ {n} /\ envKey' = left
        /\ UNCHANGED <<key, installing, rewriting, verifying>>
    BY <1>0, <1>3 DEF LinkWrites
  <2>2. UnderWay'
    BY <1>0, <2>1 DEF UnderWay
  <2> QED BY <1>0, <1>f, <2>1, <2>2
<1>4. CASE InstallWrites
  <2>1. /\ installing' = [installing EXCEPT !.wrote = TRUE]
        /\ installing' \in [key : 0..MaxKey, wrote : BOOLEAN]
        /\ UNCHANGED <<key, linking, rewriting, verifying>>
    BY <1>0, <1>4 DEF InstallWrites
  <2>2. /\ envKey' \in 0..MaxKey /\ envKey' = installing.key
        /\ lost' \subseteq Causes
        /\ lost' = {} => lost = {} /\ (envKey # key.number \/ installing.key = envKey)
    BY <1>0, <1>4, KeyPut DEF InstallWrites
  <2>3. UnderWay'
    BY <1>0, <2>1, <2>2 DEF UnderWay
  <2> QED BY <1>0, <1>f, <2>1, <2>2, <2>3
<1>5. ASSUME NEW left \in 0..MaxKey, InstallEnds(left) PROVE KeysInv'
  <2>1. /\ installing' = NoInstallation /\ envKey' = left
        /\ left \in {envKey, 0} /\ (installing.wrote => left = envKey)
        /\ UNCHANGED <<key, linking, rewriting, verifying>>
    BY <1>5 DEF InstallEnds
  <2>2. /\ lost' \subseteq Causes
        /\ lost' = {} => /\ lost = {}
                         /\ installing.wrote \/ (key.number # installing.key /\ left = envKey)
    BY <1>0, <1>5 DEF InstallEnds
  <2>3. installing' \in [key : 0..MaxKey, wrote : BOOLEAN]
    BY <1>0, <2>1 DEF NoInstallation
  <2>4. UnderWay'
    BY <1>0, <2>1, <2>2 DEF UnderWay
  <2> QED BY <1>0, <1>f, <2>1, <2>2, <2>3, <2>4
<1>6. CASE UninstallForgetsKey
  <2>1. /\ key' \in [number : 0..MaxKey, plain : BOOLEAN] /\ key'.number = 0
        /\ linking = {} /\ UNCHANGED <<envKey, installing, linking, rewriting, verifying, lost>>
    BY <1>6 DEF UninstallForgetsKey
  <2>2. UnderWay'
    BY <2>1 DEF UnderWay
  <2> QED BY <1>0, <1>f, <2>1, <2>2
<1>7. CASE RewriteReads \/ RewriteEnds \/ VerifyReads
  <2>1. /\ rewriting' \subseteq 0..MaxKey /\ verifying' \in 0..MaxKey
        /\ UNCHANGED <<key, envKey, installing, linking, lost>>
    BY <1>0, <1>7 DEF RewriteReads, RewriteEnds, VerifyReads
  <2>2. UnderWay'
    BY <1>0, <2>1 DEF UnderWay
  <2> QED BY <1>0, <1>f, <2>1, <2>2
<1>8. ASSUME NEW k \in rewriting, NEW left \in 0..MaxKey, NEW again \in BOOLEAN,
             RewriteWrites(k, left, again)
      PROVE  KeysInv'
  <2>1. /\ rewriting' \subseteq 0..MaxKey
        /\ UNCHANGED <<key, installing, linking, verifying>>
    BY <1>0, <1>8 DEF RewriteWrites
  <2>2. /\ envKey' \in 0..MaxKey /\ envKey' = left
        /\ lost' \subseteq Causes
        /\ lost' = {} => lost = {} /\ (envKey # key.number \/ left = envKey)
    BY <1>0, <1>8, KeyPut DEF RewriteWrites
  <2>3. UnderWay'
    BY <1>0, <2>1, <2>2 DEF UnderWay
  <2> QED BY <1>0, <1>f, <2>1, <2>2, <2>3
<1>9. CASE VerifyHashes
  <2>1. /\ key' \in [number : 0..MaxKey, plain : BOOLEAN] /\ verifying' = 0
        /\ UNCHANGED <<envKey, installing, linking, rewriting>>
    BY <1>0, <1>9 DEF VerifyHashes
  <2>2. lost' \subseteq Causes /\ (lost' = {} => lost = {} /\ key'.number = key.number)
    BY <1>0, <1>9 DEF VerifyHashes
  <2>3. UnderWay'
    BY <1>0, <2>1, <2>2 DEF UnderWay
  <2> QED BY <1>0, <1>f, <2>1, <2>2, <2>3
<1>10. CASE UNCHANGED keysVars
  BY <1>0, <1>f, <1>10 DEF keysVars, UnderWay
<1> QED BY <1>1, <1>2, <1>3, <1>4, <1>5, <1>6, <1>7, <1>8, <1>9, <1>10 DEF KeysNext

(* When nothing is under way, the app's .env has the key that the hub knows, *)
(* but for the cases that KeyReachesApp names.                              *)
THEOREM KeysReachApps == KeysSpec => []KeyReachesApp
<1>1. KeysInv /\ [KeysNext]_keysVars => KeysInv'
  BY KeysNextInv
<1>2. KeysInv => KeyReachesApp
  BY AppKeysAssumption DEF KeysInv, KeysTypeOK, UnderWay, KeyReachesApp, NoInstallation
<1> QED BY KeysInitInv, <1>1, <1>2, PTL DEF KeysSpec

-----------------------------------------------------------------------------
(* The administrators.  A request that may take one away, and has not been   *)
(* crossed, has seen another one who still is one.                          *)

Taking(c) == CallerAt(c, "delete") \/ (CallerAt(c, "edit") /\ caller[c].role # "admin")

OthersRemain ==
    \A c \in Caller, p \in Person :
        Taking(c) /\ ~caller[c].crossed /\ p \in caller[c].who => Admins \ {p} # {}

MembersInv == MembershipTypeOK /\ OthersRemain

LEMMA MembersInitInv == MembershipInit => MembersInv
<1> SUFFICES ASSUME MembershipInit PROVE MembersInv
  OBVIOUS
<1> USE DEF MembershipInit, NoCall
<1>1. initialized \in BOOLEAN /\ registered \in BOOLEAN
  BY Zenon
<1>2. person \in [Person -> {"new", "user", "admin", "gone"}] /\ access \subseteq Person
  OBVIOUS
<1>3. caller \in [Caller -> [at : {"idle", "setup", "created", "edit", "edited", "delete",
                                    "sync", "syncNew", "syncMade", "role"},
                              who : SUBSET Person, role : {"user", "admin"}, crossed : BOOLEAN]]
  OBVIOUS
<1>4. OthersRemain
  BY DEF OthersRemain, Taking, CallerAt
<1> QED BY <1>1, <1>2, <1>3, <1>4 DEF MembersInv, MembershipTypeOK

(* Somebody who is not the last administrator leaves another one.            *)
LEMMA NotTheLast ==
  ASSUME NEW p \in Person, Admins # {}, ~IsLastAdmin(p) PROVE Admins \ {p} # {}
<1>1. CASE person[p] # "admin"
  BY <1>1 DEF Admins
<1>2. CASE ~(Cardinality(Admins) <= 1)
  <2> SUFFICES ASSUME Admins \ {p} = {} PROVE FALSE
    OBVIOUS
  <2>1. Admins = {p}
    OBVIOUS
  <2>2. Cardinality({p}) = 1
    BY FS_Singleton
  <2> QED BY <1>2, <2>1, <2>2
<1> QED BY <1>1, <1>2 DEF IsLastAdmin

Call == [at : {"idle", "setup", "created", "edit", "edited", "delete",
               "sync", "syncNew", "syncMade", "role"},
         who : SUBSET Person, role : {"user", "admin"}, crossed : BOOLEAN]

LEMMA MemberTypes ==
  MembershipTypeOK <=> /\ person \in [Person -> {"new", "user", "admin", "gone"}]
                       /\ initialized \in BOOLEAN /\ registered \in BOOLEAN
                       /\ access \subseteq Person /\ caller \in [Caller -> Call]
BY DEF MembershipTypeOK, Call

(* What a request is once it went on, or ended.                              *)
LEMMA Called ==
  ASSUME MembershipTypeOK, NEW c \in Caller, NEW at, NEW who \in SUBSET Person,
         NEW role \in {"user", "admin"}, Calls(c, at, who, role),
         at \in {"setup", "created", "edit", "delete", "sync", "syncNew", "syncMade", "role"}
  PROVE  /\ caller' \in [Caller -> Call]
         /\ caller'[c].at = at /\ caller'[c].who = who /\ caller'[c].role = role
         /\ \A d \in Caller \ {c} : caller'[d] = caller[d]
<1> DEFINE new == [NoCall EXCEPT !.at = at, !.who = who, !.role = role]
<1>1. new \in Call /\ new.at = at /\ new.who = who /\ new.role = role
  BY DEF NoCall, Call
<1>2. caller \in [Caller -> Call] /\ caller' = [caller EXCEPT ![c] = new]
  BY MemberTypes DEF Calls
<1> HIDE DEF new
<1> QED BY <1>1, <1>2

LEMMA Ended ==
  ASSUME MembershipTypeOK, NEW c \in Caller, CallEnds(c)
  PROVE  /\ caller' \in [Caller -> Call] /\ caller'[c].at = "idle"
         /\ \A d \in Caller \ {c} : caller'[d] = caller[d]
<1>1. NoCall \in Call /\ NoCall.at = "idle"
  BY DEF NoCall, Call
<1>2. caller \in [Caller -> Call] /\ caller' = [caller EXCEPT ![c] = NoCall]
  BY MemberTypes DEF CallEnds
<1> QED BY <1>1, <1>2

(* A row that is written: whoever may take an administrator away after it is *)
(* crossed, if it took one.                                                 *)
LEMMA Became ==
  ASSUME MembershipTypeOK, NEW c \in Caller, NEW p \in Person, NEW at \in {"idle", "edited"},
         NEW status \in {"new", "user", "admin", "gone"}, Becomes(c, p, status, at)
  PROVE  /\ person' \in [Person -> {"new", "user", "admin", "gone"}]
         /\ caller' \in [Caller -> Call] /\ caller'[c].at = at
         /\ Admins' = IF status = "admin" THEN Admins \cup {p} ELSE Admins \ {p}
         /\ \A d \in Caller \ {c} :
               \/ caller'[d] = caller[d] /\ (Taking(d) => Admins \subseteq Admins')
               \/ caller'[d].crossed
<1>1. person \in [Person -> {"new", "user", "admin", "gone"}] /\ caller \in [Caller -> Call]
  BY MemberTypes
<1>2. /\ person' = [person EXCEPT ![p] = status]
      /\ Admins' = IF status = "admin" THEN Admins \cup {p} ELSE Admins \ {p}
  BY <1>1 DEF Becomes, Admins
<1> DEFINE own == IF at = "idle" THEN NoCall ELSE [NoCall EXCEPT !.at = at, !.who = {p}]
           hit(d) == [caller[d] EXCEPT !.crossed = TRUE]
           deposed(d) == caller[d].at \in {"edit", "delete"} /\ person[p] = "admin" /\ status # "admin"
<1>3. own \in Call /\ own.at = at
  BY DEF NoCall, Call
<1>4. ASSUME NEW d \in Caller PROVE hit(d) \in Call /\ hit(d).crossed
  <2>1. caller[d] \in Call
    BY <1>1
  <2> QED BY <2>1 DEF Call
<1>5. caller' = [d \in Caller |-> IF d = c THEN own ELSE IF deposed(d) THEN hit(d) ELSE caller[d]]
  BY DEF Becomes
<1>6. ASSUME NEW d \in Caller, Taking(d), ~deposed(d) PROVE Admins \subseteq Admins'
  BY <1>2, <1>6 DEF Taking, CallerAt, Admins
<1> HIDE DEF own, hit, deposed
<1>7. caller' \in [Caller -> Call] /\ caller'[c] = own
  BY <1>1, <1>3, <1>4, <1>5
<1>8. ASSUME NEW d \in Caller \ {c}
      PROVE  (caller'[d] = caller[d] /\ ~deposed(d)) \/ caller'[d].crossed
  BY <1>4, <1>5
<1> QED BY <1>1, <1>2, <1>3, <1>6, <1>7, <1>8

(* A step that takes nobody away.                                           *)
LEMMA Others ==
  ASSUME MembersInv, Admins \subseteq Admins',
         \A d \in Caller : \/ caller'[d] = caller[d] \/ ~Taking(d)'
                          \/ \A p \in caller'[d].who : Admins \ {p} # {}
  PROVE  OthersRemain'
BY DEF MembersInv, OthersRemain, Taking, CallerAt

Loses == Admins # {} /\ Admins' = {}
           => \E c \in Caller : caller[c].crossed /\ caller'[c] # caller[c]

LEMMA MembersNextInv == ASSUME MembersInv, [MembershipNext]_memberVars PROVE MembersInv' /\ Loses
<1>0. /\ MembershipTypeOK /\ caller \in [Caller -> Call]
      /\ person \in [Person -> {"new", "user", "admin", "gone"}]
      /\ initialized \in BOOLEAN /\ registered \in BOOLEAN /\ access \subseteq Person
  BY MemberTypes DEF MembersInv
<1>f. /\ person' \in [Person -> {"new", "user", "admin", "gone"}]
      /\ initialized' \in BOOLEAN /\ registered' \in BOOLEAN
      /\ access' \subseteq Person /\ caller' \in [Caller -> Call] /\ OthersRemain'
      => MembersInv'
  BY DEF MembersInv, MembershipTypeOK, Call
<1>t. \A d \in Caller : caller[d].who \in SUBSET Person /\ caller[d].role \in {"user", "admin"}
  BY <1>0 DEF Call
<1>q. Admins \subseteq Admins' => Loses
  BY DEF Loses
<1>1. ASSUME NEW c \in Caller, SetupReads(c) PROVE MembersInv' /\ Loses
  <2>1. /\ caller' \in [Caller -> Call] /\ ~Taking(c)'
        /\ \A d \in Caller \ {c} : caller'[d] = caller[d]
    BY <1>0, <1>1, Called DEF SetupReads, Taking, CallerAt
  <2>2. Admins' = Admins
    BY <1>1 DEF SetupReads, Admins
  <2> QED BY <1>0, <1>1, <1>f, <1>q, <2>1, <2>2, Others DEF SetupReads
<1>2. ASSUME NEW c \in Caller, SetupInserts(c) PROVE MembersInv' /\ Loses
  <2>1. /\ caller' \in [Caller -> Call] /\ ~Taking(c)'
        /\ \A d \in Caller \ {c} : caller'[d] = caller[d]
    BY <1>0, <1>2, Ended DEF SetupInserts, Taking, CallerAt
  <2>2. /\ person' \in [Person -> {"new", "user", "admin", "gone"}]
        /\ Admins \subseteq Admins'
    BY <1>0, <1>2 DEF SetupInserts, Admins
  <2> QED BY <1>0, <1>2, <1>f, <1>q, <2>1, <2>2, Others DEF SetupInserts
<1>3. CASE MarksInitialized
  <2>1. Admins' = Admins /\ initialized' \in BOOLEAN
    BY <1>3 DEF MarksInitialized, Admins
  <2> QED BY <1>0, <1>3, <1>f, <1>q, <2>1, Others DEF MarksInitialized
<1>4. ASSUME NEW c \in Caller, NEW p \in Person, NEW role \in {"user", "admin"}, Creates(c, p, role)
      PROVE  MembersInv' /\ Loses
  <2>1. /\ caller' \in [Caller -> Call] /\ ~Taking(c)'
        /\ \A d \in Caller \ {c} : caller'[d] = caller[d]
    BY <1>0, <1>4, Called DEF Creates, Taking, CallerAt
  <2>2. /\ person' \in [Person -> {"new", "user", "admin", "gone"}]
        /\ Admins \subseteq Admins'
    BY <1>0, <1>4 DEF Creates, Admins
  <2> QED BY <1>0, <1>4, <1>f, <1>q, <2>1, <2>2, Others DEF Creates
<1>5. ASSUME NEW c \in Caller, CreateGrants(c) PROVE MembersInv' /\ Loses
  <2>1. /\ caller' \in [Caller -> Call] /\ ~Taking(c)'
        /\ \A d \in Caller \ {c} : caller'[d] = caller[d]
    BY <1>0, <1>5, Ended DEF CreateGrants, Taking, CallerAt
  <2>2. Admins' = Admins /\ access' \subseteq Person
    BY <1>0, <1>5, <1>t DEF CreateGrants, Grants, Admins
  <2> QED BY <1>0, <1>5, <1>f, <1>q, <2>1, <2>2, Others DEF CreateGrants
<1>6. ASSUME NEW c \in Caller, NEW p \in Person, NEW role \in {"user", "admin"},
             EditReads(c, p, role)
      PROVE  MembersInv' /\ Loses
  <2>1. /\ caller' \in [Caller -> Call] /\ caller'[c].who = {p} /\ caller'[c].role = role
        /\ caller'[c].at = "edit" /\ \A d \in Caller \ {c} : caller'[d] = caller[d]
    BY <1>0, <1>6, Called DEF EditReads
  <2>2. Admins' = Admins
    BY <1>6 DEF EditReads, Admins
  <2>3. role # "admin" => Admins \ {p} # {}
    BY <1>6, NotTheLast DEF EditReads
  <2>4. ~Taking(c)' \/ \A q \in caller'[c].who : Admins \ {q} # {}
    BY <2>1, <2>3 DEF Taking, CallerAt
  <2> QED BY <1>0, <1>6, <1>f, <1>q, <2>1, <2>2, <2>4, Others DEF EditReads
<1>7. ASSUME NEW c \in Caller, EditWrites(c) PROVE MembersInv' /\ Loses
  <2>1. PICK p \in caller[c].who :
          Becomes(c, p, IF p \in Users THEN caller[c].role ELSE person[p], "edited")
    BY <1>7 DEF EditWrites
  <2> DEFINE status == IF p \in Users THEN caller[c].role ELSE person[p]
  <2>2. p \in Person /\ status \in {"new", "user", "admin", "gone"}
    BY <1>0, <1>t, <2>1
  <2>3. /\ person' \in [Person -> {"new", "user", "admin", "gone"}]
        /\ caller' \in [Caller -> Call] /\ caller'[c].at = "edited"
        /\ Admins' = IF status = "admin" THEN Admins \cup {p} ELSE Admins \ {p}
        /\ \A d \in Caller \ {c} :
              \/ caller'[d] = caller[d] /\ (Taking(d) => Admins \subseteq Admins')
              \/ caller'[d].crossed
    BY <1>0, <2>1, <2>2, Became
  <2>4. p \in Admins /\ status # "admin" => Taking(c)
    BY <1>7, <2>2 DEF EditWrites, Taking, CallerAt, Users, Admins
  <2>5. caller[c].at = "edit"
    BY <1>7 DEF EditWrites, CallerAt
  <2> HIDE DEF status
  <2>6. OthersRemain'
    BY <2>3 DEF MembersInv, OthersRemain, Taking, CallerAt
  <2>7. Loses
    BY <2>1, <2>2, <2>3, <2>4, <2>5 DEF Loses, MembersInv, OthersRemain
  <2> QED BY <1>0, <1>7, <1>f, <2>3, <2>6, <2>7 DEF EditWrites
<1>8. ASSUME NEW c \in Caller, EditGrants(c) PROVE MembersInv' /\ Loses
  <2>1. /\ caller' \in [Caller -> Call] /\ ~Taking(c)'
        /\ \A d \in Caller \ {c} : caller'[d] = caller[d]
    BY <1>0, <1>8, Ended DEF EditGrants, Taking, CallerAt
  <2>2. Admins' = Admins /\ access' \subseteq Person
    BY <1>0, <1>8, <1>t DEF EditGrants, Grants, Withdraws, Admins
  <2> QED BY <1>0, <1>8, <1>f, <1>q, <2>1, <2>2, Others DEF EditGrants
<1>9. ASSUME NEW c \in Caller, NEW p \in Person, DeleteReads(c, p) PROVE MembersInv' /\ Loses
  <2>1. /\ caller' \in [Caller -> Call] /\ caller'[c].who = {p}
        /\ \A d \in Caller \ {c} : caller'[d] = caller[d]
    BY <1>0, <1>9, Called DEF DeleteReads
  <2>2. Admins' = Admins /\ \A q \in caller'[c].who : Admins \ {q} # {}
    BY <1>9, <2>1 DEF DeleteReads, Admins
  <2> QED BY <1>0, <1>9, <1>f, <1>q, <2>1, <2>2, Others DEF DeleteReads
<1>10. ASSUME NEW c \in Caller, DeleteWrites(c) PROVE MembersInv' /\ Loses
  <2>1. PICK p \in caller[c].who : Becomes(c, p, "gone", "idle")
    BY <1>10 DEF DeleteWrites
  <2>2. p \in Person
    BY <1>t, <2>1
  <2>3. /\ person' \in [Person -> {"new", "user", "admin", "gone"}]
        /\ caller' \in [Caller -> Call] /\ caller'[c].at = "idle"
        /\ Admins' = Admins \ {p}
        /\ \A d \in Caller \ {c} :
              \/ caller'[d] = caller[d] /\ (Taking(d) => Admins \subseteq Admins')
              \/ caller'[d].crossed
    BY <1>0, <2>1, <2>2, Became
  <2>4. Taking(c) /\ caller[c].at = "delete"
    BY <1>10 DEF DeleteWrites, Taking, CallerAt
  <2>5. OthersRemain'
    BY <2>3 DEF MembersInv, OthersRemain, Taking, CallerAt
  <2>6. Loses
    BY <2>1, <2>2, <2>3, <2>4 DEF Loses, MembersInv, OthersRemain
  <2> QED BY <1>0, <1>10, <1>f, <2>3, <2>5, <2>6 DEF DeleteWrites
<1>11. ASSUME NEW c \in Caller, NEW p \in Person, SyncFinds(c, p) \/ RoleReads(c, p)
       PROVE  MembersInv' /\ Loses
  <2>1. /\ caller' \in [Caller -> Call] /\ ~Taking(c)'
        /\ \A d \in Caller \ {c} : caller'[d] = caller[d]
    BY <1>0, <1>11, Called DEF SyncFinds, RoleReads, Taking, CallerAt
  <2>2. Admins' = Admins /\ UNCHANGED <<person, initialized, access, registered>>
    BY <1>11 DEF SyncFinds, RoleReads, Admins
  <2> QED BY <1>0, <1>f, <1>q, <2>1, <2>2, Others
<1>12. ASSUME NEW c \in Caller, SyncMisses(c) PROVE MembersInv' /\ Loses
  <2>1. /\ caller' \in [Caller -> Call] /\ ~Taking(c)'
        /\ \A d \in Caller \ {c} : caller'[d] = caller[d]
    BY <1>0, <1>12, Called DEF SyncMisses, Taking, CallerAt
  <2>2. Admins' = Admins
    BY <1>12 DEF SyncMisses, Admins
  <2> QED BY <1>0, <1>12, <1>f, <1>q, <2>1, <2>2, Others DEF SyncMisses
<1>13. ASSUME NEW c \in Caller, SyncCreates(c) PROVE MembersInv' /\ Loses
  <2>1. /\ caller' \in [Caller -> Call] /\ ~Taking(c)'
        /\ \A d \in Caller \ {c} : caller'[d] = caller[d]
        /\ person' \in [Person -> {"new", "user", "admin", "gone"}]
        /\ Admins \subseteq Admins'
    <3>1. CASE Users # {} /\ CallEnds(c) /\ UNCHANGED person
      BY <1>0, <3>1, Ended DEF Taking, CallerAt, Admins
    <3>2. ASSUME NEW p \in Person, person[p] = "new", person' = [person EXCEPT ![p] = "user"],
                 Calls(c, "syncMade", {p}, "user")
          PROVE  /\ caller' \in [Caller -> Call] /\ ~Taking(c)'
                 /\ \A d \in Caller \ {c} : caller'[d] = caller[d]
                 /\ person' \in [Person -> {"new", "user", "admin", "gone"}]
                 /\ Admins \subseteq Admins'
      BY <1>0, <3>2, Called DEF Taking, CallerAt, Admins
    <3> QED BY <1>13, <3>1, <3>2 DEF SyncCreates
  <2> QED BY <1>0, <1>13, <1>f, <1>q, <2>1, Others DEF SyncCreates
<1>14. ASSUME NEW c \in Caller, SyncUpdates(c) \/ SyncGrants(c) \/ RoleWrites(c)
       PROVE  MembersInv' /\ Loses
  <2>1. /\ caller' \in [Caller -> Call] /\ ~Taking(c)'
        /\ \A d \in Caller \ {c} : caller'[d] = caller[d]
    BY <1>0, <1>14, Ended DEF SyncUpdates, SyncGrants, RoleWrites, Taking, CallerAt
  <2>2. /\ Admins' = Admins /\ access' \subseteq Person
        /\ UNCHANGED <<person, initialized, registered>>
    BY <1>0, <1>14, <1>t DEF SyncUpdates, SyncGrants, RoleWrites, Admins
  <2> QED BY <1>0, <1>f, <1>q, <2>1, <2>2, Others
<1>15. ASSUME \/ UninstallForgets \/ Registers
              \/ \E p \in Person : AppRemoves(p) \/ InstallSucceeds(p)
       PROVE  MembersInv' /\ Loses
  <2>1. registered' \in BOOLEAN
    <3>1. CASE UninstallForgets
      BY <3>1, Zenon DEF UninstallForgets
    <3>2. CASE Registers
      BY <3>2, Zenon DEF Registers
    <3>3. CASE \E p \in Person : AppRemoves(p) \/ InstallSucceeds(p)
      BY <1>0, <3>3 DEF AppRemoves, InstallSucceeds
    <3> QED BY <1>15, <3>1, <3>2, <3>3
  <2>2. /\ Admins' = Admins /\ access' \subseteq Person
        /\ UNCHANGED <<person, initialized, caller>>
    BY <1>0, <1>15 DEF UninstallForgets, Registers, AppRemoves, InstallSucceeds, Grants,
         Withdraws, Admins
  <2> QED BY <1>0, <1>f, <1>q, <2>1, <2>2, Others
<1>16. CASE UNCHANGED memberVars
  <2>1. Admins' = Admins
    BY <1>16 DEF memberVars, Admins
  <2> QED BY <1>0, <1>16, <1>f, <1>q, <2>1, Others DEF memberVars
<1> HIDE DEF MembersInv, Loses
<1> QED
  BY <1>1, <1>2, <1>3, <1>4, <1>5, <1>6, <1>7, <1>8, <1>9, <1>10, <1>11, <1>12, <1>13, <1>14,
    <1>15, <1>16 DEF MembershipNext

(* An edit or a deletion leaves an administrator, unless another one was lost *)
(* between its check and its write (AdminRemains).                          *)
THEOREM AdminsRemain == MembershipSpec => AdminRemains
<1>1. MembersInv /\ [MembershipNext]_memberVars => MembersInv'
  BY MembersNextInv
<1>2. MembersInv /\ [MembershipNext]_memberVars => [Loses]_memberVars
  BY MembersNextInv
<1> QED BY MembersInitInv, <1>1, <1>2, PTL DEF MembershipSpec, AdminRemains, Loses

-----------------------------------------------------------------------------
(* One account.  A cookie, handoff or ticket of this session_version is of   *)
(* who knows this password (Good); so is a login about to give one (Fits).   *)
(* A password that must be changed is the first one, and nobody knows one    *)
(* that came after it.                                                      *)

Good(c, a) == /\ c.version <= a.version
              /\ c.version = a.version => c.knows = a.password \/ c.overtaken
              /\ a.must => c.knows = 1

Fits(r, a) == /\ r.at = "login" => /\ r.version <= a.version
                                   /\ r.version = a.version => r.knows = a.password
              /\ a.must => r.knows = 1

AccountsInv ==
    /\ AccountsTypeOK
    /\ account.must => account.password = 1
    /\ \A v \in Visit : Fits(visit[v], account)
    /\ \A c \in given : Good(c, account)

(* What no step does to a row: go back in versions, change the password in    *)
(* one, ask again for a new one.                                            *)
Moves(a, b) == /\ a \in Row /\ b \in Row /\ a.version <= b.version
               /\ b.version = a.version => b.password = a.password
               /\ b.must => a.must /\ b.password = a.password

VisitsOK == visit' \in [Visit -> Read] /\ \A v \in Visit : Fits(visit'[v], account')
GivenOK  == given' \subseteq Credential /\ \A c \in given' : Good(c, account')

Owners == \A v \in Visit : AtPlace(v, {"app", "complete"}) /\ visit'[v] # visit[v]
            => account'.password = account.password \/ visit[v].knows = account.password

LEMMA RowFields ==
  ASSUME NEW a \in Row
  PROVE  /\ a.version \in Version /\ a.password \in Version /\ a.must \in BOOLEAN
         /\ a.exists \in BOOLEAN /\ a.email \in BOOLEAN /\ a.old \in BOOLEAN
BY DEF Row

LEMMA ReadFields ==
  ASSUME NEW r \in Read PROVE r.version \in Version /\ r.knows \in Version /\ r.at \in Place
BY DEF Read

LEMMA FitsStays ==
  ASSUME NEW a, NEW b, Moves(a, b), NEW r \in Read, Fits(r, a) PROVE Fits(r, b)
<1>1. /\ a.version \in Nat /\ b.version \in Nat /\ r.version \in Nat
  BY RowFields, ReadFields, AccountsAssumption DEF Moves, Version
<1> QED BY <1>1 DEF Moves, Fits

LEMMA GoodStays ==
  ASSUME NEW a, NEW b, Moves(a, b), NEW c \in Credential, Good(c, a) PROVE Good(c, b)
<1>1. /\ a.version \in Nat /\ b.version \in Nat /\ c.version \in Nat
  BY RowFields, AccountsAssumption DEF Moves, Version, Credential
<1> QED BY <1>1 DEF Moves, Good

LEMMA NoMove == ASSUME NEW a \in Row PROVE Moves(a, a)
BY RowFields DEF Moves, Version

LEMMA IdleFits == Idle \in Read /\ \A a : Fits(Idle, a)
<1>1. Idle \in Read
  BY AccountsAssumption DEF Idle, Read, Place, Version
<1>2. Idle.at = "idle" /\ Idle.knows = 1
  BY DEF Idle
<1> QED BY <1>1, <1>2 DEF Fits

LEMMA IdleWith ==
  ASSUME NEW at \in Place, NEW knows \in Version
  PROVE  /\ [Idle EXCEPT !.at = at, !.knows = knows] \in Read
         /\ [Idle EXCEPT !.at = at, !.knows = knows].at = at
         /\ [Idle EXCEPT !.at = at, !.knows = knows].knows = knows
BY IdleFits DEF Read

LEMMA Renewed ==
  ASSUME AccountsInv, Moves(account, account'), NEW v \in Visit, NEW r \in Read,
         Fits(r, account'), visit' = [visit EXCEPT ![v] = r]
  PROVE  VisitsOK
<1>1. \A w \in Visit : visit[w] \in Read /\ Fits(visit[w], account')
  BY FitsStays DEF AccountsInv, AccountsTypeOK
<1> QED BY <1>1 DEF VisitsOK, AccountsInv, AccountsTypeOK

LEMMA Left ==
  ASSUME AccountsInv, Moves(account, account'), NEW v \in Visit, Leaves(v) PROVE VisitsOK
BY IdleFits, Renewed DEF Leaves

LEMMA Went ==
  ASSUME AccountsInv, Moves(account, account'), NEW v \in Visit,
         NEW at \in Place \ {"login"}, Goes(v, at)
  PROVE  VisitsOK
<1> DEFINE r == [visit[v] EXCEPT !.at = at]
<1>1. visit[v] \in Read /\ Fits(visit[v], account')
  BY FitsStays DEF AccountsInv, AccountsTypeOK
<1>2. r \in Read /\ r.at = at /\ r.knows = visit[v].knows
  BY <1>1 DEF Read
<1>3. visit' = [visit EXCEPT ![v] = r]
  BY DEF Goes, AccountsInv, AccountsTypeOK
<1>4. Fits(r, account')
  BY <1>1, <1>2 DEF Fits
<1> HIDE DEF r
<1> QED BY <1>2, <1>3, <1>4, Renewed

LEMMA NobodyWent ==
  ASSUME AccountsInv, Moves(account, account'), UNCHANGED visit PROVE VisitsOK
BY FitsStays DEF VisitsOK, AccountsInv, AccountsTypeOK

LEMMA NoneGiven ==
  ASSUME AccountsInv, Moves(account, account'), given' \subseteq given PROVE GivenOK
BY GoodStays DEF GivenOK, AccountsInv, AccountsTypeOK

(* What is given out is of who knows the password, or overtaken.             *)
LEMMA OneGiven ==
  ASSUME AccountsInv, UNCHANGED account, NEW v \in Visit,
         NEW as \in {"cookie", "handoff", "ticket"}, NEW version \in Version,
         Gives(as, v, version),
         \/ visit[v].at = "login" /\ version = visit[v].version
         \/ visit[v].at \in {"relogin", "handoff", "appTicket"} /\ version = account.version
  PROVE  GivenOK
<1> DEFINE late == /\ version = account.version
                   /\ visit[v].knows # account.password
                   /\ visit[v].at \in {"relogin", "handoff", "appTicket"}
           c == [as |-> as, version |-> version, knows |-> visit[v].knows, overtaken |-> late]
<1>1. given' = given \cup {c} /\ late \in BOOLEAN
  BY DEF Gives
<1>2. visit[v] \in Read /\ account \in Row /\ Fits(visit[v], account)
  BY DEF AccountsInv, AccountsTypeOK
<1>3. visit[v].knows \in Version /\ account.version \in Nat /\ version \in Nat
  BY <1>2, ReadFields, RowFields, AccountsAssumption DEF Version
<1>4. /\ version <= account.version
      /\ (version = account.version =>
        visit[v].knows = account.password \/ late)
  BY <1>2, <1>3 DEF Fits
<1> HIDE DEF late
<1>5. /\ c \in Credential /\ c.version = version /\ c.knows = visit[v].knows
      /\ c.overtaken = late
  BY <1>1, <1>3 DEF Credential
<1> HIDE DEF c
<1>6. Good(c, account)
  BY <1>2, <1>4, <1>5 DEF Good, Fits
<1> QED BY <1>1, <1>5, <1>6 DEF GivenOK, AccountsInv, AccountsTypeOK

LEMMA AnewGiven ==
  ASSUME AccountsInv, UNCHANGED account, NEW v \in Visit,
         NEW as \in {"cookie", "handoff", "ticket"}, GivesAnew(as, v),
         visit[v].at \in {"relogin", "handoff", "appTicket"}
  PROVE  GivenOK
<1>1. account \in Row /\ account.version \in Version
  BY RowFields DEF AccountsInv, AccountsTypeOK
<1>2. CASE account.exists
  BY <1>1, <1>2, OneGiven DEF GivesAnew
<1>3. CASE ~account.exists
  BY <1>1, <1>3, NoMove, NoneGiven DEF GivesAnew
<1> QED BY <1>2, <1>3

-----------------------------------------------------------------------------
(* The writes of the row.                                                   *)

LEMMA PasswordSet ==
  ASSUME account \in Row, SetsPassword
  PROVE  /\ Moves(account, account')
         /\ account.exists => account.version + 1 \in Version /\ ~account'.must
<1>1. CASE account.exists
  <2>1. account.version + 1 \in Version /\ account.version + 1 # account.version
    BY <1>1, RowFields, AccountsAssumption DEF SetsPassword, Version
  <2>2. account' = [account EXCEPT !.password = account.version + 1, !.old = FALSE,
                                   !.version = account.version + 1, !.must = FALSE]
    BY <1>1 DEF SetsPassword
  <2>3. account' \in Row /\ account'.version = account.version + 1
    BY <2>1, <2>2 DEF Row
  <2>4. ~account'.must
    BY <2>2 DEF Row
  <2>5. account.version <= account.version + 1
    BY RowFields DEF Version
  <2> QED BY <2>1, <2>3, <2>4, <2>5 DEF Moves
<1>2. CASE ~account.exists
  BY <1>2, NoMove DEF SetsPassword
<1> QED BY <1>1, <1>2

LEMMA FirstSet ==
  ASSUME account \in Row, NEW current, FirstPassword(current)
  PROVE  Moves(account, account') /\ (~current => account' = account)
<1>1. CASE current
  <2>1. account.version + 1 \in Version /\ account.version + 1 # account.version
    BY <1>1, RowFields, AccountsAssumption DEF FirstPassword, Version
  <2>2. account' = [account EXCEPT !.password = account.version + 1, !.old = FALSE,
                                   !.version = account.version + 1,
                                   !.must = FALSE, !.email = FALSE]
    BY <1>1 DEF FirstPassword
  <2>3. account' \in Row /\ account'.version = account.version + 1
    BY <2>1, <2>2 DEF Row
  <2>4. ~account'.must
    BY <2>2 DEF Row
  <2>5. account.version <= account.version + 1
    BY RowFields DEF Version
  <2> QED BY <1>1, <2>1, <2>3, <2>4, <2>5 DEF Moves
<1>2. CASE ~current
  BY <1>2, NoMove DEF FirstPassword
<1> QED BY <1>1, <1>2

LEMMA RowWritten ==
  ASSUME account \in Row, NEW role \in {"admin", "user"}, NEW email \in BOOLEAN,
         WritesRow(role, email)
  PROVE  Moves(account, account')
<1> DEFINE version == IF role # account.role THEN account.version + 1 ELSE account.version
<1>1. version \in Version /\ account.version <= version
  BY RowFields, AccountsAssumption DEF WritesRow, Version
<1>2. account' = [account EXCEPT !.role = role, !.email = email, !.version = version]
  BY DEF WritesRow, Row
<1> HIDE DEF version
<1>3. /\ account' \in Row /\ account'.version = version
      /\ account'.password = account.password
  BY <1>1, <1>2 DEF Row
<1>4. account'.must = account.must
  BY <1>2 DEF Row
<1> QED BY <1>1, <1>3, <1>4 DEF Moves

-----------------------------------------------------------------------------
(* The steps *)

LEMMA Together ==
  ASSUME AccountsInv, Moves(account, account'), VisitsOK, GivenOK PROVE AccountsInv'
BY DEF AccountsInv, AccountsTypeOK, Moves, VisitsOK, GivenOK

LEMMA OwnersStay == ASSUME UNCHANGED account PROVE Owners
BY DEF Owners

(* A request that is elsewhere moves nobody who logs in in an app.           *)
LEMMA OwnersElse ==
  ASSUME AccountsInv, NEW v \in Visit, ~AtPlace(v, {"app", "complete"}),
         \A w \in Visit \ {v} : visit'[w] = visit[w]
  PROVE  Owners
BY DEF Owners

LEMMA OthersStay ==
  ASSUME AccountsInv, NEW v \in Visit
  PROVE  /\ Leaves(v) => \A w \in Visit \ {v} : visit'[w] = visit[w]
         /\ \A at : Goes(v, at) => \A w \in Visit \ {v} : visit'[w] = visit[w]
         /\ \A r : visit' = [visit EXCEPT ![v] = r] => \A w \in Visit \ {v} : visit'[w] = visit[w]
BY DEF Leaves, Goes, AccountsInv, AccountsTypeOK

LEMMA AccountsNextInv ==
  ASSUME AccountsInv, [AccountsNext]_accountVars PROVE AccountsInv' /\ Owners
<1>0. /\ account \in Row /\ visit \in [Visit -> Read] /\ given \subseteq Credential
      /\ account.must => account.password = 1
      /\ \A v \in Visit : visit[v] \in Read /\ Fits(visit[v], account)
      /\ \A c \in given : Good(c, account)
  BY DEF AccountsInv, AccountsTypeOK
<1>m. UNCHANGED account => Moves(account, account')
  BY <1>0, NoMove
<1>1. ASSUME NEW v \in Visit, NEW at \in {"login", "app", "appChange", "profile", "edit"},
             Checks(v, at)
      PROVE  AccountsInv' /\ Owners
  <2> DEFINE r == [at |-> at, knows |-> account.password, old |-> account.old,
                   version |-> IF at \in {"login", "app"} THEN account.version ELSE 1,
                   must |-> at = "app" /\ account.must,
                   email |-> at \in {"app", "appChange"} /\ account.email]
  <2>1. /\ (at = "app" /\ account.must) \in BOOLEAN
        /\ (at \in {"app", "appChange"} /\ account.email) \in BOOLEAN
    BY <1>0, RowFields
  <2>2. 1 \in Version /\ (IF at \in {"login", "app"} THEN account.version ELSE 1) \in Version
    BY <1>0, RowFields, AccountsAssumption DEF Version
  <2>3. r \in Read
    BY <1>0, <1>1, <2>1, <2>2, RowFields DEF Read, Place
  <2>4. r.at = at /\ r.knows = account.password /\ (at = "login" => r.version = account.version)
    OBVIOUS
  <2>5. visit' = [visit EXCEPT ![v] = r] /\ UNCHANGED <<account, given>>
    BY <1>1 DEF Checks, Stays
  <2> HIDE DEF r
  <2>6. Fits(r, account')
    BY <1>0, <2>4, <2>5, RowFields DEF Fits, Version
  <2>7. VisitsOK
    BY <1>m, <2>3, <2>5, <2>6, Renewed
  <2> QED BY <1>m, <2>5, <2>7, NoneGiven, Together, OwnersStay
<1>2. ASSUME NEW v \in Visit, Rehashes(v) PROVE AccountsInv' /\ Owners
  <2>1. Moves(account, account') /\ account'.password = account.password
    <3>1. CASE account' = [account EXCEPT !.old = FALSE]
      <4>1. /\ account' \in Row /\ account'.version = account.version
            /\ account'.password = account.password
        BY <1>0, <3>1 DEF Row
      <4>2. account'.must = account.must
        BY <1>0, <3>1 DEF Row
      <4> QED BY <1>0, <4>1, <4>2, RowFields DEF Moves, Version
    <3> QED BY <1>2, <1>m, <3>1 DEF Rehashes
  <2>2. VisitsOK
    <3>1. CASE Leaves(v)
      BY <2>1, <3>1, Left
    <3>2. CASE visit' = [visit EXCEPT ![v].old = FALSE]
      <4> DEFINE r == [visit[v] EXCEPT !.old = FALSE]
      <4>1. /\ r \in Read /\ r.at = visit[v].at /\ r.knows = visit[v].knows
            /\ r.version = visit[v].version
        BY <1>0 DEF Read
      <4>2. visit' = [visit EXCEPT ![v] = r]
        BY <1>0, <3>2
      <4> HIDE DEF r
      <4>3. Fits(r, account')
        BY <1>0, <2>1, <4>1, FitsStays DEF Fits
      <4> QED BY <2>1, <4>1, <4>2, <4>3, Renewed
    <3> QED BY <1>2, <3>1, <3>2 DEF Rehashes
  <2>3. Owners /\ UNCHANGED given
    BY <1>2, <2>1 DEF Owners, Rehashes
  <2> QED BY <2>1, <2>2, <2>3, NoneGiven, Together
<1>3. ASSUME NEW v \in Visit, LogsIn(v) PROVE AccountsInv' /\ Owners
  <2>1. /\ UNCHANGED account /\ Leaves(v) /\ visit[v].at = "login"
        /\ visit[v].version \in Version /\ Gives("cookie", v, visit[v].version)
    BY <1>0, <1>3, ReadFields DEF LogsIn, Checked, AtPlace
  <2> QED BY <1>m, <2>1, Left, OneGiven, Together, OwnersStay
<1>4. ASSUME NEW v \in Visit, LogsInAgain(v) \/ HandsOff(v) \/ AppTicket(v)
      PROVE  AccountsInv' /\ Owners
  <2>1. UNCHANGED account /\ Leaves(v) /\ visit[v].at \in {"relogin", "handoff", "appTicket"}
    BY <1>4 DEF LogsInAgain, HandsOff, AppTicket, AtPlace
  <2>2. GivenOK
    BY <1>4, <2>1, AnewGiven DEF LogsInAgain, HandsOff, AppTicket
  <2> QED BY <1>m, <2>1, <2>2, Left, Together, OwnersStay
<1>5. ASSUME NEW v \in Visit, OwnPassword(v), ~AtPlace(v, {"app", "complete"})
      PROVE  AccountsInv' /\ Owners
  <2> DEFINE n == account.version + 1
             r == [Idle EXCEPT !.at = "relogin", !.knows = n]
  <2>1. SetsPassword /\ Moves(account, account') /\ UNCHANGED given
    BY <1>0, <1>5, PasswordSet DEF OwnPassword
  <2>2. ASSUME account.exists
        PROVE  VisitsOK /\ \A w \in Visit \ {v} : visit'[w] = visit[w]
    <3>1. n \in Version /\ ~account'.must
      BY <1>0, <2>1, <2>2, PasswordSet
    <3>2. visit' = [visit EXCEPT ![v] = r]
      BY <1>5, <2>2 DEF OwnPassword
    <3> HIDE DEF n
    <3>3. r \in Read /\ r.at = "relogin"
      <4>1. "relogin" \in Place /\ n \in Version
        BY <3>1 DEF Place
      <4> QED BY <4>1, IdleWith
    <3> HIDE DEF r
    <3>4. Fits(r, account')
      BY <3>1, <3>3 DEF Fits
    <3> QED BY <1>0, <2>1, <3>2, <3>3, <3>4, Renewed
  <2>3. ASSUME ~account.exists
        PROVE  VisitsOK /\ \A w \in Visit \ {v} : visit'[w] = visit[w]
    BY <1>5, <2>1, <2>3, Left, OthersStay DEF OwnPassword
  <2>4. VisitsOK /\ Owners
    BY <1>5, <2>2, <2>3, OwnersElse
  <2> QED BY <2>1, <2>4, NoneGiven, Together
<1>6. ASSUME NEW v \in Visit, ProfileChanges(v) \/ OwnEditChanges(v) PROVE AccountsInv' /\ Owners
  BY <1>5, <1>6 DEF ProfileChanges, OwnEditChanges, Checked, AtPlace
<1>7. ASSUME NEW v \in Visit, AsksHandoff(v) PROVE AccountsInv' /\ Owners
  <2>1. PICK c \in Cookie :
          visit' = [visit EXCEPT ![v] = [Idle EXCEPT !.at = "handoff", !.knows = c.knows]]
    BY <1>7 DEF AsksHandoff
  <2> DEFINE r == [Idle EXCEPT !.at = "handoff", !.knows = c.knows]
  <2>2. c \in Credential /\ Good(c, account) /\ UNCHANGED <<account, given>>
    BY <1>0, <1>7 DEF AsksHandoff, Stays, Cookie
  <2>3. r \in Read /\ r.at = "handoff" /\ r.knows = c.knows
    BY <2>2, IdleWith DEF Place, Credential
  <2>4. visit' = [visit EXCEPT ![v] = r]
    BY <2>1
  <2> HIDE DEF r
  <2>5. Fits(r, account')
    BY <2>2, <2>3 DEF Good, Fits
  <2> QED BY <1>m, <2>2, <2>3, <2>4, <2>5, Renewed, NoneGiven, Together, OwnersStay
<1>8. ASSUME NEW v \in Visit, NEW role \in {"admin", "user"}, NEW email \in BOOLEAN,
             Edits(v, role, email)
      PROVE  AccountsInv' /\ Owners
  <2>1. Moves(account, account') /\ UNCHANGED given /\ ~AtPlace(v, {"app", "complete"})
    BY <1>0, <1>8, RowWritten DEF Edits, WritesRow, AtPlace
  <2>2. Leaves(v) \/ Goes(v, "setting")
    BY <1>8 DEF Edits
  <2>3. VisitsOK
    BY <2>1, <2>2, Left, Went DEF Place
  <2> QED BY <2>1, <2>2, <2>3, NoneGiven, Together, OthersStay, OwnersElse
<1>9. ASSUME NEW v \in Visit, ResetChecks(v) PROVE AccountsInv' /\ Owners
  <2>1. UNCHANGED <<account, given>> /\ Goes(v, "setting")
    BY <1>9 DEF ResetChecks, Stays
  <2> QED BY <1>m, <2>1, Went, NoneGiven, Together, OwnersStay DEF Place
<1>10. ASSUME NEW v \in Visit, SetsForOther(v) PROVE AccountsInv' /\ Owners
  <2>1. /\ Moves(account, account') /\ Leaves(v) /\ UNCHANGED given
        /\ ~AtPlace(v, {"app", "complete"})
    BY <1>0, <1>10, PasswordSet DEF SetsForOther, AtPlace
  <2> QED BY <2>1, Left, NoneGiven, Together, OthersStay, OwnersElse
<1>11. ASSUME NEW v \in Visit, NEW role \in {"admin", "user"}, NEW email \in BOOLEAN,
              OwnEdits(v, role, email)
       PROVE  AccountsInv' /\ Owners
  <2>1. Moves(account, account') /\ UNCHANGED given
    BY <1>0, <1>11, RowWritten DEF OwnEdits, WritesRow
  <2>2. CASE Checked(v, "edit") /\ Goes(v, "ownPassword")
    <3>1. ~AtPlace(v, {"app", "complete"})
      BY <2>2 DEF Checked, AtPlace
    <3> QED BY <2>1, <2>2, <3>1, Went, NoneGiven, Together, OthersStay, OwnersElse DEF Place
  <2>3. ASSUME AtPlace(v, {"idle"}), NEW c \in Cookie,
               visit' = [visit EXCEPT ![v].at = "relogin", ![v].knows = c.knows]
        PROVE  AccountsInv' /\ Owners
    <3> DEFINE r == [visit[v] EXCEPT !.at = "relogin", !.knows = c.knows]
    <3>1. c \in Credential /\ Good(c, account')
      BY <1>0, <2>1, GoodStays DEF Cookie
    <3>2. r \in Read /\ r.at = "relogin" /\ r.knows = c.knows
      BY <1>0, <3>1 DEF Read, Place, Credential
    <3>3. visit' = [visit EXCEPT ![v] = r]
      BY <1>0, <2>3
    <3> HIDE DEF r
    <3>4. Fits(r, account')
      BY <3>1, <3>2 DEF Good, Fits
    <3>5. ~AtPlace(v, {"app", "complete"})
      BY <2>3 DEF AtPlace
    <3>6. VisitsOK
      BY <2>1, <3>2, <3>3, <3>4, Renewed
    <3> QED BY <2>1, <3>3, <3>5, <3>6, NoneGiven, Together, OthersStay, OwnersElse
  <2> QED BY <1>11, <2>2, <2>3 DEF OwnEdits
<1>12. CASE Deletes
  <2>1. Moves(account, account') /\ account'.password = account.password
    <3>1. /\ account' \in Row /\ account'.version = account.version
          /\ account'.password = account.password
      BY <1>0, <1>12 DEF Deletes, Row
    <3>2. account'.must = account.must
      BY <1>0, <1>12 DEF Deletes, Row
    <3> QED BY <1>0, <3>1, <3>2, RowFields DEF Moves, Version
  <2>2. UNCHANGED <<visit, given>>
    BY <1>12 DEF Deletes
  <2> QED BY <2>1, <2>2, NobodyWent, NoneGiven, Together DEF Owners
<1>13. ASSUME NEW v \in Visit, AppFirstPassword(v) PROVE AccountsInv' /\ Owners
  <2> DEFINE current == account.exists /\ account.must /\ account.version = visit[v].version
  <2>1. FirstPassword(current) /\ Leaves(v) /\ UNCHANGED given
    BY <1>13 DEF AppFirstPassword, FirstPassword
  <2>2. Moves(account, account') /\ (~current => account' = account)
    BY <1>0, <2>1, FirstSet
  <2>3. Owners
    <3>1. current => visit[v].knows = account.password
      BY <1>0 DEF Fits
    <3> HIDE DEF current
    <3> QED BY <2>1, <2>2, <3>1, OthersStay DEF Owners
  <2> QED BY <2>1, <2>2, <2>3, Left, NoneGiven, Together
<1>14. ASSUME NEW v \in Visit, AppFirstEmail(v) PROVE AccountsInv' /\ Owners
  <2>1. Moves(account, account') /\ account'.password = account.password
    <3> DEFINE email == account.email /\ ~account.exists
    <3>1. email \in BOOLEAN /\ account' = [account EXCEPT !.email = email]
      BY <1>14, <1>0, RowFields DEF AppFirstEmail, Row
    <3> HIDE DEF email
    <3>2. /\ account' \in Row /\ account'.version = account.version
          /\ account'.password = account.password
      BY <1>0, <3>1 DEF Row
    <3>3. account'.must = account.must
      BY <1>0, <3>1 DEF Row
    <3> QED BY <1>0, <3>2, <3>3, RowFields DEF Moves, Version
  <2>2. Leaves(v) /\ UNCHANGED given
    BY <1>14 DEF AppFirstEmail
  <2> QED BY <2>1, <2>2, Left, NoneGiven, Together DEF Owners
<1>15. ASSUME NEW v \in Visit, AppAnswers(v) PROVE AccountsInv' /\ Owners
  <2>1. UNCHANGED <<account, given>> /\ (Goes(v, "appTicket") \/ Leaves(v))
    BY <1>15 DEF AppAnswers, Stays
  <2> QED BY <1>m, <2>1, Left, Went, NoneGiven, Together, OwnersStay DEF Place
<1>16. ASSUME NEW v \in Visit, CompleteReads(v) PROVE AccountsInv' /\ Owners
  <2>1. PICK t \in given :
          visit' = [visit EXCEPT ![v] = [at |-> "complete", knows |-> t.knows,
                                         version |-> t.version, must |-> account.must,
                                         email |-> account.email, old |-> FALSE]]
    BY <1>16 DEF CompleteReads
  <2> DEFINE r == [at |-> "complete", knows |-> t.knows, version |-> t.version,
                   must |-> account.must, email |-> account.email, old |-> FALSE]
  <2>2. t \in Credential /\ Good(t, account) /\ UNCHANGED <<account, given>>
    BY <1>0, <1>16 DEF CompleteReads, Stays
  <2>3. account.must \in BOOLEAN /\ account.email \in BOOLEAN
    BY <1>0, RowFields
  <2>4. r \in Read
    BY <2>2, <2>3 DEF Read, Place, Credential
  <2>5. r.at = "complete" /\ r.knows = t.knows /\ visit' = [visit EXCEPT ![v] = r]
    BY <2>1
  <2> HIDE DEF r
  <2>6. Fits(r, account')
    BY <2>2, <2>5 DEF Good, Fits
  <2> QED BY <1>m, <2>2, <2>4, <2>5, <2>6, Renewed, NoneGiven, Together, OwnersStay
<1>17. ASSUME NEW v \in Visit, Completes(v) PROVE AccountsInv' /\ Owners
  <2> DEFINE current == /\ account.exists /\ account.version = visit[v].version
                        /\ account.email = visit[v].email /\ account.must = visit[v].must
  <2>1. Leaves(v) /\ UNCHANGED given
    BY <1>17 DEF Completes, FirstPassword
  <2>2. /\ Moves(account, account')
        /\ account'.password = account.password \/ visit[v].knows = account.password
    <3>1. CASE visit[v].must
      <4>1. FirstPassword(current)
        BY <1>17, <3>1 DEF Completes
      <4>2. current => visit[v].knows = account.password
        BY <1>0, <3>1 DEF Fits
      <4> HIDE DEF current
      <4> QED BY <1>0, <4>1, <4>2, FirstSet
    <3>2. CASE ~visit[v].must /\ current
      <4>1. /\ account.version < MaxVersion
            /\ account' = [account EXCEPT !.email = FALSE, !.version = account.version + 1]
        BY <1>0, <1>17, <3>2 DEF Completes, Row
      <4>2. account.version + 1 \in Version /\ account.version <= account.version + 1
        BY <1>0, <4>1, RowFields, AccountsAssumption DEF Version
      <4>3. /\ account' \in Row /\ account'.version = account.version + 1
            /\ account'.password = account.password
        BY <1>0, <4>1, <4>2 DEF Row
      <4>4. account'.must = account.must
        BY <1>0, <4>1 DEF Row
      <4> QED BY <1>0, <4>2, <4>3, <4>4 DEF Moves
    <3>3. CASE ~visit[v].must /\ ~current
      BY <1>m, <1>17, <3>3 DEF Completes
    <3> QED BY <3>1, <3>2, <3>3
  <2>3. Owners
    BY <2>1, <2>2, OthersStay DEF Owners
  <2> QED BY <2>1, <2>2, <2>3, Left, NoneGiven, Together
<1>18. ASSUME NEW v \in Visit, AppChanges(v) PROVE AccountsInv' /\ Owners
  <2>1. /\ Moves(account, account') /\ Leaves(v) /\ UNCHANGED given
        /\ ~AtPlace(v, {"app", "complete"})
    BY <1>0, <1>18, <1>m, PasswordSet DEF AppChanges, Checked, AtPlace
  <2> QED BY <2>1, Left, NoneGiven, Together, OthersStay, OwnersElse
<1>19. ASSUME NEW c \in given, Ends(c) PROVE AccountsInv' /\ Owners
  <2>1. UNCHANGED <<account, visit>> /\ given' \subseteq given
    BY <1>19 DEF Ends
  <2> QED BY <1>m, <2>1, NobodyWent, NoneGiven, Together, OwnersStay
<1>20. CASE ConfirmsEmail
  <2>1. Moves(account, account') /\ account'.password = account.password
    <3>1. /\ account' \in Row /\ account'.version = account.version
          /\ account'.password = account.password
      BY <1>0, <1>20 DEF ConfirmsEmail, Row
    <3>2. account'.must = account.must
      BY <1>0, <1>20 DEF ConfirmsEmail, Row
    <3> QED BY <1>0, <3>1, <3>2, RowFields DEF Moves, Version
  <2>2. UNCHANGED <<visit, given>>
    BY <1>20 DEF ConfirmsEmail
  <2> QED BY <2>1, <2>2, NobodyWent, NoneGiven, Together DEF Owners
<1>21. CASE UNCHANGED accountVars
  <2>1. UNCHANGED <<account, visit, given>>
    BY <1>21 DEF accountVars
  <2> QED BY <1>m, <2>1, NobodyWent, NoneGiven, Together, OwnersStay
<1>22. ASSUME NEW v \in Visit, ProfileChecks(v) \/ OwnEditChecks(v) PROVE AccountsInv' /\ Owners
  BY <1>1, <1>22 DEF ProfileChecks, OwnEditChecks
<1> HIDE DEF AccountsInv, Owners
<1> QED
  BY <1>1, <1>2, <1>3, <1>4, <1>6, <1>7, <1>8, <1>9, <1>10, <1>11, <1>12, <1>13, <1>14, <1>15,
    <1>16, <1>17, <1>18, <1>19, <1>20, <1>21, <1>22 DEF AccountsNext

LEMMA AccountsInitInv == AccountsInit => AccountsInv
<1> SUFFICES ASSUME AccountsInit PROVE AccountsInv
  OBVIOUS
<1>1. account \in [exists : {TRUE}, role : {"admin", "user"}, password : {1}, version : {1},
                    must : BOOLEAN, email : BOOLEAN, old : BOOLEAN]
  BY DEF AccountsInit
<1>2. 1 \in Version
  BY AccountsAssumption DEF Version
<1>3. account \in Row /\ account.password = 1
  BY <1>1, <1>2 DEF Row
<1>4. visit \in [Visit -> Read] /\ \A v \in Visit : Fits(visit[v], account)
  BY IdleFits DEF AccountsInit
<1> QED BY <1>3, <1>4 DEF AccountsInit, AccountsInv, AccountsTypeOK

(* A cookie, handoff or ticket that is accepted is of somebody who knows the *)
(* current password, or overtaken (CredentialsFollowPassword).              *)
THEOREM CredentialsFollow == AccountsSpec => []CredentialsFollowPassword
<1>1. AccountsInv /\ [AccountsNext]_accountVars => AccountsInv'
  BY AccountsNextInv
<1>2. AccountsInv => CredentialsFollowPassword
  BY DEF AccountsInv, CredentialsFollowPassword, Good, Accepted
<1> QED BY AccountsInitInv, <1>1, <1>2, PTL DEF AccountsSpec

(* A first login never replaces a password its sender did not know            *)
(* (FirstLoginIsTheOwners).                                                 *)
THEOREM FirstLoginsAreOwners == AccountsSpec => FirstLoginIsTheOwners
<1>1. AccountsInv /\ [AccountsNext]_accountVars => AccountsInv'
  BY AccountsNextInv
<1>2. AccountsInv /\ [AccountsNext]_accountVars => [Owners]_accountVars
  BY AccountsNextInv
<1> QED BY AccountsInitInv, <1>1, <1>2, PTL DEF AccountsSpec, FirstLoginIsTheOwners, Owners
=============================================================================
