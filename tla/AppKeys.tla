------------------------------ MODULE AppKeys ------------------------------
(***************************************************************************)
(* The key an app shows the hub: the hub keeps its hash (app_hub_keys in     *)
(* services/auth.py), the app's .env has the key itself.  Both are written   *)
(* by an installation and by a link, one after the other; a removal forgets  *)
(* the hash.  They take the app's operation lock, but for the installation's  *)
(* thread.  An update or the script for a library's permissions changes       *)
(* other lines of the .env: it reads the file and writes all of it, without   *)
(* the lock.  Keys are numbered as they are made.                           *)
(***************************************************************************)
EXTENDS Naturals

CONSTANTS MaxKey  \* bound on the keys made

ASSUME AppKeysAssumption == MaxKey \in Nat \ {0}

VARIABLES key,         \* the hub's, as it was saved: its hash, or by an older hub the key
          envKey,      \* the one in the app's .env, 0 for none
          installing,  \* the installation's, and if its thread has written it
          linking,     \* the key a link has saved and not written, if any
          rewriting,   \* the key in the .env that a rewrite has read, if one is under way
          verifying,   \* the plain key a request of the app found, 0 for none
          lost         \* history: how the app and the hub have parted since the last new key

keysVars == <<key, envKey, installing, linking, rewriting, verifying, lost>>

NoInstallation == [key |-> 0, wrote |-> FALSE]

KeysTypeOK ==
    /\ key \in [number : 0..MaxKey, plain : BOOLEAN]
    /\ envKey \in 0..MaxKey /\ verifying \in 0..MaxKey
    /\ installing \in [key : 0..MaxKey, wrote : BOOLEAN]
    /\ linking \subseteq 1..MaxKey /\ rewriting \subseteq 0..MaxKey
    /\ lost \subseteq {"unwritten", "crossed", "rewritten", "hashed"}

KeysInit ==
    /\ key \in {[number |-> 0, plain |-> FALSE]} \cup [number : {1}, plain : BOOLEAN]
    /\ envKey = key.number
    /\ installing = NoInstallation /\ linking = {} /\ rewriting = {} /\ verifying = 0
    /\ lost = {}

(* save_hub_key of a new key: never again one that is still somewhere.        *)
SavesHubKey(n) ==
    /\ \A k \in {key.number, envKey, installing.key, verifying} \cup rewriting : n > k
    /\ key' = [number |-> n, plain |-> FALSE] /\ lost' = {}

(* The .env is written, and takes the hub's key out of it.                   *)
PutsKey(k, cause) ==
    /\ envKey' = k
    /\ lost' = IF envKey = key.number /\ k # envKey THEN lost \cup {cause} ELSE lost

-----------------------------------------------------------------------------
(* A link, for an app with a .env; the app is recreated at the end.  Its     *)
(* write may fail, before or after the file is cut to nothing.              *)

LinkSavesAnyTime(n) ==
    /\ SavesHubKey(n) /\ linking' = linking \cup {n}
    /\ UNCHANGED <<envKey, installing, rewriting, verifying>>

LinkSaves(n) ==
    /\ linking = {} /\ SavesHubKey(n) /\ linking' = {n}
    /\ UNCHANGED <<envKey, installing, rewriting, verifying>>

LinkWrites(n, left) ==
    /\ n \in linking /\ linking' = linking \ {n}
    /\ left \in {n, envKey, 0} /\ envKey' = left
    /\ lost' = IF left = n THEN lost ELSE lost \cup {"unwritten"}
    /\ UNCHANGED <<key, installing, rewriting, verifying>>

-----------------------------------------------------------------------------
(* An installation: "Only the request which reserved the install may rotate  *)
(* the app key."                                                            *)

InstallSaves(n) ==
    /\ linking = {} /\ installing = NoInstallation /\ SavesHubKey(n)
    /\ installing' = [key |-> n, wrote |-> FALSE]
    /\ UNCHANGED <<envKey, linking, rewriting, verifying>>

(* A link may have made a newer key since.                                   *)
InstallWrites ==
    /\ installing.key # 0 /\ ~installing.wrote
    /\ installing' = [installing EXCEPT !.wrote = TRUE] /\ PutsKey(installing.key, "crossed")
    /\ UNCHANGED <<key, linking, rewriting, verifying>>

(* Well, or not: the checkout, the .env or a command failed, or a restart.   *)
InstallEnds(left) ==
    /\ installing # NoInstallation /\ installing' = NoInstallation
    /\ left \in {envKey, 0} /\ (installing.wrote => left = envKey) /\ envKey' = left
    /\ lost' = IF ~installing.wrote /\ (key.number = installing.key \/ left # envKey)
               THEN lost \cup {"unwritten"} ELSE lost
    /\ UNCHANGED <<key, linking, rewriting, verifying>>

(* A removal forgets the hub's key; the checkout and its .env stay.          *)
UninstallForgetsKey ==
    /\ linking = {} /\ installing = NoInstallation /\ key.number # 0
    /\ key' = [number |-> 0, plain |-> FALSE]
    /\ UNCHANGED <<envKey, installing, linking, rewriting, verifying, lost>>

-----------------------------------------------------------------------------
(* The .env of an app is read and later written as a whole by the updates of *)
(* FjordLens and Fjord3D and by the script that gives FjordFlix a library.    *)
(* The script writes what it read again when the app did not start with it.   *)

RewriteReads ==
    /\ rewriting = {} /\ rewriting' = {envKey}
    /\ UNCHANGED <<key, envKey, installing, linking, verifying, lost>>

RewriteWrites(k, left, again) ==
    /\ k \in rewriting /\ left \in {k, 0} /\ PutsKey(left, "rewritten")
    /\ rewriting' = IF again THEN rewriting ELSE {}
    /\ UNCHANGED <<key, installing, linking, verifying>>

(* Nothing had to be changed, or something failed before the write.          *)
RewriteEnds ==
    /\ rewriting # {} /\ rewriting' = {}
    /\ UNCHANGED <<key, envKey, installing, linking, verifying, lost>>

-----------------------------------------------------------------------------
(* verify_hub_key: a plain key of an older hub becomes its hash, by an UPDATE *)
(* of whatever key the app has by then.                                      *)

VerifyReads ==
    /\ verifying = 0 /\ key.plain /\ verifying' = key.number
    /\ UNCHANGED <<key, envKey, installing, linking, rewriting, lost>>

VerifyHashes ==
    /\ verifying # 0 /\ verifying' = 0
    /\ key' = IF key.number = 0 THEN key ELSE [number |-> verifying, plain |-> FALSE]
    /\ lost' = IF key'.number # key.number THEN lost \cup {"hashed"} ELSE lost
    /\ UNCHANGED <<envKey, installing, linking, rewriting>>

-----------------------------------------------------------------------------
KeysNext ==
    \/ \E n \in 1..MaxKey : LinkSaves(n) \/ InstallSaves(n)
    \/ \E n \in linking, left \in 0..MaxKey : LinkWrites(n, left)
    \/ InstallWrites \/ UninstallForgetsKey
    \/ \E left \in 0..MaxKey : InstallEnds(left)
    \/ RewriteReads \/ RewriteEnds
    \/ \E k \in rewriting, left \in 0..MaxKey, again \in BOOLEAN : RewriteWrites(k, left, again)
    \/ VerifyReads \/ VerifyHashes

KeysSpec == KeysInit /\ [][KeysNext]_keysVars

-----------------------------------------------------------------------------
(* Properties *)

(* The app is not locked out: when no link and no installation is under way, *)
(* the key in its .env is the one the hub knows.  A link or an installation   *)
(* that writes its key mends whatever was wrong before; the two part again    *)
(* only by what the code does not prevent: a new key that was saved and not   *)
(* written, an installation that writes its key over a newer link's, the      *)
(* .env rewritten from a text that was read before, or the late hash of an    *)
(* older hub's key.                                                         *)
KeyReachesApp ==
    linking = {} /\ installing = NoInstallation /\ key.number # 0 => envKey = key.number \/ lost # {}
=============================================================================
