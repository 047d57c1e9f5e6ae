----------------------------- MODULE CodeInstall ----------------------------
(***************************************************************************)
(* The hub's side of FjordCode: the installers of its two containers         *)
(* (services/fjordcode_install.py, fjordcode_desktop.py), each a thread      *)
(* behind a flag, and the secret that fjordcode_routes.py shares with the    *)
(* worker by way of a file, made by the first request that finds none.       *)
(***************************************************************************)
EXTENDS Naturals, FiniteSets

CONSTANTS Proxy,         \* requests that are passed on to the worker
          Worker,        \* the one of the containers that checks the secret
          Desktop,       \* the other one: VS Code
          MaxHubRestarts \* bound on restarts of the hub

ASSUME CodeInstallAssumption == Worker # Desktop /\ MaxHubRestarts \in Nat

VARIABLES installer,    \* per container: _installing, _error or _phase, the thread's next step
          codeBox,      \* per container: what Docker has of it
          secret,       \* the file: the request that made it, and whether it is written
          proxy,        \* per request: its next step, and the secret that it read
          spoilt,       \* history: who made the file failed, or was cut off, before it was written
          hubRestarts

installVars == <<installer, codeBox, secret, proxy, spoilt, hubRestarts>>

Box     == {Worker, Desktop}
NoProxy == [at |-> "idle", read |-> {}]

CodeInstallTypeOK ==
    /\ installer \in [Box -> [installing : BOOLEAN, failed : BOOLEAN,
                              at : {"none", "look", "start", "image", "create", "extension"}]]
    /\ codeBox \in [Box -> {"none", "created", "running", "stopped"}]
    /\ secret \in [exists : BOOLEAN, by : SUBSET Proxy]
    /\ proxy \in [Proxy -> [at : {"idle", "missing", "writes", "reads", "sends"},
                            read : SUBSET Proxy]]
    /\ spoilt \in BOOLEAN /\ hubRestarts \in 0..MaxHubRestarts

CodeInstallInit ==
    /\ installer = [b \in Box |-> [installing |-> FALSE, failed |-> FALSE, at |-> "none"]]
    /\ codeBox = [b \in Box |-> "none"]
    /\ secret = [exists |-> FALSE, by |-> {}]
    /\ proxy = [r \in Proxy |-> NoProxy] /\ spoilt = FALSE /\ hubRestarts = 0

secretVars == <<secret, proxy, spoilt, hubRestarts>>

-----------------------------------------------------------------------------
(* An installer *)

(* begin_install: refused while one runs.                                    *)
BeginsInstall(b) ==
    /\ ~installer[b].installing
    /\ installer' = [installer EXCEPT ![b] = [installing |-> TRUE, failed |-> FALSE, at |-> "look"]]
    /\ UNCHANGED <<codeBox, secretVars>>

InstallerGoes(b, from, to) ==
    /\ installer[b].at = from
    /\ installer' = [installer EXCEPT ![b].at = to]
    /\ UNCHANGED secretVars

(* The end of _install: how it went, then the flag.                          *)
InstallerEnds(b, failed) ==
    /\ installer' = [installer EXCEPT ![b] = [installing |-> FALSE, failed |-> failed, at |-> "none"]]
    /\ UNCHANGED secretVars

(* A container that is there is started, if need be, and kept as it is.       *)
LooksForBox(b) ==
    /\ UNCHANGED codeBox
    /\ \/ codeBox[b] = "none" /\ InstallerGoes(b, "look", "image")
       \/ codeBox[b] \in {"created", "stopped"} /\ InstallerGoes(b, "look", "start")
       \/ codeBox[b] = "running" /\ b = Desktop /\ InstallerGoes(b, "look", "extension")
       \/ codeBox[b] = "running" /\ b = Worker /\ installer[b].at = "look" /\ InstallerEnds(b, FALSE)

(* The hub's own mounts and network, the image, the volumes.                 *)
MakesImage(b) == InstallerGoes(b, "image", "create") /\ UNCHANGED codeBox

CreatesBox(b) ==
    /\ codeBox[b] = "none" /\ codeBox' = [codeBox EXCEPT ![b] = "created"]
    /\ InstallerGoes(b, "create", "start")

StartsBox(b) ==
    /\ installer[b].at = "start" /\ codeBox[b] # "none"
    /\ codeBox' = [codeBox EXCEPT ![b] = "running"]
    /\ IF b = Desktop THEN InstallerGoes(b, "start", "extension") ELSE InstallerEnds(b, FALSE)

(* VS Code is ready with its extension or without it.                        *)
AddsExtension ==
    /\ installer[Desktop].at = "extension"
    /\ InstallerEnds(Desktop, FALSE) /\ UNCHANGED codeBox

InstallFails(b) ==
    /\ installer[b].at \in {"look", "image", "create", "start"}
    /\ InstallerEnds(b, TRUE) /\ UNCHANGED codeBox

(* Docker restarts a container that ended by itself; an administrator stops   *)
(* one or removes it.                                                       *)
BoxChanges(b) ==
    /\ \/ codeBox[b] = "running" /\ codeBox' = [codeBox EXCEPT ![b] = "stopped"]
       \/ codeBox[b] = "stopped" /\ codeBox' = [codeBox EXCEPT ![b] = "none"]
    /\ UNCHANGED <<installer, secretVars>>

-----------------------------------------------------------------------------
(* A request: _shared_secret, and the worker that compares what it is given.  *)

FindsSecret(r) ==
    /\ proxy[r].at = "idle"
    /\ proxy' = [proxy EXCEPT ![r].at = IF secret.exists THEN "reads" ELSE "missing"]
    /\ UNCHANGED <<installer, codeBox, secret, spoilt, hubRestarts>>

(* O_CREAT and O_EXCL: only one request makes the file, the others read it.    *)
OpensSecretAnyway(r) ==
    /\ proxy[r].at = "missing"
    /\ secret' = [exists |-> TRUE, by |-> {}]
    /\ proxy' = [proxy EXCEPT ![r].at = "writes"]
    /\ UNCHANGED <<installer, codeBox, spoilt, hubRestarts>>

OpensSecret(r) ==
    /\ proxy[r].at = "missing"
    /\ \/ ~secret.exists /\ secret' = [exists |-> TRUE, by |-> {}]
          /\ proxy' = [proxy EXCEPT ![r].at = "writes"]
       \/ secret.exists /\ UNCHANGED secret /\ proxy' = [proxy EXCEPT ![r].at = "reads"]
    /\ UNCHANGED <<installer, codeBox, spoilt, hubRestarts>>

WritesSecret(r) ==
    /\ proxy[r].at = "writes" /\ secret' = [secret EXCEPT !.by = {r}]
    /\ proxy' = [proxy EXCEPT ![r].at = "reads"]
    /\ UNCHANGED <<installer, codeBox, spoilt, hubRestarts>>

(* The write or the close raises OSError, answered with 503.  The file stays:  *)
(* empty, or with a part of the secret, which is then the secret of all.      *)
SecretWriteFails(r) ==
    /\ proxy[r].at = "writes" /\ proxy' = [proxy EXCEPT ![r] = NoProxy]
    /\ \/ UNCHANGED secret /\ spoilt' = TRUE
       \/ secret' = [secret EXCEPT !.by = {r}] /\ UNCHANGED spoilt
    /\ UNCHANGED <<installer, codeBox, hubRestarts>>

ReadsSecret(r) ==
    /\ proxy[r].at = "reads"
    /\ proxy' = [proxy EXCEPT ![r] = [at |-> "sends", read |-> secret.by]]
    /\ UNCHANGED <<installer, codeBox, secret, spoilt, hubRestarts>>

(* The worker reads the file for every request, and refuses one without it.   *)
(* Opening or reading the file may have failed before that.                  *)
SendsProxy(r) ==
    /\ proxy[r].at \in {"missing", "reads", "sends"}
    /\ proxy' = [proxy EXCEPT ![r] = NoProxy]
    /\ UNCHANGED <<installer, codeBox, secret, spoilt, hubRestarts>>

-----------------------------------------------------------------------------
(* The hub restarts: threads and requests are gone, and so are the flags.     *)
CodeHubRestarts ==
    /\ hubRestarts < MaxHubRestarts /\ hubRestarts' = hubRestarts + 1
    /\ installer' = [b \in Box |-> [installing |-> FALSE, failed |-> FALSE, at |-> "none"]]
    /\ proxy' = [r \in Proxy |-> NoProxy]
    /\ spoilt' = (spoilt \/ \E r \in Proxy : proxy[r].at = "writes")
    /\ UNCHANGED <<codeBox, secret>>

CodeInstallNext ==
    \/ \E b \in Box :
        \/ BeginsInstall(b) \/ LooksForBox(b) \/ MakesImage(b) \/ CreatesBox(b) \/ StartsBox(b)
        \/ InstallFails(b) \/ BoxChanges(b)
    \/ AddsExtension
    \/ \E r \in Proxy :
        \/ FindsSecret(r) \/ OpensSecret(r) \/ WritesSecret(r) \/ SecretWriteFails(r)
        \/ ReadsSecret(r) \/ SendsProxy(r)
    \/ CodeHubRestarts

CodeInstallSpec == CodeInstallInit /\ [][CodeInstallNext]_installVars

-----------------------------------------------------------------------------
(* Properties *)

(* However many requests find no secret at once, all that read one read the   *)
(* same, which is what the worker compares with, also where a write fails or  *)
(* the hub restarts.  The file is empty only while it is being written, or    *)
(* for good because the one who made it failed or was cut off: then every     *)
(* request goes without a secret, and no later one makes it anew.             *)
SecretIsOne ==
    /\ \A r \in Proxy : proxy[r].read # {} => proxy[r].read = secret.by
    /\ (secret.exists /\ secret.by = {}) => (spoilt \/ \E r \in Proxy : proxy[r].at = "writes")
    /\ spoilt => secret.by = {} /\ \A r \in Proxy : proxy[r].at # "writes"
=============================================================================
