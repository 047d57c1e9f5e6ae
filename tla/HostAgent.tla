------------------------------ MODULE HostAgent ------------------------------
(***************************************************************************)
(* The storage agent on the Proxmox host (host_agent/storage.py): the hub    *)
(* asks over SSH for a pool to be mounted into its container; a unit of      *)
(* systemd's sets the mount, the check at boot, and reboots the container.   *)
(* One lock file and one state file; the unit has five minutes.             *)
(***************************************************************************)
EXTENDS Naturals, FiniteSets

CONSTANTS Pool,     \* file systems of the host
          MaxJobs   \* bound on the jobs queued

ASSUME HostAssumption == MaxJobs \in Nat

VARIABLES hostJob,   \* state.json; "old" once it was not written for ten minutes
          hostLock,  \* the lock file: free, or whose
          waiting,   \* units that were started and wait for the lock, by their job
          unit,      \* the unit that has it: its next step
          lxc,       \* the container: its configuration, and what it was started with
          mounted,   \* pools mounted on the host
          cut        \* history: a unit was killed in the middle of the job

hostVars == <<hostJob, hostLock, waiting, unit, lxc, mounted, cut>>

InProgress == {"queued", "applying", "restarting"}

HostTypeOK ==
    /\ hostJob \in [id : 0..MaxJobs, pool : SUBSET Pool, old : BOOLEAN,
                    state : InProgress \cup {"idle", "ready", "failed"}]
    /\ hostLock \in {"free", "connect", "apply"}
    /\ waiting \subseteq 1..MaxJobs
    /\ unit \in {"none", "look", "set", "boot", "reboot", "visible"}
    /\ lxc \in [mounts : SUBSET Pool, checked : BOOLEAN, tun : BOOLEAN, up : BOOLEAN, running : SUBSET Pool]
    /\ mounted \subseteq Pool /\ cut \in BOOLEAN

HostInit ==
    /\ hostJob = [id |-> 0, pool |-> {}, old |-> FALSE, state |-> "idle"]
    /\ hostLock = "free" /\ waiting = {} /\ unit = "none"
    /\ lxc = [mounts |-> {}, checked |-> FALSE, tun |-> FALSE, up |-> TRUE, running |-> {}]
    /\ mounted = Pool /\ cut = FALSE

SavesJob(state) == hostJob' = [hostJob EXCEPT !.state = state, !.old = FALSE]

(* The container starts: refused by its check while a pool is missing, and    *)
(* without one with whatever directory is there.                            *)
Starts ==
    LET refused == lxc.checked /\ ~(lxc.mounts \subseteq mounted) IN
    lxc' = [lxc EXCEPT !.up = ~refused,
                       !.running = IF refused THEN {} ELSE lxc.mounts \cap mounted]

-----------------------------------------------------------------------------
(* connect, from its reading of the state to the start of the unit           *)

QueuesOver(p) ==
    /\ hostLock = "free" /\ (hostJob.state \notin InProgress \/ hostJob.old)
    /\ p \in mounted /\ ~(p \in lxc.mounts /\ p \in lxc.running)
    /\ hostJob.id < MaxJobs
    /\ hostJob' = [id |-> hostJob.id + 1, pool |-> {p}, old |-> FALSE, state |-> "queued"]
    /\ hostLock' = "connect"
    /\ UNCHANGED <<waiting, unit, lxc, mounted, cut>>

(* A job in progress refuses another; "a dead worker must not cause a blind   *)
(* second reboot".                                                          *)
Queues(p) ==
    /\ hostLock = "free" /\ hostJob.state \notin InProgress
    /\ p \in mounted /\ ~(p \in lxc.mounts /\ p \in lxc.running)
    /\ hostJob.id < MaxJobs
    /\ hostJob' = [id |-> hostJob.id + 1, pool |-> {p}, old |-> FALSE, state |-> "queued"]
    /\ hostLock' = "connect"
    /\ UNCHANGED <<waiting, unit, lxc, mounted, cut>>

FindsReady(p) ==
    /\ hostLock = "free" /\ hostJob.state \notin InProgress
    /\ p \in mounted /\ p \in lxc.mounts /\ p \in lxc.running
    /\ hostJob' = [hostJob EXCEPT !.pool = {p}, !.state = "ready"]
    /\ UNCHANGED <<hostLock, waiting, unit, lxc, mounted, cut>>

StartsUnit ==
    /\ hostLock = "connect" /\ hostLock' = "free"
    /\ waiting' = waiting \cup {hostJob.id}
    /\ UNCHANGED <<hostJob, unit, lxc, mounted, cut>>

(* systemd-run failed, or was given up while it started the unit after all.  *)
StartFails ==
    /\ hostLock = "connect" /\ hostLock' = "free"
    /\ SavesJob("failed")
    /\ waiting' \in {waiting, waiting \cup {hostJob.id}}
    /\ UNCHANGED <<unit, lxc, mounted, cut>>

ConnectDies ==
    /\ hostLock = "connect" /\ hostLock' = "free"
    /\ waiting' \in {waiting, waiting \cup {hostJob.id}}
    /\ UNCHANGED <<hostJob, unit, lxc, mounted, cut>>

-----------------------------------------------------------------------------
(* apply *)

UnitBegins(i) ==
    /\ i \in waiting /\ hostLock = "free" /\ waiting' = waiting \ {i}
    /\ IF hostJob.id = i /\ hostJob.state = "queued"
       THEN hostLock' = "apply" /\ unit' = "look"
       ELSE UNCHANGED <<hostLock, unit>>
    /\ UNCHANGED <<hostJob, lxc, mounted, cut>>

UnitLooks ==
    /\ unit = "look" /\ hostJob.pool \subseteq mounted
    /\ IF hostJob.pool \subseteq lxc.mounts
       THEN SavesJob("restarting") /\ unit' = "boot"
       ELSE SavesJob("applying") /\ unit' = "set"
    /\ UNCHANGED <<hostLock, waiting, lxc, mounted, cut>>

(* pct set, if nobody else changed the configuration.                        *)
UnitSets ==
    /\ unit = "set" /\ unit' = "boot" /\ SavesJob("restarting")
    /\ lxc' = [lxc EXCEPT !.mounts = @ \cup hostJob.pool]
    /\ UNCHANGED <<hostLock, waiting, mounted, cut>>

UnitConfiguresBoot ==
    /\ unit = "boot" /\ unit' = "reboot"
    /\ lxc' = [lxc EXCEPT !.checked = TRUE]
    /\ UNCHANGED <<hostJob, hostLock, waiting, mounted, cut>>

UnitReboots ==
    /\ unit = "reboot" /\ unit' = "visible" /\ Starts
    /\ UNCHANGED <<hostJob, hostLock, waiting, mounted, cut>>

UnitSees ==
    /\ unit = "visible" /\ lxc.up /\ hostJob.pool \subseteq lxc.running
    /\ SavesJob("ready") /\ unit' = "none" /\ hostLock' = "free"
    /\ UNCHANGED <<waiting, lxc, mounted, cut>>

MaySet == IF unit = "set" THEN {[lxc EXCEPT !.mounts = @ \cup hostJob.pool]} ELSE {}

(* A command that fails or takes too long; the mount may be set by then.     *)
UnitFails ==
    /\ unit # "none" /\ unit' = "none" /\ hostLock' = "free"
    /\ SavesJob("failed")
    /\ lxc' \in {lxc} \cup MaySet
    /\ UNCHANGED <<waiting, mounted, cut>>

(* Its five minutes are over, or the host went down.                         *)
UnitIsKilled ==
    /\ unit # "none" /\ unit' = "none" /\ hostLock' = "free"
    /\ cut' = TRUE
    /\ lxc' \in {lxc} \cup MaySet
    /\ UNCHANGED <<hostJob, waiting, mounted>>

-----------------------------------------------------------------------------
(* The rest of the host *)

(* ensure_vpn_tun: under the lock, and not while a job is in progress.        *)
GrantsTun ==
    /\ hostLock = "free" /\ hostJob.state \notin InProgress /\ ~lxc.tun
    /\ lxc' = [lxc EXCEPT !.tun = TRUE]
    /\ UNCHANGED <<hostJob, hostLock, waiting, unit, mounted, cut>>

(* Ten minutes without a word: the hub is told that the job was interrupted.  *)
Ages ==
    /\ hostJob.state \in InProgress /\ ~hostJob.old
    /\ unit = "none" /\ hostLock = "free" /\ hostJob.id \notin waiting
    /\ hostJob' = [hostJob EXCEPT !.old = TRUE]
    /\ UNCHANGED <<hostLock, waiting, unit, lxc, mounted, cut>>

(* An administrator has looked at the host and removes the state.            *)
AdminClears ==
    /\ hostJob.old /\ hostLock = "free"
    /\ hostJob' = [hostJob EXCEPT !.state = "idle", !.old = FALSE] /\ cut' = FALSE
    /\ UNCHANGED <<hostLock, waiting, unit, lxc, mounted>>

AdminReboots == Starts /\ UNCHANGED <<hostJob, hostLock, waiting, unit, mounted, cut>>

PoolChanges(p) ==
    /\ mounted' = IF p \in mounted THEN mounted \ {p} ELSE mounted \cup {p}
    /\ lxc' \in {lxc, [lxc EXCEPT !.running = @ \cap mounted']}
    /\ UNCHANGED <<hostJob, hostLock, waiting, unit, cut>>

-----------------------------------------------------------------------------
HostNext ==
    \/ \E p \in Pool : Queues(p) \/ FindsReady(p) \/ PoolChanges(p)
    \/ StartsUnit \/ StartFails \/ ConnectDies
    \/ \E i \in waiting : UnitBegins(i)
    \/ UnitLooks \/ UnitSets \/ UnitConfiguresBoot \/ UnitReboots \/ UnitSees
    \/ UnitFails \/ UnitIsKilled
    \/ GrantsTun \/ Ages \/ AdminClears \/ AdminReboots

HostSpec == HostInit /\ [][HostNext]_hostVars

-----------------------------------------------------------------------------
(* Properties *)

(* The agent reboots the container, and every app in it, for the job of its   *)
(* state file only, and never again for one whose unit was killed: "a dead    *)
(* worker must not cause a blind second reboot".                            *)
NoBlindReboot ==
    [][unit = "reboot" /\ unit' = "visible" => hostJob.state = "restarting" /\ ~cut]_hostVars
=============================================================================
