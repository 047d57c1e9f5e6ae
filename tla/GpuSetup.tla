------------------------------ MODULE GpuSetup ------------------------------
(***************************************************************************)
(* The automatic GPU setup of app.py: a request starts a thread that runs a  *)
(* chain of commands on the host and writes how it goes to a state file.     *)
(* Every request reads the file, memory is what gets written to it, and      *)
(* Docker's restart at the end restarts the hub too.                        *)
(***************************************************************************)
EXTENDS Naturals

CONSTANTS GpuAsker,     \* requests, and the threads they start
          GpuMishaps    \* bound on failing writes and thread starts, and on restarts of the hub

ASSUME GpuAssumption == GpuMishaps \in Nat

VARIABLES gpuMemory,   \* _gpu_setup_state: is a setup running, how did the last one end
          gpuFile,     \* gpu_setup_state.json, whole or not (torn, or not there yet)
          gpuAsker,    \* per request: it has seen no setup run, or its thread's next step
          beside,      \* history: setups that went on beside another one
          silenced,    \* history: setups that go on since another one said it had ended
          doubts,      \* history: why what is shown may not be what is
          gpuHost,     \* the container's system, as far as the commands change it
          gpuMishaps

gpuVars == <<gpuMemory, gpuFile, gpuAsker, beside, silenced, doubts, gpuHost, gpuMishaps>>
gpuPast == <<beside, silenced>>

Chain  == {"probe", "devices", "packages", "toolkit", "version", "clean", "libs", "ldconfig",
           "nvml", "runtime", "cgroups", "restart", "planned"}
Status == [running : BOOLEAN, ended : {"not", "ok", "failed"}, restart : BOOLEAN]

GpuTypeOK ==
    /\ gpuMemory \in Status /\ gpuFile \in [status : Status, whole : BOOLEAN]
    /\ gpuAsker \in [GpuAsker -> [at : Chain \cup {"idle", "looked", "reset"}, exact : BOOLEAN]]
    /\ beside \subseteq GpuAsker /\ silenced \subseteq GpuAsker
    /\ doubts \subseteq {"start", "write", "restart", "libs"}
    /\ gpuHost \in [toolkit : BOOLEAN, libs : {"bound", "right", "wrong"}, runtime : BOOLEAN,
                 cgroups : BOOLEAN, restart : BOOLEAN]
    /\ gpuMishaps \in 0..GpuMishaps

NoGpuSetup == [running |-> FALSE, ended |-> "not", restart |-> FALSE]
NoStep  == [at |-> "idle", exact |-> FALSE]

GpuInit ==
    /\ gpuMemory = NoGpuSetup /\ gpuFile = [status |-> NoGpuSetup, whole |-> FALSE]
    /\ gpuAsker = [a \in GpuAsker |-> NoStep]
    /\ beside = {} /\ silenced = {} /\ doubts = {"libs"}
    /\ gpuHost \in [toolkit : {FALSE}, libs : {"bound", "wrong"}, runtime : {FALSE},
                 cgroups : {FALSE}, restart : {FALSE}]
    /\ gpuMishaps = 0

Going == {a \in GpuAsker : gpuAsker[a].at \in Chain \cup {"reset"}}

(* _gpu_setup_load_state: a file that cannot be read shows what memory has.   *)
Shown == IF gpuFile.whole THEN gpuFile.status ELSE gpuMemory

(* _gpu_setup_write_state_unlocked: the whole state; an error is swallowed,   *)
(* and leaves the file as it was or cut short.  `Settled` are the doubts the  *)
(* new state ends, `raised` those it brings.                                *)
Writes(status, settled, raised) ==
    /\ gpuMemory' = status
    /\ \/ /\ gpuFile' = [status |-> status, whole |-> TRUE]
          /\ doubts' = (doubts \ (settled \cup {"write", "restart"})) \cup raised
          /\ UNCHANGED gpuMishaps
       \/ /\ gpuMishaps < GpuMishaps /\ gpuMishaps' = gpuMishaps + 1
          /\ UNCHANGED gpuFile \/ gpuFile' = [gpuFile EXCEPT !.whole = FALSE]
          /\ doubts' = (doubts \ settled) \cup raised \cup {"write"}

(* _gpu_setup_append before a step: the state is written as it is.            *)
Appends == Writes(gpuMemory, {}, {})

-----------------------------------------------------------------------------
(* A request looks at the file, sets the state anew, and starts its thread. *)

GpuLooks(a) ==
    /\ gpuAsker[a].at = "idle" /\ ~Shown.running
    /\ gpuAsker' = [gpuAsker EXCEPT ![a].at = "looked"]
    /\ UNCHANGED <<gpuMemory, gpuFile, gpuPast, doubts, gpuHost, gpuMishaps>>

GpuResets(a) ==
    /\ gpuAsker[a].at = "looked"
    /\ Writes([running |-> TRUE, ended |-> "not", restart |-> FALSE], {"start"}, {"libs"})
    /\ gpuAsker' = [gpuAsker EXCEPT ![a].at = "reset"]
    /\ beside' = IF Going = {} THEN beside ELSE beside \cup Going \cup {a}
    /\ silenced' = {} /\ UNCHANGED gpuHost

GpuStarts(a) ==
    /\ gpuAsker[a].at = "reset"
    /\ gpuAsker' = [gpuAsker EXCEPT ![a].at = "probe"]
    /\ UNCHANGED <<gpuMemory, gpuFile, gpuPast, doubts, gpuHost, gpuMishaps>>

(* No thread can be had (the request ends with 500): memory and file go on    *)
(* saying that a setup runs.                                                *)
GpuStartFails(a) ==
    /\ gpuAsker[a].at = "reset"
    /\ gpuMishaps < GpuMishaps /\ gpuMishaps' = gpuMishaps + 1
    /\ gpuAsker' = [gpuAsker EXCEPT ![a] = NoStep]
    /\ beside' = beside \ {a} /\ silenced' = silenced \ {a}
    /\ doubts' = doubts \cup {"start"}
    /\ UNCHANGED <<gpuMemory, gpuFile, gpuHost>>

-----------------------------------------------------------------------------
(* The chain.  A step that fails ends it, but for those whose result is not   *)
(* looked at.                                                               *)

GpuSteps(a, from, to) ==
    /\ gpuAsker[a].at = from
    /\ gpuAsker' = [gpuAsker EXCEPT ![a].at = to]
    /\ Appends /\ UNCHANGED gpuPast

GpuSetupEndsUnsaid(a, ended, restart) ==
    /\ UNCHANGED <<gpuMemory, gpuFile, doubts, gpuMishaps>>
    /\ gpuAsker' = [gpuAsker EXCEPT ![a] = NoStep]
    /\ beside' = beside \ {a} /\ silenced' = Going \ {a}

(* _gpu_setup_finish, and the end of the thread.  The libraries are known to  *)
(* fit when it compared them with the whole version and no other one was at it. *)
GpuSetupEnds(a, ended, restart) ==
    /\ Writes([running |-> FALSE, ended |-> ended, restart |-> restart], {"start", "libs"},
              IF restart /\ gpuAsker[a].exact /\ a \notin beside THEN {} ELSE {"libs"})
    /\ gpuAsker' = [gpuAsker EXCEPT ![a] = NoStep]
    /\ beside' = beside \ {a} /\ silenced' = Going \ {a}

(* The GPU works as it is.                                                  *)
GpuIsReady(a) ==
    /\ gpuAsker[a].at = "probe" /\ GpuSetupEnds(a, "ok", FALSE) /\ UNCHANGED gpuHost

(* Any step: a command that failed, a host that is not supported (Docker      *)
(* Desktop, not root, no /dev/nvidia*, no apt), no driver version, or an      *)
(* exception.  What failed or timed out may have done its work.              *)
GpuFails(a) ==
    /\ gpuAsker[a].at \in Chain \ {"clean", "planned"}
    /\ gpuAsker[a].at = "libs" => ~gpuAsker[a].exact
    /\ GpuSetupEnds(a, "failed", FALSE)
    /\ \/ UNCHANGED gpuHost
       \/ /\ gpuAsker[a].at \in {"toolkit", "runtime", "cgroups", "restart"}
          /\ gpuHost' = [gpuHost EXCEPT ![gpuAsker[a].at] = TRUE]
       \/ gpuAsker[a].at = "nvml" /\ gpuAsker[a].exact
          /\ gpuHost' = [gpuHost EXCEPT !.libs = "bound"]

GpuProbes(a) ==
    /\ GpuSteps(a, "probe", "devices") \/ GpuSteps(a, "devices", "packages")
          \/ GpuSteps(a, "packages", "toolkit")
    /\ UNCHANGED gpuHost

InstallsToolkit(a) ==
    GpuSteps(a, "toolkit", "version") /\ gpuHost' = [gpuHost EXCEPT !.toolkit = TRUE]

(* The driver's whole version, or only its major one from the environment.   *)
FindsVersion(a) ==
    /\ gpuAsker[a].at = "version"
    /\ \E exact \in BOOLEAN : gpuAsker' = [gpuAsker EXCEPT ![a] = [at |-> "clean", exact |-> exact]]
    /\ Appends /\ UNCHANGED <<gpuPast, gpuHost>>

(* Other majors' libraries are removed; what that says is not looked at.      *)
RemovesOthers(a) ==
    /\ GpuSteps(a, "clean", "libs")
    /\ UNCHANGED gpuHost \/ gpuHost' = [gpuHost EXCEPT !.libs = "bound"]

(* The exact package, or the major's latest one; without an exact one all are *)
(* removed, so that the host's own, bound into the container, are used.       *)
InstallsLibs(a) ==
    /\ GpuSteps(a, "libs", "ldconfig")
    /\ \/ gpuHost' = [gpuHost EXCEPT !.libs = "right"]
       \/ ~gpuAsker[a].exact /\ gpuHost' = [gpuHost EXCEPT !.libs = "wrong"]
       \/ gpuAsker[a].exact /\ (UNCHANGED gpuHost \/ gpuHost' = [gpuHost EXCEPT !.libs = "bound"])

RunsLdconfig(a) == GpuSteps(a, "ldconfig", "nvml") /\ UNCHANGED gpuHost

(* libnvidia-ml is compared with the driver, if that one's version is known;  *)
(* a second time after all packages were removed.                           *)
ComparesLibs(a) ==
    /\ GpuSteps(a, "nvml", "runtime")
    /\ \/ (gpuAsker[a].exact => gpuHost.libs # "wrong") /\ UNCHANGED gpuHost
       \/ gpuAsker[a].exact /\ gpuHost' = [gpuHost EXCEPT !.libs = "bound"]

ConfiguresRuntime(a) ==
    GpuSteps(a, "runtime", "cgroups") /\ gpuHost' = [gpuHost EXCEPT !.runtime = TRUE]

SetsNoCgroups(a) ==
    GpuSteps(a, "cgroups", "restart") /\ gpuHost' = [gpuHost EXCEPT !.cgroups = TRUE]

(* Docker restarts two seconds later, which may be before the end is written. *)
PlansRestart(a) ==
    GpuSteps(a, "restart", "planned") /\ gpuHost' = [gpuHost EXCEPT !.restart = TRUE]

GpuDone(a) ==
    /\ gpuAsker[a].at = "planned" /\ GpuSetupEnds(a, "ok", TRUE) /\ UNCHANGED gpuHost

-----------------------------------------------------------------------------
(* The hub restarts, with Docker or alone, perhaps in the middle of a write:  *)
(* memory starts anew, the file stays, and nothing looks at it.              *)
GpuHubRestarts ==
    /\ \/ gpuHost.restart /\ UNCHANGED gpuMishaps
       \/ gpuMishaps < GpuMishaps /\ gpuMishaps' = gpuMishaps + 1
    /\ gpuMemory' = NoGpuSetup
    /\ UNCHANGED gpuFile \/ (Going # {} /\ gpuFile' = [gpuFile EXCEPT !.whole = FALSE])
    /\ gpuAsker' = [a \in GpuAsker |-> NoStep]
    /\ beside' = {} /\ silenced' = {}
    /\ doubts' = (doubts \cap {"libs"}) \cup {"restart"}
    /\ gpuHost' = [gpuHost EXCEPT !.restart = FALSE]

GpuNext ==
    \/ \E a \in GpuAsker :
        \/ GpuLooks(a) \/ GpuResets(a) \/ GpuStarts(a) \/ GpuStartFails(a) \/ GpuIsReady(a) \/ GpuFails(a) \/ GpuProbes(a)
        \/ InstallsToolkit(a) \/ FindsVersion(a) \/ RemovesOthers(a) \/ InstallsLibs(a)
        \/ RunsLdconfig(a) \/ ComparesLibs(a) \/ ConfiguresRuntime(a) \/ SetsNoCgroups(a)
        \/ PlansRestart(a) \/ GpuDone(a)
    \/ GpuHubRestarts

GpuSpec == GpuInit /\ [][GpuNext]_gpuVars

-----------------------------------------------------------------------------
(* Properties *)

(* A setup said to have succeeded has done its work, whatever ran beside it,  *)
(* failed or was cut off: the toolkit, Docker's runtime and no-cgroups are    *)
(* set, and the libraries fit the driver if it compared them with the whole   *)
(* version and was alone.  One is shown to go on while it does: from its      *)
(* reset on, two side by side too, until one of the two ends.  "Running" is   *)
(* shown with nothing going on only after a thread that could not start, a    *)
(* write that failed, or a restart of the hub.                              *)
SetupDidWhatItSays ==
    /\ Shown.restart => gpuHost.toolkit /\ gpuHost.runtime /\ gpuHost.cgroups
    /\ (Shown.restart /\ gpuHost.libs = "wrong") => "libs" \in doubts
    /\ Shown.running => (Going # {} \/ doubts \cap {"start", "write", "restart"} # {})
    /\ ~Shown.running => (Going \subseteq silenced \/ "write" \in doubts)
=============================================================================
