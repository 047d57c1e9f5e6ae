--------------------------- MODULE SidecarUpdater ---------------------------
(***************************************************************************)
(* The hub's own update: the sidecar's HTTP service and job threads         *)
(* (updater_service/app.py), the script a job runs (scripts/update.sh), and *)
(* the hub whose requests ask for it and whose container it recreates.      *)
(*                                                                         *)
(* A job has a thread in the sidecar and a script, a process of its own.    *)
(* RUNNING_PROCESS and STOP_REQUESTED are in memory, the state file is not. *)
(* Requests for a start come through the hub, whose operation lock keeps    *)
(* them apart only until it gives up waiting, after ten seconds: handlers   *)
(* may overlap, and the lock is left out.  So is what is edited in the      *)
(* checkout: it is one more reason for which git_info or a script fails.    *)
(* A revision is the number of commits upstream had.                        *)
(***************************************************************************)
EXTENDS Naturals

CONSTANTS Slot,        \* requests for a start under way in the sidecar
          Nobody,      \* no slot, and no job
          MaxJobs,     \* bound on the jobs started
          MaxRev,      \* bound on the commits upstream makes
          MaxCrashes   \* bound on restarts of the sidecar

Job == 1..MaxJobs

ASSUME SidecarAssumption ==
    /\ Nobody \notin Slot /\ Nobody \notin Nat
    /\ MaxJobs \in Nat /\ MaxRev \in Nat /\ MaxCrashes \in Nat

VARIABLES remote, head, image, hub,  \* revisions: upstream, checkout, image, container
          running, stop,             \* RUNNING_PROCESS, STOP_REQUESTED
          file,                      \* the state file's status; its flag is always recomputed
          thread, script,            \* each job's thread and its script
          built,                     \* the revision a script has Docker build
          verdict,                   \* how each job ended, once its thread knows
          request,                   \* the sidecar's start handlers
          doomed,                    \* jobs that are about to be signalled
          asked,                     \* history: jobs a force stop was accepted for
          overlap,                   \* history: what a start that was let through did not see
          crashes

code    == <<remote, head>>
docker  == <<image, hub>>
process == <<running, stop>>
jobs    == <<thread, script, built, verdict>>
stops   == <<doomed, asked>>
history == <<overlap, crashes>>
vars    == <<remote, head, image, hub, running, stop, file, thread, script,
             built, verdict, request, doomed, asked, overlap, crashes>>

Rev     == 0..MaxRev
Status  == {"idle", "running", "stopping", "stopped", "success", "failed"}
Thread  == {"none", "begin", "popen", "register", "read", "report", "done", "lost"}
Script  == {"none", "pull", "build", "tag", "up", "start", "tail", "ok", "failed"}
Verdict == {"none", "stopped", "success", "failed"}
Request == {"idle", "git", "answer"}

TypeOK ==
    /\ remote \in Rev /\ head \in Rev /\ image \in Rev
    /\ hub \in [up : BOOLEAN, rev : Rev]
    /\ running \in Job \cup {Nobody} /\ stop \in BOOLEAN
    /\ file \in Status
    /\ thread \in [Job -> Thread]
    /\ script \in [Job -> Script]
    /\ built \in [Job -> Rev]
    /\ verdict \in [Job -> Verdict]
    /\ request \in [Slot -> Request]
    /\ doomed \subseteq Job /\ asked \subseteq Job
    /\ overlap \subseteq {"hidden", "late"}
    /\ crashes \in 0..MaxCrashes

Init ==
    /\ remote = 0 /\ head = 0 /\ image = 0
    /\ hub = [up |-> TRUE, rev |-> 0]
    /\ running = Nobody /\ stop = FALSE
    /\ file = "idle"
    /\ thread = [j \in Job |-> "none"]
    /\ script = [j \in Job |-> "none"]
    /\ built = [j \in Job |-> 0]
    /\ verdict = [j \in Job |-> "none"]
    /\ request = [s \in Slot |-> "idle"]
    /\ doomed = {} /\ asked = {} /\ overlap = {}
    /\ crashes = 0

-----------------------------------------------------------------------------
(* What is read *)

Alive(j)  == script[j] \in {"pull", "build", "tag", "up", "start", "tail"}

(* poll() of the process the sidecar knows.                                 *)
Polled == running # Nobody /\ Alive(running)

(* read_state: a process that runs makes the file say so, and none denies it. *)
View == IF Polled /\ file # "stopping" THEN "running" ELSE file

(* An accepted job whose thread has not reported its end.                   *)
Unfinished(j) == thread[j] \in {"begin", "popen", "register", "read", "report"}

(* Jobs are numbered as they are started.                                   *)
IsNext(j) == thread[j] = "none" /\ \A k \in Job : k < j => thread[k] # "none"

-----------------------------------------------------------------------------
(* Starts: the hub's route, the sidecar's handler *)

(* What RUNNING_PROCESS does not show: a start that has passed the test and *)
(* has no thread yet, a job whose process is still to be registered, one    *)
(* whose script has ended and whose finally clause is still to come; and a  *)
(* job that has only its report to write.                                   *)
Hidden ==
    \/ \E s \in Slot : request[s] = "git"
    \/ \E j \in Job : \/ thread[j] \in {"begin", "popen", "register"}
                      \/ thread[j] = "read" /\ ~Alive(j)
Late   == \E j \in Job : thread[j] = "report"
Unseen == (IF Hidden THEN {"hidden"} ELSE {}) \cup (IF Late THEN {"late"} ELSE {})

(* Past the test of start_update, whatever stop was asked for is forgotten. *)
StartPasses(s) ==
    /\ request' = [request EXCEPT ![s] = "git"]
    /\ stop' = FALSE
    /\ overlap' = overlap \cup Unseen

(* Mutant: the sidecar does not ask whether a process runs. *)
StartAskedUntested(s) ==
    /\ hub.up /\ request[s] = "idle"
    /\ StartPasses(s)
    /\ UNCHANGED <<code, docker, running, file, jobs, stops, crashes>>

(* api_hub_self_update_start, which asks nothing of the update's state,     *)
(* then start_update's first test: 409 with a process that runs.            *)
StartAsked(s) ==
    /\ hub.up /\ request[s] = "idle" /\ ~Polled
    /\ StartPasses(s)
    /\ UNCHANGED <<code, docker, running, file, jobs, stops, crashes>>

RequestStep(s, from, to) == request[s] = from /\ request' = [request EXCEPT ![s] = to]

(* git_info fails (503) or finds local changes (409).                       *)
StartRefused(s) ==
    /\ RequestStep(s, "git", "idle")
    /\ UNCHANGED <<code, docker, process, file, jobs, stops, history>>

(* The job's thread is started.                                             *)
StartLaunched(s) ==
    /\ RequestStep(s, "git", "answer")
    /\ \E j \in Job : IsNext(j) /\ thread' = [thread EXCEPT ![j] = "begin"]
    /\ UNCHANGED <<code, docker, process, file, script, built, verdict, stops, history>>

(* After 0.1 s, 202, however far the thread has come.                       *)
StartAccepted(s) ==
    /\ RequestStep(s, "answer", "idle")
    /\ UNCHANGED <<code, docker, process, file, jobs, stops, history>>

-----------------------------------------------------------------------------
(* Checks and force stops *)

(* run_check resets what an earlier attempt left, if git answers.           *)
Check ==
    /\ file' \in {"idle", View}
    /\ UNCHANGED <<code, docker, process, jobs, request, stops, history>>

(* force_stop_update with a process that runs: the stop is on record before *)
(* the process is signalled.                                                *)
ForceStop ==
    /\ Polled
    /\ stop' = TRUE
    /\ doomed' = doomed \cup {running}
    /\ asked' = asked \cup {running}
    /\ file' = "stopping"
    /\ UNCHANGED <<code, docker, running, jobs, request, history>>

(* force_stop_update without one: 409, and the state says idle, whatever    *)
(* job has its process still to register or its end still to report.        *)
NothingToStop ==
    /\ ~Polled
    /\ file' = "idle"
    /\ UNCHANGED <<code, docker, process, jobs, request, stops, history>>

(* terminate_process: SIGTERM to the group, SIGKILL after five seconds.     *)
Signal(j) ==
    /\ j \in doomed
    /\ doomed' = doomed \ {j}
    /\ script' = [script EXCEPT ![j] = IF Alive(j) THEN "failed" ELSE @]
    /\ UNCHANGED <<code, docker, process, file, thread, built, verdict, request, asked, history>>

-----------------------------------------------------------------------------
(* run_update_job *)

ThreadStep(j, from, to) == thread[j] = from /\ thread' = [thread EXCEPT ![j] = to]

(* reset_log, and the state says running.                                   *)
JobBegins(j) ==
    /\ ThreadStep(j, "begin", "popen")
    /\ file' = "running"
    /\ UNCHANGED <<code, docker, process, script, built, verdict, request, stops, history>>

(* Popen; without a script the job fails.                                   *)
JobSpawns(j) ==
    /\ thread[j] = "popen"
    /\ \/ /\ thread' = [thread EXCEPT ![j] = "register"]
          /\ script' = [script EXCEPT ![j] = "pull"]
       \/ /\ thread' = [thread EXCEPT ![j] = "read"]
          /\ UNCHANGED script
    /\ UNCHANGED <<code, docker, process, file, built, verdict, request, stops, history>>

JobRegisters(j) ==
    /\ ThreadStep(j, "register", "read")
    /\ running' = j
    /\ UNCHANGED <<code, docker, stop, file, script, built, verdict, request, stops, history>>

(* Mutant: a script that came to its end decides before a stop. *)
OutcomeByExit(j) ==
    IF script[j] = "ok" THEN "success" ELSE IF stop THEN "stopped" ELSE "failed"

(* Mutant: the return code is not looked at.                    *)
OutcomeUnlessStopped(j) == IF stop THEN "stopped" ELSE "success"

(* What the thread makes of the stop that was asked for and the return code. *)
Outcome(j) == IF stop THEN "stopped" ELSE IF script[j] = "ok" THEN "success" ELSE "failed"

(* Mutant: only a registered process is taken back.             *)
JobEndsRegistered(j) ==
    /\ ~Alive(j) /\ running = j
    /\ ThreadStep(j, "read", "report")
    /\ verdict' = [verdict EXCEPT ![j] = Outcome(j)]
    /\ stop' = FALSE
    /\ running' = Nobody
    /\ UNCHANGED <<code, docker, file, script, built, request, stops, history>>

(* Its output has ended and so has the script (an output that cannot be     *)
(* logged is left out): the finally clause takes the stop and the process   *)
(* from the globals, whosever they are.                                     *)
JobEnds(j) ==
    /\ ~Alive(j)
    /\ ThreadStep(j, "read", "report")
    /\ verdict' = [verdict EXCEPT ![j] = Outcome(j)]
    /\ stop' = FALSE
    /\ running' = Nobody
    /\ UNCHANGED <<code, docker, file, script, built, request, stops, history>>

(* After another git_info, the final state.                                 *)
JobReports(j) ==
    /\ ThreadStep(j, "report", "done")
    /\ file' = verdict[j]
    /\ UNCHANGED <<code, docker, process, script, built, verdict, request, stops, history>>

(* The sidecar's container is restarted: its threads and scripts end.  main *)
(* leaves the status as it reads it.                                        *)
Crash ==
    /\ crashes < MaxCrashes
    /\ crashes' = crashes + 1
    /\ thread' = [j \in Job |-> IF Unfinished(j) THEN "lost" ELSE thread[j]]
    /\ script' = [j \in Job |-> IF Alive(j) THEN "failed" ELSE script[j]]
    /\ running' = Nobody /\ stop' = FALSE
    /\ request' = [s \in Slot |-> "idle"]
    /\ doomed' = {}
    /\ UNCHANGED <<code, docker, file, built, verdict, asked, overlap>>

-----------------------------------------------------------------------------
(* scripts/update.sh *)

ScriptStep(j, from, to) == script[j] = from /\ script' = [script EXCEPT ![j] = to]
aside == <<process, file, thread, verdict, request, stops, history>>

(* Docker, git and the checkout are as they must be and backups are made;   *)
(* then git fetch, git merge --ff-only; a new update.sh goes on in the old   *)
(* one's place.                                                             *)
ScriptPulls(j) ==
    /\ ScriptStep(j, "pull", "build")
    /\ head' = remote
    /\ UNCHANGED <<remote, docker, built, aside>>

(* docker compose up -d --build: the checkout as it is now is built ...     *)
ScriptBuilds(j) ==
    /\ ScriptStep(j, "build", "tag")
    /\ built' = [built EXCEPT ![j] = head]
    /\ UNCHANGED <<code, docker, aside>>

(* ... the result becomes the image ...                                     *)
ScriptTags(j) ==
    /\ ScriptStep(j, "tag", "up")
    /\ image' = built[j]
    /\ UNCHANGED <<code, hub, built, aside>>

(* ... a container of another image is stopped ...                          *)
ScriptStopsHub(j) ==
    /\ ScriptStep(j, "up", IF hub.up /\ hub.rev = image THEN "tail" ELSE "start")
    /\ hub' = IF hub.up /\ hub.rev = image THEN hub ELSE [hub EXCEPT !.up = FALSE]
    /\ UNCHANGED <<code, image, built, aside>>

(* ... and one of the image is started.                                     *)
ScriptStartsHub(j) ==
    /\ ScriptStep(j, "start", "tail")
    /\ hub' = [up |-> TRUE, rev |-> image]
    /\ UNCHANGED <<code, image, built, aside>>

(* docker compose ps and the logs.                                          *)
ScriptEnds(j) ==
    /\ ScriptStep(j, "tail", "ok")
    /\ UNCHANGED <<code, docker, built, aside>>

(* set -e: any command that fails ends the script.                          *)
ScriptFails(j) ==
    /\ Alive(j)
    /\ script' = [script EXCEPT ![j] = "failed"]
    /\ UNCHANGED <<code, docker, built, aside>>

-----------------------------------------------------------------------------
(* The world *)

Push ==
    /\ remote < MaxRev
    /\ remote' = remote + 1
    /\ UNCHANGED <<head, docker, process, file, jobs, request, stops, history>>

Handling(s)  == StartRefused(s) \/ StartLaunched(s) \/ StartAccepted(s)
Working(j)   == \/ JobBegins(j) \/ JobSpawns(j) \/ JobRegisters(j) \/ JobEnds(j) \/ JobReports(j)
Scripting(j) == \/ ScriptPulls(j) \/ ScriptBuilds(j) \/ ScriptTags(j)
                \/ ScriptStopsHub(j) \/ ScriptStartsHub(j) \/ ScriptEnds(j) \/ ScriptFails(j)

Next ==
    \/ \E s \in Slot : StartAsked(s) \/ Handling(s)
    \/ \E j \in Job : Working(j) \/ Scripting(j) \/ Signal(j)
    \/ Check \/ ForceStop \/ NothingToStop
    \/ Crash \/ Push

Spec == Init /\ [][Next]_vars

(* Handlers and threads run on; a script's commands end, well or not.       *)
FairSpec ==
    /\ Spec
    /\ \A s \in Slot : WF_vars(Handling(s))
    /\ \A j \in Job : WF_vars(Working(j)) /\ WF_vars(Scripting(j))

-----------------------------------------------------------------------------
(* Properties *)

(* start_update answers 409 "Update already running", and the integration   *)
(* guide promises 409 for an update under way: two scripts never work on    *)
(* the checkout and the hub's container at the same time.                   *)
OneScriptAtATime == \A j, k \in Job : Alive(j) /\ Alive(k) => j = k

(* What the test is good for: as long as no start met a job in the moments  *)
(* RUNNING_PROCESS does not show (its beginning, and the end between its    *)
(* script and its finally clause), two scripts never run at once, however   *)
(* many starts, stops, checks, failures and restarts there are.             *)
StartsAreKeptApart == "hidden" \notin overlap => OneScriptAtATime

(* While the state file says success and nothing new has begun, the hub     *)
(* runs at least the revision every successful job built, whatever failed,  *)
(* was stopped or crashed in between; after a start that overlapped a job,  *)
(* were it one that had only its report to write, this is not so.           *)
SuccessIsInstalled ==
    overlap = {} /\ View = "success" /\ ~(\E j \in Job : Unfinished(j)) =>
        hub.up /\ \A j \in Job : verdict[j] = "success" => hub.rev >= built[j]

(* STOP_REQUESTED is shared by all jobs: the one that is reported stopped   *)
(* is one a stop was accepted for, and such a job is not reported otherwise, *)
(* also with jobs that follow each other closely.  A start that met a job   *)
(* RUNNING_PROCESS does not show forgets that job's stop, or lets one job's *)
(* end take another's.                                                      *)
StopHitsItsJob ==
    "hidden" \notin overlap =>
        \A j \in Job : verdict[j] # "none" => (verdict[j] = "stopped" <=> j \in asked)

(* An accepted job is reported, or lost with a restart of the sidecar.      *)
JobsAreReported == \A j \in Job : Unfinished(j) ~> thread[j] \in {"done", "lost"}
=============================================================================
