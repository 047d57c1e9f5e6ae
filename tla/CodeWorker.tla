----------------------------- MODULE CodeWorker -----------------------------
(***************************************************************************)
(* The FjordCode worker (fjordcode_worker/worker.py): one job of Codex at a  *)
(* time, each by a thread of its own that follows a process, a login beside  *)
(* it, clones, and one state file that outlives the container's restarts.    *)
(***************************************************************************)
EXTENDS Naturals, FiniteSets

CONSTANTS Project,       \* repositories
          CodeMishaps    \* bound on failing writes, restarts and lost folders

ASSUME CodeAssumption == CodeMishaps \in Nat

VARIABLES active,        \* who has the worker: nobody, a job that starts, or its process
          chat,          \* per project: the status in memory
          chatFile,      \* the same in fjordcode-state.json
          codex,         \* projects with a process of Codex at work, by whether it is followed
          codeJob,       \* the job's thread: its project and its next step
          repo,          \* the workspaces
          login,         \* auth_status, the login's process and the threads that follow one
          stale,         \* history: projects whose flag was read from the file after a restart
          stranded,      \* history: a job ended before its try block
          codeMishaps

codeVars == <<active, chat, chatFile, codex, codeJob, repo, login, stale, stranded, codeMishaps>>
jobVars  == <<active, codex, codeJob>>
fileVars == <<chat, chatFile>>
pastVars == <<stale, stranded>>

ChatStatus == {"idle", "running", "complete", "failed"}
NoJob      == [at |-> "none", project |-> {}]

CodeTypeOK ==
    /\ active \in {"free", "reserved", "process"}
    /\ chat \in [Project -> ChatStatus] /\ chatFile \in [Project -> ChatStatus]
    /\ codex \in [Project -> SUBSET {"followed", "alone"}]
    /\ codeJob \in [at : {"none", "begins", "launches", "reads", "waits", "frees"},
                project : {{}} \cup {{p} : p \in Project}]
    /\ repo \in [Project -> {"absent", "cloning", "part", "cloned"}]
    /\ login \in [status : {"idle", "running", "complete", "failed"}, process : BOOLEAN,
                  late : SUBSET {"complete", "failed"}, ok : BOOLEAN]
    /\ stale \subseteq Project /\ stranded \in BOOLEAN
    /\ codeMishaps \in 0..CodeMishaps

CodeInit ==
    /\ active = "free" /\ codeJob = NoJob
    /\ chat = [p \in Project |-> "idle"] /\ chatFile = chat
    /\ codex = [p \in Project |-> {}] /\ repo = [p \in Project |-> "absent"]
    /\ login = [status |-> "idle", process |-> FALSE, late |-> {}, ok |-> FALSE]
    /\ stale = {} /\ stranded = FALSE /\ codeMishaps = 0

CodeMishap == codeMishaps < CodeMishaps /\ codeMishaps' = codeMishaps + 1

JobAt(p, step) == codeJob.project = {p} /\ codeJob.at = step
JobGoes(step)  == codeJob' = [codeJob EXCEPT !.at = step]

(* repo_path: the folder is there and has a .git, which a clone that was cut  *)
(* short leaves as well as a whole one.                                     *)
IsProject(p) == repo[p] \in {"cloning", "part", "cloned"}

ChatBecomes(p, status) ==
    /\ chat' = [chat EXCEPT ![p] = status]
    /\ stale' = stale \ {p}

(* save_state: the whole state by way of a temporary file.                   *)
SavesChats == chatFile' = chat'

-----------------------------------------------------------------------------
(* Requests *)

(* chat/start: refused while the worker has a job, whatever the flag says.    *)
StartsChatFlagged(p) ==
    /\ IsProject(p) /\ login.ok /\ (active # "free" => chat[p] # "running")
    /\ active' = "reserved" /\ codeJob' = [at |-> "begins", project |-> {p}]
    /\ UNCHANGED <<fileVars, codex, repo, login, pastVars, codeMishaps>>

StartsChat(p) ==
    /\ IsProject(p) /\ login.ok /\ active = "free"
    /\ active' = "reserved" /\ codeJob' = [at |-> "begins", project |-> {p}]
    /\ UNCHANGED <<fileVars, codex, repo, login, pastVars, codeMishaps>>

(* chat/stop: the followed process is asked to end; one that has ended already *)
(* is an error that is answered and changes nothing.                        *)
StopsChat(p) ==
    /\ active = "process" /\ codeJob.project = {p} /\ "followed" \in codex[p]
    /\ codex' = [codex EXCEPT ![p] = @ \ {"followed"}]
    /\ UNCHANGED <<active, codeJob, fileVars, repo, login, pastVars, codeMishaps>>

(* projects/clone: refused if the folder is there, and it is from the start.  *)
ClonesProject(p) ==
    /\ repo[p] = "absent" /\ repo' = [repo EXCEPT ![p] = "cloning"]
    /\ UNCHANGED <<jobVars, fileVars, login, pastVars, codeMishaps>>

(* git removes what a clone that failed has written; after 30 seconds it is    *)
(* killed, and does not.                                                    *)
CloneEnds(p) ==
    /\ repo[p] = "cloning"
    /\ \/ repo' = [repo EXCEPT ![p] = "cloned"] /\ UNCHANGED codeMishaps
       \/ CodeMishap /\ \E left \in {"absent", "part"} : repo' = [repo EXCEPT ![p] = left]
    /\ UNCHANGED <<jobVars, fileVars, login, pastVars>>

-----------------------------------------------------------------------------
(* The job's thread: run_job *)

(* repo_path once more, then the flag; an error here is before the try, and    *)
(* nothing gives the worker back.                                           *)
RecordsChat(p) ==
    /\ JobAt(p, "begins") /\ IsProject(p)
    /\ ChatBecomes(p, "running") /\ SavesChats /\ JobGoes("launches")
    /\ UNCHANGED <<active, codex, repo, login, stranded, codeMishaps>>

JobIsStranded(p) ==
    /\ JobAt(p, "begins")
    /\ \/ ~IsProject(p) /\ UNCHANGED <<fileVars, stale, codeMishaps>>
       \/ /\ IsProject(p) /\ CodeMishap
          /\ ChatBecomes(p, "running") /\ UNCHANGED chatFile
    /\ stranded' = TRUE /\ codeJob' = NoJob
    /\ UNCHANGED <<active, codex, repo, login>>

LaunchesCodex(p) ==
    /\ JobAt(p, "launches")
    /\ codex' = [codex EXCEPT ![p] = @ \cup {"followed"}]
    /\ active' = "process" /\ JobGoes("reads")
    /\ UNCHANGED <<fileVars, repo, login, pastVars, codeMishaps>>

(* An event of the process: every one saves the state, the turn's end says    *)
(* that the job is complete while the process is still there.               *)
ReadsEvent(p) ==
    /\ JobAt(p, "reads") /\ "followed" \in codex[p]
    /\ ChatBecomes(p, "complete") \/ UNCHANGED <<chat, stale>>
    /\ SavesChats
    /\ UNCHANGED <<jobVars, repo, login, stranded, codeMishaps>>

CodexEnds(p) ==
    /\ \E kind \in codex[p] : codex' = [codex EXCEPT ![p] = @ \ {kind}]
    /\ UNCHANGED <<active, codeJob, fileVars, repo, login, pastVars, codeMishaps>>

(* Its output has ended, and so has it.                                     *)
ReadsResult(p) ==
    /\ JobAt(p, "reads") /\ "followed" \notin codex[p]
    /\ \/ ChatBecomes(p, "failed")
       \/ IF chat[p] = "running" THEN ChatBecomes(p, "complete") ELSE UNCHANGED <<chat, stale>>
    /\ SavesChats /\ JobGoes("frees")
    /\ UNCHANGED <<active, codex, repo, login, stranded, codeMishaps>>

(* Popen failed, or the state could not be saved for an event or the result:   *)
(* the job has failed and its process is followed by nobody.  The handler     *)
(* saves too; if that fails as well, the worker is still given back.          *)
JobFails(p) ==
    /\ codeJob.project = {p} /\ codeJob.at \in {"launches", "reads"}
    /\ CodeMishap /\ ChatBecomes(p, "failed")
    /\ SavesChats \/ UNCHANGED chatFile
    /\ codex' = [codex EXCEPT ![p] =
                   IF "followed" \in @ THEN (@ \ {"followed"}) \cup {"alone"} ELSE @]
    /\ JobGoes("frees") /\ UNCHANGED <<active, repo, login, stranded>>

JobFrees(p) ==
    /\ JobAt(p, "frees") /\ active' = "free" /\ codeJob' = NoJob
    /\ UNCHANGED <<fileVars, codex, repo, login, pastVars, codeMishaps>>

-----------------------------------------------------------------------------
(* The login: authenticate, its thread, and what codex itself says of it.     *)

LoginStarts ==
    /\ ~login.process
    /\ \/ login' = [login EXCEPT !.status = "running", !.process = TRUE]
       \/ login' = [login EXCEPT !.status = "failed"]
    /\ UNCHANGED <<jobVars, fileVars, repo, pastVars, codeMishaps>>

LoginEnds ==
    /\ login.process
    /\ \E ok \in BOOLEAN :
        login' = [login EXCEPT !.process = FALSE, !.ok = @ \/ ok,
                               !.late = @ \cup {IF ok THEN "complete" ELSE "failed"}]
    /\ UNCHANGED <<jobVars, fileVars, repo, pastVars, codeMishaps>>

(* The thread that followed it writes the result, if need be over the status  *)
(* of a login that was started in between.                                  *)
LoginIsNoted ==
    /\ \E result \in login.late :
        login' = [login EXCEPT !.status = result, !.late = @ \ {result}]
    /\ UNCHANGED <<jobVars, fileVars, repo, pastVars, codeMishaps>>

-----------------------------------------------------------------------------
(* The container restarts: its processes and threads are gone, the state is   *)
(* what the file says, a clone stays as it is.                              *)
WorkerRestarts ==
    /\ CodeMishap
    /\ active' = "free" /\ codeJob' = NoJob /\ codex' = [p \in Project |-> {}]
    /\ chat' = chatFile /\ stale' = {p \in Project : chatFile[p] = "running"}
    /\ repo' = [p \in Project |-> IF repo[p] = "cloning" THEN "part" ELSE repo[p]]
    /\ login' = [login EXCEPT !.status = "idle", !.process = FALSE, !.late = {}]
    /\ stranded' = FALSE /\ UNCHANGED chatFile

(* The workspaces are VS Code's too, where a project can be deleted.          *)
ProjectIsLost(p) ==
    /\ repo[p] \in {"part", "cloned"} /\ CodeMishap
    /\ repo' = [repo EXCEPT ![p] = "absent"]
    /\ UNCHANGED <<jobVars, fileVars, login, pastVars>>

CodeNext ==
    \/ \E p \in Project :
        \/ StartsChat(p) \/ StopsChat(p) \/ ClonesProject(p) \/ CloneEnds(p)
        \/ RecordsChat(p) \/ JobIsStranded(p) \/ LaunchesCodex(p) \/ ReadsEvent(p)
        \/ CodexEnds(p) \/ ReadsResult(p) \/ JobFails(p) \/ JobFrees(p) \/ ProjectIsLost(p)
    \/ LoginStarts \/ LoginEnds \/ LoginIsNoted \/ WorkerRestarts

CodeSpec == CodeInit /\ [][CodeNext]_codeVars

-----------------------------------------------------------------------------
(* Properties *)

(* A chat says that it runs, and the worker that it is busy, only while the   *)
(* job's thread is alive, but after a restart in the middle of it or an error *)
(* before its try block; a process is followed only by the worker's one job;  *)
(* and a login that is said to run does, or its end is about to be noted.     *)
RunningIsAlive ==
    /\ \A p \in Project :
        /\ chat[p] = "running" => codeJob.project = {p} \/ p \in stale \/ stranded
        /\ "followed" \in codex[p] => codeJob.project = {p} /\ active = "process"
    /\ active # "free" => codeJob.project # {} \/ stranded
    /\ login.status = "running" => login.process \/ login.late # {}
=============================================================================
