-------------------------- MODULE StorageMigration --------------------------
(***************************************************************************)
(* Moving the files of an installed app to another directory of the host   *)
(* (services/app_storage.py run, services/storage_copy.py).                *)
(*                                                                         *)
(* Five actors work on the same directories: the hub's migration thread    *)
(* (pc), the helper container that copies and removes files and outlives a  *)
(* restart of the hub (helper), the app, which writes where its containers  *)
(* are mounted, the people who use the files from elsewhere or edit the     *)
(* app's .env, and Docker, which may fail any command half way.             *)
(*                                                                         *)
(* A file's content is a version number; every write makes a new one, as   *)
(* it makes a new mtime and checksum.  owed holds the contents somebody     *)
(* wrote and nobody overwrote or deleted: what must still be somewhere.     *)
(***************************************************************************)
EXTENDS Naturals

CONSTANTS Place,        \* directories of the host, one of them the app's at first
          File,         \* names of files below them
          Medias,       \* whether a move may be one of FjordLens' media trees
          MaxClock,     \* bound on the contents ever written
          MaxMoves,     \* bound on the migrations asked for
          MaxEdits,     \* bound on edits of .env by others
          MaxMishaps    \* bound on restarts of the hub and writes of the job that fail

ASSUME MigrationAssumption ==
    /\ Place # {} /\ File # {}
    /\ Medias \subseteq BOOLEAN
    /\ MaxClock \in Nat \ {0} /\ MaxMoves \in Nat /\ MaxEdits \in Nat /\ MaxMishaps \in Nat

VARIABLES files,      \* Place -> File -> content, 0 for none
          sealed,     \* Place -> whether the transfer's manifest lies there
          clock,      \* the contents written so far
          owed,       \* history: File -> contents nobody took back
          wrote,      \* history: File -> what the app wrote last
          env,        \* the app's .env: the configured place, and the edits in it
          mount, up,  \* the app's containers: the place they have, whether they run
          job,        \* the persisted storage_job
          pc,         \* the migration thread, "none" without one
          move,       \* its arguments
          found,      \* what it read when it began: .env, and whether the app ran
          helper,     \* the helper container
          back,       \* history: a committed switch was taken back
          alarm,      \* history: a migration ended asking for help
          overlooked, \* history: edits made between a comparison of .env and its write
          moves, edits, mishaps

content == <<files, clock, owed, wrote>>
app     == <<mount, up>>
past    == <<back, alarm, overlooked>>
bounds  == <<moves, edits, mishaps>>
vars    == <<files, sealed, clock, owed, wrote, env, mount, up, job, pc, move,
             found, helper, past, moves, edits, mishaps>>

Version == 0..MaxClock
Edit    == 1..MaxEdits
Env     == [place : Place, made : SUBSET Edit]
Phase   == {"none", "checking", "copying", "activating", "cleanup", "complete", "incomplete"}
Job     == [running : BOOLEAN, phase : Phase, error : {"none", "failed", "trouble"}]
Pc      == {"none", "check", "probe", "stop", "copy", "copying", "commit", "replace", "activate",
            "clean", "cleaning", "complete", "incomplete",
            "failed", "recover", "restore", "putback", "reactivate", "trouble"}
Move    == [mode : {"copy", "move"}, src : Place, dst : Place, media : BOOLEAN]
Helper  == [task : {"none", "copy", "validate", "delete"}, todo : SUBSET File,
            record : [File -> Version], result : {"running", "ok", "error"}]

NoRecord == [f \in File |-> 0]
Idle     == [task |-> "none", todo |-> {}, record |-> NoRecord, result |-> "ok"]

TypeOK ==
    /\ files \in [Place -> [File -> Version]]
    /\ sealed \in [Place -> BOOLEAN]
    /\ clock \in Version
    /\ owed \in [File -> SUBSET Version]
    /\ wrote \in [File -> Version]
    /\ env \in Env
    /\ mount \in Place /\ up \in BOOLEAN
    /\ job \in Job
    /\ pc \in Pc
    /\ move \in Move
    /\ found \in [env : Env, ran : BOOLEAN]
    /\ helper \in Helper
    /\ back \in BOOLEAN /\ alarm \in BOOLEAN /\ overlooked \in SUBSET Edit
    /\ moves \in 0..MaxMoves /\ edits \in 0..MaxEdits /\ mishaps \in 0..MaxMishaps

(* An installed app with some files at its place; the other places are      *)
(* directories of the host, empty at first.                                *)
Init ==
    /\ \E p \in Place, F \in SUBSET File :
          /\ files = [q \in Place |-> [f \in File |-> IF q = p /\ f \in F THEN 1 ELSE 0]]
          /\ owed = [f \in File |-> IF f \in F THEN {1} ELSE {}]
          /\ wrote = [f \in File |-> IF f \in F THEN 1 ELSE 0]
          /\ env = [place |-> p, made |-> {}]
          /\ mount = p
          /\ move = [mode |-> "copy", src |-> p, dst |-> p, media |-> FALSE]
          /\ found = [env |-> [place |-> p, made |-> {}], ran |-> FALSE]
    /\ clock = 1
    /\ sealed = [p \in Place |-> FALSE]
    /\ up \in BOOLEAN
    /\ job = [running |-> FALSE, phase |-> "none", error |-> "none"]
    /\ pc = "none"
    /\ helper = Idle
    /\ back = FALSE /\ alarm = FALSE /\ overlooked = {}
    /\ moves = 0 /\ edits = 0 /\ mishaps = 0

-----------------------------------------------------------------------------
(* The app and the people around it *)

(* A new content of f at p takes the place of what was there.              *)
Put(p, f) ==
    /\ clock < MaxClock
    /\ clock' = clock + 1
    /\ files' = [files EXCEPT ![p][f] = clock + 1]
    /\ owed' = [owed EXCEPT ![f] = (@ \ {files[p][f]}) \cup {clock + 1}]

AppWrites(f) ==
    /\ up
    /\ Put(mount, f)
    /\ wrote' = [wrote EXCEPT ![f] = clock + 1]
    /\ UNCHANGED <<sealed, env, app, job, pc, move, found, helper, past, bounds>>

OtherWrites(p, f) ==
    /\ Put(p, f)
    /\ UNCHANGED <<sealed, wrote, env, app, job, pc, move, found, helper, past, bounds>>

(* The app, or somebody else, removes a file. *)
Delete(p, f) ==
    /\ files[p][f] # 0
    /\ files' = [files EXCEPT ![p][f] = 0]
    /\ owed' = [owed EXCEPT ![f] = @ \ {files[p][f]}]
    /\ UNCHANGED <<sealed, clock, wrote, env, app, job, pc, move, found, helper, past, bounds>>

(* Somebody, or another part of the hub, changes another line of the app's   *)
(* .env.  What comes after the thread's comparison is not seen by it.        *)
EditEnv ==
    /\ edits < MaxEdits
    /\ edits' = edits + 1
    /\ env' = [env EXCEPT !.made = @ \cup {edits + 1}]
    /\ overlooked' = IF pc \in {"replace", "putback"} THEN overlooked \cup {edits + 1} ELSE overlooked
    /\ UNCHANGED <<content, sealed, app, job, pc, move, found, helper, back, alarm, moves, mishaps>>

(* start_app and stop_app are refused while a storage job runs or is        *)
(* interrupted; docker compose up recreates containers whose configuration  *)
(* changed.                                                                *)
StartApp ==
    /\ ~job.running /\ ~up
    /\ up' = TRUE /\ mount' = env.place
    /\ UNCHANGED <<content, sealed, env, job, pc, move, found, helper, past, bounds>>

StopApp ==
    /\ ~job.running /\ up
    /\ up' = FALSE
    /\ UNCHANGED <<content, sealed, env, mount, job, pc, move, found, helper, past, bounds>>

-----------------------------------------------------------------------------
(* AppStorage.start, and what run reads and checks before it stops the app  *)

Goto(l) == pc' = l

Empty(p) == ~sealed[p] /\ \A f \in File : files[p][f] = 0

(* A job that runs or was interrupted refuses another one.  The place the    *)
(* dialog showed may be an old one; the thread may fail to start after the  *)
(* job was saved.                                                          *)
StartMove(mode, src, dst, media) ==
    /\ ~job.running /\ moves < MaxMoves
    /\ moves' = moves + 1
    /\ job' = [running |-> TRUE, phase |-> "checking", error |-> "none"]
    /\ move' = [mode |-> mode, src |-> src, dst |-> dst, media |-> media]
    /\ pc' \in {"check", "none"}
    /\ UNCHANGED <<content, sealed, env, app, found, helper, past, edits, mishaps>>

(* The configuration, the containers and their mounts.                      *)
Check ==
    /\ pc = "check"
    /\ found' = [env |-> env, ran |-> up]
    /\ \/ env.place = move.src /\ mount = move.src /\ move.dst # move.src /\ Goto("probe")
       \/ Goto("failed")
    /\ UNCHANGED <<content, sealed, env, app, job, move, helper, past, bounds>>

(* The helper's check of the destination, which it makes again to copy.     *)
Probe ==
    /\ pc = "probe"
    /\ \/ Empty(move.dst) /\ Goto("stop")
       \/ Goto("failed")
    /\ UNCHANGED <<content, sealed, env, app, job, move, found, helper, past, bounds>>

(* Mutant: the copy begins while the app still runs.                        *)
StopLate ==
    /\ pc = "stop"
    /\ job' = [job EXCEPT !.phase = "copying"]
    /\ Goto("copy")
    /\ UNCHANGED <<content, sealed, env, app, move, found, helper, past, bounds>>

(* docker compose stop, which may fail either way.                          *)
Stop ==
    /\ pc = "stop"
    /\ job' = [job EXCEPT !.phase = "copying"]
    /\ \/ up' = FALSE /\ Goto("copy")
       \/ up' \in {up, FALSE} /\ Goto("recover")
    /\ UNCHANGED <<content, sealed, env, mount, move, found, helper, past, bounds>>

-----------------------------------------------------------------------------
(* The copy: transfer in the helper, which the thread polls *)

(* inventory: the destination is still empty, the source has no manifest    *)
(* of an unfinished move.                                                  *)
LaunchCopy ==
    /\ pc = "copy"
    /\ \/ /\ Empty(move.dst)
          /\ move.mode = "move" => ~sealed[move.src]
          /\ helper' = [task |-> "copy", result |-> "running", record |-> NoRecord,
                        todo |-> {f \in File : files[move.src][f] # 0}]
          /\ Goto("copying")
       \/ UNCHANGED helper /\ Goto("recover")
    /\ UNCHANGED <<content, sealed, env, app, job, move, found, past, bounds>>

(* One file: copied, compared and unchanged meanwhile, and recorded as it   *)
(* was; never over an existing one.                                        *)
CopyFile(f) ==
    /\ helper.task = "copy" /\ helper.result = "running" /\ f \in helper.todo
    /\ files[move.src][f] # 0 /\ files[move.dst][f] = 0
    /\ files' = [files EXCEPT ![move.dst][f] = files[move.src][f]]
    /\ helper' = [helper EXCEPT !.todo = @ \ {f}, !.record = [@ EXCEPT ![f] = files[move.src][f]]]
    /\ UNCHANGED <<sealed, clock, owed, wrote, env, app, job, pc, move, found, past, bounds>>

(* All files are there; a move seals the copy with its manifest.            *)
CopyDone ==
    /\ helper.task = "copy" /\ helper.result = "running" /\ helper.todo = {}
    /\ sealed' = IF move.mode = "move" THEN [sealed EXCEPT ![move.dst] = TRUE] ELSE sealed
    /\ helper' = [helper EXCEPT !.result = "ok"]
    /\ UNCHANGED <<content, env, app, job, pc, move, found, past, bounds>>

(* A full disk, a file that changed or has gone, a lost container.          *)
HelperFails ==
    /\ helper.task # "none" /\ helper.result = "running"
    /\ helper' = [helper EXCEPT !.result = "error"]
    /\ UNCHANGED <<content, sealed, env, app, job, pc, move, found, past, bounds>>

(* Mutant: the poll loop has no way out for a helper that failed.           *)
AwaitCopyOk ==
    /\ pc = "copying"
    /\ helper.result = "ok" /\ Goto("commit")
    /\ helper' = [helper EXCEPT !.task = "none"]
    /\ UNCHANGED <<content, sealed, env, app, job, move, found, past, bounds>>

(* Mutant: the originals are cleaned up before the switch.                  *)
AwaitCopyCleans ==
    /\ pc = "copying"
    /\ \/ helper.result = "ok" /\ Goto(IF move.mode = "move" THEN "clean" ELSE "commit")
       \/ helper.result = "error" /\ Goto("recover")
    /\ helper' = [helper EXCEPT !.task = "none"]
    /\ UNCHANGED <<content, sealed, env, app, job, move, found, past, bounds>>

(* The helper's answer; the container is removed with it.                   *)
AwaitCopy ==
    /\ pc = "copying"
    /\ \/ helper.result = "ok" /\ Goto("commit")
       \/ helper.result = "error" /\ Goto("recover")
    /\ helper' = [helper EXCEPT !.task = "none"]
    /\ UNCHANGED <<content, sealed, env, app, job, move, found, past, bounds>>

(* A Docker call or a progress report raised instead: the container is      *)
(* removed in the middle of its work.                                      *)
AwaitRaises ==
    /\ pc \in {"copying", "cleaning"} /\ helper.result = "running"
    /\ helper' = [helper EXCEPT !.task = "none", !.result = "error"]
    /\ Goto(IF pc = "copying" THEN "recover" ELSE "incomplete")
    /\ UNCHANGED <<content, sealed, env, app, job, move, found, past, bounds>>

-----------------------------------------------------------------------------
(* The switch: .env, the containers, and what a failure takes back *)

NewEnv == [found.env EXCEPT !.place = move.dst]

(* Mutant: an edit made during the copy is overwritten unread.              *)
CompareNothing ==
    /\ pc = "commit"
    /\ \/ Goto("replace")
       \/ Goto("recover")
    /\ UNCHANGED <<content, sealed, env, app, job, move, found, helper, past, bounds>>

(* Somebody may have changed .env during the copy.                          *)
Compare ==
    /\ pc = "commit"
    /\ \/ env = found.env /\ Goto("replace")
       \/ Goto("recover")
    /\ UNCHANGED <<content, sealed, env, app, job, move, found, helper, past, bounds>>

(* After a backup, and for a media tree after Docker has read the whole      *)
(* configuration again, which may take a minute, .env is replaced.          *)
Replace ==
    /\ pc = "replace"
    /\ \/ /\ env' = NewEnv
          /\ job' = [job EXCEPT !.phase = "activating"]
          /\ Goto("activate")
       \/ UNCHANGED <<env, job>> /\ Goto("recover")
    /\ UNCHANGED <<content, sealed, app, move, found, helper, past, bounds>>

(* create --force-recreate for a media tree, up --wait for what ran.        *)
Activated ==
    /\ mount' = IF found.ran \/ move.media THEN env.place ELSE mount
    /\ up' = (up \/ found.ran)

(* Any part of it may have happened when a command fails.                   *)
HalfActivated ==
    /\ mount' \in {mount} \cup (IF found.ran \/ move.media THEN {env.place} ELSE {})
    /\ up' \in {up, FALSE} \cup (IF found.ran THEN {TRUE} ELSE {})

AfterSwitch == IF move.mode = "move" THEN "clean" ELSE "complete"

(* Mutant: a failed activation is taken for a slow one.                     *)
ActivateAnyway ==
    /\ pc = "activate"
    /\ \/ Activated /\ Goto(AfterSwitch)
       \/ HalfActivated /\ Goto(AfterSwitch)
    /\ UNCHANGED <<content, sealed, env, job, move, found, helper, past, bounds>>

(* A media tree's configuration and mounts are read back as well, one more  *)
(* way to fail after all of it.                                            *)
Activate ==
    /\ pc = "activate"
    /\ \/ Activated /\ Goto(AfterSwitch)
       \/ HalfActivated /\ Goto("restore")
    /\ UNCHANGED <<content, sealed, env, job, move, found, helper, past, bounds>>

(* A failure before the switch: an .env changed by somebody else leaves the *)
(* app stopped, to be looked at.                                           *)
Recover ==
    /\ pc = "recover"
    /\ \/ env = found.env /\ Goto("reactivate")
       \/ env # found.env /\ Goto("trouble")
    /\ UNCHANGED <<content, sealed, env, app, job, move, found, helper, past, bounds>>

(* A failure after it: the old .env again, unless it changed or cannot be   *)
(* written.                                                                *)
Restore ==
    /\ pc = "restore"
    /\ \/ env = NewEnv /\ Goto("putback")
       \/ Goto("trouble")
    /\ UNCHANGED <<content, sealed, env, app, job, move, found, helper, past, bounds>>

PutBack ==
    /\ pc = "putback"
    /\ \/ env' = found.env /\ back' = TRUE /\ Goto("reactivate")
       \/ UNCHANGED <<env, back>> /\ Goto("trouble")
    /\ UNCHANGED <<content, sealed, app, job, move, found, helper, alarm, overlooked, bounds>>

(* Mutant: the containers keep what the failed switch gave them.            *)
ReactivateStopped ==
    /\ pc = "reactivate"
    /\ \/ (IF up THEN UNCHANGED app ELSE Activated) /\ Goto("failed")
       \/ (found.ran \/ move.media) /\ HalfActivated /\ Goto("trouble")
    /\ UNCHANGED <<content, sealed, env, job, move, found, helper, past, bounds>>

Reactivate ==
    /\ pc = "reactivate"
    /\ \/ Activated /\ Goto("failed")
       \/ (found.ran \/ move.media) /\ HalfActivated /\ Goto("trouble")
    /\ UNCHANGED <<content, sealed, env, job, move, found, helper, past, bounds>>

-----------------------------------------------------------------------------
(* The cleanup of a move: the originals go, file by file *)

LaunchCleanup ==
    /\ pc = "clean"
    /\ job' = [job EXCEPT !.phase = "cleanup"]
    /\ \/ helper' = [helper EXCEPT !.task = "validate", !.result = "running"] /\ Goto("cleaning")
       \/ UNCHANGED helper /\ Goto("incomplete")
    /\ UNCHANGED <<content, sealed, env, app, move, found, past, bounds>>

Recorded(f)   == files[move.src][f] = helper.record[f]
CopyPresent(f) == files[move.dst][f] # 0

(* The whole source is as recorded, with nothing new, and every file has    *)
(* its copy, changed by the app perhaps.                                   *)
Validate ==
    /\ helper.task = "validate" /\ helper.result = "running"
    /\ sealed[move.dst]
    /\ \A f \in File : Recorded(f) /\ (helper.record[f] # 0 => CopyPresent(f))
    /\ helper' = [helper EXCEPT !.task = "delete",
                                !.todo = {f \in File : helper.record[f] # 0}]
    /\ UNCHANGED <<content, sealed, env, app, job, pc, move, found, past, bounds>>

(* Mutant: what was validated once is removed unseen.                       *)
RemoveUnseen(f) ==
    /\ helper.task = "delete" /\ helper.result = "running" /\ f \in helper.todo
    /\ files' = [files EXCEPT ![move.src][f] = 0]
    /\ helper' = [helper EXCEPT !.todo = @ \ {f}]
    /\ UNCHANGED <<sealed, clock, owed, wrote, env, app, job, pc, move, found, past, bounds>>

(* Each file is validated again before it is removed.                       *)
RemoveFile(f) ==
    /\ helper.task = "delete" /\ helper.result = "running" /\ f \in helper.todo
    /\ Recorded(f) /\ CopyPresent(f)
    /\ files' = [files EXCEPT ![move.src][f] = 0]
    /\ helper' = [helper EXCEPT !.todo = @ \ {f}]
    /\ UNCHANGED <<sealed, clock, owed, wrote, env, app, job, pc, move, found, past, bounds>>

(* Nothing new may have come to the source; then the manifest goes too.     *)
CleanupDone ==
    /\ helper.task = "delete" /\ helper.result = "running" /\ helper.todo = {}
    /\ \A f \in File : files[move.src][f] = 0
    /\ sealed' = [sealed EXCEPT ![move.dst] = FALSE]
    /\ helper' = [helper EXCEPT !.result = "ok"]
    /\ UNCHANGED <<content, env, app, job, pc, move, found, past, bounds>>

AwaitCleanup ==
    /\ pc = "cleaning"
    /\ \/ helper.result = "ok" /\ Goto("complete")
       \/ helper.result = "error" /\ Goto("incomplete")
    /\ helper' = [helper EXCEPT !.task = "none"]
    /\ UNCHANGED <<content, sealed, env, app, job, move, found, past, bounds>>

-----------------------------------------------------------------------------
(* The end of the thread, and of the hub *)

Finish ==
    /\ pc \in {"complete", "incomplete", "failed", "trouble"}
    /\ job' = [running |-> FALSE,
               phase |-> IF pc \in {"complete", "incomplete"} THEN pc ELSE job.phase,
               error |-> IF pc \in {"failed", "trouble"} THEN pc ELSE "none"]
    /\ alarm' = (alarm \/ pc = "trouble")
    /\ Goto("none")
    /\ UNCHANGED <<content, sealed, env, app, move, found, helper, back, overlooked, bounds>>

(* The job cannot be written: a copy that is complete is taken back, a move *)
(* reads as unfinished, and a thread that was to report a failure ends with *)
(* the job as it was, which reads as running or interrupted from then on.   *)
FinishUnsaved ==
    /\ mishaps < MaxMishaps
    /\ mishaps' = mishaps + 1
    /\ \/ pc = "complete" /\ Goto(IF move.mode = "move" THEN "incomplete" ELSE "restore")
       \/ pc \in {"incomplete", "failed", "trouble"} /\ Goto("none")
    /\ UNCHANGED <<content, sealed, env, app, job, move, found, helper, past, moves, edits>>

(* The thread ends with the hub, the helper's container does not.           *)
Restart ==
    /\ mishaps < MaxMishaps /\ pc # "none"
    /\ mishaps' = mishaps + 1
    /\ Goto("none")
    /\ UNCHANGED <<content, sealed, env, app, job, move, found, helper, past, moves, edits>>

Thread == \/ Check \/ Probe \/ Stop \/ LaunchCopy \/ AwaitCopy \/ Compare \/ Replace
          \/ Activate \/ Recover \/ Restore \/ PutBack \/ Reactivate \/ LaunchCleanup \/ AwaitCleanup \/ Finish
Helping == \/ CopyDone \/ Validate \/ CleanupDone \/ HelperFails
           \/ \E f \in File : CopyFile(f) \/ RemoveFile(f)
People == \/ EditEnv \/ StartApp \/ StopApp
          \/ \E f \in File : \/ AppWrites(f)
                            \/ \E p \in Place : OtherWrites(p, f) \/ Delete(p, f)

Next == \/ Thread \/ FinishUnsaved \/ AwaitRaises \/ Helping \/ People \/ Restart
        \/ \E mode \in {"copy", "move"}, src, dst \in Place, media \in Medias :
              StartMove(mode, src, dst, media)

Spec == Init /\ [][Next]_vars

(* The thread runs on and the helper ends, well or not.                     *)
FairSpec == Spec /\ WF_vars(Thread) /\ WF_vars(Helping)

-----------------------------------------------------------------------------
(* Properties *)

(* storage_copy.cleanup: "Remove only the unchanged originals recorded by a *)
(* verified copy."  What anybody wrote and nobody took back is at one of    *)
(* the places, whatever fails, restarts or is written in between.          *)
NothingLost == \A f \in File : \A v \in owed[f] : \E p \in Place : files[p][f] = v

(* A running app finds what it wrote last where its containers look: it is  *)
(* stopped for all of the copy and started at the copy.  Only a switch that *)
(* was taken back, or that asked for help, leaves later writes elsewhere.   *)
SeesOwnWrites ==
    up /\ ~back /\ ~alarm => \A f \in File : wrote[f] \in owed[f] => files[mount][f] = wrote[f]

(* The helper never removes files from under the app: neither from where    *)
(* it runs nor from where it will when it is started.                      *)
CleansUnusedPlace ==
    helper.task \in {"validate", "delete"} /\ helper.result = "running" =>
        env.place # move.src /\ (up => mount # move.src)

(* When the migrations are over and none asked for help, a running app has  *)
(* the place its .env names: the next start does not move its data.        *)
RunningMatchesEnv ==
    ~job.running /\ ~alarm /\ up => mount = env.place

(* run compares .env with what it read before it replaces the whole file:    *)
(* an edit by somebody else survives the switch and its recovery, unless it  *)
(* falls between a comparison and the write that follows it, up to a minute  *)
(* for a media tree.                                                       *)
EditsSurvive == 1..edits \subseteq env.made \cup overlooked

(* An original is removed only by a move that has switched; a failed one    *)
(* ("Den gamle mappe er bevaret") has left the source alone.                *)
OriginalsOutliveSwitch ==
    [][\A f \in File :
          files[move.src][f] # 0 /\ files'[move.src][f] = 0 /\ helper' # helper
          => job.phase = "cleanup" /\ env.place = move.dst]_vars

(* A thread that runs ends, whatever the helper and Docker answer, and      *)
(* leaves a job another one can follow, but for a restart or a full disk.   *)
MigrationEnds == pc # "none" ~> pc = "none" /\ (mishaps = 0 => ~job.running)
=============================================================================
