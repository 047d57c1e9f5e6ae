---------------------------- MODULE AppOperations ----------------------------
(***************************************************************************)
(* The operations FjordHub runs on its apps and what keeps them apart.     *)
(*                                                                         *)
(* A request is one HTTP handler (or one turn of the memory loop) together *)
(* with the background thread it starts: pc is where the handler is, task  *)
(* and item where the thread is.  The hub runs as one process with many    *)
(* threads (gunicorn, one worker), so a restart ends all of them at once.  *)
(*                                                                         *)
(* Four things keep operations apart, and every action says which it uses: *)
(*   opLock    app.py _app_operation_lock, held by a POST handler from     *)
(*             before_request until teardown_request;                      *)
(*   reserved  Installer._active_installs, taken and given back per app;   *)
(*   guard     UpdateManager._reservations, the reservation of an update   *)
(*             handed from the handler to the thread that releases it;     *)
(*   row       the persisted InstallState row: "installing", and the       *)
(*             running storage job.                                        *)
(* Git and Docker commands are one step each, with every outcome they can  *)
(* have.  App ranges over the managed apps other than the hub itself.      *)
(***************************************************************************)
EXTENDS Naturals, FiniteSets

CONSTANTS App, Request,
          Nobody,       \* no request: a free lock, an app without reservation
          Kinds,        \* the kinds of request of this instance
          Renaming,     \* apps whose update still replaces a legacy container
          PoolSize,     \* workers of a batch update (two in the code)
          MaxRestarts,  \* bound on restarts of the hub
          WriteFails,   \* whether writes of the install state may fail (a full disk)
          CutWrites     \* whether a restart may cut such a write short

HandlerKinds == {"install", "update", "integration", "memory", "start", "stop",
                 "uninstall", "storage", "link"}
UpdateKinds  == {"update", "integration", "memory"}

ASSUME ConstantsAssumption ==
    /\ Nobody \notin Request
    /\ App # {} /\ Kinds # {}
    /\ Kinds \subseteq HandlerKinds \cup {"batch", "adopt"}
    /\ Renaming \subseteq App
    /\ PoolSize \in Nat \ {0}
    /\ MaxRestarts \in Nat
    /\ WriteFails \in BOOLEAN /\ CutWrites \in BOOLEAN

VARIABLES opLock, reserved, guard, batchLock,
          job,        \* UpdateManager._jobs: App -> state of the last update
          row,        \* App -> InstallState row
          key,        \* App -> whether the auth database holds its hub key
          runtime,    \* App -> what Docker has of the app
          kind, target, pc, todo,     \* per request: the handler
          task,       \* per request: its background thread
          item,       \* per request and app: the update of that app
          restarts

locks   == <<opLock, batchLock>>
apps    == <<row, key, runtime>>
handler == <<kind, target, todo>>
updates == <<guard, job, item>>
vars    == <<opLock, reserved, guard, batchLock, job, row, key, runtime,
             kind, target, pc, todo, task, item, restarts>>

-----------------------------------------------------------------------------
(* States *)

Row     == [state : {"none", "installing", "installed", "failed"},
            known : BOOLEAN,         \* install_dir is recorded
            migrating : BOOLEAN]     \* storage_job.running
NoRow   == [state |-> "none", known |-> FALSE, migrating |-> FALSE]
Shipped == [state |-> "installed", known |-> TRUE, migrating |-> FALSE]

Job     == {"none", "queued", "updating", "over"}
Runtime == {"absent", "stopped", "running"}

(* The handler holds the reservation itself at these points. *)
HolderPc    == {"reserved", "acting", "starting", "removing", "removed", "forget", "unreserve"}
Pc          == {"idle", "waiting", "locked", "admitted", "checked", "spawn", "unspawned",
                "clear", "linking", "adopt", "scan", "found", "abort", "reply"} \cup HolderPc

InstallTask == {"build", "up", "verify", "release"}
MoveTask    == {"check", "pause", "copyRunning", "copyStopped", "settle"}
Task        == {"none", "update", "batch"} \cup InstallTask \cup MoveTask

(* An update owns the reservation from "queued" until it has left "popped"; *)
(* one its batch could not start is "unrun" until the batch gives it back. *)
LiveItem    == {"queued", "unrun", "run", "apply", "ran"}
Item        == {"none", "popped", "done"} \cup LiveItem

TypeOK ==
    /\ opLock \in Request \cup {Nobody}
    /\ batchLock \in Request \cup {Nobody}
    /\ reserved \in SUBSET App
    /\ guard \in [App -> Request \cup {Nobody}]
    /\ job \in [App -> Job]
    /\ row \in [App -> Row]
    /\ key \in [App -> BOOLEAN]
    /\ runtime \in [App -> Runtime]
    /\ kind \in [Request -> Kinds]
    /\ target \in [Request -> App]
    /\ pc \in [Request -> Pc]
    /\ todo \in [Request -> SUBSET App]
    /\ task \in [Request -> Task]
    /\ item \in [Request -> [App -> Item]]
    /\ restarts \in 0..MaxRestarts

(* An app at first: never installed, installed by the hub, or brought up   *)
(* on the host without it.                                                 *)
InitialApp == {<<NoRow, FALSE, "absent">>, <<NoRow, FALSE, "running">>,
               <<Shipped, TRUE, "running">>}

Init ==
    /\ opLock = Nobody /\ batchLock = Nobody
    /\ reserved = {}
    /\ guard = [a \in App |-> Nobody]
    /\ job = [a \in App |-> "none"]
    /\ \E f \in [App -> InitialApp] :
          /\ row = [a \in App |-> f[a][1]]
          /\ key = [a \in App |-> f[a][2]]
          /\ runtime = [a \in App |-> f[a][3]]
    /\ \E k \in Kinds, a \in App : /\ kind = [r \in Request |-> k]
                                   /\ target = [r \in Request |-> a]
    /\ pc = [r \in Request |-> "idle"]
    /\ todo = [r \in Request |-> {}]
    /\ task = [r \in Request |-> "none"]
    /\ item = [r \in Request |-> [a \in App |-> "none"]]
    /\ restarts = 0

-----------------------------------------------------------------------------
(* What the code asks before it acts *)

Running(a) == job[a] \in {"queued", "updating"}       \* UpdateManager.is_running

(* docker_mgr.get_status(a) # not_installed: a failing Docker API reads as  *)
(* an error state, never as a missing container.                           *)
SeenPresent(a) == IF runtime[a] = "absent" THEN BOOLEAN ELSE {TRUE}

Goto(r, l) == pc' = [pc EXCEPT ![r] = l]

Own(a)     == reserved' = reserved \cup {a}
Disown(a)  == reserved' = reserved \ {a}

(* Mutant: the reservation is taken but not recorded for _release.          *)
ReserveForUpdateUnrecorded(r, a, j) ==
    /\ Own(a)
    /\ UNCHANGED guard
    /\ job' = [job EXCEPT ![a] = j]
    /\ item' = [item EXCEPT ![r][a] = "queued"]

(* UpdateManager._reserve and the job entry written with it, under _lock. *)
ReserveForUpdate(r, a, j) ==
    /\ Own(a)
    /\ guard' = [guard EXCEPT ![a] = r]
    /\ job' = [job EXCEPT ![a] = j]
    /\ item' = [item EXCEPT ![r][a] = "queued"]

MayReserveForUpdate(a, seen) ==
    ~Running(a) /\ a \notin reserved /\ row[a].known /\ seen

-----------------------------------------------------------------------------
(* The request: arrival, operation lock, teardown *)

Arrive(r, k, a) ==
    /\ pc[r] = "idle" /\ task[r] = "none"
    /\ kind' = [kind EXCEPT ![r] = k]
    /\ target' = [target EXCEPT ![r] = a]
    /\ Goto(r, "waiting")
    /\ UNCHANGED <<locks, reserved, updates, apps, todo, task, restarts>>

(* _guard_storage_operation, or the lock taken by the handler itself. *)
TakeOpLock(r) ==
    /\ pc[r] = "waiting" /\ kind[r] \in HandlerKinds
    /\ opLock = Nobody
    /\ opLock' = r
    /\ Goto(r, "locked")
    /\ UNCHANGED <<batchLock, reserved, updates, apps, handler, task, restarts>>

(* Mutant: the storage job is not looked at.                                *)
AdmitAll(r) ==
    /\ pc[r] = "locked"
    /\ Goto(r, "admitted")
    /\ UNCHANGED <<locks, reserved, updates, apps, handler, task, restarts>>

(* A running or an interrupted storage job refuses the request. *)
Admit(r) ==
    /\ pc[r] = "locked"
    /\ Goto(r, IF row[target[r]].migrating THEN "reply" ELSE "admitted")
    /\ UNCHANGED <<locks, reserved, updates, apps, handler, task, restarts>>

(* Mutant: the lock of an update request is never given back.               *)
TeardownKeepsLock(r) ==
    /\ pc[r] = "reply"
    /\ opLock' = IF opLock = r /\ kind[r] # "update" THEN Nobody ELSE opLock
    /\ Goto(r, "idle")
    /\ UNCHANGED <<batchLock, reserved, updates, apps, handler, task, restarts>>

Teardown(r) ==
    /\ pc[r] = "reply"
    /\ opLock' = IF opLock = r THEN Nobody ELSE opLock
    /\ Goto(r, "idle")
    /\ UNCHANGED <<batchLock, reserved, updates, apps, handler, task, restarts>>

(* The end of a handler's own reservation. *)
Unreserve(r) ==
    /\ pc[r] = "unreserve"
    /\ Disown(target[r])
    /\ Goto(r, "reply")
    /\ UNCHANGED <<locks, updates, apps, handler, task, restarts>>

-----------------------------------------------------------------------------
(* Installation: Installer.start_install in the handler, _run in the thread *)

InstallReserve(r) ==
    LET a == target[r] IN
    /\ pc[r] = "admitted" /\ kind[r] = "install"
    /\ IF a \in reserved
       THEN Goto(r, "reply") /\ UNCHANGED reserved
       ELSE Goto(r, "reserved") /\ Own(a)
    /\ UNCHANGED <<locks, updates, apps, handler, task, restarts>>

(* set_installing, before_start (a new hub key), thread started. *)
InstallLaunch(r) ==
    LET a == target[r] IN
    /\ pc[r] = "reserved"
    /\ row' = [row EXCEPT ![a] = [@ EXCEPT !.state = "installing", !.known = TRUE]]
    /\ key' = [key EXCEPT ![a] = TRUE]
    /\ task' = [task EXCEPT ![r] = "build"]
    /\ Goto(r, "reply")
    /\ UNCHANGED <<locks, reserved, updates, runtime, handler, restarts>>

(* before_start or the thread's start raised: the key may be new already. *)
InstallLaunchFails(r) ==
    LET a == target[r] IN
    /\ pc[r] = "reserved"
    /\ row' = [row EXCEPT ![a] = [@ EXCEPT !.state = "failed", !.known = TRUE]]
    /\ key' \in {key, [key EXCEPT ![a] = TRUE]}
    /\ Goto(r, "unreserve")
    /\ UNCHANGED <<locks, reserved, updates, runtime, handler, task, restarts>>

(* The except clause records the failure before it gives the reservation    *)
(* back: when the row cannot be written, it raises with the app reserved.   *)
InstallLaunchUnwritten(r) ==
    LET a == target[r] IN
    /\ pc[r] = "reserved" /\ WriteFails
    /\ row' = [row EXCEPT ![a] = [@ EXCEPT !.state = "failed", !.known = TRUE]]
    /\ key' \in {key, [key EXCEPT ![a] = TRUE]}
    /\ Goto(r, "reply")
    /\ UNCHANGED <<locks, reserved, updates, runtime, handler, task, restarts>>

(* Mutant: a failed installation returns past the release.                  *)
InstallEndsUnreleased(r, s) ==
    /\ row' = [row EXCEPT ![target[r]].state = s]
    /\ task' = [task EXCEPT ![r] = IF s = "failed" THEN "none" ELSE "release"]

InstallEnds(r, s) ==
    /\ row' = [row EXCEPT ![target[r]].state = s]
    /\ task' = [task EXCEPT ![r] = "release"]

(* When a log line cannot be written, the except clauses of _run cannot     *)
(* write theirs either: the thread ends with the row still "installing".    *)
Failure == {"failed"} \cup (IF WriteFails THEN {"installing"} ELSE {})

(* Values, checkout, override, .env.                                        *)
InstallBuild(r) ==
    /\ task[r] = "build"
    /\ \/ task' = [task EXCEPT ![r] = "up"] /\ UNCHANGED row
       \/ \E s \in Failure : InstallEnds(r, s)
    /\ UNCHANGED <<locks, reserved, updates, key, runtime, handler, pc, restarts>>

(* docker compose up -d --build; a failure leaves any part of it behind. *)
InstallUp(r) ==
    LET a == target[r] IN
    /\ task[r] = "up"
    /\ \/ /\ runtime' = [runtime EXCEPT ![a] = "running"]
          /\ task' = [task EXCEPT ![r] = "verify"]
          /\ UNCHANGED row
       \/ /\ \E s \in {runtime[a], "stopped", "running"} : runtime' = [runtime EXCEPT ![a] = s]
          /\ \E s \in Failure : InstallEnds(r, s)
    /\ UNCHANGED <<locks, reserved, updates, key, handler, pc, restarts>>

(* Mail setup and the NVENC test, then set_installed and on_success. *)
InstallVerify(r) ==
    /\ task[r] = "verify"
    /\ \E s \in {"installed"} \cup Failure : InstallEnds(r, s)
    /\ UNCHANGED <<locks, reserved, updates, key, runtime, handler, pc, restarts>>

InstallRelease(r) ==
    /\ task[r] = "release"
    /\ Disown(target[r])
    /\ task' = [task EXCEPT ![r] = "none"]
    /\ UNCHANGED <<locks, updates, apps, handler, pc, restarts>>

-----------------------------------------------------------------------------
(* One update: start_update in the handler *)

(* What the integration endpoint and the memory loop ask before start_update. *)
IntegrationAsks(a) == row[a].state # "installing"
MemoryAsks(a) == row[a].known /\ row[a].state # "installing" /\ ~Running(a)

(* The checks made before UpdateManager._lock is taken, _is_installed last.  *)
UpdateCheck(r) ==
    LET a == target[r]
        ready == /\ kind[r] = "integration" => IntegrationAsks(a)
                 /\ kind[r] = "memory" => MemoryAsks(a)
                 /\ row[a].known
    IN
    /\ pc[r] = "admitted" /\ kind[r] \in UpdateKinds
    /\ \E seen \in SeenPresent(a) : Goto(r, IF ready /\ seen THEN "checked" ELSE "reply")
    /\ UNCHANGED <<locks, reserved, updates, apps, handler, task, restarts>>

UpdateReserve(r) ==
    LET a == target[r] IN
    /\ pc[r] = "checked"
    /\ \E seen \in SeenPresent(a) :
          IF MayReserveForUpdate(a, seen)
          THEN ReserveForUpdate(r, a, "updating") /\ Goto(r, "spawn")
          ELSE UNCHANGED <<reserved, updates>> /\ Goto(r, "reply")
    /\ UNCHANGED <<locks, apps, handler, task, restarts>>

UpdateSpawn(r) ==
    /\ pc[r] = "spawn"
    /\ task' = [task EXCEPT ![r] = "update"]
    /\ item' = [item EXCEPT ![r][target[r]] = "run"]
    /\ Goto(r, "reply")
    /\ UNCHANGED <<locks, reserved, guard, job, apps, handler, restarts>>

(* The thread did not start: _release, and only then the job is over. *)
UpdateSpawnFails(r) ==
    /\ pc[r] = "spawn"
    /\ guard' = [guard EXCEPT ![target[r]] = Nobody]
    /\ item' = [item EXCEPT ![r][target[r]] = "popped"]
    /\ Goto(r, "unspawned")
    /\ UNCHANGED <<locks, reserved, job, apps, handler, task, restarts>>

UpdateUnspawned(r) ==
    /\ pc[r] = "unspawned" /\ item[r][target[r]] = "none"
    /\ job' = [job EXCEPT ![target[r]] = "over"]
    /\ Goto(r, "reply")
    /\ UNCHANGED <<locks, reserved, guard, item, apps, handler, task, restarts>>

-----------------------------------------------------------------------------
(* The update of one app: _run_update and _release in the worker thread *)

JobOver(a) == job' = [job EXCEPT ![a] = "over"]
ItemAt(r, a, s) == item' = [item EXCEPT ![r][a] = s]

(* git fetch and merge: nothing to do, a failure, or on to the containers  *)
(* (with nothing to merge too, where mail or the memory budget need it).   *)
UpdateMerge(r, a) ==
    /\ item[r][a] = "run"
    /\ \/ ItemAt(r, a, "apply") /\ UNCHANGED job
       \/ ItemAt(r, a, "ran") /\ JobOver(a)
    /\ UNCHANGED <<locks, reserved, guard, apps, handler, pc, task, restarts>>

(* docker compose build and up; a failure may leave the app stopped.        *)
UpdateApply(r, a) ==
    /\ item[r][a] = "apply"
    /\ \E s \in {"running", "stopped", runtime[a]} : runtime' = [runtime EXCEPT ![a] = s]
    /\ ItemAt(r, a, "ran")
    /\ JobOver(a)
    /\ UNCHANGED <<locks, reserved, guard, row, key, handler, pc, task, restarts>>

(* The rollback of a renaming update runs Docker in the except block; when  *)
(* that raises, only the batch worker still ends the job.                  *)
UpdateRollbackRaises(r, a) ==
    /\ item[r][a] = "apply" /\ a \in Renaming
    /\ runtime' = [runtime EXCEPT ![a] = "stopped"]
    /\ ItemAt(r, a, "ran")
    /\ IF task[r] = "batch" THEN JobOver(a) ELSE UNCHANGED job
    /\ UNCHANGED <<locks, reserved, guard, row, key, handler, pc, task, restarts>>

(* _release in two steps: the guard is popped under _lock ...              *)
UpdatePop(r, a) ==
    /\ item[r][a] = "ran"
    /\ guard' = [guard EXCEPT ![a] = Nobody]
    /\ ItemAt(r, a, "popped")
    /\ UNCHANGED <<locks, reserved, job, apps, handler, pc, task, restarts>>

(* ... and exited outside it.  A single update's thread ends here.          *)
UpdateExit(r, a) ==
    /\ item[r][a] = "popped"
    /\ Disown(a)
    /\ ItemAt(r, a, IF task[r] = "batch" THEN "done" ELSE "none")
    /\ task' = IF task[r] = "update" THEN [task EXCEPT ![r] = "none"] ELSE task
    /\ UNCHANGED <<locks, guard, job, apps, handler, pc, restarts>>

-----------------------------------------------------------------------------
(* Batch update: start_all_updates in the handler (it takes no opLock) *)

BatchBegin(r) ==
    /\ pc[r] = "waiting" /\ kind[r] = "batch"
    /\ IF batchLock = Nobody
       THEN batchLock' = r /\ Goto(r, "scan") /\ todo' = [todo EXCEPT ![r] = App]
       ELSE Goto(r, "reply") /\ UNCHANGED <<batchLock, todo>>
    /\ UNCHANGED <<opLock, reserved, updates, apps, kind, target, task, restarts>>

(* install_dir and get_status of the next app; no lock is held after it.   *)
BatchLook(r, a) ==
    /\ pc[r] = "scan" /\ a \in todo[r]
    /\ todo' = [todo EXCEPT ![r] = @ \ {a}]
    /\ \/ UNCHANGED <<pc, target>>                        \* no update, or dirty
       \/ /\ row[a].known /\ ~Running(a) /\ TRUE \in SeenPresent(a)
          /\ target' = [target EXCEPT ![r] = a]
          /\ Goto(r, "found")
    /\ UNCHANGED <<locks, reserved, updates, apps, kind, task, restarts>>

BatchReserve(r) ==
    LET a == target[r] IN
    /\ pc[r] = "found"
    /\ \E seen \in SeenPresent(a) :
          IF MayReserveForUpdate(a, seen)
          THEN ReserveForUpdate(r, a, "queued")
          ELSE UNCHANGED <<reserved, updates>>
    /\ Goto(r, "scan")
    /\ UNCHANGED <<locks, apps, handler, task, restarts>>

(* Mutant: an empty batch returns with the batch lock held.                 *)
BatchLaunchKeepsLock(r) ==
    /\ pc[r] = "scan" /\ todo[r] = {}
    /\ IF \A a \in App : item[r][a] = "none"
       THEN UNCHANGED task
       ELSE task' = [task EXCEPT ![r] = "batch"]
    /\ Goto(r, "reply")
    /\ UNCHANGED <<locks, reserved, updates, apps, handler, restarts>>

BatchLaunch(r) ==
    /\ pc[r] = "scan" /\ todo[r] = {}
    /\ IF \A a \in App : item[r][a] = "none"
       THEN batchLock' = Nobody /\ UNCHANGED task
       ELSE task' = [task EXCEPT ![r] = "batch"] /\ UNCHANGED batchLock
    /\ Goto(r, "reply")
    /\ UNCHANGED <<opLock, reserved, updates, apps, handler, restarts>>

(* A status check, a reservation or the thread's start raised.              *)
BatchRaises(r) ==
    /\ pc[r] \in {"scan", "found"}
    /\ Goto(r, "abort")
    /\ todo' = [todo EXCEPT ![r] = {}]
    /\ UNCHANGED <<locks, reserved, updates, apps, kind, target, task, restarts>>

BatchAbort(r, a) ==
    /\ pc[r] = "abort" /\ item[r][a] = "queued"
    /\ JobOver(a)
    /\ guard' = [guard EXCEPT ![a] = Nobody]
    /\ ItemAt(r, a, "popped")
    /\ UNCHANGED <<locks, reserved, apps, handler, pc, task, restarts>>

BatchAborted(r) ==
    /\ pc[r] = "abort" /\ \A a \in App : item[r][a] = "none"
    /\ batchLock' = Nobody
    /\ Goto(r, "reply")
    /\ UNCHANGED <<opLock, reserved, updates, apps, handler, task, restarts>>

-----------------------------------------------------------------------------
(* Batch update: _run_all_updates in the thread, a pool of PoolSize workers *)

BatchPick(r, a) ==
    /\ task[r] = "batch" /\ item[r][a] = "queued"
    /\ Cardinality({b \in App : item[r][b] \in {"run", "apply", "ran", "popped"}}) < PoolSize
    /\ ItemAt(r, a, "run")
    /\ job' = [job EXCEPT ![a] = "updating"]
    /\ UNCHANGED <<locks, reserved, guard, apps, handler, pc, task, restarts>>

(* pool.submit raised: what was not submitted never runs, and its job stays *)
(* "queued"; the updates already submitted still run to their end.         *)
BatchSubmitFails(r) ==
    /\ task[r] = "batch"
    /\ \E lost \in SUBSET {a \in App : item[r][a] = "queued"} :
          /\ lost # {}
          /\ item' = [item EXCEPT ![r] = [a \in App |-> IF a \in lost THEN "unrun" ELSE @[a]]]
    /\ UNCHANGED <<locks, reserved, guard, job, apps, handler, pc, task, restarts>>

(* Nothing of the batch runs any more, or will. *)
PoolIsOver(r) == task[r] = "batch" /\ \A b \in App : item[r][b] \in {"none", "done", "unrun"}

(* Mutant: _release without the expected guard.                             *)
BatchSweepAny(r, a) ==
    /\ PoolIsOver(r) /\ item[r][a] # "none"
    /\ IF guard[a] # Nobody
       THEN guard' = [guard EXCEPT ![a] = Nobody] /\ ItemAt(r, a, "popped")
       ELSE UNCHANGED guard /\ ItemAt(r, a, "none")
    /\ UNCHANGED <<locks, reserved, job, apps, handler, pc, task, restarts>>

(* After the pool: _release with the guard this batch captured, so that a   *)
(* reservation taken since by another request stays.                       *)
BatchSweep(r, a) ==
    /\ PoolIsOver(r) /\ item[r][a] # "none"
    /\ IF guard[a] = r
       THEN guard' = [guard EXCEPT ![a] = Nobody] /\ ItemAt(r, a, "popped")
       ELSE UNCHANGED guard /\ ItemAt(r, a, "none")
    /\ UNCHANGED <<locks, reserved, job, apps, handler, pc, task, restarts>>

BatchEnd(r) ==
    /\ task[r] = "batch" /\ \A a \in App : item[r][a] = "none"
    /\ batchLock' = Nobody
    /\ task' = [task EXCEPT ![r] = "none"]
    /\ UNCHANGED <<opLock, reserved, updates, apps, handler, pc, restarts>>

-----------------------------------------------------------------------------
(* Start and stop: the whole operation within the handler *)

(* Mutant: the operation does not ask for the reservation.                  *)
HandlerReserveAlways(r) ==
    /\ pc[r] = "admitted" /\ kind[r] \in {"start", "stop", "uninstall"}
    /\ Goto(r, "acting") /\ Own(target[r])
    /\ UNCHANGED <<locks, updates, apps, handler, task, restarts>>

HandlerReserve(r) ==
    /\ pc[r] = "admitted" /\ kind[r] \in {"start", "stop", "uninstall"}
    /\ IF target[r] \in reserved
       THEN Goto(r, "reply") /\ UNCHANGED reserved
       ELSE Goto(r, "acting") /\ Own(target[r])
    /\ UNCHANGED <<locks, updates, apps, handler, task, restarts>>

(* A removed app is not started again; the check precedes the command.      *)
StartCheck(r) ==
    /\ pc[r] = "acting" /\ kind[r] = "start"
    /\ \E seen \in SeenPresent(target[r]) : Goto(r, IF seen THEN "starting" ELSE "unreserve")
    /\ UNCHANGED <<locks, reserved, updates, apps, handler, task, restarts>>

(* docker compose up -d in the directory of the row or of the definition,   *)
(* or an error or a timeout.                                               *)
StartRun(r) ==
    LET a == target[r] IN
    /\ pc[r] = "starting"
    /\ \E s \in {runtime[a], "running"} : runtime' = [runtime EXCEPT ![a] = s]
    /\ Goto(r, "unreserve")
    /\ UNCHANGED <<locks, reserved, updates, row, key, handler, task, restarts>>

StopRun(r) ==
    LET a == target[r] IN
    /\ pc[r] = "acting" /\ kind[r] = "stop"
    /\ \E s \in {runtime[a], IF runtime[a] = "running" THEN "stopped" ELSE runtime[a]} :
          runtime' = [runtime EXCEPT ![a] = s]
    /\ Goto(r, "unreserve")
    /\ UNCHANGED <<locks, reserved, updates, row, key, handler, task, restarts>>

-----------------------------------------------------------------------------
(* Removal: the containers first, then the key, then the registration *)

UninstallCheck(r) ==
    /\ pc[r] = "acting" /\ kind[r] = "uninstall"
    /\ Goto(r, IF row[target[r]].migrating THEN "unreserve" ELSE "removing")
    /\ UNCHANGED <<locks, reserved, updates, apps, handler, task, restarts>>

(* Mutant: a failed removal counts as done.                                 *)
UninstallRemoveUnverified(r) ==
    LET a == target[r] IN
    /\ pc[r] = "removing"
    /\ \E s \in {runtime[a], "absent"} : runtime' = [runtime EXCEPT ![a] = s]
    /\ Goto(r, "removed")
    /\ UNCHANGED <<locks, reserved, updates, row, key, handler, task, restarts>>

(* remove_runtime: compose down and the proof that nothing is left, or an   *)
(* error at any point of it.                                               *)
UninstallRemove(r) ==
    LET a == target[r] IN
    /\ pc[r] = "removing"
    /\ \/ runtime' = [runtime EXCEPT ![a] = "absent"] /\ Goto(r, "removed")
       \/ /\ \E s \in {runtime[a], "stopped", "absent"} :
                /\ runtime[a] = "absent" => s = "absent"
                /\ runtime' = [runtime EXCEPT ![a] = s]
          /\ Goto(r, "unreserve")
    /\ UNCHANGED <<locks, reserved, updates, row, key, handler, task, restarts>>

UninstallKey(r) ==
    /\ pc[r] = "removed"
    /\ \/ key' = [key EXCEPT ![target[r]] = FALSE] /\ Goto(r, "forget")
       \/ UNCHANGED key /\ Goto(r, "unreserve")
    /\ UNCHANGED <<locks, reserved, updates, row, runtime, handler, task, restarts>>

UninstallForget(r) ==
    /\ pc[r] = "forget"
    /\ row' = [row EXCEPT ![target[r]] = NoRow]
    /\ Goto(r, "unreserve")
    /\ UNCHANGED <<locks, reserved, updates, key, runtime, handler, task, restarts>>

-----------------------------------------------------------------------------
(* Link to the hub: a new key, then the containers once more.  The handler  *)
(* asks for no reservation: an installation or an update may be at work.    *)

(* The app has no .env, or the key is saved. *)
LinkKey(r) ==
    /\ pc[r] = "admitted" /\ kind[r] = "link"
    /\ \/ UNCHANGED key /\ Goto(r, "reply")
       \/ key' = [key EXCEPT ![target[r]] = TRUE] /\ Goto(r, "linking")
    /\ UNCHANGED <<locks, reserved, updates, row, runtime, handler, task, restarts>>

(* The .env, which may fail; then docker compose up -d --force-recreate,    *)
(* with every outcome.                                                     *)
LinkUp(r) ==
    LET a == target[r] IN
    /\ pc[r] = "linking"
    /\ \E s \in {runtime[a], "stopped", "running"} : runtime' = [runtime EXCEPT ![a] = s]
    /\ Goto(r, "reply")
    /\ UNCHANGED <<locks, reserved, updates, row, key, handler, task, restarts>>

-----------------------------------------------------------------------------
(* Storage migration, as the other operations see it (StorageMigration has *)
(* its steps).  It never takes the app's reservation.                      *)

(* Mutant: only an installation refuses the migration, not an update.       *)
StorageCheckInstallOnly(r) ==
    LET a == target[r] IN
    /\ pc[r] = "admitted" /\ kind[r] = "storage"
    /\ Goto(r, IF row[a].state = "installing" THEN "reply" ELSE "clear")
    /\ UNCHANGED <<locks, reserved, updates, apps, handler, task, restarts>>

StorageCheck(r) ==
    LET a == target[r] IN
    /\ pc[r] = "admitted" /\ kind[r] = "storage"
    /\ Goto(r, IF Running(a) \/ row[a].state = "installing" THEN "reply" ELSE "clear")
    /\ UNCHANGED <<locks, reserved, updates, apps, handler, task, restarts>>

(* AppStorage.start: refused, started, or marked running with no thread.    *)
StorageStart(r) ==
    LET a == target[r] IN
    /\ pc[r] = "clear"
    /\ \/ UNCHANGED <<row, task>>
       \/ /\ ~row[a].migrating
          /\ row' = [row EXCEPT ![a].migrating = TRUE]
          /\ \E t \in {"check", "none"} : task' = [task EXCEPT ![r] = t]
    /\ Goto(r, "reply")
    /\ UNCHANGED <<locks, reserved, updates, key, runtime, handler, restarts>>

StorageChecks(r) ==
    /\ task[r] = "check"
    /\ \E t \in {"pause", "settle"} : task' = [task EXCEPT ![r] = t]
    /\ UNCHANGED <<locks, reserved, updates, apps, handler, pc, restarts>>

(* Mutant: the job is marked as over before the app is up again.            *)
StoragePauseUnmarks(r) ==
    LET a == target[r] IN
    /\ task[r] = "pause"
    /\ \E s \in {runtime[a], IF runtime[a] = "absent" THEN "absent" ELSE "stopped"} :
          runtime' = [runtime EXCEPT ![a] = s]
    /\ row' = [row EXCEPT ![a].migrating = FALSE]
    /\ task' = [task EXCEPT ![r] = IF runtime[a] = "running" THEN "copyRunning" ELSE "copyStopped"]
    /\ UNCHANGED <<locks, reserved, updates, key, handler, pc, restarts>>

(* Only an app that ran is brought up again when the copy is done, or when  *)
(* it could not be stopped.                                                *)
StoragePause(r) ==
    LET a == target[r] IN
    /\ task[r] = "pause"
    /\ \E s \in {runtime[a], IF runtime[a] = "absent" THEN "absent" ELSE "stopped"} :
          runtime' = [runtime EXCEPT ![a] = s]
    /\ task' = [task EXCEPT ![r] = IF runtime[a] = "running" THEN "copyRunning" ELSE "copyStopped"]
    /\ UNCHANGED <<locks, reserved, updates, row, key, handler, pc, restarts>>

(* The copy, then up with the new or the restored place; the containers of  *)
(* a library are recreated even when they stay stopped.                    *)
StorageActivate(r) ==
    LET a == target[r] IN
    /\ task[r] \in {"copyRunning", "copyStopped"}
    /\ \E s \in {runtime[a], "stopped", IF task[r] = "copyRunning" THEN "running" ELSE "stopped"} :
          runtime' = [runtime EXCEPT ![a] = s]
    /\ task' = [task EXCEPT ![r] = "settle"]
    /\ UNCHANGED <<locks, reserved, updates, row, key, handler, pc, restarts>>

StorageSettle(r) ==
    /\ task[r] = "settle"
    /\ row' = [row EXCEPT ![target[r]].migrating = FALSE]
    /\ task' = [task EXCEPT ![r] = "none"]
    /\ UNCHANGED <<locks, reserved, updates, key, runtime, handler, pc, restarts>>

-----------------------------------------------------------------------------
(* Adoption: a page view registers a container the hub does not know.  It   *)
(* looks at the row and at Docker, and writes the row later, with no lock.  *)
(* A Docker API that does not answer reads as a container not to adopt.    *)

AdoptLook(r) ==
    LET a == target[r] IN
    /\ pc[r] = "waiting" /\ kind[r] = "adopt"
    /\ \/ ~row[a].known /\ runtime[a] # "absent" /\ Goto(r, "adopt")
       \/ Goto(r, "reply")
    /\ UNCHANGED <<locks, reserved, updates, apps, handler, task, restarts>>

AdoptRegister(r) ==
    /\ pc[r] = "adopt"
    /\ \/ UNCHANGED row                                    \* no checkout found
       \/ row' = [row EXCEPT ![target[r]] = [@ EXCEPT !.state = "installed", !.known = TRUE]]
    /\ Goto(r, "reply")
    /\ UNCHANGED <<locks, reserved, updates, key, runtime, handler, task, restarts>>

-----------------------------------------------------------------------------
(* Restart of the hub: every thread ends, locks and reservations are gone, *)
(* the rows are read back.  InstallState._save truncates and rewrites the   *)
(* file in place, with every log line of an installation and every progress *)
(* report of a copy: a restart in the middle of that leaves a file _load    *)
(* cannot parse, and no rows; so may any write that failed before.         *)

Saving == \E r \in Request : task[r] \in {"build", "up", "copyRunning", "copyStopped"}

Restart ==
    /\ restarts < MaxRestarts
    /\ restarts' = restarts + 1
    /\ opLock' = Nobody /\ batchLock' = Nobody /\ reserved' = {}
    /\ guard' = [a \in App |-> Nobody]
    /\ job' = [a \in App |-> "none"]
    /\ pc' = [r \in Request |-> "idle"]
    /\ todo' = [r \in Request |-> {}]
    /\ task' = [r \in Request |-> "none"]
    /\ item' = [r \in Request |-> [a \in App |-> "none"]]
    /\ \/ UNCHANGED row
       \/ ((CutWrites /\ Saving) \/ WriteFails) /\ row' = [a \in App |-> NoRow]
    /\ UNCHANGED <<key, runtime, kind, target>>

-----------------------------------------------------------------------------
Handler(r) ==
    \/ TakeOpLock(r) \/ Admit(r) \/ Teardown(r) \/ Unreserve(r)
    \/ InstallReserve(r) \/ InstallLaunch(r) \/ InstallLaunchFails(r)
    \/ InstallLaunchUnwritten(r)
    \/ UpdateCheck(r) \/ UpdateReserve(r) \/ UpdateSpawn(r) \/ UpdateSpawnFails(r)
    \/ UpdateUnspawned(r)
    \/ BatchBegin(r) \/ BatchReserve(r) \/ BatchLaunch(r) \/ BatchRaises(r) \/ BatchAborted(r)
    \/ \E a \in App : BatchLook(r, a) \/ BatchAbort(r, a)
    \/ HandlerReserve(r) \/ StartCheck(r) \/ StartRun(r) \/ StopRun(r)
    \/ UninstallCheck(r) \/ UninstallRemove(r) \/ UninstallKey(r) \/ UninstallForget(r)
    \/ LinkKey(r) \/ LinkUp(r)
    \/ StorageCheck(r) \/ StorageStart(r) \/ AdoptLook(r) \/ AdoptRegister(r)

Thread(r) ==
    \/ InstallBuild(r) \/ InstallUp(r) \/ InstallVerify(r) \/ InstallRelease(r)
    \/ StorageChecks(r) \/ StoragePause(r) \/ StorageActivate(r) \/ StorageSettle(r)
    \/ BatchSubmitFails(r) \/ BatchEnd(r)
    \/ \E a \in App :
          \/ UpdateMerge(r, a) \/ UpdateApply(r, a) \/ UpdateRollbackRaises(r, a)
          \/ UpdatePop(r, a) \/ UpdateExit(r, a)
          \/ BatchPick(r, a) \/ BatchSweep(r, a)

Next ==
    \/ \E r \in Request :
          \/ \E k \in Kinds, a \in App : Arrive(r, k, a)
          \/ Handler(r) \/ Thread(r)
    \/ Restart

Spec == Init /\ [][Next]_vars

(* Handlers and threads run on, and the git and Docker commands they wait   *)
(* for return; nothing makes a request arrive or the hub restart.          *)
FairSpec == /\ Spec
            /\ \A r \in Request : WF_vars(Handler(r)) /\ WF_vars(Thread(r))

-----------------------------------------------------------------------------
(* Properties *)

(* The request whose handler or thread has the reservation of the app.     *)
Holds(r, a) ==
    \/ target[r] = a /\ (pc[r] \in HolderPc \/ task[r] \in InstallTask)
    \/ item[r][a] \in LiveItem \cup {"popped"}

(* ... and still works on the app's containers, checkout or registration.   *)
Works(r, a) ==
    \/ target[r] = a /\ (pc[r] \in HolderPc \ {"unreserve"} \/ task[r] \in InstallTask \ {"release"})
    \/ item[r][a] \in LiveItem \ {"ran"}

Migrates(r, a) == target[r] = a /\ task[r] \in MoveTask

(* A link to the hub, which asks for no reservation, at the containers.     *)
Links(r, a) == target[r] = a /\ pc[r] = "linking"

(* README "Uninstall", and start_install, reserve_operation, _reserve: two  *)
(* operations that reserve an app never have the same one, whatever the     *)
(* order in which their handlers, threads and cleanups run.  (Migrations    *)
(* and links to the hub reserve nothing: see MigrationIsAlone, Exclusion.)  *)
OneHolder == \A a \in App : \A r, s \in Request : Holds(r, a) /\ Holds(s, a) => r = s

(* The reservation is there for as long as its operation, and no longer:    *)
(* never dropped under a running operation, never left behind by one.      *)
(* test_install_concurrency: a failed launch releases it for a retry.       *)
HolderReserves == \A a \in App : (\E r \in Request : Holds(r, a)) => a \in reserved
ReservationMatchesHolder ==
    HolderReserves /\ \A a \in reserved : \E r \in Request : Holds(r, a)

(* _reservations[app] belongs to the update that runs, so that _release     *)
(* (with or without an expected guard) ends its own reservation only.      *)
GuardMatchesUpdate == \A a \in App, r \in Request : guard[a] = r <=> item[r][a] \in LiveItem

(* README, Updates: an update or a stale start request cannot recreate an   *)
(* app during its removal, from the removal until the app is forgotten.    *)
Removing(r, a) == target[r] = a /\ kind[r] = "uninstall"
                  /\ pc[r] \in {"removed", "forget"}
NoRecreationDuringRemoval ==
    \A a \in App : (\E r \in Request : Removing(r, a)) => runtime[a] = "absent"

(* README, Updates: registration and key are forgotten only after the       *)
(* containers are gone.                                                    *)
ForgottenOnlyAfterRemoval ==
    [][\A a \in App : (row[a].known /\ ~row'[a].known) \/ (key[a] /\ ~key'[a])
                      => runtime[a] = "absent"]_vars

(* _guard_storage_operation and api_app_storage: from its first mark to its *)
(* last, and after a restart that interrupted it, a migration has the app  *)
(* to itself: nothing else works on the containers or the configuration.   *)
MigrationIsAlone ==
    \A a \in App :
        /\ row[a].migrating \/ (\E r \in Request : Migrates(r, a))
              => \A s \in Request : ~Works(s, a) /\ ~Links(s, a)
        /\ \A r, s \in Request : Migrates(r, a) /\ Migrates(s, a) => r = s

(* README, storage: normal app updates are blocked while a migration is in  *)
(* progress.                                                               *)
UpdatesBlockedDuringMigration ==
    \A a \in App, r, s \in Request : Migrates(r, a) => item[s][a] \notin {"run", "apply"}

(* README, storage: a restart in the middle of a migration blocks further   *)
(* changes of the app, because its job stays marked as running.            *)
InterruptedMigrationBlocks ==
    [][Restart => \A a \in App, r \in Request : Migrates(r, a) => row'[a].migrating]_vars

(* Every reservation ends, so that a failed or cut off operation never      *)
(* leaves an app refused with "another operation is running".              *)
ReservationsEnd == \A a \in App : a \in reserved ~> a \notin reserved

(* The lock all POST handlers share is given back.                          *)
OpLockEnds == \A r \in Request : opLock = r ~> opLock # r

(* A batch ends and the next one can begin, whatever becomes of its updates. *)
BatchEnds == batchLock # Nobody ~> batchLock = Nobody

(* The detailed operations implement AppExclusion: one owner per app, whose *)
(* containers change in the owner's hands only, but for a link to the hub,  *)
(* which may bring them up again beside a thread that installs or updates   *)
(* the app, and never removes them or comes between a start, a stop, a      *)
(* removal or a migration and its end.                                      *)
Owner(a) == IF \E r \in Request : Works(r, a) \/ Migrates(r, a)
            THEN CHOOSE r \in Request : Works(r, a) \/ Migrates(r, a) ELSE Nobody

(* The operation lock or the row keeps a link to the hub away.              *)
Sole(r, a) == Migrates(r, a) \/ (target[r] = a /\ pc[r] \in HolderPc \ {"unreserve"})

Exclusion == INSTANCE AppExclusion
                 WITH owner <- [a \in App |-> Owner(a)],
                      sole <- [a \in App |-> \E r \in Request : Sole(r, a)],
                      Linking <- "link" \in Kinds
OneOwnerPerApp == Exclusion!Spec
=============================================================================
