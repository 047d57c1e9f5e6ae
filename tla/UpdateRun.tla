------------------------------ MODULE UpdateRun ------------------------------
(***************************************************************************)
(* One app's update (UpdateManager._run_update) over its checkout, images   *)
(* and containers, run after run, with the checks that fetch beside it.     *)
(* AppOperations has what keeps two runs on one app apart.                  *)
(*                                                                         *)
(* A revision is the number of commits; what is built of a service is known *)
(* by the commits that touched its build context; commits that undo one     *)
(* another are left out.  git lists a file that was moved under its new     *)
(* place only, if it finds the two alike.  The app is plain, or fjord3d,    *)
(* whose container used to be called fjordshare and shares its data, or     *)
(* fjordlens, whose memory limits may want activation.                      *)
(***************************************************************************)
EXTENDS Naturals

CONSTANTS Service, Main,  \* services with a build context; the one named as the app
          Commits,        \* how many commits upstream makes
          Touches,        \* the services each commit changes
          Moves,          \* the services a commit only moves files away from
          Packages,       \* commits git may list with bundled packages only
          Down,           \* no running container
          UpdateMishaps   \* bound on commands that fail and restarts

Commit == 1..Commits

ASSUME UpdateAssumption ==
    /\ Main \in Service
    /\ Commits \in Nat /\ UpdateMishaps \in Nat
    /\ Touches \in [Commit -> SUBSET Service]
    /\ Moves \in [Commit -> SUBSET Service] /\ \A c \in Commit : Moves[c] \subseteq Touches[c]
    /\ Packages \subseteq Commit /\ \A c \in Packages : Touches[c] \subseteq Moves[c]

VARIABLES app,        \* which of the three apps
          upstream, origin, head,  \* the repository, origin/branch, the checkout
          image, box, \* what each service's image and running container were built of
          old,        \* the container fjordshare
          run, job,   \* the run under way, the state of the job's entry
          checking,   \* a check found no run under way and has not fetched yet
          owed,       \* history: services merged without a build that includes it
          botched,    \* history: fjordshare went down and nobody will start it
          blind,      \* history: docker inspect failed where a rename was to be found
          failures

repository == <<upstream, origin, head>>
host       == <<image, box, old>>
history    == <<owed, botched, blind>>
updateVars == <<app, upstream, origin, head, image, box, old, run, job, checking,
                owed, botched, blind, failures>>

Apps == {"plain", "fjord3d", "fjordlens"}
Step == {"none", "look", "capture", "diff", "merge", "build", "stop", "up", "complete", "undo", "dead"}
Run  == [at : Step, cur : 0..Commits, rem : 0..Commits, legacy : BOOLEAN, stopped : BOOLEAN,
         build : SUBSET Service]
NoRun == [at |-> "none", cur |-> 0, rem |-> 0, legacy |-> FALSE, stopped |-> FALSE, build |-> {}]

(* What a build of the service at a revision contains.                      *)
Content(s, r) == {c \in 1..r : s \in Touches[c]}

UpdateInit ==
    /\ app \in Apps
    /\ upstream = 0 /\ origin = 0 /\ head = 0
    /\ image = [s \in Service |-> {}]
    /\ box = [s \in Service |-> IF app = "fjord3d" THEN Down ELSE {}]
    /\ old = IF app = "fjord3d" THEN "running" ELSE "none"
    /\ run = NoRun /\ job = "none"
    /\ checking = FALSE /\ owed = {} /\ failures = 0
    /\ botched = FALSE /\ blind = FALSE

Failure == failures < UpdateMishaps /\ failures' = failures + 1

-----------------------------------------------------------------------------
(* The run *)

At(step) == run.at = step
Goto(step) == run' = [run EXCEPT !.at = step]

RunStarts ==
    /\ At("none") /\ job # "running"
    /\ run' = [NoRun EXCEPT !.at = "look", !.cur = head]
    /\ job' = "running"
    /\ UNCHANGED <<app, repository, host, checking, history, failures>>

(* _git_info with its own fetch.                                            *)
RunLooks ==
    /\ At("look")
    /\ origin' = upstream
    /\ run' = [run EXCEPT !.at = "capture", !.rem = upstream]
    /\ UNCHANGED <<app, upstream, head, host, job, checking, history, failures>>

(* _capture_legacy_3d: fjordshare exists and fjord3d does not run yet.      *)
RunCaptures ==
    /\ At("capture")
    /\ app = "fjord3d" /\ old # "none" => box[Main] = Down
    /\ run' = [run EXCEPT !.at = "diff", !.legacy = (app = "fjord3d" /\ old # "none")]
    /\ UNCHANGED <<app, repository, host, job, checking, history, failures>>

(* docker inspect fails, and whatever the reason, the container asked about *)
(* is taken not to exist: fjordshare is not renamed, or is although fjord3d *)
(* runs.                                                                    *)
RunSeesNothing ==
    /\ At("capture") /\ app = "fjord3d" /\ old # "none"
    /\ Failure
    /\ \/ run' = [run EXCEPT !.at = "diff", !.legacy = FALSE]
       \/ box[Main] # Down /\ run' = [run EXCEPT !.at = "diff", !.legacy = TRUE]
    /\ blind' = TRUE
    /\ UNCHANGED <<app, repository, host, job, checking, owed, botched>>

(* No commit, or none that git must list with anything but packages.        *)
Nothing == run.rem = run.cur \/ \A c \in (run.cur + 1)..run.rem : c \in Packages

RunFindsNothing ==
    /\ At("diff") /\ Nothing /\ ~run.legacy
    /\ job' = "up_to_date" /\ run' = NoRun
    /\ UNCHANGED <<app, repository, host, checking, history, failures>>

(* ... but FjordLens may have to activate its limits, with a full build.    *)
Activating == At("diff") /\ Nothing /\ app = "fjordlens"

RunActivates ==
    /\ Activating
    /\ image' = [s \in Service |-> Content(s, head)]
    /\ box' = image'
    /\ owed' = {}
    /\ job' = "up_to_date" /\ run' = NoRun
    /\ UNCHANGED <<app, repository, old, checking, botched, blind, failures>>

(* What git diff is sure to list between two commits, and what it may list: *)
(* a move that is found names the new place only.                           *)
Sure(from, to)    == UNION {Touches[c] \ Moves[c] : c \in (from + 1)..to}
Changed(from, to) == UNION {Touches[c] : c \in (from + 1)..to}

Something == \E c \in (run.cur + 1)..run.rem : c \notin Packages \/ Touches[c] # {}

RunDiffs ==
    /\ At("diff") /\ (Something \/ run.legacy)
    /\ \E listed \in SUBSET Service :
          /\ Sure(run.cur, run.rem) \subseteq listed /\ listed \subseteq Changed(run.cur, run.rem)
          /\ run' = [run EXCEPT !.at = "merge", !.build = listed]
    /\ UNCHANGED <<app, repository, host, job, checking, history, failures>>

(* What git may have left out of a diff, and what a fetch since may bring.  *)
Slipped == (Changed(run.cur, run.rem) \ Sure(run.cur, run.rem)) \cup Changed(run.rem, origin)

(* Mutant: the changes are looked at after the merge. *)
RunMergesFirst ==
    /\ At("merge")
    /\ head' = origin
    /\ run' = [run EXCEPT !.at = "build", !.build = Changed(head', origin)]
    /\ owed' = owed \cup Slipped
    /\ UNCHANGED <<app, upstream, origin, host, job, checking, botched, blind, failures>>

(* The merge takes origin/branch as it is by then, which a check may have   *)
(* moved on.  Without a readable compose configuration, and for a container *)
(* that is renamed, everything is built.                                    *)
RunMerges ==
    /\ At("merge")
    /\ head' = origin
    /\ \E all \in BOOLEAN :
          run' = [run EXCEPT !.at = "build",
                             !.build = IF all \/ run.legacy THEN Service ELSE @]
    /\ owed' = owed \cup (Slipped \ run'.build)
    /\ UNCHANGED <<app, upstream, origin, host, job, checking, botched, blind, failures>>

Built(S) == [s \in Service |-> IF s \in S THEN Content(s, head) ELSE image[s]]

RunBuilds ==
    /\ At("build")
    /\ image' = Built(run.build)
    /\ owed' = owed \ run.build
    /\ Goto(IF run.legacy THEN "stop" ELSE "up")
    /\ UNCHANGED <<app, repository, box, old, job, checking, botched, blind, failures>>

(* Mutant: the flag is set when the new container is up. *)
RunStopsOldUnmarked ==
    /\ At("stop")
    /\ old' = "stopped"
    /\ Goto("up")
    /\ UNCHANGED <<app, repository, image, box, job, checking, history, failures>>

RunStopsOld ==
    /\ At("stop")
    /\ old' = "stopped"
    /\ run' = [run EXCEPT !.at = "up", !.stopped = TRUE]
    /\ UNCHANGED <<app, repository, image, box, job, checking, history, failures>>

(* up -d --force-recreate                                                   *)
RunUps ==
    /\ At("up")
    /\ box' = image
    /\ IF run.legacy THEN Goto("complete") /\ UNCHANGED job
                     ELSE run' = NoRun /\ job' = "updated"
    /\ UNCHANGED <<app, repository, image, old, checking, history, failures>>

(* _complete_legacy_3d: fjord3d is healthy.                                 *)
RunCompletes ==
    /\ At("complete") /\ box[Main] # Down
    /\ old' = "none"
    /\ run' = NoRun /\ job' = "updated"
    /\ UNCHANGED <<app, repository, image, box, checking, history, failures>>

-----------------------------------------------------------------------------
(* Its except clause, for a command that fails or a check that refuses *)

Fails == IF run.stopped THEN Goto("undo") /\ UNCHANGED job
                        ELSE run' = NoRun /\ job' = "failed"

RunRefuses ==
    /\ At("capture") /\ app = "fjord3d" /\ old # "none" /\ box[Main] # Down
    /\ Fails
    /\ UNCHANGED <<app, repository, host, checking, history, failures>>

BuildsSome(S) ==
    \E T \in SUBSET S : image' = Built(T) /\ owed' = (owed \cup run.build) \ T

RecreatesSome ==
    \E new, gone \in SUBSET Service :
        box' = [s \in Service |->
                    IF s \in gone THEN Down ELSE IF s \in new THEN image'[s] ELSE box[s]]

StartsOld == IF old = "none" THEN old ELSE "running"

(* What the command of the step has done when it fails or is cut off: some  *)
(* services are built, recreated or down, a docker stop, rm or start that   *)
(* is reported as failed may have worked.                                   *)
CutShort ==
    \/ run.at \notin {"build", "stop", "up", "complete", "undo"}
       /\ UNCHANGED <<host, owed>>
    \/ Activating /\ BuildsSome(Service) /\ RecreatesSome /\ UNCHANGED old
    \/ At("build") /\ BuildsSome(run.build) /\ UNCHANGED <<box, old>>
    \/ At("stop") /\ old' \in {old, "stopped"} /\ UNCHANGED <<image, box, owed>>
    \/ At("up") /\ UNCHANGED <<image, old, owed>> /\ RecreatesSome
    \/ At("complete") /\ old' \in {old, "none"} /\ UNCHANGED <<image, box, owed>>
    \/ At("undo") /\ box' \in {box, [box EXCEPT ![Main] = Down]} /\ old' \in {old, StartsOld}
       /\ UNCHANGED <<image, owed>>

RunFails ==
    /\ run.at \notin {"none", "undo", "dead"}
    /\ Failure /\ CutShort /\ Fails
    /\ botched' = (botched \/ old' # old)
    /\ UNCHANGED <<app, repository, checking, blind>>

(* fjord3d is stopped and removed, fjordshare started; nobody looks whether *)
(* that worked, and a call that raises leaves the job as it is.             *)
RunUndoes ==
    /\ At("undo")
    /\ box' = [box EXCEPT ![Main] = Down]
    /\ old' = StartsOld
    /\ run' = NoRun /\ job' = "failed"
    /\ UNCHANGED <<app, repository, image, checking, history, failures>>

UndoFails ==
    /\ At("undo")
    /\ Failure /\ CutShort
    /\ botched' = TRUE
    /\ \/ run' = NoRun /\ job' = "failed"
       \/ Goto("dead") /\ UNCHANGED job
    /\ UNCHANGED <<app, repository, checking, blind>>

-----------------------------------------------------------------------------
(* Around it *)

CheckBegins ==
    /\ job # "running" /\ ~checking
    /\ checking' = TRUE
    /\ UNCHANGED <<app, repository, host, run, job, history, failures>>

CheckFetches ==
    /\ checking
    /\ origin' = upstream /\ checking' = FALSE
    /\ UNCHANGED <<app, upstream, head, host, run, job, history, failures>>

UpstreamCommits ==
    /\ upstream < Commits /\ upstream' = upstream + 1
    /\ UNCHANGED <<app, origin, head, host, run, job, checking, history, failures>>

(* The hub restarts, and its commands end with it.  Nothing else ends the   *)
(* run of a rollback that raised.                                           *)
HubRestarts ==
    /\ Failure \/ (At("dead") /\ UNCHANGED failures)
    /\ run' = NoRun /\ job' = "none" /\ checking' = FALSE
    /\ CutShort
    /\ botched' = (botched \/ run.stopped \/ old' # old)
    /\ UNCHANGED <<app, repository, blind>>

UpdateNext ==
    \/ RunStarts \/ RunLooks \/ RunCaptures \/ RunSeesNothing \/ RunFindsNothing \/ RunActivates
    \/ RunDiffs \/ RunMerges \/ RunBuilds \/ RunStopsOld \/ RunUps \/ RunCompletes
    \/ RunRefuses \/ RunFails \/ RunUndoes \/ UndoFails
    \/ CheckBegins \/ CheckFetches \/ UpstreamCommits \/ HubRestarts

UpdateSpec == UpdateInit /\ [][UpdateNext]_updateVars

-----------------------------------------------------------------------------
(* Properties *)

UpdateTypeOK ==
    /\ app \in Apps
    /\ upstream \in 0..Commits /\ origin \in 0..upstream /\ head \in 0..origin
    /\ image \in [Service -> SUBSET Commit]
    /\ box \in [Service -> (SUBSET Commit) \cup {Down}]
    /\ old \in {"running", "stopped", "none"}
    /\ run \in Run
    /\ job \in {"none", "running", "up_to_date", "updated", "failed"}
    /\ checking \in BOOLEAN /\ owed \subseteq Service
    /\ botched \in BOOLEAN /\ blind \in BOOLEAN
    /\ failures \in 0..UpdateMishaps

(* After an update that reports "Opdateret" every container runs the image  *)
(* there is, and the image of every service is that of the checkout,        *)
(* although only the services of the diff were built.  What the code is     *)
(* known to leave out is owed, service by service, until a build includes   *)
(* it: a service whose build failed after the merge (UpdateRunsLatest is    *)
(* about that), one that only a fetch between diff and merge brought, and   *)
(* one files moved out of while git listed their new place only.            *)
UpdatedRunsHead ==
    job = "updated" =>
        /\ box = image
        /\ \A s \in Service \ owed : image[s] = Content(s, head)

(* "Retain the old container until the new one is healthy": fjordshare and  *)
(* fjord3d never run at once on the same data, unless docker inspect failed *)
(* for the one or the other; and when a run is over, wherever it failed,    *)
(* fjordshare runs again or was removed for a healthy fjord3d; not after a  *)
(* command that worked though it was reported to have failed, and not when  *)
(* the rollback itself failed.                                              *)
OneOfTheTwoRuns ==
    app = "fjord3d" /\ ~botched =>
        /\ old = "running" /\ ~blind => box[Main] = Down
        /\ At("none") => old # "stopped"

(* "Updating pulls the latest code and re-runs compose for that app only"   *)
(* (README.md:352): when an update ends well, what runs of the app is built *)
(* of the checkout.                                                         *)
UpdateRunsLatest ==
    job \in {"up_to_date", "updated"} =>
        \A s \in Service : box[s] \in {Down, Content(s, head)}
=============================================================================
