------------------------- MODULE UpdateRun_proofs -------------------------
(***************************************************************************)
(* What holds of update after update, for any services, commits, bounds and *)
(* kind of app.                                                             *)
(*                                                                         *)
(* What a finished update runs is not inductive: it comes from the images,  *)
(* and those from what the diff promised before the merge.  The invariant   *)
(* follows a service from the diff (Planned) over its image (Images) to its *)
(* container, and a rename from the capture to its end (Renaming).          *)
(***************************************************************************)
EXTENDS UpdateRun, TLAPS

Merging == run.at \in {"look", "capture", "diff", "merge"}

(* What a run has read is still so, and what it will build covers its diff. *)
Planned ==
    /\ job = "running" <=> ~At("none")
    /\ Merging => run.cur = head
    /\ run.at \in {"capture", "diff", "merge"} => run.cur <= run.rem /\ run.rem <= origin
    /\ At("merge") => Sure(run.cur, run.rem) \subseteq run.build

(* An image that nobody owes is of the checkout, or is about to be.         *)
Images ==
    \A s \in Service \ owed :
        image[s] = Content(s, head) \/ (At("build") /\ s \in run.build)

Recreates == At("complete") => box = image

(* While fjordshare exists it runs, or the run that stopped it goes on.     *)
Renaming ==
    app = "fjord3d" =>
        /\ run.stopped => run.legacy /\ run.at \in {"up", "complete", "undo", "dead"}
        /\ run.at \in {"diff", "merge", "build", "stop", "up"} =>
              /\ run.legacy => old # "none"
              /\ ~blind /\ old # "none" => run.legacy
        /\ At("up") /\ run.legacy => run.stopped
        /\ At("stop") => run.legacy
        /\ run.at \in {"complete", "undo"} => run.stopped
        /\ At("dead") => botched
        /\ ~botched => /\ old = "running" => ~run.stopped /\ (blind \/ box[Main] = Down)
                       /\ run.stopped => old # "none"
                       /\ old = "stopped" => run.stopped

IInv == UpdateTypeOK /\ Planned /\ Images /\ Recreates /\ Renaming /\ UpdatedRunsHead

-----------------------------------------------------------------------------
(* A service that no commit touched is built the same. *)
LEMMA ContentSame ==
  ASSUME NEW s \in Service, NEW a \in 0..Commits, NEW b \in 0..Commits, a <= b,
         s \notin Changed(a, b), UpdateAssumption
  PROVE  Content(s, b) = Content(s, a)
<1>1. {c \in 1..b : s \in Touches[c]} = {c \in 1..a : s \in Touches[c]}
  <2>1. ASSUME NEW c \in 1..b, s \in Touches[c] PROVE c \in 1..a
    <3>1. c \notin (a + 1)..b
      BY <2>1 DEF Changed
    <3> QED BY <3>1, UpdateAssumption
  <2> QED BY <2>1, UpdateAssumption
<1> QED BY <1>1 DEF Content

(* What a commit touches is a service. *)
LEMMA ChangedType ==
  ASSUME NEW a \in 0..Commits, NEW b \in 0..Commits, UpdateAssumption
  PROVE  Changed(a, b) \subseteq Service
<1>1. ASSUME NEW c \in (a + 1)..b PROVE Touches[c] \subseteq Service
  BY <1>1, UpdateAssumption DEF Commit
<1> QED BY <1>1 DEF Changed

(* A run that goes on, that ends, or that fails is a run. *)
LEMMA RunType ==
  ASSUME run \in Run, UpdateAssumption
  PROVE  /\ NoRun \in Run
         /\ \A step \in Step : Goto(step) => run' \in Run
         /\ Fails => run' \in Run
<1>1. NoRun \in Run
  BY DEF NoRun, Run, Step
<1>2. ASSUME NEW step \in Step, Goto(step) PROVE run' \in Run
  BY <1>2 DEF Goto, Run
<1>3. ASSUME Fails PROVE run' \in Run
  BY <1>1, <1>2, <1>3 DEF Fails, Step
<1> QED BY <1>1, <1>2, <1>3

(* The initial state. *)
LEMMA InitIInv == UpdateInit => IInv
<1> SUFFICES ASSUME UpdateInit PROVE IInv
  OBVIOUS
<1>1. UpdateTypeOK
  <2>1. NoRun \in Run
    BY UpdateAssumption DEF NoRun, Run, Step
  <2>2. 0 \in 0..0 /\ 0 \in 0..Commits /\ 0 \in 0..UpdateMishaps
    BY UpdateAssumption
  <2> QED BY <2>1, <2>2, Zenon DEF UpdateInit, UpdateTypeOK
<1>2. Planned /\ Recreates /\ Renaming /\ UpdatedRunsHead
  BY UpdateAssumption DEF UpdateInit, NoRun, Planned, At, Recreates, Renaming, UpdatedRunsHead
<1>3. Images
  <2>1. ASSUME NEW s \in Service PROVE Content(s, 0) = {}
    <3>1. 1..0 = {}
      OBVIOUS
    <3> QED BY <3>1 DEF Content
  <2> QED BY <2>1 DEF UpdateInit, Images
<1> QED BY <1>1, <1>2, <1>3 DEF IInv


(* A command that is cut short keeps the types of what it touches. *)
LEMMA CutType ==
  ASSUME UpdateTypeOK, CutShort, UpdateAssumption
  PROVE  /\ image' \in [Service -> SUBSET Commit]
         /\ box' \in [Service -> (SUBSET Commit) \cup {Down}]
         /\ old' \in {"running", "stopped", "none"}
         /\ owed' \subseteq Service
<1>1. \A s \in Service : Content(s, head) \subseteq Commit
  BY DEF Content, UpdateTypeOK, Commit
<1>2. ASSUME NEW S \in SUBSET Service, BuildsSome(S)
      PROVE  image' \in [Service -> SUBSET Commit] /\ owed' \subseteq Service
  <2>1. image' \in [Service -> SUBSET Commit]
    BY <1>1, <1>2 DEF BuildsSome, Built, UpdateTypeOK
  <2>2. owed' \subseteq Service
    BY <1>2 DEF BuildsSome, UpdateTypeOK, Run
  <2> QED BY <2>1, <2>2
<1>3. ASSUME RecreatesSome, image' \in [Service -> SUBSET Commit]
      PROVE  box' \in [Service -> (SUBSET Commit) \cup {Down}]
  BY <1>3 DEF RecreatesSome, UpdateTypeOK
<1>4. run.build \in SUBSET Service
  BY DEF UpdateTypeOK, Run
<1>5. CASE UNCHANGED <<host, owed>>
  BY <1>5 DEF host, UpdateTypeOK
<1>6. CASE BuildsSome(Service) /\ RecreatesSome /\ UNCHANGED old
  BY <1>6, <1>2, <1>3 DEF UpdateTypeOK
<1>7. CASE BuildsSome(run.build) /\ UNCHANGED <<box, old>>
  BY <1>7, <1>2, <1>4 DEF UpdateTypeOK
<1>8. CASE old' \in {old, "stopped"} /\ UNCHANGED <<image, box, owed>>
  BY <1>8 DEF UpdateTypeOK
<1>9. CASE UNCHANGED <<image, old, owed>> /\ RecreatesSome
  BY <1>9, <1>3 DEF UpdateTypeOK
<1>10. CASE old' \in {old, "none"} /\ UNCHANGED <<image, box, owed>>
  BY <1>10 DEF UpdateTypeOK
<1>11. CASE /\ box' \in {box, [box EXCEPT ![Main] = Down]} /\ old' \in {old, StartsOld}
            /\ UNCHANGED <<image, owed>>
  <2> QED BY <1>11 DEF StartsOld, UpdateTypeOK
<1> QED BY <1>5, <1>6, <1>7, <1>8, <1>9, <1>10, <1>11 DEF CutShort

(* Whatever the command had built by then, what it had not is owed. *)
LEMMA CutImages ==
  ASSUME UpdateTypeOK, Images, CutShort, UpdateAssumption
  PROVE  \A s \in Service \ owed' : image'[s] = Content(s, head)
<1> SUFFICES ASSUME NEW s \in Service \ owed' PROVE image'[s] = Content(s, head)
  OBVIOUS
<1>1. ASSUME NEW S \in SUBSET Service, BuildsSome(S), At("build") => S = run.build
      PROVE  image'[s] = Content(s, head)
  <2>1. PICK T \in SUBSET S : image' = Built(T) /\ owed' = (owed \cup run.build) \ T
    BY <1>1 DEF BuildsSome
  <2>2. CASE s \in T
    BY <2>1, <2>2 DEF Built
  <2>3. CASE s \notin T
    BY <2>1 DEF Built, Images
  <2> QED BY <2>2, <2>3
<1>2. ASSUME UNCHANGED <<image, owed>>, ~At("build") PROVE image'[s] = Content(s, head)
  BY <1>2 DEF Images
<1>3. run.build \in SUBSET Service
  BY DEF UpdateTypeOK, Run
<1>4. Activating => ~At("build")
  BY DEF Activating, At
<1> QED BY <1>1, <1>2, <1>3, <1>4 DEF CutShort, host, At

(* Every action keeps the types; the longer cases treat apart what the step *)
(* changes of the run, the host, the repository and the history.            *)
LEMMA TypeNext ==
  ASSUME UpdateTypeOK, Planned, [UpdateNext]_updateVars
  PROVE  UpdateTypeOK'
<1>1. ASSUME RunStarts PROVE UpdateTypeOK'
  <2>1. run' \in Run
    <3>1. run' = [at |-> "look", cur |-> head, rem |-> 0, legacy |-> FALSE,
      stopped |-> FALSE, build |-> {}]
      BY <1>1 DEF RunStarts, NoRun
    <3>2. head \in 0..Commits
      BY UpdateAssumption DEF UpdateTypeOK
    <3> QED BY <3>1, <3>2, UpdateAssumption DEF Run, Step
  <2>2. upstream' \in 0..Commits /\ origin' \in 0..upstream' /\ head' \in 0..origin'
    BY <1>1 DEF RunStarts, repository, UpdateTypeOK
  <2> QED BY <1>1, <2>1, <2>2 DEF RunStarts, host, history, UpdateTypeOK
<1>2. ASSUME RunLooks PROVE UpdateTypeOK'
  <2>1. run' \in Run
    BY <1>2 DEF RunLooks, UpdateTypeOK, Run, Step
  <2> QED BY <1>2, <2>1 DEF RunLooks, host, history, UpdateTypeOK
<1>3. ASSUME RunCaptures PROVE UpdateTypeOK'
  <2>1. run' \in Run
    BY <1>3 DEF RunCaptures, UpdateTypeOK, Run, Step
  <2> QED BY <1>3, <2>1 DEF RunCaptures, repository, host, history, UpdateTypeOK
<1>4. ASSUME RunFindsNothing PROVE UpdateTypeOK'
  BY <1>4, RunType, UpdateAssumption DEF RunFindsNothing, repository, host, history,
      UpdateTypeOK
<1>5. ASSUME RunActivates PROVE UpdateTypeOK'
  <2>1. run' \in Run
    BY <1>5, RunType, UpdateAssumption DEF RunActivates, UpdateTypeOK
  <2>2. image' \in [Service -> SUBSET Commit] /\ box' \in [Service -> (SUBSET Commit) \cup {Down}]
    <3>1. \A s \in Service : Content(s, head) \subseteq Commit
      BY UpdateAssumption DEF Content, UpdateTypeOK, Commit
    <3>2. image' \in [Service -> SUBSET Commit]
      BY <1>5, <3>1 DEF RunActivates
    <3>3. box' \in [Service -> (SUBSET Commit) \cup {Down}]
      BY <1>5, <3>2 DEF RunActivates
    <3> QED BY <3>2, <3>3
  <2>3. upstream' \in 0..Commits /\ origin' \in 0..upstream' /\ head' \in 0..origin'
    BY <1>5 DEF RunActivates, repository, UpdateTypeOK
  <2> QED BY <1>5, <2>1, <2>2, <2>3 DEF RunActivates, UpdateTypeOK
<1>6. ASSUME RunDiffs PROVE UpdateTypeOK'
  <2>1. run' \in Run
    BY <1>6 DEF RunDiffs, UpdateTypeOK, Run, Step
  <2>2. upstream' \in 0..Commits /\ origin' \in 0..upstream' /\ head' \in 0..origin'
    BY <1>6 DEF RunDiffs, repository, UpdateTypeOK
  <2> QED BY <1>6, <2>1, <2>2 DEF RunDiffs, host, history, UpdateTypeOK
<1>7. ASSUME RunMerges PROVE UpdateTypeOK'
  <2>1. run' \in Run
    BY <1>7 DEF RunMerges, UpdateTypeOK, Run, Step
  <2>2. owed' \subseteq Service /\ failures' \in 0..UpdateMishaps
    <3>1. run.rem \in 0..Commits /\ origin \in 0..Commits
      BY UpdateAssumption DEF UpdateTypeOK, Run
    <3>2. run.cur \in 0..Commits /\ Slipped \subseteq Service
      BY <3>1, ChangedType, UpdateAssumption DEF Slipped, UpdateTypeOK, Run
    <3> QED BY <1>7, <3>2 DEF RunMerges, UpdateTypeOK
  <2> QED BY <1>7, <2>1, <2>2 DEF RunMerges, host, UpdateTypeOK
<1>8. ASSUME RunBuilds PROVE UpdateTypeOK'
  <2>1. run' \in Run
    <3>1. run \in Run
      BY <1>8 DEF UpdateTypeOK
    <3>2. run' = NoRun \/ \E step \in Step : Goto(step)
      BY <1>8 DEF RunBuilds, Step
    <3> QED BY <3>1, <3>2, RunType, UpdateAssumption
  <2>2. image' \in [Service -> SUBSET Commit] /\ box' \in [Service -> (SUBSET Commit) \cup {Down}]
    <3>1. \A s \in Service : Content(s, head) \subseteq Commit
      BY UpdateAssumption DEF Content, UpdateTypeOK, Commit
    <3>2. image' \in [Service -> SUBSET Commit]
      BY <1>8, <3>1 DEF RunBuilds, Built, UpdateTypeOK
    <3>3. box' \in [Service -> (SUBSET Commit) \cup {Down}]
      BY <1>8 DEF RunBuilds, UpdateTypeOK
    <3> QED BY <3>2, <3>3
  <2>3. upstream' \in 0..Commits /\ origin' \in 0..upstream' /\ head' \in 0..origin'
    BY <1>8 DEF RunBuilds, repository, UpdateTypeOK
  <2> QED BY <1>8, <2>1, <2>2, <2>3 DEF RunBuilds, UpdateTypeOK
<1>9. ASSUME RunStopsOld PROVE UpdateTypeOK'
  BY <1>9 DEF RunStopsOld, repository, history, Run, Step, UpdateTypeOK
<1>10. ASSUME RunUps PROVE UpdateTypeOK'
  BY <1>10, RunType, UpdateAssumption DEF RunUps, repository, history, UpdateTypeOK, Step
<1>11. ASSUME RunCompletes PROVE UpdateTypeOK'
  BY <1>11, RunType, UpdateAssumption DEF RunCompletes, repository, history, UpdateTypeOK
<1>12. ASSUME RunRefuses PROVE UpdateTypeOK'
  BY <1>12, RunType, UpdateAssumption DEF RunRefuses, repository, host, history, Fails,
      UpdateTypeOK
<1>13. ASSUME RunFails PROVE UpdateTypeOK'
  BY <1>13, RunType, CutType, UpdateAssumption DEF RunFails, repository, Fails, Failure,
      UpdateTypeOK
<1>14. ASSUME RunUndoes PROVE UpdateTypeOK'
  BY <1>14, RunType, UpdateAssumption DEF RunUndoes, repository, history, StartsOld,
      UpdateTypeOK
<1>15. ASSUME UndoFails PROVE UpdateTypeOK'
  BY <1>15, RunType, CutType, UpdateAssumption DEF UndoFails, repository, Failure, UpdateTypeOK,
      Step
<1>16. ASSUME CheckBegins PROVE UpdateTypeOK'
  BY <1>16 DEF CheckBegins, repository, host, history, UpdateTypeOK
<1>17. ASSUME CheckFetches PROVE UpdateTypeOK'
  <2>1. upstream' \in 0..Commits /\ origin' \in 0..upstream' /\ head' \in 0..origin'
    BY <1>17 DEF CheckFetches, UpdateTypeOK
  <2> QED BY <1>17, <2>1 DEF CheckFetches, host, history, UpdateTypeOK
<1>18. ASSUME UpstreamCommits PROVE UpdateTypeOK'
  BY <1>18, UpdateAssumption DEF UpstreamCommits, host, history, UpdateTypeOK
<1>19. ASSUME HubRestarts PROVE UpdateTypeOK'
  <2>1. run' \in Run
    BY <1>19, RunType, UpdateAssumption DEF HubRestarts, UpdateTypeOK
  <2>2. failures' \in 0..UpdateMishaps
    BY <1>19, UpdateAssumption DEF HubRestarts, Failure, UpdateTypeOK
  <2> QED BY <1>19, <2>1, <2>2, CutType, UpdateAssumption DEF HubRestarts, repository,
              UpdateTypeOK
<1>20. ASSUME UNCHANGED updateVars PROVE UpdateTypeOK'
  BY <1>20 DEF updateVars, UpdateTypeOK
<1>21. ASSUME RunSeesNothing PROVE UpdateTypeOK'
  <2>1. run' \in Run
    BY <1>21 DEF RunSeesNothing, UpdateTypeOK, Run, Step
  <2>2. failures' \in 0..UpdateMishaps
    BY <1>21, UpdateAssumption DEF RunSeesNothing, Failure, UpdateTypeOK
  <2> QED BY <1>21, <2>1, <2>2 DEF RunSeesNothing, repository, host, UpdateTypeOK
<1> QED
  BY <1>1, <1>2, <1>3, <1>4, <1>5, <1>6, <1>7, <1>8, <1>9, <1>10, <1>11, <1>12, <1>13, <1>14,
      <1>15, <1>16, <1>17, <1>18, <1>19, <1>20, <1>21 DEF UpdateNext

(* What a run has read stays so: only the merge moves the checkout, and     *)
(* origin only grows.                                                       *)
LEMMA PlannedNext ==
  ASSUME UpdateTypeOK, Planned, Renaming, [UpdateNext]_updateVars
  PROVE  Planned'
<1>1. ASSUME RunStarts PROVE Planned'
  BY <1>1 DEF RunStarts, repository, At, Planned
<1>2. ASSUME RunLooks PROVE Planned'
  BY <1>2 DEF RunLooks, At, UpdateTypeOK, Planned, Merging
<1>3. ASSUME RunCaptures PROVE Planned'
  BY <1>3 DEF RunCaptures, repository, At, Planned, Merging
<1>4. ASSUME RunFindsNothing PROVE Planned'
  BY <1>4 DEF RunFindsNothing, At, NoRun, Planned, Merging
<1>5. ASSUME RunActivates PROVE Planned'
  BY <1>5 DEF RunActivates, At, NoRun, Planned, Merging
<1>6. ASSUME RunDiffs PROVE Planned'
  BY <1>6 DEF RunDiffs, repository, At, Planned, Merging
<1>7. ASSUME RunMerges PROVE Planned'
  BY <1>7 DEF RunMerges, At, Planned, Merging
<1>8. ASSUME RunBuilds PROVE Planned'
  BY <1>8 DEF RunBuilds, At, Goto, Planned, Merging
<1>9. ASSUME RunStopsOld PROVE Planned'
  BY <1>9 DEF RunStopsOld, At, Planned, Merging
<1>10. ASSUME RunUps PROVE Planned'
  BY <1>10 DEF RunUps, At, Goto, UpdateTypeOK, Run, NoRun, Planned, Merging
<1>11. ASSUME RunCompletes PROVE Planned'
  BY <1>11 DEF RunCompletes, At, NoRun, Planned, Merging
<1>12. ASSUME RunRefuses PROVE Planned'
  BY <1>12 DEF RunRefuses, Fails, Goto, At, UpdateTypeOK, Run, NoRun, Planned, Merging
<1>13. ASSUME RunFails PROVE Planned'
  BY <1>13 DEF RunFails, Fails, Goto, At, UpdateTypeOK, Run, NoRun, Planned, Merging
<1>14. ASSUME RunUndoes PROVE Planned'
  BY <1>14 DEF RunUndoes, At, NoRun, Planned, Merging
<1>15. ASSUME UndoFails PROVE Planned'
  BY <1>15 DEF UndoFails, At, Goto, UpdateTypeOK, Run, NoRun, Planned, Merging
<1>16. ASSUME CheckBegins PROVE Planned'
  BY <1>16 DEF CheckBegins, At, Planned, Merging
<1>17. ASSUME CheckFetches PROVE Planned'
  BY <1>17 DEF CheckFetches, At, UpdateTypeOK, Run, Planned, Merging
<1>18. ASSUME UpstreamCommits PROVE Planned'
  BY <1>18 DEF UpstreamCommits, At, Planned, Merging
<1>19. ASSUME HubRestarts PROVE Planned'
  BY <1>19 DEF HubRestarts, At, NoRun, Planned, Merging
<1>20. ASSUME UNCHANGED updateVars PROVE Planned'
  BY <1>20 DEF updateVars, At, Planned, Merging
<1>21. ASSUME RunSeesNothing PROVE Planned'
  BY <1>21 DEF RunSeesNothing, repository, At, UpdateTypeOK, Run, Planned, Merging
<1> QED
  BY <1>1, <1>2, <1>3, <1>4, <1>5, <1>6, <1>7, <1>8, <1>9, <1>10, <1>11, <1>12, <1>13, <1>14,
      <1>15, <1>16, <1>17, <1>18, <1>19, <1>20, <1>21 DEF UpdateNext

(* The merge owes what the diff did not see, a build pays, and nothing else *)
(* touches an image.                                                        *)
LEMMA ImagesNext ==
  ASSUME UpdateTypeOK, Planned, Images, [UpdateNext]_updateVars
  PROVE  Images'
<1>1. ASSUME RunStarts PROVE Images'
  BY <1>1 DEF RunStarts, repository, host, history, At, Images
<1>2. ASSUME RunLooks PROVE Images'
  BY <1>2 DEF RunLooks, host, history, At, Images
<1>3. ASSUME RunCaptures PROVE Images'
  BY <1>3 DEF RunCaptures, repository, host, history, At, Images
<1>4. ASSUME RunFindsNothing PROVE Images'
  BY <1>4 DEF RunFindsNothing, repository, host, history, At, Images
<1>5. ASSUME RunActivates PROVE Images'
  BY <1>5 DEF RunActivates, repository, Images
<1>6. ASSUME RunDiffs PROVE Images'
  BY <1>6 DEF RunDiffs, repository, host, history, At, Images
<1>7. ASSUME RunMerges PROVE Images'
  <2>1. run.cur = head /\ run.cur \in 0..Commits /\ run.rem \in 0..Commits /\ origin \in 0..Commits
        /\ run.cur <= run.rem /\ run.rem <= origin /\ Sure(run.cur, run.rem) \subseteq run.build
    BY <1>7, UpdateAssumption DEF RunMerges, At, Planned, Merging, UpdateTypeOK, Run
  <2>2. /\ run'.at = "build" /\ head' = origin /\ image' = image
        /\ run.build \subseteq run'.build
    BY <1>7 DEF RunMerges, host, UpdateTypeOK, Run
  <2>3. ASSUME NEW s \in Service \ owed',
    s \notin run'.build PROVE image'[s] = Content(s, head')
    <3>1. s \notin Changed(run.cur, run.rem) /\ s \notin Changed(run.rem,
      origin) /\ s \notin owed
      BY <1>7, <2>1, <2>2, <2>3 DEF RunMerges, Slipped
    <3>2. image[s] = Content(s, head)
      BY <1>7 DEF RunMerges, At, Images
    <3>3. Content(s, run.rem) = Content(s, run.cur)
      BY <2>1, <3>1, ContentSame, UpdateAssumption
    <3>4. Content(s, origin) = Content(s, run.rem)
      BY <2>1, <3>1, ContentSame, UpdateAssumption
    <3> QED BY <2>1, <2>2, <3>2, <3>3, <3>4
  <2> QED BY <2>2, <2>3 DEF Images, At
<1>8. ASSUME RunBuilds PROVE Images'
  BY <1>8 DEF RunBuilds, repository, Built, Images
<1>9. ASSUME RunStopsOld PROVE Images'
  BY <1>9 DEF RunStopsOld, repository, history, At, Images
<1>10. ASSUME RunUps PROVE Images'
  BY <1>10 DEF RunUps, repository, history, At, Images
<1>11. ASSUME RunCompletes PROVE Images'
  BY <1>11 DEF RunCompletes, repository, history, At, Images
<1>12. ASSUME RunRefuses PROVE Images'
  BY <1>12 DEF RunRefuses, repository, host, history, At, Images
<1>13. ASSUME RunFails PROVE Images'
  BY <1>13, CutImages, UpdateAssumption DEF RunFails, repository, Images
<1>14. ASSUME RunUndoes PROVE Images'
  BY <1>14 DEF RunUndoes, repository, history, At, Images
<1>15. ASSUME UndoFails PROVE Images'
  BY <1>15, CutImages, UpdateAssumption DEF UndoFails, repository, Images
<1>16. ASSUME CheckBegins PROVE Images'
  BY <1>16 DEF CheckBegins, repository, host, history, At, Images
<1>17. ASSUME CheckFetches PROVE Images'
  BY <1>17 DEF CheckFetches, host, history, At, Images
<1>18. ASSUME UpstreamCommits PROVE Images'
  BY <1>18 DEF UpstreamCommits, host, history, At, Images
<1>19. ASSUME HubRestarts PROVE Images'
  BY <1>19, CutImages, UpdateAssumption DEF HubRestarts, repository, Images
<1>20. ASSUME UNCHANGED updateVars PROVE Images'
  BY <1>20 DEF updateVars, At, Images
<1>21. ASSUME RunSeesNothing PROVE Images'
  BY <1>21 DEF RunSeesNothing, repository, host, At, UpdateTypeOK, Run, Images
<1> QED
  BY <1>1, <1>2, <1>3, <1>4, <1>5, <1>6, <1>7, <1>8, <1>9, <1>10, <1>11, <1>12, <1>13, <1>14,
      <1>15, <1>16, <1>17, <1>18, <1>19, <1>20, <1>21 DEF UpdateNext

(* Between the recreation and the end of a rename no image or container changes. *)
LEMMA RecreatesNext ==
  ASSUME UpdateTypeOK, Planned, Recreates, [UpdateNext]_updateVars
  PROVE  Recreates'
<1>1. ASSUME RunStarts PROVE Recreates'
  BY <1>1 DEF RunStarts, At, Recreates
<1>2. ASSUME RunLooks PROVE Recreates'
  BY <1>2 DEF RunLooks, At, Recreates
<1>3. ASSUME RunCaptures PROVE Recreates'
  BY <1>3 DEF RunCaptures, At, Recreates
<1>4. ASSUME RunFindsNothing PROVE Recreates'
  BY <1>4 DEF RunFindsNothing, At, NoRun, Recreates
<1>5. ASSUME RunActivates PROVE Recreates'
  BY <1>5 DEF RunActivates, Recreates
<1>6. ASSUME RunDiffs PROVE Recreates'
  BY <1>6 DEF RunDiffs, At, Recreates
<1>7. ASSUME RunMerges PROVE Recreates'
  BY <1>7 DEF RunMerges, At, Recreates
<1>8. ASSUME RunBuilds PROVE Recreates'
  BY <1>8 DEF RunBuilds, At, Goto, Recreates
<1>9. ASSUME RunStopsOld PROVE Recreates'
  BY <1>9 DEF RunStopsOld, At, Recreates
<1>10. ASSUME RunUps PROVE Recreates'
  BY <1>10 DEF RunUps, Recreates
<1>11. ASSUME RunCompletes PROVE Recreates'
  BY <1>11 DEF RunCompletes, Recreates
<1>12. ASSUME RunRefuses PROVE Recreates'
  BY <1>12 DEF RunRefuses, Fails, Goto, At, UpdateTypeOK, Run, NoRun, Recreates
<1>13. ASSUME RunFails PROVE Recreates'
  BY <1>13 DEF RunFails, Fails, Goto, At, UpdateTypeOK, Run, NoRun, Recreates
<1>14. ASSUME RunUndoes PROVE Recreates'
  BY <1>14 DEF RunUndoes, At, NoRun, Recreates
<1>15. ASSUME UndoFails PROVE Recreates'
  BY <1>15 DEF UndoFails, At, Goto, UpdateTypeOK, Run, NoRun, Recreates
<1>16. ASSUME CheckBegins PROVE Recreates'
  BY <1>16 DEF CheckBegins, host, At, Recreates
<1>17. ASSUME CheckFetches PROVE Recreates'
  BY <1>17 DEF CheckFetches, host, At, Recreates
<1>18. ASSUME UpstreamCommits PROVE Recreates'
  BY <1>18 DEF UpstreamCommits, host, At, Recreates
<1>19. ASSUME HubRestarts PROVE Recreates'
  BY <1>19 DEF HubRestarts, At, NoRun, Recreates
<1>20. ASSUME UNCHANGED updateVars PROVE Recreates'
  BY <1>20 DEF updateVars, At, Recreates
<1>21. ASSUME RunSeesNothing PROVE Recreates'
  BY <1>21 DEF RunSeesNothing, host, At, UpdateTypeOK, Run, Recreates
<1> QED
  BY <1>1, <1>2, <1>3, <1>4, <1>5, <1>6, <1>7, <1>8, <1>9, <1>10, <1>11, <1>12, <1>13, <1>14,
      <1>15, <1>16, <1>17, <1>18, <1>19, <1>20, <1>21 DEF UpdateNext

(* Each step of a rename, and each of its failures, leaves fjordshare accounted for. *)
LEMMA RenamingNext ==
  ASSUME UpdateTypeOK, Planned, Renaming, [UpdateNext]_updateVars
  PROVE  Renaming'
<1>1. ASSUME RunStarts PROVE Renaming'
  BY <1>1 DEF RunStarts, host, history, At, NoRun, Renaming
<1>2. ASSUME RunLooks PROVE Renaming'
  BY <1>2 DEF RunLooks, host, history, At, Renaming
<1>3. ASSUME RunCaptures PROVE Renaming'
  BY <1>3 DEF RunCaptures, host, history, At, UpdateTypeOK, Run, Renaming
<1>4. ASSUME RunFindsNothing PROVE Renaming'
  BY <1>4 DEF RunFindsNothing, host, history, At, NoRun, Renaming
<1>5. ASSUME RunActivates PROVE Renaming'
  BY <1>5 DEF RunActivates, Activating, Renaming
<1>6. ASSUME RunDiffs PROVE Renaming'
  BY <1>6 DEF RunDiffs, host, history, At, Renaming
<1>7. ASSUME RunMerges PROVE Renaming'
  BY <1>7 DEF RunMerges, host, At, Renaming
<1>8. ASSUME RunBuilds PROVE Renaming'
  BY <1>8 DEF RunBuilds, At, Goto, Renaming
<1>9. ASSUME RunStopsOld PROVE Renaming'
  BY <1>9 DEF RunStopsOld, At, Renaming
<1>10. ASSUME RunUps PROVE Renaming'
  <2>1. app = "fjord3d" => (run.legacy <=> run.stopped)
    BY <1>10 DEF RunUps, At, Renaming, UpdateTypeOK, Run
  <2> QED BY <1>10, <2>1 DEF RunUps, history, At, Goto, UpdateTypeOK, Run, NoRun, Renaming
<1>11. ASSUME RunCompletes PROVE Renaming'
  BY <1>11 DEF RunCompletes, At, NoRun, Renaming
<1>12. ASSUME RunRefuses PROVE Renaming'
  BY <1>12 DEF RunRefuses, host, history, Fails, At, NoRun, Renaming
<1>13. ASSUME RunFails PROVE Renaming'
  BY <1>13 DEF RunFails, Fails, Goto, CutShort, host, At, Activating, UpdateTypeOK, Run, NoRun,
      Renaming
<1>14. ASSUME RunUndoes PROVE Renaming'
  BY <1>14, UpdateAssumption DEF RunUndoes, At, StartsOld, UpdateTypeOK, NoRun, Renaming
<1>15. ASSUME UndoFails PROVE Renaming'
  BY <1>15 DEF UndoFails, At, Goto, UpdateTypeOK, Run, NoRun, Renaming
<1>16. ASSUME CheckBegins PROVE Renaming'
  BY <1>16 DEF CheckBegins, host, history, At, Renaming
<1>17. ASSUME CheckFetches PROVE Renaming'
  BY <1>17 DEF CheckFetches, host, history, At, Renaming
<1>18. ASSUME UpstreamCommits PROVE Renaming'
  BY <1>18 DEF UpstreamCommits, host, history, At, Renaming
<1>19. ASSUME HubRestarts PROVE Renaming'
  BY <1>19 DEF HubRestarts, At, CutShort, host, Activating, NoRun, Renaming
<1>20. ASSUME UNCHANGED updateVars PROVE Renaming'
  BY <1>20 DEF updateVars, At, Renaming
<1>21. ASSUME RunSeesNothing PROVE Renaming'
  BY <1>21 DEF RunSeesNothing, host, At, UpdateTypeOK, Run, Renaming
<1> QED
  BY <1>1, <1>2, <1>3, <1>4, <1>5, <1>6, <1>7, <1>8, <1>9, <1>10, <1>11, <1>12, <1>13, <1>14,
      <1>15, <1>16, <1>17, <1>18, <1>19, <1>20, <1>21 DEF UpdateNext

(* The container is recreated from an image that nobody owes. *)
LEMMA UpdatedNext ==
  ASSUME UpdateTypeOK, Planned, Images, Recreates, UpdatedRunsHead,
    [UpdateNext]_updateVars
  PROVE  UpdatedRunsHead'
<1>1. ASSUME RunStarts PROVE UpdatedRunsHead'
  BY <1>1 DEF RunStarts, UpdatedRunsHead
<1>2. ASSUME RunLooks PROVE UpdatedRunsHead'
  BY <1>2 DEF RunLooks, host, history, UpdatedRunsHead
<1>3. ASSUME RunCaptures PROVE UpdatedRunsHead'
  BY <1>3 DEF RunCaptures, repository, host, history, UpdatedRunsHead
<1>4. ASSUME RunFindsNothing PROVE UpdatedRunsHead'
  BY <1>4 DEF RunFindsNothing, UpdatedRunsHead
<1>5. ASSUME RunActivates PROVE UpdatedRunsHead'
  BY <1>5 DEF RunActivates, UpdatedRunsHead
<1>6. ASSUME RunDiffs PROVE UpdatedRunsHead'
  BY <1>6 DEF RunDiffs, repository, host, history, UpdatedRunsHead
<1>7. ASSUME RunMerges PROVE UpdatedRunsHead'
  BY <1>7 DEF RunMerges, At, UpdatedRunsHead, Planned
<1>8. ASSUME RunBuilds PROVE UpdatedRunsHead'
  BY <1>8 DEF RunBuilds, At, UpdatedRunsHead, Planned
<1>9. ASSUME RunStopsOld PROVE UpdatedRunsHead'
  BY <1>9 DEF RunStopsOld, repository, history, UpdatedRunsHead
<1>10. ASSUME RunUps PROVE UpdatedRunsHead'
  BY <1>10 DEF RunUps, repository, history, At, UpdatedRunsHead, Images
<1>11. ASSUME RunCompletes PROVE UpdatedRunsHead'
  BY <1>11 DEF RunCompletes, repository, history, At, UpdatedRunsHead, Images, Recreates
<1>12. ASSUME RunRefuses PROVE UpdatedRunsHead'
  BY <1>12 DEF RunRefuses, repository, host, history, Fails, UpdatedRunsHead
<1>13. ASSUME RunFails PROVE UpdatedRunsHead'
  BY <1>13 DEF RunFails, Fails, At, UpdatedRunsHead, Planned
<1>14. ASSUME RunUndoes PROVE UpdatedRunsHead'
  BY <1>14 DEF RunUndoes, UpdatedRunsHead
<1>15. ASSUME UndoFails PROVE UpdatedRunsHead'
  BY <1>15 DEF UndoFails, At, UpdatedRunsHead, Planned
<1>16. ASSUME CheckBegins PROVE UpdatedRunsHead'
  BY <1>16 DEF CheckBegins, repository, host, history, UpdatedRunsHead
<1>17. ASSUME CheckFetches PROVE UpdatedRunsHead'
  BY <1>17 DEF CheckFetches, host, history, UpdatedRunsHead
<1>18. ASSUME UpstreamCommits PROVE UpdatedRunsHead'
  BY <1>18 DEF UpstreamCommits, host, history, UpdatedRunsHead
<1>19. ASSUME HubRestarts PROVE UpdatedRunsHead'
  BY <1>19 DEF HubRestarts, UpdatedRunsHead
<1>20. ASSUME UNCHANGED updateVars PROVE UpdatedRunsHead'
  BY <1>20 DEF updateVars, UpdatedRunsHead
<1>21. ASSUME RunSeesNothing PROVE UpdatedRunsHead'
  BY <1>21 DEF RunSeesNothing, repository, host, At, UpdatedRunsHead, Planned
<1> QED
  BY <1>1, <1>2, <1>3, <1>4, <1>5, <1>6, <1>7, <1>8, <1>9, <1>10, <1>11, <1>12, <1>13, <1>14,
      <1>15, <1>16, <1>17, <1>18, <1>19, <1>20, <1>21 DEF UpdateNext

(* Together. *)
LEMMA Invariance == UpdateSpec => []IInv
<1>1. UpdateInit => IInv
  BY InitIInv
<1>2. IInv /\ [UpdateNext]_updateVars => IInv'
  <2> SUFFICES ASSUME IInv, [UpdateNext]_updateVars PROVE IInv'
    OBVIOUS
  <2> USE DEF IInv
  <2> QED BY TypeNext, PlannedNext, ImagesNext, RecreatesNext, RenamingNext, UpdatedNext
<1> QED BY <1>1, <1>2, PTL DEF UpdateSpec

(* Every variable of UpdateRun keeps its type, and the checkout is never    *)
(* ahead of origin/branch, nor that of the repository.                      *)
THEOREM UpdateTypes == UpdateSpec => []UpdateTypeOK
<1>1. IInv => UpdateTypeOK
  BY DEF IInv
<1> QED BY <1>1, Invariance, PTL

(* After a finished update every container is that of its image, and every  *)
(* image that of the checkout, but for the services that an earlier         *)
(* failure, a fetch or a move left out (UpdatedRunsHead).                   *)
THEOREM UpdatedRuns == UpdateSpec => []UpdatedRunsHead
<1>1. IInv => UpdatedRunsHead
  BY DEF IInv
<1> QED BY <1>1, Invariance, PTL

(* fjordshare and fjord3d never run at once unless docker inspect failed on *)
(* the one or the other, and the rename ends with one of them or is rolled  *)
(* back (OneOfTheTwoRuns).                                                  *)
THEOREM OneOfTheTwo == UpdateSpec => []OneOfTheTwoRuns
<1>1. IInv => OneOfTheTwoRuns
  BY DEF IInv, Renaming, OneOfTheTwoRuns, At
<1> QED BY <1>1, Invariance, PTL

-----------------------------------------------------------------------------

(* As long as no command failed and the hub did not restart, only a run     *)
(* between its merge and its recreation has containers of another revision. *)
Fresh ==
    failures = 0 =>
        /\ run.at \notin {"undo", "dead"}
        /\ run.at \notin {"build", "stop", "up"} =>
              \A s \in Service \ owed : box[s] \in {Down, Content(s, head)}

(* A step without a mishap keeps that. *)
LEMMA FreshNext ==
  ASSUME UpdateTypeOK, Planned, Images, Renaming, Fresh, [UpdateNext]_updateVars
  PROVE  Fresh'
<1> SUFFICES ASSUME failures' = 0
             PROVE  /\ run'.at \notin {"undo", "dead"}
                    /\ run'.at \notin {"build", "stop", "up"} =>
                          \A s \in Service \ owed' : box'[s] \in {Down, Content(s, head')}
  BY DEF Fresh, Content
<1>1. ~Failure
  BY UpdateAssumption DEF Failure, UpdateTypeOK
<1>2. failures = 0
  BY <1>1 DEF UpdateNext, updateVars, history, RunStarts, RunLooks, RunCaptures,
    RunFindsNothing, RunActivates, RunDiffs, RunMerges, RunBuilds, RunStopsOld, RunUps,
    RunCompletes, RunRefuses, RunFails, RunUndoes, UndoFails, CheckBegins, CheckFetches,
    UpstreamCommits, HubRestarts, RunSeesNothing
<1> DEFINE Latest == \A s \in Service \ owed : box[s] \in {Down, Content(s, head)}
<1>3. run.at \notin {"undo", "dead"} /\ (run.at \notin {"build", "stop", "up"} => Latest)
  BY <1>2 DEF Fresh
<1>4. \A step \in Step : Goto(step) => run'.at = step
  BY DEF Goto, UpdateTypeOK, Run
<1> HIDE DEF Latest
(* Before the merge, and beside the run, nothing that matters moves.        *)
<1>5. ASSUME UNCHANGED <<box, head, owed>>, run'.at \notin {"undo", "dead"},
             run'.at \notin {"build", "stop", "up"} => run.at \notin {"build", "stop", "up"}
      PROVE  /\ run'.at \notin {"undo", "dead"}
             /\ run'.at \notin {"build", "stop", "up"} =>
                   \A s \in Service \ owed' : box'[s] \in {Down, Content(s, head')}
  BY <1>3, <1>5 DEF Latest
<1>6. CASE RunStarts \/ RunLooks \/ RunCaptures \/ RunFindsNothing \/ RunDiffs
  <2>1. ASSUME RunStarts PROVE run.at = "none" /\ run'.at = "look"
    BY <2>1 DEF RunStarts, At, NoRun
  <2>2. ASSUME RunLooks \/ RunCaptures \/ RunDiffs
        PROVE  run.at \in {"look", "capture", "diff"} /\ run'.at \in {"capture", "diff", "merge"}
    BY <2>2 DEF RunLooks, RunCaptures, RunDiffs, At, UpdateTypeOK, Run
  <2>3. ASSUME RunFindsNothing PROVE run.at = "diff" /\ run'.at = "none"
    BY <2>3 DEF RunFindsNothing, At, NoRun
  <2> QED BY <1>5, <1>6, <2>1, <2>2, <2>3 DEF RunStarts, RunLooks, RunCaptures,
        RunFindsNothing, RunDiffs, repository, host, history
<1>7. CASE RunActivates
  BY <1>7 DEF RunActivates, repository, NoRun
<1>8. CASE RunMerges
  BY <1>8 DEF RunMerges, UpdateTypeOK, Run
<1>9. CASE RunBuilds \/ RunStopsOld
  BY <1>4, <1>9 DEF RunBuilds, RunStopsOld, UpdateTypeOK, Run, Step
<1>10. CASE RunUps
  <2>1. \A s \in Service \ owed : box'[s] = Content(s, head)
    BY <1>10 DEF RunUps, At, Images
  <2> QED BY <1>4, <1>10, <2>1 DEF RunUps, repository, history, NoRun, Step
<1>11. CASE RunCompletes
  BY <1>5, <1>11 DEF RunCompletes, repository, history, NoRun, At
(* A refusal comes before anything is stopped.                              *)
<1>12. CASE RunRefuses
  <2>1. ~run.stopped
    BY <1>12 DEF RunRefuses, At, Renaming
  <2> QED BY <1>5, <1>12, <2>1 DEF RunRefuses, Fails, repository, host, history, NoRun, At
<1>13. CASE RunFails \/ UndoFails \/ RunSeesNothing
  BY <1>1, <1>13 DEF RunFails, UndoFails, RunSeesNothing
<1>14. CASE RunUndoes
  BY <1>3, <1>14 DEF RunUndoes, At
<1>15. CASE CheckBegins \/ CheckFetches \/ UpstreamCommits
  BY <1>3, <1>5, <1>15 DEF CheckBegins, CheckFetches, UpstreamCommits, repository, host, history
<1>16. CASE HubRestarts
  BY <1>1, <1>3, <1>16 DEF HubRestarts, At
<1>17. CASE UNCHANGED updateVars
  BY <1>3, <1>5, <1>17 DEF updateVars
<1> QED
  BY <1>6, <1>7, <1>8, <1>9, <1>10, <1>11, <1>12, <1>13, <1>14, <1>15, <1>16, <1>17
    DEF UpdateNext

(* What an update that ended well runs, but for some services. *)
LatestBut(S) ==
    job \in {"up_to_date", "updated"} =>
        \A s \in Service \ S : box[s] \in {Down, Content(s, head)}

(* UpdateRunsLatest, which the code does not keep, fails only by what a     *)
(* failed command, a restart, a fetch between diff and merge or a file's    *)
(* move that git lists by its new place left over: before the first failure *)
(* and restart, an update that ends well runs the checkout for every        *)
(* service that no such fetch or move left out, and when there is none      *)
(* UpdateRunsLatest holds.                                                  *)
THEOREM LatestWithoutMishap ==
    UpdateSpec => [](failures = 0 => LatestBut(owed) /\ (owed = {} => UpdateRunsLatest))
<1>1. UpdateInit => Fresh
  <2>1. \A s \in Service : Content(s, 0) = {}
    BY DEF Content
  <2> QED BY <2>1 DEF UpdateInit, Fresh, NoRun
<1>2. IInv /\ Fresh /\ [UpdateNext]_updateVars => Fresh'
  BY FreshNext DEF IInv
<1>3. IInv /\ Fresh => (failures = 0 => LatestBut(owed) /\ (owed = {} => UpdateRunsLatest))
  BY DEF IInv, Fresh, LatestBut, UpdateRunsLatest, Planned, At
<1> QED BY <1>1, <1>2, <1>3, Invariance, PTL DEF UpdateSpec
=============================================================================
