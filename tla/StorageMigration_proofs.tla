----------------------- MODULE StorageMigration_proofs -----------------------
(***************************************************************************)
(* What holds of StorageMigration for every set of places and files and    *)
(* any number of migrations, edits, writes and mishaps.                    *)
(***************************************************************************)
EXTENDS StorageMigration, TLAPS

(* Contents are numbered as they are written: what is known of one is not   *)
(* the number of the next, and 0 is nobody's content.                      *)
Fresh == /\ \A p \in Place, f \in File : files[p][f] <= clock
         /\ \A f \in File : /\ 0 \notin owed[f]
                            /\ wrote[f] <= clock
                            /\ helper.record[f] <= clock

(* The helper works for the thread's present step, or for a thread that     *)
(* ended with the hub; without a running job there is neither.             *)
Custody == /\ ~job.running => pc = "none" /\ helper.task = "none"
           /\ pc = "copying" => helper.task = "copy"
           /\ pc = "cleaning" => helper.task \in {"validate", "delete"}
           /\ helper.task = "copy" => pc \in {"copying", "none"}
           /\ helper.task \in {"validate", "delete"}
                 => pc \in {"cleaning", "none"} /\ job.phase = "cleanup"

(* Source and destination differ from the first check on.                   *)
Apart == pc \in {"probe", "stop", "copy", "copying", "commit", "replace", "activate", "clean", "cleaning"}
            \/ helper.task # "none" => move.dst # move.src

(* Where .env and the containers point, step by step of the thread.         *)
BeforeSwitch == {"probe", "stop", "copy", "copying", "commit", "replace", "recover"}
Switched == \/ pc \in {"activate", "restore", "putback", "clean", "cleaning"}
            \/ pc = "complete" /\ move.mode = "copy"
Quiet    == {"copy", "copying", "commit", "replace", "activate"}
Placement ==
    /\ pc \in BeforeSwitch => /\ env.place = move.src /\ mount = move.src
                              /\ found.env.place = move.src
    /\ Switched => env.place = move.dst /\ found.env.place = move.src
    /\ pc = "activate" => mount = move.src
    /\ pc = "reactivate" => /\ env.place = move.src /\ found.env.place = move.src
                            /\ (~back => mount = move.src)
    /\ pc \in Quiet => ~up
    /\ pc \in BeforeSwitch \cup {"activate", "restore", "putback", "reactivate"} \/ Switched
          => (up => found.ran)
    /\ helper.task \in {"validate", "delete"} \/ pc = "clean"
          => env.place = move.dst /\ (up => mount = move.dst)

(* Between the steps that move them, a running app is where .env says.      *)
AtEase == ~job.running \/ pc \in {"check", "probe", "stop", "failed", "complete",
                                  "incomplete", "clean", "cleaning"}
Matches == AtEase /\ ~alarm /\ up => mount = env.place

(* What the helper recorded of a file is at the destination, as long as     *)
(* somebody counts on it.                                                  *)
Copies == helper.task # "none" \/ pc \in {"commit", "replace", "activate", "clean"} =>
            \A f \in File : helper.record[f] # 0 /\ helper.record[f] \in owed[f]
                              => files[move.dst][f] = helper.record[f]

(* The app's last writes are at place p.                                    *)
Last(f, p) == wrote[f] \in owed[f] => files[p][f] = wrote[f]
Has(p) == \A f \in File : Last(f, p)

Known == {"check", "probe", "stop", "copy", "copying", "commit", "replace", "recover", "reactivate",
          "activate", "clean", "cleaning", "complete", "incomplete", "failed"}
Writes ==
    ~back /\ ~alarm =>
        /\ up => Has(mount)
        /\ ~job.running \/ pc \in Known => Has(env.place)
        /\ pc \in {"copying", "none"} /\ helper.task = "copy" /\ helper.result = "ok"
              => helper.todo = {}
        /\ pc = "copying" => \A f \in File \ helper.todo : Last(f, move.dst)
        /\ pc \in {"commit", "replace"} => Has(move.dst)
        /\ pc = "activate" => Has(move.src)

(* While the thread is about to write what it compared, .env has nothing new *)
(* but what it overlooks.                                                   *)
EditsKnown ==
    /\ EditsSurvive
    /\ pc \in {"replace", "putback"} => env.made \subseteq found.env.made \cup overlooked

IInv == TypeOK /\ Fresh /\ Custody /\ Apart /\ Placement /\ Matches /\ Copies /\ NothingLost /\ Writes

-----------------------------------------------------------------------------
(* Types *)

(* What the thread remembers are places and configurations. *)
LEMMA MoveTyped ==
    ASSUME TypeOK
    PROVE  /\ move.src \in Place /\ move.dst \in Place
           /\ found.env \in Env /\ env \in Env /\ NewEnv \in Env
  <1>1. move.src \in Place /\ move.dst \in Place
    BY DEF TypeOK, Move
  <1>2. found.env \in Env /\ env \in Env
    BY DEF TypeOK
  <1>3. NewEnv = [place |-> move.dst, made |-> found.env.made]
    BY <1>2 DEF NewEnv, Env
  <1>4. QED
    BY <1>1, <1>2, <1>3 DEF Env

(* One file of one place gets another content. *)
LEMMA FileTyped ==
    ASSUME NEW g \in [Place -> [File -> Version]], NEW p \in Place, NEW f \in File, NEW v \in Version
    PROVE  /\ [g EXCEPT ![p][f] = v] \in [Place -> [File -> Version]]
           /\ \A q \in Place, h \in File :
                 [g EXCEPT ![p][f] = v][q][h] = IF q = p /\ h = f THEN v ELSE g[q][h]
  OBVIOUS

(* An app at its place, with some files, is a state of the right type.     *)
LEMMA TypeInit == ASSUME Init PROVE TypeOK /\ EditsKnown
  <1> DEFINE Start(p, F) ==
          /\ files = [q \in Place |-> [f \in File |-> IF q = p /\ f \in F THEN 1 ELSE 0]]
          /\ owed = [f \in File |-> IF f \in F THEN {1} ELSE {}]
          /\ wrote = [f \in File |-> IF f \in F THEN 1 ELSE 0]
          /\ env = [place |-> p, made |-> {}]
          /\ mount = p
          /\ move = [mode |-> "copy", src |-> p, dst |-> p, media |-> FALSE]
          /\ found = [env |-> [place |-> p, made |-> {}], ran |-> FALSE]
  <1>1. PICK p \in Place, F \in SUBSET File : Start(p, F)
    BY DEF Init
  <1>2. clock = 1 /\ 1 \in Version /\ 0 \in Version
    BY MigrationAssumption DEF Init, Version
  <1>3. /\ files \in [Place -> [File -> Version]]
        /\ owed \in [File -> SUBSET Version] /\ wrote \in [File -> Version]
    BY <1>1, <1>2
  <1>4. env \in Env /\ mount \in Place /\ move \in Move /\ found \in [env : Env, ran : BOOLEAN]
    BY <1>1, MigrationAssumption DEF Env, Move
  <1>5. helper \in Helper
    BY <1>2 DEF Init, Idle, NoRecord, Helper
  <1>6. QED
    <2>1. EditsKnown
      BY <1>1 DEF Init, EditsKnown, EditsSurvive
    <2>2. /\ sealed \in [Place -> BOOLEAN] /\ up \in BOOLEAN /\ job \in Job /\ pc \in Pc
          /\ back \in BOOLEAN /\ alarm \in BOOLEAN /\ overlooked \in SUBSET Edit
      BY DEF Init, Job, Phase, Pc
    <2>3. moves \in 0..MaxMoves /\ edits \in 0..MaxEdits /\ mishaps \in 0..MaxMishaps
      BY MigrationAssumption DEF Init
    <2>4. QED
      BY <2>1, <2>2, <2>3, <1>2, <1>3, <1>4, <1>5 DEF TypeOK

(* Every step keeps the types.                                              *)
LEMMA TypeStep == ASSUME TypeOK, [Next]_vars PROVE TypeOK'
  <1>1. CASE Check
    BY <1>1 DEF TypeOK, Pc, content, app, past, bounds, Goto, Check
  <1>2. CASE Probe
    BY <1>2 DEF TypeOK, Pc, content, app, past, bounds, Goto, Probe
  <1>3. CASE Stop
    <2>1. job' \in Job
      BY <1>3 DEF TypeOK, Stop, Job, Phase
    <2>2. QED
      BY <1>3, <2>1 DEF TypeOK, Pc, content, past, bounds, Goto, Stop
  <1>4. CASE LaunchCopy
    BY <1>4, MigrationAssumption DEF TypeOK, Version, Pc, Helper, content, app, past, bounds,
        Goto, LaunchCopy, NoRecord
  <1>5. CASE AwaitCopy
    <2>1. helper' \in Helper
      BY <1>5 DEF TypeOK, AwaitCopy, Helper
    <2>2. pc' \in Pc
      BY <1>5 DEF AwaitCopy, Pc, Goto
    <2>3. QED
      BY <1>5, <2>1, <2>2 DEF TypeOK, content, app, past, bounds, AwaitCopy
  <1>6. CASE Compare
    BY <1>6 DEF TypeOK, Pc, content, app, past, bounds, Goto, Compare
  <1>6a. CASE Replace
    <2>1. env' \in Env
      BY <1>6a, MoveTyped DEF Replace
    <2>2. job' \in Job
      BY <1>6a DEF TypeOK, Replace, Job, Phase
    <2>3. QED
      BY <1>6a, <2>1, <2>2 DEF TypeOK, Pc, content, app, past, bounds, Goto, Replace
  <1>7. CASE Activate
    <2>1. mount' \in Place
      BY <1>7 DEF TypeOK, Activate, HalfActivated, Activated, Env
    <2>2. up' \in BOOLEAN
      BY <1>7 DEF TypeOK, Activate, HalfActivated, Activated
    <2>3. pc' \in Pc
      BY <1>7 DEF Activate, Pc, Goto, AfterSwitch
    <2>4. QED
      BY <1>7, <2>1, <2>2, <2>3 DEF TypeOK, content, past, bounds, Activate
  <1>8. CASE Recover
    BY <1>8 DEF TypeOK, Pc, content, app, past, bounds, Goto, Recover
  <1>9. CASE Restore
    BY <1>9 DEF TypeOK, Pc, content, app, past, bounds, Goto, Restore
  <1>9a. CASE PutBack
    BY <1>9a DEF TypeOK, Pc, content, app, bounds, Goto, PutBack
  <1>10. CASE Reactivate
    <2>1. mount' \in Place
      BY <1>10 DEF TypeOK, Reactivate, HalfActivated, Activated, Env
    <2>2. up' \in BOOLEAN
      BY <1>10 DEF TypeOK, Reactivate, HalfActivated, Activated
    <2>3. pc' \in Pc
      BY <1>10 DEF Reactivate, Pc, Goto
    <2>4. QED
      BY <1>10, <2>1, <2>2, <2>3 DEF TypeOK, content, past, bounds, Reactivate
  <1>11. CASE LaunchCleanup
    BY <1>11, MigrationAssumption DEF TypeOK, Version, Env, Phase, Job, Pc, Move, Helper,
         content, app, past, bounds, Goto, LaunchCleanup
  <1>12. CASE AwaitCleanup
    <2>1. helper' \in Helper
      BY <1>12 DEF TypeOK, AwaitCleanup, Helper
    <2>2. pc' \in Pc
      BY <1>12 DEF AwaitCleanup, Pc, Goto
    <2>3. QED
      BY <1>12, <2>1, <2>2 DEF TypeOK, content, app, past, bounds, AwaitCleanup
  <1>13. CASE Finish
    BY <1>13 DEF TypeOK, Phase, Job, Pc, content, app, bounds, Goto, Finish
  <1>14. CASE FinishUnsaved
    BY <1>14, MigrationAssumption DEF TypeOK, Pc, content, app, past, Goto, FinishUnsaved
  <1>15. CASE AwaitRaises
    <2>1. helper' \in Helper
      BY <1>15 DEF TypeOK, AwaitRaises, Helper
    <2>2. pc' \in Pc
      BY <1>15 DEF AwaitRaises, Pc, Goto
    <2>3. QED
      BY <1>15, <2>1, <2>2 DEF TypeOK, content, app, past, bounds, AwaitRaises
  <1>16. CASE CopyDone
    <2>1. helper' \in Helper
      BY <1>16 DEF TypeOK, CopyDone, Helper
    <2>2. QED
      BY <1>16, <2>1 DEF TypeOK, content, app, past, bounds, CopyDone
  <1>17. CASE Validate
    <2>1. helper' \in Helper
      BY <1>17 DEF TypeOK, Validate, Helper
    <2>2. QED
      BY <1>17, <2>1 DEF TypeOK, content, app, past, bounds, Validate
  <1>18. CASE CleanupDone
    <2>1. helper' \in Helper
      BY <1>18 DEF TypeOK, CleanupDone, Helper
    <2>2. QED
      BY <1>18, <2>1 DEF TypeOK, content, app, past, bounds, CleanupDone
  <1>19. CASE HelperFails
    <2>1. helper' \in Helper
      BY <1>19 DEF TypeOK, HelperFails, Helper
    <2>2. QED
      BY <1>19, <2>1 DEF TypeOK, content, app, past, bounds, HelperFails
  <1>20. CASE EditEnv
    <2>1. env' \in Env
      <3>1. /\ env' = [place |-> env.place, made |-> env.made \cup {edits + 1}]
            /\ env.place \in Place /\ env.made \subseteq Edit
        BY <1>20, MoveTyped DEF EditEnv, Env
      <3>2. edits + 1 \in Edit
        BY <1>20, MigrationAssumption DEF EditEnv, Edit, TypeOK
      <3>3. QED
        BY <3>1, <3>2 DEF Env
    <2>2. edits' \in 0..MaxEdits /\ overlooked' \in SUBSET Edit
      BY <1>20, MigrationAssumption DEF TypeOK, Edit, EditEnv
    <2>3. QED
      BY <1>20, <2>1, <2>2 DEF TypeOK, content, app, EditEnv
  <1>21. CASE StartApp
    BY <1>21 DEF TypeOK, Env, content, past, bounds, StartApp
  <1>22. CASE StopApp
    BY <1>22 DEF TypeOK, content, past, bounds, StopApp
  <1>23. CASE Restart
    BY <1>23, MigrationAssumption DEF TypeOK, Pc, content, app, past, Goto, Restart
  <1>24. ASSUME NEW f \in File, CopyFile(f) PROVE TypeOK'
    <2>1. files' \in [Place -> [File -> Version]]
      <3>1. files' = [files EXCEPT ![move.dst][f] = files[move.src][f]] /\ files[move.src][f] \in Version
        BY <1>24, MoveTyped DEF CopyFile, TypeOK
      <3>2. QED
        BY <3>1 DEF TypeOK
    <2>2. helper' \in Helper
      <3>1. files[move.src][f] \in Version
        BY MoveTyped DEF TypeOK
      <3>2. helper.record \in [File -> Version]
        BY DEF TypeOK, Helper
      <3>3. [helper.record EXCEPT ![f] = files[move.src][f]] \in [File -> Version]
        BY <3>1, <3>2
      <3>4. helper' = [task |-> helper.task, todo |-> helper.todo \ {f}, result |-> helper.result,
                       record |-> [helper.record EXCEPT ![f] = files[move.src][f]]]
        BY <1>24 DEF CopyFile, TypeOK, Helper
      <3>5. QED
        BY <3>3, <3>4 DEF TypeOK, Helper
    <2>3. QED
      BY <1>24, <2>1, <2>2 DEF TypeOK, app, past, bounds, CopyFile
  <1>25. ASSUME NEW f \in File, RemoveFile(f) PROVE TypeOK'
    <2>1. files' \in [Place -> [File -> Version]]
      <3>1. files' = [files EXCEPT ![move.src][f] = 0] /\ 0 \in Version
        BY <1>25, MigrationAssumption DEF RemoveFile, Version
      <3>2. QED
        BY <3>1 DEF TypeOK
    <2>2. helper' \in Helper
      BY <1>25 DEF TypeOK, RemoveFile, Helper
    <2>3. QED
      BY <1>25, <2>1, <2>2 DEF TypeOK, app, past, bounds, RemoveFile
  <1>26. ASSUME NEW f \in File, AppWrites(f) PROVE TypeOK'
    BY <1>26, MigrationAssumption DEF TypeOK, Version, app, past, bounds, AppWrites, Put
  <1>27. ASSUME NEW p \in Place, NEW f \in File, OtherWrites(p, f) PROVE TypeOK'
    BY <1>27, MigrationAssumption DEF TypeOK, Version, app, past, bounds, OtherWrites, Put
  <1>28. ASSUME NEW p \in Place, NEW f \in File, Delete(p, f) PROVE TypeOK'
    BY <1>28, MigrationAssumption DEF TypeOK, Version, app, past, bounds, Delete
  <1>29. ASSUME NEW mode \in {"copy", "move"}, NEW src \in Place, NEW dst \in Place,
               NEW media \in Medias, StartMove(mode, src, dst, media)
        PROVE  TypeOK'
    BY <1>29, MigrationAssumption DEF TypeOK, Phase, Job, Pc, Move, content, app, past,
        StartMove
  <1>30. CASE UNCHANGED vars
    BY <1>30 DEF TypeOK, past, vars
  <1>31. QED
    BY <1>1, <1>2, <1>3, <1>4, <1>5, <1>6, <1>6a, <1>7, <1>8, <1>9, <1>9a, <1>10, <1>11, <1>12,
        <1>13, <1>14, <1>15, <1>16, <1>17, <1>18, <1>19, <1>20, <1>21, <1>22, <1>23, <1>24, <1>25, <1>26,
        <1>27, <1>28, <1>29, <1>30 DEF Next, Thread, Helping, People

(* An edit is in .env when the thread compares it, or is overlooked.        *)
LEMMA EditsStep == ASSUME TypeOK, EditsKnown, [Next]_vars PROVE EditsKnown'
  <1> DEFINE About == pc \in {"replace", "putback"}
  <1>1. CASE Compare
    BY <1>1 DEF EditsKnown, EditsSurvive, bounds, past, Compare, Goto
  <1>2. CASE Restore
    BY <1>2, MoveTyped DEF EditsKnown, EditsSurvive, bounds, past, Restore, Goto, NewEnv, Env
  <1>3. CASE Replace
    BY <1>3, MoveTyped DEF EditsKnown, EditsSurvive, bounds, past, Replace, Goto, NewEnv, Env
  <1>4. CASE PutBack
    BY <1>4 DEF EditsKnown, EditsSurvive, bounds, PutBack, Goto
  <1>5. CASE EditEnv
    <2>1. env'.made = env.made \cup {edits + 1} /\ edits' = edits + 1 /\ edits \in Nat
      BY <1>5, MoveTyped DEF EditEnv, Env, TypeOK
    <2>2. /\ pc' = pc /\ found' = found /\ overlooked \subseteq overlooked'
          /\ About => edits + 1 \in overlooked'
      BY <1>5 DEF EditEnv
    <2>3. \A e \in 1..edits' : e \in 1..edits \/ e = edits + 1
      BY <2>1
    <2> QED BY <2>1, <2>2, <2>3 DEF EditsKnown, EditsSurvive
  <1>6. CASE UNCHANGED <<env, edits, overlooked>> /\ (About' => About /\ UNCHANGED found)
    BY <1>6 DEF EditsKnown, EditsSurvive
  <1>7. CASE \/ Check \/ Probe \/ Stop \/ LaunchCopy \/ AwaitCopy \/ Activate \/ Recover \/ Reactivate
             \/ LaunchCleanup \/ AwaitCleanup \/ Finish \/ FinishUnsaved \/ AwaitRaises \/ Restart
    BY <1>6, <1>7 DEF Check, Probe, Stop, LaunchCopy, AwaitCopy, Activate, Recover, Reactivate,
        LaunchCleanup, AwaitCleanup, Finish, FinishUnsaved, AwaitRaises, Restart, bounds, past,
        Goto, AfterSwitch
  <1>8. CASE CopyDone \/ Validate \/ CleanupDone \/ HelperFails \/ StartApp \/ StopApp \/ UNCHANGED vars
    BY <1>6, <1>8 DEF CopyDone, Validate, CleanupDone, HelperFails, StartApp, StopApp, bounds,
        past, vars
  <1>9. ASSUME NEW f \in File, CopyFile(f) \/ RemoveFile(f) \/ AppWrites(f) PROVE EditsKnown'
    BY <1>6, <1>9 DEF CopyFile, RemoveFile, AppWrites, bounds, past
  <1>10. ASSUME NEW p \in Place, NEW f \in File, OtherWrites(p, f) \/ Delete(p, f) PROVE EditsKnown'
    BY <1>6, <1>10 DEF OtherWrites, Delete, bounds, past
  <1>11. ASSUME NEW mode \in {"copy", "move"}, NEW src \in Place, NEW dst \in Place,
                NEW media \in Medias, StartMove(mode, src, dst, media)
        PROVE  EditsKnown'
    BY <1>6, <1>11 DEF StartMove, past
  <1>12. QED
    BY <1>1, <1>2, <1>3, <1>4, <1>5, <1>7, <1>8, <1>9, <1>10, <1>11 DEF Next, Thread, Helping, People

-----------------------------------------------------------------------------
(* Control: the thread, the helper, .env and the containers *)

(* Every step hands the helper over to the step that waits for it.         *)
LEMMA CustodyStep == ASSUME TypeOK, Custody, [Next]_vars PROVE Custody'
  <1>1. CASE Check
    BY <1>1 DEF Custody, Goto, Check
  <1>2. CASE Probe
    BY <1>2 DEF Custody, Goto, Probe
  <1>3. CASE Stop
    BY <1>3 DEF TypeOK, Job, Custody, Goto, Stop
  <1>4. CASE LaunchCopy
    BY <1>4 DEF Custody, Goto, LaunchCopy
  <1>5. CASE AwaitCopy
    BY <1>5 DEF Custody, Goto, AwaitCopy
  <1>6. CASE Compare
    BY <1>6 DEF Custody, Goto, Compare
  <1>6a. CASE Replace
    BY <1>6a DEF TypeOK, Job, Custody, Goto, Replace
  <1>7. CASE Activate
    BY <1>7 DEF Custody, Goto, Activate, AfterSwitch
  <1>8. CASE Recover
    BY <1>8 DEF Custody, Goto, Recover
  <1>9. CASE Restore
    BY <1>9 DEF Custody, Goto, Restore
  <1>9a. CASE PutBack
    BY <1>9a DEF Custody, Goto, PutBack
  <1>10. CASE Reactivate
    BY <1>10 DEF Custody, Goto, Reactivate
  <1>11. CASE LaunchCleanup
    BY <1>11 DEF TypeOK, Job, Helper, Custody, Goto, LaunchCleanup
  <1>12. CASE AwaitCleanup
    BY <1>12 DEF Custody, Goto, AwaitCleanup
  <1>13. CASE Finish
    BY <1>13 DEF TypeOK, Helper, Custody, Goto, Finish
  <1>14. CASE FinishUnsaved
    BY <1>14 DEF Custody, Goto, FinishUnsaved
  <1>15. CASE AwaitRaises
    BY <1>15 DEF Custody, Goto, AwaitRaises
  <1>16. CASE CopyDone
    BY <1>16 DEF Custody, CopyDone
  <1>17. CASE Validate
    BY <1>17 DEF Custody, Validate
  <1>18. CASE CleanupDone
    BY <1>18 DEF Custody, CleanupDone
  <1>19. CASE HelperFails
    BY <1>19 DEF Custody, HelperFails
  <1>20. CASE EditEnv
    BY <1>20 DEF Custody, EditEnv
  <1>21. CASE StartApp
    BY <1>21 DEF Custody, StartApp
  <1>22. CASE StopApp
    BY <1>22 DEF Custody, StopApp
  <1>23. CASE Restart
    BY <1>23 DEF Custody, Goto, Restart
  <1>24. ASSUME NEW f \in File, CopyFile(f) PROVE Custody'
    BY <1>24 DEF Custody, CopyFile
  <1>25. ASSUME NEW f \in File, RemoveFile(f) PROVE Custody'
    BY <1>25 DEF Custody, RemoveFile
  <1>26. ASSUME NEW f \in File, AppWrites(f) PROVE Custody'
    BY <1>26 DEF Custody, AppWrites
  <1>27. ASSUME NEW p \in Place, NEW f \in File, OtherWrites(p, f) PROVE Custody'
    BY <1>27 DEF Custody, OtherWrites
  <1>28. ASSUME NEW p \in Place, NEW f \in File, Delete(p, f) PROVE Custody'
    BY <1>28 DEF Custody, Delete
  <1>29. ASSUME NEW mode \in {"copy", "move"}, NEW src \in Place, NEW dst \in Place,
               NEW media \in Medias, StartMove(mode, src, dst, media)
        PROVE  Custody'
    BY <1>29 DEF Custody, StartMove
  <1>30. CASE UNCHANGED vars
    BY <1>30 DEF Custody, vars
  <1>31. QED
    BY <1>1, <1>2, <1>3, <1>4, <1>5, <1>6, <1>6a, <1>7, <1>8, <1>9, <1>9a, <1>10, <1>11, <1>12,
        <1>13, <1>14, <1>15, <1>16, <1>17, <1>18, <1>19, <1>20, <1>21, <1>22, <1>23, <1>24, <1>25, <1>26,
        <1>27, <1>28, <1>29, <1>30 DEF Next, Thread, Helping, People

(* Source and destination are told apart before anything is done to them.  *)
LEMMA ApartStep == ASSUME TypeOK, Custody, Apart, [Next]_vars PROVE Apart'
  <1>1. CASE Check
    BY <1>1 DEF Apart, Goto, Check
  <1>2. CASE Probe
    BY <1>2 DEF Apart, Probe
  <1>3. CASE Stop
    BY <1>3 DEF Apart, Stop
  <1>4. CASE LaunchCopy
    BY <1>4 DEF Apart, LaunchCopy
  <1>5. CASE AwaitCopy
    BY <1>5 DEF Apart, AwaitCopy
  <1>6. CASE Compare
    BY <1>6 DEF Apart, Goto, Compare
  <1>6a. CASE Replace
    BY <1>6a DEF Apart, Goto, Replace
  <1>7. CASE Activate
    BY <1>7 DEF Apart, Activate
  <1>8. CASE Recover
    BY <1>8 DEF Apart, Goto, Recover
  <1>9. CASE Restore
    BY <1>9 DEF Apart, Goto, Restore
  <1>9a. CASE PutBack
    BY <1>9a DEF Apart, Goto, PutBack
  <1>10. CASE Reactivate
    BY <1>10 DEF Apart, Goto, Reactivate
  <1>11. CASE LaunchCleanup
    BY <1>11 DEF Apart, LaunchCleanup
  <1>12. CASE AwaitCleanup
    BY <1>12 DEF Apart, AwaitCleanup
  <1>13. CASE Finish
    BY <1>13 DEF Apart, Goto, Finish
  <1>14. CASE FinishUnsaved
    BY <1>14 DEF Apart, Goto, FinishUnsaved
  <1>15. CASE AwaitRaises
    BY <1>15 DEF Apart, AwaitRaises
  <1>16. CASE CopyDone
    BY <1>16 DEF Apart, CopyDone
  <1>17. CASE Validate
    BY <1>17 DEF Apart, Validate
  <1>18. CASE CleanupDone
    BY <1>18 DEF Apart, CleanupDone
  <1>19. CASE HelperFails
    BY <1>19 DEF Apart, HelperFails
  <1>20. CASE EditEnv
    BY <1>20 DEF Apart, EditEnv
  <1>21. CASE StartApp
    BY <1>21 DEF Apart, StartApp
  <1>22. CASE StopApp
    BY <1>22 DEF Apart, StopApp
  <1>23. CASE Restart
    BY <1>23 DEF Apart, Goto, Restart
  <1>24. ASSUME NEW f \in File, CopyFile(f) PROVE Apart'
    BY <1>24 DEF Apart, CopyFile
  <1>25. ASSUME NEW f \in File, RemoveFile(f) PROVE Apart'
    BY <1>25 DEF Apart, RemoveFile
  <1>26. ASSUME NEW f \in File, AppWrites(f) PROVE Apart'
    BY <1>26 DEF Apart, AppWrites
  <1>27. ASSUME NEW p \in Place, NEW f \in File, OtherWrites(p, f) PROVE Apart'
    BY <1>27 DEF Apart, OtherWrites
  <1>28. ASSUME NEW p \in Place, NEW f \in File, Delete(p, f) PROVE Apart'
    BY <1>28 DEF Apart, Delete
  <1>29. ASSUME NEW mode \in {"copy", "move"}, NEW src \in Place, NEW dst \in Place,
               NEW media \in Medias, StartMove(mode, src, dst, media)
        PROVE  Apart'
    BY <1>29 DEF Custody, Apart, StartMove
  <1>30. CASE UNCHANGED vars
    BY <1>30 DEF Apart, vars
  <1>31. QED
    BY <1>1, <1>2, <1>3, <1>4, <1>5, <1>6, <1>6a, <1>7, <1>8, <1>9, <1>9a, <1>10, <1>11, <1>12,
        <1>13, <1>14, <1>15, <1>16, <1>17, <1>18, <1>19, <1>20, <1>21, <1>22, <1>23, <1>24, <1>25, <1>26,
        <1>27, <1>28, <1>29, <1>30 DEF Next, Thread, Helping, People

(* Every step leaves .env and the containers where the next one expects.   *)
LEMMA PlacementStep == ASSUME TypeOK, Custody, Apart, Placement, Matches, [Next]_vars PROVE Placement'
  <1>1. CASE Check
    BY <1>1 DEF Placement, BeforeSwitch, Switched, Quiet, app, Goto, Check
  <1>2. CASE Probe
    BY <1>2 DEF Placement, BeforeSwitch, Switched, Quiet, app, Goto, Probe
  <1>3. CASE Stop
    <2>1. /\ pc = "stop" /\ pc' \in {"copy", "recover"}
          /\ pc' = "copy" => ~up'
          /\ up' => up
      <3>1. CASE up' = FALSE /\ Goto("copy")
        BY <1>3, <3>1 DEF Stop, Goto
      <3>2. CASE up' \in {up, FALSE} /\ Goto("recover")
        <4>1. up' = up \/ up' = FALSE
          BY <3>2
        <4>2. QED
          BY <1>3, <3>2, <4>1 DEF Stop, Goto
      <3>3. QED
        BY <1>3, <3>1, <3>2 DEF Stop
    <2>2. UNCHANGED <<env, mount, move, found, helper, back>>
      BY <1>3 DEF Stop, past
    <2>3. QED
      BY <2>1, <2>2 DEF Placement, BeforeSwitch, Switched, Quiet
  <1>4. CASE LaunchCopy
    BY <1>4 DEF Placement, BeforeSwitch, Switched, Quiet, app, Goto, LaunchCopy
  <1>5. CASE AwaitCopy
    BY <1>5 DEF Placement, BeforeSwitch, Switched, Quiet, app, Goto, AwaitCopy
  <1>6. CASE Compare
    BY <1>6 DEF Placement, BeforeSwitch, Switched, Quiet, app, Goto, Compare
  <1>6a. CASE Replace
    BY <1>6a, MoveTyped DEF Placement, BeforeSwitch, Switched, Quiet, app, Goto, Replace, NewEnv,
        Env
  <1>7. CASE Activate
    BY <1>7 DEF Custody, Placement, BeforeSwitch, Switched, Quiet, Goto, Activate, Activated,
        HalfActivated, AfterSwitch
  <1>8. CASE Recover
    BY <1>8 DEF Placement, BeforeSwitch, Switched, Quiet, app, Goto, Recover
  <1>9. CASE Restore
    BY <1>9 DEF Placement, BeforeSwitch, Switched, Quiet, app, Goto, Restore
  <1>9a. CASE PutBack
    BY <1>9a DEF Custody, Placement, BeforeSwitch, Switched, Quiet, app, Goto, PutBack
  <1>10. CASE Reactivate
    BY <1>10 DEF Custody, Placement, BeforeSwitch, Switched, Quiet, Goto, Reactivate
  <1>11. CASE LaunchCleanup
    BY <1>11 DEF Placement, BeforeSwitch, Switched, Quiet, app, Goto, LaunchCleanup
  <1>12. CASE AwaitCleanup
    BY <1>12 DEF Placement, BeforeSwitch, Switched, Quiet, app, Goto, AwaitCleanup
  <1>13. CASE Finish
    BY <1>13 DEF Custody, Placement, BeforeSwitch, Switched, Quiet, Goto, Finish
  <1>14. CASE FinishUnsaved
    BY <1>14 DEF TypeOK, Move, Placement, BeforeSwitch, Switched, Quiet, app, Goto,
        FinishUnsaved
  <1>15. CASE AwaitRaises
    BY <1>15 DEF Placement, BeforeSwitch, Switched, Quiet, app, Goto, AwaitRaises
  <1>16. CASE CopyDone
    BY <1>16 DEF Custody, Placement, Switched, app, CopyDone
  <1>17. CASE Validate
    BY <1>17 DEF Custody, Placement, Switched, app, Validate
  <1>18. CASE CleanupDone
    BY <1>18 DEF Custody, Placement, Switched, app, CleanupDone
  <1>19. CASE HelperFails
    BY <1>19 DEF TypeOK, Helper, Custody, Placement, Switched, app, HelperFails
  <1>20. CASE EditEnv
    BY <1>20 DEF Placement, Switched, app, past, EditEnv
  <1>21. CASE StartApp
    BY <1>21 DEF Custody, Placement, BeforeSwitch, Switched, Quiet, StartApp
  <1>22. CASE StopApp
    BY <1>22 DEF Custody, Placement, Switched, StopApp
  <1>23. CASE Restart
    BY <1>23 DEF Placement, BeforeSwitch, Switched, Quiet, app, Goto, Restart
  <1>24. ASSUME NEW f \in File, CopyFile(f) PROVE Placement'
    BY <1>24 DEF Custody, Placement, Switched, app, CopyFile
  <1>25. ASSUME NEW f \in File, RemoveFile(f) PROVE Placement'
    BY <1>25 DEF Custody, Placement, Switched, app, RemoveFile
  <1>26. ASSUME NEW f \in File, AppWrites(f) PROVE Placement'
    BY <1>26 DEF Placement, Switched, app, past, AppWrites
  <1>27. ASSUME NEW p \in Place, NEW f \in File, OtherWrites(p, f) PROVE Placement'
    BY <1>27 DEF Placement, Switched, app, past, OtherWrites
  <1>28. ASSUME NEW p \in Place, NEW f \in File, Delete(p, f) PROVE Placement'
    BY <1>28 DEF Placement, Switched, app, past, Delete
  <1>29. ASSUME NEW mode \in {"copy", "move"}, NEW src \in Place, NEW dst \in Place,
               NEW media \in Medias, StartMove(mode, src, dst, media)
        PROVE  Placement'
    BY <1>29 DEF Custody, Placement, BeforeSwitch, Switched, Quiet, StartMove
  <1>30. CASE UNCHANGED vars
    BY <1>30 DEF Placement, Switched, past, vars
  <1>31. QED
    BY <1>1, <1>2, <1>3, <1>4, <1>5, <1>6, <1>6a, <1>7, <1>8, <1>9, <1>9a, <1>10, <1>11, <1>12,
        <1>13, <1>14, <1>15, <1>16, <1>17, <1>18, <1>19, <1>20, <1>21, <1>22, <1>23, <1>24, <1>25, <1>26,
        <1>27, <1>28, <1>29, <1>30 DEF Next, Thread, Helping, People

(* The switch and its recovery leave a running app where .env says.        *)
LEMMA MatchesStep == ASSUME TypeOK, Custody, Placement, Matches, [Next]_vars PROVE Matches'
  <1>1. CASE Check
    BY <1>1 DEF Matches, AtEase, app, past, Check
  <1>2. CASE Probe
    BY <1>2 DEF Placement, BeforeSwitch, Matches, app, Probe
  <1>3. CASE Stop
    BY <1>3 DEF Placement, BeforeSwitch, Matches, Stop
  <1>4. CASE LaunchCopy
    BY <1>4 DEF Placement, BeforeSwitch, Matches, app, LaunchCopy
  <1>5. CASE AwaitCopy
    BY <1>5 DEF Placement, BeforeSwitch, Matches, app, AwaitCopy
  <1>6. CASE Compare
    BY <1>6 DEF Placement, Quiet, Matches, app, Compare
  <1>6a. CASE Replace
    BY <1>6a DEF Placement, Quiet, Matches, app, Replace
  <1>7. CASE Activate
    BY <1>7 DEF Custody, Placement, Matches, AtEase, Goto, Activate, Activated
  <1>8. CASE Recover
    BY <1>8 DEF Placement, BeforeSwitch, Matches, app, Recover
  <1>9. CASE Restore
    BY <1>9 DEF Custody, Matches, AtEase, Goto, Restore
  <1>9a. CASE PutBack
    BY <1>9a DEF Custody, Matches, AtEase, Goto, PutBack
  <1>10. CASE Reactivate
    BY <1>10 DEF Custody, Placement, Matches, AtEase, Goto, Reactivate, Activated
  <1>11. CASE LaunchCleanup
    BY <1>11 DEF Placement, Matches, app, LaunchCleanup
  <1>12. CASE AwaitCleanup
    BY <1>12 DEF Custody, Placement, Matches, app, AwaitCleanup
  <1>13. CASE Finish
    BY <1>13 DEF Matches, AtEase, app, Finish
  <1>14. CASE FinishUnsaved
    BY <1>14 DEF Matches, AtEase, app, past, Goto, FinishUnsaved
  <1>15. CASE AwaitRaises
    BY <1>15 DEF Custody, Placement, BeforeSwitch, Matches, app, AwaitRaises
  <1>16. CASE CopyDone
    BY <1>16 DEF Custody, Matches, AtEase, CopyDone
  <1>17. CASE Validate
    BY <1>17 DEF Placement, Matches, app, Validate
  <1>18. CASE CleanupDone
    BY <1>18 DEF Placement, Matches, app, CleanupDone
  <1>19. CASE HelperFails
    BY <1>19 DEF TypeOK, Helper, Custody, Placement, Matches, AtEase, app, HelperFails
  <1>20. CASE EditEnv
    BY <1>20 DEF Matches, AtEase, app, past, EditEnv
  <1>21. CASE StartApp
    BY <1>21 DEF Matches, StartApp
  <1>22. CASE StopApp
    BY <1>22 DEF Matches, StopApp
  <1>23. CASE Restart
    BY <1>23 DEF Custody, Matches, AtEase, Goto, Restart
  <1>24. ASSUME NEW f \in File, CopyFile(f) PROVE Matches'
    BY <1>24 DEF Custody, Matches, AtEase, CopyFile
  <1>25. ASSUME NEW f \in File, RemoveFile(f) PROVE Matches'
    BY <1>25 DEF Placement, Matches, app, RemoveFile
  <1>26. ASSUME NEW f \in File, AppWrites(f) PROVE Matches'
    BY <1>26 DEF Matches, AtEase, app, past, AppWrites
  <1>27. ASSUME NEW p \in Place, NEW f \in File, OtherWrites(p, f) PROVE Matches'
    BY <1>27 DEF Matches, AtEase, app, past, OtherWrites
  <1>28. ASSUME NEW p \in Place, NEW f \in File, Delete(p, f) PROVE Matches'
    BY <1>28 DEF Matches, AtEase, app, past, Delete
  <1>29. ASSUME NEW mode \in {"copy", "move"}, NEW src \in Place, NEW dst \in Place,
               NEW media \in Medias, StartMove(mode, src, dst, media)
        PROVE  Matches'
    BY <1>29 DEF Matches, AtEase, app, past, StartMove
  <1>30. CASE UNCHANGED vars
    BY <1>30 DEF Matches, AtEase, past, vars
  <1>31. QED
    BY <1>1, <1>2, <1>3, <1>4, <1>5, <1>6, <1>6a, <1>7, <1>8, <1>9, <1>9a, <1>10, <1>11, <1>12,
        <1>13, <1>14, <1>15, <1>16, <1>17, <1>18, <1>19, <1>20, <1>21, <1>22, <1>23, <1>24, <1>25, <1>26,
        <1>27, <1>28, <1>29, <1>30 DEF Next, Thread, Helping, People

-----------------------------------------------------------------------------
(* Data: the contents, the helper's record, and what is owed *)

(* What a write does to every file of every place.                         *)
LEMMA PutData ==
    ASSUME TypeOK, NEW p \in Place, NEW f \in File, Put(p, f)
    PROVE  /\ clock \in Nat /\ clock' = clock + 1
           /\ \A q \in Place, g \in File :
                 files'[q][g] = IF q = p /\ g = f THEN clock + 1 ELSE files[q][g]
           /\ \A g \in File :
                 owed'[g] = IF g = f THEN (owed[f] \ {files[p][f]}) \cup {clock + 1} ELSE owed[g]
  <1>1. clock \in Nat /\ clock' = clock + 1 /\ clock + 1 \in Version
    BY MigrationAssumption DEF Put, TypeOK, Version
  <1>2. files' = [files EXCEPT ![p][f] = clock + 1]
    BY DEF Put
  <1>3. \A q \in Place, g \in File :
           files'[q][g] = IF q = p /\ g = f THEN clock + 1 ELSE files[q][g]
    BY <1>2 DEF TypeOK
  <1>4. \A g \in File :
           owed'[g] = IF g = f THEN (owed[f] \ {files[p][f]}) \cup {clock + 1} ELSE owed[g]
    BY DEF Put, TypeOK
  <1>5. QED
    BY <1>1, <1>3, <1>4

(* What the removal of a file by its owner does.                           *)
LEMMA DeleteData ==
    ASSUME TypeOK, NEW p \in Place, NEW f \in File, Delete(p, f)
    PROVE  /\ \A q \in Place, g \in File :
                 files'[q][g] = IF q = p /\ g = f THEN 0 ELSE files[q][g]
           /\ \A g \in File :
                 owed'[g] = IF g = f THEN owed[f] \ {files[p][f]} ELSE owed[g]
  <1>1. \A q \in Place, g \in File :
           files'[q][g] = IF q = p /\ g = f THEN 0 ELSE files[q][g]
    BY DEF Delete, TypeOK
  <1>2. QED
    BY <1>1 DEF Delete, TypeOK

(* What the copy of a file does.                                           *)
LEMMA CopyData ==
    ASSUME TypeOK, NEW f \in File, CopyFile(f)
    PROVE  /\ \A q \in Place, g \in File :
                 files'[q][g] = IF q = move.dst /\ g = f THEN files[move.src][f] ELSE files[q][g]
           /\ \A g \in File :
                 helper'.record[g] = IF g = f THEN files[move.src][f] ELSE helper.record[g]
           /\ helper'.todo = helper.todo \ {f}
           /\ helper'.task = helper.task /\ helper'.result = helper.result
  <1>1. files' = [files EXCEPT ![move.dst][f] = files[move.src][f]]
    BY DEF CopyFile
  <1>2. \A q \in Place, g \in File :
           files'[q][g] = IF q = move.dst /\ g = f THEN files[move.src][f] ELSE files[q][g]
    BY <1>1 DEF TypeOK
  <1>3. /\ helper' = [helper EXCEPT !.todo = @ \ {f},
                                   !.record = [@ EXCEPT ![f] = files[move.src][f]]]
        /\ helper.record \in [File -> Version]
    BY DEF CopyFile, TypeOK, Helper
  <1>4. /\ helper'.record = [helper.record EXCEPT ![f] = files[move.src][f]]
        /\ helper'.todo = helper.todo \ {f}
        /\ helper'.task = helper.task /\ helper'.result = helper.result
    BY <1>3 DEF TypeOK, Helper
  <1>5. QED
    BY <1>2, <1>3, <1>4

(* What the removal of an original does.                                   *)
LEMMA RemoveData ==
    ASSUME TypeOK, NEW f \in File, RemoveFile(f)
    PROVE  /\ \A q \in Place, g \in File :
                 files'[q][g] = IF q = move.src /\ g = f THEN 0 ELSE files[q][g]
           /\ helper'.record = helper.record
           /\ helper'.task = helper.task /\ helper'.result = helper.result
  <1>1. \A q \in Place, g \in File :
           files'[q][g] = IF q = move.src /\ g = f THEN 0 ELSE files[q][g]
    BY DEF RemoveFile, TypeOK
  <1>2. QED
    BY <1>1 DEF RemoveFile

(* The steps that write, copy or remove; the others leave every content and *)
(* what the helper recorded of it, or forget the record.                   *)
LEMMA FileSteps ==
    ASSUME TypeOK, [Next]_vars
    PROVE  \/ UNCHANGED content /\ (helper'.record = helper.record \/ helper'.record = NoRecord)
           \/ \E f \in File : CopyFile(f) \/ RemoveFile(f) \/ AppWrites(f)
           \/ \E p \in Place, f \in File : OtherWrites(p, f) \/ Delete(p, f)
  <1> DEFINE Kept == UNCHANGED content /\ (helper'.record = helper.record \/ helper'.record = NoRecord)
  <1>1. CASE \/ Check \/ Probe \/ Stop \/ Compare \/ Replace \/ Activate \/ Recover
             \/ Restore \/ PutBack \/ Reactivate \/ Finish
    BY <1>1 DEF Check, Probe, Stop, Compare, Replace, Activate, Recover, Restore, PutBack,
        Reactivate, Finish
  <1>2. CASE FinishUnsaved \/ EditEnv \/ StartApp \/ StopApp \/ Restart \/ UNCHANGED vars
    BY <1>2 DEF FinishUnsaved, EditEnv, StartApp, StopApp, Restart, vars, content
  <1>3. CASE LaunchCopy
    BY <1>3 DEF LaunchCopy
  <1>4. CASE AwaitCopy \/ AwaitCleanup \/ AwaitRaises \/ LaunchCleanup
    BY <1>4 DEF TypeOK, Helper, AwaitCopy, AwaitCleanup, AwaitRaises, LaunchCleanup
  <1>5. CASE CopyDone \/ Validate \/ CleanupDone \/ HelperFails
    BY <1>5 DEF TypeOK, Helper, CopyDone, Validate, CleanupDone, HelperFails
  <1>6. ASSUME NEW mode \in {"copy", "move"}, NEW src \in Place, NEW dst \in Place,
               NEW media \in Medias, StartMove(mode, src, dst, media)
        PROVE  Kept
    BY <1>6 DEF StartMove
  <1>7. QED
    BY <1>1, <1>2, <1>3, <1>4, <1>5, <1>6 DEF Next, Thread, Helping, People

(* New contents have new numbers.                                          *)
LEMMA FreshStep == ASSUME TypeOK, Fresh, [Next]_vars PROVE Fresh'
  <1>1. CASE UNCHANGED content /\ (helper'.record = helper.record \/ helper'.record = NoRecord)
    <2>1. clock \in Nat /\ clock' = clock
      BY <1>1 DEF content, TypeOK, Version
    <2>2. \A f \in File : helper'.record[f] <= clock
      BY <1>1, <2>1 DEF Fresh, NoRecord
    <2>3. QED
      BY <1>1, <2>2 DEF Fresh, content
  <1>2. ASSUME NEW f \in File, CopyFile(f) PROVE Fresh'
    <2>1. clock' = clock /\ UNCHANGED <<owed, wrote>>
      BY <1>2 DEF CopyFile
    <2>2. files[move.src][f] <= clock
      BY MoveTyped DEF Fresh
    <2>3. QED
      BY <1>2, <2>1, <2>2, CopyData DEF Fresh
  <1>3. ASSUME NEW f \in File, RemoveFile(f) PROVE Fresh'
    BY <1>3 DEF Fresh, Version, TypeOK, RemoveFile
  <1>4. ASSUME NEW f \in File, AppWrites(f) PROVE Fresh'
    <2>1. Put(mount, f) /\ mount \in Place
      BY <1>4 DEF AppWrites, TypeOK
    <2>2. /\ clock \in Nat /\ clock' = clock + 1
          /\ \A q \in Place, g \in File :
                files'[q][g] = IF q = mount /\ g = f THEN clock + 1 ELSE files[q][g]
          /\ \A g \in File :
                owed'[g] = IF g = f THEN (owed[f] \ {files[mount][f]}) \cup {clock + 1} ELSE owed[g]
      BY <2>1, PutData
    <2>3. \A g \in File : wrote'[g] \in {wrote[g], clock + 1} /\ helper'.record[g] = helper.record[g]
      BY <1>4 DEF AppWrites, TypeOK
    <2>4. /\ \A q \in Place, g \in File : files[q][g] \in Nat
          /\ \A g \in File : wrote[g] \in Nat /\ helper.record[g] \in Nat
      BY DEF TypeOK, Helper, Version
    <2>5. \A q \in Place, g \in File : files'[q][g] <= clock'
      BY <2>2, <2>4 DEF Fresh
    <2>6. \A g \in File : 0 \notin owed'[g]
      BY <2>2 DEF Fresh
    <2>7. \A g \in File : wrote'[g] <= clock' /\ helper'.record[g] <= clock'
      BY <2>2, <2>3, <2>4 DEF Fresh
    <2>8. QED
      BY <2>5, <2>6, <2>7 DEF Fresh
  <1>5. ASSUME NEW p \in Place, NEW f \in File, OtherWrites(p, f) PROVE Fresh'
    <2>1. Put(p, f) /\ p \in Place
      BY <1>5 DEF OtherWrites
    <2>2. /\ clock \in Nat /\ clock' = clock + 1
          /\ \A q \in Place, g \in File :
                files'[q][g] = IF q = p /\ g = f THEN clock + 1 ELSE files[q][g]
          /\ \A g \in File :
                owed'[g] = IF g = f THEN (owed[f] \ {files[p][f]}) \cup {clock + 1} ELSE owed[g]
      BY <2>1, PutData
    <2>3. \A g \in File : wrote'[g] \in {wrote[g], clock + 1} /\ helper'.record[g] = helper.record[g]
      BY <1>5 DEF OtherWrites, TypeOK
    <2>4. /\ \A q \in Place, g \in File : files[q][g] \in Nat
          /\ \A g \in File : wrote[g] \in Nat /\ helper.record[g] \in Nat
      BY DEF TypeOK, Helper, Version
    <2>5. \A q \in Place, g \in File : files'[q][g] <= clock'
      BY <2>2, <2>4 DEF Fresh
    <2>6. \A g \in File : 0 \notin owed'[g]
      BY <2>2 DEF Fresh
    <2>7. \A g \in File : wrote'[g] <= clock' /\ helper'.record[g] <= clock'
      BY <2>2, <2>3, <2>4 DEF Fresh
    <2>8. QED
      BY <2>5, <2>6, <2>7 DEF Fresh
  <1>6. ASSUME NEW p \in Place, NEW f \in File, Delete(p, f) PROVE Fresh'
    BY <1>6 DEF Fresh, Version, TypeOK, Delete
  <1>7. QED
    BY <1>1, <1>2, <1>3, <1>4, <1>5, <1>6, FileSteps

(* A copy is given up only by somebody who writes or removes it.           *)
LEMMA CopiesStep == ASSUME TypeOK, Fresh, Custody, Apart, Copies, [Next]_vars PROVE Copies'
  <1>1. CASE Check
    BY <1>1 DEF Copies, Custody, TypeOK, Helper, Goto, Check
  <1>2. CASE Probe
    BY <1>2 DEF Copies, Custody, TypeOK, Helper, Goto, Probe
  <1>3. CASE Stop
    BY <1>3 DEF Copies, Custody, TypeOK, Helper, Goto, Stop
  <1>4. CASE LaunchCopy
    BY <1>4 DEF Copies, Custody, TypeOK, Helper, Goto, LaunchCopy, NoRecord
  <1>5. CASE AwaitCopy
    BY <1>5 DEF Copies, Custody, content, AwaitCopy
  <1>6. CASE Compare
    BY <1>6 DEF Copies, content, Compare
  <1>6a. CASE Replace
    BY <1>6a DEF Copies, content, Replace
  <1>7. CASE Activate
    BY <1>7 DEF Copies, content, Activate
  <1>8. CASE Recover
    BY <1>8 DEF Copies, Custody, TypeOK, Helper, Goto, Recover
  <1>9. CASE Restore
    BY <1>9 DEF Copies, Custody, TypeOK, Helper, Goto, Restore
  <1>9a. CASE PutBack
    BY <1>9a DEF Copies, Custody, TypeOK, Helper, Goto, PutBack
  <1>10. CASE Reactivate
    BY <1>10 DEF Copies, Custody, TypeOK, Helper, Goto, Reactivate
  <1>11. CASE LaunchCleanup
    BY <1>11 DEF Copies, TypeOK, Helper, content, LaunchCleanup
  <1>12. CASE AwaitCleanup
    BY <1>12 DEF Copies, Custody, content, AwaitCleanup
  <1>13. CASE Finish
    BY <1>13 DEF Copies, Custody, TypeOK, Helper, Goto, Finish
  <1>14. CASE FinishUnsaved
    BY <1>14 DEF Copies, Custody, TypeOK, Helper, Goto, FinishUnsaved
  <1>15. CASE AwaitRaises
    BY <1>15 DEF Copies, Custody, content, AwaitRaises
  <1>16. CASE CopyDone
    BY <1>16 DEF Copies, content, CopyDone
  <1>17. CASE Validate
    BY <1>17 DEF Copies, content, Validate
  <1>18. CASE CleanupDone
    BY <1>18 DEF Copies, content, CleanupDone
  <1>19. CASE HelperFails
    BY <1>19 DEF Copies, content, HelperFails
  <1>20. CASE EditEnv
    BY <1>20 DEF Copies, content, EditEnv
  <1>21. CASE StartApp
    BY <1>21 DEF Copies, Custody, StartApp
  <1>22. CASE StopApp
    BY <1>22 DEF Copies, Custody, StopApp
  <1>23. CASE Restart
    BY <1>23 DEF Copies, content, Goto, Restart
  <1>24. ASSUME NEW f \in File, CopyFile(f) PROVE Copies'
    <2>1. /\ move.dst # move.src /\ helper.task = "copy"
          /\ UNCHANGED <<owed, move, pc>>
      BY <1>24 DEF CopyFile, Apart
    <2>2. QED
      BY <1>24, <2>1, CopyData, MoveTyped DEF Copies
  <1>25. ASSUME NEW f \in File, RemoveFile(f) PROVE Copies'
    BY <1>25 DEF Copies, Apart, RemoveFile
  <1>26. ASSUME NEW f \in File, AppWrites(f) PROVE Copies'
    <2>1. /\ Put(mount, f) /\ mount \in Place
          /\ UNCHANGED <<helper, move, pc>>
      BY <1>26 DEF AppWrites, TypeOK
    <2>2. /\ clock \in Nat /\ clock' = clock + 1
          /\ \A q \in Place, g \in File :
                files'[q][g] = IF q = mount /\ g = f THEN clock + 1 ELSE files[q][g]
          /\ \A g \in File :
                owed'[g] = IF g = f THEN (owed[f] \ {files[mount][f]}) \cup {clock + 1} ELSE owed[g]
      BY <2>1, PutData
    <2>3. \A g \in File : helper.record[g] # clock + 1
      <3>1. \A g \in File : helper.record[g] \in Nat /\ helper.record[g] <= clock
        BY DEF Fresh, TypeOK, Helper, Version
      <3>2. QED
        BY <2>2, <3>1
    <2>4. ASSUME NEW g \in File, helper.record[g] # 0, helper.record[g] \in owed'[g],
                 files[move.dst][g] = helper.record[g] \/ helper.record[g] \notin owed[g]
          PROVE  files'[move.dst][g] = helper.record[g]
      BY <2>2, <2>3, <2>4, MoveTyped
    <2>5. QED
      BY <2>1, <2>4 DEF Copies
  <1>27. ASSUME NEW p \in Place, NEW f \in File, OtherWrites(p, f) PROVE Copies'
    <2>1. /\ Put(p, f) /\ p \in Place
          /\ UNCHANGED <<helper, move, pc>>
      BY <1>27 DEF OtherWrites
    <2>2. /\ clock \in Nat /\ clock' = clock + 1
          /\ \A q \in Place, g \in File :
                files'[q][g] = IF q = p /\ g = f THEN clock + 1 ELSE files[q][g]
          /\ \A g \in File :
                owed'[g] = IF g = f THEN (owed[f] \ {files[p][f]}) \cup {clock + 1} ELSE owed[g]
      BY <2>1, PutData
    <2>3. \A g \in File : helper.record[g] # clock + 1
      <3>1. \A g \in File : helper.record[g] \in Nat /\ helper.record[g] <= clock
        BY DEF Fresh, TypeOK, Helper, Version
      <3>2. QED
        BY <2>2, <3>1
    <2>4. ASSUME NEW g \in File, helper.record[g] # 0, helper.record[g] \in owed'[g],
                 files[move.dst][g] = helper.record[g] \/ helper.record[g] \notin owed[g]
          PROVE  files'[move.dst][g] = helper.record[g]
      BY <2>2, <2>3, <2>4, MoveTyped
    <2>5. QED
      BY <2>1, <2>4 DEF Copies
  <1>28. ASSUME NEW p \in Place, NEW f \in File, Delete(p, f) PROVE Copies'
    BY <1>28 DEF Copies, TypeOK, Delete
  <1>29. ASSUME NEW mode \in {"copy", "move"}, NEW src \in Place, NEW dst \in Place,
               NEW media \in Medias, StartMove(mode, src, dst, media)
        PROVE  Copies'
    BY <1>29 DEF Copies, Custody, StartMove
  <1>30. CASE UNCHANGED vars
    BY <1>30 DEF Copies, vars
  <1>31. QED
    BY <1>1, <1>2, <1>3, <1>4, <1>5, <1>6, <1>6a, <1>7, <1>8, <1>9, <1>9a, <1>10, <1>11, <1>12,
        <1>13, <1>14, <1>15, <1>16, <1>17, <1>18, <1>19, <1>20, <1>21, <1>22, <1>23, <1>24, <1>25, <1>26,
        <1>27, <1>28, <1>29, <1>30 DEF Next, Thread, Helping, People

(* A content is taken from a place only when it is elsewhere or taken back. *)
LEMMA NothingLostStep == ASSUME TypeOK, Fresh, Custody, Apart, Copies, NothingLost, [Next]_vars PROVE NothingLost'
  <1>1. CASE UNCHANGED content /\ (helper'.record = helper.record \/ helper'.record = NoRecord)
    BY <1>1 DEF NothingLost, content
  <1>2. ASSUME NEW f \in File, CopyFile(f) PROVE NothingLost'
    <2>1. files[move.dst][f] = 0 /\ owed' = owed
      BY <1>2 DEF CopyFile
    <2>2. ASSUME NEW g \in File, NEW v \in owed[g]
          PROVE  \E p \in Place : files'[p][g] = v
      <3>1. PICK p \in Place : files[p][g] = v
        BY DEF NothingLost
      <3>2. v # 0
        BY DEF Fresh
      <3>3. files'[p][g] = v
        BY <1>2, <2>1, <3>1, <3>2, CopyData
      <3>4. QED
        BY <3>3
    <2>3. QED
      BY <2>1, <2>2 DEF NothingLost
  <1>3. ASSUME NEW f \in File, RemoveFile(f) PROVE NothingLost'
    BY <1>3, MoveTyped DEF NothingLost, Copies, Apart, Recorded, RemoveFile
  <1>4. ASSUME NEW f \in File, AppWrites(f) PROVE NothingLost'
    <2>1. Put(mount, f) /\ mount \in Place
      BY <1>4 DEF AppWrites, TypeOK
    <2>2. /\ clock \in Nat /\ clock' = clock + 1
          /\ \A q \in Place, g \in File :
                files'[q][g] = IF q = mount /\ g = f THEN clock + 1 ELSE files[q][g]
          /\ \A g \in File :
                owed'[g] = IF g = f THEN (owed[f] \ {files[mount][f]}) \cup {clock + 1} ELSE owed[g]
      BY <2>1, PutData
    <2>3. ASSUME NEW g \in File, NEW v \in owed'[g]
          PROVE  \E q \in Place : files'[q][g] = v
      <3>1. CASE g = f /\ v = clock + 1
        BY <2>1, <2>2, <3>1
      <3>2. CASE ~(g = f /\ v = clock + 1)
        <4>1. v \in owed[g] /\ (g = f => v # files[mount][f])
          BY <2>2, <2>3, <3>2
        <4>2. PICK q \in Place : files[q][g] = v
          BY <4>1 DEF NothingLost
        <4>3. files'[q][g] = v
          BY <2>2, <4>1, <4>2
        <4>4. QED
          BY <4>3
      <3>3. QED
        BY <3>1, <3>2
    <2>4. QED
      BY <2>3 DEF NothingLost
  <1>5. ASSUME NEW p \in Place, NEW f \in File, OtherWrites(p, f) PROVE NothingLost'
    <2>1. Put(p, f) /\ p \in Place
      BY <1>5 DEF OtherWrites
    <2>2. /\ clock \in Nat /\ clock' = clock + 1
          /\ \A q \in Place, g \in File :
                files'[q][g] = IF q = p /\ g = f THEN clock + 1 ELSE files[q][g]
          /\ \A g \in File :
                owed'[g] = IF g = f THEN (owed[f] \ {files[p][f]}) \cup {clock + 1} ELSE owed[g]
      BY <2>1, PutData
    <2>3. ASSUME NEW g \in File, NEW v \in owed'[g]
          PROVE  \E q \in Place : files'[q][g] = v
      <3>1. CASE g = f /\ v = clock + 1
        BY <2>1, <2>2, <3>1
      <3>2. CASE ~(g = f /\ v = clock + 1)
        <4>1. v \in owed[g] /\ (g = f => v # files[p][f])
          BY <2>2, <2>3, <3>2
        <4>2. PICK q \in Place : files[q][g] = v
          BY <4>1 DEF NothingLost
        <4>3. files'[q][g] = v
          BY <2>2, <4>1, <4>2
        <4>4. QED
          BY <4>3
      <3>3. QED
        BY <3>1, <3>2
    <2>4. QED
      BY <2>3 DEF NothingLost
  <1>6. ASSUME NEW p \in Place, NEW f \in File, Delete(p, f) PROVE NothingLost'
    <2>1. ASSUME NEW g \in File, NEW v \in owed'[g]
          PROVE  \E q \in Place : files'[q][g] = v
      <3>1. v \in owed[g] /\ (g = f => v # files[p][f])
        <4>1. \A h \in File : owed'[h] = IF h = f THEN owed[f] \ {files[p][f]} ELSE owed[h]
          BY <1>6, DeleteData
        <4>2. QED
          BY <2>1, <4>1
      <3>2. PICK q \in Place : files[q][g] = v
        BY <3>1 DEF NothingLost
      <3>3. files'[q][g] = IF q = p /\ g = f THEN 0 ELSE files[q][g]
        <4>1. \A r \in Place, h \in File :
                 files'[r][h] = IF r = p /\ h = f THEN 0 ELSE files[r][h]
          BY <1>6, DeleteData
        <4>2. QED
          BY <4>1
      <3>4. QED
        BY <3>1, <3>2, <3>3
    <2>2. QED
      BY <2>1 DEF NothingLost
  <1>7. QED
    BY <1>1, <1>2, <1>3, <1>4, <1>5, <1>6, FileSteps

-----------------------------------------------------------------------------
(* What the app wrote last *)

(* A write takes nothing of what is last away from where it is,            *)
LEMMA PutLast ==
    ASSUME TypeOK, Fresh, NEW p \in Place, NEW f \in File, Put(p, f)
    PROVE  \A g \in File, q \in Place :
              Last(g, q) /\ wrote'[g] = wrote[g] => Last(g, q)'
  <1>1. /\ \A q \in Place, g \in File :
              files'[q][g] = IF q = p /\ g = f THEN clock + 1 ELSE files[q][g]
        /\ \A g \in File :
              owed'[g] = IF g = f THEN (owed[f] \ {files[p][f]}) \cup {clock + 1} ELSE owed[g]
    BY PutData
  <1>2. \A g \in File : wrote[g] # clock + 1
    <2>1. clock \in Nat /\ \A g \in File : wrote[g] \in Nat /\ wrote[g] <= clock
      BY DEF Fresh, TypeOK, Version
    <2>2. QED
      BY <2>1
  <1>3. QED
    BY <1>1, <1>2 DEF Last

(* ... nor does a removal by its owner,                                    *)
LEMMA DeleteLast ==
    ASSUME TypeOK, NEW p \in Place, NEW f \in File, Delete(p, f)
    PROVE  \A g \in File, q \in Place : Last(g, q) => Last(g, q)'
  <1>1. /\ \A q \in Place, g \in File :
              files'[q][g] = IF q = p /\ g = f THEN 0 ELSE files[q][g]
        /\ \A g \in File :
              owed'[g] = IF g = f THEN owed[f] \ {files[p][f]} ELSE owed[g]
    BY DeleteData
  <1>2. wrote' = wrote
    BY DEF Delete
  <1>3. QED
    BY <1>1, <1>2 DEF Last

(* ... nor a copy, which gives the destination what the source has,        *)
LEMMA CopyLast ==
    ASSUME TypeOK, Fresh, NEW f \in File, CopyFile(f)
    PROVE  /\ \A g \in File, q \in Place : Last(g, q) => Last(g, q)'
           /\ Last(f, move.src) => Last(f, move.dst)'
  <1>1. /\ \A q \in Place, g \in File :
              files'[q][g] = IF q = move.dst /\ g = f THEN files[move.src][f] ELSE files[q][g]
        /\ move.src \in Place /\ move.dst \in Place
    BY CopyData, MoveTyped
  <1>2. UNCHANGED <<owed, wrote, move>> /\ files[move.dst][f] = 0
    BY DEF CopyFile
  <1>3. \A g \in File : wrote[g] \in owed[g] => wrote[g] # 0
    BY DEF Fresh
  <1>4. QED
    BY <1>1, <1>2, <1>3 DEF Last

(* ... nor the cleanup, from any place but the source.                     *)
LEMMA RemoveLast ==
    ASSUME TypeOK, NEW f \in File, RemoveFile(f)
    PROVE  \A g \in File, q \in Place \ {move.src} : Last(g, q) => Last(g, q)'
  <1>1. \A q \in Place, g \in File :
           files'[q][g] = IF q = move.src /\ g = f THEN 0 ELSE files[q][g]
    BY RemoveData
  <1>2. UNCHANGED <<owed, wrote>>
    BY DEF RemoveFile
  <1>3. QED
    BY <1>1, <1>2 DEF Last

(* The app's last writes are wherever its containers are or may be next.   *)
LEMMA WritesStep == ASSUME TypeOK, Fresh, Custody, Apart, Placement, Matches, Writes, [Next]_vars PROVE Writes'
  <1>1. CASE Check
    BY <1>1 DEF Known, Writes, Has, Last, content, app, past, Goto, Check
  <1>2. CASE Probe
    BY <1>2 DEF Known, Writes, Has, Last, content, app, past, Goto, Probe
  <1>3. CASE Stop
    BY <1>3 DEF Known, Writes, Has, Last, content, past, Goto, Stop
  <1>4. CASE LaunchCopy
    BY <1>4 DEF Placement, BeforeSwitch, Known, Writes, Has, Last, content, app, past, Goto,
        LaunchCopy, Empty
  <1>5. CASE AwaitCopy
    BY <1>5 DEF Custody, Known, Writes, Has, Last, content, app, past, Goto, AwaitCopy
  <1>6. CASE Compare
    BY <1>6 DEF Known, Writes, Has, Last, content, app, past, Goto, Compare
  <1>6a. CASE Replace
    <2>1. /\ pc = "replace" /\ UNCHANGED <<content, mount, up, move, helper, back, alarm>>
          /\ \/ env' = NewEnv /\ pc' = "activate"
             \/ env' = env /\ pc' = "recover"
      BY <1>6a DEF Replace, Goto, app, past
    <2>2. ~up /\ env.place = move.src /\ NewEnv.place = move.dst /\ helper.task = "none"
      BY <2>1 DEF Placement, BeforeSwitch, Quiet, NewEnv, Custody, TypeOK, Helper
    <2>3. ~back /\ ~alarm => Has(move.src) /\ Has(move.dst)
      BY <2>1, <2>2 DEF Writes, Known
    <2>4. QED
      BY <2>1, <2>2, <2>3 DEF Writes, Has, Last, content
  <1>7. CASE Activate
    <2>1. /\ pc = "activate" /\ pc' \in {AfterSwitch, "restore"}
          /\ UNCHANGED <<content, env, move, helper, back, alarm>>
      BY <1>7 DEF Activate, Goto, past
    <2>2. mount' \in {mount, env.place}
      BY <1>7 DEF Activate, Activated, HalfActivated
    <2>3. mount = move.src /\ env.place = move.dst /\ helper.task = "none"
      BY <2>1 DEF Placement, Switched, Custody, TypeOK, Helper
    <2>4. ~back /\ ~alarm => Has(move.src) /\ Has(move.dst)
      BY <2>1, <2>3 DEF Writes, Known
    <2>5. QED
      BY <2>1, <2>2, <2>3, <2>4 DEF Writes, Has, Last, content
  <1>8. CASE Recover
    BY <1>8 DEF Known, Writes, Has, Last, content, app, past, Goto, Recover
  <1>9. CASE Restore
    BY <1>9 DEF Known, Writes, Has, Last, content, app, past, Goto, Restore
  <1>9a. CASE PutBack
    BY <1>9a DEF Known, Writes, Has, Last, content, app, Goto, PutBack
  <1>10. CASE Reactivate
    <2>1. /\ pc = "reactivate" /\ pc' \in {"failed", "trouble"}
          /\ UNCHANGED <<content, env, move, helper, back, alarm>>
      BY <1>10 DEF Reactivate, Goto, past
    <2>2. mount' \in {mount, env.place}
      BY <1>10 DEF Reactivate, Activated, HalfActivated
    <2>3. env.place = move.src /\ (~back => mount = move.src) /\ helper.task = "none"
      BY <2>1 DEF Placement, Custody, TypeOK, Helper
    <2>4. ~back /\ ~alarm => Has(move.src)
      BY <2>1, <2>3 DEF Writes, Known
    <2>5. QED
      BY <2>1, <2>2, <2>3, <2>4 DEF Writes, Has, Last, content
  <1>11. CASE LaunchCleanup
    BY <1>11 DEF Known, Writes, Has, Last, content, app, past, Goto, LaunchCleanup
  <1>12. CASE AwaitCleanup
    BY <1>12 DEF Known, Writes, Has, Last, content, app, past, Goto, AwaitCleanup
  <1>13. CASE Finish
    BY <1>13 DEF Custody, Known, Writes, Has, Last, content, app, Goto, Finish
  <1>14. CASE FinishUnsaved
    BY <1>14 DEF Custody, Known, Writes, Has, Last, content, app, past, Goto, FinishUnsaved
  <1>15. CASE AwaitRaises
    BY <1>15 DEF Known, Writes, Has, Last, content, app, past, Goto, AwaitRaises
  <1>16. CASE CopyDone
    BY <1>16 DEF Writes, Has, Last, content, app, past, CopyDone
  <1>17. CASE Validate
    BY <1>17 DEF Custody, Writes, Has, Last, content, app, past, Validate
  <1>18. CASE CleanupDone
    BY <1>18 DEF Writes, Has, Last, content, app, past, CleanupDone
  <1>19. CASE HelperFails
    BY <1>19 DEF Writes, Has, Last, content, app, past, HelperFails
  <1>20. CASE EditEnv
    BY <1>20 DEF Writes, Has, Last, content, app, past, EditEnv
  <1>21. CASE StartApp
    BY <1>21 DEF Writes, Has, Last, content, past, StartApp
  <1>22. CASE StopApp
    BY <1>22 DEF Writes, Has, Last, content, past, StopApp
  <1>23. CASE Restart
    BY <1>23 DEF Custody, Known, Writes, Has, Last, content, app, past, Goto, Restart
  <1>24. ASSUME NEW f \in File, CopyFile(f) PROVE Writes'
    <2>1. /\ UNCHANGED <<env, mount, up, job, pc, move, back, alarm>>
          /\ helper.task = "copy" /\ helper.result = "running"
          /\ pc \in {"copying", "none"}
      BY <1>24 DEF CopyFile, app, past, Custody
    <2>2. /\ helper'.todo = helper.todo \ {f} /\ helper'.result = "running"
      BY <1>24, <2>1, CopyData
    <2>3. /\ \A g \in File, q \in Place : Last(g, q) => Last(g, q)'
          /\ Last(f, move.src) => Last(f, move.dst)'
      BY <1>24, CopyLast
    <2>4. move.dst \in Place /\ env.place \in Place /\ mount \in Place
      BY MoveTyped DEF TypeOK, Env
    <2>5. ~back /\ ~alarm => (up => Has(mount)')
      BY <2>1, <2>3, <2>4 DEF Writes, Has
    <2>6. ~back /\ ~alarm /\ (~job.running \/ pc \in Known) => Has(env.place)'
      BY <2>1, <2>3, <2>4 DEF Writes, Has
    <2>7. ~back /\ ~alarm /\ pc = "copying" => Last(f, move.src)
      BY DEF Writes, Known, Has, Placement, BeforeSwitch
    <2>8. ~back /\ ~alarm /\ pc = "copying" => \A g \in File \ helper'.todo : Last(g, move.dst)'
      BY <2>1, <2>2, <2>3, <2>4, <2>7 DEF Writes
    <2>9. QED
      BY <2>1, <2>2, <2>5, <2>6, <2>8 DEF Writes
  <1>25. ASSUME NEW f \in File, RemoveFile(f) PROVE Writes'
    <2>1. /\ UNCHANGED <<env, mount, up, job, pc, move, back, alarm>>
          /\ helper.task = "delete" /\ pc \in {"cleaning", "none"}
          /\ helper'.task = "delete"
      BY <1>25 DEF RemoveFile, app, past, Custody
    <2>2. \A g \in File, q \in Place \ {move.src} : Last(g, q) => Last(g, q)'
      BY <1>25, RemoveLast
    <2>3. /\ env.place = move.dst /\ (up => mount = move.dst)
          /\ move.dst \in Place \ {move.src}
      BY <2>1, MoveTyped DEF Placement, Apart
    <2>4. QED
      BY <2>1, <2>2, <2>3 DEF Writes, Has
  <1>26. ASSUME NEW f \in File, AppWrites(f) PROVE Writes'
    BY <1>26 DEF TypeOK, Placement, Matches, AtEase, BeforeSwitch, Quiet, Known, Writes, Has,
        Last, app, past, AppWrites, Put
  <1>27. ASSUME NEW p \in Place, NEW f \in File, OtherWrites(p, f) PROVE Writes'
    <2>1. UNCHANGED <<wrote, env, mount, up, job, pc, move, helper, back, alarm>> /\ Put(p, f)
      BY <1>27 DEF OtherWrites, app, past
    <2>2. \A g \in File, q \in Place : Last(g, q) => Last(g, q)'
      BY <2>1, PutLast
    <2>3. /\ move.src \in Place /\ move.dst \in Place
          /\ env.place \in Place /\ mount \in Place
      BY MoveTyped DEF TypeOK, Env
    <2>4. QED
      BY <2>1, <2>2, <2>3 DEF Writes, Has
  <1>28. ASSUME NEW p \in Place, NEW f \in File, Delete(p, f) PROVE Writes'
    BY <1>28 DEF TypeOK, Writes, Has, Last, app, past, Delete
  <1>29. ASSUME NEW mode \in {"copy", "move"}, NEW src \in Place, NEW dst \in Place,
               NEW media \in Medias, StartMove(mode, src, dst, media)
        PROVE  Writes'
    BY <1>29 DEF Custody, Writes, Has, Last, content, app, past, StartMove
  <1>30. CASE UNCHANGED vars
    BY <1>30 DEF Writes, Has, Last, past, vars
  <1>31. QED
    BY <1>1, <1>2, <1>3, <1>4, <1>5, <1>6, <1>6a, <1>7, <1>8, <1>9, <1>9a, <1>10, <1>11, <1>12,
        <1>13, <1>14, <1>15, <1>16, <1>17, <1>18, <1>19, <1>20, <1>21, <1>22, <1>23, <1>24, <1>25, <1>26,
        <1>27, <1>28, <1>29, <1>30 DEF Next, Thread, Helping, People

-----------------------------------------------------------------------------
(* The theorems *)

(* The invariant holds of an app nobody has moved yet.                     *)
LEMMA InvInit == ASSUME Init PROVE IInv
  <1>1. PICK p \in Place, F \in SUBSET File :
            /\ files = [q \in Place |-> [f \in File |-> IF q = p /\ f \in F THEN 1 ELSE 0]]
            /\ owed = [f \in File |-> IF f \in F THEN {1} ELSE {}]
            /\ wrote = [f \in File |-> IF f \in F THEN 1 ELSE 0]
            /\ env = [place |-> p, made |-> {}]
            /\ mount = p
            /\ move = [mode |-> "copy", src |-> p, dst |-> p, media |-> FALSE]
            /\ found = [env |-> [place |-> p, made |-> {}], ran |-> FALSE]
    BY DEF Init
  <1>2. /\ clock = 1 /\ job.running = FALSE /\ pc = "none"
        /\ helper.task = "none" /\ helper.record = NoRecord
    BY DEF Init, Idle
  <1>3. TypeOK
    BY TypeInit
  <1>4. Fresh
    BY <1>1, <1>2 DEF Fresh, NoRecord
  <1>5. Custody /\ Apart /\ Placement /\ Matches /\ Copies
    BY <1>1, <1>2 DEF Custody, Apart, Placement, BeforeSwitch, Switched, Quiet, Matches, Copies
  <1>6. NothingLost
    <2>1. \A f \in File : \A v \in owed[f] : files[p][f] = v
      BY <1>1
    <2>2. QED
      BY <2>1 DEF NothingLost
  <1>7. Writes
    BY <1>1, <1>2 DEF Writes, Has, Last
  <1>8. QED
    BY <1>3, <1>4, <1>5, <1>6, <1>7 DEF IInv

(* The invariant is inductive; what becomes of edits goes with it.         *)
LEMMA Inductive == Spec => [](IInv /\ EditsKnown)
  <1>1. Init => IInv /\ EditsKnown
    BY InvInit, TypeInit
  <1>2. IInv /\ EditsKnown /\ [Next]_vars => (IInv /\ EditsKnown)'
    <2> SUFFICES ASSUME IInv, EditsKnown, [Next]_vars PROVE IInv' /\ EditsKnown'
      OBVIOUS
    <2>1. /\ TypeOK /\ Fresh /\ Custody /\ Apart /\ Placement
          /\ Matches /\ Copies /\ NothingLost /\ Writes
      BY DEF IInv
    <2>2. TypeOK'
      BY <2>1, TypeStep
    <2>3. EditsKnown'
      BY <2>1, EditsStep
    <2>4. Custody' /\ Apart'
      BY <2>1, CustodyStep, ApartStep
    <2>5. Placement' /\ Matches'
      BY <2>1, PlacementStep, MatchesStep
    <2>6. Fresh' /\ Copies' /\ NothingLost'
      BY <2>1, FreshStep, CopiesStep, NothingLostStep
    <2>7. Writes'
      BY <2>1, WritesStep
    <2>8. QED
      BY <2>2, <2>3, <2>4, <2>5, <2>6, <2>7 DEF IInv
  <1>3. QED
    BY <1>1, <1>2, PTL DEF Spec

(* Every variable keeps its type, for any number of places, files, moves    *)
(* and mishaps.                                                            *)
THEOREM MigrationTypes == Spec => []TypeOK
  <1>1. IInv => TypeOK
    BY DEF IInv
  <1>2. QED
    BY <1>1, Inductive, PTL

(* No content is lost, whoever writes, edits, fails or restarts while the   *)
(* files are copied and their originals removed.                           *)
THEOREM MigrationLosesNothing == Spec => []NothingLost
  <1>1. IInv => NothingLost
    BY DEF IInv
  <1>2. QED
    BY <1>1, Inductive, PTL

(* A running app has the files it wrote last, through any number of         *)
(* migrations none of which was taken back.                                *)
THEOREM AppKeepsItsWrites == Spec => []SeesOwnWrites
  <1>1. IInv => SeesOwnWrites
    BY DEF IInv, Writes, Has, Last, SeesOwnWrites
  <1>2. QED
    BY <1>1, Inductive, PTL

(* The cleanup never empties the place an app runs at, or will.             *)
THEOREM CleanupSparesTheApp == Spec => []CleansUnusedPlace
  <1>1. IInv => CleansUnusedPlace
    <2> SUFFICES ASSUME IInv, helper.task \in {"validate", "delete"}
                 PROVE  env.place # move.src /\ (up => mount # move.src)
      BY DEF CleansUnusedPlace
    <2>1. move.dst # move.src
      BY DEF IInv, Apart
    <2>2. env.place = move.dst /\ (up => mount = move.dst)
      BY DEF IInv, Placement
    <2>3. QED
      BY <2>1, <2>2
  <1>2. QED
    BY <1>1, Inductive, PTL

(* After any number of migrations, failed ones too, a running app has the   *)
(* place its .env names, unless one of them asked for help.                *)
THEOREM AppRunsWhereEnvSays == Spec => []RunningMatchesEnv
  <1>1. IInv => RunningMatchesEnv
    BY DEF IInv, Matches, AtEase, RunningMatchesEnv
  <1>2. QED
    BY <1>1, Inductive, PTL

(* No edit of .env by others is undone by a switch or by its recovery, but  *)
(* for one made between a comparison and its write.                         *)
THEOREM EditsAreKept == Spec => []EditsSurvive
  <1>1. EditsKnown => EditsSurvive
    BY DEF EditsKnown
  <1>2. QED
    BY <1>1, Inductive, PTL

(* An original is removed only in the cleanup of a move that has switched.  *)
THEOREM OriginalsAreKept == Spec => OriginalsOutliveSwitch
  <1> DEFINE Kept == \A f \in File :
          files[move.src][f] # 0 /\ files'[move.src][f] = 0 /\ helper' # helper
          => job.phase = "cleanup" /\ env.place = move.dst
  <1>1. IInv /\ [Next]_vars => [Kept]_vars
    <2> SUFFICES ASSUME IInv, Next, NEW g \in File,
                        files[move.src][g] # 0, files'[move.src][g] = 0, helper' # helper
                 PROVE  job.phase = "cleanup" /\ env.place = move.dst
      BY DEF Kept
    <2>1. TypeOK /\ Custody /\ Placement
      BY DEF IInv
    <2>2. ASSUME NEW f \in File, CopyFile(f) PROVE FALSE
      <3>1. \A q \in Place, h \in File :
               files'[q][h] = IF q = move.dst /\ h = f THEN files[move.src][f] ELSE files[q][h]
        BY <2>1, <2>2, CopyData
      <3>2. files[move.src][f] # 0 /\ move.src \in Place
        BY <2>2 DEF CopyFile
      <3>3. QED
        BY <3>1, <3>2
    <2>3. ASSUME NEW f \in File, RemoveFile(f) PROVE job.phase = "cleanup" /\ env.place = move.dst
      BY <2>1, <2>3 DEF RemoveFile, Custody, Placement
    <2>4. ASSUME NEW f \in File, AppWrites(f) PROVE FALSE
      BY <2>4 DEF AppWrites
    <2>5. ASSUME NEW p \in Place, NEW f \in File, OtherWrites(p, f) \/ Delete(p, f) PROVE FALSE
      BY <2>5 DEF OtherWrites, Delete
    <2>6. CASE UNCHANGED content
      BY <2>6 DEF content
    <2>7. QED
      BY <2>1, <2>2, <2>3, <2>4, <2>5, <2>6, FileSteps
  <1>2. QED
    BY <1>1, Inductive, PTL DEF Spec, OriginalsOutliveSwitch
=============================================================================
