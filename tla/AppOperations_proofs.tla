------------------------ MODULE AppOperations_proofs ------------------------
(***************************************************************************)
(* What holds of AppOperations for every set of apps and requests, every   *)
(* mix of kinds of request, every pool size and number of restarts.        *)
(***************************************************************************)
EXTENDS AppOperations, TLAPS

(* What the writes of InstallState make of a row is a row. *)
LEMMA RowTyped ==
    /\ NoRow \in Row /\ Shipped \in Row
    /\ \A w \in Row, s \in {"none", "installing", "installed", "failed"} :
          /\ [w EXCEPT !.state = s] \in Row
          /\ [w EXCEPT !.state = s, !.known = TRUE] \in Row
    /\ \A w \in Row, b \in BOOLEAN : [w EXCEPT !.migrating = b] \in Row
  BY DEF Row, NoRow, Shipped

LEMMA TypeInit == ASSUME Init PROVE TypeOK
  <1>1. PICK f \in [App -> InitialApp] : /\ row = [a \in App |-> f[a][1]]
                                         /\ key = [a \in App |-> f[a][2]]
                                         /\ runtime = [a \in App |-> f[a][3]]
    BY DEF Init
  <1>2. \A a \in App : f[a][1] \in Row /\ f[a][2] \in BOOLEAN /\ f[a][3] \in Runtime
    <2> TAKE a \in App
    <2>1. NoRow \in Row /\ Shipped \in Row
      BY RowTyped
    <2>2. \/ f[a] = <<NoRow, FALSE, "absent">>
          \/ f[a] = <<NoRow, FALSE, "running">>
          \/ f[a] = <<Shipped, TRUE, "running">>
      BY DEF InitialApp
    <2>3. CASE f[a] = <<NoRow, FALSE, "absent">>
      <3>1. f[a][1] = NoRow /\ f[a][2] = FALSE /\ f[a][3] = "absent"
        BY <2>3
      <3>2. QED
        BY <2>1, <3>1 DEF Runtime
    <2>4. CASE f[a] = <<NoRow, FALSE, "running">>
      <3>1. f[a][1] = NoRow /\ f[a][2] = FALSE /\ f[a][3] = "running"
        BY <2>4
      <3>2. QED
        BY <2>1, <3>1 DEF Runtime
    <2>5. CASE f[a] = <<Shipped, TRUE, "running">>
      <3>1. f[a][1] = Shipped /\ f[a][2] = TRUE /\ f[a][3] = "running"
        BY <2>5
      <3>2. QED
        BY <2>1, <3>1 DEF Runtime
    <2>6. QED
      BY <2>2, <2>3, <2>4, <2>5
  <1>3. row \in [App -> Row] /\ key \in [App -> BOOLEAN] /\ runtime \in [App -> Runtime]
    BY <1>1, <1>2
  <1>4. QED
    BY <1>3, ConstantsAssumption DEF Init, TypeOK, Job, Pc, Task, Item

(* The updates of one field at a time keep their function's type. *)
LEMMA ItemTyped ==
    ASSUME TypeOK, NEW r \in Request, NEW a \in App, NEW s \in Item, ItemAt(r, a, s)
    PROVE  item' \in [Request -> [App -> Item]]
  BY DEF TypeOK, ItemAt

LEMMA ReservedTyped ==
    ASSUME TypeOK, NEW r \in Request, NEW a \in App, NEW j \in Job, ReserveForUpdate(r, a, j)
    PROVE  /\ reserved' \in SUBSET App
           /\ guard' \in [App -> Request \cup {Nobody}]
           /\ job' \in [App -> Job]
           /\ item' \in [Request -> [App -> Item]]
  <1>1. "queued" \in Item
    BY DEF Item, LiveItem
  <1>2. item' \in [Request -> [App -> Item]]
    BY <1>1 DEF TypeOK, ReserveForUpdate
  <1>3. QED
    BY <1>2 DEF TypeOK, ReserveForUpdate, Own

LEMMA InstallEndsTyped ==
    ASSUME TypeOK, NEW r \in Request,
           NEW s \in {"installing", "installed", "failed"}, InstallEnds(r, s)
    PROVE  row' \in [App -> Row] /\ task' \in [Request -> Task]
  <1>1. [row[target[r]] EXCEPT !.state = s] \in Row
    BY RowTyped DEF TypeOK
  <1>2. QED
    BY <1>1 DEF TypeOK, InstallEnds, Task, InstallTask

LEMMA TypeStep == ASSUME TypeOK, [Next]_vars PROVE TypeOK'
  <1> USE DEF TypeOK, locks, apps, handler, updates, Goto, Own, Disown, JobOver, ItemAt
  <1>1. CASE UNCHANGED vars
    BY <1>1 DEF vars
  <1>2. ASSUME NEW r \in Request, NEW k \in Kinds, NEW a \in App, Arrive(r, k, a)
        PROVE  TypeOK'
    BY <1>2 DEF Arrive, Pc
  <1>3. ASSUME NEW r \in Request, Handler(r) PROVE TypeOK'
    <2> USE DEF Pc, HolderPc
    <2>1. CASE TakeOpLock(r)
      BY <2>1 DEF TakeOpLock
    <2>2. CASE Admit(r)
      BY <2>2 DEF Admit
    <2>3. CASE Teardown(r)
      BY <2>3 DEF Teardown
    <2>4. CASE Unreserve(r)
      BY <2>4 DEF Unreserve
    <2>5. CASE InstallReserve(r)
      BY <2>5 DEF InstallReserve
    <2>6. CASE InstallLaunch(r)
      <3>1. [row[target[r]] EXCEPT !.state = "installing", !.known = TRUE] \in Row
        BY RowTyped
      <3>2. QED
        BY <2>6, <3>1 DEF InstallLaunch, Task, InstallTask
    <2>7. CASE InstallLaunchFails(r)
      <3>1. [row[target[r]] EXCEPT !.state = "failed", !.known = TRUE] \in Row
        BY RowTyped
      <3>2. QED
        BY <2>7, <3>1 DEF InstallLaunchFails
    <2>8. CASE InstallLaunchUnwritten(r)
      <3>1. [row[target[r]] EXCEPT !.state = "failed", !.known = TRUE] \in Row
        BY RowTyped
      <3>2. QED
        BY <2>8, <3>1 DEF InstallLaunchUnwritten
    <2>9. CASE UpdateCheck(r)
      BY <2>9 DEF UpdateCheck
    <2>10. CASE UpdateReserve(r)
      <3>1. CASE ReserveForUpdate(r, target[r], "updating") /\ pc' = [pc EXCEPT ![r] = "spawn"]
        BY <2>10, <3>1, ReservedTyped DEF UpdateReserve, Job
      <3>2. CASE UNCHANGED <<reserved, updates>> /\ pc' = [pc EXCEPT ![r] = "reply"]
        BY <2>10, <3>2 DEF UpdateReserve
      <3>3. QED
        BY <2>10, <3>1, <3>2 DEF UpdateReserve
    <2>11. CASE UpdateSpawn(r)
      BY <2>11 DEF UpdateSpawn, Task, Item, LiveItem
    <2>12. CASE UpdateSpawnFails(r)
      BY <2>12 DEF UpdateSpawnFails, Item
    <2>13. CASE UpdateUnspawned(r)
      BY <2>13 DEF UpdateUnspawned, Job
    <2>14. CASE BatchBegin(r)
      BY <2>14 DEF BatchBegin
    <2>15. CASE BatchReserve(r)
      <3>1. CASE ReserveForUpdate(r, target[r], "queued")
        BY <2>15, <3>1, ReservedTyped DEF BatchReserve, Job
      <3>2. CASE UNCHANGED <<reserved, updates>>
        BY <2>15, <3>2 DEF BatchReserve
      <3>3. QED
        BY <2>15, <3>1, <3>2 DEF BatchReserve
    <2>16. CASE BatchLaunch(r)
      BY <2>16 DEF BatchLaunch, Task
    <2>17. CASE BatchRaises(r)
      BY <2>17 DEF BatchRaises
    <2>18. CASE BatchAborted(r)
      BY <2>18 DEF BatchAborted
    <2>19. CASE \E a \in App : BatchLook(r, a)
      <3>1. PICK a \in App : BatchLook(r, a)
        BY <2>19
      <3>2. todo' \in [Request -> SUBSET App]
        BY <3>1 DEF BatchLook
      <3>3. target' \in [Request -> App] /\ pc' \in [Request -> Pc]
        BY <3>1 DEF BatchLook
      <3>4. QED
        BY <3>1, <3>2, <3>3 DEF BatchLook
    <2>20. CASE \E a \in App : BatchAbort(r, a)
      BY <2>20 DEF BatchAbort, Job, Item
    <2>21. CASE HandlerReserve(r)
      <3>1. CASE target[r] \in reserved
        BY <2>21, <3>1 DEF HandlerReserve
      <3>2. CASE target[r] \notin reserved
        BY <2>21, <3>2 DEF HandlerReserve
      <3>3. QED
        BY <3>1, <3>2
    <2>22. CASE StartCheck(r)
      BY <2>22 DEF StartCheck
    <2>23. CASE StartRun(r)
      <3>1. runtime' \in [App -> Runtime]
        BY <2>23 DEF StartRun, Runtime
      <3>2. QED
        BY <2>23, <3>1 DEF StartRun
    <2>24. CASE StopRun(r)
      BY <2>24 DEF StopRun, Runtime
    <2>25. CASE UninstallCheck(r)
      BY <2>25 DEF UninstallCheck
    <2>26. CASE UninstallRemove(r)
      BY <2>26 DEF UninstallRemove, Runtime
    <2>27. CASE UninstallKey(r)
      BY <2>27 DEF UninstallKey
    <2>28. CASE UninstallForget(r)
      BY <2>28 DEF UninstallForget, NoRow, Row
    <2>29. CASE StorageCheck(r)
      BY <2>29 DEF StorageCheck
    <2>30. CASE StorageStart(r)
      <3>1. [row[target[r]] EXCEPT !.migrating = TRUE] \in Row
        BY RowTyped
      <3>2. row' \in [App -> Row]
        BY <2>30, <3>1 DEF StorageStart
      <3>3. task' \in [Request -> Task]
        BY <2>30 DEF StorageStart, Task, MoveTask
      <3>4. QED
        BY <2>30, <3>2, <3>3 DEF StorageStart
    <2>31. CASE AdoptLook(r)
      BY <2>31 DEF AdoptLook
    <2>32. CASE AdoptRegister(r)
      <3>1. [row[target[r]] EXCEPT !.state = "installed", !.known = TRUE] \in Row
        BY RowTyped
      <3>2. QED
        <4>1. row' \in [App -> Row]
          BY <2>32, <3>1 DEF AdoptRegister
        <4>2. QED
          BY <2>32, <4>1 DEF AdoptRegister
    <2>33. CASE LinkKey(r)
      BY <2>33 DEF LinkKey
    <2>34. CASE LinkUp(r)
      <3>1. runtime' \in [App -> Runtime]
        BY <2>34 DEF LinkUp, Runtime
      <3>2. QED
        BY <2>34, <3>1 DEF LinkUp
    <2>35. QED
      BY <1>3, <2>1, <2>2, <2>3, <2>4, <2>5, <2>6, <2>7, <2>8, <2>9, <2>10, <2>11, <2>12,
         <2>13, <2>14, <2>15, <2>16, <2>17, <2>18, <2>19, <2>20, <2>21, <2>22, <2>23, <2>24,
         <2>25, <2>26, <2>27, <2>28, <2>29, <2>30, <2>31, <2>32, <2>33, <2>34
         DEF Handler
  <1>4. ASSUME NEW r \in Request, Thread(r) PROVE TypeOK'
    <2> USE DEF Task, InstallTask, MoveTask
    <2>1. CASE InstallBuild(r)
      <3>1. row' \in [App -> Row] /\ task' \in [Request -> Task]
        BY <2>1, InstallEndsTyped DEF InstallBuild, Failure
      <3>2. QED
        BY <2>1, <3>1 DEF InstallBuild
    <2>2. CASE InstallUp(r)
      <3>1. row' \in [App -> Row] /\ task' \in [Request -> Task]
        BY <2>2, InstallEndsTyped DEF InstallUp, Failure
      <3>2. runtime' \in [App -> Runtime]
        BY <2>2 DEF InstallUp, Runtime
      <3>3. QED
        BY <2>2, <3>1, <3>2 DEF InstallUp
    <2>3. CASE InstallVerify(r)
      <3>1. row' \in [App -> Row] /\ task' \in [Request -> Task]
        BY <2>3, InstallEndsTyped DEF InstallVerify, Failure
      <3>2. QED
        BY <2>3, <3>1 DEF InstallVerify
    <2>4. CASE InstallRelease(r)
      BY <2>4 DEF InstallRelease
    <2>5. CASE StorageChecks(r)
      BY <2>5 DEF StorageChecks
    <2>6. CASE StoragePause(r)
      BY <2>6 DEF StoragePause, Runtime
    <2>7. CASE StorageActivate(r)
      BY <2>7 DEF StorageActivate, Runtime
    <2>8. CASE StorageSettle(r)
      BY <2>8 DEF StorageSettle, Row
    <2>9. CASE BatchEnd(r)
      BY <2>9 DEF BatchEnd
    <2>10. ASSUME NEW a \in App,
                  \/ UpdateMerge(r, a) \/ UpdateApply(r, a) \/ UpdateRollbackRaises(r, a)
                  \/ UpdatePop(r, a) \/ UpdateExit(r, a) \/ BatchPick(r, a) \/ BatchSweep(r, a)
           PROVE  TypeOK'
      <3> USE DEF Job, Item, LiveItem
      <3>1. CASE UpdateMerge(r, a)
        <4>1. item' \in [Request -> [App -> Item]]
          BY <3>1, ItemTyped DEF UpdateMerge
        <4>2. QED
          BY <3>1, <4>1 DEF UpdateMerge
      <3>2. CASE UpdateApply(r, a)
        <4>1. runtime' \in [App -> Runtime]
          BY <3>2 DEF UpdateApply, Runtime
        <4>2. QED
          BY <3>2, <4>1 DEF UpdateApply
      <3>3. CASE UpdateRollbackRaises(r, a)
        BY <3>3 DEF UpdateRollbackRaises, Runtime
      <3>4. CASE UpdatePop(r, a)
        BY <3>4 DEF UpdatePop
      <3>5. CASE UpdateExit(r, a)
        BY <3>5 DEF UpdateExit
      <3>6. CASE BatchPick(r, a)
        BY <3>6 DEF BatchPick
      <3>7. CASE BatchSweep(r, a)
        <4>1. PICK s \in {"popped", "none"} : item' = [item EXCEPT ![r][a] = s]
          BY <3>7 DEF BatchSweep
        <4>2. item' \in [Request -> [App -> Item]]
          BY <4>1
        <4>3. QED
          BY <3>7, <4>2 DEF BatchSweep
      <3>8. QED
        BY <2>10, <3>1, <3>2, <3>3, <3>4, <3>5, <3>6, <3>7
    <2>11. CASE BatchSubmitFails(r)
      <3>1. item' \in [Request -> [App -> Item]]
        BY <2>11 DEF BatchSubmitFails, Item, LiveItem
      <3>2. QED
        BY <2>11, <3>1 DEF BatchSubmitFails
    <2>12. QED
      BY <1>4, <2>1, <2>2, <2>3, <2>4, <2>5, <2>6, <2>7, <2>8, <2>9, <2>10, <2>11 DEF Thread
  <1>5. CASE Restart
    <2>1. row' \in [App -> Row]
      BY <1>5, RowTyped DEF Restart
    <2>2. restarts' \in 0..MaxRestarts
      BY <1>5, ConstantsAssumption DEF Restart
    <2>3. QED
      BY <1>5, <2>1, <2>2 DEF Restart, Job, Pc, Task, Item
  <1>6. QED
    BY <1>1, <1>2, <1>3, <1>4, <1>5 DEF Next

(* Every variable keeps its type: in particular the reservations and guards *)
(* name apps and requests only, and a row is always one of the known states. *)
THEOREM TypeCorrect == Spec => []TypeOK
  <1>1. Init => TypeOK
    BY TypeInit
  <1>2. TypeOK /\ [Next]_vars => TypeOK'
    BY TypeStep
  <1>3. QED
    BY <1>1, <1>2, PTL DEF Spec

-----------------------------------------------------------------------------
(* The reservations.  OneHolder and HolderReserves are not inductive by      *)
(* themselves: a request must not be able to hold an app twice over, once   *)
(* as a handler and once through an update it left behind.                  *)

(* Only a write of the install state that fails leaves a reservation behind. *)
NoneLeft == \A a \in reserved : \E r \in Request : Holds(r, a)
Reservations == HolderReserves /\ (WriteFails = FALSE => NoneLeft)

(* Where an update of request r can be: in the handler that reserved it, in *)
(* the single update thread, or in the batch.                               *)
Placed(r) ==
    /\ task[r] # "none" => pc[r] \in {"idle", "reply"}
    /\ pc[r] = "spawn" => item[r][target[r]] = "queued"
    /\ \A a \in App : item[r][a] # "none" =>
          \/ pc[r] \in {"scan", "found", "abort"}
          \/ pc[r] \in {"spawn", "unspawned"} /\ a = target[r]
          \/ task[r] = "update" /\ a = target[r]
          \/ task[r] = "batch"

Placement == \A r \in Request : Placed(r)

IInv == /\ TypeOK
        /\ OneHolder
        /\ Reservations
        /\ GuardMatchesUpdate
        /\ Placement

(* Held by the handler or the installation of r, rather than by an update. *)
HeldBySelf(r) == pc[r] \in HolderPc \/ task[r] \in InstallTask
Holding == LiveItem \cup {"popped"}

(* A step after which the same requests hold the same apps.                 *)
LEMMA SameHolders ==
    ASSUME IInv, UNCHANGED reserved,
           \A s \in Request, b \in App : Holds(s, b)' <=> Holds(s, b)
    PROVE  OneHolder' /\ Reservations'
  <1>1. OneHolder'
    BY DEF IInv, OneHolder
  <1>2. HolderReserves'
    BY DEF IInv, Reservations, HolderReserves
  <1>3. TypeOK => (NoneLeft => NoneLeft')
    BY DEF NoneLeft, TypeOK
  <1>4. QED
    BY <1>1, <1>2, <1>3 DEF IInv, Reservations

(* A step that touches neither reservations nor updates, and of requests    *)
(* only r, without changing what r holds.                                   *)
LEMMA QuietStep ==
    ASSUME IInv, TypeOK', NEW r \in Request,
           UNCHANGED <<reserved, guard, item>>,
           \A s \in Request \ {r} : target'[s] = target[s] /\ pc'[s] = pc[s] /\ task'[s] = task[s],
           Placed(r)',
           HeldBySelf(r)' <=> HeldBySelf(r),
           HeldBySelf(r) => target'[r] = target[r]
    PROVE  IInv'
  <1>1. \A s \in Request, a \in App : Holds(s, a)' <=> Holds(s, a)
    BY DEF Holds, HeldBySelf
  <1>2. OneHolder' /\ Reservations'
    BY <1>1, SameHolders
  <1>3. GuardMatchesUpdate'
    BY DEF IInv, GuardMatchesUpdate
  <1>4. Placement'
    BY DEF IInv, Placement, Placed
  <1>5. QED
    BY <1>2, <1>3, <1>4 DEF IInv

(* A step that takes the free app a for r.                                  *)
LEMMA TakeStep ==
    ASSUME IInv, TypeOK', NEW r \in Request, NEW a \in App,
           a \notin reserved, Own(a),
           \A s \in Request, b \in App : Holds(s, b)' <=> Holds(s, b) \/ (s = r /\ b = a)
    PROVE  OneHolder' /\ Reservations'
  <1>1. \A s \in Request : ~Holds(s, a)
    BY DEF IInv, Reservations, HolderReserves
  <1>2. OneHolder'
    BY <1>1 DEF IInv, OneHolder
  <1>3. HolderReserves'
    BY DEF IInv, Reservations, HolderReserves, Own
  <1>4. TypeOK => (NoneLeft => NoneLeft')
    BY DEF NoneLeft, Own, TypeOK
  <1>5. QED
    BY <1>2, <1>3, <1>4 DEF IInv, Reservations

(* A step by which the holder r of a gives it back.                         *)
LEMMA DropStep ==
    ASSUME IInv, TypeOK', NEW r \in Request, NEW a \in App,
           Holds(r, a), Disown(a),
           \A s \in Request, b \in App : Holds(s, b)' <=> Holds(s, b) /\ ~(s = r /\ b = a)
    PROVE  OneHolder' /\ Reservations'
  <1>1. \A s \in Request : Holds(s, a) => s = r
    BY DEF IInv, OneHolder
  <1>2. OneHolder'
    BY DEF IInv, OneHolder
  <1>3. HolderReserves'
    BY <1>1 DEF IInv, Reservations, HolderReserves, Disown
  <1>4. TypeOK => (NoneLeft => NoneLeft')
    BY DEF NoneLeft, Disown, TypeOK
  <1>5. QED
    BY <1>2, <1>3, <1>4 DEF IInv, Reservations

(* Where a handler neither has a reservation of its own nor updates to       *)
(* answer for.                                                              *)
Plain == {"idle", "waiting", "locked", "admitted", "checked", "clear", "linking",
          "adopt", "reply"}

(* The handler of r goes on, outside its reservation or within it.          *)
LEMMA HandlerMoves ==
    ASSUME IInv, TypeOK', NEW r \in Request, NEW l \in Pc,
           UNCHANGED <<reserved, guard, item, task, target>>,
           pc' = [pc EXCEPT ![r] = l],
           \/ pc[r] \in Plain \ {"idle", "reply"} /\ l \in Plain \cup {"scan"}
           \/ pc[r] \in HolderPc /\ l \in HolderPc
           \/ pc[r] = "reply" /\ l = "idle"
    PROVE  IInv'
  <1>1. Placed(r) /\ pc'[r] = l /\ (\A s \in Request \ {r} : pc'[s] = pc[s])
    BY DEF IInv, TypeOK, Placement
  <1>2. Placed(r)'
    BY <1>1 DEF Placed, Plain, HolderPc
  <1>3. HeldBySelf(r)' <=> HeldBySelf(r)
    BY <1>1 DEF HeldBySelf, Plain, HolderPc
  <1>4. QED
    BY <1>1, <1>2, <1>3, QuietStep

(* The thread of r goes on: an installation that keeps its reservation, or a *)
(* migration, which has none.                                               *)
LEMMA ThreadMoves ==
    ASSUME IInv, TypeOK', NEW r \in Request, NEW t \in Task,
           UNCHANGED <<reserved, guard, item, pc, target>>,
           task' = [task EXCEPT ![r] = t],
           \/ task[r] \in InstallTask /\ t \in InstallTask
           \/ task[r] \in MoveTask /\ t \in MoveTask \cup {"none"}
    PROVE  IInv'
  <1>1. Placed(r) /\ task'[r] = t /\ (\A s \in Request \ {r} : task'[s] = task[s])
    BY DEF IInv, TypeOK, Placement
  <1>2. Placed(r)'
    BY <1>1 DEF Placed, InstallTask, MoveTask
  <1>3. HeldBySelf(r)' <=> HeldBySelf(r)
    BY <1>1 DEF HeldBySelf, InstallTask, MoveTask
  <1>4. QED
    BY <1>1, <1>2, <1>3, QuietStep

(* The update of a by r goes on, with its reservation; or _release pops the *)
(* guard of it.                                                             *)
LEMMA ItemMoves ==
    ASSUME IInv, TypeOK', NEW r \in Request, NEW a \in App, NEW i \in Item,
           UNCHANGED <<reserved, pc, target, task>>,
           item' = [item EXCEPT ![r][a] = i],
           pc[r] # "spawn",
           item[r][a] # "none",
           \/ UNCHANGED guard /\ (item[r][a] \in LiveItem <=> i \in LiveItem) /\ i # "popped"
              /\ item[r][a] # "popped"
           \/ guard' = [guard EXCEPT ![a] = Nobody] /\ item[r][a] \in LiveItem /\ i = "popped"
    PROVE  IInv'
  <1>1. /\ item'[r][a] = i
        /\ \A b \in App \ {a} : item'[r][b] = item[r][b]
        /\ \A s \in Request \ {r} : item'[s] = item[s]
    BY DEF IInv, TypeOK
  <1>2. \A s \in Request, b \in App : Holds(s, b)' <=> Holds(s, b)
    BY <1>1 DEF Holds, LiveItem
  <1>3. OneHolder' /\ Reservations'
    BY <1>2, SameHolders
  <1>4. GuardMatchesUpdate'
    <2>1. CASE UNCHANGED guard /\ (item[r][a] \in LiveItem <=> i \in LiveItem)
      <3>1. \A s \in Request, b \in App : item'[s][b] \in LiveItem <=> item[s][b] \in LiveItem
        BY <1>1, <2>1
      <3>2. QED
        BY <2>1, <3>1 DEF IInv, GuardMatchesUpdate
    <2>2. CASE guard' = [guard EXCEPT ![a] = Nobody] /\ item[r][a] \in LiveItem /\ i = "popped"
      <3>1. guard[a] = r /\ i \notin LiveItem
        BY <2>2 DEF IInv, GuardMatchesUpdate, LiveItem
      <3>2. guard'[a] = Nobody /\ Nobody \notin Request /\ \A b \in App \ {a} : guard'[b] = guard[b]
        BY <2>2, ConstantsAssumption DEF IInv, TypeOK
      <3>3. QED
        BY <1>1, <3>1, <3>2 DEF IInv, GuardMatchesUpdate
    <2>3. QED
      BY <2>1, <2>2
  <1>5. Placement'
    BY <1>1 DEF IInv, Placement, Placed
  <1>6. QED
    BY <1>3, <1>4, <1>5 DEF IInv

(* A reservation for an update: the app was free, so it had no update.      *)
LEMMA ReserveStep ==
    ASSUME IInv, TypeOK', NEW r \in Request, NEW a \in App, NEW j \in Job,
           a \notin reserved, ReserveForUpdate(r, a, j),
           target[r] = a, UNCHANGED <<target, task>>,
           \A s \in Request \ {r} : pc'[s] = pc[s],
           \/ pc[r] = "checked" /\ pc'[r] = "spawn"
           \/ pc[r] = "found" /\ pc'[r] = "scan"
    PROVE  IInv'
  <1>1. /\ item'[r][a] = "queued"
        /\ \A b \in App \ {a} : item'[r][b] = item[r][b]
        /\ \A s \in Request \ {r} : item'[s] = item[s]
    BY DEF IInv, TypeOK, ReserveForUpdate
  <1>2. guard'[a] = r /\ \A b \in App \ {a} : guard'[b] = guard[b]
    BY DEF IInv, TypeOK, ReserveForUpdate
  <1>3. Placed(r)
    BY DEF IInv, Placement
  <1>4. \A s \in Request, b \in App : Holds(s, b)' <=> Holds(s, b) \/ (s = r /\ b = a)
    BY <1>1 DEF Holds, LiveItem, HolderPc
  <1>5. OneHolder' /\ Reservations'
    BY <1>4, TakeStep DEF ReserveForUpdate
  <1>6. GuardMatchesUpdate'
    <2>1. \A s \in Request : item[s][a] \notin LiveItem
      BY DEF IInv, Reservations, HolderReserves, Holds
    <2>2. QED
      BY <1>1, <1>2, <2>1 DEF IInv, GuardMatchesUpdate, LiveItem
  <1>7. Placed(r)'
    BY <1>1, <1>3 DEF Placed
  <1>8. Placement'
    BY <1>1, <1>7 DEF IInv, Placement, Placed
  <1>9. QED
    BY <1>5, <1>6, <1>8 DEF IInv

LEMMA ReservationStep == ASSUME IInv, [Next]_vars PROVE IInv'
  <1> USE DEF Goto, locks, apps, handler, updates
  <1>0. TypeOK /\ Placement /\ TypeOK'
    BY TypeStep DEF IInv
  <1>1. CASE UNCHANGED vars
    <2>1. /\ opLock' = opLock /\ reserved' = reserved /\ guard' = guard /\ target' = target
          /\ pc' = pc /\ task' = task /\ item' = item
      BY <1>1 DEF vars
    <2>2. \A s \in Request, b \in App : Holds(s, b)' <=> Holds(s, b)
      BY <2>1 DEF Holds
    <2>3. GuardMatchesUpdate' /\ Placement'
      BY <2>1 DEF IInv, GuardMatchesUpdate, Placement, Placed
    <2>4. QED
      BY <1>0, <2>1, <2>2, <2>3, SameHolders DEF IInv
  <1>2. ASSUME NEW r \in Request, NEW k \in Kinds, NEW a \in App, Arrive(r, k, a)
        PROVE  IInv'
    <2>1. /\ Placed(r) /\ pc[r] = "idle" /\ task[r] = "none" /\ task' = task /\ item' = item
          /\ pc'[r] = "waiting"
          /\ \A s \in Request \ {r} : pc'[s] = pc[s] /\ target'[s] = target[s]
      BY <1>0, <1>2 DEF Arrive, TypeOK, Placement
    <2>2. Placed(r)' /\ ~HeldBySelf(r) /\ ~HeldBySelf(r)'
      BY <2>1 DEF Placed, HeldBySelf, HolderPc, InstallTask
    <2>3. QED
      BY <1>0, <1>2, <2>1, <2>2, QuietStep DEF Arrive
  <1>3. ASSUME NEW r \in Request, Handler(r) PROVE IInv'
    <2> USE DEF Plain, HolderPc, Pc
    <2>p. Placed(r)
      BY <1>0 DEF Placement
    <2>1. CASE TakeOpLock(r)
      BY <1>0, <2>1, HandlerMoves DEF TakeOpLock
    <2>2. CASE Admit(r)
      BY <1>0, <2>2, HandlerMoves DEF Admit
    <2>3. CASE Teardown(r)
      BY <1>0, <2>3, HandlerMoves DEF Teardown
    <2>4. CASE Unreserve(r)
      <3>1. /\ pc[r] = "unreserve" /\ pc'[r] = "reply" /\ task' = task /\ item' = item
            /\ target' = target /\ guard' = guard
            /\ \A s \in Request \ {r} : pc'[s] = pc[s]
        BY <1>0, <2>4 DEF Unreserve, TypeOK
      <3>2. \A a \in App : item[r][a] = "none"
        BY <1>0, <2>p, <3>1 DEF Placed
      <3>3. Holds(r, target[r])
        BY <3>1 DEF Holds
      <3>4. \A s \in Request, b \in App : Holds(s, b)' <=> Holds(s, b) /\ ~(s = r /\ b = target[r])
        BY <2>p, <3>1, <3>2 DEF Holds, Placed, InstallTask, LiveItem
      <3>5. OneHolder' /\ Reservations'
        BY <1>0, <2>4, <3>3, <3>4, DropStep DEF Unreserve, TypeOK
      <3>6. GuardMatchesUpdate' /\ Placement'
        BY <1>0, <2>p, <3>1 DEF IInv, GuardMatchesUpdate, Placement, Placed
      <3>7. QED
        BY <1>0, <3>5, <3>6 DEF IInv
    <2>5. CASE InstallReserve(r)
      <3>1. CASE target[r] \in reserved
        BY <1>0, <2>5, <3>1, HandlerMoves DEF InstallReserve
      <3>2. CASE target[r] \notin reserved
        <4>1. /\ pc[r] = "admitted" /\ pc'[r] = "reserved" /\ task' = task /\ item' = item
              /\ target' = target /\ guard' = guard
              /\ \A s \in Request \ {r} : pc'[s] = pc[s]
          BY <1>0, <2>5, <3>2 DEF InstallReserve, TypeOK
        <4>2. \A s \in Request, b \in App : Holds(s, b)' <=> Holds(s, b) \/ (s = r /\ b = target[r])
          BY <2>p, <4>1 DEF Holds, Placed, InstallTask
        <4>3. OneHolder' /\ Reservations'
          BY <1>0, <2>5, <3>2, <4>2, TakeStep DEF InstallReserve, TypeOK
        <4>4. GuardMatchesUpdate' /\ Placement'
          BY <1>0, <2>p, <4>1 DEF IInv, GuardMatchesUpdate, Placement, Placed
        <4>5. QED
          BY <1>0, <4>3, <4>4 DEF IInv
      <3>3. QED
        BY <3>1, <3>2
    <2>6. CASE InstallLaunch(r)
      <3>1. /\ pc[r] = "reserved" /\ pc'[r] = "reply" /\ task'[r] = "build" /\ item' = item
            /\ target' = target
            /\ \A s \in Request \ {r} : pc'[s] = pc[s] /\ task'[s] = task[s]
        BY <1>0, <2>6 DEF InstallLaunch, TypeOK
      <3>2. Placed(r)' /\ HeldBySelf(r) /\ HeldBySelf(r)'
        BY <2>p, <3>1 DEF Placed, HeldBySelf, InstallTask
      <3>3. QED
        BY <1>0, <2>6, <3>1, <3>2, QuietStep DEF InstallLaunch
    <2>7. CASE InstallLaunchFails(r)
      BY <1>0, <2>7, HandlerMoves DEF InstallLaunchFails
    <2>8. CASE InstallLaunchUnwritten(r)
      <3>1. /\ pc[r] = "reserved" /\ pc'[r] = "reply" /\ task' = task /\ item' = item
            /\ target' = target /\ guard' = guard /\ reserved' = reserved /\ WriteFails # FALSE
            /\ \A s \in Request \ {r} : pc'[s] = pc[s]
        BY <1>0, <2>8 DEF InstallLaunchUnwritten, TypeOK
      <3>2. \A s \in Request, b \in App : Holds(s, b)' => Holds(s, b)
        BY <3>1 DEF Holds
      <3>3. OneHolder' /\ Reservations'
        BY <3>1, <3>2 DEF IInv, OneHolder, Reservations, HolderReserves
      <3>4. GuardMatchesUpdate' /\ Placement'
        BY <1>0, <2>p, <3>1 DEF IInv, GuardMatchesUpdate, Placement, Placed
      <3>5. QED
        BY <1>0, <3>3, <3>4 DEF IInv
    <2>9. CASE UpdateCheck(r)
      <3>1. PICK l \in {"checked", "reply"} : pc' = [pc EXCEPT ![r] = l]
        BY <2>9 DEF UpdateCheck
      <3>2. QED
        BY <1>0, <2>9, <3>1, HandlerMoves DEF UpdateCheck
    <2>10. CASE UpdateReserve(r)
      <3>1. CASE pc' = [pc EXCEPT ![r] = "reply"] /\ UNCHANGED <<reserved, updates>>
        BY <1>0, <2>10, <3>1, HandlerMoves DEF UpdateReserve
      <3>2. CASE /\ target[r] \notin reserved
                 /\ ReserveForUpdate(r, target[r], "updating") /\ pc' = [pc EXCEPT ![r] = "spawn"]
        <4>1. pc[r] = "checked" /\ pc'[r] = "spawn" /\ \A s \in Request \ {r} : pc'[s] = pc[s]
          BY <1>0, <2>10, <3>2 DEF UpdateReserve, TypeOK
        <4>2. target[r] \in App /\ "updating" \in Job
          BY <1>0 DEF TypeOK, Job
        <4>3. QED
          BY <1>0, <2>10, <3>2, <4>1, <4>2, ReserveStep DEF UpdateReserve
      <3>3. QED
        BY <2>10, <3>1, <3>2 DEF UpdateReserve, MayReserveForUpdate
    <2>11. CASE UpdateSpawn(r)
      <3>1. /\ pc[r] = "spawn" /\ pc'[r] = "reply" /\ task'[r] = "update"
            /\ item[r][target[r]] = "queued" /\ item'[r][target[r]] = "run"
            /\ \A b \in App \ {target[r]} : item'[r][b] = item[r][b]
            /\ \A s \in Request \ {r} : pc'[s] = pc[s] /\ task'[s] = task[s] /\ item'[s] = item[s]
            /\ target' = target /\ guard' = guard /\ reserved' = reserved
        BY <1>0, <2>p, <2>11 DEF UpdateSpawn, TypeOK, Placed
      <3>2. task[r] = "none"
        BY <1>0, <2>p, <3>1 DEF Placed
      <3>3. \A s \in Request, b \in App : Holds(s, b)' <=> Holds(s, b)
        BY <3>1, <3>2 DEF Holds, LiveItem, InstallTask
      <3>4. OneHolder' /\ Reservations'
        BY <3>1, <3>3, SameHolders
      <3>5. \A s \in Request, b \in App : item'[s][b] \in LiveItem <=> item[s][b] \in LiveItem
        BY <3>1 DEF LiveItem
      <3>6. GuardMatchesUpdate'
        BY <3>1, <3>5 DEF IInv, GuardMatchesUpdate
      <3>7. Placement'
        BY <1>0, <2>p, <3>1 DEF Placement, Placed
      <3>8. QED
        BY <1>0, <3>4, <3>6, <3>7 DEF IInv
    <2>12. CASE UpdateSpawnFails(r)
      <3>1. /\ pc[r] = "spawn" /\ pc'[r] = "unspawned" /\ task' = task
            /\ item[r][target[r]] = "queued" /\ item'[r][target[r]] = "popped"
            /\ \A b \in App \ {target[r]} : item'[r][b] = item[r][b]
            /\ \A s \in Request \ {r} : pc'[s] = pc[s] /\ item'[s] = item[s]
            /\ target' = target /\ reserved' = reserved
            /\ guard'[target[r]] = Nobody
            /\ \A b \in App \ {target[r]} : guard'[b] = guard[b]
        BY <1>0, <2>p, <2>12 DEF UpdateSpawnFails, TypeOK, Placed
      <3>2. target[r] \in App /\ guard[target[r]] = r
        BY <1>0, <3>1 DEF IInv, GuardMatchesUpdate, LiveItem, TypeOK
      <3>3. \A s \in Request, b \in App : Holds(s, b)' <=> Holds(s, b)
        BY <3>1 DEF Holds, LiveItem
      <3>4. OneHolder' /\ Reservations'
        BY <3>1, <3>3, SameHolders
      <3>5. GuardMatchesUpdate'
        BY <3>1, <3>2, ConstantsAssumption DEF IInv, GuardMatchesUpdate, LiveItem
      <3>6. Placement'
        BY <1>0, <2>p, <3>1 DEF Placement, Placed
      <3>7. QED
        BY <1>0, <3>4, <3>5, <3>6 DEF IInv
    <2>13. CASE UpdateUnspawned(r)
      <3>1. /\ pc[r] = "unspawned" /\ pc'[r] = "reply" /\ item[r][target[r]] = "none"
            /\ \A s \in Request \ {r} : pc'[s] = pc[s]
        BY <1>0, <2>13 DEF UpdateUnspawned, TypeOK
      <3>2. Placed(r)' /\ ~HeldBySelf(r) /\ ~HeldBySelf(r)'
        BY <2>p, <2>13, <3>1 DEF UpdateUnspawned, Placed, HeldBySelf, InstallTask
      <3>3. QED
        BY <1>0, <2>13, <3>1, <3>2, QuietStep DEF UpdateUnspawned
    <2>14. CASE BatchBegin(r)
      <3>1. PICK l \in {"scan", "reply"} : pc' = [pc EXCEPT ![r] = l]
        BY <2>14 DEF BatchBegin
      <3>2. QED
        BY <1>0, <2>14, <3>1, HandlerMoves DEF BatchBegin
    <2>15. CASE BatchReserve(r)
      <3>1. pc[r] = "found" /\ pc'[r] = "scan" /\ \A s \in Request \ {r} : pc'[s] = pc[s]
        BY <1>0, <2>15 DEF BatchReserve, TypeOK
      <3>2. CASE UNCHANGED <<reserved, updates>>
        <4>1. Placed(r)' /\ ~HeldBySelf(r) /\ ~HeldBySelf(r)'
          BY <2>p, <2>15, <3>1, <3>2 DEF BatchReserve, Placed, HeldBySelf, InstallTask
        <4>2. QED
          BY <1>0, <2>15, <3>1, <3>2, <4>1, QuietStep DEF BatchReserve
      <3>3. CASE target[r] \notin reserved /\ ReserveForUpdate(r, target[r], "queued")
        <4>1. target[r] \in App /\ "queued" \in Job
          BY <1>0 DEF TypeOK, Job
        <4>2. QED
          BY <1>0, <2>15, <3>1, <3>3, <4>1, ReserveStep DEF BatchReserve
      <3>4. QED
        BY <2>15, <3>2, <3>3 DEF BatchReserve, MayReserveForUpdate
    <2>16. CASE BatchLaunch(r)
      <3>1. /\ pc[r] = "scan" /\ pc'[r] = "reply"
            /\ \A s \in Request \ {r} : pc'[s] = pc[s] /\ task'[s] = task[s]
            /\ \/ task'[r] = "batch"
               \/ task'[r] = task[r] /\ \A a \in App : item[r][a] = "none"
        BY <1>0, <2>16 DEF BatchLaunch, TypeOK
      <3>2. Placed(r)' /\ ~HeldBySelf(r) /\ ~HeldBySelf(r)'
        BY <2>p, <2>16, <3>1 DEF BatchLaunch, Placed, HeldBySelf, InstallTask
      <3>3. QED
        BY <1>0, <2>16, <3>1, <3>2, QuietStep DEF BatchLaunch
    <2>17. CASE BatchRaises(r)
      <3>1. /\ pc[r] \in {"scan", "found"} /\ pc'[r] = "abort"
            /\ \A s \in Request \ {r} : pc'[s] = pc[s]
        BY <1>0, <2>17 DEF BatchRaises, TypeOK
      <3>2. Placed(r)' /\ ~HeldBySelf(r) /\ ~HeldBySelf(r)'
        BY <2>p, <2>17, <3>1 DEF BatchRaises, Placed, HeldBySelf, InstallTask
      <3>3. QED
        BY <1>0, <2>17, <3>1, <3>2, QuietStep DEF BatchRaises
    <2>18. CASE BatchAborted(r)
      <3>1. /\ pc[r] = "abort" /\ pc'[r] = "reply" /\ \A a \in App : item[r][a] = "none"
            /\ \A s \in Request \ {r} : pc'[s] = pc[s]
        BY <1>0, <2>18 DEF BatchAborted, TypeOK
      <3>2. Placed(r)' /\ ~HeldBySelf(r) /\ ~HeldBySelf(r)'
        BY <2>p, <2>18, <3>1 DEF BatchAborted, Placed, HeldBySelf, InstallTask
      <3>3. QED
        BY <1>0, <2>18, <3>1, <3>2, QuietStep DEF BatchAborted
    <2>19. CASE \E a \in App : BatchLook(r, a)
      <3>1. PICK a \in App : BatchLook(r, a)
        BY <2>19
      <3>2. /\ pc[r] = "scan" /\ pc'[r] \in {"scan", "found"}
            /\ \A s \in Request \ {r} : pc'[s] = pc[s] /\ target'[s] = target[s]
        BY <1>0, <3>1 DEF BatchLook, TypeOK
      <3>3. Placed(r)' /\ ~HeldBySelf(r) /\ ~HeldBySelf(r)'
        BY <2>p, <3>1, <3>2 DEF BatchLook, Placed, HeldBySelf, InstallTask
      <3>4. QED
        BY <1>0, <3>1, <3>2, <3>3, QuietStep DEF BatchLook
    <2>20. CASE \E a \in App : BatchAbort(r, a)
      <3>1. PICK a \in App : BatchAbort(r, a)
        BY <2>20
      <3>2. QED
        BY <1>0, <3>1, ItemMoves DEF BatchAbort, ItemAt, Item, LiveItem
    <2>21. CASE HandlerReserve(r)
      <3>1. CASE target[r] \in reserved
        BY <1>0, <2>21, <3>1, HandlerMoves DEF HandlerReserve
      <3>2. CASE target[r] \notin reserved
        <4>1. /\ pc[r] = "admitted" /\ pc'[r] = "acting" /\ task' = task /\ item' = item
              /\ target' = target /\ guard' = guard
              /\ \A s \in Request \ {r} : pc'[s] = pc[s]
          BY <1>0, <2>21, <3>2 DEF HandlerReserve, TypeOK
        <4>2. \A s \in Request, b \in App : Holds(s, b)' <=> Holds(s, b) \/ (s = r /\ b = target[r])
          BY <2>p, <4>1 DEF Holds, Placed, InstallTask
        <4>3. OneHolder' /\ Reservations'
          BY <1>0, <2>21, <3>2, <4>2, TakeStep DEF HandlerReserve, TypeOK
        <4>4. GuardMatchesUpdate' /\ Placement'
          BY <1>0, <2>p, <4>1 DEF IInv, GuardMatchesUpdate, Placement, Placed
        <4>5. QED
          BY <1>0, <4>3, <4>4 DEF IInv
      <3>3. QED
        BY <3>1, <3>2
    <2>22. CASE StartCheck(r)
      <3>1. PICK l \in {"starting", "unreserve"} : pc' = [pc EXCEPT ![r] = l]
        BY <2>22 DEF StartCheck
      <3>2. QED
        BY <1>0, <2>22, <3>1, HandlerMoves DEF StartCheck
    <2>23. CASE StartRun(r)
      BY <1>0, <2>23, HandlerMoves DEF StartRun
    <2>24. CASE StopRun(r)
      BY <1>0, <2>24, HandlerMoves DEF StopRun
    <2>25. CASE UninstallCheck(r)
      BY <1>0, <2>25, HandlerMoves DEF UninstallCheck
    <2>26. CASE UninstallRemove(r)
      <3>1. PICK l \in {"removed", "unreserve"} : pc' = [pc EXCEPT ![r] = l]
        BY <2>26 DEF UninstallRemove
      <3>2. QED
        BY <1>0, <2>26, <3>1, HandlerMoves DEF UninstallRemove
    <2>27. CASE UninstallKey(r)
      <3>1. PICK l \in {"forget", "unreserve"} : pc' = [pc EXCEPT ![r] = l]
        BY <2>27 DEF UninstallKey
      <3>2. QED
        BY <1>0, <2>27, <3>1, HandlerMoves DEF UninstallKey
    <2>28. CASE UninstallForget(r)
      BY <1>0, <2>28, HandlerMoves DEF UninstallForget
    <2>29. CASE StorageCheck(r)
      BY <1>0, <2>29, HandlerMoves DEF StorageCheck
    <2>30. CASE StorageStart(r)
      <3>1. /\ pc[r] = "clear" /\ pc'[r] = "reply" /\ task'[r] \in {task[r], "check", "none"}
            /\ \A s \in Request \ {r} : pc'[s] = pc[s] /\ task'[s] = task[s]
        BY <1>0, <2>30 DEF StorageStart, TypeOK
      <3>2. Placed(r)' /\ ~HeldBySelf(r) /\ ~HeldBySelf(r)'
        BY <2>p, <2>30, <3>1 DEF StorageStart, Placed, HeldBySelf, InstallTask
      <3>3. QED
        BY <1>0, <2>30, <3>1, <3>2, QuietStep DEF StorageStart
    <2>31. CASE AdoptLook(r)
      BY <1>0, <2>31, HandlerMoves DEF AdoptLook
    <2>32. CASE AdoptRegister(r)
      BY <1>0, <2>32, HandlerMoves DEF AdoptRegister
    <2>33. CASE LinkKey(r)
      <3>1. PICK l \in {"reply", "linking"} : pc' = [pc EXCEPT ![r] = l]
        BY <2>33 DEF LinkKey
      <3>2. QED
        BY <1>0, <2>33, <3>1, HandlerMoves DEF LinkKey
    <2>34. CASE LinkUp(r)
      BY <1>0, <2>34, HandlerMoves DEF LinkUp
    <2>35. QED
      BY <1>3, <2>1, <2>2, <2>3, <2>4, <2>5, <2>6, <2>7, <2>8, <2>9, <2>10, <2>11, <2>12,
         <2>13, <2>14, <2>15, <2>16, <2>17, <2>18, <2>19, <2>20, <2>21, <2>22, <2>23, <2>24,
         <2>25, <2>26, <2>27, <2>28, <2>29, <2>30, <2>31, <2>32, <2>33, <2>34
         DEF Handler
  <1>4. ASSUME NEW r \in Request, Thread(r) PROVE IInv'
    <2> USE DEF Task, InstallTask, MoveTask
    <2>p. Placed(r)
      BY <1>0 DEF Placement
    <2>1. CASE InstallBuild(r)
      BY <1>0, <2>1, ThreadMoves DEF InstallBuild, InstallEnds
    <2>2. CASE InstallUp(r)
      BY <1>0, <2>2, ThreadMoves DEF InstallUp, InstallEnds
    <2>3. CASE InstallVerify(r)
      BY <1>0, <2>3, ThreadMoves DEF InstallVerify, InstallEnds
    <2>4. CASE InstallRelease(r)
      <3>1. /\ task[r] = "release" /\ task'[r] = "none" /\ pc' = pc /\ item' = item
            /\ target' = target /\ guard' = guard
            /\ \A s \in Request \ {r} : task'[s] = task[s]
        BY <1>0, <2>4 DEF InstallRelease, TypeOK
      <3>2. pc[r] \in {"idle", "reply"} /\ \A a \in App : item[r][a] = "none"
        BY <1>0, <2>p, <3>1 DEF Placed
      <3>3. Holds(r, target[r])
        BY <3>1 DEF Holds
      <3>4. \A s \in Request, b \in App : Holds(s, b)' <=> Holds(s, b) /\ ~(s = r /\ b = target[r])
        BY <3>1, <3>2 DEF Holds, HolderPc, LiveItem
      <3>5. OneHolder' /\ Reservations'
        BY <1>0, <2>4, <3>3, <3>4, DropStep DEF InstallRelease, TypeOK
      <3>6. GuardMatchesUpdate' /\ Placement'
        BY <1>0, <3>1, <3>2 DEF IInv, GuardMatchesUpdate, Placement, Placed
      <3>7. QED
        BY <1>0, <3>5, <3>6 DEF IInv
    <2>5. CASE StorageChecks(r)
      <3>1. PICK t \in MoveTask : task' = [task EXCEPT ![r] = t]
        BY <2>5 DEF StorageChecks
      <3>2. QED
        BY <1>0, <2>5, <3>1, ThreadMoves DEF StorageChecks
    <2>6. CASE StoragePause(r)
      <3>1. PICK t \in MoveTask : task' = [task EXCEPT ![r] = t]
        BY <2>6 DEF StoragePause
      <3>2. QED
        BY <1>0, <2>6, <3>1, ThreadMoves DEF StoragePause
    <2>7. CASE StorageActivate(r)
      BY <1>0, <2>7, ThreadMoves DEF StorageActivate
    <2>8. CASE StorageSettle(r)
      BY <1>0, <2>8, ThreadMoves DEF StorageSettle
    <2>9. CASE BatchEnd(r)
      <3>1. /\ task[r] = "batch" /\ task'[r] = "none" /\ \A a \in App : item[r][a] = "none"
            /\ \A s \in Request \ {r} : task'[s] = task[s]
        BY <1>0, <2>9 DEF BatchEnd, TypeOK
      <3>2. Placed(r)' /\ ~HeldBySelf(r) /\ ~HeldBySelf(r)'
        BY <2>p, <2>9, <3>1 DEF BatchEnd, Placed, HeldBySelf, HolderPc
      <3>3. QED
        BY <1>0, <2>9, <3>1, <3>2, QuietStep DEF BatchEnd
    <2>10. ASSUME NEW a \in App,
                  \/ UpdateMerge(r, a) \/ UpdateApply(r, a) \/ UpdateRollbackRaises(r, a)
                  \/ UpdatePop(r, a) \/ UpdateExit(r, a) \/ BatchPick(r, a) \/ BatchSweep(r, a)
           PROVE  IInv'
      <3> USE DEF ItemAt, Item, LiveItem
      <3>p. item[r][a] \notin {"none", "queued"} \/ task[r] = "batch" => pc[r] # "spawn"
        BY <1>0, <2>p DEF Placed
      <3>1. CASE UpdateMerge(r, a)
        BY <1>0, <3>p, <3>1, ItemMoves DEF UpdateMerge
      <3>2. CASE UpdateApply(r, a)
        BY <1>0, <3>p, <3>2, ItemMoves DEF UpdateApply
      <3>3. CASE UpdateRollbackRaises(r, a)
        BY <1>0, <3>p, <3>3, ItemMoves DEF UpdateRollbackRaises
      <3>4. CASE UpdatePop(r, a)
        BY <1>0, <3>p, <3>4, ItemMoves DEF UpdatePop
      <3>5. CASE UpdateExit(r, a)
        <4>1. /\ item[r][a] = "popped" /\ item'[r][a] \in {"none", "done"}
              /\ \A b \in App \ {a} : item'[r][b] = item[r][b]
              /\ \A s \in Request \ {r} : item'[s] = item[s] /\ task'[s] = task[s]
              /\ task'[r] \in {task[r], "none"} /\ (task'[r] # task[r] => task[r] = "update")
              /\ item'[r][a] = "done" => task'[r] = "batch"
              /\ pc' = pc /\ target' = target /\ guard' = guard
          BY <1>0, <3>5 DEF UpdateExit, TypeOK
        <4>2. ~HeldBySelf(r) /\ ~HeldBySelf(r)'
          BY <1>0, <2>p, <4>1 DEF Placed, HeldBySelf, HolderPc
        <4>3. Holds(r, a)
          BY <4>1 DEF Holds
        <4>4. \A s \in Request, b \in App : Holds(s, b)' <=> Holds(s, b) /\ ~(s = r /\ b = a)
          BY <4>1, <4>2 DEF Holds, HeldBySelf
        <4>5. OneHolder' /\ Reservations'
          BY <1>0, <3>5, <4>3, <4>4, DropStep DEF UpdateExit
        <4>6. \A s \in Request, b \in App : item'[s][b] \in LiveItem <=> item[s][b] \in LiveItem
          BY <4>1
        <4>7. GuardMatchesUpdate'
          BY <4>1, <4>6 DEF IInv, GuardMatchesUpdate
        <4>8. Placed(r)'
          BY <1>0, <2>p, <4>1 DEF Placed
        <4>9. Placement'
          BY <1>0, <4>1, <4>8 DEF Placement, Placed
        <4>10. QED
          BY <1>0, <4>5, <4>7, <4>9 DEF IInv
      <3>6. CASE BatchPick(r, a)
        BY <1>0, <3>p, <3>6, ItemMoves DEF BatchPick
      <3>7. CASE BatchSweep(r, a)
        <4>1. /\ task[r] = "batch" /\ item[r][a] \in {"done", "unrun"}
              /\ UNCHANGED <<reserved, pc, target, task>>
          BY <3>7 DEF BatchSweep, PoolIsOver
        <4>2. guard[a] = r <=> item[r][a] = "unrun"
          BY <4>1 DEF IInv, GuardMatchesUpdate
        <4>3. CASE guard[a] = r
          <5>1. guard' = [guard EXCEPT ![a] = Nobody] /\ item' = [item EXCEPT ![r][a] = "popped"]
            BY <3>7, <4>3 DEF BatchSweep
          <5>2. QED
            BY <1>0, <3>p, <4>1, <4>2, <4>3, <5>1, ItemMoves
        <4>4. CASE guard[a] # r
          <5>1. UNCHANGED guard /\ item' = [item EXCEPT ![r][a] = "none"]
            BY <3>7, <4>4 DEF BatchSweep
          <5>2. QED
            BY <1>0, <3>p, <4>1, <4>2, <4>4, <5>1, ItemMoves
        <4>5. QED
          BY <4>3, <4>4
      <3>8. QED
        BY <2>10, <3>1, <3>2, <3>3, <3>4, <3>5, <3>6, <3>7
    <2>11. CASE BatchSubmitFails(r)
      <3>1. /\ task[r] = "batch" /\ UNCHANGED <<reserved, guard, pc, target, task>>
            /\ \A s \in Request, b \in App :
                  \/ item'[s][b] = item[s][b]
                  \/ s = r /\ item[s][b] = "queued" /\ item'[s][b] = "unrun"
            /\ \A s \in Request \ {r} : item'[s] = item[s]
        BY <1>0, <2>11 DEF BatchSubmitFails, TypeOK
      <3>2. \A s \in Request, b \in App : item'[s][b] \in LiveItem <=> item[s][b] \in LiveItem
        BY <3>1 DEF LiveItem
      <3>3. \A s \in Request, b \in App : Holds(s, b)' <=> Holds(s, b)
        BY <3>1, <3>2 DEF Holds
      <3>4. OneHolder' /\ Reservations'
        BY <3>1, <3>3, SameHolders
      <3>5. GuardMatchesUpdate'
        BY <3>1, <3>2 DEF IInv, GuardMatchesUpdate
      <3>6. Placed(r)'
        BY <2>p, <3>1 DEF Placed
      <3>7. \A s \in Request \ {r} : Placed(s)'
        BY <1>0, <3>1 DEF Placement, Placed
      <3>8. Placement'
        BY <3>6, <3>7 DEF Placement
      <3>9. QED
        BY <1>0, <3>4, <3>5, <3>8 DEF IInv
    <2>12. QED
      BY <1>4, <2>1, <2>2, <2>3, <2>4, <2>5, <2>6, <2>7, <2>8, <2>9, <2>10, <2>11 DEF Thread
  <1>5. CASE Restart
    <2>1. \A s \in Request, a \in App : ~Holds(s, a)'
      BY <1>5 DEF Restart, Holds, HolderPc, InstallTask, LiveItem
    <2>2. OneHolder' /\ Reservations'
      BY <1>5, <2>1 DEF Restart, OneHolder, Reservations, HolderReserves, NoneLeft
    <2>3. GuardMatchesUpdate' /\ Placement'
      BY <1>5, ConstantsAssumption DEF Restart, GuardMatchesUpdate, Placement, Placed, LiveItem
    <2>4. QED
      BY <1>0, <2>2, <2>3 DEF IInv
  <1>6. QED
    BY <1>1, <1>2, <1>3, <1>4, <1>5 DEF Next

LEMMA ReservationInit == ASSUME Init PROVE IInv
  <1>1. TypeOK
    BY TypeInit
  <1>2. \A s \in Request, a \in App : ~Holds(s, a)
    BY DEF Init, Holds, HolderPc, InstallTask, LiveItem
  <1>3. OneHolder /\ Reservations
    BY <1>2 DEF Init, OneHolder, Reservations, HolderReserves, NoneLeft
  <1>4. GuardMatchesUpdate /\ Placement
    BY ConstantsAssumption DEF Init, GuardMatchesUpdate, Placement, Placed, LiveItem
  <1>5. QED
    BY <1>1, <1>3, <1>4 DEF IInv

(* IInv is inductive.                                                       *)
LEMMA Inductive == Spec => []IInv
  <1>1. Init => IInv
    BY ReservationInit
  <1>2. IInv /\ [Next]_vars => IInv'
    BY ReservationStep
  <1>3. QED
    BY <1>1, <1>2, PTL DEF Spec

(* start_install, reserve_operation and _reserve: no two operations have the *)
(* same app, whatever order handlers, threads, cleanups and restarts run in. *)
THEOREM NoTwoOperations == Spec => []OneHolder
  <1>1. IInv => OneHolder
    BY DEF IInv
  <1>2. QED
    BY <1>1, Inductive, PTL

(* A reservation is never dropped under its operation.                       *)
THEOREM NeverDropped == Spec => []HolderReserves
  <1>1. IInv => HolderReserves
    BY DEF IInv, Reservations
  <1>2. QED
    BY <1>1, Inductive, PTL

(* ... nor left behind, as long as the install state can be written.         *)
THEOREM ReservationExact ==
    ASSUME WriteFails = FALSE
    PROVE  Spec => []ReservationMatchesHolder
  <1>1. IInv => ReservationMatchesHolder
    BY DEF IInv, Reservations, NoneLeft, ReservationMatchesHolder
  <1>2. QED
    BY <1>1, Inductive, PTL

(* _release ends the reservation of its own update only.                     *)
THEOREM GuardExact == Spec => []GuardMatchesUpdate
  <1>1. IInv => GuardMatchesUpdate
    BY DEF IInv
  <1>2. QED
    BY <1>1, Inductive, PTL

-----------------------------------------------------------------------------
(* Fitting and migrations.  What one step of request r may touch, and with   *)
(* what right, is its footprint; Apart follows from it, the operation lock    *)
(* and OneHolder.                                                           *)

(* Where a handler has the operation lock.                                  *)
LockedPc == {"locked", "admitted", "checked", "spawn", "unspawned", "clear", "linking"}
            \cup HolderPc

(* Works on the app or migrates it: what Owner looks for.                   *)
Busy(r, a) == Works(r, a) \/ Migrates(r, a)

(* The other requests stay where they are.                                  *)
Alone(r) ==
    \A s \in Request \ {r} :
        /\ pc'[s] = pc[s] /\ target'[s] = target[s] /\ kind'[s] = kind[s]
        /\ task'[s] = task[s] /\ item'[s] = item[s]

(* The lock is taken when it is free, and given back when nothing needs     *)
(* it any more.                                                             *)
Locks(r) ==
    \/ opLock' = opLock /\ (pc'[r] \in LockedPc => pc[r] \in LockedPc)
    \/ opLock = Nobody /\ opLock' = r
    \/ opLock = r /\ pc'[r] \notin LockedPc

(* What a handler has seen once it was admitted, and once it has removed    *)
(* the containers.                                                          *)
Enters(r) ==
    /\ pc'[r] \in LockedPc \ {"locked"} =>
          /\ target'[r] = target[r]
          /\ pc[r] \in LockedPc \ {"locked"} \/ ~row[target[r]].migrating
    /\ pc'[r] \in {"removing", "removed", "forget"} => kind'[r] = "uninstall"
    /\ pc'[r] = "linking" => kind'[r] = "link"
    /\ \A a \in App : Removing(r, a)' => runtime'[a] = "absent"

(* A row's mark comes and goes with the migration, or with the row.         *)
Marks(r) ==
    \A a \in App :
        \/ row'[a].migrating = row[a].migrating /\ (Migrates(r, a)' => Migrates(r, a))
        \/ target[r] = a /\ pc[r] = "clear" /\ pc'[r] = "reply" /\ ~row[a].migrating
           /\ row'[a].migrating
        \/ Migrates(r, a) /\ ~Migrates(r, a)' /\ ~row'[a].migrating
        \/ target[r] = a /\ pc[r] = "forget" /\ ~row'[a].migrating
           /\ (Migrates(r, a)' => Migrates(r, a))

(* Containers change in the hands of who is busy with the app, and a link   *)
(* to the hub brings them up.                                               *)
Acts(r) == \A a \in App : runtime'[a] # runtime[a] =>
               Busy(r, a) \/ (Links(r, a) /\ runtime'[a] # "absent" /\ ~Busy(r, a)')

(* Registration and key go in a removal.                                    *)
Forgets(r) ==
    \A a \in App : (row[a].known /\ ~row'[a].known) \/ (key[a] /\ ~key'[a])
                     => target[r] = a /\ pc[r] \in {"removed", "forget"}

Footprint(r) == Alone(r) /\ Locks(r) /\ Enters(r) /\ Marks(r) /\ Acts(r) /\ Forgets(r)

(* Only a removal gets where containers, key and row go, and only a link to *)
(* the hub where containers are brought up without a reservation.           *)
Fitting ==
    \A r \in Request : /\ pc[r] \in {"removing", "removed", "forget"} => kind[r] = "uninstall"
                       /\ pc[r] = "linking" => kind[r] = "link"

(* Every step of a handler leaves no more than its footprint.               *)
LEMMA HandlerFootprint ==
    ASSUME TypeOK, Placement, Fitting, NoRecreationDuringRemoval,
           NEW r \in Request, Handler(r)
    PROVE  Footprint(r)
  <1>l. pc[r] = "linking" => task[r] = "none" /\ \A a \in App : item[r][a] = "none"
    BY DEF Placement, Placed
  <1> USE DEF TypeOK, locks, apps, handler, updates, Goto, Own, Disown, JobOver, ItemAt,
        Footprint, Alone, Locks, Enters, Marks, Acts, Forgets, LockedPc, HolderPc,
        Busy, Works, Migrates, Links, Removing, MoveTask, InstallTask, LiveItem, Fitting,
        NoRecreationDuringRemoval
  <1>1. CASE TakeOpLock(r)
    BY <1>1 DEF TakeOpLock
  <1>2. CASE Admit(r)
    BY <1>2 DEF Admit
  <1>3. CASE Teardown(r)
    BY <1>3 DEF Teardown
  <1>4. CASE Unreserve(r)
    BY <1>4 DEF Unreserve
  <1>5. CASE InstallReserve(r)
    BY <1>5 DEF InstallReserve
  <1>6. CASE InstallLaunch(r)
    BY <1>6 DEF InstallLaunch, Row
  <1>7. CASE InstallLaunchFails(r)
    BY <1>7 DEF InstallLaunchFails, Row
  <1>8. CASE InstallLaunchUnwritten(r)
    BY <1>8 DEF InstallLaunchUnwritten, Row
  <1>9. CASE UpdateCheck(r)
    BY <1>9 DEF UpdateCheck
  <1>10. CASE UpdateReserve(r)
    BY <1>10 DEF UpdateReserve, ReserveForUpdate
  <1>11. CASE UpdateSpawn(r)
    BY <1>11 DEF UpdateSpawn
  <1>12. CASE UpdateSpawnFails(r)
    BY <1>12 DEF UpdateSpawnFails
  <1>13. CASE UpdateUnspawned(r)
    BY <1>13 DEF UpdateUnspawned
  <1>14. CASE BatchBegin(r)
    BY <1>14 DEF BatchBegin
  <1>15. CASE BatchReserve(r)
    BY <1>15 DEF BatchReserve, ReserveForUpdate
  <1>16. CASE BatchLaunch(r)
    BY <1>16 DEF BatchLaunch
  <1>17. CASE BatchRaises(r)
    BY <1>17 DEF BatchRaises
  <1>18. CASE BatchAborted(r)
    BY <1>18 DEF BatchAborted
  <1>19. CASE HandlerReserve(r)
    BY <1>19 DEF HandlerReserve
  <1>20. CASE StartCheck(r)
    BY <1>20 DEF StartCheck
  <1>21. CASE StartRun(r)
    BY <1>21 DEF StartRun
  <1>22. CASE StopRun(r)
    BY <1>22 DEF StopRun
  <1>23. CASE UninstallCheck(r)
    BY <1>23 DEF UninstallCheck
  <1>24. CASE UninstallRemove(r)
    BY <1>24 DEF UninstallRemove
  <1>25. CASE UninstallKey(r)
    BY <1>25 DEF UninstallKey
  <1>26. CASE UninstallForget(r)
    BY <1>26 DEF UninstallForget, NoRow
  <1>27. CASE StorageCheck(r)
    BY <1>27 DEF StorageCheck
  <1>28. CASE StorageStart(r)
    <2>1. /\ pc[r] = "clear" /\ pc' = [pc EXCEPT ![r] = "reply"]
          /\ UNCHANGED <<opLock, runtime, item, kind, target>>
      BY <1>28 DEF StorageStart
    <2>k. UNCHANGED key
      BY <1>28 DEF StorageStart
    <2>2. CASE UNCHANGED <<row, task>>
      BY <2>1, <2>2, <2>k
    <2>3. CASE /\ ~row[target[r]].migrating
               /\ row' = [row EXCEPT ![target[r]].migrating = TRUE]
               /\ \E t \in {"check", "none"} : task' = [task EXCEPT ![r] = t]
      <3>1. row'[target[r]].migrating /\ \A a \in App \ {target[r]} : row'[a] = row[a]
        BY <2>3 DEF Row
      <3>2. \A s \in Request \ {r} : task'[s] = task[s]
        BY <2>3
      <3>0. ~row[target[r]].migrating /\ pc'[r] = "reply" /\ target' = target /\ target[r] \in App
        BY <2>1, <2>3
      <3>3. Marks(r)
        <4> HIDE DEF TypeOK
        <4> QED BY <2>1, <3>0, <3>1 DEF Marks
      <3>4. Alone(r) /\ Locks(r) /\ Enters(r) /\ Acts(r)
        BY <2>1, <3>2 DEF Alone, Locks, Enters, Acts
      <3>f. Forgets(r)
        BY <2>3, <2>k DEF Forgets, Row
      <3>5. QED
        BY <3>3, <3>4, <3>f
    <2>4. QED
      BY <1>28, <2>2, <2>3 DEF StorageStart
  <1>29. CASE AdoptLook(r)
    BY <1>29 DEF AdoptLook
  <1>30. CASE AdoptRegister(r)
    <2>1. CASE UNCHANGED row
      BY <1>30, <2>1 DEF AdoptRegister
    <2>2. CASE row' = [row EXCEPT ![target[r]] = [@ EXCEPT !.state = "installed", !.known = TRUE]]
      BY <1>30, <2>2 DEF AdoptRegister, Row
    <2>3. QED
      BY <1>30, <2>1, <2>2 DEF AdoptRegister
  <1>31. CASE \E a \in App : BatchLook(r, a)
    <2>0. PICK a \in App : BatchLook(r, a)
      BY <1>31
    <2>1. pc'[r] \in {"scan", "found"} /\ pc[r] = "scan"
      BY <2>0 DEF BatchLook
    <2>t. task[r] = "none"
      BY <2>1 DEF Placement, Placed
    <2>2. Alone(r) /\ UNCHANGED <<task, item, row, key, runtime, opLock>>
      BY <2>0 DEF BatchLook
    <2>3. QED
      BY <2>1, <2>2, <2>t
  <1>32. CASE \E a \in App : BatchAbort(r, a)
    BY <1>32 DEF BatchAbort
  <1>33. CASE LinkKey(r)
    BY <1>33 DEF LinkKey
  <1>34. CASE LinkUp(r)
    <2>1. pc[r] = "linking" /\ pc'[r] = "reply"
      BY <1>34 DEF LinkUp
    <2>2. task[r] = "none" /\ \A a \in App : item[r][a] = "none"
      BY <1>l, <2>1
    <2>3. \A a \in App : ~Busy(r, a)'
      BY <1>34, <2>1, <2>2 DEF LinkUp
    <2>4. Acts(r)
      BY <1>34, <2>1, <2>3 DEF LinkUp
    <2>5. Alone(r) /\ Locks(r) /\ Enters(r) /\ Marks(r) /\ Forgets(r)
      BY <1>34, <2>1 DEF LinkUp
    <2>6. QED
      BY <2>4, <2>5
  <1>q. QED
    BY <1>1, <1>2, <1>3, <1>4, <1>5, <1>6, <1>7, <1>8, <1>9, <1>10, <1>11, <1>12, <1>13,
       <1>14, <1>15, <1>16, <1>17, <1>18, <1>19, <1>20, <1>21, <1>22, <1>23, <1>24, <1>25,
       <1>26, <1>27, <1>28, <1>29, <1>30, <1>31, <1>32, <1>33, <1>34 DEF Handler

(* ... and so does every step of a thread.                                  *)
LEMMA ThreadFootprint ==
    ASSUME TypeOK, Placement, Fitting, NoRecreationDuringRemoval,
           NEW r \in Request, Thread(r)
    PROVE  Footprint(r)
  <1> USE DEF TypeOK, locks, apps, handler, updates, Goto, Own, Disown, JobOver, ItemAt,
        Footprint, Alone, Locks, Enters, Marks, Acts, Forgets, LockedPc, HolderPc,
        Busy, Works, Migrates, Links, Removing, MoveTask, InstallTask, LiveItem, Fitting,
        NoRecreationDuringRemoval
  <1>p. pc[r] \notin {"removed", "forget"} /\ pc' = pc
    BY DEF Thread, Placement, Placed, InstallBuild, InstallUp, InstallVerify, InstallRelease,
       StorageChecks, StoragePause, StorageActivate, StorageSettle, BatchEnd, UpdateMerge,
       UpdateApply, UpdateRollbackRaises, UpdatePop, UpdateExit, BatchPick, BatchSweep,
       PoolIsOver, BatchSubmitFails
  <1>1. CASE InstallBuild(r)
    <2>1. CASE task' = [task EXCEPT ![r] = "up"] /\ UNCHANGED row
      BY <1>p, <1>1, <2>1 DEF InstallBuild
    <2>2. ASSUME NEW s \in Failure, InstallEnds(r, s) PROVE Footprint(r)
      BY <1>p, <1>1, <2>2 DEF InstallBuild, InstallEnds, Row
    <2>3. QED
      BY <1>1, <2>1, <2>2 DEF InstallBuild
  <1>2. CASE InstallUp(r)
    <2>1. CASE task' = [task EXCEPT ![r] = "verify"] /\ UNCHANGED row
      BY <1>p, <1>2, <2>1 DEF InstallUp
    <2>2. ASSUME NEW s \in Failure, InstallEnds(r, s) PROVE Footprint(r)
      BY <1>p, <1>2, <2>2 DEF InstallUp, InstallEnds, Row
    <2>3. QED
      BY <1>2, <2>1, <2>2 DEF InstallUp
  <1>3. CASE InstallVerify(r)
    BY <1>p, <1>3 DEF InstallVerify, InstallEnds, Failure, Row
  <1>4. CASE InstallRelease(r)
    BY <1>p, <1>4 DEF InstallRelease
  <1>5. CASE StorageChecks(r)
    BY <1>p, <1>5 DEF StorageChecks
  <1>6. CASE StoragePause(r)
    BY <1>p, <1>6 DEF StoragePause
  <1>7. CASE StorageActivate(r)
    BY <1>p, <1>7 DEF StorageActivate
  <1>8. CASE StorageSettle(r)
    BY <1>p, <1>8 DEF StorageSettle, Row
  <1>9. CASE BatchEnd(r)
    BY <1>p, <1>9 DEF BatchEnd
  <1>10. CASE \E a \in App : UpdateMerge(r, a)
    BY <1>p, <1>10 DEF UpdateMerge
  <1>11. CASE \E a \in App : UpdateApply(r, a)
    BY <1>p, <1>11 DEF UpdateApply
  <1>12. CASE \E a \in App : UpdateRollbackRaises(r, a)
    BY <1>p, <1>12 DEF UpdateRollbackRaises
  <1>13. CASE \E a \in App : UpdatePop(r, a)
    BY <1>p, <1>13 DEF UpdatePop
  <1>14. CASE \E a \in App : UpdateExit(r, a)
    BY <1>p, <1>14 DEF UpdateExit
  <1>15. CASE \E a \in App : BatchPick(r, a)
    BY <1>p, <1>15 DEF BatchPick
  <1>16. CASE \E a \in App : BatchSweep(r, a)
    BY <1>p, <1>16 DEF BatchSweep, PoolIsOver
  <1>17. CASE BatchSubmitFails(r)
    BY <1>p, <1>17 DEF BatchSubmitFails
  <1>q. QED
    BY <1>1, <1>2, <1>3, <1>4, <1>5, <1>6, <1>7, <1>8, <1>9, <1>10, <1>11, <1>12, <1>13,
       <1>14, <1>15, <1>16, <1>17 DEF Thread

(* ... and a request that arrives.                                          *)
LEMMA ArriveFootprint ==
    ASSUME TypeOK, NEW r \in Request, NEW k \in Kinds, NEW b \in App, Arrive(r, k, b)
    PROVE  Footprint(r)
  BY DEF TypeOK, locks, apps, handler, updates, Goto, Arrive, Footprint, Alone, Locks, Enters,
     Marks, Acts, Forgets, LockedPc, HolderPc, Busy, Works, Migrates, Removing,
     MoveTask, InstallTask

(* One handler at a time is past the lock.                                  *)
Locked == \A r \in Request : pc[r] \in LockedPc => opLock = r

(* Whoever was admitted has an app that is not being migrated, for as       *)
(* long as the lock is held.                                                *)
Checked == \A r \in Request : pc[r] \in LockedPc \ {"locked"} => ~row[target[r]].migrating

(* A migration at work is in its app's row.                                 *)
Marked == \A r \in Request, a \in App : Migrates(r, a) => row[a].migrating

(* No two migrations of one app.                                            *)
OneMover == \A a \in App : \A r, s \in Request : Migrates(r, a) /\ Migrates(s, a) => r = s

(* What keeps removals and migrations from the rest, in every mix of        *)
(* kinds.                                                                   *)
Apart == Locked /\ Checked /\ Marked /\ OneMover /\ Fitting /\ NoRecreationDuringRemoval

(* A step that stays within its footprint keeps them apart.                 *)
LEMMA RequestStep ==
    ASSUME IInv, Apart, NEW r \in Request, Footprint(r)
    PROVE  Apart'
  <1> USE DEF Footprint
  <1>1. Locked'
    BY ConstantsAssumption DEF Apart, Locked, Alone, Locks
  <1>2. Checked'
    <2> SUFFICES ASSUME NEW s \in Request, pc'[s] \in LockedPc \ {"locked"}
                 PROVE  ~row'[target'[s]].migrating
      BY DEF Checked
    <2>1. target'[s] = target[s] /\ target[s] \in App /\ ~row[target[s]].migrating
      BY DEF IInv, TypeOK, Apart, Checked, Alone, Enters
    <2>2. ~(target[r] = target[s] /\ pc[r] = "clear" /\ pc'[r] = "reply")
      <3>1. CASE s = r
        BY <3>1 DEF LockedPc, HolderPc
      <3>2. CASE s # r
        BY <3>2 DEF Apart, Locked, LockedPc, Alone
      <3>3. QED
        BY <3>1, <3>2
    <2>3. QED
      BY <2>1, <2>2 DEF Marks
  <1>3. Marked'
    <2> SUFFICES ASSUME NEW s \in Request, NEW a \in App, Migrates(s, a)'
                 PROVE  row'[a].migrating
      BY DEF Marked
    <2>1. s # r => Migrates(s, a)
      BY DEF Alone, Migrates
    <2>2. pc[r] = "forget" => ~row[target[r]].migrating
      BY DEF Apart, Checked, LockedPc, HolderPc
    <2>3. QED
      BY <2>1, <2>2 DEF Marks, Apart, Marked, OneMover
  <1>4. OneMover'
    <2> SUFFICES ASSUME NEW a \in App, NEW s \in Request, NEW t \in Request,
                        Migrates(s, a)', Migrates(t, a)'
                 PROVE  s = t
      BY DEF OneMover
    <2>1. \A u \in Request \ {r} : Migrates(u, a)' => Migrates(u, a)
      BY DEF Alone, Migrates
    <2>2. Migrates(r, a)' => Migrates(r, a) \/ ~row[a].migrating
      BY DEF Marks
    <2>3. QED
      BY <2>1, <2>2 DEF Apart, Marked, OneMover
  <1>5. Fitting'
    BY DEF Apart, Fitting, Alone, Enters
  <1>6. NoRecreationDuringRemoval'
    <2> SUFFICES ASSUME NEW s \in Request, NEW a \in App, Removing(s, a)', s # r
                 PROVE  runtime'[a] = "absent"
      BY DEF NoRecreationDuringRemoval, Enters
    <2>1. Removing(s, a)
      BY DEF Alone, Removing
    <2>2. runtime[a] = "absent"
      BY <2>1 DEF Apart, NoRecreationDuringRemoval
    <2>3. ~Works(r, a)
      <3>1. Holds(s, a)
        BY <2>1 DEF Removing, Holds, HolderPc
      <3>2. Works(r, a) => Holds(r, a)
        BY DEF Works, Holds
      <3>3. QED
        BY <3>1, <3>2 DEF IInv, OneHolder
    <2>4. ~Migrates(r, a)
      BY <2>1 DEF Apart, Marked, Checked, Removing, LockedPc, HolderPc
    <2>5. ~Links(r, a)
      <3>1. pc[s] \in LockedPc
        BY <2>1 DEF Removing, LockedPc, HolderPc
      <3>2. pc[r] \notin LockedPc
        BY <3>1 DEF Apart, Locked
      <3>3. QED
        BY <3>2 DEF Links, LockedPc
    <2>6. QED
      BY <2>2, <2>3, <2>4, <2>5 DEF Acts, Busy
  <1>7. QED
    BY <1>1, <1>2, <1>3, <1>4, <1>5, <1>6 DEF Apart

LEMMA ApartStep == ASSUME IInv, Apart, [Next]_vars PROVE Apart'
  <1>0. TypeOK /\ Placement /\ Fitting /\ NoRecreationDuringRemoval
    BY DEF IInv, Apart
  <1>1. CASE UNCHANGED vars
    BY <1>1 DEF vars, Apart, Locked, Checked, Marked, OneMover, Fitting, Migrates,
       NoRecreationDuringRemoval, Removing
  <1>2. ASSUME NEW r \in Request, NEW k \in Kinds, NEW a \in App, Arrive(r, k, a)
        PROVE  Apart'
    BY <1>0, <1>2, ArriveFootprint, RequestStep
  <1>3. ASSUME NEW r \in Request, Handler(r) PROVE Apart'
    BY <1>0, <1>3, HandlerFootprint, RequestStep
  <1>4. ASSUME NEW r \in Request, Thread(r) PROVE Apart'
    BY <1>0, <1>4, ThreadFootprint, RequestStep
  <1>5. CASE Restart
    BY <1>5 DEF Restart, Apart, Locked, LockedPc, HolderPc, Checked, Marked, OneMover, Fitting,
       Migrates, MoveTask, NoRecreationDuringRemoval, Removing
  <1>6. QED
    BY <1>1, <1>2, <1>3, <1>4, <1>5 DEF Next

LEMMA ApartInductive == Spec => []Apart
  <1>1. Init => Apart
    BY DEF Init, Apart, Locked, LockedPc, HolderPc, Checked, Marked, OneMover, Fitting,
       Migrates,
       MoveTask, NoRecreationDuringRemoval, Removing
  <1>2. IInv /\ Apart /\ [Next]_vars => Apart'
    BY ApartStep
  <1>3. QED
    BY <1>1, <1>2, Inductive, PTL DEF Spec

(* README, Updates: nothing recreates an app's containers between their     *)
(* removal and its end (NoRecreationDuringRemoval), with any mix of         *)
(* operations and whatever write fails.                                     *)
THEOREM NoRecreation == Spec => []NoRecreationDuringRemoval
  <1>1. Apart => NoRecreationDuringRemoval
    BY DEF Apart
  <1>2. QED
    BY <1>1, ApartInductive, PTL

(* AppStorage.start: one migration per app, and its row says so for as      *)
(* long as its thread works, with any mix of operations.                    *)
THEOREM OneMigration == Spec => [](Marked /\ OneMover)
  <1>1. Apart => Marked /\ OneMover
    BY DEF Apart
  <1>2. QED
    BY <1>1, ApartInductive, PTL

(* README, storage: a restart in the middle of a migration leaves its app   *)
(* marked (InterruptedMigrationBlocks), as long as the install state's      *)
(* file is whole.                                                           *)
THEOREM InterruptedBlocks ==
    ASSUME WriteFails = FALSE, CutWrites = FALSE
    PROVE  Spec => InterruptedMigrationBlocks
  <1>1. Apart /\ Restart => \A a \in App, r \in Request : Migrates(r, a) => row'[a].migrating
    BY DEF Apart, Marked, Restart
  <1>2. QED
    BY <1>1, ApartInductive, PTL DEF Spec, InterruptedMigrationBlocks

(* README, Updates: registration and key are forgotten only after the       *)
(* containers are gone (ForgottenOnlyAfterRemoval), as long as the          *)
(* install state's file is whole.                                           *)
THEOREM ForgottenAfterRemoval ==
    ASSUME WriteFails = FALSE, CutWrites = FALSE
    PROVE  Spec => ForgottenOnlyAfterRemoval
  <1> DEFINE Lost(a) == (row[a].known /\ ~row'[a].known) \/ (key[a] /\ ~key'[a])
  <1>1. ASSUME IInv, Apart, [Next]_vars, NEW a \in App, Lost(a) PROVE runtime[a] = "absent"
    <2>1. TypeOK /\ Placement /\ Fitting /\ NoRecreationDuringRemoval
      BY <1>1 DEF IInv, Apart
    <2>2. ~UNCHANGED vars /\ ~Restart
      BY <1>1 DEF vars, Restart
    <2>3. PICK r \in Request : \/ \E k \in Kinds, b \in App : Arrive(r, k, b)
                               \/ Handler(r) \/ Thread(r)
      BY <1>1, <2>2 DEF Next
    <2>4. Footprint(r)
      BY <2>1, <2>3, ArriveFootprint, HandlerFootprint, ThreadFootprint
    <2>5. target[r] = a /\ pc[r] \in {"removed", "forget"}
      BY <1>1, <2>4 DEF Footprint, Forgets
    <2>6. QED
      BY <2>1, <2>5 DEF Fitting, NoRecreationDuringRemoval, Removing
  <1>2. IInv /\ Apart /\ [Next]_vars => \A a \in App : Lost(a) => runtime[a] = "absent"
    BY <1>1
  <1>3. QED
    BY <1>2, Inductive, ApartInductive, PTL DEF Spec, ForgottenOnlyAfterRemoval

-----------------------------------------------------------------------------
(* Migrations alone, and one owner.  Footprints do not tell how work begins,  *)
(* and how rows and jobs show it: a careful step keeps that too.             *)

(* The states of an update in which it works on its app.                    *)
Working == LiveItem \ {"ran"}

NoneBeside    == \A r \in Request : pc[r] \notin {"scan", "found", "abort", "adopt"}
(* An installation at work is shown in its app's row.                       *)
Installs == \A r \in Request :
                task[r] \in {"build", "up", "verify"} => row[target[r]].state = "installing"
Updates  == \A r \in Request, a \in App : item[r][a] \in Working => Running(a)
Free     == \A r, s \in Request : pc[r] \in {"clear", "unspawned"} => ~Works(s, target[r])

(* Work begins in an admitted handler.                                      *)
Begins(r) ==
    \A a \in App : Works(r, a)' =>
        Works(r, a) \/ (target[r] = a /\ pc[r] \in {"admitted", "checked"})

(* Rows and jobs go on telling what works, and are written by who works.    *)
Tells(r) ==
    /\ pc'[r] \notin {"scan", "found", "abort", "adopt"}
    /\ task'[r] \in {"build", "up", "verify"} => row'[target'[r]].state = "installing"
    /\ \A a \in App : item'[r][a] \in Working => Running(a)'
    /\ \A a \in App : row'[a].state # row[a].state => Works(r, a)
    /\ \A a \in App : Running(a) /\ ~Running(a)' =>
          Works(r, a) \/ (target[r] = a /\ pc[r] = "unspawned")

(* How a handler comes to a free app: it asked, or it gave up its own       *)
(* update.                                                                  *)
Frees(r) ==
    pc'[r] \in {"clear", "unspawned"} =>
        /\ target'[r] = target[r]
        /\ \/ pc[r] = pc'[r]
           \/ /\ pc[r] = "admitted" /\ ~Running(target[r]) /\ row[target[r]].state # "installing"
              /\ UNCHANGED <<task, item>>
           \/ pc[r] = "spawn" /\ Works(r, target[r]) /\ ~Works(r, target[r])'

(* A step concerns one app.                                                 *)
Elsewhere(r, a) ==
    \A b \in App \ {a} : /\ Busy(r, b)' <=> Busy(r, b)
                         /\ Sole(r, b)' <=> Sole(r, b)
                         /\ runtime'[b] = runtime[b]
OneApp(r) == \E a \in App : Elsewhere(r, a)

Care(r) == Begins(r) /\ Tells(r) /\ Frees(r) /\ OneApp(r)

CareAssumed == TypeOK /\ Placement /\ NoneBeside /\ Installs /\ Updates

(* Every handler takes this care, as long as nothing acts beside the        *)
(* lock.                                                                    *)
LEMMA HandlerCare ==
    ASSUME Kinds \subseteq HandlerKinds, CareAssumed, NEW r \in Request, Handler(r)
    PROVE  Care(r)
  <1> USE DEF TypeOK, locks, apps, handler, updates, Goto, Own, Disown, JobOver, ItemAt,
        Care, Begins, Tells, Frees, HolderPc, Elsewhere, Sole, Busy, Works, Migrates, Working, Running,
        MoveTask, InstallTask, LiveItem, NoneBeside, Installs, Updates, CareAssumed
  <1>p. task[r] # "none" => pc[r] \in {"idle", "reply"}
    BY DEF Placement, Placed
  <1>s. pc[r] = "spawn" => item[r][target[r]] = "queued"
    BY DEF Placement, Placed
  <1>1. CASE TakeOpLock(r)
    <2>1. Elsewhere(r, target[r])
      BY <1>p, <1>s, <1>1 DEF TakeOpLock
    <2>2. Begins(r) /\ Tells(r) /\ Frees(r)
      BY <1>p, <1>s, <1>1 DEF TakeOpLock
    <2>3. QED
      BY <2>1, <2>2 DEF OneApp
  <1>2. CASE Admit(r)
    <2>1. Elsewhere(r, target[r])
      BY <1>p, <1>s, <1>2 DEF Admit
    <2>2. Begins(r) /\ Tells(r) /\ Frees(r)
      BY <1>p, <1>s, <1>2 DEF Admit
    <2>3. QED
      BY <2>1, <2>2 DEF OneApp
  <1>3. CASE Teardown(r)
    <2>1. Elsewhere(r, target[r])
      BY <1>p, <1>s, <1>3 DEF Teardown
    <2>2. Begins(r) /\ Tells(r) /\ Frees(r)
      BY <1>p, <1>s, <1>3 DEF Teardown
    <2>3. QED
      BY <2>1, <2>2 DEF OneApp
  <1>4. CASE Unreserve(r)
    <2>1. Elsewhere(r, target[r])
      BY <1>p, <1>s, <1>4 DEF Unreserve
    <2>2. Begins(r) /\ Tells(r) /\ Frees(r)
      BY <1>p, <1>s, <1>4 DEF Unreserve
    <2>3. QED
      BY <2>1, <2>2 DEF OneApp
  <1>5. CASE InstallReserve(r)
    <2>1. Elsewhere(r, target[r])
      BY <1>p, <1>s, <1>5 DEF InstallReserve, Row
    <2>2. Begins(r) /\ Tells(r) /\ Frees(r)
      BY <1>p, <1>s, <1>5 DEF InstallReserve, Row
    <2>3. QED
      BY <2>1, <2>2 DEF OneApp
  <1>6. CASE InstallLaunch(r)
    <2>1. Elsewhere(r, target[r])
      BY <1>p, <1>s, <1>6 DEF InstallLaunch, Row
    <2>2. Begins(r) /\ Tells(r) /\ Frees(r)
      BY <1>p, <1>s, <1>6 DEF InstallLaunch, Row
    <2>3. QED
      BY <2>1, <2>2 DEF OneApp
  <1>7. CASE InstallLaunchFails(r)
    <2>1. Elsewhere(r, target[r])
      BY <1>p, <1>s, <1>7 DEF InstallLaunchFails, Row
    <2>2. Begins(r) /\ Tells(r) /\ Frees(r)
      BY <1>p, <1>s, <1>7 DEF InstallLaunchFails, Row
    <2>3. QED
      BY <2>1, <2>2 DEF OneApp
  <1>8. CASE InstallLaunchUnwritten(r)
    <2>1. Elsewhere(r, target[r])
      BY <1>p, <1>s, <1>8 DEF InstallLaunchUnwritten, Row
    <2>2. Begins(r) /\ Tells(r) /\ Frees(r)
      BY <1>p, <1>s, <1>8 DEF InstallLaunchUnwritten, Row
    <2>3. QED
      BY <2>1, <2>2 DEF OneApp
  <1>9. CASE UpdateCheck(r)
    <2>1. Elsewhere(r, target[r])
      BY <1>p, <1>s, <1>9 DEF UpdateCheck
    <2>2. Begins(r) /\ Tells(r) /\ Frees(r)
      BY <1>p, <1>s, <1>9 DEF UpdateCheck
    <2>3. QED
      BY <2>1, <2>2 DEF OneApp
  <1>10. CASE UpdateReserve(r)
    <2>1. CASE ReserveForUpdate(r, target[r], "updating") /\ pc' = [pc EXCEPT ![r] = "spawn"]
      <3>1. Elsewhere(r, target[r])
        BY <1>p, <1>10, <2>1 DEF UpdateReserve, ReserveForUpdate
      <3>2. Begins(r) /\ Tells(r) /\ Frees(r)
        BY <1>p, <1>10, <2>1 DEF UpdateReserve, ReserveForUpdate
      <3>3. QED
        BY <3>1, <3>2 DEF OneApp
    <2>2. CASE UNCHANGED <<reserved, updates>> /\ pc' = [pc EXCEPT ![r] = "reply"]
      BY <1>p, <1>10, <2>2 DEF UpdateReserve, OneApp
    <2>3. QED
      BY <1>10, <2>1, <2>2 DEF UpdateReserve
  <1>11. CASE UpdateSpawn(r)
    <2>1. Elsewhere(r, target[r])
      BY <1>p, <1>s, <1>11 DEF UpdateSpawn
    <2>2. Begins(r) /\ Tells(r) /\ Frees(r)
      BY <1>p, <1>s, <1>11 DEF UpdateSpawn
    <2>3. QED
      BY <2>1, <2>2 DEF OneApp
  <1>12. CASE UpdateSpawnFails(r)
    <2>1. Elsewhere(r, target[r])
      BY <1>p, <1>s, <1>12 DEF UpdateSpawnFails
    <2>2. Begins(r) /\ Tells(r) /\ Frees(r)
      BY <1>p, <1>s, <1>12 DEF UpdateSpawnFails
    <2>3. QED
      BY <2>1, <2>2 DEF OneApp
  <1>13. CASE UpdateUnspawned(r)
    <2>1. Elsewhere(r, target[r])
      BY <1>p, <1>s, <1>13 DEF UpdateUnspawned
    <2>2. Begins(r) /\ Tells(r) /\ Frees(r)
      BY <1>p, <1>s, <1>13 DEF UpdateUnspawned
    <2>3. QED
      BY <2>1, <2>2 DEF OneApp
  <1>14. CASE BatchBegin(r)
    BY <1>14 DEF BatchBegin, HandlerKinds
  <1>15. CASE BatchReserve(r)
    BY <1>15 DEF BatchReserve, ReserveForUpdate, MayReserveForUpdate
  <1>16. CASE BatchLaunch(r)
    BY <1>16 DEF BatchLaunch
  <1>17. CASE BatchRaises(r)
    BY <1>17 DEF BatchRaises
  <1>18. CASE BatchAborted(r)
    BY <1>18 DEF BatchAborted
  <1>19. CASE HandlerReserve(r)
    <2>1. Elsewhere(r, target[r])
      BY <1>p, <1>s, <1>19 DEF HandlerReserve
    <2>2. Begins(r) /\ Tells(r) /\ Frees(r)
      BY <1>p, <1>s, <1>19 DEF HandlerReserve
    <2>3. QED
      BY <2>1, <2>2 DEF OneApp
  <1>20. CASE StartCheck(r)
    <2>1. Elsewhere(r, target[r])
      BY <1>p, <1>s, <1>20 DEF StartCheck
    <2>2. Begins(r) /\ Tells(r) /\ Frees(r)
      BY <1>p, <1>s, <1>20 DEF StartCheck
    <2>3. QED
      BY <2>1, <2>2 DEF OneApp
  <1>21. CASE StartRun(r)
    <2>1. Elsewhere(r, target[r])
      BY <1>p, <1>s, <1>21 DEF StartRun
    <2>2. Begins(r) /\ Tells(r) /\ Frees(r)
      BY <1>p, <1>s, <1>21 DEF StartRun
    <2>3. QED
      BY <2>1, <2>2 DEF OneApp
  <1>22. CASE StopRun(r)
    <2>1. Elsewhere(r, target[r])
      BY <1>p, <1>s, <1>22 DEF StopRun
    <2>2. Begins(r) /\ Tells(r) /\ Frees(r)
      BY <1>p, <1>s, <1>22 DEF StopRun
    <2>3. QED
      BY <2>1, <2>2 DEF OneApp
  <1>23. CASE UninstallCheck(r)
    <2>1. Elsewhere(r, target[r])
      BY <1>p, <1>s, <1>23 DEF UninstallCheck
    <2>2. Begins(r) /\ Tells(r) /\ Frees(r)
      BY <1>p, <1>s, <1>23 DEF UninstallCheck
    <2>3. QED
      BY <2>1, <2>2 DEF OneApp
  <1>24. CASE UninstallRemove(r)
    <2>1. Elsewhere(r, target[r])
      BY <1>p, <1>s, <1>24 DEF UninstallRemove
    <2>2. Begins(r) /\ Tells(r) /\ Frees(r)
      BY <1>p, <1>s, <1>24 DEF UninstallRemove
    <2>3. QED
      BY <2>1, <2>2 DEF OneApp
  <1>25. CASE UninstallKey(r)
    <2>1. Elsewhere(r, target[r])
      BY <1>p, <1>s, <1>25 DEF UninstallKey
    <2>2. Begins(r) /\ Tells(r) /\ Frees(r)
      BY <1>p, <1>s, <1>25 DEF UninstallKey
    <2>3. QED
      BY <2>1, <2>2 DEF OneApp
  <1>26. CASE UninstallForget(r)
    <2>1. Elsewhere(r, target[r])
      BY <1>p, <1>s, <1>26 DEF UninstallForget, NoRow
    <2>2. Begins(r) /\ Tells(r) /\ Frees(r)
      BY <1>p, <1>s, <1>26 DEF UninstallForget, NoRow
    <2>3. QED
      BY <2>1, <2>2 DEF OneApp
  <1>27. CASE StorageCheck(r)
    <2>1. Elsewhere(r, target[r])
      BY <1>p, <1>s, <1>27 DEF StorageCheck
    <2>2. Begins(r) /\ Tells(r) /\ Frees(r)
      BY <1>p, <1>s, <1>27 DEF StorageCheck
    <2>3. QED
      BY <2>1, <2>2 DEF OneApp
  <1>28. CASE StorageStart(r)
    <2>1. /\ pc[r] = "clear" /\ pc' = [pc EXCEPT ![r] = "reply"] /\ task[r] = "none"
          /\ UNCHANGED <<runtime, item, target, job>>
      BY <1>p, <1>28 DEF StorageStart
    <2>2. \A b \in App : row'[b].state = row[b].state
      <3>1. CASE UNCHANGED row
        BY <3>1
      <3>2. CASE row' = [row EXCEPT ![target[r]].migrating = TRUE]
        <4> HIDE DEF TypeOK
        <4>1. row \in [App -> Row] /\ target[r] \in App
          BY DEF TypeOK
        <4>2. \A w \in Row : [w EXCEPT !.migrating = TRUE].state = w.state
          BY DEF Row
        <4> QED BY <3>2, <4>1, <4>2
      <3>3. QED
        BY <1>28, <3>1, <3>2 DEF StorageStart
    <2>3. task'[r] \in {"none", "check"}
      BY <1>p, <1>28 DEF StorageStart
    <2>4. Elsewhere(r, target[r])
      BY <2>1, <2>3
    <2>5. Begins(r) /\ Tells(r) /\ Frees(r)
      BY <2>1, <2>2, <2>3
    <2>6. QED
      BY <2>4, <2>5 DEF OneApp
  <1>29. CASE AdoptLook(r)
    BY <1>29 DEF AdoptLook, HandlerKinds
  <1>30. CASE AdoptRegister(r)
    BY <1>30 DEF AdoptRegister, Row
  <1>31. ASSUME NEW a \in App, BatchLook(r, a) PROVE Care(r)
    BY <1>31 DEF BatchLook
  <1>32. ASSUME NEW a \in App, BatchAbort(r, a) PROVE Care(r)
    BY <1>32 DEF BatchAbort
  <1>33. CASE LinkKey(r)
    <2>1. Elsewhere(r, target[r])
      BY <1>p, <1>s, <1>33 DEF LinkKey
    <2>2. Begins(r) /\ Tells(r) /\ Frees(r)
      BY <1>p, <1>s, <1>33 DEF LinkKey
    <2>3. QED
      BY <2>1, <2>2 DEF OneApp
  <1>34. CASE LinkUp(r)
    <2>1. Elsewhere(r, target[r])
      BY <1>p, <1>s, <1>34 DEF LinkUp
    <2>2. Begins(r) /\ Tells(r) /\ Frees(r)
      BY <1>p, <1>s, <1>34 DEF LinkUp
    <2>3. QED
      BY <2>1, <2>2 DEF OneApp
  <1>q. QED
    BY <1>1, <1>2, <1>3, <1>4, <1>5, <1>6, <1>7, <1>8, <1>9, <1>10, <1>11, <1>12, <1>13,
       <1>14, <1>15, <1>16, <1>17, <1>18, <1>19, <1>20, <1>21, <1>22, <1>23, <1>24, <1>25,
       <1>26, <1>27, <1>28, <1>29, <1>30, <1>31, <1>32, <1>33, <1>34 DEF Handler

(* ... and every thread.                                                    *)
LEMMA ThreadCare ==
    ASSUME Kinds \subseteq HandlerKinds, CareAssumed, NEW r \in Request, Thread(r)
    PROVE  Care(r)
  <1> USE DEF TypeOK, locks, apps, handler, updates, Goto, Own, Disown, JobOver, ItemAt,
        Care, Begins, Tells, Frees, HolderPc, Elsewhere, Sole, Busy, Works, Migrates, Working, Running,
        MoveTask, InstallTask, LiveItem, NoneBeside, Installs, Updates, CareAssumed
  <1>t. pc' = pc /\ target' = target /\ (task[r] = "none" => \E a \in App : item[r][a] # "none")
    BY DEF Thread, InstallBuild, InstallUp, InstallVerify, InstallRelease, StorageChecks,
       StoragePause, StorageActivate, StorageSettle, BatchEnd, UpdateMerge, UpdateApply,
       UpdateRollbackRaises, UpdatePop, UpdateExit, BatchPick, BatchSweep,
       PoolIsOver, BatchSubmitFails
  <1>p. pc' = pc /\ target' = target /\ pc[r] \in {"idle", "reply", "spawn", "unspawned"}
    BY <1>t DEF Placement, Placed
  <1>1. CASE InstallBuild(r)
    <2>1. Elsewhere(r, target[r])
      BY <1>p, <1>1 DEF InstallBuild, Row, InstallEnds, Failure
    <2>2. Begins(r) /\ Tells(r) /\ Frees(r)
      BY <1>p, <1>1 DEF InstallBuild, Row, InstallEnds, Failure
    <2>3. QED
      BY <2>1, <2>2 DEF OneApp
  <1>2. CASE InstallUp(r)
    <2>1. Elsewhere(r, target[r])
      BY <1>p, <1>2 DEF InstallUp, Row, InstallEnds, Failure
    <2>2. Begins(r) /\ Tells(r) /\ Frees(r)
      BY <1>p, <1>2 DEF InstallUp, Row, InstallEnds, Failure
    <2>3. QED
      BY <2>1, <2>2 DEF OneApp
  <1>3. CASE InstallVerify(r)
    <2>1. Elsewhere(r, target[r])
      BY <1>p, <1>3 DEF InstallVerify, Row, InstallEnds, Failure
    <2>2. Begins(r) /\ Tells(r) /\ Frees(r)
      BY <1>p, <1>3 DEF InstallVerify, Row, InstallEnds, Failure
    <2>3. QED
      BY <2>1, <2>2 DEF OneApp
  <1>4. CASE InstallRelease(r)
    <2>1. Elsewhere(r, target[r])
      BY <1>p, <1>4 DEF InstallRelease, Row
    <2>2. Begins(r) /\ Tells(r) /\ Frees(r)
      BY <1>p, <1>4 DEF InstallRelease, Row
    <2>3. QED
      BY <2>1, <2>2 DEF OneApp
  <1>5. CASE StorageChecks(r)
    <2>1. Elsewhere(r, target[r])
      BY <1>p, <1>5 DEF StorageChecks
    <2>2. Begins(r) /\ Tells(r) /\ Frees(r)
      BY <1>p, <1>5 DEF StorageChecks
    <2>3. QED
      BY <2>1, <2>2 DEF OneApp
  <1>6. CASE StoragePause(r)
    <2>1. Elsewhere(r, target[r])
      BY <1>p, <1>6 DEF StoragePause
    <2>2. Begins(r) /\ Tells(r) /\ Frees(r)
      BY <1>p, <1>6 DEF StoragePause
    <2>3. QED
      BY <2>1, <2>2 DEF OneApp
  <1>7. CASE StorageActivate(r)
    <2>1. Elsewhere(r, target[r])
      BY <1>p, <1>7 DEF StorageActivate
    <2>2. Begins(r) /\ Tells(r) /\ Frees(r)
      BY <1>p, <1>7 DEF StorageActivate
    <2>3. QED
      BY <2>1, <2>2 DEF OneApp
  <1>8. CASE StorageSettle(r)
    <2>1. Elsewhere(r, target[r])
      BY <1>p, <1>8 DEF StorageSettle, Row
    <2>2. Begins(r) /\ Tells(r) /\ Frees(r)
      BY <1>p, <1>8 DEF StorageSettle, Row
    <2>3. QED
      BY <2>1, <2>2 DEF OneApp
  <1>9. CASE BatchEnd(r)
    <2>1. Elsewhere(r, target[r])
      BY <1>p, <1>9 DEF BatchEnd
    <2>2. Begins(r) /\ Tells(r) /\ Frees(r)
      BY <1>p, <1>9 DEF BatchEnd
    <2>3. QED
      BY <2>1, <2>2 DEF OneApp
  <1>10. ASSUME NEW a \in App, UpdateMerge(r, a) PROVE Care(r)
    <2>1. Elsewhere(r, a)
      BY <1>p, <1>10 DEF UpdateMerge
    <2>2. Begins(r) /\ Frees(r)
      BY <1>p, <1>10 DEF UpdateMerge
    <2>3. Tells(r)
      BY <1>p, <1>10 DEF UpdateMerge
    <2>4. QED
      BY <2>1, <2>2, <2>3 DEF OneApp
  <1>11. ASSUME NEW a \in App, UpdateApply(r, a) PROVE Care(r)
    <2>1. Elsewhere(r, a)
      BY <1>p, <1>11 DEF UpdateApply
    <2>2. Begins(r) /\ Tells(r) /\ Frees(r)
      BY <1>p, <1>11 DEF UpdateApply
    <2>3. QED
      BY <2>1, <2>2 DEF OneApp
  <1>12. ASSUME NEW a \in App, UpdateRollbackRaises(r, a) PROVE Care(r)
    <2>1. Elsewhere(r, a)
      BY <1>p, <1>12 DEF UpdateRollbackRaises
    <2>2. Begins(r) /\ Tells(r) /\ Frees(r)
      BY <1>p, <1>12 DEF UpdateRollbackRaises
    <2>3. QED
      BY <2>1, <2>2 DEF OneApp
  <1>13. ASSUME NEW a \in App, UpdatePop(r, a) PROVE Care(r)
    <2>1. Elsewhere(r, a)
      BY <1>p, <1>13 DEF UpdatePop
    <2>2. Begins(r) /\ Tells(r) /\ Frees(r)
      BY <1>p, <1>13 DEF UpdatePop
    <2>3. QED
      BY <2>1, <2>2 DEF OneApp
  <1>14. ASSUME NEW a \in App, UpdateExit(r, a) PROVE Care(r)
    <2>1. Elsewhere(r, a)
      BY <1>p, <1>14 DEF UpdateExit
    <2>2. Begins(r) /\ Tells(r) /\ Frees(r)
      BY <1>p, <1>14 DEF UpdateExit
    <2>3. QED
      BY <2>1, <2>2 DEF OneApp
  <1>15. ASSUME NEW a \in App, BatchPick(r, a) PROVE Care(r)
    <2>1. Elsewhere(r, a)
      BY <1>p, <1>15 DEF BatchPick
    <2>2. Begins(r) /\ Tells(r) /\ Frees(r)
      BY <1>p, <1>15 DEF BatchPick
    <2>3. QED
      BY <2>1, <2>2 DEF OneApp
  <1>16. ASSUME NEW a \in App, BatchSweep(r, a) PROVE Care(r)
    <2>1. Elsewhere(r, a)
      BY <1>p, <1>16 DEF BatchSweep, PoolIsOver
    <2>2. Begins(r) /\ Frees(r)
      BY <1>p, <1>16 DEF BatchSweep, PoolIsOver
    <2>3. Tells(r)
      <3>1. /\ UNCHANGED <<job, row, task, target>>
            /\ \E i \in {"popped", "none"} : item' = [item EXCEPT ![r][a] = i]
        BY <1>16 DEF BatchSweep
      <3>2. \A b \in App : item'[r][b] \in {item[r][b], "popped", "none"}
        BY <3>1
      <3>3. QED
        BY <1>p, <3>1, <3>2
    <2>4. QED
      BY <2>1, <2>2, <2>3 DEF OneApp
  <1>17. CASE BatchSubmitFails(r)
    <2>1. Elsewhere(r, target[r])
      BY <1>p, <1>17 DEF BatchSubmitFails
    <2>2. Begins(r) /\ Tells(r) /\ Frees(r)
      BY <1>p, <1>17 DEF BatchSubmitFails
    <2>3. QED
      BY <2>1, <2>2 DEF OneApp
  <1>q. QED
    BY <1>1, <1>2, <1>3, <1>4, <1>5, <1>6, <1>7, <1>8, <1>9, <1>10, <1>11, <1>12, <1>13,
       <1>14, <1>15, <1>16, <1>17 DEF Thread

(* ... and a request that arrives.                                          *)
LEMMA ArriveCare ==
    ASSUME CareAssumed, NEW r \in Request, NEW k \in Kinds, NEW b \in App, Arrive(r, k, b)
    PROVE  Care(r)
  <1> USE DEF Arrive, TypeOK, CareAssumed, locks, apps, updates, Goto
  <1>1. /\ pc[r] = "idle" /\ task[r] = "none" /\ \A a \in App : item[r][a] = "none"
        /\ pc'[r] = "waiting"
    BY DEF Placement, Placed
  <1>2. /\ \A a \in App : ~Busy(r, a) /\ ~Busy(r, a)' /\ ~Sole(r, a) /\ ~Sole(r, a)'
        /\ runtime' = runtime
    BY <1>1 DEF Busy, Works, Migrates, Sole, HolderPc, InstallTask, MoveTask, LiveItem
  <1>3. OneApp(r) /\ Begins(r) /\ Frees(r)
    BY <1>1, <1>2 DEF OneApp, Elsewhere, Begins, Frees, Busy
  <1>4. Tells(r)
    BY <1>1 DEF Tells, Running, Working, LiveItem
  <1>5. QED
    BY <1>3, <1>4 DEF Care

(* What holds beside Apart when all operations share the lock.              *)
Ordered == NoneBeside /\ Installs /\ Updates /\ Free /\ MigrationIsAlone

(* Two that work on an app hold it, so they are one.                        *)
LEMMA OneWorker ==
    ASSUME OneHolder, NEW a \in App, NEW r \in Request, NEW s \in Request,
           Works(r, a), Works(s, a)
    PROVE  r = s
  BY DEF OneHolder, Works, Holds

(* A careful step keeps migrations alone.                                   *)
LEMMA OrderedRequestStep ==
    ASSUME IInv, Apart, Apart', Ordered, NEW r \in Request, Footprint(r), Care(r)
    PROVE  Ordered'
  <1> USE DEF Footprint, Care
  <1>1. \A s \in Request \ {r}, a \in App : Works(s, a)' <=> Works(s, a)
    BY DEF Alone, Works
  <1>2. \A s \in Request, a \in App : Works(s, a)' =>
            Works(s, a) \/ (s = r /\ target[r] = a /\ pc[r] \in {"admitted", "checked"})
    BY <1>1 DEF Begins
  <1>3. NoneBeside'
    BY DEF Ordered, NoneBeside, Alone, Tells
  <1>4. Installs'
    <2> SUFFICES ASSUME NEW s \in Request, s # r, task'[s] \in {"build", "up", "verify"}
                 PROVE  row'[target'[s]].state = "installing"
      BY DEF Installs, Tells
    <2>1. /\ task[s] = task'[s] /\ target'[s] = target[s] /\ target[s] \in App
          /\ row[target[s]].state = "installing"
      BY DEF IInv, TypeOK, Ordered, Installs, Alone
    <2>2. Works(s, target[s])
      BY <2>1 DEF Works, InstallTask
    <2>3. ~Works(r, target[s])
      BY <2>1, <2>2, OneWorker DEF IInv
    <2>4. QED
      BY <2>1, <2>3 DEF Tells
  <1>5. Updates'
    <2> SUFFICES ASSUME NEW s \in Request, NEW a \in App, s # r, item'[s][a] \in Working
                 PROVE  Running(a)'
      BY DEF Updates, Tells
    <2>1. item[s][a] \in Working /\ Running(a)
      BY DEF Ordered, Updates, Alone
    <2>2. Works(s, a)
      BY <2>1 DEF Works, Working
    <2>3. ~Works(r, a)
      BY <2>2, OneWorker DEF IInv
    <2>4. ~(target[r] = a /\ pc[r] = "unspawned")
      BY <2>2 DEF Ordered, Free
    <2>5. QED
      BY <2>1, <2>3, <2>4 DEF Tells
  <1>6. Free'
    <2>0. \A s \in Request : pc'[s] \in {"clear", "unspawned"}
            => target'[s] = target[s] /\ target[s] \in App
      BY DEF IInv, TypeOK, Alone, Frees
    <2> SUFFICES ASSUME NEW s \in Request, NEW t \in Request, NEW a \in App,
                        pc'[s] \in {"clear", "unspawned"}, target[s] = a, target'[s] = a
                 PROVE  ~Works(t, a)'
      BY <2>0 DEF Free, Works
    <2>1. ASSUME s # r PROVE ~Works(t, a)'
      <3>1. pc[s] = pc'[s] /\ opLock = s
        BY <2>1 DEF Alone, Apart, Locked, LockedPc
      <3>2. ~Works(t, a)
        BY <3>1 DEF Ordered, Free
      <3>3. pc[r] \notin {"admitted", "checked"}
        BY <2>1, <3>1 DEF Apart, Locked, LockedPc
      <3>4. QED
        BY <1>2, <3>2, <3>3
    <2>2. ASSUME s = r PROVE ~Works(t, a)'
      <3>1. CASE pc[r] = pc'[r]
        <4>1. ~Works(t, a) /\ pc[r] \notin {"admitted", "checked"}
          BY <2>2, <3>1 DEF Ordered, Free
        <4>2. QED
          BY <1>2, <4>1
      <3>2. CASE /\ pc[r] = "admitted" /\ ~Running(target[r])
                 /\ row[target[r]].state # "installing" /\ UNCHANGED <<task, item>>
        <4>1. target'[t] = target[t]
          BY <2>2 DEF Alone
        <4>2. pc'[t] \notin HolderPc
          <5>1. pc'[r] \notin HolderPc
            BY <2>2 DEF HolderPc
          <5>2. opLock = r
            BY <3>2 DEF Apart, Locked, LockedPc
          <5>3. t # r => pc[t] \notin HolderPc
            BY <5>2 DEF Apart, Locked, LockedPc
          <5>4. QED
            BY <5>1, <5>3 DEF Alone
        <4>3. task[t] \notin InstallTask \ {"release"} \/ target[t] # a
          BY <2>2, <3>2 DEF Ordered, Installs, InstallTask
        <4>4. item[t][a] \notin Working
          BY <2>2, <3>2 DEF Ordered, Updates
        <4>5. QED
          BY <3>2, <4>1, <4>2, <4>3, <4>4 DEF Works, Working
      <3>3. CASE pc[r] = "spawn" /\ Works(r, target[r]) /\ ~Works(r, target[r])'
        <4>1. Works(r, a) /\ ~Works(r, a)'
          BY <2>2, <3>3 DEF Works
        <4>2. t # r => ~Works(t, a)
          BY <4>1, OneWorker DEF IInv
        <4>3. QED
          BY <1>1, <4>1, <4>2
      <3>4. QED
        BY <2>2, <3>1, <3>2, <3>3 DEF Frees
    <2>3. QED
      BY <2>1, <2>2
  <1>7. MigrationIsAlone'
    <2>1. ASSUME NEW a \in App, NEW s \in Request, row'[a].migrating, Works(s, a)'
          PROVE  FALSE
      <3>1. CASE row[a].migrating
        <4>1. ~Works(s, a)
          BY <3>1 DEF Ordered, MigrationIsAlone
        <4>2. target[r] = a /\ pc[r] \in {"admitted", "checked"}
          BY <1>2, <2>1, <4>1
        <4>3. QED
          BY <3>1, <4>2 DEF Apart, Checked, LockedPc
      <3>2. CASE ~row[a].migrating
        <4>1. target[r] = a /\ pc[r] = "clear"
          BY <2>1, <3>2 DEF Marks
        <4>2. QED
          BY <1>2, <2>1, <4>1 DEF Ordered, Free
      <3>3. QED
        BY <3>1, <3>2
    <2>2. \A a \in App, s \in Request : row'[a].migrating => ~Links(s, a)'
      BY DEF Apart, Checked, Links, LockedPc
    <2>3. QED
      BY <2>1, <2>2 DEF MigrationIsAlone, Apart, Marked, OneMover
  <1>8. QED
    BY <1>3, <1>4, <1>5, <1>6, <1>7 DEF Ordered

(* Every step but a restart is one request's, and careful.                  *)
LEMMA StepIsCareful ==
    ASSUME Kinds \subseteq HandlerKinds, IInv, Apart, Ordered, Next, ~Restart
    PROVE  \E r \in Request : Footprint(r) /\ Care(r)
  <1>1. TypeOK /\ Placement /\ Fitting /\ NoRecreationDuringRemoval /\ CareAssumed
    BY DEF IInv, Apart, Ordered, CareAssumed
  <1>2. PICK r \in Request : \/ \E k \in Kinds, a \in App : Arrive(r, k, a)
                             \/ Handler(r) \/ Thread(r)
    BY DEF Next
  <1>3. Footprint(r)
    BY <1>1, <1>2, ArriveFootprint, HandlerFootprint, ThreadFootprint
  <1>4. Care(r)
    BY <1>1, <1>2, ArriveCare, HandlerCare, ThreadCare
  <1>5. QED
    BY <1>3, <1>4

LEMMA OrderedStep ==
    ASSUME Kinds \subseteq HandlerKinds, IInv, Apart, Apart', Ordered, [Next]_vars
    PROVE  Ordered'
  <1>1. CASE UNCHANGED vars
    BY <1>1 DEF vars, Ordered, NoneBeside, Installs, Updates, Running, Free, Works,
       MigrationIsAlone, Migrates, Links
  <1>2. CASE Restart
    <2>1. \A r \in Request, a \in App : ~Works(r, a)' /\ ~Migrates(r, a)' /\ ~Links(r, a)'
      BY <1>2 DEF Restart, Works, Migrates, Links, HolderPc, InstallTask, MoveTask, LiveItem
    <2>2. QED
      BY <1>2, <2>1 DEF Restart, Ordered, NoneBeside, Installs, Updates, Working, LiveItem,
         Free,
         MigrationIsAlone
  <1>3. CASE Next /\ ~Restart
    BY <1>3, StepIsCareful, OrderedRequestStep
  <1>4. QED
    BY <1>1, <1>2, <1>3

LEMMA OrderedInductive == ASSUME Kinds \subseteq HandlerKinds PROVE Spec => []Ordered
  <1>1. Init => Ordered
    BY DEF Init, Ordered, NoneBeside, Installs, Updates, Working, LiveItem, Free, Works,
       HolderPc,
       InstallTask, MigrationIsAlone, Migrates, Links, MoveTask
  <1>2. IInv /\ Apart /\ Apart' /\ Ordered /\ [Next]_vars => Ordered'
    BY OrderedStep
  <1>3. QED
    BY <1>1, <1>2, Inductive, ApartInductive, PTL DEF Spec

(* _guard_storage_operation and api_app_storage: a migration, or the mark   *)
(* of one that was interrupted, has the app to itself (MigrationIsAlone)    *)
(* among the operations that take the operation lock.                       *)
THEOREM MigrationAlone ==
    ASSUME Kinds \subseteq HandlerKinds
    PROVE  Spec => []MigrationIsAlone
  <1>1. Ordered => MigrationIsAlone
    BY DEF Ordered
  <1>2. QED
    BY <1>1, OrderedInductive, PTL

(* As long as batches and adoptions, which do not take the operation lock,  *)
(* keep away, no update is at the checkout of an app whose data a migration *)
(* moves (UpdatesBlockedDuringMigration, which a batch breaks).             *)
THEOREM UpdatesWait ==
    ASSUME Kinds \subseteq HandlerKinds
    PROVE  Spec => []UpdatesBlockedDuringMigration
  <1>1. MigrationIsAlone => UpdatesBlockedDuringMigration
    BY DEF MigrationIsAlone, UpdatesBlockedDuringMigration, Works, LiveItem
  <1>2. QED
    BY <1>1, MigrationAlone, PTL

(* The mapping of the refinement: the owner is who is busy.                 *)
OwnerIsBusy ==
    \A a \in App : /\ \A r \in Request : Busy(r, a) => Owner(a) = r
                   /\ (\A r \in Request : ~Busy(r, a)) => Owner(a) = Nobody

(* ... and there is one of them at most.                                    *)
BusyOnce == \A a \in App : \A r, s \in Request : Busy(r, a) /\ Busy(s, a) => r = s

(* OneHolder and MigrationIsAlone make the mapping a function of who is     *)
(* busy.                                                                    *)
LEMMA OwnerKnown == OneHolder /\ MigrationIsAlone => BusyOnce /\ OwnerIsBusy
  <1> SUFFICES ASSUME OneHolder, MigrationIsAlone PROVE BusyOnce /\ OwnerIsBusy
    OBVIOUS
  <1>1. BusyOnce
    BY OneWorker DEF BusyOnce, Busy, MigrationIsAlone
  <1>2. ASSUME NEW a \in App, NEW r \in Request, Busy(r, a) PROVE Owner(a) = r
    <2>1. \A s \in Request : (Works(s, a) \/ Migrates(s, a)) <=> s = r
      BY <1>1, <1>2 DEF BusyOnce, Busy
    <2>2. QED
      BY <2>1 DEF Owner
  <1>3. ASSUME NEW a \in App, \A r \in Request : ~Busy(r, a) PROVE Owner(a) = Nobody
    BY <1>3 DEF Owner, Busy
  <1>4. QED
    BY <1>1, <1>2, <1>3 DEF OwnerIsBusy

(* A request's step takes an app, acts on its own app, brings the           *)
(* containers of one up that nobody must have alone, or changes no owner.   *)
LEMMA RequestRefines ==
    ASSUME BusyOnce, OwnerIsBusy, BusyOnce', OwnerIsBusy', TypeOK, TypeOK',
           NEW r \in Request, Alone(r), Acts(r), OneApp(r),
           \A a \in App : Links(r, a) =>
               "link" \in Kinds /\ \A s \in Request : ~Sole(s, a)
    PROVE  [Exclusion!Next]_Exclusion!vars
  <1> DEFINE owner == [a \in App |-> Owner(a)]
             sole  == [a \in App |-> \E s \in Request : Sole(s, a)]
  <1>1. PICK a \in App : Elsewhere(r, a)
    BY DEF OneApp
  <1>2. \A s \in Request \ {r}, b \in App :
            (Busy(s, b)' <=> Busy(s, b)) /\ (Sole(s, b)' <=> Sole(s, b))
    BY DEF Alone, Busy, Works, Migrates, Sole
  <1>3. \A b \in App \ {a} : Owner(b)' = Owner(b) /\ sole'[b] = sole[b]
    <2> TAKE b \in App \ {a}
    <2>1. \A s \in Request : (Busy(s, b)' <=> Busy(s, b)) /\ (Sole(s, b)' <=> Sole(s, b))
      BY <1>1, <1>2 DEF Elsewhere
    <2>2. sole'[b] = sole[b]
      BY <2>1
    <2>3. CASE \E s \in Request : Busy(s, b)
      BY <2>1, <2>2, <2>3 DEF OwnerIsBusy
    <2>4. CASE \A s \in Request : ~Busy(s, b)
      BY <2>1, <2>2, <2>4 DEF OwnerIsBusy
    <2>5. QED
      BY <2>3, <2>4
  <1>4. /\ runtime' = [runtime EXCEPT ![a] = runtime'[a]] /\ runtime'[a] \in Exclusion!Runtime
        /\ sole' = [sole EXCEPT ![a] = sole'[a]] /\ sole'[a] \in BOOLEAN
    <2>1. runtime' = [runtime EXCEPT ![a] = runtime'[a]] /\ runtime'[a] \in Exclusion!Runtime
      BY <1>1 DEF Elsewhere, TypeOK, Runtime, Exclusion!Runtime
    <2>2. sole \in [App -> BOOLEAN] /\ sole' \in [App -> BOOLEAN]
      OBVIOUS
    <2>3. \A b \in App \ {a} : sole'[b] = sole[b]
      BY <1>3
    <2>4. sole' = [sole EXCEPT ![a] = sole'[a]] /\ sole'[a] \in BOOLEAN
      <3> HIDE DEF sole
      <3>1. QED
        BY <2>2, <2>3
    <2>5. QED
      BY <2>1, <2>4
  <1>5. CASE Busy(r, a)
    <2>1. Owner(a) = r /\ Owner(a) # Nobody
      BY <1>5, ConstantsAssumption DEF OwnerIsBusy
    <2>2. CASE Busy(r, a)'
      <3>1. Owner(a)' = r
        BY <2>2 DEF OwnerIsBusy
      <3>2. owner' = owner
        BY <1>3, <2>1, <3>1
      <3>3. Exclusion!Act(a)
        BY <1>4, <2>1, <3>2 DEF Exclusion!Act
      <3>4. QED
        BY <3>3 DEF Exclusion!Next
    <2>3. CASE ~Busy(r, a)'
      <3>1. \A s \in Request : ~Busy(s, a)'
        BY <1>2, <1>5, <2>3 DEF BusyOnce
      <3>2. Owner(a)' = Nobody /\ sole'[a] = FALSE
        <4>1. \A s \in Request : ~Sole(s, a)'
          BY <3>1 DEF Sole, Busy, Works, HolderPc
        <4>2. QED
          BY <3>1, <4>1 DEF OwnerIsBusy
      <3>3. owner' = [owner EXCEPT ![a] = Nobody]
        BY <1>3, <3>2
      <3>4. Exclusion!Act(a)
        BY <1>4, <2>1, <3>2, <3>3 DEF Exclusion!Act
      <3>5. QED
        BY <3>4 DEF Exclusion!Next
    <2>4. QED
      BY <2>2, <2>3
  <1>6. CASE ~Busy(r, a) /\ Busy(r, a)'
    <2>1. UNCHANGED runtime
      BY <1>1, <1>6 DEF Acts, TypeOK, Elsewhere
    <2>2. \A s \in Request : ~Busy(s, a)
      BY <1>2, <1>6 DEF BusyOnce
    <2>3. owner[a] = Nobody /\ Owner(a)' = r
      BY <1>6, <2>2 DEF OwnerIsBusy
    <2>4. owner' = [owner EXCEPT ![a] = r]
      BY <1>3, <2>3
    <2>5. Exclusion!Take(a, r)
      BY <1>4, <2>1, <2>3, <2>4 DEF Exclusion!Take
    <2>6. QED
      BY <2>5 DEF Exclusion!Next
  <1>7. CASE ~Busy(r, a) /\ ~Busy(r, a)'
    <2>1. ~Sole(r, a) /\ ~Sole(r, a)'
      BY <1>7 DEF Sole, Busy, Works, HolderPc
    <2>2. \A s \in Request : (Busy(s, a)' <=> Busy(s, a)) /\ (Sole(s, a)' <=> Sole(s, a))
      BY <1>2, <1>7, <2>1
    <2>3. Owner(a)' = Owner(a)
      <3>1. CASE \E s \in Request : Busy(s, a)
        BY <2>2, <3>1 DEF OwnerIsBusy
      <3>2. CASE \A s \in Request : ~Busy(s, a)
        BY <2>2, <3>2 DEF OwnerIsBusy
      <3>3. QED
        BY <3>1, <3>2
    <2>4. owner' = owner /\ sole' = sole
      BY <1>3, <2>2, <2>3
    <2>5. CASE runtime'[a] = runtime[a]
      <3>1. runtime' = runtime
        BY <1>4, <2>5 DEF TypeOK
      <3>2. QED
        BY <2>4, <3>1 DEF Exclusion!vars
    <2>6. CASE runtime'[a] # runtime[a]
      <3>1. Links(r, a) /\ runtime'[a] # "absent"
        BY <1>7, <2>6 DEF Acts
      <3>2. "link" \in Kinds /\ ~sole[a]
        BY <3>1
      <3>3. Exclusion!Recreate(a)
        BY <1>4, <2>4, <3>1, <3>2 DEF Exclusion!Recreate
      <3>4. QED
        BY <3>3 DEF Exclusion!Next
    <2>7. QED
      BY <2>5, <2>6
  <1>8. QED
    BY <1>5, <1>6, <1>7

(* Nobody must have the app of a link to the hub alone.                     *)
LEMMA LinkedIsFree ==
    ASSUME TypeOK, Apart, NEW r \in Request, NEW a \in App, Links(r, a)
    PROVE  "link" \in Kinds /\ \A s \in Request : ~Sole(s, a)
  <1>1. pc[r] \in LockedPc \ {"locked"} /\ target[r] = a /\ pc[r] \notin HolderPc
    BY DEF Links, LockedPc, HolderPc
  <1>2. ASSUME NEW s \in Request, pc[s] \in HolderPc PROVE FALSE
    BY <1>1, <1>2 DEF Apart, Locked, LockedPc
  <1>3. \A s \in Request : ~Migrates(s, a)
    BY <1>1 DEF Apart, Checked, Marked
  <1>4. QED
    BY <1>1, <1>2, <1>3 DEF Sole, Links, TypeOK, Apart, Fitting

(* Every step of the hub is one of AppExclusion, or none.                   *)
LEMMA StepRefines ==
    ASSUME Kinds \subseteq HandlerKinds, IInv, Apart, Ordered,
           BusyOnce, OwnerIsBusy, BusyOnce', OwnerIsBusy', TypeOK', [Next]_vars
    PROVE  [Exclusion!Next]_Exclusion!vars
  <1>1. CASE UNCHANGED vars
    <2>1. \A a \in App : Owner(a)' = Owner(a)
      BY <1>1 DEF vars, Owner, Works, Migrates
    <2>2. \A a \in App, r \in Request : Sole(r, a)' = Sole(r, a)
      BY <1>1 DEF vars, Sole, Migrates
    <2>3. QED
      BY <1>1, <2>1, <2>2 DEF vars, Exclusion!vars
  <1>2. CASE Restart
    <2>1. \A a \in App, r \in Request : ~Busy(r, a)'
      BY <1>2 DEF Restart, Busy, Works, Migrates, HolderPc, InstallTask, MoveTask, LiveItem
    <2>2. \A a \in App : Owner(a)' = Nobody
      BY <2>1 DEF OwnerIsBusy
    <2>3. \A a \in App, r \in Request : ~Sole(r, a)'
      BY <1>2 DEF Restart, Sole, Migrates, HolderPc, MoveTask
    <2>4. Exclusion!Restart
      BY <1>2, <2>2, <2>3 DEF Restart, Exclusion!Restart
    <2>5. QED
      BY <2>4 DEF Exclusion!Next
  <1>3. CASE Next /\ ~Restart
    <2>1. PICK r \in Request : Footprint(r) /\ Care(r)
      BY <1>3, StepIsCareful
    <2>2. QED
      BY <2>1, LinkedIsFree, RequestRefines DEF IInv, Footprint, Care
  <1>4. QED
    BY <1>1, <1>2, <1>3

(* The operations that take the lock implement AppExclusion                 *)
(* (OneOwnerPerApp): an app has one owner, and its containers change only   *)
(* in the owner's hands, or by a link to the hub, which brings them up again *)
(* and only beside the thread of an installation or an update.              *)
THEOREM ImplementsExclusion ==
    ASSUME Kinds \subseteq HandlerKinds
    PROVE  Spec => OneOwnerPerApp
  <1>1. Init => Exclusion!Init
    <2> SUFFICES ASSUME Init PROVE Exclusion!Init
      OBVIOUS
    <2>1. \A a \in App : Owner(a) = Nobody
      BY DEF Init, Owner, Works, Migrates, HolderPc, InstallTask, MoveTask, LiveItem
    <2>2. runtime \in [App -> Runtime]
      BY TypeInit DEF TypeOK
    <2>3. \A a \in App, r \in Request : ~Sole(r, a)
      BY DEF Init, Sole, Migrates, HolderPc, MoveTask
    <2>4. QED
      BY <2>1, <2>2, <2>3 DEF Exclusion!Init, Runtime, Exclusion!Runtime
  <1>2. IInv /\ Ordered => OneHolder /\ MigrationIsAlone /\ TypeOK
    BY DEF IInv, Ordered
  <1>3. /\ IInv /\ Apart /\ Ordered /\ [Next]_vars
        /\ (BusyOnce /\ OwnerIsBusy) /\ (BusyOnce /\ OwnerIsBusy)' /\ TypeOK'
        => [Exclusion!Next]_Exclusion!vars
    BY StepRefines
  <1>4. QED
    BY <1>1, <1>2, <1>3, OwnerKnown, Inductive, ApartInductive, OrderedInductive, PTL
       DEF Spec, OneOwnerPerApp, Exclusion!Spec
=============================================================================
