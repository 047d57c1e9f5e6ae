------------------------ MODULE SidecarUpdater_proofs ------------------------
(***************************************************************************)
(* What holds of the sidecar's jobs for any number of jobs, revisions,      *)
(* requests and crashes, whatever clients ask and when: a part however jobs *)
(* overlap, the rest as long as no start was let through beside a job the   *)
(* test of start_update does not see.                                       *)
(*                                                                         *)
(* The test sees the process in RUNNING_PROCESS.  The inductive invariant   *)
(* says that this is the only script that runs once its job has registered  *)
(* it, so that a start that passes has nothing beside it or has met a job   *)
(* in one of the moments `Hidden' and `Late' name.                          *)
(***************************************************************************)
EXTENDS SidecarUpdater, TLAPS

(* Scripts have threads that started them and wait for them.                *)
Waited ==
    \A j \in Job : /\ Alive(j) => thread[j] \in {"register", "read"}
                   /\ thread[j] \in {"none", "begin", "popen"} => script[j] = "none"

(* A job has its verdict when its end is known and not before, a success is *)
(* a script that came to its end, and the one on show is some job's.        *)
Ongoing == {"none", "begin", "popen", "register", "read"}
Honest ==
    /\ \A j \in Job : thread[j] \in Ongoing => verdict[j] = "none"
    /\ \A j \in Job : thread[j] = "report" => verdict[j] # "none"
    /\ \A j \in Job : verdict[j] = "success" => script[j] = "ok"
    /\ file = "success" => \E j \in Job : verdict[j] = "success"

(* What holds whoever starts and stops.                                     *)
Anyway == TypeOK /\ Waited /\ Honest

(* A job from its start to the end of its script.                           *)
Busy(j) == thread[j] \in {"begin", "popen", "register", "read"}

(* No start met what RUNNING_PROCESS hides: nothing is started beside a job *)
(* whose script may run, and a script that runs is the one on record.       *)
OneJob == "hidden" \notin overlap =>
    /\ \A j, k \in Job : Busy(j) /\ Busy(k) => j = k
    /\ \A s, t \in Slot : request[s] = "git" /\ request[t] = "git" => s = t
    /\ \A s \in Slot : \A j \in Job : request[s] = "git" => ~Busy(j)
    /\ \A j \in Job : thread[j] = "read" /\ Alive(j) => running = j
    /\ running # Nobody => thread[running] = "read"

(* Where a stop that was asked for is, until the job's end is known.        *)
StopPending == "hidden" \notin overlap =>
    /\ stop => \E j \in asked : thread[j] = "read"
    /\ \A j \in Job : j \in asked /\ verdict[j] = "none" =>
            thread[j] = "lost" \/ (thread[j] = "read" /\ stop)

(* No start overlapped any job: an earlier success is off the state file    *)
(* before the next script runs, and no report comes late.                   *)
Alone == overlap = {} =>
    /\ \A j, k \in Job : Unfinished(j) /\ Unfinished(k) => j = k
    /\ \A s \in Slot : \A j \in Job : request[s] = "git" => ~Unfinished(j)
    /\ \A j \in Job : thread[j] \in {"popen", "register", "read"} => file # "success"

(* How far a revision has come, script by script.                           *)
Installed == overlap = {} =>
    /\ image <= head /\ head <= remote /\ hub.rev <= image
    /\ \A j \in Job :
        /\ script[j] = "tag" => image <= built[j] /\ built[j] <= head
        /\ script[j] \in {"up", "start"} => built[j] <= image
        /\ script[j] \in {"tail", "ok"} => built[j] <= hub.rev
        /\ script[j] = "tail" => hub.up
        /\ script[j] = "ok" /\ thread[j] \in {"register", "read"} => hub.up
        /\ verdict[j] = "success" /\ thread[j] = "report" => hub.up
    /\ file = "success" => hub.up

IInv == Anyway /\ OneJob /\ StopPending /\ StopHitsItsJob /\ Alone /\ Installed

-----------------------------------------------------------------------------
(* The state has the types it is given. *)
LEMMA TypeInit == Init => TypeOK
<1> SUFFICES ASSUME Init PROVE TypeOK
  OBVIOUS
<1>1. /\ hub \in [up : BOOLEAN, rev : Rev]
      /\ remote \in Rev /\ head \in Rev /\ image \in Rev /\ crashes \in 0..MaxCrashes
  BY SidecarAssumption DEF Init, Rev
<1> QED BY <1>1 DEF Init, TypeOK, Thread, Script, Verdict, Request, Status

(* A report writes what the job's end decided, so the types need Honest. *)
LEMMA TypeNext ==
  ASSUME TypeOK, Honest, [Next]_vars
  PROVE  TypeOK'
<1>1. ASSUME NEW s \in Slot, StartAsked(s) PROVE TypeOK'
  BY <1>1 DEF StartAsked, StartPasses, Unseen, code, docker, jobs, stops, TypeOK, Request
<1>2. ASSUME NEW s \in Slot, StartRefused(s) PROVE TypeOK'
  BY <1>2 DEF StartRefused, RequestStep, code, docker, process, jobs, stops, history, aside,
      TypeOK, Request, Thread, Script, Verdict, Status, Rev
<1>3. ASSUME NEW s \in Slot, StartLaunched(s) PROVE TypeOK'
  BY <1>3 DEF StartLaunched, RequestStep, code, docker, process, jobs, stops, history,
      aside, TypeOK, Request, Thread, Script, Verdict, Status, Rev
<1>4. ASSUME NEW s \in Slot, StartAccepted(s) PROVE TypeOK'
  BY <1>4 DEF StartAccepted, RequestStep, code, docker, process, jobs, stops, history,
      aside, TypeOK, Request, Thread, Script, Verdict, Status, Rev
<1>5. ASSUME NEW j \in Job, JobBegins(j) PROVE TypeOK'
  BY <1>5 DEF JobBegins, ThreadStep, code, docker, process, jobs, stops, history, aside,
      TypeOK, Request, Thread, Script, Verdict, Status, Rev
<1>6. ASSUME NEW j \in Job, JobSpawns(j) PROVE TypeOK'
  BY <1>6 DEF JobSpawns, code, docker, process, jobs, stops, history, aside, TypeOK,
      Request, Thread, Script, Verdict, Status, Rev
<1>7. ASSUME NEW j \in Job, JobRegisters(j) PROVE TypeOK'
  BY <1>7 DEF JobRegisters, ThreadStep, code, docker, process, jobs, stops, history, aside,
      TypeOK, Request, Thread, Script, Verdict, Status, Rev
<1>8. ASSUME NEW j \in Job, JobEnds(j) PROVE TypeOK'
  BY <1>8 DEF JobEnds, ThreadStep, Outcome, code, docker, process, jobs, stops, history,
      aside, TypeOK, Request, Thread, Script, Verdict, Status, Rev
<1>9. ASSUME NEW j \in Job, JobReports(j) PROVE TypeOK'
  BY <1>9 DEF JobReports, ThreadStep, code, docker, process, stops, history, Honest, TypeOK,
      Status, Thread, Verdict
<1>10. ASSUME NEW j \in Job, ScriptPulls(j) PROVE TypeOK'
  BY <1>10 DEF ScriptPulls, ScriptStep, code, docker, process, jobs, stops, history, aside,
      TypeOK, Request, Thread, Script, Verdict, Status, Rev
<1>11. ASSUME NEW j \in Job, ScriptBuilds(j) PROVE TypeOK'
  BY <1>11 DEF ScriptBuilds, ScriptStep, code, docker, process, jobs, stops, history, aside,
      TypeOK, Request, Thread, Script, Verdict, Status, Rev
<1>12. ASSUME NEW j \in Job, ScriptTags(j) PROVE TypeOK'
  BY <1>12 DEF ScriptTags, ScriptStep, code, docker, process, jobs, stops, history, aside,
      TypeOK, Request, Thread, Script, Verdict, Status, Rev
<1>13. ASSUME NEW j \in Job, ScriptStopsHub(j) PROVE TypeOK'
  BY <1>13 DEF ScriptStopsHub, ScriptStep, code, docker, process, jobs, stops, history,
      aside, TypeOK, Request, Thread, Script, Verdict, Status, Rev
<1>14. ASSUME NEW j \in Job, ScriptStartsHub(j) PROVE TypeOK'
  BY <1>14 DEF ScriptStartsHub, ScriptStep, code, docker, process, jobs, stops, history,
      aside, TypeOK, Request, Thread, Script, Verdict, Status, Rev
<1>15. ASSUME NEW j \in Job, ScriptEnds(j) PROVE TypeOK'
  BY <1>15 DEF ScriptEnds, ScriptStep, code, docker, process, jobs, stops, history, aside,
      TypeOK, Request, Thread, Script, Verdict, Status, Rev
<1>16. ASSUME NEW j \in Job, ScriptFails(j) PROVE TypeOK'
  BY <1>16 DEF ScriptFails, code, docker, process, jobs, stops, history, aside, TypeOK,
      Request, Thread, Script, Verdict, Status, Rev
<1>17. ASSUME NEW j \in Job, Signal(j) PROVE TypeOK'
  BY <1>17 DEF Signal, code, docker, process, jobs, stops, history, aside, TypeOK, Request,
      Thread, Script, Verdict, Status, Rev
<1>18. ASSUME Check PROVE TypeOK'
  BY <1>18 DEF Check, View, code, docker, process, jobs, stops, history, aside, TypeOK,
      Request, Thread, Script, Verdict, Status, Rev
<1>19. ASSUME ForceStop PROVE TypeOK'
  BY <1>19 DEF ForceStop, Polled, code, docker, jobs, history, TypeOK, Status
<1>20. ASSUME NothingToStop PROVE TypeOK'
  BY <1>20 DEF NothingToStop, code, docker, process, jobs, stops, history, aside, TypeOK,
      Request, Thread, Script, Verdict, Status, Rev
<1>21. ASSUME Crash PROVE TypeOK'
  <2>1. thread' \in [Job -> Thread] /\ script' \in [Job -> Script]
    BY <1>21 DEF Crash, TypeOK, Thread, Script
  <2>2. request' \in [Slot -> Request] /\ crashes' \in 0..MaxCrashes
    BY <1>21, SidecarAssumption DEF Crash, Request, TypeOK
  <2> QED BY <1>21, <2>1, <2>2 DEF Crash, code, docker, TypeOK
<1>22. ASSUME Push PROVE TypeOK'
  BY <1>22, SidecarAssumption DEF Push, docker, process, jobs, stops, history, TypeOK, Rev
<1>23. CASE UNCHANGED vars
  BY <1>23 DEF vars, TypeOK, Request, Thread, Script, Verdict, Status, Rev
<1> QED BY <1>1, <1>2, <1>3, <1>4, <1>5, <1>6, <1>7, <1>8, <1>9, <1>10, <1>11, <1>12, <1>13,
    <1>14, <1>15, <1>16, <1>17, <1>18, <1>19, <1>20, <1>21, <1>22, <1>23 DEF Next, Handling,
    Working, Scripting

(* A thread ends after its script, and a crash ends both. *)
LEMMA WaitedNext ==
  ASSUME TypeOK, Waited, [Next]_vars
  PROVE  Waited'
<1>1. ASSUME NEW s \in Slot, StartAsked(s) PROVE Waited'
  BY <1>1 DEF StartAsked, StartPasses, code, docker, process, jobs, stops, history, aside,
      Waited, Alive
<1>2. ASSUME NEW s \in Slot, StartRefused(s) PROVE Waited'
  BY <1>2 DEF StartRefused, RequestStep, code, docker, process, jobs, stops, history, aside,
      Waited, Alive
<1>3. ASSUME NEW s \in Slot, StartLaunched(s) PROVE Waited'
  BY <1>3 DEF StartLaunched, IsNext, Waited, Alive
<1>4. ASSUME NEW s \in Slot, StartAccepted(s) PROVE Waited'
  BY <1>4 DEF StartAccepted, RequestStep, code, docker, process, jobs, stops, history,
      aside, Waited, Alive
<1>5. ASSUME NEW j \in Job, JobBegins(j) PROVE Waited'
  BY <1>5 DEF JobBegins, ThreadStep, code, docker, process, jobs, stops, history, aside,
      Waited, Alive
<1>6. ASSUME NEW j \in Job, JobSpawns(j) PROVE Waited'
  BY <1>6 DEF JobSpawns, Waited, Alive, TypeOK
<1>7. ASSUME NEW j \in Job, JobRegisters(j) PROVE Waited'
  BY <1>7 DEF JobRegisters, ThreadStep, code, docker, process, jobs, stops, history, aside,
      Waited, Alive
<1>8. ASSUME NEW j \in Job, JobEnds(j) PROVE Waited'
  BY <1>8 DEF JobEnds, ThreadStep, Outcome, code, docker, process, jobs, stops, history,
      aside, Waited, Alive
<1>9. ASSUME NEW j \in Job, JobReports(j) PROVE Waited'
  BY <1>9 DEF JobReports, ThreadStep, code, docker, process, jobs, stops, history, aside,
      Waited, Alive
<1>10. ASSUME NEW j \in Job, ScriptPulls(j) PROVE Waited'
  BY <1>10 DEF ScriptPulls, ScriptStep, code, docker, process, jobs, stops, history, aside,
      Waited, Alive
<1>11. ASSUME NEW j \in Job, ScriptBuilds(j) PROVE Waited'
  BY <1>11 DEF ScriptBuilds, ScriptStep, code, docker, process, jobs, stops, history, aside,
      Waited, Alive
<1>12. ASSUME NEW j \in Job, ScriptTags(j) PROVE Waited'
  BY <1>12 DEF ScriptTags, ScriptStep, code, docker, process, jobs, stops, history, aside,
      Waited, Alive
<1>13. ASSUME NEW j \in Job, ScriptStopsHub(j) PROVE Waited'
  BY <1>13 DEF ScriptStopsHub, ScriptStep, code, docker, process, jobs, stops, history,
      aside, Waited, Alive
<1>14. ASSUME NEW j \in Job, ScriptStartsHub(j) PROVE Waited'
  BY <1>14 DEF ScriptStartsHub, ScriptStep, code, docker, process, jobs, stops, history,
      aside, Waited, Alive
<1>15. ASSUME NEW j \in Job, ScriptEnds(j) PROVE Waited'
  BY <1>15 DEF ScriptEnds, ScriptStep, code, docker, process, jobs, stops, history, aside,
      Waited, Alive
<1>16. ASSUME NEW j \in Job, ScriptFails(j) PROVE Waited'
  BY <1>16 DEF ScriptFails, code, docker, process, jobs, stops, history, aside, Waited,
      Alive
<1>17. ASSUME NEW j \in Job, Signal(j) PROVE Waited'
  BY <1>17 DEF Signal, code, docker, process, jobs, stops, history, aside, Waited, Alive
<1>18. ASSUME Check PROVE Waited'
  BY <1>18 DEF Check, View, code, docker, process, jobs, stops, history, aside, Waited,
      Alive
<1>19. ASSUME ForceStop PROVE Waited'
  BY <1>19 DEF ForceStop, code, docker, process, jobs, stops, history, aside, Waited, Alive
<1>20. ASSUME NothingToStop PROVE Waited'
  BY <1>20 DEF NothingToStop, code, docker, process, jobs, stops, history, aside, Waited,
      Alive
<1>21. ASSUME Crash PROVE Waited'
  BY <1>21 DEF Crash, code, docker, process, jobs, stops, history, aside, Waited, Alive
<1>22. ASSUME Push PROVE Waited'
  BY <1>22 DEF Push, code, docker, process, jobs, stops, history, aside, Waited, Alive
<1>23. CASE UNCHANGED vars
  BY <1>23 DEF vars, Waited, Alive
<1> QED BY <1>1, <1>2, <1>3, <1>4, <1>5, <1>6, <1>7, <1>8, <1>9, <1>10, <1>11, <1>12, <1>13,
    <1>14, <1>15, <1>16, <1>17, <1>18, <1>19, <1>20, <1>21, <1>22, <1>23 DEF Next, Handling,
    Working, Scripting

(* Only a job's end decides, only a report of success shows one, and a      *)
(* script that came to its end stays there.                                 *)
LEMMA HonestNext ==
  ASSUME TypeOK, Waited, Honest, [Next]_vars
  PROVE  Honest'
<1>1. ASSUME NEW j \in Job, script[j] = "ok" PROVE script'[j] = "ok"
  <2>1. CASE \E k \in Job : JobSpawns(k)
    BY <1>1, <2>1 DEF JobSpawns, Waited, TypeOK
  <2>2. CASE \E k \in Job : Scripting(k) \/ Signal(k)
    BY <1>1, <2>2 DEF Scripting, ScriptPulls, ScriptBuilds, ScriptTags,
        ScriptStopsHub, ScriptStartsHub, ScriptEnds, ScriptFails, ScriptStep, Signal, Alive,
        TypeOK
  <2>3. CASE Crash
    BY <1>1, <2>3 DEF Crash, Alive
  <2>4. CASE UNCHANGED script
    BY <1>1, <2>4
  <2> QED BY <2>1, <2>2, <2>3, <2>4 DEF Next, Handling, Working, StartAsked, StartRefused,
              StartLaunched, StartAccepted, JobBegins, JobRegisters, JobEnds, JobReports,
              Check, ForceStop, NothingToStop, Push, jobs, vars
<1>2. ASSUME UNCHANGED verdict, file' = "success" => file = "success",
             \A j \in Job : /\ thread'[j] = "report" => thread[j] = "report"
                            /\ thread'[j] \in Ongoing => thread[j] \in Ongoing
      PROVE  Honest'
  <2>1. ASSUME NEW j \in Job
        PROVE  /\ thread'[j] \in Ongoing => verdict'[j] = "none"
               /\ thread'[j] = "report" => verdict'[j] # "none"
               /\ verdict'[j] = "success" => script'[j] = "ok"
    BY <1>1, <1>2 DEF Honest
  <2>2. file' = "success" => \E j \in Job : verdict'[j] = "success"
    BY <1>2 DEF Honest
  <2> QED BY <2>1, <2>2 DEF Honest
<1>3. CASE \E j \in Job : JobEnds(j)
  <2> PICK j \in Job : JobEnds(j)
    BY <1>3
  <2>1. /\ thread[j] = "read" /\ thread' = [thread EXCEPT ![j] = "report"]
        /\ verdict' = [verdict EXCEPT ![j] = Outcome(j)] /\ UNCHANGED file
    BY DEF JobEnds, ThreadStep
  <2>2. Outcome(j) # "none" /\ (Outcome(j) = "success" => script'[j] = "ok")
    BY <1>1 DEF Outcome
  <2> QED BY <1>1, <2>1, <2>2 DEF Honest, Ongoing, TypeOK
<1>4. CASE \E j \in Job : JobReports(j)
  BY <1>4 DEF JobReports, ThreadStep, Honest, Ongoing
<1>5. CASE \E j \in Job : JobBegins(j) \/ JobSpawns(j) \/ JobRegisters(j)
  BY <1>2, <1>5 DEF JobBegins, JobSpawns, JobRegisters, ThreadStep, Ongoing, TypeOK
<1>6. CASE \E s \in Slot : StartAsked(s) \/ Handling(s)
  BY <1>2, <1>6 DEF Handling, StartAsked, StartRefused, StartLaunched, StartAccepted, IsNext,
      jobs, Ongoing, TypeOK
<1>7. CASE \E j \in Job : Scripting(j) \/ Signal(j)
  BY <1>2, <1>7 DEF Scripting, ScriptPulls, ScriptBuilds, ScriptTags,
      ScriptStopsHub, ScriptStartsHub, ScriptEnds, ScriptFails, Signal, aside
<1>8. CASE Crash
  BY <1>2, <1>8 DEF Crash, Ongoing
<1>9. CASE Check \/ ForceStop \/ NothingToStop \/ Push
  BY <1>2, <1>9 DEF Check, ForceStop, NothingToStop, Push,
      View, jobs
<1>10. CASE UNCHANGED vars
  BY <1>2, <1>10 DEF vars
<1> QED BY <1>3, <1>4, <1>5, <1>6, <1>7, <1>8, <1>9, <1>10 DEF Next, Working

LEMMA AnywayAlways == Spec => []Anyway
<1>1. Init => Anyway
  BY TypeInit DEF Init, Anyway, Waited, Honest, Alive
<1>2. Anyway /\ [Next]_vars => Anyway'
  BY TypeNext, WaitedNext, HonestNext DEF Anyway
<1> QED BY <1>1, <1>2, PTL DEF Spec

-----------------------------------------------------------------------------
(* What holds as long as starts meet nothing the test does not see *)

(* Only a start that is let through adds to what was not seen. *)
LEMMA OverlapGrows ==
  ASSUME [Next]_vars
  PROVE  /\ overlap \subseteq overlap'
         /\ ~(\E s \in Slot : StartAsked(s)) => overlap' = overlap
  BY DEF Next, vars, Handling, Working, Scripting, Signal, Check, ForceStop, NothingToStop,
     Crash, Push, StartAsked, StartPasses, StartRefused, StartLaunched, StartAccepted, JobBegins,
     JobSpawns, JobRegisters, JobEnds, JobReports, ScriptPulls, ScriptBuilds, ScriptTags,
     ScriptStopsHub, ScriptStartsHub, ScriptEnds, ScriptFails, history, aside

(* What a start that is let through leaves unseen is on record. *)
LEMMA StartMeets ==
  ASSUME NEW s \in Slot, StartAsked(s)
  PROVE  /\ overlap \subseteq overlap'
         /\ "hidden" \notin overlap' => ~Hidden
         /\ overlap' = {} => ~Hidden /\ ~Late
  BY DEF StartAsked, StartPasses, Unseen

(* A start is let through beside a script only where it is hidden. *)
LEMMA OneJobNext ==
  ASSUME IInv, [Next]_vars
  PROVE  OneJob'
<1>1. ASSUME NEW s \in Slot, StartAsked(s) PROVE OneJob'
  <2> SUFFICES ASSUME "hidden" \notin overlap' PROVE OneJob'
    BY DEF OneJob
  <2>1. OneJob /\ "hidden" \notin overlap /\ ~Hidden
    BY <1>1, StartMeets DEF IInv
  <2>2. ASSUME NEW j \in Job, Busy(j) PROVE FALSE
    <3>1. thread[j] = "read" /\ Alive(j)
      BY <2>1, <2>2 DEF Hidden, Busy
    <3>2. running = j
      BY <2>1, <3>1 DEF OneJob
    <3> QED BY <1>1, <3>1, <3>2, SidecarAssumption DEF StartAsked, Polled, Job
  <2>3. \A t \in Slot : request'[t] = "git" => t = s
    BY <1>1, <2>1 DEF StartAsked, StartPasses, Hidden, IInv, Anyway, TypeOK
  <2>4. UNCHANGED <<running, thread, script>>
    BY <1>1 DEF StartAsked, jobs
  <2> QED BY <2>1, <2>2, <2>3, <2>4 DEF OneJob, Busy, Alive
<1>2. ASSUME NEW s \in Slot, StartRefused(s) PROVE OneJob'
  BY <1>2 DEF StartRefused, RequestStep, code, docker, process, jobs, stops, history, aside,
      IInv, Anyway, TypeOK, OneJob, Busy, Alive
<1>3. ASSUME NEW s \in Slot, StartLaunched(s) PROVE OneJob'
  BY <1>3 DEF StartLaunched, RequestStep, code, docker, process, jobs, stops, history,
      aside, IInv, Anyway, TypeOK, OneJob, Busy, Alive
<1>4. ASSUME NEW s \in Slot, StartAccepted(s) PROVE OneJob'
  BY <1>4 DEF StartAccepted, RequestStep, code, docker, process, jobs, stops, history,
      aside, IInv, Anyway, TypeOK, OneJob, Busy, Alive
<1>5. ASSUME NEW j \in Job, JobBegins(j) PROVE OneJob'
  BY <1>5 DEF JobBegins, ThreadStep, code, docker, process, jobs, stops, history, aside,
      IInv, Anyway, TypeOK, OneJob, Busy, Alive
<1>6. ASSUME NEW j \in Job, JobSpawns(j) PROVE OneJob'
  BY <1>6 DEF JobSpawns, code, docker, process, jobs, stops, history, aside, IInv, Anyway,
      TypeOK, Waited, OneJob, Busy, Alive
<1>7. ASSUME NEW j \in Job, JobRegisters(j) PROVE OneJob'
  BY <1>7 DEF JobRegisters, ThreadStep, code, docker, process, jobs, stops, history, aside,
      IInv, Anyway, TypeOK, OneJob, Busy, Alive
<1>8. ASSUME NEW j \in Job, JobEnds(j) PROVE OneJob'
  BY <1>8 DEF JobEnds, ThreadStep, Outcome, code, docker, process, jobs, stops, history,
      aside, IInv, Anyway, TypeOK, OneJob, Busy, Alive
<1>9. ASSUME NEW j \in Job, JobReports(j) PROVE OneJob'
  BY <1>9 DEF JobReports, ThreadStep, code, docker, process, jobs, stops, history, aside,
      IInv, Anyway, TypeOK, OneJob, Busy, Alive
<1>10. ASSUME NEW j \in Job, ScriptPulls(j) PROVE OneJob'
  BY <1>10 DEF ScriptPulls, ScriptStep, code, docker, process, jobs, stops, history, aside,
      IInv, Anyway, TypeOK, OneJob, Busy, Alive
<1>11. ASSUME NEW j \in Job, ScriptBuilds(j) PROVE OneJob'
  BY <1>11 DEF ScriptBuilds, ScriptStep, code, docker, process, jobs, stops, history, aside,
      IInv, Anyway, TypeOK, OneJob, Busy, Alive
<1>12. ASSUME NEW j \in Job, ScriptTags(j) PROVE OneJob'
  BY <1>12 DEF ScriptTags, ScriptStep, code, docker, process, jobs, stops, history, aside,
      IInv, Anyway, TypeOK, OneJob, Busy, Alive
<1>13. ASSUME NEW j \in Job, ScriptStopsHub(j) PROVE OneJob'
  BY <1>13 DEF ScriptStopsHub, ScriptStep, code, docker, process, jobs, stops, history,
      aside, IInv, Anyway, TypeOK, OneJob, Busy, Alive
<1>14. ASSUME NEW j \in Job, ScriptStartsHub(j) PROVE OneJob'
  BY <1>14 DEF ScriptStartsHub, ScriptStep, code, docker, process, jobs, stops, history,
      aside, IInv, Anyway, TypeOK, OneJob, Busy, Alive
<1>15. ASSUME NEW j \in Job, ScriptEnds(j) PROVE OneJob'
  BY <1>15 DEF ScriptEnds, ScriptStep, code, docker, process, jobs, stops, history, aside,
      IInv, Anyway, TypeOK, OneJob, Busy, Alive
<1>16. ASSUME NEW j \in Job, ScriptFails(j) PROVE OneJob'
  BY <1>16 DEF ScriptFails, code, docker, process, jobs, stops, history, aside, IInv,
      Anyway, TypeOK, OneJob, Busy, Alive
<1>17. ASSUME NEW j \in Job, Signal(j) PROVE OneJob'
  BY <1>17 DEF Signal, code, docker, process, jobs, stops, history, aside, IInv, Anyway,
      TypeOK, OneJob, Busy, Alive
<1>18. ASSUME Check PROVE OneJob'
  BY <1>18 DEF Check, View, code, docker, process, jobs, stops, history, aside, IInv,
      Anyway, TypeOK, OneJob, Busy, Alive
<1>19. ASSUME ForceStop PROVE OneJob'
  BY <1>19 DEF ForceStop, code, docker, process, jobs, stops, history, aside, IInv, Anyway,
      TypeOK, OneJob, Busy, Alive
<1>20. ASSUME NothingToStop PROVE OneJob'
  BY <1>20 DEF NothingToStop, code, docker, process, jobs, stops, history, aside, IInv,
      Anyway, TypeOK, OneJob, Busy, Alive
<1>21. ASSUME Crash PROVE OneJob'
  BY <1>21 DEF Crash, code, docker, process, jobs, stops, history, aside, IInv, Anyway,
      TypeOK, OneJob, Busy, Alive
<1>22. ASSUME Push PROVE OneJob'
  BY <1>22 DEF Push, code, docker, process, jobs, stops, history, aside, IInv, Anyway,
      TypeOK, OneJob, Busy, Alive
<1>23. CASE UNCHANGED vars
  BY <1>23 DEF vars, IInv, Anyway, TypeOK, OneJob, Busy, Alive
<1> QED BY <1>1, <1>2, <1>3, <1>4, <1>5, <1>6, <1>7, <1>8, <1>9, <1>10, <1>11, <1>12, <1>13,
    <1>14, <1>15, <1>16, <1>17, <1>18, <1>19, <1>20, <1>21, <1>22, <1>23 DEF Next, Handling,
    Working, Scripting

(* A stop stays with the process it was asked for. *)
LEMMA StopNext ==
  ASSUME IInv, [Next]_vars
  PROVE  StopPending'
<1>1. ASSUME NEW s \in Slot, StartAsked(s) PROVE StopPending'
  <2> SUFFICES ASSUME "hidden" \notin overlap' PROVE StopPending'
    BY DEF StopPending
  <2>1. OneJob /\ StopPending /\ "hidden" \notin overlap /\ ~Hidden
    BY <1>1, StartMeets DEF IInv
  <2>2. ~stop'
    BY <1>1 DEF StartAsked, StartPasses
  <2>3. \A j \in Job : thread[j] # "read"
    BY <1>1, <2>1, SidecarAssumption DEF StartAsked, Hidden, OneJob, Polled, Job
  <2> QED BY <1>1, <2>1, <2>2, <2>3 DEF StopPending, StartAsked, jobs, stops
<1>2. ASSUME NEW s \in Slot, StartRefused(s) PROVE StopPending'
  BY <1>2 DEF StartRefused, RequestStep, code, docker, process, jobs, stops, history, aside,
      IInv, Anyway, TypeOK, OneJob, StopPending, Busy
<1>3. ASSUME NEW s \in Slot, StartLaunched(s) PROVE StopPending'
  BY <1>3 DEF StartLaunched, process, stops, history, IsNext, IInv, StopPending
<1>4. ASSUME NEW s \in Slot, StartAccepted(s) PROVE StopPending'
  BY <1>4 DEF StartAccepted, RequestStep, code, docker, process, jobs, stops, history,
      aside, IInv, Anyway, TypeOK, OneJob, StopPending, Busy
<1>5. ASSUME NEW j \in Job, JobBegins(j) PROVE StopPending'
  BY <1>5 DEF JobBegins, ThreadStep, code, docker, process, jobs, stops, history, aside,
      IInv, Anyway, TypeOK, OneJob, StopPending, Busy
<1>6. ASSUME NEW j \in Job, JobSpawns(j) PROVE StopPending'
  BY <1>6 DEF JobSpawns, code, docker, process, jobs, stops, history, aside, IInv, Anyway,
      TypeOK, OneJob, StopPending, Busy
<1>7. ASSUME NEW j \in Job, JobRegisters(j) PROVE StopPending'
  BY <1>7 DEF JobRegisters, ThreadStep, code, docker, process, jobs, stops, history, aside,
      IInv, Anyway, TypeOK, OneJob, StopPending, Busy
<1>8. ASSUME NEW j \in Job, JobEnds(j) PROVE StopPending'
  BY <1>8 DEF JobEnds, ThreadStep, Outcome, code, docker, process, jobs, stops, history,
      aside, IInv, Anyway, TypeOK, OneJob, StopPending, Busy
<1>9. ASSUME NEW j \in Job, JobReports(j) PROVE StopPending'
  BY <1>9 DEF JobReports, ThreadStep, code, docker, process, jobs, stops, history, aside,
      IInv, Anyway, TypeOK, OneJob, StopPending, Busy
<1>10. ASSUME NEW j \in Job, ScriptPulls(j) PROVE StopPending'
  BY <1>10 DEF ScriptPulls, ScriptStep, code, docker, process, jobs, stops, history, aside,
      IInv, Anyway, TypeOK, OneJob, StopPending, Busy
<1>11. ASSUME NEW j \in Job, ScriptBuilds(j) PROVE StopPending'
  BY <1>11 DEF ScriptBuilds, ScriptStep, code, docker, process, jobs, stops, history, aside,
      IInv, Anyway, TypeOK, OneJob, StopPending, Busy
<1>12. ASSUME NEW j \in Job, ScriptTags(j) PROVE StopPending'
  BY <1>12 DEF ScriptTags, ScriptStep, code, docker, process, jobs, stops, history, aside,
      IInv, Anyway, TypeOK, OneJob, StopPending, Busy
<1>13. ASSUME NEW j \in Job, ScriptStopsHub(j) PROVE StopPending'
  BY <1>13 DEF ScriptStopsHub, ScriptStep, code, docker, process, jobs, stops, history,
      aside, IInv, Anyway, TypeOK, OneJob, StopPending, Busy
<1>14. ASSUME NEW j \in Job, ScriptStartsHub(j) PROVE StopPending'
  BY <1>14 DEF ScriptStartsHub, ScriptStep, code, docker, process, jobs, stops, history,
      aside, IInv, Anyway, TypeOK, OneJob, StopPending, Busy
<1>15. ASSUME NEW j \in Job, ScriptEnds(j) PROVE StopPending'
  BY <1>15 DEF ScriptEnds, ScriptStep, code, docker, process, jobs, stops, history, aside,
      IInv, Anyway, TypeOK, OneJob, StopPending, Busy
<1>16. ASSUME NEW j \in Job, ScriptFails(j) PROVE StopPending'
  BY <1>16 DEF ScriptFails, code, docker, process, jobs, stops, history, aside, IInv,
      Anyway, TypeOK, OneJob, StopPending, Busy
<1>17. ASSUME NEW j \in Job, Signal(j) PROVE StopPending'
  BY <1>17 DEF Signal, code, docker, process, jobs, stops, history, aside, IInv, Anyway,
      TypeOK, OneJob, StopPending, Busy
<1>18. ASSUME Check PROVE StopPending'
  BY <1>18 DEF Check, View, code, docker, process, jobs, stops, history, aside, IInv,
      Anyway, TypeOK, OneJob, StopPending, Busy
<1>19. ASSUME ForceStop PROVE StopPending'
  BY <1>19, SidecarAssumption DEF ForceStop, jobs, history, IInv, OneJob, StopPending, Polled, Job
<1>20. ASSUME NothingToStop PROVE StopPending'
  BY <1>20 DEF NothingToStop, code, docker, process, jobs, stops, history, aside, IInv,
      Anyway, TypeOK, OneJob, StopPending, Busy
<1>21. ASSUME Crash PROVE StopPending'
  BY <1>21 DEF Crash, IInv, StopPending, Unfinished
<1>22. ASSUME Push PROVE StopPending'
  BY <1>22 DEF Push, code, docker, process, jobs, stops, history, aside, IInv, Anyway,
      TypeOK, OneJob, StopPending, Busy
<1>23. CASE UNCHANGED vars
  BY <1>23 DEF vars, IInv, Anyway, TypeOK, OneJob, StopPending, Busy
<1> QED BY <1>1, <1>2, <1>3, <1>4, <1>5, <1>6, <1>7, <1>8, <1>9, <1>10, <1>11, <1>12, <1>13,
    <1>14, <1>15, <1>16, <1>17, <1>18, <1>19, <1>20, <1>21, <1>22, <1>23 DEF Next, Handling,
    Working, Scripting

(* A job that ends takes the stop that is pending, and only that. *)
LEMMA StopHitsNext ==
  ASSUME IInv, [Next]_vars
  PROVE  StopHitsItsJob'
<1> SUFFICES ASSUME "hidden" \notin overlap' PROVE StopHitsItsJob'
  BY DEF StopHitsItsJob
<1>1. /\ "hidden" \notin overlap
      /\ \A j \in Job : verdict[j] # "none" => (verdict[j] = "stopped" <=> j \in asked)
  BY OverlapGrows DEF IInv, StopHitsItsJob
<1>2. ASSUME UNCHANGED <<verdict, asked>> PROVE StopHitsItsJob'
  BY <1>1, <1>2 DEF StopHitsItsJob
<1>3. ASSUME NEW j \in Job, JobEnds(j) PROVE StopHitsItsJob'
  <2>1. /\ asked' = asked /\ verdict' = [verdict EXCEPT ![j] = Outcome(j)]
        /\ thread[j] = "read" /\ verdict[j] = "none"
    BY <1>3 DEF JobEnds, ThreadStep, stops, IInv, Anyway, Honest, Ongoing
  <2>2. stop <=> j \in asked
    <3>1. ASSUME stop PROVE j \in asked
      BY <1>1, <2>1, <3>1 DEF IInv, Anyway, StopPending, OneJob, Busy, TypeOK
    <3>2. ASSUME j \in asked PROVE stop
      BY <1>1, <2>1, <3>2 DEF IInv, StopPending
    <3> QED BY <3>1, <3>2
  <2> QED BY <1>1, <2>1, <2>2 DEF StopHitsItsJob, Outcome
<1>4. ASSUME ForceStop PROVE StopHitsItsJob'
  <2>1. /\ running \in Job /\ thread[running] = "read" /\ asked' = asked \cup {running}
        /\ UNCHANGED verdict
    BY <1>1, <1>4 DEF ForceStop, Polled, jobs, IInv, Anyway, OneJob, TypeOK
  <2>2. verdict[running] = "none"
    BY <2>1 DEF IInv, Anyway, Honest, Ongoing
  <2> QED BY <1>1, <2>1, <2>2 DEF StopHitsItsJob
<1>5. ASSUME NEW s \in Slot, StartAsked(s) \/ Handling(s)
     PROVE  UNCHANGED <<verdict, asked>>
  BY <1>5 DEF StartAsked, jobs, stops, StartRefused, StartLaunched, StartAccepted, Handling
<1>6. ASSUME NEW j \in Job, JobBegins(j) \/ JobSpawns(j) \/ JobRegisters(j) \/ JobReports(j)
     PROVE  UNCHANGED <<verdict, asked>>
  BY <1>6 DEF JobBegins, stops, JobSpawns, JobRegisters, JobReports
<1>7. ASSUME NEW j \in Job, Scripting(j) \/ Signal(j)
     PROVE  UNCHANGED <<verdict, asked>>
  BY <1>7 DEF aside, ScriptPulls, ScriptBuilds, ScriptTags, ScriptStopsHub,
      ScriptStartsHub, ScriptEnds, ScriptFails, Signal, Scripting, stops
<1>8. ASSUME Check \/ NothingToStop \/ Crash \/ Push \/ UNCHANGED vars
     PROVE  UNCHANGED <<verdict, asked>>
  BY <1>8 DEF jobs, stops, Check, NothingToStop, Crash, Push, vars
<1> QED BY <1>2, <1>3, <1>4, <1>5, <1>6, <1>7, <1>8 DEF Next, Working

(* Without an overlap the state file is the last job's. *)
LEMMA AloneNext ==
  ASSUME IInv, [Next]_vars
  PROVE  Alone'
<1>1. ASSUME NEW s \in Slot, StartAsked(s) PROVE Alone'
  <2> SUFFICES ASSUME overlap' = {} PROVE Alone'
    BY DEF Alone
  <2>1. OneJob /\ Alone /\ overlap = {} /\ ~Hidden /\ ~Late
    BY <1>1, StartMeets DEF IInv
  <2>2. \A j \in Job : ~Unfinished(j)
    BY <1>1, <2>1, SidecarAssumption DEF StartAsked, Hidden, Late, OneJob, Polled, Job, Unfinished
  <2> QED BY <1>1, <2>2 DEF Alone, StartAsked, jobs, Unfinished
<1>2. ASSUME NEW s \in Slot, StartRefused(s) PROVE Alone'
  BY <1>2 DEF StartRefused, RequestStep, code, docker, process, jobs, stops, history, aside,
      IInv, Anyway, TypeOK, Alone, Unfinished
<1>3. ASSUME NEW s \in Slot, StartLaunched(s) PROVE Alone'
  BY <1>3 DEF StartLaunched, RequestStep, stops, history, process, IInv, Anyway, TypeOK,
      OneJob, Alone, Unfinished
<1>4. ASSUME NEW s \in Slot, StartAccepted(s) PROVE Alone'
  BY <1>4 DEF StartAccepted, RequestStep, code, docker, process, jobs, stops, history,
      aside, IInv, Anyway, TypeOK, Alone, Unfinished
<1>5. ASSUME NEW j \in Job, JobBegins(j) PROVE Alone'
  BY <1>5 DEF JobBegins, ThreadStep, code, docker, process, jobs, stops, history, aside,
      IInv, Anyway, TypeOK, Alone, Unfinished
<1>6. ASSUME NEW j \in Job, JobSpawns(j) PROVE Alone'
  BY <1>6 DEF JobSpawns, code, docker, process, jobs, stops, history, aside, IInv, Anyway,
      TypeOK, Alone, Unfinished
<1>7. ASSUME NEW j \in Job, JobRegisters(j) PROVE Alone'
  BY <1>7 DEF JobRegisters, ThreadStep, code, docker, process, jobs, stops, history, aside,
      IInv, Anyway, TypeOK, Alone, Unfinished
<1>8. ASSUME NEW j \in Job, JobEnds(j) PROVE Alone'
  BY <1>8 DEF JobEnds, ThreadStep, Outcome, code, docker, process, jobs, stops, history,
      aside, IInv, Anyway, TypeOK, Alone, Unfinished
<1>9. ASSUME NEW j \in Job, JobReports(j) PROVE Alone'
  BY <1>9 DEF JobReports, ThreadStep, code, docker, process, jobs, stops, history, aside,
      IInv, Anyway, TypeOK, Alone, Unfinished
<1>10. ASSUME NEW j \in Job, ScriptPulls(j) PROVE Alone'
  BY <1>10 DEF ScriptPulls, ScriptStep, code, docker, process, jobs, stops, history, aside,
      IInv, Anyway, TypeOK, Alone, Unfinished
<1>11. ASSUME NEW j \in Job, ScriptBuilds(j) PROVE Alone'
  BY <1>11 DEF ScriptBuilds, ScriptStep, code, docker, process, jobs, stops, history, aside,
      IInv, Anyway, TypeOK, Alone, Unfinished
<1>12. ASSUME NEW j \in Job, ScriptTags(j) PROVE Alone'
  BY <1>12 DEF ScriptTags, ScriptStep, code, docker, process, jobs, stops, history, aside,
      IInv, Anyway, TypeOK, Alone, Unfinished
<1>13. ASSUME NEW j \in Job, ScriptStopsHub(j) PROVE Alone'
  BY <1>13 DEF ScriptStopsHub, ScriptStep, code, docker, process, jobs, stops, history,
      aside, IInv, Anyway, TypeOK, Alone, Unfinished
<1>14. ASSUME NEW j \in Job, ScriptStartsHub(j) PROVE Alone'
  BY <1>14 DEF ScriptStartsHub, ScriptStep, code, docker, process, jobs, stops, history,
      aside, IInv, Anyway, TypeOK, Alone, Unfinished
<1>15. ASSUME NEW j \in Job, ScriptEnds(j) PROVE Alone'
  BY <1>15 DEF ScriptEnds, ScriptStep, code, docker, process, jobs, stops, history, aside,
      IInv, Anyway, TypeOK, Alone, Unfinished
<1>16. ASSUME NEW j \in Job, ScriptFails(j) PROVE Alone'
  BY <1>16 DEF ScriptFails, code, docker, process, jobs, stops, history, aside, IInv,
      Anyway, TypeOK, Alone, Unfinished
<1>17. ASSUME NEW j \in Job, Signal(j) PROVE Alone'
  BY <1>17 DEF Signal, code, docker, process, jobs, stops, history, aside, IInv, Anyway,
      TypeOK, Alone, Unfinished
<1>18. ASSUME Check PROVE Alone'
  BY <1>18 DEF Check, View, code, docker, process, jobs, stops, history, aside, IInv,
      Anyway, TypeOK, Alone, Unfinished
<1>19. ASSUME ForceStop PROVE Alone'
  BY <1>19 DEF ForceStop, code, docker, process, jobs, stops, history, aside, IInv, Anyway,
      TypeOK, Alone, Unfinished
<1>20. ASSUME NothingToStop PROVE Alone'
  BY <1>20 DEF NothingToStop, code, docker, process, jobs, stops, history, aside, IInv,
      Anyway, TypeOK, Alone, Unfinished
<1>21. ASSUME Crash PROVE Alone'
  BY <1>21 DEF Crash, code, docker, process, jobs, stops, history, aside, IInv, Anyway,
      TypeOK, Alone, Unfinished
<1>22. ASSUME Push PROVE Alone'
  BY <1>22 DEF Push, code, docker, process, jobs, stops, history, aside, IInv, Anyway,
      TypeOK, Alone, Unfinished
<1>23. CASE UNCHANGED vars
  BY <1>23 DEF vars, IInv, Anyway, TypeOK, Alone, Unfinished
<1> QED BY <1>1, <1>2, <1>3, <1>4, <1>5, <1>6, <1>7, <1>8, <1>9, <1>10, <1>11, <1>12, <1>13,
    <1>14, <1>15, <1>16, <1>17, <1>18, <1>19, <1>20, <1>21, <1>22, <1>23 DEF Next, Handling,
    Working, Scripting

(* With one job at a time, revisions only go forward. *)
LEMMA InstalledNext ==
  ASSUME IInv, [Next]_vars
  PROVE  Installed'
<1>1. ASSUME NEW s \in Slot, StartAsked(s) PROVE Installed'
  BY <1>1, StartMeets DEF StartAsked, code, docker, jobs, IInv, Installed
<1>2. ASSUME NEW s \in Slot, StartRefused(s) PROVE Installed'
  BY <1>2 DEF StartRefused, RequestStep, code, docker, process, jobs, stops, history, aside,
      IInv, Installed
<1>3. ASSUME NEW s \in Slot, StartLaunched(s) PROVE Installed'
  BY <1>3 DEF StartLaunched, RequestStep, code, docker, process, jobs, stops, history,
      aside, IInv, Installed
<1>4. ASSUME NEW s \in Slot, StartAccepted(s) PROVE Installed'
  BY <1>4 DEF StartAccepted, RequestStep, code, docker, process, jobs, stops, history,
      aside, IInv, Installed
<1>5. ASSUME NEW j \in Job, JobBegins(j) PROVE Installed'
  BY <1>5 DEF JobBegins, ThreadStep, code, docker, process, jobs, stops, history, aside,
      IInv, Installed
<1>6. ASSUME NEW j \in Job, JobSpawns(j) PROVE Installed'
  BY <1>6 DEF JobSpawns, code, docker, history, IInv, Anyway, Waited, Installed, TypeOK
<1>7. ASSUME NEW j \in Job, JobRegisters(j) PROVE Installed'
  BY <1>7 DEF JobRegisters, ThreadStep, code, docker, process, jobs, stops, history, aside,
      IInv, Installed
<1>8. ASSUME NEW j \in Job, JobEnds(j) PROVE Installed'
  BY <1>8 DEF JobEnds, code, docker, history, ThreadStep, Outcome, IInv, Anyway, Installed,
      Honest, TypeOK
<1>9. ASSUME NEW j \in Job, JobReports(j) PROVE Installed'
  BY <1>9 DEF JobReports, code, docker, history, ThreadStep, IInv, Anyway, Installed, Honest, TypeOK
<1>10. ASSUME NEW j \in Job, ScriptPulls(j) PROVE Installed'
  BY <1>10 DEF ScriptPulls, docker, aside, history, ScriptStep, IInv, Anyway, Installed, TypeOK, Rev
<1>11. ASSUME NEW j \in Job, ScriptBuilds(j) PROVE Installed'
  BY <1>11 DEF ScriptBuilds, code, docker, aside, history, ScriptStep, IInv, Anyway, Installed,
      TypeOK, Rev
<1>12. ASSUME NEW j \in Job, ScriptTags(j) PROVE Installed'
  BY <1>12 DEF ScriptTags, code, aside, history, ScriptStep, IInv, Anyway, Alone, Waited, Installed,
      Alive, Unfinished, TypeOK, Rev
<1>13. ASSUME NEW j \in Job, ScriptStopsHub(j) PROVE Installed'
  <2> SUFFICES ASSUME overlap' = {} PROVE Installed'
    BY DEF Installed
  <2>1. /\ script[j] = "up" /\ thread[j] \in {"register", "read"}
        /\ overlap = {} /\ Alone /\ Installed
    BY <1>13 DEF ScriptStopsHub, ScriptStep, aside, history, IInv, Anyway, Waited, Alive
  <2>2. file # "success" /\ \A k \in Job : k # j => ~Unfinished(k)
    BY <2>1 DEF Alone, Unfinished
  <2>3. /\ UNCHANGED <<code, image, built, file, thread, verdict>>
        /\ \A k \in Job : k # j => script'[k] = script[k]
        /\ hub'.rev = hub.rev
        /\ script'[j] = IF hub.up /\ hub.rev = image THEN "tail" ELSE "start"
        /\ hub.up /\ hub.rev = image => hub' = hub
    BY <1>13 DEF ScriptStopsHub, ScriptStep, aside, IInv, Anyway, TypeOK
  <2>4. \A k \in Job : k # j => ~Alive(k) /\ thread[k] \notin {"register", "read", "report"}
    BY <2>2 DEF IInv, Anyway, Waited, Unfinished
  <2> QED BY <2>1, <2>2, <2>3, <2>4 DEF code, Installed, Alive
<1>14. ASSUME NEW j \in Job, ScriptStartsHub(j) PROVE Installed'
  BY <1>14 DEF ScriptStartsHub, code, aside, history, ScriptStep, IInv, Anyway, Installed, TypeOK, Rev
<1>15. ASSUME NEW j \in Job, ScriptEnds(j) PROVE Installed'
  BY <1>15 DEF ScriptEnds, ScriptStep, code, docker, process, jobs, stops, history, aside,
      IInv, Installed
<1>16. ASSUME NEW j \in Job, ScriptFails(j) PROVE Installed'
  BY <1>16 DEF ScriptFails, code, docker, process, jobs, stops, history, aside, IInv,
      Installed
<1>17. ASSUME NEW j \in Job, Signal(j) PROVE Installed'
  BY <1>17 DEF Signal, code, docker, process, jobs, stops, history, aside, IInv, Installed
<1>18. ASSUME Check PROVE Installed'
  BY <1>18 DEF Check, View, code, docker, process, jobs, stops, history, aside, IInv,
      Installed
<1>19. ASSUME ForceStop PROVE Installed'
  BY <1>19 DEF ForceStop, code, docker, process, jobs, stops, history, aside, IInv,
      Installed
<1>20. ASSUME NothingToStop PROVE Installed'
  BY <1>20 DEF NothingToStop, code, docker, process, jobs, stops, history, aside, IInv,
      Installed
<1>21. ASSUME Crash PROVE Installed'
  BY <1>21 DEF Crash, code, docker, process, jobs, stops, history, aside, IInv, Installed
<1>22. ASSUME Push PROVE Installed'
  BY <1>22 DEF Push, docker, jobs, history, IInv, Anyway, Installed, TypeOK, Rev
<1>23. CASE UNCHANGED vars
  BY <1>23 DEF vars, IInv, Installed
<1> QED BY <1>1, <1>2, <1>3, <1>4, <1>5, <1>6, <1>7, <1>8, <1>9, <1>10, <1>11, <1>12, <1>13,
    <1>14, <1>15, <1>16, <1>17, <1>18, <1>19, <1>20, <1>21, <1>22, <1>23 DEF Next, Handling,
    Working, Scripting

-----------------------------------------------------------------------------
(* The theorems *)

LEMMA InitIInv == Init => OneJob /\ StopPending /\ StopHitsItsJob /\ Alone /\ Installed
<1> SUFFICES ASSUME Init PROVE OneJob /\ StopPending /\ StopHitsItsJob /\ Alone /\ Installed
  OBVIOUS
<1>1. OneJob /\ Alone
  BY DEF Init, OneJob, Alone, Busy, Unfinished
<1>2. StopPending /\ StopHitsItsJob
  BY DEF Init, StopPending, StopHitsItsJob
<1>3. Installed
  BY DEF Init, Installed
<1> QED BY <1>1, <1>2, <1>3

LEMMA Invariance == Spec => []IInv
<1> DEFINE Rest == OneJob /\ StopPending /\ StopHitsItsJob /\ Alone /\ Installed
<1>1. Anyway /\ Rest /\ [Next]_vars => Rest'
  BY OneJobNext, StopNext, StopHitsNext, AloneNext, InstalledNext DEF IInv
<1>2. IInv <=> Anyway /\ Rest
  BY DEF IInv
<1>3. Init => Rest
  BY InitIInv
<1> HIDE DEF Rest
<1> QED BY <1>1, <1>2, <1>3, AnywayAlways, PTL DEF Spec

(* The state keeps its types: update_state only writes what the jobs, the   *)
(* checks and the stops of updater_service/app.py know.                     *)
THEOREM SidecarTypes == Spec => []TypeOK
<1>1. Anyway => TypeOK
  BY DEF Anyway
<1> QED BY AnywayAlways, <1>1, PTL

(* Whatever clients ask and however jobs overlap, a success on show is that *)
(* of a job whose script came to its end (run_update_job waits for it and   *)
(* looks at its return code), and no script runs that nobody waits for.     *)
THEOREM SuccessIsEarned ==
    Spec => [](/\ View = "success" => \E j \in Job : verdict[j] = "success"
               /\ \A j \in Job : verdict[j] = "success" => script[j] = "ok"
               /\ \A j \in Job : Alive(j) => Unfinished(j))
<1>1. Anyway => /\ View = "success" => \E j \in Job : verdict[j] = "success"
                /\ \A j \in Job : verdict[j] = "success" => script[j] = "ok"
                /\ \A j \in Job : Alive(j) => Unfinished(j)
  BY DEF Anyway, Honest, Waited, View, Unfinished
<1> QED BY AnywayAlways, <1>1, PTL

(* Two update scripts never run at once unless a start met a job that the   *)
(* test behind start_update's 409 does not see.                             *)
THEOREM StartsKeptApart == Spec => []StartsAreKeptApart
<1>1. IInv => StartsAreKeptApart
  BY DEF IInv, Anyway, OneJob, Waited, Busy, StartsAreKeptApart, OneScriptAtATime
<1> QED BY Invariance, <1>1, PTL

(* As long as no start overlapped a job, a success that is on show is       *)
(* installed and running: nothing that failed, was stopped or crashed since *)
(* the report has replaced it.                                              *)
THEOREM SuccessInstalled == Spec => []SuccessIsInstalled
<1>1. IInv => SuccessIsInstalled
  <2> SUFFICES ASSUME IInv, overlap = {}, View = "success", ~(\E j \in Job : Unfinished(j))
               PROVE  hub.up /\ \A j \in Job : verdict[j] = "success" => hub.rev >= built[j]
    BY DEF SuccessIsInstalled
  <2>1. file = "success"
    BY DEF View
  <2> QED BY <2>1 DEF IInv, Anyway, Honest, Installed, TypeOK, Rev
<1> QED BY Invariance, <1>1, PTL

(* As long as no start met a job that is hidden from it, STOP_REQUESTED is  *)
(* never lost and never taken for another job's.                            *)
THEOREM StopsAreAttributed == Spec => []StopHitsItsJob
<1>1. IInv => StopHitsItsJob
  BY DEF IInv
<1> QED BY Invariance, <1>1, PTL
=============================================================================
