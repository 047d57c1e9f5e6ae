------------------------- MODULE HostParts_proofs -------------------------
(***************************************************************************)
(* What holds of four parts that work beside the hub and share no state: the *)
(* host's storage agent, the GPU setup, FjordCode's worker and the guide of  *)
(* the media gateway; for any pools and jobs, projects, addresses, requests  *)
(* and mishaps.                                                            *)
(***************************************************************************)
EXTENDS HostAgent, GpuSetup, CodeWorker, MediaGateway, TLAPS

-----------------------------------------------------------------------------
(* The storage agent.  That no job reboots the container twice is not        *)
(* inductive: it needs that a unit is started once for each job              *)
(* (StartedOnce), that a unit has the lock and the job of the state file     *)
(* (Applying), and that a job whose unit was killed stays in progress until   *)
(* an administrator has looked (Interrupted).                               *)

StartedOnce ==
    /\ \A i \in waiting : i <= hostJob.id
    /\ hostLock = "connect" =>
         hostJob.state = "queued" /\ hostJob.id \notin waiting /\ hostJob.id >= 1

Applying ==
    unit # "none" =>
        /\ hostLock = "apply" /\ ~cut /\ hostJob.id \notin waiting
        /\ unit = "look" => hostJob.state = "queued"
        /\ unit = "set" => hostJob.state = "applying"
        /\ unit \in {"boot", "reboot", "visible"} => hostJob.state = "restarting"

Interrupted ==
    cut => /\ hostJob.state \in InProgress
           /\ hostLock # "connect" /\ hostJob.id \notin waiting

HostInv == HostTypeOK /\ StartedOnce /\ Applying /\ Interrupted

LEMMA HostInitInv == HostInit => HostInv
<1> SUFFICES ASSUME HostInit PROVE HostInv
  OBVIOUS
<1>1. hostJob = [id |-> 0, pool |-> {}, old |-> FALSE, state |-> "idle"]
  BY DEF HostInit
<1>2. hostJob \in [id : 0..MaxJobs, pool : SUBSET Pool, old : BOOLEAN,
                   state : InProgress \cup {"idle", "ready", "failed"}]
  BY <1>1, HostAssumption
<1>3. lxc \in [mounts : SUBSET Pool, checked : BOOLEAN, tun : BOOLEAN, up : BOOLEAN,
               running : SUBSET Pool]
  BY DEF HostInit
<1>4. cut \in BOOLEAN /\ ~cut
  BY Zenon DEF HostInit
<1> QED BY <1>1, <1>2, <1>3, <1>4 DEF HostInit, HostInv, HostTypeOK, StartedOnce, Applying, Interrupted

(* What a job of the state file is after a save, and the container after a   *)
(* change of its mounts or a start.                                         *)
Jobs == [id : 0..MaxJobs, pool : SUBSET Pool, old : BOOLEAN,
         state : InProgress \cup {"idle", "ready", "failed"}]
Containers == [mounts : SUBSET Pool, checked : BOOLEAN, tun : BOOLEAN, up : BOOLEAN,
               running : SUBSET Pool]

LEMMA Saved ==
  ASSUME HostTypeOK, NEW state \in InProgress \cup {"idle", "ready", "failed"}, SavesJob(state)
  PROVE  hostJob' \in Jobs /\ hostJob'.id = hostJob.id /\ hostJob'.state = state
<1>1. hostJob \in Jobs
  BY DEF HostTypeOK, Jobs
<1>2. hostJob' = [hostJob EXCEPT !.state = state, !.old = FALSE]
  BY DEF SavesJob
<1> QED BY <1>1, <1>2 DEF Jobs

LEMMA Mounted ==
  ASSUME HostTypeOK PROVE [lxc EXCEPT !.mounts = @ \cup hostJob.pool] \in Containers
<1>1. lxc \in Containers /\ hostJob.pool \subseteq Pool
  BY DEF HostTypeOK, Containers
<1> QED BY <1>1 DEF Containers

LEMMA Begun ==
  ASSUME HostTypeOK, Starts PROVE lxc' \in Containers
<1>1. lxc \in Containers
  BY DEF HostTypeOK, Containers
<1> DEFINE refused == lxc.checked /\ ~(lxc.mounts \subseteq mounted)
<1>2. (~refused) \in BOOLEAN
  OBVIOUS
<1>3. (IF refused THEN {} ELSE lxc.mounts \cap mounted) \in SUBSET Pool
  BY <1>1 DEF Containers
<1>4. lxc' = [lxc EXCEPT !.up = ~refused,
                         !.running = IF refused THEN {} ELSE lxc.mounts \cap mounted]
  BY DEF Starts
<1> HIDE DEF refused
<1> QED BY <1>1, <1>2, <1>3, <1>4 DEF Containers

(* The types, with what a job and a container are kept folded. *)
LEMMA Folded ==
  HostTypeOK <=> /\ hostJob \in Jobs /\ lxc \in Containers
                 /\ hostLock \in {"free", "connect", "apply"}
                 /\ waiting \subseteq 1..MaxJobs
                 /\ unit \in {"none", "look", "set", "boot", "reboot", "visible"}
                 /\ mounted \subseteq Pool /\ cut \in BOOLEAN
BY DEF HostTypeOK, Jobs, Containers

LEMMA JobFields ==
  ASSUME HostTypeOK
  PROVE  /\ hostJob.id \in 0..MaxJobs /\ hostJob.pool \subseteq Pool
         /\ hostJob.state \in InProgress \cup {"idle", "ready", "failed"}
BY DEF HostTypeOK

LEMMA HostNextInv == ASSUME HostInv, [HostNext]_hostVars PROVE HostInv'
<1> USE HostAssumption DEF HostInv, StartedOnce, Applying, Interrupted
<1>0. /\ hostJob \in Jobs /\ lxc \in Containers
      /\ hostLock \in {"free", "connect", "apply"} /\ waiting \subseteq 1..MaxJobs
      /\ unit \in {"none", "look", "set", "boot", "reboot", "visible"}
      /\ mounted \subseteq Pool /\ cut \in BOOLEAN
      /\ hostJob.id \in 0..MaxJobs /\ hostJob.pool \subseteq Pool
  BY Folded, JobFields
<1>f. /\ hostJob' \in Jobs /\ lxc' \in Containers
      /\ hostLock' \in {"free", "connect", "apply"} /\ waiting' \subseteq 1..MaxJobs
      /\ unit' \in {"none", "look", "set", "boot", "reboot", "visible"}
      /\ mounted' \subseteq Pool /\ cut' \in BOOLEAN
      => HostTypeOK'
  BY DEF HostTypeOK, Jobs, Containers
<1>1. ASSUME NEW p \in Pool, Queues(p) PROVE HostInv'
  <2>1. hostJob' = [id |-> hostJob.id + 1, pool |-> {p}, old |-> FALSE, state |-> "queued"]
    BY <1>1 DEF Queues
  <2>2. hostJob' \in Jobs /\ hostJob'.id = hostJob.id + 1 /\ hostJob'.state = "queued"
    BY <1>0, <1>1, <2>1 DEF Jobs, InProgress, Queues
  <2> QED BY <1>0, <1>f, <1>1, <2>2 DEF Queues
<1>2. ASSUME NEW p \in Pool, FindsReady(p) PROVE HostInv'
  <2>1. hostJob' \in Jobs /\ hostJob'.id = hostJob.id /\ hostJob'.state = "ready"
    BY <1>0, <1>2 DEF FindsReady, Jobs
  <2> QED BY <1>0, <1>f, <1>2, <2>1 DEF FindsReady
<1>3. ASSUME NEW p \in Pool, PoolChanges(p) PROVE HostInv'
  <2>1. lxc' \in Containers /\ mounted' \subseteq Pool
    BY <1>0, <1>3 DEF PoolChanges, Containers
  <2> QED BY <1>0, <1>f, <1>3, <2>1 DEF PoolChanges
<1>4. CASE StartsUnit
  <2>1. hostJob.id \in 1..MaxJobs
    BY <1>0, <1>4 DEF StartsUnit
  <2>2. hostJob'.id = hostJob.id /\ waiting' \subseteq 1..MaxJobs
    BY <1>0, <1>4, <2>1 DEF StartsUnit
  <2> QED BY <1>0, <1>f, <1>4, <2>1, <2>2 DEF StartsUnit
<1>5. CASE StartFails
  <2>1. hostJob' \in Jobs /\ hostJob'.id = hostJob.id /\ hostJob'.state = "failed"
    BY <1>5, Saved DEF StartFails
  <2>2. waiting' \subseteq 1..MaxJobs
    BY <1>0, <1>5 DEF StartFails
  <2> QED BY <1>0, <1>f, <1>5, <2>1, <2>2 DEF StartFails
<1>6. CASE ConnectDies
  <2>1. waiting' \subseteq 1..MaxJobs
    BY <1>0, <1>6 DEF ConnectDies
  <2> QED BY <1>0, <1>f, <1>6, <2>1 DEF ConnectDies
<1>7. ASSUME NEW i \in waiting, UnitBegins(i) PROVE HostInv'
  BY <1>0, <1>f, <1>7 DEF UnitBegins
<1>8. CASE UnitLooks
  <2>1. CASE hostJob.pool \subseteq lxc.mounts
    <3>1. SavesJob("restarting") /\ unit' = "boot"
      BY <1>8, <2>1 DEF UnitLooks
    <3>2. hostJob' \in Jobs /\ hostJob'.id = hostJob.id /\ hostJob'.state = "restarting"
      BY <3>1, Saved DEF InProgress
    <3> QED BY <1>0, <1>f, <1>8, <3>1, <3>2 DEF UnitLooks
  <2>2. CASE ~(hostJob.pool \subseteq lxc.mounts)
    <3>1. SavesJob("applying") /\ unit' = "set"
      BY <1>8, <2>2 DEF UnitLooks
    <3>2. hostJob' \in Jobs /\ hostJob'.id = hostJob.id /\ hostJob'.state = "applying"
      BY <3>1, Saved DEF InProgress
    <3> QED BY <1>0, <1>f, <1>8, <3>1, <3>2 DEF UnitLooks
  <2> QED BY <2>1, <2>2
<1>9. CASE UnitSets
  <2>1. hostJob' \in Jobs /\ hostJob'.id = hostJob.id /\ hostJob'.state = "restarting"
    BY <1>9, Saved DEF UnitSets, InProgress
  <2>2. lxc' \in Containers
    BY <1>9, Mounted DEF UnitSets
  <2> QED BY <1>0, <1>f, <1>9, <2>1, <2>2 DEF UnitSets
<1>10. CASE UnitConfiguresBoot
  <2>1. lxc' \in Containers
    BY <1>0, <1>10 DEF UnitConfiguresBoot, Containers
  <2> QED BY <1>0, <1>f, <1>10, <2>1 DEF UnitConfiguresBoot
<1>11. CASE UnitReboots
  BY <1>0, <1>f, <1>11, Begun DEF UnitReboots
<1>12. CASE UnitSees
  <2>1. hostJob' \in Jobs /\ hostJob'.id = hostJob.id /\ hostJob'.state = "ready"
    BY <1>12, Saved DEF UnitSees
  <2> QED BY <1>0, <1>f, <1>12, <2>1 DEF UnitSees
<1>13. CASE UnitFails
  <2>1. hostJob' \in Jobs /\ hostJob'.id = hostJob.id /\ hostJob'.state = "failed"
    BY <1>13, Saved DEF UnitFails
  <2>2. lxc' \in Containers
    BY <1>0, <1>13, Mounted DEF UnitFails, MaySet
  <2> QED BY <1>0, <1>f, <1>13, <2>1, <2>2 DEF UnitFails
<1>14. CASE UnitIsKilled
  <2>1. lxc' \in Containers
    BY <1>0, <1>14, Mounted DEF UnitIsKilled, MaySet
  <2> QED BY <1>0, <1>f, <1>14, <2>1 DEF UnitIsKilled, InProgress
<1>15. CASE GrantsTun
  <2>1. lxc' \in Containers
    BY <1>0, <1>15 DEF GrantsTun, Containers
  <2> QED BY <1>0, <1>f, <1>15, <2>1 DEF GrantsTun
<1>16. CASE Ages
  <2>1. hostJob' \in Jobs /\ hostJob'.id = hostJob.id /\ hostJob'.state = hostJob.state
    BY <1>0, <1>16 DEF Ages, Jobs
  <2> QED BY <1>0, <1>f, <1>16, <2>1 DEF Ages
<1>17. CASE AdminClears
  <2>1. hostJob' \in Jobs /\ hostJob'.id = hostJob.id
    BY <1>0, <1>17 DEF AdminClears, Jobs
  <2>2. cut' \in BOOLEAN /\ ~cut'
    BY <1>17, Zenon DEF AdminClears
  <2> QED BY <1>0, <1>f, <1>17, <2>1, <2>2 DEF AdminClears
<1>18. CASE AdminReboots
  BY <1>0, <1>f, <1>18, Begun DEF AdminReboots
<1>19. CASE UNCHANGED hostVars
  BY <1>0, <1>f, <1>19 DEF hostVars
<1> HIDE DEF HostInv
<1> QED
  BY <1>1, <1>2, <1>3, <1>4, <1>5, <1>6, <1>7, <1>8, <1>9, <1>10, <1>11, <1>12, <1>13, <1>14,
    <1>15, <1>16, <1>17, <1>18, <1>19 DEF HostNext

(* Every variable of the agent keeps its type.                               *)
THEOREM HostTypes == HostSpec => []HostTypeOK
<1>1. HostInv /\ [HostNext]_hostVars => HostInv'
  BY HostNextInv
<1>2. HostInv => HostTypeOK
  BY DEF HostInv
<1> QED BY HostInitInv, <1>1, <1>2, PTL DEF HostSpec

(* The agent reboots the container for the job of its state file, and never  *)
(* again once the unit of a job was killed (NoBlindReboot).                  *)
THEOREM RebootsOnce == HostSpec => NoBlindReboot
<1> DEFINE Knows == unit = "reboot" /\ unit' = "visible" => hostJob.state = "restarting" /\ ~cut
<1>1. HostInv /\ [HostNext]_hostVars => HostInv'
  BY HostNextInv
<1>2. HostInv => Knows
  BY DEF HostInv, Applying
<1>3. HostInv /\ [HostNext]_hostVars => [Knows]_hostVars
  BY <1>2
<1> QED BY HostInitInv, <1>1, <1>3, PTL DEF HostSpec, NoBlindReboot

-----------------------------------------------------------------------------
(* The GPU setup.  SetupDidWhatItSays is about what is shown, the file or     *)
(* memory; what is inductive is about both (Remembered, InFile), about how far *)
(* each thread is (Behind), and that one that is not marked as beside another  *)
(* goes on alone (OneUnmarked): so nobody changes the libraries after it has   *)
(* compared them (Fitting).                                                 *)

Host == [toolkit : BOOLEAN, libs : {"bound", "right", "wrong"}, runtime : BOOLEAN,
         cgroups : BOOLEAN, restart : BOOLEAN]

Asking == [at : Chain \cup {"idle", "looked", "reset"}, exact : BOOLEAN]

Compared == {"runtime", "cgroups", "restart", "planned"}

(* What the steps before `step` have done to the host.                       *)
Done(step, host) ==
    /\ step \in {"version", "clean", "libs", "ldconfig", "nvml"} \cup Compared => host.toolkit
    /\ step \in {"cgroups", "restart", "planned"} => host.runtime
    /\ step \in {"restart", "planned"} => host.cgroups

Ready(host) == host.toolkit /\ host.runtime /\ host.cgroups

(* The host of the next state has what it had.                              *)
HostKeeps ==
    /\ gpuHost' \in Host
    /\ gpuHost.toolkit => gpuHost'.toolkit
    /\ gpuHost.runtime => gpuHost'.runtime
    /\ gpuHost.cgroups => gpuHost'.cgroups

Remembered ==
    /\ gpuMemory.running => (Going # {} \/ "start" \in doubts)
    /\ ~gpuMemory.running => Going \subseteq silenced

InFile ==
    /\ (gpuFile.whole /\ gpuFile.status # gpuMemory) => ("write" \in doubts \/ "restart" \in doubts)
    /\ "restart" \in doubts => (Going = {} \/ "write" \in doubts)

OneUnmarked == \A a \in Going \ beside : Going = {a}

Behind ==
    /\ \A a \in GpuAsker : Done(gpuAsker[a].at, gpuHost)
    /\ (gpuMemory.restart \/ gpuFile.status.restart) => Ready(gpuHost)

Fitting ==
    /\ "libs" \notin doubts => Going = {} /\ gpuHost.libs # "wrong"
    /\ \A a \in Going \ beside :
          (gpuAsker[a].exact /\ gpuAsker[a].at \in Compared) => gpuHost.libs # "wrong"

GpuInv == GpuTypeOK /\ Remembered /\ InFile /\ OneUnmarked /\ Behind /\ Fitting

LEMMA GpuInitInv == GpuInit => GpuInv
<1> SUFFICES ASSUME GpuInit PROVE GpuInv
  OBVIOUS
<1>1. GpuTypeOK
  <2>1. NoGpuSetup \in Status
    BY DEF NoGpuSetup, Status
  <2>2. NoStep \in Asking
    BY DEF NoStep, Asking
  <2>3. gpuHost \in Host
    BY DEF GpuInit, Host
  <2> QED BY <2>1, <2>2, <2>3, GpuAssumption DEF GpuInit, GpuTypeOK, Asking, Host
<1>2. Going = {} /\ ~gpuMemory.running /\ ~gpuMemory.restart /\ ~gpuFile.status.restart
  BY DEF GpuInit, Going, NoStep, NoGpuSetup, Chain
<1>3. \A a \in GpuAsker : Done(gpuAsker[a].at, gpuHost)
  BY DEF GpuInit, NoStep, Done, Compared
<1>4. "libs" \in doubts /\ ~gpuFile.whole /\ "restart" \notin doubts
  BY DEF GpuInit
<1> QED BY <1>1, <1>2, <1>3, <1>4 DEF GpuInv, Remembered, InFile, OneUnmarked, Behind, Fitting

(* What a write leaves in memory, in the file and in doubt.                  *)
LEMMA Written ==
  ASSUME GpuTypeOK, NEW status \in Status,
         NEW settled \in SUBSET {"start", "libs"}, NEW raised \in SUBSET {"libs"},
         Writes(status, settled, raised)
  PROVE  /\ gpuMemory' = status
         /\ gpuFile' \in [status : Status, whole : BOOLEAN]
         /\ gpuFile'.status \in {status, gpuFile.status}
         /\ doubts' \subseteq {"start", "write", "restart", "libs"}
         /\ gpuMishaps' \in 0..GpuMishaps
         /\ "write" \in doubts' \/ (gpuFile'.status = status /\ "restart" \notin doubts')
         /\ "libs" \in doubts' <=> ("libs" \in raised \/ ("libs" \in doubts /\ "libs" \notin settled))
         /\ "start" \in doubts' <=> ("start" \in doubts /\ "start" \notin settled)
<1>1. CASE /\ gpuFile' = [status |-> status, whole |-> TRUE]
           /\ doubts' = (doubts \ (settled \cup {"write", "restart"})) \cup raised
           /\ UNCHANGED gpuMishaps
  <2>1. gpuFile' \in [status : Status, whole : BOOLEAN] /\ gpuFile'.status = status
    BY <1>1
  <2>2. doubts' \subseteq {"start", "write", "restart", "libs"} /\ "restart" \notin doubts'
    BY <1>1 DEF GpuTypeOK
  <2>3. "libs" \in doubts' <=> ("libs" \in raised \/ ("libs" \in doubts /\ "libs" \notin settled))
    BY <1>1
  <2>4. "start" \in doubts' <=> ("start" \in doubts /\ "start" \notin settled)
    BY <1>1
  <2>5. gpuMishaps' \in 0..GpuMishaps /\ gpuMemory' = status
    BY <1>1 DEF Writes, GpuTypeOK
  <2> QED BY <2>1, <2>2, <2>3, <2>4, <2>5
<1>2. CASE /\ gpuMishaps < GpuMishaps /\ gpuMishaps' = gpuMishaps + 1
           /\ UNCHANGED gpuFile \/ gpuFile' = [gpuFile EXCEPT !.whole = FALSE]
           /\ doubts' = (doubts \ settled) \cup raised \cup {"write"}
  <2>1. gpuFile' \in [status : Status, whole : BOOLEAN] /\ gpuFile'.status = gpuFile.status
    BY <1>2 DEF GpuTypeOK
  <2>2. doubts' \subseteq {"start", "write", "restart", "libs"} /\ "write" \in doubts'
    BY <1>2 DEF GpuTypeOK
  <2>3. "libs" \in doubts' <=> ("libs" \in raised \/ ("libs" \in doubts /\ "libs" \notin settled))
    BY <1>2
  <2>4. "start" \in doubts' <=> ("start" \in doubts /\ "start" \notin settled)
    BY <1>2
  <2>5. gpuMishaps' \in 0..GpuMishaps /\ gpuMemory' = status
    BY <1>2, GpuAssumption DEF Writes, GpuTypeOK
  <2> QED BY <2>1, <2>2, <2>3, <2>4, <2>5
<1> QED BY <1>1, <1>2 DEF Writes

(* A step of the chain: the thread goes on, memory is what it was, and who     *)
(* else goes on is marked.                                                  *)
LEMMA ChainStep ==
  ASSUME GpuInv, NEW a \in GpuAsker, gpuAsker[a].at \in Chain,
         NEW next \in [at : Chain, exact : BOOLEAN],
         gpuAsker' = [gpuAsker EXCEPT ![a] = next],
         Appends, UNCHANGED gpuPast, HostKeeps, Done(next.at, gpuHost'),
         (next.exact /\ next.at \in Compared /\ a \notin beside) => gpuHost'.libs # "wrong"
  PROVE  GpuInv'
<1>1. /\ gpuMemory' = gpuMemory /\ gpuFile' \in [status : Status, whole : BOOLEAN]
      /\ gpuFile'.status \in {gpuMemory, gpuFile.status}
      /\ doubts' \subseteq {"start", "write", "restart", "libs"} /\ gpuMishaps' \in 0..GpuMishaps
      /\ "write" \in doubts' \/ (gpuFile'.status = gpuMemory /\ "restart" \notin doubts')
      /\ "libs" \in doubts' <=> "libs" \in doubts
      /\ "start" \in doubts' <=> "start" \in doubts
  BY Written DEF Appends, GpuInv, GpuTypeOK
<1>2. beside' = beside /\ silenced' = silenced
  BY DEF gpuPast
<1>3. \A b \in GpuAsker : gpuAsker'[b] = IF b = a THEN next ELSE gpuAsker[b]
  BY DEF GpuInv, GpuTypeOK
<1>4. GpuTypeOK'
  <2>1. gpuAsker' \in [GpuAsker -> [at : Chain \cup {"idle", "looked", "reset"}, exact : BOOLEAN]]
    BY DEF GpuInv, GpuTypeOK
  <2> QED BY <1>1, <1>2, <2>1 DEF GpuInv, GpuTypeOK, HostKeeps, Host
<1>5. Going' = Going /\ a \in Going
  BY <1>3 DEF Going
<1>6. Remembered' /\ InFile' /\ OneUnmarked'
  BY <1>1, <1>2, <1>5 DEF GpuInv, Remembered, InFile, OneUnmarked
<1>7. Behind'
  <2>1. \A b \in GpuAsker : Done(gpuAsker'[b].at, gpuHost')
    BY <1>3 DEF GpuInv, Behind, Done, HostKeeps
  <2>2. (gpuMemory'.restart \/ gpuFile'.status.restart) => Ready(gpuHost')
    BY <1>1 DEF GpuInv, Behind, Ready, HostKeeps
  <2> QED BY <2>1, <2>2 DEF Behind
<1>8. Fitting'
  <2>1. "libs" \in doubts'
    BY <1>1, <1>5 DEF GpuInv, Fitting
  <2>2. \A b \in Going' \ beside' : b = a
    BY <1>2, <1>5 DEF GpuInv, OneUnmarked
  <2> QED BY <1>2, <1>3, <2>1, <2>2 DEF Fitting
<1> QED BY <1>4, <1>6, <1>7, <1>8 DEF GpuInv

(* The end of a thread: whoever still goes on was marked with it, and is      *)
(* silenced by it.                                                          *)
LEMMA ChainEnds ==
  ASSUME GpuInv, NEW a \in GpuAsker, gpuAsker[a].at \in Chain,
         NEW ended \in {"ok", "failed"}, NEW restart \in BOOLEAN,
         GpuSetupEnds(a, ended, restart), HostKeeps,
         restart => (gpuAsker[a].at = "planned" /\ UNCHANGED gpuHost)
  PROVE  GpuInv'
<1> DEFINE new == [running |-> FALSE, ended |-> ended, restart |-> restart]
           raised == IF restart /\ gpuAsker[a].exact /\ a \notin beside THEN {} ELSE {"libs"}
<1>1. new \in Status /\ raised \in SUBSET {"libs"}
  BY DEF Status
<1>2. /\ gpuMemory' = new /\ gpuFile' \in [status : Status, whole : BOOLEAN]
      /\ gpuFile'.status \in {new, gpuFile.status}
      /\ doubts' \subseteq {"start", "write", "restart", "libs"} /\ gpuMishaps' \in 0..GpuMishaps
      /\ "write" \in doubts' \/ (gpuFile'.status = new /\ "restart" \notin doubts')
      /\ "libs" \in doubts' <=> "libs" \in raised
  <2>1. Writes(new, {"start", "libs"}, raised) /\ GpuTypeOK
    BY DEF GpuSetupEnds, GpuInv
  <2> HIDE DEF new, raised
  <2> QED BY <1>1, <2>1, Written
<1>3. gpuAsker' = [gpuAsker EXCEPT ![a] = NoStep] /\ beside' = beside \ {a} /\ silenced' = Going \ {a}
  BY DEF GpuSetupEnds
<1>4. \A b \in GpuAsker : gpuAsker'[b] = IF b = a THEN NoStep ELSE gpuAsker[b]
  BY <1>3 DEF GpuInv, GpuTypeOK
<1>5. Going' = Going \ {a} /\ a \in Going /\ Going \subseteq GpuAsker
  BY <1>4 DEF Going, NoStep, Chain
<1>6. GpuTypeOK'
  <2>1. gpuAsker' \in [GpuAsker -> [at : Chain \cup {"idle", "looked", "reset"}, exact : BOOLEAN]]
    BY <1>3 DEF GpuInv, GpuTypeOK, NoStep
  <2> QED BY <1>1, <1>2, <1>3, <1>5, <2>1 DEF GpuInv, GpuTypeOK, HostKeeps, Host
<1>7. Remembered' /\ InFile'
  BY <1>2, <1>3, <1>5 DEF Remembered, InFile
<1>8. Going' \subseteq beside'
  BY <1>3, <1>5 DEF GpuInv, OneUnmarked
<1>9. Behind'
  <2>1. \A b \in GpuAsker : Done(gpuAsker'[b].at, gpuHost')
    BY <1>4 DEF GpuInv, Behind, Done, HostKeeps, NoStep, Compared
  <2>2. restart => Ready(gpuHost')
    BY DEF GpuInv, Behind, Done, Ready, Compared
  <2>3. (gpuMemory'.restart \/ gpuFile'.status.restart) => (restart \/ gpuFile.status.restart)
    BY <1>2
  <2>4. gpuFile.status.restart => Ready(gpuHost')
    BY DEF GpuInv, Behind, Ready, HostKeeps
  <2> QED BY <2>1, <2>2, <2>3, <2>4 DEF Behind
<1>10. Fitting'
  <2>1. ASSUME "libs" \notin doubts' PROVE Going' = {} /\ gpuHost'.libs # "wrong"
    <3>1. restart /\ gpuAsker[a].exact /\ a \notin beside
      BY <1>2, <2>1
    <3>2. Going = {a} /\ gpuAsker[a].at \in Compared
      BY <1>5, <3>1 DEF GpuInv, OneUnmarked, Compared
    <3> QED BY <1>5, <3>1, <3>2 DEF GpuInv, Fitting
  <2> QED BY <1>8, <2>1 DEF Fitting
<1> QED BY <1>6, <1>7, <1>8, <1>9, <1>10 DEF GpuInv, OneUnmarked

LEMMA GpuResetsInv == ASSUME GpuInv, NEW a \in GpuAsker, GpuResets(a) PROVE GpuInv'
<1> DEFINE new == [running |-> TRUE, ended |-> "not", restart |-> FALSE]
<1>1. new \in Status
  BY DEF Status
<1>2. /\ gpuMemory' = new /\ gpuFile' \in [status : Status, whole : BOOLEAN]
      /\ gpuFile'.status \in {new, gpuFile.status}
      /\ doubts' \subseteq {"start", "write", "restart", "libs"} /\ gpuMishaps' \in 0..GpuMishaps
      /\ "write" \in doubts' \/ (gpuFile'.status = new /\ "restart" \notin doubts')
      /\ "libs" \in doubts'
  <2>1. Writes(new, {"start"}, {"libs"}) /\ GpuTypeOK
    BY DEF GpuResets, GpuInv
  <2> HIDE DEF new
  <2> QED BY <1>1, <2>1, Written
<1>3. \A b \in GpuAsker :
         gpuAsker'[b] = IF b = a THEN [at |-> "reset", exact |-> gpuAsker[a].exact] ELSE gpuAsker[b]
  BY DEF GpuResets, GpuInv, GpuTypeOK
<1>4. Going' = Going \cup {a} /\ a \notin Going /\ Going \subseteq GpuAsker
  BY <1>3 DEF GpuResets, Going, GpuInv, GpuTypeOK, Chain
<1>5. beside' = (IF Going = {} THEN beside ELSE beside \cup Going \cup {a}) /\ silenced' = {}
      /\ gpuHost' = gpuHost
  BY DEF GpuResets
<1>6. GpuTypeOK'
  <2>1. gpuAsker' \in [GpuAsker -> [at : Chain \cup {"idle", "looked", "reset"}, exact : BOOLEAN]]
    BY DEF GpuResets, GpuInv, GpuTypeOK, Chain
  <2> QED BY <1>1, <1>2, <1>4, <1>5, <2>1 DEF GpuInv, GpuTypeOK
<1>7. Remembered' /\ InFile' /\ OneUnmarked'
  BY <1>2, <1>4, <1>5 DEF GpuInv, Remembered, InFile, OneUnmarked
<1>8. Behind' /\ Fitting'
  <2>1. \A b \in GpuAsker : Done(gpuAsker'[b].at, gpuHost')
    BY <1>3, <1>5 DEF GpuInv, Behind, Done, Compared
  <2>2. (gpuMemory'.restart \/ gpuFile'.status.restart) => Ready(gpuHost')
    BY <1>2, <1>5 DEF GpuInv, Behind
  <2>3. \A b \in Going' \ beside' : b = a
    BY <1>4, <1>5 DEF GpuInv, OneUnmarked
  <2> QED BY <1>2, <1>3, <2>1, <2>2, <2>3 DEF Behind, Fitting, Compared
<1> QED BY <1>6, <1>7, <1>8 DEF GpuInv

(* Looking, and starting the thread or not: memory, file and host are left.  *)
LEMMA GpuAsksInv ==
  ASSUME GpuInv, NEW a \in GpuAsker, GpuLooks(a) \/ GpuStarts(a) \/ GpuStartFails(a)
  PROVE  GpuInv'
<1>1. /\ gpuMemory' = gpuMemory /\ gpuFile' = gpuFile /\ gpuHost' = gpuHost
      /\ "libs" \in doubts' <=> "libs" \in doubts
      /\ "write" \in doubts' <=> "write" \in doubts
      /\ "restart" \in doubts' <=> "restart" \in doubts
  BY DEF GpuLooks, GpuStarts, GpuStartFails
<1>2. CASE GpuLooks(a) \/ GpuStarts(a)
  <2>1. \E at \in {"looked", "probe"} : \A b \in GpuAsker :
           gpuAsker'[b] = IF b = a THEN [at |-> at, exact |-> gpuAsker[a].exact] ELSE gpuAsker[b]
    BY <1>2 DEF GpuLooks, GpuStarts, GpuInv, GpuTypeOK
  <2>2. Going' = Going
    BY <1>2 DEF GpuLooks, GpuStarts, Going, GpuInv, GpuTypeOK, Chain
  <2>3. GpuTypeOK' /\ beside' = beside /\ silenced' = silenced /\ doubts' = doubts
    BY <1>2 DEF GpuLooks, GpuStarts, GpuInv, GpuTypeOK, gpuPast, Chain
  <2>4. \A b \in GpuAsker : Done(gpuAsker'[b].at, gpuHost')
    BY <1>1, <2>1 DEF GpuInv, Behind, Done, Compared
  <2>5. \A b \in Going \ beside : gpuAsker'[b].at \in Compared => gpuAsker'[b] = gpuAsker[b]
    BY <2>1 DEF Going, Compared
  <2> QED BY <1>1, <2>2, <2>3, <2>4, <2>5
       DEF GpuInv, Remembered, InFile, OneUnmarked, Behind, Fitting
<1>3. CASE GpuStartFails(a)
  <2>1. \A b \in GpuAsker : gpuAsker'[b] = IF b = a THEN NoStep ELSE gpuAsker[b]
    BY <1>3 DEF GpuStartFails, GpuInv, GpuTypeOK
  <2>2. Going' = Going \ {a} /\ a \in Going
    BY <1>3, <2>1 DEF GpuStartFails, Going, NoStep, Chain
  <2>3. GpuTypeOK'
    <3>1. gpuAsker' \in [GpuAsker -> [at : Chain \cup {"idle", "looked", "reset"}, exact : BOOLEAN]]
      BY <1>3 DEF GpuStartFails, GpuInv, GpuTypeOK, NoStep
    <3>2. gpuMishaps' \in 0..GpuMishaps
      BY <1>3, GpuAssumption DEF GpuStartFails, GpuInv, GpuTypeOK
    <3> QED BY <1>1, <1>3, <3>1, <3>2 DEF GpuStartFails, GpuInv, GpuTypeOK
  <2>4. \A b \in GpuAsker : Done(gpuAsker'[b].at, gpuHost')
    BY <1>1, <2>1 DEF GpuInv, Behind, Done, NoStep, Compared
  <2>5. beside' = beside \ {a} /\ silenced' = silenced \ {a} /\ "start" \in doubts'
    BY <1>3 DEF GpuStartFails
  <2>6. \A b \in Going' \ beside' : FALSE
    BY <2>2, <2>5 DEF GpuInv, OneUnmarked
  <2> QED BY <1>1, <2>2, <2>3, <2>4, <2>5, <2>6
       DEF GpuInv, Remembered, InFile, OneUnmarked, Behind, Fitting
<1> QED BY <1>2, <1>3

LEMMA GpuNextInv == ASSUME GpuInv, [GpuNext]_gpuVars PROVE GpuInv'
<1>0. gpuHost \in Host
  BY DEF GpuInv, GpuTypeOK, Host
<1>a. ASSUME NEW a \in GpuAsker
      PROVE  gpuAsker[a].exact \in BOOLEAN /\ Done(gpuAsker[a].at, gpuHost)
  BY DEF GpuInv, GpuTypeOK, Behind
<1>s. ASSUME NEW a \in GpuAsker, NEW from \in Chain, NEW to \in Chain, GpuSteps(a, from, to),
             HostKeeps, Done(to, gpuHost'),
             (gpuAsker[a].exact /\ to \in Compared /\ a \notin beside) => gpuHost'.libs # "wrong"
      PROVE  GpuInv'
  <2> DEFINE next == [at |-> to, exact |-> gpuAsker[a].exact]
  <2>1. gpuAsker[a].at \in Chain
    BY <1>s DEF GpuSteps
  <2>2. next \in [at : Chain, exact : BOOLEAN]
    BY <1>a
  <2>3. gpuAsker' = [gpuAsker EXCEPT ![a] = next]
    <3>1. gpuAsker[a] \in [at : Chain \cup {"idle", "looked", "reset"}, exact : BOOLEAN]
      BY DEF GpuInv, GpuTypeOK
    <3>2. [gpuAsker[a] EXCEPT !.at = to] = next
      BY <3>1
    <3>3. gpuAsker' = [gpuAsker EXCEPT ![a] = [gpuAsker[a] EXCEPT !.at = to]]
      BY <1>s DEF GpuSteps
    <3> QED BY <3>2, <3>3
  <2>4. next.at = to /\ next.exact = gpuAsker[a].exact
    OBVIOUS
  <2>5. Appends /\ UNCHANGED gpuPast
    BY <1>s DEF GpuSteps
  <2> HIDE DEF next
  <2> QED BY <1>s, <2>1, <2>2, <2>3, <2>4, <2>5, ChainStep
<1>1. ASSUME NEW a \in GpuAsker, GpuLooks(a) \/ GpuStarts(a) \/ GpuStartFails(a) PROVE GpuInv'
  BY <1>1, GpuAsksInv
<1>2. ASSUME NEW a \in GpuAsker, GpuResets(a) PROVE GpuInv'
  BY <1>2, GpuResetsInv
<1>3. ASSUME NEW a \in GpuAsker, GpuIsReady(a) \/ GpuDone(a) PROVE GpuInv'
  <2>1. gpuAsker[a].at \in Chain /\ HostKeeps /\ UNCHANGED gpuHost
    BY <1>0, <1>3 DEF GpuIsReady, GpuDone, Chain, HostKeeps
  <2> QED BY <1>3, <2>1, ChainEnds DEF GpuIsReady, GpuDone
<1>4. ASSUME NEW a \in GpuAsker, GpuFails(a) PROVE GpuInv'
  <2>1. gpuAsker[a].at \in Chain
    BY <1>4 DEF GpuFails
  <2>2. HostKeeps
    <3>1. CASE UNCHANGED gpuHost
      BY <1>0, <3>1 DEF HostKeeps
    <3>2. CASE gpuHost' = [gpuHost EXCEPT !.libs = "bound"]
      BY <1>0, <3>2 DEF HostKeeps, Host
    <3>3. CASE /\ gpuAsker[a].at \in {"toolkit", "runtime", "cgroups", "restart"}
               /\ gpuHost' = [gpuHost EXCEPT ![gpuAsker[a].at] = TRUE]
      <4>1. \A f \in {"toolkit", "runtime", "cgroups", "restart"} :
               gpuAsker[a].at = f => gpuHost' = [gpuHost EXCEPT ![f] = TRUE]
        BY <3>3
      <4>2. CASE gpuAsker[a].at = "toolkit"
        BY <1>0, <4>1, <4>2 DEF HostKeeps, Host
      <4>3. CASE gpuAsker[a].at = "runtime"
        BY <1>0, <4>1, <4>3 DEF HostKeeps, Host
      <4>4. CASE gpuAsker[a].at = "cgroups"
        BY <1>0, <4>1, <4>4 DEF HostKeeps, Host
      <4>5. CASE gpuAsker[a].at = "restart"
        BY <1>0, <4>1, <4>5 DEF HostKeeps, Host
      <4> QED BY <3>3, <4>2, <4>3, <4>4, <4>5
    <3> QED BY <1>4, <3>1, <3>2, <3>3 DEF GpuFails
  <2>3. GpuSetupEnds(a, "failed", FALSE)
    BY <1>4 DEF GpuFails
  <2> QED BY <2>1, <2>2, <2>3, ChainEnds
<1>5. ASSUME NEW a \in GpuAsker, GpuProbes(a) PROVE GpuInv'
  <2>1. HostKeeps
    BY <1>0, <1>5 DEF GpuProbes, HostKeeps
  <2>2. \A to \in {"devices", "packages", "toolkit"} : Done(to, gpuHost') /\ to \notin Compared
    BY DEF Done, Compared
  <2>3. {"probe", "devices", "packages", "toolkit"} \subseteq Chain
    BY DEF Chain
  <2>4. CASE GpuSteps(a, "probe", "devices")
    BY <2>1, <2>2, <2>3, <2>4, <1>s
  <2>5. CASE GpuSteps(a, "devices", "packages")
    BY <2>1, <2>2, <2>3, <2>5, <1>s
  <2>6. CASE GpuSteps(a, "packages", "toolkit")
    BY <2>1, <2>2, <2>3, <2>6, <1>s
  <2> QED BY <1>5, <2>4, <2>5, <2>6 DEF GpuProbes
<1>6. ASSUME NEW a \in GpuAsker, InstallsToolkit(a) PROVE GpuInv'
  <2>1. HostKeeps /\ Done("version", gpuHost') /\ "version" \notin Compared
    BY <1>0, <1>6 DEF InstallsToolkit, HostKeeps, Host, Done, Compared
  <2>2. "toolkit" \in Chain /\ "version" \in Chain /\ GpuSteps(a, "toolkit", "version")
    BY <1>6 DEF InstallsToolkit, Chain
  <2> QED BY <2>1, <2>2, <1>s
<1>7. ASSUME NEW a \in GpuAsker, FindsVersion(a) PROVE GpuInv'
  <2>1. PICK exact \in BOOLEAN : gpuAsker' = [gpuAsker EXCEPT ![a] = [at |-> "clean", exact |-> exact]]
    BY <1>7 DEF FindsVersion
  <2> DEFINE next == [at |-> "clean", exact |-> exact]
  <2>2. next \in [at : Chain, exact : BOOLEAN] /\ next.at = "clean" /\ next.at \notin Compared
    BY DEF Chain, Compared
  <2>3. gpuAsker[a].at \in Chain /\ HostKeeps /\ Done("clean", gpuHost')
    BY <1>0, <1>7, <1>a DEF FindsVersion, Chain, HostKeeps, Done, Compared
  <2>4. Appends /\ UNCHANGED gpuPast /\ gpuAsker' = [gpuAsker EXCEPT ![a] = next]
    BY <1>7, <2>1 DEF FindsVersion, gpuPast
  <2> HIDE DEF next
  <2> QED BY <2>2, <2>3, <2>4, ChainStep
<1>8. ASSUME NEW a \in GpuAsker, RemovesOthers(a) PROVE GpuInv'
  <2>1. HostKeeps
    BY <1>0, <1>8 DEF RemovesOthers, HostKeeps, Host
  <2>2. GpuSteps(a, "clean", "libs") /\ "clean" \in Chain /\ "libs" \in Chain /\ "libs" \notin Compared
    BY <1>8 DEF RemovesOthers, Chain, Compared
  <2>3. Done("libs", gpuHost')
    BY <1>a, <2>1, <2>2 DEF GpuSteps, Done, HostKeeps, Compared
  <2> QED BY <2>1, <2>2, <2>3, <1>s
<1>9. ASSUME NEW a \in GpuAsker, InstallsLibs(a) PROVE GpuInv'
  <2>1. HostKeeps
    BY <1>0, <1>9 DEF InstallsLibs, HostKeeps, Host
  <2>2. GpuSteps(a, "libs", "ldconfig") /\ "libs" \in Chain /\ "ldconfig" \in Chain
        /\ "ldconfig" \notin Compared
    BY <1>9 DEF InstallsLibs, Chain, Compared
  <2>3. Done("ldconfig", gpuHost')
    BY <1>a, <2>1, <2>2 DEF GpuSteps, Done, HostKeeps, Compared
  <2> QED BY <2>1, <2>2, <2>3, <1>s
<1>10. ASSUME NEW a \in GpuAsker, RunsLdconfig(a) PROVE GpuInv'
  <2>1. HostKeeps
    BY <1>0, <1>10 DEF RunsLdconfig, HostKeeps
  <2>2. GpuSteps(a, "ldconfig", "nvml") /\ "nvml" \in Chain /\ "ldconfig" \in Chain
        /\ "nvml" \notin Compared
    BY <1>10 DEF RunsLdconfig, Chain, Compared
  <2>3. Done("nvml", gpuHost')
    BY <1>a, <2>1, <2>2 DEF GpuSteps, Done, HostKeeps, Compared
  <2> QED BY <2>1, <2>2, <2>3, <1>s
<1>11. ASSUME NEW a \in GpuAsker, ComparesLibs(a) PROVE GpuInv'
  <2>1. HostKeeps
    BY <1>0, <1>11 DEF ComparesLibs, HostKeeps, Host
  <2>2. GpuSteps(a, "nvml", "runtime") /\ "nvml" \in Chain /\ "runtime" \in Chain
    BY <1>11 DEF ComparesLibs, Chain
  <2>3. Done("runtime", gpuHost')
    BY <1>a, <2>1, <2>2 DEF GpuSteps, Done, HostKeeps, Compared
  <2>4. gpuAsker[a].exact => gpuHost'.libs # "wrong"
    BY <1>0, <1>11 DEF ComparesLibs, Host
  <2> QED BY <2>1, <2>2, <2>3, <2>4, <1>s
<1>12. ASSUME NEW a \in GpuAsker, NEW from \in Compared, NEW to \in Compared, GpuSteps(a, from, to),
              HostKeeps, gpuHost'.libs = gpuHost.libs, Done(to, gpuHost')
       PROVE  GpuInv'
  <2>1. from \in Chain /\ to \in Chain /\ gpuAsker[a].at = from /\ a \in Going
    BY <1>12 DEF Compared, Chain, GpuSteps, Going
  <2>2. (gpuAsker[a].exact /\ a \notin beside) => gpuHost'.libs # "wrong"
    BY <1>12, <2>1 DEF GpuInv, Fitting
  <2> QED BY <1>12, <2>1, <2>2, <1>s
<1>13. ASSUME NEW a \in GpuAsker, ConfiguresRuntime(a) PROVE GpuInv'
  <2>1. HostKeeps /\ gpuHost'.libs = gpuHost.libs /\ gpuHost'.runtime
    BY <1>0, <1>13 DEF ConfiguresRuntime, HostKeeps, Host
  <2>2. GpuSteps(a, "runtime", "cgroups") /\ "runtime" \in Compared /\ "cgroups" \in Compared
    BY <1>13 DEF ConfiguresRuntime, Compared
  <2>3. Done("cgroups", gpuHost')
    BY <1>a, <2>1, <2>2 DEF GpuSteps, Done, HostKeeps, Compared
  <2> QED BY <2>1, <2>2, <2>3, <1>12
<1>14. ASSUME NEW a \in GpuAsker, SetsNoCgroups(a) PROVE GpuInv'
  <2>1. HostKeeps /\ gpuHost'.libs = gpuHost.libs /\ gpuHost'.cgroups
    BY <1>0, <1>14 DEF SetsNoCgroups, HostKeeps, Host
  <2>2. GpuSteps(a, "cgroups", "restart") /\ "cgroups" \in Compared /\ "restart" \in Compared
    BY <1>14 DEF SetsNoCgroups, Compared
  <2>3. Done("restart", gpuHost')
    BY <1>a, <2>1, <2>2 DEF GpuSteps, Done, HostKeeps, Compared
  <2> QED BY <2>1, <2>2, <2>3, <1>12
<1>15. ASSUME NEW a \in GpuAsker, PlansRestart(a) PROVE GpuInv'
  <2>1. HostKeeps /\ gpuHost'.libs = gpuHost.libs
    BY <1>0, <1>15 DEF PlansRestart, HostKeeps, Host
  <2>2. GpuSteps(a, "restart", "planned") /\ "restart" \in Compared /\ "planned" \in Compared
    BY <1>15 DEF PlansRestart, Compared
  <2>3. Done("planned", gpuHost')
    BY <1>a, <2>1, <2>2 DEF GpuSteps, Done, HostKeeps, Compared
  <2> QED BY <2>1, <2>2, <2>3, <1>12
<1>16. CASE GpuHubRestarts
  <2>1. Going' = {} /\ ~gpuMemory'.running /\ ~gpuMemory'.restart
    BY <1>16 DEF GpuHubRestarts, Going, NoStep, NoGpuSetup, Chain
  <2>2. HostKeeps /\ gpuHost'.libs = gpuHost.libs
    BY <1>0, <1>16 DEF GpuHubRestarts, HostKeeps, Host
  <2>3. gpuMishaps' \in 0..GpuMishaps
    BY <1>16, GpuAssumption DEF GpuHubRestarts, GpuInv, GpuTypeOK
  <2>4. gpuFile' \in [status : Status, whole : BOOLEAN] /\ gpuFile'.status = gpuFile.status
    BY <1>16 DEF GpuHubRestarts, GpuInv, GpuTypeOK
  <2>5. GpuTypeOK'
    BY <1>16, <2>2, <2>3, <2>4
       DEF GpuHubRestarts, GpuInv, GpuTypeOK, NoStep, NoGpuSetup, Status, HostKeeps, Host
  <2>6. "restart" \in doubts' /\ ("libs" \notin doubts' => "libs" \notin doubts)
    BY <1>16 DEF GpuHubRestarts
  <2>7. \A b \in GpuAsker : Done(gpuAsker'[b].at, gpuHost')
    BY <1>16 DEF GpuHubRestarts, NoStep, Done, Compared
  <2>8. (gpuMemory'.restart \/ gpuFile'.status.restart) => Ready(gpuHost')
    BY <2>1, <2>2, <2>4 DEF GpuInv, Behind, Ready, HostKeeps
  <2> QED BY <2>1, <2>2, <2>5, <2>6, <2>7, <2>8
       DEF GpuInv, Remembered, InFile, OneUnmarked, Behind, Fitting
<1>17. CASE UNCHANGED gpuVars
  BY <1>17 DEF gpuVars, GpuInv, GpuTypeOK, Remembered, InFile, OneUnmarked, Behind, Fitting, Going
<1> QED
  BY <1>1, <1>2, <1>3, <1>4, <1>5, <1>6, <1>7, <1>8, <1>9, <1>10, <1>11, <1>13, <1>14,
    <1>15, <1>16, <1>17 DEF GpuNext

(* Every variable of the GPU setup keeps its type.                           *)
THEOREM GpuTypes == GpuSpec => []GpuTypeOK
<1>1. GpuInv /\ [GpuNext]_gpuVars => GpuInv'
  BY GpuNextInv
<1>2. GpuInv => GpuTypeOK
  BY DEF GpuInv
<1> QED BY GpuInitInv, <1>1, <1>2, PTL DEF GpuSpec

(* A setup that is shown to have succeeded has done its work, setups side by  *)
(* side, failing writes and thread starts and restarts included; and whether  *)
(* one goes on is shown as it is, but for the cases SetupDidWhatItSays names.  *)
THEOREM SaidAndDone == GpuSpec => []SetupDidWhatItSays
<1>1. GpuInv /\ [GpuNext]_gpuVars => GpuInv'
  BY GpuNextInv
<1>2. GpuInv => SetupDidWhatItSays
  <2> SUFFICES ASSUME GpuInv PROVE SetupDidWhatItSays
    OBVIOUS
  <2>1. Shown = gpuMemory \/ (Shown = gpuFile.status /\ gpuFile.whole)
    BY DEF Shown, GpuInv, GpuTypeOK
  <2>2. Shown.restart => Ready(gpuHost)
    BY <2>1 DEF GpuInv, Behind
  <2>3. (Shown.restart /\ gpuHost.libs = "wrong") => "libs" \in doubts
    BY DEF GpuInv, Fitting
  <2>4. Shown = gpuMemory \/ "write" \in doubts \/ ("restart" \in doubts /\ Going = {})
    BY <2>1 DEF GpuInv, InFile
  <2>5. Shown.running => (Going # {} \/ doubts \cap {"start", "write", "restart"} # {})
    BY <2>4 DEF GpuInv, Remembered
  <2>6. ~Shown.running => (Going \subseteq silenced \/ "write" \in doubts)
    BY <2>4 DEF GpuInv, Remembered
  <2> QED BY <2>2, <2>3, <2>5, <2>6 DEF SetupDidWhatItSays, Ready
<1> QED BY GpuInitInv, <1>1, <1>2, PTL DEF GpuSpec

-----------------------------------------------------------------------------
(* FjordCode's worker.  RunningIsAlive needs that the worker is free exactly  *)
(* when its job is over, that a process is followed at one step of the job    *)
(* only (Followed), and that a job which gives the worker back has said how   *)
(* it ended (Said).                                                         *)

OneJobOfCodex ==
    /\ codeJob.at = "none" <=> codeJob.project = {}
    /\ active = "free" => codeJob = NoJob
    /\ active = "reserved" => codeJob.project # {} \/ stranded
    /\ active = "process" => codeJob.at \in {"reads", "frees"}

Followed ==
    \A p \in Project :
        "followed" \in codex[p] => JobAt(p, "reads") /\ active = "process"

Said ==
    \A p \in Project :
        /\ chat[p] = "running" => codeJob.project = {p} \/ p \in stale \/ stranded
        /\ JobAt(p, "frees") => chat[p] # "running"

LoginAlive == login.status = "running" => login.process \/ login.late # {}

CodeInv == CodeTypeOK /\ OneJobOfCodex /\ Followed /\ Said /\ LoginAlive

LEMMA CodeInitInv == CodeInit => CodeInv
<1> SUFFICES ASSUME CodeInit PROVE CodeInv
  OBVIOUS
<1>1. stranded \in BOOLEAN /\ ~stranded
  BY Zenon DEF CodeInit
<1>2. login \in [status : {"idle", "running", "complete", "failed"}, process : BOOLEAN,
                 late : SUBSET {"complete", "failed"}, ok : BOOLEAN]
  BY DEF CodeInit
<1>3. CodeTypeOK
  BY <1>1, <1>2, CodeAssumption DEF CodeInit, CodeTypeOK, NoJob, ChatStatus
<1> QED BY <1>1, <1>3 DEF CodeInit, CodeInv, OneJobOfCodex, Followed, Said, LoginAlive, JobAt, NoJob

(* The fields of a job and of a login, and what a step of a job leaves of it.   *)
JobSteps == {"none", "begins", "launches", "reads", "waits", "frees"}
Logins   == [status : {"idle", "running", "complete", "failed"}, process : BOOLEAN,
             late : SUBSET {"complete", "failed"}, ok : BOOLEAN]

LEMMA JobStep ==
  ASSUME CodeTypeOK, NEW step \in JobSteps, JobGoes(step)
  PROVE  /\ codeJob' \in [at : JobSteps, project : {{}} \cup {{p} : p \in Project}]
         /\ codeJob'.at = step /\ codeJob'.project = codeJob.project
BY DEF CodeTypeOK, JobGoes, JobSteps

(* What happens to the login alone keeps the rest.                            *)
LEMMA LoginStep ==
  ASSUME CodeInv, UNCHANGED <<active, chat, chatFile, codex, codeJob, repo, stale, stranded,
                              codeMishaps>>,
         login' \in Logins, login'.status = "running" => login'.process \/ login'.late # {}
  PROVE  CodeInv'
BY DEF CodeInv, CodeTypeOK, OneJobOfCodex, Followed, Said, LoginAlive, JobAt, Logins

(* The status of a chat after ChatBecomes.                                   *)
LEMMA ChatStep ==
  ASSUME CodeTypeOK, NEW p \in Project, NEW status \in ChatStatus, ChatBecomes(p, status)
  PROVE  /\ chat' \in [Project -> ChatStatus] /\ chat'[p] = status
         /\ \A q \in Project \ {p} : chat'[q] = chat[q]
         /\ stale' \subseteq Project /\ stale' = stale \ {p}
BY DEF CodeTypeOK, ChatBecomes

LEMMA CodeNextInv == ASSUME CodeInv, [CodeNext]_codeVars PROVE CodeInv'
<1> USE CodeAssumption DEF CodeInv, CodeTypeOK, OneJobOfCodex, Followed, Said, LoginAlive,
      JobAt, NoJob, ChatStatus, jobVars, fileVars, pastVars
<1>1. ASSUME NEW p \in Project, StartsChat(p) PROVE CodeInv'
  BY <1>1 DEF StartsChat
<1>2. ASSUME NEW p \in Project, StopsChat(p) PROVE CodeInv'
  BY <1>2 DEF StopsChat
<1>3. ASSUME NEW p \in Project, ClonesProject(p) PROVE CodeInv'
  BY <1>3 DEF ClonesProject
<1>4. ASSUME NEW p \in Project, CloneEnds(p) PROVE CodeInv'
  BY <1>4 DEF CloneEnds, CodeMishap
<1>5. ASSUME NEW p \in Project, RecordsChat(p) PROVE CodeInv'
  <2>1. /\ codeJob' \in [at : JobSteps, project : {{}} \cup {{q} : q \in Project}]
        /\ codeJob'.at = "launches" /\ codeJob'.project = {p}
    BY <1>5, JobStep DEF RecordsChat, JobSteps
  <2>2. /\ chat' \in [Project -> ChatStatus] /\ chat'[p] = "running"
        /\ \A q \in Project \ {p} : chat'[q] = chat[q]
        /\ stale' \subseteq Project /\ stale' = stale \ {p}
    BY <1>5, ChatStep DEF RecordsChat
  <2>3. CodeTypeOK'
    BY <1>5, <2>1, <2>2 DEF RecordsChat, SavesChats, JobSteps
  <2>4. OneJobOfCodex' /\ Followed' /\ LoginAlive'
    BY <1>5, <2>1 DEF RecordsChat
  <2>5. Said'
    BY <1>5, <2>1, <2>2 DEF RecordsChat
  <2> QED BY <2>3, <2>4, <2>5
<1>6. ASSUME NEW p \in Project, JobIsStranded(p) PROVE CodeInv'
  BY <1>6 DEF JobIsStranded, ChatBecomes, CodeMishap
<1>7. ASSUME NEW p \in Project, LaunchesCodex(p) PROVE CodeInv'
  BY <1>7 DEF LaunchesCodex, JobGoes
<1>8. ASSUME NEW p \in Project, ReadsEvent(p) PROVE CodeInv'
  BY <1>8 DEF ReadsEvent, ChatBecomes, SavesChats
<1>9. ASSUME NEW p \in Project, CodexEnds(p) PROVE CodeInv'
  BY <1>9 DEF CodexEnds
<1>10. ASSUME NEW p \in Project, ReadsResult(p) PROVE CodeInv'
  BY <1>10 DEF ReadsResult, ChatBecomes, SavesChats, JobGoes
<1>11. ASSUME NEW p \in Project, JobFails(p) PROVE CodeInv'
  <2>1. /\ codeJob' \in [at : JobSteps, project : {{}} \cup {{q} : q \in Project}]
        /\ codeJob'.at = "frees" /\ codeJob'.project = {p}
    BY <1>11, JobStep DEF JobFails, JobSteps
  <2>2. /\ chat' \in [Project -> ChatStatus] /\ chat'[p] = "failed"
        /\ \A q \in Project \ {p} : chat'[q] = chat[q]
        /\ stale' \subseteq Project /\ stale' = stale \ {p}
    BY <1>11, ChatStep DEF JobFails
  <2>3. /\ codex' \in [Project -> SUBSET {"followed", "alone"}] /\ "followed" \notin codex'[p]
        /\ \A q \in Project \ {p} : codex'[q] = codex[q]
    <3>1. (IF "followed" \in codex[p] THEN (codex[p] \ {"followed"}) \cup {"alone"} ELSE codex[p])
             \in SUBSET {"followed", "alone"}
      OBVIOUS
    <3>2. "followed" \notin
             (IF "followed" \in codex[p] THEN (codex[p] \ {"followed"}) \cup {"alone"} ELSE codex[p])
      OBVIOUS
    <3> QED BY <1>11, <3>1, <3>2 DEF JobFails
  <2>4. codeMishaps' \in 0..CodeMishaps /\ chatFile' \in [Project -> ChatStatus]
    BY <1>11, <2>2 DEF JobFails, CodeMishap, SavesChats
  <2>5. CodeTypeOK'
    BY <1>11, <2>1, <2>2, <2>3, <2>4 DEF JobFails, JobSteps
  <2>6. codeJob.project = {p} /\ codeJob.at \in {"launches", "reads"}
        /\ UNCHANGED <<active, stranded, login>>
    BY <1>11 DEF JobFails
  <2>7. OneJobOfCodex' /\ LoginAlive'
    BY <2>1, <2>6
  <2>8. Followed'
    BY <2>1, <2>3, <2>6
  <2>9. Said'
    BY <2>1, <2>2, <2>6
  <2> QED BY <2>5, <2>7, <2>8, <2>9
<1>12. ASSUME NEW p \in Project, JobFrees(p) PROVE CodeInv'
  BY <1>12 DEF JobFrees
<1>13. ASSUME NEW p \in Project, ProjectIsLost(p) PROVE CodeInv'
  BY <1>13 DEF ProjectIsLost, CodeMishap
<1>14. CASE LoginStarts
  BY <1>14 DEF LoginStarts
<1>15. CASE LoginEnds
  <2>1. PICK ok \in BOOLEAN :
           login' = [login EXCEPT !.process = FALSE, !.ok = @ \/ ok,
                                  !.late = @ \cup {IF ok THEN "complete" ELSE "failed"}]
    BY <1>15 DEF LoginEnds
  <2>2. (login.ok \/ ok) \in BOOLEAN
    OBVIOUS
  <2>3. login.late \cup {IF ok THEN "complete" ELSE "failed"} \in SUBSET {"complete", "failed"}
    OBVIOUS
  <2>4. login' \in Logins /\ login'.late # {}
    BY <2>1, <2>2, <2>3 DEF Logins
  <2> QED BY <1>15, <2>4, LoginStep DEF LoginEnds
<1>16. CASE LoginIsNoted
  <2>1. PICK result \in login.late :
           login' = [login EXCEPT !.status = result, !.late = @ \ {result}]
    BY <1>16 DEF LoginIsNoted
  <2>2. result \in {"complete", "failed"}
    OBVIOUS
  <2>3. login' \in Logins /\ login'.status = result
    BY <2>1, <2>2 DEF Logins
  <2> QED BY <1>16, <2>2, <2>3, LoginStep DEF LoginIsNoted
<1>17. CASE WorkerRestarts
  <2>1. login' \in Logins /\ login'.status = "idle"
    BY <1>17 DEF WorkerRestarts, Logins
  <2>2. codeJob' = NoJob /\ active' = "free" /\ codex' = [p \in Project |-> {}]
        /\ chat' = chatFile /\ stale' = {p \in Project : chatFile[p] = "running"}
    BY <1>17 DEF WorkerRestarts
  <2>3. stranded' \in BOOLEAN
    BY <1>17, Zenon DEF WorkerRestarts
  <2>4. codeMishaps' \in 0..CodeMishaps /\ chatFile' = chatFile
    BY <1>17 DEF WorkerRestarts, CodeMishap
  <2>5. repo' \in [Project -> {"absent", "cloning", "part", "cloned"}]
    BY <1>17 DEF WorkerRestarts
  <2>6. CodeTypeOK'
    BY <2>1, <2>2, <2>3, <2>4, <2>5 DEF Logins
  <2> QED BY <2>1, <2>2, <2>6
<1>18. CASE UNCHANGED codeVars
  BY <1>18 DEF codeVars
<1> HIDE DEF CodeInv
<1> QED
  BY <1>1, <1>2, <1>3, <1>4, <1>5, <1>6, <1>7, <1>8, <1>9, <1>10, <1>11, <1>12, <1>13, <1>14,
    <1>15, <1>16, <1>17, <1>18 DEF CodeNext

(* Every variable of the worker keeps its type.                              *)
THEOREM CodeTypes == CodeSpec => []CodeTypeOK
<1>1. CodeInv /\ [CodeNext]_codeVars => CodeInv'
  BY CodeNextInv
<1>2. CodeInv => CodeTypeOK
  BY DEF CodeInv
<1> QED BY CodeInitInv, <1>1, <1>2, PTL DEF CodeSpec

(* A chat, the worker or a login says that it runs only while it does, but    *)
(* after a restart or an error before the try block (RunningIsAlive).         *)
THEOREM NothingSaidToRunIsDead == CodeSpec => []RunningIsAlive
<1>1. CodeInv /\ [CodeNext]_codeVars => CodeInv'
  BY CodeNextInv
<1>2. CodeInv => RunningIsAlive
  BY DEF CodeInv, CodeTypeOK, OneJobOfCodex, Followed, Said, LoginAlive, RunningIsAlive, JobAt
<1> QED BY CodeInitInv, <1>1, <1>2, PTL DEF CodeSpec

-----------------------------------------------------------------------------
(* The media gateway's guide.  GuideTellsTheTruth is about the record in      *)
(* memory; a restart reads the file, so the file has to be as truthful as     *)
(* memory is (Truthful), which it is because a setup begins by saving that    *)
(* nothing is active (Underway), and none begins beside another (Locked).     *)

Truthful(r) ==
    (r.active /\ ~r.error) => (crossed \/ flixUrl = IF r.waiting THEN kept ELSE r.domain)

Underway ==
    setup.at \in MediaSteps =>
        /\ ~record.active /\ ~recordFile.active
        /\ (record.domain = setup.address /\ ~record.waiting) \/ crossed
        /\ flixUrl = IF setup.at = "say" THEN setup.address ELSE setup.before

Locked == setup.at # "none" => gate.held

FailureIsTrue == setup.at = "end" /\ record.failed => flixUrl = setup.before \/ setup.unsure

MediaInv ==
    /\ MediaTypeOK /\ Truthful(record) /\ Truthful(recordFile)
    /\ Underway /\ Locked /\ FailureIsTrue

LEMMA MediaInitInv == MediaInit => MediaInv
<1> SUFFICES ASSUME MediaInit PROVE MediaInv
  OBVIOUS
<1>1. record \in Record /\ ~record.active /\ ~record.failed
  BY DEF MediaInit, Record
<1>2. crossed \in BOOLEAN
  BY Zenon DEF MediaInit
<1>3. caddy \in [status : {"none", "stopped", "running"}, domain : SUBSET Address, traefik : BOOLEAN]
  BY DEF MediaInit, NoCaddy
<1>4. setup \in [at : MediaSteps \cup {"none", "end"}, address : SUBSET Address, managed : BOOLEAN,
                 before : SUBSET Address, unsure : BOOLEAN] /\ setup.at = "none"
  BY DEF MediaInit, NoMediaSetup
<1>5. gate \in [held : BOOLEAN, running : BOOLEAN]
      /\ flixInstall \in [runs : BOOLEAN, choice : SUBSET Address, failed : BOOLEAN]
  BY DEF MediaInit, NoFlix
<1>6. MediaTypeOK
  BY <1>1, <1>2, <1>3, <1>4, <1>5, MediaAssumption DEF MediaTypeOK, MediaInit
<1> QED BY <1>1, <1>4, <1>6
     DEF MediaInit, MediaInv, Truthful, Underway, Locked, FailureIsTrue, MediaSteps

(* A save, whether it reaches the file or not.                               *)
LEMMA RecordSaved ==
  ASSUME MediaTypeOK, NEW new \in Record, SavesRecord(new) \/ SaveOfRecordFails(new)
  PROVE  /\ record' = new /\ recordFile' \in {new, recordFile}
         /\ recordFile' \in Record /\ mediaMishaps' \in 0..MediaMishaps
BY MediaAssumption DEF MediaTypeOK, SavesRecord, SaveOfRecordFails, MediaMishap

Setups == [at : MediaSteps \cup {"none", "end"}, address : SUBSET Address, managed : BOOLEAN,
           before : SUBSET Address, unsure : BOOLEAN]

(* A setup that goes on or ends, and nothing else of it but what it knows.     *)
LEMMA SetupWent ==
  ASSUME MediaTypeOK, NEW to \in MediaSteps \cup {"none", "end"},
         setup' = [setup EXCEPT !.at = to] \/ setup' = [setup EXCEPT !.at = to, !.unsure = TRUE]
  PROVE  /\ setup' \in Setups /\ setup'.at = to
         /\ setup'.address = setup.address /\ setup'.before = setup.before
BY DEF MediaTypeOK, Setups

(* A setup begins only with the lock, and with a record that says nothing.     *)
LEMMA SetupStarted ==
  ASSUME MediaInv, NEW a \in Address, StartsSetup(a), UNCHANGED <<flixUrl, caddy>>,
         flixInstall' \in [runs : BOOLEAN, choice : SUBSET Address, failed : BOOLEAN],
         UNCHANGED kept
  PROVE  MediaInv'
<1>1. Started(a) \in Record /\ ~Started(a).active /\ ~Started(a).failed
      /\ Started(a).domain = {a} /\ ~Started(a).waiting
  BY DEF Started, Record
<1>2. record' = Started(a) /\ recordFile' = Started(a) /\ mediaMishaps' = mediaMishaps
  BY DEF StartsSetup, SavesRecord
<1>3. gate' = [held |-> TRUE, running |-> TRUE] /\ ~crossed' /\ crossed' \in BOOLEAN
  BY Zenon DEF StartsSetup
<1>4. gate' \in [held : BOOLEAN, running : BOOLEAN] /\ gate'.held
  BY <1>3
<1>5. PICK managed \in BOOLEAN :
         setup' = [at |-> "check", address |-> {a}, managed |-> managed,
                   before |-> flixUrl, unsure |-> FALSE]
  BY DEF StartsSetup
<1>6. setup' \in Setups /\ setup'.at = "check" /\ setup'.address = {a}
      /\ setup'.before = flixUrl
  BY <1>5 DEF Setups, MediaInv, MediaTypeOK, MediaSteps
<1>7. MediaTypeOK'
  BY <1>1, <1>2, <1>3, <1>4, <1>6 DEF MediaInv, MediaTypeOK, Setups
<1> QED BY <1>1, <1>2, <1>4, <1>6, <1>7
     DEF MediaInv, Truthful, Underway, Locked, FailureIsTrue, MediaSteps

(* A start that could not be saved takes the lock and makes no thread.         *)
LEMMA StartBroken ==
  ASSUME MediaInv, NEW new \in Record, ~new.active, StartBreaks(new), UNCHANGED <<flixUrl, caddy>>,
         flixInstall' \in [runs : BOOLEAN, choice : SUBSET Address, failed : BOOLEAN],
         UNCHANGED kept
  PROVE  MediaInv'
<1>1. record' = new /\ recordFile' = recordFile /\ mediaMishaps' \in 0..MediaMishaps
  BY MediaAssumption DEF StartBreaks, SaveOfRecordFails, MediaMishap, MediaInv, MediaTypeOK
<1>2. gate' \in [held : BOOLEAN, running : BOOLEAN] /\ gate'.held
  BY DEF StartBreaks
<1>3. setup' = setup /\ crossed' = crossed /\ setup.at = "none"
  BY DEF StartBreaks, MediaInv, Locked
<1>4. MediaTypeOK'
  BY <1>1, <1>2, <1>3 DEF MediaInv, MediaTypeOK
<1> QED BY <1>1, <1>2, <1>3, <1>4
     DEF MediaInv, Truthful, Underway, Locked, FailureIsTrue, MediaSteps

LEMMA MediaNextInv == ASSUME MediaInv, [MediaNext]_mediaVars PROVE MediaInv'
<1> USE MediaAssumption DEF MediaInv, MediaTypeOK, Truthful, Underway, Locked, FailureIsTrue,
      MediaSteps, Record, Started, NoMediaSetup, NoCaddy, NoFlix, MediaMishap, SavesRecord,
      SaveOfRecordFails, SetupGoes
<1>1. ASSUME NEW a \in Address, AdminStarts(a) PROVE MediaInv'
  <2>1. Started(a) \in Record /\ ~Started(a).active
    OBVIOUS
  <2>2. UNCHANGED <<flixUrl, caddy, flixInstall, kept>>
    BY <1>1 DEF AdminStarts
  <2>3. flixInstall' \in [runs : BOOLEAN, choice : SUBSET Address, failed : BOOLEAN]
    BY <2>2
  <2>4. StartsSetup(a) \/ StartBreaks(Started(a))
    BY <1>1 DEF AdminStarts
  <2> HIDE DEF MediaInv, Started, Record
  <2> QED BY <2>1, <2>2, <2>3, <2>4, SetupStarted, StartBroken
<1>2. ASSUME NEW a \in Address, InstallChooses(a) PROVE MediaInv'
  <2> DEFINE new == [record EXCEPT !.waiting = TRUE, !.error = FALSE, !.failed = FALSE, !.domain = {a}]
  <2>1. new \in Record /\ new.waiting /\ ~new.failed /\ new.active = record.active
    OBVIOUS
  <2>2. SavesRecord(new) \/ SaveOfRecordFails(new)
    BY <1>2 DEF InstallChooses
  <2>3. record' = new /\ recordFile' \in {new, recordFile} /\ recordFile' \in Record
        /\ mediaMishaps' \in 0..MediaMishaps
    <3> HIDE DEF new, SavesRecord, SaveOfRecordFails
    <3> QED BY <2>1, <2>2, RecordSaved
  <2>4. flixInstall' \in [runs : BOOLEAN, choice : SUBSET Address, failed : BOOLEAN]
    <3>1. CASE flixInstall' = [runs |-> TRUE, choice |-> {a}, failed |-> FALSE]
      BY <3>1
    <3>2. CASE flixInstall' = [NoFlix EXCEPT !.failed = TRUE]
      BY <3>2
    <3> QED BY <1>2, <3>1, <3>2 DEF InstallChooses
  <2>5. crossed' \in BOOLEAN /\ (crossed => crossed') /\ (setup.at # "none" => crossed')
    BY <1>2, Zenon DEF InstallChooses
  <2>6. UNCHANGED <<gate, setup, flixUrl, caddy>> /\ kept' = flixUrl
    BY <1>2 DEF InstallChooses
  <2>7. MediaTypeOK'
    <3> HIDE DEF new
    <3> QED BY <2>1, <2>3, <2>4, <2>5, <2>6
  <2> HIDE DEF new
  <2> QED BY <2>1, <2>3, <2>5, <2>6, <2>7
<1>3. ASSUME NEW a \in Address, InstallStarts(a) PROVE MediaInv'
  <2>1. flixInstall' \in [runs : BOOLEAN, choice : SUBSET Address, failed : BOOLEAN]
    BY <1>3 DEF InstallStarts
  <2>2. UNCHANGED <<flixUrl, caddy, kept>>
    BY <1>3 DEF InstallStarts
  <2>3. CASE StartsSetup(a)
    <3> HIDE DEF MediaInv
    <3> QED BY <2>1, <2>2, <2>3, SetupStarted
  <2>4. CASE StartBreaks([Started(a) EXCEPT !.error = TRUE])
    <3> DEFINE new == [Started(a) EXCEPT !.error = TRUE]
    <3>1. new \in Record /\ ~new.active
      OBVIOUS
    <3> HIDE DEF MediaInv, new
    <3> QED BY <2>1, <2>2, <2>4, <3>1, StartBroken DEF new
  <2>5. CASE /\ gate.held
             /\ SavesRecord([record EXCEPT !.waiting = FALSE, !.error = TRUE, !.failed = FALSE])
             /\ UNCHANGED <<gate, setup, crossed>>
    <3> DEFINE new == [record EXCEPT !.waiting = FALSE, !.error = TRUE, !.failed = FALSE]
    <3>1. new \in Record /\ new.error /\ ~new.failed /\ new.active = record.active
          /\ new.domain = record.domain
      OBVIOUS
    <3>2. record' = new /\ recordFile' = new /\ mediaMishaps' = mediaMishaps
      BY <2>5
    <3> HIDE DEF new
    <3> QED BY <2>1, <2>2, <2>5, <3>1, <3>2
  <2> QED BY <1>3, <2>3, <2>4, <2>5 DEF InstallStarts
<1>4. CASE MediaInstallFails \/ FlixRowChanges
  <2>1. flixInstall' \in [runs : BOOLEAN, choice : SUBSET Address, failed : BOOLEAN]
    BY <1>4 DEF MediaInstallFails, FlixRowChanges
  <2>2. UNCHANGED <<record, recordFile, gate, setup, flixUrl, caddy, crossed, kept, mediaMishaps>>
    BY <1>4 DEF MediaInstallFails, FlixRowChanges
  <2> QED BY <2>1, <2>2
<1>5. CASE SetupSteps
  BY <1>5 DEF SetupSteps
<1>6. CASE FindsGateway
  BY <1>6 DEF FindsGateway
<1>7. CASE CreatesGateway
  <2>1. caddy' \in [status : {"none", "stopped", "running"}, domain : SUBSET Address, traefik : BOOLEAN]
    BY <1>7 DEF CreatesGateway
  <2>2. setup' \in Setups /\ setup'.at = "configure" /\ setup'.address = setup.address
        /\ setup'.before = setup.before
    BY <1>7, SetupWent DEF CreatesGateway
  <2> QED BY <1>7, <2>1, <2>2 DEF CreatesGateway, Setups
<1>8. CASE ConfiguresGateway
  BY <1>8 DEF ConfiguresGateway
<1>9. CASE SaysTesting
  BY <1>9 DEF SaysTesting
<1>10. CASE Activates
  BY <1>10 DEF Activates
<1>11. CASE SaysActive
  <2> DEFINE new == [record EXCEPT !.active = TRUE, !.error = FALSE, !.failed = FALSE]
  <2>1. new \in Record /\ ~new.failed /\ new.domain = record.domain
        /\ new.waiting = record.waiting
    OBVIOUS
  <2>2. record' = new /\ recordFile' = new /\ mediaMishaps' = mediaMishaps
    BY <1>11 DEF SaysActive
  <2>3. setup' \in Setups /\ setup'.at = "end" /\ setup.at = "say"
    BY <1>11, SetupWent DEF SaysActive
  <2>4. UNCHANGED <<gate, flixUrl, caddy, flixInstall, crossed, kept>>
    BY <1>11 DEF SaysActive
  <2>5. crossed \/ flixUrl = record.domain
    BY <2>3
  <2>6. crossed \/ ~record.waiting
    BY <2>3
  <2> HIDE DEF new
  <2> QED BY <2>1, <2>2, <2>3, <2>4, <2>5, <2>6 DEF Setups
<1>12. CASE SetupFails
  <2> DEFINE new == [record EXCEPT !.active = FALSE, !.error = TRUE, !.failed = TRUE]
  <2>1. new \in Record /\ ~new.active /\ new.domain = record.domain
    OBVIOUS
  <2>2. record' = new /\ recordFile' \in {new, recordFile} /\ mediaMishaps' \in 0..MediaMishaps
    BY <1>12 DEF SetupFails
  <2>3. setup' = [setup EXCEPT !.at = "end"] \/ setup' = [setup EXCEPT !.at = "end", !.unsure = TRUE]
    BY <1>12 DEF SetupFails
  <2>4. setup' \in Setups /\ setup'.at = "end" /\ setup'.before = setup.before
    BY <2>3, SetupWent
  <2>5. flixUrl' \subseteq Address
    BY <1>12 DEF SetupFails
  <2>6. setup.at \in MediaSteps /\ UNCHANGED <<gate, caddy, flixInstall, crossed, kept>>
    BY <1>12 DEF SetupFails
  <2>7. setup'.unsure \/ flixUrl' = setup.before
    BY <1>12 DEF SetupFails
  <2> HIDE DEF new
  <2>8. MediaTypeOK'
    BY <2>1, <2>2, <2>4, <2>5, <2>6 DEF Setups
  <2> QED BY <2>1, <2>2, <2>4, <2>6, <2>7, <2>8
<1>13. CASE MediaSetupEnds
  <2> DEFINE new == [record EXCEPT !.running = FALSE]
  <2>1. new \in Record /\ new.active = record.active /\ new.waiting = record.waiting
        /\ new.error = record.error /\ new.domain = record.domain
    OBVIOUS
  <2>2. SavesRecord(new) \/ SaveOfRecordFails(new)
    BY <1>13 DEF MediaSetupEnds
  <2>3. record' = new /\ recordFile' \in {new, recordFile} /\ recordFile' \in Record
        /\ mediaMishaps' \in 0..MediaMishaps
    <3> HIDE DEF new, SavesRecord, SaveOfRecordFails
    <3> QED BY <2>1, <2>2, RecordSaved
  <2>4. setup' \in Setups /\ setup'.at = "none"
    BY <1>13 DEF MediaSetupEnds, Setups
  <2>5. gate' \in [held : BOOLEAN, running : BOOLEAN]
    <3>1. CASE gate' = [held |-> FALSE, running |-> FALSE]
      BY <3>1
    <3>2. CASE UNCHANGED gate
      BY <3>2
    <3> QED BY <1>13, <3>1, <3>2 DEF MediaSetupEnds
  <2>6. UNCHANGED <<flixUrl, caddy, flixInstall, crossed, kept>>
    BY <1>13 DEF MediaSetupEnds
  <2> HIDE DEF new
  <2> QED BY <2>1, <2>3, <2>4, <2>5, <2>6 DEF Setups
<1>14. CASE GatewayChanges
  <2>1. caddy' \in [status : {"none", "stopped", "running"}, domain : SUBSET Address, traefik : BOOLEAN]
    <3>1. caddy' = [caddy EXCEPT !.status = "stopped"] \/ caddy' = NoCaddy
      BY <1>14 DEF GatewayChanges
    <3>2. [caddy EXCEPT !.status = "stopped"] \in
             [status : {"none", "stopped", "running"}, domain : SUBSET Address, traefik : BOOLEAN]
      OBVIOUS
    <3>3. NoCaddy \in
             [status : {"none", "stopped", "running"}, domain : SUBSET Address, traefik : BOOLEAN]
      OBVIOUS
    <3> QED BY <3>1, <3>2, <3>3
  <2> QED BY <1>14, <2>1 DEF GatewayChanges
<1>15. CASE MediaHubRestarts
  <2>1. flixInstall' \in [runs : BOOLEAN, choice : SUBSET Address, failed : BOOLEAN]
    <3>1. PICK failed \in {FALSE, flixInstall.failed} : flixInstall' = [NoFlix EXCEPT !.failed = failed]
      BY <1>15 DEF MediaHubRestarts
    <3>2. failed \in BOOLEAN
      BY <3>1
    <3> QED BY <3>1, <3>2
  <2>2. setup' = NoMediaSetup /\ gate' = [held |-> FALSE, running |-> FALSE]
    BY <1>15 DEF MediaHubRestarts
  <2>3. setup' \in Setups /\ setup'.at = "none" /\ gate' \in [held : BOOLEAN, running : BOOLEAN]
    BY <2>2 DEF Setups
  <2>4. /\ record' = recordFile /\ mediaMishaps' \in 0..MediaMishaps
        /\ UNCHANGED <<recordFile, flixUrl, caddy, crossed, kept>>
    BY <1>15 DEF MediaHubRestarts
  <2> QED BY <2>1, <2>3, <2>4 DEF Setups
<1>16. CASE UNCHANGED mediaVars
  BY <1>16 DEF mediaVars
<1> HIDE DEF MediaInv
<1> QED
  BY <1>1, <1>2, <1>3, <1>4, <1>5, <1>6, <1>7, <1>8, <1>9, <1>10, <1>11, <1>12, <1>13, <1>14,
    <1>15, <1>16 DEF MediaNext

(* Every variable of the media gateway's guide keeps its type.               *)
THEOREM MediaTypes == MediaSpec => []MediaTypeOK
<1>1. MediaInv /\ [MediaNext]_mediaVars => MediaInv'
  BY MediaNextInv
<1>2. MediaInv => MediaTypeOK
  BY DEF MediaInv
<1> QED BY MediaInitInv, <1>1, <1>2, PTL DEF MediaSpec

(* What status() shows as complete is the address FjordFlix uses, or the      *)
(* choice of a failed installation beside which the former one is in use; and  *)
(* a setup that says it left the former one did (GuideTellsTheTruth).          *)
THEOREM GuideIsRight == MediaSpec => []GuideTellsTheTruth
<1>1. MediaInv /\ [MediaNext]_mediaVars => MediaInv'
  BY MediaNextInv
<1>2. MediaInv => GuideTellsTheTruth
  BY DEF MediaInv, Truthful, FailureIsTrue, GuideTellsTheTruth, WaitingShown
<1> QED BY MediaInitInv, <1>1, <1>2, PTL DEF MediaSpec
=============================================================================
