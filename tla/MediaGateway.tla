---------------------------- MODULE MediaGateway ----------------------------
(***************************************************************************)
(* The guide that gives FjordFlix an address for direct video                *)
(* (services/media_gateway.py): one setup at a time, by a thread behind a     *)
(* lock, that proves the address before FjordFlix uses it.  It is started by  *)
(* an administrator, or by the end of FjordFlix's installation; what it says  *)
(* is one record of the install state.                                      *)
(***************************************************************************)
EXTENDS Naturals

CONSTANTS Address,        \* public addresses
          MediaMishaps    \* bound on failing writes of the record and restarts of the hub

ASSUME MediaAssumption == MediaMishaps \in Nat

VARIABLES record,       \* what status() starts from, in memory
          recordFile,   \* the same in the install state's file
          gate,         \* the object's lock and its flag
          setup,        \* the thread: next step, address, way, and what it found at its start
          flixUrl,      \* the address that FjordFlix uses
          caddy,        \* the hub's gateway container
          flixInstall,  \* FjordFlix's own row: an installation with a choice for the guide,
                        \* and whether the last installation failed
          crossed,      \* history: a choice was written over a running setup's address
          kept,         \* history: the address in use when the last choice was written
          mediaMishaps

mediaVars == <<record, recordFile, gate, setup, flixUrl, caddy, flixInstall, crossed, kept,
               mediaMishaps>>

MediaSteps  == {"check", "probe", "gateway", "create", "configure", "test", "verify",
                "activate", "say"}
Record == [running : BOOLEAN, waiting : BOOLEAN, active : BOOLEAN, error : BOOLEAN,
           failed : BOOLEAN, domain : SUBSET Address]

MediaTypeOK ==
    /\ record \in Record /\ recordFile \in Record
    /\ gate \in [held : BOOLEAN, running : BOOLEAN]
    /\ setup \in [at : MediaSteps \cup {"none", "end"}, address : SUBSET Address, managed : BOOLEAN,
                  before : SUBSET Address, unsure : BOOLEAN]
    /\ flixUrl \subseteq Address
    /\ caddy \in [status : {"none", "stopped", "running"}, domain : SUBSET Address, traefik : BOOLEAN]
    /\ flixInstall \in [runs : BOOLEAN, choice : SUBSET Address, failed : BOOLEAN]
    /\ crossed \in BOOLEAN /\ kept \subseteq Address /\ mediaMishaps \in 0..MediaMishaps

NoMediaSetup == [at |-> "none", address |-> {}, managed |-> FALSE, before |-> {}, unsure |-> FALSE]
NoCaddy == [status |-> "none", domain |-> {}, traefik |-> FALSE]
NoFlix  == [runs |-> FALSE, choice |-> {}, failed |-> FALSE]

MediaInit ==
    /\ record = [running |-> FALSE, waiting |-> FALSE, active |-> FALSE, error |-> FALSE,
                 failed |-> FALSE, domain |-> {}]
    /\ recordFile = record
    /\ gate = [held |-> FALSE, running |-> FALSE] /\ setup = NoMediaSetup
    /\ flixUrl = {} /\ caddy = NoCaddy /\ flixInstall = NoFlix
    /\ crossed = FALSE /\ kept = {} /\ mediaMishaps = 0

(* status(): what waits for an installation that failed is not shown to wait,  *)
(* and what runs in no thread not to run.                                   *)
WaitingShown == record.waiting /\ ~flixInstall.failed
RunningShown == record.running /\ gate.running

MediaMishap == mediaMishaps < MediaMishaps /\ mediaMishaps' = mediaMishaps + 1

(* save: memory first, then the file; an error of the file is raised.         *)
SavesRecord(new)      == record' = new /\ recordFile' = new /\ UNCHANGED mediaMishaps
SaveOfRecordFails(new) == record' = new /\ UNCHANGED recordFile /\ MediaMishap

SetupGoes(from, to) == setup.at = from /\ setup' = [setup EXCEPT !.at = to]

-----------------------------------------------------------------------------
(* start, by an administrator or by the installation's end                   *)

Started(a) == [running |-> TRUE, waiting |-> FALSE, active |-> FALSE, error |-> FALSE,
               failed |-> FALSE, domain |-> {a}]

StartsSetup(a) ==
    /\ ~gate.held
    /\ gate' = [held |-> TRUE, running |-> TRUE] /\ crossed' = FALSE
    /\ SavesRecord(Started(a))
    /\ \E managed \in BOOLEAN :
          setup' = [at |-> "check", address |-> {a}, managed |-> managed,
                    before |-> flixUrl, unsure |-> FALSE]

(* The record could not be saved: the lock is taken, and there is no thread.   *)
StartBreaks(new) ==
    /\ ~gate.held /\ gate' = [held |-> TRUE, running |-> TRUE]
    /\ SaveOfRecordFails(new) /\ UNCHANGED <<setup, crossed>>

AdminStarts(a) ==
    /\ StartsSetup(a) \/ StartBreaks(Started(a))
    /\ UNCHANGED <<flixUrl, caddy, flixInstall, kept>>

(* start_install: FjordFlix's row says that it is being installed, then        *)
(* before_start writes the choice, whatever runs.                            *)
InstallChooses(a) ==
    /\ ~flixInstall.runs
    /\ \E new \in {[record EXCEPT !.waiting = TRUE, !.error = FALSE, !.failed = FALSE,
                                  !.domain = {a}]} :
        \/ SavesRecord(new) /\ flixInstall' = [runs |-> TRUE, choice |-> {a}, failed |-> FALSE]
        \/ SaveOfRecordFails(new) /\ flixInstall' = [NoFlix EXCEPT !.failed = TRUE]
    /\ crossed' = (crossed \/ setup.at # "none") /\ kept' = flixUrl
    /\ UNCHANGED <<gate, setup, flixUrl, caddy>>

(* on_success: an error of start is written to the record.                    *)
InstallStarts(a) ==
    /\ flixInstall.runs /\ flixInstall.choice = {a} /\ flixInstall' = NoFlix
    /\ \/ StartsSetup(a) \/ StartBreaks([Started(a) EXCEPT !.error = TRUE])
       \/ /\ gate.held
          /\ SavesRecord([record EXCEPT !.waiting = FALSE, !.error = TRUE, !.failed = FALSE])
          /\ UNCHANGED <<gate, setup, crossed>>
    /\ UNCHANGED <<flixUrl, caddy, kept>>

(* The installation failed, or nothing is started at its end because its       *)
(* owner's access could not be saved: the choice stays in the record.         *)
MediaInstallFails ==
    /\ flixInstall.runs /\ \E failed \in BOOLEAN : flixInstall' = [NoFlix EXCEPT !.failed = failed]
    /\ UNCHANGED <<record, recordFile, gate, setup, flixUrl, caddy, crossed, kept, mediaMishaps>>

(* FjordFlix is installed without a choice, with or without success, adopted   *)
(* or removed.                                                              *)
FlixRowChanges ==
    /\ ~flixInstall.runs /\ \E failed \in BOOLEAN : flixInstall' = [NoFlix EXCEPT !.failed = failed]
    /\ UNCHANGED <<record, recordFile, gate, setup, flixUrl, caddy, crossed, kept, mediaMishaps>>

-----------------------------------------------------------------------------
(* run: FjordFlix is asked, given a nonce, the gateway is made, the nonce is   *)
(* read at the address, and only then FjordFlix uses it.                     *)

SetupStepsInUse ==
    /\ \/ SetupGoes("check", "probe")
       \/ setup.managed /\ SetupGoes("probe", "gateway")
       \/ ~setup.managed /\ SetupGoes("probe", "test")
    /\ flixUrl' = setup.address
    /\ UNCHANGED <<record, recordFile, gate, caddy, flixInstall, crossed, kept, mediaMishaps>>

SetupSteps ==
    /\ \/ SetupGoes("check", "probe")
       \/ setup.managed /\ SetupGoes("probe", "gateway")
       \/ ~setup.managed /\ SetupGoes("probe", "test")
    /\ UNCHANGED <<record, recordFile, gate, flixUrl, caddy, flixInstall, crossed, kept, mediaMishaps>>

(* ensure_gateway: another domain's gateway is left alone; one that stopped   *)
(* without the hub's Traefik is removed to be made again behind it, one that   *)
(* runs is not.                                                             *)
FindsGateway ==
    /\ caddy.status # "none" => caddy.domain = setup.address
    /\ \E traefik \in BOOLEAN :
        LET anew == traefik /\ ~caddy.traefik IN
        \/ caddy.status # "none" /\ ~anew /\ SetupGoes("gateway", "configure") /\ UNCHANGED caddy
        \/ /\ caddy.status # "running" /\ (caddy.status = "none" \/ anew)
           /\ SetupGoes("gateway", "create")
           /\ caddy' = [NoCaddy EXCEPT !.traefik = traefik]
    /\ UNCHANGED <<record, recordFile, gate, flixUrl, flixInstall, crossed, kept, mediaMishaps>>

CreatesGateway ==
    /\ SetupGoes("create", "configure")
    /\ caddy' = [caddy EXCEPT !.status = "stopped", !.domain = setup.address]
    /\ UNCHANGED <<record, recordFile, gate, flixUrl, flixInstall, crossed, kept, mediaMishaps>>

ConfiguresGateway ==
    /\ SetupGoes("configure", "test") /\ caddy.status # "none"
    /\ caddy' = [caddy EXCEPT !.status = "running"]
    /\ UNCHANGED <<record, recordFile, gate, flixUrl, flixInstall, crossed, kept, mediaMishaps>>

SaysTesting ==
    /\ SetupGoes("test", "verify") \/ SetupGoes("verify", "activate")
    /\ SavesRecord(record)
    /\ UNCHANGED <<gate, flixUrl, caddy, flixInstall, crossed, kept>>

Activates ==
    /\ SetupGoes("activate", "say") /\ flixUrl' = setup.address
    /\ UNCHANGED <<record, recordFile, gate, caddy, flixInstall, crossed, kept, mediaMishaps>>

SaysActive ==
    /\ SetupGoes("say", "end")
    /\ SavesRecord([record EXCEPT !.active = TRUE, !.error = FALSE, !.failed = FALSE])
    /\ UNCHANGED <<gate, flixUrl, caddy, flixInstall, crossed, kept>>

(* Any error, of a save too: "the former video address is not changed", which   *)
(* is not known if FjordFlix's answer was lost or the last save failed.        *)
SetupFails ==
    /\ setup.at \in MediaSteps
    /\ \E new \in {[record EXCEPT !.active = FALSE, !.error = TRUE, !.failed = TRUE]} :
        \/ /\ setup.at # "say" /\ SavesRecord(new) /\ UNCHANGED flixUrl
           /\ setup' = [setup EXCEPT !.at = "end"]
        \/ /\ MediaMishap /\ record' = new /\ recordFile' \in {new, recordFile}
           /\ setup' = [setup EXCEPT !.at = "end", !.unsure = TRUE]
           /\ flixUrl' \in IF setup.at = "activate" THEN {flixUrl, setup.address} ELSE {flixUrl}
    /\ UNCHANGED <<gate, caddy, flixInstall, crossed, kept>>

(* The record, the flag and the lock, in this order: a save that fails keeps   *)
(* the lock until the hub restarts.                                         *)
MediaSetupEnds ==
    /\ setup.at = "end" /\ setup' = NoMediaSetup
    /\ \/ SavesRecord([record EXCEPT !.running = FALSE])
          /\ gate' = [held |-> FALSE, running |-> FALSE]
       \/ SaveOfRecordFails([record EXCEPT !.running = FALSE]) /\ UNCHANGED gate
    /\ UNCHANGED <<flixUrl, caddy, flixInstall, crossed, kept>>

-----------------------------------------------------------------------------
(* The gateway ends or is removed by hand; the hub restarts.                  *)

GatewayChanges ==
    /\ \/ caddy.status = "running" /\ caddy' = [caddy EXCEPT !.status = "stopped"]
       \/ caddy.status = "stopped" /\ setup.at = "none" /\ caddy' = NoCaddy
    /\ UNCHANGED <<record, recordFile, gate, setup, flixUrl, flixInstall, crossed, kept, mediaMishaps>>

MediaHubRestarts ==
    /\ MediaMishap /\ record' = recordFile /\ UNCHANGED <<recordFile, flixUrl, caddy>>
    /\ gate' = [held |-> FALSE, running |-> FALSE] /\ setup' = NoMediaSetup
    /\ \E failed \in {FALSE, flixInstall.failed} : flixInstall' = [NoFlix EXCEPT !.failed = failed]
    /\ UNCHANGED <<crossed, kept>>

MediaNext ==
    \/ \E a \in Address : AdminStarts(a) \/ InstallChooses(a) \/ InstallStarts(a)
    \/ MediaInstallFails \/ FlixRowChanges \/ SetupSteps \/ FindsGateway \/ CreatesGateway \/ ConfiguresGateway
    \/ SaysTesting \/ Activates \/ SaysActive \/ SetupFails \/ MediaSetupEnds
    \/ GatewayChanges \/ MediaHubRestarts

MediaSpec == MediaInit /\ [][MediaNext]_mediaVars

-----------------------------------------------------------------------------
(* Properties *)

(* What status() shows as complete (active, without an error or something to   *)
(* wait for) is the address that FjordFlix uses, or it is the choice of an     *)
(* installation that failed, in whose place the former one is still in use:   *)
(* the code shows that choice as complete too.  A setup that says that it left *)
(* the former address as it was did.  Both whatever an installation and the    *)
(* administrators have started beside it, but for a choice written over the    *)
(* address of a running setup, an answer or a last save that failed.          *)
GuideTellsTheTruth ==
    /\ (record.active /\ ~RunningShown /\ ~WaitingShown /\ ~record.error)
        => crossed \/ flixUrl = (IF record.waiting THEN kept ELSE record.domain)
    /\ (setup.at = "end" /\ record.failed) => flixUrl = setup.before \/ setup.unsure
=============================================================================
