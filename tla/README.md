# FjordHub in TLA+

FjordHub is a self-hosting hub: a Flask application that installs, updates,
starts, stops, removes and moves apps made of Docker Compose projects, with a
chat bot, a coding worker, an update sidecar and a host agent around it. This
directory holds a model of the parts where several threads, processes or
people meet, the TLC runs that check it on small instances, and proofs checked
by TLAPS of what holds for every instance. Paths below are relative to the
repository's root; `app.py:2363` is a line of it.

## 1. The system

One gunicorn process with one worker and twelve threads (`Dockerfile`) runs the
hub. A request is handled in one of its threads and may leave a daemon thread
behind; a restart ends all of them at once, and whatever was not on disk is gone.
Docker, git and the sidecar live on.

| Component | State | Operations | Meets | What makes it correct |
|---|---|---|---|---|
| **App operations** `app.py`, `installer.py`, `update_manager.py`, `uninstaller.py`, `docker_manager.py` | operation lock, reserved apps, update guards, job table, batch lock; containers | install, update, update-all, integration and memory updates, start, stop, uninstall, link to the hub, adopt | each other on one app; the storage migration; restarts | one operation per app; reservations and locks end; nothing recreated during a removal |
| **Install state** `install_state.py` | `install_state.json`: per app installing/installed/failed, storage job | set, register, clear, save | every operation, page views, restarts | a row left behind blocks nothing for good; an interrupted migration does |
| **Storage migration** `app_storage.py`, `storage_copy.py`, `lens_storage.py` | the job, `.env`, the directories, a manifest, a helper container | start, check, copy, switch, clean up, recover | the app, people at the files, edits of `.env`, restart while the helper lives on | no content lost, the app sees its writes, originals outlive the switch |
| **One update run** `update_manager.py:582` | checkout, image, containers | merge, build, up, roll back | failures between the steps | a finished update runs its checkout; a renaming ends with one of its two containers |
| **Self-update sidecar** `updater_service/app.py`, `scripts/update.sh` | `RUNNING_PROCESS`, state file | start, force stop, check | two starts at once, stop against end | one update of the hub at a time; a final state that is true |
| **Notifications, bot** `notification_events.py`, `matrix_bot.py`, `bot_updates.py` | event spool, sent messages, confirmations | record, deliver, retry, clear, confirm | lost answers, restarts, slow servers | every event is delivered or dropped on purpose; a confirmation starts one update |
| **Accounts** `auth.py`, `app.py` | one row of users; cookies, handoffs, tickets | login, rehash, profile, reset, first login, edits, deletion | each other between a read of the row and a write | what is accepted is of who knows the password; a first login replaces only its sender's |
| **Memberships** `auth.py`, `app.py` | users, access, the app's registration | setup, create, edit, delete, an app's sync and role, install, removal | other administrators, the app | an administrator remains |
| **App keys** `auth.py`, `app.py:2511`, `installer.py` | the hub's hash, the app's `.env` | link, install, remove, verify; updates and the library's script rewrite the file | a link, an installation's thread, a rewrite | the app's key is the one the hub knows |
| **Password reset** `password_reset.py` | rows of codes with attempts and tokens | ask, answer, set | requests that overlap, the clock | a reset ends the codes before it |
| **Host agent** `host_agent/storage.py` | state file and lock, a systemd unit, the container's configuration | connect, apply, VPN device | a killed unit, a start that fails or is late, pools that go | a job reboots the container once |
| **FjordCode** `fjordcode_worker/worker.py` | the active job, chats in memory and on file, workspaces, login | chat, stop, clone, login | failing writes, a process nobody follows, restarts | never busy without a job; a chat that runs has one |
| **FjordCode's installers** `fjordcode_install.py`, `fjordcode_desktop.py`, `fjordcode_routes.py` | flags, two containers, a shared secret | install, pass a request on | requests that find no secret at once | one secret |
| **Media gateway** `media_gateway.py` | a record, a lock, a container, FjordFlix's address | choose, start, run | an installation's choice, failing saves | the guide says what is so |
| **GPU setup** `app.py:3066` | state in memory and on file, the host's packages | begin, run a chain, restart Docker | two requests, the restart it asks for | what runs is shown |
| **Packages** `package_manager.py` | a directory and its `.old` | install, uninstall | each other, failing renames | an installed package stays |
| **Catalogues** `remote_registry.py`, `package_catalog.py` | the edition shown, its cache | refresh | refreshes that cross, failing writes, restarts | a restart shows what was shown |
| **Cloudflare** `cloudflare.py` | DNS records, a tunnel's rules and version | create, route, undo | edits at Cloudflare, lost answers | no rule of another name is lost |
| Matrix hub, bot confirmations, resource monitor, compose settings, storage browser, request security, user interface, host scripts | caches, or nothing of their own | read, format, run commands | little | section 7 |

How they interact: all POST routes about an app pass `_guard_storage_operation`
(`app.py:2363`), which holds one lock for the length of the handler and asks the
install state for a running migration. Installations, single updates, starts,
stops and removals then take the app in `Installer._active_installs`. An update
keeps that reservation in a context guard that is handed to its thread
(`update_manager.py:52-78`). Update-all and the bot go around the lock. A link to the hub
takes the lock and no reservation, and recreates the app's containers
(`app.py:2497-2539`) also beside an installation or an update that runs in its thread. The
migration takes no reservation: it looks at the job table and the row, and its
persisted job keeps the others out. Page views adopt containers they find
(`app.py:457-475`) without any lock.

What is hard, and is listed line by line under `hazards` in `PROJECT.json`:
interleavings on one app, reservations handed between threads, failures half way
through, writes of the state file that fail or are cut short, the restart that
ends the threads but not Docker, edits and writes by people during a copy that
takes hours.

## 2. Modules

| Module | What it is |
|---|---|
| `AppExclusion` | the promise: an app has at most one operation, and its containers change only in the hands of the one that has it, or in a link to the hub, which an operation that must be alone keeps out |
| `AppOperations` | the detailed operations; implements `AppExclusion` |
| `AppOperations_proofs` | its inductive invariants, its theorems, and that it implements `AppExclusion` |
| `MCAppOperations` (+ 6 cfgs) | instances for TLC |
| `StorageMigration` | one app's migration with everybody who touches the files |
| `StorageMigration_proofs` | its inductive invariant and theorems |
| `MCStorageMigration` (+ 2 cfgs) | instances for TLC |
| `SidecarUpdater` | the hub's own update: the sidecar's requests and jobs, the script, the hub it recreates |
| `SidecarUpdater_proofs` | its inductive invariant and theorems |
| `MCSidecarUpdater` (+ 1 cfg) | instances for TLC |
| `BotOutbox` | notifications from an app's event to a Matrix user, over database, files and server |
| `BotOutbox_proofs` | its inductive invariant and theorems |
| `UpdateRun` | one app's update over checkout, images and containers, run after run |
| `UpdateRun_proofs` | its inductive invariant and theorems |
| `MCBotOutbox`, `MCUpdateRun` (+ 1 cfg) | instances for TLC |
| `MCParts` (+ 1 cfg) | `BotOutbox` and `SidecarUpdater` in one run, one at a time, each with its fairness |
| `Accounts` | one account: its row, the requests that read it, what they gave out |
| `Membership` | who the accounts are, who administers, who may use an app |
| `AppKeys` | an app's key at the hub and in its `.env` |
| `PasswordReset` | codes, tokens and passwords of one account |
| `Access_proofs` | theorems about `Accounts`, `Membership` and `AppKeys` |
| `HostAgent` | the storage agent of the Proxmox host, its unit, the container it reboots |
| `CodeWorker` | the FjordCode worker: its one job, its chats, its login |
| `CodeInstall` | the two installers of FjordCode and the secret they share |
| `MediaGateway` | the direct-video guide for FjordFlix |
| `GpuSetup` | the automatic GPU setup |
| `HostParts_proofs` | theorems about `HostAgent`, `GpuSetup`, `CodeWorker`, `MediaGateway` |
| `Packages` | the directory of one package under overlapping requests |
| `Catalogues` | either catalogue, its store and its cache |
| `CloudflareAddress` | DNS records and a tunnel's rules |
| `HubParts_proofs` | theorems about `Catalogues`, `Packages`, `CodeInstall`, `PasswordReset`, `CloudflareAddress` |
| `MCServices` (+ 1 cfg) | `UpdateRun` and the twelve modules above in one run, one at a time |

### AppOperations

A request is one HTTP handler, bot command, page view or turn of the memory
loop, together with the thread it starts: `pc[r]` is where the handler is,
`task[r]` the thread, `item[r][a]` the update of app `a` it carries.
`opLock` is `_app_operation_lock`, `reserved` is `_active_installs`, `guard` is
`_reservations`, `job` is `_jobs`, `batchLock` is the batch lock, `row` the
app's entry of `install_state.json` (its state, whether it is known, whether its
storage job runs), `key` whether the auth database has the app's key, and
`runtime` what Docker has. One action is one stretch of code between two points
where another thread can be seen: taking or releasing a lock or reservation, a
look at shared state, a write of the install state, a git or Docker command.
The `map` of `PROJECT.json` gives the lines of each.

Git and Docker commands are one step with every outcome they can have: done,
not done, and half done where that can be told. A command ends (liveness is
checked under that assumption; see the hazard about `installer.py:298`).
`WriteFails` lets every write of the install state fail as on a full disk, and
`CutWrites` lets a restart cut one short, which leaves a file that reads as
empty (`install_state.py:113-130`). `Renaming` are the apps whose update still
replaces a container of an older name and may have to roll that back. A link to the hub
(`LinkKey`, `LinkUp`) holds the operation lock from its checks to the end of
`docker compose up --force-recreate` and has no app; the pool of update-all may
refuse a job (`BatchSubmitFails`), which leaves the rest of its jobs "queued", and their apps without
updates or a migration, until the hub restarts.

### StorageMigration

A content of a file is a version number, new with each write, as mtime and
checksum are. `files[p][f]` is what lies at place `p`; `owed[f]` holds what
somebody wrote and nobody overwrote or removed. The hub's thread is `pc`
(`AppStorage.run`), the helper container is `helper` (`storage_copy.py`): it
reads the places on its own and outlives a restart of the hub. The app writes
where its containers are mounted (`mount`), other people anywhere; somebody may
edit `.env` (`env.made` are the edits in it). Any command may fail, with any part of its effect.
`back`, `alarm` and `overlooked` are history: a switch was taken back, a migration ended
asking for help, an edit of `.env` came between its comparison and its replacement.

`Compare` and `Replace` are steps of their own, as are `Restore` and `PutBack`: for a move of media
a `docker compose config` of up to a minute and a backup lie between the comparison
(`app_storage.py:376`) and the write (`:387`), and what is edited there is overwritten. One pair
of calls is one step: an original validated and unlinked, a few system calls (see hazards).
Version numbers stand for whole files: what a failed copy leaves of one is no
content, so the model does not have it. Writes of the job are whole here; cut
ones are the `torn` run of `AppOperations`. Update-all, which can recreate the
containers in the middle of a copy, is not composed with this module: the
`migration` run shows that it can happen, and `SeesOwnWrites` holds only when it
does not.

### SidecarUpdater

`running` and `stop` are `RUNNING_PROCESS` and `STOP_REQUESTED`, `file` the status in the
state file (its flag is computed anew whenever it is read), `request[s]` a handler of `/start` between
its locks and its sleep. Handlers may overlap: the hub's operation lock is held only until the hub
gives up waiting, after ten seconds, so it is left out. A job has a thread
(`thread[j]`, the lines of `run_update_job`) and a
script (`script[j]`, the stages of `scripts/update.sh`), which go on side by side:
the script merges (`head`), builds, tags (`image`) and recreates the hub's
container (`hub`). Revisions
count upstream's commits. A force stop and its signal are two steps, a command may
fail at any stage, and a restart of the sidecar ends threads and scripts and
keeps the file. `verdict`, `built` and `asked` record what a job's end
was, what it built, and whether a stop was accepted for it.

The test behind the 409 (`updater_service/app.py:449`) sees a process in `RUNNING_PROCESS` that has not
ended, and nothing else. Any request may come at any time, so starts are let through beside a job, and
`overlap` says what they did not see: `hidden`, a job whose script may run and is not in `RUNNING_PROCESS`
(before it is registered, or after another job's end cleared it); `late`, a job whose script has ended
and which has its report still to write. The properties say what the test is good for as long as
nothing was hidden; finding `ongoing` is what happens then. The state directory is taken to be
writable: a log line that cannot be written would end the loop over the output with the script still running.

### BotOutbox

`events` and `promised` are the hub's database: an event that is unknown, only
recorded or queued, and for whom it was queued. `recorder` is the call of
`NotificationStore.record` under way, in its lock and its transaction; the files it writes
(`spool`) are not part of that transaction, so `RecordFails` keeps them. `bot` is
the place of `poll_outbox` in its round: the files it took, the one whose text it
sends, the one it is about to remove. `delivered` counts what the server took, whether
its answer arrived or not, and `mishaps` the failures and restarts of both sides.
A file's name is a hash, so `Rank` is any order. The bot has one loop: that a second may poll beside it is in section 6. Apps send an event as often as they
like; Matrix users are added, and open and leave chats with the bot.

### UpdateRun

What `AppOperations` calls `UpdateMerge` and `UpdateApply`, looked at from inside:
`_run_update` with `_git_info`, `_changed_paths`, `_compose_build_services_for_changes`
and the two helpers of the renaming of FjordShare to Fjord3D. A revision is how many
commits it has (`upstream`, `origin`, `head`); an image is known by the commits that
touched its build context (`Content`), since a build at any revision with the same ones
gives the same image; `image` is what is built of a service, `box` what its container runs.
`run` is the thread's place and its locals, of which `cur`, `rem` and `build` are read
before the merge and used after it. A page's or an
integration's check fetches when it saw no job running (`CheckBegins`,
`CheckFetches`), also under a run that began in between. `RunFails` and `HubRestarts` cut a
command short (`CutShort`): some services are built, recreated or down, and a `docker stop`
or `rm` that is reported as failed may have worked. A commit may move files
from a service to another (`Moves`): `git diff --name-only` then lists their new place only, if it
finds the two alike, and the service they left is not built (`Slipped`). A `docker inspect` that fails for any
reason is taken as "no such container" (`RunSeesNothing`, `update_manager.py:530-532`). Three histories
say what the code does not know: `owed`, the services merged without being built, for whatever reason,
`blind`, that an inspect failed and fjord3d may come up beside fjordshare, and `botched`, a renaming
that nobody will take back.

### Accounts, Membership, AppKeys, PasswordReset

`Accounts` is one row of `users`. A password is named by the `session_version` it was
set with; `knows`, a history, is the one the holder of a cookie, a handoff or a ticket, or
a request's sender, proved to know. `visit[v]` is a request between its reading of the row
and its write: every handler of `app.py` reads the row in one statement and writes it in
another, so logins, rehashes of an older hash, first logins (a compare-and-set),
edits of an administrator, resets and deletions interleave there. `overtaken` marks what
was given out by a request that read the row anew, after another had changed it (a page
that logs its user in again, a handoff, a ticket): it carries the new version
although its holder proved the old password. The throttle and the tokens of apps are left out.

`Membership` has the tables behind the administrators' pages and an app's own requests:
who is an administrator is checked with a count in one statement and written in the
next. `crossed` marks a request between the two when another one took an administrator
away. `AppKeys` has what `save_hub_key`, `write_env` and `verify_hub_key` do, in
the order the callers do it; an installation's thread writes the `.env` outside the
operation lock that a link holds. An update that changes other lines of the file
(`compose_env.py:17-34`, called at `update_manager.py:544-563` and `:636`) and the library's script
(`library_permissions.py:84-112`) read it and write all of it later, also outside the lock
(`rewriting` holds the key they read); any write may fail or be cut short.
Keys are numbered as they are made. `lost` says how the two parted since the hub's key was made:
its own write failed (`unwritten`), an installation wrote an older key over it (`crossed`), a rewrite
put an older text back (`rewritten`), or the hash of an older hub's key came late (`hashed`). It
grows only in the step that parts the two, and is empty again with each new key.

`PasswordReset` numbers the rows of `password_reset_challenges`. A request is between its
SELECT and its UPDATE; attempts, the five minutes, the one a minute and the few an hour
are in the guards. `over` is how many rows there were when a reset ended well.

### HostAgent

`hostJob` is `state.json`, `hostLock` the lock file, `waiting` the units that systemd was
asked to start and that have not the lock yet, `unit` the place in `apply` of the one that
has it, `lxc` the container: its mounts, whether the check at boot is configured, the VPN
device, and what it was started with. A start of a unit may fail and happen all the same. A unit is
killed between any two commands (`cut`); ten minutes later the agent calls its job interrupted,
and only an administrator who removes the state goes on from there. Pools come and go.

### CodeWorker, CodeInstall, MediaGateway, GpuSetup

Four variants of "one job behind a flag". `CodeWorker`: `active` is the worker's flag, `codeJob`
the thread of `run_job`, `codex` the processes (one nobody follows goes on alone),
`chat` and `chatFile` the state in memory and on disk, `login` what `authenticate` and
its thread say. A failure before the try block leaves the flag (`stranded`), a restart leaves what
the file says (`stale`). `CodeInstall`: `installer` is each container's flag and thread, `secret` the
file that the first request makes with `O_EXCL` and writes after it; a write that raises
(`fjordcode_routes.py:28-30`, answered 503 at `:141`) or a restart leaves it empty for good (`spoilt`).
`MediaGateway`:
`record` and `recordFile` are what `status()` starts from, `gate` the lock and its flag, `setup` the
thread of `run`, `flixUrl` the address FjordFlix uses, `caddy` the gateway's
container. An installation writes its choice into the record whatever runs
(`crossed`); every save may fail, also the one that would give the lock back. What the guide shows is
`RunningShown` and `WaitingShown`, the two flags `status()` recomputes: after an installation that failed
(`failed`) it no longer waits, is still active, and has the new choice for its address, while FjordFlix
uses the one before (`kept`). The page shows it as complete (`static/app.js:943`), beside the phase that says that the
installation failed. `GuideTellsTheTruth` names that disagreement; no comment, doc or test says otherwise, so
it is no finding.
`GpuSetup`: the file is what a request looks at, memory what is written to it, `gpuHost` what the
commands change. The reset that writes "running" (`GpuResets`) and the start of the thread
(`GpuStarts`, or `GpuStartFails`) are two steps. Two requests may both look before either begins:
`beside` marks such chains, `silenced` those that go on after another one said it had ended. Docker's
restart ends the hub before or after the end is written. `doubts` says why what is shown may not be so: a
thread that did not start, a write that failed, a restart, libraries that were not compared with the whole version.

### Packages, Catalogues, CloudflareAddress

`Packages` has the two renames of `install` and the removal file by file, without a lock, as in
the code; a version stands for a directory, `Part` for one without all its files. `Catalogues` is
either catalogue (they differ in what an error of the write does to the loop): the store under
the lock, the cache after it. `passed` says that a refresh stored while another had yet to save.
`CloudflareAddress`: `dns` and `rules` say whose record or rule a name has, `tunnel` is the
version of the configuration, which is read, changed and written as a whole under a
write lock of the hub's database (`dbLock`). Others edit the same zone and tunnel; `foreign`
marks requests during whose write they did. Any answer may be lost.

## 3. Runs

| Run | Instance | Shows |
|---|---|---|
| `core` | 1 app, 3 symmetric requests, install, update, start, uninstall, adopt, link; 1 restart; failing and cut writes | one operation at a time, no container recreated during a removal |
| `batch` | 2 apps, 2 requests, update, uninstall, update-all with one pool worker, which may refuse a job; one app renaming | reservations exact, guards belong to the running update, aborted batches leave nothing, nothing forgotten before it is gone |
| `storage` | 1 app, 2 requests, every kind behind the operation lock; 1 restart | a migration is alone, an interrupted one blocks, `AppExclusion` is implemented, links to the hub as its exception |
| `live` | 1 app, 2 requests, 6 kinds, fair threads | reservations, operation lock and batch lock are given back |
| `move` | 2 places, 2 files, one move; 3 contents, 1 edit, 1 mishap | nothing lost, own writes seen, `.env` and containers agree, edits kept but for those that come between comparison and write, originals outlive the switch |
| `again` | 2 places, 1 file, two moves one after the other, fair threads | the same over two moves, and every migration ends |
| `parts` | `BotOutbox`: 2 events (one of FjordParcel), 2 users, 2 files a round, 1 failure or restart, fair bot; `SidecarUpdater`: 2 jobs, 1 commit, 1 restart of the sidecar, starts and stops at any time, fair threads and scripts | nothing queued is lost, copies need failures, what is not held back is delivered; one script at a time unless a start met a job that is hidden from it, a success is a running hub, stops hit their job, accepted jobs are reported |
| `services` | thirteen parts, one at a time: `UpdateRun` with every kind of app, 2 services, 3 commits of which one moves files, 2 failures or restarts; `Accounts` with 2 requests, 3 versions, 1 thing given out; `Membership` with 3 people, 2 requests; `AppKeys` with 4 keys; `PasswordReset` with 2 requests, 3 instants; `GpuSetup`, `CodeWorker`, `CodeInstall`, `MediaGateway`, `HostAgent`, `Catalogues`, `Packages`, `CloudflareAddress` with 2 or 3 requests, projects, addresses, pools or names and 1 or 2 mishaps each | one property, or two, of each part (section 1, last column) |
| `migration`, `torn`, `ongoing`, `retried` | the smallest instance | the four findings below |

Why the bounds are enough. The operations meet pairwise on one app: two requests
show every race of two, the third in `core` the one that comes in between a
release and its second half. Two apps are needed only for update-all, which
holds several; one pool worker makes an app wait in its queue, and a second one
would only shorten the wait. One restart is enough, since after it the hub is a
hub that just started with the rows it has. In `move`, two files are the least for a
cleanup that stops half way, and two new contents after the first let the app and
somebody else write once each, before, during or after the copy. More moves of
two files do not add states of one move: a move starts only when the last is over, and
`again` checks what one leaves to the next. In `parts`, two jobs
show what one leaves to the next, and one commit is what the second pulls and the first did not; once a start met
a hidden job, `JobsAreReported` is the only property that still says something, so those behaviours are
followed without new commits, restarts of the sidecar or resets of the state file; the
third job that the finding needs is in `ongoing`; a round
of the bot takes two of four files, so that it can be filled with files of a user without
a chat. In `services`, the hazards are races of two requests between a read and a write, so two
requests show each; three where a third finds what the first two left behind (a package's `.old`,
a secret that is there but empty). Three versions of a password are the one somebody knew, the
one that replaced it and one more. Three people let two administrators take each
other away beside a user. Two services of `UpdateRun` are one that a diff builds and one that it leaves, three
commits let the upstream move before, during and after a run, and two failures are one
that is left behind and one that meets the next run or the rollback. Where a mishap has a bound of
its own, one is the failure and a second meets what it left.

The parts of `parts` and of `services` share a run because they share nothing else: `part` says which
of them moves, the others keep one initial state, and a property of one is a property of its
module. In `services`, requests and things of different parts are the same model values, which
no definition names, so that every permutation of them is a symmetry, and one exchange of all of
them is used (more of them cost TLC more than they save); the properties there are
invariants and action properties only, for which that is sound.
Most of the safety properties are also proved for all bounds (section 5). Deadlock is not checked in
the two storage runs, where a stopped app with everything bounded may rest, nor in `services`, where
a part may rest once its keys, versions or jobs are used up.

Every property of a passing run has a mutant: a plausible slip in one definition
(`...Always`, `...Late`, `...Unread`, `...Unseen`, `...Blind`, `...Anyway`, `...Untested`), named in `PROJECT.json`,
which makes the property fail in the same instance.

**Fairness.** `FairSpec` of `AppOperations` has weak fairness for each request's
handler and thread, that of `StorageMigration` for the migration's thread and
for the helper, that of `SidecarUpdater` for handlers, job threads and scripts
(whose commands end, well or not), that of `BotOutbox` for the bot's loop (a send
ends, well or not): Python's threads are scheduled by the operating system, none of
these loops waits for anything but a command or a lock that is held for a
bounded time, and Docker runs the helper. Nothing makes a request arrive, people
write, users chat, or the hub restart.

## 4. Findings

* `migration` - README.md:511-512 says app updates are blocked during a
  migration; update-all (`app.py:3421`) and the bot's confirmed updates ask
  neither the operation lock nor the storage job.
* `torn` - README.md:507-508 says a restart during a migration blocks further
  changes; `install_state.json` is rewritten in place, about once a second
  during a copy, and reads as no rows when it was cut short.
* `ongoing` - `docs/app-data-integration.md:45` promises 409 for an update under way;
  the end of a sidecar job clears `RUNNING_PROCESS` without looking whose it is
  (`updater_service/app.py:340-343`), and a start after that is accepted while the
  next job's script runs.
* `retried` - README.md:352 says that updating pulls the latest code and re-runs
  compose; an update that fails after the merge (`update_manager.py:626`) leaves
  old containers, and the next one compares commits only, runs no compose and ends as up to
  date (`:598`).

## 5. Proofs

The proof modules assume only the named assumptions on the constants
(`ConstantsAssumption`, `MigrationAssumption`, `SidecarAssumption`,
`OutboxAssumption`, `UpdateAssumption`, and those of the modules of `services`), which TLC
evaluates in the runs; what a theorem supposes beyond them its statement says.

`AppOperations_proofs`, for any apps, requests, kinds, pool and restarts.
`OneHolder` and `HolderReserves` are not inductive: a request could hold an app
twice, as a handler and through an update it left behind, and release it twice.
`IInv` adds `Placement` (where the update of a request can be, given where its
handler and thread are), `GuardMatchesUpdate` (an app's guard belongs to the one
update that is queued or runs) and `Reservations` (an app is reserved exactly
while it is held, when writes succeed). The step lemma has one case per action;
most of them follow from five lemmas on what an action can do to a reservation:
nothing (`QuietStep`), take (`TakeStep`), drop (`DropStep`), hand on
(`HandlerMoves`, `ThreadMoves`, `ItemMoves`). From it: `TypeCorrect`,
`NoTwoOperations`, `NeverDropped` (an app in hands is reserved, `HolderReserves`), `ReservationExact`,
`GuardExact`.

The other properties of the operations need more than reservations, which a
migration and an adoption do not take. An action is abstracted twice before they
are proved, so that only the lemmas on footprints and care have a case for each
action. `Footprint` says what a step can do to anybody else: how it may take and
drop the operation lock (`Locks`), what a handler past the lock has looked at
(`Enters`), who marks a row as migrating and unmarks it (`Marks`), that containers
change in the hands of who works on them (`Acts`), and where something is forgotten
(`Forgets`). `Care` says how work begins (`Begins`), that rows and jobs tell of it
(`Tells`), how a handler comes to an app that is free (`Frees`), and that a step is about
one app (`OneApp`).

On them rest two invariants. `Apart` says who has the lock and what was checked under
it (`Locked`, `Checked`), that an app has one migration and is marked with it
(`OneMover`, `Marked`), and that only a removal gets where containers, key and row go
(`Removals`). It holds for every mix of operations and gives `NoRecreation` and
`OneMigration`; and, where the file of the install state is whole (`WriteFails = FALSE,
CutWrites = FALSE`: a file that is not is read as no rows at all), `InterruptedBlocks`
and `ForgottenAfterRemoval`. `Ordered` says that nothing acts beside the lock
(`NoneBeside`), that an installation is shown by its app's row and an update by its job
(`Installs`, `Updates`), which is what a migration looks at, and that the app a
migration is about to mark is free (`Free`). It gives `MigrationAlone` and
`ImplementsExclusion`, for the operations that take the lock (`Kinds \subseteq
HandlerKinds`). The hypothesis is the code's: update-all goes around the lock (the
`migration` finding), and an adoption may write "installed" over the row of an
installation that runs, which a migration then takes for finished. The mapping of
the refinement is `Owner`, the request that works on the app or migrates it; there is at
most one (`BusyOnce`), so a reservation that passes from handler to thread to item is
a stutter, and a release the end of an `Act`. A link has no app: its recreation is the `Recreate` of
`AppExclusion`, which changes containers whoever has the app, unless that operation must be alone (`sole`): it still
holds the lock that the link needs, or is a migration, which the link asks for under the lock. `UpdatesWait` is what is left of the README's
promise that `migration` refutes: no update runs beside a migration as long as both took the lock.

`StorageMigration_proofs`, for any places, files and bounds. `NothingLost` is not
inductive: a removal is safe only if the copy is still there for as long as
the original counts. `IInv` adds `Fresh` (a new content has a new number, so a
content somebody overwrote never counts again), `Custody` (which step of the thread
the helper works for, also after a restart), `Apart` (source and destination
differ), `Copies` (what the helper recorded and is still owed is at the
destination), `Placement` and `Matches` (where `.env` and the containers point
at each step), and `Writes` (where the app's last writes are). Each part has a
step lemma. From it: `MigrationTypes`, `MigrationLosesNothing`,
`AppKeepsItsWrites`, `CleanupSparesTheApp`, `AppRunsWhereEnvSays`,
`EditsAreKept`, and the action property `OriginalsAreKept`. The proof found two
things TLC's one-move instance did not ask for: the history of a switch taken back
or of a call for help must outlive the next migration, as
the divergence it stands for does (`back` and `alarm` are never reset).

`SidecarUpdater_proofs`, for any number of jobs, commits and restarts, whatever clients ask and
when. However jobs overlap (`Anyway`), a script has a thread that waits for it
(`Waited`), and a job has its verdict when its end is known, a success only of a script that
came to its end (`Honest`). From these `SidecarTypes` and `SuccessIsEarned`. The rest is about how far the
test behind the 409 carries, and is not inductive: `OneJob` says that while no start met a hidden job, a script that
runs is the one in `RUNNING_PROCESS` once its job is registered, `StopPending` where an accepted stop is until
its job's end is known, `Alone` that without any overlap the state file is the last job's, and
`Installed` how far each script has taken its revision. From `IInv`:
`StartsKeptApart`, `SuccessInstalled`, `StopsAreAttributed`. What they except is needed: TLC breaks
each of the three without it, with two or three jobs (`ongoing`).

`BotOutbox_proofs`, for any events, users, names of files and mishaps. A bound on
`delivered` is not inductive: a file that is still to be sent may become one copy more.
`Counted` counts it (`Pending`), and asks one less of an event that may be recorded
again, since its files are then left over from a failure. `InHands` says that the bot's
file is in the outbox, `Saved` what a recording has put there. From `IInv`: `OutboxTypes`,
`QueuedKept`, `CopiesBounded`.

`UpdateRun_proofs`, for any services, commits and bounds. What a finished update runs
comes from images that were built before, so `Planned` says what a run has read and
that it still holds when it is used (the checkout moves only in the merge, `origin` only
forward), `Images` that an image nobody owes is of the checkout or about to be, and
`Recreates` that a renaming ends with the containers it recreated. `Renaming` follows
fjordshare from the capture to its removal or its return, and to fjord3d beside it after an inspect that failed
(`blind`). `ContentSame` is the fact
about the diff that it all rests on: a service no commit touched is built the same.
From `IInv`: `UpdateTypes`, `UpdatedRuns`, `OneOfTheTwo`. `LatestWithoutMishap` says what the
`retried` finding needs to happen: before a command fails or the hub restarts, an update that ends
well, also as "up to date", runs the checkout for every service but those that a fetch
between diff and merge, or a file moved to another service, left out. Its invariant `Fresh` says that only a run between merge and
recreation has containers of another revision.

`Access_proofs`, for any accounts and requests. `CredentialsFollow` and `FirstLoginsAreOwners` share
one invariant: what was given out for this version is of who knows this password (`Good`), a login about to
give one is as well (`Fits`), and a password that must be changed is the first one, so that nobody
can know one that came after it, which is why the compare-and-set of a first login is
enough. `Moves` is what every write of the row keeps: versions go forward, a password changes only
with one, a change is never asked for again. `AdminsRemain` rests on `OthersRemain`: a request
that may take an administrator away, and was not crossed, has seen another who still is one.
`KeysReachApps` on `UnderWay`: unless the two have parted (`lost`), the hub's key is in the `.env` or is what a link or an
installation under way will write.

`HostParts_proofs`, for any pools and jobs, projects, addresses, requests and mishaps. `NoBlindReboot` needs that a unit is started once for each
job (`StartedOnce`), that the unit at work has the lock and the job of the state file (`Applying`), and
that a job whose unit was killed stays in progress, and so refuses another, until
an administrator has looked (`Interrupted`). `SetupDidWhatItSays` is about what is shown, the file or memory, so
what is inductive is about both (`Remembered`, `InFile`), how far each thread is (`Behind`), and that a setup
which is not marked goes on alone (`OneUnmarked`), so that nobody changes the libraries after it has compared
them (`Fitting`).
`RunningIsAlive` needs that the worker is free exactly when its job is over (`OneJobOfCodex`), that a process is
followed at one step of the job only (`Followed`), and that a job which gives the worker back has said how it ended
(`Said`). `GuideTellsTheTruth` is about the record in memory, but a restart reads the file: both must be `Truthful`, which
they are because a setup begins by saving that nothing is active (`Underway`) and none begins
beside another (`Locked`). From these: `RebootsOnce`, `SaidAndDone`, `NothingSaidToRunIsDead`, `GuideIsRight`,
and the types of the four.

`HubParts_proofs`, for any number of requests, failures and bounds: `RestartsShowTheSame` (while
refreshes do not cross, at most one has stored and not saved, `OneSaves`), `PackagesStayInstalled` (a
directory that is wanted is whole unless a request is between its renames or a failure came),
`OneSecret` (only the request that made the file writes it, and if it fails nobody does), `ResetsEndCodes` (the codes
mailed until a reset ended stay used, `CodesEnded`), and `RulesAreKept` (whoever is in a route has the
lock, and what it read is what the tunnel has unless it was changed elsewhere, `RouteLocked`).

Every safety property the runs check is a theorem. Only model-checked is what needs fairness
(`ReservationsEnd`, `OpLockEnds`, `BatchEnds`, `MigrationEnds`, `JobsAreReported`,
`QueuedIsDelivered`): the prover knows neither fairness nor ENABLED. That
the four findings are violations is TLC's as well: a counterexample is
an instance. What each needs to happen is proved: `UpdatesWait` for `migration`, `InterruptedBlocks`
for `torn`, `StartsKeptApart` for `ongoing`, `LatestWithoutMishap` for `retried`.

## 6. Notes on the abstraction

* A page view may adopt while everything else happens; `MigrationIsAlone` is
  checked without adoption and update-all, which the code does not keep out
  (update-all is the `migration` finding; an adoption writes only a row, but may say
  "installed" of an app that is being installed).
* After a restart, a write that fails is allowed to fail at any later point too;
  the code would only meet it while the disk is full.
* A Docker CLI that is killed by its timeout takes its effect, or none, at once;
  the daemon may really go on after that.
* Not in `StorageMigration`: FjordSeed's own qBittorrent container
  (`app_storage.py:63-75`, stopped with the app), two apps whose paths
  contain each other (`:188-201`, refused when known), the test of other containers'
  mounts (`:351-361`), the volume dialog.
* `CopiesNeedMishaps` is what remains of "retries and multiple workers cannot
  enqueue copies" (`notification_events.py:235`): the files are written before the
  transaction commits, so a failure between them lets the bot deliver and
  remove a file that the app's retry then writes again. One mishap, one copy.
* `QueuedIsDelivered` allows for `HeldBack`: the bot takes the first thirty
  names, and as many files of users who have no chat
  keep all later ones waiting for as long as they stay. Without that
  disjunct the property fails in the same instance.
* Left out of `UpdateRun`: FjordMail's preparation (a script of its own), the hub's own
  update without the sidecar (`update_manager.py:638-668`), the edits of `.env` (`AppKeys` has them), a merge that git
  leaves half done, and the cached status. A failed launch of an installation whose failure
  cannot be recorded either (`installer.py:173`) keeps its reservation until the next
  restart; `AppOperations` has it (`InstallLaunchUnwritten`), and
  `ReservationMatchesHolder` is stated while writes succeed.
* `BotRestarts` puts the bot's one loop back to sleep. In the code `asyncio.gather` (`matrix_bot.py:589`) does
  not cancel `poll_outbox` when the sync raises, and a send of that loop may open the closed client again, so
  that two loops poll the same files until the process ends. Each such loop costs one of the failures that
  `CopiesNeedMishaps` counts, but two loops may then send one file each time they meet: the model does not have it.
* The exceptions that the properties name are histories: each is set in the step in which the code lets the
  thing happen, each was found as a counterexample to the property without it, and a mutant breaks the property
  with it. They are: a start's `overlap` with a job it did not see, an edit of `.env` that was `overlooked`, a service
  that is `owed`, a renaming that was `botched` or `blind`, what is `overtaken`, an administrator lost to a
  request that was `crossed`, a key that is `lost`, a GPU chain that is `silenced` and `doubts` about what is shown, a worker
  `stranded` and a chat `stale`, a secret that is `spoilt`, a record `crossed` by a choice and an address `kept`, a cache that
  was `passed`, a package that is away between two renames, a rule that is `foreign`.
* A request that must be refused for its form, its rights or its rate changes nothing and is not
  in these modules; a request that is refused for what it finds is.

## 7. Not modelled, and the plan

Not modelled, and why:

* **Bot confirmations and queries.** A confirmation is read, used up and acted on under one file lock,
  so nothing interleaves with it; the batch it starts is `BatchBegin` of `AppOperations`.
* **Matrix hub.** A chain of Docker commands behind one lock and a phase, of the kind that
  `CodeInstall` and `MediaGateway` have; its outbox is in `BotOutbox`.
* **Login throttle, access tokens of apps, onboarding** of `auth.py`: counters and rows that one
  statement reads and writes.
* **Resource monitor and seed status.** Arithmetic over what the host and Docker answer, with caches that one
  thread writes.
* **Compose settings and validation, request security.** Functions without state.
* **Storage browser, Proxmox volumes, media library's folders.** Commands and listings for an administrator.
* **User interface, host scripts and build.** They ask the routes that are modelled, or run once outside the system.

What is left to do, in this order:

1. `UpdateRun` with FjordMail's preparation and the hub's own update without the sidecar, and shown to implement
   the update steps of `AppOperations`.
2. An abstract at-least-once channel that `BotOutbox` implements, and the bot's status alerts.
3. `SidecarUpdater` with a migration: the hub's update asks for migrations once,
   when it is started (`app.py:2372`), and recreates the hub minutes later.
4. `Accounts` with `PasswordReset` in place of its `ResetChecks`, and `Membership` with several apps.
5. Liveness of the worker, the guide and the installers under fair threads.
