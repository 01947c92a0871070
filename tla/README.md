# Verification of mandrake

Models of the daemon `mandraked` in TLA+, checked by TLC on small instances, and proofs checked by
TLAPS. Paths are relative to the repository; `d/` stands for `crates/mandraked/src/`.

Contents: 1 the system, 2 what all models share, 3 the modules, 4 the runs, 5 the proofs,
6 where code and documents disagree, 7 what is not modelled, 8 the plan.

## 1. The system

Mandrake manages one illumos host. `mandraked` serves a REST API and a web console over TLS (and a
root socket), keeps its own state in one SQLite file, and changes the host by running commands
(`zfs`, `dladm`, `zoneadm`, `pkg`, ...) through driver crates. `mandrakectl` and the console are
clients.

| component | state | operations | what is hard | what makes it correct |
|---|---|---|---|---|
| jobs (`d/jobs.rs`, recovery in `d/serve.rs`) | table `jobs`, one tokio task per job | start, progress, outcome, recover at start | every report is three database calls whose errors are ignored; the task is spawned after the INSERT; death at any point | an outcome is final; row and log never contradict each other; every job settles |
| event bus and log (`d/events.rs`, `d/routes/events.rs`, `console/src/api/events.ts`) | table `events`, a broadcast channel of 1024, one socket and cursor per client | publish (insert, then send), subscribe, replay, live loop, reconnect | two-step publishing by concurrent publishers, lag, replay LIMIT, reconnects, restarts, power loss | order; no gap without a named cause; delivery |
| read cache (`d/cache.rs`) | one value and its time | get or fill, clear | the fill runs unlocked; clears race it; handlers die before they clear | bounded staleness; stale after a write only by the known race |
| accounts (`d/routes/{users,auth,tokens}.rs`, `d/auth/{session,extract}.rs`) | tables `users`, `sessions`, `tokens` | log in and out, create, update, delete, set password, create and revoke token | check and write are different database calls; requests overlap; handlers are dropped | no credential without a user; password changes end sessions; an enabled admin remains |
| login guard (`d/auth/ratelimit.rs`, `d/routes/auth.rs`) | a map in memory; three columns of `users` | login attempts | two windows, a sweep, a restart that forgets one of the two | guesses are bounded; locks end |
| image sources (`d/images.rs`, `d/routes/images.rs`, `mandrake-images/src/index.rs`) | `image_sources`, `image_catalogue` | create, patch, delete, refresh, look up for an import | refresh and import act on a row read before several awaits | verified means checked, and with the right key |
| images (`d/images.rs`, `d/routes/images.rs`, `mandrake-images/src/{import,store}.rs`) | table `images`, staging files, datasets and ISO files | import (handler, job, relay task), delete, recover | row, file and dataset change in different steps of three tasks | failures leave nothing; ready means stored; imports settle |
| audit (`d/audit.rs`) | table `audit_log`, and an event | record after the change | it is a step of its own | the record's event is one of the publishers of the event log |
| idempotency keys (`d/idempotency.rs`, the sweep of `d/auth/session.rs`) | table `idempotency` | look up, run, store; an hourly sweep | look-up and store surround the whole handler; the sweep forgets what is 24 hours old | a key runs its request once in 24 hours |
| updates, boot environments (`d/updates.rs`, `d/pkg.rs`) | one row, two kinds of jobs | check, apply, schedule, activate | check-then-act; whole-row load and save | never two `pkg` jobs at once |
| zones and bhyve VMs (`d/zones.rs`, `d/vms.rs`, `d/routes/{zones,vms}.rs`) | zonecfg, state files, datasets, jobs | create, install, boot, halt, update, delete | jobs of one zone interleave; waiting loops; half-made zones; jobs act on names | installed means data of its own; data goes only by purge; waits end |
| consoles (`d/zone_console.rs`, `d/vnc.rs`) | a set of attached zones | claim, upgrade, release | claim before an upgrade that may fail | one client per console; claims are released |
| networking (`d/routes/network.rs`) | dladm and ipadm state, a cache | link, address and route changes | guarding the path the client came in on | the management path is not cut unasked |
| storage (`d/routes/storage.rs`) | pools, datasets, snapshots, caches | listing, create, destroy, rollback | commands that overlap | what is listed exists |
| first boot (`d/firstboot.rs`) | a file of answers | apply once | death between its steps | the first admin is made once and the file goes |
| database (`d/db.rs`) | one connection behind a mutex | `call` | `spawn_blocking` outlives its caller | one call at a time |
| daemon (`d/{serve,app,config,tls,socket,main,host}.rs`) | configuration | start, stop | order of recovery and listening; the request timeout | recovery precedes requests |
| drivers (`mandrake-{zfs,net,zones,smf,bhyve,images,core}`) | none | build commands, parse output | none that is concurrent | parsing |
| `mandrakectl`, console, build and packaging | none of the daemon's | requests, pages, scripts | | |

How they meet: handlers call the database and drivers, and start jobs. Jobs and `record()` publish
to the event log. Imports, zone and update operations are jobs. Every handler that changes what a
driver lists clears a read cache. Imports take their entry from the catalogue of a source. Sockets
subscribe to the bus. A start recovers jobs and images before it listens.

## 2. What all models share

* **Step.** `Db::call` (`d/db.rs:94-107`) runs a closure on the blocking pool under the mutex of the
  one connection: a database call is one step, and whatever a handler has read in an earlier call
  may be stale. It is not a transaction: SQLite commits statement by statement. `Accounts` has the
  deaths between two statements of one call; the calls of the other modules write once.
* **Commands.** A command of the host is one step, with the clearing of the caches after it, unless
  the request is dropped while the command runs: in between a reader sees the old cache or the new
  one, as it would before or after. That a fill may cross the clear is in `TtlCache` alone; the other
  modules store what they list in one step.
* **Requests** of `Storage`, `Network`, `Vms` and `Daemon` are numbered, asked in order, and do one of
  the operations `Asks[r]` names. `Alone` are asked when nobody else is in a handler: they come late,
  with what a client has seen before. `overlapped` records that two were in their handlers at once.
* **Dropped handlers.** A timeout layer of 30 s (`d/app.rs:272`) drops a handler's future at an
  await. A database call already handed to the blocking pool still commits, a command already
  started still runs, and a spawned task goes on. `DropHandler` or `Cut` is this, between any two
  calls.
* **Death.** `Crash` takes handlers, tasks and memory away, and leaves the database (and staging
  files and datasets). `Restart` runs the recovery, then requests may come. Where a death changes
  nothing that later steps read but handlers (ImageSources, Storage, Network, Vms), dropping them is
  the same.
* **Data** is abstracted to what properties tell apart: ids, hashes and keys are model values, a
  password is its version, a list is its version, what is on a disk is the number of the last write.
* **History.** Some variables only record what has happened (`struck`, `overlapped`, `raced`,
  `stuck`, `cut`, `late`, `torn`, `uncleaned`, `excused`). Guards never read them. Properties use them to name
  the one circumstance in which the code does not keep its promise, so that the promise can be
  stated for all others. Bounds count deaths, drops and mishaps; each is a named constant.

## 3. The modules

| module | models | composed with |
|---|---|---|
| `JobLifecycle` | what clients are promised of a job | abstract specification of `Jobs` |
| `Jobs` | `d/jobs.rs`, `recover` in `d/serve.rs` | instantiates `JobLifecycle` under a refinement mapping |
| `Jobs_proofs` | | extends `Jobs` and `Zones` |
| `EventStream` | `d/events.rs`, `d/routes/events.rs`, `console/src/api/events.ts` | |
| `TtlCache` | `d/cache.rs` and its callers | |
| `EventStream_proofs` | | extends `EventStream` and `TtlCache` |
| `Accounts` | `d/routes/{users,auth,tokens}.rs`, `d/auth/*.rs` | |
| `LoginGuard` | `d/auth/ratelimit.rs`, the login path of `d/routes/auth.rs` | |
| `Accounts_proofs` | | extends `Accounts` and `LoginGuard` |
| `ImageSources` | sources and catalogue of `d/images.rs`, `d/routes/images.rs` | |
| `ImageStore` | landing: `mandrake-images/src/{import,store}.rs`, pipelines of `mandrake-core/src/shell.rs` | extended by `Images` |
| `Images` | imports and deletes of `d/images.rs`, `d/routes/images.rs` | |
| `Images_proofs` | | extends `Images` and `ImageSources` |
| `ZfsHost` | the commands of ZFS, after `mandrake-zfs/src/fake.rs` | extended by `Storage` |
| `PoolStatus` | a pool's layout from request to `zpool create` and back from `zpool status`: `mandrake-zfs/src/{cli,parse}.rs` | extended by `Storage` |
| `Storage` | `d/routes/storage.rs`, `d/metadata.rs` | |
| `Storage_proofs` | | extends `Storage` |
| `NetHost` | the commands of dladm, ipadm and route, after `mandrake-net/src/fake.rs`, and the joining of their tables, `mandrake-net/src/parse.rs` | extended by `Network` |
| `Network` | `d/routes/network.rs`, `d/metadata.rs` | |
| `Network_proofs` | | extends `Network` |
| `Zones` | `d/zones.rs`, create, lifecycle and delete of `d/routes/{zones,vms}.rs` and `d/vms.rs`, `mandrake-zones/src/fake.rs` | |
| `ZoneConfig` | zonecfg, written and read back: `mandrake-zones/src/{parse,cli}.rs` | extended by `VmConfig` |
| `VmConfig` | a VM as a zone's configuration: `mandrake-bhyve/src/render.rs` | extended by `Vms` |
| `Vms` | PATCH, disks, ISO images and snapshots of `d/routes/vms.rs`, `d/vms.rs`, PATCH of `d/routes/zones.rs` | |
| `Vms_proofs` | | extends `Vms` |
| `UpdatePlan` | what `pkg update -nv` prints, read by `d/pkg.rs` | extended by `Daemon` |
| `Daemon` | start (`d/{serve,db,firstboot,tls}.rs`), updates and boot environments, consoles, idempotency keys | |
| `Daemon_proofs` | | extends `Daemon` |
| `MC*` | constants and symmetry for TLC | |

Where one module of proofs extends two components, the definitions of the smaller one carry its name
(`CacheSpec` of `TtlCache`, `GuardSpec` of `LoginGuard`, `SourceSpec` of `ImageSources`, `ZoneSpec` of
`Zones`); the two share no state.

Pure algorithms are operators of `ImageStore`, `PoolStatus`, `NetHost`, `ZoneConfig`, `VmConfig` and
`UpdatePlan`: each writes something in one form and reads it back in another, and the state machine
above it puts it to use, so that its inputs are those that requests bring about.

**Jobs.** `row` is the job's row, `log` its rows in `events`, `pc` the point its handler or task has
reached. `Submit` is the INSERT of `start_job`, `Spawn` the spawn after it. A report is `Update`
(`set_state` or `progress`), then `Find` and `Insert` (`publish`). `ReportProgress`, `EndWork` and
`PanicWork` are the work's side; `EndWork` covers `progress(1.0)` before `succeeded`. Each of the
three calls may fail (`dberror`), which the code ignores. `Restart` runs `recover`, whose failure is
only logged. `JobLifecycle` has a phase and what has been told for each job: phases advance once,
what is told is the phase, and a restart fails whatever is active.

**EventStream.** An event is its number. `Insert` numbers it, `Send` puts it in the subscriber's
queue, and `pending` lies between. `Subscribe`, `Replay`, `SendReplayed`, `Receive` are the
handler and the two loops of the socket. `frames` is what the client has received over all its
connections and determines its cursor. One subscriber is enough: others share nothing with it.

**TtlCache.** The list is a version, raised by writers and by hand. `Miss`, `List`, `Store` are the
fill: no value, the command looks, the value is stored with the time of storing. `Write`, `Clear`
are a writer's command and its clear, `Abandon` the handler that never clears. The writer stands for
every handler of that shape; the map points at two of them, of `d/routes/network.rs`.

**Accounts.** A handler remembers what earlier calls told it in `req[r]`. `Begin` authenticates and
authorises, `Find` reads the target, `Commit` is the one call that writes, `RecordAudit` the audit
row. `guarded` is `loses_admin` of an update or `was_admin` of a delete, decided in `Find`, used in
`Commit`. `Login` is a single step, because its last call reads the user again and writes the
session together; `EndSession` stands for log out and expiry. `Die` ends all handlers, after the first
statement of a call (`FirstStatement`) if it strikes there: a user disabled or given a password whose
sessions are still there is in `torn`, until a later call ends them.

**LoginGuard.** Windows are ages that stop counting where they no longer matter. `Judge` is the
limiter's check, with the sweep; `TryLocked`, `Fail`, `Succeed` are the rest of a login. `failures`
and `passed` count on their own, from the outside, and the properties compare.

**ImageSources.** `handler[h]` keeps what a refresh has read (key, issue, signature) until `Store`
writes it. `Publish` is the publisher, who may replace index and signature between the two fetches.
`BeginImport` and `ResolveEntry` are the two calls of `resolve_import`.

**Images.** `Check`, `InsertRow`, `StartImport` are the handler. `Prepare` to `Discard` are the task;
`Relay` is the task that writes what the import has told it, and the import waits for it before its
last write. `FindForDelete`, `Remove`, `Unlist` are the delete. `stored[i]` is what is in the pool
under the image's name; each step of landing is a command or a pipeline of two (`ImageStore`), of
which either may fail, and the clean-up may fail too (`uncleaned`).

**Storage.** `tree` maps paths to objects, each with the id stored with it; `known` is what clients
have been told. A handler lists (`Read`), gives ids to what has none (`Name`, one object at a time),
looks for what is below if it must (`Children`), runs its command, and then sees to the metadata and
answers (`Mark`, `Note`). `Poll` is the job of a scrub. `ScanEnds` is the pool, `Expire` the cache.

**Network.** Objects have no id but one derived from the name. `FindLink`, `FindAddress`, `FindRoute`
and `Check` each take a listing of their own; `Check` computes what carries the management address
(`ProtectedLinks`, `ProtectedAddresses`). `Plumb` is the first command of an address's creation.
`Note` is the metadata, and for a removal comes after the object has gone. `Assembled(Sources(..))` is
the listing of links as joined from dladm's tables, `MarkedPersistent` that of routes.

**Zones.** Requests and jobs of zones and VMs, which share the names of illumos zones. Jobs act on a
name, never on an id, so one name is enough: `zone` is what illumos has under it, `data[f]` whose
dataset is at `<pool>/zones/<name>` or `<pool>/vms/<name>`, and `cache` the listing the handlers
decide from. `job[j].step` is the command a job gives next, or the state it waits for; `Needs` is
what the command asks of the zone, after the repository's fakes of illumos, and `OnFailure` where a
job goes when it is refused or fails. `FakeZones` shuts down at once; the model lets the guest take
its time (`Settle`), which is what `wait_for` is for. The id of a zone is the request that made it.

**Vms.** `config` is the zone's configuration, `members` the zvols with what was last written to them
and their snapshots. `FindVm` takes the configuration from the cached listing; `UpdateVm`, `AddDisk`,
`RemoveDisk`, `AttachCdrom`, `DetachCdrom` change it in the handler's memory; `RunZonecfg` is the
driver's second command, with the update rendered from what its first one read. `RollbackSnapshot` is
one member's rollback. `StartVm`, `StopVm`, `GuestHalts`, `GuestWrites` are what goes on meanwhile.
`meant` is what the API showed the client at the index it gives. Initial configurations are those
`create` makes, and some with what an operator may have added.

**Daemon.** `up` is how far the start is: `Migrate`, `Recover`, `FirstBoot`, `LoadOrGenerate` and
`WritePair` take it to serving. `LookForJobs`, `StartJob`, `NoteJob` are the three calls of a check,
an apply or a reboot; `CheckPlans`, `CheckSaves`, `ApplyUpdates`, `ApplySaves` their jobs. `Lookup` and
`Store` surround a request with a key, `Sweep` forgets the responses that are `Kept` ticks old, and `Tick`
is the clock; the age of a response and the time since something was done under its key (`ran`) are
counted up to `Kept`, since nothing tells later times apart. `Attach`, `Detach` are a console's claim and release. They are
one module because deaths, reboots and the start bind them: keys and the update row outlive the
daemon, claims and tasks do not, and an apply decides what the host boots next.

## 4. The runs

No run finds an error. Deadlock is checked where the system never stops (TtlCache, LoginGuard);
elsewhere nobody is bound to ask for anything.

| run | bounds | distinct states |
|---|---|---|
| `Jobs_all` | 2 jobs, 1 progress report each, 1 death, 2 mishaps of 3 kinds | 0.34 M |
| `EventStream_all` | 2 publishers at once, bus of 2, replay of 2, 4 events, 1 drop, 1 death, 1 mishap of 4 kinds | 0.19 M |
| `TtlCache_all` | 2 readers, 2 writers, time to live 2, fill 1, 2 changes | 0.08 M |
| `Accounts_all` | 2 users, 2 sessions, 1 token, 2 handlers, 3 requests, 1 password change, 1 drop or death | 1.9 M |
| `LoginGuard_all` | 2 sources, lock after 3, 4 ticks, 2 attempts in 2 ticks, sweep above 1, 1 restart | 0.04 M |
| `ImageSources_all` | 2 handlers, 2 keys, 2 issues, 4 requests | 0.06 M |
| `Images_all` | 2 images of one payload, 4 types, 1 death, drop or failing call | 0.55 M |
| `Storage_all` | 3 requests (2 may meet), 3 places, 2 snapshot names, 2 pools, 2 layouts, 1 drop | 0.11 M |
| `Network_all` | 3 requests (2 may meet), 5 links found, 1 new name, 2 addresses, 1 drop | 1.5 M |
| `Zones_all` | 3 requests to one name, 1 failed command or death | 0.34 M |
| `Vms_all` | 3 requests (2 may meet), 2 or 3 disks, 1 image, 1 snapshot name, 1 write, 1 drop | 0.17 M |
| `Daemon_all` | 4 requests (2 may meet; 3 may have the key), 3 images to install, responses kept 1 tick, 1 fault | 1.2 M |

**Jobs_all.** `FinalOutcome`: no late progress, second outcome or recovery rewrites a finished row,
whatever fails. `OutcomesAreTold`: the log tells the start first and the outcome last, and while no
database call has failed, it tells what the row has, and no job of an earlier daemon is shown as
active. `ImplementsLifecycle`: the refinement. `EveryJobSettles`, under fairness. Jobs share nothing
but the daemon and its recovery, so two show what one job's steps can do to another; two mishaps let
a failed UPDATE meet a failed recovery.

**EventStream_all.** `StreamIsSound`: the client sees events in order, always, and misses none unless a
mishap or a strain has struck: publishers that overlap, a queue that overflows, a replay cut by its
LIMIT. `EveryEventArrives` likewise, under fairness. Queue and replay of two with four events make
overflow, cut and the combination with a reconnect happen; the real 1024 and 1000 differ in length
only.

**TtlCache_all.** `StalenessIsBounded`: an answer is less than the time to live plus one list command
old, even if nobody clears, and something older than a cleared write is served only if its fetch was
running at the clear. `EventuallyCurrent`. Two readers let one fill overwrite another.

**Accounts_all.** `CredentialsHaveOwners`, `OldPasswordEndsSessions` hold for all interleavings but a
death between the statements of one call. `LastAdminIsKept`: there is an enabled admin, and only the
last one is refused as such, while requests that change something do not overlap, with handlers
dropped between their calls. Three requests are what the stale check needs (a read, a promotion in
between, a demotion) and the run allows them in every order.

**LoginGuard_all.** `GuessingIsBounded`: without the right password at most `2 * LockAfter - 2` wrong
ones in one lock time, since a window begins at its first failure; and the sweep never resets a
source that still counts. `LockEnds`, under fairness of time alone. Three before the lock make a
window's first, middle and last failure differ.

**ImageSources_all.** `VerdictIsSound`: what is verified was checked, for all interleavings, and with
the key shown while requests do not overlap; `UnverifiedIsRefused` under the same condition.

**Images_all.** `ImagesAreWhole`: a failed import leaves nothing in staging or pool, unless the clean-up
itself failed; no payload is imported twice unless two handlers were between look and INSERT at once;
a ready image has all of its payload, unless a delete was cut short. `ReadyStays` always.
`EveryImportSettles` unless a handler was dropped between INSERT and job. The types are one of each
kind, and raw images that fit their zvol and, being compressed, do not.

**Storage_all.** `Identity`: no two objects ever share an id, and an id a client was told lasts, unless
requests met or one was dropped. `VanishesByAsking`: what goes was named, or is part of what was
named and was to go with it, by a client's request, protected objects never; but for a root dataset
without a pool (section 6). `MetadataStays`, always.
`EveryScrubJobEnds`. `PoolIsReadBack`: the devices shown are those asked for, each in its place,
while one is replaced too. One request that lists while another destroys and a third that comes with
an old id is what each known failure needs.

**Network_all.** `HostIsSound`: links are over links that can carry them, a port is in one aggregation,
addresses are on interfaces. `ManagementStays`: addresses go by request, and none that carries the
session, unless requests overlap or two are dropped in their commands (section 6).
`MetadataIsOfThis`: none is inherited or lost by name. `ListingsAreTrue`. The host has the
management address on a VLAN over an aggregation, and another aggregation with an address of its own,
so that protection has to go down two links and everything else may be touched.

**Zones_all.** `DataIsOwned`: what is installed has data of its own. `ZoneDataStays`: a zone's
data goes with a purge or when the create that made it fails. `PurgedIsGone`: a purge leaves nothing
even if it overtakes the create of the zone it deletes. `EveryJobEnds`, under fairness of jobs, however
start, stop, reset and delete of one zone get in each other's way. The first three say nothing from
the moment a zone is made while jobs for an earlier one of its name still run (`overlapped`): an old
job then works on the new zone. Three requests are what keeping data takes (create, delete without
purge, create again), and what a third job needs to come between two.

**Vms_all.** `DisksExist`: a VM keeps one boot disk, its devices are its disks, and every disk is a
zvol. `OnlyWhatIsAsked`: a request changes what it was asked to, on the disk that was shown to its
client, disks only grow, and what mandraked does not manage stays, the last even when requests meet.
`RollbackIsWhole`: after a rollback every disk holds what it held when one request took the snapshot,
and the VM is not running. VMs with the boot disk first and last, and a disk removed from the
middle, make index and position differ.

**Daemon_all.** `OneUpdateAtATime` and `PlanCanBeApplied` while requests do not meet and nothing fails;
that a plan names the packages that differ, always. `ConsoleIsExclusive`: one
client at most, always, and the claim is released, unless an upgrade failed. `FirstBootOnce`: the file
makes a user only where there is none, the daemon serves with a whole schema and a matching
certificate, and a start that nothing disturbs uses up the file and comes to serve. Four requests let
two checks precede an apply and a reboot. The fault is a death, a drop or a failing step, anywhere.

`OnceByKey` is said of every step that does an operation under a key: nothing was done under it in the 24
hours before. The sweep may come at any tick, or not at all: a response it has left standing for longer
still answers, and one it has taken is 24 hours old, so whoever finds none finds that nothing was done
since. The promise is about each key by itself, whatever requests with other keys or none meet or
fail. A key is excused (`excused`) when two requests with it are in their handlers at once, or one is
dropped, fails or dies between its work and the storing of its answer. The excuse ends: from the next
response stored while no other request holds the key, the promise holds again. Two requests that may
meet excuse a key and the last of them stores its response alone; the fourth repeats it, before and
after its time. One tick tells what is 24 hours old from what is not; `KeysRunOnce` is for any number.

**Fairness** is weak fairness of single steps and is assumed of: handlers that were not dropped and
spawned tasks (the runtime polls them), commands, downloads, scans and work (they end, well or not),
a reconnecting console (it retries on a timer for ever), time, and the start of a daemon (its
service manager). Never of requests, deaths, mishaps, drops, writers, or progress reports.

Every property of a passing run is also run against a mutant of the module, defined next to what it
replaces ("Mutant of ..."): a bug somebody could have written, which that property must find.

## 5. The proofs

Eight modules of proofs; each theorem holds for every value of the constants that the named
assumption of its module allows.

`Jobs_proofs`, for any set of jobs and any bounds, from `JobsAssumption` alone (the bounds are
naturals, `Full` positive, `Mishaps` of the three kinds), and for the zones of one name, any number of
requests and faults, from `ZonesAssumption` (both bounds are naturals):

| theorem | states |
|---|---|
| `TypeCorrect` | `Spec => []TypeOK` |
| `OutcomeIsFinal` | `Spec => FinalOutcome`, whatever fails |
| `LogIsOrdered` | `Spec => []LogInOrder`, whatever fails |
| `AnnouncementsAreTrue`, `ReturnedIsTold`, `NothingLeftOver` | the other three parts of `OutcomesAreTold` |
| `TellsOutcomes` | `Spec => []OutcomesAreTold` |
| `Implements` | `Spec => ImplementsLifecycle` |
| `ZonesTyped` | `ZoneSpec => []ZoneTypeOK` |
| `InstalledIsBacked` | `ZoneSpec => []InstalledHasData`, the part of `DataIsOwned` that is not type |
| `DataHasOwners` | `ZoneSpec => []DataIsOwned` |
| `KeptDataOfZones` | `ZoneSpec => ZoneDataStays` |
| `PurgedStaysGone` | `ZoneSpec => []PurgedIsGone` |

Those of jobs speak of rows and logs. What keeps a task from rewriting a finished row is where the
task is, so none of them is inductive. `PlaceInv` says it: a row with an outcome belongs to a task
that only has its last event to publish, or to no task, so that no UPDATE of that job is left; and a
dead daemon has no task. `FinalOutcome` follows for every step. `OrderInv` says of the log what a task
can still add to it: nothing before it has told of the start, no outcome before its last report, and
nothing after it has returned. `CourseInv` adds, while no call has failed, which row goes with which
place: `queued` before the first UPDATE, `running` until the last, then the outcome, and only a task
that has returned has an outcome in the log. From a failed call on, `CourseInv` claims nothing but
`PlaceInv`, as the properties do. `Implements` maps rows to phases, the last entry of the log to what
was told, and a failed call to `broken`, after which the abstract specification leaves rows and log
only what `PlaceInv` still guarantees; each action is a step of `JobLifecycle` or a stutter.

None of those of zones is inductive: whether an install finds its own data depends on what other jobs did to
the name in between. `Alone` says which job may be where. While no zone was made among jobs for an
earlier one, at most one job is making a zone; the zone that is there, if any, is that job's and not
yet usable; a purge comes after its zone has gone; and a zone's create that is to remove a dataset
finds its own or none. Most steps are `Calm`: they touch no data and move jobs only to steps of
which `Alone` says nothing, and one lemma serves them all. The others, `Configure`, `MakeData`, `Install`,
`Undo`, `Purge` and a failure that leads to `Undo`, have a lemma each. Once a zone has been made among
jobs of an earlier one, the invariant claims only the types, and so do the properties.

That a purge lasts is about a create that is still running when the purge is over (`PurgeInvariant`).
`Known`: a zone that is there, listed or to be deleted has been made, and data is where its own create
has put it, so that no create which has still to begin can bring a purged zone back. `Gone`: a purged
zone is not there, and if its data is, its create has yet to find out, or to undo it, or could not
undo it, or died.

`Accounts_proofs`, for any users, sessions, tokens, handlers and bounds, from `AccountsAssumption` (the
sorts of ids are apart, patches are patches, users are finitely many, bounds are naturals), and for
the login guard of any sources, limits, windows and number of restarts, from `LoginGuardAssumption`
(the lock takes at least two failures, windows and limits are positive):

| theorem | states |
|---|---|
| `TypeCorrect` | `Spec => []TypeOK` |
| `CredentialsOwned` | `Spec => []CredentialsHaveOwners` |
| `PasswordsEnd` | `Spec => []OldPasswordEndsSessions` |
| `LastAdminStays` | `Spec => LastAdminIsKept` |
| `GuardTypeCorrect` | `GuardSpec => []GuardTypeOK` |
| `FewGuesses` | `GuardSpec => []GuessesBounded` |
| `FewAttempts` | `GuardSpec => []RateHolds` |
| `GuessingBounded` | `GuardSpec => []GuessingIsBounded`, the three together |

A password change spares the session it came with, and a handler takes that session from what it knew
when it began. Why is that session not one of a user who has been disabled meanwhile, or given
another password by somebody else? `Handled` says it: as long as it has not ended, the session a
handler came with is its caller's, and the caller is not disabled. It holds because whatever disables a
user ends all the sessions of that user in the same call, and because a death, which may come between
the two, ends every handler. `Owned` says what a session and the row of its user agree on, unless the
user is `torn`. The two are inductive together (`OwnersInv`). Steps are of three kinds: those that only
end credentials (`Quiet`), those that change one user (`Changed`), and the two that make a session or a
handler; one lemma for each, and each action is shown to be of its kind.

The last admin is counted: the code asks whether the enabled admins are more than one (`LastOrNot` is
the one lemma about cardinality, and why users must be finite). `AdminInv`: until two handlers meet
there is one at most (`Solo`), and what it has read of the user it will write is still so
(`Informed`), so that whether it asked for a guard is what it should have asked.

`WindowInv` places the failures of the row's window in the history: they are its last `failed` entries,
the first of them as old as `first`, and at most `LockAfter - 2` of the window before are still there;
a lock ends no earlier than the failure that locked expires, so none is added meanwhile. `RateInv`
says of every source that those of the limiter's entries that count are the last of what has passed,
and that before them come at most `RateMax` for every earlier restart (`Tells`). Sweeping, popping and
time take only entries that no longer count, so it survives them; a restart takes all, and
accounts for them by the next `RateMax`. The sequences are aged and popped in order of age
(`Sorted`); that there is a place to stop popping follows from the least number with a property.

`EventStream_proofs`, for any capacity, limit, number of publishers and mishaps, from
`EventStreamAssumption`, and for the cache of any readers, writers and times, from `TtlCacheAssumption`
(`Ttl` is positive, the other bounds naturals):

| theorem | states |
|---|---|
| `TypeCorrect` | `Spec => []TypeOK` |
| `FramesInOrder` | `Spec => []InOrder`, whatever happens |
| `StreamSound` | `Spec => []StreamIsSound`: nothing is lost either, unless a mishap excuses it |
| `CacheTypeCorrect` | `CacheSpec => []CacheTypeOK` |
| `AnswersAreYoung` | `CacheSpec => []BoundedStaleness` |
| `RaceOnly` | `CacheSpec => []StaleOnlyByRace` |
| `StaysCurrent` | `CacheSpec => []StalenessIsBounded`, the three together |

The order of the frames rests on `Connected`: what a connection replays comes right after its last
frame, and the live loop takes only what is newer. That nothing is lost is about the events the client
has yet to see. `Complete` says that each of them is on its way, waiting to be sent, in the queue of
the bus, or in the replay; `BusInOrder` says that they are there in their order, at most the last one
still to be sent. Both are needed: an event that comes after a newer one is skipped, and one that is
nowhere is lost. Each mishap breaks one of the two, which is why the client is promised nothing more
from there on (`Excused`), and each step of the others is shown to keep both.

Ages of the cache have a range only because the protocol bounds them, so even the types need the rest.
What a fetch has listed is no older than the fetch itself (`ReaderYoung`), so what it stores is at most
`MaxFill` older than the moment of storing (`SlotYoung`), and expires. A clear marks every fetch that is
running (`FetchRaced`), and is for a version the driver already lists (`ClearedIsMade`): what a later
fetch brings is no older than any clear before it, and an older value comes from a marked one.

`Vms_proofs`, for VMs of any layout with any disks, images, sizes and names, any requests and bounds,
from `VmsAssumption` (bounds, sizes and images are naturals, there is a size, a layout has its boot disk
among its disks):

| theorem | states |
|---|---|
| `VmTypesHold` | `VmSpec => []VmTypeOK` |
| `RolledBackWhole` | `VmSpec => RollbackIsWhole` |
| `DisksAreThere` | `VmSpec => []DisksExist`, the types among it |
| `OnlyAsked` | `VmSpec => OnlyWhatIsAsked` |

Every handler writes back the whole configuration, from a reading that may be old by then. What is
always so, whatever meets or is dropped, is in `HandledInv`: all that is cached, carried or rendered is
`Alike` what is there, that is of one brand, with one boot disk, the same one, and with the same
attributes that are not mandraked's. So an update rendered from any old reading and run over any newer
configuration leaves one that is again alike (`UpdateRuns`, `RunHandled`), and the boot disk and all
that is not mandraked's stay. A request carries, besides, a disk that is not the boot disk, so no purge
takes that (`Posed`, `Holds`).

A rollback looks at the VM once and then works through a list of members, so what it read must last.
`RollbackInv` says why it does. `SnapsApart`, whatever overlaps or is dropped: a member has no two
snapshots of one name, and those of one name were taken by one request. While requests keep apart and
none is dropped: one is under way at most (`SoloVm`); a cached listing has the configuration there is,
and shows the VM running if it runs, but between a start and the clearing after it (`ListedVm`); and a
rollback under way has a VM that is off, every part of which is still to be taken back or is back
(`RollsBack`). A guest that is off does not write, so what is back stays so. The list was
read from the same listing as the disks the property names.
What `RemoveAt` and `SubSeq` leave of a member's snapshots are lemmas of their own.

What a request does to the VM it does by a way round: the configuration is read into positions, the
list is changed, written as attributes under new names, and read back in the order of slots.
`WrittenBack` says that this way round loses nothing: of a VM found in a configuration and changed, the
update that writes it leaves a configuration in which exactly that VM is found, its devices and mounts
with it. It rests on the order of keys being one (`SlotsOrder`), on a finite set in an order being listed
in one way (`OrderLists`, `OrderIs`), and on the names of positions being in the order of positions, but
for `disk`, which is read as slot 1 and found only where somebody gave it by hand (`ListedKeys`). With
it, two more invariants follow the requests. `AgreesInv`, while no two met: devices and mounts are those of
the VM's disks and images, and an update that waits to run is of a VM read from this configuration.
`FreshInv`, while none was dropped either: what a request has found is what there is, the disk it has in
hand is the one its client was shown at the index (`Meant`), a disk to be added is made before it is
written, and a disk to be purged is no longer written. The update to be run is then the one wanted of
what there is, and `ConfigAsked`, `PurgeAsked` and `ResizeAsked` compare what the API shows before and after.
`KnownInv` is the four together.

`Storage_proofs`, for any requests, places, layouts and bounds, from `StorageAssumption` (what is asked
are operations, names are strings, and places are non-empty paths of strings which are not
snapshots: the routes refuse a dataset's name with an `@`):

| theorem | states |
|---|---|
| `Identified` | `Spec => []Identity`, the types among it |
| `RowsStay` | `Spec => MetadataStays`, whatever overlaps |
| `AskedFor` | `Spec => VanishesByAsking`, whatever overlaps |

What a handler does to the database it does long after it has looked, so the argument is about ids. A
fresh id is of the path and the request it is made for (`Of`), and no request gives one twice: `ToGive`
is what a request may still give, `Given` an id that none will. Everything the daemon or a client
remembers is given. A destroy collects the ids of what it destroys and of what is beneath (`IsDoomed`),
and by the time it removes their rows none of them is on any object (`Spares`), since nothing gives
them again; that is `MetadataStays`, and it needs no assumption about who overlaps whom.
`VanishesByAsking` follows from `Holds`, which says of each request that the path it acts on is that of
the id it was given, and may be taken. For the rest of `Identity`, while requests keep apart
and none is dropped (`CalmInv`): a cached listing is what the host has (`Fresh`), what a client was told
is of the object that is there (`Told`), and so is what the handler has in hand (`Sure`). `Moves` is the
lemma for every step that only moves a handler on; each command of ZFS has one of its own.

`Network_proofs`, for any requests, names, addresses and bounds, from `NetworkAssumption` (what is asked
are operations, `None` is no address, and no name a request gives a link is one the tables print for an
empty field: dladm and the routes refuse both):

| theorem | states |
|---|---|
| `HostSound` | `Spec => []HostIsSound`, the types among it |
| `PathStays` | `Spec => ManagementStays` |
| `MetadataFresh` | `Spec => MetadataIsOfThis` |
| `ListingsTrue` | `Spec => []ListingsAreTrue`: what the parsers read of the tables is the host |

`HostInv` is inductive by itself: that links, aggregations and addresses hold together is what dladm and
ipadm refuse, whatever the handlers have seen. The other two are about a handler that is alone
(`Solo`). `Fresh`: what is cached is what the host has, until a request is dropped in its command; and
even then an address that is both listed and there has one ip, until two requests have been. `Knows`
carries that along the handler: what it is about to delete is not on the path of its client, and
what it notes metadata of is there, or gone if it has removed it (`MetaIsOfThis`). The proof attempt
is what showed that two dropped requests defeat the protection.

`ListingsTrue` is about every host that requests can make of the first one. `ListInv`
says which these are: every link has what its kind has and lacks what it lacks, ports are physical, a
VLAN has the address of what it is over (`Described`), a destination has one route (`Routed`), and what a
request has still to create fits in (`Given`). Names are not "" or "--", or the parser takes a link for
none. The table of aggregations is read by carrying the last name seen down the rows below it, so
it is proved by induction on the aggregations printed: `AggregationsTold` puts the rows of one more
in front of what is told of the others. `LinksTold` and `RoutesTold` then join the tables, each link by its
name.

`Images_proofs`, for any images, payloads, types and mishaps, from `ImagesAssumption` (types are of the
three kinds), and for the sources of any handlers, keys and bounds, from `ImageSourcesAssumption`
(`NoKey` is not a key):

| theorem | states |
|---|---|
| `TypeCorrect` | `Spec => []TypeOK` |
| `AllAreWhole` | `Spec => []ImagesAreWhole`: row, staging and pool tell one story of every image |
| `ReadyForGood` | `Spec => ReadyStays` |
| `SourceTypeCorrect` | `SourceSpec => []SourceTypeOK` |
| `CheckedIfShown` | `SourceSpec => []VerifiedWasChecked`, whatever overlaps |
| `VerdictsAreSound` | `SourceSpec => []VerdictIsSound` |
| `RefusedIfNot` | `SourceSpec => []UnverifiedIsRefused` |

The place of an import decides what may be in row, relay (`Where`), pool (`Holds`) and staging
(`Leaves`): nothing waits for the relay before the first word and after the last, only an import that
is done has a ready row, and after each command of landing the pool holds what that command makes.
`ClaimsApart` says that, unless two imports looked at the rows before either had inserted its own, no
two images claim one payload from that look until the row has gone or failed. `OneMoves` is the lemma
for every step of one image. The proof enumerates the steps of landing (`NextOf`, `OutcomeOf`), three
sequences of at most three, and needs no induction over them.

A verdict rests on two fetches and a row, read at three times. `Remembers` says what is left of the
first when the second comes: the signer of the issue, as long as that issue is still the one
published; issue numbers only grow, so a signature fetched later belongs to it or fails. `Current` says
that what a handler read of the row is what the row has, as long as handlers do not overlap
(`OneAtATime`); `Moves` is the lemma for every step of one handler.

`Daemon_proofs`, for any requests, keys, images and faults, from `DaemonAssumption` and `AsksAssumption`
(bounds are naturals, what is asked are operations, `None` is not a key):

| theorem | states |
|---|---|
| `OneSession` | `Spec => []ConsoleIsExclusive` |
| `FirstBootMakesTheFirst` | `Spec => [][InsertAdmin => ~users]_vars`, the first part of `FirstBootOnce` |
| `ServesWhole` | `Spec => [](up = "up" => ...)`, the second part of `FirstBootOnce` |
| `KeysRunOnce` | `Spec => OnceByKey`, an action property |
| `OneUpdate` | `Spec => []OneUpdateAtATime`, the types among it |
| `PlanNames` | what is read of the dry run between any two images names the packages that differ |
| `PlansApplyWhileNamesLeft` | `Spec /\ []NamesLeft => []PlanCanBeApplied` |
| `PlansApply` | `MaxRequests < MaxTaken` gives `Spec => []PlanCanBeApplied` |

A handler only moves on by itself (`Moved`, `WorkStep`), and only while the daemon serves; so the first
administrator, inserted before that, is inserted where the look has found nobody (`StartInv`). A claim
goes with one attached request, or with none after a failed upgrade. For updates and plans the
handlers are alone (`Single`), which `Ask` keeps by recording that two have met. `KeyInv` says of each key
that is not excused: one handler at most holds it (`Solo`); what was done under it in the last 24
hours has a stored response that is no older, or a request on the way to store it (`Remembered`, `Owed`);
and a request that has looked it up and found no response may do its work, since nothing was done for
24 hours (`NotDone`). The sweep keeps this because a response is never older than what it answers, and a
tick because both grow old together. `UpdateInv`: of the
check or apply under way either the row knows or the handler that has started it and is about to
write it down, and a handler about to start one has seen that there is none. `BesInv`: one boot
environment is the next to boot and one is booted, and no command takes either away.

`PlanNames` reads the printed dry run line by line: which of its sections a line opens or leaves, and
what a line of a package gives. What a check is about to save names what differs between the image
booted and one offered since (`SavedPlans`). The boot environment that a plan names, saved or about to be, is
not there, unless a client has made it or the apply that is finishing has (`Free`). For this a handler
that has yet to act has started no job (`Later`), and a dead daemon runs none (`Quiet`). The name is one
that was free when the check looked for it; the code tries 999 (`MaxTaken`) and then returns one that is
taken. `NamesLeft` says that it has not come to that. It is a hypothesis, since clients may make boot
environments of these names for ever; `Room` counts that fewer requests than names cannot use them up.

Only model-checked:

* Liveness, which needs fairness and ENABLED, and those the prover does not handle: `EveryJobSettles`,
  `EveryEventArrives`, `EventuallyCurrent`, `LockEnds`, `EveryImportSettles`, `EveryScrubJobEnds`,
  `EveryJobEnds`, and the third part of `FirstBootOnce`.
* `PoolIsReadBack`, and what `PoolStatus` computes of any layout. The provers take recursive functions and
  choices by cardinality, which is how `UpdatePlan`, `NetHost` and `VmConfig` are proved about; `PoolStatus`
  uses operators that take an operator (`SelectSeq`, `SetToSortSeq`) and flattens sequences of sequences;
  the provers neither expand nor instantiate these, and what they give of every layout is an induction over
  data.

## 6. Where code and documents disagree

What was met while modelling. Each is in the models, as an exception that a property names or as the
action that brings it about.

Jobs, events, caches:
* "A job is a row in `jobs` plus a tokio task" (`d/jobs.rs:3`): a handler dropped between INSERT and
  spawn leaves a queued row and no task until the next restart (`d/jobs.rs:247`).
* "Subscribe before replaying so nothing published in between is lost" (`d/routes/events.rs:38`): two
  publishers may insert 1 and 2 and send 2 and 1, and the live loop skips 1. The replay's LIMIT
  (`d/routes/events.rs:80`) is not in `api/openapi.yaml:870`.
* `d/cache.rs:3-4` promises the next read after a write; a fill may race the clear (`late`).

Accounts:
* "The last enabled admin cannot be disabled" (`api/openapi.yaml:603`): the update decides from a row
  read before whether to ask (`overlapped`). `d/routes/users.rs:234` answers a user who has just gone as
  the last admin.
* The statements of a call are not in a transaction. A death after the one that disables a user, or
  changes a password, leaves sessions that work again once the user is enabled, or work on after the
  change (`torn`).
* `api/openapi.yaml:97` describes the lock without saying that its window begins at the first failure.
  An audit row may be missing (`docs/decisions/0007:63`).

Images:
* `docs/decisions/0012:40` says a source without a key "is *unverified*"; a refresh that overlaps the
  PATCH that clears the key marks it verified. `resolve_import` reads verdict and entry in two calls.
* `d/routes/images.rs:228` says "In-flight imports notice the missing row when they finish"; one that
  finishes between the delete's read and its DELETE keeps its payload. A delete cut short leaves a ready
  row without payload, an import cut short a pending row whose payload cannot be imported until a restart.
* `d/images.rs:430-431` says the next `prepare` removes a staging file; `prepare` removes none. Failures
  of the clean-up are ignored (`mandrake-images/src/import.rs:78-79`), so a failed import may leave its
  dataset (`uncleaned`), and deleting the failed image does not look for one that a death has left.
* An ISO image is renamed out of staging, which fails if the two are on different datasets; a raw
  image that is larger than its published size once expanded never fits its zvol.

Zones and VMs:
* "Disks stay unless `purge`" (`api/openapi.yaml:2519`): create a VM, delete it without purge, create one
  of that name. The job of the last fails because dataset or disk are there, and `start_create`
  (`d/vms.rs:285`) undoes any failure by destroying the dataset with all below. (`start_install` of
  zones removes the dataset only after a failed install.)
* Create and delete answer before their jobs end, and a zone made meanwhile under the same name may be
  installed, stopped or purged by a job meant for the earlier one (`overlapped` of Zones).
* The indices shown are those of a list with the boot disk first, as is `disks[0]`
  (`mandrake-core/src/vm.rs:42`). A disk is named by count, so that after one from the middle has gone
  the next addition fails with "exists".
* Updates read the configuration from a cached listing and write all of it: of two that meet one is
  lost, and of two resizes the smaller may come last (`docs/api.md:2099`). A rollback goes disk by disk.
* `update` takes every resource of a kind away and adds its own, so what it does not know of that kind
  goes (PCI slots, extra options, caps set by hand); `vnc` with a value other than on is read as off.

Storage:
* A create_dataset with parents (`-p`) whose pool is destroyed while it waits for its command makes the
  pool's root dataset again, without a pool, in the fake (`mandrake-zfs/src/fake.rs:393`), and the next
  pool of that name replaces it: nobody asked for it to go. A host would refuse. This is the
  exception of `VanishesByAsking` (`Orphan`).
* `docs/decisions/0011` speaks of an hourly sweep of metadata; `metadata::sweep` is not called.
* Two readers may each give an object an id; the one that was served may not be the one that stays, and
  a handler dropped between storing an id and clearing the cache makes the next reader give another.
* `vdev_args` (`mandrake-core/src/storage.rs:245`) writes a stripe without a word, so a stripe after a
  mirror becomes part of it. `PoolIsReadBack` is stated of layouts that can be told apart (`Separable`).

Networking:
* Deleting what carries the management address is refused, changing its MTU is not, nor is the deletion
  of the default route. When the daemon listens on all addresses and the request's Host is a name,
  nothing is known to be protected (`docs/api.md:1022`, `api/openapi.yaml:1752`).
* The protection reads the cached listing. If one request is dropped while it deletes an address, and a
  second while it creates another under the same name, both before they clear the cache, a third
  finds the old ip under that name and deletes the new address, be it the one it came on.
* An IP interface outlives its addresses, and a link with one cannot be deleted, so a link that has had
  an address cannot be deleted through the API.
* A VLAN, VNIC or address on a port of an aggregation is not refused here; dladm may refuse it.

The daemon:
* "Two identical requests racing each other both execute" (`d/idempotency.rs:5`) is the exception of
  `OnceByKey` for that key; a handler dropped, or a death, before the response is stored is another, which
  the comment does not name. A response is kept for 24 hours and until the sweep after them, up to an
  hour later (`docs/decisions/0007:58`); a repeat that comes then runs again, and the property says so. The
  hash is of the body alone: a key used again with the same body on another path gets
  the first's response. Refusals are stored and replayed too.
* A check and an apply look for each other's job before either has recorded its own. A reboot is not
  refused while an apply runs. An apply installs what is published then, not what its plan showed, and
  finds a boot environment of its name, whoever made it.
* An upgrade that fails after the claim (`d/zone_console.rs:135`) keeps the console claimed until the
  next start. A failing database at first boot leaves the file of answers. A certificate cut short by a
  death prevents every later start.
* The database is on a dataset that outlives boot environments (`docs/mandrake-spec.md:141`), so a host
  booted into an older one meets a newer schema.

## 7. What is not modelled

* Paging cursors and filters of listings, audit listings, cookies and CSRF, the form of names and
  passwords, quoting of arguments, the syntax of image indices, clones of images and images of disks.
* PATCH of a pool (it writes metadata only), the listing of devices, keys and values of metadata.
* VNC: its set of sessions is used as that of consoles is; what goes through either is not modelled.
  SMF: straight-line calls.
* A clock that is set: the sweep reckons by the host's time of day, and one set forward forgets responses
  early. Time goes on in ticks here.
* Ids given to zones and VMs first seen (of the shape of those of datasets, in Storage); several zones in
  one module, since jobs and requests of different names share nothing but the listing.
* Configuration, sockets, `mandrakectl`, the console but for its event client, build and packaging: I/O,
  user interface and scripts.
* What the host's own commands do is taken from the repository's fakes (`mandrake-*/src/fake.rs`) or, where
  there is none (zonecfg, pkg, beadm, bhyve's use of its configuration), from how the drivers use
  them; the map marks the latter external. Where fake and host differ the models follow the fake: user
  properties of ZFS are inherited on a host and not in the fake; the fake forgets no clone of a
  snapshot; a recursive destroy looks for clones of its own snapshots only. That a failing zonecfg
  command makes the whole script fail is assumed.

## 8. The plan

Done: `Jobs` first, since every long operation is one, with its abstract specification and its proofs;
`EventStream`, through which clients learn of everything; the parts whose checks and writes are in
different calls, `Accounts`, `LoginGuard`, `ImageSources`, `Images`; `TtlCache`; `Zones`; then what handlers
read from a listing and act on later, `Storage`, `Network` and `Vms`; and `Daemon`, which ties start,
updates, keys and consoles together. All of them are proved about.

Left, in this order:

1. An abstract specification of a keyed request (it runs once in 24 hours) that `Daemon`'s keys implement
   while requests with the key do not meet, and one of an object store with ids that `Storage` implements.
2. Clones of images, VNC set-up, the naming of zones first seen.
