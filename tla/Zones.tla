------------------------------- MODULE Zones --------------------------------
(***************************************************************************)
(* Zones and bhyve VMs in mandraked (crates/mandraked/src/zones.rs, vms.rs,*)
(* routes/zones.rs, routes/vms.rs): the requests that create, start, stop, *)
(* restart, reset and delete, and the jobs they start.                     *)
(*                                                                         *)
(* Zones and VMs share the names of illumos zones, and everything a job    *)
(* does it does to a name; so one name is modelled, under which zones of   *)
(* both families come and go, each with an id of its own.  The zone lives  *)
(* in illumos and its data in ZFS (mandrake-zones/src/fake.rs and          *)
(* mandrake-zfs/src/fake.rs say what their commands do); handlers decide   *)
(* from a cached listing; jobs run their commands one by one, and other    *)
(* jobs, the guest and the host run in between.                            *)
(*                                                                         *)
(* Abstracted: the data of a zone, a dataset or a dataset with disks, is   *)
(* one thing; the pool; NICs, caps and the rest of the configuration;      *)
(* metadata and events; the job's own row (Jobs); console sessions; the    *)
(* zone states ready, down and unavailable, which no command here leads to.*)
(***************************************************************************)
EXTENDS Naturals

CONSTANTS
    MaxJobs,     \* bound: requests accepted
    MaxFaults    \* bound: commands that fail though the state allows them, and
                 \* deaths of the daemon

ASSUME ZonesAssumption ==
    /\ MaxJobs \in Nat
    /\ MaxFaults \in Nat

VARIABLES
    zone,        \* the zone of the name: its state, id and family; going, when
                 \* shutting down, to where
    data,        \* data[f]: the zone whose data is at the place of family f
    cache,       \* the zone as last listed, or Unknown
    job,         \* job[j]: what j is to do, to which zone, and how far it is
    faults,      \* how many of those there have been
    overlapped   \* a zone has been made while jobs for an earlier one went on

zoneVars == <<zone, data, cache, job, faults, overlapped>>

\* The requests, in the order in which they are accepted, with their jobs.  The id
\* of a zone is the request that created it.
Requests == 1 .. MaxJobs
Nobody == 0

Families == {"zone", "vm"}
States == {"absent", "configured", "incomplete", "installed", "running", "shutting_down"}
ZoneRecords == [state : States, id : Requests \cup {Nobody}, family : Families,
                going : {"installed", "running"}]
NoZone == [state |-> "absent", id |-> Nobody, family |-> "zone", going |-> "installed"]
Unknown == [NoZone EXCEPT !.state = "unknown"]   \* nothing is cached

Ops == {"create", "start", "stop", "halt", "restart", "reset", "delete"}
Waits == {"running", "installed", "halted", "resetting"}
Underway == {"dataset", "install", "undo", "boot", "halt", "shutdown", "look", "relook",
             "uninstall", "unconfigure", "purge"} \cup Waits
\* named: the handler before zonecfg create; left: undo failed; lost: the daemon died.
Over == {"done", "failed", "left", "lost"}
Steps == {"idle", "named"} \cup Underway \cup Over

\* flag: boot after a create, purge with a delete.
JobRecords == [op : Ops, family : Families, target : Requests \cup {Nobody},
               flag : BOOLEAN, step : Steps]
NoJob == [op |-> "create", family |-> "zone", target |-> Nobody, flag |-> FALSE,
          step |-> "idle"]

ZoneTypeOK ==
    /\ zone \in ZoneRecords
    /\ zone.state = "absent" <=> zone.id = Nobody
    /\ data \in [Families -> Requests \cup {Nobody}]
    /\ cache \in ZoneRecords \cup {Unknown}
    /\ job \in [Requests -> JobRecords]
    /\ faults \in 0 .. MaxFaults
    /\ overlapped \in BOOLEAN

ZoneInit ==
    /\ zone = NoZone
    /\ data = [f \in Families |-> Nobody]
    /\ cache = Unknown
    /\ job = [j \in Requests |-> NoJob]
    /\ faults = 0 /\ overlapped = FALSE

At(j, step) == job[j].step = step
GoesTo(j, step) == job' = [job EXCEPT ![j].step = step]
Become(state) == zone' = [zone EXCEPT !.state = state, !.going = "installed"]
Counters == <<faults, overlapped>>

-----------------------------------------------------------------------------
(* Requests.  A handler reads the cached listing (cached_zones), which     *)
(* fills the cache; one that refuses does nothing else (List).             *)

Listing == IF cache = Unknown THEN zone ELSE cache

List ==
    /\ cache = Unknown
    /\ cache' = zone
    /\ UNCHANGED <<zone, data, job, Counters>>

Expire ==
    /\ cache # Unknown
    /\ cache' = Unknown
    /\ UNCHANGED <<zone, data, job, Counters>>

Accept(j, op, family, target, flag, step) ==
    /\ At(j, "idle") /\ \A k \in 1 .. j - 1 : ~At(k, "idle")
    /\ job' = [job EXCEPT ![j] = [op |-> op, family |-> family, target |-> target,
                                  flag |-> flag, step |-> step]]
    /\ cache' = Listing
    /\ UNCHANGED <<zone, data, Counters>>

\* create_zone looks for the name among zones only, create_vm among all.
Create(j, family, boot) ==
    /\ Listing.state = "absent" \/ (family = "zone" /\ Listing.family = "vm")
    /\ Accept(j, "create", family, j, boot, "named")

\* A lifecycle request, by the state its command needs as last listed.
FirstStep == [start |-> "boot", stop |-> "shutdown", halt |-> "halt",
              restart |-> "shutdown", reset |-> "halt"]

Change(j, op) ==
    /\ Listing.state = IF op = "start" THEN "installed" ELSE "running"
    /\ op = "reset" => Listing.family = "vm"
    /\ Accept(j, op, Listing.family, Listing.id, FALSE, FirstStep[op])

Delete(j, purge) ==
    /\ Listing.state # "absent"
    /\ Accept(j, "delete", Listing.family, Listing.id, purge, "look")

-----------------------------------------------------------------------------
(* Commands.                                                               *)

\* What illumos needs of the zone to obey the command of a step.
Needs(step) ==
    CASE step = "named"       -> {"absent"}
      [] step = "install"     -> {"configured", "incomplete"}
      [] step = "boot"        -> {"installed"}
      [] step = "shutdown"    -> {"running"}
      [] step = "halt"        -> {"running", "shutting_down", "installed"}
      [] step = "uninstall"   -> {"installed", "incomplete", "configured"}
      [] step = "unconfigure" -> {"configured"}
      [] OTHER                -> States

\* clone_snapshot and create_dataset fail when the place is taken.
Refused(j) ==
    \/ zone.state \notin Needs(job[j].step)
    \/ At(j, "dataset") /\ data[job[j].family] # Nobody

\* Mutant of OnFailure: a zone's create removes the dataset after any failure.
OnFailureUndoAll(j) ==
    CASE job[j].step \in {"dataset", "install"} -> "undo"
      [] At(j, "undo") -> "left"
      [] OTHER -> "failed"

\* Mutant of OnFailure: a failed install leaves the data.
OnFailureKeep(j) ==
    CASE At(j, "dataset") /\ job[j].family = "vm" -> "undo"
      [] At(j, "undo") -> "left"
      [] OTHER -> "failed"

\* What a job does when a command fails: start_install removes the dataset only
\* when the install fails, start_create when anything before the install's end
\* fails, and both ignore it when the removal fails.
OnFailure(j) ==
    CASE At(j, "install") -> "undo"
      [] At(j, "dataset") /\ job[j].family = "vm" -> "undo"
      [] At(j, "undo") -> IF data[job[j].family] = Nobody THEN "failed" ELSE "left"
      [] OTHER -> "failed"

Fail(j) ==
    /\ job[j].step \in {"named"} \cup Underway
    /\ IF Refused(j) THEN UNCHANGED faults
                     ELSE faults < MaxFaults /\ faults' = faults + 1
    /\ GoesTo(j, OnFailure(j))
    /\ \/ UNCHANGED zone
       \/ At(j, "install") /\ zone.state = "configured" /\ Become("incomplete")
    /\ cache' = IF At(j, "undo") THEN Unknown ELSE cache
    /\ UNCHANGED <<data, overlapped>>

\* The command of step is given and obeyed; the job goes on at next.
Obeyed(j, step, next) ==
    /\ At(j, step)
    /\ ~Refused(j)
    /\ GoesTo(j, next)

\* The handler of a create: zonecfg create, metadata, start_job.  When one of
\* the last two fails the zone stays.
Configure(j) ==
    /\ \/ Obeyed(j, "named", "dataset") /\ UNCHANGED faults
       \/ Obeyed(j, "named", "failed") /\ faults < MaxFaults /\ faults' = faults + 1
    /\ zone' = [state |-> "configured", id |-> j, family |-> job[j].family,
                going |-> "installed"]
    /\ cache' = Unknown
    /\ overlapped' = (overlapped \/ \E k \in Requests \ {j} : job[k].step \in Underway)
    /\ UNCHANGED data

\* Mutant of MakeData: what is already at the place will do.
MakeDataOver(j) ==
    /\ At(j, "dataset")
    /\ GoesTo(j, "install")
    /\ data' = IF data[job[j].family] = Nobody THEN [data EXCEPT ![job[j].family] = j]
               ELSE data
    /\ UNCHANGED <<zone, cache, Counters>>

MakeData(j) ==
    /\ Obeyed(j, "dataset", "install")
    /\ data' = [data EXCEPT ![job[j].family] = j]
    /\ UNCHANGED <<zone, cache, Counters>>

Install(j) ==
    /\ Obeyed(j, "install", IF job[j].flag THEN "boot" ELSE "done")
    /\ Become("installed")
    /\ cache' = Unknown
    /\ UNCHANGED <<data, Counters>>

\* The dataset goes by its name, whoever made it.
Undo(j) ==
    /\ At(j, "undo")
    /\ GoesTo(j, "failed")
    /\ data' = [data EXCEPT ![job[j].family] = Nobody]
    /\ cache' = Unknown
    /\ UNCHANGED <<zone, Counters>>

\* A create and a reset's halt forget the listing only later.
Boot(j) ==
    /\ Obeyed(j, "boot", "running")
    /\ Become("running")
    /\ cache' = IF job[j].op = "create" THEN cache ELSE Unknown
    /\ UNCHANGED <<data, Counters>>

Halt(j) ==
    /\ Obeyed(j, "halt", CASE job[j].op = "delete" -> "halted"
                           [] job[j].op = "reset" -> "resetting"
                           [] OTHER -> "installed")
    /\ Become("installed")
    /\ cache' = IF job[j].op = "halt" THEN Unknown ELSE cache
    /\ UNCHANGED <<data, Counters>>

\* zoneadm shutdown, with -r for a restart: the guest takes its time (Settle).
Shutdown(j) ==
    LET going == IF job[j].op = "restart" THEN "running" ELSE "installed"
    IN  /\ Obeyed(j, "shutdown", going)
        /\ zone' = [zone EXCEPT !.state = "shutting_down", !.going = going]
        /\ cache' = Unknown
        /\ UNCHANGED <<data, Counters>>

\* wait_for: poll until the state is there, or for ten minutes.
Wanted(j) == IF At(j, "running") THEN "running" ELSE "installed"

Reached(j) ==
    /\ job[j].step \in Waits
    /\ zone.state = Wanted(j)
    /\ GoesTo(j, CASE At(j, "halted") -> "relook"
                   [] At(j, "resetting") -> "boot"
                   [] OTHER -> "done")
    /\ cache' = IF job[j].step \in {"running", "installed"} THEN Unknown ELSE cache
    /\ UNCHANGED <<zone, data, Counters>>

\* Mutant of TimeOut: a wait for a zone that is there goes on.
TimeOutIfGone(j) ==
    /\ job[j].step \in Waits
    /\ zone.state = "absent"
    /\ GoesTo(j, "failed")
    /\ UNCHANGED <<zone, data, cache, Counters>>

TimeOut(j) ==
    /\ job[j].step \in Waits
    /\ zone.state # Wanted(j)
    /\ GoesTo(j, "failed")
    /\ UNCHANGED <<zone, data, cache, Counters>>

-----------------------------------------------------------------------------
(* The rest of a delete: current_state, uncached, before halt and before   *)
(* uninstall.                                                              *)

Look(j) ==
    /\ At(j, "look")
    /\ GoesTo(j, IF zone.state \in {"running", "shutting_down"} THEN "halt" ELSE "relook")
    /\ UNCHANGED <<zone, data, cache, Counters>>

Relook(j) ==
    /\ At(j, "relook")
    /\ GoesTo(j, IF zone.state \in {"installed", "incomplete"} THEN "uninstall"
                                                               ELSE "unconfigure")
    /\ UNCHANGED <<zone, data, cache, Counters>>

Uninstall(j) ==
    /\ Obeyed(j, "uninstall", "unconfigure")
    /\ Become("configured")
    /\ UNCHANGED <<data, cache, Counters>>

Unconfigure(j) ==
    /\ Obeyed(j, "unconfigure", IF job[j].flag THEN "purge" ELSE "done")
    /\ zone' = NoZone
    /\ cache' = Unknown
    /\ UNCHANGED <<data, Counters>>

\* That there is nothing to destroy is no failure.
Purge(j) ==
    /\ At(j, "purge")
    /\ GoesTo(j, "done")
    /\ data' = [data EXCEPT ![job[j].family] = Nobody]
    /\ UNCHANGED <<zone, cache, Counters>>

JobStep(j) ==
    \/ Configure(j) \/ MakeData(j) \/ Install(j) \/ Undo(j)
    \/ Boot(j) \/ Halt(j) \/ Shutdown(j) \/ Reached(j) \/ TimeOut(j)
    \/ Look(j) \/ Relook(j) \/ Uninstall(j) \/ Unconfigure(j) \/ Purge(j)
    \/ Fail(j)

-----------------------------------------------------------------------------
(* Guest, host and daemon.                                                 *)

\* A guest that was asked to shut down has done so; it may never.
Settle ==
    /\ zone.state = "shutting_down"
    /\ Become(zone.going)
    /\ UNCHANGED <<data, cache, job, Counters>>

\* A guest powers off by itself.
PowerOff ==
    /\ zone.state = "running"
    /\ Become("installed")
    /\ UNCHANGED <<data, cache, job, Counters>>

\* The daemon dies and comes back: jobs and listing are gone, what illumos has
\* stays, an install that was running may stop half way.
ZoneCrash ==
    /\ faults < MaxFaults
    /\ faults' = faults + 1
    /\ job' = [j \in Requests |-> IF job[j].step \in {"named"} \cup Underway
                                  THEN [job[j] EXCEPT !.step = "lost"] ELSE job[j]]
    /\ cache' = Unknown
    /\ \/ UNCHANGED zone
       \/ /\ zone.state = "configured" /\ \E j \in Requests : At(j, "install")
          /\ Become("incomplete")
    /\ UNCHANGED <<data, overlapped>>

Request(j) ==
    \/ \E family \in Families, boot \in BOOLEAN : Create(j, family, boot)
    \/ \E op \in DOMAIN FirstStep : Change(j, op)
    \/ \E purge \in BOOLEAN : Delete(j, purge)

ZoneNext ==
    \/ \E j \in Requests : Request(j) \/ JobStep(j)
    \/ List \/ Expire \/ Settle \/ PowerOff \/ ZoneCrash

ZoneSpec == ZoneInit /\ [][ZoneNext]_zoneVars

\* A job goes on: its commands end, one way or the other, and wait_for gives up.
ZoneFairness == \A j \in Requests : WF_zoneVars(JobStep(j))

ZoneFairSpec == ZoneSpec /\ ZoneFairness

-----------------------------------------------------------------------------
(* Properties.  Jobs work on the name, so a zone made while jobs for an    *)
(* earlier one go on may be theirs (overlapped); all but the last say      *)
(* nothing then.                                                           *)

\* A zone that is installed has its own data: not nothing, and not what an
\* earlier zone of the name left (zones.rs:277-278, vms.rs:243).
InstalledHasData ==
    ~overlapped /\ zone.state \in {"installed", "running", "shutting_down"}
        => data[zone.family] = zone.id

\* Zones and data are what they may be, and every installed zone has its own.
DataIsOwned == ZoneTypeOK /\ InstalledHasData

\* Data goes when the create that made it fails, or by a delete that purges.
DataGoesByAsking(family) ==
    \A i \in Requests :
        data[family] = i /\ data'[family] # i /\ ~overlapped =>
            \/ At(i, "undo")
            \/ \E j \in Requests : At(j, "purge") /\ job[j].family = family
                                 /\ ~(At(j, "purge"))'

\* A zone's dataset stays unless purge is set (openapi.yaml:2253-2254), whatever is
\* created, deleted and created again under its name.
ZoneDataStays == [][DataGoesByAsking("zone")]_zoneVars

\* What was deleted with purge is gone, when its create is over too, even if the
\* delete overtook the create: unless the create's own removal failed or the
\* daemon died with it.
PurgedIsGone ==
    \A j, i \in Requests :
        /\ job[j].op = "delete" /\ job[j].flag /\ At(j, "done")
        /\ job[j].target = i /\ job[i].step \in {"done", "failed"} /\ ~overlapped
        => data[job[j].family] # i

\* Every job ends, however jobs of one zone get in each other's way and whatever
\* the guest does.
EveryJobEnds ==
    \A j \in Requests : job[j].step \in Underway ~> job[j].step \in Over
=============================================================================
