-------------------------------- MODULE Vms ---------------------------------
(***************************************************************************)
(* The requests that change a VM's configuration, disks and snapshots      *)
(* (crates/mandraked/src/routes/vms.rs, vms.rs), and how they meet the     *)
(* jobs that boot and halt it (Zones has these in full) and the guest,     *)
(* which writes to its disks; and the one that changes another zone's      *)
(* configuration (routes/zones.rs).                                        *)
(*                                                                         *)
(* One VM, made with all its disks, or one other zone; configurations are  *)
(* as in VmConfig and ZoneConfig.  Disk n is the zvol disk<n> of the VM's  *)
(* dataset; members are the zvols and the dataset itself.  What is on a    *)
(* member is the number of the last write to it.  A handler works from     *)
(* cached listings, and writes back the whole of the configuration it      *)
(* found there, in two steps.  A command and the clearing of the caches    *)
(* after it are one, unless the request is dropped while the command runs. *)
(*                                                                         *)
(* Abstracted: images and pools, ids and metadata (Storage has them),      *)
(* validation of sizes and names, audit records.                           *)
(***************************************************************************)
EXTENDS VmConfig

CONSTANTS
    MaxRequests,   \* bound: requests asked
    MaxCuts,       \* bound: requests dropped
    MaxWrites,     \* bound: writes of the guest
    MaxDisks,      \* bound: disks of the VM
    Sizes,         \* sizes of disks
    Isos,          \* images that may be attached
    Names,         \* names of snapshots
    Layouts,       \* <<disks, position of the boot disk>>: the VMs there may be
    Asks,          \* Asks[r]: bound: the operations request r may be
    Alone          \* bound: requests asked only while no other is under way

ASSUME VmsAssumption ==
    /\ {MaxRequests, MaxCuts, MaxWrites, MaxDisks} \subseteq Nat
    /\ DOMAIN Asks = 1 .. MaxRequests
    /\ Sizes \subseteq Nat /\ Sizes # {} /\ Isos \subseteq Nat
    /\ \A l \in Layouts : l[1] \in 1 .. MaxDisks /\ l[2] \in 0 .. l[1] - 1

VARIABLES
    config,    \* the zone's configuration
    running,   \* the zone is running; else installed
    attached,  \* the disks it was booted with
    members,   \* members[d]: size, last write and snapshots of the zvol, oldest first
    cache,     \* << >>, or <<the listing in the cache>> of zones
    sizes,     \* << >>, or <<the sizes in the cache>> of datasets
    req,       \* req[r]: request r
    overlapped,\* two requests have been under way at once
    cuts,      \* requests dropped
    writes     \* writes of the guest

vmVars == <<config, running, attached, members, cache, sizes, req, overlapped, cuts, writes>>

Requests == 1 .. MaxRequests
Disks == 0 .. MaxDisks - 1
Dataset == MaxDisks          \* the VM's dataset, among its members
NoDisk == MaxDisks + 1

Zvols(vm) == [i \in DOMAIN vm.disks |-> vm.disks[i].zvol]
Images(vm) == [i \in DOMAIN vm.cdroms |-> vm.cdroms[i].iso]
BootDisk(vm) == {d \in ToSet(vm.disks) : d.boot}
IsVm == config.brand = "bhyve"
Vm == FromZoneConfig(Read(config))

\* The cached listings, or what is so.
Host == [running |-> running, config |-> Read(config)]
Listing == IF cache # << >> THEN cache[1] ELSE Host
SizesNow == [d \in DOMAIN members \ {Dataset} |-> members[d].size]
SizeListing == IF sizes # << >> THEN sizes[1] ELSE SizesNow

ConfigOps == {"update_vm", "add_disk", "remove_disk", "attach_cdrom", "detach_cdrom"}
SnapshotOps == {"create_snapshot", "delete_snapshot", "rollback_snapshot"}
VmOps == ConfigOps \cup SnapshotOps \cup {"get_vm", "resize_disk", "start_vm", "stop_vm"}
ZoneOps == {"get_zone", "update_zone"}
Ops == VmOps \cup ZoneOps

\* index: of the disk or image; new: vcpus, a size, an image, the value of a setting; name: of
\* the snapshot or the setting; spec: as found, then the commands; disk: what the index led
\* to; todo: members still to roll back.  meant is what the API showed at that index when
\* the request was asked.
NewRequest == [op |-> "get_vm", stage |-> "idle", index |-> 0, new |-> 0, name |-> "",
               purge |-> FALSE, spec |-> << >>, disk |-> NoDisk, todo |-> << >>,
               meant |-> NoDisk]
Working == {"find", "size", "look", "act", "write", "zonecfg", "purge", "note", "show"}

At(r, stage) == req[r].stage = stage
Doing(r, op, stage) == At(r, stage) /\ req[r].op = op
Busy == {r \in Requests : req[r].stage \in Working}
\* Nothing is remembered of a request that is over.
Becomes(r, new) ==
    req' = [req EXCEPT ![r] = IF new.stage = "over" THEN [NewRequest EXCEPT !.stage = "over"]
                              ELSE new]
Goes(r, stage) == Becomes(r, [req[r] EXCEPT !.stage = stage])
Calm == ~overlapped /\ cuts = 0

-----------------------------------------------------------------------------
(* Asking.  The client has seen the VM, and means the disk or the image    *)
(* shown to it at the index it gives.                                      *)

\* The handlers take an index for a position.  They are not the same in a VM whose boot
\* disk was not given first, until its configuration is first written back.
BootFirst == config.device[1] = config.attr[Bootdisk]

DiskInputs ==
    {[index |-> d.index, meant |-> IF BootFirst THEN d.zvol ELSE NoDisk] :
        d \in ToSet(Vm.disks)}
CdromInputs == {[index |-> c.index, meant |-> c.iso] : c \in ToSet(Vm.cdroms)}
NoInput == {[index |-> 0, meant |-> NoDisk]}

Targets(op) ==
    CASE op \in {"resize_disk", "remove_disk"} -> DiskInputs
      [] op = "detach_cdrom" -> CdromInputs
      [] OTHER -> NoInput
Values(op) ==
    CASE op \in {"add_disk", "resize_disk"} -> Sizes
      [] op = "attach_cdrom" -> Isos
      [] op = "update_vm" -> {2}
      [] op = "update_zone" -> {0, 2}
      [] OTHER -> {0}
NamesFor(op, new) ==
    CASE op \in SnapshotOps -> Names
      [] op = "update_vm" -> {"vcpus", "nics"}
      [] op = "update_zone" -> IF new = 0 THEN Settings \ {"hostname"} ELSE Settings
      [] OTHER -> {""}

Ask(r) ==
    /\ At(r, "idle") /\ \A q \in Requests : q < r => ~At(q, "idle")
    /\ r \in Alone => Busy = {}
    /\ \E op \in Asks[r] \cap (IF IsVm THEN VmOps ELSE ZoneOps) :
       \E at \in Targets(op), new \in Values(op) :
       \E name \in NamesFor(op, new), purge \in IF op = "remove_disk" THEN BOOLEAN ELSE {FALSE} :
          Becomes(r, [NewRequest EXCEPT !.op = op, !.stage = "find", !.index = at.index,
                                        !.meant = at.meant, !.new = new, !.name = name,
                                        !.purge = purge])
    /\ overlapped' = (overlapped \/ Busy # {})
    /\ UNCHANGED <<config, running, attached, members, cache, sizes, cuts, writes>>

-----------------------------------------------------------------------------
(* Finding: find_vm, and what the handler decides from what it found.      *)

FindVm(r) ==
    LET spec == SpecFrom(Listing.config)
        found == [req[r] EXCEPT !.spec = spec]
        there == req[r].index < Len(spec.disks)
        disk == spec.disks[req[r].index + 1]
        Next_(stage) == Becomes(r, [found EXCEPT !.stage = stage])
        Stop == Goes(r, "over")
    IN  /\ At(r, "find")
        /\ cache' = <<Listing>>
        /\ CASE req[r].op \in {"get_vm", "get_zone"} -> Goes(r, "show")
             [] req[r].op = "update_zone" ->
                  Becomes(r, [req[r] EXCEPT !.stage = "act", !.spec =
                                ZonePatched(Listing.config, req[r].name, req[r].new)])
             [] req[r].op \in {"update_vm", "add_disk"} -> Next_("act")
             [] req[r].op = "resize_disk" ->
                  IF there THEN Becomes(r, [req[r] EXCEPT !.stage = "size", !.disk = disk.zvol])
                  ELSE Stop
             [] req[r].op = "remove_disk" ->
                  IF there /\ ~disk.boot
                  THEN Becomes(r, [found EXCEPT !.stage = "act", !.disk = disk.zvol])
                  ELSE Stop
             [] req[r].op = "attach_cdrom" ->
                  IF req[r].new \in ToSet(spec.cdroms) THEN Stop ELSE Next_("act")
             [] req[r].op = "detach_cdrom" ->
                  IF req[r].index < Len(spec.cdroms) THEN Next_("act") ELSE Stop
             [] req[r].op = "create_snapshot" -> Goes(r, "act")
             [] req[r].op = "delete_snapshot" -> Goes(r, "look")
             [] req[r].op = "rollback_snapshot" ->
                  IF Listing.running THEN Stop
                  ELSE Becomes(r, [req[r] EXCEPT !.stage = "look",
                                     !.todo = <<Dataset>> \o [i \in DOMAIN spec.disks |->
                                                                spec.disks[i].zvol]])
             [] req[r].op = "start_vm" -> Goes(r, IF Listing.running THEN "over" ELSE "act")
             [] req[r].op = "stop_vm" -> Goes(r, IF Listing.running THEN "act" ELSE "over")
        /\ UNCHANGED <<config, running, attached, members, sizes, overlapped, cuts, writes>>

\* vm_view: the VM found again, with the sizes of its disks.
View == cache' = <<Listing>> /\ sizes' = IF IsVm THEN <<SizeListing>> ELSE sizes

Size(r) ==
    LET shown == ToSet(Zvols(FromZoneConfig(Listing.config))) \cap DOMAIN SizeListing
        current == IF req[r].disk \in shown THEN SizeListing[req[r].disk] ELSE 0
    IN  /\ Doing(r, "resize_disk", "size")
        /\ View
        /\ Goes(r, IF req[r].new > current THEN "act" ELSE "over")
        /\ UNCHANGED <<config, running, attached, members, overlapped, cuts, writes>>

\* The answer; the handlers that change something look at the VM again for theirs.
Show(r) ==
    /\ At(r, "show")
    /\ View
    /\ Goes(r, "over")
    /\ UNCHANGED <<config, running, attached, members, overlapped, cuts, writes>>

SnapshotsOf(d) == {members[d].snaps[i].name : i \in DOMAIN members[d].snaps}

\* find_snapshot: among those of the dataset, which are not cached.
Look(r) ==
    /\ At(r, "look")
    /\ Goes(r, IF req[r].name \in SnapshotsOf(Dataset) THEN "act" ELSE "over")
    /\ UNCHANGED <<config, running, attached, members, cache, sizes, overlapped, cuts, writes>>

-----------------------------------------------------------------------------
(* Commands.  Each ends with Then: the request goes on, the caches         *)
(* cleared, or was dropped while the command ran and the caches keep what  *)
(* they had.                                                               *)

Then(r, stage, cache0, sizes0) ==
    \/ Goes(r, stage) /\ cache' = cache0 /\ sizes' = sizes0 /\ cuts' = cuts
    \/ /\ cuts < MaxCuts /\ cuts' = cuts + 1
       /\ Goes(r, "over") /\ UNCHANGED <<cache, sizes>>

\* The configuration is read, for the commands that make it the one wanted ...
WriteSpec(r, spec) ==
    /\ Becomes(r, [req[r] EXCEPT !.stage = "zonecfg", !.spec = RenderUpdate(Read(config), spec)])
    /\ UNCHANGED <<config, running, attached, members, cache, sizes, overlapped, cuts, writes>>

WriteVm(r, vm) == WriteSpec(r, ToZoneSpec(vm))

\* ... which are then run, on what it has become.
RunZonecfg(r) ==
    LET run == Zonecfg(config, req[r].spec) IN
    /\ At(r, "zonecfg") /\ run.ok
    /\ config' = run.config
    /\ Then(r, IF req[r].purge THEN "purge" ELSE "show", << >>, sizes)
    /\ UNCHANGED <<running, attached, members, overlapped, writes>>

UpdateZone(r) ==
    /\ Doing(r, "update_zone", "act")
    /\ WriteSpec(r, req[r].spec)

UpdateVm(r) ==
    /\ Doing(r, "update_vm", "act")
    /\ WriteVm(r, IF req[r].name = "nics" THEN [req[r].spec EXCEPT !.nics = <<req[r].new>>]
                  ELSE [req[r].spec EXCEPT !.vcpus = req[r].new])

\* A disk is named by the number of disks there are.
NewDisk(r) == Len(req[r].spec.disks)

MakeDisk(r) ==
    LET d == NewDisk(r) IN
    /\ Doing(r, "add_disk", "act")
    /\ d \in Disks \ DOMAIN members
    /\ members' = [e \in DOMAIN members \cup {d} |->
                     IF e = d THEN [size |-> req[r].new, data |-> 0, snaps |-> << >>]
                     ELSE members[e]]
    /\ Then(r, "write", cache, << >>)
    /\ UNCHANGED <<config, running, attached, overlapped, writes>>

AddDisk(r) ==
    /\ Doing(r, "add_disk", "write")
    /\ WriteVm(r, [req[r].spec EXCEPT
                       !.disks = Append(@, [zvol |-> NewDisk(r), boot |-> FALSE])])

ResizeDisk(r) ==
    LET d == req[r].disk IN
    /\ Doing(r, "resize_disk", "act")
    /\ d \in DOMAIN members
    /\ members' = [members EXCEPT ![d].size = req[r].new]
    /\ Then(r, "show", cache, << >>)
    /\ UNCHANGED <<config, running, attached, overlapped, writes>>

RemoveDisk(r) ==
    /\ Doing(r, "remove_disk", "act")
    /\ WriteVm(r, [req[r].spec EXCEPT !.disks = RemoveAt(@, req[r].index + 1)])

Purge(r) ==
    /\ At(r, "purge")
    /\ req[r].disk \in DOMAIN members
    /\ members' = [d \in DOMAIN members \ {req[r].disk} |-> members[d]]
    /\ Then(r, "show", cache, << >>)
    /\ UNCHANGED <<config, running, attached, overlapped, writes>>

AttachCdrom(r) ==
    /\ Doing(r, "attach_cdrom", "act")
    /\ WriteVm(r, [req[r].spec EXCEPT !.cdroms = Append(@, req[r].new)])

DetachCdrom(r) ==
    /\ Doing(r, "detach_cdrom", "act")
    /\ WriteVm(r, [req[r].spec EXCEPT !.cdroms = RemoveAt(@, req[r].index + 1)])

-----------------------------------------------------------------------------
(* Snapshots, of the dataset and all below it.                             *)

CreateSnapshot(r) ==
    LET name == req[r].name IN
    /\ Doing(r, "create_snapshot", "act")
    /\ \A d \in DOMAIN members : name \notin SnapshotsOf(d)
    /\ members' = [d \in DOMAIN members |->
                     [members[d] EXCEPT !.snaps =
                        Append(@, [name |-> name, data |-> members[d].data, by |-> r])]]
    /\ Then(r, "over", cache, sizes)
    /\ UNCHANGED <<config, running, attached, overlapped, writes>>

Position(member, name) == CHOOSE i \in DOMAIN member.snaps : member.snaps[i].name = name

\* The snapshot of that name, if there is one, is destroyed in every member.
DeleteSnapshot(r) ==
    /\ Doing(r, "delete_snapshot", "act")
    /\ req[r].name \in SnapshotsOf(Dataset)
    /\ members' = [d \in DOMAIN members |->
                     IF req[r].name \in SnapshotsOf(d)
                     THEN [members[d] EXCEPT !.snaps =
                              RemoveAt(@, Position(members[d], req[r].name))]
                     ELSE members[d]]
    /\ Then(r, "over", cache, sizes)
    /\ UNCHANGED <<config, running, attached, overlapped, writes>>

\* zfs rollback -r: what is there since goes, later snapshots too.
RolledBack(member, name) ==
    LET at == Position(member, name)
    IN  [member EXCEPT !.data = member.snaps[at].data, !.snaps = SubSeq(@, 1, at)]

\* Mutant of Remaining: the first rollback is the last.
RemainingNone(todo) == << >>

Remaining(todo) == Tail(todo)

\* One member of the list after the other.
RollbackSnapshot(r) ==
    LET d == Head(req[r].todo)
        left == Remaining(req[r].todo)
    IN  /\ Doing(r, "rollback_snapshot", "act")
        /\ d \in DOMAIN members /\ req[r].name \in SnapshotsOf(d)
        /\ members' = [members EXCEPT ![d] = RolledBack(@, req[r].name)]
        /\ IF left # << >>
           THEN Becomes(r, [req[r] EXCEPT !.todo = left]) /\ UNCHANGED <<cache, sizes, cuts>>
           ELSE Then(r, "over", cache, << >>)
        /\ UNCHANGED <<config, running, attached, overlapped, writes>>

-----------------------------------------------------------------------------
(* The jobs, as far as they matter here: the command, and the clearing     *)
(* after it.                                                               *)

StartVm(r) ==
    /\ Doing(r, "start_vm", "act") /\ ~running
    /\ running' = TRUE /\ attached' = ToSet(Zvols(Vm))
    /\ Goes(r, "note")
    /\ UNCHANGED <<config, members, cache, sizes, overlapped, cuts, writes>>

StopVm(r) ==
    /\ Doing(r, "stop_vm", "act") /\ running
    /\ running' = FALSE /\ attached' = {}
    /\ Goes(r, "note")
    /\ UNCHANGED <<config, members, cache, sizes, overlapped, cuts, writes>>

Note(r) ==
    /\ At(r, "note")
    /\ cache' = << >>
    /\ Goes(r, "over")
    /\ UNCHANGED <<config, running, attached, members, sizes, overlapped, cuts, writes>>

-----------------------------------------------------------------------------
(* What fails and what expires, and the guest.                             *)

\* A command fails; the request ends, the caches as they are.
Fail(r) ==
    /\ req[r].stage \in {"act", "write", "zonecfg", "purge"}
    /\ Goes(r, "over")
    /\ UNCHANGED <<config, running, attached, members, cache, sizes, overlapped, cuts, writes>>

Expire ==
    \/ /\ cache \notin {<< >>, <<Host>>} /\ cache' = << >>
       /\ UNCHANGED <<config, running, attached, members, sizes, req, overlapped, cuts, writes>>
    \/ /\ sizes \notin {<< >>, <<SizesNow>>} /\ sizes' = << >>
       /\ UNCHANGED <<config, running, attached, members, cache, req, overlapped, cuts, writes>>

GuestWrites ==
    /\ running /\ writes < MaxWrites
    /\ writes' = writes + 1
    /\ members' = [d \in DOMAIN members |->
                     IF d \in attached THEN [members[d] EXCEPT !.data = writes'] ELSE members[d]]
    /\ UNCHANGED <<config, running, attached, cache, sizes, req, overlapped, cuts>>

GuestHalts ==
    /\ running
    /\ running' = FALSE /\ attached' = {}
    /\ UNCHANGED <<config, members, cache, sizes, req, overlapped, cuts, writes>>

-----------------------------------------------------------------------------
(* The VM there is: as create_vm makes it, or, its boot disk first, made   *)
(* by hand, the second disk under the attribute without a number.  Or the  *)
(* other zone: as create_zone makes it, with more added by hand.           *)

CreatedVm(layout) ==
    LET spec == ToZoneSpec(
            [vcpus |-> 1,
             disks |-> [i \in 1 .. layout[1] |-> [zvol |-> i - 1, boot |-> i - 1 = layout[2]]],
             nics |-> <<1>>, cdroms |-> << >>, attrs |-> Only(<<"mandrake-id", 0>>, 1)])
    IN  Zonecfg(Empty("bhyve"), RenderCreate(spec)).config

MadeByHand(created) ==
    LET attr == created.attr
        second == <<"disk", 1>>
    IN  [created EXCEPT
            !.attr = Only(BareDisk, attr[second]) ++ Only(<<"extra", 0>>, 1) ++ Only(<<"comment", 0>>, 1) ++
                     [k \in DOMAIN attr \ {second, Vcpus} |-> attr[k]],
            !.rctl = <<3>>]

CreatedZone ==
    Zonecfg(Empty("native"), RenderCreate([Empty("native") EXCEPT !.attr = ZoneAttrs(1, 1),
                                                                  !.anet = <<1>>])).config

ByHandToo(created) ==
    [created EXCEPT !.attr = Only(<<"comment", 0>>, 1) ++ @, !.dataset = <<3>>, !.rctl = <<3>>,
                    !["capped-memory"] = <<1>>]

Disk(d) == [size |-> CHOOSE s \in Sizes : \A t \in Sizes : s <= t, data |-> 0, snaps |-> << >>]

VmInit ==
    /\ \/ \E layout \in Layouts :
            LET created == CreatedVm(layout) IN
            /\ config \in {created} \cup
                          IF layout[1] = 2 /\ layout[2] = 0 THEN {MadeByHand(created)} ELSE {}
            /\ members = [d \in 0 .. layout[1] - 1 \cup {Dataset} |-> Disk(d)]
       \/ /\ config \in {CreatedZone, ByHandToo(CreatedZone)}
          /\ members = [d \in {Dataset} |-> Disk(d)]
    /\ running = FALSE /\ attached = {}
    /\ cache = << >> /\ sizes = << >>
    /\ req = [r \in Requests |-> NewRequest]
    /\ overlapped = FALSE /\ cuts = 0 /\ writes = 0

VmNext ==
    \/ \E r \in Requests :
          \/ Ask(r) \/ FindVm(r) \/ Size(r) \/ Show(r) \/ Look(r)
          \/ RunZonecfg(r) \/ UpdateZone(r) \/ UpdateVm(r) \/ MakeDisk(r) \/ AddDisk(r) \/ ResizeDisk(r)
          \/ RemoveDisk(r) \/ Purge(r) \/ AttachCdrom(r) \/ DetachCdrom(r)
          \/ CreateSnapshot(r) \/ DeleteSnapshot(r) \/ RollbackSnapshot(r)
          \/ StartVm(r) \/ StopVm(r) \/ Note(r) \/ Fail(r)
    \/ Expire \/ GuestWrites \/ GuestHalts

VmSpec == VmInit /\ [][VmNext]_vmVars
-----------------------------------------------------------------------------
(* Properties.                                                             *)

Requested ==
    [op : Ops, stage : Working \cup {"idle", "over"}, index : Nat, new : Nat,
     name : Names \cup Settings \cup {"", "vcpus", "nics"}, purge : BOOLEAN, disk : Disks \cup {NoDisk},
     meant : Disks \cup Isos \cup {NoDisk}, todo : Seq(Disks \cup {Dataset})]

VmTypeOK ==
    /\ DOMAIN members \subseteq Disks \cup {Dataset} /\ Dataset \in DOMAIN members
    /\ \A d \in DOMAIN members : /\ members[d].size \in Sizes
                                 /\ members[d].data \in 0 .. writes
    /\ attached \subseteq Disks /\ (attached # {} => running)
    /\ \A r \in Requests : [f \in DOMAIN req[r] \ {"spec"} |-> req[r][f]] \in Requested
    /\ cuts \in 0 .. MaxCuts /\ writes \in 0 .. MaxWrites

\* A VM keeps one boot disk, and its zvol, whatever requests meet or are dropped.  If none
\* met, the devices of the zone are its disks, what is mounted are its images, and, if none
\* was dropped either, every disk of the configuration is a zvol on the host.
\* (remove_disk writes before it destroys; add_disk makes before it writes; from the
\* attributes, from_zone_config reads back what to_zone_spec wrote.)
DisksExist ==
    /\ VmTypeOK
    /\ IsVm =>
          LET vm == Vm
              boot == BootDisk(vm)
          IN  /\ Cardinality(boot) = 1 /\ \A b \in boot : b.zvol \in DOMAIN members
              /\ ~overlapped => /\ ToSet(config.device) = ToSet(Zvols(vm))
                                /\ config.fs = Images(vm)
              /\ Calm => ToSet(Zvols(vm)) \subseteq DOMAIN members

\* seq is what is left of whole when x has gone.
IsWithout(seq, whole, x) ==
    x \notin ToSet(seq) /\ \E i \in DOMAIN whole : whole[i] = x /\ seq = RemoveAt(whole, i)

\* The request r, having been asked for a change, makes this of the VM or the zone.
IsAskedOfVm(r, before, after) ==
    LET old == Zvols(before)
        now == Zvols(after)
        asked == req[r]
        patched(setting) == asked.op = "update_vm" /\ asked.name = setting
    IN  /\ after.vcpus = IF patched("vcpus") THEN asked.new ELSE before.vcpus
        /\ after.nics = IF patched("nics") THEN <<asked.new>> ELSE before.nics
        /\ CASE asked.op = "add_disk" ->
                  \E d \in DOMAIN members \ ToSet(old) : now = Append(old, d)
             [] asked.op = "remove_disk" /\ asked.meant # NoDisk -> IsWithout(now, old, asked.meant)
             [] asked.op = "remove_disk" /\ asked.meant = NoDisk -> \E d \in ToSet(old) : IsWithout(now, old, d)
             [] OTHER -> now = old
        /\ CASE asked.op = "attach_cdrom" -> Images(after) = Append(Images(before), asked.new)
             [] asked.op = "detach_cdrom" -> IsWithout(Images(after), Images(before), asked.meant)
             [] OTHER -> Images(after) = Images(before)

IsAskedOfZone(r, before, after) ==
    LET value == IF req[r].new = 0 THEN << >> ELSE <<req[r].new>>
    IN  after = IF req[r].op = "update_zone"
                THEN [before EXCEPT ![req[r].name] = value] ELSE before

IsAsked ==
    \E old \in {Read(config)}, new \in {Read(config')}, r \in Requests :
        IF IsVm THEN \E before \in {FromZoneConfig(old)}, after \in {FromZoneConfig(new)} :
                        IsAskedOfVm(r, before, after)
        ELSE IsAskedOfZone(r, ToZone(old), ToZone(new))

\* What of a configuration is not mandraked's.
Foreign(c) == <<[k \in {k \in DOMAIN c.attr : ~IsManaged(k)} |-> c.attr[k]], c.dataset, c.rctl>>

IsGrown(r, d) ==
    /\ req[r].op = "resize_disk" /\ req[r].meant \in {d, NoDisk}
    /\ members'[d].size = req[r].new /\ members'[d].size > members[d].size

IsPurged(r, d) ==
    /\ req[r].op = "remove_disk" /\ req[r].purge /\ req[r].meant \in {d, NoDisk}
    /\ d \notin ToSet(Zvols(Vm))

\* A request changes of the VM or the zone what it was asked to, and acts on the disk that
\* was shown at the index it gives (where the boot disk is the first); a disk only grows, and
\* goes only when it was to be purged and is configured no more.  That is, unless requests
\* met or one was dropped; that attributes and resources which are not mandraked's stay holds
\* even then.  (Every handler writes the whole configuration back, from a cached reading.)
OnlyWhatIsAsked ==
    [][/\ config' # config => Foreign(config') = Foreign(config)
       /\ Calm' =>
            /\ config' # config => IsAsked
            /\ \A d \in DOMAIN members :
                  /\ d \notin DOMAIN members' => \E r \in Requests : IsPurged(r, d)
                  /\ d \in DOMAIN members' /\ members'[d].size # members[d].size =>
                        \E r \in Requests : IsGrown(r, d)
      ]_vmVars

\* When a rollback ends well, the VM is not running, and its dataset and every disk hold
\* what they held when one and the same request took the snapshot.  (rollback_snapshot
\* goes through the members one after the other, long after it looked at the VM's state.)
RollbackIsWhole ==
    [][\A r \in Requests : RollbackSnapshot(r) /\ At(r, "over")' /\ Calm' =>
            /\ ~running
            /\ \E by \in Requests : \A d \in {Dataset} \cup ToSet(Zvols(Vm)) :
                  LET snaps == members'[d].snaps
                  IN  /\ snaps # << >>
                      /\ Last(snaps).name = req[r].name /\ Last(snaps).by = by
                      /\ members'[d].data = Last(snaps).data
      ]_vmVars
=============================================================================
