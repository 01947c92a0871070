----------------------------- MODULE VmConfig ------------------------------
(***************************************************************************)
(* A VM as the configuration of a bhyve zone: how mandraked writes it      *)
(* (crates/mandrake-bhyve/src/render.rs, to_zone_spec) and how it is read  *)
(* back (from_zone_config); ZoneConfig has what is between.                *)
(*                                                                         *)
(* Disks and ISO images are numbers.  Abstracted: vcpus stands for itself, *)
(* memory, bootrom, acpi, vnc and autoboot.                                *)
(***************************************************************************)
EXTENDS ZoneConfig, FiniteSets

Vcpus == <<"vcpus", 0>>
Bootdisk == <<"bootdisk", 0>>
BareDisk == <<"bare disk", 0>>
BareCdrom == <<"bare cdrom", 0>>

-----------------------------------------------------------------------------
(* Writing.                                                                *)

DiskAttr(i, boot) == IF boot THEN Bootdisk ELSE <<"disk", i>>
CdromAttr(i) == IF i = 0 THEN BareCdrom ELSE <<"cdrom", i>>

\* A disk is an attribute by its position, unless it is the one to boot from; an image too.
DiskEntries(disks) ==
    LET key(i) == DiskAttr(i - 1, disks[i].boot)
    IN  [k \in {key(i) : i \in DOMAIN disks} |->
            disks[CHOOSE i \in DOMAIN disks : key(i) = k].zvol]
CdromEntries(cdroms) ==
    LET key(i) == CdromAttr(i - 1)
    IN  [k \in {key(i) : i \in DOMAIN cdroms} |-> cdroms[CHOOSE i \in DOMAIN cdroms : key(i) = k]]

\* vm: [vcpus, disks, cdroms, nics, attrs], the disks and images in order, from position 0.
ToZoneSpec(vm) ==
    [Empty("bhyve") EXCEPT
        !.attr = CdromEntries(vm.cdroms) ++ DiskEntries(vm.disks) ++ Only(Vcpus, vm.vcpus) ++ vm.attrs,
        !.anet = vm.nics,
        !.device = [i \in DOMAIN vm.disks |-> vm.disks[i].zvol],
        !.fs = vm.cdroms]

-----------------------------------------------------------------------------
(* Reading back.  Disks and images are in the order of their slots, those  *)
(* of one slot in the order of their keys: bootdisk, disk, disk0, disk1.   *)

\* Mutant of Slot: `disk` is slot 0, as `cdrom` is.
SlotOfNumber(key) == key[2]

Slot(key) == IF key = BareDisk THEN 1 ELSE key[2]
KeyRank(key) == CASE key = Bootdisk -> 0
                  [] key[1] \in {"bare disk", "bare cdrom"} -> 1
                  [] OTHER -> 2
Sooner(j, k) == \/ Slot(j) < Slot(k)
                \/ Slot(j) = Slot(k) /\ KeyRank(j) < KeyRank(k)

KeysOf(config, kinds) ==
    LET keys == {k \in DOMAIN config.attr : k[1] \in kinds}
        before(k) == Cardinality({j \in keys : Sooner(j, k)})
    IN  [i \in 1 .. Cardinality(keys) |-> CHOOSE k \in keys : before(k) = i - 1]

\* What the API shows of a disk.
FromZoneConfig(config) ==
    LET disks == KeysOf(config, DiskKinds)
        cdroms == KeysOf(config, CdromKinds)
        kept == {k \in DOMAIN config.attr : ~IsManaged(k)}
    IN  [vcpus |-> IF Vcpus \in DOMAIN config.attr THEN config.attr[Vcpus] ELSE 1,
         disks |-> [i \in DOMAIN disks |->
                      [index |-> Slot(disks[i]), zvol |-> config.attr[disks[i]],
                       boot |-> disks[i] = Bootdisk]],
         nics |-> config.anet,
         cdroms |-> [i \in DOMAIN cdroms |->
                      [index |-> Slot(cdroms[i]), iso |-> config.attr[cdroms[i]]]],
         attrs |-> [k \in kept |-> config.attr[k]]]

\* What is written when a VM read back is written again: positions, no slots.
SpecFrom(config) ==
    LET vm == FromZoneConfig(config)
    IN  [vm EXCEPT !.disks = [i \in DOMAIN @ |-> [zvol |-> @[i].zvol, boot |-> @[i].boot]],
                   !.cdroms = [i \in DOMAIN @ |-> @[i].iso]]
=============================================================================
