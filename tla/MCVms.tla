------------------------------- MODULE MCVms -------------------------------
(* Vms with a VM of two disks, or of three with the boot disk last, or a   *)
(* zone: two requests that may meet, and one when they are over.           *)
EXTENDS Vms

MCLayouts == {<<2, 0>>, <<3, 2>>}
MCAsks == <<
    {"add_disk", "remove_disk", "attach_cdrom", "create_snapshot", "update_zone"},
    {"update_vm", "add_disk", "remove_disk", "resize_disk", "delete_snapshot",
     "start_vm", "get_vm", "get_zone", "update_zone"},
    {"resize_disk", "remove_disk", "detach_cdrom", "rollback_snapshot", "stop_vm",
     "update_zone"}>>
=============================================================================
