---------------------------- MODULE MCMountTree ----------------------------
(***************************************************************************)
(* Small instances of MountTree: a stick with one partition and one disk   *)
(* without a partition table.                                              *)
(***************************************************************************)
EXTENDS MountTree, TLC

MCDisk == {"usb", "ata"}
MCLink == {<<"usb", 0>>, <<"usb", 1>>, <<"ata", 0>>}
MCStem == {"sda"}
MCNameNumber == [d \in MCDisk |-> 0]
MCNodeNumber == [s \in MCStem |-> 0]

Nothing == {}
\* All volumes have the same label, and three names are tried for it.
MCName == {"A", "A-2", "A-2-3"}
MCCandidates == {<<"A", "A-2", "A-2-3">>}

NoFault == {{"unlabelled"}}
AnyFault == {{}, {"symlink"},
             {"unlabelled", "mkdir", "mount"},
             {"unlabelled", "mkdir", "mount", "umount"}}
UmountFault == {{"umount", "unlabelled"}}
=============================================================================
