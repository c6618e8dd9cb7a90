------------------------------ MODULE Devices ------------------------------
(***************************************************************************)
(* The data of the device manager: device links, the device nodes they     *)
(* resolve to, and the records that Devices::Device and Devices::Volume    *)
(* keep, with the operations on one record.  No state of its own.          *)
(*                                                                         *)
(* A link is a pair <<disk, n>>: an entry of /dev/disk/by-id.  n = 0 is    *)
(* the link of the whole disk, n > 0 the link "<disk>-part<n>".  A stem is *)
(* the kernel's name of a whole disk ("sda", "sr1"), what the link of the  *)
(* disk resolves to; the partition's link resolves to <<stem, n>>.         *)
(***************************************************************************)
EXTENDS Integers

CONSTANTS
    Disk,       \* names of whole-disk links
    Link,       \* the links that may appear, a subset of Disk \X Nat
    Stem,       \* kernel names of whole disks
    NameNumber, \* the trailing number of a disk's link name: 0 for "usb-X-0:0"
    NodeNumber, \* the trailing number of a stem: 0 for "sda", 1 for "sr1"
    Foreign,    \* disks whose names the name filter does not accept
    MaxId,      \* largest device ID (999 in the code)
    Unnamed,    \* the empty root name made of a malformed link name
    NoStem      \* "the link does not resolve"

ASSUME LinkAssumption ==
    /\ Link \subseteq Disk \X Nat
    /\ Foreign \subseteq Disk
    /\ NameNumber \in [Disk -> Nat]
    /\ NodeNumber \in [Stem -> Nat]

ASSUME MaxIdAssumption == MaxId \in Nat \ {0}

ASSUME SentinelAssumption == Unnamed \notin Disk /\ NoStem \notin Stem

ID == 1..MaxId
NoId == 0

\* Volume indices: -1 for a volume that spans the device, else its number.
Whole == -1
NoIndex == 0
Index == {Whole} \cup
         (({l[2] : l \in Link} \cup {NodeNumber[s] : s \in Stem}) \ {0})

----------------------------------------------------------------------------
(* Links *)

IsAcceptable(disk) == disk \notin Foreign

(* The volume number of a link: of the node it resolves to, or of the      *)
(* link's own name when it cannot be resolved.                             *)
Number(l, stem) ==
    IF l[2] > 0 THEN l[2]
    ELSE IF stem = NoStem THEN NameNumber[l[1]] ELSE NodeNumber[stem]

(* Root name of a link handled as a partition.                             *)
RootName(l) == IF l[2] > 0 THEN l[1] ELSE Unnamed

----------------------------------------------------------------------------
(* Volumes and devices *)

VolumeState == {"PENDING", "MOUNTED", "UNUSABLE"}

\* A volume is identified by the node that was found for it.
Volume == [state : VolumeState, stem : Stem]
NoVolume == [state |-> "none", stem |-> NoStem]

DeviceState == {"SYNTHETIC", "PROBED", "OK", "REJECTED", "BROKEN"}

\* dir: the mountpoint container path, never set, created, or set in vain.
Device == [state : DeviceState,
           link  : Disk \cup {Unnamed},
           dir   : {"unset", "created", "failed"},
           vol   : [Index -> Volume \cup {NoVolume}]]

NewDevice(name) == [state |-> "SYNTHETIC", link |-> name, dir |-> "unset",
                    vol |-> [i \in Index |-> NoVolume]]

Absent == [state |-> "absent", link |-> Unnamed, dir |-> "unset",
           vol |-> [i \in Index |-> NoVolume]]

Volumes(d) == {i \in Index : d.vol[i] # NoVolume}
Pending(d) == {i \in Index : d.vol[i].state = "PENDING"}
Mounted(d) == {i \in Index : d.vol[i].state = "MOUNTED"}
Empty(d) == Volumes(d) = {}

HasVolume(d, i, stem) == d.vol[i] # NoVolume /\ d.vol[i].stem = stem

LookupVolume(d, i, stem) == IF HasVolume(d, i, stem) THEN i ELSE NoIndex

AddVolume(d, i, stem) ==
    [d EXCEPT !.vol[i] = [state |-> "PENDING", stem |-> stem]]

\* Mutant: a device that could not be probed may be probed again.
ProbePatiently(d, ok) ==
    IF d.state = "SYNTHETIC" /\ ok THEN [d EXCEPT !.state = "PROBED"] ELSE d

Probe(d, ok) ==
    IF d.state = "SYNTHETIC"
    THEN [d EXCEPT !.state = IF ok THEN "PROBED" ELSE "BROKEN"]
    ELSE d

(* Applied to probed devices only.                                         *)
Filter(d) ==
    IF d.state = "PROBED"
    THEN [d EXCEPT !.state = IF IsAcceptable(d.link) THEN "OK" ELSE "REJECTED"]
    ELSE d

(* The path is stored whether or not the directory could be made; a second *)
(* call with the same path does nothing.                                   *)
MkWorkingDirectory(d, ok) ==
    IF d.dir = "unset"
    THEN [d EXCEPT !.dir = IF ok THEN "created" ELSE "failed"]
    ELSE d
=============================================================================
