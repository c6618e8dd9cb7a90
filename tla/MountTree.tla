----------------------------- MODULE MountTree -----------------------------
(***************************************************************************)
(* The automounter together with its working directory: the directory      *)
(* <id> of each device, the mountpoints <id>/<index> in it, and what is    *)
(* mounted there (Automounter::Directory, Automounter::Mountpoint, the     *)
(* destructors of Device and Volume, and the cleanup at startup), and with *)
(* the directory of links that lead to mountpoints by label.               *)
(*                                                                         *)
(* The tree outlives the process.  Every step of the automounter is taken  *)
(* together with what it does to the tree; the result of a tool is what    *)
(* the tree allows, unless the tool is faulty.                             *)
(***************************************************************************)
EXTENDS Automounter, FiniteSets, Sequences

CONSTANTS
    TreeFaults, \* sets of tools that may fail for no visible reason
    Name,       \* names of links in the directory of labels
    Candidates, \* for each label, the names tried for it: "X", "X-2", "X-2-3"
    NoName,     \* "no link was made"
    OrphanMax   \* bound on the links left behind by the end of a process

ASSUME TreeFaultsAssumption ==
    TreeFaults \subseteq SUBSET
        {"mkdir", "mount", "umount", "symlink",
         "unlabelled"}  \* no fault: there is no directory for the links

ASSUME NamesAssumption == Candidates \subseteq Seq(Name) /\ NoName \notin Name

VARIABLES
    faulty,     \* which of these sets it is, once and for all
    tops,       \* devices whose directory <id> exists
    dirs,       \* mountpoint directories <id>/<index>, as pairs
    mounts,     \* those of them something is mounted on
    links,      \* the mountpoint each name leads to, whether it exists or not
    symlink     \* Volume::symlink_, by the mountpoint of the volume

linkVars == <<links, symlink>>
treeVars == <<faulty, tops, dirs, mounts, linkVars>>

Path == ID \X Index
NoPath == <<NoId, NoIndex>>

TreeTypeOK ==
    /\ faulty \in TreeFaults
    /\ tops \in SUBSET ID
    /\ dirs \in SUBSET (tops \X Index)
    /\ mounts \in SUBSET dirs
    /\ links \in [Name -> Path \cup {NoPath}]
    /\ symlink \in [Path -> Name \cup {NoName}]

TreeInit ==
    /\ CoreInit
    /\ faulty \in TreeFaults
    /\ tops = {} /\ dirs = {} /\ mounts = {}
    /\ links = [n \in Name |-> NoPath]
    /\ symlink = [p \in Path |-> NoName]

----------------------------------------------------------------------------
(* Removing things *)

\* umount(8) succeeds on all of ms, or it is faulty and fails on some of them.
Unmounted(ms) == IF "umount" \in faulty THEN SUBSET ms ELSE {ms}

\* rmdir(2) takes a directory nothing is mounted on, and a top directory that
\* has become empty.
Removable(ds, ms) == ds \ ms
EmptyTops(ts, ds) == {i \in ts : \A p \in ds : p[1] # i}

\* A device object is destroyed: its volumes are unmounted, what is left of
\* its mountpoint directories is removed, and its own directory last.
DestroyDevices(gone) ==
    LET mine == {p \in mounts : p[1] \in gone} IN
    \E ms \in Unmounted(mine) :
        LET rest == Removable({p \in dirs : p[1] \in gone}, mounts \ ms) IN
        /\ mounts' = mounts \ ms
        /\ dirs' = dirs \ rest
        /\ tops' = tops \ EmptyTops(tops \cap gone, dirs \ rest)
        /\ UNCHANGED faulty

----------------------------------------------------------------------------
(* Links by label *)

\* Mutant: no second name is tried.
NeverTaken(n, ds) == FALSE

\* stat(2) follows the link: a name whose mountpoint is gone looks free.
Taken(n, ds) == links[n] \in ds

\* symlink(2) replaces nothing; if it fails, the volume goes without.
MakeSymlink(p, n) ==
    \/ /\ links[n] = NoPath
       /\ links' = [links EXCEPT ![n] = p]
       /\ symlink' = [symlink EXCEPT ![p] = n]
    \/ /\ links[n] # NoPath \/ "symlink" \in faulty
       /\ UNCHANGED linkVars

\* Some label is read from the volume mounted on p, and the first of its names
\* that leads nowhere is used.  A state in which all of them lead somewhere is
\* beyond the bound that the length of a candidate list puts on the model.
LinkVolume(p, ds) ==
    \/ "unlabelled" \in faulty /\ UNCHANGED linkVars
    \/ /\ "unlabelled" \notin faulty
       /\ \E names \in Candidates : \E i \in 1..Len(names) :
            /\ ~Taken(names[i], ds)
            /\ \A j \in 1..(i - 1) : Taken(names[j], ds)
            /\ MakeSymlink(p, names[i])

\* Mutant: only the volume's own record of its link is cleared.
ForgetLinks(ps) ==
    /\ symlink' = [p \in Path |-> IF p \in ps THEN NoName ELSE symlink[p]]
    /\ UNCHANGED links

\* Mutant: the link is taken to have the first name there is for its label.
UnlinkFirst(ps) ==
    /\ \E names \in Candidates :
          links' = [links EXCEPT ![names[1]] =
                       IF \A p \in ps : symlink[p] = NoName THEN @ ELSE NoPath]
    /\ symlink' = [p \in Path |-> IF p \in ps THEN NoName ELSE symlink[p]]

\* The volumes with these mountpoints are destroyed, and their links with them.
Unlink(ps) ==
    LET mine == {symlink[p] : p \in ps} \ {NoName} IN
    /\ \E kept \in IF "symlink" \in faulty THEN SUBSET mine ELSE {{}} :
          links' = [n \in Name |-> IF n \in mine \ kept THEN NoPath ELSE links[n]]
    /\ symlink' = [p \in Path |-> IF p \in ps THEN NoName ELSE symlink[p]]

\* The process ends, and nothing is destroyed.
AbandonLinks ==
    /\ symlink' = [p \in Path |-> NoName]
    /\ UNCHANGED links

\* Links somebody made and nobody will remove.
Orphans == {n \in Name : links[n] # NoPath} \ {symlink[p] : p \in Path}

----------------------------------------------------------------------------
(* The steps of the automounter, and what they do to the tree *)

\* Mutant: a directory that is there already will do.
TreeNewDeviceAnyhow(l, stem, o) ==
    /\ HandleNewDevice(l, stem, o)
    /\ tops' = tops \cup {i \in ID : /\ devices[i].dir # "created"
                                    /\ devices'[i].dir = "created"}
    /\ UNCHANGED <<faulty, dirs, mounts, linkVars>>

\* The directory must not exist when it is made, whoever left it there.
TreeNewDevice(l, stem, o) ==
    /\ HandleNewDevice(l, stem, o)
    /\ LET made == {i \in ID : /\ devices[i].dir # "created"
                               /\ devices'[i].dir = "created"}
           failed == {i \in ID : /\ devices[i].dir # "failed"
                                 /\ devices'[i].dir = "failed"} IN
       /\ made \cap tops = {}
       /\ "mkdir" \in faulty \/ failed \subseteq tops
       /\ tops' = tops \cup made
    /\ UNCHANGED <<faulty, dirs, mounts, linkVars>>

\* Make the mountpoint, mount, link; a mountpoint made in vain is removed.
TreeMountVolume(k, ok) ==
    /\ MountVolume(k, ok)
    /\ LET p == <<cur, k>> IN
       IF ok THEN /\ p \notin dirs
                  /\ dirs' = dirs \cup {p} /\ mounts' = mounts \cup {p}
                  /\ LinkVolume(p, dirs')
             ELSE /\ p \in dirs \/ faulty \cap {"mkdir", "mount"} # {}
                  /\ UNCHANGED <<dirs, mounts, linkVars>>
    /\ UNCHANGED <<faulty, tops>>

TreeRemovedDevice(l) == HandleRemovedDevice(l) /\ UNCHANGED treeVars

\* The destructor of a mounted volume unmounts it and removes the mountpoint;
\* a failing umount is ignored, and the directory then is busy.
TreeDropVolume(k) ==
    /\ DropVolume(k)
    /\ LET mine == {p \in mounts : p = <<cur, k>> /\ k \in Mounted(devices[cur])} IN
       \E ms \in Unmounted(mine) : /\ mounts' = mounts \ ms
                                   /\ dirs' = dirs \ ms
    /\ Unlink({<<cur, k>>})
    /\ UNCHANGED <<faulty, tops>>

\* Mutant: the directory is taken away with whatever is in it.
TreeDropDeviceByForce ==
    /\ DropDevice
    /\ tops' = IF devices[cur].dir = "created" THEN tops \ {cur} ELSE tops
    /\ UNCHANGED <<faulty, dirs, mounts, linkVars>>

\* The destructor of the device tries to remove what is left in its directory,
\* without unmounting anything.
TreeDropDevice ==
    /\ DropDevice
    /\ IF devices[cur].dir = "created"
       THEN LET rest == Removable({p \in dirs : p[1] = cur}, mounts) IN
            /\ dirs' = dirs \ rest
            /\ tops' = tops \ EmptyTops(tops \cap {cur}, dirs \ rest)
            /\ UNCHANGED <<faulty, mounts, linkVars>>
       ELSE UNCHANGED treeVars

\* The devices that are removed take their directories with them.  The others
\* stay: device and volumes own each other, so nothing destroys them, and the
\* sweep over the working directory gets entry names without their path.
TreeShutdown ==
    /\ Shutdown
    /\ LET gone == {i \in ID : devices[i].dir = "created" /\ devices'[i] = Absent} IN
       /\ DestroyDevices(gone)
       /\ Unlink(gone \X Index)

TreeStop ==
    /\ Stop
    /\ AbandonLinks
    /\ UNCHANGED <<faulty, tops, dirs, mounts>>

\* Mutant: the new daemon trusts the old one to have cleaned up.
TreeRestartAtOnce ==
    Restart /\ AbandonLinks /\ UNCHANGED <<faulty, tops, dirs, mounts>>

\* Before anything else a new daemon unmounts and removes what it finds in its
\* working directory; the directory of the links it leaves as it is.
TreeRestart == Restart /\ DestroyDevices(ID) /\ AbandonLinks

TreeStep ==
    \/ \E l \in Link, stem \in Stem \cup {NoStem} :
         \E o \in Outcome(stem) : TreeNewDevice(l, stem, o)
    \/ \E l \in Link : TreeRemovedDevice(l)
    \/ \E k \in Index : \/ \E ok \in BOOLEAN : TreeMountVolume(k, ok)
                        \/ TreeDropVolume(k)
    \/ TreeDropDevice
    \/ TreeShutdown
    \/ TreeStop
    \/ TreeRestart

TreeNext == TreeStep /\ Cardinality(Orphans') <= OrphanMax

TreeSpec == TreeInit /\ [][TreeNext]_<<coreVars, treeVars>>

----------------------------------------------------------------------------
(* Properties *)

\* As long as umount works, what is mounted is what the daemon believes to be
\* mounted, and there is a directory for each device it believes to have one,
\* also after it was killed anywhere and started again.
TreeExact ==
    "umount" \notin faulty /\ pc # "stopped" =>
        /\ mounts = {p \in ID \X Index : p[2] \in Mounted(devices[p[1]])}
        /\ dirs = mounts
        /\ tops = {i \in ID : devices[i].dir = "created"}

\* Even if umount fails: a client that looks into the directory of an announced
\* device finds the volumes it was told of, and none that an earlier device of
\* the same ID has left behind.
NothingForeign ==
    \A i \in ID : catalog[i] = "announced" =>
        /\ i \in tops
        /\ \A k \in Index : <<i, k>> \in mounts <=> <<i, k>> \in catVolumes

\* A link the daemon has made leads to the mountpoint of the volume it was made
\* for, and to no other, as long as that volume is there, also among links of
\* its own name that earlier daemons left behind (Volume::mount searches for a
\* name with stat, which does not see those that lead nowhere).
OwnLinksRight ==
    \A p \in Path : symlink[p] # NoName =>
        /\ pc # "stopped" => p[2] \in Mounted(devices[p[1]])
        /\ links[symlink[p]] = p

\* Mounted volumes that cannot be found by their label.
Unlinked == {p \in Path : p[2] \in Mounted(devices[p[1]]) /\ symlink[p] = NoName}

\* As long as links can be made, a volume goes without only because of a link
\* that an earlier daemon left behind: two volumes of one label get two names.
LinkedUnlessStale ==
    faulty \cap {"symlink", "unlabelled"} = {} /\ pc # "stopped" /\ Unlinked # {} => Orphans # {}

\* As long as links can be removed, none loses its volume while the daemon runs
\* (set_eol_state_and_cleanup); what is orphaned is so by the end of a process.
OrphanedByTheEndOnly ==
    [][ "symlink" \notin faulty /\ "stopped" \notin {pc, pc'}
        => Orphans' \subseteq Orphans ]_<<coreVars, treeVars>>

----------------------------------------------------------------------------
(* What the documentation says and the code does not do: each of these is   *)
(* violated by a run.                                                       *)

\* README.md:80: unmounting "will fail, most probably, but we must make sure
\* that we don't leak any resources": nothing is left of a device that is
\* dropped.  Violated if umount does fail.
NothingLeaks == [][TreeDropDevice => cur \notin tops']_<<coreVars, treeVars>>

\* automounter.cc:417: "Remove residual mountpoints. There shouldn't be any":
\* an orderly shutdown leaves nothing mounted.  Violated if the loop over the
\* devices stops early.
NoResidualMountpoints == [][TreeShutdown => mounts' = {}]_<<coreVars, treeVars>>

=============================================================================
