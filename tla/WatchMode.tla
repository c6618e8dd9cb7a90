----------------------------- MODULE WatchMode -----------------------------
(***************************************************************************)
(* The daemon with --watch: somebody else makes directories in the         *)
(* working directory, mounts volumes there and takes them away again; the  *)
(* daemon hears of the directories through FdEvents, asks findmnt and      *)
(* udevadm what is mounted there and tells its clients.  It mounts nothing,*)
(* unmounts nothing, and looks at device links only when a directory       *)
(* appears.                                                                *)
(***************************************************************************)
EXTENDS Automounter, FdEvents, FiniteSets

CONSTANTS
    Drive,      \* what may be plugged in
    RootOf,     \* [Drive -> Disk]: the by-id name udevadm lists first for it
    Node,       \* [Drive -> SUBSET Stem]: the kernel names it may get
    PartOf,     \* [Drive -> Disk]: the one its partitions' links begin with
    Part,       \* volumes <<drive, number>>, the number 0 for the whole drive
    Path,       \* directories there may be in the working directory
    NoPath,
    WatchFaults,\* sets of things that may go wrong together
    MaxMoves    \* bound, for each set, on how often a drive is plugged or a
                \* directory made

\* A drive's names carry its serial number: no other drive goes by them.
ASSUME NamesAssumption ==
    \A d, e \in Drive :
        {RootOf[d], PartOf[d]} \cap {RootOf[e], PartOf[e]} # {} => d = e

ASSUME WatchAssumption ==
    /\ RootOf \in [Drive -> Disk] /\ PartOf \in [Drive -> Disk]
    /\ Part \subseteq Drive \X Nat
    /\ \A v \in Part : /\ <<RootOf[v[1]], 0>> \in Link
                       /\ <<PartOf[v[1]], v[2]>> \in Link
    /\ NoPath \notin Path /\ Ended = <<"SHUTDOWN", NoPath>>
    /\ Event = ({"NEW", "GONE"} \X Path) \cup {Ended}
    /\ WatchFaults \subseteq SUBSET
        {"slow",                     \* mounting takes more than half a second
         "findmnt", "info", "probe", \* a tool fails
         "several",                  \* a drive is mounted at several places
         "alias",                    \* there are drives that go by two names
         "overflow",                 \* the kernel's queue drops events
         "directory",                \* the working directory is removed
         "isdir",                    \* this is reported as of a directory
         "crash"}                    \* the daemon is killed, or told to stop
    /\ MaxMoves \in [WatchFaults -> Nat]

VARIABLES
    faults,     \* which of the sets it is, once and for all
    node,       \* kernel name of each drive, NoStem if it is not there
    at,         \* what is to be found at each path
    there,      \* whether the working directory exists
    phase,      \* how far main() has come
    scan,       \* entries the scan of the directory has still to visit
    mapped,     \* volume_device_for_mountpoint_, NoLink if not in the map
    shown,      \* Volume::mountpoint_ of the mounted volumes
    job,        \* the mountpoint the daemon works on
    displaced,  \* devices whose entry in the map was overwritten
    moves

placeVars == <<faults, node, at, there, moves>>
mapVars == <<mapped, shown, displaced>>
vars == <<coreVars, eventVars, placeVars, mapVars, phase, scan, job>>

\* A path is free, or has a directory made for a volume, which was mounted
\* from a stem and perhaps unmounted.
Free == [stage |-> "none", part |-> NoPath, stem |-> NoStem]
Places == {Free} \cup [stage : {"mounted"}, part : Part, stem : Stem]
               \cup [stage : {"made", "left"}, part : Part, stem : {NoStem}]

\* A handler that works on a mountpoint: what it does next, and the links
\* udevadm gave it.
NoLink == <<Unnamed, 0>>
NoJob == [step |-> "none", path |-> NoPath, first |-> NoLink, second |-> NoLink]
Jobs == [step : {"none", "look", "disk", "volume", "report"},
         path : Path \cup {NoPath},
         first : Link \cup {NoLink}, second : Link \cup {NoLink}]

WatchTypeOK ==
    /\ CoreTypeOK /\ FdTypeOK
    /\ faults \in WatchFaults
    /\ node \in [Drive -> Stem \cup {NoStem}]
    /\ at \in [Path -> Places] /\ there \in BOOLEAN
    /\ phase \in {"starting", "watching", "scanning", "running", "stopped"}
    /\ scan \in SUBSET Path
    /\ mapped \in [Path -> Link \cup {NoLink}]
    /\ shown \in SUBSET (ID \X Index \X Path)
    /\ job \in Jobs /\ displaced \in SUBSET Link
    /\ moves \in 0..MaxMoves[faults]

\* What is heard of a directory that was made or removed.
New(p) == <<"NEW", p>>
Gone(p) == <<"GONE", p>>

NothingMapped == [p \in Path |-> NoLink]

WatchInit ==
    /\ CoreInit /\ FdInit
    /\ faults \in WatchFaults
    /\ node = [d \in Drive |-> NoStem]
    /\ at = [p \in Path |-> Free] /\ there = TRUE
    /\ phase = "starting" /\ scan = {}
    /\ mapped = NothingMapped /\ shown = {} /\ job = NoJob /\ displaced = {}
    /\ moves = 0

----------------------------------------------------------------------------
(* The others: the kernel, and who mounts                                  *)

daemonVars == <<coreVars, mapVars, job, phase>>

\* A kernel name is free again when nothing is mounted from it.
Plug(d, stem) ==
    /\ moves < MaxMoves[faults] /\ moves' = moves + 1
    /\ node[d] = NoStem /\ stem \in Node[d]
    /\ RootOf[d] = PartOf[d] \/ "alias" \in faults
    /\ \A e \in Drive : node[e] # stem
    /\ \A p \in Path : at[p].stage = "mounted" => at[p].stem # stem
    /\ node' = [node EXCEPT ![d] = stem]
    /\ UNCHANGED <<daemonVars, eventVars, faults, at, there, scan>>

Unplug(d) ==
    /\ node[d] # NoStem
    /\ node' = [node EXCEPT ![d] = NoStem]
    /\ UNCHANGED <<daemonVars, eventVars, faults, at, there, scan, moves>>

\* Nothing happens that the kernel's queue has no room for, or it is dropped.
Room == "overflow" \in faults \/ Len(pending) < QueueMax

\* A directory is made for a volume.  A scan under way may come across it.
MkDir(p, v) ==
    /\ moves < MaxMoves[faults] /\ moves' = moves + 1
    /\ there /\ Room /\ at[p] = Free /\ node[v[1]] # NoStem
    /\ "several" \in faults \/
          \A q \in Path : at[q] # Free => at[q].part[1] # v[1]
    /\ at' = [at EXCEPT ![p] = [stage |-> "made", part |-> v, stem |-> NoStem]]
    /\ Happens(New(p))
    /\ scan' \in IF phase = "scanning" THEN {scan, scan \cup {p}} ELSE {scan}
    /\ UNCHANGED <<daemonVars, faults, node, there>>

Mount(p) ==
    LET stem == node[at[p].part[1]] IN
    /\ at[p].stage = "made" /\ stem # NoStem
    /\ at' = [at EXCEPT ![p].stage = "mounted", ![p].stem = stem]
    /\ UNCHANGED <<daemonVars, eventVars, faults, node, there, scan, moves>>

Umount(p) ==
    /\ at[p].stage = "mounted"
    /\ at' = [at EXCEPT ![p].stage = "left", ![p].stem = NoStem]
    /\ UNCHANGED <<daemonVars, eventVars, faults, node, there, scan, moves>>

RmDir(p) ==
    /\ Room /\ at[p].stage \in {"made", "left"}
    /\ at' = [at EXCEPT ![p] = Free]
    /\ Happens(Gone(p))
    /\ UNCHANGED <<daemonVars, faults, node, there, scan, moves>>

\* The working directory goes, once it is empty.
LoseDirectory ==
    /\ "directory" \in faults /\ there /\ \A p \in Path : at[p] = Free
    /\ there' = FALSE /\ Room
    /\ Happens(Ended)
    /\ UNCHANGED <<daemonVars, faults, node, at, scan, moves>>

World == \/ \E d \in Drive : Unplug(d) \/ \E stem \in Stem : Plug(d, stem)
         \/ \E p \in Path : \/ \E v \in Part : MkDir(p, v)
                            \/ Mount(p) \/ Umount(p) \/ RmDir(p)
         \/ LoseDirectory

----------------------------------------------------------------------------
(* What the tools answer *)

\* What a by-id link resolves to: udev makes and removes it with the drive.
Resolve(l) ==
    LET ds == {d \in Drive : l[1] \in {RootOf[d], PartOf[d]} /\ node[d] # NoStem}
    IN  IF ds = {} THEN NoStem ELSE node[CHOOSE d \in ds : TRUE]

\* A tool that is not faulty answers truly about a node that exists.
Truly(fault, answer) ==
    IF fault \in faults THEN {FALSE, answer} ELSE {answer}

Answer(l) ==
    LET stem == Resolve(l)
        whole == \E v \in Part : v[2] = 0 /\ RootOf[v[1]] = l[1] IN
    {o \in Outcome(stem) :
        /\ o.mkdir
        /\ stem # NoStem =>
              /\ o.info \in Truly("info", l[2] > 0 \/ whole)
              /\ o.probe \in Truly("probe", TRUE)}

----------------------------------------------------------------------------
(* A directory appeared *)

\* The handler is called; half a second passes before it looks.
NewMountpoint(p) ==
    /\ job.step = "none" /\ pc = "idle"
    /\ job' = [NoJob EXCEPT !.step = "look", !.path = p]
    /\ UNCHANGED <<coreVars, mapVars>>

\* The links of the drive and of the volume, which are one if the volume is the
\* whole drive.
FirstLink(v) == <<RootOf[v[1]], 0>>
SecondLink(v) == IF v[2] = 0 THEN FirstLink(v) ELSE <<PartOf[v[1]], v[2]>>

\* mountpoint(1) finds a mount, findmnt names a node the digits of which are the
\* partition's number, and udevadm knows the drive, if only from memory.
LinksFound(place) ==
    /\ place.stage = "mounted" /\ NodeNumber[place.stem] = 0
    /\ node[place.part[1]] \in {place.stem, NoStem}
    /\ job' = [job EXCEPT !.step = "disk",
                          !.first = FirstLink(place.part),
                          !.second = SecondLink(place.part)]

NoLinks(place) ==
    /\ \/ place.stage # "mounted"
       \/ "findmnt" \in faults
       \/ /\ place.stage = "mounted"
          /\ NodeNumber[place.stem] > 0 \/ node[place.part[1]] # place.stem
    /\ job' = NoJob

\* Mutant: the half second is not waited for.
LookEarly ==
    /\ job.step = "look"
    /\ LinksFound(at[job.path]) \/ NoLinks(at[job.path])
    /\ UNCHANGED <<coreVars, eventVars, placeVars, mapVars, phase, scan>>

Look ==
    /\ job.step = "look"
    /\ at[job.path].stage = "made" => "slow" \in faults
    /\ LinksFound(at[job.path]) \/ NoLinks(at[job.path])
    /\ UNCHANGED <<coreVars, eventVars, placeVars, mapVars, phase, scan>>

\* AllDevices::new_entry(l) returns device i ...
EntryIn(i, l, stem) ==
    LET name == IF Number(l, stem) = 0 THEN l[1] ELSE RootName(l) IN
    IsDevice(i, name) \/ (~Known(name) /\ IsNextId(i))

\* ... as it is then, with a volume of it, if any.
Entry(i, l, stem, o) ==
    LET n == Number(l, stem)
        d == IF Registered(i) THEN devices[i]
             ELSE NewDevice(IF n = 0 THEN l[1] ELSE RootName(l))
        index == IF n = 0 THEN Whole ELSE n
        probed == IF n = 0 THEN Probe(d, o.probe) ELSE d
        wanted == o.info /\ (n = 0 => ~Registered(i)) IN
    IF wanted /\ d.vol[index] = NoVolume
    THEN [dev |-> AddVolume(probed, index, stem), vol |-> index]
    ELSE [dev |-> probed,
          vol |-> IF wanted \/ n = 0 THEN LookupVolume(d, index, stem) ELSE NoIndex]

Orphan(l, stem, o) == Number(l, stem) > 0 /\ ~o.info /\ ~Known(RootName(l))

\* Or it returns nothing, or not at all.
NoEntry(l, stem, o) ==
    /\ \/ /\ Orphan(l, stem, o)
          /\ job' = NoJob
          /\ UNCHANGED coreVars
       \/ /\ Spin(l, stem, o)
          /\ UNCHANGED job
    /\ UNCHANGED mapVars

\* The drive's link is handled first, for the sake of the device only.
DiskLink ==
    /\ job.step = "disk" /\ pc = "idle"
    /\ LET l == job.first
           stem == Resolve(l) IN
       \E o \in Answer(l) :
          \/ NoEntry(l, stem, o)
          \/ /\ ~Orphan(l, stem, o)
             /\ \E i \in ID :
                   /\ EntryIn(i, l, stem)
                   /\ Store(i, Entry(i, l, stem, o).dev)
             /\ job' = [job EXCEPT !.step = "volume"]
             /\ bug' = "none"
             /\ UNCHANGED <<pc, cur, todo, catalog, catVolumes, mapVars>>
    /\ UNCHANGED <<eventVars, placeVars, phase, scan>>

\* Mutant: the link of the volume is remembered.
RememberVolume ==
    /\ mapped' = [mapped EXCEPT ![job.path] = job.second]
    /\ displaced' = displaced \cup ({mapped[job.path]} \ {job.first, NoLink})

\* The drive's link is remembered for the directory.
Remember ==
    /\ mapped' = [mapped EXCEPT ![job.path] = job.first]
    /\ displaced' = displaced \cup ({mapped[job.path]} \ {job.first, NoLink})

\* Nothing to report: no volume, or a device that is not usable.
Pass(i, e, info) ==
    LET f == IF e.vol = NoIndex THEN e.dev ELSE Filter(e.dev) IN
    /\ e.vol = NoIndex \/ f.state # "OK"
    /\ Store(i, f)
    /\ bug' = IF info /\ e.vol = NoIndex THEN "insertion" ELSE "none"
    /\ UNCHANGED <<pc, cur, todo, catalog, catVolumes>>
    /\ job' = NoJob

\* The device is announced, again if it was, and its volume is next.
Adopt(i, e) ==
    LET f == Filter(e.dev) IN
    /\ e.vol # NoIndex /\ f.state = "OK"
    /\ Store(i, [f EXCEPT !.dir = "created"])
    /\ Announce(i)
    /\ UNCHANGED catVolumes
    /\ IF f.vol[e.vol].state = "PENDING"
       THEN /\ StartMounting(i, {e.vol})
            /\ bug' = IF f.dir = "created" THEN "container" ELSE "none"
            /\ job' = [job EXCEPT !.step = "report"]
       ELSE /\ bug' = "remount" /\ job' = NoJob
            /\ UNCHANGED <<pc, cur, todo>>

\* Then the link of the volume, which may be the same.
VolumeLink ==
    /\ job.step = "volume" /\ pc = "idle"
    /\ LET l == job.second
           stem == Resolve(l) IN
       \E o \in Answer(l) :
          \/ NoEntry(l, stem, o)
          \/ /\ ~Orphan(l, stem, o)
             /\ \E i \in ID :
                   /\ EntryIn(i, l, stem)
                   /\ LET e == Entry(i, l, stem, o) IN
                      Pass(i, e, o.info) \/ Adopt(i, e)
             /\ Remember
             /\ UNCHANGED shown
    /\ UNCHANGED <<eventVars, placeVars, phase, scan>>

\* try_mount_volume: there is nothing to mount, so nothing fails.
Report ==
    /\ \E k \in todo :
          /\ MountVolume(k, TRUE)
          /\ shown' = shown \cup {<<cur, k, job.path>>}
    /\ job' = NoJob
    /\ UNCHANGED <<mapped, displaced, eventVars, placeVars, phase, scan>>

----------------------------------------------------------------------------
(* A directory disappeared *)

MountpointGone(p) ==
    /\ job.step = "none" /\ pc = "idle"
    /\ IF mapped[p] = NoLink THEN UNCHANGED coreVars
                             ELSE HandleRemovedDevice(mapped[p])
    /\ mapped' = [mapped EXCEPT ![p] = NoLink]
    /\ UNCHANGED <<shown, displaced, job>>

Drop ==
    /\ \/ \E k \in todo :
             /\ DropVolume(k)
             /\ shown' = {s \in shown : s[1] # cur \/ s[2] # k}
             /\ UNCHANGED displaced
       \/ /\ DropDevice
          /\ displaced' = displaced \ {<<devices[cur].link, 0>>}
          /\ UNCHANGED shown
    /\ UNCHANGED <<mapped, job, eventVars, placeVars, phase, scan>>

----------------------------------------------------------------------------
(* main() *)

SetUpWatch ==
    /\ phase = "starting" /\ there
    /\ Watch /\ phase' = "watching"
    /\ UNCHANGED <<coreVars, placeVars, mapVars, job, scan>>

OpenDirectory ==
    /\ phase = "watching" /\ there
    /\ phase' = "scanning" /\ scan' = {p \in Path : at[p] # Free}
    /\ UNCHANGED <<coreVars, eventVars, placeVars, mapVars, job>>

ScanEntry(p) ==
    /\ phase = "scanning" /\ p \in scan /\ scan' = scan \ {p}
    /\ NewMountpoint(p)
    /\ UNCHANGED <<eventVars, placeVars, phase>>

EnterMainLoop ==
    /\ phase = "scanning" /\ scan = {} /\ job.step = "none" /\ pc = "idle"
    /\ phase' = "running"
    /\ UNCHANGED <<coreVars, eventVars, placeVars, mapVars, job, scan>>

\* FdEvents::process reads ...
Read ==
    /\ phase = "running" /\ job.step = "none" /\ pc = "idle"
    /\ FillBuffer
    /\ UNCHANGED <<coreVars, placeVars, mapVars, job, phase, scan>>

\* ... and hands over event by event.  If the loss of the directory is reported
\* as of anything but a directory it is ignored, and the daemon is deaf.
Dispatch ==
    /\ phase = "running"
    /\ \/ \E p \in Path : \/ Handed(New(p)) /\ NewMountpoint(p)
                          \/ Handed(Gone(p)) /\ MountpointGone(p)
          /\ UNCHANGED phase
       \/ /\ HandedLast
          /\ IF "isdir" \in faults
             THEN Shutdown /\ phase' = "stopped" /\ shown' = {}
             ELSE pc = "idle" /\ UNCHANGED <<coreVars, phase, shown>>
          /\ job.step = "none" /\ UNCHANGED <<job, mapped, displaced>>
    /\ UNCHANGED <<placeVars, scan>>

\* Killed at any point, or ended by SIGTERM, or for want of a directory.
Die ==
    /\ \/ "crash" \in faults
       \/ phase \in {"starting", "watching"} /\ ~there
    /\ phase # "stopped" /\ phase' = "stopped"
    /\ Stop /\ Vanish
    /\ job' = NoJob /\ mapped' = NothingMapped
    /\ shown' = {} /\ displaced' = {} /\ scan' = {}
    /\ UNCHANGED placeVars

StartAgain ==
    /\ phase = "stopped" /\ phase' = "starting"
    /\ Restart
    /\ mapped' = NothingMapped /\ shown' = {} /\ displaced' = {}
    /\ UNCHANGED <<eventVars, placeVars, job, scan>>

Daemon == \/ SetUpWatch \/ OpenDirectory \/ EnterMainLoop
          \/ \E p \in Path : ScanEntry(p)
          \/ Read \/ Dispatch
          \/ Look \/ DiskLink \/ VolumeLink \/ Report \/ Drop

WatchNext == World \/ Daemon \/ Die \/ StartAgain

WatchSpec == WatchInit /\ [][WatchNext]_vars

----------------------------------------------------------------------------
(* Why what is shown is there, and what is there is shown: the inductive     *)
(* invariants behind the properties below.                                  *)

\* All that is still to be handled, and what is in such a sequence of events.
Coming == batch \o pending

GoneIn(q, p) == \E k \in 1..Len(q) : q[k] = Gone(p)

\* Whatever is still to be handled of p ends with its removal.
Forgotten(q, p) ==
    \A k \in 1..Len(q) :
        q[k] = New(p) => \E j \in (k + 1)..Len(q) : q[j] = Gone(p)

\* The links the daemon works on are those of one volume, and it tells of a
\* volume at a directory that leads to its device.
JobRight ==
    /\ JobConsistent
    /\ pc = "mount" <=> job.step = "report"
    /\ job.step \in {"look", "disk", "volume"} => pc \in {"idle", "spinning"}
    /\ IF job.step = "none" THEN job = NoJob ELSE job.path \in Path
    /\ job.step = "look" => job.first = NoLink
    /\ job.step \in {"disk", "volume", "report"} =>
          \E v \in Part : job.first = FirstLink(v) /\ job.second = SecondLink(v)
    /\ job.step = "report" =>
          /\ \E k \in Index : todo = {k}
          /\ mapped[job.path] = <<devices[cur].link, 0>>
          /\ mapped[job.path] = job.first

\* A daemon knows of nothing before it scans the directory, and scans it once.
PhaseRight ==
    /\ phase = "stopped" <=> pc = "stopped"
    /\ phase \in {"stopped", "starting", "watching"} => job = NoJob /\ shown = {}
    /\ phase \in {"starting", "watching"} =>
          /\ pc = "idle" /\ mapped = NothingMapped
          /\ \A i \in ID : ~Registered(i)
    /\ phase # "scanning" => scan = {}

\* A device is probed under the first name of its drive only, and has either
\* been told of or nothing to show.
AdoptedRight ==
    \A i \in ID : Registered(i) =>
        LET dev == devices[i] IN
        /\ dev.state = "SYNTHETIC" \/ \E d \in Drive : dev.link = RootOf[d]
        /\ dev.dir = (IF dev.state = "OK" THEN "created" ELSE "unset")
        /\ dev.dir = "unset" => Mounted(dev) = {}

\* The map leads from a directory to the first name of a drive, and from where
\* a volume is shown to its device.
MapRight ==
    /\ \A p \in Path : mapped[p] # NoLink => \E d \in Drive : mapped[p] = <<RootOf[d], 0>>
    /\ \A s \in shown :
          LET link == <<devices[s[1]].link, 0>> IN
          /\ s[2] \in Mounted(devices[s[1]])
          /\ link \notin displaced /\ ~(pc = "drop" /\ cur = s[1])
             => mapped[s[3]] = link

\* Directories that are gone do not take the daemon in: that they are gone is
\* still to be handled, behind all that speaks of them.
RemovalsFollow ==
    "overflow" \notin faults /\ fd = "open" =>
        \A p \in Path : at[p] = Free =>
            /\ Forgotten(Coming, p)
            /\ mapped[p] # NoLink \/ job.path = p \/ p \in scan => GoneIn(Coming, p)

\* All of it together is preserved by every step: what clients are told, and
\* at which directories volumes are, follows what happens there.
WatchInv ==
    /\ WatchTypeOK
    /\ UniqueLinks
    /\ ClientViewExact
    /\ JobRight
    /\ PhaseRight
    /\ AdoptedRight
    /\ MapRight
    /\ RemovalsFollow

\* p is still to be looked at, after all its removals.
Renewed(q, p) ==
    \E k \in 1..Len(q) :
        q[k] = New(p) /\ \A j \in (k + 1)..Len(q) : q[j] # Gone(p)

GoneBeforeNew(q, gone, new) ==
    \E j, k \in 1..Len(q) :
        j < k /\ q[j] = Gone(gone) /\ q[k] = New(new)

\* Drives that go by one name and are always found by it: a link that does not
\* resolve is taken for a volume if its own name ends in a number.
Plain(d) ==
    /\ RootOf[d] = PartOf[d]
    /\ NameNumber[RootOf[d]] = 0 \/ <<d, 0>> \notin Part

\* The index under which a volume is known.
IndexOf(v) == IF v[2] = 0 THEN Whole ELSE v[2]

\* What is mounted at p should be reported.
Wanted(p) ==
    LET place == at[p]
        d == place.part[1] IN
    /\ place.stage = "mounted" /\ node[d] = place.stem
    /\ Plain(d) /\ IsAcceptable(RootOf[d]) /\ NodeNumber[place.stem] = 0

Staying(i) == Registered(i) /\ ~(pc = "drop" /\ cur = i)

\* When p goes, or has been looked at, the device of link l will go, ...
Bound(p, l) == mapped[p] = l \/ (job.path = p /\ job.first = l)

\* ... unless it was not registered.
Held(p, l) == mapped[p] = l \/ (job.path = p /\ job.step = "volume" /\ job.first = l)

\* What is at p is reported as what it is, or about to be.
Good(i, p) ==
    LET stem == at[p].stem
        k == IndexOf(at[p].part)
        vol == devices[i].vol[k] IN
    \/ vol = [state |-> "MOUNTED", stem |-> stem] /\ <<i, k, p>> \in shown
    \/ /\ job.path = p /\ job.step = "volume" /\ devices[i].state = "PROBED"
       /\ vol = IF k = Whole THEN [state |-> "PENDING", stem |-> stem] ELSE NoVolume
    \/ /\ job.path = p /\ job.step = "report" /\ cur = i /\ todo = {k}
       /\ vol = [state |-> "PENDING", stem |-> stem]

\* There is a directory behind the device of a drive.
DrivesHeld ==
    \A d \in Drive : Plain(d) => LET l == <<RootOf[d], 0>> IN
        \A i \in ID : Staying(i) /\ devices[i].link = RootOf[d] /\ l \notin displaced
                     => \E p \in Path : Held(p, l)

\* What the daemon knows or is about to learn of a directory is true of it, or
\* it will hear that the directory has gone.
PlacesBound ==
    \A p \in Path : ~GoneIn(Coming, p) =>
        /\ \A l \in Link : Bound(p, l) =>
              at[p].stage \in {"mounted", "left"} /\ l = FirstLink(at[p].part)
        /\ job.path = p /\ job.step \in {"disk", "volume", "report"} =>
              job.second = SecondLink(at[p].part)

\* No removal of another directory that is still to be handled will take the
\* device of the drive at p away for good.
Safe(p) ==
    LET l == FirstLink(at[p].part) IN
    /\ \A q \in Path : at[q] # Free /\ at[q].part[1] = at[p].part[1] => q = p
    /\ GoneIn(Coming, p) => Renewed(Coming, p)
    /\ \A q \in Path \ {p} : Bound(q, l) => GoneBeforeNew(Coming, q, p)
    /\ pc = "drop" /\ devices[cur].link = l[1] => Renewed(Coming, p)

\* The daemon has been to p, or will.
Visited(p) ==
    LET l == FirstLink(at[p].part) IN
    \/ phase \in {"starting", "watching"} \/ p \in scan \/ Renewed(Coming, p)
    \/ job.path = p /\ job.step = "look"
    \/ /\ at[p].stage # "made"
       /\ Wanted(p) => \/ l \in displaced
                       \/ job.path = p /\ job.step = "disk"
                       \/ \E i \in ID : Staying(i) /\ devices[i].link = l[1]

\* If it has been there and need not go again, then with success.
Fit(p) ==
    LET l == FirstLink(at[p].part) IN
    Wanted(p) /\ ~GoneIn(Coming, p) =>
        /\ job.path = p /\ job.step = "volume" => Known(l[1])
        /\ l \notin displaced /\ (\A q \in Path \ {p} : ~Bound(q, l)) =>
              \A i \in ID : Staying(i) /\ devices[i].link = l[1] => Good(i, p)

\* The daemon listens, and will go on listening.
Listening ==
    /\ there /\ phase # "stopped"
    /\ phase \in {"watching", "scanning", "running"} => fd = "open"
    /\ \A k \in 1..Len(Coming) : Coming[k] # Ended

Reporting ==
    /\ DrivesHeld /\ PlacesBound
    /\ \A p \in Path : at[p] # Free => Safe(p) /\ Visited(p) /\ Fit(p)

\* As long as nothing goes wrong, each volume that is mounted by somebody is on
\* its way to be reported, or is.
ReportInv ==
    faults \subseteq {"alias"} =>
        Listening /\ (pc # "spinning" => Reporting)

----------------------------------------------------------------------------
(* Properties *)

\* Every event has been handled.
Settled ==
    /\ phase = "running" /\ fd = "open" /\ pending = <<>> /\ batch = <<>>
    /\ job.step = "none" /\ pc = "idle"

\* Once every event has been handled, and if nothing went wrong, each volume
\* somebody mounted is announced, at the directory where it is: whatever other
\* volumes were in that directory before, whether the scan or an event led to
\* it, and though the daemon asks for what is mounted long after it heard of
\* the directory.  It takes a drive that goes by one name, and a directory the
\* map had no other drive for.  If the name of a drive without partitions ends
\* in a number, the drive must not be pulled out between the daemon's two looks
\* at it either: it would take it for a volume of that number the second time,
\* give up, and keep a device that no directory leads to.
MountsReported ==
    faults \subseteq {"alias"} /\ Settled => \A p \in Path :
        LET d == at[p].part[1]
            k == IndexOf(at[p].part) IN
        Wanted(p) /\ <<RootOf[d], 0>> \notin displaced => \E i \in ID :
            /\ IsDevice(i, RootOf[d])
            /\ <<i, k>> \in catVolumes /\ <<i, k, p>> \in shown
            /\ devices[i].vol[k].stem = at[p].stem

\* What is announced is there: once every event has been handled, and whatever
\* failed, the directory at which a volume is shown exists, and the daemon will
\* know which device to remove when it goes.  The exceptions are events the
\* kernel dropped, and devices whose entry in the map was overwritten: the scan
\* saw a directory that was then removed and made again for another drive
\* before its first event was handled.
ReportedAreThere ==
    Settled /\ "overflow" \notin faults => \A s \in shown :
        LET link == <<devices[s[1]].link, 0>> IN
        link \notin displaced => at[s[3]] # Free /\ mapped[s[3]] = link

\* What the daemon has still to do: ways to the main loop, directories and
\* events (one that was not read has to be read as well), and steps of the
\* handler.
PhasesLeft == CASE phase = "starting" -> 3
                [] phase = "watching" -> 2
                [] phase = "scanning" -> 1
                [] OTHER -> 0
EventsLeft == Cardinality(scan) + 2 * Len(pending) + Len(batch)
LinksLeft == CASE job.step = "look" -> 5
               [] job.step = "disk" -> 4
               [] job.step = "volume" -> 3
               [] OTHER -> 0
StepsLeft == LinksLeft + Cardinality(todo) + (IF pc = "drop" THEN 1 ELSE 0)
                       + (IF pc = "spinning" THEN 0 ELSE 1)

\* Left alone the daemon comes to rest, whatever it finds and whatever fails:
\* no step of it, in whatever state, leaves as much to do as there was.  No
\* event is handed over twice, nothing is looked at again and again, and the
\* loops over volumes end.
WorkShrinks ==
    [][Daemon => \/ PhasesLeft' < PhasesLeft
                 \/ PhasesLeft' = PhasesLeft /\ EventsLeft' < EventsLeft
                 \/ /\ PhasesLeft' = PhasesLeft /\ EventsLeft' = EventsLeft
                    /\ StepsLeft' < StepsLeft]_vars

=============================================================================
