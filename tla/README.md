# MounTA: a verification project

MounTA is a small daemon that mounts USB mass storage devices as they appear
under `/dev/disk/by-id` and tells its D-Bus clients what can be found where.
This directory holds TLA+ models of it, the TLC configurations that check them
on small instances, and proofs of their main properties for instances of any
size. Paths such as `automounter.cc:248` are relative to `src/src/`.

Contents: [the system](#the-system) · [the modules](#the-modules) ·
[from code to model](#from-code-to-model) · [the runs](#the-runs) ·
[where code and documentation disagree](#where-code-and-documentation-disagree) ·
[the proofs](#the-proofs) · [not modelled](#not-modelled) · [plan](#plan)

## The system

| Component | State it keeps | Operations | What makes it correct |
|---|---|---|---|
| Device and volume objects (`devices.cc`, `devices.hh`) | per device: link name, state, directory, volumes by index; per volume: node, state, mountpoint | probe, accept/reject, look up and add a volume, drop all, make the directory | mounting is deferred until the device is usable; a volume is tried once |
| Device manager (`device_manager.cc`) | the map from ID to device, the last ID given out | `new_entry`, `remove_entry`, ID allocation | one device per link name; IDs unique; a removal finds its device |
| Automounter core (`automounter.cc`) | none of its own, drives the device manager | `handle_new_device`, `handle_removed_device`, `shutdown` | whatever order links are handled in, what can be mounted is |
| Signals and `GetAll` (`automounter.cc`, `dbus_handlers.cc`) | none | four signals, one method | what clients are told is what there is, at every moment |
| Main program (`mounta.cc`) | the main loop | clean up, watch, scan, dispatch, quit on a signal | nothing that appears around startup is missed |
| inotify events (`fdevents.cc`) | descriptor, watch, read buffer | `watch`, `process` | events are handled in order; the end of the directory ends the program |
| Directories and mountpoints (`autodir.cc`) | path, whether created, whether mounted | create, probe, mount, clean up | nothing is left over, or in the way of the next device |
| Device queries (`devices_os.cc`, `devices_util.c`) | none | run `udevadm`/`findmnt`, parse | the answer is about the device that was asked for |
| Watch mode (`--watch`) | a map from mountpoint to the link of its disk | two handlers of mountpoints | what others mount is reported, what is reported is there, and is withdrawn |
| Label symlinks (`devices.cc:189`) | a link per mounted volume | made on mounting, removed with the volume | a link leads to the volume it was made for |
| D-Bus connection (`dbus_iface.c`) | whether the bus name was acquired | wait for the name, give up | a signal is heeded whenever it comes |
| Command line | - | - | - |

How they interact: the kernel and udev change the directory of links; inotify
queues an event, a name and no more; `FdEvents::process` reads events in the
GLib main loop and calls `handle_device_changes`, which calls the automounter;
the automounter asks the device manager, which resolves the link and runs
external tools at that moment; the automounter then runs `mount` and emits
signals. Everything in the process happens on one thread. Everything else
(disks, udev, clients, the tools) runs beside it.

What is hard here, and why tests hardly reach it:

- **Order.** A partition may be handled before its disk, or long after;
  the scan at startup and the event queue report the same links.
- **Stale names.** A link is resolved when its event is handled. It may then be
  gone, or resolve to the node of a disk that was plugged in later.
- **Visible intermediate states.** A handler announces a device, then mounts and
  announces one volume after the other, each taking as long as the tools take.
- **Failure of one step among several**: the directory cannot be made, one of
  several volumes does not mount, `umount` fails.
- **A tree that outlives the process**: directories, mounts and links by label
  stay after a kill, and the next daemon gives out the same IDs.
- **Others that act at the same time**: udev writes its database while it is
  asked, and in watch mode somebody else mounts while the daemon looks.
- **Events that come in batches, or not at all**: the kernel's queue has an end.

`PROJECT.json` lists these hazards one by one, each at its line and with the
properties that cover it.

## The modules

| Module | Models |
|---|---|
| `Devices` | links, nodes, the records of devices and volumes and the operations on one record; no state |
| `UsbCatalog` | abstract specification: the catalogue that clients build from the signals |
| `Automounter` | the automounter core with its device manager and the client's view; the environment is open: any event, any answer |
| `Mounta` | the daemon in its world: disks, udev, the inotify queue, signals, `main()`; EXTENDS `Automounter` |
| `MountTree` | the automounter with its working directory and its links by label on disk; EXTENDS `Automounter` |
| `EventStream` | abstract specification: events reach the handler once and in order until the last one |
| `FdEvents` | the class of that name: descriptor, kernel queue, buffer; implements `EventStream` |
| `WatchMode` | the daemon with `--watch` and those who mount; EXTENDS `Automounter` (for its devices, clients and removal) and `FdEvents` |
| `UdevInfo` | one query of udev: its lines, parsing them, the retries |
| `MCAutomounter`, `MCMounta`, `MCMountTree`, `MCWatchMode`, `MCUdevInfo` | instances for TLC |
| `Automounter_proofs` | the inductive invariant of `Automounter` and its consequences |
| `AutomounterSteps_proofs` | refinement of `UsbCatalog`, a property of steps, the supply of IDs |
| `Mounta_proofs` | `Mounta` implements `Automounter`, and what follows from it; its types; no device outlives its disk, no mount its node |
| `MountaServes_proofs` | every disk that is there ends up with all its volumes mounted |
| `MountTree_proofs` | `MountTree` implements `Automounter`; directories, mounts and links are right |
| `WatchMode_proofs` | `FdEvents`, as watch mode uses it, implements `EventStream`, and watch mode `UsbCatalog`; what is shown is there |
| `WatchReports_proofs` | in watch mode what is there is shown |
| `UdevInfo_proofs` | what a query of udev returns, by induction on the lines |

`Automounter` has the weakest environment: its results hold for any behaviour of
kernel, udev and tools. `Mounta` adds a world in which one can say what *should*
be mounted. `MountTree` adds the file system the tools act on. Both take each
step of the automounter as it stands, together with a step of their own part,
so the properties of `Automounter` hold in them as well, which is
proved. `WatchMode` takes over the state of the automounter and its handler of
removals, and has handlers of its own for what appears: it does not implement
`Automounter`, but what clients receive is the same catalogue, so it implements
`UsbCatalog` too.

## From code to model

**Links and nodes.** A link is a pair of disk and number; number 0 is the disk's
own link. What it resolves to is a *stem* (`sda`), to which the number is
appended. The volume number is that of the node the link resolves to, and of the
link's own name if it does not resolve (`device_manager.cc:64`). So a disc drive
whose node is `sr1` counts as partition 1 of a disk whose name cannot be made,
the code's empty string (`Unnamed`). Two volumes on one device have the same
node exactly if they have the same stem and index.

**IDs.** `NewRootDevice` and `NewPartition` take the ID the loop of `mk_device`
ends with: the first one not registered, counting from the last one given out,
with wrap-around (`IsNextId`). If there is none the loop never ends (`Spin`).

**`handle_new_device`** is one action, `HandleNewDevice`, up to its first signal:
`NewRootDevice`, `KnownRootDevice`, `NewPartition`, `UnreadablePartition` are the
ways through `new_entry`; `Keep`, `SetUp`, `TryMount` the three ways through the
rest (`Proceed`). The record `o` holds the answers of the queries it may make.
From there on each volume is a step (`MountVolume`), since mounting takes time
and a signal follows each. **`handle_removed_device`** is likewise
`HandleRemovedDevice` (first signal), `DropVolume` for each volume, and
`DropDevice` (second signal). While `pc` is not `"idle"` no other handler starts:
there is one thread.

**`MSG_BUG`**, the code's mark for what its author holds impossible, is the
variable `bug`; where the state does not depend on it, it changes nothing.

**Clients.** `catalog` and `catVolumes` are what a client that has listened from
the start makes of the signals. `GetAllDevices` and `GetAllVolumes` are what one
that asks is told.

**The end.** `Stop` is SIGTERM or a crash: `main` returns without calling
`shutdown`, and since devices and volumes own each other (`devices.hh:254`)
clearing the map destroys
no device that has volumes, so mounts stay. `Shutdown` is `Core::shutdown`: the loop
increments an iterator that was erased, which is undefined; the model lets it end
after any device, and never before the first. The sweep after it gets names
without their directory and so does nothing, and is left out.

**The world (`Mounta`).** A disk gets one of several kernel names each time it is
plugged. udev makes links under a temporary name, which the name filter drops,
and renames them, so one event is seen per link. The disk's link is made first
and removed last. The answers of the tools (`Answer`, `MountAnswers`) depend on
what the link resolves to at that moment: about a node that is gone the udev
database may or may not still answer, mounting it fails. Which faults may occur
is chosen in `Init` from `FaultSets` and stays, so that one run covers several
combinations. A scan is the set of entries still to visit; entries that appear
meanwhile may or may not be visited.

**Startup and signals (`Mounta`).** `Connect` ends the loop of `dbus_setup`, which
serves the main context until the bus has decided about the name. The handler of SIGTERM
may be called there (`SwallowSignal`): it quits a loop that does not run yet,
which has no effect, and returns `G_SOURCE_REMOVE`, so that the next signal
kills (`TerminateAgain`). Later a signal waits until the main loop looks at it
between two handlers (`HeedSignal`). `GiveUp` is each `return EXIT_FAILURE` after
that: the name is denied, `/dev/disk/by-id` is missing or vanishes before the
scan, so a system that has no disk yet may have no daemon.

**The end of the watched directory.** Normal mode ignores the event if it is
reported as one of a directory (`mounta.cc:250`), watch mode if it is not
(`mounta.cc:275`). Whatever the kernel reports, one of the modes never shuts
down: its descriptor is closed and it stays, deaf. Both cases are in the models
(fault `"isdir"`).

**The tree (`MountTree`).** `tops`, `dirs` and `mounts` are the directories of
devices, the mountpoints in them and what is mounted. Making a directory fails if
it exists (`os_mkdir_hierarchy` is called with "must not exist"; it is part of an
external library and modelled from this use). `rmdir` succeeds on what is empty
and not mounted; its 20 retries are one step. A new daemon first unmounts and
removes what it finds (`cleanup_working_directory`).

**Links by label (`MountTree`).** The label is that of the file system or, if it has
none, its type, so two sticks often want the same name. The names tried are "X",
"X-2", "X-2-3" and so on (each is made from the one before), given here as a list
for each label. `stat` follows links, so a link that leads nowhere looks free
(`Taken`), and `symlink` then fails on it (`MakeSymlink`); the volume goes
without. A link is removed with its volume (`Unlink`); nothing removes those an
earlier daemon left behind (`Orphans`), not even the cleanup at startup.

**Events (`FdEvents`).** `FillBuffer` is one `read`, `Handed` the return of the
handler from one event of the batch, `HandedLast` the return from the last of all,
after which the rest of the batch is not looked at. The kernel drops what its
queue has no room for; the overflow event it leaves has none of the bits
`process` tests. `DeliversStream` maps batch and queue to the one stream of
`EventStream`. `Mounta` uses a queue only: it was checked first, and
`DeliversStream` is what makes it a fair picture of buffer and queue.

**Watch mode.** The world makes a directory, mounts a volume on it, unmounts,
removes the directory, and plugs and unplugs drives. The handler is in steps,
since others act meanwhile: `NewMountpoint` starts the wait of half a second,
`Look` runs `mountpoint`, `findmnt` and `udevadm`, `DiskLink` and `VolumeLink` are
the two calls of `new_entry` (`Entry` is what it returns), `Report` announces the
volume. `MountpointGone` takes the entry out of the map and goes on as
`HandleRemovedDevice`. What the model shows besides its properties:

- a drive that udevadm lists under two names (say `ata-...` and `wwn-...`) is
  looked up under one and its partition under the other; it is never reported,
  and a made-up device stays in the map;
- drives whose node carries a number (`sr1`, `mmcblk0`) cannot be mapped, since the
  digits are stripped from what findmnt says;
- a second mountpoint of one disk announces the device again, with the new path,
  and removing either withdraws it;
- a drive without partitions whose name ends in a number, pulled out between the
  two looks at its link (`DiskLink`, `VolumeLink`): a link that does not resolve is
  judged by its name, so the second look takes the drive for a volume of that number
  and the handler gives up. The device stays, and no directory leads to it
  (`Plain`). The proof of `MountsReported` failed on this;
- a directory made and removed again without a mount raises the `MSG_BUG` of
  `device_manager.cc:226`;
- if a path seen by the scan is made again for another drive before its first
  event is handled, its entry in the map is overwritten and nothing removes
  the first device any more (`displaced`).

**Queries (`UdevInfo`).** `db` is what udev would print now; it learns a line at a
time, anywhere among the others, and may start over once. A line is given by what
it is about (one of three UUIDs, label, type, path) and whether it has a value. `Ask`
is one attempt: parse the lines one after the other (`ReadLines`), name what has
no UUID, decide. `info` is kept between attempts, the kind of the UUID is not.
An empty UUID overwrites a worse one without counting, so nothing is made up for
it and the query fails although an identification was there (`FailsForReason`). After
udev started over, a label read before may be returned with the new volume.

## The runs

`automounter` and two of the runs of `MountTree` check deadlock. The others do
not: in `Mounta` and `WatchMode` the world comes to rest when the bounds are used up
and the daemon has nothing to do, a query ends, and in `tree` the bound on
orphaned links stops a daemon that would have to leave more.

| Run | Instance | Shows |
|---|---|---|
| `automounter` | a stick with two partitions, a card of which only a partition's link is ever seen, a foreign link; two nodes, one with a number of its own (`sr1`); 3 IDs; every answer free | the safety properties of `Automounter`, that `CoreInv` is invariant, that the signals implement `UsbCatalog` |
| `mounta_settles` | two sticks, one of them without a partition table, two nodes they may swap (symmetric); 3 plugs; no faults | `Converged`: when all is handled, what is plugged in is mounted; `ServeInv`, why |
| `mounta_faults` | a stick and a drive on `sr1`; 2 plugs, 1 partition change; four sets of faults: failing tools, no directory, no name and crashes; takeover of links and repartitioning; links in any order and the end of the directory; overflow | `NoGhosts`, `NoStaleMounts`, `Converged` for what no dropped event was about; `TraceInv`, why the first two hold |
| `mounta_live` | one stick with one partition, two nodes; 2 plugs; without faults, or with SIGTERM and crashes; fairness | `StickServed`, `StickForgotten`, `StopsWhenTold`; `WorkShrinks` |
| `tree` | two disks, two IDs, one label for all and three names for it; links and all tools sound, or `symlink` and `unlink` failing, or, without links, `mkdir` and `mount`, or `umount` too | `TreeExact`, `NothingForeign`, `OwnLinksRight`, `LinkedUnlessStale`, `OrphanedByTheEndOnly` |
| `watch` | a partitioned stick whose name ends in a number and a drive without a table, each with two possible nodes, and a drive with two names; two paths (nodes and paths symmetric); two IDs; buffer and queue of two events; six sets of faults | `MountsReported`, `ReportedAreThere`; `WatchInv` (with `WatchTypeOK` and `ClientViewExact` among its parts) and `ReportInv`, why they hold; `WorkShrinks`; the refinements of `UsbCatalog` and `EventStream` |
| `udev_query` | up to three lines in any order, three attempts; a device, a whole disk, a partition | `BestUUID`, `FailsForReason`, `OneVolume`, `QueryEnds`; `QueryInv`, why the first three hold |
| five more | small instances | see the next section |

The properties worth knowing:

- `ClientViewExact`: between any two steps, also in the middle of a handler, a
  client knows exactly the devices that have a directory and exactly the volumes
  that are mounted. `LateClientCatchesUp`: one that asks gets the same, but for
  devices whose directory could not be made, which `GetAll` lists although they
  are never announced.
- `NoVolumeForgotten`, `DeferredMounting`: nothing is mounted too early, and
  nothing that waits for its device waits for ever, in whatever order links come.
- `UniqueLinks`: a removal event can mean one device only.
- `SetUpOnce`: of the three ways to learn that a device is new, at most one
  leads to its directory being made.
- `SettledVolumesStay`: no event but the removal of its device touches a volume
  that was mounted or given up.
- `NeverSpins`: with at least as many IDs as there are names a device may have,
  one is free. With fewer the allocation does spin (the `watch` run has such
  states; so has the code, with 999 devices).
- `Converged`, `NoGhosts`, `NoStaleMounts`: whatever came in between, in the end
  the daemon's state agrees with the world.
  Dropped events do harm only to the disk they were about, until it is removed.
- `StopsWhenTold`: from the moment the bus name is there, SIGTERM ends the daemon,
  though a scan and any number of events may come first.
- `WorkShrinks`: each step of the daemon, in whatever state and whatever fails, leaves
  less to do than there was: fewer phases to the main loop, or fewer links and events,
  or fewer steps of the handler. So left alone the daemon comes to rest.
- `TreeExact`: as long as `umount` works the tree is what the daemon believes,
  also after it was killed anywhere. `NothingForeign`: even if `umount` fails, no
  client finds something of an earlier device under a new one's directory.
- `OwnLinksRight`: a link the daemon made leads to the volume it was made for, and
  to no other, also among links earlier daemons left. `LinkedUnlessStale`: only
  such a link can keep a volume from having one. `OrphanedByTheEndOnly`: no
  link outlives its volume while the daemon runs.
- `MountsReported`, `ReportedAreThere`: when all events are handled, what others
  mounted is announced at the path where it is, and what is announced is there;
  with the exceptions listed under watch mode.
- `TraceInv`, `ServeInv`, `WatchInv`, `ReportInv`, `QueryInv` are inductive invariants.
  The runs look for a step that breaks one before a proof is tried, and for the
  states each is about; [the proofs](#the-proofs) tell what they say.
- `DeliversStream`: whatever the sizes of buffer and queue, events reach the
  handler once, in order, and none after the end.
- `BestUUID`: whatever the order of lines and the earlier attempts, the best UUID
  of the last answer is returned. `FailsForReason`: a query fails for lack of a
  type or path in the last answer, or for an empty UUID, and for nothing else.

**Bounds.** `MaxId = 3` in `automounter` is the number of names a device may have
there (`usb`, `card`, and the empty one): one less and IDs run out, and with three
the allocation already wraps around. In it one device at a time is announced; two
are in `mounta_settles`, `tree` and `watch`, which therefore checks the refinement
of `UsbCatalog` again. The runs of `Mounta` likewise have an ID for each name, and so
has `tree`; in `watch` IDs run out. `MaxPlugs` of 2 is a replug, the shortest history in
which something stale can exist; 3 adds one for the other disk. In `mounta_settles`,
`QueueMax = 6` holds all events of a stick that is plugged, pulled and plugged again,
while the daemon has not read one; more than that and udev waits, as in no other passing run
of `Mounta`, where `QueueMax` is at least the number of events the plugs and edits make. With `"overflow"` any event may be
dropped, since the kernel's limit of 16384 is on all events, not on ours. `MaxEdits`
bounds changes of the partition table. `OrphanMax = 2` of three names leaves one
free; with all names orphaned there is no search left to look at.

In `watch`, `MaxMoves` counts drives plugged and directories made: five of them
make two drives and three mounts, one path twice, without faults; four with a drive of two
names, or crashes and the end of the directory; three, a drive and two mounts of it,
where tools fail, and where a drive is mounted twice and events are dropped. `BatchMax = QueueMax = 2`: a full batch is being handled while a full queue
waits, and with `"overflow"` more is lost; otherwise the world waits for room.
Two IDs for four names let IDs run out. In `udev_query`, three lines
(`LineMax`) hold the best of two UUIDs and the type of the file system, or an empty UUID and
the one it spoils, in every order; `TryMax = 3` is the code's.

**Symmetry.** Nodes (`mounta_settles`, `watch`) and paths (`watch`) are model values the
model treats alike: each drive may get each node, none has a number, and no
`CHOOSE` ranges over them. The properties of these two runs are invariants and action
properties; the run with fairness, `mounta_live`, has no symmetry. All bounds are such
that a run takes well under a minute on two cores of a desktop machine.

**Fairness.** `WF` of the daemon's thread: it polls its descriptor whenever it
is idle, and no handler waits for an event (the tools are assumed to return). `WF`
of each link udev has to make or remove. No fairness for disks, faults or
restarts. For these weak fairness is enough: what is enabled for the daemon stays
enabled until it acts. `SF` of `HeedSignal`: GLib looks at all its sources between
two handlers; since there may be one handler after the other, heeding the signal
is enabled again and again but not all the time. `WF` of `Ask` in `UdevInfo`: `udevadm` returns
and the pauses end. `WatchMode` has no fairness, its
properties are invariants and action properties.

**What `NoStaleMounts` leaves out.** If a new disk takes over a link that was never
removed (`"takeover"`), no event tells the daemon that the old node is gone; its
mount stays until the disk's link is removed. If links come and go in any order
(`"disorder"`), a device first made of a partition on the earlier node keeps
it. If the kernel dropped an event about a disk, nothing is said of that disk until
its removal is reported. The property is stated for the other cases only.

## Where code and documentation disagree

Each of these runs checks one sentence of the documentation or of a comment and
finds it violated.

| Run | Sentence | What the code does |
|---|---|---|
| `partition_removed` | README.md:79-83: when a partition disappears, unmount it and remove its mountpoint | reacts to whole devices only (`device_manager.cc:246`): the partition stays mounted |
| `insertion_unfailing` | `devices.cc:86`: inserting a volume cannot fail | it does if a stick is replugged under another node name before its removal is handled |
| `drive_forgotten` | README.md:86-93: forget a device that disappears | a drive on `sr1` is entered as a partition of a nameless device that no event removes |
| `tree_leaks` | README.md:80: unmounting may fail, but nothing must leak | directory and mount stay until the next start |
| `tree_shutdown` | `automounter.cc:417`: no mountpoints remain after the polite cleanup | the loop uses an erased iterator; volumes may stay mounted, and the sweep does not find them |

The model also shows, without a run of its own, that an ordinary startup raises
the `MSG_BUG` "Attempted to remount device" (`automounter.cc:173`) for a stick
that the scan has seen and the queue reports again, where README.md:33 says to
ignore it. The state does not change.

## The proofs

All theorems hold for every set of disks, links and stems, any numbers in their
names, any `MaxId > 0`, any sets of faults, and in watch mode any drives, names and
directories. The environment is that of the runs: any event, any answer. The
bounds that make the models finite appear in no argument; they are the
ranges of counters in type invariants.

Every invariant and every action property of a passing run is stated by a
theorem, and so are the refinements.

| Theorem | Says |
|---|---|
| `CoreInvariant` | `CoreSpec => []CoreInv` |
| `TypesAreRight`, `LinksAreUnique`, `ClientsSeeTheTruth`, `VolumesAreNotForgotten`, `MountingIsDeferred`, `DevicesAreSetUpOnce`, `LateClientsCatchUp` | the properties one by one |
| `ImplementsCatalog` | `CoreSpec` implements `UsbCatalog`: each step is a step of the catalogue or a stutter |
| `SettledVolumesAreKept` | the action property, from the invariant |
| `AllocationEnds` | `NeverSpins`, if fewer disks can be accepted than there are IDs |
| `MountaImplementsCore` | `MountaSpec => CoreSpec`: the daemon in its world does nothing the automounter alone could not do |
| `MountaViewExact`, `MountaImplementsCatalog` | what clients see is exact, and is the catalogue's, in that world too |
| `MountaTypesAreRight` | `MountaTypeOK` |
| `DevicesAreTraced` | `MountaSpec => []TraceInv`: each device has its link, or will be told that it has not |
| `GhostsAreGone`, `StaleMountsAreGone` | `NoGhosts` and `NoStaleMounts`, from it |
| `DisksAreAttended` | `MountaSpec => []ServeInv`: each disk that is there is on its way to be served, or is |
| `DisksAreServed` | `Converged`, from it |
| `DaemonComesToRest` | the action property `WorkShrinks` of `MountaSpec`: no step of the daemon leaves as much to do as there was |
| `TreeImplementsCore` | `TreeSpec => CoreSpec`: what the tools make of the tree changes nothing the automounter could not do |
| `TreeInvariant` | the invariant that ties the tree to the map of devices |
| `TreeTypesAreRight`, `TreeIsExact`, `NothingIsForeign`, `OwnLinksAreRight`, `VolumesAreLinked` | the properties of `MountTree`, one by one |
| `RunningDaemonOrphansNothing` | its action property, from the invariant |
| `WatchDeliversStream` | `DeliversStream` of `WatchSpec`: events come once and in order, whatever goes wrong |
| `WatchInvariant` | `WatchSpec => []WatchInv` |
| `WatchTypesAreRight`, `WatchersSeeTheTruth`, `ShownIsThere` | `WatchTypeOK`, `ClientViewExact` and `ReportedAreThere`, from it |
| `WatchImplementsCatalog` | `WatchSpec` implements `UsbCatalog` |
| `WatcherComesToRest` | `WorkShrinks` of `WatchSpec` |
| `MountsOnTheirWay` | `WatchSpec => []ReportInv`: each volume somebody mounted is on its way to be reported, or is |
| `VolumesAreReported` | `MountsReported`, from it |
| `QueryInvariant` | `QuerySpec => []QueryInv` |
| `QueryTypesAreRight`, `BestIsChosen`, `FailuresAreJustified`, `VolumesAreNotMixed` | `QueryTypeOK`, `BestUUID`, `FailsForReason`, `OneVolume`, from it |

**Assumptions.** Those of `Devices`: what is a link, a number of IDs, and that the
two special values are no disk and no stem. Beyond them, each where it is declared:

- `Mounta`: each disk has a link of its own (`RootLinkAssumption`, used for
  `TraceInv` and `ServeInv`: the removal of that link is what the daemon hears of a
  disk that is gone); a disk without a partition table has no partitions
  (`SuperfloppyAssumption`, for `ServeInv`); bounds are numbers (`BoundsAssumption`, for
  `MountaTypeOK`).
- `MountTree`: candidates for a link are sequences of names (`NamesAssumption`).
- `FdEvents`: sizes are positive. `WatchMode`: events are about paths, a drive's names and
  its volumes' links are links (`WatchAssumption`); no two drives share a name,
  since `/dev/disk/by-id` has their serial numbers in it (`NamesAssumption`, for
  `WatchInv` and `ReportInv`: a device found under a drive's first name is that
  drive's, and no other drive's removal withdraws it).
- `DaemonComesToRest`, `WatcherComesToRest`: links, stems and paths are finitely many
  (`IsFiniteSet`), a hypothesis of these two theorems only.
- `UdevInfo`: a number of lines, at least one attempt (`QueryAssumption`).

**The automounter.** `CoreInv` is the inductive invariant. The properties do not hold
inductively by themselves:

- `ClientViewExact` speaks of devices with a directory and of mounted volumes; that
  the one needs the other is `DeferredMounting`, and that a handler in progress
  works on the right device is `JobConsistent` (what it mounts is pending on
  a device that is set up; what it drops is all that is left of a device the
  client was warned of).
- `NoVolumeForgotten` needs that a device that becomes usable gets its directory
  in the same step (`DeferredMounting`), or some volume would be left out.
- `SetUpOnce` follows from `DeferredMounting`: a device just probed has no
  directory.
- `NeverRejected`, that the second name filter (`automounter.cc:142`) never
  rejects, needs `NamesAccepted`: names pass the first filter when devices are
  made, and the root name made from a partition's passes it too.

The proof goes by cases of `CoreNext`, one lemma per action or way through a handler,
and under each one step per conjunct. The lemmas on the operators of `Devices` (what
adding, probing and filtering do to a record) come first. `AllocationEnds` counts:
if all IDs were taken, the names of the devices would map them, one by one
(`UniqueLinks`), to accepted names other than the one that needs a device, of which
there are fewer. The nameless root is one of the names, so that the number of
disks must be below that of IDs.

**The daemon in its world.** `MountaImplementsCore` goes by cases of `MountaNext`: steps of
the world leave the automounter alone, those of `main` start one of its handlers,
go on with it, or end the process. A handler of `Automounter` takes an answer from
`Outcome` for a link and a stem of the right types, so the proof needs an invariant of
its own, `WorldOK`: disks and links have stems, and the queue holds events about
links. It is inductive together with `CoreInv` (`MountaStepInv`), which tells that a
volume about to be mounted is there.

`NoGhosts` and `NoStaleMounts` speak of settled states only, so they say nothing of
the steps before. `TraceInv` does, for every state in which the daemon listens, and
whatever fails:

- `FreshStart`: a daemon that has not scanned yet knows of no device;
- `LinksAgree`: without `"disorder"` no partition has a link without its disk, and
  all links of a disk resolve to one node;
- `RemovalsFollow`: if a disk's link is gone, whatever the queue says of it ends
  with its removal, and so does what the scan may still see;
- `DevicesTraced`: each named device has its link and its volumes are on the
  node that link leads to, or the link's removal is in the queue, or the device is
  being dropped. An event about a link that has gone meanwhile makes such a
  device; `RemovalsFollow` is why its removal is then behind that event.

With an empty queue nothing is left of the second and third case, which is
`GhostsAreGone` and `StaleMountsAreGone`.

`Converged` is the other direction, and needs that no link is overlooked and that no
removal still in the queue undoes what was done. `ServeInv` says for each disk that
is there that its links are `Attended`: a link is in the queue behind all removals of
its disk (`Renewed`); or there is no such removal and it was handled (`Served`), is in
the scan, or the scan has not begun. And that its device, if no removal is to come, is
`Healthy`: every volume on the disk's node, none that failed. `TraceInv` is used for
removals, `CoreInv` for volumes that wait for their device. If `"overflow"` drops an
event, its disk is in `missed` until its removal is handled, and nothing is
said of it. With no queue and no scan, `Attended` leaves `Served`, and with `Healthy`
and `NoVolumeForgotten` that is `Converged`.

**The tree.** `TreeInvariant` is `CoreInv` with `Places` and `LinkInv`. `NothingForeign` is not
inductive: that nothing is left in the directory of a new device rests on `mkdir`,
which fails on a directory that is there, and on what is in the tree of a device
from then until its removal starts, which is `Fresh`. `TreeExact` is inductive
next to `CoreInv`: a device is dropped when it has no volumes any more
(`JobConsistent`), and nothing is mounted on one without a directory
(`DeferredMounting`). Links need `Fresh` in turn: a name that looks free to `stat`
and yet exists is no link of a mounted volume, as that one's mountpoint would be
there; so it is an orphan, which is what `LinkedUnlessStale` says.

**Watch mode.** `WatchDeliversStream` has the type of the descriptor, its queue and its
buffer as invariant (`FdTypeOK`). One lemma per operation of `FdEvents` maps it to a step of
`EventStream` on `batch \o pending`: reading moves the front of the queue to
the empty buffer and changes nothing there; the rest of `WatchMode` takes one of these steps
or leaves the three variables alone. The other proofs then speak of this one
sequence (`Coming`) and not of buffer and queue.

`WatchInv` is about all that goes wrong. `ClientViewExact` needs, as in `Automounter`, that a
handler in progress works on the right device (`JobRight`) and that a device has
a directory exactly if it is usable (`AdoptedRight`). `ReportedAreThere` needs that the
map leads from where a volume is shown to its device (`MapRight`), or nothing would
take the volume back, and that a directory that is gone is in the map, in the scan
or with the handler only as long as its removal is to come (`RemovalsFollow`).

`ReportInv` is the invariant behind `MountsReported`, for everything but failures (it allows
drives with two names, which it does not promise anything for). The daemon
listens (`Listening`), and unless the loop for a free ID spins:

- `DrivesHeld`: behind each device of a drive there is a directory that leads to it
  in the map, or whose handler is just between the two links;
- `PlacesBound`: what map and handler know of a directory is true of it now,
  unless its removal is to come;
- `Safe`: no removal still to come of another directory takes the device of
  a volume away, unless the volume's own directory is handled after it;
- `Visited`: the daemon has been at each directory, or will be, and left a device
  there if there was something to report;
- `Fit`: where it has been and need not go again, the volume is shown with the
  right node, or the handler is about to show it (`Good`).

It is inductive next to `WatchInv`. The proof has first what a step may do without harm
to a directory it is not about (one lemma for each part), then one lemma per step of
world and daemon. Two things came out of it: the exception for drives whose name
ends in a number, found where `VolumeLink` could not be proved, and that a
second directory for one drive is harmless exactly if its removal is queued before
the first one is made again (`GoneBeforeNew`).

**Queries.** `QueryInv` says that the lines are about different properties and what is
kept between attempts. The work is in what one attempt computes: `ReadSoFar` says of
the lines in any order that the rank is that of the best UUID, that the UUID is
this one unless an empty one came along, and that label, type and path are those
printed. It goes by induction on the number of lines, and so does the existence
of the recursive function `after` of `ReadLines`. The library's induction theorems
take an operator as a parameter, which none of the provers can instantiate;
`SetInduction` is stated about a set and proved from the pigeonhole principle: if a
number were missing from a set that has 0 and with each number the next, all
before it would be, and subtracting one would map the missing ones up to
it, one by one, to fewer.

**Coming to rest.** `WorkShrinks` gives the daemon's work a rank: the phases before the
main loop, then the links and events to be handled, then the steps of the handler
at work, compared in this order. A step may add to a later part only if it takes from an
earlier one: a phase may put links in the scan, an event sets up a handler, but a
handler makes no events and its steps (`HandlerShrinks`) visit each index of a finite set once. In watch mode
`Read` moves events from queue to buffer, so one in the queue counts twice
(`EventsShrink`), and a look at a directory has up to three steps more. The types of
`MountaTypeOK`, `CoreTypeOK` and `WatchTypeOK` are all the proof needs of the state, and that no more
than finitely many links, indices and paths exist. There can then be
no infinite run of steps of the daemon alone (a loop for a free ID that finds none is a
state of its own, `"spinning"`, not a step: `NeverSpins` is about it), which is the part of the liveness
properties that is about code; that the daemon does take steps, and that they reach what
is promised, is fairness and stays with TLC.

Only model-checked: liveness (`StickServed`, `StickForgotten`, `StopsWhenTold`,
`QueryEnds`), which is beyond the proof system, as is `ENABLED`. What of it can be
stated without fairness is proved: `WorkShrinks`, and `Converged` for where it ends.

No module declares a recursive operator; `ReadLines` is a recursive function.

## Not modelled

- The text of names, labels, UUIDs and mount options, and how lines, links and
  paths are cut into tokens: the models use what these functions decide.
  Two details of it: `strncmp` compares property names up to the length of the
  one udev printed, so an empty or cut name counts as a UUID; the made-up UUID contains the
  path of the device.
- Reading the descriptor failing, and a second call of `FdEvents::watch`: there
  is no caller.
- Entries of the wrong type (a directory in `/dev/disk/by-id`, a file in the
  watched directory), which both modes skip; the scan of watch mode does not
  skip them, but `mountpoint` says no.
- Exporting the D-Bus interface, losing the bus name later (it changes a field
  nobody reads), command line, daemonising, logging: no state that depends on
  the order of events.
- The time that passes: retries of `rmdir` are one step, pauses are steps of any length.
- Memory exhaustion.

## Plan

Done:

1. `Devices`, `UsbCatalog`, `Automounter`, with the inductive invariant, its
   proof and the refinement: what everything else rests on.
2. `Mounta`: the world, the queue, startup, signals, faults, liveness.
3. `MountTree`: the working directory and the links by label.
4. `FdEvents` with `EventStream` as its promise, and `WatchMode` on top of it.
5. `UdevInfo`: the parsers of udevadm's output and the retries.
6. `MountaSpec` implements `CoreSpec`, which carries the theorems over.
7. `TreeSpec` implements `CoreSpec`; the properties of `MountTree`, with an invariant that
   ties the tree to the map; `FdEvents` implements `EventStream`; `NeverSpins`.
8. What `Mounta` says of the world (`MountaTypeOK`, `NoGhosts`, `NoStaleMounts`,
   `Converged`), what is special to watch mode (`WatchTypeOK`, `ClientViewExact`,
   `ReportedAreThere`, `MountsReported`, the refinement of `UsbCatalog`), and the
   queries (`BestUUID`, `FailsForReason`, `OneVolume`): each with its inductive
   invariant, checked by TLC and proved. Every invariant of a passing run is now a theorem.

9. `WorkShrinks`, the part of the liveness arguments that is about single steps.

Left:

10. `LinkNames`: the name filter, the root of a partition's name and the trailing
    number as functions on short sequences, each checked against a reference
    definition for all short inputs. With `SetInduction` what they compute can be
    proved as well.
