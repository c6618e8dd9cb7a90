---------------------------- MODULE Automounter ----------------------------
(***************************************************************************)
(* Automounter::Core with its device manager: how the daemon reacts to the *)
(* appearance and disappearance of device links, which volumes it mounts   *)
(* and what it tells its D-Bus clients.                                    *)
(*                                                                         *)
(* The environment is open: any link may be reported at any time, resolve  *)
(* to any node or to none, and every external tool may fail.  The daemon   *)
(* is one thread; a handler is one step up to its first D-Bus signal, and  *)
(* one step per volume from there on, so that everything outside the       *)
(* process can move in between.                                            *)
(***************************************************************************)
EXTENDS Devices

VARIABLES
    devices,    \* AllDevices::devices_, Absent for an ID not in the map
    nextFreeId, \* ID::next_free_id_
    pc,         \* where the daemon's thread is
    cur,        \* the device the current handler works on
    todo,       \* the volumes it still has to visit
    bug,        \* the MSG_BUG its last step raised
    catalog,    \* client's view, from the signals: its devices ...
    catVolumes  \* ... and their volumes

coreVars == <<devices, nextFreeId, pc, cur, todo, bug, catalog, catVolumes>>

CoreTypeOK ==
    /\ devices \in [ID -> Device \cup {Absent}]
    /\ nextFreeId \in 0..MaxId
    /\ pc \in {"idle", "mount", "drop", "spinning", "stopped"}
    /\ cur \in ID \cup {NoId}
    /\ todo \in SUBSET Index
    /\ bug \in {"none", "insertion", "container", "remount", "unusable"}
    /\ catalog \in [ID -> {"unknown", "announced", "leaving"}]
    /\ catVolumes \in SUBSET (ID \X Index)

CoreInit ==
    /\ devices = [i \in ID |-> Absent]
    /\ nextFreeId = 0
    /\ pc = "idle" /\ cur = NoId /\ todo = {} /\ bug = "none"
    /\ catalog = [i \in ID |-> "unknown"]
    /\ catVolumes = {}

----------------------------------------------------------------------------
(* The device manager *)

Registered(i) == devices[i] # Absent
Known(name) == \E i \in ID : Registered(i) /\ devices[i].link = name

\* i is the device a search by link name finds first.
IsDevice(i, name) ==
    /\ Registered(i) /\ devices[i].link = name
    /\ \A j \in ID : Registered(j) /\ devices[j].link = name => i <= j

\* Number of IDs handed out and rejected before i is tried.
Distance(i) == (i - nextFreeId - 1) % MaxId

\* i is the ID the allocation loop of mk_device ends with.
IsNextId(i) ==
    /\ ~Registered(i)
    /\ \A j \in ID : ~Registered(j) => Distance(i) <= Distance(j)

Full == \A i \in ID : Registered(i)

\* Mutant: an ID is fetched before the device is looked up.
NeedsDeviceAlways(l, stem, info) == Number(l, stem) = 0 \/ info

\* Whether handling this link makes a new device.
NeedsDevice(l, stem, info) ==
    IF Number(l, stem) = 0 THEN ~Known(l[1])
    ELSE info /\ ~Known(RootName(l))

----------------------------------------------------------------------------
(* The rest of handle_new_device, once the device manager has answered     *)

\* Mutant: the next ID to try is stored instead of the last one given out.
StoreNextId(i, d) ==
    /\ devices' = [devices EXCEPT ![i] = d]
    /\ nextFreeId' = IF Registered(i) THEN nextFreeId ELSE i + 1

Store(i, d) ==
    /\ devices' = [devices EXCEPT ![i] = d]
    /\ nextFreeId' = IF Registered(i) THEN nextFreeId ELSE i

\* Mutant: clients are not told.
AnnounceNothing(i) == UNCHANGED catalog

Announce(i) == catalog' = [catalog EXCEPT ![i] = "announced"]

\* Mutant: only the first of several pending volumes is mounted.
StartMountingFirst(i, ks) ==
    /\ todo' = {k \in ks : \A j \in ks : k <= j}
    /\ IF ks = {} THEN pc' = "idle" /\ cur' = NoId
                  ELSE pc' = "mount" /\ cur' = i

StartMounting(i, ks) ==
    /\ todo' = ks
    /\ IF ks = {} THEN pc' = "idle" /\ cur' = NoId
                  ELSE pc' = "mount" /\ cur' = i

\* Nothing to mount, or nothing that may be used.
Keep(i, d, k, b) ==
    LET f == IF k = NoIndex /\ Empty(d) THEN d ELSE Filter(d) IN
    /\ (k = NoIndex /\ Empty(d)) \/ f.state # "OK"
    /\ Store(i, f)
    /\ bug' = b
    /\ UNCHANGED <<pc, cur, todo, catalog, catVolumes>>

\* First contact with a usable device: make its directory, announce it and
\* mount everything found on it so far.
SetUp(i, d, k, probed, b, mkdir) ==
    LET f == Filter(d)
        g == MkWorkingDirectory(f, mkdir) IN
    /\ ~(k = NoIndex /\ Empty(d))
    /\ f.state = "OK"
    /\ probed \/ f.dir = "unset"
    /\ Store(i, g)
    /\ bug' = IF f.dir = "created" THEN "container" ELSE b
    /\ IF g.dir = "created"
       THEN Announce(i) /\ StartMounting(i, Pending(g))
       ELSE UNCHANGED <<pc, cur, todo, catalog>>
    /\ UNCHANGED catVolumes

\* One more volume, or a known one, on a device already set up.
TryMount(i, d, k, probed, b) ==
    LET f == Filter(d) IN
    /\ ~(k = NoIndex /\ Empty(d))
    /\ f.state = "OK" /\ ~probed /\ f.dir # "unset"
    /\ Store(i, f)
    /\ IF k # NoIndex /\ f.vol[k].state = "PENDING" /\ f.dir = "created"
       THEN StartMounting(i, {k})
       ELSE UNCHANGED <<pc, cur, todo>>
    /\ bug' = CASE k = NoIndex -> b
                [] k # NoIndex /\ f.vol[k].state = "MOUNTED" -> "remount"
                [] k # NoIndex /\ f.vol[k].state = "UNUSABLE" -> "unusable"
                [] OTHER -> "none"
    /\ UNCHANGED <<catalog, catVolumes>>

Proceed(i, d, k, probed, b, mkdir) ==
    \/ Keep(i, d, k, b)
    \/ SetUp(i, d, k, probed, b, mkdir)
    \/ TryMount(i, d, k, probed, b)

----------------------------------------------------------------------------
(* A link appeared.  stem is what it resolves to now; info, probe and      *)
(* mkdir say whether volume information, device information and the        *)
(* working directory can be had.                                           *)

Outcome(stem) == {o \in [info : BOOLEAN, probe : BOOLEAN, mkdir : BOOLEAN] :
                    stem = NoStem => ~o.info /\ ~o.probe}

\* Mutant: a device made on behalf of its partitions is not looked for.
NewRootDeviceTwice(i, l, stem, o) ==
    /\ Number(l, stem) = 0 /\ IsNextId(i)
    /\ LET d == Probe(NewDevice(l[1]), o.probe) IN
       IF o.info
       THEN Proceed(i, AddVolume(d, Whole, stem), Whole, o.probe, "none", o.mkdir)
       ELSE Proceed(i, d, NoIndex, o.probe, "none", o.mkdir)

\* A whole device seen for the first time, perhaps with a volume on it.
NewRootDevice(i, l, stem, o) ==
    /\ Number(l, stem) = 0 /\ ~Known(l[1]) /\ IsNextId(i)
    /\ LET d == Probe(NewDevice(l[1]), o.probe) IN
       IF o.info
       THEN Proceed(i, AddVolume(d, Whole, stem), Whole, o.probe, "none", o.mkdir)
       ELSE Proceed(i, d, NoIndex, o.probe, "none", o.mkdir)

\* Mutant: a device that was probed before counts as probed now.
KnownRootDeviceAgain(i, l, stem, o) ==
    /\ Number(l, stem) = 0 /\ IsDevice(i, l[1])
    /\ LET d == Probe(devices[i], o.probe) IN
       Proceed(i, d, LookupVolume(d, Whole, stem), o.probe, "none", o.mkdir)

\* A whole device already registered, perhaps because of its partitions.
KnownRootDevice(i, l, stem, o) ==
    /\ Number(l, stem) = 0 /\ IsDevice(i, l[1])
    /\ LET d == Probe(devices[i], o.probe) IN
       Proceed(i, d, LookupVolume(d, Whole, stem),
               devices[i].state = "SYNTHETIC" /\ o.probe, "none", o.mkdir)

\* Mutant: a volume replaces one of the same number on another node.
NewPartitionReplacing(i, l, stem, o) ==
    LET n == Number(l, stem)
        d == IF Registered(i) THEN devices[i] ELSE NewDevice(RootName(l)) IN
    /\ n > 0 /\ o.info
    /\ IsDevice(i, RootName(l)) \/ (~Known(RootName(l)) /\ IsNextId(i))
    /\ Proceed(i, IF HasVolume(d, n, stem) THEN d ELSE AddVolume(d, n, stem),
               n, FALSE, "none", o.mkdir)

\* A partition, whose device may be unknown yet.
NewPartition(i, l, stem, o) ==
    LET n == Number(l, stem)
        d == IF Registered(i) THEN devices[i] ELSE NewDevice(RootName(l)) IN
    /\ n > 0 /\ o.info
    /\ IsDevice(i, RootName(l)) \/ (~Known(RootName(l)) /\ IsNextId(i))
    /\ \/ /\ HasVolume(d, n, stem)
          /\ Proceed(i, d, n, FALSE, "none", o.mkdir)
       \/ /\ d.vol[n] = NoVolume
          /\ Proceed(i, AddVolume(d, n, stem), n, FALSE, "none", o.mkdir)
       \/ /\ d.vol[n] # NoVolume /\ ~HasVolume(d, n, stem)
          /\ Proceed(i, d, NoIndex, FALSE, "insertion", o.mkdir)

\* A partition no information can be read from.
UnreadablePartition(i, l, stem, o) ==
    /\ Number(l, stem) > 0 /\ ~o.info
    /\ IsDevice(i, RootName(l))
    /\ Proceed(i, devices[i], NoIndex, FALSE, "none", o.mkdir)

\* Nothing comes of it: a foreign name, or an unreadable orphan.
Disregard(l, stem, o) ==
    /\ \/ ~IsAcceptable(l[1])
       \/ Number(l, stem) > 0 /\ ~o.info /\ ~Known(RootName(l))
    /\ bug' = "none"
    /\ UNCHANGED <<devices, nextFreeId, pc, cur, todo, catalog, catVolumes>>

\* No ID is free: the allocation loop never ends.
Spin(l, stem, o) ==
    /\ NeedsDevice(l, stem, o.info) /\ Full
    /\ pc' = "spinning"
    /\ bug' = "none"
    /\ UNCHANGED <<devices, nextFreeId, cur, todo, catalog, catVolumes>>

HandleNewDevice(l, stem, o) ==
    /\ pc = "idle"
    /\ \/ Disregard(l, stem, o)
       \/ /\ IsAcceptable(l[1])
          /\ \/ Spin(l, stem, o)
             \/ \E i \in ID : \/ NewRootDevice(i, l, stem, o)
                              \/ KnownRootDevice(i, l, stem, o)
                              \/ NewPartition(i, l, stem, o)
                              \/ UnreadablePartition(i, l, stem, o)

----------------------------------------------------------------------------
(* Mounting what the handler found, in the order of the volume map         *)

\* Mutant: a volume is announced whether it could be mounted or not.
MountVolumeAnnounced(k, ok) ==
    /\ pc = "mount"
    /\ k \in todo /\ \A j \in todo : k <= j
    /\ devices' = [devices EXCEPT ![cur].vol[k].state =
                      IF ok THEN "MOUNTED" ELSE "UNUSABLE"]
    /\ catVolumes' = catVolumes \cup {<<cur, k>>}
    /\ StartMounting(cur, todo \ {k})
    /\ bug' = "none"
    /\ UNCHANGED <<nextFreeId, catalog>>

\* try_mount_volume on a pending volume of a device with a directory.
MountVolume(k, ok) ==
    /\ pc = "mount"
    /\ k \in todo /\ \A j \in todo : k <= j
    /\ devices' = [devices EXCEPT ![cur].vol[k].state =
                      IF ok THEN "MOUNTED" ELSE "UNUSABLE"]
    /\ catVolumes' = IF ok THEN catVolumes \cup {<<cur, k>>} ELSE catVolumes
    /\ StartMounting(cur, todo \ {k})
    /\ bug' = "none"
    /\ UNCHANGED <<nextFreeId, catalog>>

----------------------------------------------------------------------------
(* A link disappeared *)

\* Mutant: a device is removed without a warning to the clients.
HandleRemovedDeviceUnannounced(l) ==
    /\ pc = "idle"
    /\ bug' = "none"
    /\ \/ /\ l[2] > 0 \/ ~Known(l[1])
          /\ UNCHANGED <<pc, cur, todo>>
       \/ /\ l[2] = 0
          /\ \E i \in ID : /\ IsDevice(i, l[1])
                           /\ pc' = "drop" /\ cur' = i
                           /\ todo' = Volumes(devices[i])
    /\ UNCHANGED <<devices, nextFreeId, catalog, catVolumes>>

\* Mutant: a device with mounted volumes is left alone.
HandleRemovedDeviceUnlessBusy(l) ==
    /\ pc = "idle"
    /\ bug' = "none"
    /\ \/ /\ \/ l[2] > 0 \/ ~Known(l[1])
             \/ \E i \in ID : IsDevice(i, l[1]) /\ Mounted(devices[i]) # {}
          /\ UNCHANGED <<pc, cur, todo, catalog>>
       \/ /\ l[2] = 0
          /\ \E i \in ID :
               /\ IsDevice(i, l[1]) /\ Mounted(devices[i]) = {}
               /\ pc' = "drop" /\ cur' = i /\ todo' = Volumes(devices[i])
               /\ catalog' = IF devices[i].dir = "created"
                             THEN [catalog EXCEPT ![i] = "leaving"]
                             ELSE catalog
    /\ UNCHANGED <<devices, nextFreeId, catVolumes>>

\* Only whole devices are found by the name of a link.
HandleRemovedDevice(l) ==
    /\ pc = "idle"
    /\ bug' = "none"
    /\ \/ /\ l[2] > 0 \/ ~Known(l[1])
          /\ UNCHANGED <<pc, cur, todo, catalog>>
       \/ /\ l[2] = 0
          /\ \E i \in ID :
               /\ IsDevice(i, l[1])
               /\ pc' = "drop" /\ cur' = i /\ todo' = Volumes(devices[i])
               /\ catalog' = IF devices[i].dir = "created"
                             THEN [catalog EXCEPT ![i] = "leaving"]
                             ELSE catalog
    /\ UNCHANGED <<devices, nextFreeId, catVolumes>>

\* Mutant: the loop over the volumes does not get on.
DropVolumeAgain(k) ==
    /\ pc = "drop" /\ k \in todo
    /\ devices' = [devices EXCEPT ![cur].vol[k] = NoVolume]
    /\ bug' = "none"
    /\ UNCHANGED <<nextFreeId, pc, cur, todo, catalog, catVolumes>>

\* drop_volumes destroys the volumes, which unmounts them.
DropVolume(k) ==
    /\ pc = "drop" /\ k \in todo
    /\ devices' = [devices EXCEPT ![cur].vol[k] = NoVolume]
    /\ todo' = todo \ {k}
    /\ bug' = "none"
    /\ UNCHANGED <<nextFreeId, pc, cur, catalog, catVolumes>>

\* The removal is announced and the device forgotten.
DropDevice ==
    /\ pc = "drop" /\ todo = {}
    /\ devices' = [devices EXCEPT ![cur] = Absent]
    /\ IF devices[cur].dir = "created"
       THEN /\ catalog' = [catalog EXCEPT ![cur] = "unknown"]
            /\ catVolumes' = {v \in catVolumes : v[1] # cur}
       ELSE UNCHANGED <<catalog, catVolumes>>
    /\ pc' = "idle" /\ cur' = NoId /\ bug' = "none"
    /\ UNCHANGED <<nextFreeId, todo>>

----------------------------------------------------------------------------
(* The end of the process *)

\* The client sees the daemon's bus name vanish and forgets everything.
NameVanishes ==
    /\ catalog' = [i \in ID |-> "unknown"]
    /\ catVolumes' = {}

\* The watched directory is gone.  The loop increments an iterator that
\* remove_entry has invalidated, so it may end anywhere after the first
\* device: the devices up to some ID are removed, the others are not.
Shutdown ==
    /\ pc = "idle"
    /\ \E last \in ID \cup {NoId} :
         /\ last = NoId <=> \A i \in ID : ~Registered(i)
         /\ last # NoId => Registered(last)
         /\ devices' = [i \in ID |-> IF i <= last THEN Absent ELSE devices[i]]
    /\ NameVanishes
    /\ pc' = "stopped" /\ bug' = "none"
    /\ UNCHANGED <<nextFreeId, cur, todo>>

\* SIGTERM leaves the main loop between two handlers, a crash leaves
\* anywhere; either way the map is gone and nothing is announced.
Stop ==
    /\ pc # "stopped"
    /\ devices' = [i \in ID |-> Absent]
    /\ NameVanishes
    /\ pc' = "stopped" /\ cur' = NoId /\ todo' = {} /\ bug' = "none"
    /\ UNCHANGED nextFreeId

Restart ==
    /\ pc = "stopped"
    /\ devices' = [i \in ID |-> Absent]
    /\ nextFreeId' = 0
    /\ pc' = "idle" /\ cur' = NoId /\ todo' = {} /\ bug' = "none"
    /\ UNCHANGED <<catalog, catVolumes>>

----------------------------------------------------------------------------
(* What a client gets that asks instead of listening: GetAll, answered by   *)
(* the main loop between two handlers                                      *)

GetAllDevices == {i \in ID : devices[i].state = "OK"}

\* Mutant: the state of the volumes is not looked at.
GetAllVolumesOfAnyState ==
    {v \in GetAllDevices \X Index : v[2] \in Volumes(devices[v[1]])}

GetAllVolumes ==
    {v \in GetAllDevices \X Index : v[2] \in Mounted(devices[v[1]])}

----------------------------------------------------------------------------

Continue ==
    \/ \E k \in Index : \/ \E ok \in BOOLEAN : MountVolume(k, ok)
                        \/ DropVolume(k)
    \/ DropDevice

CoreNext ==
    \/ \E l \in Link, stem \in Stem \cup {NoStem} :
         \E o \in Outcome(stem) : HandleNewDevice(l, stem, o)
    \/ \E l \in Link : HandleRemovedDevice(l)
    \/ Continue
    \/ Shutdown
    \/ Stop
    \/ Restart

CoreSpec == CoreInit /\ [][CoreNext]_coreVars

----------------------------------------------------------------------------
(* Properties *)

\* No two registered devices share a link name, so that a removal event can
\* only mean one device (get_device_iter_by_devlink takes the first it sees).
UniqueLinks ==
    \A i, j \in ID :
        Registered(i) /\ Registered(j) /\ devices[i].link = devices[j].link
        => i = j

\* What a client pieces together from the signals is what the daemon holds,
\* at every moment between two signals, and nothing once it is gone: exactly
\* the devices that have a directory, exactly the volumes that are mounted
\* (announce_new_device, announce_new_volume and the notifications of
\* handle_removed_device).
ClientViewExact ==
    /\ pc = "stopped" => catVolumes = {} /\ \A i \in ID : catalog[i] = "unknown"
    /\ pc # "stopped" =>
          \A i \in ID :
              /\ catalog[i] # "unknown" <=> devices[i].dir = "created"
              /\ catalog[i] = "leaving" => pc = "drop" /\ cur = i
              /\ catalog[i] # "leaving" =>
                    \A k \in Index : <<i, k>> \in catVolumes <=>
                                     k \in Mounted(devices[i])
              /\ \A k \in Mounted(devices[i]) : <<i, k>> \in catVolumes

\* A client that starts late and asks for everything catches up with one that
\* has listened from the start: the same volumes, and the same devices but for
\* those whose directory could not be made, which are never announced.
LateClientCatchesUp ==
    pc = "idle" =>
        /\ GetAllVolumes = catVolumes
        /\ {i \in ID : catalog[i] = "announced"}
             = {i \in GetAllDevices : devices[i].dir = "created"}

\* In whatever order a disk and its partitions show up, no volume of a
\* device that is set up waits for an event that will not come: it has been
\* tried, or the running handler is about to try it (mount_all_pending_volumes
\* and the last branch of handle_new_device).
NoVolumeForgotten ==
    \A i \in ID : devices[i].state = "OK" /\ devices[i].dir = "created" =>
        \A k \in Pending(devices[i]) : pc = "mount" /\ cur = i /\ k \in todo

\* Mounting is deferred until the containing device is known to be usable and
\* has its directory (the comment on Device::state_), and a device is never
\* left between the two: a probed one has no volumes, a synthetic one some.
DeferredMounting ==
    \A i \in ID : LET d == devices[i] IN
        /\ d.state # "OK" => d.dir = "unset" /\ Volumes(d) = Pending(d)
        /\ d.state = "OK" => d.dir # "unset"
        /\ d.dir # "created" => Volumes(d) = Pending(d)
        /\ d.state = "PROBED" => Empty(d)
        /\ d.state = "SYNTHETIC" /\ ~(pc = "drop" /\ cur = i) => ~Empty(d)

\* A device is set up at most once: the "Overwriting device mountpoint
\* container" of mk_working_directory is unreachable.
SetUpOnce == bug # "container"

\* The device filter looks at the display name, the event filter at the link
\* name; what passed the second always passes the first.
NeverRejected == \A i \in ID : devices[i].state # "REJECTED"

\* With more IDs than link names the allocation loop always finds one.
NeverSpins == pc # "spinning"

\* The bookkeeping of the running handler: it mounts pending volumes of a
\* device that is set up, or drops all there are of a registered one, whose
\* coming removal the client knows of.
JobConsistent ==
    /\ pc = "mount" =>
          /\ cur \in ID /\ todo # {} /\ todo \subseteq Pending(devices[cur])
          /\ devices[cur].state = "OK" /\ devices[cur].dir = "created"
    /\ pc = "drop" =>
          /\ cur \in ID /\ Registered(cur) /\ todo = Volumes(devices[cur])
          /\ catalog[cur] # "announced"
    /\ pc \notin {"mount", "drop"} => cur = NoId /\ todo = {}

\* What is registered passes the name filter, the nameless root included.
NamesAccepted == \A i \in ID : Registered(i) => IsAcceptable(devices[i].link)

\* All of it together is preserved by every step.
CoreInv ==
    /\ CoreTypeOK
    /\ UniqueLinks
    /\ ClientViewExact
    /\ NoVolumeForgotten
    /\ DeferredMounting
    /\ NeverRejected
    /\ SetUpOnce
    /\ JobConsistent
    /\ NamesAccepted

\* A mounted volume keeps its node and its state, and a failed one is not
\* tried again, until its device is removed or the process ends.
SettledVolumesStay ==
    [][\A i \in ID : \A k \in Index :
          /\ devices[i].vol[k].state \in {"MOUNTED", "UNUSABLE"}
          /\ "stopped" \notin {pc, pc'} /\ ~(pc = "drop" /\ cur = i)
          => devices'[i].vol[k] = devices[i].vol[k]]_coreVars

\* The signals, in every interleaving, are those of the abstract catalogue.
Catalog == INSTANCE UsbCatalog WITH
               ID <- ID, Index <- Index,
               catalog <- catalog, catVolumes <- catVolumes
RefinesCatalog == Catalog!CatalogSpec

============================================================================
