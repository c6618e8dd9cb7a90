------------------------- MODULE Automounter_proofs -------------------------
(***************************************************************************)
(* Proofs about Automounter, for every set of links, every number of IDs   *)
(* and every naming of nodes: its invariants, and that its signals are     *)
(* those of the abstract catalogue.                                        *)
(***************************************************************************)
EXTENDS Automounter, TLAPS

----------------------------------------------------------------------------
(* Facts about single records *)

LEMMA SentinelFacts ==
    /\ NoVolume \notin Volume
    /\ NoVolume.state = "none" /\ NoVolume.stem = NoStem
    /\ Absent \notin Device
    /\ Absent.state = "absent" /\ Absent.dir = "unset" /\ Absent.link = Unnamed
    /\ \A k \in Index : Absent.vol[k] = NoVolume
    /\ NoId \notin ID /\ NoIndex \notin Index
<1>1. NoVolume \notin Volume BY DEF NoVolume, Volume, VolumeState
<1>2. Absent \notin Device BY DEF Absent, Device, DeviceState
<1>3. NoIndex \notin Index BY DEF NoIndex, Index, Whole
<1>4. NoId \notin ID BY MaxIdAssumption DEF NoId, ID
<1>5. QED BY <1>1, <1>2, <1>3, <1>4 DEF NoVolume, Absent

LEMMA NumberType ==
    ASSUME NEW l \in Link, NEW stem \in Stem \cup {NoStem}
    PROVE  /\ l[1] \in Disk /\ l[2] \in Nat
           /\ Number(l, stem) \in Nat
           /\ RootName(l) \in Disk \cup {Unnamed}
           /\ Number(l, stem) = 0 => l[2] = 0
           /\ Number(l, stem) > 0 /\ stem # NoStem => Number(l, stem) \in Index
<1>1. l[1] \in Disk /\ l[2] \in Nat BY LinkAssumption
<1>2. stem # NoStem => stem \in Stem OBVIOUS
<1>3. Number(l, stem) \in Nat BY <1>1, <1>2, LinkAssumption DEF Number
<1>4. Number(l, stem) > 0 /\ stem # NoStem => Number(l, stem) \in Index
  BY <1>1, <1>2, LinkAssumption DEF Number, Index
<1>5. QED BY <1>1, <1>3, <1>4 DEF Number, RootName

LEMMA NewDeviceType ==
    ASSUME NEW name \in Disk \cup {Unnamed}
    PROVE  /\ NewDevice(name) \in Device
           /\ NewDevice(name).state = "SYNTHETIC"
           /\ NewDevice(name).dir = "unset"
           /\ NewDevice(name).link = name
           /\ \A k \in Index : NewDevice(name).vol[k] = NoVolume
BY DEF NewDevice, Device, DeviceState

LEMMA ProbeType ==
    ASSUME NEW d \in Device, NEW ok \in BOOLEAN
    PROVE  /\ Probe(d, ok) \in Device
           /\ Probe(d, ok).link = d.link
           /\ Probe(d, ok).dir = d.dir
           /\ Probe(d, ok).vol = d.vol
           /\ d.state # "SYNTHETIC" => Probe(d, ok).state = d.state
           /\ d.state = "SYNTHETIC" =>
                Probe(d, ok).state = (IF ok THEN "PROBED" ELSE "BROKEN")
BY DEF Probe, Device, DeviceState

LEMMA FilterType ==
    ASSUME NEW d \in Device, IsAcceptable(d.link)
    PROVE  /\ Filter(d) \in Device
           /\ Filter(d).link = d.link
           /\ Filter(d).dir = d.dir
           /\ Filter(d).vol = d.vol
           /\ d.state # "PROBED" => Filter(d) = d
           /\ d.state = "PROBED" => Filter(d).state = "OK"
BY DEF Filter, Device, DeviceState

LEMMA AddVolumeType ==
    ASSUME NEW d \in Device, NEW k \in Index, NEW stem \in Stem
    PROVE  /\ AddVolume(d, k, stem) \in Device
           /\ AddVolume(d, k, stem).link = d.link
           /\ AddVolume(d, k, stem).dir = d.dir
           /\ AddVolume(d, k, stem).state = d.state
           /\ AddVolume(d, k, stem).vol[k].state = "PENDING"
           /\ AddVolume(d, k, stem).vol[k] # NoVolume
           /\ \A j \in Index : j # k => AddVolume(d, k, stem).vol[j] = d.vol[j]
BY DEF AddVolume, Device, Volume, VolumeState, NoVolume

LEMMA MkWorkingDirectoryType ==
    ASSUME NEW d \in Device, NEW ok \in BOOLEAN
    PROVE  /\ MkWorkingDirectory(d, ok) \in Device
           /\ MkWorkingDirectory(d, ok).link = d.link
           /\ MkWorkingDirectory(d, ok).state = d.state
           /\ MkWorkingDirectory(d, ok).vol = d.vol
           /\ MkWorkingDirectory(d, ok).dir # "unset"
           /\ d.dir # "unset" => MkWorkingDirectory(d, ok) = d
BY DEF MkWorkingDirectory, Device

(* The sets of volumes, point by point.                                    *)

Waiting(v) == v = NoVolume \/ v.state = "PENDING"

LEMMA EmptyPointwise ==
    ASSUME NEW d
    PROVE  Empty(d) <=> \A k \in Index : d.vol[k] = NoVolume
BY DEF Empty, Volumes

LEMMA PendingPointwise ==
    ASSUME NEW d
    PROVE  Volumes(d) = Pending(d) <=> \A k \in Index : Waiting(d.vol[k])
<1>1. ASSUME Volumes(d) = Pending(d), NEW k \in Index PROVE Waiting(d.vol[k])
  <2>1. k \in Volumes(d) <=> k \in Pending(d) BY <1>1
  <2>2. QED BY <2>1 DEF Volumes, Pending, Waiting
<1>2. ASSUME \A k \in Index : Waiting(d.vol[k]) PROVE Volumes(d) = Pending(d)
  BY <1>2, SentinelFacts DEF Volumes, Pending, Waiting
<1>3. QED BY <1>1, <1>2

----------------------------------------------------------------------------
(* The tail of handle_new_device keeps the invariant, given what the device *)
(* manager has established of the device d it hands over under the ID i.    *)

Ready(i, d, k, probed, b) ==
    /\ i \in ID /\ d \in Device /\ k \in Index \cup {NoIndex}
    /\ probed \in BOOLEAN /\ b \in {"none", "insertion"}
    /\ IsAcceptable(d.link)
    /\ \A j \in ID : Registered(j) /\ j # i => devices[j].link # d.link
    /\ d.dir = devices[i].dir
    /\ \A j \in Index : \/ d.vol[j] = devices[i].vol[j]
                         \/ /\ devices[i].vol[j] = NoVolume
                            /\ d.vol[j].state = "PENDING"
    /\ d.state # "REJECTED"
    /\ d.state = "OK" <=> d.dir # "unset"
    /\ d.dir # "created" => \A j \in Index : Waiting(d.vol[j])
    /\ d.dir = "created" => \A j \in Index : d.vol[j].state = "PENDING" => j = k
    /\ d.state = "SYNTHETIC" => ~Empty(d)
    /\ probed => d.state = "PROBED"

\* What the type invariant says of one device.
LEMMA DeviceCases ==
    ASSUME CoreTypeOK, NEW i \in ID
    PROVE  /\ devices[i] = Absent \/ devices[i] \in Device
           /\ Registered(i) <=> devices[i] \in Device
           /\ \A k \in Index : \/ devices[i].vol[k] = NoVolume
                                \/ devices[i].vol[k] \in Volume
           /\ devices[i].vol = [k \in Index |-> devices[i].vol[k]]
<1>1. devices[i] = Absent \/ devices[i] \in Device BY DEF CoreTypeOK
<1>2. Registered(i) <=> devices[i] \in Device
  BY <1>1, SentinelFacts DEF Registered
<1>3. devices[i].vol \in [Index -> Volume \cup {NoVolume}]
  BY <1>1 DEF Absent, Device
<1>4. QED BY <1>1, <1>2, <1>3

LEMMA KeepInv ==
    ASSUME CoreInv, pc = "idle", NEW i, NEW d, NEW k, NEW probed, NEW b,
           Ready(i, d, k, probed, b), Keep(i, d, k, b)
    PROVE  CoreInv'
<1>1. devices' = [devices EXCEPT ![i] = d]
  <2>1. CASE k = NoIndex /\ Empty(d) BY <2>1 DEF Keep, Store
  <2>2. CASE ~(k = NoIndex /\ Empty(d))
    <3>1. Filter(d).state # "OK" /\ devices' = [devices EXCEPT ![i] = Filter(d)]
      BY <2>2 DEF Keep, Store
    <3>2. Filter(d) = d BY <3>1, FilterType DEF Ready
    <3>3. QED BY <3>1, <3>2
  <2>3. QED BY <2>1, <2>2
<1>2. d.state = "PROBED" => Empty(d)
  <2>1. SUFFICES ASSUME d.state = "PROBED", ~Empty(d) PROVE FALSE OBVIOUS
  <2>2. Filter(d).state = "OK" BY <2>1, FilterType DEF Ready
  <2>3. QED BY <2>1, <2>2 DEF Keep
<1>3. /\ devices \in [ID -> Device \cup {Absent}]
      /\ devices'[i] = d
      /\ \A j \in ID : j # i => devices'[j] = devices[j]
  BY <1>1 DEF CoreInv, CoreTypeOK, Ready
<1>4. CoreTypeOK'
  BY <1>1, <1>3 DEF CoreInv, CoreTypeOK, Ready, Keep, Store, ID
<1>5. UniqueLinks'
  BY <1>3 DEF CoreInv, UniqueLinks, Registered, Ready
<1>6. ClientViewExact'
  <2>1. \A j \in ID : /\ devices'[j].dir = devices[j].dir
                      /\ Mounted(devices'[j]) = Mounted(devices[j])
    BY <1>3, SentinelFacts DEF Ready, Mounted
  <2>2. UNCHANGED <<pc, cur, catalog, catVolumes>> BY DEF Keep
  <2>3. QED BY <2>1, <2>2 DEF CoreInv, ClientViewExact
<1>7. NoVolumeForgotten'
  <2>1. d.state = "OK" => Empty(d)
    BY FilterType DEF Keep, Ready
  <2>2. d.state = "OK" => \A n \in Index : d.vol[n].state # "PENDING"
    BY <2>1, SentinelFacts DEF Empty, Volumes
  <2>3. \A j \in ID : devices[j].state = "OK" /\ devices[j].dir = "created"
                     => \A n \in Index : devices[j].vol[n].state # "PENDING"
    BY DEF CoreInv, NoVolumeForgotten, Pending
  <2>4. \A j \in ID : devices'[j].state = "OK" /\ devices'[j].dir = "created"
                     => \A n \in Index : devices'[j].vol[n].state # "PENDING"
    BY <1>3, <2>2, <2>3
  <2>5. QED BY <2>4 DEF NoVolumeForgotten, Pending
<1>8. DeferredMounting'
  <2>1. \A j \in ID \ {i} : devices'[j] = devices[j] /\ UNCHANGED <<pc, cur>>
    BY <1>3 DEF Keep
  <2>2. /\ d.state # "OK" => d.dir = "unset" /\ Volumes(d) = Pending(d)
        /\ d.dir # "created" => Volumes(d) = Pending(d)
    BY PendingPointwise DEF Ready, Device
  <2>3. QED BY <1>2, <1>3, <2>1, <2>2 DEF CoreInv, DeferredMounting, Ready, Keep
<1>9. NeverRejected' /\ NamesAccepted' /\ JobConsistent' /\ SetUpOnce'
  BY <1>3 DEF CoreInv, NeverRejected, NamesAccepted, JobConsistent, SetUpOnce, Ready, Keep, Registered
<1>10. QED BY <1>4, <1>5, <1>6, <1>7, <1>8, <1>9 DEF CoreInv

LEMMA SetUpInv ==
    ASSUME CoreInv, pc = "idle", NEW i, NEW d, NEW k, NEW probed, NEW b,
           NEW mkdir \in BOOLEAN,
           Ready(i, d, k, probed, b), SetUp(i, d, k, probed, b, mkdir)
    PROVE  CoreInv'
<1> DEFINE f == Filter(d)
           g == MkWorkingDirectory(f, mkdir)
<1>1. /\ f \in Device /\ f.link = d.link /\ f.dir = d.dir /\ f.vol = d.vol
      /\ d.state # "PROBED" => f = d
      /\ d.state = "PROBED" => f.state = "OK"
  BY FilterType DEF Ready
<1>2. d.state = "PROBED" /\ d.dir = "unset"
  BY <1>1 DEF Ready, SetUp
<1>3. /\ g \in Device /\ g.link = d.link /\ g.state = "OK" /\ g.vol = d.vol
      /\ g.dir # "unset" /\ g.dir \in {"created", "failed"}
  <2>1. g.dir # "unset" /\ g \in Device BY <1>1, MkWorkingDirectoryType
  <2>2. QED BY <1>1, <1>2, <2>1, MkWorkingDirectoryType DEF Device
<1>4. /\ devices' = [devices EXCEPT ![i] = g]
      /\ nextFreeId' = (IF Registered(i) THEN nextFreeId ELSE i)
      /\ bug' = b
      /\ \/ /\ g.dir = "created"
            /\ catalog' = [catalog EXCEPT ![i] = "announced"]
            /\ todo' = Pending(g)
            /\ \/ Pending(g) = {} /\ pc' = "idle" /\ cur' = NoId
               \/ Pending(g) # {} /\ pc' = "mount" /\ cur' = i
         \/ g.dir = "failed" /\ UNCHANGED <<pc, cur, todo, catalog>>
      /\ UNCHANGED catVolumes
  BY <1>1, <1>2, <1>3 DEF SetUp, Store, Announce, StartMounting
<1>5. /\ devices \in [ID -> Device \cup {Absent}] /\ catalog \in [ID -> {"unknown", "announced", "leaving"}]
      /\ i \in ID
      /\ devices'[i] = g
      /\ \A j \in ID : j # i => devices'[j] = devices[j]
      /\ cur = NoId /\ todo = {} /\ NoId \notin ID
  BY <1>4, SentinelFacts DEF CoreInv, CoreTypeOK, Ready, JobConsistent
<1>6. /\ \A n \in Index : Waiting(g.vol[n])
      /\ Volumes(g) = Pending(g) /\ Mounted(g) = {} /\ Mounted(devices[i]) = {}
  <2>1. \A n \in Index : Waiting(g.vol[n]) BY <1>2, <1>3 DEF Ready
  <2>2. \A n \in Index : g.vol[n].state # "MOUNTED"
    BY <2>1, SentinelFacts DEF Waiting
  <2>3. Mounted(g) = {} /\ Mounted(devices[i]) = {}
    BY <1>3, <2>2, SentinelFacts DEF Mounted, Ready
  <2>4. QED BY <2>1, <2>3, PendingPointwise
<1>7. CoreTypeOK'
  <2>1. Pending(g) \subseteq Index BY DEF Pending
  <2>2. nextFreeId' \in 0..MaxId
    BY <1>4, <1>5, MaxIdAssumption DEF CoreInv, CoreTypeOK, ID
  <2>3. bug' \in {"none", "insertion"} BY <1>4 DEF Ready
  <2>4. QED BY <1>3, <1>4, <1>5, <2>1, <2>2, <2>3 DEF CoreInv, CoreTypeOK
<1>8. UniqueLinks'
  BY <1>3, <1>5 DEF CoreInv, UniqueLinks, Registered, Ready
<1>9. ClientViewExact'
  <2>1. catalog[i] = "unknown" BY <1>2, <1>5 DEF CoreInv, ClientViewExact, Ready
  <2>2. \A n \in Index : <<i, n>> \notin catVolumes
    BY <1>5, <1>6, <2>1 DEF CoreInv, ClientViewExact
  <2>3. /\ catalog'[i] # "leaving"
        /\ catalog'[i] # "unknown" <=> g.dir = "created"
        /\ \A j \in ID : j # i => catalog'[j] = catalog[j] /\ catalog[j] # "leaving"
    BY <1>3, <1>4, <1>5, <2>1 DEF CoreInv, ClientViewExact
  <2>4. QED
    BY <1>4, <1>5, <1>6, <2>2, <2>3 DEF CoreInv, ClientViewExact
<1>10. NoVolumeForgotten'
  BY <1>3, <1>4, <1>5 DEF CoreInv, NoVolumeForgotten
<1>11. DeferredMounting'
  BY <1>3, <1>4, <1>5, <1>6 DEF CoreInv, DeferredMounting
<1>12. JobConsistent'
  BY <1>3, <1>4, <1>5 DEF CoreInv, JobConsistent
<1>13. NeverRejected' /\ NamesAccepted' /\ SetUpOnce'
  BY <1>3, <1>4, <1>5 DEF CoreInv, NeverRejected, NamesAccepted, SetUpOnce, Ready, Registered
<1>14. QED BY <1>7, <1>8, <1>9, <1>10, <1>11, <1>12, <1>13 DEF CoreInv

LEMMA TryMountInv ==
    ASSUME CoreInv, pc = "idle", NEW i, NEW d, NEW k, NEW probed, NEW b,
           Ready(i, d, k, probed, b), TryMount(i, d, k, probed, b)
    PROVE  CoreInv'
<1>1. /\ d \in Device /\ d.state = "OK" /\ d.dir \in {"created", "failed"}
      /\ Filter(d) = d
  BY FilterType DEF Ready, TryMount, Device
<1>2. /\ devices' = [devices EXCEPT ![i] = d]
      /\ nextFreeId' = (IF Registered(i) THEN nextFreeId ELSE i)
      /\ bug' \in {"none", "insertion", "remount", "unusable"}
      /\ \/ /\ k \in Index /\ d.vol[k].state = "PENDING" /\ d.dir = "created"
            /\ todo' = {k} /\ pc' = "mount" /\ cur' = i
         \/ /\ ~(k # NoIndex /\ d.vol[k].state = "PENDING" /\ d.dir = "created")
            /\ UNCHANGED <<pc, cur, todo>>
      /\ UNCHANGED <<catalog, catVolumes>>
  BY <1>1 DEF TryMount, Store, StartMounting, Ready
<1>3. /\ devices \in [ID -> Device \cup {Absent}] /\ i \in ID
      /\ devices'[i] = d
      /\ \A j \in ID : j # i => devices'[j] = devices[j]
      /\ cur = NoId /\ todo = {} /\ NoId \notin ID /\ NoIndex \notin Index
  BY <1>2, SentinelFacts DEF CoreInv, CoreTypeOK, Ready, JobConsistent
<1>4. CoreTypeOK'
  <2>1. nextFreeId' \in 0..MaxId
    BY <1>2, <1>3, MaxIdAssumption DEF CoreInv, CoreTypeOK, ID
  <2>2. todo' \in SUBSET Index BY <1>2, <1>3
  <2>3. QED BY <1>1, <1>2, <1>3, <2>1, <2>2 DEF CoreInv, CoreTypeOK
<1>5. UniqueLinks'
  BY <1>3 DEF CoreInv, UniqueLinks, Registered, Ready
<1>6. ClientViewExact'
  <2>1. \A j \in ID : /\ devices'[j].dir = devices[j].dir
                      /\ Mounted(devices'[j]) = Mounted(devices[j])
    BY <1>3, SentinelFacts DEF Ready, Mounted
  <2>2. \A j \in ID : catalog[j] # "leaving"
    BY DEF CoreInv, ClientViewExact
  <2>3. pc' # "stopped" BY <1>2
  <2>4. QED BY <1>2, <2>1, <2>2, <2>3 DEF CoreInv, ClientViewExact
<1>7. NoVolumeForgotten'
  <2>1. ASSUME NEW j \in ID, j # i, devices'[j].state = "OK",
               devices'[j].dir = "created", NEW n \in Pending(devices'[j])
        PROVE  FALSE
    BY <1>3, <2>1 DEF CoreInv, NoVolumeForgotten
  <2>2. ASSUME d.dir = "created", NEW n \in Pending(d)
        PROVE  pc' = "mount" /\ cur' = i /\ n \in todo'
    <3>1. n \in Index /\ d.vol[n].state = "PENDING" BY <2>2 DEF Pending
    <3>2. n = k BY <2>2, <3>1 DEF Ready
    <3>3. QED BY <1>2, <1>3, <2>2, <3>1, <3>2
  <2>3. QED BY <1>3, <2>1, <2>2 DEF NoVolumeForgotten
<1>8. DeferredMounting'
  <2>1. d.dir # "created" => Volumes(d) = Pending(d)
    BY PendingPointwise DEF Ready
  <2>2. QED BY <1>1, <1>2, <1>3, <2>1 DEF CoreInv, DeferredMounting
<1>9. JobConsistent'
  BY <1>1, <1>2, <1>3 DEF CoreInv, JobConsistent, Pending
<1>10. NeverRejected' /\ NamesAccepted' /\ SetUpOnce'
  BY <1>1, <1>2, <1>3 DEF CoreInv, NeverRejected, NamesAccepted, SetUpOnce, Ready, Registered
<1>11. QED BY <1>4, <1>5, <1>6, <1>7, <1>8, <1>9, <1>10 DEF CoreInv

\* The handler has a device it is ready to proceed with.
HandedOver(i, mkdir) ==
    \E d, k, probed, b :
        Ready(i, d, k, probed, b) /\ Proceed(i, d, k, probed, b, mkdir)

LEMMA ProceedInv ==
    ASSUME CoreInv, pc = "idle", NEW i, NEW mkdir \in BOOLEAN, HandedOver(i, mkdir)
    PROVE  CoreInv'
BY KeepInv, SetUpInv, TryMountInv DEF HandedOver, Proceed

----------------------------------------------------------------------------
(* What the device manager hands over is Ready: d is a device it has found *)
(* or made for the ID i, and may have probed or added a volume to.         *)

Sound(i, d) ==
    /\ d \in Device
    /\ IsAcceptable(d.link)
    /\ \A j \in ID : Registered(j) /\ j # i => devices[j].link # d.link
    /\ d.dir = devices[i].dir
    /\ \A j \in Index : d.vol[j] = devices[i].vol[j]
    /\ d.state # "REJECTED"
    /\ d.state = "OK" <=> d.dir # "unset"
    /\ d.dir # "created" => \A j \in Index : Waiting(d.vol[j])
    /\ d.dir = "created" => \A j \in Index : d.vol[j].state # "PENDING"

LEMMA RegisteredSound ==
    ASSUME CoreInv, pc = "idle", NEW i \in ID, Registered(i)
    PROVE  /\ Sound(i, devices[i])
           /\ devices[i].state = "SYNTHETIC" => ~Empty(devices[i])
<1> DEFINE d == devices[i]
<1>1. d \in Device BY DeviceCases DEF CoreInv
<1>2. /\ IsAcceptable(d.link)
      /\ \A j \in ID : Registered(j) /\ j # i => devices[j].link # d.link
  BY DEF CoreInv, NamesAccepted, UniqueLinks
<1>3. d.dir # "created" => \A j \in Index : Waiting(d.vol[j])
  BY PendingPointwise DEF CoreInv, DeferredMounting
<1>4. d.dir = "created" => \A j \in Index : d.vol[j].state # "PENDING"
  BY DEF CoreInv, DeferredMounting, NoVolumeForgotten, Pending
<1>5. /\ d.state # "REJECTED"
      /\ d.state = "OK" <=> d.dir # "unset"
      /\ d.state = "SYNTHETIC" => ~Empty(d)
  BY DEF CoreInv, DeferredMounting, NeverRejected
<1>6. QED BY <1>1, <1>2, <1>3, <1>4, <1>5 DEF Sound

LEMMA NewDeviceSound ==
    ASSUME NEW i \in ID, ~Registered(i), NEW name \in Disk \cup {Unnamed},
           ~Known(name), IsAcceptable(name)
    PROVE  Sound(i, NewDevice(name))
<1>1. devices[i] = Absent BY DEF Registered
<1>2. \A j \in ID : Registered(j) => devices[j].link # name BY DEF Known
<1>3. QED BY <1>1, <1>2, NewDeviceType, SentinelFacts DEF Sound, Waiting

LEMMA ProbeSound ==
    ASSUME NEW i \in ID, NEW d, Sound(i, d), NEW ok \in BOOLEAN
    PROVE  /\ Sound(i, Probe(d, ok))
           /\ Probe(d, ok).state # "SYNTHETIC"
           /\ d.state = "SYNTHETIC" /\ ok => Probe(d, ok).state = "PROBED"
BY ProbeType DEF Sound

LEMMA AsIsReady ==
    ASSUME NEW i \in ID, NEW d, Sound(i, d), d.state = "SYNTHETIC" => ~Empty(d),
           NEW k \in Index \cup {NoIndex}, NEW probed \in BOOLEAN,
           probed => d.state = "PROBED", NEW b \in {"none", "insertion"}
    PROVE  Ready(i, d, k, probed, b)
BY DEF Sound, Ready

LEMMA AddVolumeReady ==
    ASSUME NEW i \in ID, NEW d, Sound(i, d), NEW k \in Index,
           d.vol[k] = NoVolume, NEW stem \in Stem,
           NEW probed \in BOOLEAN, probed => d.state = "PROBED"
    PROVE  Ready(i, AddVolume(d, k, stem), k, probed, "none")
<1> DEFINE e == AddVolume(d, k, stem)
<1>1. /\ e \in Device /\ e.link = d.link /\ e.dir = d.dir /\ e.state = d.state
      /\ e.vol[k].state = "PENDING" /\ e.vol[k] # NoVolume
      /\ \A j \in Index : j # k => e.vol[j] = d.vol[j]
  BY AddVolumeType DEF Sound
<1>2. \A j \in Index : \/ e.vol[j] = devices[i].vol[j]
                        \/ /\ devices[i].vol[j] = NoVolume
                           /\ e.vol[j].state = "PENDING"
  BY <1>1 DEF Sound
<1>3. ~Empty(e) BY <1>1, EmptyPointwise
<1>4. e.dir # "created" => \A j \in Index : Waiting(e.vol[j])
  BY <1>1 DEF Sound, Waiting
<1>5. e.dir = "created" => \A j \in Index : e.vol[j].state = "PENDING" => j = k
  BY <1>1 DEF Sound
<1>6. QED BY <1>1, <1>2, <1>3, <1>4, <1>5 DEF Sound, Ready

LEMMA NewRootDeviceReady ==
    ASSUME CoreInv, pc = "idle", NEW i \in ID, NEW l \in Link,
           NEW stem \in Stem \cup {NoStem}, NEW o \in Outcome(stem),
           IsAcceptable(l[1]), NewRootDevice(i, l, stem, o)
    PROVE  HandedOver(i, o.mkdir)
<1> DEFINE d == Probe(NewDevice(l[1]), o.probe)
<1>1. /\ l[1] \in Disk /\ o.probe \in BOOLEAN /\ o.mkdir \in BOOLEAN
      /\ o.info => stem \in Stem
      /\ Whole \in Index /\ NoIndex \in Index \cup {NoIndex}
  BY NumberType DEF Outcome, Index
<1>2. ~Registered(i) /\ ~Known(l[1]) BY DEF NewRootDevice, IsNextId
<1>3. NewDevice(l[1]).state = "SYNTHETIC" /\ NewDevice(l[1]).vol[Whole] = NoVolume
      /\ NewDevice(l[1]) \in Device
  BY <1>1, NewDeviceType
<1>4. /\ Sound(i, d) /\ d.state # "SYNTHETIC" /\ (o.probe => d.state = "PROBED")
      /\ d.vol[Whole] = NoVolume
  BY <1>1, <1>2, <1>3, NewDeviceSound, ProbeSound, ProbeType
<1>5. CASE o.info
  <2>1. Ready(i, AddVolume(d, Whole, stem), Whole, o.probe, "none")
    BY <1>1, <1>4, <1>5, AddVolumeReady
  <2>2. Proceed(i, AddVolume(d, Whole, stem), Whole, o.probe, "none", o.mkdir)
    BY <1>5 DEF NewRootDevice
  <2>3. QED BY <1>1, <2>1, <2>2 DEF HandedOver
<1>6. CASE ~o.info
  <2>1. Ready(i, d, NoIndex, o.probe, "none")
    BY <1>1, <1>4, AsIsReady
  <2>2. Proceed(i, d, NoIndex, o.probe, "none", o.mkdir)
    BY <1>6 DEF NewRootDevice
  <2>3. QED BY <1>1, <2>1, <2>2 DEF HandedOver
<1>7. QED BY <1>5, <1>6

LEMMA KnownRootDeviceReady ==
    ASSUME CoreInv, pc = "idle", NEW i \in ID, NEW l \in Link,
           NEW stem \in Stem \cup {NoStem}, NEW o \in Outcome(stem),
           KnownRootDevice(i, l, stem, o)
    PROVE  HandedOver(i, o.mkdir)
<1> DEFINE d == Probe(devices[i], o.probe)
           k == LookupVolume(d, Whole, stem)
           probed == devices[i].state = "SYNTHETIC" /\ o.probe
<1>1. o.probe \in BOOLEAN /\ o.mkdir \in BOOLEAN BY DEF Outcome
<1>2. Registered(i) BY DEF KnownRootDevice, IsDevice
<1>3. Sound(i, d) /\ d.state # "SYNTHETIC" /\ (probed => d.state = "PROBED")
  BY <1>1, <1>2, RegisteredSound, ProbeSound
<1>4. k \in Index \cup {NoIndex} BY DEF LookupVolume, Index
<1>5. Ready(i, d, k, probed, "none")
  <2> HIDE DEF d, k, probed
  <2>1. probed \in BOOLEAN BY DEF probed
  <2>2. QED BY <1>3, <1>4, <2>1, AsIsReady
<1>6. Proceed(i, d, k, probed, "none", o.mkdir) BY DEF KnownRootDevice
<1>7. QED BY <1>1, <1>5, <1>6 DEF HandedOver

LEMMA NewPartitionReady ==
    ASSUME CoreInv, pc = "idle", NEW i \in ID, NEW l \in Link,
           NEW stem \in Stem \cup {NoStem}, NEW o \in Outcome(stem),
           IsAcceptable(l[1]), NewPartition(i, l, stem, o)
    PROVE  HandedOver(i, o.mkdir)
<1> DEFINE n == Number(l, stem)
           d == IF Registered(i) THEN devices[i] ELSE NewDevice(RootName(l))
<1>1. /\ l[1] \in Disk /\ o.mkdir \in BOOLEAN /\ stem \in Stem
      /\ n \in Index /\ RootName(l) \in Disk \cup {Unnamed}
  BY NumberType DEF Outcome, NewPartition
<1>2. IsAcceptable(RootName(l))
  BY SentinelAssumption, LinkAssumption DEF IsAcceptable, RootName
<1>3. Sound(i, d)
  BY <1>1, <1>2, RegisteredSound, NewDeviceSound DEF NewPartition, IsDevice
<1>4. d.vol[n] # NoVolume => Registered(i)
  BY <1>1, NewDeviceType
<1>5. d.vol[n] # NoVolume => (d.state = "SYNTHETIC" => ~Empty(d))
  BY <1>4, RegisteredSound
<1>6. CASE HasVolume(d, n, stem) /\ Proceed(i, d, n, FALSE, "none", o.mkdir)
  <2>1. Ready(i, d, n, FALSE, "none")
    BY <1>1, <1>3, <1>5, <1>6, AsIsReady DEF HasVolume
  <2>2. QED BY <1>1, <1>6, <2>1 DEF HandedOver
<1>7. CASE d.vol[n] = NoVolume
           /\ Proceed(i, AddVolume(d, n, stem), n, FALSE, "none", o.mkdir)
  <2>1. Ready(i, AddVolume(d, n, stem), n, FALSE, "none")
    BY <1>1, <1>3, <1>7, AddVolumeReady
  <2>2. QED BY <1>1, <1>7, <2>1 DEF HandedOver
<1>8. CASE d.vol[n] # NoVolume
           /\ Proceed(i, d, NoIndex, FALSE, "insertion", o.mkdir)
  <2>1. Ready(i, d, NoIndex, FALSE, "insertion")
    BY <1>3, <1>5, <1>8, AsIsReady
  <2>2. QED BY <1>1, <1>8, <2>1 DEF HandedOver
<1>9. QED BY <1>6, <1>7, <1>8 DEF NewPartition

LEMMA UnreadablePartitionReady ==
    ASSUME CoreInv, pc = "idle", NEW i \in ID, NEW l \in Link,
           NEW stem \in Stem \cup {NoStem}, NEW o \in Outcome(stem),
           UnreadablePartition(i, l, stem, o)
    PROVE  HandedOver(i, o.mkdir)
<1>1. Registered(i) /\ o.mkdir \in BOOLEAN
  BY DEF UnreadablePartition, IsDevice, Outcome
<1>2. Ready(i, devices[i], NoIndex, FALSE, "none")
  BY <1>1, RegisteredSound, AsIsReady
<1>3. QED BY <1>1, <1>2 DEF HandedOver, UnreadablePartition

LEMMA HandleNewDeviceHands ==
    ASSUME CoreInv, NEW l \in Link, NEW stem \in Stem \cup {NoStem},
           NEW o \in Outcome(stem), HandleNewDevice(l, stem, o)
    PROVE  /\ pc = "idle" /\ o.mkdir \in BOOLEAN
           /\ \/ Disregard(l, stem, o) \/ Spin(l, stem, o)
              \/ \E i \in ID : HandedOver(i, o.mkdir)
<1>1. pc = "idle" /\ o.mkdir \in BOOLEAN BY DEF HandleNewDevice, Outcome
<1>2. QED
  BY <1>1, NewRootDeviceReady, KnownRootDeviceReady, NewPartitionReady,
     UnreadablePartitionReady DEF HandleNewDevice

----------------------------------------------------------------------------
(* Every step keeps the invariant                                          *)

LEMMA HandleNewDeviceInv ==
    ASSUME CoreInv, NEW l \in Link, NEW stem \in Stem \cup {NoStem},
           NEW o \in Outcome(stem), HandleNewDevice(l, stem, o)
    PROVE  CoreInv'
<1>1. pc = "idle" BY DEF HandleNewDevice
<1>2. CASE Disregard(l, stem, o)
  BY <1>1, <1>2 DEF Disregard, CoreInv, CoreTypeOK, UniqueLinks, ClientViewExact,
     NoVolumeForgotten, DeferredMounting, NeverRejected, SetUpOnce, JobConsistent,
     NamesAccepted, Registered
<1>3. CASE Spin(l, stem, o)
  BY <1>1, <1>3 DEF Spin, CoreInv, CoreTypeOK, UniqueLinks, ClientViewExact,
     NoVolumeForgotten, DeferredMounting, NeverRejected, SetUpOnce, JobConsistent,
     NamesAccepted, Registered
<1>4. QED BY <1>1, <1>2, <1>3, HandleNewDeviceHands, ProceedInv

(* What the other steps do, and what every user of the module may rely on. *)

ViewInv ==
    /\ CoreTypeOK
    /\ UniqueLinks
    /\ ClientViewExact
    /\ JobConsistent

\* Nothing is mounted on a device no client was told of.
NothingHidden ==
    \A i \in ID : devices[i].dir # "created" => Mounted(devices[i]) = {}

LEMMA CoreInvIsView ==
    ASSUME CoreInv
    PROVE  ViewInv /\ NothingHidden
<1>1. ASSUME NEW i \in ID, devices[i].dir # "created"
      PROVE  Mounted(devices[i]) = {}
  <2>1. \A n \in Index : Waiting(devices[i].vol[n])
    BY <1>1, PendingPointwise DEF CoreInv, DeferredMounting
  <2>2. QED BY <2>1, SentinelFacts DEF Mounted, Waiting
<1>2. QED BY <1>1 DEF CoreInv, ViewInv, NothingHidden

LEMMA MountVolumeDoes ==
    ASSUME CoreTypeOK, JobConsistent, NEW k \in Index, NEW ok \in BOOLEAN,
           MountVolume(k, ok)
    PROVE  LET d == devices[cur]
               e == devices'[cur] IN
           /\ pc = "mount" /\ k \in todo /\ cur \in ID /\ Registered(cur)
           /\ d.state = "OK" /\ d.dir = "created" /\ todo \subseteq Pending(d)
           /\ d.vol[k].state = "PENDING"
           /\ devices' \in [ID -> Device \cup {Absent}]
           /\ \A j \in ID : j # cur => devices'[j] = devices[j]
           /\ e \in Device /\ e.state = "OK" /\ e.dir = "created" /\ e.link = d.link
           /\ e.vol[k].state = (IF ok THEN "MOUNTED" ELSE "UNUSABLE")
           /\ e.vol[k].stem = d.vol[k].stem
           /\ \A n \in Index : n # k => e.vol[n] = d.vol[n]
           /\ todo' = todo \ {k}
           /\ \/ todo \ {k} = {} /\ pc' = "idle" /\ cur' = NoId
              \/ todo \ {k} # {} /\ pc' = "mount" /\ cur' = cur
           /\ catVolumes' = (IF ok THEN catVolumes \cup {<<cur, k>>} ELSE catVolumes)
           /\ bug' = "none" /\ UNCHANGED <<nextFreeId, catalog>>
<1> DEFINE d == devices[cur]
           e == devices'[cur]
<1>1. /\ pc = "mount" /\ k \in todo /\ cur \in ID
      /\ d.state = "OK" /\ d.dir = "created" /\ todo \subseteq Pending(d)
      /\ d.vol[k].state = "PENDING"
  BY DEF MountVolume, JobConsistent, Pending
<1>2. d \in Device /\ d.vol[k] \in Volume /\ Registered(cur)
  <2>1. d \in Device BY <1>1, SentinelFacts, DeviceCases
  <2>2. QED BY <1>1, <2>1, DeviceCases, SentinelFacts
<1>3. /\ devices' = [devices EXCEPT ![cur].vol[k].state =
                       IF ok THEN "MOUNTED" ELSE "UNUSABLE"]
      /\ \A j \in ID : j # cur => devices'[j] = devices[j]
      /\ e = [d EXCEPT !.vol[k].state = IF ok THEN "MOUNTED" ELSE "UNUSABLE"]
  BY <1>1 DEF MountVolume, CoreTypeOK
<1>4. /\ e \in Device /\ e.state = "OK" /\ e.dir = "created" /\ e.link = d.link
      /\ e.vol[k].state = (IF ok THEN "MOUNTED" ELSE "UNUSABLE")
      /\ e.vol[k].stem = d.vol[k].stem
      /\ \A n \in Index : n # k => e.vol[n] = d.vol[n]
  BY <1>1, <1>2, <1>3 DEF Device, Volume, VolumeState
<1>5. /\ todo' = todo \ {k}
      /\ \/ todo \ {k} = {} /\ pc' = "idle" /\ cur' = NoId
         \/ todo \ {k} # {} /\ pc' = "mount" /\ cur' = cur
      /\ catVolumes' = (IF ok THEN catVolumes \cup {<<cur, k>>} ELSE catVolumes)
      /\ bug' = "none" /\ UNCHANGED <<nextFreeId, catalog>>
  BY DEF MountVolume, StartMounting
<1>6. devices' \in [ID -> Device \cup {Absent}]
  BY <1>1, <1>3, <1>4 DEF CoreTypeOK
<1> HIDE DEF d, e
<1>7. QED BY <1>1, <1>2, <1>3, <1>4, <1>5, <1>6 DEF d, e

LEMMA MountVolumeView ==
    ASSUME ViewInv, NEW k \in Index, NEW ok \in BOOLEAN, MountVolume(k, ok)
    PROVE  ViewInv'
<1> DEFINE d == devices[cur]
           e == devices'[cur]
<1>1. CoreTypeOK /\ JobConsistent BY DEF ViewInv
<1>2. /\ pc = "mount" /\ k \in todo /\ cur \in ID /\ Registered(cur)
      /\ d.state = "OK" /\ d.dir = "created" /\ todo \subseteq Pending(d)
      /\ devices' \in [ID -> Device \cup {Absent}]
      /\ \A j \in ID : j # cur => devices'[j] = devices[j]
      /\ e \in Device /\ e.state = "OK" /\ e.dir = "created" /\ e.link = d.link
      /\ e.vol[k].state = (IF ok THEN "MOUNTED" ELSE "UNUSABLE")
      /\ \A n \in Index : n # k => e.vol[n] = d.vol[n]
      /\ todo' = todo \ {k}
      /\ \/ todo \ {k} = {} /\ pc' = "idle" /\ cur' = NoId
         \/ todo \ {k} # {} /\ pc' = "mount" /\ cur' = cur
      /\ catVolumes' = (IF ok THEN catVolumes \cup {<<cur, k>>} ELSE catVolumes)
      /\ bug' = "none" /\ UNCHANGED <<nextFreeId, catalog>>
  BY <1>1, MountVolumeDoes
<1>3. CoreTypeOK'
  <2>1. catVolumes' \in SUBSET (ID \X Index)
    BY <1>1, <1>2 DEF CoreTypeOK
  <2>2. QED BY <1>1, <1>2, <2>1 DEF CoreTypeOK
<1>4. UniqueLinks' BY <1>2 DEF ViewInv, UniqueLinks, Registered
<1>5. ClientViewExact'
  <2>1. \A j \in ID, n \in Index :
          n \in Mounted(devices'[j])
          <=> n \in Mounted(devices[j]) \/ (j = cur /\ n = k /\ ok)
    BY <1>2 DEF Mounted, Pending
  <2>2. \A j \in ID, n \in Index :
          <<j, n>> \in catVolumes'
          <=> <<j, n>> \in catVolumes \/ (j = cur /\ n = k /\ ok)
    BY <1>2
  <2>3. \A j \in ID : devices'[j].dir = devices[j].dir BY <1>2
  <2>4. \A j \in ID : catalog[j] # "leaving"
    BY <1>2 DEF ViewInv, ClientViewExact
  <2>5. \A j \in ID, n \in Index :
          n \in Mounted(devices'[j]) <=> <<j, n>> \in catVolumes'
    BY <1>2, <2>1, <2>2, <2>4 DEF ViewInv, ClientViewExact
  <2>6. \A j \in ID : Mounted(devices'[j]) \subseteq Index
    BY DEF Mounted
  <2>7. QED BY <1>2, <2>3, <2>4, <2>5, <2>6 DEF ViewInv, ClientViewExact
<1>6. JobConsistent'
  <2>1. todo' \subseteq Pending(e) BY <1>2 DEF Pending
  <2>2. QED BY <1>2, <2>1 DEF JobConsistent
<1>7. QED BY <1>3, <1>4, <1>5, <1>6 DEF ViewInv

LEMMA MountVolumeInv ==
    ASSUME CoreInv, NEW k \in Index, NEW ok \in BOOLEAN, MountVolume(k, ok)
    PROVE  CoreInv'
<1> DEFINE d == devices[cur]
           e == devices'[cur]
<1>1. CoreTypeOK /\ JobConsistent BY DEF CoreInv
<1>2. /\ pc = "mount" /\ k \in todo /\ cur \in ID /\ Registered(cur)
      /\ d.state = "OK" /\ d.dir = "created"
      /\ \A j \in ID : j # cur => devices'[j] = devices[j]
      /\ e \in Device /\ e.state = "OK" /\ e.dir = "created" /\ e.link = d.link
      /\ e.vol[k].state = (IF ok THEN "MOUNTED" ELSE "UNUSABLE")
      /\ \A n \in Index : n # k => e.vol[n] = d.vol[n]
      /\ todo' = todo \ {k}
      /\ \/ todo \ {k} = {} /\ pc' = "idle" /\ cur' = NoId
         \/ todo \ {k} # {} /\ pc' = "mount" /\ cur' = cur
      /\ bug' = "none"
  BY <1>1, MountVolumeDoes
<1>3. ViewInv' BY CoreInvIsView, MountVolumeView
<1>4. NeverRejected' /\ NamesAccepted' /\ SetUpOnce'
  BY <1>2 DEF CoreInv, NeverRejected, NamesAccepted, SetUpOnce, Registered
<1>5. NoVolumeForgotten'
  <2>1. ASSUME NEW j \in ID, devices'[j].state = "OK", devices'[j].dir = "created",
               NEW n \in Pending(devices'[j])
        PROVE  pc' = "mount" /\ cur' = j /\ n \in todo'
    <3>1. n \in Pending(devices[j]) /\ ~(j = cur /\ n = k)
      BY <1>2 DEF Pending
    <3>2. devices[j].state = "OK" /\ devices[j].dir = "created"
      BY <1>2, <2>1
    <3>3. cur = j /\ n \in todo BY <3>1, <3>2 DEF CoreInv, NoVolumeForgotten
    <3>4. QED BY <1>2, <3>1, <3>3
  <2>2. QED BY <2>1 DEF NoVolumeForgotten
<1>6. DeferredMounting'
  BY <1>2 DEF CoreInv, DeferredMounting
<1>7. QED BY <1>3, <1>4, <1>5, <1>6 DEF CoreInv, ViewInv

\* Either nothing is known of the link, or its device is about to go.
LEMMA HandleRemovedDeviceDoes ==
    ASSUME CoreTypeOK, NEW l \in Link, HandleRemovedDevice(l)
    PROVE  /\ pc = "idle" /\ UNCHANGED <<devices, nextFreeId, catVolumes>>
           /\ bug' = "none"
           /\ \/ /\ UNCHANGED <<pc, cur, todo, catalog>>
                 /\ l[2] > 0 \/ ~Known(l[1])
              \/ /\ l[2] = 0
                 /\ \E i \in ID :
                    /\ Registered(i) /\ devices[i].link = l[1] /\ i # NoId
                    /\ pc' = "drop" /\ cur' = i
                    /\ todo' = Volumes(devices[i]) /\ todo' \subseteq Index
                    /\ catalog' = IF devices[i].dir = "created"
                                  THEN [catalog EXCEPT ![i] = "leaving"] ELSE catalog
BY SentinelFacts DEF HandleRemovedDevice, IsDevice, Volumes

LEMMA HandleRemovedDeviceView ==
    ASSUME ViewInv, NEW l \in Link, HandleRemovedDevice(l)
    PROVE  ViewInv'
<1>1. CoreTypeOK BY DEF ViewInv
<1>2. pc = "idle" /\ UNCHANGED <<devices, nextFreeId, catVolumes>> /\ bug' = "none"
  BY <1>1, HandleRemovedDeviceDoes
<1>3. CASE UNCHANGED <<pc, cur, todo, catalog>>
  BY <1>2, <1>3 DEF ViewInv, CoreTypeOK, UniqueLinks, ClientViewExact,
     JobConsistent, Registered
<1>4. ASSUME NEW i \in ID, Registered(i), i # NoId,
             pc' = "drop" /\ cur' = i,
             todo' = Volumes(devices[i]) /\ todo' \subseteq Index,
             catalog' = IF devices[i].dir = "created"
                        THEN [catalog EXCEPT ![i] = "leaving"] ELSE catalog
      PROVE  ViewInv'
  <2>1. CoreTypeOK' BY <1>1, <1>2, <1>4 DEF CoreTypeOK
  <2>2. ClientViewExact'
    <3>1. /\ catalog \in [ID -> {"unknown", "announced", "leaving"}]
          /\ \A j \in ID : catalog[j] # "leaving"
      BY <1>2 DEF ViewInv, CoreTypeOK, ClientViewExact
    <3>2. \A j \in ID : /\ catalog'[j] # "unknown" <=> catalog[j] # "unknown"
                        /\ catalog'[j] = "leaving" => j = i
      BY <1>2, <1>4, <3>1 DEF ViewInv, ClientViewExact
    <3>3. QED BY <1>2, <1>4, <3>1, <3>2 DEF ViewInv, ClientViewExact
  <2>3. UniqueLinks' BY <1>2 DEF ViewInv, UniqueLinks, Registered
  <2>4. JobConsistent'
    <3>1. catalog'[i] # "announced"
      BY <1>2, <1>4 DEF ViewInv, CoreTypeOK, ClientViewExact
    <3>2. QED BY <1>2, <1>4, <3>1 DEF JobConsistent, Registered
  <2>5. QED BY <2>1, <2>2, <2>3, <2>4 DEF ViewInv
<1>5. QED BY <1>1, <1>3, <1>4, HandleRemovedDeviceDoes

LEMMA HandleRemovedDeviceInv ==
    ASSUME CoreInv, NEW l \in Link, HandleRemovedDevice(l)
    PROVE  CoreInv'
<1>1. pc = "idle" /\ UNCHANGED devices /\ bug' = "none"
  BY DEF HandleRemovedDevice
<1>2. ViewInv' BY CoreInvIsView, HandleRemovedDeviceView
<1>3. NeverRejected' /\ SetUpOnce' /\ NamesAccepted'
  BY <1>1 DEF CoreInv, NeverRejected, SetUpOnce, NamesAccepted, Registered
<1>4. NoVolumeForgotten' /\ DeferredMounting'
  BY <1>1 DEF CoreInv, NoVolumeForgotten, DeferredMounting
<1>5. QED BY <1>2, <1>3, <1>4 DEF CoreInv, ViewInv

LEMMA DropVolumeDoes ==
    ASSUME CoreTypeOK, JobConsistent, NEW k \in Index, DropVolume(k)
    PROVE  LET d == devices[cur]
               e == devices'[cur] IN
           /\ pc = "drop" /\ k \in todo /\ cur \in ID /\ Registered(cur)
           /\ todo = Volumes(d) /\ d \in Device
           /\ devices' \in [ID -> Device \cup {Absent}]
           /\ \A j \in ID : j # cur => devices'[j] = devices[j]
           /\ e \in Device /\ e.state = d.state /\ e.dir = d.dir /\ e.link = d.link
           /\ e.vol[k] = NoVolume
           /\ \A n \in Index : n # k => e.vol[n] = d.vol[n]
           /\ Mounted(e) \subseteq Mounted(d)
           /\ todo' = todo \ {k} /\ bug' = "none"
           /\ UNCHANGED <<nextFreeId, pc, cur, catalog, catVolumes>>
<1> DEFINE d == devices[cur]
           e == devices'[cur]
<1>1. pc = "drop" /\ k \in todo /\ cur \in ID /\ Registered(cur) /\ todo = Volumes(d)
  BY DEF DropVolume, JobConsistent
<1>2. d \in Device BY <1>1, DeviceCases
<1>3. /\ devices' = [devices EXCEPT ![cur].vol[k] = NoVolume]
      /\ \A j \in ID : j # cur => devices'[j] = devices[j]
      /\ e = [d EXCEPT !.vol[k] = NoVolume]
      /\ todo' = todo \ {k} /\ bug' = "none"
      /\ UNCHANGED <<nextFreeId, pc, cur, catalog, catVolumes>>
  BY <1>1 DEF DropVolume, CoreTypeOK
<1>4. /\ e \in Device /\ e.state = d.state /\ e.dir = d.dir /\ e.link = d.link
      /\ e.vol[k] = NoVolume
      /\ \A n \in Index : n # k => e.vol[n] = d.vol[n]
  BY <1>2, <1>3 DEF Device
<1>5. devices' \in [ID -> Device \cup {Absent}]
  BY <1>1, <1>3, <1>4 DEF CoreTypeOK
<1>6. Mounted(e) \subseteq Mounted(d) BY <1>4, SentinelFacts DEF Mounted
<1> HIDE DEF d, e
<1>7. QED BY <1>1, <1>2, <1>3, <1>4, <1>5, <1>6 DEF d, e

LEMMA DropVolumeView ==
    ASSUME ViewInv, NothingHidden, NEW k \in Index, DropVolume(k)
    PROVE  ViewInv'
<1> DEFINE d == devices[cur]
           e == devices'[cur]
<1>1. CoreTypeOK /\ JobConsistent BY DEF ViewInv
<1>2. /\ pc = "drop" /\ k \in todo /\ cur \in ID /\ Registered(cur)
      /\ todo = Volumes(d) /\ d \in Device
      /\ devices' \in [ID -> Device \cup {Absent}]
      /\ \A j \in ID : j # cur => devices'[j] = devices[j]
      /\ e \in Device /\ e.state = d.state /\ e.dir = d.dir /\ e.link = d.link
      /\ e.vol[k] = NoVolume
      /\ \A n \in Index : n # k => e.vol[n] = d.vol[n]
      /\ Mounted(e) \subseteq Mounted(d)
      /\ todo' = todo \ {k} /\ bug' = "none"
      /\ UNCHANGED <<nextFreeId, pc, cur, catalog, catVolumes>>
  BY <1>1, DropVolumeDoes
<1>3. CoreTypeOK' BY <1>1, <1>2 DEF CoreTypeOK
<1>4. UniqueLinks' BY <1>2 DEF ViewInv, UniqueLinks, Registered
<1>5. ClientViewExact'
  <2>1. d.dir # "created" => Mounted(d) = {} /\ Mounted(e) = {}
    BY <1>2 DEF NothingHidden
  <2>2. catalog[cur] \in {"unknown", "leaving"}
    BY <1>1, <1>2 DEF CoreTypeOK, JobConsistent
  <2>3. QED BY <1>2, <2>1, <2>2 DEF ViewInv, ClientViewExact
<1>6. JobConsistent'
  <2>1. todo' = Volumes(e) BY <1>2 DEF Volumes
  <2>2. e # Absent BY <1>2, SentinelFacts
  <2>3. QED BY <1>1, <1>2, <2>1, <2>2 DEF JobConsistent, Registered
<1>7. QED BY <1>3, <1>4, <1>5, <1>6 DEF ViewInv

LEMMA DropVolumeInv ==
    ASSUME CoreInv, NEW k \in Index, DropVolume(k)
    PROVE  CoreInv'
<1> DEFINE d == devices[cur]
           e == devices'[cur]
<1>1. CoreTypeOK /\ JobConsistent BY DEF CoreInv
<1>2. /\ pc = "drop" /\ cur \in ID /\ Registered(cur)
      /\ \A j \in ID : j # cur => devices'[j] = devices[j]
      /\ e.state = d.state /\ e.dir = d.dir /\ e.link = d.link
      /\ e.vol[k] = NoVolume
      /\ \A n \in Index : n # k => e.vol[n] = d.vol[n]
      /\ bug' = "none" /\ UNCHANGED <<pc, cur>>
  BY <1>1, DropVolumeDoes
<1>3. ViewInv' BY CoreInvIsView, DropVolumeView
<1>4. NeverRejected' /\ NamesAccepted' /\ SetUpOnce'
  BY <1>2 DEF CoreInv, NeverRejected, NamesAccepted, SetUpOnce, Registered
<1>5. NoVolumeForgotten'
  <2>1. \A j \in ID : Pending(devices'[j]) \subseteq Pending(devices[j])
    BY <1>2, SentinelFacts DEF Pending
  <2>2. QED BY <1>2, <2>1 DEF CoreInv, NoVolumeForgotten
<1>6. DeferredMounting'
  <2>1. Volumes(d) = Pending(d) => Volumes(e) = Pending(e)
    BY <1>2, PendingPointwise DEF Waiting
  <2>2. d.state # "PROBED" \/ Empty(e)
    BY <1>2, EmptyPointwise DEF CoreInv, DeferredMounting
  <2>3. QED BY <1>2, <2>1, <2>2 DEF CoreInv, DeferredMounting
<1>7. QED BY <1>3, <1>4, <1>5, <1>6 DEF CoreInv, ViewInv

LEMMA DropDeviceDoes ==
    ASSUME CoreTypeOK, JobConsistent, DropDevice
    PROVE  /\ pc = "drop" /\ todo = {} /\ cur \in ID /\ Registered(cur)
           /\ Volumes(devices[cur]) = {} /\ catalog[cur] # "announced"
           /\ pc' = "idle" /\ cur' = NoId /\ todo' = {} /\ bug' = "none"
           /\ UNCHANGED nextFreeId
           /\ devices'[cur] = Absent
           /\ \A j \in ID : j # cur => devices'[j] = devices[j]
           /\ devices' \in [ID -> Device \cup {Absent}]
           /\ catalog \in [ID -> {"unknown", "announced", "leaving"}]
           /\ \/ /\ devices[cur].dir = "created"
                 /\ catalog' = [catalog EXCEPT ![cur] = "unknown"]
                 /\ catVolumes' = {v \in catVolumes : v[1] # cur}
              \/ devices[cur].dir # "created" /\ UNCHANGED <<catalog, catVolumes>>
<1>1. /\ pc = "drop" /\ todo = {} /\ cur \in ID /\ Registered(cur)
      /\ Volumes(devices[cur]) = {} /\ catalog[cur] # "announced"
      /\ devices' = [devices EXCEPT ![cur] = Absent]
      /\ pc' = "idle" /\ cur' = NoId /\ todo' = {} /\ bug' = "none"
      /\ UNCHANGED nextFreeId
  BY DEF DropDevice, JobConsistent
<1>2. /\ devices'[cur] = Absent
      /\ \A j \in ID : j # cur => devices'[j] = devices[j]
      /\ devices' \in [ID -> Device \cup {Absent}]
      /\ catalog \in [ID -> {"unknown", "announced", "leaving"}]
  BY <1>1 DEF CoreTypeOK
<1>3. \/ /\ devices[cur].dir = "created"
         /\ catalog' = [catalog EXCEPT ![cur] = "unknown"]
         /\ catVolumes' = {v \in catVolumes : v[1] # cur}
      \/ devices[cur].dir # "created" /\ UNCHANGED <<catalog, catVolumes>>
  BY DEF DropDevice
<1>4. QED BY <1>1, <1>2, <1>3

LEMMA DropDeviceView ==
    ASSUME ViewInv, DropDevice
    PROVE  ViewInv'
<1>1. CoreTypeOK /\ JobConsistent BY DEF ViewInv
<1>2. /\ pc = "drop" /\ todo = {} /\ cur \in ID /\ Registered(cur)
      /\ Volumes(devices[cur]) = {} /\ catalog[cur] # "announced"
      /\ pc' = "idle" /\ cur' = NoId /\ todo' = {} /\ bug' = "none"
      /\ UNCHANGED nextFreeId
      /\ devices'[cur] = Absent
      /\ \A j \in ID : j # cur => devices'[j] = devices[j]
      /\ devices' \in [ID -> Device \cup {Absent}]
      /\ catalog \in [ID -> {"unknown", "announced", "leaving"}]
  BY <1>1, DropDeviceDoes
<1>3. \/ /\ devices[cur].dir = "created"
         /\ catalog' = [catalog EXCEPT ![cur] = "unknown"]
         /\ catVolumes' = {v \in catVolumes : v[1] # cur}
      \/ devices[cur].dir # "created" /\ UNCHANGED <<catalog, catVolumes>>
  BY <1>1, DropDeviceDoes
<1>4. CoreTypeOK' BY <1>1, <1>2, <1>3 DEF CoreTypeOK
<1>5. UniqueLinks' /\ JobConsistent'
  BY <1>2, SentinelFacts DEF ViewInv, UniqueLinks, JobConsistent, Registered
<1>6. ClientViewExact'
  <2>1. Mounted(Absent) = {} BY SentinelFacts DEF Mounted
  <2>2. catalog'[cur] = "unknown"
    BY <1>2, <1>3 DEF ViewInv, ClientViewExact
  <2>3. \A n \in Index : <<cur, n>> \notin catVolumes'
    <3>1. CASE devices[cur].dir = "created" BY <1>3, <3>1
    <3>2. CASE devices[cur].dir # "created"
      <4>1. Mounted(devices[cur]) = {}
        BY <1>2, SentinelFacts DEF Mounted, Volumes
      <4>2. catalog[cur] = "unknown"
        BY <1>2, <3>2 DEF ViewInv, ClientViewExact
      <4>3. QED BY <1>2, <1>3, <3>2, <4>1, <4>2 DEF ViewInv, ClientViewExact
    <3>3. QED BY <3>1, <3>2
  <2>4. ASSUME NEW j \in ID, j # cur
        PROVE  /\ catalog'[j] = catalog[j] /\ catalog[j] # "leaving"
               /\ \A n \in Index : <<j, n>> \in catVolumes' <=> <<j, n>> \in catVolumes
    BY <1>2, <1>3, <2>4 DEF ViewInv, ClientViewExact
  <2>5. \A j \in ID : Mounted(devices[j]) \subseteq Index BY DEF Mounted
  <2>6. QED
    BY <1>2, <2>1, <2>2, <2>3, <2>4, <2>5, SentinelFacts DEF ViewInv, ClientViewExact
<1>7. QED BY <1>4, <1>5, <1>6 DEF ViewInv

LEMMA DropDeviceInv ==
    ASSUME CoreInv, DropDevice
    PROVE  CoreInv'
<1>1. CoreTypeOK /\ JobConsistent BY DEF CoreInv
<1>2. /\ pc = "drop" /\ cur \in ID /\ bug' = "none"
      /\ devices'[cur] = Absent
      /\ \A j \in ID : j # cur => devices'[j] = devices[j]
  BY <1>1, DropDeviceDoes
<1>3. ViewInv' BY CoreInvIsView, DropDeviceView
<1>4. NeverRejected' /\ NamesAccepted' /\ SetUpOnce'
  BY <1>2, SentinelFacts DEF CoreInv, NeverRejected, NamesAccepted, SetUpOnce,
     Registered
<1>5. NoVolumeForgotten'
  BY <1>2, SentinelFacts DEF CoreInv, NoVolumeForgotten
<1>6. DeferredMounting'
  <2>1. Volumes(Absent) = Pending(Absent) /\ Empty(Absent)
    BY SentinelFacts, PendingPointwise, EmptyPointwise DEF Waiting
  <2>2. QED BY <1>2, <2>1, SentinelFacts DEF CoreInv, DeferredMounting
<1>7. QED BY <1>3, <1>4, <1>5, <1>6 DEF CoreInv, ViewInv

\* The process ends with some of the devices still registered, or none.
Ends ==
    /\ \A j \in ID : devices'[j] = devices[j] \/ devices'[j] = Absent
    /\ devices' = [j \in ID |-> devices'[j]]
    /\ \/ pc = "idle" /\ UNCHANGED <<cur, todo>>
       \/ (\A j \in ID : devices'[j] = Absent) /\ cur' = NoId /\ todo' = {}
    /\ nextFreeId' \in 0..MaxId
    /\ \/ pc' = "stopped"
       \/ pc' = "idle" /\ \A j \in ID : devices'[j] = Absent
    /\ NameVanishes /\ bug' = "none"

LEMMA StoppedView ==
    ASSUME CoreTypeOK, UniqueLinks, JobConsistent, Ends
    PROVE  ViewInv'
<1>1. /\ catalog' = [i \in ID |-> "unknown"] /\ catVolumes' = {}
      /\ cur' = NoId /\ todo' = {} /\ pc' \in {"stopped", "idle"}
  BY DEF Ends, NameVanishes, JobConsistent
<1>2. Mounted(Absent) = {} BY SentinelFacts DEF Mounted
<1>3. CoreTypeOK' BY <1>1 DEF Ends, CoreTypeOK
<1>4. UniqueLinks' /\ JobConsistent'
  BY <1>1, SentinelFacts DEF Ends, UniqueLinks, JobConsistent, Registered
<1>5. ClientViewExact' BY <1>1, <1>2, SentinelFacts DEF Ends, ClientViewExact
<1>6. QED BY <1>3, <1>4, <1>5 DEF ViewInv

LEMMA StoppedInv ==
    ASSUME CoreInv, Ends
    PROVE  CoreInv'
<1>1. /\ \A j \in ID : devices'[j] = devices[j] \/ devices'[j] = Absent
      /\ \/ pc = "idle"
         \/ \A j \in ID : devices'[j] = Absent
      /\ bug' = "none"
  BY DEF Ends
<1>2. /\ Volumes(Absent) = Pending(Absent) /\ Empty(Absent)
      /\ Mounted(Absent) = {} /\ Pending(Absent) = {}
  BY SentinelFacts, PendingPointwise, EmptyPointwise DEF Waiting, Mounted, Pending
<1>3. ViewInv' BY StoppedView DEF CoreInv
<1>4. NeverRejected' /\ NamesAccepted' /\ SetUpOnce'
  BY <1>1, SentinelFacts DEF CoreInv, NeverRejected, NamesAccepted, SetUpOnce,
     Registered
<1>5. NoVolumeForgotten' BY <1>1, <1>2, SentinelFacts DEF CoreInv, NoVolumeForgotten
<1>6. DeferredMounting' BY <1>1, <1>2, SentinelFacts DEF CoreInv, DeferredMounting
<1>7. QED BY <1>3, <1>4, <1>5, <1>6 DEF CoreInv, ViewInv

LEMMA StopsEnd ==
    ASSUME CoreTypeOK, ClientViewExact, Shutdown \/ Stop \/ Restart
    PROVE  Ends
<1>1. CASE Shutdown
  <2>1. /\ \A j \in ID : devices'[j] = devices[j] \/ devices'[j] = Absent
        /\ devices' = [j \in ID |-> devices'[j]]
    BY <1>1 DEF Shutdown
  <2>2. QED BY <1>1, <2>1 DEF Shutdown, CoreTypeOK, Ends
<1>2. CASE Stop
  <2>1. /\ \A j \in ID : devices'[j] = Absent
        /\ devices' = [j \in ID |-> devices'[j]]
    BY <1>2 DEF Stop
  <2>2. QED BY <1>2, <2>1 DEF Stop, CoreTypeOK, Ends
<1>3. CASE Restart
  <2>1. /\ \A j \in ID : devices'[j] = Absent
        /\ devices' = [j \in ID |-> devices'[j]]
    BY <1>3 DEF Restart
  <2>2. NameVanishes
    BY <1>3 DEF Restart, NameVanishes, CoreTypeOK, ClientViewExact
  <2>3. nextFreeId' \in 0..MaxId BY <1>3, MaxIdAssumption DEF Restart
  <2>4. QED BY <1>3, <2>1, <2>2, <2>3 DEF Restart, Ends
<1>4. QED BY <1>1, <1>2, <1>3

\* The invariant holds at first ...
LEMMA CoreInitInv == CoreInit => CoreInv
<1>1. SUFFICES ASSUME CoreInit PROVE CoreInv OBVIOUS
<1>2. /\ Volumes(Absent) = Pending(Absent) /\ Empty(Absent)
      /\ Mounted(Absent) = {} /\ Pending(Absent) = {}
  BY SentinelFacts, PendingPointwise, EmptyPointwise DEF Waiting, Mounted, Pending
<1>3. CoreTypeOK BY <1>1, MaxIdAssumption DEF CoreInit, CoreTypeOK
<1>4. UniqueLinks /\ NeverRejected /\ NamesAccepted /\ SetUpOnce /\ JobConsistent
  BY <1>1, SentinelFacts DEF CoreInit, UniqueLinks, NeverRejected, NamesAccepted,
     SetUpOnce, JobConsistent, Registered
<1>5. ClientViewExact /\ NoVolumeForgotten /\ DeferredMounting
  BY <1>1, <1>2, SentinelFacts DEF CoreInit, ClientViewExact, NoVolumeForgotten,
     DeferredMounting
<1>6. QED BY <1>3, <1>4, <1>5 DEF CoreInv

\* ... and every step of the daemon or of the bus keeps it.
LEMMA CoreStepInv == CoreInv /\ [CoreNext]_coreVars => CoreInv'
<1>1. SUFFICES ASSUME CoreInv, [CoreNext]_coreVars PROVE CoreInv' OBVIOUS
<1>2. ASSUME NEW l \in Link, NEW stem \in Stem \cup {NoStem},
             NEW o \in Outcome(stem), HandleNewDevice(l, stem, o)
      PROVE  CoreInv'
  BY <1>1, <1>2, HandleNewDeviceInv
<1>3. ASSUME NEW l \in Link, HandleRemovedDevice(l) PROVE CoreInv'
  BY <1>1, <1>3, HandleRemovedDeviceInv
<1>4. CASE Continue
  BY <1>1, <1>4, MountVolumeInv, DropVolumeInv, DropDeviceInv DEF Continue
<1>5. CASE Shutdown \/ Stop \/ Restart
  BY <1>1, <1>5, StopsEnd, StoppedInv DEF CoreInv
<1>6. CASE UNCHANGED coreVars
  BY <1>1, <1>6 DEF coreVars, CoreInv, CoreTypeOK, UniqueLinks, ClientViewExact,
     NoVolumeForgotten, DeferredMounting, NeverRejected, SetUpOnce, JobConsistent,
     NamesAccepted, Registered
<1>7. QED BY <1>1, <1>2, <1>3, <1>4, <1>5, <1>6 DEF CoreNext

\* The device manager and the mounting logic keep their joint invariant,
\* however links come and go, whatever fails and whenever the process ends.
THEOREM CoreInvariant == CoreSpec => []CoreInv
<1>1. QED BY CoreInitInv, CoreStepInv, PTL DEF CoreSpec

\* The types of the daemon's variables.
COROLLARY TypesAreRight == CoreSpec => []CoreTypeOK
<1>1. CoreInv => CoreTypeOK BY DEF CoreInv
<1>2. QED BY <1>1, CoreInvariant, PTL

\* Two registered devices never carry the same link name.
COROLLARY LinksAreUnique == CoreSpec => []UniqueLinks
<1>1. CoreInv => UniqueLinks BY DEF CoreInv
<1>2. QED BY <1>1, CoreInvariant, PTL

\* A client that only listens to signals knows exactly the devices that are
\* set up and the volumes that are mounted, between any two of them.
COROLLARY ClientsSeeTheTruth == CoreSpec => []ClientViewExact
<1>1. CoreInv => ClientViewExact BY DEF CoreInv
<1>2. QED BY <1>1, CoreInvariant, PTL

\* No volume of a device with a directory is left waiting, in whatever order
\* the links of the disk and of its partitions are handled.
COROLLARY VolumesAreNotForgotten == CoreSpec => []NoVolumeForgotten
<1>1. CoreInv => NoVolumeForgotten BY DEF CoreInv
<1>2. QED BY <1>1, CoreInvariant, PTL

\* Nothing is mounted before its device is probed, accepted and given a
\* directory.
COROLLARY MountingIsDeferred == CoreSpec => []DeferredMounting
<1>1. CoreInv => DeferredMounting BY DEF CoreInv
<1>2. QED BY <1>1, CoreInvariant, PTL

\* The "Overwriting device mountpoint container" of the code is dead code.
COROLLARY DevicesAreSetUpOnce == CoreSpec => []SetUpOnce
<1>1. CoreInv => SetUpOnce BY DEF CoreInv
<1>2. QED BY <1>1, CoreInvariant, PTL

\* The REJECTED state of the code is dead code.
COROLLARY NothingIsRejected == CoreSpec => []NeverRejected
<1>1. CoreInv => NeverRejected BY DEF CoreInv
<1>2. QED BY <1>1, CoreInvariant, PTL

\* A client that calls GetAll gets what the signals would have told it, but for
\* devices without a directory.
COROLLARY LateClientsCatchUp == CoreSpec => []LateClientCatchesUp
<1>1. ASSUME CoreInv, pc = "idle"
      PROVE  /\ GetAllVolumes = catVolumes
             /\ {i \in ID : catalog[i] = "announced"}
                  = {i \in GetAllDevices : devices[i].dir = "created"}
  <2>1. \A i \in ID : /\ catalog[i] \in {"unknown", "announced"}
                      /\ catalog[i] = "announced" <=> devices[i].dir = "created"
                      /\ devices[i].dir = "created" => devices[i].state = "OK"
    BY <1>1 DEF CoreInv, CoreTypeOK, ClientViewExact, DeferredMounting
  <2>2. \A i \in ID : devices[i].state # "OK" => Mounted(devices[i]) = {}
    <3>1. \A i \in ID : devices[i].state # "OK"
                        => \A k \in Index : Waiting(devices[i].vol[k])
      BY <1>1, PendingPointwise DEF CoreInv, DeferredMounting
    <3>2. QED BY <3>1, SentinelFacts DEF Waiting, Mounted
  <2>3. \A i \in ID, k \in Index : <<i, k>> \in catVolumes
                                   <=> i \in GetAllDevices /\ k \in Mounted(devices[i])
    BY <1>1, <2>1, <2>2 DEF CoreInv, ClientViewExact, GetAllDevices
  <2>4. catVolumes \subseteq ID \X Index BY <1>1 DEF CoreInv, CoreTypeOK
  <2>5. GetAllVolumes = catVolumes
    <3>1. ASSUME NEW v \in catVolumes PROVE v \in GetAllVolumes
      <4>1. PICK i \in ID, k \in Index : v = <<i, k>> BY <2>4
      <4>2. QED BY <4>1, <2>3 DEF GetAllVolumes, GetAllDevices
    <3>2. ASSUME NEW v \in GetAllVolumes PROVE v \in catVolumes
      <4>1. PICK i \in ID, k \in Index : v = <<i, k>>
        BY DEF GetAllVolumes, GetAllDevices
      <4>2. QED BY <4>1, <2>3 DEF GetAllVolumes, GetAllDevices
    <3>3. QED BY <3>1, <3>2
  <2>6. QED BY <2>1, <2>5 DEF GetAllDevices
<1>2. CoreInv => LateClientCatchesUp BY <1>1 DEF LateClientCatchesUp
<1>3. QED BY <1>2, CoreInvariant, PTL

=============================================================================
