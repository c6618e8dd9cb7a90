---------------------- MODULE AutomounterSteps_proofs ----------------------
(***************************************************************************)
(* What the steps of Automounter do, on top of its invariant: they are     *)
(* steps of the abstract catalogue or invisible to it, and they leave the  *)
(* volumes that have been dealt with alone.                                *)
(***************************************************************************)
EXTENDS Automounter_proofs, FiniteSetTheorems

----------------------------------------------------------------------------
(* The catalogue                                                           *)

CatalogStep == [Catalog!CatalogNext]_(Catalog!catalogVars)

\* Outside of handle_removed_device no device is being taken down.
LEMMA QuietOutsideRemoval ==
    ASSUME ViewInv, pc \in {"idle", "mount"}
    PROVE  Catalog!Quiet
BY DEF ViewInv, ClientViewExact, Catalog!Quiet

LEMMA HandedCatalog ==
    ASSUME CoreInv, pc = "idle", NEW i \in ID, NEW mkdir \in BOOLEAN,
           HandedOver(i, mkdir)
    PROVE  CatalogStep
<1>1. PICK d, k, probed, b :
        Ready(i, d, k, probed, b) /\ Proceed(i, d, k, probed, b, mkdir)
  BY DEF HandedOver
<1>2. CASE Keep(i, d, k, b) \/ TryMount(i, d, k, probed, b)
  BY <1>2 DEF Keep, TryMount, CatalogStep, Catalog!catalogVars
<1>3. CASE SetUp(i, d, k, probed, b, mkdir)
  <2>1. \/ UNCHANGED <<catalog, catVolumes>>
        \/ Announce(i) /\ UNCHANGED catVolumes
    BY <1>3 DEF SetUp
  <2>2. d.dir = "unset"
    BY <1>1, <1>3, FilterType DEF Ready, SetUp
  <2>3. catalog[i] = "unknown"
    BY <1>1, <2>2 DEF Ready, CoreInv, ClientViewExact
  <2>4. Announce(i) /\ UNCHANGED catVolumes => Catalog!NewUSBDevice(i)
    BY <2>3, CoreInvIsView, QuietOutsideRemoval DEF Announce, Catalog!NewUSBDevice
  <2>5. QED
    BY <2>1, <2>4 DEF CatalogStep, Catalog!CatalogNext, Catalog!catalogVars
<1>4. QED BY <1>1, <1>2, <1>3 DEF Proceed

LEMMA MountVolumeCatalog ==
    ASSUME ViewInv, NEW k \in Index, NEW ok \in BOOLEAN, MountVolume(k, ok)
    PROVE  CatalogStep
<1>1. /\ pc = "mount" /\ cur \in ID /\ k \in Pending(devices[cur])
      /\ devices[cur].dir = "created" /\ UNCHANGED catalog
  BY DEF MountVolume, ViewInv, JobConsistent
<1>2. Catalog!Quiet BY <1>1, QuietOutsideRemoval
<1>3. catalog[cur] = "announced"
  BY <1>1 DEF ViewInv, CoreTypeOK, ClientViewExact
<1>4. <<cur, k>> \notin catVolumes
  <2>1. k \notin Mounted(devices[cur]) BY <1>1 DEF Pending, Mounted
  <2>2. QED BY <1>1, <1>3, <2>1 DEF ViewInv, ClientViewExact
<1>5. UNCHANGED <<catalog, catVolumes>> \/ Catalog!NewVolume(cur, k)
  BY <1>1, <1>2, <1>3, <1>4 DEF MountVolume, Catalog!NewVolume
<1>6. QED BY <1>1, <1>5 DEF CatalogStep, Catalog!CatalogNext, Catalog!catalogVars

LEMMA HandleRemovedDeviceCatalog ==
    ASSUME ViewInv, NEW l \in Link, HandleRemovedDevice(l)
    PROVE  CatalogStep
<1>1. pc = "idle" /\ UNCHANGED catVolumes BY DEF HandleRemovedDevice
<1>2. ASSUME NEW i \in ID, devices[i].dir = "created",
             catalog' = [catalog EXCEPT ![i] = "leaving"]
      PROVE  Catalog!DeviceWillBeRemoved(i)
  <2>1. catalog[i] = "announced"
    BY <1>1, <1>2 DEF ViewInv, CoreTypeOK, ClientViewExact
  <2>2. QED
    BY <1>1, <1>2, <2>1, QuietOutsideRemoval DEF Catalog!DeviceWillBeRemoved
<1>3. \/ UNCHANGED <<catalog, catVolumes>>
      \/ \E i \in ID : Catalog!DeviceWillBeRemoved(i)
  BY <1>1, <1>2 DEF HandleRemovedDevice
<1>4. QED BY <1>3 DEF CatalogStep, Catalog!CatalogNext, Catalog!catalogVars

LEMMA DropDeviceCatalog ==
    ASSUME ViewInv, DropDevice
    PROVE  CatalogStep
<1>1. pc = "drop" /\ cur \in ID /\ catalog[cur] # "announced"
  BY DEF DropDevice, ViewInv, JobConsistent
<1>2. CASE devices[cur].dir = "created"
  <2>1. catalog[cur] = "leaving"
    BY <1>1, <1>2 DEF ViewInv, CoreTypeOK, ClientViewExact
  <2>2. Catalog!DeviceRemoved(cur)
    BY <1>2, <2>1 DEF DropDevice, Catalog!DeviceRemoved
  <2>3. QED BY <1>1, <2>2 DEF CatalogStep, Catalog!CatalogNext
<1>3. CASE devices[cur].dir # "created"
  BY <1>3 DEF DropDevice, CatalogStep, Catalog!catalogVars
<1>4. QED BY <1>2, <1>3

LEMMA StepCatalog == CoreInv /\ [CoreNext]_coreVars => CatalogStep
<1>1. SUFFICES ASSUME CoreInv, [CoreNext]_coreVars PROVE CatalogStep OBVIOUS
<1>2. ASSUME UNCHANGED <<catalog, catVolumes>> PROVE CatalogStep
  BY <1>2 DEF CatalogStep, Catalog!catalogVars
<1>3. ASSUME NEW l \in Link, NEW stem \in Stem \cup {NoStem},
             NEW o \in Outcome(stem), HandleNewDevice(l, stem, o)
      PROVE  CatalogStep
  <2>1. CASE Disregard(l, stem, o) \/ Spin(l, stem, o)
    BY <1>2, <2>1 DEF Disregard, Spin
  <2>2. QED BY <1>1, <1>3, <2>1, HandleNewDeviceHands, HandedCatalog
<1>4. ASSUME NEW l \in Link, HandleRemovedDevice(l) PROVE CatalogStep
  BY <1>1, <1>4, CoreInvIsView, HandleRemovedDeviceCatalog
<1>5. CASE Continue
  <2>1. ASSUME NEW k \in Index, DropVolume(k) PROVE CatalogStep
    BY <1>2, <2>1 DEF DropVolume
  <2>2. QED
    BY <1>1, <1>5, <2>1, CoreInvIsView, MountVolumeCatalog, DropDeviceCatalog DEF Continue
<1>6. CASE Shutdown \/ Stop
  BY <1>6 DEF Shutdown, Stop, NameVanishes, CatalogStep, Catalog!CatalogNext,
     Catalog!NameLost
<1>7. CASE Restart BY <1>2, <1>7 DEF Restart
<1>8. CASE UNCHANGED coreVars BY <1>2, <1>8 DEF coreVars
<1>9. QED BY <1>1, <1>3, <1>4, <1>5, <1>6, <1>7, <1>8 DEF CoreNext

\* The daemon implements the abstract catalogue: a device is announced before
\* its volumes and withdrawn after a warning, no volume is announced twice,
\* and nothing is announced while a device is being taken down.
THEOREM ImplementsCatalog == CoreSpec => RefinesCatalog
<1>1. CoreInit => Catalog!CatalogInit BY DEF CoreInit, Catalog!CatalogInit
<1>2. CoreInv /\ [CoreNext]_coreVars
      => [Catalog!CatalogNext]_(Catalog!catalogVars)
  BY StepCatalog DEF CatalogStep
<1>3. QED
  BY <1>1, <1>2, CoreInvariant, PTL DEF CoreSpec, RefinesCatalog, Catalog!CatalogSpec

----------------------------------------------------------------------------
(* Settled volumes                                                         *)

Done(v) == v.state \in {"MOUNTED", "UNUSABLE"}

SettledKept ==
    \A i \in ID : \A k \in Index :
        Done(devices[i].vol[k]) => devices'[i].vol[k] = devices[i].vol[k]

LEMMA HandedSettled ==
    ASSUME CoreInv, pc = "idle", NEW i \in ID, NEW mkdir \in BOOLEAN,
           HandedOver(i, mkdir)
    PROVE  SettledKept
<1>1. PICK d, k, probed, b :
        Ready(i, d, k, probed, b) /\ Proceed(i, d, k, probed, b, mkdir)
  BY DEF HandedOver
<1>2. Filter(d) \in Device /\ Filter(d).vol = d.vol /\ d \in Device
  BY <1>1, FilterType DEF Ready
<1>3. MkWorkingDirectory(Filter(d), mkdir).vol = d.vol
  BY <1>2, MkWorkingDirectoryType
<1>4. PICK e \in {d, Filter(d), MkWorkingDirectory(Filter(d), mkdir)} : Store(i, e)
  BY <1>1 DEF Proceed, Keep, SetUp, TryMount
<1>5. \A j \in ID : devices'[j] = IF j = i THEN e ELSE devices[j]
  BY <1>4 DEF Store, CoreInv, CoreTypeOK
<1>6. e.vol = d.vol BY <1>2, <1>3, <1>4
<1>7. \A n \in Index : Done(devices[i].vol[n]) => d.vol[n] = devices[i].vol[n]
  BY <1>1, SentinelFacts DEF Ready, Done
<1>8. QED BY <1>5, <1>6, <1>7 DEF SettledKept

LEMMA StepSettled ==
    ASSUME CoreInv, [CoreNext]_coreVars, "stopped" \notin {pc, pc'},
           NEW i \in ID, ~(pc = "drop" /\ cur = i), NEW k \in Index,
           Done(devices[i].vol[k])
    PROVE  devices'[i].vol[k] = devices[i].vol[k]
<1>1. ASSUME NEW l \in Link, NEW stem \in Stem \cup {NoStem},
             NEW o \in Outcome(stem), HandleNewDevice(l, stem, o)
      PROVE  devices'[i].vol[k] = devices[i].vol[k]
  <2>1. CASE Disregard(l, stem, o) \/ Spin(l, stem, o)
    BY <2>1 DEF Disregard, Spin
  <2>2. QED BY <1>1, <2>1, HandleNewDeviceHands, HandedSettled DEF SettledKept
<1>2. ASSUME NEW n \in Index, NEW ok \in BOOLEAN, MountVolume(n, ok)
      PROVE  devices'[i].vol[k] = devices[i].vol[k]
  <2>1. cur \in ID /\ devices[cur].vol[n].state = "PENDING"
    BY <1>2 DEF MountVolume, CoreInv, JobConsistent, Pending
  <2>2. i # cur \/ k # n BY <2>1 DEF Done
  <2>3. devices[i] \in Device \cup {Absent} BY DEF CoreInv, CoreTypeOK
  <2>4. devices'[i].vol = IF i = cur
                          THEN [devices[i].vol EXCEPT ![n].state =
                                  IF ok THEN "MOUNTED" ELSE "UNUSABLE"]
                          ELSE devices[i].vol
    BY <1>2, <2>1, <2>3 DEF MountVolume, CoreInv, CoreTypeOK, Device, Absent
  <2>5. devices[i].vol = [m \in Index |-> devices[i].vol[m]]
    BY DeviceCases DEF CoreInv
  <2>6. QED BY <2>2, <2>4, <2>5
<1>3. ASSUME NEW n \in Index, DropVolume(n)
      PROVE  devices'[i].vol[k] = devices[i].vol[k]
  BY <1>3 DEF DropVolume, CoreInv, CoreTypeOK
<1>4. CASE DropDevice BY <1>4 DEF DropDevice, CoreInv, CoreTypeOK
<1>5. CASE Continue BY <1>2, <1>3, <1>4, <1>5 DEF Continue
<1>6. ASSUME NEW l \in Link, HandleRemovedDevice(l)
      PROVE  devices'[i].vol[k] = devices[i].vol[k]
  BY <1>6 DEF HandleRemovedDevice
<1>7. ~Shutdown /\ ~Stop /\ ~Restart BY DEF Shutdown, Stop, Restart
<1>8. CASE UNCHANGED coreVars BY <1>8 DEF coreVars
<1>9. QED BY <1>1, <1>5, <1>6, <1>7, <1>8 DEF CoreNext

\* A volume that is mounted, or that could not be, is not touched again
\* before its device is removed or the process ends.
THEOREM SettledVolumesAreKept == CoreSpec => SettledVolumesStay
<1> DEFINE A == \A i \in ID : \A k \in Index :
                  /\ devices[i].vol[k].state \in {"MOUNTED", "UNUSABLE"}
                  /\ "stopped" \notin {pc, pc'} /\ ~(pc = "drop" /\ cur = i)
                  => devices'[i].vol[k] = devices[i].vol[k]
<1>1. CoreInv /\ [CoreNext]_coreVars => [A]_coreVars
  BY StepSettled DEF Done
<1>2. QED BY <1>1, CoreInvariant, PTL DEF CoreSpec, SettledVolumesStay

----------------------------------------------------------------------------
(* What the handler of a new link does to the map of devices               *)

\* The tail of the handler stores the device it is handed, which may move on
\* from PROBED to OK and have its directory made.
LEMMA ProceedStores ==
    ASSUME CoreInv, pc = "idle", NEW i, NEW d, NEW k, NEW probed, NEW b,
           NEW mkdir \in BOOLEAN,
           Ready(i, d, k, probed, b), Proceed(i, d, k, probed, b, mkdir)
    PROVE  /\ devices'[i] \in Device /\ Registered(i)'
           /\ \A j \in ID : j # i => devices'[j] = devices[j]
           /\ devices'[i].link = d.link /\ devices'[i].vol = d.vol
           /\ d.state # "PROBED" => devices'[i] = d
           /\ d.state = "PROBED" => devices'[i].state \in {"PROBED", "OK"}
           /\ d.state = "PROBED" /\ k = NoIndex /\ Empty(d) => devices'[i] = d
           /\ mkdir /\ d.dir # "failed" => devices'[i].dir # "failed"
           /\ pc' \in {"idle", "mount"}
<1> DEFINE f == Filter(d)
           g == MkWorkingDirectory(f, mkdir)
<1>1. /\ d \in Device /\ f \in Device /\ f.link = d.link /\ f.dir = d.dir
      /\ f.vol = d.vol /\ (d.state # "PROBED" => f = d)
      /\ d.state = "PROBED" => f.state = "OK" /\ d.dir = "unset"
  BY FilterType DEF Ready
<1>2. /\ g \in Device /\ g.link = d.link /\ g.state = f.state /\ g.vol = d.vol
      /\ mkdir /\ d.dir # "failed" => g.dir # "failed"
  BY <1>1, MkWorkingDirectoryType DEF MkWorkingDirectory
<1>3. PICK e \in {d, f, g} :
        /\ Store(i, e)
        /\ k = NoIndex /\ Empty(d) => e = d
        /\ d.state # "PROBED" => e = d
        /\ pc' \in {"idle", "mount"}
  <2>1. CASE Keep(i, d, k, b)
    BY <1>1, <2>1 DEF Keep
  <2>2. CASE SetUp(i, d, k, probed, b, mkdir)
    <3>1. d.state = "PROBED"
      BY <1>1, <2>2 DEF SetUp, Ready
    <3>2. QED
      BY <2>2, <3>1 DEF SetUp, StartMounting
  <2>3. CASE TryMount(i, d, k, probed, b)
    BY <1>1, <2>3 DEF TryMount, StartMounting
  <2>4. QED
    BY <2>1, <2>2, <2>3 DEF Proceed
<1>4. \A j \in ID : devices'[j] = IF j = i THEN e ELSE devices[j]
  BY <1>3 DEF Store, CoreInv, CoreTypeOK
<1>5. i \in ID
  BY DEF Ready
<1>6. Registered(i)'
  BY <1>1, <1>2, <1>3, <1>4, <1>5, SentinelFacts DEF Registered
<1>7. e.state \in {"PROBED", "OK"} \/ d.state # "PROBED"
  BY <1>1, <1>2, <1>3
<1> HIDE DEF f, g
<1>8. QED
  BY <1>1, <1>2, <1>3, <1>4, <1>5, <1>6, <1>7

\* The index of the volume a link stands for, and its device's name.
VolumeIndex(l, stem) == IF Number(l, stem) = 0 THEN Whole ELSE Number(l, stem)
DeviceName(l, stem) == IF Number(l, stem) = 0 THEN l[1] ELSE RootName(l)

\* What has become of device i when link l was handled that resolved to stem.
Handled(i, l, stem, o) ==
    LET was == devices[i]
        is == devices'[i]
        n == VolumeIndex(l, stem) IN
    /\ is \in Device /\ Registered(i)' /\ pc' \in {"idle", "mount"}
    /\ \A j \in ID : j # i => devices'[j] = devices[j]
    /\ is.link = DeviceName(l, stem) /\ (Registered(i) => was.link = is.link)
    /\ \A k \in Index :
          \/ is.vol[k] = was.vol[k]
          \/ /\ was.vol[k] = NoVolume /\ k = n /\ o.info
             /\ is.vol[k] = [state |-> "PENDING", stem |-> stem]
    /\ o.info /\ ~(Number(l, stem) = 0 /\ Registered(i)) => is.vol[n] # NoVolume
    /\ o.mkdir /\ was.dir # "failed" => is.dir # "failed"
    /\ is.state = "OK" => was.state = "OK" \/ ~Empty(is)
    /\ was.state \in {"PROBED", "OK"} => is.state \in {"PROBED", "OK"}
    /\ IF Number(l, stem) = 0
       THEN o.probe /\ was.state # "BROKEN" => is.state \in {"PROBED", "OK"}
       ELSE /\ was.state \in {"absent", "SYNTHETIC"} => is.state = "SYNTHETIC"
            /\ ~o.info => Registered(i) /\ is = was

LEMMA WithVolume ==
    ASSUME NEW d, NEW k \in Index, d.vol[k] # NoVolume
    PROVE  ~Empty(d)
BY EmptyPointwise

LEMMA NewRootDeviceHandled ==
    ASSUME CoreInv, pc = "idle", NEW i \in ID, NEW l \in Link,
           NEW stem \in Stem \cup {NoStem}, NEW o \in Outcome(stem),
           IsAcceptable(l[1]), NewRootDevice(i, l, stem, o)
    PROVE  Handled(i, l, stem, o)
<1> DEFINE b == Probe(NewDevice(l[1]), o.probe)
           d == IF o.info THEN AddVolume(b, Whole, stem) ELSE b
           k == IF o.info THEN Whole ELSE NoIndex
<1>1. /\ l[1] \in Disk /\ o.probe \in BOOLEAN /\ o.mkdir \in BOOLEAN
      /\ o.info \in BOOLEAN /\ (o.info => stem \in Stem)
      /\ Whole \in Index /\ Whole # NoIndex /\ NoIndex \notin Index
  BY NumberType, SentinelFacts DEF Outcome, Index, Whole, NoIndex
<1>2. ~Registered(i) /\ ~Known(l[1]) /\ Number(l, stem) = 0
  BY DEF NewRootDevice, IsNextId
<1>3. devices[i] = Absent
  BY <1>2 DEF Registered
<1>4. /\ NewDevice(l[1]) \in Device /\ NewDevice(l[1]).state = "SYNTHETIC"
      /\ NewDevice(l[1]).dir = "unset" /\ NewDevice(l[1]).link = l[1]
      /\ \A n \in Index : NewDevice(l[1]).vol[n] = NoVolume
  BY <1>1, NewDeviceType
<1>5. /\ Sound(i, b) /\ b \in Device /\ b.link = l[1]
      /\ b.state = (IF o.probe THEN "PROBED" ELSE "BROKEN")
      /\ \A n \in Index : b.vol[n] = NoVolume
  <2>1. Sound(i, NewDevice(l[1]))
    BY <1>1, <1>2, NewDeviceSound
  <2>2. Sound(i, b)
    BY <1>1, <2>1, ProbeSound
  <2>3. /\ b \in Device /\ b.link = l[1] /\ b.vol = NewDevice(l[1]).vol
        /\ b.state = (IF o.probe THEN "PROBED" ELSE "BROKEN")
    BY <1>1, <1>4, ProbeType
  <2>4. QED
    BY <1>4, <2>2, <2>3
<1>6. /\ Ready(i, d, k, o.probe, "none")
      /\ Proceed(i, d, k, o.probe, "none", o.mkdir)
  <2>1. CASE o.info
    <3>1. Ready(i, AddVolume(b, Whole, stem), Whole, o.probe, "none")
      BY <1>1, <1>5, <2>1, AddVolumeReady
    <3>2. QED
      BY <2>1, <3>1 DEF NewRootDevice
  <2>2. CASE ~o.info
    <3>1. Ready(i, b, NoIndex, o.probe, "none")
      BY <1>1, <1>5, AsIsReady
    <3>2. QED
      BY <2>2, <3>1 DEF NewRootDevice
  <2>3. QED
    BY <1>1, <2>1, <2>2
<1>7. /\ d.link = l[1] /\ d.state = b.state
      /\ \A n \in Index : d.vol[n] = IF o.info /\ n = Whole
                                     THEN [state |-> "PENDING", stem |-> stem]
                                     ELSE NoVolume
      /\ o.info => d.vol[Whole] # NoVolume /\ ~Empty(d)
  <2>1. CASE o.info
    <3>1. /\ d.link = b.link /\ d.state = b.state /\ d.vol[Whole] # NoVolume
          /\ \A j \in Index : j # Whole => d.vol[j] = b.vol[j]
      BY <1>1, <1>5, <2>1, AddVolumeType
    <3>2. d.vol[Whole] = [state |-> "PENDING", stem |-> stem]
      BY <1>1, <1>5, <2>1 DEF AddVolume, Device
    <3>3. QED
      BY <1>1, <1>5, <2>1, <3>1, <3>2, WithVolume
  <2>2. CASE ~o.info
    BY <1>5, <2>2
  <2>3. QED
    BY <1>1, <2>1, <2>2
<1>8. /\ devices'[i] \in Device /\ Registered(i)' /\ pc' \in {"idle", "mount"}
      /\ \A j \in ID : j # i => devices'[j] = devices[j]
      /\ devices'[i].link = d.link /\ devices'[i].vol = d.vol
      /\ d.state # "PROBED" => devices'[i] = d
      /\ d.state = "PROBED" => devices'[i].state \in {"PROBED", "OK"}
      /\ d.state = "PROBED" /\ k = NoIndex /\ Empty(d) => devices'[i] = d
      /\ o.mkdir /\ d.dir # "failed" => devices'[i].dir # "failed"
  BY <1>1, <1>6, ProceedStores
<1>9. d.dir = "unset"
  BY <1>3, <1>6, SentinelFacts DEF Ready
<1>10. ~o.info => Empty(d)
  BY <1>7, EmptyPointwise
<1>11. devices'[i].state = "OK" => ~Empty(devices'[i])
  <2>1. devices'[i].state = "OK" => d.state = "PROBED" /\ o.info
    BY <1>1, <1>5, <1>7, <1>8, <1>10
  <2>2. QED
    BY <1>1, <1>7, <1>8, <2>1, WithVolume
<1>12. VolumeIndex(l, stem) = Whole /\ DeviceName(l, stem) = l[1]
  BY <1>2 DEF VolumeIndex, DeviceName
<1> HIDE DEF d, k, b
<1>13. QED
  BY <1>1, <1>2, <1>3, <1>5, <1>7, <1>8, <1>9, <1>11, <1>12, SentinelFacts DEF Handled

\* A device that is known has been set up if it can be.
LEMMA RegisteredFacts ==
    ASSUME CoreInv, pc = "idle", NEW i \in ID, Registered(i)
    PROVE  /\ devices[i] \in Device
           /\ devices[i].state # "absent"
           /\ devices[i].state = "PROBED" => Empty(devices[i])
           /\ devices[i].state = "SYNTHETIC" => ~Empty(devices[i])
<1>1. devices[i] \in Device
  BY DeviceCases DEF CoreInv
<1>2. QED
  BY <1>1 DEF CoreInv, DeferredMounting, Device, DeviceState

LEMMA KnownRootDeviceHandled ==
    ASSUME CoreInv, pc = "idle", NEW i \in ID, NEW l \in Link,
           NEW stem \in Stem \cup {NoStem}, NEW o \in Outcome(stem),
           KnownRootDevice(i, l, stem, o)
    PROVE  Handled(i, l, stem, o)
<1> DEFINE was == devices[i]
           d == Probe(was, o.probe)
           k == LookupVolume(d, Whole, stem)
           probed == was.state = "SYNTHETIC" /\ o.probe
<1>1. o.probe \in BOOLEAN /\ o.mkdir \in BOOLEAN
  BY DEF Outcome
<1>2. Registered(i) /\ was.link = l[1] /\ Number(l, stem) = 0
  BY DEF KnownRootDevice, IsDevice
<1>3. /\ was \in Device /\ was.state # "absent"
      /\ was.state = "PROBED" => Empty(was)
      /\ was.state = "SYNTHETIC" => ~Empty(was)
  BY <1>2, RegisteredFacts
<1>4. /\ d \in Device /\ d.link = l[1] /\ d.vol = was.vol /\ d.dir = was.dir
      /\ was.state # "SYNTHETIC" => d = was
      /\ was.state = "SYNTHETIC" => d.state = (IF o.probe THEN "PROBED" ELSE "BROKEN")
  BY <1>1, <1>2, <1>3, ProbeType DEF Probe
<1>5. Sound(i, d) /\ d.state # "SYNTHETIC" /\ (probed => d.state = "PROBED")
  BY <1>1, <1>2, RegisteredSound, ProbeSound
<1>6. k \in Index \cup {NoIndex} /\ (k # NoIndex => ~Empty(d))
  BY WithVolume DEF LookupVolume, HasVolume, Index
<1>7. Ready(i, d, k, probed, "none")
  <2> HIDE DEF d, k, probed
  <2>1. probed \in BOOLEAN BY DEF probed
  <2>2. QED BY <1>5, <1>6, <2>1, AsIsReady
<1>8. Proceed(i, d, k, probed, "none", o.mkdir)
  BY DEF KnownRootDevice
<1>9. Empty(d) <=> Empty(was)
  BY <1>4, EmptyPointwise
<1> HIDE DEF d, k, probed
<1>10. /\ devices'[i] \in Device /\ Registered(i)' /\ pc' \in {"idle", "mount"}
       /\ \A j \in ID : j # i => devices'[j] = devices[j]
       /\ devices'[i].link = d.link /\ devices'[i].vol = d.vol
       /\ d.state # "PROBED" => devices'[i] = d
       /\ d.state = "PROBED" => devices'[i].state \in {"PROBED", "OK"}
       /\ d.state = "PROBED" /\ k = NoIndex /\ Empty(d) => devices'[i] = d
       /\ o.mkdir /\ d.dir # "failed" => devices'[i].dir # "failed"
  BY <1>1, <1>7, <1>8, ProceedStores
<1>11. Empty(devices'[i]) <=> Empty(d)
  BY <1>10, EmptyPointwise
<1>12. /\ devices'[i].state = "OK" => was.state = "OK" \/ ~Empty(devices'[i])
       /\ was.state \in {"PROBED", "OK"} => devices'[i].state \in {"PROBED", "OK"}
       /\ o.probe /\ was.state # "BROKEN" => devices'[i].state \in {"PROBED", "OK"}
  <2>1. was.state \in {"SYNTHETIC", "PROBED", "OK", "REJECTED", "BROKEN"}
        /\ was.state # "REJECTED"
    BY <1>3 DEF Device, DeviceState, CoreInv, NeverRejected
  <2>2. QED
    BY <1>3, <1>4, <1>6, <1>9, <1>10, <1>11, <2>1
<1>13. VolumeIndex(l, stem) = Whole /\ DeviceName(l, stem) = l[1]
  BY <1>2 DEF VolumeIndex, DeviceName
<1>14. QED
  BY <1>2, <1>4, <1>10, <1>12, <1>13 DEF Handled

LEMMA NewPartitionHandled ==
    ASSUME CoreInv, pc = "idle", NEW i \in ID, NEW l \in Link,
           NEW stem \in Stem \cup {NoStem}, NEW o \in Outcome(stem),
           IsAcceptable(l[1]), NewPartition(i, l, stem, o)
    PROVE  Handled(i, l, stem, o)
<1> DEFINE n == Number(l, stem)
           d == IF Registered(i) THEN devices[i] ELSE NewDevice(RootName(l))
<1>1. /\ l[1] \in Disk /\ o.mkdir \in BOOLEAN /\ stem \in Stem /\ o.info
      /\ n \in Index /\ n > 0 /\ n # NoIndex /\ RootName(l) \in Disk \cup {Unnamed}
  BY NumberType DEF Outcome, NewPartition, NoIndex
<1>2. IsAcceptable(RootName(l))
  BY SentinelAssumption, LinkAssumption DEF IsAcceptable, RootName
<1>3. /\ Sound(i, d) /\ d \in Device /\ d.link = RootName(l)
      /\ \A k \in Index : d.vol[k] = devices[i].vol[k]
      /\ d.dir = devices[i].dir
      /\ Registered(i) => d = devices[i]
      /\ ~Registered(i) => d.state = "SYNTHETIC" /\ devices[i].state = "absent"
  <2>1. CASE Registered(i)
    BY <2>1, RegisteredSound DEF NewPartition, IsDevice, IsNextId, Sound
  <2>2. CASE ~Registered(i)
    <3>1. Sound(i, NewDevice(RootName(l)))
      BY <1>1, <1>2, <2>2, NewDeviceSound DEF NewPartition, IsDevice
    <3>2. QED
      BY <1>1, <2>2, <3>1, NewDeviceType, SentinelFacts DEF Sound, Registered
  <2>3. QED
    BY <2>1, <2>2
<1>4. Registered(i) =>
        /\ d.state # "absent"
        /\ d.state = "PROBED" => Empty(d)
        /\ d.state = "SYNTHETIC" => ~Empty(d)
  BY RegisteredFacts
<1>5. d.vol[n] # NoVolume => Registered(i)
  BY <1>1, NewDeviceType
<1> HIDE DEF d, n
<1>6. PICK e, k, probed, b :
        /\ Ready(i, e, k, probed, b) /\ Proceed(i, e, k, probed, b, o.mkdir)
        /\ e.link = d.link /\ e.state = d.state /\ e.dir = d.dir
        /\ \A j \in Index : j # n => e.vol[j] = d.vol[j]
        /\ e.vol[n] = IF d.vol[n] = NoVolume
                      THEN [state |-> "PENDING", stem |-> stem] ELSE d.vol[n]
        /\ e.vol[n] # NoVolume
  <2>1. CASE d.vol[n] = NoVolume
             /\ Proceed(i, AddVolume(d, n, stem), n, FALSE, "none", o.mkdir)
    <3>1. Ready(i, AddVolume(d, n, stem), n, FALSE, "none")
      BY <1>1, <1>3, <2>1, AddVolumeReady
    <3>2. AddVolume(d, n, stem).vol[n] = [state |-> "PENDING", stem |-> stem]
      BY <1>1, <1>3 DEF AddVolume, Device
    <3>3. /\ AddVolume(d, n, stem).link = d.link /\ AddVolume(d, n, stem).dir = d.dir
          /\ AddVolume(d, n, stem).state = d.state
          /\ AddVolume(d, n, stem).vol[n] # NoVolume
          /\ \A j \in Index : j # n => AddVolume(d, n, stem).vol[j] = d.vol[j]
      BY <1>1, <1>3, AddVolumeType
    <3>4. QED
      BY <2>1, <3>1, <3>2, <3>3
  <2>2. CASE d.vol[n] # NoVolume
    <3>1. d.state = "SYNTHETIC" => ~Empty(d)
      BY <1>4, <1>5, <2>2
    <3>2. Ready(i, d, n, FALSE, "none") /\ Ready(i, d, NoIndex, FALSE, "insertion")
      BY <1>1, <1>3, <3>1, AsIsReady
    <3>3. \/ Proceed(i, d, n, FALSE, "none", o.mkdir)
          \/ Proceed(i, d, NoIndex, FALSE, "insertion", o.mkdir)
      BY <2>2 DEF NewPartition, d, n
    <3>4. QED
      BY <2>2, <3>2, <3>3
  <2>3. QED
    BY <2>1, <2>2 DEF NewPartition, HasVolume, d, n
<1>7. /\ devices'[i] \in Device /\ Registered(i)' /\ pc' \in {"idle", "mount"}
      /\ \A j \in ID : j # i => devices'[j] = devices[j]
      /\ devices'[i].link = e.link /\ devices'[i].vol = e.vol
      /\ e.state # "PROBED" => devices'[i] = e
      /\ e.state = "PROBED" => devices'[i].state \in {"PROBED", "OK"}
      /\ o.mkdir /\ e.dir # "failed" => devices'[i].dir # "failed"
  BY <1>1, <1>6, ProceedStores
<1>8. ~Empty(devices'[i])
  BY <1>1, <1>6, <1>7, WithVolume
<1>9. VolumeIndex(l, stem) = n /\ DeviceName(l, stem) = RootName(l) /\ Number(l, stem) # 0
  BY <1>1 DEF VolumeIndex, DeviceName, n
<1>10. \A k1 \in Index :
          \/ devices'[i].vol[k1] = devices[i].vol[k1]
          \/ /\ devices[i].vol[k1] = NoVolume /\ k1 = n /\ o.info
             /\ devices'[i].vol[k1] = [state |-> "PENDING", stem |-> stem]
  BY <1>1, <1>3, <1>6, <1>7
<1>11. /\ devices[i].state \in {"PROBED", "OK"} => devices'[i].state \in {"PROBED", "OK"}
       /\ devices[i].state \in {"absent", "SYNTHETIC"} => devices'[i].state = "SYNTHETIC"
  <2>1. CASE Registered(i)
    BY <1>3, <1>4, <1>6, <1>7, <2>1
  <2>2. CASE ~Registered(i)
    BY <1>3, <1>6, <1>7, <2>2
  <2>3. QED
    BY <2>1, <2>2
<1>12. devices'[i].link = RootName(l) /\ (Registered(i) => devices[i].link = RootName(l))
  BY <1>3, <1>6, <1>7
<1>13. o.mkdir /\ devices[i].dir # "failed" => devices'[i].dir # "failed"
  BY <1>3, <1>6, <1>7
<1>14. devices'[i].vol[n] # NoVolume
  BY <1>6, <1>7
<1>15. QED
  BY <1>1, <1>7, <1>8, <1>9, <1>10, <1>11, <1>12, <1>13, <1>14 DEF Handled

LEMMA UnreadablePartitionHandled ==
    ASSUME CoreInv, pc = "idle", NEW i \in ID, NEW l \in Link,
           NEW stem \in Stem \cup {NoStem}, NEW o \in Outcome(stem),
           UnreadablePartition(i, l, stem, o)
    PROVE  Handled(i, l, stem, o)
<1> DEFINE was == devices[i]
<1>1. /\ Registered(i) /\ o.mkdir \in BOOLEAN /\ ~o.info
      /\ was.link = RootName(l) /\ Number(l, stem) # 0
  BY DEF UnreadablePartition, IsDevice, Outcome
<1>2. /\ was \in Device /\ was.state # "absent"
      /\ was.state = "PROBED" => Empty(was)
  BY <1>1, RegisteredFacts
<1>3. /\ Ready(i, was, NoIndex, FALSE, "none")
      /\ Proceed(i, was, NoIndex, FALSE, "none", o.mkdir)
  BY <1>1, RegisteredSound, AsIsReady DEF UnreadablePartition
<1>4. /\ devices'[i] = was /\ devices'[i] \in Device /\ Registered(i)'
      /\ pc' \in {"idle", "mount"}
      /\ \A j \in ID : j # i => devices'[j] = devices[j]
  <2> HIDE DEF was
  <2>0. PICK probed \in BOOLEAN, b \in {"none"} :
          /\ Ready(i, was, NoIndex, probed, b)
          /\ Proceed(i, was, NoIndex, probed, b, o.mkdir)
    BY <1>3
  <2>1. /\ devices'[i] \in Device /\ Registered(i)'
        /\ pc' \in {"idle", "mount"}
        /\ \A j \in ID : j # i => devices'[j] = devices[j]
        /\ was.state # "PROBED" => devices'[i] = was
        /\ was.state = "PROBED" /\ Empty(was) => devices'[i] = was
    BY <1>1, <2>0, ProceedStores
  <2>2. QED
    BY <1>2, <2>1
<1>5. DeviceName(l, stem) = RootName(l)
  BY <1>1 DEF DeviceName
<1>6. QED
  BY <1>1, <1>2, <1>4, <1>5 DEF Handled

\* One device at most is touched when a link is handled.
LEMMA NewDeviceHandled ==
    ASSUME CoreInv, NEW l \in Link, NEW stem \in Stem \cup {NoStem},
           NEW o \in Outcome(stem), HandleNewDevice(l, stem, o)
    PROVE  /\ pc = "idle"
           /\ \/ /\ devices' = devices /\ pc' \in {"idle", "spinning"}
                 /\ IsAcceptable(l[1]) /\ (Number(l, stem) = 0 \/ o.info)
                    => pc' = "spinning"
              \/ \E i \in ID : Handled(i, l, stem, o)
<1>1. pc = "idle" /\ Number(l, stem) \in Nat
  BY NumberType DEF HandleNewDevice
<1>2. CASE Disregard(l, stem, o) \/ Spin(l, stem, o)
  BY <1>1, <1>2 DEF Disregard, Spin
<1>3. ASSUME NEW i \in ID, IsAcceptable(l[1]),
             \/ NewRootDevice(i, l, stem, o) \/ KnownRootDevice(i, l, stem, o)
             \/ NewPartition(i, l, stem, o) \/ UnreadablePartition(i, l, stem, o)
      PROVE  Handled(i, l, stem, o)
  BY <1>1, <1>3, NewRootDeviceHandled, KnownRootDeviceHandled, NewPartitionHandled,
     UnreadablePartitionHandled
<1>4. QED
  BY <1>1, <1>2, <1>3 DEF HandleNewDevice

----------------------------------------------------------------------------
(* What the other handlers do to it                                        *)

LEMMA MountVolumeChanges ==
    ASSUME CoreInv, NEW k \in Index, NEW ok \in BOOLEAN, MountVolume(k, ok)
    PROVE  /\ pc = "mount" /\ pc' \in {"idle", "mount"}
           /\ cur \in ID /\ Registered(cur) /\ devices'[cur] # Absent
           /\ devices[cur].state = "OK" /\ devices[cur].dir = "created"
           /\ \A j \in ID : j # cur => devices'[j] = devices[j]
           /\ devices'[cur].link = devices[cur].link
           /\ devices'[cur].dir = devices[cur].dir
           /\ devices'[cur].state = devices[cur].state
           /\ devices[cur].vol[k] # NoVolume /\ devices'[cur].vol[k] # NoVolume
           /\ devices'[cur].vol[k].stem = devices[cur].vol[k].stem
           /\ devices'[cur].vol[k].state = IF ok THEN "MOUNTED" ELSE "UNUSABLE"
           /\ \A n \in Index : n # k => devices'[cur].vol[n] = devices[cur].vol[n]
<1> DEFINE d == devices[cur]
<1>1. /\ pc = "mount" /\ pc' \in {"idle", "mount"} /\ cur \in ID
      /\ d.state = "OK" /\ d.dir = "created" /\ d.vol[k].state = "PENDING"
      /\ devices' = [devices EXCEPT ![cur].vol[k].state =
                        IF ok THEN "MOUNTED" ELSE "UNUSABLE"]
  BY DEF MountVolume, StartMounting, CoreInv, JobConsistent, Pending
<1>2. d \in Device /\ d.vol[k] \in Volume
  <2>1. d \in Device
    BY <1>1, SentinelFacts, DeviceCases DEF CoreInv
  <2>2. QED
    BY <1>1, <2>1, DeviceCases, SentinelFacts DEF CoreInv
<1>3. /\ \A j \in ID : j # cur => devices'[j] = devices[j]
      /\ devices'[cur] = [d EXCEPT !.vol[k].state = IF ok THEN "MOUNTED" ELSE "UNUSABLE"]
  BY <1>1 DEF CoreInv, CoreTypeOK
<1>4. /\ devices'[cur] \in Device /\ devices'[cur].link = d.link
      /\ devices'[cur].dir = d.dir /\ devices'[cur].state = d.state
      /\ devices'[cur].vol[k] \in Volume
      /\ devices'[cur].vol[k].stem = d.vol[k].stem
      /\ devices'[cur].vol[k].state = IF ok THEN "MOUNTED" ELSE "UNUSABLE"
      /\ \A n \in Index : n # k => devices'[cur].vol[n] = d.vol[n]
  BY <1>2, <1>3 DEF Device, Volume, VolumeState
<1>5. QED
  BY <1>1, <1>2, <1>3, <1>4, SentinelFacts DEF Registered

LEMMA DropVolumeChanges ==
    ASSUME CoreInv, NEW k \in Index, DropVolume(k)
    PROVE  /\ pc = "drop" /\ pc' = "drop" /\ cur \in ID /\ cur' = cur
           /\ Registered(cur) /\ devices'[cur] # Absent
           /\ \A j \in ID : j # cur => devices'[j] = devices[j]
           /\ devices'[cur].link = devices[cur].link
           /\ devices'[cur].state = devices[cur].state
<1>1. /\ pc = "drop" /\ pc' = "drop" /\ cur \in ID /\ cur' = cur
      /\ Registered(cur) /\ devices' = [devices EXCEPT ![cur].vol[k] = NoVolume]
  BY DEF DropVolume, CoreInv, JobConsistent
<1>2. devices[cur] \in Device
  BY <1>1, DeviceCases DEF CoreInv
<1>3. /\ \A j \in ID : j # cur => devices'[j] = devices[j]
      /\ devices'[cur] = [devices[cur] EXCEPT !.vol[k] = NoVolume]
  BY <1>1 DEF CoreInv, CoreTypeOK
<1>4. /\ devices'[cur] \in Device /\ devices'[cur].link = devices[cur].link
      /\ devices'[cur].state = devices[cur].state
  BY <1>2, <1>3 DEF Device
<1>5. QED
  BY <1>1, <1>3, <1>4, SentinelFacts DEF Registered

LEMMA DropDeviceChanges ==
    ASSUME CoreInv, DropDevice
    PROVE  /\ pc = "drop" /\ pc' = "idle" /\ cur \in ID
           /\ devices'[cur] = Absent
           /\ \A j \in ID : j # cur => devices'[j] = devices[j]
BY DEF DropDevice, CoreInv, CoreTypeOK, JobConsistent

----------------------------------------------------------------------------
(* The supply of IDs                                                       *)

AcceptedDisk == Disk \ Foreign

\* If there are fewer acceptable disks than IDs, a link that needs a device
\* finds an ID for it: no two devices have one name, one may have none.
LEMMA SomeIdIsFree ==
    ASSUME IsFiniteSet(AcceptedDisk), Cardinality(AcceptedDisk) < MaxId,
           CoreInv, NEW l \in Link, NEW stem \in Stem \cup {NoStem},
           NEW info \in BOOLEAN, IsAcceptable(l[1]), NeedsDevice(l, stem, info)
    PROVE  ~Full
<1> DEFINE names == AcceptedDisk \cup {Unnamed}
           link == [i \in ID |-> devices[i].link]
<1>1. SUFFICES ASSUME Full PROVE FALSE
  OBVIOUS
<1>2. PICK name \in names : ~Known(name)
  <2>1. l[1] \in AcceptedDisk /\ RootName(l) \in names
    BY NumberType DEF AcceptedDisk, IsAcceptable, RootName
  <2>2. QED
    BY <2>1 DEF NeedsDevice
<1>3. /\ IsFiniteSet(names \ {name})
      /\ Cardinality(names \ {name}) = Cardinality(AcceptedDisk)
  <2>1. Unnamed \notin AcceptedDisk
    BY SentinelAssumption DEF AcceptedDisk
  <2>2. IsFiniteSet(names) /\ Cardinality(names) = Cardinality(AcceptedDisk) + 1
    BY <2>1, FS_AddElement
  <2>3. Cardinality(AcceptedDisk) \in Nat
    BY FS_CardinalityType
  <2>4. QED
    BY <2>2, <2>3, FS_RemoveElement
<1>4. IsFiniteSet(ID) /\ Cardinality(ID) = MaxId
  BY FS_Interval, MaxIdAssumption DEF ID
<1>5. link \in [ID -> names \ {name}]
  <2>1. SUFFICES ASSUME NEW i \in ID PROVE devices[i].link \in names \ {name}
    OBVIOUS
  <2>2. Registered(i) /\ IsAcceptable(devices[i].link)
    BY <1>1 DEF Full, CoreInv, NamesAccepted
  <2>3. devices[i].link \in Disk \cup {Unnamed}
    BY <2>2, DeviceCases DEF CoreInv, Device
  <2>4. QED
    BY <1>2, <2>2, <2>3 DEF Known, AcceptedDisk, IsAcceptable
<1>6. \E i, j \in ID : i # j /\ link[i] = link[j]
  <2>1. Cardinality(names \ {name}) < Cardinality(ID)
    BY <1>3, <1>4
  <2>2. ASSUME NEW f \in [ID -> names \ {name}]
        PROVE  \E i, j \in ID : i # j /\ f[i] = f[j]
    <3> HIDE DEF names, link
    <3>1. QED
      BY <1>3, <1>4, <2>1, FS_PigeonHole
  <2>3. QED
    BY <1>5, <2>2
<1>7. QED
  BY <1>1, <1>6 DEF Full, CoreInv, UniqueLinks

\* The allocation loop of mk_device ends, as long as fewer disks than there are
\* IDs can ever be accepted, in whatever order they come and go.
THEOREM AllocationEnds ==
    ASSUME IsFiniteSet(AcceptedDisk), Cardinality(AcceptedDisk) < MaxId
    PROVE  CoreSpec => []NeverSpins
<1>1. CoreInit => NeverSpins
  BY DEF CoreInit, NeverSpins
<1>2. CoreInv /\ NeverSpins /\ [CoreNext]_coreVars => NeverSpins'
  <2>1. SUFFICES ASSUME CoreInv, NeverSpins, [CoreNext]_coreVars PROVE NeverSpins'
    OBVIOUS
  <2>2. ASSUME NEW l \in Link, NEW stem \in Stem \cup {NoStem},
               NEW o \in Outcome(stem), HandleNewDevice(l, stem, o)
        PROVE  NeverSpins'
    <3>1. o.info \in BOOLEAN
      BY DEF Outcome
    <3>2. ~(IsAcceptable(l[1]) /\ Spin(l, stem, o))
      BY <2>1, <3>1, SomeIdIsFree DEF Spin
    <3>3. pc = "idle"
      BY <2>2 DEF HandleNewDevice
    <3>4. CASE Disregard(l, stem, o)
      BY <3>3, <3>4 DEF Disregard, NeverSpins
    <3>5. CASE \E i \in ID : HandedOver(i, o.mkdir)
      BY <3>3, <3>5 DEF HandedOver, Proceed, Keep, SetUp, TryMount, StartMounting, NeverSpins
    <3>6. QED
      BY <2>1, <2>2, <3>2, <3>4, <3>5, NewRootDeviceReady, KnownRootDeviceReady,
         NewPartitionReady, UnreadablePartitionReady DEF HandleNewDevice
  <2>3. CASE Continue
    BY <2>1, <2>3 DEF Continue, MountVolume, StartMounting, DropVolume, DropDevice, NeverSpins
  <2>4. ASSUME NEW l \in Link, HandleRemovedDevice(l) PROVE NeverSpins'
    BY <2>4 DEF HandleRemovedDevice, NeverSpins
  <2>5. CASE Shutdown \/ Stop \/ Restart
    BY <2>5 DEF Shutdown, Stop, Restart, NeverSpins
  <2>6. CASE UNCHANGED coreVars
    BY <2>1, <2>6 DEF coreVars, NeverSpins
  <2>7. QED
    BY <2>1, <2>2, <2>3, <2>4, <2>5, <2>6 DEF CoreNext
<1>3. QED
  BY <1>1, <1>2, CoreInvariant, PTL DEF CoreSpec

----------------------------------------------------------------------------
(* Counting what is left to do                                             *)

LEMMA NumbersFinite ==
    ASSUME NEW S, IsFiniteSet(S), NEW f \in [S -> Int]
    PROVE  IsFiniteSet({f[x] : x \in S})
<1>1. f \in Surjection(S, {f[x] : x \in S})
  BY DEF Surjection
<1>2. QED
  BY <1>1, FS_Surjection

\* There are as many volume numbers as links and nodes, and one more.
LEMMA IndexFinite ==
    ASSUME IsFiniteSet(Link), IsFiniteSet(Stem)
    PROVE  IsFiniteSet(Index)
<1> DEFINE links == [l \in Link |-> l[2]]
           named == {links[l] : l \in Link}
           nodes == {NodeNumber[s] : s \in Stem}
<1>1. links \in [Link -> Int] /\ NodeNumber \in [Stem -> Int]
  BY LinkAssumption
<1>2. IsFiniteSet(named) /\ IsFiniteSet(nodes)
  BY <1>1, NumbersFinite
<1>3. IsFiniteSet((named \cup nodes) \cup {Whole})
  <2> HIDE DEF named, nodes
  <2>1. QED
    BY <1>2, FS_Union, FS_AddElement
<1>4. Index \subseteq (named \cup nodes) \cup {Whole}
  BY DEF Index
<1>5. QED
  BY <1>3, <1>4, FS_Subset

LEMMA OneLess ==
    ASSUME NEW S, IsFiniteSet(S), NEW T \in SUBSET S, NEW x \in T
    PROVE  /\ Cardinality(T) \in Nat /\ Cardinality(T \ {x}) \in Nat
           /\ Cardinality(T \ {x}) < Cardinality(T)
<1>1. IsFiniteSet(T)
  BY FS_Subset
<1>2. IsFiniteSet(T \ {x}) /\ Cardinality(T \ {x}) = Cardinality(T) - 1
  BY <1>1, FS_RemoveElement
<1>3. QED
  BY <1>1, <1>2, FS_CardinalityType

\* Each step of a handler leaves one step less.
LEMMA HandlerShrinks ==
    ASSUME IsFiniteSet(Index), todo \subseteq Index,
           \/ \E k \in todo : (\E ok \in BOOLEAN : MountVolume(k, ok)) \/ DropVolume(k)
           \/ DropDevice
    PROVE  /\ pc \in {"mount", "drop"} /\ pc' \in {"idle", "mount", "drop"}
           /\ Cardinality(todo) \in Nat /\ Cardinality(todo)' \in Nat
           /\ Cardinality(todo)' + (IF pc' = "drop" THEN 1 ELSE 0)
                < Cardinality(todo) + (IF pc = "drop" THEN 1 ELSE 0)
<1>1. CASE \E k \in todo, ok \in BOOLEAN : MountVolume(k, ok)
  <2>1. PICK k \in todo, ok \in BOOLEAN : MountVolume(k, ok)
    BY <1>1
  <2>2. /\ pc = "mount" /\ pc' \in {"idle", "mount"}
        /\ todo' = todo \ {k}
    BY <2>1 DEF MountVolume, StartMounting
  <2>3. /\ Cardinality(todo) \in Nat /\ Cardinality(todo \ {k}) \in Nat
        /\ Cardinality(todo \ {k}) < Cardinality(todo)
    BY OneLess
  <2>4. QED
    BY <2>2, <2>3
<1>2. CASE \E k \in todo : DropVolume(k)
  <2>1. PICK k \in todo : DropVolume(k)
    BY <1>2
  <2>2. pc = "drop" /\ pc' = "drop" /\ todo' = todo \ {k}
    BY <2>1 DEF DropVolume
  <2>3. /\ Cardinality(todo) \in Nat /\ Cardinality(todo \ {k}) \in Nat
        /\ Cardinality(todo \ {k}) < Cardinality(todo)
    BY OneLess
  <2>4. QED
    BY <2>2, <2>3
<1>3. CASE DropDevice
  <2>1. pc = "drop" /\ pc' = "idle" /\ todo' = todo
    BY <1>3 DEF DropDevice
  <2>2. Cardinality(todo) \in Nat
    BY FS_Subset, FS_CardinalityType
  <2>3. QED
    BY <2>1, <2>2
<1>4. QED
  BY <1>1, <1>2, <1>3

=============================================================================
