-------------------------- MODULE MountTree_proofs --------------------------
(***************************************************************************)
(* Proofs about MountTree: its steps are steps of Automounter, and what is *)
(* in the working directory and in the directory of labels is what the     *)
(* daemon believes, for every number of devices and names and whatever the *)
(* tools do.                                                               *)
(***************************************************************************)
EXTENDS MountTree, AutomounterSteps_proofs

----------------------------------------------------------------------------
(* The automounter inside                                                  *)

LEMMA TreeStepIsCore == TreeNext => CoreNext
BY DEF TreeNext, TreeStep, TreeNewDevice, TreeRemovedDevice, TreeMountVolume,
   TreeDropVolume, TreeDropDevice, TreeShutdown, TreeStop, TreeRestart,
   CoreNext, Continue

\* With a working directory the daemon behaves as without: whatever the tree
\* makes of mkdir, mount and umount, the automounter takes its own steps.
THEOREM TreeImplementsCore == TreeSpec => CoreSpec
<1>1. TreeInit => CoreInit
  BY DEF TreeInit
<1>2. [TreeNext]_<<coreVars, treeVars>> => [CoreNext]_coreVars
  BY TreeStepIsCore
<1>3. QED
  BY <1>1, <1>2, PTL DEF TreeSpec, CoreSpec

----------------------------------------------------------------------------
(* What each step of the automounter does to directories and mounts        *)

LEMMA NothingMountedWithoutDirectory ==
    ASSUME CoreInv, NEW i \in ID, devices[i].dir # "created"
    PROVE  Mounted(devices[i]) = {}
<1>1. \A k \in Index : Waiting(devices[i].vol[k])
  BY PendingPointwise DEF CoreInv, DeferredMounting
<1>2. QED
  BY <1>1, SentinelFacts DEF Waiting, Mounted

LEMMA NothingOfTheAbsent ==
    /\ Absent.dir = "unset"
    /\ Mounted(Absent) = {}
BY SentinelFacts DEF Mounted

LEMMA NewDeviceEffect ==
    ASSUME CoreInv, NEW l \in Link, NEW stem \in Stem \cup {NoStem},
           NEW o \in Outcome(stem), HandleNewDevice(l, stem, o)
    PROVE  /\ pc = "idle" /\ pc' \in {"idle", "mount", "spinning"}
           /\ \A j \in ID :
                /\ Mounted(devices'[j]) = Mounted(devices[j])
                /\ devices[j].dir = "created" => devices'[j].dir = "created"
<1>1. pc = "idle"
  BY DEF HandleNewDevice
<1>2. CASE Disregard(l, stem, o) \/ Spin(l, stem, o)
  BY <1>1, <1>2 DEF Disregard, Spin
<1>3. ASSUME NEW i \in ID, NEW mkdir \in BOOLEAN, HandedOver(i, mkdir)
      PROVE  /\ pc' \in {"idle", "mount"}
             /\ \A j \in ID :
                  /\ Mounted(devices'[j]) = Mounted(devices[j])
                  /\ devices[j].dir = "created" => devices'[j].dir = "created"
  <2>1. PICK d, k, probed, b :
          Ready(i, d, k, probed, b) /\ Proceed(i, d, k, probed, b, mkdir)
    BY <1>3 DEF HandedOver
  <2> DEFINE f == Filter(d)
             g == MkWorkingDirectory(f, mkdir)
  <2>2. f \in Device /\ f.vol = d.vol /\ f.dir = d.dir /\ d \in Device
    BY <2>1, FilterType DEF Ready
  <2>3. g.vol = d.vol /\ (d.dir # "unset" => g = f)
    BY <2>2, MkWorkingDirectoryType
  <2>4. PICK e \in {d, f, g} : Store(i, e)
    BY <2>1 DEF Proceed, Keep, SetUp, TryMount
  <2>5. \A j \in ID : devices'[j] = IF j = i THEN e ELSE devices[j]
    BY <2>4 DEF Store, CoreInv, CoreTypeOK
  <2>6. e.vol = d.vol
    BY <2>2, <2>3, <2>4
  <2>7. devices[i].dir = "created" => e.dir = "created"
    BY <2>1, <2>2, <2>3, <2>4 DEF Ready
  <2>8. Mounted(e) = Mounted(devices[i])
    BY <2>1, <2>6, SentinelFacts DEF Ready, Mounted
  <2>9. pc' \in {"idle", "mount"}
    BY <1>1, <2>1 DEF Proceed, Keep, SetUp, TryMount, StartMounting
  <2>10. QED
    BY <2>5, <2>7, <2>8, <2>9
<1>4. QED
  BY <1>1, <1>2, <1>3, HandleNewDeviceHands

LEMMA RemovedDeviceEffect ==
    ASSUME NEW l \in Link, HandleRemovedDevice(l)
    PROVE  pc = "idle" /\ pc' \in {"idle", "drop"} /\ devices' = devices
BY DEF HandleRemovedDevice

LEMMA MountVolumeEffect ==
    ASSUME CoreInv, NEW k \in Index, NEW ok \in BOOLEAN, MountVolume(k, ok)
    PROVE  /\ pc = "mount" /\ pc' \in {"idle", "mount"}
           /\ cur \in ID /\ devices[cur].dir = "created"
           /\ k \notin Mounted(devices[cur])
           /\ \A j \in ID :
                /\ devices'[j].dir = devices[j].dir
                /\ Mounted(devices'[j]) =
                     IF ok /\ j = cur THEN Mounted(devices[j]) \cup {k}
                                      ELSE Mounted(devices[j])
<1>1. /\ pc = "mount" /\ cur \in ID /\ k \in Pending(devices[cur])
      /\ devices[cur].dir = "created" /\ devices[cur].state = "OK"
  BY DEF MountVolume, CoreInv, JobConsistent
<1>2. pc' \in {"idle", "mount"}
  BY <1>1 DEF MountVolume, StartMounting
<1>3. devices[cur] \in Device /\ devices[cur].vol[k].state = "PENDING"
  BY <1>1, DeviceCases, SentinelFacts DEF CoreInv, Pending
<1>4. \A j \in ID : j # cur => devices'[j] = devices[j]
  BY <1>1 DEF MountVolume, CoreInv, CoreTypeOK
<1>5. devices'[cur] = [devices[cur] EXCEPT !.vol[k].state =
                         IF ok THEN "MOUNTED" ELSE "UNUSABLE"]
  BY <1>1 DEF MountVolume, CoreInv, CoreTypeOK
<1>6. devices[cur].vol[k] \in Volume
  BY <1>1, <1>3, DeviceCases, SentinelFacts DEF CoreInv
<1>7. /\ devices'[cur].dir = devices[cur].dir
      /\ devices'[cur].vol[k].state = IF ok THEN "MOUNTED" ELSE "UNUSABLE"
      /\ \A n \in Index : n # k => devices'[cur].vol[n] = devices[cur].vol[n]
  BY <1>3, <1>5, <1>6 DEF Device, Volume
<1>8. Mounted(devices'[cur]) = IF ok THEN Mounted(devices[cur]) \cup {k}
                                     ELSE Mounted(devices[cur])
  BY <1>3, <1>7 DEF Mounted
<1>9. k \notin Mounted(devices[cur])
  BY <1>3 DEF Mounted
<1>10. QED
  BY <1>1, <1>2, <1>4, <1>7, <1>8, <1>9

LEMMA DropVolumeEffect ==
    ASSUME CoreInv, NEW k \in Index, DropVolume(k)
    PROVE  /\ pc = "drop" /\ pc' = "drop" /\ cur \in ID /\ cur' = cur
           /\ \A j \in ID :
                /\ devices'[j].dir = devices[j].dir
                /\ Mounted(devices'[j]) =
                     IF j = cur THEN Mounted(devices[j]) \ {k} ELSE Mounted(devices[j])
<1>1. /\ pc = "drop" /\ pc' = "drop" /\ cur \in ID /\ cur' = cur
      /\ devices[cur] \in Device
  BY DeviceCases DEF DropVolume, CoreInv, JobConsistent
<1>2. \A j \in ID : devices'[j] = IF j = cur
                                  THEN [devices[j] EXCEPT !.vol[k] = NoVolume]
                                  ELSE devices[j]
  BY <1>1 DEF DropVolume, CoreInv, CoreTypeOK
<1>3. /\ devices'[cur].dir = devices[cur].dir
      /\ \A n \in Index : devices'[cur].vol[n] =
                            IF n = k THEN NoVolume ELSE devices[cur].vol[n]
  BY <1>1, <1>2 DEF Device
<1>4. Mounted(devices'[cur]) = Mounted(devices[cur]) \ {k}
  BY <1>3, SentinelFacts DEF Mounted
<1>5. QED
  BY <1>1, <1>2, <1>3, <1>4

LEMMA DropDeviceEffect ==
    ASSUME CoreInv, DropDevice
    PROVE  /\ pc = "drop" /\ pc' = "idle" /\ cur \in ID
           /\ Mounted(devices[cur]) = {}
           /\ \A j \in ID : devices'[j] = IF j = cur THEN Absent ELSE devices[j]
<1>1. /\ pc = "drop" /\ pc' = "idle" /\ cur \in ID
      /\ Volumes(devices[cur]) = {}
  BY DEF DropDevice, CoreInv, JobConsistent
<1>2. Mounted(devices[cur]) = {}
  BY <1>1, SentinelFacts DEF Volumes, Mounted
<1>3. QED
  BY <1>1, <1>2 DEF DropDevice, CoreInv, CoreTypeOK

LEMMA RestartEffect ==
    ASSUME Restart
    PROVE  /\ pc = "stopped" /\ pc' = "idle"
           /\ \A j \in ID : devices'[j] = Absent
BY DEF Restart

----------------------------------------------------------------------------
(* Directories and mounts                                                  *)

(* What keeps the working directory in step even if umount fails: what is  *)
(* in the directory of a device that has one, until its removal starts.    *)
Standing(i) == devices[i].dir = "created" /\ ~(pc = "drop" /\ cur = i)

Fresh ==
    pc # "stopped" =>
        \A i \in ID : Standing(i) =>
            /\ i \in tops
            /\ \A k \in Index : /\ <<i, k>> \in dirs <=> k \in Mounted(devices[i])
                                /\ <<i, k>> \in mounts <=> k \in Mounted(devices[i])

PlacesOK ==
    /\ faulty \in TreeFaults
    /\ tops \in SUBSET ID
    /\ dirs \in SUBSET (tops \X Index)
    /\ mounts \in SUBSET dirs

LinksOK ==
    /\ links \in [Name -> Path \cup {NoPath}]
    /\ symlink \in [Path -> Name \cup {NoName}]

LEMMA TypesSplit == TreeTypeOK <=> PlacesOK /\ LinksOK
BY DEF TreeTypeOK, PlacesOK, LinksOK

(* TreeExact, point by point.                                              *)
Exact ==
    "umount" \notin faulty /\ pc # "stopped" =>
        \A i \in ID :
            /\ i \in tops <=> devices[i].dir = "created"
            /\ \A k \in Index : /\ <<i, k>> \in dirs <=> k \in Mounted(devices[i])
                                /\ <<i, k>> \in mounts <=> k \in Mounted(devices[i])

LEMMA ExactPointwise ==
    ASSUME PlacesOK
    PROVE  TreeExact <=> Exact
<1>1. dirs \subseteq ID \X Index /\ mounts \subseteq ID \X Index
  BY DEF PlacesOK
<1> DEFINE held == {p \in ID \X Index : p[2] \in Mounted(devices[p[1]])}
<1>2. mounts = held <=> \A i \in ID, k \in Index :
                          <<i, k>> \in mounts <=> k \in Mounted(devices[i])
  BY <1>1
<1>3. dirs = held <=> \A i \in ID, k \in Index :
                        <<i, k>> \in dirs <=> k \in Mounted(devices[i])
  BY <1>1
<1>4. tops = {i \in ID : devices[i].dir = "created"}
      <=> \A i \in ID : i \in tops <=> devices[i].dir = "created"
  BY DEF PlacesOK
<1>5. QED
  BY <1>2, <1>3, <1>4 DEF TreeExact, Exact

Places == PlacesOK /\ Fresh /\ Exact

LEMMA TreeNewDevicePlaces ==
    ASSUME CoreInv, Places, NEW l \in Link, NEW stem \in Stem \cup {NoStem},
           NEW o \in Outcome(stem), TreeNewDevice(l, stem, o)
    PROVE  Places'
<1> DEFINE made == {i \in ID : /\ devices[i].dir # "created"
                               /\ devices'[i].dir = "created"}
<1>1. /\ HandleNewDevice(l, stem, o)
      /\ made \cap tops = {} /\ tops' = tops \cup made
      /\ UNCHANGED <<faulty, dirs, mounts>>
  BY DEF TreeNewDevice
<1>2. /\ pc = "idle" /\ pc' \in {"idle", "mount", "spinning"}
      /\ \A j \in ID :
           /\ Mounted(devices'[j]) = Mounted(devices[j])
           /\ devices[j].dir = "created" => devices'[j].dir = "created"
  BY <1>1, NewDeviceEffect
<1>3. \A j \in made : Mounted(devices'[j]) = {}
  BY <1>2, NothingMountedWithoutDirectory
<1>4. \A j \in made, k \in Index : <<j, k>> \notin dirs /\ <<j, k>> \notin mounts
  BY <1>1 DEF Places, PlacesOK
<1>5. PlacesOK'
  BY <1>1 DEF Places, PlacesOK
<1>6. Fresh'
  <2>1. SUFFICES ASSUME NEW i \in ID, devices'[i].dir = "created"
                 PROVE  /\ i \in tops'
                        /\ \A k \in Index :
                             /\ <<i, k>> \in dirs <=> k \in Mounted(devices'[i])
                             /\ <<i, k>> \in mounts <=> k \in Mounted(devices'[i])
    BY <1>1 DEF Fresh, Standing
  <2>2. CASE i \in made
    BY <1>1, <1>3, <1>4, <2>2
  <2>3. CASE i \notin made
    <3>1. Standing(i)
      BY <1>2, <2>1, <2>3 DEF Standing
    <3>2. QED
      BY <1>1, <1>2, <3>1 DEF Places, Fresh
  <2>4. QED
    BY <2>2, <2>3
<1>7. Exact'
  BY <1>1, <1>2 DEF Places, Exact
<1>8. QED
  BY <1>5, <1>6, <1>7 DEF Places

LEMMA TreeRemovedDevicePlaces ==
    ASSUME Places, NEW l \in Link, TreeRemovedDevice(l)
    PROVE  Places'
<1>1. /\ pc = "idle" /\ pc' \in {"idle", "drop"} /\ devices' = devices
      /\ UNCHANGED <<faulty, tops, dirs, mounts>>
  BY RemovedDeviceEffect DEF TreeRemovedDevice, treeVars
<1>2. Fresh'
  BY <1>1 DEF Places, Fresh, Standing
<1>3. QED
  BY <1>1, <1>2 DEF Places, PlacesOK, Exact

LEMMA TreeMountVolumePlaces ==
    ASSUME CoreInv, Places, NEW k \in Index, NEW ok \in BOOLEAN, TreeMountVolume(k, ok)
    PROVE  Places'
<1> DEFINE p == <<cur, k>>
<1>1. /\ MountVolume(k, ok)
      /\ dirs' = (IF ok THEN dirs \cup {p} ELSE dirs)
      /\ mounts' = (IF ok THEN mounts \cup {p} ELSE mounts)
      /\ UNCHANGED <<faulty, tops>>
  BY DEF TreeMountVolume
<1>2. /\ pc = "mount" /\ pc' \in {"idle", "mount"}
      /\ cur \in ID /\ devices[cur].dir = "created"
      /\ \A j \in ID :
           /\ devices'[j].dir = devices[j].dir
           /\ Mounted(devices'[j]) =
                IF ok /\ j = cur THEN Mounted(devices[j]) \cup {k}
                                 ELSE Mounted(devices[j])
  BY <1>1, MountVolumeEffect
<1>3. cur \in tops
  BY <1>2 DEF Places, Fresh, Standing
<1>4. PlacesOK'
  BY <1>1, <1>3 DEF Places, PlacesOK
<1>5. \A i \in ID, n \in Index :
        /\ <<i, n>> \in dirs' <=> <<i, n>> \in dirs \/ (ok /\ i = cur /\ n = k)
        /\ <<i, n>> \in mounts' <=> <<i, n>> \in mounts \/ (ok /\ i = cur /\ n = k)
        /\ n \in Mounted(devices'[i])
             <=> n \in Mounted(devices[i]) \/ (ok /\ i = cur /\ n = k)
  BY <1>1, <1>2
<1>6. Fresh'
  BY <1>1, <1>2, <1>5 DEF Places, Fresh, Standing
<1>7. Exact'
  BY <1>1, <1>2, <1>5 DEF Places, Exact
<1>8. QED
  BY <1>4, <1>6, <1>7 DEF Places

LEMMA TreeDropVolumePlaces ==
    ASSUME CoreInv, Places, NEW k \in Index, TreeDropVolume(k)
    PROVE  Places'
<1> DEFINE p == <<cur, k>>
           mine == {q \in mounts : q = p /\ k \in Mounted(devices[cur])}
<1>1. PICK ms \in Unmounted(mine) :
        /\ DropVolume(k)
        /\ mounts' = mounts \ ms /\ dirs' = dirs \ ms
        /\ UNCHANGED <<faulty, tops>>
  BY DEF TreeDropVolume
<1>2. /\ pc = "drop" /\ pc' = "drop" /\ cur \in ID /\ cur' = cur
      /\ \A j \in ID :
           /\ devices'[j].dir = devices[j].dir
           /\ Mounted(devices'[j]) =
                IF j = cur THEN Mounted(devices[j]) \ {k} ELSE Mounted(devices[j])
  BY <1>1, DropVolumeEffect
<1>3. ms \subseteq {p} /\ ("umount" \notin faulty => ms = mine)
  BY DEF Unmounted
<1>4. PlacesOK'
  BY <1>1 DEF Places, PlacesOK
<1>5. Fresh'
  <2>1. \A i \in ID, n \in Index : i # cur => <<i, n>> \notin ms
    BY <1>3
  <2>2. QED
    BY <1>1, <1>2, <2>1 DEF Places, Fresh, Standing
<1>6. Exact'
  <2>1. SUFFICES ASSUME "umount" \notin faulty
                 PROVE  \A i \in ID :
                   /\ i \in tops <=> devices'[i].dir = "created"
                   /\ \A n \in Index :
                        /\ <<i, n>> \in dirs' <=> n \in Mounted(devices'[i])
                        /\ <<i, n>> \in mounts' <=> n \in Mounted(devices'[i])
    BY <1>1 DEF Exact
  <2>2. \A i \in ID, n \in Index :
          <<i, n>> \in ms <=> i = cur /\ n = k /\ k \in Mounted(devices[cur])
    BY <1>2, <1>3, <2>1 DEF Places, Exact
  <2>3. QED
    BY <1>1, <1>2, <2>1, <2>2 DEF Places, Exact
<1>7. QED
  BY <1>4, <1>5, <1>6 DEF Places

LEMMA TreeDropDevicePlaces ==
    ASSUME CoreInv, Places, TreeDropDevice
    PROVE  Places'
<1>1. /\ pc = "drop" /\ pc' = "idle" /\ cur \in ID
      /\ Mounted(devices[cur]) = {}
      /\ \A j \in ID : devices'[j] = IF j = cur THEN Absent ELSE devices[j]
  BY DropDeviceEffect DEF TreeDropDevice
<1> DEFINE rest == {p \in dirs : p[1] = cur} \ mounts
<1>2. \/ /\ devices[cur].dir = "created"
         /\ dirs' = dirs \ rest
         /\ tops' = tops \ {i \in tops \cap {cur} : \A p \in dirs' : p[1] # i}
         /\ UNCHANGED <<faulty, mounts>>
      \/ devices[cur].dir # "created" /\ UNCHANGED <<faulty, tops, dirs, mounts>>
  BY DEF TreeDropDevice, Removable, EmptyTops, treeVars
<1>3. /\ mounts' = mounts /\ faulty' = faulty
      /\ \A i \in ID : i # cur => (i \in tops' <=> i \in tops)
      /\ \A i \in ID, n \in Index : i # cur => (<<i, n>> \in dirs' <=> <<i, n>> \in dirs)
  BY <1>2
<1>4. PlacesOK'
  <2>1. CASE devices[cur].dir # "created"
    BY <1>2, <2>1 DEF Places, PlacesOK
  <2>2. CASE devices[cur].dir = "created"
    <3>1. dirs' \subseteq dirs /\ mounts \subseteq dirs' /\ tops' \subseteq tops
      BY <1>2, <2>2 DEF Places, PlacesOK
    <3>2. \A p \in dirs' : p[1] \in tops'
      BY <1>2, <2>2, <3>1 DEF Places, PlacesOK
    <3>3. QED
      BY <1>3, <3>1, <3>2 DEF Places, PlacesOK
  <2>3. QED
    BY <2>1, <2>2
<1>5. Fresh'
  BY <1>1, <1>3, NothingOfTheAbsent DEF Places, Fresh, Standing
<1>6. Exact'
  <2>1. SUFFICES ASSUME "umount" \notin faulty
                 PROVE  /\ cur \notin tops'
                        /\ \A n \in Index : <<cur, n>> \notin dirs' /\ <<cur, n>> \notin mounts'
    BY <1>1, <1>3, NothingOfTheAbsent DEF Places, Exact
  <2>2. \A n \in Index : <<cur, n>> \notin dirs /\ <<cur, n>> \notin mounts
    BY <1>1, <2>1 DEF Places, Exact
  <2>3. \A p \in dirs : p[1] # cur
    BY <2>2 DEF Places, PlacesOK
  <2>4. cur \in tops => devices[cur].dir = "created"
    BY <1>1, <2>1 DEF Places, Exact
  <2>5. QED
    BY <1>2, <2>2, <2>3, <2>4
<1>7. QED
  BY <1>4, <1>5, <1>6 DEF Places

\* Taking directories away leaves a tree.
LEMMA DestroyDevicesOK ==
    ASSUME PlacesOK, NEW gone \in SUBSET ID, DestroyDevices(gone)
    PROVE  PlacesOK'
<1>1. PICK ms \in Unmounted({p \in mounts : p[1] \in gone}) :
        LET rest == Removable({p \in dirs : p[1] \in gone}, mounts \ ms) IN
        /\ mounts' = mounts \ ms
        /\ dirs' = dirs \ rest
        /\ tops' = tops \ EmptyTops(tops \cap gone, dirs \ rest)
        /\ UNCHANGED faulty
  BY DEF DestroyDevices
<1>2. dirs' \subseteq dirs /\ mounts' \subseteq dirs' /\ tops' \subseteq tops
  BY <1>1 DEF PlacesOK, Removable
<1>3. \A p \in dirs' : p[1] \in tops'
  BY <1>1, <1>2 DEF PlacesOK, EmptyTops
<1>4. QED
  BY <1>1, <1>2, <1>3 DEF PlacesOK

LEMMA TreeEndPlaces ==
    ASSUME Places, TreeShutdown \/ TreeStop
    PROVE  Places'
<1>1. pc' = "stopped"
  BY DEF TreeShutdown, TreeStop, Shutdown, Stop
<1>2. PlacesOK'
  <2>1. CASE TreeShutdown
    BY <2>1, DestroyDevicesOK DEF TreeShutdown, Places
  <2>2. CASE TreeStop
    BY <2>2 DEF TreeStop, Places, PlacesOK
  <2>3. QED
    BY <2>1, <2>2
<1>3. QED
  BY <1>1, <1>2 DEF Places, Fresh, Exact

\* The cleanup at startup leaves nothing, unless umount is faulty.
LEMMA TreeRestartPlaces ==
    ASSUME Places, TreeRestart
    PROVE  Places'
<1>1. PlacesOK'
  BY DestroyDevicesOK DEF TreeRestart, Places
<1>2. \A j \in ID : devices'[j].dir # "created" /\ Mounted(devices'[j]) = {}
  BY RestartEffect, NothingOfTheAbsent DEF TreeRestart
<1>3. Fresh'
  BY <1>2 DEF Fresh, Standing
<1>4. Exact'
  <2>1. SUFFICES ASSUME "umount" \notin faulty
                 PROVE  tops' = {} /\ dirs' = {} /\ mounts' = {}
    BY <1>2 DEF TreeRestart, DestroyDevices, Exact
  <2>2. /\ mounts = {p \in mounts : p[1] \in ID}
        /\ dirs = {p \in dirs : p[1] \in ID}
        /\ tops = tops \cap ID
    BY DEF Places, PlacesOK
  <2>3. Unmounted({p \in mounts : p[1] \in ID}) = {mounts}
    BY <2>1, <2>2 DEF Unmounted
  <2>4. mounts' = {} /\ dirs' = {}
    BY <2>2, <2>3 DEF TreeRestart, DestroyDevices, Removable
  <2>5. tops' = {}
    BY <2>2, <2>3 DEF TreeRestart, DestroyDevices, Removable, EmptyTops
  <2>6. QED
    BY <2>4, <2>5
<1>5. QED
  BY <1>1, <1>3, <1>4 DEF Places

LEMMA StepPlaces ==
    ASSUME CoreInv, Places, [TreeNext]_<<coreVars, treeVars>>
    PROVE  Places'
<1>1. CASE \E l \in Link, stem \in Stem \cup {NoStem} :
             \E o \in Outcome(stem) : TreeNewDevice(l, stem, o)
  BY <1>1, TreeNewDevicePlaces
<1>2. CASE \E l \in Link : TreeRemovedDevice(l)
  BY <1>2, TreeRemovedDevicePlaces
<1>3. CASE \E k \in Index : \/ \E ok \in BOOLEAN : TreeMountVolume(k, ok)
                            \/ TreeDropVolume(k)
  BY <1>3, TreeMountVolumePlaces, TreeDropVolumePlaces
<1>4. CASE TreeDropDevice
  BY <1>4, TreeDropDevicePlaces
<1>5. CASE TreeShutdown \/ TreeStop
  BY <1>5, TreeEndPlaces
<1>6. CASE TreeRestart
  BY <1>6, TreeRestartPlaces
<1>7. CASE UNCHANGED <<coreVars, treeVars>>
  BY <1>7 DEF coreVars, treeVars, Places, PlacesOK, Fresh, Exact, Standing
<1>8. QED
  BY <1>1, <1>2, <1>3, <1>4, <1>5, <1>6, <1>7 DEF TreeNext, TreeStep

LEMMA InitPlaces == ASSUME TreeInit PROVE Places
<1>1. \A j \in ID : devices[j].dir # "created" /\ Mounted(devices[j]) = {}
  BY NothingOfTheAbsent DEF TreeInit, CoreInit
<1>2. QED
  BY <1>1 DEF TreeInit, Places, PlacesOK, Fresh, Exact, Standing

----------------------------------------------------------------------------
(* Links by label                                                          *)

LinkInv == LinksOK /\ OwnLinksRight /\ LinkedUnlessStale

LEMMA LinkSentinels ==
    /\ NoPath \notin Path
    /\ NoName \notin Name
    /\ \A names \in Candidates : \A i \in 1..Len(names) : names[i] \in Name
<1>1. NoPath \notin Path
  BY SentinelFacts DEF NoPath, Path
<1>2. QED
  BY <1>1, NamesAssumption

\* Links of two volumes have two names: each leads to its own mountpoint.
LEMMA UnlinkEffect ==
    ASSUME LinksOK, NEW ps \in SUBSET Path, Unlink(ps),
           \A q \in Path : symlink[q] # NoName => links[symlink[q]] = q
    PROVE  /\ LinksOK'
           /\ \A q \in Path : symlink'[q] = IF q \in ps THEN NoName ELSE symlink[q]
           /\ \A q \in Path : symlink'[q] # NoName => links'[symlink'[q]] = q
           /\ Orphans \subseteq Orphans'
           /\ "symlink" \notin faulty => Orphans' \subseteq Orphans
<1> DEFINE mine == {symlink[p] : p \in ps} \ {NoName}
<1>1. PICK kept \in SUBSET mine :
        /\ links' = [n \in Name |-> IF n \in mine \ kept THEN NoPath ELSE links[n]]
        /\ "symlink" \notin faulty => kept = {}
  BY DEF Unlink
<1>2. symlink' = [p \in Path |-> IF p \in ps THEN NoName ELSE symlink[p]]
  BY DEF Unlink
<1>3. LinksOK'
  BY <1>1, <1>2 DEF LinksOK
<1>4. ASSUME NEW q \in Path, symlink'[q] # NoName
      PROVE  links'[symlink'[q]] = q
  <2>1. q \notin ps /\ symlink'[q] = symlink[q] /\ symlink[q] \in Name
    BY <1>2, <1>4 DEF LinksOK
  <2>2. links[symlink[q]] = q
    BY <1>4, <2>1
  <2>3. symlink[q] \notin mine
    BY <2>1, <2>2
  <2>4. QED
    BY <1>1, <2>1, <2>2, <2>3
<1>5. ASSUME NEW n \in Orphans PROVE n \in Orphans'
  <2>1. n \in Name /\ links[n] # NoPath /\ \A q \in Path : symlink[q] # n
    BY <1>5 DEF Orphans
  <2>2. n \notin mine
    BY <2>1
  <2>3. \A q \in Path : symlink'[q] # n
    BY <1>2, <2>1, LinkSentinels
  <2>4. QED
    BY <1>1, <2>1, <2>2, <2>3 DEF Orphans
<1>6. ASSUME NEW n \in Orphans', "symlink" \notin faulty PROVE n \in Orphans
  <2>1. n \in Name /\ links'[n] # NoPath /\ \A q \in Path : symlink'[q] # n
    BY <1>6 DEF Orphans
  <2>2. n \notin mine /\ links[n] # NoPath
    BY <1>1, <1>6, <2>1
  <2>3. \A q \in Path : symlink[q] # n
    BY <1>2, <2>1, <2>2, LinkSentinels
  <2>4. QED
    BY <2>1, <2>2, <2>3 DEF Orphans
<1>7. QED
  BY <1>2, <1>3, <1>4, <1>5, <1>6

\* A volume that has just been mounted gets the first of its names that leads
\* nowhere, if that name is not the remains of an earlier link.
LEMMA MountLinkEffect ==
    ASSUME CoreInv, Places, LinksOK, OwnLinksRight, NEW k \in Index,
           NEW ok \in BOOLEAN, TreeMountVolume(k, ok)
    PROVE  LET p == <<cur, k>> IN
           /\ p \in Path /\ symlink[p] = NoName
           /\ \/ ~ok /\ UNCHANGED linkVars
              \/ /\ ok
                 /\ \/ /\ UNCHANGED linkVars
                       /\ faulty \cap {"symlink", "unlabelled"} = {} => Orphans # {}
                    \/ \E n \in Name : /\ links[n] = NoPath
                                       /\ links' = [links EXCEPT ![n] = p]
                                       /\ symlink' = [symlink EXCEPT ![p] = n]
<1> DEFINE p == <<cur, k>>
<1>1. /\ pc = "mount" /\ cur \in ID /\ k \notin Mounted(devices[cur])
  BY MountVolumeEffect DEF TreeMountVolume
<1>2. p \in Path /\ symlink[p] = NoName
  BY <1>1 DEF OwnLinksRight, Path
<1>3. CASE ~ok
  BY <1>2, <1>3 DEF TreeMountVolume
<1>4. CASE ok
  <2>1. dirs' = dirs \cup {p} /\ LinkVolume(p, dirs')
    BY <1>4 DEF TreeMountVolume
  <2>2. CASE "unlabelled" \in faulty /\ UNCHANGED linkVars
    BY <1>2, <1>4, <2>2
  <2>3. CASE \E names \in Candidates : \E i \in 1..Len(names) :
               ~Taken(names[i], dirs') /\ MakeSymlink(p, names[i])
    <3>1. PICK n \in Name : ~Taken(n, dirs') /\ MakeSymlink(p, n)
      BY <2>3, LinkSentinels
    <3>2. ASSUME links[n] # NoPath PROVE n \in Orphans
      <4>1. SUFFICES ASSUME NEW q \in Path, symlink[q] = n PROVE FALSE
        BY <3>2 DEF Orphans
      <4>2. links[n] = q /\ q[2] \in Mounted(devices[q[1]])
        BY <1>1, <4>1, LinkSentinels DEF OwnLinksRight
      <4>3. q[1] \in ID /\ q[2] \in Index /\ q = <<q[1], q[2]>>
        BY DEF Path
      <4>4. devices[q[1]].dir = "created"
        BY <4>2, <4>3, NothingMountedWithoutDirectory
      <4>5. q \in dirs
        BY <1>1, <4>2, <4>3, <4>4 DEF Places, Fresh, Standing
      <4>6. QED
        BY <2>1, <3>1, <4>2, <4>5 DEF Taken
    <3>3. QED
      BY <1>2, <1>4, <3>1, <3>2 DEF MakeSymlink
  <2>4. QED
    BY <2>1, <2>2, <2>3 DEF LinkVolume
<1>5. QED
  BY <1>3, <1>4

LEMMA TreeMountVolumeLinks ==
    ASSUME CoreInv, Places, LinkInv, NEW k \in Index, NEW ok \in BOOLEAN,
           TreeMountVolume(k, ok)
    PROVE  LinkInv' /\ ("symlink" \notin faulty => Orphans' \subseteq Orphans)
<1> DEFINE p == <<cur, k>>
<1>1. /\ pc = "mount" /\ pc' # "stopped" /\ cur \in ID
      /\ k \notin Mounted(devices[cur])
      /\ \A j \in ID : Mounted(devices'[j]) =
           IF ok /\ j = cur THEN Mounted(devices[j]) \cup {k} ELSE Mounted(devices[j])
      /\ faulty' = faulty
  BY MountVolumeEffect DEF TreeMountVolume
<1>2. /\ \A q \in Path : q[1] \in ID /\ q = <<q[1], q[2]>>
      /\ \A q \in Path : q[2] \in Mounted(devices'[q[1]])
                           <=> q[2] \in Mounted(devices[q[1]]) \/ (ok /\ q = p)
  <2>1. ASSUME NEW q \in Path
        PROVE  /\ q[1] \in ID /\ q = <<q[1], q[2]>>
               /\ q[2] \in Mounted(devices'[q[1]])
                    <=> q[2] \in Mounted(devices[q[1]]) \/ (ok /\ q = p)
    <3>1. PICK i \in ID, n \in Index : q = <<i, n>>
      BY DEF Path
    <3>2. q[1] = i /\ q[2] = n /\ (q = p <=> i = cur /\ n = k)
      BY <3>1
    <3>3. n \in Mounted(devices'[i])
            <=> n \in Mounted(devices[i]) \/ (ok /\ i = cur /\ n = k)
      BY <1>1
    <3>4. QED
      BY <3>1, <3>2, <3>3
  <2>2. QED
    BY <2>1
<1>3. p \in Path /\ symlink[p] = NoName
  BY MountLinkEffect DEF LinkInv
<1>4. CASE UNCHANGED linkVars
  <2>1. Orphans' = Orphans /\ LinksOK'
    BY <1>4 DEF linkVars, Orphans, LinkInv, LinksOK
  <2>2. OwnLinksRight'
    BY <1>1, <1>2, <1>4 DEF linkVars, LinkInv, OwnLinksRight
  <2>3. LinkedUnlessStale'
    <3>1. CASE ~ok
      <4>1. Unlinked' = Unlinked
        BY <1>2, <1>4, <3>1 DEF Unlinked, linkVars
      <4>2. QED
        BY <1>1, <2>1, <4>1 DEF LinkInv, LinkedUnlessStale
    <3>2. CASE ok
      <4>1. \/ faulty \cap {"symlink", "unlabelled"} = {} => Orphans # {}
            \/ symlink' = [symlink EXCEPT ![p] = symlink'[p]] /\ symlink'[p] \in Name
        BY <3>2, MountLinkEffect, <1>3 DEF LinkInv, LinksOK
      <4>2. symlink'[p] \notin Name
        BY <1>3, <1>4, LinkSentinels DEF linkVars
      <4>3. QED
        BY <1>1, <2>1, <4>1, <4>2 DEF LinkedUnlessStale
    <3>3. QED
      BY <3>1, <3>2
  <2>4. QED
    BY <2>1, <2>2, <2>3 DEF LinkInv
<1>5. ASSUME ok, NEW n \in Name, links[n] = NoPath,
             links' = [links EXCEPT ![n] = p], symlink' = [symlink EXCEPT ![p] = n]
      PROVE  LinkInv' /\ Orphans' = Orphans
  <2>1. /\ links \in [Name -> Path \cup {NoPath}]
        /\ symlink \in [Path -> Name \cup {NoName}]
    BY DEF LinkInv, LinksOK
  <2>2. /\ \A m \in Name : links'[m] = IF m = n THEN p ELSE links[m]
        /\ \A q \in Path : symlink'[q] = IF q = p THEN n ELSE symlink[q]
    BY <1>3, <1>5, <2>1
  <2>3. LinksOK'
    BY <1>3, <1>5, <2>1 DEF LinksOK
  <2>4. OwnLinksRight'
    <3>1. \A q \in Path : symlink[q] # NoName => symlink[q] # n /\ symlink[q] \in Name
      BY <1>5, <2>1, LinkSentinels DEF LinkInv, OwnLinksRight
    <3>2. QED
      BY <1>1, <1>2, <1>5, <2>2, <3>1 DEF LinkInv, OwnLinksRight
  <2>5. Orphans' = Orphans
    <3>1. \A q \in Path : symlink[q] # n
      BY <1>5, <2>1, LinkSentinels DEF LinkInv, OwnLinksRight
    <3>2. ASSUME NEW m \in Name PROVE m \in Orphans' <=> m \in Orphans
      <4>1. CASE m = n
        BY <1>3, <1>5, <2>2, <4>1 DEF Orphans
      <4>2. CASE m # n
        <5>1. (\E q \in Path : symlink'[q] = m) <=> (\E q \in Path : symlink[q] = m)
          BY <1>3, <2>2, <4>2, LinkSentinels
        <5>2. QED
          BY <2>2, <4>2, <5>1 DEF Orphans
      <4>3. QED
        BY <4>1, <4>2
    <3>3. QED
      BY <3>2 DEF Orphans
  <2>6. LinkedUnlessStale'
    <3>1. Unlinked' \subseteq Unlinked
      BY <1>2, <1>3, <2>2, LinkSentinels DEF Unlinked
    <3>2. QED
      BY <1>1, <2>5, <3>1 DEF LinkInv, LinkedUnlessStale
  <2>7. QED
    BY <2>3, <2>4, <2>5, <2>6 DEF LinkInv
<1>6. QED
  BY <1>4, <1>5, MountLinkEffect DEF LinkInv

\* Steps that mount nothing and leave the links alone.
LEMMA LinksUntouched ==
    ASSUME LinkInv, pc # "stopped", UNCHANGED <<faulty, linkVars>>,
           \A j \in ID : Mounted(devices'[j]) = Mounted(devices[j])
    PROVE  LinkInv' /\ Orphans' = Orphans
<1>1. /\ \A q \in Path : q[1] \in ID
      /\ links' = links /\ symlink' = symlink /\ faulty' = faulty
  BY DEF Path, linkVars
<1>2. Orphans' = Orphans /\ Unlinked' = Unlinked /\ LinksOK'
  BY <1>1 DEF Orphans, Unlinked, LinkInv, LinksOK
<1>3. OwnLinksRight'
  BY <1>1 DEF LinkInv, OwnLinksRight
<1>4. LinkedUnlessStale'
  BY <1>1, <1>2 DEF LinkInv, LinkedUnlessStale
<1>5. QED
  BY <1>2, <1>3, <1>4 DEF LinkInv

LEMMA TreeNewDeviceLinks ==
    ASSUME CoreInv, LinkInv, NEW l \in Link, NEW stem \in Stem \cup {NoStem},
           NEW o \in Outcome(stem), TreeNewDevice(l, stem, o)
    PROVE  LinkInv' /\ Orphans' = Orphans
<1>1. /\ pc # "stopped"
      /\ \A j \in ID : Mounted(devices'[j]) = Mounted(devices[j])
  BY NewDeviceEffect DEF TreeNewDevice
<1>2. QED
  BY <1>1, LinksUntouched DEF TreeNewDevice

LEMMA TreeRemovedDeviceLinks ==
    ASSUME LinkInv, NEW l \in Link, TreeRemovedDevice(l)
    PROVE  LinkInv' /\ Orphans' = Orphans
<1>1. pc # "stopped" /\ devices' = devices
  BY RemovedDeviceEffect DEF TreeRemovedDevice
<1>2. QED
  BY <1>1, LinksUntouched DEF TreeRemovedDevice, treeVars

\* A device is dropped when nothing is mounted any more.
LEMMA TreeDropDeviceLinks ==
    ASSUME CoreInv, LinkInv, TreeDropDevice
    PROVE  LinkInv' /\ Orphans' = Orphans
<1>1. /\ pc # "stopped"
      /\ \A j \in ID : Mounted(devices'[j]) = Mounted(devices[j])
  BY DropDeviceEffect, NothingOfTheAbsent DEF TreeDropDevice
<1>2. UNCHANGED <<faulty, linkVars>>
  BY DEF TreeDropDevice, treeVars
<1>3. QED
  BY <1>1, <1>2, LinksUntouched

LEMMA TreeDropVolumeLinks ==
    ASSUME CoreInv, LinkInv, NEW k \in Index, TreeDropVolume(k)
    PROVE  LinkInv' /\ ("symlink" \notin faulty => Orphans' \subseteq Orphans)
<1> DEFINE p == <<cur, k>>
<1>1. /\ pc # "stopped" /\ cur \in ID
      /\ \A j \in ID : Mounted(devices'[j]) =
           IF j = cur THEN Mounted(devices[j]) \ {k} ELSE Mounted(devices[j])
      /\ faulty' = faulty /\ Unlink({p})
  BY DropVolumeEffect DEF TreeDropVolume
<1>2. \A q \in Path : symlink[q] # NoName =>
          links[symlink[q]] = q /\ q[2] \in Mounted(devices[q[1]])
  BY <1>1 DEF LinkInv, OwnLinksRight
<1>3. {p} \in SUBSET Path
  BY <1>1 DEF Path
<1>4. /\ LinksOK'
      /\ \A q \in Path : symlink'[q] = IF q = p THEN NoName ELSE symlink[q]
      /\ \A q \in Path : symlink'[q] # NoName => links'[symlink'[q]] = q
      /\ Orphans \subseteq Orphans'
      /\ "symlink" \notin faulty => Orphans' \subseteq Orphans
  BY <1>1, <1>2, <1>3, UnlinkEffect DEF LinkInv
<1>5. ASSUME NEW q \in Path
      PROVE  q[2] \in Mounted(devices'[q[1]])
               <=> q[2] \in Mounted(devices[q[1]]) /\ q # p
  <2>1. PICK i \in ID, n \in Index : q = <<i, n>>
    BY DEF Path
  <2>2. q[1] = i /\ q[2] = n /\ (q = p <=> i = cur /\ n = k)
    BY <2>1
  <2>3. n \in Mounted(devices'[i])
          <=> n \in Mounted(devices[i]) /\ ~(i = cur /\ n = k)
    BY <1>1
  <2>4. QED
    BY <2>1, <2>2, <2>3
<1>6. OwnLinksRight'
  BY <1>2, <1>4, <1>5 DEF OwnLinksRight
<1>7. Unlinked' \subseteq Unlinked
  BY <1>4, <1>5 DEF Unlinked
<1>8. LinkedUnlessStale'
  BY <1>1, <1>4, <1>7 DEF LinkInv, LinkedUnlessStale
<1>9. QED
  BY <1>4, <1>6, <1>8 DEF LinkInv

LEMMA TreeEndLinks ==
    ASSUME LinkInv, TreeShutdown \/ TreeStop
    PROVE  LinkInv' /\ pc' = "stopped"
<1>1. pc' = "stopped"
  BY DEF TreeShutdown, TreeStop, Shutdown, Stop
<1>2. CASE TreeStop
  BY <1>1, <1>2 DEF TreeStop, AbandonLinks, LinkInv, LinksOK, OwnLinksRight,
     LinkedUnlessStale
<1>3. CASE TreeShutdown
  <2>1. PICK ps \in SUBSET Path : Unlink(ps)
    BY <1>3 DEF TreeShutdown, Path
  <2>2. \A q \in Path : symlink[q] # NoName => links[symlink[q]] = q
    BY DEF LinkInv, OwnLinksRight
  <2>3. LinksOK' /\ \A q \in Path : symlink'[q] # NoName => links'[symlink'[q]] = q
    BY <2>1, <2>2, UnlinkEffect DEF LinkInv
  <2>4. QED
    BY <1>1, <2>3 DEF LinkInv, OwnLinksRight, LinkedUnlessStale
<1>4. QED
  BY <1>1, <1>2, <1>3

LEMMA TreeRestartLinks ==
    ASSUME LinkInv, TreeRestart
    PROVE  LinkInv' /\ pc = "stopped"
<1>1. pc = "stopped" /\ \A j \in ID : Mounted(devices'[j]) = {}
  BY RestartEffect, NothingOfTheAbsent DEF TreeRestart
<1>2. symlink' = [p \in Path |-> NoName] /\ links' = links
  BY DEF TreeRestart, AbandonLinks
<1>3. Unlinked' = {}
  BY <1>1 DEF Unlinked, Path
<1>4. QED
  BY <1>1, <1>2, <1>3 DEF LinkInv, LinksOK, OwnLinksRight, LinkedUnlessStale

LEMMA StepLinks ==
    ASSUME CoreInv, Places, LinkInv, [TreeNext]_<<coreVars, treeVars>>
    PROVE  /\ LinkInv'
           /\ "symlink" \notin faulty /\ "stopped" \notin {pc, pc'}
                => Orphans' \subseteq Orphans
<1>1. CASE \E l \in Link, stem \in Stem \cup {NoStem} :
             \E o \in Outcome(stem) : TreeNewDevice(l, stem, o)
  BY <1>1, TreeNewDeviceLinks
<1>2. CASE \E l \in Link : TreeRemovedDevice(l)
  BY <1>2, TreeRemovedDeviceLinks
<1>3. CASE \E k \in Index : \/ \E ok \in BOOLEAN : TreeMountVolume(k, ok)
                            \/ TreeDropVolume(k)
  BY <1>3, TreeMountVolumeLinks, TreeDropVolumeLinks
<1>4. CASE TreeDropDevice
  BY <1>4, TreeDropDeviceLinks
<1>5. CASE TreeShutdown \/ TreeStop
  BY <1>5, TreeEndLinks
<1>6. CASE TreeRestart
  BY <1>6, TreeRestartLinks
<1>7. CASE UNCHANGED <<coreVars, treeVars>>
  BY <1>7 DEF coreVars, treeVars, linkVars, LinkInv, LinksOK, OwnLinksRight,
     LinkedUnlessStale, Unlinked, Orphans
<1>8. QED
  BY <1>1, <1>2, <1>3, <1>4, <1>5, <1>6, <1>7 DEF TreeNext, TreeStep

TreeInv == CoreInv /\ Places /\ LinkInv

LEMMA InitTree == ASSUME TreeInit PROVE TreeInv
<1>1. CoreInv /\ Places
  BY InitPlaces, CoreInitInv DEF TreeInit
<1>2. /\ links = [n \in Name |-> NoPath] /\ symlink = [p \in Path |-> NoName]
      /\ \A j \in ID : Mounted(devices[j]) = {}
  BY NothingOfTheAbsent DEF TreeInit, CoreInit
<1>3. Unlinked = {}
  BY <1>2 DEF Unlinked, Path
<1>4. LinkInv
  BY <1>2, <1>3 DEF LinkInv, LinksOK, OwnLinksRight, LinkedUnlessStale
<1>5. QED
  BY <1>1, <1>4 DEF TreeInv

LEMMA StepTree == TreeInv /\ [TreeNext]_<<coreVars, treeVars>> => TreeInv'
<1>1. SUFFICES ASSUME TreeInv, [TreeNext]_<<coreVars, treeVars>> PROVE TreeInv'
  OBVIOUS
<1>2. [CoreNext]_coreVars
  BY <1>1, TreeStepIsCore
<1>3. QED
  BY <1>1, <1>2, CoreStepInv, StepPlaces, StepLinks DEF TreeInv

\* The daemon's bookkeeping, the tree and the links stay in step together.
THEOREM TreeInvariant == TreeSpec => []TreeInv
<1>1. TreeInit => TreeInv
  BY InitTree
<1>2. QED
  BY <1>1, StepTree, PTL DEF TreeSpec

\* The types: mounts are mountpoints, and mountpoints are in directories.
COROLLARY TreeTypesAreRight == TreeSpec => []TreeTypeOK
<1>1. TreeInv => TreeTypeOK
  BY TypesSplit DEF TreeInv, Places, LinkInv
<1>2. QED
  BY <1>1, TreeInvariant, PTL

\* As long as umount works, the tree is what the daemon believes it to be,
\* with any number of devices and volumes, killed and started any number of
\* times.
COROLLARY TreeIsExact == TreeSpec => []TreeExact
<1>1. TreeInv => TreeExact
  BY ExactPointwise DEF TreeInv, Places
<1>2. QED
  BY <1>1, TreeInvariant, PTL

\* Even if it does not: what clients find in the directory of an announced
\* device is what they were told of, never something left behind.
COROLLARY NothingIsForeign == TreeSpec => []NothingForeign
<1>1. ASSUME CoreInv, Places, NEW i \in ID, catalog[i] = "announced"
      PROVE  /\ i \in tops
             /\ \A k \in Index : <<i, k>> \in mounts <=> <<i, k>> \in catVolumes
  <2>1. /\ pc # "stopped" /\ devices[i].dir = "created"
        /\ \A k \in Index : <<i, k>> \in catVolumes <=> k \in Mounted(devices[i])
    BY <1>1 DEF CoreInv, ClientViewExact
  <2>2. ~(pc = "drop" /\ cur = i)
    BY <1>1 DEF CoreInv, JobConsistent
  <2>3. QED
    BY <1>1, <2>1, <2>2 DEF Places, Fresh, Standing
<1>2. TreeInv => NothingForeign
  BY <1>1 DEF NothingForeign, TreeInv
<1>3. QED
  BY <1>2, TreeInvariant, PTL

\* The link of a volume leads to that volume, whatever links earlier daemons
\* have left behind and however many labels are the same.
COROLLARY OwnLinksAreRight == TreeSpec => []OwnLinksRight
<1>1. TreeInv => OwnLinksRight
  BY DEF TreeInv, LinkInv
<1>2. QED
  BY <1>1, TreeInvariant, PTL

\* Only remains of an earlier daemon keep a mounted volume from its link.
COROLLARY VolumesAreLinked == TreeSpec => []LinkedUnlessStale
<1>1. TreeInv => LinkedUnlessStale
  BY DEF TreeInv, LinkInv
<1>2. QED
  BY <1>1, TreeInvariant, PTL

\* A running daemon leaves no link behind, unless it cannot remove them.
THEOREM RunningDaemonOrphansNothing == TreeSpec => OrphanedByTheEndOnly
<1> DEFINE A == "symlink" \notin faulty /\ "stopped" \notin {pc, pc'}
                => Orphans' \subseteq Orphans
<1>1. TreeInv /\ [TreeNext]_<<coreVars, treeVars>> => [A]_<<coreVars, treeVars>>
  BY StepLinks DEF TreeInv
<1>2. QED
  BY <1>1, TreeInvariant, PTL DEF TreeSpec, OrphanedByTheEndOnly

=============================================================================
