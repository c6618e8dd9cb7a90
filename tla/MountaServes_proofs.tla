------------------------ MODULE MountaServes_proofs ------------------------
(***************************************************************************)
(* That every disk is served: as long as no tool fails, and though links   *)
(* come and go while the daemon starts or is busy with others, each disk   *)
(* that is there ends up with a device and all its volumes mounted.        *)
(***************************************************************************)
EXTENDS Mounta_proofs

\* Nothing fails but that the kernel may drop events.
Fine == faults \subseteq {"overflow"}

LEMMA ServeInit == MountaInit => ServeInv
BY DEF MountaInit, ServeInv, Watched

----------------------------------------------------------------------------
(* What a step that does not touch them leaves of a disk's devices and links *)

LEMMA HealthyKept ==
    ASSUME NEW i \in ID, Healthy(i), devices'[i] = devices[i],
           plugged'[devices[i].link] = plugged[devices[i].link]
    PROVE  Healthy(i)'
BY DEF Healthy

LEMMA ServedKept ==
    ASSUME NEW l, Served(l),
           \A i \in ID : Registered(i) /\ devices[i].link = l[1] /\ ~Dropping(i)
              => devices'[i] = devices[i] /\ ~Dropping(i)'
    PROVE  Served(l)'
<1>1. PICK i \in ID :
        /\ Registered(i) /\ devices[i].link = l[1] /\ ~Dropping(i)
        /\ IF l[2] = 0 THEN devices[i].state \in {"PROBED", "OK"}
                       ELSE l[2] \in Volumes(devices[i])
  BY DEF Served
<1>2. devices'[i] = devices[i] /\ ~Dropping(i)' /\ Registered(i)'
  BY <1>1 DEF Registered
<1>3. QED
  BY <1>1, <1>2 DEF Served

LEMMA AttendedKept ==
    ASSUME NEW l, Attended(l),
           Renewed(queue, l) => Attended(l)',
           GoneQueued(queue', Root(l)) => GoneQueued(queue, Root(l)),
           ~GoneQueued(queue', Root(l)) =>
              /\ Served(l) => Served(l)'
              /\ phase = "watching" => phase' = "watching" \/ l \in scan'
              /\ l \in scan => l \in scan' \/ Served(l)'
    PROVE  Attended(l)'
BY DEF Attended

\* How a step of the world affects a disk that is plugged in: not at all, but
\* that a link of it may be made.
LEMMA DiskUntouched ==
    ASSUME NEW d \in Disk, DevicesWell(d), LinksAttended(d),
           UNCHANGED <<devices, pc, cur>>, plugged'[d] = plugged[d],
           phase' = phase, scan \subseteq scan',
           GoneQueued(queue, <<d, 0>>) <=> GoneQueued(queue', <<d, 0>>),
           \A l \in Link : l[1] = d /\ byId'[l] # NoStem =>
              \/ Renewed(queue', l)
              \/ byId[l] # NoStem /\ (Renewed(queue, l) => Renewed(queue', l))
    PROVE  DevicesWell(d)' /\ LinksAttended(d)'
<1>1. DevicesWell(d)'
  <2>1. SUFFICES ASSUME ~GoneQueued(queue', <<d, 0>>), NEW i \in ID,
                        Registered(i)', devices'[i].link = d, ~Dropping(i)'
                 PROVE  Healthy(i)'
    BY DEF DevicesWell
  <2>2. Healthy(i) /\ devices[i].link = d
    BY <2>1 DEF DevicesWell, Registered, Dropping
  <2>3. QED
    BY <2>2, HealthyKept
<1>2. LinksAttended(d)'
  <2>1. SUFFICES ASSUME NEW l \in Link, l[1] = d, byId'[l] # NoStem
                 PROVE  Attended(l)'
    BY DEF LinksAttended
  <2>2. CASE Renewed(queue', l)
    BY <2>2 DEF Attended
  <2>3. CASE byId[l] # NoStem /\ (Renewed(queue, l) => Renewed(queue', l))
    <3>1. Attended(l)
      BY <2>1, <2>3 DEF LinksAttended
    <3>2. Served(l) => Served(l)'
      BY ServedKept DEF Dropping
    <3>3. Renewed(queue, l) => Attended(l)'
      BY <2>3 DEF Attended
    <3>4. Root(l) = <<d, 0>>
      BY <2>1 DEF Root
    <3>5. QED
      BY <3>1, <3>2, <3>3, <3>4, AttendedKept
  <2>4. QED
    BY <2>1, <2>2, <2>3
<1>3. QED
  BY <1>1, <1>2

----------------------------------------------------------------------------
(* The kernel and udev                                                     *)

LEMMA PlugServes ==
    ASSUME WorldInv, TraceInv, ServeInv, Fine, Watched, pc # "spinning",
           NEW e \in Disk, NEW stem \in Stem, Plug(e, stem),
           NEW d \in Disk, d \notin missed, Ordinary(d), plugged'[d] # NoStem
    PROVE  DevicesWell(d)' /\ LinksAttended(d)'
<1>1. /\ UNCHANGED <<devices, pc, cur, phase, scan, queue, missed, byId>>
      /\ \A l \in Link : l[1] = e => byId[l] = NoStem
      /\ \A c \in Disk : c # e => plugged'[c] = plugged[c]
  BY DEF Plug, coreVars, loopVars, eventVars, Fine
<1>2. CASE d # e
  <2>1. DevicesWell(d) /\ LinksAttended(d) /\ plugged'[d] = plugged[d]
    BY <1>1, <1>2 DEF ServeInv, Fine
  <2>2. QED
    BY <1>1, <2>1, DiskUntouched
<1>3. CASE d = e
  <2>1. LinksAttended(d)'
    BY <1>1, <1>3 DEF LinksAttended
  <2>2. ASSUME ~GoneQueued(queue, <<d, 0>>), NEW i \in ID, Registered(i),
               devices[i].link = d, ~Dropping(i)
        PROVE  FALSE
    <3>1. d # Unnamed /\ <<d, 0>> \in Link
      BY SentinelAssumption, RootLinkAssumption
    <3>2. Traced(i) /\ "disorder" \notin faults
      BY <2>2 DEF TraceInv, DevicesTraced, Fine
    <3>3. byId[<<d, 0>>] # NoStem
      BY <2>2, <3>1, <3>2 DEF Traced
    <3>4. QED
      BY <1>1, <1>3, <3>1, <3>3
  <2>3. DevicesWell(d)'
    BY <1>1, <2>2 DEF DevicesWell, Registered, Dropping
  <2>4. QED
    BY <2>1, <2>3
<1>4. QED
  BY <1>2, <1>3

LEMMA MakeLinkServes ==
    ASSUME WorldInv, ServeInv, Fine, Watched, pc # "spinning",
           NEW m \in Link, MakeLink(m),
           NEW d \in Disk, d \notin missed', Ordinary(d), plugged'[d] # NoStem
    PROVE  DevicesWell(d)' /\ LinksAttended(d)'
<1>1. /\ queue \in Seq(Reported) /\ byId \in [Link -> Stem \cup {NoStem}]
  BY DEF WorldInv, WorldOK
<1>2. /\ UNCHANGED <<devices, pc, cur, phase, plugged>> /\ scan \subseteq scan'
      /\ Notify(New(m)) /\ \A l \in Link : l # m => byId'[l] = byId[l]
  BY <1>1 DEF MakeLink, coreVars
<1>3. New(m) \in Reported /\ New(m).link = m /\ New(m).ev = "NEW"
  BY DEF New, Reported
<1>4. \A l : New(m) # Gone(l)
  BY EventsDiffer
<1>5. \/ queue' = Append(queue, New(m)) /\ missed' = missed
      \/ queue' = queue /\ missed' = missed \cup {m[1]}
  BY <1>2, <1>3, <1>4, NotifyCases
<1>6. d \notin missed /\ (queue' = Append(queue, New(m)) \/ (queue' = queue /\ m[1] # d))
  BY <1>5
<1>7. /\ \A l : GoneQueued(Append(queue, New(m)), l) <=> GoneQueued(queue, l)
      /\ \A l : Renewed(queue, l) => Renewed(Append(queue, New(m)), l)
      /\ Renewed(Append(queue, New(m)), m)
  BY <1>1, <1>3, <1>4, AppendEvent
<1>8. DevicesWell(d) /\ LinksAttended(d)
  BY <1>2, <1>6 DEF ServeInv, Fine
<1>9. \A l \in Link : l[1] = d /\ byId'[l] # NoStem =>
         \/ Renewed(queue', l)
         \/ byId[l] # NoStem /\ (Renewed(queue, l) => Renewed(queue', l))
  BY <1>2, <1>6, <1>7
<1>10. GoneQueued(queue, <<d, 0>>) <=> GoneQueued(queue', <<d, 0>>)
  BY <1>6, <1>7
<1>11. plugged'[d] = plugged[d]
  BY <1>2
<1>12. QED
  BY <1>2, <1>8, <1>9, <1>10, <1>11, DiskUntouched

\* With all partitions there, only links of a disk that is not are removed.
LEMMA RemoveLinkServes ==
    ASSUME WorldInv, ServeInv, Fine, Watched, pc # "spinning",
           NEW m \in Link, RemoveLink(m),
           NEW d \in Disk, d \notin missed', Ordinary(d), plugged'[d] # NoStem
    PROVE  DevicesWell(d)' /\ LinksAttended(d)'
<1>1. /\ queue \in Seq(Reported) /\ byId \in [Link -> Stem \cup {NoStem}]
  BY DEF WorldInv, WorldOK
<1>2. /\ UNCHANGED <<devices, pc, cur, phase, plugged, scan>>
      /\ Notify(Gone(m)) /\ \A l \in Link : l # m => byId'[l] = byId[l]
  BY <1>1 DEF RemoveLink, coreVars
<1>3. d # m[1]
  <2>1. Target(m) = plugged[m[1]]
    BY LinkFacts DEF ServeInv, Fine, Target
  <2>2. QED
    BY <1>2, <2>1 DEF RemoveLink
<1>4. Gone(m) \in Reported /\ Gone(m).link = m
  BY DEF Gone, Reported
<1>5. /\ queue' = Append(queue, Gone(m)) \/ queue' = queue
      /\ d \notin missed
  BY <1>2, <1>3, <1>4, NotifyCases
<1>6. \A l : l[1] = d => Gone(m) # Gone(l) /\ Gone(m) # Gone(Root(l))
  BY <1>3, EventsDiffer DEF Root
<1>7. <<d, 0>>[1] = d
  OBVIOUS
<1>8. /\ GoneQueued(Append(queue, Gone(m)), <<d, 0>>) <=> GoneQueued(queue, <<d, 0>>)
      /\ \A l : l[1] = d /\ Renewed(queue, l) => Renewed(Append(queue, Gone(m)), l)
  BY <1>1, <1>4, <1>6, <1>7, AppendEvent
<1>9. DevicesWell(d) /\ LinksAttended(d)
  BY <1>2, <1>5 DEF ServeInv, Fine
<1>10. \A l \in Link : l[1] = d /\ byId'[l] # NoStem =>
         byId[l] # NoStem /\ (Renewed(queue, l) => Renewed(queue', l))
  BY <1>2, <1>3, <1>5, <1>8
<1>11. GoneQueued(queue, <<d, 0>>) <=> GoneQueued(queue', <<d, 0>>)
  BY <1>5, <1>8
<1>12. plugged'[d] = plugged[d]
  BY <1>2
<1>13. QED
  BY <1>2, <1>9, <1>10, <1>11, <1>12, DiskUntouched

----------------------------------------------------------------------------
(* A new link                                                              *)

\* What udev and the tools say of a disk that is there, as long as they work:
\* the node of each of its links is that of the disk, and has no number; there
\* is a volume on each partition, and on a disk without partitions.
LEMMA GoodAnswers ==
    ASSUME WorldInv, TraceInv, ServeInv, Fine,
           NEW l \in Link, Ordinary(l[1]), plugged[l[1]] # NoStem, byId[l] # NoStem,
           NEW o \in Answer(l)
    PROVE  /\ byId[l] = plugged[l[1]] /\ Number(l, byId[l]) = l[2]
           /\ o.info = (l[2] > 0 \/ l[1] \in Superfloppy)
           /\ o.probe = TRUE /\ o.mkdir = TRUE
<1>1. l[1] \in Disk /\ l[2] \in Nat /\ l = <<l[1], l[2]>>
  BY LinkFacts
<1>2. byId[l] = plugged[l[1]]
  BY DEF TraceInv, LinksAgree, Fine
<1>3. plugged[l[1]] \in Node[l[1]] /\ parts = Partitions
  BY <1>1 DEF ServeInv, Fine
<1>4. Number(l, byId[l]) = l[2]
  BY <1>1, <1>2, <1>3 DEF Number, Ordinary
<1>5. Alive(byId[l], l[2])
  BY <1>1, <1>2, <1>3 DEF Alive
<1>6. /\ o.info \in Answers("info", Alive(byId[l], l[2]), l[2] > 0 \/ l[1] \in Superfloppy)
      /\ o.probe \in Answers("probe", Alive(byId[l], l[2]), TRUE)
      /\ o.mkdir \in Answers("mkdir", TRUE, TRUE)
  BY DEF Answer
<1>7. "info" \notin faults /\ "probe" \notin faults /\ "mkdir" \notin faults
  BY DEF Fine
<1>8. o.info \in {l[2] > 0 \/ l[1] \in Superfloppy}
  BY <1>5, <1>6, <1>7 DEF Answers
<1>9. o.probe \in {TRUE}
  BY <1>5, <1>6, <1>7 DEF Answers
<1>10. o.mkdir \in {TRUE}
  BY <1>6, <1>7 DEF Answers
<1>11. QED
  BY <1>2, <1>4, <1>8, <1>9, <1>10

\* Handling a link keeps the volumes of the device it leads to, ...
LEMMA HandledKeepsVolumes ==
    ASSUME NEW i \in ID, NEW l, NEW stem, NEW o, Handled(i, l, stem, o),
           NEW k \in Index, devices[i].vol[k] # NoVolume
    PROVE  devices'[i].vol[k] = devices[i].vol[k]
BY DEF Handled

\* ... and leaves it as it should be, if the link is that of a disk that is
\* there.
LEMMA HandledHealthy ==
    ASSUME WorldInv, TraceInv, ServeInv, Fine, plugged' = plugged,
           NEW l \in Link, NEW o \in Answer(l),
           Ordinary(l[1]), plugged[l[1]] # NoStem, byId[l] # NoStem,
           NEW i \in ID, Handled(i, l, byId[l], o),
           Registered(i) => Healthy(i)
    PROVE  /\ devices'[i].link = l[1] /\ Healthy(i)'
           /\ IF l[2] = 0 THEN devices'[i].state \in {"PROBED", "OK"}
                          ELSE l[2] \in Volumes(devices'[i])
<1> DEFINE d == l[1]
           stem == byId[l]
           n == VolumeIndex(l, stem)
<1>1. /\ stem = plugged[d] /\ Number(l, stem) = l[2]
      /\ o.info = (l[2] > 0 \/ d \in Superfloppy)
      /\ o.probe = TRUE /\ o.mkdir = TRUE
  BY GoodAnswers
<1>2. /\ l[2] \in Nat /\ l = <<d, l[2]>> /\ (l[2] # 0 => l \in Partitions)
      /\ l[2] # 0 => d \notin Superfloppy
      /\ n = (IF l[2] = 0 THEN Whole ELSE l[2]) /\ n \in Index /\ Whole \in Index
  <2>1. l[2] \in Nat /\ l = <<d, l[2]>> /\ (l[2] # 0 => l \in Partitions)
    BY LinkFacts
  <2>2. n = IF l[2] = 0 THEN Whole ELSE l[2]
    BY <1>1 DEF VolumeIndex
  <2>3. QED
    BY <2>1, <2>2, SuperfloppyAssumption DEF Index
<1>3. /\ Registered(i) => devices[i].state \in {"SYNTHETIC", "PROBED", "OK"}
      /\ Registered(i) => devices[i].dir # "failed"
      /\ Registered(i) /\ devices[i].state = "OK" => ~Empty(devices[i])
  BY DEF Healthy
<1>4. ~Registered(i) => /\ devices[i].state = "absent" /\ devices[i].dir = "unset"
                        /\ \A k \in Index : devices[i].vol[k] = NoVolume
  BY SentinelFacts DEF Registered
<1>5. devices'[i].link = d /\ (Registered(i) => devices[i].link = d)
  <2>1. DeviceName(l, stem) = d
    BY <1>1, <1>2 DEF DeviceName, RootName
  <2>2. QED
    BY <2>1 DEF Handled
<1>6. /\ l[2] = 0 => devices'[i].state \in {"PROBED", "OK"}
      /\ devices'[i].state \in {"SYNTHETIC", "PROBED", "OK"}
  <2>1. CASE l[2] = 0
    <3>1. o.probe /\ devices[i].state # "BROKEN"
            => devices'[i].state \in {"PROBED", "OK"}
      BY <1>1, <2>1 DEF Handled
    <3>2. QED
      BY <1>1, <1>3, <1>4, <3>1
  <2>2. CASE l[2] # 0
    <3>1. /\ devices[i].state \in {"absent", "SYNTHETIC"}
               => devices'[i].state = "SYNTHETIC"
          /\ devices[i].state \in {"PROBED", "OK"}
               => devices'[i].state \in {"PROBED", "OK"}
      BY <1>1, <2>2 DEF Handled
    <3>2. QED
      BY <1>3, <1>4, <2>2, <3>1
  <2>3. QED
    BY <2>1, <2>2
<1>7. devices'[i].dir # "failed"
  <2>1. o.mkdir /\ devices[i].dir # "failed" => devices'[i].dir # "failed"
    BY DEF Handled
  <2>2. QED
    BY <1>1, <1>3, <1>4, <2>1
<1>8. devices'[i].state = "OK" => ~Empty(devices'[i])
  <2>1. devices'[i].state = "OK" => devices[i].state = "OK" \/ ~Empty(devices'[i])
    BY DEF Handled
  <2>2. ~Empty(devices[i]) => ~Empty(devices'[i])
    BY EmptyPointwise, HandledKeepsVolumes
  <2>3. QED
    BY <1>3, <1>4, <2>1, <2>2
<1>9. o.info /\ ~(l[2] = 0 /\ Registered(i)) => devices'[i].vol[n] # NoVolume
  BY <1>1 DEF Handled
<1>10. d \in Superfloppy => Whole \in Volumes(devices'[i])
  <2>1. CASE Registered(i)
    BY <1>2, <1>5, <2>1, HandledKeepsVolumes DEF Healthy, Volumes
  <2>2. CASE ~Registered(i) /\ d \in Superfloppy
    BY <1>1, <1>2, <1>9, <2>2 DEF Volumes
  <2>3. QED
    BY <2>1, <2>2
<1>11. l[2] # 0 => l[2] \in Volumes(devices'[i])
  <2>1. SUFFICES ASSUME l[2] # 0 PROVE l[2] \in Volumes(devices'[i])
    OBVIOUS
  <2>2. l[2] > 0 /\ n = l[2] /\ n \in Index
    BY <1>2, <2>1
  <2>3. devices'[i].vol[n] # NoVolume
    BY <1>1, <1>9, <2>1, <2>2
  <2>4. QED
    BY <2>2, <2>3 DEF Volumes
<1>12. ASSUME NEW k \in Volumes(devices'[i])
       PROVE  /\ devices'[i].vol[k].stem = plugged[d]
              /\ devices'[i].vol[k].state # "UNUSABLE"
              /\ <<d, k>> \in Partitions \/ (k = Whole /\ d \in Superfloppy)
  <2>1. k \in Index /\ devices'[i].vol[k] # NoVolume
    BY <1>12 DEF Volumes
  <2>2. \/ devices'[i].vol[k] = devices[i].vol[k]
        \/ k = n /\ o.info /\ devices'[i].vol[k] = [state |-> "PENDING", stem |-> stem]
    BY <2>1 DEF Handled
  <2>3. CASE devices'[i].vol[k] = devices[i].vol[k]
    BY <1>4, <1>5, <2>1, <2>3 DEF Healthy, Volumes
  <2>4. CASE k = n /\ o.info /\ devices'[i].vol[k] = [state |-> "PENDING", stem |-> stem]
    <3>1. devices'[i].vol[k].stem = plugged[d] /\ devices'[i].vol[k].state = "PENDING"
      BY <1>1, <2>4
    <3>2. CASE l[2] = 0
      <4>1. k = Whole
        BY <1>2, <2>4, <3>2
      <4>2. d \in Superfloppy
        <5>1. o.info /\ ~(l[2] > 0)
          BY <2>4, <3>2
        <5>2. QED
          BY <1>1, <5>1
      <4>3. QED
        BY <3>1, <4>1, <4>2
    <3>3. CASE l[2] # 0
      <4>1. k = l[2] /\ <<d, l[2]>> \in Partitions
        BY <1>2, <2>4, <3>3
      <4>2. QED
        BY <3>1, <4>1
    <3>4. QED
      BY <3>2, <3>3
  <2>5. QED
    BY <2>2, <2>3, <2>4
<1>13. QED
  BY <1>5, <1>6, <1>7, <1>8, <1>10, <1>11, <1>12 DEF Healthy

\* A link of a disk that is there is handled, or a link that is no longer
\* there is, whose removal has then been reported too.
LEMMA NewDeviceServes ==
    ASSUME WorldInv, TraceInv, ServeInv, Fine, plugged' = plugged,
           NEW l \in Link, NEW o \in Answer(l), HandleNewDevice(l, byId[l], o),
           pc' # "spinning",
           NEW d \in Disk, Ordinary(d), plugged[d] # NoStem,
           \A i \in ID : Registered(i) /\ devices[i].link = d => Healthy(i),
           l = <<d, 0>> => byId[l] # NoStem
    PROVE  /\ \A i \in ID : Registered(i)' /\ devices'[i].link = d => Healthy(i)'
           /\ \A m \in Link : m[1] = d /\ Served(m) => Served(m)'
           /\ l[1] = d /\ byId[l] # NoStem => Served(l)'
<1> DEFINE stem == byId[l]
<1>1. /\ CoreInv /\ stem \in Stem \cup {NoStem} /\ o \in Outcome(stem)
      /\ stem = NoStem => ~o.info
      /\ l[1] \in Disk /\ l[2] \in Nat /\ l = <<l[1], l[2]>>
  BY AnswerType, LinkFacts DEF WorldInv, WorldOK, Outcome
<1>2. ASSUME l[1] = d, stem # NoStem
      PROVE  /\ Number(l, stem) = l[2] /\ (l[2] > 0 => o.info) /\ IsAcceptable(l[1])
  BY <1>1, <1>2, GoodAnswers DEF Ordinary
<1>3. CASE /\ devices' = devices /\ pc' \in {"idle", "spinning"}
           /\ IsAcceptable(l[1]) /\ (Number(l, stem) = 0 \/ o.info) => pc' = "spinning"
  <2>1. pc' = "idle"
    BY <1>3
  <2>2. ~(l[1] = d /\ stem # NoStem)
    BY <1>1, <1>2, <1>3, <2>1
  <2>3. \A i \in ID : ~Dropping(i)'
    BY <2>1 DEF Dropping
  <2>4. \A m \in Link : Served(m) => Served(m)'
    BY <1>3, <2>3, ServedKept
  <2>5. ASSUME NEW i \in ID, Registered(i)', devices'[i].link = d
        PROVE  Healthy(i)'
    <3>1. Healthy(i)
      BY <1>3, <2>5 DEF Registered
    <3>2. QED
      BY <1>3, <3>1, HealthyKept
  <2>6. QED
    BY <2>2, <2>4, <2>5
<1>4. ASSUME NEW i \in ID, Handled(i, l, stem, o)
      PROVE  /\ \A j \in ID : Registered(j)' /\ devices'[j].link = d => Healthy(j)'
             /\ \A m \in Link : m[1] = d /\ Served(m) => Served(m)'
             /\ l[1] = d /\ stem # NoStem => Served(l)'
  <2>1. /\ \A j \in ID : j # i => devices'[j] = devices[j]
        /\ pc' \in {"idle", "mount"} /\ Registered(i)'
        /\ devices'[i].link = DeviceName(l, stem)
        /\ Registered(i) => devices[i].link = devices'[i].link
    BY <1>4 DEF Handled
  <2>2. \A j \in ID : ~Dropping(j)'
    BY <2>1 DEF Dropping
  <2>3. devices'[i].link = d => l[1] = d
    BY <1>1, <2>1, SentinelAssumption DEF DeviceName, RootName
  <2>4. CASE l[1] = d /\ stem # NoStem
    <3>1. Registered(i) => devices[i].link = d
      <4>1. DeviceName(l, stem) = d
        BY <1>1, <1>2, <2>4 DEF DeviceName, RootName
      <4>2. QED
        BY <2>1, <4>1
    <3>2. Registered(i) => Healthy(i)
      BY <3>1
    <3>3. /\ devices'[i].link = d /\ Healthy(i)'
          /\ IF l[2] = 0 THEN devices'[i].state \in {"PROBED", "OK"}
                         ELSE l[2] \in Volumes(devices'[i])
      BY <1>4, <2>4, <3>2, HandledHealthy
    <3>4. Served(l)'
      BY <2>1, <2>2, <2>4, <3>3 DEF Served
    <3>5. ASSUME NEW j \in ID, Registered(j)', devices'[j].link = d
          PROVE  Healthy(j)'
      <4>1. CASE j # i
        BY <2>1, <3>5, <4>1, HealthyKept DEF Registered
      <4>2. QED
        BY <3>3, <4>1
    <3>6. ASSUME NEW m \in Link, m[1] = d, Served(m)
          PROVE  Served(m)'
      <4>1. PICK j \in ID :
              /\ Registered(j) /\ devices[j].link = d
              /\ IF m[2] = 0 THEN devices[j].state \in {"PROBED", "OK"}
                             ELSE m[2] \in Volumes(devices[j])
        BY <3>6 DEF Served
      <4>2. CASE j # i
        <5>1. devices'[j] = devices[j] /\ Registered(j)'
          BY <2>1, <4>1, <4>2 DEF Registered
        <5>2. QED
          BY <2>2, <3>6, <4>1, <5>1 DEF Served
      <4>3. CASE j = i
        <5>1. devices[i].state \in {"PROBED", "OK"} => devices'[i].state \in {"PROBED", "OK"}
          BY <1>4 DEF Handled
        <5>2. m[2] \in Volumes(devices[i]) => m[2] \in Volumes(devices'[i])
          BY <1>4, HandledKeepsVolumes DEF Volumes
        <5>3. QED
          BY <2>1, <2>2, <3>3, <3>6, <4>1, <4>3, <5>1, <5>2 DEF Served
      <4>4. QED
        BY <4>2, <4>3
    <3>7. QED
      BY <3>4, <3>5, <3>6
  <2>5. CASE ~(l[1] = d /\ stem # NoStem)
    <3>1. ASSUME NEW j \in ID, devices'[j].link = d \/ (Registered(j) /\ devices[j].link = d)
          PROVE  devices'[j] = devices[j]
      <4>1. CASE j = i
        <5>1. devices'[i].link = d /\ l[1] = d /\ stem = NoStem
          BY <2>1, <2>3, <2>5, <3>1, <4>1
        <5>2. Number(l, stem) # 0
          <6>1. l[2] # 0
            BY <1>1, <5>1
          <6>2. QED
            BY <1>1, <6>1 DEF Number
        <5>3. QED
          BY <1>1, <1>4, <4>1, <5>1, <5>2 DEF Handled
      <4>2. QED
        BY <2>1, <4>1
    <3>2. ASSUME NEW j \in ID, Registered(j)', devices'[j].link = d
          PROVE  Healthy(j)'
      <4>1. devices'[j] = devices[j] /\ Registered(j)
        BY <3>1, <3>2 DEF Registered
      <4>2. QED
        BY <3>2, <4>1, HealthyKept
    <3>3. \A m \in Link : m[1] = d /\ Served(m) => Served(m)'
      BY <2>2, <3>1, ServedKept
    <3>4. QED
      BY <2>5, <3>2, <3>3
  <2>6. QED
    BY <2>4, <2>5
<1>5. QED
  <2>1. pc = "idle"
    BY DEF HandleNewDevice
  <2>2. QED
    BY <1>1, <1>3, <1>4, NewDeviceHandled


\* In the scan or from the queue: no link of the disk is overlooked.
LEMMA NewLinkServes ==
    ASSUME WorldInv, TraceInv, ServeInv, Fine, Watched, phase # "watching",
           UNCHANGED <<plugged, byId, phase>>,
           NEW l \in Link, NEW o \in Answer(l), HandleNewDevice(l, byId[l], o),
           pc' # "spinning",
           NEW d \in Disk, d \notin missed, Ordinary(d), plugged[d] # NoStem,
           GoneQueued(queue', <<d, 0>>) <=> GoneQueued(queue, <<d, 0>>),
           l[2] = 0 /\ l[1] \notin missed /\ byId[l] = NoStem
             => GoneQueued(queue', l),
           \A m \in Link : Renewed(queue, m) =>
              Renewed(queue', m) \/ (m = l /\ ~GoneQueued(queue', Root(m))),
           \A m \in scan : m \in scan' \/ m = l
    PROVE  DevicesWell(d)' /\ LinksAttended(d)'
<1>1. pc = "idle" /\ \A i \in ID : ~Dropping(i)
  BY DEF HandleNewDevice, Dropping
<1>2. DevicesWell(d) /\ LinksAttended(d)
  BY <1>1 DEF ServeInv, Fine
<1>3. ASSUME ~GoneQueued(queue', <<d, 0>>)
      PROVE  /\ \A i \in ID : Registered(i)' /\ devices'[i].link = d => Healthy(i)'
             /\ \A m \in Link : m[1] = d /\ Served(m) => Served(m)'
             /\ l[1] = d /\ byId[l] # NoStem => Served(l)'
  <2>1. \A i \in ID : Registered(i) /\ devices[i].link = d => Healthy(i)
    BY <1>1, <1>2, <1>3 DEF DevicesWell
  <2>2. l = <<d, 0>> => byId[l] # NoStem
    BY <1>3
  <2>3. QED
    BY <2>1, <2>2, NewDeviceServes
<1>4. DevicesWell(d)'
  BY <1>3 DEF DevicesWell
<1>5. LinksAttended(d)'
  <2>1. SUFFICES ASSUME NEW m \in Link, m[1] = d, byId[m] # NoStem
                 PROVE  Attended(m)'
    BY DEF LinksAttended
  <2>2. Attended(m) /\ Root(m) = <<d, 0>>
    BY <1>2, <2>1 DEF LinksAttended, Root
  <2>3. ~GoneQueued(queue', Root(m)) =>
           /\ Served(m) => Served(m)'
           /\ m = l => Served(m)'
    BY <1>3, <2>1, <2>2
  <2>4. Renewed(queue, m) => Attended(m)'
    BY <2>3 DEF Attended
  <2>5. QED
    BY <2>2, <2>3, <2>4, AttendedKept
<1>6. QED
  BY <1>4, <1>5

LEMMA ScanServes ==
    ASSUME WorldInv, TraceInv, ServeInv, Fine, Watched, NEW l \in Link, ScanEntry(l),
           pc' # "spinning",
           NEW d \in Disk, d \notin missed, Ordinary(d), plugged[d] # NoStem
    PROVE  DevicesWell(d)' /\ LinksAttended(d)'
<1>1. PICK o \in Answer(l) : HandleNewDevice(l, byId[l], o)
  BY DEF ScanEntry
<1>2. /\ UNCHANGED <<plugged, byId, phase, queue>> /\ phase = "scanning"
      /\ l \in scan /\ \A m \in scan : m \in scan' \/ m = l
  BY DEF ScanEntry, worldVars, eventVars
<1>3. l[2] = 0 /\ l[1] \notin missed /\ byId[l] = NoStem => GoneQueued(queue', l)
  BY <1>2 DEF TraceInv, RemovalsFollow
<1>4. QED
  BY <1>1, <1>2, <1>3, NewLinkServes

LEMMA DispatchNewServes ==
    ASSUME WorldInv, TraceInv, ServeInv, Fine, Watched, Dispatch,
           Head(queue).ev = "NEW", pc' # "spinning",
           NEW d \in Disk, d \notin missed, Ordinary(d), plugged[d] # NoStem
    PROVE  DevicesWell(d)' /\ LinksAttended(d)'
<1> DEFINE l == Head(queue).link
<1>1. PICK o \in Answer(l) : HandleNewDevice(l, byId[l], o) /\ phase' = phase
  BY DEF Dispatch
<1>2. /\ queue \in Seq(Reported) /\ queue # <<>> /\ queue' = Tail(queue)
      /\ UNCHANGED <<plugged, byId, scan>> /\ phase = "running"
  BY DEF Dispatch, WorldInv, WorldOK, worldVars
<1>3. l \in Link /\ Head(queue) = New(l)
  <2>1. Head(queue) \in Reported
    BY <1>2
  <2>2. QED
    BY <2>1 DEF Reported, New
<1>4. GoneQueued(queue', <<d, 0>>) <=> GoneQueued(queue, <<d, 0>>)
  BY <1>2, <1>3, HandleEvent, EventsDiffer
<1>5. l[2] = 0 /\ l[1] \notin missed /\ byId[l] = NoStem => GoneQueued(queue', l)
  BY <1>2, <1>3, HandleEvent DEF TraceInv, RemovalsFollow
<1>6. \A m \in Link : Renewed(queue, m) =>
         Renewed(queue', m) \/ (m = l /\ ~GoneQueued(queue', Root(m)))
  BY <1>2, <1>3, HandleEvent, EventsDiffer
<1>7. QED
  BY <1>1, <1>2, <1>3, <1>4, <1>5, <1>6, NewLinkServes

----------------------------------------------------------------------------
(* A removal, and the volumes                                              *)

LEMMA DispatchGoneServes ==
    ASSUME WorldInv, ServeInv, Fine, Watched, Dispatch,
           Head(queue).ev = "GONE",
           NEW d \in Disk, d \notin missed, Ordinary(d), plugged[d] # NoStem
    PROVE  DevicesWell(d)' /\ LinksAttended(d)'
<1> DEFINE l == Head(queue).link
<1>1. HandleRemovedDevice(l) /\ phase' = phase
  BY DEF Dispatch
<1>2. /\ queue \in Seq(Reported) /\ queue # <<>> /\ queue' = Tail(queue)
      /\ UNCHANGED <<plugged, byId, scan, devices>> /\ pc = "idle" /\ UniqueLinks
  BY <1>1 DEF Dispatch, WorldInv, WorldOK, CoreInv, worldVars, HandleRemovedDevice
<1>3. l \in Link /\ Head(queue) = Gone(l)
  <2>1. Head(queue) \in Reported
    BY <1>2
  <2>2. QED
    BY <2>1 DEF Reported, Gone
<1>4. /\ GoneQueued(queue', <<d, 0>>) => GoneQueued(queue, <<d, 0>>)
      /\ GoneQueued(queue, <<d, 0>>) => GoneQueued(queue', <<d, 0>>) \/ l = <<d, 0>>
      /\ \A m : Renewed(queue, m) => Renewed(queue', m)
  BY <1>2, <1>3, HandleEvent, EventsDiffer
<1>5. DevicesWell(d) /\ LinksAttended(d) /\ \A i \in ID : ~Dropping(i)
  BY <1>2 DEF ServeInv, Fine, Dropping
<1>6. ASSUME NEW i \in ID, Registered(i), devices[i].link = d
      PROVE  Dropping(i)' <=> l = <<d, 0>>
  <2>1. CASE l[2] > 0 \/ ~Known(l[1])
    <3>1. Known(d) /\ <<d, 0>>[1] = d /\ <<d, 0>>[2] = 0
      BY <1>6 DEF Known
    <3>2. l # <<d, 0>>
      BY <2>1, <3>1
    <3>3. \A j \in ID : ~(l[2] = 0 /\ IsDevice(j, l[1]))
      BY <2>1 DEF IsDevice, Known
    <3>4. pc' = "idle"
      BY <1>1, <1>2, <3>3 DEF HandleRemovedDevice
    <3>5. QED
      BY <3>2, <3>4 DEF Dropping
  <2>2. ASSUME l[2] = 0, NEW j \in ID, IsDevice(j, l[1]), pc' = "drop", cur' = j
        PROVE  Dropping(i)' <=> l = <<d, 0>>
    <3>1. l = <<l[1], 0>>
      BY <1>3, <2>2, LinkFacts DEF Root
    <3>2. i = j <=> l[1] = d
      BY <1>2, <1>6, <2>2 DEF IsDevice, UniqueLinks
    <3>3. QED
      BY <2>2, <3>1, <3>2 DEF Dropping
  <2>3. QED
    BY <1>1, <1>3, <2>1, <2>2 DEF HandleRemovedDevice
<1>7. DevicesWell(d)'
  <2>1. SUFFICES ASSUME ~GoneQueued(queue', <<d, 0>>), NEW i \in ID,
                        Registered(i)', devices'[i].link = d, ~Dropping(i)'
                 PROVE  Healthy(i)'
    BY DEF DevicesWell
  <2>2. Registered(i) /\ devices[i].link = d
    BY <1>2, <2>1 DEF Registered
  <2>3. ~GoneQueued(queue, <<d, 0>>)
    BY <1>4, <1>6, <2>1, <2>2
  <2>4. QED
    BY <1>2, <1>5, <2>2, <2>3, HealthyKept DEF DevicesWell
<1>8. LinksAttended(d)'
  <2>1. SUFFICES ASSUME NEW m \in Link, m[1] = d, byId[m] # NoStem
                 PROVE  Attended(m)'
    BY <1>2 DEF LinksAttended
  <2>2. Attended(m) /\ Root(m) = <<d, 0>>
    BY <1>5, <2>1 DEF LinksAttended, Root
  <2>3. CASE Renewed(queue, m)
    BY <1>4, <2>3 DEF Attended
  <2>4. CASE ~Renewed(queue, m)
    <3>1. ~GoneQueued(queue, <<d, 0>>)
      BY <2>2, <2>4 DEF Attended
    <3>2. l # <<d, 0>>
      <4>1. Len(queue) > 0 /\ queue[1] = Gone(l) /\ 1 \in 1..Len(queue)
        BY <1>2, <1>3
      <4>2. QED
        BY <3>1, <4>1 DEF GoneQueued
    <3>3. Served(m) => Served(m)'
      BY <1>2, <1>6, <2>1, <3>2, ServedKept
    <3>4. QED
      BY <1>1, <1>2, <1>4, <2>2, <2>4, <3>1, <3>3 DEF Attended
  <2>5. QED
    BY <2>3, <2>4
<1>9. QED
  BY <1>7, <1>8

LEMMA GoOnServes ==
    ASSUME WorldInv, ServeInv, Fine, Watched, GoOn,
           NEW d \in Disk, d \notin missed, Ordinary(d), plugged[d] # NoStem
    PROVE  DevicesWell(d)' /\ LinksAttended(d)'
<1>1. CoreInv /\ todo \subseteq Index /\ parts = Partitions
  BY DEF WorldInv, CoreInv, CoreTypeOK, ServeInv, Fine
<1>2. UNCHANGED <<plugged, byId, queue, phase, scan>>
  BY DEF GoOn, worldVars, loopVars, eventVars
<1>3. DevicesWell(d) /\ LinksAttended(d)
  <2>1. pc \in {"mount", "drop"}
    BY DEF GoOn, MountVolume, DropVolume, DropDevice
  <2>2. QED
    BY <2>1 DEF ServeInv, Fine
<1>4. SUFFICES /\ ~GoneQueued(queue, <<d, 0>>) =>
                     \A i \in ID : Registered(i)' /\ devices'[i].link = d /\ ~Dropping(i)'
                        => Healthy(i)'
               /\ \A m \in Link : m[1] = d /\ Served(m) => Served(m)'
  <2>1. DevicesWell(d)'
    BY <1>2, <1>4 DEF DevicesWell
  <2>2. ASSUME NEW m \in Link, m[1] = d, byId[m] # NoStem PROVE Attended(m)'
    <3>1. Attended(m) /\ (Served(m) => Served(m)')
      BY <1>3, <1>4, <2>2 DEF LinksAttended
    <3>2. QED
      BY <1>2, <3>1 DEF Attended
  <2>3. LinksAttended(d)'
    BY <1>2, <2>2 DEF LinksAttended
  <2>4. QED
    BY <2>1, <2>3
<1>5. ASSUME \A i \in ID : Registered(i) /\ ~Dropping(i)
                => devices'[i] = devices[i] /\ ~Dropping(i)',
             \A i \in ID : devices'[i] # Absent /\ ~Dropping(i)'
                => Registered(i) /\ ~Dropping(i)
      PROVE  /\ ~GoneQueued(queue, <<d, 0>>) =>
                     \A i \in ID : Registered(i)' /\ devices'[i].link = d /\ ~Dropping(i)'
                        => Healthy(i)'
             /\ \A m \in Link : m[1] = d /\ Served(m) => Served(m)'
  <2>1. ASSUME ~GoneQueued(queue, <<d, 0>>), NEW i \in ID, Registered(i)',
               devices'[i].link = d, ~Dropping(i)'
        PROVE  Healthy(i)'
    <3>1. Registered(i) /\ ~Dropping(i) /\ devices'[i] = devices[i]
      BY <1>5, <2>1 DEF Registered
    <3>2. QED
      BY <1>2, <1>3, <2>1, <3>1, HealthyKept DEF DevicesWell
  <2>2. \A m \in Link : Served(m) => Served(m)'
    BY <1>5, ServedKept
  <2>3. QED
    BY <2>1, <2>2
<1>6. ASSUME NEW k \in todo, DropVolume(k)
      PROVE  /\ \A i \in ID : Registered(i) /\ ~Dropping(i)
                    => devices'[i] = devices[i] /\ ~Dropping(i)'
             /\ \A i \in ID : devices'[i] # Absent /\ ~Dropping(i)'
                    => Registered(i) /\ ~Dropping(i)
  <2>1. /\ pc = "drop" /\ pc' = "drop" /\ cur' = cur
        /\ \A j \in ID : j # cur => devices'[j] = devices[j]
    BY <1>1, <1>6, DropVolumeChanges
  <2>2. QED
    BY <2>1 DEF Dropping, Registered
<1>7. ASSUME DropDevice
      PROVE  /\ \A i \in ID : Registered(i) /\ ~Dropping(i)
                    => devices'[i] = devices[i] /\ ~Dropping(i)'
             /\ \A i \in ID : devices'[i] # Absent /\ ~Dropping(i)'
                    => Registered(i) /\ ~Dropping(i)
  <2>1. /\ pc = "drop" /\ pc' = "idle" /\ devices'[cur] = Absent
        /\ \A j \in ID : j # cur => devices'[j] = devices[j]
    BY <1>1, <1>7, DropDeviceChanges
  <2>2. QED
    BY <2>1 DEF Dropping, Registered
<1>8. ASSUME NEW k \in todo, NEW ok \in MountAnswers(devices[cur].vol[k].stem, k),
             MountVolume(k, ok)
      PROVE  /\ ~GoneQueued(queue, <<d, 0>>) =>
                     \A i \in ID : Registered(i)' /\ devices'[i].link = d /\ ~Dropping(i)'
                        => Healthy(i)'
             /\ \A m \in Link : m[1] = d /\ Served(m) => Served(m)'
  <2>1. /\ k \in Index /\ ok \in BOOLEAN
    BY <1>1, <1>8, AnswersType
  <2>2. /\ pc = "mount" /\ pc' \in {"idle", "mount"}
        /\ cur \in ID /\ Registered(cur) /\ devices'[cur] # Absent
        /\ \A j \in ID : j # cur => devices'[j] = devices[j]
        /\ devices'[cur].link = devices[cur].link
        /\ devices'[cur].dir = devices[cur].dir
        /\ devices'[cur].state = devices[cur].state
        /\ devices[cur].vol[k] # NoVolume /\ devices'[cur].vol[k] # NoVolume
        /\ devices'[cur].vol[k].stem = devices[cur].vol[k].stem
        /\ devices'[cur].vol[k].state = IF ok THEN "MOUNTED" ELSE "UNUSABLE"
        /\ \A n \in Index : n # k => devices'[cur].vol[n] = devices[cur].vol[n]
    BY <1>1, <1>8, <2>1, MountVolumeChanges
  <2>3. \A i \in ID : ~Dropping(i) /\ ~Dropping(i)'
    BY <2>2 DEF Dropping
  <2>4. Volumes(devices'[cur]) = Volumes(devices[cur])
    BY <2>2 DEF Volumes
  <2>5. ASSUME ~GoneQueued(queue, <<d, 0>>), NEW i \in ID, Registered(i)',
               devices'[i].link = d
        PROVE  Healthy(i)'
    <3>1. CASE i # cur
      <4>1. devices'[i] = devices[i] /\ Registered(i)
        BY <2>2, <2>5, <3>1 DEF Registered
      <4>2. QED
        BY <1>2, <1>3, <2>3, <2>5, <4>1, HealthyKept DEF DevicesWell
    <3>2. CASE i = cur
      <4>1. Healthy(i) /\ devices[i].link = d
        BY <1>3, <2>2, <2>3, <2>5, <3>2 DEF DevicesWell
      <4>2. k \in Volumes(devices[i])
        BY <2>1, <2>2, <3>2 DEF Volumes
      <4>3. devices[i].vol[k].stem = plugged[d]
        BY <4>1, <4>2 DEF Healthy
      <4>4. Alive(plugged[d], k)
        BY <1>1 DEF Alive
      <4>5. ok \in {TRUE}
        BY <1>8, <3>2, <4>3, <4>4 DEF MountAnswers, Answers, Fine
      <4>6. devices'[i].vol[k].state = "MOUNTED"
        BY <2>2, <3>2, <4>5
      <4>7. \A n \in Volumes(devices'[i]) :
               /\ n \in Volumes(devices[i])
               /\ devices'[i].vol[n].stem = devices[i].vol[n].stem
               /\ devices'[i].vol[n].state
                    \in {devices[i].vol[n].state, "MOUNTED"}
        BY <2>2, <2>4, <3>2, <4>6 DEF Volumes
      <4>8. Empty(devices'[i]) <=> Empty(devices[i])
        BY <2>4, <3>2 DEF Empty
      <4>9. QED
        BY <1>2, <2>2, <2>4, <3>2, <4>1, <4>7, <4>8 DEF Healthy
    <3>3. QED
      BY <3>1, <3>2
  <2>6. ASSUME NEW m \in Link, Served(m) PROVE Served(m)'
    <3>1. PICK i \in ID :
            /\ Registered(i) /\ devices[i].link = m[1]
            /\ IF m[2] = 0 THEN devices[i].state \in {"PROBED", "OK"}
                           ELSE m[2] \in Volumes(devices[i])
      BY <2>6 DEF Served
    <3>2. /\ Registered(i)' /\ devices'[i].link = m[1]
          /\ devices'[i].state = devices[i].state
          /\ Volumes(devices'[i]) = Volumes(devices[i])
      BY <2>2, <2>4, <3>1 DEF Registered
    <3>3. QED
      BY <2>3, <3>1, <3>2 DEF Served
  <2>7. QED
    BY <2>5, <2>6
<1>9. QED
  BY <1>5, <1>6, <1>7, <1>8 DEF GoOn

----------------------------------------------------------------------------
(* Together                                                                *)

LEMMA SetUpWatchServes ==
    ASSUME TraceInv, SetUpWatch, NEW d \in Disk
    PROVE  DevicesWell(d)' /\ LinksAttended(d)'
<1>1. queue' = <<>> /\ phase' = "watching" /\ \A i \in ID : ~Registered(i)'
  BY DEF TraceInv, FreshStart, SetUpWatch, Registered, coreVars
<1>2. \A l : ~GoneQueued(queue', l)
  BY <1>1, NothingInEmpty
<1>3. QED
  BY <1>1, <1>2 DEF DevicesWell, LinksAttended, Attended

\* The scan finds all links there are; it ends when all have been handled.
LEMMA ScanningServes ==
    ASSUME TraceInv, ServeInv, Fine, Watched, pc # "spinning",
           OpenDirectory \/ EnterMainLoop,
           NEW d \in Disk, d \notin missed, Ordinary(d), plugged[d] # NoStem
    PROVE  DevicesWell(d)' /\ LinksAttended(d)'
<1>1. /\ UNCHANGED <<devices, pc, cur, plugged, byId, queue, missed>>
      /\ DevicesWell(d) /\ LinksAttended(d)
  BY DEF OpenDirectory, EnterMainLoop, coreVars, worldVars, eventVars, ServeInv, Fine
<1>2. DevicesWell(d)'
  <2>1. \A i \in ID : Healthy(i) => Healthy(i)'
    BY <1>1, HealthyKept
  <2>2. QED
    BY <1>1, <2>1 DEF DevicesWell, Registered, Dropping
<1>3. ASSUME NEW l \in Link, l[1] = d, byId[l] # NoStem PROVE Attended(l)'
  <2>1. Attended(l)
    BY <1>1, <1>3 DEF LinksAttended
  <2>2. Served(l) => Served(l)'
    BY <1>1, ServedKept DEF Dropping
  <2>3. CASE OpenDirectory
    <3>1. l \in scan'
      BY <1>3, <2>3 DEF OpenDirectory
    <3>2. QED
      BY <1>1, <2>1, <3>1 DEF Attended
  <2>4. CASE EnterMainLoop
    <3>1. scan = {} /\ phase = "scanning"
      BY <2>4 DEF EnterMainLoop
    <3>2. QED
      BY <1>1, <2>1, <2>2, <3>1 DEF Attended
  <2>5. QED
    BY <2>3, <2>4
<1>4. QED
  BY <1>1, <1>2, <1>3 DEF LinksAttended

LEMMA ServeStep == WorldInv /\ TraceInv /\ ServeInv /\ [MountaNext]_vars => ServeInv'
<1>1. SUFFICES ASSUME WorldInv, TraceInv, ServeInv, [MountaNext]_vars, Fine'
               PROVE  ServeInv'
  BY DEF ServeInv, Fine
<1>2. faults' = faults /\ Fine
  <2>1. faults' = faults
    BY <1>1 DEF MountaNext, World, Plug, Unplug, MakeLink, RemoveLink,
       ChangePartition, LoseDirectory, Daemon, Connect, SetUpWatch, OpenDirectory,
       EnterMainLoop, ScanEntry, Dispatch, GoOn, Signals, Terminate, SwallowSignal,
       HeedSignal, TerminateAgain, GiveUp, Kill, StartAgain, Exit, worldVars, vars
  <2>2. QED
    BY <1>1, <2>1 DEF Fine
<1>3. ~(\E l \in Partitions : ChangePartition(l)) /\ ~LoseDirectory
  BY <1>2 DEF ChangePartition, LoseDirectory, Fine
<1>4. parts' = Partitions /\ \A d \in Disk : plugged'[d] \in Node[d] \cup {NoStem}
  <2>1. parts = Partitions /\ \A d \in Disk : plugged[d] \in Node[d] \cup {NoStem}
    BY <1>1, <1>2 DEF ServeInv, Fine
  <2>2. plugged \in [Disk -> Stem \cup {NoStem}]
    BY <1>1 DEF WorldInv, WorldOK
  <2>3. CASE World
    BY <1>3, <2>1, <2>2, <2>3 DEF World, Plug, Unplug, MakeLink, RemoveLink
  <2>4. CASE UNCHANGED <<faults, plugged, parts, byId>>
    BY <2>1, <2>4
  <2>5. QED
    BY <1>1, <2>3, <2>4, OnlyWorldMovesDisks
<1>5. ASSUME Watched', pc' # "spinning", NEW d \in Disk, d \notin missed',
             Ordinary(d), plugged'[d] # NoStem
      PROVE  DevicesWell(d)' /\ LinksAttended(d)'
  <2>1. CASE World
    <3>1. UNCHANGED coreVars /\ Watched
      BY <1>3, <1>5, <2>1 DEF World, Plug, Unplug, MakeLink, RemoveLink, loopVars, Watched
    <3>2. pc # "spinning"
      BY <1>5, <3>1 DEF coreVars
    <3>3. ASSUME NEW e \in Disk, Unplug(e)
          PROVE  DevicesWell(d)' /\ LinksAttended(d)'
      <4>1. /\ UNCHANGED <<devices, pc, cur, phase, scan, queue, missed, byId>>
            /\ plugged'[d] = plugged[d]
        BY <1>1, <1>5, <3>3
        DEF Unplug, coreVars, loopVars, eventVars, WorldInv, WorldOK
      <4>2. DevicesWell(d) /\ LinksAttended(d)
        BY <1>1, <1>2, <1>5, <3>1, <3>2, <4>1 DEF ServeInv, Fine
      <4>3. QED
        BY <4>1, <4>2, DiskUntouched
    <3>4. CASE \E e \in Disk, stem \in Stem : Plug(e, stem)
      <4>1. d \notin missed
        BY <1>5, <3>4 DEF Plug, loopVars, eventVars
      <4>2. QED
        BY <1>1, <1>2, <1>5, <3>1, <3>2, <3>4, <4>1, PlugServes
    <3>5. QED
      BY <1>1, <1>2, <1>3, <1>5, <2>1, <3>1, <3>2, <3>3, <3>4, MakeLinkServes,
         RemoveLinkServes DEF World
  <2>2. CASE ~World
    <3>1. /\ UNCHANGED <<faults, plugged, parts, byId, lost>>
          /\ SetUpWatch \/ (Watched /\ missed' = missed)
      BY <1>1, <1>5, <2>2, LoopEvents DEF TraceInv
    <3>2. CASE SetUpWatch
      BY <1>1, <3>2, SetUpWatchServes
    <3>3. CASE ~SetUpWatch
      <4>1. Watched /\ d \notin missed /\ plugged[d] # NoStem /\ plugged'[d] = plugged[d]
        BY <1>5, <3>1, <3>3
      <4>2. CASE UNCHANGED vars
        <5>1. /\ UNCHANGED <<devices, pc, cur, phase, scan, queue, byId>>
          BY <4>2 DEF vars, coreVars, worldVars, loopVars, eventVars
        <5>2. DevicesWell(d) /\ LinksAttended(d)
          BY <1>1, <1>2, <1>5, <4>1, <5>1 DEF ServeInv, Fine
        <5>3. QED
          BY <4>1, <5>1, <5>2, DiskUntouched
      <4>3. CASE OpenDirectory \/ EnterMainLoop
        <5>1. pc # "spinning"
          BY <1>5, <4>3 DEF OpenDirectory, EnterMainLoop, coreVars
        <5>2. QED
          BY <1>1, <1>2, <1>5, <4>1, <4>3, <5>1, ScanningServes
      <4>4. CASE \E l \in Link : ScanEntry(l)
        BY <1>1, <1>2, <1>5, <4>1, <4>4, ScanServes
      <4>5. CASE Dispatch
        <5>1. ~(Shutdown /\ phase' = "stopped") /\ "isdir" \notin faults
          BY <1>2, <1>5 DEF Watched, Fine
        <5>2. Head(queue).ev = "NEW" \/ Head(queue).ev = "GONE"
          BY <4>5, <5>1 DEF Dispatch
        <5>3. QED
          BY <1>1, <1>2, <1>5, <4>1, <4>5, <5>2, DispatchNewServes, DispatchGoneServes
      <4>6. CASE GoOn
        BY <1>1, <1>2, <1>5, <4>1, <4>6, GoOnServes
      <4>7. ~Connect /\ ~Exit /\ ~StartAgain
        BY <1>5 DEF Connect, Exit, StartAgain, Watched
      <4>8. ~Terminate /\ ~SwallowSignal
        BY <1>2, <4>1 DEF Terminate, SwallowSignal, Fine, Watched
      <4>9. QED
        BY <1>1, <2>2, <3>3, <4>2, <4>3, <4>4, <4>5, <4>6, <4>7, <4>8
        DEF MountaNext, Daemon, Signals, HeedSignal, TerminateAgain, GiveUp, Kill
    <3>4. QED
      BY <3>2, <3>3
  <2>3. QED
    BY <2>1, <2>2
<1>6. QED
  BY <1>2, <1>4, <1>5 DEF ServeInv, Fine

\* Each disk that is there is on its way to be served, or is, whatever is
\* plugged in and pulled out, and when, as long as nothing fails but that the
\* kernel may drop events, and of all disks but those it dropped events of.
THEOREM DisksAreAttended == MountaSpec => []ServeInv
<1>1. QED
  BY ServeInit, ServeStep, TraceInit, TraceStep, MountaInvariant, PTL DEF MountaSpec

\* A disk that is on its way, with nothing left on the way, is served.
LEMMA ServedWhenSettled ==
    ASSUME WorldInv, TraceInv, ServeInv, Fine, Settled,
           NEW d \in Disk, d \notin missed, Ordinary(d), plugged[d] # NoStem
    PROVE  \E i \in ID : Serves(i, d)
<1>1. /\ CoreInv /\ Watched /\ pc = "idle" /\ scan = {} /\ phase = "running"
      /\ parts = Partitions /\ \A i \in ID : ~Dropping(i)
  BY DEF WorldInv, Settled, Watched, TraceInv, FreshStart, ServeInv, Fine, Dropping
<1>2. \A l : ~GoneQueued(queue, l) /\ ~Renewed(queue, l)
  BY NothingInEmpty DEF Settled
<1>3. DevicesWell(d) /\ LinksAttended(d)
  BY <1>1 DEF ServeInv, Fine
<1>4. ASSUME NEW l \in Link, l[1] = d
      PROVE  \E i \in ID :
                /\ Registered(i) /\ devices[i].link = d
                /\ IF l[2] = 0 THEN devices[i].state \in {"PROBED", "OK"}
                               ELSE l[2] \in Volumes(devices[i])
  <2>1. byId[l] # NoStem
    BY <1>1, <1>4, LinkFacts DEF Settled, Target
  <2>2. Served(l)
    BY <1>1, <1>2, <1>3, <1>4, <2>1 DEF LinksAttended, Attended
  <2>3. QED
    BY <1>4, <2>2 DEF Served
<1>5. PICK i \in ID : /\ Registered(i) /\ devices[i].link = d
                      /\ devices[i].state \in {"PROBED", "OK"}
  <2>1. <<d, 0>> \in Link /\ <<d, 0>>[1] = d /\ <<d, 0>>[2] = 0
    BY RootLinkAssumption
  <2>2. QED
    BY <1>4, <2>1
<1>6. \A j \in ID : Registered(j) /\ devices[j].link = d => j = i
  BY <1>1, <1>5 DEF CoreInv, UniqueLinks
<1>7. Healthy(i)
  BY <1>1, <1>2, <1>3, <1>5 DEF DevicesWell
<1> DEFINE dev == devices[i]
           wanted == {l[2] : l \in {p \in parts : p[1] = d}}
                       \cup (IF d \in Superfloppy THEN {Whole} ELSE {})
<1>8. wanted \subseteq Volumes(dev)
  <2>1. ASSUME NEW p \in Partitions, p[1] = d
        PROVE  p[2] \in Volumes(dev)
    <3>1. p \in Link /\ p[2] # 0
      BY <2>1, LinkFacts DEF Partitions
    <3>2. QED
      BY <1>4, <1>6, <2>1, <3>1
  <2>2. d \in Superfloppy => Whole \in Volumes(dev)
    BY <1>5, <1>7 DEF Healthy
  <2>3. QED
    BY <1>1, <2>1, <2>2
<1>9. Volumes(dev) \subseteq wanted
  <2>1. SUFFICES ASSUME NEW k \in Volumes(dev) PROVE k \in wanted
    OBVIOUS
  <2>2. <<d, k>> \in Partitions \/ (k = Whole /\ d \in Superfloppy)
    BY <1>5, <1>7 DEF Healthy
  <2>3. <<d, k>> \in Partitions => <<d, k>>[1] = d /\ <<d, k>>[2] = k
    OBVIOUS
  <2>4. QED
    BY <1>1, <2>2, <2>3
<1>10. dev.state = IF wanted = {} THEN "PROBED" ELSE "OK"
  <2>1. Volumes(dev) = wanted
    BY <1>8, <1>9
  <2>2. dev.state = "OK" => Volumes(dev) # {}
    BY <1>7 DEF Healthy, Empty
  <2>3. dev.state = "PROBED" => Volumes(dev) = {}
    BY <1>1 DEF CoreInv, DeferredMounting, Empty
  <2>4. QED
    BY <1>5, <2>1, <2>2, <2>3
<1>11. ASSUME NEW k \in wanted
       PROVE  dev.vol[k] = [state |-> "MOUNTED", stem |-> plugged[d]]
  <2>1. k \in Index /\ dev.vol[k] # NoVolume /\ k \in Volumes(dev)
    BY <1>8, <1>11 DEF Volumes
  <2>2. dev.vol[k] \in Volume /\ dev \in Device
    BY <1>1, <1>5, <2>1, DeviceCases DEF CoreInv
  <2>3. dev.vol[k].stem = plugged[d] /\ dev.vol[k].state # "UNUSABLE"
    BY <1>5, <1>7, <2>1 DEF Healthy
  <2>4. dev.state = "OK"
    BY <1>10, <1>11
  <2>5. dev.dir = "created"
    BY <1>1, <1>7, <2>2, <2>4 DEF CoreInv, DeferredMounting, Healthy, Device
  <2>6. dev.vol[k].state # "PENDING"
    BY <1>1, <2>1, <2>4, <2>5 DEF CoreInv, NoVolumeForgotten, Pending
  <2>7. dev.vol[k].state = "MOUNTED"
    BY <2>2, <2>3, <2>6 DEF Volume, VolumeState
  <2>8. QED
    BY <2>2, <2>3, <2>7 DEF Volume
<1>12. IsDevice(i, d)
  <2>1. \A j \in ID : Registered(j) /\ devices[j].link = d => i <= j
    BY <1>6, MaxIdAssumption DEF ID
  <2>2. QED
    BY <1>5, <2>1 DEF IsDevice
<1>13. Serves(i, d)
  BY <1>10, <1>11, <1>12 DEF Serves
<1>14. QED
  BY <1>13

\* Whatever order disks, udev, the scan and the queue take, once all has been
\* handled every disk that is there has its device, with all volumes mounted.
THEOREM DisksAreServed == MountaSpec => []Converged
<1>1. WorldInv /\ TraceInv /\ ServeInv => Converged
  BY ServedWhenSettled DEF Converged, Fine
<1>2. MountaSpec => []TraceInv
  BY DevicesAreTraced
<1>3. QED
  BY <1>1, <1>2, DisksAreAttended, MountaInvariant, PTL

----------------------------------------------------------------------------
(* The daemon comes to rest                                                *)

LEMMA StepShrinks ==
    ASSUME IsFiniteSet(Link), IsFiniteSet(Stem), MountaTypeOK, WorldInv, Daemon
    PROVE  \/ PhasesLeft' < PhasesLeft
           \/ PhasesLeft' = PhasesLeft /\ EventsLeft' < EventsLeft
           \/ /\ PhasesLeft' = PhasesLeft /\ EventsLeft' = EventsLeft
              /\ StepsLeft' < StepsLeft
<1>1. queue \in Seq(Reported) /\ scan \in SUBSET Link /\ todo \subseteq Index
  BY DEF MountaTypeOK, WorldInv, WorldOK, CoreInv, CoreTypeOK
<1>2. Cardinality(scan) \in Nat /\ Len(queue) \in Nat
  BY <1>1, FS_Subset, FS_CardinalityType
<1>3. CASE Connect \/ SetUpWatch \/ OpenDirectory \/ EnterMainLoop
  <2>1. PhasesLeft' < PhasesLeft
    BY <1>3 DEF Connect, SetUpWatch, OpenDirectory, EnterMainLoop, PhasesLeft
  <2>2. QED
    BY <2>1
<1>4. CASE \E l \in Link : ScanEntry(l)
  <2>1. PICK l \in Link : ScanEntry(l)
    BY <1>4
  <2>2. phase' = phase /\ queue' = queue /\ l \in scan /\ scan' = scan \ {l}
    BY <2>1 DEF ScanEntry, eventVars
  <2>3. Cardinality(scan \ {l}) \in Nat /\ Cardinality(scan \ {l}) < Cardinality(scan)
    BY <1>1, <2>2, OneLess
  <2>4. PhasesLeft' = PhasesLeft
    BY <2>2 DEF PhasesLeft
  <2>5. EventsLeft' < EventsLeft
    BY <1>2, <2>2, <2>3 DEF EventsLeft
  <2>6. QED
    BY <2>4, <2>5
<1>5. CASE Dispatch
  <2>1. /\ phase = "running" /\ phase' \in {"running", "stopped"}
        /\ queue # <<>> /\ queue' = Tail(queue) /\ scan' = scan
    BY <1>5 DEF Dispatch
  <2>2. Len(queue') = Len(queue) - 1
    BY <1>1, <2>1
  <2>3. PhasesLeft' = PhasesLeft
    BY <2>1 DEF PhasesLeft
  <2>4. EventsLeft' < EventsLeft
    BY <1>2, <2>1, <2>2 DEF EventsLeft
  <2>5. QED
    BY <2>3, <2>4
<1>6. CASE GoOn
  <2>1. phase' = phase /\ queue' = queue /\ scan' = scan
    BY <1>6 DEF GoOn, loopVars, eventVars
  <2>2. PhasesLeft' = PhasesLeft /\ EventsLeft' = EventsLeft
    BY <2>1 DEF PhasesLeft, EventsLeft
  <2>3. IsFiniteSet(Index)
    BY IndexFinite
  <2>4. \/ \E k \in todo : (\E ok \in BOOLEAN : MountVolume(k, ok)) \/ DropVolume(k)
        \/ DropDevice
    BY <1>6, AnswersType DEF GoOn
  <2>5. Cardinality(todo)' + (IF pc' = "drop" THEN 1 ELSE 0)
          < Cardinality(todo) + (IF pc = "drop" THEN 1 ELSE 0)
    BY <1>1, <2>3, <2>4, HandlerShrinks
  <2>6. QED
    BY <2>2, <2>5 DEF StepsLeft
<1>7. QED
  BY <1>3, <1>4, <1>5, <1>6 DEF Daemon

\* With finitely many links and nodes, no step of the daemon leaves as much to
\* do as there was: what the liveness properties rest on, for any number of
\* disks, any faults and any state the daemon gets into.
THEOREM DaemonComesToRest ==
    ASSUME IsFiniteSet(Link), IsFiniteSet(Stem)
    PROVE  MountaSpec => WorkShrinks
<1>1. MountaTypeOK /\ WorldInv /\ [MountaNext]_vars =>
        [Daemon => \/ PhasesLeft' < PhasesLeft
                   \/ PhasesLeft' = PhasesLeft /\ EventsLeft' < EventsLeft
                   \/ /\ PhasesLeft' = PhasesLeft /\ EventsLeft' = EventsLeft
                      /\ StepsLeft' < StepsLeft]_vars
  BY StepShrinks
<1>2. QED
  BY <1>1, MountaInvariant, MountaTypesAreRight, PTL DEF MountaSpec, WorkShrinks

=============================================================================
