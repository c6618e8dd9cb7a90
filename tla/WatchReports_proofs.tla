------------------------ MODULE WatchReports_proofs ------------------------
(***************************************************************************)
(* With --watch, and as long as nothing goes wrong, each volume somebody   *)
(* mounts is reported: the invariant ReportInv is inductive next to        *)
(* WatchInv.  One lemma for each kind of step; the first ones say what a   *)
(* step may do without harm to a directory it is not about.                *)
(***************************************************************************)
EXTENDS WatchMode_proofs

Calm == faults \subseteq {"alias"}

----------------------------------------------------------------------------
(* Names, links and places                                                 *)

LEMMA CalmFacts ==
    ASSUME Calm
    PROVE  /\ {"slow", "findmnt", "info", "probe", "several", "overflow",
               "directory", "isdir", "crash"} \cap faults = {}
           /\ "slow" \notin faults /\ "findmnt" \notin faults
           /\ "info" \notin faults /\ "probe" \notin faults
           /\ "several" \notin faults /\ "overflow" \notin faults
           /\ "directory" \notin faults /\ "isdir" \notin faults
           /\ "crash" \notin faults
BY DEF Calm

LEMMA OneDrive ==
    ASSUME NEW d \in Drive, NEW e \in Drive, RootOf[d] \in {RootOf[e], PartOf[e]}
    PROVE  d = e
<1>1. RootOf[d] \in {RootOf[d], PartOf[d]} \cap {RootOf[e], PartOf[e]}
  OBVIOUS
<1>2. QED
  BY <1>1, NamesAssumption

LEMMA SameLink ==
    ASSUME NEW v \in Part, NEW w \in Part, FirstLink(v) = FirstLink(w)
    PROVE  v[1] = w[1]
BY LinkFacts, OneDrive

\* What a drive's links resolve to.
LEMMA ResolveDrive ==
    ASSUME NEW d \in Drive, NEW l, l[1] \in {RootOf[d], PartOf[d]}
    PROVE  Resolve(l) = node[d]
<1> DEFINE ds == {e \in Drive : l[1] \in {RootOf[e], PartOf[e]} /\ node[e] # NoStem}
<1>1. ASSUME NEW e \in Drive, l[1] \in {RootOf[e], PartOf[e]}
      PROVE  e = d
  <2>1. l[1] \in {RootOf[d], PartOf[d]} \cap {RootOf[e], PartOf[e]}
    BY <1>1
  <2>2. QED
    BY <2>1, NamesAssumption
<1>2. CASE node[d] = NoStem
  <2>1. ds = {}
    BY <1>1, <1>2
  <2>2. QED
    BY <1>2, <2>1 DEF Resolve
<1>3. CASE node[d] # NoStem
  <2>1. ds = {d}
    BY <1>1, <1>3
  <2>2. (CHOOSE e \in ds : TRUE) = d
    BY <2>1
  <2>3. QED
    BY <2>1, <2>2 DEF Resolve
<1>4. QED
  BY <1>2, <1>3

LEMMA TakenPlace ==
    ASSUME WatchInv, NEW p \in Path, at[p] # Free
    PROVE  /\ at[p] \in Places /\ at[p].part \in Part
           /\ at[p].part[1] \in Drive
           /\ FirstLink(at[p].part) \in Link
           /\ FirstLink(at[p].part)[1] = RootOf[at[p].part[1]]
           /\ FirstLink(at[p].part) = <<RootOf[at[p].part[1]], 0>>
           /\ at[p].stage \in {"made", "mounted", "left"}
           /\ at[p].stage = "mounted" => at[p].stem \in Stem /\ at[p].stem # NoStem
<1>1. at[p] \in Places
  BY DEF WatchInv, WatchTypeOK
<1>2. at[p].part \in Part
  BY <1>1, PlaceFacts
<1>3. QED
  BY <1>1, <1>2, PlaceFacts, LinkFacts, SentinelAssumption

\* A directory that is wanted is taken.
LEMMA WantedTaken ==
    ASSUME WatchInv, NEW p \in Path, Wanted(p)
    PROVE  at[p] # Free /\ at[p].stage = "mounted"
BY DEF Wanted, Free

----------------------------------------------------------------------------
(* What a step may do without harm *)

LEMMA SafeKept ==
    ASSUME NEW p \in Path, Safe(p), at'[p].part = at[p].part,
           \A q \in Path : at'[q] # Free => at[q] # Free /\ at'[q].part = at[q].part,
           GoneIn(Coming', p) => GoneIn(Coming, p),
           Renewed(Coming, p) => Renewed(Coming', p),
           \A q \in Path : GoneBeforeNew(Coming, q, p) => GoneBeforeNew(Coming', q, p),
           \A q \in Path, l \in Link : Bound(q, l)' => Bound(q, l),
           FirstLink(at[p].part) \in Link,
           pc' = "drop" => pc = "drop" /\ devices'[cur'].link = devices[cur].link
    PROVE  Safe(p)'
BY DEF Safe

LEMMA FitKept ==
    ASSUME NEW p \in Path, Fit(p), at'[p].part = at[p].part, Wanted(p)' => Wanted(p),
           GoneIn(Coming, p) => GoneIn(Coming', p),
           NEW l \in Link, l = FirstLink(at[p].part),
           job'.path = p /\ job'.step = "volume" => job.path = p /\ job.step = "volume",
           Known(l[1]) => Known(l[1])',
           l \in displaced => l \in displaced',
           \A q \in Path : Bound(q, l) => Bound(q, l)' \/ l \in displaced',
           \A i \in ID : Staying(i)' /\ devices'[i].link = l[1]
              => Staying(i) /\ devices[i].link = l[1] /\ (Good(i, p) => Good(i, p)')
    PROVE  Fit(p)'
BY DEF Fit

\* A daemon that does nothing knows what it knew.
LEMMA DaemonStill ==
    ASSUME UNCHANGED <<coreVars, mapVars, job>>
    PROVE  /\ \A l : \A q \in Path : /\ Bound(q, l)' <=> Bound(q, l)
                                     /\ Held(q, l)' <=> Held(q, l)
           /\ \A i \in ID : Staying(i)' <=> Staying(i)
           /\ \A name : Known(name)' <=> Known(name)
           /\ \A i \in ID, p \in Path :
                 at'[p].part = at[p].part /\ at'[p].stem = at[p].stem
                    => (Good(i, p)' <=> Good(i, p))
           /\ DrivesHeld => DrivesHeld'
           /\ UNCHANGED <<pc, cur, devices, displaced, mapped, shown, catVolumes>>
<1>1. UNCHANGED <<pc, cur, todo, devices, displaced, mapped, shown, job, catVolumes>>
  BY DEF coreVars, mapVars
<1>2. \A l : \A q \in Path : /\ Bound(q, l)' <=> Bound(q, l)
                             /\ Held(q, l)' <=> Held(q, l)
  BY <1>1 DEF Bound, Held
<1>3. \A i \in ID : Staying(i)' <=> Staying(i)
  BY <1>1 DEF Staying, Registered
<1>4. \A name : Known(name)' <=> Known(name)
  BY <1>1 DEF Known, Registered
<1>5. ASSUME NEW i \in ID, NEW p \in Path,
             at'[p].part = at[p].part, at'[p].stem = at[p].stem
      PROVE  Good(i, p)' <=> Good(i, p)
  BY <1>1, <1>5 DEF Good
<1>6. DrivesHeld => DrivesHeld'
  BY <1>1, <1>2, <1>3 DEF DrivesHeld
<1>7. QED
  BY <1>1, <1>2, <1>3, <1>4, <1>5, <1>6

----------------------------------------------------------------------------
(* The world moves *)

\* Something happens: it is heard, or the daemon has not begun to listen.
LEMMA Heard ==
    ASSUME WatchInv, Calm, Listening, NEW e \in Event, Room, Happens(e)
    PROVE  \/ fd = "open" /\ Coming' = Append(Coming, e)
           \/ phase = "starting" /\ Coming = <<>> /\ Coming' = <<>>
<1>1. FdTypeOK /\ Len(pending) < QueueMax
  BY CalmFacts DEF WatchInv, WatchTypeOK, Room
<1>2. Coming' = IF fd = "open" THEN Append(Coming, e) ELSE Coming
  BY <1>1, HappensStream
<1>3. CASE fd = "open"
  BY <1>2, <1>3
<1>4. CASE fd # "open"
  <2>1. phase = "starting"
    BY <1>4 DEF Listening, WatchInv, WatchTypeOK
  <2>2. Coming = <<>>
    <3>1. pending = <<>> /\ batch = <<>>
      BY <1>1, <1>4 DEF FdTypeOK
    <3>2. QED
      BY <3>1 DEF Coming
  <2>3. QED
    BY <1>2, <1>4, <2>1, <2>2
<1>5. QED
  BY <1>3, <1>4

\* As long as no removal of it is still to be handled, the daemon has nothing to
\* do with a directory that is not there.
LEMMA FreeUnbound ==
    ASSUME WatchInv, Calm, Listening, NEW p \in Path, at[p] = Free, ~GoneIn(Coming, p)
    PROVE  job.path # p /\ \A l \in Link : ~Bound(p, l)
<1>1. mapped[p] = NoLink /\ job.path # p
  <2>1. CASE phase = "starting"
    BY <2>1, JobFacts DEF WatchInv, PhaseRight
  <2>2. CASE phase # "starting"
    <3>1. fd = "open"
      BY <2>2 DEF Listening, WatchInv, WatchTypeOK
    <3>2. QED
      BY <3>1, CalmFacts DEF WatchInv, RemovalsFollow
  <2>3. QED
    BY <2>1, <2>2
<1>2. QED
  BY <1>1, JobFacts DEF Bound

\* Drives come and go, volumes are mounted and unmounted: nobody hears of it.
LEMMA UnheardReports ==
    ASSUME WatchInv, Calm, Listening, Reporting,
           UNCHANGED <<daemonVars, eventVars, faults, there, scan>>,
           \A p \in Path : /\ at'[p].part = at[p].part
                           /\ at'[p] = Free <=> at[p] = Free
                           /\ at'[p].stage = "made" => at[p].stage = "made"
                           /\ at[p].stage \in {"mounted", "left"}
                                => at'[p].stage \in {"mounted", "left"},
           \A p \in Path : Wanted(p)' =>
              (at'[p].stem = at[p].stem /\ Wanted(p)) \/ at[p].stage = "made"
    PROVE  Reporting'
<1>1. UNCHANGED <<coreVars, mapVars, job, phase, scan, Coming>>
  BY DEF daemonVars, eventVars, Coming
<1>2. /\ \A l : \A q \in Path : /\ Bound(q, l)' <=> Bound(q, l)
                                /\ Held(q, l)' <=> Held(q, l)
      /\ \A i \in ID : Staying(i)' <=> Staying(i)
      /\ \A name : Known(name)' <=> Known(name)
      /\ \A i \in ID, p \in Path :
            at'[p].part = at[p].part /\ at'[p].stem = at[p].stem
               => (Good(i, p)' <=> Good(i, p))
      /\ DrivesHeld => DrivesHeld'
      /\ UNCHANGED <<pc, cur, devices, displaced, mapped, shown, catVolumes>>
  BY <1>1, DaemonStill
<1>3. DrivesHeld /\ PlacesBound
      /\ \A p \in Path : at[p] # Free => Safe(p) /\ Visited(p) /\ Fit(p)
  BY DEF Reporting
<1>4. PlacesBound'
  BY <1>1, <1>2, <1>3 DEF PlacesBound
<1>5. ASSUME NEW p \in Path, at'[p] # Free
      PROVE  Safe(p)' /\ Visited(p)' /\ Fit(p)'
  <2> DEFINE l == FirstLink(at[p].part)
  <2>1. /\ at[p] # Free /\ Safe(p) /\ Visited(p) /\ Fit(p)
        /\ at'[p].part = at[p].part /\ l \in Link
    BY <1>3, <1>5, TakenPlace
  <2>2. Safe(p)'
    <3>1. \A q \in Path, k \in Link : Bound(q, k)' => Bound(q, k)
      BY <1>2
    <3>2. QED
      BY <1>1, <1>2, <2>1, <3>1, SafeKept
  <2>3. CASE at[p].stage = "made"
    <3>1. Visited(p)'
      BY <1>1, <2>1, <2>3 DEF Visited
    <3>2. ASSUME ~GoneIn(Coming, p), Wanted(p)'
          PROVE  /\ ~(job.path = p /\ job.step = "volume")
                 /\ \A q \in Path : Bound(q, l) => q # p
      <4>1. ~Bound(p, l)
        BY <1>3, <2>1, <2>3, <3>2 DEF PlacesBound
      <4>2. job.path = p /\ job.step = "volume" => job.first \in Link
        BY LinkFacts DEF WatchInv, JobRight
      <4>3. ~(job.path = p /\ job.step = "volume")
        BY <1>3, <2>3, <3>2, <4>2 DEF PlacesBound, Bound
      <4>4. QED
        BY <4>1, <4>3
    <3>3. ASSUME ~GoneIn(Coming, p), Wanted(p)', l \notin displaced,
                 NEW i \in ID, Staying(i), devices[i].link = l[1]
          PROVE  \E q \in Path \ {p} : Bound(q, l)
      <4>1. Plain(at[p].part[1])
        BY <2>1, <3>3 DEF Wanted, Plain
      <4>2. at[p].part[1] \in Drive /\ l = <<RootOf[at[p].part[1]], 0>>
            /\ l[1] = RootOf[at[p].part[1]]
        BY <2>1, TakenPlace
      <4>3. PICK q \in Path : Held(q, l)
        BY <1>3, <3>3, <4>1, <4>2 DEF DrivesHeld
      <4>4. Bound(q, l)
        BY <4>3 DEF Held, Bound
      <4>5. QED
        BY <3>2, <3>3, <4>4
    <3> HIDE DEF l
    <3>4. QED
      BY <1>1, <1>2, <2>1, <2>2, <3>1, <3>2, <3>3 DEF Fit, l
  <2>4. CASE at[p].stage # "made"
    <3>1. Wanted(p)' => at'[p].stem = at[p].stem /\ Wanted(p)
      BY <2>4
    <3>2. at'[p].stage # "made"
      BY <2>4
    <3>3. Visited(p)'
      BY <1>1, <1>2, <2>1, <2>4, <3>1, <3>2 DEF Visited
    <3>4. CASE Wanted(p)'
      <4>1. \A i \in ID : Good(i, p)' <=> Good(i, p)
        BY <1>2, <2>1, <3>1, <3>4
      <4> HIDE DEF l
      <4>2. Fit(p)'
        BY <1>1, <1>2, <2>1, <3>1, <4>1, FitKept DEF l
      <4>3. QED
        BY <2>2, <3>3, <4>2
    <3>5. CASE ~Wanted(p)'
      BY <2>2, <3>3, <3>5 DEF Fit
    <3>6. QED
      BY <3>4, <3>5
  <2>5. QED
    BY <2>3, <2>4
<1>6. QED
  BY <1>2, <1>3, <1>4, <1>5 DEF Reporting

LEMMA DriveReports ==
    ASSUME WatchInv, Calm, Listening, Reporting, NEW d \in Drive,
           Unplug(d) \/ \E stem \in Stem : Plug(d, stem)
    PROVE  Reporting'
<1>1. UNCHANGED <<daemonVars, eventVars, faults, at, there, scan>>
  BY DEF Unplug, Plug
<1>2. PICK stem \in Stem \cup {NoStem} :
        /\ node' = [node EXCEPT ![d] = stem]
        /\ \A p \in Path : at[p].stage = "mounted" => at[p].stem # stem
  <2>1. CASE Unplug(d)
    <3>1. \A p \in Path : at[p].stage = "mounted" => at[p].stem # NoStem
      BY TakenPlace DEF Free
    <3>2. QED
      BY <2>1, <3>1 DEF Unplug
  <2>2. CASE \E stem \in Stem : Plug(d, stem)
    BY <2>2 DEF Plug
  <2>3. QED
    BY <2>1, <2>2
<1>3. ASSUME NEW p \in Path, Wanted(p)'
      PROVE  Wanted(p)
  <2>1. at[p].stage = "mounted" /\ at[p] # Free
    BY <1>1, <1>3 DEF Wanted, Free
  <2>2. at[p].part[1] \in Drive /\ node \in [Drive -> Stem \cup {NoStem}]
    BY <2>1, TakenPlace DEF WatchInv, WatchTypeOK
  <2>3. node'[at[p].part[1]] = at[p].stem
    BY <1>1, <1>3 DEF Wanted
  <2>4. node[at[p].part[1]] = at[p].stem
    BY <1>2, <2>1, <2>2, <2>3
  <2>5. QED
    BY <1>1, <1>3, <2>4 DEF Wanted, Plain
<1>4. QED
  BY <1>1, <1>3, UnheardReports

LEMMA MountReports ==
    ASSUME WatchInv, Calm, Listening, Reporting, NEW p \in Path, Mount(p) \/ Umount(p)
    PROVE  Reporting'
<1>1. UNCHANGED <<daemonVars, eventVars, faults, node, there, scan>>
  BY DEF Mount, Umount
<1>2. /\ at \in [Path -> Places] /\ at[p].stage \in {"made", "mounted"} /\ at[p] # Free
  BY DEF Mount, Umount, WatchInv, WatchTypeOK, Free
<1>3. /\ \A q \in Path : q # p => at'[q] = at[q]
      /\ at'[p].part = at[p].part
      /\ \/ at[p].stage = "made" /\ at'[p].stage = "mounted"
         \/ at[p].stage = "mounted" /\ at'[p].stage = "left"
  <2>1. at[p] \in [stage : {"mounted"}, part : Part, stem : Stem]
               \cup [stage : {"made", "left"}, part : Part, stem : {NoStem}]
    BY <1>2 DEF Places
  <2>2. CASE Mount(p)
    BY <1>2, <2>1, <2>2 DEF Mount
  <2>3. CASE Umount(p)
    BY <1>2, <2>1, <2>3 DEF Umount
  <2>4. QED
    BY <2>2, <2>3
<1>4. ASSUME NEW q \in Path
      PROVE  /\ at'[q].part = at[q].part
             /\ at'[q] = Free <=> at[q] = Free
             /\ at'[q].stage = "made" => at[q].stage = "made"
             /\ at[q].stage \in {"mounted", "left"}
                  => at'[q].stage \in {"mounted", "left"}
             /\ Wanted(q)' => \/ at'[q].stem = at[q].stem /\ Wanted(q)
                              \/ at[q].stage = "made"
  <2>1. CASE q # p
    <3>1. at'[q] = at[q]
      BY <1>3, <2>1
    <3>2. QED
      BY <1>1, <3>1 DEF Wanted, Plain
  <2>2. CASE q = p
    <3>1. at'[p] # Free
      BY <1>3 DEF Free
    <3>2. Wanted(p)' => at'[p].stage = "mounted"
      BY DEF Wanted
    <3>3. QED
      BY <1>2, <1>3, <2>2, <3>1, <3>2
  <2>3. QED
    BY <2>1, <2>2
<1>5. QED
  BY <1>1, <1>4, UnheardReports

\* A new directory is on its way to the daemon, or the scan will find it.
LEMMA MkDirReports ==
    ASSUME WatchInv, Calm, Listening, Reporting, NEW p \in Path, NEW v \in Part,
           MkDir(p, v)
    PROVE  Reporting'
<1>1. /\ at[p] = Free /\ Room /\ Happens(New(p)) /\ v[1] \in Drive
      /\ \A q \in Path : at[q] # Free => at[q].part[1] # v[1]
      /\ UNCHANGED <<coreVars, mapVars, job, phase, faults, node, there>>
      /\ \A q \in scan : q \in scan'
  BY CalmFacts, LinkFacts DEF MkDir, daemonVars
<1>2. /\ at'[p].part = v /\ at'[p].stage = "made" /\ at'[p] # Free
      /\ \A q \in Path : q # p => at'[q] = at[q]
  BY DEF MkDir, WatchInv, WatchTypeOK, Free
<1>3. /\ \A l : \A q \in Path : /\ Bound(q, l)' <=> Bound(q, l)
                                /\ Held(q, l)' <=> Held(q, l)
      /\ \A i \in ID : Staying(i)' <=> Staying(i)
      /\ \A name : Known(name)' <=> Known(name)
      /\ \A i \in ID, q \in Path :
            at'[q].part = at[q].part /\ at'[q].stem = at[q].stem
               => (Good(i, q)' <=> Good(i, q))
      /\ DrivesHeld => DrivesHeld'
      /\ UNCHANGED <<pc, cur, devices, displaced, mapped, shown, catVolumes>>
  BY <1>1, DaemonStill
<1>4. DrivesHeld /\ PlacesBound
      /\ \A q \in Path : at[q] # Free => Safe(q) /\ Visited(q) /\ Fit(q)
  BY DEF Reporting
<1>5. Coming \in Seq(Event) /\ \A q \in Path : New(p) \in Event /\ New(p) # Gone(q)
  BY ComingType, EventFacts DEF WatchInv, WatchTypeOK
<1>6. \/ Coming' = Append(Coming, New(p))
      \/ phase = "starting" /\ Coming = <<>> /\ Coming' = <<>>
  BY <1>1, <1>5, Heard
<1>7. ASSUME NEW q \in Path
      PROVE  /\ GoneIn(Coming', q) <=> GoneIn(Coming, q)
             /\ Renewed(Coming, q) => Renewed(Coming', q)
             /\ \A r : GoneBeforeNew(Coming, r, q) => GoneBeforeNew(Coming', r, q)
  <2> DEFINE more == Append(Coming, New(p))
  <2>1. New(p) \in Event /\ New(p) # Gone(q) /\ Coming \in Seq(Event)
    BY <1>5
  <2>2. /\ GoneIn(more, q) <=> GoneIn(Coming, q) \/ New(p) = Gone(q)
        /\ New(p) # Gone(q) /\ Renewed(Coming, q) => Renewed(more, q)
        /\ \A r : GoneBeforeNew(Coming, r, q) => GoneBeforeNew(more, r, q)
    BY <2>1, AppendComing
  <2> HIDE DEF more
  <2>3. CASE Coming' = more
    BY <2>1, <2>2, <2>3
  <2>4. CASE Coming' = Coming
    BY <2>4
  <2>5. QED
    BY <1>6, <2>3, <2>4 DEF more
<1>8. PlacesBound'
  <2>1. SUFFICES ASSUME NEW q \in Path, ~GoneIn(Coming, q)
        PROVE  /\ \A l \in Link : Bound(q, l) =>
                     at'[q].stage \in {"mounted", "left"} /\ l = FirstLink(at'[q].part)
               /\ job.path = q /\ job.step \in {"disk", "volume", "report"} =>
                     job.second = SecondLink(at'[q].part)
    BY <1>1, <1>3, <1>7 DEF PlacesBound
  <2>2. CASE q = p
    BY <1>1, <2>1, <2>2, FreeUnbound
  <2>3. CASE q # p
    BY <1>2, <1>4, <2>1, <2>3 DEF PlacesBound
  <2>4. QED
    BY <2>2, <2>3
<1>9. ASSUME NEW q \in Path, q # p, at[q] # Free
      PROVE  Safe(q)' /\ Visited(q)' /\ Fit(q)'
  <2> DEFINE l == FirstLink(at[q].part)
  <2>1. /\ Safe(q) /\ Visited(q) /\ Fit(q) /\ at'[q] = at[q] /\ l \in Link
        /\ at[q].part[1] # v[1]
    BY <1>1, <1>2, <1>4, <1>9, TakenPlace
  <2>2. Safe(q)'
    BY <1>2, <1>3, <1>7, <2>1 DEF Safe
  <2>3. Wanted(q)' <=> Wanted(q)
    BY <1>1, <2>1 DEF Wanted, Plain
  <2>4. Visited(q)'
    BY <1>1, <1>3, <1>7, <2>1, <2>3 DEF Visited
  <2>5. Fit(q)'
    <3>1. \A i \in ID : Good(i, q)' <=> Good(i, q)
      BY <1>3, <2>1
    <3> HIDE DEF l
    <3>2. QED
      BY <1>1, <1>3, <1>7, <2>1, <2>3, <3>1, FitKept DEF l
  <2>6. QED
    BY <2>2, <2>4, <2>5
<1>10. Safe(p)'
  <2> DEFINE l == FirstLink(v)
  <2>1. \A q \in Path : at'[q] # Free /\ at'[q].part[1] = v[1] => q = p
    BY <1>1, <1>2
  <2>2. GoneIn(Coming', p) => Renewed(Coming', p)
    <3>1. Renewed(Append(Coming, New(p)), p)
      BY <1>5, AppendComing
    <3>2. QED
      BY <1>6, <3>1, NothingComing
  <2>3. ASSUME NEW q \in Path \ {p}, Bound(q, l)
        PROVE  GoneBeforeNew(Coming', q, p)
    <3>1. l \in Link
      BY LinkFacts
    <3>2. GoneIn(Coming, q)
      <4>1. SUFFICES ASSUME ~GoneIn(Coming, q) PROVE FALSE
        OBVIOUS
      <4>2. at[q].stage \in {"mounted", "left"} /\ l = FirstLink(at[q].part)
        BY <1>4, <2>3, <3>1, <4>1 DEF PlacesBound
      <4>3. at[q] # Free /\ at[q].part \in Part
        BY <4>2, TakenPlace DEF Free
      <4>4. QED
        BY <1>1, <4>2, <4>3, SameLink
    <3>3. Coming' = Append(Coming, New(p))
      BY <1>6, <3>2, NothingComing
    <3>4. New(p) \in Event /\ Coming \in Seq(Event)
      BY <1>5
    <3>5. \A r : GoneIn(Coming, r) => GoneBeforeNew(Append(Coming, New(p)), r, p)
      <4> DEFINE e == New(p)
      <4>1. e \in Event /\ e = New(p)
        BY <3>4
      <4> HIDE DEF e
      <4>2. \A r : GoneIn(Coming, r) => GoneBeforeNew(Append(Coming, e), r, p)
        BY <3>4, <4>1, AppendComing
      <4>3. QED
        BY <4>1, <4>2
    <3>6. QED
      BY <3>2, <3>3, <3>5
  <2>4. pc = "drop" => Renewed(Coming', p)
    <3>1. phase = "starting" => pc # "drop"
      BY DEF WatchInv, PhaseRight
    <3>2. Renewed(Append(Coming, New(p)), p)
      BY <1>5, AppendComing
    <3>3. QED
      BY <1>6, <3>1, <3>2
  <2>5. QED
    BY <1>2, <1>3, <2>1, <2>2, <2>3, <2>4 DEF Safe
<1>11. Visited(p)' /\ Fit(p)'
  <2>1. phase' = "starting" \/ Renewed(Coming', p)
    <3>1. Renewed(Append(Coming, New(p)), p)
      BY <1>5, AppendComing
    <3>2. QED
      BY <1>1, <1>6, <3>1
  <2>2. QED
    BY <1>2, <2>1 DEF Visited, Fit, Wanted
<1>12. \A q \in Path : at'[q] # Free => Safe(q)' /\ Visited(q)' /\ Fit(q)'
  BY <1>2, <1>9, <1>10, <1>11
<1>13. QED
  BY <1>3, <1>4, <1>8, <1>12 DEF Reporting

LEMMA RmDirReports ==
    ASSUME WatchInv, Calm, Listening, Reporting, NEW p \in Path, RmDir(p)
    PROVE  Reporting'
<1>1. /\ Room /\ Happens(Gone(p))
      /\ UNCHANGED <<coreVars, mapVars, job, phase, faults, node, there, scan>>
  BY DEF RmDir, daemonVars
<1>2. /\ at'[p] = Free
      /\ \A q \in Path : q # p => at'[q] = at[q]
  BY DEF RmDir, WatchInv, WatchTypeOK
<1>3. /\ \A l : \A q \in Path : /\ Bound(q, l)' <=> Bound(q, l)
                                /\ Held(q, l)' <=> Held(q, l)
      /\ \A i \in ID : Staying(i)' <=> Staying(i)
      /\ \A name : Known(name)' <=> Known(name)
      /\ \A i \in ID, q \in Path :
            at'[q].part = at[q].part /\ at'[q].stem = at[q].stem
               => (Good(i, q)' <=> Good(i, q))
      /\ DrivesHeld => DrivesHeld'
      /\ UNCHANGED <<pc, cur, devices, displaced, mapped, shown, catVolumes>>
  BY <1>1, DaemonStill
<1>4. DrivesHeld /\ PlacesBound
      /\ \A q \in Path : at[q] # Free => Safe(q) /\ Visited(q) /\ Fit(q)
  BY DEF Reporting
<1>5. Coming \in Seq(Event) /\ Gone(p) \in Event
      /\ \A q \in Path : New(q) # Gone(p) /\ (q # p => Gone(q) # Gone(p))
  BY ComingType, EventFacts DEF WatchInv, WatchTypeOK
<1>6. \/ Coming' = Append(Coming, Gone(p))
      \/ phase = "starting" /\ Coming = <<>> /\ Coming' = <<>>
  BY <1>1, <1>5, Heard
<1>7. ASSUME NEW q \in Path, q # p
      PROVE  /\ GoneIn(Coming', q) <=> GoneIn(Coming, q)
             /\ Renewed(Coming, q) => Renewed(Coming', q)
             /\ \A r : GoneBeforeNew(Coming, r, q) => GoneBeforeNew(Coming', r, q)
  <2> DEFINE more == Append(Coming, Gone(p))
  <2>1. Gone(p) \in Event /\ Gone(p) # Gone(q) /\ Coming \in Seq(Event)
    BY <1>5, <1>7
  <2>2. /\ GoneIn(more, q) <=> GoneIn(Coming, q) \/ Gone(p) = Gone(q)
        /\ Gone(p) # Gone(q) /\ Renewed(Coming, q) => Renewed(more, q)
        /\ \A r : GoneBeforeNew(Coming, r, q) => GoneBeforeNew(more, r, q)
    BY <2>1, AppendComing
  <2> HIDE DEF more
  <2>3. CASE Coming' = more
    BY <2>1, <2>2, <2>3
  <2>4. CASE Coming' = Coming
    BY <2>4
  <2>5. QED
    BY <1>6, <2>3, <2>4 DEF more
<1>8. PlacesBound'
  <2>1. SUFFICES ASSUME NEW q \in Path, ~GoneIn(Coming', q)
        PROVE  /\ \A l \in Link : Bound(q, l) =>
                     at'[q].stage \in {"mounted", "left"} /\ l = FirstLink(at'[q].part)
               /\ job.path = q /\ job.step \in {"disk", "volume", "report"} =>
                     job.second = SecondLink(at'[q].part)
    BY <1>1, <1>3 DEF PlacesBound
  <2>2. CASE q = p
    <3>1. phase = "starting"
      <4>1. GoneIn(Append(Coming, Gone(p)), p)
        BY <1>5, AppendComing
      <4>2. QED
        BY <1>6, <2>1, <2>2, <4>1
    <3>2. job = NoJob /\ mapped = NothingMapped
      BY <3>1 DEF WatchInv, PhaseRight
    <3>3. QED
      BY <3>2, JobFacts DEF Bound
  <2>3. CASE q # p
    BY <1>2, <1>4, <1>7, <2>1, <2>3 DEF PlacesBound
  <2>4. QED
    BY <2>2, <2>3
<1>9. ASSUME NEW q \in Path, q # p, at[q] # Free
      PROVE  Safe(q)' /\ Visited(q)' /\ Fit(q)'
  <2> DEFINE l == FirstLink(at[q].part)
  <2>1. /\ Safe(q) /\ Visited(q) /\ Fit(q) /\ at'[q] = at[q] /\ l \in Link
    BY <1>2, <1>4, <1>9, TakenPlace
  <2>2. Safe(q)'
    <3>1. \A r \in Path : at'[r] # Free => at[r] # Free /\ at'[r].part = at[r].part
      BY <1>2
    <3>2. \A r \in Path, k \in Link : Bound(r, k)' => Bound(r, k)
      BY <1>3
    <3>3. UNCHANGED <<pc, cur, devices>>
      BY <1>3
    <3>4. QED
      BY <1>7, <1>9, <2>1, <3>1, <3>2, <3>3, SafeKept
  <2>3. Wanted(q)' <=> Wanted(q)
    BY <1>1, <2>1 DEF Wanted, Plain
  <2>4. Visited(q)'
    BY <1>1, <1>3, <1>7, <1>9, <2>1, <2>3 DEF Visited
  <2>5. Fit(q)'
    <3>1. \A i \in ID : Good(i, q)' <=> Good(i, q)
      BY <1>3, <2>1
    <3> HIDE DEF l
    <3>2. QED
      BY <1>1, <1>3, <1>7, <1>9, <2>1, <2>3, <3>1, FitKept DEF l
  <2>6. QED
    BY <2>2, <2>4, <2>5
<1>10. QED
  BY <1>2, <1>3, <1>4, <1>8, <1>9 DEF Reporting

LEMMA WorldReports ==
    ASSUME WatchInv, Calm, Listening, Reporting, World
    PROVE  Reporting'
BY CalmFacts, DriveReports, MountReports, MkDirReports, RmDirReports
DEF World, LoseDirectory

----------------------------------------------------------------------------
(* The daemon goes on listening                                            *)

LEMMA ListeningStep ==
    ASSUME WatchInv, Calm, Listening, [WatchNext]_vars
    PROVE  Listening'
<1> DEFINE NoEnd(q) == \A k \in 1..Len(q) : q[k] # Ended
<1>1. /\ there /\ phase # "stopped" /\ NoEnd(Coming)
      /\ phase \in {"watching", "scanning", "running"} => fd = "open"
      /\ FdTypeOK /\ Coming \in Seq(Event)
  BY ComingType DEF Listening, WatchInv, WatchTypeOK
<1>2. ASSUME NEW e \in Event, e # Ended
      PROVE  NoEnd(Append(Coming, e))
  BY <1>1, <1>2
<1>3. CASE /\ UNCHANGED <<there, phase, fd>>
           /\ \/ Coming' = Coming
              \/ Coming # <<>> /\ Coming' = Tail(Coming)
  <2>1. NoEnd(Coming')
    <3>1. CASE Coming' = Coming
      BY <1>1, <3>1
    <3>2. CASE Coming # <<>> /\ Coming' = Tail(Coming)
      BY <1>1, <3>2
    <3>3. QED
      BY <1>3, <3>1, <3>2
  <2>2. QED
    BY <1>1, <1>3, <2>1 DEF Listening
<1>4. CASE World
  <2>1. CASE \E p \in Path : (\E v \in Part : MkDir(p, v)) \/ RmDir(p)
    <3>1. PICK p \in Path : (\E v \in Part : MkDir(p, v)) \/ RmDir(p)
      BY <2>1
    <3>2. PICK e \in {New(p), Gone(p)} : /\ Room /\ Happens(e)
                                         /\ UNCHANGED <<there, phase>>
      BY <3>1 DEF MkDir, RmDir, daemonVars
    <3>3. e \in Event /\ e # Ended
      BY EventFacts
    <3>4. /\ fd' = fd
          /\ Coming' = Append(Coming, e) \/ Coming' = Coming
      BY <1>1, <3>2, <3>3, HappensStream
    <3>5. NoEnd(Coming')
      BY <1>1, <1>2, <3>3, <3>4
    <3> HIDE DEF NoEnd
    <3>6. QED
      BY <1>1, <3>2, <3>4, <3>5 DEF Listening, NoEnd
  <2>2. CASE ~\E p \in Path : (\E v \in Part : MkDir(p, v)) \/ RmDir(p)
    <3>1. UNCHANGED <<there, phase, eventVars>>
      BY <1>4, <2>2, CalmFacts
      DEF World, LoseDirectory, Unplug, Plug, Mount, Umount, daemonVars
    <3>2. QED
      BY <1>3, <3>1 DEF eventVars, Coming
  <2>3. QED
    BY <2>1, <2>2
<1>5. CASE Daemon
  <2>1. CASE SetUpWatch
    <3>1. /\ fd' = "open" /\ UNCHANGED there /\ phase' = "watching"
          /\ pending' = <<>> /\ batch' = <<>>
      BY <2>1 DEF SetUpWatch, Watch, placeVars
    <3>2. Coming' = <<>>
      BY <3>1 DEF Coming
    <3>3. QED
      BY <1>1, <3>1, <3>2 DEF Listening
  <2>2. CASE OpenDirectory
    <3>1. UNCHANGED <<there, fd, Coming>> /\ phase = "watching" /\ phase' = "scanning"
      BY <2>2 DEF OpenDirectory, placeVars, eventVars, Coming
    <3>2. QED
      BY <1>1, <3>1 DEF Listening
  <2>3. CASE EnterMainLoop
    <3>1. UNCHANGED <<there, fd, Coming>> /\ phase = "scanning" /\ phase' = "running"
      BY <2>3 DEF EnterMainLoop, placeVars, eventVars, Coming
    <3>2. QED
      BY <1>1, <3>1 DEF Listening
  <2>4. CASE Read
    <3>1. UNCHANGED <<there, phase, fd>> /\ FillBuffer
      BY <2>4 DEF Read, placeVars, FillBuffer
    <3>2. QED
      BY <1>1, <1>3, <3>1, FillBufferStream
  <2>5. CASE Dispatch
    <3>1. UNCHANGED there
      BY <2>5 DEF Dispatch, placeVars
    <3>2. CASE HandedLast
      <4>1. Coming # <<>> /\ Head(Coming) = Ended
        BY <1>1, <3>2 DEF HandedLast, Coming, FdTypeOK
      <4>2. QED
        BY <1>1, <4>1
    <3>3. CASE \E p \in Path : Handed(New(p)) \/ Handed(Gone(p))
      <4>1. PICK p \in Path : Handed(New(p)) \/ Handed(Gone(p))
        BY <3>3
      <4>2. PICK e \in {New(p), Gone(p)} : Handed(e)
        BY <4>1
      <4>3. e \in Event
        BY EventFacts
      <4>4. fd' = fd /\ Coming # <<>> /\ Coming' = Tail(Coming)
        BY <1>1, <4>2, <4>3, HandedStream
      <4>5. UNCHANGED phase
        <5>1. ~HandedLast
          BY <4>2, EventFacts DEF Handed, HandedLast
        <5>2. QED
          BY <2>5, <5>1 DEF Dispatch
      <4>6. QED
        BY <1>3, <3>1, <4>4, <4>5
    <3>4. QED
      BY <2>5, <3>2, <3>3 DEF Dispatch
  <2>6. CASE (\E p \in Path : ScanEntry(p)) \/ Look \/ DiskLink \/ VolumeLink \/ Report \/ Drop
    <3>1. UNCHANGED <<there, phase, fd, Coming>>
      BY <2>6 DEF ScanEntry, Look, DiskLink, VolumeLink, Report, Drop,
                  placeVars, eventVars, Coming
    <3>2. QED
      BY <1>3, <3>1
  <2>7. QED
    BY <1>5, <2>1, <2>2, <2>3, <2>4, <2>5, <2>6 DEF Daemon
<1>6. CASE Die \/ StartAgain
  <2>1. ~Die
    BY <1>1, CalmFacts DEF Die
  <2>2. QED
    BY <1>1, <1>6, <2>1 DEF StartAgain
<1>7. CASE UNCHANGED vars
  BY <1>3, <1>7 DEF vars, placeVars, eventVars, Coming
<1>8. QED
  BY <1>4, <1>5, <1>6, <1>7 DEF WatchNext

\* A daemon that looks for a free ID in vain does so for ever.
LEMMA SpinningStep ==
    ASSUME WatchInv, Calm, Listening, [WatchNext]_vars, pc = "spinning"
    PROVE  pc' = "spinning"
<1>1. /\ phase # "stopped" /\ there /\ FdTypeOK
      /\ \A k \in 1..Len(Coming) : Coming[k] # Ended
      /\ job.step # "report"
  BY DEF Listening, WatchInv, WatchTypeOK, JobRight
<1>2. ~HandedLast
  <2>1. SUFFICES ASSUME HandedLast PROVE FALSE
    OBVIOUS
  <2>2. Coming # <<>> /\ Head(Coming) = Ended /\ Coming \in Seq(Event)
    BY <1>1, <2>1, ComingType DEF HandedLast, Coming, FdTypeOK
  <2>3. QED
    BY <1>1, <2>2
<1>3. CASE World
  BY <1>3 DEF World, LoseDirectory, Unplug, Plug, Mount, Umount, MkDir, RmDir,
              daemonVars, coreVars
<1>4. CASE Daemon
  BY <1>1, <1>2, <1>4
  DEF Daemon, SetUpWatch, OpenDirectory, EnterMainLoop, ScanEntry, NewMountpoint,
      Read, Dispatch, MountpointGone, Look, DiskLink, VolumeLink, Report, MountVolume,
      Drop, DropVolume, DropDevice, coreVars
<1>5. CASE Die \/ StartAgain
  BY <1>1, <1>5, CalmFacts DEF Die, StartAgain
<1>6. CASE UNCHANGED vars
  BY <1>6 DEF vars, coreVars
<1>7. QED
  BY <1>3, <1>4, <1>5, <1>6 DEF WatchNext

----------------------------------------------------------------------------
(* The daemon starts, and reads                                            *)

LEMMA SameWanted ==
    ASSUME UNCHANGED <<at, node>>
    PROVE  \A p \in Path : Wanted(p)' <=> Wanted(p)
BY DEF Wanted, Plain

LEMMA QuietReports ==
    ASSUME Reporting, UNCHANGED <<coreVars, mapVars, job, placeVars, Coming>>,
           phase \in {"starting", "watching"} =>
              \/ phase' \in {"starting", "watching"}
              \/ \A p \in Path : at[p] # Free => p \in scan',
           \A p \in scan : p \in scan'
    PROVE  Reporting'
<1>1. UNCHANGED <<at, node, Coming, job>>
  BY DEF placeVars
<1>2. /\ \A l : \A q \in Path : /\ Bound(q, l)' <=> Bound(q, l)
                                /\ Held(q, l)' <=> Held(q, l)
      /\ \A i \in ID : Staying(i)' <=> Staying(i)
      /\ \A name : Known(name)' <=> Known(name)
      /\ \A i \in ID, p \in Path : Good(i, p)' <=> Good(i, p)
      /\ DrivesHeld => DrivesHeld'
      /\ UNCHANGED <<pc, cur, devices, displaced, mapped, shown, catVolumes>>
  BY <1>1, DaemonStill
<1>3. \A p \in Path : Wanted(p)' <=> Wanted(p)
  BY <1>1, SameWanted
<1>4. PlacesBound => PlacesBound'
  BY <1>1, <1>2 DEF PlacesBound
<1>5. ASSUME NEW p \in Path, at[p] # Free, Safe(p), Visited(p), Fit(p)
      PROVE  Safe(p)' /\ Visited(p)' /\ Fit(p)'
  <2>1. Safe(p)'
    BY <1>1, <1>2, <1>5 DEF Safe
  <2>2. Visited(p)'
    BY <1>1, <1>2, <1>3, <1>5 DEF Visited
  <2>3. Fit(p)'
    BY <1>1, <1>2, <1>3, <1>5 DEF Fit
  <2>4. QED
    BY <2>1, <2>2, <2>3
<1>6. QED
  BY <1>1, <1>2, <1>4, <1>5 DEF Reporting

LEMMA StartReports ==
    ASSUME WatchInv, Reporting,
           SetUpWatch \/ OpenDirectory \/ EnterMainLoop \/ Read
    PROVE  Reporting'
<1>1. FdTypeOK
  BY DEF WatchInv, WatchTypeOK
<1>2. CASE SetUpWatch
  <2>1. /\ UNCHANGED <<coreVars, placeVars, mapVars, job, scan>>
        /\ phase' = "watching" /\ Watch
    BY <1>2 DEF SetUpWatch
  <2>2. UNCHANGED Coming
    BY <1>1, <2>1 DEF Watch, FdTypeOK, Coming
  <2>3. QED
    BY <2>1, <2>2, QuietReports
<1>3. CASE OpenDirectory
  <2>1. /\ UNCHANGED <<coreVars, placeVars, mapVars, job>> /\ UNCHANGED Coming
        /\ scan' = {p \in Path : at[p] # Free} /\ phase = "watching"
    BY <1>3 DEF OpenDirectory, eventVars, Coming
  <2>2. scan = {}
    BY <2>1 DEF WatchInv, PhaseRight
  <2>3. QED
    BY <2>1, <2>2, QuietReports
<1>4. CASE EnterMainLoop
  <2>1. /\ UNCHANGED <<coreVars, placeVars, mapVars, job, scan>> /\ UNCHANGED Coming
        /\ phase = "scanning"
    BY <1>4 DEF EnterMainLoop, eventVars, Coming
  <2>2. QED
    BY <2>1, QuietReports
<1>5. CASE Read
  <2>1. UNCHANGED <<coreVars, placeVars, mapVars, job, phase, scan>> /\ FillBuffer
    BY <1>5 DEF Read
  <2>2. UNCHANGED Coming
    BY <1>1, <2>1, FillBufferStream
  <2>3. QED
    BY <2>1, <2>2, QuietReports
<1>6. QED
  BY <1>2, <1>3, <1>4, <1>5

----------------------------------------------------------------------------
(* A directory appears, or is found                                        *)

LEMMA AppearsReports ==
    ASSUME WatchInv, Reporting, NEW p \in Path, NewMountpoint(p),
           UNCHANGED <<placeVars, phase>>, \A q \in scan : q # p => q \in scan',
           \A q \in Path : /\ GoneIn(Coming', q) <=> GoneIn(Coming, q)
                           /\ Renewed(Coming, q) => \/ Renewed(Coming', q)
                                                    \/ q = p /\ ~GoneIn(Coming', p),
           \A q, r \in Path : GoneBeforeNew(Coming, r, q) => GoneBeforeNew(Coming', r, q)
    PROVE  Reporting'
<1>1. /\ job.step = "none" /\ pc = "idle" /\ job = NoJob
      /\ UNCHANGED <<at, node, faults, coreVars, mapVars>>
      /\ job' = [NoJob EXCEPT !.step = "look", !.path = p]
  BY DEF NewMountpoint, WatchInv, JobRight, placeVars
<1>2. /\ job'.step = "look" /\ job'.path = p /\ job'.first = NoLink
      /\ \A q \in Path : job.path # q
  BY <1>1, JobFacts DEF NoJob
<1>3. UNCHANGED <<pc, cur, todo, devices, displaced, mapped, shown, catVolumes>>
  BY <1>1 DEF coreVars, mapVars
<1>4. /\ \A q \in Path, l \in Link : Bound(q, l)' <=> Bound(q, l)
      /\ \A l : \A q \in Path : Held(q, l)' <=> Held(q, l)
  BY <1>1, <1>2, <1>3, JobFacts DEF Bound, Held
<1>5. /\ \A i \in ID : Staying(i)' <=> Staying(i)
      /\ \A name : Known(name)' <=> Known(name)
  BY <1>3 DEF Staying, Known, Registered
<1>6. \A i \in ID, q \in Path : Good(i, q)' <=> Good(i, q)
  BY <1>1, <1>2, <1>3 DEF Good
<1>7. \A q \in Path : Wanted(q)' <=> Wanted(q)
  BY <1>1, SameWanted
<1>8. DrivesHeld'
  BY <1>3, <1>4, <1>5 DEF DrivesHeld, Reporting
<1>9. PlacesBound'
  BY <1>1, <1>2, <1>4 DEF PlacesBound, Reporting
<1>10. ASSUME NEW q \in Path, at[q] # Free
       PROVE  Safe(q)' /\ Visited(q)' /\ Fit(q)'
  <2> DEFINE l == FirstLink(at[q].part)
  <2>1. l \in Link /\ Safe(q) /\ Visited(q) /\ Fit(q)
    BY <1>10, TakenPlace DEF Reporting
  <2>2. Safe(q)'
    BY <1>1, <1>3, <1>4, <2>1 DEF Safe
  <2>3. Visited(q)'
    <3>1. CASE q = p
      BY <1>2, <3>1 DEF Visited
    <3>2. CASE q # p
      BY <1>1, <1>2, <1>3, <1>5, <1>7, <2>1, <3>2 DEF Visited
    <3>3. QED
      BY <3>1, <3>2
  <2> HIDE DEF l
  <2>4. Fit(q)'
    BY <1>1, <1>2, <1>3, <1>4, <1>5, <1>6, <1>7, <2>1, FitKept DEF l
  <2>5. QED
    BY <2>2, <2>3, <2>4
<1>11. QED
  BY <1>1, <1>8, <1>9, <1>10 DEF Reporting

LEMMA ScanEntryReports ==
    ASSUME WatchInv, Reporting, NEW p \in Path, ScanEntry(p)
    PROVE  Reporting'
<1>1. /\ NewMountpoint(p) /\ UNCHANGED <<placeVars, phase>> /\ UNCHANGED Coming
      /\ \A q \in scan : q # p => q \in scan'
  BY DEF ScanEntry, eventVars, Coming
<1>2. QED
  BY <1>1, AppearsReports

LEMMA HandedNewReports ==
    ASSUME WatchInv, Reporting, NEW p \in Path,
           Handed(New(p)), NewMountpoint(p), UNCHANGED <<placeVars, scan, phase>>
    PROVE  Reporting'
<1>1. /\ New(p) \in Event /\ FdTypeOK
      /\ \A q \in Path : /\ New(p) # Gone(q)
                         /\ New(p) = New(q) => q = p
  BY EventFacts DEF WatchInv, WatchTypeOK
<1>2. /\ Coming \in Seq(Event) /\ Coming # <<>>
      /\ Head(Coming) = New(p) /\ Coming' = Tail(Coming)
  BY <1>1, ComingType, HandedStream
<1>3. ASSUME NEW q \in Path
      PROVE  /\ GoneIn(Coming', q) <=> GoneIn(Coming, q)
             /\ Renewed(Coming, q) => \/ Renewed(Coming', q)
                                      \/ q = p /\ ~GoneIn(Coming', p)
             /\ \A r \in Path : GoneBeforeNew(Coming, r, q) => GoneBeforeNew(Coming', r, q)
  <2> DEFINE less == Tail(Coming)
  <2>1. /\ GoneIn(less, q) => GoneIn(Coming, q)
        /\ GoneIn(Coming, q) => GoneIn(less, q) \/ Head(Coming) = Gone(q)
        /\ Renewed(Coming, q) => \/ Renewed(less, q)
                                 \/ Head(Coming) = New(q) /\ ~GoneIn(less, q)
        /\ \A r : GoneBeforeNew(Coming, r, q) /\ Head(Coming) # Gone(r)
              => GoneBeforeNew(less, r, q)
    BY <1>2, TailComing
  <2> HIDE DEF less
  <2>2. Coming' = less
    BY <1>2 DEF less
  <2>3. QED
    BY <1>1, <1>2, <2>1, <2>2
<1>4. QED
  BY <1>3, AppearsReports

----------------------------------------------------------------------------
(* The daemon looks what is there                                          *)

\* Whatever it sees, it has been there; and what it takes for the links of the
\* volume are these.
LEMMA LookReports ==
    ASSUME WatchInv, Calm, Reporting, Look, pc # "spinning"
    PROVE  Reporting'
<1> DEFINE p == job.path
<1>1. /\ job.step = "look" /\ job.first = NoLink /\ p \in Path /\ pc = "idle"
      /\ at[p].stage # "made"
      /\ UNCHANGED <<coreVars, mapVars, phase, scan, at, node, faults>>
      /\ UNCHANGED Coming
  BY CalmFacts DEF Look, WatchInv, JobRight, placeVars, eventVars, Coming
<1>2. \/ /\ LinksFound(at[p]) /\ at[p].stage = "mounted"
         /\ job' = [job EXCEPT !.step = "disk", !.first = FirstLink(at[p].part),
                               !.second = SecondLink(at[p].part)]
      \/ job' = NoJob /\ ~Wanted(p)
  <2>1. CASE LinksFound(at[p])
    BY <2>1 DEF LinksFound
  <2>2. CASE NoLinks(at[p])
    BY <1>1, <2>2, CalmFacts DEF NoLinks, Wanted
  <2>3. QED
    BY <2>1, <2>2 DEF Look
<1>3. \/ /\ at[p].stage = "mounted" /\ job'.step = "disk" /\ job'.path = p
         /\ job'.first = FirstLink(at[p].part) /\ job'.second = SecondLink(at[p].part)
      \/ /\ ~Wanted(p) /\ job'.step = "none" /\ \A q \in Path : job'.path # q
  <2>1. job \in Jobs
    BY DEF WatchInv, WatchTypeOK
  <2>2. QED
    BY <1>2, <2>1, JobFacts DEF Jobs
<1>4. UNCHANGED <<pc, cur, todo, devices, displaced, mapped, shown, catVolumes>>
  BY <1>1 DEF coreVars, mapVars
<1>5. /\ \A q \in Path, l \in Link : Bound(q, l) => Bound(q, l)'
      /\ \A l : \A q \in Path : Held(q, l)' <=> Held(q, l)
      /\ \A q \in Path, l \in Link : Bound(q, l)' =>
            Bound(q, l) \/ (q = p /\ at[p].stage = "mounted" /\ l = FirstLink(at[p].part))
  BY <1>1, <1>3, <1>4, JobFacts DEF Bound, Held
<1>6. /\ \A i \in ID : Staying(i)' <=> Staying(i)
      /\ \A name : Known(name)' <=> Known(name)
  BY <1>4 DEF Staying, Known, Registered
<1>7. \A i \in ID, q \in Path : Good(i, q)' <=> Good(i, q)
  BY <1>1, <1>3, <1>4 DEF Good
<1>8. \A q \in Path : Wanted(q)' <=> Wanted(q)
  BY <1>1, SameWanted
<1>9. DrivesHeld'
  BY <1>4, <1>5, <1>6 DEF DrivesHeld, Reporting
<1>10. PlacesBound'
  <2>1. ASSUME NEW q \in Path, ~GoneIn(Coming, q)
        PROVE  /\ \A l \in Link : Bound(q, l)' =>
                     at[q].stage \in {"mounted", "left"} /\ l = FirstLink(at[q].part)
               /\ job'.path = q /\ job'.step \in {"disk", "volume", "report"} =>
                     job'.second = SecondLink(at[q].part)
    BY <1>3, <1>5, <2>1 DEF PlacesBound, Reporting
  <2>2. QED
    BY <1>1, <2>1 DEF PlacesBound
<1>11. ASSUME NEW q \in Path, at[q] # Free
       PROVE  Safe(q)' /\ Visited(q)' /\ Fit(q)'
  <2> DEFINE l == FirstLink(at[q].part)
  <2>1. /\ l \in Link /\ Safe(q) /\ Visited(q) /\ Fit(q)
        /\ at[q].part \in Part
    BY <1>11, TakenPlace DEF Reporting
  <2>2. ASSUME NEW r \in Path \ {q}, Bound(r, l)'
        PROVE  Bound(r, l)
    <3>1. SUFFICES ASSUME r = p, at[p].stage = "mounted", l = FirstLink(at[p].part)
          PROVE  FALSE
      BY <1>1, <1>5, <2>1, <2>2
    <3>2. at[p] # Free /\ at[p].part \in Part
      BY <1>1, <3>1, TakenPlace DEF Free
    <3>3. at[p].part[1] = at[q].part[1]
      BY <2>1, <3>1, <3>2, SameLink
    <3>4. QED
      BY <1>1, <2>1, <2>2, <3>1, <3>2, <3>3 DEF Safe
  <2>3. Safe(q)'
    BY <1>1, <1>4, <2>1, <2>2 DEF Safe
  <2>4. Visited(q)'
    <3>1. CASE q = p
      BY <1>1, <1>3, <1>8, <3>1 DEF Visited
    <3>2. CASE q # p
      BY <1>1, <1>4, <1>6, <1>8, <2>1, <3>2 DEF Visited
    <3>3. QED
      BY <3>1, <3>2
  <2> HIDE DEF l, p
  <2>5. Fit(q)'
    BY <1>1, <1>3, <1>4, <1>5, <1>6, <1>7, <1>8, <2>1, FitKept DEF l
  <2>6. QED
    BY <2>3, <2>4, <2>5
<1>12. QED
  BY <1>1, <1>9, <1>10, <1>11 DEF Reporting

----------------------------------------------------------------------------
(* A directory has gone                                                    *)

\* The device that goes with it is the one the map leads to.
LEMMA GoneDrops ==
    ASSUME WatchInv, NEW p \in Path, MountpointGone(p)
    PROVE  /\ UNCHANGED <<devices, shown, displaced, job>>
           /\ job.step = "none" /\ \A q \in Path : job.path # q
           /\ pc = "idle"
           /\ mapped'[p] = NoLink
           /\ \A q \in Path : q # p => mapped'[q] = mapped[q]
           /\ \/ pc' = "drop" /\ cur' \in ID /\ Registered(cur')
                 /\ mapped[p] = <<devices[cur'].link, 0>>
              \/ pc' = "idle" /\ \A i \in ID, d \in Drive :
                    Registered(i) /\ devices[i].link = RootOf[d] => mapped[p] # <<RootOf[d], 0>>
<1>1. /\ job.step = "none" /\ pc = "idle"
      /\ \/ mapped[p] = NoLink /\ UNCHANGED coreVars
         \/ mapped[p] # NoLink /\ HandleRemovedDevice(mapped[p])
      /\ mapped' = [mapped EXCEPT ![p] = NoLink]
      /\ UNCHANGED <<shown, displaced, job>>
  BY DEF MountpointGone
<1>2. /\ CoreTypeOK /\ AdoptedRight /\ MapRight
      /\ mapped \in [Path -> Link \cup {NoLink}] /\ job = NoJob
  BY <1>1 DEF WatchInv, WatchTypeOK, JobRight
<1>3. /\ UNCHANGED devices
      /\ \/ pc' = "drop" /\ cur' \in ID /\ Registered(cur')
            /\ mapped[p] = <<devices[cur'].link, 0>>
         \/ pc' = "idle" /\ \A i \in ID, d \in Drive :
               Registered(i) /\ devices[i].link = RootOf[d] => mapped[p] # <<RootOf[d], 0>>
  <2>1. CASE mapped[p] = NoLink /\ UNCHANGED coreVars
    <3>1. \A d \in Drive : <<RootOf[d], 0>> # NoLink
      BY JobFacts, WatchAssumption
    <3>2. QED
      BY <1>1, <2>1, <3>1 DEF coreVars
  <2>2. CASE mapped[p] # NoLink /\ HandleRemovedDevice(mapped[p])
    <3>1. mapped[p] \in Link
      BY <1>2, <2>2
    <3>2. PICK r \in Drive : mapped[p] = <<RootOf[r], 0>>
      BY <1>2, <2>2 DEF MapRight
    <3>3. mapped[p][1] = RootOf[r] /\ mapped[p][2] = 0
      BY <3>2
    <3>4. /\ UNCHANGED devices
          /\ \/ UNCHANGED pc /\ (mapped[p][2] > 0 \/ ~Known(mapped[p][1]))
             \/ \E i \in ID : /\ Registered(i) /\ devices[i].link = mapped[p][1]
                              /\ pc' = "drop" /\ cur' = i
      BY <1>2, <2>2, <3>1, HandleRemovedDeviceDoes
    <3>5. CASE UNCHANGED pc /\ ~Known(mapped[p][1])
      <4>1. \A i \in ID : Registered(i) => devices[i].link # RootOf[r]
        BY <3>3, <3>5 DEF Known
      <4>2. \A d \in Drive : mapped[p] = <<RootOf[d], 0>> => RootOf[d] = RootOf[r]
        BY <3>2
      <4>3. QED
        BY <1>1, <3>4, <3>5, <4>1, <4>2
    <3>6. CASE \E i \in ID : /\ Registered(i) /\ devices[i].link = mapped[p][1]
                             /\ pc' = "drop" /\ cur' = i
      BY <3>2, <3>3, <3>4, <3>6
    <3>7. QED
      BY <3>3, <3>4, <3>5, <3>6
  <2>3. QED
    BY <1>1, <2>1, <2>2
<1>4. QED
  BY <1>1, <1>2, <1>3, JobFacts

LEMMA HandedGoneReports ==
    ASSUME WatchInv, Reporting, NEW p \in Path, phase = "running",
           Handed(Gone(p)), MountpointGone(p), UNCHANGED <<placeVars, scan, phase>>
    PROVE  Reporting'
<1>1. /\ UNCHANGED <<devices, shown, displaced, job>>
      /\ job.step = "none" /\ \A q \in Path : job.path # q
      /\ pc = "idle"
      /\ mapped'[p] = NoLink
      /\ \A q \in Path : q # p => mapped'[q] = mapped[q]
      /\ \/ pc' = "drop" /\ cur' \in ID /\ Registered(cur')
            /\ mapped[p] = <<devices[cur'].link, 0>>
         \/ pc' = "idle" /\ \A i \in ID, d \in Drive :
               Registered(i) /\ devices[i].link = RootOf[d] => mapped[p] # <<RootOf[d], 0>>
  BY GoneDrops
<1>2. /\ UNCHANGED <<at, node, faults, scan, phase>> /\ scan = {}
      /\ UniqueLinks
  BY DEF placeVars, WatchInv, PhaseRight
<1>3. /\ Gone(p) \in Event /\ FdTypeOK
      /\ \A q \in Path : /\ Gone(p) # New(q)
                         /\ Gone(p) = Gone(q) <=> q = p
  BY EventFacts DEF WatchInv, WatchTypeOK
<1>4. /\ Coming \in Seq(Event) /\ Coming # <<>> /\ Coming' \in Seq(Event)
      /\ Head(Coming) = Gone(p) /\ Coming' = Tail(Coming)
  BY <1>3, ComingType, HandedStream
<1>5. ASSUME NEW q \in Path
      PROVE  /\ GoneIn(Coming', q) => GoneIn(Coming, q)
             /\ q # p /\ GoneIn(Coming, q) => GoneIn(Coming', q)
             /\ Renewed(Coming, q) => Renewed(Coming', q)
             /\ \A r \in Path : GoneBeforeNew(Coming, r, q) =>
                   /\ NewIn(Coming', q)
                   /\ r # p => GoneBeforeNew(Coming', r, q)
  <2> DEFINE less == Tail(Coming)
  <2>1. /\ GoneIn(less, q) => GoneIn(Coming, q)
        /\ GoneIn(Coming, q) => GoneIn(less, q) \/ Head(Coming) = Gone(q)
        /\ Renewed(Coming, q) => \/ Renewed(less, q)
                                 \/ Head(Coming) = New(q) /\ ~GoneIn(less, q)
        /\ \A r : GoneBeforeNew(Coming, r, q) =>
              /\ NewIn(less, q)
              /\ Head(Coming) # Gone(r) => GoneBeforeNew(less, r, q)
    BY <1>4, TailComing
  <2> HIDE DEF less
  <2>2. Coming' = less
    BY <1>4 DEF less
  <2>3. QED
    BY <1>3, <1>4, <2>1, <2>2
<1>6. GoneIn(Coming, p)
  BY <1>4 DEF GoneIn
<1>7. /\ \A q \in Path, l \in Link :
            Bound(q, l)' <=> q # p /\ mapped[q] = l
      /\ \A q \in Path, l \in Link : Bound(q, l) <=> mapped[q] = l
      /\ \A l : \A q \in Path : Held(q, l) <=> mapped[q] = l
      /\ \A l : \A q \in Path : q # p /\ mapped[q] = l => Held(q, l)'
  BY <1>1, JobFacts DEF Bound, Held
<1>8. /\ \A i \in ID : Staying(i)' <=> Registered(i) /\ ~(pc' = "drop" /\ cur' = i)
      /\ \A i \in ID : Staying(i) <=> Registered(i)
  BY <1>1 DEF Staying, Registered
<1>9. ASSUME NEW d \in Drive, mapped[p] = <<RootOf[d], 0>>, NEW i \in ID,
             Registered(i), devices[i].link = RootOf[d]
      PROVE  ~Staying(i)'
  <2>1. /\ pc' = "drop" /\ cur' \in ID /\ Registered(cur')
        /\ mapped[p] = <<devices[cur'].link, 0>>
    BY <1>1, <1>9
  <2>2. devices[cur'].link = devices[i].link
    BY <1>9, <2>1
  <2>3. cur' = i
    BY <1>2, <1>9, <2>1, <2>2 DEF UniqueLinks
  <2>4. QED
    BY <1>8, <2>1, <2>3
<1>10. DrivesHeld'
  <2>1. SUFFICES ASSUME NEW d \in Drive, Plain(d), NEW i \in ID, Staying(i)',
                        devices[i].link = RootOf[d], <<RootOf[d], 0>> \notin displaced
        PROVE  \E q \in Path : Held(q, <<RootOf[d], 0>>)'
    BY <1>1 DEF DrivesHeld, Plain
  <2>2. PICK q \in Path : mapped[q] = <<RootOf[d], 0>>
    BY <1>7, <1>8, <2>1 DEF DrivesHeld, Reporting
  <2>3. q # p
    BY <1>8, <1>9, <2>1, <2>2
  <2>4. QED
    BY <1>7, <2>2, <2>3
<1>11. PlacesBound'
  <2>1. ASSUME NEW q \in Path, ~GoneIn(Coming', q), NEW l \in Link, Bound(q, l)'
        PROVE  at[q].stage \in {"mounted", "left"} /\ l = FirstLink(at[q].part)
    BY <1>5, <1>7, <2>1 DEF PlacesBound, Reporting
  <2>2. QED
    BY <1>1, <1>2, <2>1 DEF PlacesBound
<1>12. ASSUME NEW q \in Path, at[q] # Free
       PROVE  Safe(q)' /\ Visited(q)' /\ Fit(q)'
  <2> DEFINE l == FirstLink(at[q].part)
             d == at[q].part[1]
  <2>1. /\ l \in Link /\ Safe(q) /\ Visited(q) /\ Fit(q)
        /\ d \in Drive /\ l = <<RootOf[d], 0>> /\ l[1] = RootOf[d]
    BY <1>12, TakenPlace DEF Reporting
  <2>2. GoneIn(Coming', q) => Renewed(Coming', q)
    BY <1>5, <2>1 DEF Safe
  <2>3. pc' = "drop" /\ devices[cur'].link = l[1] => Renewed(Coming', q)
    <3>1. SUFFICES ASSUME mapped[p] = l PROVE Renewed(Coming', q)
      BY <1>1, <2>1
    <3>2. CASE p = q
      BY <1>5, <1>6, <2>1, <3>2 DEF Safe
    <3>3. CASE p # q
      <4>1. Bound(p, l)
        BY <1>7, <2>1, <3>1
      <4>2. GoneBeforeNew(Coming, p, q)
        BY <2>1, <3>3, <4>1 DEF Safe
      <4>3. NewIn(Coming', q)
        BY <1>5, <4>2
      <4>4. QED
        BY <1>4, <2>2, <4>3, NewLast
    <3>4. QED
      BY <3>2, <3>3
  <2>4. Safe(q)'
    <3>1. \A r \in Path \ {q} : Bound(r, l)' => GoneBeforeNew(Coming', r, q)
      BY <1>2, <1>5, <1>7, <2>1 DEF Safe
    <3>2. QED
      BY <1>1, <1>2, <2>1, <2>2, <2>3, <3>1 DEF Safe
  <2>5. Wanted(q)' <=> Wanted(q)
    BY <1>2, SameWanted
  <2>6. Visited(q)'
    <3>1. CASE Renewed(Coming, q)
      BY <1>5, <3>1 DEF Visited
    <3>2. CASE ~Renewed(Coming, q)
      <4>1. /\ at[q].stage # "made"
            /\ Wanted(q) => \/ l \in displaced
                            \/ \E i \in ID : Staying(i) /\ devices[i].link = l[1]
        BY <1>1, <1>2, <2>1, <3>2 DEF Visited
      <4>2. ASSUME NEW i \in ID, Staying(i), devices[i].link = l[1]
            PROVE  Renewed(Coming', q) \/ Staying(i)'
        BY <1>1, <1>8, <2>3, <4>2
      <4>3. QED
        BY <1>1, <1>2, <2>5, <4>1, <4>2 DEF Visited
    <3>3. QED
      BY <3>1, <3>2
  <2>7. Fit(q)'
    <3>1. SUFFICES ASSUME Wanted(q), ~GoneIn(Coming', q), l \notin displaced,
                          \A r \in Path \ {q} : ~Bound(r, l)',
                          NEW i \in ID, Staying(i)', devices[i].link = l[1]
          PROVE  Good(i, q)
      <4>1. \A i \in ID : Good(i, q)' <=> Good(i, q)
        BY <1>1, <1>2 DEF Good
      <4>2. QED
        BY <1>1, <1>2, <2>5, <4>1 DEF Fit
    <3>2. mapped[p] # l
      BY <1>8, <1>9, <2>1, <3>1
    <3>3. CASE q = p
      <4>1. Plain(d)
        BY <3>1 DEF Wanted
      <4>2. PICK r \in Path : mapped[r] = l
        BY <1>7, <1>8, <2>1, <3>1, <4>1 DEF DrivesHeld, Reporting
      <4>3. QED
        BY <1>2, <1>7, <2>1, <3>1, <3>2, <3>3, <4>2
    <3>4. CASE q # p
      <4>1. ~GoneIn(Coming, q)
        BY <1>5, <3>1, <3>4
      <4>2. \A r \in Path \ {q} : ~Bound(r, l)
        BY <1>2, <1>7, <2>1, <3>1, <3>2
      <4>3. QED
        BY <1>8, <2>1, <3>1, <4>1, <4>2 DEF Fit
    <3>5. QED
      BY <3>3, <3>4
  <2>8. QED
    BY <2>4, <2>6, <2>7
<1>13. QED
  BY <1>2, <1>10, <1>11, <1>12 DEF Reporting

LEMMA DispatchReports ==
    ASSUME WatchInv, Calm, Listening, Reporting, Dispatch
    PROVE  Reporting'
<1>1. ~HandedLast
  <2>1. SUFFICES ASSUME HandedLast PROVE FALSE
    OBVIOUS
  <2>2. Coming # <<>> /\ Head(Coming) = Ended /\ Coming \in Seq(Event)
    BY <2>1, ComingType DEF HandedLast, Coming, FdTypeOK, WatchInv, WatchTypeOK
  <2>3. QED
    BY <2>2 DEF Listening
<1>2. /\ phase = "running" /\ UNCHANGED <<placeVars, scan, phase>>
      /\ \E p \in Path : \/ Handed(New(p)) /\ NewMountpoint(p)
                         \/ Handed(Gone(p)) /\ MountpointGone(p)
  BY <1>1 DEF Dispatch
<1>3. QED
  BY <1>2, HandedNewReports, HandedGoneReports

----------------------------------------------------------------------------
(* What the links of a volume lead to                                      *)

LEMMA AddedVolume ==
    ASSUME NEW d \in Device, NEW k \in Index, NEW stem \in Stem
    PROVE  AddVolume(d, k, stem).vol[k] = [state |-> "PENDING", stem |-> stem]
BY DEF AddVolume, Device

LEMMA WholeIndex == Whole \in Index /\ \A n \in Nat : n # Whole
BY DEF Index, Whole

LEMMA PartIndex ==
    ASSUME NEW v \in Part
    PROVE  /\ IndexOf(v) \in Index
           /\ IndexOf(v) = Whole <=> v[2] = 0
           /\ v[2] # 0 => IndexOf(v) = v[2]
<1>1. v[2] \in Nat /\ Whole \in Index /\ v[2] # Whole
  BY LinkFacts, WholeIndex
<1>2. CASE v[2] = 0
  BY <1>1, <1>2 DEF IndexOf
<1>3. CASE v[2] # 0
  <2>1. SecondLink(v) \in Link /\ SecondLink(v)[2] = v[2]
    BY <1>3, LinkFacts
  <2>2. v[2] \in Index
    BY <1>3, <2>1 DEF Index
  <2>3. QED
    BY <1>1, <1>3, <2>2 DEF IndexOf
<1>4. QED
  BY <1>2, <1>3

\* A tool that is not faulty tells the truth.
LEMMA CalmAnswer ==
    ASSUME Calm, NEW l, NEW o \in Answer(l)
    PROVE  /\ o \in Outcome(Resolve(l))
           /\ Resolve(l) # NoStem =>
                /\ o.info <=> \/ l[2] > 0
                              \/ \E v \in Part : v[2] = 0 /\ RootOf[v[1]] = l[1]
                /\ o.probe
<1>1. "info" \notin faults /\ "probe" \notin faults
  BY CalmFacts
<1>2. o \in Outcome(Resolve(l))
  BY DEF Answer
<1>3. ASSUME Resolve(l) # NoStem
      PROVE  /\ o.info = (l[2] > 0 \/ \E v \in Part : v[2] = 0 /\ RootOf[v[1]] = l[1])
             /\ o.probe = TRUE
  BY <1>1, <1>3 DEF Answer, Truly
<1>4. QED
  BY <1>2, <1>3

\* The links of a drive that is wanted resolve to the node it is mounted from.
LEMMA WantedResolves ==
    ASSUME WatchInv, NEW p \in Path, Wanted(p), NEW l,
           l \in {FirstLink(at[p].part), SecondLink(at[p].part)}
    PROVE  /\ Resolve(l) = at[p].stem /\ at[p].stem \in Stem /\ at[p].stem # NoStem
           /\ Number(l, at[p].stem) = l[2]
           /\ l[1] = RootOf[at[p].part[1]]
           /\ RootOf[at[p].part[1]] \in Disk
<1> DEFINE w == at[p].part
<1>1. /\ w \in Part /\ w[1] \in Drive /\ at[p].stem \in Stem /\ at[p].stem # NoStem
  BY WantedTaken, TakenPlace
<1>2. /\ Plain(w[1]) /\ node[w[1]] = at[p].stem /\ NodeNumber[at[p].stem] = 0
  BY DEF Wanted
<1>3. PartOf[w[1]] = RootOf[w[1]]
  BY <1>2 DEF Plain
<1>4. /\ l[1] = RootOf[w[1]] /\ l[2] \in Nat /\ RootOf[w[1]] \in Disk
  BY <1>1, <1>3, LinkFacts
<1>5. Resolve(l) = node[w[1]]
  BY <1>1, <1>4, ResolveDrive
<1>6. Number(l, at[p].stem) = l[2]
  BY <1>1, <1>2, <1>4 DEF Number
<1>7. QED
  BY <1>1, <1>2, <1>4, <1>5, <1>6

LEMMA EntryKeeps ==
    ASSUME WatchInv, NEW v \in Part, NEW l \in {FirstLink(v), SecondLink(v)},
           NEW stem \in Stem \cup {NoStem}, NEW o \in Outcome(stem),
           NEW i \in ID, EntryIn(i, l, stem)
    PROVE  LET name == IF Number(l, stem) = 0 THEN l[1] ELSE RootName(l)
               dev == Entry(i, l, stem, o).dev IN
           /\ name \in {l[1], Unnamed} /\ dev.link = name /\ dev \in Device
           /\ ~Registered(i) => ~Known(name)
           /\ Registered(i) => devices[i].link = name
           /\ \A k \in Index : devices[i].vol[k] # NoVolume
                                => dev.vol[k] = devices[i].vol[k]
<1> DEFINE n == Number(l, stem)
           name == IF n = 0 THEN l[1] ELSE RootName(l)
           d == IF Registered(i) THEN devices[i] ELSE NewDevice(name)
           index == IF n = 0 THEN Whole ELSE n
           probed == IF n = 0 THEN Probe(d, o.probe) ELSE d
           wanted == o.info /\ (n = 0 => ~Registered(i))
           dev == Entry(i, l, stem, o).dev
<1>1. /\ d \in Device /\ d.link = name
      /\ n \in Nat /\ (n > 0 /\ stem # NoStem => n \in Index)
      /\ ~Registered(i) => ~Known(name)
      /\ Registered(i) => devices[i].link = name
      /\ \A k \in Index : d.vol[k] = devices[i].vol[k]
  BY DeviceFound
<1>2. o.probe \in BOOLEAN /\ o.info \in BOOLEAN /\ (o.info => stem \in Stem /\ stem # NoStem)
  BY SentinelAssumption DEF Outcome
<1>3. wanted => index \in Index /\ stem \in Stem
  BY <1>1, <1>2, WholeIndex
<1>4. dev = IF wanted /\ d.vol[index] = NoVolume
            THEN AddVolume(probed, index, stem) ELSE probed
  BY DEF Entry
<1>5. name \in {l[1], Unnamed}
  BY DEF RootName
<1>6. probed \in Device /\ probed.link = d.link /\ probed.vol = d.vol
  <2>1. CASE n = 0
    BY <1>1, <1>2, <2>1, ProbeType
  <2>2. CASE n # 0
    BY <1>1, <2>2
  <2>3. QED
    BY <2>1, <2>2
<1> HIDE DEF dev, probed, index, wanted, name, d, n
<1>7. /\ dev \in Device /\ dev.link = d.link
      /\ \A k \in Index : d.vol[k] # NoVolume => dev.vol[k] = d.vol[k]
  <2>1. CASE wanted /\ d.vol[index] = NoVolume
    BY <1>3, <1>4, <1>6, <2>1, AddVolumeType
  <2>2. CASE ~(wanted /\ d.vol[index] = NoVolume)
    BY <1>4, <1>6, <2>2
  <2>3. QED
    BY <2>1, <2>2
<1>8. /\ name \in {l[1], Unnamed} /\ dev.link = name /\ dev \in Device
      /\ ~Registered(i) => ~Known(name)
      /\ Registered(i) => devices[i].link = name
      /\ \A k \in Index : devices[i].vol[k] # NoVolume => dev.vol[k] = devices[i].vol[k]
  BY <1>1, <1>5, <1>7
<1>9. QED
  BY <1>8 DEF dev, name, n

\* A drive seen for the first time.
LEMMA EntryNew ==
    ASSUME WatchInv, NEW v \in Part, NEW l \in {FirstLink(v), SecondLink(v)},
           NEW stem \in Stem \cup {NoStem}, NEW o \in Outcome(stem),
           NEW i \in ID, EntryIn(i, l, stem), Number(l, stem) = 0, ~Registered(i)
    PROVE  LET dev == Entry(i, l, stem, o).dev IN
           /\ o.probe => dev.state = "PROBED"
           /\ o.info => dev.vol[Whole] = [state |-> "PENDING", stem |-> stem]
           /\ \A k \in Index : k # Whole => dev.vol[k] = NoVolume
<1> DEFINE d == NewDevice(l[1])
           probed == Probe(d, o.probe)
           dev == Entry(i, l, stem, o).dev
<1>1. l[1] \in Disk
  BY LinkFacts, NumberType
<1>2. /\ d \in Device /\ d.state = "SYNTHETIC" /\ \A k \in Index : d.vol[k] = NoVolume
  BY <1>1, NewDeviceType
<1>3. o.probe \in BOOLEAN /\ o.info \in BOOLEAN /\ (o.info => stem \in Stem)
  BY DEF Outcome
<1>4. dev = IF o.info /\ d.vol[Whole] = NoVolume
            THEN AddVolume(probed, Whole, stem) ELSE probed
  BY DEF Entry
<1>5. /\ probed \in Device /\ probed.vol = d.vol /\ (o.probe => probed.state = "PROBED")
  BY <1>2, <1>3, ProbeType
<1> HIDE DEF d, probed, dev
<1>6. CASE o.info
  BY <1>2, <1>3, <1>4, <1>5, <1>6, AddVolumeType, AddedVolume, WholeIndex DEF dev
<1>7. CASE ~o.info
  BY <1>2, <1>4, <1>5, <1>7 DEF dev
<1>8. QED
  BY <1>6, <1>7

\* A probed drive, with what may be on it.
LEMMA EntryOld ==
    ASSUME WatchInv, NEW v \in Part, NEW l \in {FirstLink(v), SecondLink(v)},
           NEW stem \in Stem, stem # NoStem, NEW o \in Outcome(stem),
           NEW i \in ID, EntryIn(i, l, stem), Registered(i), devices[i].state = "PROBED"
    PROVE  LET n == Number(l, stem)
               e == Entry(i, l, stem, o) IN
           /\ e.dev.state = "PROBED"
           /\ n = 0 /\ devices[i].vol[Whole] = [state |-> "PENDING", stem |-> stem] =>
                /\ e.dev.vol = devices[i].vol /\ e.vol = Whole
           /\ n > 0 /\ o.info /\ devices[i].vol[n] = NoVolume =>
                /\ e.dev.vol[n] = [state |-> "PENDING", stem |-> stem]
                /\ e.vol = n /\ n \in Index
<1> DEFINE n == Number(l, stem)
           d == devices[i]
           index == IF n = 0 THEN Whole ELSE n
           e == Entry(i, l, stem, o)
<1>1. /\ d \in Device /\ d.state = "PROBED"
      /\ n \in Nat /\ (n > 0 => n \in Index)
  BY DeviceFound
<1>2. o.probe \in BOOLEAN /\ o.info \in BOOLEAN
  BY DEF Outcome
<1>3. Probe(d, o.probe) = d
  BY <1>1 DEF Probe
<1>4. e = IF o.info /\ n # 0 /\ d.vol[index] = NoVolume
          THEN [dev |-> AddVolume(d, index, stem), vol |-> index]
          ELSE [dev |-> d,
                vol |-> IF (o.info /\ n # 0) \/ n = 0 THEN LookupVolume(d, index, stem)
                                                    ELSE NoIndex]
  BY <1>1, <1>3 DEF Entry
<1> HIDE DEF e, d
<1>5. CASE n = 0
  <2>1. e.dev = d /\ e.vol = LookupVolume(d, Whole, stem)
    BY <1>4, <1>5
  <2>2. ASSUME d.vol[Whole] = [state |-> "PENDING", stem |-> stem]
        PROVE  e.vol = Whole
    BY <2>1, <2>2, SentinelFacts DEF LookupVolume, HasVolume
  <2>3. QED
    BY <1>1, <1>5, <2>1, <2>2 DEF e, d
<1>6. CASE n > 0
  <2>1. index = n /\ n \in Index
    BY <1>1, <1>6
  <2>2. CASE o.info /\ d.vol[n] = NoVolume
    <3>1. e.dev = AddVolume(d, n, stem) /\ e.vol = n
      BY <1>1, <1>4, <1>6, <2>1, <2>2
    <3>2. /\ AddVolume(d, n, stem).state = d.state
          /\ AddVolume(d, n, stem).vol[n] = [state |-> "PENDING", stem |-> stem]
      BY <1>1, <2>1, AddVolumeType, AddedVolume
    <3>3. QED
      BY <1>1, <1>6, <2>1, <3>1, <3>2 DEF e, d
  <2>3. CASE ~(o.info /\ d.vol[n] = NoVolume)
    <3>1. e.dev = d
      BY <1>1, <1>4, <1>6, <2>1, <2>3
    <3>2. QED
      BY <1>1, <1>6, <2>3, <3>1 DEF e, d
  <2>4. QED
    BY <2>2, <2>3
<1>7. QED
  BY <1>1, <1>5, <1>6

\* The links the daemon works on, and where they lead.
LEMMA JobLinks ==
    ASSUME WatchInv, job.step \in {"disk", "volume"}, pc # "spinning"
    PROVE  /\ job.path \in Path /\ pc = "idle"
           /\ \E v \in Part :
                 /\ job.first = FirstLink(v) /\ job.second = SecondLink(v)
                 /\ \A l \in {job.first, job.second} :
                       /\ l[1] \in {RootOf[v[1]], PartOf[v[1]]}
                       /\ Resolve(l) = node[v[1]]
                       /\ Resolve(l) \in Stem \cup {NoStem}
<1>1. /\ job.path \in Path /\ pc = "idle"
      /\ WatchTypeOK
  BY DEF WatchInv, JobRight
<1>2. PICK v \in Part : job.first = FirstLink(v) /\ job.second = SecondLink(v)
  BY DEF WatchInv, JobRight
<1>3. ASSUME NEW l \in {job.first, job.second}
      PROVE  /\ l[1] \in {RootOf[v[1]], PartOf[v[1]]}
             /\ Resolve(l) = node[v[1]]
             /\ Resolve(l) \in Stem \cup {NoStem}
  <2>1. l \in Link /\ v[1] \in Drive /\ l[1] \in {RootOf[v[1]], PartOf[v[1]]}
    BY <1>2, LinkFacts
  <2>2. QED
    BY <1>1, <2>1, ResolveDrive, ResolveType
<1>4. QED
  BY <1>1, <1>2, <1>3

\* The daemon works on the directory of a drive that is wanted, unless that will
\* go.
LEMMA JobAtWanted ==
    ASSUME WatchInv, Reporting, NEW p \in Path, at[p] # Free,
           job.path = p, job.step \in {"disk", "volume"}, ~GoneIn(Coming, p)
    PROVE  job.first = FirstLink(at[p].part) /\ job.second = SecondLink(at[p].part)
<1>1. job.first \in Link
  BY LinkFacts DEF WatchInv, JobRight
<1>2. QED
  BY <1>1 DEF Reporting, PlacesBound, Bound

LEMMA DiskNoEntryReports ==
    ASSUME WatchInv, Calm, Reporting, job.step = "disk", pc = "idle",
           NEW o \in Answer(job.first), Orphan(job.first, Resolve(job.first), o),
           job' = NoJob, UNCHANGED <<coreVars, mapVars, placeVars, phase, scan, Coming>>
    PROVE  Reporting'
<1> DEFINE p == job.path
<1>1. /\ UNCHANGED <<at, node, faults, phase, scan, Coming>> /\ p \in Path
      /\ UNCHANGED <<pc, cur, todo, devices, displaced, mapped, shown, catVolumes>>
  BY JobLinks DEF placeVars, coreVars, mapVars
<1>2. PICK v \in Part : job.first = FirstLink(v) /\ v[1] \in Drive
  BY JobLinks, LinkFacts
<1>3. job'.step = "none" /\ \A q \in Path : job'.path # q
  BY JobFacts
<1>4. /\ \A l : \A q \in Path : Bound(q, l)' <=> mapped[q] = l
      /\ \A l : \A q \in Path : Held(q, l)' <=> Held(q, l)
      /\ \A l : \A q \in Path : Bound(q, l) <=> mapped[q] = l \/ (q = p /\ job.first = l)
  BY <1>1, <1>3 DEF Bound, Held
<1>5. /\ \A i \in ID : Staying(i)' <=> Staying(i)
      /\ \A name : Known(name)' <=> Known(name)
  BY <1>1 DEF Staying, Known, Registered
<1>6. \A i \in ID, q \in Path : Good(i, q)' <=> Good(i, q)
  BY <1>1, <1>3 DEF Good
<1>7. \A q \in Path : Wanted(q)' <=> Wanted(q)
  BY <1>1, SameWanted
<1>8. ASSUME NEW q \in Path, Wanted(q)
      PROVE  FirstLink(at[q].part) # job.first
  <2>1. SUFFICES ASSUME FirstLink(at[q].part) = job.first PROVE FALSE
    OBVIOUS
  <2>2. /\ Resolve(job.first) = at[q].stem /\ Number(job.first, at[q].stem) = job.first[2]
        /\ job.first[2] = 0
    BY <1>2, <1>8, <2>1, WantedResolves, LinkFacts
  <2>3. QED
    BY <2>2 DEF Orphan
<1>9. DrivesHeld'
  BY <1>1, <1>4, <1>5 DEF DrivesHeld, Reporting
<1>10. PlacesBound'
  <2>1. ASSUME NEW q \in Path, ~GoneIn(Coming, q), NEW l \in Link, Bound(q, l)'
        PROVE  at[q].stage \in {"mounted", "left"} /\ l = FirstLink(at[q].part)
    BY <1>4, <2>1 DEF PlacesBound, Reporting
  <2>2. QED
    BY <1>1, <1>3, <2>1 DEF PlacesBound
<1>11. ASSUME NEW q \in Path, at[q] # Free
       PROVE  Safe(q)' /\ Visited(q)' /\ Fit(q)'
  <2> DEFINE l == FirstLink(at[q].part)
  <2>1. l \in Link /\ Safe(q) /\ Visited(q) /\ Fit(q)
    BY <1>11, TakenPlace DEF Reporting
  <2>2. Safe(q)'
    <3>1. \A r \in Path \ {q} : Bound(r, l)' => Bound(r, l)
      BY <1>1, <1>4
    <3>2. QED
      BY <1>1, <2>1, <3>1 DEF Safe
  <2>3. Visited(q)'
    <3>1. CASE job.path = q /\ Wanted(q)
      <4>1. GoneIn(Coming, q)
        BY <1>8, <1>11, <3>1, JobAtWanted
      <4>2. Renewed(Coming, q)
        BY <2>1, <4>1 DEF Safe
      <4>3. QED
        BY <1>1, <4>2 DEF Visited
    <3>2. CASE ~(job.path = q /\ Wanted(q))
      BY <1>1, <1>5, <1>7, <2>1, <3>2 DEF Visited
    <3>3. QED
      BY <3>1, <3>2
  <2>4. Fit(q)'
    <3>1. CASE Wanted(q)
      <4>1. l # job.first
        BY <1>8, <3>1
      <4>2. \A r \in Path : Bound(r, l)' <=> Bound(r, l)
        BY <1>1, <1>4, <4>1
      <4> HIDE DEF l, p
      <4>3. QED
        BY <1>1, <1>3, <1>5, <1>6, <1>7, <2>1, <4>2, FitKept DEF l
    <3>2. CASE ~Wanted(q)
      BY <1>7, <3>2 DEF Fit
    <3>3. QED
      BY <3>1, <3>2
  <2>5. QED
    BY <2>2, <2>3, <2>4
<1>12. QED
  BY <1>1, <1>9, <1>10, <1>11 DEF Reporting

\* The device of the drive is there; whether it is what the directory is about
\* depends on the volume's link.
LEMMA DiskEntryReports ==
    ASSUME WatchInv, Calm, Reporting, job.step = "disk", pc = "idle",
           NEW o \in Answer(job.first), NEW i \in ID,
           EntryIn(i, job.first, Resolve(job.first)),
           Store(i, Entry(i, job.first, Resolve(job.first), o).dev),
           job' = [job EXCEPT !.step = "volume"],
           UNCHANGED <<pc, cur, todo, catVolumes, mapVars, placeVars, phase, scan, Coming>>
    PROVE  Reporting'
<1> DEFINE p == job.path
           first == job.first
           stem == Resolve(first)
           name == IF Number(first, stem) = 0 THEN first[1] ELSE RootName(first)
           dev == Entry(i, first, stem, o).dev
<1>1. /\ UNCHANGED <<at, node, faults, phase, scan, Coming>> /\ p \in Path
      /\ UNCHANGED <<pc, cur, todo, displaced, mapped, shown, catVolumes>>
      /\ CoreTypeOK /\ UniqueLinks /\ job \in Jobs
  BY JobLinks DEF placeVars, mapVars, WatchInv, WatchTypeOK
<1>2. PICK v \in Part : /\ first = FirstLink(v) /\ v[1] \in Drive
                        /\ first[1] = RootOf[v[1]] /\ first[2] = 0
                        /\ first = <<RootOf[v[1]], 0>>
                        /\ stem \in Stem \cup {NoStem}
  BY JobLinks, LinkFacts
<1>3. /\ job'.step = "volume" /\ job'.path = p /\ job'.first = first
      /\ job'.second = job.second
  BY <1>1 DEF Jobs
<1>4. /\ o \in Outcome(stem)
      /\ stem # NoStem =>
            /\ o.info <=> \E w \in Part : w[2] = 0 /\ RootOf[w[1]] = first[1]
            /\ o.probe
  BY <1>2, CalmAnswer
<1>5. /\ name \in {first[1], Unnamed} /\ dev.link = name /\ dev \in Device
      /\ ~Registered(i) => ~Known(name)
      /\ Registered(i) => devices[i].link = name
      /\ \A k \in Index : devices[i].vol[k] # NoVolume => dev.vol[k] = devices[i].vol[k]
  <2>1. /\ first \in {FirstLink(v), SecondLink(v)} /\ EntryIn(i, first, stem)
        /\ stem \in Stem \cup {NoStem} /\ o \in Outcome(stem)
    BY <1>2, <1>4
  <2> HIDE DEF first, stem
  <2>2. QED
    BY <2>1, EntryKeeps
<1>6. /\ name = first[1] => Number(first, stem) = 0
      /\ \A d \in Drive : RootOf[d] # Unnamed
  BY <1>2, SentinelAssumption, WatchAssumption DEF RootName
<1>7. /\ devices'[i] = dev
      /\ \A j \in ID : j # i => devices'[j] = devices[j]
  BY <1>1, <1>5, StoreDoes
<1>8. /\ \A l : \A q \in Path : Bound(q, l)' <=> Bound(q, l)
      /\ \A l : \A q \in Path : Held(q, l)' <=> mapped[q] = l \/ (q = p /\ l = first)
      /\ \A l : \A q \in Path : Held(q, l) <=> mapped[q] = l
  BY <1>1, <1>3 DEF Bound, Held
<1>9. /\ Registered(i)'
      /\ \A j \in ID : j # i => (Registered(j)' <=> Registered(j))
      /\ \A j \in ID : Registered(j) => devices'[j].link = devices[j].link
      /\ \A j \in ID : Staying(j)' <=> Registered(j)'
      /\ \A j \in ID : Staying(j) <=> Registered(j)
  BY <1>1, <1>5, <1>7, SentinelFacts DEF Registered, Staying
<1>10. \A q \in Path : Wanted(q)' <=> Wanted(q)
  BY <1>1, SameWanted
<1>11. DrivesHeld'
  <2>1. ASSUME NEW d \in Drive, Plain(d), NEW j \in ID, Registered(j)',
               devices'[j].link = RootOf[d], <<RootOf[d], 0>> \notin displaced
        PROVE  \E q \in Path : Held(q, <<RootOf[d], 0>>)'
    <3>1. CASE Registered(j)
      <4>1. PICK q \in Path : mapped[q] = <<RootOf[d], 0>>
        BY <1>8, <1>9, <2>1, <3>1 DEF DrivesHeld, Reporting
      <4>2. QED
        BY <1>8, <4>1
    <3>2. CASE ~Registered(j)
      <4>1. j = i /\ RootOf[d] = name /\ name = first[1]
        BY <1>5, <1>6, <1>7, <1>9, <2>1, <3>2
      <4>2. Held(p, <<RootOf[d], 0>>)'
        BY <1>1, <1>2, <1>8, <4>1
      <4>3. QED
        BY <1>1, <4>2
    <3>3. QED
      BY <3>1, <3>2
  <2>2. QED
    BY <1>1, <1>9, <2>1 DEF DrivesHeld, Plain
<1>12. PlacesBound'
  <2>1. PlacesBound
    BY DEF Reporting
  <2>2. QED
    BY <1>1, <1>3, <1>8, <2>1 DEF PlacesBound
<1>13. ASSUME NEW q \in Path, at[q] # Free
       PROVE  Safe(q)' /\ Visited(q)' /\ Fit(q)'
  <2> DEFINE l == FirstLink(at[q].part)
             d == at[q].part[1]
  <2>1. /\ l \in Link /\ Safe(q) /\ Visited(q) /\ Fit(q)
        /\ at[q].part \in Part /\ d \in Drive /\ l = <<RootOf[d], 0>> /\ l[1] = RootOf[d]
    BY <1>13, TakenPlace DEF Reporting
  <2>2. Safe(q)'
    BY <1>1, <1>8, <2>1 DEF Safe
  <2>3. Wanted(q) /\ l = first => Number(first, stem) = 0 /\ name = l[1]
    BY <1>2, WantedResolves
  <2>4. Visited(q)'
    <3>1. CASE job.path = q /\ Wanted(q)
      <4>1. CASE GoneIn(Coming, q)
        <5>1. Renewed(Coming, q)
          BY <2>1, <4>1 DEF Safe
        <5>2. QED
          BY <1>1, <5>1 DEF Visited
      <4>2. CASE ~GoneIn(Coming, q)
        <5>1. first = l
          BY <1>13, <3>1, <4>2, JobAtWanted
        <5>2. Staying(i)' /\ devices'[i].link = l[1]
          BY <1>5, <1>7, <1>9, <2>3, <3>1, <5>1
        <5>3. at'[q].stage # "made" /\ at'[q] = at[q]
          BY <1>1, <3>1, WantedTaken
        <5>4. QED
          BY <5>2, <5>3 DEF Visited
      <4>3. QED
        BY <4>1, <4>2
    <3>2. CASE ~(job.path = q /\ Wanted(q))
      <4>1. CASE \/ phase \in {"starting", "watching"} \/ q \in scan
                 \/ Renewed(Coming, q)
        BY <1>1, <4>1 DEF Visited
      <4>2. CASE /\ at[q].stage # "made"
                 /\ Wanted(q) => \/ l \in displaced
                                 \/ \E j \in ID : Registered(j) /\ devices[j].link = l[1]
        <5>1. Wanted(q)' => \/ l \in displaced
                            \/ \E j \in ID : Staying(j)' /\ devices'[j].link = l[1]
          BY <1>9, <1>10, <4>2
        <5>2. QED
          BY <1>1, <4>2, <5>1 DEF Visited
      <4>3. QED
        BY <1>1, <1>9, <2>1, <3>2, <4>1, <4>2 DEF Visited
    <3>3. QED
      BY <3>1, <3>2
  <2>5. Fit(q)'
    <3>1. SUFFICES ASSUME Wanted(q), ~GoneIn(Coming, q)
          PROVE  /\ job.path = q => \E j \in ID : Registered(j)' /\ devices'[j].link = l[1]
                 /\ l \notin displaced /\ (\A r \in Path \ {q} : ~Bound(r, l)) =>
                      \A j \in ID : Registered(j)' /\ devices'[j].link = l[1]
                                      => Good(j, q)'
      <4>1. \A r \in Path : Bound(r, l)' <=> Bound(r, l)
        BY <1>1, <1>8
      <4>2. QED
        BY <1>1, <1>3, <1>9, <1>10, <4>1 DEF Fit, Known
    <3>2. job.path = q => \E j \in ID : Registered(j)' /\ devices'[j].link = l[1]
      <4>1. SUFFICES ASSUME job.path = q
            PROVE  Registered(i)' /\ devices'[i].link = l[1]
        OBVIOUS
      <4>2. first = l
        BY <1>13, <3>1, <4>1, JobAtWanted
      <4>3. QED
        BY <1>5, <1>7, <1>9, <2>3, <3>1, <4>2
    <3>3. ASSUME l \notin displaced, \A r \in Path \ {q} : ~Bound(r, l),
                 NEW j \in ID, Registered(j)', devices'[j].link = l[1]
          PROVE  Good(j, q)'
      <4> DEFINE w == at[q].part
                 k == IndexOf(w)
      <4>1. k \in Index /\ (k = Whole <=> w[2] = 0)
        BY <2>1, PartIndex
      <4>2. CASE Registered(j)
        <5>1. Good(j, q)
          BY <1>9, <3>1, <3>3, <4>2, <2>1 DEF Fit
        <5>2. /\ devices[j].vol[k] = [state |-> "MOUNTED", stem |-> at[q].stem]
              /\ <<j, k, q>> \in shown
          BY <5>1 DEF Good
        <5>3. devices'[j].vol[k] = devices[j].vol[k]
          <6>1. devices[j].vol[k] # NoVolume
            BY <5>2, SentinelFacts
          <6>2. QED
            BY <1>5, <1>7, <4>1, <6>1
        <5>4. QED
          BY <1>1, <5>2, <5>3 DEF Good
      <4>3. CASE ~Registered(j)
        <5>1. /\ j = i /\ ~Registered(i) /\ name = l[1] /\ name = first[1]
              /\ Number(first, stem) = 0
          BY <1>5, <1>6, <1>7, <1>9, <2>1, <3>3, <4>3
        <5>2. first = l
          BY <1>2, <2>1, <5>1
        <5>3. q = p
          BY <1>1, <3>3, <5>2 DEF Bound
        <5>4. stem = at[q].stem /\ stem # NoStem
          BY <3>1, <5>2, WantedResolves
        <5>5. /\ o.probe => dev.state = "PROBED"
              /\ o.info => dev.vol[Whole] = [state |-> "PENDING", stem |-> stem]
              /\ \A n \in Index : n # Whole => dev.vol[n] = NoVolume
          <6>1. /\ first \in {FirstLink(v), SecondLink(v)} /\ EntryIn(i, first, stem)
                /\ stem \in Stem \cup {NoStem} /\ o \in Outcome(stem)
                /\ Number(first, stem) = 0 /\ ~Registered(i)
            BY <1>2, <1>4, <5>1
          <6> HIDE DEF first, stem
          <6>2. QED
            BY <6>1, EntryNew
        <5>6. dev.vol[k] = IF k = Whole THEN [state |-> "PENDING", stem |-> stem]
                                        ELSE NoVolume
          <6>1. CASE k = Whole
            <7>1. w[2] = 0
              BY <4>1, <6>1
            <7>2. RootOf[w[1]] = first[1]
              BY <2>1, <5>2
            <7>3. o.info
              BY <1>4, <2>1, <5>4, <7>1, <7>2
            <7>4. QED
              BY <5>5, <6>1, <7>3
          <6>2. CASE k # Whole
            BY <4>1, <5>5, <6>2
          <6>3. QED
            BY <6>1, <6>2
        <5>7. dev.state = "PROBED"
          BY <1>4, <5>4, <5>5
        <5> HIDE DEF dev, stem, p
        <5>8. QED
          BY <1>1, <1>3, <1>7, <5>1, <5>3, <5>4, <5>6, <5>7 DEF Good
      <4>4. QED
        BY <4>2, <4>3
    <3>4. QED
      BY <3>2, <3>3
  <2>6. QED
    BY <2>2, <2>4, <2>5
<1>14. QED
  BY <1>1, <1>11, <1>12, <1>13 DEF Reporting

LEMMA DiskLinkReports ==
    ASSUME WatchInv, Calm, Reporting, DiskLink, pc' # "spinning"
    PROVE  Reporting'
<1> DEFINE l == job.first
           stem == Resolve(l)
<1>1. /\ job.step = "disk" /\ pc = "idle"
      /\ UNCHANGED <<placeVars, phase, scan, Coming>>
  BY DEF DiskLink, eventVars, Coming
<1>2. PICK o \in Answer(l) :
         \/ NoEntry(l, stem, o)
         \/ /\ \E i \in ID :
                  /\ EntryIn(i, l, stem)
                  /\ Store(i, Entry(i, l, stem, o).dev)
            /\ job' = [job EXCEPT !.step = "volume"]
            /\ UNCHANGED <<pc, cur, todo, catVolumes, mapVars>>
  BY DEF DiskLink
<1>3. CASE NoEntry(l, stem, o)
  <2>1. Orphan(l, stem, o) /\ job' = NoJob /\ UNCHANGED <<coreVars, mapVars>>
    BY <1>3 DEF NoEntry, Spin
  <2>2. QED
    BY <1>1, <2>1, DiskNoEntryReports
<1>4. CASE ~NoEntry(l, stem, o)
  <2>1. PICK i \in ID : /\ EntryIn(i, l, stem)
                        /\ Store(i, Entry(i, l, stem, o).dev)
    BY <1>2, <1>4
  <2>2. job' = [job EXCEPT !.step = "volume"]
        /\ UNCHANGED <<pc, cur, todo, catVolumes, mapVars>>
    BY <1>2, <1>4
  <2>3. QED
    BY <1>1, <2>1, <2>2, DiskEntryReports
<1>5. QED
  BY <1>3, <1>4

\* The volume's link leads to the device of a drive that goes by one name.
LEMMA OrphanImpossible ==
    ASSUME WatchInv, Calm, job.step = "volume", pc = "idle",
           NEW o \in Answer(job.second),
           Orphan(job.second, Resolve(job.second), o),
           NEW d \in Drive, Plain(d), job.first = <<RootOf[d], 0>>,
           NEW i \in ID, Registered(i), devices[i].link = RootOf[d]
    PROVE  FALSE
<1> DEFINE l == job.second
           stem == Resolve(l)
<1>1. PICK v \in Part : job.first = FirstLink(v) /\ l = SecondLink(v)
  BY JobLinks
<1>2. v[1] = d /\ PartOf[d] = RootOf[d] /\ v[2] \in Nat
  <2>1. RootOf[v[1]] = RootOf[d] /\ v[1] \in Drive /\ v[2] \in Nat
    BY <1>1, LinkFacts
  <2>2. QED
    BY <2>1, OneDrive DEF Plain
<1>3. Number(l, stem) > 0 /\ ~o.info /\ ~Known(RootName(l))
  BY DEF Orphan
<1>4. CASE v[2] # 0
  <2>1. l[1] = RootOf[d] /\ l[2] > 0
    BY <1>1, <1>2, <1>4, LinkFacts
  <2>2. RootName(l) = RootOf[d]
    BY <2>1 DEF RootName
  <2>3. QED
    BY <1>3, <2>2 DEF Known
<1>5. CASE v[2] = 0
  <2>1. l = FirstLink(v) /\ l[1] = RootOf[d] /\ l[2] = 0
    BY <1>1, <1>2, <1>5, LinkFacts
  <2>2. v = <<d, 0>>
    BY <1>2, <1>5, WatchAssumption
  <2>3. NameNumber[RootOf[d]] = 0
    BY <2>2 DEF Plain
  <2>4. stem # NoStem
    BY <1>3, <2>1, <2>3 DEF Number
  <2>5. o.info
    BY <1>2, <1>5, <2>1, <2>4, CalmAnswer
  <2>6. QED
    BY <1>3, <2>5
<1>6. QED
  BY <1>4, <1>5

LEMMA VolumeNoEntryReports ==
    ASSUME WatchInv, Calm, Reporting, job.step = "volume", pc = "idle",
           NEW o \in Answer(job.second), Orphan(job.second, Resolve(job.second), o),
           job' = NoJob, UNCHANGED <<coreVars, mapVars, placeVars, phase, scan, Coming>>
    PROVE  Reporting'
<1> DEFINE p == job.path
<1>1. /\ UNCHANGED <<at, node, faults, phase, scan, Coming>> /\ p \in Path
      /\ UNCHANGED <<pc, cur, todo, devices, displaced, mapped, shown, catVolumes>>
  BY JobLinks DEF placeVars, coreVars, mapVars
<1>2. job'.step = "none" /\ \A q \in Path : job'.path # q
  BY JobFacts
<1>3. /\ \A l : \A q \in Path : Bound(q, l)' <=> mapped[q] = l
      /\ \A l : \A q \in Path : Held(q, l)' <=> mapped[q] = l
      /\ \A l : \A q \in Path : Bound(q, l) <=> mapped[q] = l \/ (q = p /\ job.first = l)
      /\ \A l : \A q \in Path : Held(q, l) <=> mapped[q] = l \/ (q = p /\ job.first = l)
  BY <1>1, <1>2 DEF Bound, Held
<1>4. /\ \A i \in ID : Staying(i)' <=> Staying(i)
      /\ \A i \in ID : Staying(i) <=> Registered(i)
      /\ \A name : Known(name)' <=> Known(name)
  BY <1>1 DEF Staying, Known, Registered
<1>5. \A q \in Path : Wanted(q)' <=> Wanted(q)
  BY <1>1, SameWanted
<1>6. ASSUME NEW d \in Drive, Plain(d), job.first = <<RootOf[d], 0>>, NEW i \in ID
      PROVE  ~(Registered(i) /\ devices[i].link = RootOf[d])
  BY <1>6, OrphanImpossible
<1>7. DrivesHeld'
  <2>1. ASSUME NEW d \in Drive, Plain(d), NEW i \in ID, Staying(i),
               devices[i].link = RootOf[d], <<RootOf[d], 0>> \notin displaced
        PROVE  \E q \in Path : mapped[q] = <<RootOf[d], 0>>
    <3>1. job.first # <<RootOf[d], 0>>
      BY <1>4, <1>6, <2>1
    <3>2. \E q \in Path : Held(q, <<RootOf[d], 0>>)
      BY <2>1 DEF DrivesHeld, Reporting
    <3>3. QED
      BY <1>3, <3>1, <3>2
  <2>2. QED
    BY <1>1, <1>3, <1>4, <2>1 DEF DrivesHeld, Plain
<1>8. PlacesBound'
  <2>1. ASSUME NEW q \in Path, ~GoneIn(Coming, q), NEW l \in Link, Bound(q, l)'
        PROVE  at[q].stage \in {"mounted", "left"} /\ l = FirstLink(at[q].part)
    BY <1>3, <2>1 DEF PlacesBound, Reporting
  <2>2. QED
    BY <1>1, <1>2, <2>1 DEF PlacesBound
<1>9. ASSUME NEW q \in Path, at[q] # Free
      PROVE  Safe(q)' /\ Visited(q)' /\ Fit(q)'
  <2> DEFINE l == FirstLink(at[q].part)
             d == at[q].part[1]
  <2>1. /\ l \in Link /\ Safe(q) /\ Visited(q) /\ Fit(q)
        /\ d \in Drive /\ l = <<RootOf[d], 0>> /\ l[1] = RootOf[d]
    BY <1>9, TakenPlace DEF Reporting
  <2>2. Safe(q)'
    <3>1. \A r \in Path \ {q} : Bound(r, l)' => Bound(r, l)
      BY <1>1, <1>3
    <3>2. QED
      BY <1>1, <2>1, <3>1 DEF Safe
  <2>3. Visited(q)'
    BY <1>1, <1>4, <1>5, <2>1 DEF Visited
  <2>4. Fit(q)'
    <3>1. SUFFICES ASSUME Wanted(q), ~GoneIn(Coming, q), l \notin displaced,
                          \A r \in Path \ {q} : mapped[r] # l,
                          NEW i \in ID, Registered(i), devices[i].link = l[1]
          PROVE  Good(i, q)'
      <4>1. \A r \in Path : Bound(r, l)' <=> mapped[r] = l
        BY <1>1, <1>3
      <4>2. QED
        BY <1>1, <1>2, <1>4, <1>5, <4>1 DEF Fit
    <3>2. job.first # l
      <4>1. Plain(d)
        BY <3>1 DEF Wanted
      <4>2. QED
        BY <1>6, <2>1, <3>1, <4>1
    <3>3. job.path # q
      BY <1>9, <3>1, <3>2, JobAtWanted
    <3>4. Good(i, q)
      BY <1>3, <1>4, <2>1, <3>1, <3>2 DEF Fit
    <3>5. QED
      BY <1>1, <1>2, <3>3, <3>4 DEF Good
  <2>5. QED
    BY <2>2, <2>3, <2>4
<1>10. QED
  BY <1>1, <1>7, <1>8, <1>9 DEF Reporting

\* What becomes of the device, and of the job.
LEMMA VolumeDoes ==
    ASSUME WatchInv, job.step = "volume", pc = "idle", NEW i \in ID, NEW e, NEW info,
           e.dev \in Device, e.vol \in Index \cup {NoIndex},
           Pass(i, e, info) \/ Adopt(i, e)
    PROVE  /\ devices'[i] \in Device
           /\ devices'[i].link = e.dev.link /\ devices'[i].vol = e.dev.vol
           /\ \A j \in ID : j # i => devices'[j] = devices[j]
           /\ pc' # "drop"
           /\ \/ job'.step = "none" /\ \A q \in Path : job'.path # q
              \/ /\ job'.step = "report" /\ job'.path = job.path
                 /\ job'.first = job.first /\ job'.second = job.second
           /\ e.dev.state = "PROBED" /\ IsAcceptable(e.dev.link)
              /\ e.vol \in Index /\ e.dev.vol[e.vol].state = "PENDING" =>
                 /\ job'.step = "report" /\ job'.path = job.path
                 /\ cur' = i /\ todo' = {e.vol}
<1> DEFINE f == Filter(e.dev)
<1>1. /\ f \in Device /\ f.link = e.dev.link /\ f.vol = e.dev.vol
      /\ e.dev.state = "PROBED" /\ IsAcceptable(e.dev.link) => f.state = "OK"
  BY FilterFacts
<1>2. NoJob.step = "none" /\ \A q \in Path : NoJob.path # q
  BY JobFacts
<1>3. CoreTypeOK /\ job \in Jobs
  BY DEF WatchInv, WatchTypeOK
<1> HIDE DEF f
<1>4. CASE Pass(i, e, info)
  <2>1. PICK d \in {e.dev, f} : Store(i, d)
    BY <1>4 DEF Pass, f
  <2>2. /\ e.vol = NoIndex \/ f.state # "OK"
        /\ UNCHANGED pc /\ job' = NoJob
    BY <1>4 DEF Pass, f
  <2>3. d \in Device /\ d.link = e.dev.link /\ d.vol = e.dev.vol
    BY <1>1, <2>1
  <2>4. devices'[i] = d /\ \A j \in ID : j # i => devices'[j] = devices[j]
    BY <1>3, <2>1, <2>3, StoreDoes
  <2>5. ~(/\ e.dev.state = "PROBED" /\ IsAcceptable(e.dev.link)
          /\ e.vol \in Index /\ e.dev.vol[e.vol].state = "PENDING")
    BY <1>1, <2>2, SentinelFacts
  <2>6. QED
    BY <1>2, <2>2, <2>3, <2>4, <2>5
<1>5. CASE Adopt(i, e)
  <2> DEFINE d == [f EXCEPT !.dir = "created"]
  <2>1. d \in Device /\ d.link = f.link /\ d.vol = f.vol
    BY <1>1 DEF Device
  <2>2. Store(i, d)
    BY <1>5 DEF Adopt, f
  <2>3. devices'[i] = d /\ \A j \in ID : j # i => devices'[j] = devices[j]
    BY <1>3, <2>1, <2>2, StoreDoes
  <2> HIDE DEF d
  <2>4. \/ /\ f.vol[e.vol].state = "PENDING"
           /\ pc' = "mount" /\ cur' = i /\ todo' = {e.vol}
           /\ job' = [job EXCEPT !.step = "report"]
        \/ /\ f.vol[e.vol].state # "PENDING"
           /\ job' = NoJob /\ UNCHANGED pc
    BY <1>5 DEF Adopt, StartMounting, f
  <2>5. job' = [job EXCEPT !.step = "report"] =>
           /\ job'.step = "report" /\ job'.path = job.path
           /\ job'.first = job.first /\ job'.second = job.second
    BY <1>3 DEF Jobs
  <2>6. QED
    BY <1>1, <1>2, <2>1, <2>3, <2>4, <2>5
<1>6. QED
  BY <1>4, <1>5

\* If the first link led to a new device, the second leads to what is to be
\* mounted from it.
LEMMA VolumeFound ==
    ASSUME WatchInv, Calm, NEW q \in Path, Wanted(q),
           NEW l, l = SecondLink(at[q].part),
           NEW o \in Answer(l), NEW i \in ID, EntryIn(i, l, Resolve(l)),
           NEW j \in ID, Registered(j), devices[j].link = RootOf[at[q].part[1]],
           devices[j].state = "PROBED",
           LET k == IndexOf(at[q].part) IN
           devices[j].vol[k] = IF k = Whole THEN [state |-> "PENDING", stem |-> at[q].stem]
                                            ELSE NoVolume
    PROVE  LET e == Entry(i, l, Resolve(l), o)
               k == IndexOf(at[q].part) IN
           /\ i = j /\ e.dev.state = "PROBED" /\ e.vol = k
           /\ e.dev.vol[k] = [state |-> "PENDING", stem |-> at[q].stem]
<1> DEFINE w == at[q].part
           k == IndexOf(w)
           stem == Resolve(l)
           e == Entry(i, l, stem, o)
<1>1. /\ w \in Part /\ w[2] \in Nat
      /\ k \in Index /\ (w[2] = 0 => k = Whole) /\ (w[2] # 0 => k = w[2] /\ k # Whole)
  BY WantedTaken, TakenPlace, PartIndex, LinkFacts, WholeIndex
<1>2. /\ stem = at[q].stem /\ stem \in Stem /\ stem # NoStem
      /\ Number(l, stem) = l[2] /\ l[1] = RootOf[w[1]]
  <2>1. /\ Resolve(l) = at[q].stem /\ at[q].stem \in Stem /\ at[q].stem # NoStem
        /\ Number(l, at[q].stem) = l[2]
        /\ l[1] = RootOf[at[q].part[1]]
    BY WantedResolves
  <2>2. QED
    BY <2>1
<1>3. l[2] = w[2] /\ l \in {FirstLink(w), SecondLink(w)}
  BY <1>1, LinkFacts
<1>4. /\ o \in Outcome(stem)
      /\ w[2] # 0 => o.info
  BY <1>1, <1>2, <1>3, CalmAnswer
<1>5. i = j
  <2>1. (IF Number(l, stem) = 0 THEN l[1] ELSE RootName(l)) = RootOf[w[1]]
    BY <1>1, <1>2, <1>3 DEF RootName
  <2>2. Known(RootOf[w[1]])
    BY DEF Known
  <2>3. IsDevice(i, RootOf[w[1]])
    BY <2>1, <2>2 DEF EntryIn
  <2>4. QED
    BY <2>3 DEF IsDevice, WatchInv, UniqueLinks
<1> HIDE DEF e, stem, k, w
<1>6. /\ e.dev.state = "PROBED"
      /\ w[2] = 0 /\ devices[i].vol[Whole] = [state |-> "PENDING", stem |-> stem] =>
           /\ e.dev.vol = devices[i].vol /\ e.vol = Whole
      /\ w[2] > 0 /\ o.info /\ devices[i].vol[w[2]] = NoVolume =>
           /\ e.dev.vol[w[2]] = [state |-> "PENDING", stem |-> stem]
           /\ e.vol = w[2]
  <2>1. EntryIn(i, l, stem) /\ Number(l, stem) = w[2]
    BY <1>2, <1>3 DEF stem
  <2>2. QED
    BY <1>1, <1>2, <1>3, <1>4, <1>5, <2>1, EntryOld DEF e
<1>7. devices[i].vol[k] = IF k = Whole THEN [state |-> "PENDING", stem |-> stem] ELSE NoVolume
  BY <1>2, <1>5 DEF k, w
<1>8. /\ i = j /\ e.dev.state = "PROBED" /\ e.vol = k
      /\ e.dev.vol[k] = [state |-> "PENDING", stem |-> at[q].stem]
  <2>1. CASE w[2] = 0
    BY <1>1, <1>2, <1>5, <1>6, <1>7, <2>1
  <2>2. CASE w[2] # 0
    <3>1. w[2] > 0
      BY <1>1, <2>2
    <3>2. QED
      BY <1>1, <1>2, <1>4, <1>5, <1>6, <1>7, <2>2, <3>1
  <2>3. QED
    BY <2>1, <2>2
<1>9. QED
  BY <1>8 DEF e, stem, k, w

\* The directory is remembered with the drive's link, for that of its device.
LEMMA VolumeEntryReports ==
    ASSUME WatchInv, Calm, Reporting, job.step = "volume", pc = "idle",
           NEW o \in Answer(job.second), NEW i \in ID,
           EntryIn(i, job.second, Resolve(job.second)),
           LET e == Entry(i, job.second, Resolve(job.second), o) IN
           Pass(i, e, o.info) \/ Adopt(i, e),
           Remember, UNCHANGED <<shown, placeVars, phase, scan, Coming>>
    PROVE  Reporting'
<1> DEFINE p == job.path
           first == job.first
           l2 == job.second
           stem == Resolve(l2)
           name == IF Number(l2, stem) = 0 THEN l2[1] ELSE RootName(l2)
           e == Entry(i, l2, stem, o)
<1>1. /\ UNCHANGED <<at, node, faults, phase, scan, Coming, shown>> /\ p \in Path
      /\ CoreTypeOK /\ UniqueLinks
      /\ mapped \in [Path -> Link \cup {NoLink}]
  BY JobLinks DEF placeVars, WatchInv, WatchTypeOK
<1>2. PICK v \in Part : /\ first = FirstLink(v) /\ l2 = SecondLink(v) /\ v[1] \in Drive
                        /\ l2[1] \in {RootOf[v[1]], PartOf[v[1]]}
                        /\ first = <<RootOf[v[1]], 0>> /\ first \in Link
                        /\ stem \in Stem \cup {NoStem}
  BY JobLinks, LinkFacts
<1>3. o \in Outcome(stem)
  BY CalmAnswer
<1>4. /\ name \in {l2[1], Unnamed} /\ e.dev.link = name /\ e.dev \in Device
      /\ e.vol \in Index \cup {NoIndex}
      /\ ~Registered(i) => ~Known(name)
      /\ Registered(i) => devices[i].link = name
      /\ \A k \in Index : devices[i].vol[k] # NoVolume => e.dev.vol[k] = devices[i].vol[k]
  <2>1. /\ l2 \in {FirstLink(v), SecondLink(v)} /\ EntryIn(i, l2, stem)
        /\ stem \in Stem \cup {NoStem} /\ o \in Outcome(stem)
    BY <1>2, <1>3
  <2> HIDE DEF l2, stem
  <2>2. Sane(i, l2, Entry(i, l2, stem, o))
    BY <2>1, EntrySane
  <2>3. e.vol \in Index \cup {NoIndex}
    BY <2>2 DEF Sane
  <2>4. QED
    BY <2>1, <2>3, EntryKeeps
<1>5. /\ devices'[i] \in Device
      /\ devices'[i].link = e.dev.link /\ devices'[i].vol = e.dev.vol
      /\ \A j \in ID : j # i => devices'[j] = devices[j]
      /\ pc' # "drop"
      /\ \/ job'.step = "none" /\ \A q \in Path : job'.path # q
         \/ /\ job'.step = "report" /\ job'.path = job.path
            /\ job'.first = job.first /\ job'.second = job.second
      /\ e.dev.state = "PROBED" /\ IsAcceptable(e.dev.link)
         /\ e.vol \in Index /\ e.dev.vol[e.vol].state = "PENDING" =>
            /\ job'.step = "report" /\ job'.path = job.path
            /\ cur' = i /\ todo' = {e.vol}
  <2>1. Pass(i, e, o.info) \/ Adopt(i, e)
    OBVIOUS
  <2> HIDE DEF e
  <2>2. QED
    BY <1>4, <2>1, VolumeDoes
<1> HIDE DEF e, name
<1>6. /\ mapped'[p] = first /\ \A q \in Path : q # p => mapped'[q] = mapped[q]
      /\ \A l : l \in displaced => l \in displaced'
      /\ mapped[p] # NoLink /\ mapped[p] # first => mapped[p] \in displaced'
  BY <1>1 DEF Remember
<1>7. \A d \in Drive : /\ RootOf[d] # Unnamed /\ <<RootOf[d], 0>> # NoLink
                       /\ RootOf[d] = l2[1] => d = v[1] /\ <<RootOf[d], 0>> = first
  <2>1. ASSUME NEW d \in Drive, RootOf[d] = l2[1]
        PROVE  d = v[1]
    BY <1>2, <2>1, OneDrive
  <2>2. QED
    BY <1>2, <2>1, JobFacts, SentinelAssumption, WatchAssumption
<1>8. /\ \A l : \A q \in Path : Bound(q, l)' => Bound(q, l)
      /\ \A q \in Path, l \in Link : Bound(q, l) => Bound(q, l)' \/ l \in displaced'
      /\ \A l : \A q \in Path : mapped'[q] = l => Held(q, l)'
      /\ \A l : \A q \in Path : Held(q, l) <=> mapped[q] = l \/ (q = p /\ l = first)
  BY <1>1, <1>2, <1>5, <1>6, JobFacts DEF Bound, Held
<1>9. /\ Registered(i)'
      /\ \A j \in ID : j # i => (Registered(j)' <=> Registered(j))
      /\ \A j \in ID : Registered(j) => Registered(j)' /\ devices'[j].link = devices[j].link
      /\ \A j \in ID : Staying(j)' <=> Registered(j)'
      /\ \A j \in ID : Staying(j) <=> Registered(j)
  <2>1. Registered(i)'
    BY <1>5, SentinelFacts DEF Registered
  <2>2. \A j \in ID : j # i => (Registered(j)' <=> Registered(j))
    BY <1>5 DEF Registered
  <2>3. \A j \in ID : Registered(j) => Registered(j)' /\ devices'[j].link = devices[j].link
    BY <1>4, <1>5, <2>1, <2>2
  <2>4. \A j \in ID : /\ Staying(j)' <=> Registered(j)'
                      /\ Staying(j) <=> Registered(j)
    BY <1>5 DEF Staying
  <2>5. QED
    BY <2>1, <2>2, <2>3, <2>4
<1>10. \A q \in Path : Wanted(q)' <=> Wanted(q)
  BY <1>1, SameWanted
<1>11. DrivesHeld'
  <2>1. ASSUME NEW d \in Drive, Plain(d), NEW j \in ID, Registered(j)',
               devices'[j].link = RootOf[d], <<RootOf[d], 0>> \notin displaced'
        PROVE  \E q \in Path : mapped'[q] = <<RootOf[d], 0>>
    <3>1. CASE Registered(j)
      <4>1. PICK q \in Path : Held(q, <<RootOf[d], 0>>)
        BY <1>6, <1>9, <2>1, <3>1 DEF DrivesHeld, Reporting
      <4>2. CASE <<RootOf[d], 0>> = first
        BY <1>1, <1>6, <4>2
      <4>3. CASE <<RootOf[d], 0>> # first
        <5>1. mapped[q] = <<RootOf[d], 0>>
          BY <1>8, <4>1, <4>3
        <5>2. q # p
          BY <1>6, <1>7, <2>1, <4>3, <5>1
        <5>3. QED
          BY <1>6, <5>1, <5>2
      <4>4. QED
        BY <4>2, <4>3
    <3>2. CASE ~Registered(j)
      <4>1. j = i /\ RootOf[d] = name
        BY <1>4, <1>5, <1>9, <2>1, <3>2
      <4>2. RootOf[d] = l2[1]
        BY <1>4, <1>7, <4>1
      <4>3. QED
        BY <1>1, <1>6, <1>7, <4>2
    <3>3. QED
      BY <3>1, <3>2
  <2>2. QED
    BY <1>1, <1>8, <1>9, <2>1 DEF DrivesHeld, Plain
<1>12. PlacesBound'
  <2>1. ASSUME NEW q \in Path, ~GoneIn(Coming, q)
        PROVE  /\ \A l \in Link : Bound(q, l)' =>
                     at[q].stage \in {"mounted", "left"} /\ l = FirstLink(at[q].part)
               /\ job'.path = q /\ job'.step \in {"disk", "volume", "report"} =>
                     job'.second = SecondLink(at[q].part)
    <3>1. /\ \A l \in Link : Bound(q, l) =>
                at[q].stage \in {"mounted", "left"} /\ l = FirstLink(at[q].part)
          /\ job.path = q => job.second = SecondLink(at[q].part)
      BY <2>1 DEF PlacesBound, Reporting
    <3>2. QED
      BY <1>5, <1>8, <3>1
  <2>2. QED
    BY <1>1, <2>1 DEF PlacesBound
<1>13. ASSUME NEW q \in Path, at[q] # Free
       PROVE  Safe(q)' /\ Visited(q)' /\ Fit(q)'
  <2> DEFINE l == FirstLink(at[q].part)
             d == at[q].part[1]
  <2>1. /\ l \in Link /\ Safe(q) /\ Visited(q) /\ Fit(q)
        /\ at[q].part \in Part /\ d \in Drive /\ l = <<RootOf[d], 0>> /\ l[1] = RootOf[d]
    BY <1>13, TakenPlace DEF Reporting
  <2>2. Safe(q)'
    BY <1>1, <1>5, <1>8, <2>1 DEF Safe
  <2>3. Visited(q)'
    <3>1. CASE \/ phase \in {"starting", "watching"} \/ q \in scan
               \/ Renewed(Coming, q)
      BY <1>1, <3>1 DEF Visited
    <3>2. CASE /\ at[q].stage # "made"
               /\ Wanted(q) => \/ l \in displaced
                               \/ \E j \in ID : Registered(j) /\ devices[j].link = l[1]
      <4>1. Wanted(q)' => \/ l \in displaced'
                          \/ \E j \in ID : Staying(j)' /\ devices'[j].link = l[1]
        BY <1>6, <1>9, <1>10, <3>2
      <4>2. QED
        BY <1>1, <3>2, <4>1 DEF Visited
    <3>3. QED
      BY <1>1, <1>9, <2>1, <3>1, <3>2 DEF Visited
  <2>4. Fit(q)'
    <3>1. SUFFICES ASSUME Wanted(q), ~GoneIn(Coming, q), l \notin displaced',
                          \A r \in Path \ {q} : ~Bound(r, l)',
                          NEW j \in ID, Registered(j)', devices'[j].link = l[1]
          PROVE  Good(j, q)'
      BY <1>1, <1>5, <1>9, <1>10 DEF Fit
    <3>2. /\ l \notin displaced
          /\ \A r \in Path \ {q} : ~Bound(r, l)
      BY <1>1, <1>6, <1>8, <2>1, <3>1
    <3> DEFINE k == IndexOf(at[q].part)
    <3>3. k \in Index
      BY <2>1, PartIndex
    <3>4. Registered(j)
      <4>1. SUFFICES ASSUME ~Registered(j) PROVE FALSE
        OBVIOUS
      <4>2. j = i /\ name = l[1] /\ ~Known(l[1])
        BY <1>4, <1>5, <1>9, <3>1, <4>1
      <4>3. l = first
        BY <1>4, <1>7, <2>1, <4>2
      <4>4. q = p
        BY <1>1, <3>2, <4>3 DEF Bound
      <4>5. Known(l[1])
        BY <2>1, <3>1, <4>4 DEF Fit
      <4>6. QED
        BY <4>2, <4>5
    <3>5. Good(j, q) /\ devices[j].link = l[1]
      BY <1>9, <2>1, <3>1, <3>2, <3>4 DEF Fit
    <3>6. devices[j].vol[k] # NoVolume => devices'[j].vol[k] = devices[j].vol[k]
      BY <1>4, <1>5, <3>3
    <3>7. CASE /\ devices[j].vol[k] = [state |-> "MOUNTED", stem |-> at[q].stem]
               /\ <<j, k, q>> \in shown
      <4>1. devices'[j].vol[k] = devices[j].vol[k]
        BY <3>6, <3>7, SentinelFacts
      <4>2. QED
        BY <1>1, <3>7, <4>1 DEF Good
    <3>8. CASE /\ job.path = q /\ devices[j].state = "PROBED"
               /\ devices[j].vol[k] = IF k = Whole
                                      THEN [state |-> "PENDING", stem |-> at[q].stem]
                                      ELSE NoVolume
      <4>1. first = l /\ l2 = SecondLink(at[q].part)
        BY <1>13, <3>1, <3>8, JobAtWanted
      <4>2. /\ i = j /\ e.dev.state = "PROBED" /\ e.vol = k
            /\ e.dev.vol[k] = [state |-> "PENDING", stem |-> at[q].stem]
        <5>1. /\ EntryIn(i, l2, stem) /\ o \in Answer(l2) /\ stem = Resolve(l2)
              /\ Wanted(q) /\ l2 = SecondLink(at[q].part)
              /\ Registered(j) /\ devices[j].link = RootOf[at[q].part[1]]
              /\ devices[j].state = "PROBED"
              /\ devices[j].vol[k] = IF k = Whole
                                     THEN [state |-> "PENDING", stem |-> at[q].stem]
                                     ELSE NoVolume
          BY <2>1, <3>1, <3>4, <3>5, <3>8, <4>1
        <5> HIDE DEF l2, stem
        <5>2. LET f == Entry(i, l2, Resolve(l2), o) IN
              /\ i = j /\ f.dev.state = "PROBED" /\ f.vol = k
              /\ f.dev.vol[k] = [state |-> "PENDING", stem |-> at[q].stem]
          BY <5>1, VolumeFound
        <5>3. e = Entry(i, l2, Resolve(l2), o)
          BY <5>1 DEF e
        <5>4. QED
          BY <5>2, <5>3
      <4>3. IsAcceptable(e.dev.link)
        <5>1. e.dev.link = RootOf[d]
          BY <1>5, <2>1, <3>1, <4>2
        <5>2. QED
          BY <3>1, <5>1 DEF Wanted
      <4>4. /\ job'.step = "report" /\ job'.path = q
            /\ cur' = i /\ todo' = {k}
        BY <1>5, <3>3, <3>8, <4>2, <4>3
      <4>5. devices'[j].vol[k] = [state |-> "PENDING", stem |-> at[q].stem]
        BY <1>5, <4>2
      <4>6. QED
        BY <1>1, <4>2, <4>4, <4>5 DEF Good
    <3>9. QED
      BY <3>5, <3>7, <3>8 DEF Good
  <2>5. QED
    BY <2>2, <2>3, <2>4
<1>14. QED
  BY <1>1, <1>11, <1>12, <1>13 DEF Reporting

LEMMA VolumeLinkReports ==
    ASSUME WatchInv, Calm, Reporting, VolumeLink, pc' # "spinning"
    PROVE  Reporting'
<1> DEFINE l == job.second
           stem == Resolve(l)
<1>1. /\ job.step = "volume" /\ pc = "idle"
      /\ UNCHANGED <<placeVars, phase, scan, Coming>>
  BY DEF VolumeLink, eventVars, Coming
<1>2. PICK o \in Answer(l) :
         \/ NoEntry(l, stem, o) /\ UNCHANGED shown
         \/ /\ \E i \in ID :
                  /\ EntryIn(i, l, stem)
                  /\ LET e == Entry(i, l, stem, o) IN
                     Pass(i, e, o.info) \/ Adopt(i, e)
            /\ Remember /\ UNCHANGED shown
  BY DEF VolumeLink, NoEntry, mapVars
<1>3. CASE NoEntry(l, stem, o)
  <2>1. Orphan(l, stem, o) /\ job' = NoJob /\ UNCHANGED <<coreVars, mapVars>>
    BY <1>3 DEF NoEntry, Spin
  <2>2. QED
    BY <1>1, <2>1, VolumeNoEntryReports
<1>4. CASE ~NoEntry(l, stem, o)
  <2>1. PICK i \in ID : /\ EntryIn(i, l, stem)
                        /\ LET e == Entry(i, l, stem, o) IN
                           Pass(i, e, o.info) \/ Adopt(i, e)
    BY <1>2, <1>4
  <2>2. Remember /\ UNCHANGED shown
    BY <1>2, <1>4
  <2>3. QED
    BY <1>1, <2>1, <2>2, VolumeEntryReports
<1>5. QED
  BY <1>3, <1>4

----------------------------------------------------------------------------
(* A volume is reported, a device dropped                                  *)

LEMMA ReportReports ==
    ASSUME WatchInv, Reporting, Report
    PROVE  Reporting'
<1>1. PICK k \in todo : /\ MountVolume(k, TRUE)
                        /\ shown' = shown \cup {<<cur, k, job.path>>}
  BY DEF Report
<1>2. /\ job' = NoJob /\ CoreTypeOK /\ JobConsistent /\ k \in Index /\ pc = "mount"
      /\ UNCHANGED <<at, node, faults, phase, scan, mapped, displaced, Coming>>
  BY <1>1 DEF Report, MountVolume, WatchInv, WatchTypeOK, CoreTypeOK, JobRight,
              placeVars, eventVars, Coming
<1>3. /\ job.step = "report" /\ todo = {k}
      /\ mapped[job.path] = job.first
  BY <1>2 DEF WatchInv, JobRight
<1>4. PICK ok \in BOOLEAN : ok = TRUE
  OBVIOUS
<1>5. /\ cur \in ID /\ Registered(cur)
      /\ devices[cur].vol[k].state = "PENDING"
      /\ \A j \in ID : j # cur => devices'[j] = devices[j]
      /\ devices'[cur] \in Device /\ devices'[cur].link = devices[cur].link
      /\ devices'[cur].vol[k].state = "MOUNTED"
      /\ devices'[cur].vol[k].stem = devices[cur].vol[k].stem
      /\ \A n \in Index : n # k => devices'[cur].vol[n] = devices[cur].vol[n]
      /\ pc' \in {"idle", "mount"}
  <2>1. MountVolume(k, ok)
    BY <1>1, <1>4
  <2>2. QED
    BY <1>2, <1>4, <2>1, MountVolumeDoes
<1>6. devices'[cur].vol[k] = [state |-> "MOUNTED", stem |-> devices[cur].vol[k].stem]
  <2>1. devices'[cur].vol[k] \in Volume
    BY <1>2, <1>5, SentinelFacts DEF Device
  <2>2. QED
    BY <1>5, <2>1 DEF Volume
<1>7. job'.step = "none" /\ \A q \in Path : job'.path # q
  BY <1>2, JobFacts
<1>8. \A l : \A q \in Path : /\ Bound(q, l)' <=> Bound(q, l)
                             /\ Held(q, l)' <=> Held(q, l)
  BY <1>2, <1>3, <1>7 DEF Bound, Held
<1>9. \A j \in ID : /\ Staying(j)' <=> Staying(j)
                    /\ devices'[j].link = devices[j].link
  BY <1>2, <1>5, SentinelFacts DEF Staying, Registered
<1>10. ASSUME NEW i \in ID, NEW q \in Path, at[q].part \in Part, Good(i, q)
       PROVE  Good(i, q)'
  <2> DEFINE n == IndexOf(at[q].part)
  <2>1. n \in Index
    BY <1>10, PartIndex
  <2>2. CASE /\ devices[i].vol[n] = [state |-> "MOUNTED", stem |-> at[q].stem]
             /\ <<i, n, q>> \in shown
    <3>1. ~(i = cur /\ n = k)
      BY <1>5, <2>2
    <3>2. devices'[i].vol[n] = devices[i].vol[n]
      BY <1>5, <2>1, <3>1
    <3>3. QED
      BY <1>1, <1>2, <2>2, <3>2 DEF Good
  <2>3. CASE /\ job.path = q /\ cur = i /\ todo = {n}
             /\ devices[i].vol[n] = [state |-> "PENDING", stem |-> at[q].stem]
    <3>1. n = k
      BY <1>3, <2>3
    <3>2. /\ devices'[i].vol[n] = [state |-> "MOUNTED", stem |-> at[q].stem]
          /\ <<i, n, q>> \in shown'
      BY <1>1, <1>6, <2>3, <3>1
    <3>3. QED
      BY <1>2, <3>2 DEF Good
  <2>4. QED
    BY <1>3, <1>10, <2>2, <2>3 DEF Good
<1>11. \A q \in Path : Wanted(q)' <=> Wanted(q)
  BY <1>2, SameWanted
<1>12. DrivesHeld'
  BY <1>2, <1>8, <1>9 DEF DrivesHeld, Plain, Reporting
<1>13. PlacesBound'
  BY <1>2, <1>7, <1>8 DEF PlacesBound, Reporting
<1>14. ASSUME NEW q \in Path, at[q] # Free
       PROVE  Safe(q)' /\ Visited(q)' /\ Fit(q)'
  <2>1. Safe(q) /\ Visited(q) /\ Fit(q) /\ at[q].part \in Part
    BY <1>14, TakenPlace DEF Reporting
  <2>2. Safe(q)'
    BY <1>2, <1>5, <1>8, <2>1 DEF Safe
  <2>3. Visited(q)'
    BY <1>2, <1>3, <1>9, <1>11, <2>1 DEF Visited
  <2>4. Fit(q)'
    BY <1>2, <1>7, <1>8, <1>9, <1>10, <1>11, <2>1 DEF Fit
  <2>5. QED
    BY <2>2, <2>3, <2>4
<1>15. QED
  BY <1>2, <1>12, <1>13, <1>14 DEF Reporting

\* No directory depends on the device that goes, unless it is looked at again.
LEMMA DropReports ==
    ASSUME WatchInv, Reporting, Drop
    PROVE  Reporting'
<1> DEFINE gone == <<devices[cur].link, 0>>
<1>1. /\ CoreTypeOK /\ JobConsistent /\ UniqueLinks /\ pc = "drop"
      /\ UNCHANGED <<at, node, faults, phase, scan, mapped, job, Coming>>
  BY DEF Drop, DropVolume, DropDevice, WatchInv, WatchTypeOK, JobRight,
         placeVars, eventVars, Coming
<1>2. job.step = "none" /\ \A q \in Path : job.path # q
  <2>1. job.step \notin {"look", "disk", "volume", "report"}
    BY <1>1 DEF WatchInv, JobRight
  <2>2. job.step = "none" /\ job = NoJob
    BY <2>1 DEF WatchInv, WatchTypeOK, Jobs, JobRight
  <2>3. QED
    BY <2>2, JobFacts
<1>3. /\ cur \in ID /\ Registered(cur)
      /\ \A j \in ID : j # cur => devices'[j] = devices[j]
      /\ \A s \in shown : s[1] # cur => s \in shown'
      /\ \/ /\ pc' = "drop" /\ cur' = cur /\ devices'[cur].link = devices[cur].link
            /\ displaced' = displaced
         \/ /\ pc' = "idle" /\ devices'[cur] = Absent
            /\ displaced' = displaced \ {gone}
  <2>1. CASE \E k \in todo : DropVolume(k) /\ UNCHANGED displaced
                /\ shown' = {s \in shown : s[1] # cur \/ s[2] # k}
    <3>1. PICK k \in todo : DropVolume(k) /\ UNCHANGED displaced
                /\ shown' = {s \in shown : s[1] # cur \/ s[2] # k}
      BY <2>1
    <3>2. k \in Index
      BY <1>1 DEF CoreTypeOK
    <3>3. QED
      BY <1>1, <3>1, <3>2, DropVolumeDoes
  <2>2. CASE DropDevice /\ displaced' = displaced \ {gone} /\ UNCHANGED shown
    BY <1>1, <2>2, DropDeviceDoes
  <2>3. QED
    BY <2>1, <2>2 DEF Drop
<1>4. /\ \A j \in ID : Staying(j) <=> Registered(j) /\ j # cur
      /\ \A j \in ID : Staying(j)' <=> Registered(j) /\ j # cur
      /\ \A j \in ID : j # cur => devices'[j].link = devices[j].link
  BY <1>1, <1>3 DEF Staying, Registered
<1>5. /\ \A l : l \in displaced => l \in displaced' \/ l = gone
      /\ \A j \in ID : Staying(j) => devices[j].link # devices[cur].link
  BY <1>1, <1>3, <1>4 DEF UniqueLinks
<1>6. \A l : \A q \in Path : /\ Bound(q, l)' <=> Bound(q, l)
                             /\ Held(q, l)' <=> Held(q, l)
  BY <1>1 DEF Bound, Held
<1>7. ASSUME NEW i \in ID, NEW q \in Path, i # cur, Good(i, q)
      PROVE  Good(i, q)'
  <2> DEFINE n == IndexOf(at[q].part)
  <2>1. /\ devices[i].vol[n] = [state |-> "MOUNTED", stem |-> at[q].stem]
        /\ <<i, n, q>> \in shown
    BY <1>2, <1>7 DEF Good
  <2>2. devices'[i] = devices[i] /\ <<i, n, q>> \in shown'
    BY <1>3, <1>7, <2>1
  <2>3. QED
    BY <1>1, <2>1, <2>2 DEF Good
<1>8. \A q \in Path : Wanted(q)' <=> Wanted(q)
  BY <1>1, SameWanted
<1>9. DrivesHeld'
  <2>1. ASSUME NEW d \in Drive, Plain(d), NEW i \in ID, Staying(i)',
               devices'[i].link = RootOf[d], <<RootOf[d], 0>> \notin displaced'
        PROVE  \E q \in Path : Held(q, <<RootOf[d], 0>>)
    <3>1. Staying(i) /\ devices[i].link = RootOf[d]
      BY <1>4, <2>1
    <3>2. <<RootOf[d], 0>> \notin displaced
      BY <1>5, <2>1, <3>1
    <3>3. QED
      BY <2>1, <3>1, <3>2 DEF DrivesHeld, Reporting
  <2>2. QED
    BY <1>6, <2>1 DEF DrivesHeld, Plain
<1>10. PlacesBound'
  BY <1>1, <1>6 DEF PlacesBound, Reporting
<1>11. ASSUME NEW q \in Path, at[q] # Free
       PROVE  Safe(q)' /\ Visited(q)' /\ Fit(q)'
  <2> DEFINE l == FirstLink(at[q].part)
  <2>1. /\ l \in Link /\ Safe(q) /\ Visited(q) /\ Fit(q)
        /\ l = <<RootOf[at[q].part[1]], 0>> /\ l[1] = RootOf[at[q].part[1]]
    BY <1>11, TakenPlace DEF Reporting
  <2>2. l = gone => Renewed(Coming, q) /\ devices[cur].link = l[1]
    BY <1>1, <2>1 DEF Safe
  <2>3. Safe(q)'
    BY <1>1, <1>3, <1>6, <2>1 DEF Safe
  <2>4. Visited(q)'
    <3>1. CASE \/ phase \in {"starting", "watching"} \/ q \in scan
               \/ Renewed(Coming, q)
      BY <1>1, <3>1 DEF Visited
    <3>2. CASE /\ at[q].stage # "made" /\ l # gone
               /\ Wanted(q) => \/ l \in displaced
                               \/ \E j \in ID : Staying(j) /\ devices[j].link = l[1]
      <4>1. Wanted(q)' => \/ l \in displaced'
                          \/ \E j \in ID : Staying(j)' /\ devices'[j].link = l[1]
        BY <1>4, <1>5, <1>8, <3>2
      <4>2. QED
        BY <1>1, <3>2, <4>1 DEF Visited
    <3>3. QED
      BY <1>2, <2>1, <2>2, <3>1, <3>2 DEF Visited
  <2>5. Fit(q)'
    <3>1. SUFFICES ASSUME Wanted(q), ~GoneIn(Coming, q), l \notin displaced',
                          \A r \in Path \ {q} : ~Bound(r, l),
                          NEW j \in ID, Staying(j)', devices'[j].link = l[1]
          PROVE  Good(j, q)'
      <4>1. \A r \in Path : Bound(r, l)' <=> Bound(r, l)
        BY <1>1, <1>6
      <4>2. QED
        BY <1>1, <1>2, <1>8, <4>1 DEF Fit
    <3>2. Staying(j) /\ j # cur /\ devices[j].link = l[1]
      BY <1>4, <3>1
    <3>3. l \notin displaced
      BY <1>5, <2>2, <3>1, <3>2
    <3>4. Good(j, q)
      BY <2>1, <3>1, <3>2, <3>3 DEF Fit
    <3>5. QED
      BY <1>7, <3>2, <3>4
  <2>6. QED
    BY <2>3, <2>4, <2>5
<1>12. QED
  BY <1>1, <1>9, <1>10, <1>11 DEF Reporting

----------------------------------------------------------------------------
(* All steps                                                               *)

LEMMA DaemonReports ==
    ASSUME WatchInv, Calm, Listening, Reporting, pc # "spinning", pc' # "spinning", Daemon
    PROVE  Reporting'
BY StartReports, ScanEntryReports, DispatchReports, LookReports, DiskLinkReports,
   VolumeLinkReports, ReportReports, DropReports
DEF Daemon

LEMMA StutterReports ==
    ASSUME Reporting, UNCHANGED vars
    PROVE  Reporting'
<1>1. /\ UNCHANGED <<coreVars, mapVars, job, placeVars>> /\ UNCHANGED Coming
      /\ UNCHANGED <<phase, scan>>
  BY DEF vars, eventVars, Coming
<1>2. QED
  BY <1>1, QuietReports

LEMMA FaultsStay == [WatchNext]_vars => UNCHANGED faults
<1>1. ASSUME World
      PROVE  UNCHANGED faults
  BY <1>1 DEF World, Plug, Unplug, MkDir, Mount, Umount, RmDir, LoseDirectory
<1>2. ASSUME Daemon \/ Die \/ StartAgain
      PROVE  UNCHANGED faults
  BY <1>2 DEF Daemon, SetUpWatch, OpenDirectory, ScanEntry, EnterMainLoop, Read, Dispatch,
              Look, DiskLink, VolumeLink, Report, Drop, Die, StartAgain, placeVars
<1>3. QED
  BY <1>1, <1>2 DEF WatchNext, vars, placeVars

LEMMA ReportInit == WatchInit => ReportInv
<1> SUFFICES ASSUME WatchInit PROVE ReportInv
  OBVIOUS
<1>1. /\ there /\ phase = "starting" /\ pc = "idle"
      /\ job = NoJob /\ mapped = NothingMapped
      /\ \A p \in Path : at[p] = Free
      /\ \A i \in ID : devices[i] = Absent
      /\ pending = <<>> /\ batch = <<>>
  BY DEF WatchInit, CoreInit, FdInit
<1>2. Coming = <<>>
  BY <1>1 DEF Coming
<1>3. Listening
  BY <1>1, <1>2 DEF Listening
<1>4. DrivesHeld
  BY <1>1 DEF DrivesHeld, Staying, Registered
<1>5. PlacesBound
  BY <1>1, JobFacts DEF PlacesBound, Bound
<1>6. QED
  BY <1>1, <1>3, <1>4, <1>5 DEF ReportInv, Reporting

LEMMA ReportStep == WatchInv /\ ReportInv /\ [WatchNext]_vars => ReportInv'
<1> SUFFICES ASSUME WatchInv, ReportInv, [WatchNext]_vars, Calm'
             PROVE  Listening' /\ (pc' # "spinning" => Reporting')
  BY DEF ReportInv, Calm
<1>1. Calm /\ Listening /\ (pc # "spinning" => Reporting)
  BY FaultsStay DEF Calm, ReportInv
<1>2. Listening'
  BY <1>1, ListeningStep
<1>3. ASSUME pc' # "spinning"
      PROVE  Reporting'
  <2>1. Reporting /\ pc # "spinning"
    BY <1>1, <1>3, SpinningStep
  <2>2. CASE World
    BY <1>1, <2>1, <2>2, WorldReports
  <2>3. CASE Daemon
    BY <1>1, <1>3, <2>1, <2>3, DaemonReports
  <2>4. CASE Die
    BY <1>1, <2>4, CalmFacts DEF Die, Listening
  <2>5. CASE StartAgain
    BY <1>1, <2>5 DEF StartAgain, Listening
  <2>6. CASE UNCHANGED vars
    BY <2>1, <2>6, StutterReports
  <2>7. QED
    BY <2>2, <2>3, <2>4, <2>5, <2>6 DEF WatchNext
<1>4. QED
  BY <1>2, <1>3

\* What somebody mounts is on its way to be reported, or is, for any number of
\* drives, names and directories: from the directory's event or the scan, over
\* the two looks at the drive (AllDevices::new_entry), to the signal.
THEOREM MountsOnTheirWay == WatchSpec => []ReportInv
<1>1. WatchInit => WatchInv /\ ReportInv
  BY WatchInitInv, ReportInit
<1>2. WatchInv /\ ReportInv /\ [WatchNext]_vars => (WatchInv /\ ReportInv)'
  BY WatchStepInv, ReportStep
<1>3. QED
  BY <1>1, <1>2, PTL DEF WatchSpec

LEMMA SettledReported ==
    ASSUME WatchInv, ReportInv, Calm, Settled, NEW p \in Path, Wanted(p),
           FirstLink(at[p].part) \notin displaced
    PROVE  LET k == IndexOf(at[p].part) IN
           \E i \in ID :
              /\ IsDevice(i, RootOf[at[p].part[1]])
              /\ <<i, k>> \in catVolumes /\ <<i, k, p>> \in shown
              /\ devices[i].vol[k].stem = at[p].stem
<1> DEFINE l == FirstLink(at[p].part)
           k == IndexOf(at[p].part)
<1>1. /\ phase = "running" /\ job.step = "none" /\ pc = "idle" /\ scan = {}
      /\ Coming = <<>> /\ UniqueLinks /\ ClientViewExact
  BY DEF Settled, WatchInv, PhaseRight, Coming
<1>2. /\ at[p] # Free /\ l \in Link /\ l[1] = RootOf[at[p].part[1]]
      /\ k \in Index
  BY WantedTaken, TakenPlace, PartIndex
<1>3. /\ ~GoneIn(Coming, p) /\ ~Renewed(Coming, p)
      /\ \A q : ~GoneBeforeNew(Coming, q, p)
  BY <1>1, NothingComing
<1>4. Safe(p) /\ Visited(p) /\ Fit(p)
  BY <1>1, <1>2 DEF ReportInv, Reporting, Calm
<1>5. PICK i \in ID : Staying(i) /\ devices[i].link = l[1]
  BY <1>1, <1>3, <1>4 DEF Visited
<1>6. \A q \in Path \ {p} : ~Bound(q, l)
  BY <1>3, <1>4 DEF Safe
<1>7. Good(i, p)
  BY <1>3, <1>4, <1>5, <1>6 DEF Fit
<1>8. /\ devices[i].vol[k] = [state |-> "MOUNTED", stem |-> at[p].stem]
      /\ <<i, k, p>> \in shown
  BY <1>1, <1>7 DEF Good
<1>9. IsDevice(i, RootOf[at[p].part[1]])
  <2>1. Registered(i) /\ devices[i].link = RootOf[at[p].part[1]]
    BY <1>2, <1>5 DEF Staying
  <2>2. ASSUME NEW j \in ID, Registered(j), devices[j].link = RootOf[at[p].part[1]]
        PROVE  i <= j
    <3>1. i = j
      BY <1>1, <2>1, <2>2 DEF UniqueLinks
    <3>2. QED
      BY <3>1, MaxIdAssumption DEF ID
  <2>3. QED
    BY <2>1, <2>2 DEF IsDevice
<1>10. <<i, k>> \in catVolumes
  <2>1. k \in Mounted(devices[i])
    BY <1>2, <1>8 DEF Mounted
  <2>2. QED
    BY <1>1, <1>2, <2>1 DEF ClientViewExact
<1>11. QED
  BY <1>8, <1>9, <1>10

\* So once all is quiet, clients know of each volume, and where it is.
COROLLARY VolumesAreReported == WatchSpec => []MountsReported
<1>1. WatchInv /\ ReportInv => MountsReported
  <2> SUFFICES ASSUME WatchInv, ReportInv, Calm, Settled, NEW p \in Path, Wanted(p),
                      <<RootOf[at[p].part[1]], 0>> \notin displaced
               PROVE  \E i \in ID :
                        /\ IsDevice(i, RootOf[at[p].part[1]])
                        /\ <<i, IndexOf(at[p].part)>> \in catVolumes
                        /\ <<i, IndexOf(at[p].part), p>> \in shown
                        /\ devices[i].vol[IndexOf(at[p].part)].stem = at[p].stem
    BY DEF MountsReported, Calm
  <2>1. FirstLink(at[p].part) = <<RootOf[at[p].part[1]], 0>>
    BY DEF FirstLink
  <2>2. QED
    BY <2>1, SettledReported
<1>2. QED
  BY <1>1, WatchInvariant, MountsOnTheirWay, PTL

=============================================================================
