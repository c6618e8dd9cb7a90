---------------------------- MODULE Mounta_proofs ----------------------------
(***************************************************************************)
(* The daemon in its world, for every number of disks, links and IDs and   *)
(* every set of faults.                                                    *)
(*                                                                         *)
(* It is the daemon: whatever disks, udev, inotify and signals do, the     *)
(* device manager takes steps of Automounter, so that all that is proved of*)
(* these holds in Mounta.  Of the world: the types of its variables, and   *)
(* that no device outlives its disk and no volume the node it was mounted  *)
(* from.                                                                   *)
(***************************************************************************)
EXTENDS Mounta, AutomounterSteps_proofs

Reported == [ev : {"NEW", "GONE"}, link : Link] \cup {[ev |-> "SHUTDOWN"]}

\* The part of the type invariant that makes the arguments of the handlers
\* arguments Automounter knows.
WorldOK ==
    /\ plugged \in [Disk -> Stem \cup {NoStem}]
    /\ byId \in [Link -> Stem \cup {NoStem}]
    /\ queue \in Seq(Reported)

WorldInv == CoreInv /\ WorldOK

\* A tool answers yes or no.
LEMMA AnswersType ==
    ASSUME NEW stem, NEW k
    PROVE  MountAnswers(stem, k) \subseteq BOOLEAN
BY DEF MountAnswers, Answers

LEMMA AnswerType ==
    ASSUME NEW l
    PROVE  Answer(l) \subseteq Outcome(byId[l])
BY DEF Answer

----------------------------------------------------------------------------
(* Every step is one of Automounter, or invisible to it                    *)

LEMMA EventFacts ==
    ASSUME WorldOK, queue # <<>>
    PROVE  /\ Head(queue).ev \in {"NEW", "GONE"} => Head(queue).link \in Link
           /\ Tail(queue) \in Seq(Reported)
<1>1. Head(queue) \in Reported /\ Tail(queue) \in Seq(Reported)
  BY DEF WorldOK
<1>2. QED
  BY <1>1 DEF Reported

LEMMA NewDeviceStep ==
    ASSUME WorldOK, NEW l \in Link, NEW o \in Answer(l),
           HandleNewDevice(l, byId[l], o)
    PROVE  CoreNext
<1>1. byId[l] \in Stem \cup {NoStem} /\ o \in Outcome(byId[l])
  BY AnswerType DEF WorldOK
<1>2. QED
  BY <1>1 DEF CoreNext

LEMMA DispatchStep ==
    ASSUME WorldOK, Dispatch
    PROVE  [CoreNext]_coreVars
<1>1. CASE \E o \in Answer(Head(queue).link) :
             /\ Head(queue).ev = "NEW"
             /\ HandleNewDevice(Head(queue).link, byId[Head(queue).link], o)
  <2>1. Head(queue).link \in Link
    BY <1>1, EventFacts DEF Dispatch
  <2>2. QED
    BY <1>1, <2>1, NewDeviceStep
<1>2. CASE Head(queue).ev = "GONE" /\ HandleRemovedDevice(Head(queue).link)
  <2>1. Head(queue).link \in Link
    BY <1>2, EventFacts DEF Dispatch
  <2>2. QED
    BY <1>2, <2>1 DEF CoreNext
<1>3. CASE Shutdown
  BY <1>3 DEF CoreNext
<1>4. CASE UNCHANGED coreVars
  BY <1>4
<1>5. QED
  BY <1>1, <1>2, <1>3, <1>4 DEF Dispatch

LEMMA GoOnStep ==
    ASSUME CoreInv, GoOn
    PROVE  CoreNext
<1>1. todo \subseteq Index
  BY DEF CoreInv, CoreTypeOK
<1>2. Continue
  BY <1>1, AnswersType DEF GoOn, Continue
<1>3. QED
  BY <1>2 DEF CoreNext

LEMMA WorldStep == ASSUME World PROVE UNCHANGED coreVars
BY DEF World, Plug, Unplug, MakeLink, RemoveLink, ChangePartition, LoseDirectory

LEMMA ExitStep == ASSUME Exit PROVE CoreNext
BY DEF Exit, CoreNext

LEMMA MountaStepIsCore ==
    ASSUME WorldInv, [MountaNext]_vars
    PROVE  [CoreNext]_coreVars
<1>1. CASE World
  BY <1>1, WorldStep
<1>2. CASE Daemon
  <2>1. CASE Connect \/ SetUpWatch \/ OpenDirectory \/ EnterMainLoop
    BY <2>1 DEF Connect, SetUpWatch, OpenDirectory, EnterMainLoop
  <2>2. CASE \E l \in Link : ScanEntry(l)
    BY <2>2, NewDeviceStep DEF ScanEntry, WorldInv
  <2>3. CASE Dispatch
    BY <2>3, DispatchStep DEF WorldInv
  <2>4. CASE GoOn
    BY <2>4, GoOnStep DEF WorldInv
  <2>5. QED
    BY <1>2, <2>1, <2>2, <2>3, <2>4 DEF Daemon
<1>3. CASE Signals
  BY <1>3, ExitStep
     DEF Signals, Terminate, SwallowSignal, HeedSignal, TerminateAgain
<1>4. CASE GiveUp \/ Kill
  BY <1>4, ExitStep DEF GiveUp, Kill
<1>5. CASE StartAgain
  BY <1>5 DEF StartAgain, CoreNext
<1>6. CASE UNCHANGED vars
  BY <1>6 DEF vars
<1>7. QED
  BY <1>1, <1>2, <1>3, <1>4, <1>5, <1>6 DEF MountaNext

----------------------------------------------------------------------------
(* The world keeps its types                                               *)

LEMMA NotifyType ==
    ASSUME WorldOK, NEW event \in Reported, Notify(event)
    PROVE  queue' \in Seq(Reported)
BY DEF Notify, WorldOK, eventVars

LEMMA WorldKeepsTypes ==
    ASSUME WorldOK, World
    PROVE  WorldOK'
<1>1. CASE \E d \in Disk, stem \in Stem : Plug(d, stem)
  BY <1>1 DEF WorldOK, Plug, loopVars, eventVars
<1>2. CASE \E d \in Disk : Unplug(d)
  BY <1>2 DEF WorldOK, Unplug, loopVars, eventVars
<1>3. CASE \E l \in Link : MakeLink(l)
  <2>1. PICK l \in Link : MakeLink(l)
    BY <1>3
  <2>2. Target(l) \in Stem \cup {NoStem}
    BY LinkAssumption DEF Target, WorldOK
  <2>3. New(l) \in Reported
    BY DEF Reported, New
  <2>4. queue' \in Seq(Reported)
    BY <2>1, <2>3, NotifyType DEF MakeLink
  <2>5. QED
    BY <2>1, <2>2, <2>4 DEF MakeLink, WorldOK
<1>4. CASE \E l \in Link : RemoveLink(l)
  <2>1. PICK l \in Link : RemoveLink(l)
    BY <1>4
  <2>2. Gone(l) \in Reported
    BY DEF Reported, Gone
  <2>3. queue' \in Seq(Reported)
    BY <2>1, <2>2, NotifyType DEF RemoveLink
  <2>4. QED
    BY <2>1, <2>3 DEF RemoveLink, WorldOK
<1>5. CASE \E l \in Partitions : ChangePartition(l)
  BY <1>5 DEF ChangePartition, WorldOK, loopVars, eventVars
<1>6. CASE LoseDirectory
  BY <1>6 DEF LoseDirectory, WorldOK, Reported
<1>7. QED
  BY <1>1, <1>2, <1>3, <1>4, <1>5, <1>6 DEF World

LEMMA DaemonKeepsTypes ==
    ASSUME WorldOK, [Daemon \/ Signals \/ GiveUp \/ Kill \/ StartAgain]_vars
    PROVE  WorldOK'
<1>1. UNCHANGED <<plugged, byId>>
  BY DEF Daemon, Connect, SetUpWatch, OpenDirectory, EnterMainLoop, ScanEntry,
         Dispatch, GoOn, Signals, Terminate, SwallowSignal, HeedSignal,
         TerminateAgain, GiveUp, Kill, StartAgain, Exit, worldVars, vars
<1>2. queue' \in {queue, <<>>} \/ (queue # <<>> /\ queue' = Tail(queue))
  BY DEF Daemon, Connect, SetUpWatch, OpenDirectory, EnterMainLoop, ScanEntry,
         Dispatch, GoOn, Signals, Terminate, SwallowSignal, HeedSignal,
         TerminateAgain, GiveUp, Kill, StartAgain, Exit, loopVars, eventVars, vars
<1>3. <<>> \in Seq(Reported)
  OBVIOUS
<1>4. queue' \in Seq(Reported)
  BY <1>2, <1>3, EventFacts DEF WorldOK
<1>5. QED
  BY <1>1, <1>4 DEF WorldOK

----------------------------------------------------------------------------
(* Together                                                                *)

LEMMA MountaInitInv == MountaInit => WorldInv
<1>1. MountaInit => CoreInv
  BY CoreInitInv DEF MountaInit
<1>2. MountaInit => WorldOK
  BY DEF MountaInit, WorldOK
<1>3. QED
  BY <1>1, <1>2 DEF WorldInv

LEMMA MountaStepInv == WorldInv /\ [MountaNext]_vars => WorldInv'
<1>1. SUFFICES ASSUME WorldInv, [MountaNext]_vars
               PROVE  WorldInv'
  OBVIOUS
<1>2. CoreInv'
  <2>1. [CoreNext]_coreVars
    BY <1>1, MountaStepIsCore
  <2>2. QED
    BY <1>1, <2>1, CoreStepInv DEF WorldInv
<1>3. WorldOK'
  <2>1. WorldOK
    BY <1>1 DEF WorldInv
  <2>2. World \/ [Daemon \/ Signals \/ GiveUp \/ Kill \/ StartAgain]_vars
    BY <1>1 DEF MountaNext
  <2>3. QED
    BY <2>1, <2>2, WorldKeepsTypes, DaemonKeepsTypes
<1>4. QED
  BY <1>2, <1>3 DEF WorldInv

LEMMA MountaInvariant == MountaSpec => []WorldInv
<1>1. QED
  BY MountaInitInv, MountaStepInv, PTL DEF MountaSpec

\* In its world, whatever disks are plugged in and pulled out, whatever fails
\* and whenever it is stopped or started, the device manager behaves as
\* Automounter says (main and handle_device_changes call its handlers, one at a
\* time, and nothing else).
THEOREM MountaImplementsCore == MountaSpec => CoreSpec
<1>1. MountaInit => CoreInit
  BY DEF MountaInit
<1>2. WorldInv /\ [MountaNext]_vars => [CoreNext]_coreVars
  BY MountaStepIsCore
<1>3. QED
  BY <1>1, <1>2, MountaInvariant, PTL DEF MountaSpec, CoreSpec

\* Hence what clients piece together is exactly what the daemon holds, in the
\* real order of events as in any other.
THEOREM MountaViewExact == MountaSpec => []ClientViewExact
<1>1. CoreInv => ClientViewExact
  BY DEF CoreInv
<1>2. QED
  BY <1>1, MountaImplementsCore, CoreInvariant, PTL

\* And the signals they receive are those of the abstract catalogue.
THEOREM MountaImplementsCatalog == MountaSpec => RefinesCatalog
<1>1. QED
  BY MountaImplementsCore, ImplementsCatalog


----------------------------------------------------------------------------
(* The queue: what adding an event, handling one and starting afresh do to  *)
(* what is still to be handled                                             *)

LEMMA EventsDiffer ==
    ASSUME NEW l, NEW m
    PROVE  /\ New(l) # Gone(m)
           /\ New(l) = New(m) <=> l = m
           /\ Gone(l) = Gone(m) <=> l = m
           /\ [ev |-> "SHUTDOWN"] # New(l) /\ [ev |-> "SHUTDOWN"] # Gone(l)
<1>1. New(l).ev = "NEW" /\ Gone(m).ev = "GONE" /\ Gone(l).ev = "GONE"
  BY DEF New, Gone
<1>2. New(l).link = l /\ New(m).link = m /\ Gone(l).link = l /\ Gone(m).link = m
  BY DEF New, Gone
<1>3. [ev |-> "SHUTDOWN"].ev = "SHUTDOWN"
  OBVIOUS
<1>4. QED
  BY <1>1, <1>2, <1>3

LEMMA NothingInEmpty ==
    ASSUME NEW l
    PROVE  ~GoneQueued(<<>>, l) /\ Withdrawn(<<>>, l) /\ ~Renewed(<<>>, l)
BY DEF GoneQueued, Withdrawn, Renewed

LEMMA AppendEvent ==
    ASSUME NEW q \in Seq(Reported), NEW e \in Reported, NEW l
    PROVE  /\ GoneQueued(Append(q, e), l) <=> GoneQueued(q, l) \/ e = Gone(l)
           /\ e = Gone(l) => Withdrawn(Append(q, e), l)
           /\ e # New(l) /\ Withdrawn(q, l) => Withdrawn(Append(q, e), l)
           /\ e = New(l) => Renewed(Append(q, e), l)
           /\ e # Gone(Root(l)) /\ Renewed(q, l) => Renewed(Append(q, e), l)
<1> DEFINE p == Append(q, e)
<1>1. /\ Len(q) \in Nat /\ Len(p) = Len(q) + 1 /\ p[Len(q) + 1] = e
      /\ \A k \in 1..Len(q) : p[k] = q[k]
  OBVIOUS
<1> HIDE DEF p
<1>2. GoneQueued(p, l) <=> GoneQueued(q, l) \/ e = Gone(l)
  BY <1>1 DEF GoneQueued
<1>3. e = Gone(l) => Withdrawn(p, l)
  BY <1>1, EventsDiffer DEF Withdrawn
<1>4. e # New(l) /\ Withdrawn(q, l) => Withdrawn(p, l)
  BY <1>1 DEF Withdrawn
<1>5. e = New(l) => Renewed(p, l)
  BY <1>1 DEF Renewed
<1>6. e # Gone(Root(l)) /\ Renewed(q, l) => Renewed(p, l)
  BY <1>1 DEF Renewed
<1>7. QED
  BY <1>2, <1>3, <1>4, <1>5, <1>6 DEF p

LEMMA HandleEvent ==
    ASSUME NEW q \in Seq(Reported), q # <<>>, NEW l
    PROVE  /\ GoneQueued(Tail(q), l) => GoneQueued(q, l)
           /\ GoneQueued(q, l) => GoneQueued(Tail(q), l) \/ Head(q) = Gone(l)
           /\ Withdrawn(q, l) => Withdrawn(Tail(q), l)
           /\ Withdrawn(q, l) /\ Head(q) = New(l) => GoneQueued(Tail(q), l)
           /\ Renewed(q, l) => \/ Renewed(Tail(q), l)
                               \/ Head(q) = New(l) /\ ~GoneQueued(Tail(q), Root(l))
<1> DEFINE p == Tail(q)
<1>1. /\ Len(q) \in Nat /\ Len(q) > 0 /\ Len(p) = Len(q) - 1 /\ Head(q) = q[1]
      /\ \A k \in 1..Len(p) : p[k] = q[k + 1]
  OBVIOUS
<1> HIDE DEF p
<1>2. GoneQueued(p, l) => GoneQueued(q, l)
  BY <1>1 DEF GoneQueued
<1>3. GoneQueued(q, l) => GoneQueued(p, l) \/ Head(q) = Gone(l)
  <2>1. ASSUME NEW k \in 1..Len(q), q[k] = Gone(l), k # 1
        PROVE  GoneQueued(p, l)
    <3>1. k - 1 \in 1..Len(p) /\ p[k - 1] = Gone(l)
      BY <1>1, <2>1
    <3>2. QED
      BY <3>1 DEF GoneQueued
  <2>2. QED
    BY <1>1, <2>1 DEF GoneQueued
<1>4. Withdrawn(q, l) => Withdrawn(p, l)
  <2>1. ASSUME Withdrawn(q, l), NEW k \in 1..Len(p), p[k] = New(l)
        PROVE  \E j \in (k + 1)..Len(p) : p[j] = Gone(l)
    <3>1. PICK j \in (k + 2)..Len(q) : q[j] = Gone(l)
      BY <1>1, <2>1 DEF Withdrawn
    <3>2. j - 1 \in (k + 1)..Len(p) /\ p[j - 1] = Gone(l)
      BY <1>1, <3>1
    <3>3. QED
      BY <3>2
  <2>2. QED
    BY <2>1 DEF Withdrawn
<1>5. Withdrawn(q, l) /\ Head(q) = New(l) => GoneQueued(p, l)
  <2>1. ASSUME Withdrawn(q, l), Head(q) = New(l)
        PROVE  \E j \in 2..Len(q) : q[j] = Gone(l)
    BY <1>1, <2>1 DEF Withdrawn
  <2>2. ASSUME NEW j \in 2..Len(q), q[j] = Gone(l)
        PROVE  GoneQueued(p, l)
    <3>1. j - 1 \in 1..Len(p) /\ p[j - 1] = Gone(l)
      BY <1>1, <2>2
    <3>2. QED
      BY <3>1 DEF GoneQueued
  <2>3. QED
    BY <2>1, <2>2
<1>6. Renewed(q, l) => \/ Renewed(p, l)
                       \/ Head(q) = New(l) /\ ~GoneQueued(p, Root(l))
  <2>1. SUFFICES ASSUME NEW k \in 1..Len(q), q[k] = New(l),
                        \A j \in (k + 1)..Len(q) : q[j] # Gone(Root(l))
                 PROVE  \/ Renewed(p, l)
                        \/ Head(q) = New(l) /\ ~GoneQueued(p, Root(l))
    BY DEF Renewed
  <2>2. CASE k = 1
    BY <1>1, <2>1, <2>2 DEF GoneQueued
  <2>3. CASE k # 1
    <3>1. k - 1 \in 1..Len(p) /\ p[k - 1] = New(l)
      BY <1>1, <2>1, <2>3
    <3>2. \A j \in ((k - 1) + 1)..Len(p) : p[j] # Gone(Root(l))
      BY <1>1, <2>1, <2>3
    <3>3. QED
      BY <3>1, <3>2 DEF Renewed
  <2>4. QED
    BY <2>2, <2>3
<1>7. QED
  BY <1>2, <1>3, <1>4, <1>5, <1>6 DEF p

\* What is seen of an event in the queue and of what the daemon missed.
LEMMA NotifyCases ==
    ASSUME NEW l, NEW event, event.link = l, Notify(event), Watched
    PROVE  \/ /\ queue' = Append(queue, event)
             /\ missed' = IF event = Gone(Root(l)) THEN missed \ {l[1]} ELSE missed
          \/ /\ queue' = queue /\ "overflow" \in faults
             /\ missed' = IF event.ev = "NEW" \/ l[2] = 0
                          THEN missed \cup {l[1]} ELSE missed
BY DEF Notify, Harmful, Root

LEMMA LinkFacts ==
    ASSUME NEW l \in Link
    PROVE  /\ l[1] \in Disk /\ l[2] \in Nat /\ l = <<l[1], l[2]>>
           /\ Root(l) \in Link /\ Root(l)[1] = l[1] /\ Root(l)[2] = 0
           /\ Root(Root(l)) = Root(l)
           /\ l[2] = 0 => l = Root(l)
           /\ l[2] # 0 => l \in Partitions
<1>1. PICK d \in Disk, n \in Nat : l = <<d, n>>
  BY LinkAssumption
<1>2. QED
  BY <1>1, RootLinkAssumption DEF Root, Partitions

----------------------------------------------------------------------------
(* Types                                                                   *)

\* What MountaTypeOK says beyond WorldOK.  Only the report that the watched
\* directory is gone, after which there is none, may exceed the queue's limit.
RestOK ==
    /\ faults \in FaultSets
    /\ parts \in SUBSET Partitions
    /\ Len(queue) <= QueueMax + 1 /\ (~lost => Len(queue) <= QueueMax)
    /\ missed \in SUBSET Disk
    /\ lost \in BOOLEAN
    /\ phase \in {"connecting", "starting", "watching", "scanning", "running",
                  "stopped"}
    /\ told \in {"no", "pending", "swallowed"}
    /\ scan \in SUBSET Link
    /\ plugs \in 0..MaxPlugs /\ edits \in 0..MaxEdits

LEMMA TypesTogether == WorldOK /\ RestOK => MountaTypeOK
<1>1. SUFFICES ASSUME WorldOK, RestOK PROVE MountaTypeOK
  OBVIOUS
<1>2. \A k \in 1..Len(queue) : queue[k] \in Reported
  BY <1>1 DEF WorldOK
<1>3. QED
  BY <1>1, <1>2 DEF WorldOK, RestOK, MountaTypeOK, Reported

LEMMA RestInit == MountaInit => RestOK
<1>1. SUFFICES ASSUME MountaInit PROVE RestOK
  OBVIOUS
<1>2. Len(queue) = 0 /\ QueueMax \in Nat
  BY <1>1, BoundsAssumption DEF MountaInit
<1>3. plugs \in 0..MaxPlugs /\ edits \in 0..MaxEdits
  BY <1>1, BoundsAssumption DEF MountaInit
<1>4. Len(queue) <= QueueMax /\ Len(queue) <= QueueMax + 1
  BY <1>2
<1>5. lost \in BOOLEAN
  BY <1>1 DEF MountaInit
<1>6. QED
  BY <1>1, <1>3, <1>4, <1>5 DEF MountaInit, RestOK

LEMMA NotifyRest ==
    ASSUME WorldOK, RestOK, NEW l \in Link, NEW event \in {New(l), Gone(l)},
           Notify(event), lost' = lost
    PROVE  /\ Len(queue') <= QueueMax + 1 /\ (~lost' => Len(queue') <= QueueMax)
           /\ missed' \in SUBSET Disk
<1>1. l[1] \in Disk /\ event.link = l /\ event \in Reported
  BY LinkFacts DEF New, Gone, Reported
<1>2. Len(Append(queue, event)) = Len(queue) + 1 /\ Len(queue) \in Nat
  BY <1>1 DEF WorldOK
<1>3. QED
  BY <1>1, <1>2, BoundsAssumption DEF Notify, RestOK, eventVars, Watched

LEMMA WorldKeepsRest == ASSUME WorldOK, RestOK, World PROVE RestOK'
<1>1. CASE \E d \in Disk, stem \in Stem : Plug(d, stem)
  BY <1>1, BoundsAssumption DEF Plug, RestOK, loopVars, eventVars
<1>2. CASE \E d \in Disk : Unplug(d)
  BY <1>2 DEF Unplug, RestOK, loopVars, eventVars
<1>3. ASSUME NEW l \in Link, MakeLink(l) PROVE RestOK'
  <2>1. /\ Len(queue') <= QueueMax + 1 /\ (~lost' => Len(queue') <= QueueMax)
        /\ missed' \in SUBSET Disk
    BY <1>3, NotifyRest DEF MakeLink
  <2>2. QED
    BY <1>3, <2>1 DEF MakeLink, RestOK
<1>4. ASSUME NEW l \in Link, RemoveLink(l) PROVE RestOK'
  <2>1. /\ Len(queue') <= QueueMax + 1 /\ (~lost' => Len(queue') <= QueueMax)
        /\ missed' \in SUBSET Disk
    BY <1>4, NotifyRest DEF RemoveLink
  <2>2. QED
    BY <1>4, <2>1 DEF RemoveLink, RestOK
<1>5. CASE \E l \in Partitions : ChangePartition(l)
  BY <1>5, BoundsAssumption DEF ChangePartition, RestOK, loopVars, eventVars
<1>6. CASE LoseDirectory
  <2>1. Len(queue') = Len(queue) + 1 /\ Len(queue) \in Nat
    BY <1>6 DEF LoseDirectory, WorldOK, Reported
  <2>2. QED
    BY <1>6, <2>1, BoundsAssumption DEF LoseDirectory, RestOK, Watched
<1>7. QED
  BY <1>1, <1>2, <1>3, <1>4, <1>5, <1>6 DEF World

LEMMA DaemonKeepsRest ==
    ASSUME WorldOK, RestOK, [Daemon \/ Signals \/ GiveUp \/ Kill \/ StartAgain]_vars
    PROVE  RestOK'
<1>1. UNCHANGED <<faults, parts, plugs, edits>>
  BY DEF Daemon, Connect, SetUpWatch, OpenDirectory, EnterMainLoop, ScanEntry,
         Dispatch, GoOn, Signals, Terminate, SwallowSignal, HeedSignal,
         TerminateAgain, GiveUp, Kill, StartAgain, Exit, worldVars, vars
<1>2. Len(queue') <= Len(queue) /\ Len(queue') \in Nat
  <2>1. queue' \in {queue, <<>>} \/ (queue # <<>> /\ queue' = Tail(queue))
    BY DEF Daemon, Connect, SetUpWatch, OpenDirectory, EnterMainLoop, ScanEntry,
           Dispatch, GoOn, Signals, Terminate, SwallowSignal, HeedSignal,
           TerminateAgain, GiveUp, Kill, StartAgain, Exit, loopVars, eventVars, vars
  <2>2. queue \in Seq(Reported)
    BY DEF WorldOK
  <2>3. QED
    BY <2>1, <2>2
<1>3. lost' = lost \/ (lost' = FALSE /\ queue' = <<>>)
  BY DEF Daemon, Connect, SetUpWatch, OpenDirectory, EnterMainLoop, ScanEntry,
         Dispatch, GoOn, Signals, Terminate, SwallowSignal, HeedSignal,
         TerminateAgain, GiveUp, Kill, StartAgain, Exit, worldVars, vars
<1>4. missed' = missed \/ missed' = {}
  BY DEF Daemon, Connect, SetUpWatch, OpenDirectory, EnterMainLoop, ScanEntry,
         Dispatch, GoOn, Signals, Terminate, SwallowSignal, HeedSignal,
         TerminateAgain, GiveUp, Kill, StartAgain, Exit, loopVars, eventVars, vars
<1>5. /\ phase' \in {"connecting", "starting", "watching", "scanning", "running",
                     "stopped"}
      /\ told' \in {"no", "pending", "swallowed"}
      /\ scan' \in SUBSET Link
  BY DEF RestOK, Daemon, Connect, SetUpWatch, OpenDirectory, EnterMainLoop, ScanEntry,
         Dispatch, GoOn, Signals, Terminate, SwallowSignal, HeedSignal,
         TerminateAgain, GiveUp, Kill, StartAgain, Exit, loopVars, vars
<1>6. Len(queue) \in Nat /\ QueueMax \in Nat
  BY BoundsAssumption DEF WorldOK
<1>7. Len(queue') <= QueueMax + 1
  BY <1>2, <1>6 DEF RestOK
<1>8. ~lost' => Len(queue') <= QueueMax
  <2>1. CASE lost' = lost
    BY <1>2, <1>6, <2>1 DEF RestOK
  <2>2. CASE queue' = <<>>
    BY <1>6, <2>2
  <2>3. QED
    BY <1>3, <2>1, <2>2
<1>9. lost' \in BOOLEAN /\ missed' \in SUBSET Disk
  BY <1>3, <1>4 DEF RestOK
<1>10. QED
  BY <1>1, <1>5, <1>7, <1>8, <1>9 DEF RestOK

LEMMA RestStep == WorldInv /\ RestOK /\ [MountaNext]_vars => RestOK'
<1>1. SUFFICES ASSUME WorldInv, RestOK, [MountaNext]_vars PROVE RestOK'
  OBVIOUS
<1>2. WorldOK
  BY <1>1 DEF WorldInv
<1>3. World \/ [Daemon \/ Signals \/ GiveUp \/ Kill \/ StartAgain]_vars
  BY <1>1 DEF MountaNext
<1>4. QED
  BY <1>1, <1>2, <1>3, WorldKeepsRest, DaemonKeepsRest

\* The types of the world's variables and of the loop's, whatever the bounds
\* on plugging, editing and queueing: of all events only the report that the
\* directory is gone may be one more than the queue holds.
THEOREM MountaTypesAreRight == MountaSpec => []MountaTypeOK
<1>1. MountaSpec => []RestOK
  BY RestInit, RestStep, MountaInvariant, PTL DEF MountaSpec
<1>2. WorldInv /\ RestOK => MountaTypeOK
  BY TypesTogether DEF WorldInv
<1>3. QED
  BY <1>1, <1>2, MountaInvariant, PTL

----------------------------------------------------------------------------
(* The start, and the links                                                *)

LEMMA TraceInit == MountaInit => TraceInv
<1>1. SUFFICES ASSUME MountaInit PROVE TraceInv
  OBVIOUS
<1>2. \A i \in ID : ~Registered(i)
  BY <1>1 DEF MountaInit, CoreInit, Registered
<1>3. FreshStart
  BY <1>1, <1>2 DEF MountaInit, CoreInit, FreshStart
<1>4. LinksAgree
  BY <1>1 DEF MountaInit, LinksAgree
<1>5. RemovalsFollow
  BY <1>1 DEF MountaInit, RemovalsFollow, Watched
<1>6. DevicesTraced
  BY <1>2 DEF DevicesTraced
<1>7. QED
  BY <1>3, <1>4, <1>5, <1>6 DEF TraceInv

\* The handlers run only once the directory is being scanned.
LEMMA FreshStartStep ==
    ASSUME WorldInv, FreshStart, [MountaNext]_vars
    PROVE  FreshStart'
<1>1. CASE UNCHANGED <<phase, pc, devices, scan>>
  BY <1>1 DEF FreshStart, Registered
<1>2. CASE World
  <2>1. UNCHANGED <<phase, pc, devices>>
    BY <1>2 DEF World, Plug, Unplug, MakeLink, RemoveLink, ChangePartition,
       LoseDirectory, coreVars, loopVars
  <2>2. phase # "scanning" => scan' = scan
    BY <1>2 DEF World, Plug, Unplug, MakeLink, RemoveLink, ChangePartition,
       LoseDirectory, coreVars, loopVars
  <2>3. QED
    BY <2>1, <2>2 DEF FreshStart, Registered
<1>3. CASE Connect \/ SetUpWatch \/ OpenDirectory \/ EnterMainLoop
  BY <1>3 DEF FreshStart, Registered, Connect, SetUpWatch, OpenDirectory,
     EnterMainLoop, coreVars
<1>4. CASE \E l \in Link : ScanEntry(l)
  BY <1>4 DEF FreshStart, ScanEntry
<1>5. CASE Dispatch
  BY <1>5 DEF FreshStart, Dispatch
<1>6. CASE GoOn
  <2>1. pc \in {"mount", "drop"} /\ UNCHANGED <<phase, scan>>
    BY <1>6 DEF GoOn, MountVolume, DropVolume, DropDevice, loopVars
  <2>2. QED
    BY <2>1 DEF FreshStart
<1>7. CASE Exit
  BY <1>7 DEF FreshStart, Exit
<1>8. CASE Terminate \/ SwallowSignal
  BY <1>1, <1>8 DEF Terminate, SwallowSignal, coreVars
<1>9. CASE StartAgain
  BY <1>9 DEF FreshStart, StartAgain, Restart, Registered
<1>10. CASE UNCHANGED vars
  BY <1>1, <1>10 DEF vars, coreVars, loopVars
<1>11. QED
  BY <1>2, <1>3, <1>4, <1>5, <1>6, <1>7, <1>8, <1>9, <1>10
  DEF MountaNext, Daemon, Signals, HeedSignal, TerminateAgain, GiveUp, Kill

LEMMA OnlyWorldMovesDisks ==
    ASSUME [MountaNext]_vars
    PROVE  World \/ UNCHANGED <<faults, plugged, parts, byId>>
BY DEF MountaNext, Daemon, Connect, SetUpWatch, OpenDirectory, EnterMainLoop,
       ScanEntry, Dispatch, GoOn, Signals, Terminate, SwallowSignal, HeedSignal,
       TerminateAgain, GiveUp, Kill, StartAgain, Exit, worldVars, vars

\* A partition's link is made after, and removed before, that of its disk.
LEMMA LinksAgreeStep ==
    ASSUME WorldInv, LinksAgree, [MountaNext]_vars
    PROVE  LinksAgree'
<1>1. CASE UNCHANGED <<faults, plugged, byId>>
  BY <1>1 DEF LinksAgree
<1>2. ASSUME NEW d \in Disk, NEW stem \in Stem, Plug(d, stem) PROVE LinksAgree'
  <2>1. /\ UNCHANGED <<faults, byId>>
        /\ \A e \in Disk : e # d => plugged'[e] = plugged[e]
        /\ "takeover" \notin faults => \A l \in Link : l[1] = d => byId[l] = NoStem
    BY <1>2 DEF Plug
  <2>2. QED
    BY <2>1, LinkFacts DEF LinksAgree
<1>3. ASSUME NEW d \in Disk, Unplug(d) PROVE LinksAgree'
  <2>1. /\ UNCHANGED <<faults, byId>>
        /\ \A e \in Disk : plugged'[e] = IF e = d THEN NoStem ELSE plugged[e]
    BY <1>3 DEF Unplug, WorldInv, WorldOK
  <2>2. QED
    BY <2>1, LinkFacts DEF LinksAgree
<1>4. ASSUME NEW m \in Link, MakeLink(m) PROVE LinksAgree'
  <2>1. /\ UNCHANGED <<faults, plugged>>
        /\ \A l \in Link : byId'[l] = IF l = m THEN Target(m) ELSE byId[l]
        /\ Target(m) \notin {NoStem, byId[m]} /\ Target(m) = plugged[m[1]]
        /\ m[2] > 0 /\ "disorder" \notin faults => byId[Root(m)] = Target(Root(m))
    BY <1>4 DEF MakeLink, WorldInv, WorldOK, Target
  <2>2. ASSUME NEW l \in Link, byId'[l] # NoStem, "disorder" \notin faults
        PROVE  /\ byId'[Root(l)] # NoStem
               /\ "takeover" \notin faults =>
                     byId'[Root(l)] = byId'[l] /\ plugged[l[1]] \in {NoStem, byId'[l]}
    <3>1. CASE l = m
      <4>1. Target(Root(m)) = plugged[m[1]]
        BY LinkFacts DEF Target
      <4>2. CASE m[2] = 0
        BY <2>1, <3>1, <4>2, LinkFacts
      <4>3. CASE m[2] > 0
        BY <2>1, <2>2, <3>1, <4>1, <4>3, LinkFacts
      <4>4. QED
        BY <4>2, <4>3, LinkFacts
    <3>2. CASE l # m
      <4>1. /\ byId'[l] = byId[l] /\ byId[Root(l)] # NoStem
            /\ "takeover" \notin faults =>
                  byId[Root(l)] = byId[l] /\ plugged[l[1]] \in {NoStem, byId[l]}
        BY <2>1, <2>2, <3>2 DEF LinksAgree
      <4>2. CASE Root(l) = m
        BY <2>1, <4>1, <4>2, LinkFacts
      <4>3. CASE Root(l) # m
        BY <2>1, <4>1, <4>3, LinkFacts
      <4>4. QED
        BY <4>2, <4>3
    <3>3. QED
      BY <3>1, <3>2
  <2>3. QED
    BY <2>1, <2>2 DEF LinksAgree
<1>5. ASSUME NEW m \in Link, RemoveLink(m) PROVE LinksAgree'
  <2>1. /\ UNCHANGED <<faults, plugged>>
        /\ \A l \in Link : byId'[l] = IF l = m THEN NoStem ELSE byId[l]
        /\ m[2] = 0 /\ "disorder" \notin faults =>
              \A p \in Partitions : p[1] = m[1] => byId[p] = NoStem
    BY <1>5 DEF RemoveLink, WorldInv, WorldOK
  <2>2. ASSUME NEW l \in Link, byId'[l] # NoStem, "disorder" \notin faults
        PROVE  Root(l) # m
    BY <2>1, <2>2, LinkFacts
  <2>3. QED
    BY <2>1, <2>2, LinkFacts DEF LinksAgree
<1>6. CASE (\E l \in Partitions : ChangePartition(l)) \/ LoseDirectory
  BY <1>1, <1>6 DEF ChangePartition, LoseDirectory
<1>7. QED
  BY <1>1, <1>2, <1>3, <1>4, <1>5, <1>6, OnlyWorldMovesDisks DEF World

----------------------------------------------------------------------------
(* The queue                                                               *)

\* What the loop does to the queue while the directory is watched.
LEMMA LoopEvents ==
    ASSUME FreshStart, ~World, [MountaNext]_vars, Watched'
    PROVE  /\ UNCHANGED <<faults, plugged, parts, byId, lost>>
           /\ \/ SetUpWatch
              \/ Watched /\ UNCHANGED <<queue, missed>>
              \/ /\ Watched /\ UNCHANGED missed /\ scan' = {} /\ scan = {}
                 /\ queue # <<>> /\ queue' = Tail(queue)
<1>1. UNCHANGED <<faults, plugged, parts, byId>>
  BY OnlyWorldMovesDisks
<1>2. ~Exit /\ ~StartAgain /\ ~Connect
  BY DEF Exit, StartAgain, Connect, Watched
<1>3. CASE SetUpWatch
  BY <1>1, <1>3 DEF SetUpWatch, worldVars
<1>4. CASE OpenDirectory \/ EnterMainLoop
  BY <1>1, <1>4 DEF OpenDirectory, EnterMainLoop, worldVars, eventVars, Watched
<1>5. CASE \E l \in Link : ScanEntry(l)
  BY <1>1, <1>5 DEF ScanEntry, worldVars, eventVars, Watched
<1>6. CASE Dispatch
  BY <1>1, <1>6 DEF Dispatch, worldVars, Watched, FreshStart
<1>7. CASE GoOn
  BY <1>1, <1>7 DEF GoOn, worldVars, loopVars, eventVars, Watched
<1>8. CASE Terminate \/ SwallowSignal
  BY <1>1, <1>8 DEF Terminate, SwallowSignal, worldVars, eventVars, Watched
<1>9. CASE UNCHANGED vars
  BY <1>1, <1>9 DEF vars, worldVars, loopVars, eventVars, Watched
<1>10. QED
  BY <1>2, <1>3, <1>4, <1>5, <1>6, <1>7, <1>8, <1>9
  DEF MountaNext, Daemon, Signals, HeedSignal, TerminateAgain, GiveUp, Kill

LEMMA RemovalsFollowStep ==
    ASSUME WorldInv, FreshStart, RemovalsFollow, [MountaNext]_vars
    PROVE  RemovalsFollow'
<1>1. queue \in Seq(Reported)
  BY DEF WorldInv, WorldOK
<1>2. SUFFICES ASSUME Watched', NEW l \in Link, l[2] = 0, l[1] \notin missed',
                      byId'[l] = NoStem
               PROVE  /\ Withdrawn(queue', l)
                      /\ l \in scan' => GoneQueued(queue', l)
  BY DEF RemovalsFollow
<1>3. l = Root(l)
  BY <1>2, LinkFacts
<1>4. ASSUME Watched, l[1] \notin missed, byId[l] = NoStem
      PROVE  Withdrawn(queue, l) /\ (l \in scan => GoneQueued(queue, l))
  BY <1>2, <1>4 DEF RemovalsFollow
<1>5. ASSUME NEW m \in Link, MakeLink(m)
      PROVE  /\ Withdrawn(queue', l)
             /\ l \in scan' => GoneQueued(queue', l)
  <2>1. /\ Watched /\ Notify(New(m)) /\ scan' \in {scan, scan \cup {m}}
        /\ \A n \in Link : byId'[n] = IF n = m THEN Target(m) ELSE byId[n]
        /\ Target(m) # NoStem
    BY <1>2, <1>5 DEF MakeLink, Watched, WorldInv, WorldOK
  <2>2. l # m /\ byId[l] = NoStem
    BY <1>2, <2>1
  <2>3. New(m) # Gone(Root(m)) /\ New(m).link = m /\ New(m) \in Reported
    BY EventsDiffer DEF New, Reported
  <2>4. \/ queue' = Append(queue, New(m)) /\ missed' = missed
        \/ queue' = queue /\ missed \subseteq missed'
    BY <2>1, <2>3, NotifyCases
  <2>5. l[1] \notin missed
    BY <1>2, <2>4
  <2>6. Withdrawn(queue, l) /\ (l \in scan => GoneQueued(queue, l))
    BY <1>4, <2>1, <2>2, <2>5
  <2>7. New(m) # New(l)
    BY <2>2, EventsDiffer
  <2>8. /\ GoneQueued(queue, l) => GoneQueued(Append(queue, New(m)), l)
        /\ Withdrawn(queue, l) => Withdrawn(Append(queue, New(m)), l)
    BY <1>1, <2>3, <2>7, AppendEvent
  <2>9. QED
    BY <2>1, <2>2, <2>4, <2>6, <2>8
<1>6. ASSUME NEW m \in Link, RemoveLink(m)
      PROVE  /\ Withdrawn(queue', l)
             /\ l \in scan' => GoneQueued(queue', l)
  <2>1. /\ Watched /\ Notify(Gone(m)) /\ scan' = scan
        /\ \A n \in Link : byId'[n] = IF n = m THEN NoStem ELSE byId[n]
    BY <1>2, <1>6 DEF RemoveLink, Watched, WorldInv, WorldOK
  <2>2. Gone(m).link = m /\ Gone(m) \in Reported /\ Gone(m) # New(l)
    BY EventsDiffer DEF Gone, Reported
  <2>3. \/ /\ queue' = Append(queue, Gone(m))
           /\ missed' = IF Gone(m) = Gone(Root(m)) THEN missed \ {m[1]} ELSE missed
        \/ /\ queue' = queue
           /\ missed' = IF Gone(m).ev = "NEW" \/ m[2] = 0
                        THEN missed \cup {m[1]} ELSE missed
    BY <2>1, <2>2, NotifyCases
  <2> DEFINE q == Append(queue, Gone(m))
  <2>4. /\ GoneQueued(queue, l) => GoneQueued(q, l)
        /\ Withdrawn(queue, l) => Withdrawn(q, l)
        /\ l = m => GoneQueued(q, l) /\ Withdrawn(q, l)
    BY <1>1, <2>2, AppendEvent
  <2> HIDE DEF q
  <2>5. CASE l = m
    <3>1. queue' = q
      BY <1>2, <2>3, <2>5 DEF q
    <3>2. QED
      BY <2>5, <2>4, <3>1
  <2>6. CASE l # m
    <3>1. byId[l] = NoStem
      BY <1>2, <2>1, <2>6
    <3>2. Gone(m) = Gone(Root(m)) => m[1] # l[1]
      BY <1>3, <2>6, EventsDiffer DEF Root
    <3>3. l[1] \notin missed
      BY <1>2, <2>3, <3>2
    <3>4. Withdrawn(queue, l) /\ (l \in scan => GoneQueued(queue, l))
      BY <1>4, <2>1, <3>1, <3>3
    <3>5. queue' \in {queue, q}
      BY <2>3 DEF q
    <3>6. QED
      BY <2>1, <2>4, <3>4, <3>5
  <2>7. QED
    BY <2>5, <2>6
<1>7. CASE World
  <2>1. ~LoseDirectory
    BY <1>2 DEF LoseDirectory, Watched
  <2>2. CASE UNCHANGED <<phase, lost, queue, missed, scan, byId>>
    BY <1>2, <1>4, <2>2 DEF Watched
  <2>3. QED
    BY <1>5, <1>6, <1>7, <2>1, <2>2
    DEF World, Plug, Unplug, ChangePartition, loopVars, eventVars
<1>8. CASE ~World
  <2>1. byId[l] = NoStem
    BY <1>2, <1>8, LoopEvents
  <2>2. l \in scan' => l \in scan
    BY <1>2, <1>8, <2>1, LoopEvents DEF MountaNext, Daemon, Connect, SetUpWatch,
       OpenDirectory, EnterMainLoop, ScanEntry, Dispatch, GoOn, Signals, Terminate,
       SwallowSignal, HeedSignal, TerminateAgain, GiveUp, Kill, StartAgain, Exit,
       loopVars, vars
  <2>3. CASE SetUpWatch
    BY <2>3, NothingInEmpty DEF SetUpWatch, FreshStart
  <2>4. CASE Watched /\ UNCHANGED <<queue, missed>>
    BY <1>2, <1>4, <2>1, <2>2, <2>4
  <2>5. CASE Watched /\ UNCHANGED missed /\ scan' = {} /\ queue # <<>> /\ queue' = Tail(queue)
    BY <1>1, <1>2, <1>4, <2>1, <2>5, HandleEvent
  <2>6. QED
    BY <1>2, <1>8, <2>3, <2>4, <2>5, LoopEvents
<1>9. QED
  BY <1>7, <1>8

----------------------------------------------------------------------------
(* The devices                                                             *)

\* A link is handled, by the scan or from the queue.
LEMMA NewDeviceTraced ==
    ASSUME WorldInv, TraceInv, Watched' => Watched,
           UNCHANGED <<faults, byId, missed>>,
           NEW l \in Link, NEW o \in Answer(l), HandleNewDevice(l, byId[l], o),
           Watched /\ l[2] = 0 /\ l[1] \notin missed /\ byId[l] = NoStem
             => GoneQueued(queue', l),
           \A m \in Link : GoneQueued(queue, m) => GoneQueued(queue', m)
    PROVE  DevicesTraced'
<1> DEFINE stem == byId[l]
<1>1. /\ stem \in Stem \cup {NoStem} /\ o \in Outcome(stem)
      /\ stem = NoStem => ~o.info
  BY AnswerType DEF WorldInv, WorldOK, Outcome
<1>2. CoreInv /\ LinksAgree /\ DevicesTraced
  BY DEF WorldInv, TraceInv
<1>3. pc = "idle"
  BY <1>1, <1>2, NewDeviceHandled
<1>4. ASSUME NEW j \in ID, devices'[j] = devices[j], pc' # "drop",
             Registered(j)'
      PROVE  Traced(j)'
  <2>1. Traced(j)
    BY <1>2, <1>4 DEF DevicesTraced, Registered
  <2>2. ~Dropping(j)
    BY <1>3 DEF Dropping
  <2>3. /\ devices[j].link # Unnamed => <<devices[j].link, 0>> \in Link
        /\ devices[j].link = Unnamed => devices[j].state = "SYNTHETIC"
    BY <2>1 DEF Traced
  <2>4. QED
    BY <1>4, <2>1, <2>2, <2>3 DEF Traced
<1>5. CASE devices' = devices /\ pc' \in {"idle", "spinning"}
  BY <1>4, <1>5 DEF DevicesTraced
<1>6. ASSUME NEW i \in ID, Handled(i, l, stem, o)
      PROVE  DevicesTraced'
  <2>1. /\ pc' \in {"idle", "mount"}
        /\ \A j \in ID : j # i => devices'[j] = devices[j]
        /\ devices'[i].link = DeviceName(l, stem)
        /\ Registered(i) => devices[i].link = devices'[i].link
    BY <1>6 DEF Handled
  <2>2. ASSUME NEW k \in Index
         PROVE  \/ devices'[i].vol[k] = devices[i].vol[k]
                \/ o.info /\ devices'[i].vol[k] = [state |-> "PENDING", stem |-> stem]
    BY <1>6 DEF Handled
  <2>3. ASSUME Number(l, stem) # 0
         PROVE  /\ devices[i].state \in {"absent", "SYNTHETIC"}
                     => devices'[i].state = "SYNTHETIC"
                /\ ~o.info => Registered(i)
    BY <1>6, <2>3 DEF Handled
  <2> DEFINE was == devices[i]
             is == devices'[i]
             name == is.link
             root == <<name, 0>>
  <2>4. /\ l[1] \in Disk /\ l[1] # Unnamed /\ Root(l) \in Link /\ Root(l) = <<l[1], 0>>
        /\ l[2] = 0 => l = Root(l)
        /\ Number(l, stem) = 0 => l[2] = 0
    BY <1>1, LinkFacts, NumberType, SentinelAssumption DEF Root
  <2>5. ~Registered(i) => was.state = "absent" /\ \A k \in Index : was.vol[k] = NoVolume
    BY SentinelFacts DEF Registered
  <2>6. Registered(i) => Traced(i)
    BY <1>2 DEF DevicesTraced
  <2>7. name = Unnamed => Number(l, stem) # 0 /\ is.state = "SYNTHETIC"
    <3>1. SUFFICES ASSUME name = Unnamed
                   PROVE  Number(l, stem) # 0 /\ was.state \in {"absent", "SYNTHETIC"}
      BY <2>3
    <3>2. Number(l, stem) # 0
      BY <2>1, <2>4, <3>1 DEF DeviceName
    <3>3. QED
      BY <2>1, <2>5, <2>6, <3>1, <3>2 DEF Traced
  <2>8. name # Unnamed => name = l[1] /\ root = Root(l)
    BY <2>1, <2>4 DEF DeviceName, RootName
  <2>9. ASSUME Watched', name # Unnamed, name \notin missed, ~GoneQueued(queue', root)
        PROVE  /\ \/ byId[root] # NoStem
                  \/ "disorder" \in faults /\ is.state = "SYNTHETIC"
               /\ faults \cap {"takeover", "disorder"} = {} =>
                     \A k \in Volumes(is) : is.vol[k].stem = byId[root]
    <3>1. ~GoneQueued(queue, root) /\ name = l[1] /\ root = Root(l)
      BY <2>4, <2>8, <2>9
    <3>2. Registered(i) =>
            /\ \/ byId[root] # NoStem
               \/ "disorder" \in faults /\ was.state = "SYNTHETIC"
            /\ faults \cap {"takeover", "disorder"} = {} =>
                  \A k \in Volumes(was) : was.vol[k].stem = byId[root]
      BY <1>3, <2>1, <2>6, <2>9, <3>1 DEF Traced, Dropping
    <3>3. \/ byId[root] # NoStem
          \/ "disorder" \in faults /\ is.state = "SYNTHETIC"
      <4>1. CASE Number(l, stem) = 0
        BY <2>4, <2>9, <3>1, <4>1
      <4>2. CASE Number(l, stem) # 0 /\ Registered(i)
        BY <2>3, <3>2, <4>2
      <4>3. CASE Number(l, stem) # 0 /\ ~Registered(i)
        <5>1. byId[l] # NoStem /\ is.state = "SYNTHETIC"
          BY <1>1, <2>3, <2>5, <4>3
        <5>2. QED
          BY <1>2, <3>1, <5>1 DEF LinksAgree
      <4>4. QED
        BY <4>1, <4>2, <4>3
    <3>4. ASSUME faults \cap {"takeover", "disorder"} = {}, NEW k \in Volumes(is)
          PROVE  is.vol[k].stem = byId[root]
      <4>1. k \in Index /\ is.vol[k] # NoVolume
        BY <3>4 DEF Volumes
      <4>2. CASE is.vol[k] = was.vol[k]
        BY <2>5, <3>2, <3>4, <4>1, <4>2 DEF Volumes
      <4>3. CASE o.info /\ is.vol[k] = [state |-> "PENDING", stem |-> stem]
        <5>1. byId[l] # NoStem /\ is.vol[k].stem = byId[l]
          BY <1>1, <4>3
        <5>2. QED
          BY <1>2, <3>1, <3>4, <5>1 DEF LinksAgree
      <4>4. QED
        BY <2>2, <4>1, <4>2, <4>3
    <3>5. QED
      BY <3>3, <3>4
  <2>10. Traced(i)'
    <3>1. ~Dropping(i)'
      BY <2>1 DEF Dropping
    <3>2. name # Unnamed => root \in Link
      BY <2>4, <2>8
    <3>3. QED
      BY <2>7, <2>9, <3>1, <3>2 DEF Traced
  <2>11. QED
    BY <1>4, <2>1, <2>10 DEF DevicesTraced
<1>7. QED
  BY <1>1, <1>2, <1>5, <1>6, NewDeviceHandled

\* A device that is not touched stays traced as long as its link is.
LEMMA TracedKept ==
    ASSUME NEW i \in ID, Traced(i), faults' = faults,
           devices'[i].link = devices[i].link, devices'[i].state = devices[i].state,
           /\ Watched' /\ ~Dropping(i)'
           /\ devices[i].link \notin missed'
           /\ ~GoneQueued(queue', <<devices[i].link, 0>>)
           => /\ Watched /\ ~Dropping(i)
              /\ devices[i].link \notin missed
              /\ ~GoneQueued(queue, <<devices[i].link, 0>>)
              /\ byId'[<<devices[i].link, 0>>] = byId[<<devices[i].link, 0>>]
              /\ \A k \in Index : devices'[i].vol[k] # NoVolume =>
                    /\ devices[i].vol[k] # NoVolume
                    /\ devices'[i].vol[k].stem = devices[i].vol[k].stem
    PROVE  Traced(i)'
BY DEF Traced, Volumes

\* A link is made: with links in order and no takeover it comes back only
\* where it was, or where no volume is left.
LEMMA MakeLinkTraced ==
    ASSUME WorldInv, TraceInv, NEW m \in Link, MakeLink(m)
    PROVE  DevicesTraced'
<1>1. /\ queue \in Seq(Reported) /\ LinksAgree /\ DevicesTraced
      /\ byId \in [Link -> Stem \cup {NoStem}]
  BY DEF WorldInv, WorldOK, TraceInv
<1>2. /\ UNCHANGED <<devices, pc, cur, faults>> /\ Watched' = Watched
      /\ Notify(New(m)) /\ Target(m) \notin {NoStem, byId[m]}
      /\ \A n \in Link : byId'[n] = IF n = m THEN Target(m) ELSE byId[n]
  BY <1>1 DEF MakeLink, coreVars, Watched
<1>3. ASSUME Watched
      PROVE  /\ missed \subseteq missed'
             /\ \A n : GoneQueued(queue, n) => GoneQueued(queue', n)
  <2>1. New(m) # Gone(Root(m)) /\ New(m).link = m /\ New(m) \in Reported
    BY EventsDiffer DEF New, Reported
  <2>2. \/ queue' = Append(queue, New(m)) /\ missed' = missed
        \/ queue' = queue /\ missed \subseteq missed'
    BY <1>2, <1>3, <2>1, NotifyCases
  <2>3. \A n : GoneQueued(queue, n) => GoneQueued(Append(queue, New(m)), n)
    BY <1>1, <2>1, AppendEvent
  <2>4. QED
    BY <2>2, <2>3
<1>4. ASSUME NEW i \in ID, Registered(i)
      PROVE  Traced(i)'
  <2>1. Traced(i) /\ devices[i] \in Device
    BY <1>1, <1>4, DeviceCases DEF DevicesTraced, WorldInv, CoreInv
  <2> DEFINE name == devices[i].link
             root == <<name, 0>>
  <2>2. CASE root # m
    BY <1>2, <1>3, <2>1, <2>2, TracedKept DEF Dropping, Traced
  <2>3. CASE root = m
    <3>1. name = m[1] /\ m[2] = 0 /\ name \in Disk /\ name # Unnamed
      BY <2>3, LinkFacts, SentinelAssumption
    <3>2. Target(m) = plugged[name] /\ byId'[root] = plugged[name]
      BY <1>2, <2>3, <3>1 DEF Target
    <3>3. ASSUME Watched, name \notin missed', ~Dropping(i),
                 ~GoneQueued(queue', root),
                 faults \cap {"takeover", "disorder"} = {},
                 NEW k \in Volumes(devices[i])
          PROVE  FALSE
      <4>1. devices[i].vol[k].stem = byId[root]
        BY <1>3, <2>1, <3>1, <3>3 DEF Traced
      <4>2. devices[i].vol[k] \in Volume
        BY <2>1, <3>3 DEF Device, Volumes
      <4>3. byId[m] # NoStem
        BY <2>3, <4>1, <4>2, SentinelAssumption DEF Volume
      <4>4. plugged[name] \in {NoStem, byId[m]}
        BY <1>1, <3>1, <3>3, <4>3 DEF LinksAgree
      <4>5. QED
        BY <1>2, <3>2, <4>4
    <3>4. byId'[root] # NoStem
      BY <1>2, <3>2
    <3>5. /\ devices' = devices /\ faults' = faults /\ Watched' = Watched
          /\ Dropping(i)' = Dropping(i)
      BY <1>2 DEF Dropping
    <3>6. QED
      BY <2>1, <3>1, <3>3, <3>4, <3>5 DEF Traced
  <2>4. QED
    BY <2>2, <2>3
<1>5. QED
  BY <1>2, <1>4 DEF DevicesTraced, Registered

\* A link is removed: that will be handled, or is known to be missed.
LEMMA RemoveLinkTraced ==
    ASSUME WorldInv, TraceInv, NEW m \in Link, RemoveLink(m)
    PROVE  DevicesTraced'
<1>1. /\ queue \in Seq(Reported) /\ DevicesTraced
      /\ byId \in [Link -> Stem \cup {NoStem}]
  BY DEF WorldInv, WorldOK, TraceInv
<1>2. /\ UNCHANGED <<devices, pc, cur, faults>> /\ Watched' = Watched
      /\ Notify(Gone(m))
      /\ \A n \in Link : byId'[n] = IF n = m THEN NoStem ELSE byId[n]
  BY <1>1 DEF RemoveLink, coreVars, Watched
<1>3. ASSUME Watched
      PROVE  /\ \A n : GoneQueued(queue, n) => GoneQueued(queue', n)
             /\ \A d : d \notin missed' =>
                   \/ d \notin missed /\ <<d, 0>> # m
                   \/ GoneQueued(queue', <<d, 0>>)
  <2>1. Gone(m).link = m /\ Gone(m).ev = "GONE" /\ Gone(m) \in Reported
    BY DEF Gone, Reported
  <2>2. Gone(m) = Gone(Root(m)) => m = Root(m)
    BY EventsDiffer
  <2>3. \/ /\ queue' = Append(queue, Gone(m))
           /\ missed' = IF Gone(m) = Gone(Root(m)) THEN missed \ {m[1]} ELSE missed
        \/ /\ queue' = queue
           /\ missed' = IF m[2] = 0 THEN missed \cup {m[1]} ELSE missed
    BY <1>2, <1>3, <2>1, NotifyCases
  <2>4. /\ \A n : GoneQueued(queue, n) => GoneQueued(Append(queue, Gone(m)), n)
        /\ GoneQueued(Append(queue, Gone(m)), m)
    BY <1>1, <2>1, AppendEvent
  <2>5. ASSUME NEW d, d \notin missed'
        PROVE  \/ d \notin missed /\ <<d, 0>> # m
               \/ GoneQueued(queue', <<d, 0>>)
    <3>1. CASE queue' = Append(queue, Gone(m))
      BY <2>2, <2>3, <2>4, <2>5, <3>1 DEF Root
    <3>2. CASE queue' = queue /\ missed' = IF m[2] = 0 THEN missed \cup {m[1]} ELSE missed
      BY <2>5, <3>2
    <3>3. QED
      BY <2>3, <2>5, <3>1, <3>2
  <2>6. QED
    BY <2>3, <2>4, <2>5
<1>4. ASSUME NEW i \in ID, Registered(i)
      PROVE  Traced(i)'
  <2>1. Traced(i)
    BY <1>1, <1>4 DEF DevicesTraced
  <2>2. CASE devices[i].link = Unnamed
    BY <1>2, <2>1, <2>2 DEF Traced
  <2>3. CASE devices[i].link # Unnamed
    <3>1. <<devices[i].link, 0>> \in Link
      BY <2>1, <2>3 DEF Traced
    <3>2. QED
      BY <1>2, <1>3, <2>1, <3>1, TracedKept DEF Dropping
  <2>4. QED
    BY <2>2, <2>3
<1>5. QED
  BY <1>2, <1>4 DEF DevicesTraced, Registered

\* The removal of a link is handled: the one device of that name goes.
LEMMA RemovalHandledTraced ==
    ASSUME WorldInv, TraceInv, queue # <<>>, queue' = Tail(queue),
           UNCHANGED <<faults, byId, missed>>, Watched' => Watched,
           Head(queue).ev = "GONE", HandleRemovedDevice(Head(queue).link)
    PROVE  DevicesTraced'
<1> DEFINE m == Head(queue).link
<1>1. /\ queue \in Seq(Reported) /\ DevicesTraced /\ UniqueLinks
  BY DEF WorldInv, WorldOK, TraceInv, CoreInv
<1>2. m \in Link /\ Head(queue) = Gone(m)
  <2>1. Head(queue) \in Reported
    BY <1>1
  <2>2. QED
    BY <2>1 DEF Reported, Gone
<1>3. devices' = devices /\ pc = "idle"
  BY DEF HandleRemovedDevice
<1>4. \A l : GoneQueued(queue, l) => GoneQueued(queue', l) \/ l = m
  BY <1>1, <1>2, HandleEvent, EventsDiffer
<1>5. ASSUME NEW i \in ID, Registered(i)
      PROVE  Traced(i)'
  <2>1. Traced(i)
    BY <1>1, <1>5 DEF DevicesTraced
  <2>2. CASE <<devices[i].link, 0>> # m
    BY <1>3, <1>4, <2>1, <2>2, TracedKept DEF Dropping
  <2>3. CASE <<devices[i].link, 0>> = m
    <3>1. m[2] = 0 /\ m[1] = devices[i].link
      BY <2>3
    <3>2. Known(m[1])
      BY <1>5, <3>1 DEF Known
    <3>3. PICK j \in ID : IsDevice(j, m[1]) /\ pc' = "drop" /\ cur' = j
      BY <3>1, <3>2 DEF HandleRemovedDevice
    <3>4. j = i
      BY <1>1, <1>5, <3>1, <3>3 DEF IsDevice, UniqueLinks
    <3>5. Dropping(i)'
      BY <3>3, <3>4 DEF Dropping
    <3>6. QED
      BY <1>3, <2>1, <3>5, TracedKept
  <2>4. QED
    BY <2>2, <2>3
<1>6. QED
  BY <1>3, <1>5 DEF DevicesTraced, Registered

LEMMA GoOnTraced ==
    ASSUME WorldInv, TraceInv, GoOn
    PROVE  DevicesTraced'
<1>1. CoreInv /\ DevicesTraced /\ todo \subseteq Index
  BY DEF WorldInv, TraceInv, CoreInv, CoreTypeOK
<1>2. UNCHANGED <<faults, byId, missed, queue>> /\ Watched' = Watched
  BY DEF GoOn, worldVars, loopVars, eventVars, Watched
<1>3. ASSUME NEW i \in ID, Registered(i)' PROVE Traced(i)'
  <2>1. CASE devices'[i] = devices[i] /\ (~Dropping(i)' => ~Dropping(i))
    <3>1. Registered(i)
      BY <1>3, <2>1 DEF Registered
    <3>2. Traced(i)
      BY <1>1, <3>1 DEF DevicesTraced
    <3>3. QED
      BY <1>2, <2>1, <3>2, TracedKept
  <2>2. ASSUME NEW k \in todo, NEW ok \in MountAnswers(devices[cur].vol[k].stem, k),
               MountVolume(k, ok)
        PROVE  Traced(i)'
    <3>1. /\ k \in Index /\ ok \in BOOLEAN
      BY <1>1, AnswersType
    <3>2. /\ pc = "mount" /\ cur \in ID /\ Registered(cur)
          /\ \A j \in ID : j # cur => devices'[j] = devices[j]
          /\ devices'[cur].link = devices[cur].link
          /\ devices'[cur].state = devices[cur].state
          /\ devices[cur].vol[k] # NoVolume
          /\ devices'[cur].vol[k].stem = devices[cur].vol[k].stem
          /\ \A n \in Index : n # k => devices'[cur].vol[n] = devices[cur].vol[n]
      BY <1>1, <2>2, <3>1, MountVolumeChanges
    <3>3. ~Dropping(i)
      BY <3>2 DEF Dropping
    <3>4. CASE i # cur
      BY <2>1, <3>2, <3>3, <3>4
    <3>5. CASE i = cur
      <4>1. Traced(i)
        BY <1>1, <3>2, <3>5 DEF DevicesTraced
      <4>2. \A n \in Index : devices'[i].vol[n] # NoVolume =>
                 /\ devices[i].vol[n] # NoVolume
                 /\ devices'[i].vol[n].stem = devices[i].vol[n].stem
        BY <3>2, <3>5
      <4>3. QED
        BY <1>2, <3>2, <3>3, <3>5, <4>1, <4>2, TracedKept
    <3>6. QED
      BY <3>4, <3>5
  <2>3. ASSUME NEW k \in todo, DropVolume(k)
        PROVE  Traced(i)'
    <3>1. /\ pc' = "drop" /\ cur' = cur /\ cur \in ID /\ Registered(cur)
          /\ \A j \in ID : j # cur => devices'[j] = devices[j]
          /\ devices'[cur].link = devices[cur].link
          /\ devices'[cur].state = devices[cur].state
      BY <1>1, <2>3, DropVolumeChanges
    <3>2. CASE i # cur
      BY <2>1, <3>1, <3>2 DEF Dropping
    <3>3. CASE i = cur
      <4>1. Traced(i) /\ Dropping(i)'
        BY <1>1, <3>1, <3>3 DEF DevicesTraced, Dropping
      <4>2. QED
        BY <1>2, <3>1, <3>3, <4>1, TracedKept
    <3>4. QED
      BY <3>2, <3>3
  <2>4. CASE DropDevice
    <3>1. /\ pc' = "idle" /\ devices'[cur] = Absent
          /\ \A j \in ID : j # cur => devices'[j] = devices[j]
      BY <1>1, <2>4, DropDeviceChanges
    <3>2. i # cur
      BY <1>3, <3>1 DEF Registered
    <3>3. QED
      BY <2>1, <3>1, <3>2 DEF Dropping
  <2>5. QED
    BY <2>2, <2>3, <2>4 DEF GoOn
<1>4. QED
  BY <1>3 DEF DevicesTraced

LEMMA DevicesTracedStep ==
    ASSUME WorldInv, TraceInv, [MountaNext]_vars
    PROVE  DevicesTraced'
<1>1. /\ queue \in Seq(Reported) /\ FreshStart /\ RemovalsFollow /\ DevicesTraced
  BY DEF WorldInv, WorldOK, TraceInv
<1>2. ASSUME UNCHANGED <<devices, pc, cur, faults, byId>>,
             \/ ~Watched'
             \/ Watched /\ missed' = missed
                /\ \A l : GoneQueued(queue, l) => GoneQueued(queue', l)
      PROVE  DevicesTraced'
  <2>1. ASSUME NEW i \in ID, Registered(i) PROVE Traced(i)'
    <3>1. Traced(i)
      BY <1>1, <2>1 DEF DevicesTraced
    <3>2. QED
      BY <1>2, <3>1, TracedKept DEF Dropping
  <2>2. QED
    BY <1>2, <2>1 DEF DevicesTraced, Registered
<1>3. CASE World
  <2>1. CASE \E l \in Link : MakeLink(l) \/ RemoveLink(l)
    BY <2>1, MakeLinkTraced, RemoveLinkTraced
  <2>2. CASE LoseDirectory
    <3>1. UNCHANGED <<devices, pc, cur, faults, byId>> /\ ~Watched'
      BY <2>2 DEF LoseDirectory, coreVars, Watched
    <3>2. QED
      BY <1>2, <3>1
  <2>3. CASE UNCHANGED <<devices, pc, cur, faults, byId, queue, missed, phase, lost>>
    BY <1>2, <2>3 DEF Watched
  <2>4. QED
    BY <1>3, <2>1, <2>2, <2>3
    DEF World, Plug, Unplug, ChangePartition, coreVars, loopVars, eventVars
<1>4. ASSUME \A i \in ID : ~Registered(i)' PROVE DevicesTraced'
  BY <1>4 DEF DevicesTraced
<1>5. CASE Connect \/ OpenDirectory \/ EnterMainLoop
  <2>1. /\ UNCHANGED <<devices, pc, cur, faults, byId, queue, missed>>
        /\ Watched' => Watched
    BY <1>5 DEF Connect, OpenDirectory, EnterMainLoop, coreVars, worldVars,
       eventVars, Watched
  <2>2. QED
    BY <1>2, <2>1
<1>6. CASE SetUpWatch
  <2>1. \A i \in ID : ~Registered(i)'
    BY <1>1, <1>6 DEF SetUpWatch, FreshStart, coreVars, Registered
  <2>2. QED
    BY <1>4, <2>1
<1>7. ASSUME NEW l \in Link, ScanEntry(l) PROVE DevicesTraced'
  <2>1. PICK o \in Answer(l) : HandleNewDevice(l, byId[l], o)
    BY <1>7 DEF ScanEntry
  <2>2. /\ l \in scan /\ UNCHANGED <<faults, byId, missed, queue>>
        /\ Watched' => Watched
    BY <1>7 DEF ScanEntry, worldVars, eventVars, Watched
  <2>3. Watched /\ l[2] = 0 /\ l[1] \notin missed /\ byId[l] = NoStem
          => GoneQueued(queue', l)
    BY <1>1, <2>2 DEF RemovalsFollow
  <2>4. QED
    BY <2>1, <2>2, <2>3, NewDeviceTraced
<1>8. CASE Dispatch
  <2> DEFINE event == Head(queue)
  <2>1. /\ queue # <<>> /\ queue' = Tail(queue) /\ event \in Reported
        /\ UNCHANGED <<faults, byId, missed, lost>>
    BY <1>1, <1>8 DEF Dispatch, worldVars
  <2>2. ASSUME NEW o \in Answer(event.link), event.ev = "NEW", phase' = phase,
               HandleNewDevice(event.link, byId[event.link], o)
        PROVE  DevicesTraced'
    <3>1. event.link \in Link /\ event = New(event.link)
      BY <2>1, <2>2 DEF Reported, New
    <3> DEFINE l == event.link
    <3>2. Watched /\ l[2] = 0 /\ l[1] \notin missed /\ byId[l] = NoStem
            => GoneQueued(queue', l)
      BY <1>1, <2>1, <3>1, HandleEvent DEF RemovalsFollow
    <3>3. \A m \in Link : GoneQueued(queue, m) => GoneQueued(queue', m)
      BY <1>1, <2>1, <3>1, HandleEvent, EventsDiffer
    <3>4. Watched' => Watched
      BY <2>1, <2>2 DEF Watched
    <3>5. QED
      BY <2>1, <2>2, <3>1, <3>2, <3>3, <3>4, NewDeviceTraced
  <2>3. CASE /\ event.ev = "GONE" /\ HandleRemovedDevice(event.link) /\ phase' = phase
    <3>1. Watched' => Watched
      BY <2>1, <2>3 DEF Watched
    <3>2. QED
      BY <2>1, <2>3, <3>1, RemovalHandledTraced
  <2>4. CASE Shutdown /\ phase' = "stopped"
    <3>1. ASSUME NEW i \in ID, Registered(i)' PROVE Traced(i)'
      <4>1. devices'[i] = devices[i] /\ Registered(i)
        BY <2>4, <3>1 DEF Shutdown, Registered
      <4>2. ~Watched' /\ Traced(i)
        BY <1>1, <2>4, <4>1 DEF Watched, DevicesTraced
      <4>3. QED
        BY <2>1, <4>1, <4>2, TracedKept
    <3>2. QED
      BY <3>1 DEF DevicesTraced
  <2>5. CASE event.ev = "SHUTDOWN" /\ UNCHANGED <<coreVars, phase>>
    <3>1. \A l : GoneQueued(queue, l) => GoneQueued(queue', l)
      <4>1. \A l : event # Gone(l)
        BY <2>5 DEF Gone
      <4>2. QED
        BY <1>1, <2>1, <4>1, HandleEvent
    <3>2. Watched' => Watched
      BY <2>1, <2>5 DEF Watched
    <3>3. QED
      BY <1>2, <2>1, <2>5, <3>1, <3>2 DEF coreVars
  <2>6. QED
    BY <1>8, <2>2, <2>3, <2>4, <2>5 DEF Dispatch
<1>9. CASE GoOn
  BY <1>9, GoOnTraced
<1>10. CASE Exit \/ StartAgain
  <2>1. \A i \in ID : ~Registered(i)'
    BY <1>10 DEF Exit, Stop, StartAgain, Restart, Registered
  <2>2. QED
    BY <1>4, <2>1
<1>11. CASE Terminate \/ SwallowSignal \/ UNCHANGED vars
  <2>1. UNCHANGED <<devices, pc, cur, faults, byId, queue, missed, phase, lost>>
    BY <1>11 DEF Terminate, SwallowSignal, vars, coreVars, worldVars, loopVars, eventVars
  <2>2. QED
    BY <1>2, <2>1 DEF Watched
<1>12. QED
  BY <1>3, <1>5, <1>6, <1>7, <1>8, <1>9, <1>10, <1>11
  DEF MountaNext, Daemon, Signals, HeedSignal, TerminateAgain, GiveUp, Kill

LEMMA TraceStep == WorldInv /\ TraceInv /\ [MountaNext]_vars => TraceInv'
<1>1. SUFFICES ASSUME WorldInv, TraceInv, [MountaNext]_vars PROVE TraceInv'
  OBVIOUS
<1>2. FreshStart /\ LinksAgree /\ RemovalsFollow
  BY <1>1 DEF TraceInv
<1>3. QED
  BY <1>1, <1>2, FreshStartStep, LinksAgreeStep, RemovalsFollowStep,
     DevicesTracedStep DEF TraceInv

\* Every device the daemon knows has its link, or the daemon is going to be told
\* that it has not, or it missed an event; so it is in any order of events, of
\* the scan and of the signals, and whatever fails.
THEOREM DevicesAreTraced == MountaSpec => []TraceInv
<1>1. QED
  BY TraceInit, TraceStep, MountaInvariant, PTL DEF MountaSpec

----------------------------------------------------------------------------
(* What that means once everything has been handled                        *)

LEMMA TracedWhenSettled ==
    ASSUME WorldInv, TraceInv, Settled, NEW i \in ID, Registered(i),
           devices[i].link \notin missed \cup {Unnamed}
    PROVE  /\ \/ plugged[devices[i].link] # NoStem
              \/ "disorder" \in faults /\ devices[i].state = "SYNTHETIC"
           /\ faults \cap {"takeover", "disorder"} = {} =>
                 \A k \in Volumes(devices[i]) :
                    devices[i].vol[k].stem = plugged[devices[i].link]
<1> DEFINE root == <<devices[i].link, 0>>
<1>1. Traced(i) /\ root \in Link
  BY DEF TraceInv, DevicesTraced, Traced
<1>2. Watched /\ ~Dropping(i) /\ ~GoneQueued(queue, root)
  BY NothingInEmpty DEF Settled, Watched, Dropping
<1>3. byId[root] = plugged[devices[i].link]
  BY <1>1 DEF Settled, Target
<1>4. QED
  BY <1>1, <1>2, <1>3 DEF Traced

\* A synthetic device has nothing mounted and nobody was told of it.
LEMMA SyntheticIsPrivate ==
    ASSUME CoreInv, pc # "stopped", NEW i \in ID, devices[i].state = "SYNTHETIC"
    PROVE  catalog[i] = "unknown" /\ Mounted(devices[i]) = {}
<1>1. devices[i].dir = "unset" /\ Volumes(devices[i]) = Pending(devices[i])
  BY DEF CoreInv, DeferredMounting
<1>2. catalog[i] = "unknown"
  BY <1>1 DEF CoreInv, ClientViewExact
<1>3. Mounted(devices[i]) \subseteq Volumes(devices[i])
  BY SentinelFacts DEF Mounted, Volumes
<1>4. QED
  BY <1>1, <1>2, <1>3 DEF Mounted, Pending

\* Once every event has been handled no named device is left whose disk is
\* gone: the one the links' order can leave behind was never announced.
THEOREM GhostsAreGone == MountaSpec => []NoGhosts
<1>1. WorldInv /\ TraceInv => NoGhosts
  <2>1. SUFFICES ASSUME WorldInv, TraceInv, Settled, NEW i \in ID, Registered(i),
                        devices[i].link \notin missed \cup {Unnamed}
                 PROVE  \/ plugged[devices[i].link] # NoStem
                        \/ "disorder" \in faults /\ catalog[i] = "unknown"
                                                  /\ Mounted(devices[i]) = {}
    BY DEF NoGhosts
  <2>2. CoreInv /\ pc # "stopped"
    BY <2>1 DEF WorldInv, Settled
  <2>3. QED
    BY <2>1, <2>2, TracedWhenSettled, SyntheticIsPrivate
<1>2. QED
  BY <1>1, DevicesAreTraced, MountaInvariant, PTL

\* Nor is a volume mounted from a node its disk no longer has, if disks' links
\* come in order and none is taken over.
THEOREM StaleMountsAreGone == MountaSpec => []NoStaleMounts
<1>1. WorldInv /\ TraceInv => NoStaleMounts
  <2>1. SUFFICES ASSUME WorldInv, TraceInv, Settled,
                        faults \cap {"takeover", "disorder"} = {},
                        NEW i \in ID, devices[i].link \notin missed,
                        NEW k \in Mounted(devices[i])
                 PROVE  devices[i].vol[k].stem = plugged[devices[i].link]
    BY DEF NoStaleMounts
  <2>2. CoreInv /\ pc # "stopped"
    BY <2>1 DEF WorldInv, Settled
  <2>3. k \in Volumes(devices[i]) /\ Registered(i)
    BY <2>1, SentinelFacts DEF Mounted, Volumes, Registered
  <2>4. devices[i].state # "SYNTHETIC"
    BY <2>1, <2>2, SyntheticIsPrivate
  <2>5. devices[i].link # Unnamed
    BY <2>1, <2>3, <2>4 DEF TraceInv, DevicesTraced, Traced
  <2>6. QED
    BY <2>1, <2>3, <2>5, TracedWhenSettled
<1>2. QED
  BY <1>1, DevicesAreTraced, MountaInvariant, PTL

=============================================================================
