------------------------------- MODULE Mounta -------------------------------
(***************************************************************************)
(* The daemon in its world: disks are plugged and unplugged, udev creates  *)
(* and removes their links under /dev/disk/by-id, inotify queues what      *)
(* happens there, and main() claims its bus name, scans the directory once *)
(* and then dispatches the queue to the automounter until it is told to    *)
(* stop (mounta.cc, dbus_iface.c, fdevents.cc).                            *)
(*                                                                         *)
(* An event carries only a name.  What the link of that name resolves to   *)
(* is looked up when the event is handled, and may have changed since.     *)
(***************************************************************************)
EXTENDS Automounter, FiniteSets, Sequences

CONSTANTS
    Node,       \* the kernel names a disk may get: [Disk -> SUBSET Stem]
    Superfloppy,\* disks with a file system of their own and no partitions
    FaultSets,  \* sets of things that may go wrong together
    MaxPlugs,   \* bound on the number of times a disk is plugged
    MaxEdits,   \* bound on the number of partition table changes
    QueueMax    \* bound on the length of the inotify queue

ASSUME FaultSetsAssumption ==
    FaultSets \subseteq SUBSET
        {"info", "probe", "mkdir", "mount",   \* a tool fails
         "takeover",    \* a new disk claims a link still there
         "repartition", \* partitions come and go
         "disorder",    \* links of a disk come and go in any order
         "overflow",    \* the kernel's queue is full and drops events
         "directory",   \* the watched directory is not there, or goes away
         "isdir",       \* the event that reports this is one of a directory
         "name",        \* the bus name belongs to somebody else
         "term",        \* SIGTERM is sent
         "crash"}       \* the daemon is killed

ASSUME BoundsAssumption == MaxPlugs \in Nat /\ MaxEdits \in Nat /\ QueueMax \in Nat

ASSUME SuperfloppyAssumption == \A l \in Link : l[1] \in Superfloppy => l[2] = 0

ASSUME RootLinkAssumption == \A d \in Disk : <<d, 0>> \in Link

VARIABLES
    faults,     \* which of the sets it is, once and for all
    plugged,    \* kernel name of each disk, NoStem if it is not there
    parts,      \* the partitions on the disks
    byId,       \* /dev/disk/by-id: what each link resolves to
    queue,      \* inotify events not yet read, oldest first
    missed,     \* disks an event of which was dropped and not made up for
    lost,       \* whether the watched directory has gone away
    phase,      \* how far main() has come
    scan,       \* entries the scan of the directory has still to visit
    told,       \* whether SIGTERM was sent, and what became of it
    plugs, edits

worldVars == <<faults, plugged, parts, byId, lost, plugs, edits>>
eventVars == <<queue, missed>>
loopVars == <<eventVars, phase, scan, told>>
vars == <<coreVars, worldVars, loopVars>>

Partitions == {l \in Link : l[2] > 0}

MountaTypeOK ==
    /\ faults \in FaultSets
    /\ plugged \in [Disk -> Stem \cup {NoStem}]
    /\ parts \in SUBSET Partitions
    /\ byId \in [Link -> Stem \cup {NoStem}]
    /\ \A k \in 1..Len(queue) : queue[k] \in [ev : {"NEW", "GONE"}, link : Link]
                                              \cup {[ev |-> "SHUTDOWN"]}
    /\ Len(queue) <= QueueMax + 1
    /\ missed \in SUBSET Disk
    /\ lost \in BOOLEAN
    /\ phase \in {"connecting", "starting", "watching", "scanning", "running",
                  "stopped"}
    /\ told \in {"no", "pending", "swallowed"}
    /\ scan \in SUBSET Link
    /\ plugs \in 0..MaxPlugs /\ edits \in 0..MaxEdits

MountaInit ==
    /\ CoreInit
    /\ faults \in FaultSets
    /\ plugged = [d \in Disk |-> NoStem]
    /\ parts = Partitions
    /\ byId = [l \in Link |-> NoStem]
    /\ queue = <<>> /\ missed = {} /\ lost = FALSE
    /\ phase = "connecting" /\ scan = {} /\ told = "no"
    /\ plugs = 0 /\ edits = 0

----------------------------------------------------------------------------
(* Kernel and udev *)

Plug(d, stem) ==
    /\ plugs < MaxPlugs /\ plugs' = plugs + 1
    /\ plugged[d] = NoStem /\ stem \in Node[d]
    /\ \A e \in Disk : plugged[e] # stem
    /\ "takeover" \in faults \/ \A l \in Link : l[1] = d => byId[l] = NoStem
    /\ plugged' = [plugged EXCEPT ![d] = stem]
    /\ UNCHANGED <<coreVars, faults, loopVars, parts, byId, lost, edits>>

Unplug(d) ==
    /\ plugged[d] # NoStem
    /\ plugged' = [plugged EXCEPT ![d] = NoStem]
    /\ UNCHANGED <<coreVars, faults, loopVars, parts, byId, lost, plugs, edits>>

ChangePartition(l) ==
    /\ "repartition" \in faults
    /\ edits < MaxEdits /\ edits' = edits + 1
    /\ parts' = IF l \in parts THEN parts \ {l} ELSE parts \cup {l}
    /\ UNCHANGED <<coreVars, faults, loopVars, plugged, byId, lost, plugs>>

\* What a link should resolve to.
Target(l) == IF l[2] = 0 \/ l \in parts THEN plugged[l[1]] ELSE NoStem

\* Mutant: the directory is scanned before the watch is installed.
WatchedLate == phase = "running" /\ ~lost

Watched == phase \in {"watching", "scanning", "running"} /\ ~lost

\* What is heard of a link that was made or removed.
New(l) == [ev |-> "NEW", link |-> l]
Gone(l) == [ev |-> "GONE", link |-> l]

\* The loss of which event leaves the daemon with a wrong idea of the disk.
Harmful(event) == event.ev = "NEW" \/ event.link[2] = 0

\* An event is queued, or dropped if the queue is full.  The queue proper holds
\* QueueMax events at most; the kernel's limit is on all events, so that any
\* may be dropped.  That the disk's link went makes up for what was dropped.
Notify(event) ==
    LET disk == event.link[1] IN
    \/ /\ ~Watched
       /\ UNCHANGED eventVars
    \/ /\ Watched /\ Len(queue) < QueueMax
       /\ queue' = Append(queue, event)
       /\ missed' = IF event = Gone(<<disk, 0>>) THEN missed \ {disk} ELSE missed
    \/ /\ Watched /\ "overflow" \in faults
       /\ missed' = IF Harmful(event) THEN missed \cup {disk} ELSE missed
       /\ UNCHANGED queue

Root(l) == <<l[1], 0>>

\* udev makes a link under a temporary name and renames it into place, that of
\* the disk before those of its partitions.  A scan that is under way may or
\* may not come across it.
MakeLink(l) ==
    /\ Target(l) \notin {NoStem, byId[l]}
    /\ l[2] > 0 /\ "disorder" \notin faults => byId[Root(l)] = Target(Root(l))
    /\ byId' = [byId EXCEPT ![l] = Target(l)]
    /\ Notify(New(l))
    /\ scan' \in IF phase = "scanning" THEN {scan, scan \cup {l}} ELSE {scan}
    /\ UNCHANGED <<coreVars, faults, phase, told, plugged, parts, lost, plugs, edits>>

\* The disk's link is removed after those of its partitions.
RemoveLink(l) ==
    /\ byId[l] # NoStem /\ Target(l) = NoStem
    /\ l[2] = 0 /\ "disorder" \notin faults =>
          \A p \in Partitions : p[1] = l[1] => byId[p] = NoStem
    /\ byId' = [byId EXCEPT ![l] = NoStem]
    /\ Notify(Gone(l))
    /\ UNCHANGED <<coreVars, faults, phase, scan, told, plugged, parts, lost, plugs, edits>>

\* IN_DELETE_SELF, IN_MOVE_SELF: nothing is heard of the directory after.
LoseDirectory ==
    /\ "directory" \in faults /\ Watched
    /\ queue' = Append(queue, [ev |-> "SHUTDOWN"])
    /\ lost' = TRUE
    /\ UNCHANGED <<coreVars, faults, missed, phase, scan, told, plugged, parts,
                   byId, plugs, edits>>

----------------------------------------------------------------------------
(* What the tools answer *)

\* The node of a link or volume with number k exists.
Alive(stem, k) ==
    \E d \in Disk :
        /\ plugged[d] = stem /\ stem # NoStem
        /\ <<d, k>> \in Partitions => <<d, k>> \in parts

\* A tool works unless it is faulty; about a node that is gone it may still
\* answer from the udev database.
Answers(fault, alive, expected) ==
    IF alive /\ fault \notin faults THEN {expected} ELSE {FALSE, expected}

Answer(l) ==
    LET stem == byId[l]
        alive == Alive(stem, l[2]) IN
    {o \in Outcome(stem) :
        stem # NoStem =>
            /\ o.info \in Answers("info", alive, l[2] > 0 \/ l[1] \in Superfloppy)
            /\ o.probe \in Answers("probe", alive, TRUE)
            /\ o.mkdir \in Answers("mkdir", TRUE, TRUE)}

\* Mounting a node that is gone fails.
MountAnswers(stem, k) ==
    IF Alive(stem, k) THEN Answers("mount", TRUE, TRUE) ELSE {FALSE}

----------------------------------------------------------------------------
(* main() *)

\* dbus_setup iterates the main context until the bus name is its own.
Connect ==
    /\ phase = "connecting" /\ phase' = "starting"
    /\ UNCHANGED <<coreVars, worldVars, eventVars, scan, told>>

\* The watch is installed before the directory is read.
SetUpWatch ==
    /\ phase = "starting" /\ phase' = "watching"
    /\ queue' = <<>> /\ missed' = {}
    /\ UNCHANGED <<coreVars, worldVars, scan, told>>

\* Mutant: the scan passes on what the links resolve to.
OpenDirectoryResolved ==
    /\ phase = "watching" /\ phase' = "scanning"
    /\ scan' = {byId[l] : l \in {m \in Link : byId[m] # NoStem}}
    /\ UNCHANGED <<coreVars, worldVars, eventVars, told>>

OpenDirectory ==
    /\ phase = "watching" /\ phase' = "scanning"
    /\ scan' = {l \in Link : byId[l] # NoStem}
    /\ UNCHANGED <<coreVars, worldVars, eventVars, told>>

ScanEntry(l) ==
    /\ phase = "scanning" /\ l \in scan
    /\ \E o \in Answer(l) : HandleNewDevice(l, byId[l], o)
    /\ scan' = scan \ {l}
    /\ UNCHANGED <<worldVars, eventVars, phase, told>>

\* Mutant: what was queued during the scan is taken for old news.
EnterMainLoopAfresh ==
    /\ phase = "scanning" /\ scan = {} /\ pc = "idle"
    /\ phase' = "running" /\ queue' = <<>>
    /\ UNCHANGED <<coreVars, worldVars, missed, scan, told>>

\* Mutant: signals are served once more before the loop is entered.
EnterMainLoopLate ==
    /\ phase = "scanning" /\ scan = {} /\ pc = "idle"
    /\ phase' = "running"
    /\ told' = IF told = "pending" THEN "swallowed" ELSE told
    /\ UNCHANGED <<coreVars, worldVars, eventVars, scan>>

EnterMainLoop ==
    /\ phase = "scanning" /\ scan = {} /\ pc = "idle"
    /\ phase' = "running"
    /\ UNCHANGED <<coreVars, worldVars, eventVars, scan, told>>

\* An event of a directory is ignored, be it about the watched one: then the
\* descriptor is closed, and the main loop goes on without it.
Dispatch ==
    /\ phase = "running" /\ queue # <<>>
    /\ LET event == Head(queue) IN
       \/ /\ event.ev = "NEW"
          /\ \E o \in Answer(event.link) :
               HandleNewDevice(event.link, byId[event.link], o)
          /\ UNCHANGED phase
       \/ /\ event.ev = "GONE"
          /\ HandleRemovedDevice(event.link)
          /\ UNCHANGED phase
       \/ /\ event.ev = "SHUTDOWN" /\ "isdir" \notin faults
          /\ Shutdown
          /\ phase' = "stopped"
       \/ /\ event.ev = "SHUTDOWN" /\ "isdir" \in faults /\ pc = "idle"
          /\ UNCHANGED <<coreVars, phase>>
    /\ queue' = Tail(queue)
    /\ UNCHANGED <<worldVars, missed, scan, told>>

\* The handler that is running goes on.
GoOn ==
    /\ \/ \E k \in todo :
             \/ \E ok \in MountAnswers(devices[cur].vol[k].stem, k) :
                   MountVolume(k, ok)
             \/ DropVolume(k)
       \/ DropDevice
    /\ UNCHANGED <<worldVars, loopVars>>

\* The process ends without a word, its memory is gone.
Exit ==
    /\ Stop
    /\ phase' = "stopped" /\ queue' = <<>> /\ scan' = {}
    /\ UNCHANGED <<worldVars, missed, told>>

Kill == "crash" \in faults /\ phase # "stopped" /\ Exit

\* The bus name is denied, or there is no directory to watch or to scan: main
\* returns.
GiveUp ==
    /\ \/ phase = "connecting" /\ "name" \in faults
       \/ phase \in {"starting", "watching"} /\ "directory" \in faults
    /\ Exit

\* SIGTERM: a flag that the main context will look at.
Terminate ==
    /\ "term" \in faults /\ told = "no" /\ phase # "stopped"
    /\ told' = "pending"
    /\ UNCHANGED <<coreVars, worldVars, eventVars, phase, scan>>

\* The handler is called while dbus_setup iterates the context: it quits a loop
\* that does not run yet, without effect, and removes itself.
SwallowSignal ==
    /\ phase = "connecting" /\ told = "pending"
    /\ told' = "swallowed"
    /\ UNCHANGED <<coreVars, worldVars, eventVars, phase, scan>>

\* Called in the main loop, between two handlers, it ends the program.
HeedSignal ==
    /\ phase = "running" /\ pc = "idle" /\ told = "pending"
    /\ Exit

\* With the handler gone the next signal kills.
TerminateAgain == told = "swallowed" /\ phase # "stopped" /\ Exit

StartAgain ==
    /\ phase = "stopped"
    /\ Restart
    /\ phase' = "connecting" /\ lost' = FALSE /\ told' = "no"
    /\ queue' = <<>> /\ scan' = {}
    /\ UNCHANGED <<faults, missed, plugged, parts, byId, plugs, edits>>

----------------------------------------------------------------------------

World == \/ \E d \in Disk : \/ \E stem \in Stem : Plug(d, stem)
                            \/ Unplug(d)
         \/ \E l \in Link : MakeLink(l) \/ RemoveLink(l)
         \/ \E l \in Partitions : ChangePartition(l)
         \/ LoseDirectory

Daemon == \/ Connect \/ SetUpWatch \/ OpenDirectory \/ EnterMainLoop
          \/ \E l \in Link : ScanEntry(l)
          \/ Dispatch
          \/ GoOn

Signals == Terminate \/ SwallowSignal \/ HeedSignal \/ TerminateAgain

MountaNext == World \/ Daemon \/ Signals \/ GiveUp \/ Kill \/ StartAgain

MountaSpec == MountaInit /\ [][MountaNext]_vars

----------------------------------------------------------------------------
(* Fairness.  udev finishes what it has to do, and the daemon's thread does *)
(* not stop while it has something to do: its main loop always polls the    *)
(* inotify descriptor, and no handler waits for another.  Between two       *)
(* handlers GLib looks at all its sources, the signal's among them.  Disks  *)
(* need not be plugged or unplugged, no fault has to happen, and nobody has *)
(* to start the daemon again.                                               *)

MountaFairness ==
    /\ WF_vars(Daemon)
    /\ SF_vars(HeedSignal)
    /\ \A l \in Link : WF_vars(MakeLink(l)) /\ WF_vars(RemoveLink(l))

FairMountaSpec == MountaSpec /\ MountaFairness

----------------------------------------------------------------------------
(* Why the daemon's idea of the disks follows the links, in whatever order  *)
(* things happen: the inductive invariants behind the properties below.     *)

Dropping(i) == pc = "drop" /\ cur = i

\* The removal of l is still to be handled.
GoneQueued(q, l) == \E k \in 1..Len(q) : q[k] = Gone(l)

\* Whatever is still to be handled of l ends with its removal.
Withdrawn(q, l) ==
    \A k \in 1..Len(q) : q[k] = New(l) => \E j \in (k + 1)..Len(q) : q[j] = Gone(l)

\* l is still to be handled, after all removals of its disk.
Renewed(q, l) ==
    \E k \in 1..Len(q) :
        q[k] = New(l) /\ \A j \in (k + 1)..Len(q) : q[j] # Gone(Root(l))

\* A daemon knows of no disk before it scans the directory, and scans it once.
FreshStart ==
    /\ phase \in {"connecting", "starting", "watching"} =>
          pc = "idle" /\ \A i \in ID : ~Registered(i)
    /\ phase # "scanning" => scan = {}

\* No partition has a link without its disk, and all resolve to one node.
LinksAgree ==
    "disorder" \notin faults =>
        \A l \in Link : byId[l] # NoStem =>
            /\ byId[Root(l)] # NoStem
            /\ "takeover" \notin faults =>
                  byId[Root(l)] = byId[l] /\ plugged[l[1]] \in {NoStem, byId[l]}

\* Links of disks that are gone do not take the daemon in: that they are gone
\* is in the queue, behind all that speaks of them.
RemovalsFollow ==
    Watched => \A l \in Link :
        l[2] = 0 /\ l[1] \notin missed /\ byId[l] = NoStem
        => Withdrawn(queue, l) /\ (l \in scan => GoneQueued(queue, l))

\* Each named device has its link, or the daemon will be told that it has not,
\* and each volume is on the node of that link, unless the device will go.
Traced(i) ==
    LET name == devices[i].link
        root == <<name, 0>> IN
    /\ name = Unnamed => devices[i].state = "SYNTHETIC"
    /\ name # Unnamed => root \in Link
    /\ Watched /\ name \notin missed \cup {Unnamed} /\ ~Dropping(i)
       /\ ~GoneQueued(queue, root) =>
          /\ \/ byId[root] # NoStem
             \/ "disorder" \in faults /\ devices[i].state = "SYNTHETIC"
          /\ faults \cap {"takeover", "disorder"} = {} =>
                \A k \in Volumes(devices[i]) : devices[i].vol[k].stem = byId[root]

DevicesTraced == \A i \in ID : Registered(i) => Traced(i)

TraceInv == FreshStart /\ LinksAgree /\ RemovalsFollow /\ DevicesTraced

\* Disks whose node has no number and whose name is accepted.
Ordinary(d) == IsAcceptable(d) /\ \A stem \in Node[d] : NodeNumber[stem] = 0

\* What is known of the disk behind device i is right, if not complete.
Healthy(i) ==
    LET dev == devices[i]
        d == dev.link IN
    /\ dev.state \in {"SYNTHETIC", "PROBED", "OK"} /\ dev.dir # "failed"
    /\ dev.state = "OK" => ~Empty(dev)
    /\ d \in Superfloppy => Whole \in Volumes(dev)
    /\ \A k \in Volumes(dev) :
          /\ dev.vol[k].stem = plugged[d] /\ dev.vol[k].state # "UNUSABLE"
          /\ <<d, k>> \in Partitions \/ (k = Whole /\ d \in Superfloppy)

\* Link l has been handled, and the device it led to will stay.
Served(l) ==
    \E i \in ID :
        /\ Registered(i) /\ devices[i].link = l[1] /\ ~Dropping(i)
        /\ IF l[2] = 0 THEN devices[i].state \in {"PROBED", "OK"}
                       ELSE l[2] \in Volumes(devices[i])

\* Link l has been handled or will be, and no removal will undo that.
Attended(l) ==
    \/ Renewed(queue, l)
    \/ /\ ~GoneQueued(queue, Root(l))
       /\ phase = "watching" \/ l \in scan \/ Served(l)

\* With no removal of disk d to come, its device is as it should be, ...
DevicesWell(d) ==
    ~GoneQueued(queue, <<d, 0>>) =>
        \A i \in ID : Registered(i) /\ devices[i].link = d /\ ~Dropping(i)
                     => Healthy(i)

\* ... and no link of it is overlooked.
LinksAttended(d) == \A l \in Link : l[1] = d /\ byId[l] # NoStem => Attended(l)

\* As long as nothing fails that is the daemon's own, each disk that is there
\* is on its way to be served, or is.
ServeInv ==
    faults \subseteq {"overflow"} =>
        /\ parts = Partitions
        /\ \A d \in Disk : plugged[d] \in Node[d] \cup {NoStem}
        /\ Watched /\ pc # "spinning" =>
              \A d \in Disk \ missed : Ordinary(d) /\ plugged[d] # NoStem
                 => DevicesWell(d) /\ LinksAttended(d)

----------------------------------------------------------------------------
(* Properties *)

\* udev is done, and every event has been handled.
Settled ==
    /\ phase = "running" /\ queue = <<>> /\ pc = "idle" /\ ~lost
    /\ \A l \in Link : byId[l] = Target(l)

\* Device i stands for disk d as it is now, with all there is to mount.
Serves(i, d) ==
    LET wanted == {l[2] : l \in {p \in parts : p[1] = d}}
                    \cup (IF d \in Superfloppy THEN {Whole} ELSE {}) IN
    /\ IsDevice(i, d)
    /\ devices[i].state = (IF wanted = {} THEN "PROBED" ELSE "OK")
    /\ \A k \in wanted :
          devices[i].vol[k] = [state |-> "MOUNTED", stem |-> plugged[d]]

\* Once everything has settled, and if no tool failed, each disk that is there
\* is registered with all its volumes mounted, whatever came in between: links
\* handled when they had been removed or made anew, the scan at startup seeing
\* what the queue will report again.  If the kernel drops events, which nobody
\* notices, this still holds of all disks but those the dropped events were
\* about, and of these too once they have been pulled out.
Converged ==
    faults \subseteq {"overflow"} /\ Settled => \A d \in Disk \ missed :
        Ordinary(d) /\ plugged[d] # NoStem => \E i \in ID : Serves(i, d)

\* No device outlives its disk: once settled, and whatever failed, a named
\* device in the map stands for a disk that is plugged in, unless an event was
\* dropped.  If a partition gets its link before its disk, which then never
\* gets one, a device is made and never removed, but only as one that nobody
\* was told of and that has nothing mounted.
NoGhosts ==
    Settled => \A i \in ID :
        Registered(i) /\ devices[i].link \notin missed \cup {Unnamed}
        => \/ plugged[devices[i].link] # NoStem
           \/ "disorder" \in faults /\ catalog[i] = "unknown"
                                     /\ Mounted(devices[i]) = {}

\* No volume stays mounted from a node that is no longer its disk's, unless an
\* event was dropped, a new disk took a link over and no removal was ever
\* reported, or, with links in any order, the device was first made of a
\* partition on the earlier node.
NoStaleMounts ==
    faults \cap {"takeover", "disorder"} = {} /\ Settled =>
        \A i \in ID : devices[i].link \notin missed =>
            \A k \in Mounted(devices[i]) :
                devices[i].vol[k].stem = plugged[devices[i].link]

\* A stick that stays is eventually served for good by a daemon that stays.
StickServed ==
    \A d \in Disk : Ordinary(d) =>
        (<>[](plugged[d] # NoStem /\ phase # "stopped")
            => <>[](\E i \in ID : Serves(i, d)))

\* A stick pulled out is eventually forgotten for good.
StickForgotten ==
    \A d \in Disk : <>[](plugged[d] = NoStem) => <>[]~Known(d)

\* A daemon told to stop does so, though it looks at signals in the main loop
\* only, and with any amount of startup and of events before it.  (While it
\* still waits for its bus name the signal is swallowed.)
StopsWhenTold == told = "pending" /\ phase # "connecting" ~> phase = "stopped"

\* What the daemon has still to do: ways to the main loop, links and events,
\* and steps of the handler.
PhasesLeft == CASE phase = "connecting" -> 4
                [] phase = "starting" -> 3
                [] phase = "watching" -> 2
                [] phase = "scanning" -> 1
                [] OTHER -> 0
EventsLeft == Cardinality(scan) + Len(queue)
StepsLeft == Cardinality(todo) + (IF pc = "drop" THEN 1 ELSE 0)

\* Left alone the daemon comes to rest, whatever it finds and whatever fails:
\* no step of it, in whatever state, leaves as much to do as there was.
WorkShrinks ==
    [][Daemon => \/ PhasesLeft' < PhasesLeft
                 \/ PhasesLeft' = PhasesLeft /\ EventsLeft' < EventsLeft
                 \/ /\ PhasesLeft' = PhasesLeft /\ EventsLeft' = EventsLeft
                    /\ StepsLeft' < StepsLeft]_vars

----------------------------------------------------------------------------
(* What the documentation says and the code does not do: each of these is   *)
(* violated by a run.                                                       *)

\* README.md:79: "When a USB partition disappears, then unmount the device ...
\* Mark the partition as unavailable".
PartitionGoneUnmounted ==
    Settled => \A i \in ID : \A l \in Partitions :
        Registered(i) /\ devices[i].link = l[1] /\ byId[l] = NoStem
        => l[2] \notin Mounted(devices[i])

\* devices.cc:86: the index of a new volume is free on its device.
InsertionNeverFails == bug # "insertion"

\* README.md:93: when a root device disappears, "forget the device and its
\* partitions".
NothingLeft ==
    Settled /\ (\A d \in Disk : plugged[d] = NoStem)
    => \A i \in ID : ~Registered(i)

=============================================================================
