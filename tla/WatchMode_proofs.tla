-------------------------- MODULE WatchMode_proofs --------------------------
(***************************************************************************)
(* Proofs about watch mode, for any drives, names, directories and bounds, *)
(* and whatever goes wrong: FdEvents, as it is used here, hands events out *)
(* once and in order; WatchInv is inductive, so that what is reported is   *)
(* what the daemon holds, and is there; and signals are the catalogue's.   *)
(***************************************************************************)
EXTENDS WatchMode, AutomounterSteps_proofs, SequenceTheorems

StreamStep == [Stream!StreamNext]_(Stream!streamVars)

\* What the steps of FdEvents, one by one, do to the stream.
FdNext ==
    \/ UNCHANGED eventVars
    \/ Watch
    \/ \E e \in Event : Happens(e) \/ Handed(e)
    \/ FillBuffer
    \/ HandedLast
    \/ Vanish

----------------------------------------------------------------------------

LEMMA WatchStream ==
    ASSUME FdTypeOK, Watch
    PROVE  FdTypeOK' /\ StreamStep
<1>1. fd = "closed" /\ fd' = "open" /\ pending' = <<>> /\ batch' = <<>>
  BY DEF Watch
<1>2. FdTypeOK'
  BY <1>1, EventsAssumption DEF FdTypeOK
<1>3. (batch \o pending)' = <<>>
  BY <1>1
<1>4. Stream!Begin
  BY <1>1, <1>3 DEF Stream!Begin
<1>5. QED
  BY <1>2, <1>4 DEF StreamStep, Stream!StreamNext

\* A full queue drops what happens, which nobody hears of.
LEMMA HappensStream ==
    ASSUME FdTypeOK, NEW e \in Event, Happens(e)
    PROVE  /\ FdTypeOK' /\ StreamStep /\ fd' = fd
           /\ Coming' = IF fd = "open" /\ Len(pending) < QueueMax
                        THEN Append(Coming, e) ELSE Coming
<1>1. CASE fd = "open" /\ Len(pending) < QueueMax
  <2>1. pending' = Append(pending, e) /\ UNCHANGED <<fd, batch>>
    BY <1>1 DEF Happens
  <2>2. pending' \in Seq(Event) /\ Len(pending') = Len(pending) + 1
    BY <2>1, AppendProperties DEF FdTypeOK
  <2>3. FdTypeOK'
    BY <1>1, <2>1, <2>2, LenProperties, EventsAssumption DEF FdTypeOK
  <2>4. batch \o pending' = Append(batch \o pending, e)
    <3>1. /\ pending' = pending \o <<e>> /\ <<e>> \in Seq(Event)
          /\ batch \o pending \in Seq(Event)
      BY <2>1, AppendIsConcat, ConcatProperties DEF FdTypeOK
    <3>2. batch \o (pending \o <<e>>) = (batch \o pending) \o <<e>>
      BY <3>1, ConcatAssociative DEF FdTypeOK
    <3>3. QED
      BY <3>1, <3>2, AppendIsConcat
  <2>5. Stream!Arrive(e)
    BY <1>1, <2>1, <2>4 DEF Stream!Arrive
  <2>6. QED
    BY <1>1, <2>1, <2>3, <2>4, <2>5 DEF StreamStep, Stream!StreamNext, Coming
<1>2. CASE ~(fd = "open" /\ Len(pending) < QueueMax)
  BY <1>2 DEF Happens, FdTypeOK, StreamStep, Stream!streamVars, Coming
<1>3. QED
  BY <1>1, <1>2

\* Reading moves events from the queue to the buffer, and does not reorder them.
LEMMA FillBufferStream ==
    ASSUME FdTypeOK, FillBuffer
    PROVE  FdTypeOK' /\ StreamStep /\ Coming' = Coming
<1> DEFINE n == Min2(BatchMax, Len(pending))
<1>1. /\ fd = "open" /\ batch = <<>> /\ pending # <<>>
      /\ batch' = SubSeq(pending, 1, n)
      /\ pending' = SubSeq(pending, n + 1, Len(pending))
      /\ fd' = fd
  BY DEF FillBuffer
<1>2. Len(pending) \in Nat \ {0} /\ pending \in Seq(Event)
  BY <1>1, EmptySeq DEF FdTypeOK
<1>3. n \in 1..Len(pending) /\ n <= BatchMax
  BY <1>2, EventsAssumption DEF Min2
<1>4. \A i \in 1..Len(pending) : pending[i] \in Event
  BY <1>2, ElementOfSeq
<1>5. batch' \in Seq(Event) /\ Len(batch') = n
  <2>1. /\ SubSeq(pending, 1, n) \in Seq(Event)
        /\ Len(SubSeq(pending, 1, n)) = IF 1 <= n THEN n - 1 + 1 ELSE 0
    <3> HIDE DEF n
    <3>1. \A i \in 1..n : pending[i] \in Event
      BY <1>2, <1>3, <1>4
    <3>2. QED
      BY <1>3, <3>1, SubSeqProperties
  <2>2. QED
    BY <1>1, <1>3, <2>1
<1>6. pending' \in Seq(Event) /\ Len(pending') <= Len(pending)
  <2>1. /\ SubSeq(pending, n + 1, Len(pending)) \in Seq(Event)
        /\ Len(SubSeq(pending, n + 1, Len(pending)))
             = IF n + 1 <= Len(pending) THEN Len(pending) - (n + 1) + 1 ELSE 0
    <3> HIDE DEF n
    <3>1. \A i \in (n + 1)..Len(pending) : pending[i] \in Event
      BY <1>2, <1>3, <1>4
    <3>2. QED
      BY <1>2, <1>3, <3>1, SubSeqProperties
  <2>2. QED
    BY <1>1, <1>2, <1>3, <2>1
<1>7. FdTypeOK'
  BY <1>1, <1>2, <1>3, <1>5, <1>6, EventsAssumption DEF FdTypeOK
<1>8. batch' \o pending' = pending
  <2>1. SubSeq(pending, 1, n) \o SubSeq(pending, n + 1, Len(pending))
          = SubSeq(pending, 1, Len(pending))
    <3> HIDE DEF n
    <3>1. QED
      BY <1>2, <1>3, ConcatAdjacentSubSeq
  <2>2. QED
    BY <1>1, <1>2, <2>1, SubSeqFull
<1>9. batch \o pending = pending
  BY <1>1, <1>2, ConcatEmptySeq
<1>10. UNCHANGED Stream!streamVars
  BY <1>1, <1>8, <1>9 DEF Stream!streamVars
<1>11. QED
  BY <1>7, <1>8, <1>9, <1>10 DEF StreamStep, Coming

LEMMA HandedStream ==
    ASSUME FdTypeOK, NEW e \in Event, Handed(e)
    PROVE  /\ FdTypeOK' /\ StreamStep /\ fd = "open" /\ fd' = fd
           /\ Coming # <<>> /\ Head(Coming) = e /\ Coming' = Tail(Coming)
<1>1. /\ batch # <<>> /\ batch' = Tail(batch)
      /\ fd' = fd /\ pending' = pending
      /\ batch \in Seq(Event) /\ pending \in Seq(Event)
  BY DEF Handed, FdTypeOK
<1>2. fd = "open"
  BY <1>1 DEF FdTypeOK
<1>3. Tail(batch) \in Seq(Event) /\ Len(Tail(batch)) = Len(batch) - 1
  BY <1>1, HeadTailProperties
<1>4. FdTypeOK'
  BY <1>1, <1>2, <1>3, LenProperties, EventsAssumption DEF FdTypeOK
<1>5. batch \o pending \in Seq(Event) /\ batch \o pending # <<>>
  BY <1>1, ConcatProperties, ConcatEqualIffEmpty
<1>6. Tail(batch) \o pending = Tail(batch \o pending)
  <2> DEFINE s == Tail(batch) \o pending
             t == Tail(batch \o pending)
  <2>1. /\ Len(batch) \in Nat \ {0} /\ Len(pending) \in Nat
        /\ Len(batch \o pending) = Len(batch) + Len(pending)
        /\ \A i \in 1..(Len(batch) + Len(pending)) : (batch \o pending)[i] =
             IF i <= Len(batch) THEN batch[i] ELSE pending[i - Len(batch)]
    BY <1>1, EmptySeq, LenProperties, ConcatProperties
  <2>2. /\ s \in Seq(Event) /\ Len(s) = Len(batch) - 1 + Len(pending)
        /\ \A i \in 1..(Len(batch) - 1 + Len(pending)) : s[i] =
             IF i <= Len(batch) - 1 THEN Tail(batch)[i]
                                    ELSE pending[i - (Len(batch) - 1)]
    BY <1>1, <1>3, ConcatProperties
  <2>3. /\ t \in Seq(Event) /\ Len(t) = Len(batch) + Len(pending) - 1
        /\ \A i \in 1..Len(t) : t[i] = (batch \o pending)[i + 1]
    BY <1>5, <2>1, HeadTailProperties
  <2>4. \A i \in 1..(Len(batch) - 1) : Tail(batch)[i] = batch[i + 1]
    BY <1>1, <1>3, HeadTailProperties
  <2>5. Len(s) = Len(t) /\ \A i \in 1..Len(s) : s[i] = t[i]
    BY <2>1, <2>2, <2>3, <2>4
  <2>6. QED
    BY <2>2, <2>3, <2>5, SeqEqual
<1>7. Stream!Deliver
  BY <1>1, <1>2, <1>5, <1>6 DEF Stream!Deliver
<1>8. Head(batch \o pending) = e
  <2>1. Head(batch) = e /\ Head(batch) = batch[1] /\ 1 \in 1..Len(batch)
    BY <1>1, EmptySeq, LenProperties, HeadTailProperties DEF Handed
  <2>2. (batch \o pending)[1] = batch[1]
    BY <1>1, <2>1, LenProperties, ConcatProperties
  <2>3. Head(batch \o pending) = (batch \o pending)[1]
    BY <1>5, HeadTailProperties
  <2>4. QED
    BY <2>1, <2>2, <2>3
<1>9. QED
  BY <1>1, <1>2, <1>4, <1>5, <1>6, <1>7, <1>8
  DEF StreamStep, Stream!StreamNext, Coming

\* After the last event, and after the end of the process, nothing is heard.
LEMMA ClosedStream ==
    ASSUME FdTypeOK, HandedLast \/ Vanish
    PROVE  FdTypeOK' /\ StreamStep
<1>1. fd' = "closed" /\ batch' = <<>> /\ pending' = <<>>
  BY DEF HandedLast, Vanish
<1>2. FdTypeOK'
  BY <1>1, EventsAssumption DEF FdTypeOK
<1>3. (batch \o pending)' = <<>>
  BY <1>1
<1>4. CASE fd = "open"
  BY <1>1, <1>2, <1>3, <1>4 DEF StreamStep, Stream!StreamNext, Stream!End
<1>5. CASE fd = "closed"
  <2>1. batch \o pending = <<>>
    BY <1>5 DEF FdTypeOK
  <2>2. QED
    BY <1>1, <1>2, <1>3, <1>5, <2>1 DEF StreamStep, Stream!streamVars
<1>6. QED
  BY <1>4, <1>5 DEF FdTypeOK

LEMMA FdStep ==
    ASSUME FdTypeOK, FdNext
    PROVE  FdTypeOK' /\ StreamStep
<1>1. CASE UNCHANGED eventVars
  BY <1>1 DEF eventVars, FdTypeOK, StreamStep, Stream!streamVars
<1>2. QED
  BY <1>1, WatchStream, HappensStream, FillBufferStream, HandedStream, ClosedStream
  DEF FdNext

----------------------------------------------------------------------------
(* Who takes these steps                                                   *)

LEMMA WorldTakesFdSteps == World => FdNext
<1>1. \A p \in Path : New(p) \in Event /\ Gone(p) \in Event
  BY WatchAssumption DEF New, Gone
<1>2. ASSUME NEW p \in Path, NEW v \in Part, MkDir(p, v) PROVE FdNext
  BY <1>1, <1>2 DEF MkDir, FdNext
<1>3. ASSUME NEW p \in Path, RmDir(p) PROVE FdNext
  BY <1>1, <1>3 DEF RmDir, FdNext
<1>4. CASE LoseDirectory
  BY <1>4, EventsAssumption DEF LoseDirectory, FdNext
<1>5. QED
  BY <1>2, <1>3, <1>4 DEF World, Plug, Unplug, Mount, Umount, FdNext

LEMMA DaemonTakesFdSteps == Daemon => FdNext
<1>1. CASE SetUpWatch
  BY <1>1 DEF SetUpWatch, FdNext
<1>2. CASE Read
  BY <1>2 DEF Read, FdNext
<1>3. CASE Dispatch
  <2>1. \A p \in Path : New(p) \in Event /\ Gone(p) \in Event
    BY WatchAssumption DEF New, Gone
  <2>2. QED
    BY <1>3, <2>1 DEF Dispatch, FdNext
<1>4. CASE OpenDirectory \/ EnterMainLoop \/ \E p \in Path : ScanEntry(p)
  BY <1>4 DEF OpenDirectory, EnterMainLoop, ScanEntry, FdNext
<1>5. CASE Look \/ DiskLink \/ VolumeLink \/ Report \/ Drop
  BY <1>5 DEF Look, DiskLink, VolumeLink, Report, Drop, FdNext
<1>6. QED
  BY <1>1, <1>2, <1>3, <1>4, <1>5 DEF Daemon

LEMMA WatchStepIsFd == [WatchNext]_vars => FdNext
<1>1. CASE Die \/ StartAgain
  BY <1>1 DEF Die, StartAgain, FdNext
<1>2. CASE UNCHANGED vars
  BY <1>2 DEF vars, FdNext
<1>3. QED
  BY <1>1, <1>2, WorldTakesFdSteps, DaemonTakesFdSteps DEF WatchNext

\* Whatever the sizes of buffer and queue, and whatever goes wrong, the handler
\* gets events once and in order, and none after the end of the directory.
THEOREM WatchDeliversStream == WatchSpec => DeliversStream
<1>1. WatchInit => FdTypeOK /\ Stream!StreamInit
  <2>1. SUFFICES ASSUME WatchInit PROVE FdTypeOK /\ Stream!StreamInit
    OBVIOUS
  <2>2. fd = "closed" /\ pending = <<>> /\ batch = <<>>
    BY <2>1 DEF WatchInit, FdInit
  <2>3. batch \o pending = <<>>
    BY <2>2
  <2>4. QED
    BY <2>2, <2>3, EventsAssumption DEF FdTypeOK, Stream!StreamInit
<1>2. FdTypeOK /\ [WatchNext]_vars => FdTypeOK' /\ StreamStep
  BY WatchStepIsFd, FdStep
<1>3. QED
  BY <1>1, <1>2, PTL DEF WatchSpec, DeliversStream, Stream!StreamSpec, StreamStep

----------------------------------------------------------------------------
(* What is still to be handled, when an event is added or handled          *)

LEMMA EventFacts ==
    ASSUME NEW p \in Path, NEW q \in Path
    PROVE  /\ New(p) \in Event /\ Gone(p) \in Event
           /\ New(p) # Gone(q)
           /\ New(p) = New(q) <=> p = q
           /\ Gone(p) = Gone(q) <=> p = q
           /\ Ended \in Event /\ Ended # New(p) /\ Ended # Gone(p)
BY WatchAssumption, EventsAssumption DEF New, Gone

LEMMA ComingType ==
    ASSUME FdTypeOK
    PROVE  Coming \in Seq(Event)
BY ConcatProperties DEF FdTypeOK, Coming

LEMMA NothingComing ==
    ASSUME NEW p, NEW r
    PROVE  /\ ~GoneIn(<<>>, p) /\ Forgotten(<<>>, p) /\ ~Renewed(<<>>, p)
           /\ ~GoneBeforeNew(<<>>, r, p)
BY DEF GoneIn, Forgotten, Renewed, GoneBeforeNew

LEMMA AppendComing ==
    ASSUME NEW q \in Seq(Event), NEW e \in Event, NEW p \in Path
    PROVE  /\ GoneIn(Append(q, e), p) <=> GoneIn(q, p) \/ e = Gone(p)
           /\ e = Gone(p) => Forgotten(Append(q, e), p)
           /\ e # New(p) /\ Forgotten(q, p) => Forgotten(Append(q, e), p)
           /\ e = New(p) => Renewed(Append(q, e), p)
           /\ e # Gone(p) /\ Renewed(q, p) => Renewed(Append(q, e), p)
           /\ \A r : GoneBeforeNew(q, r, p) => GoneBeforeNew(Append(q, e), r, p)
           /\ \A r : GoneIn(q, r) /\ e = New(p) => GoneBeforeNew(Append(q, e), r, p)
<1> DEFINE s == Append(q, e)
<1>1. /\ Len(q) \in Nat /\ Len(s) = Len(q) + 1 /\ s[Len(q) + 1] = e
      /\ \A k \in 1..Len(q) : s[k] = q[k]
  OBVIOUS
<1> HIDE DEF s
<1>2. GoneIn(s, p) <=> GoneIn(q, p) \/ e = Gone(p)
  BY <1>1 DEF GoneIn
<1>3. e = Gone(p) => Forgotten(s, p)
  BY <1>1, EventFacts DEF Forgotten
<1>4. e # New(p) /\ Forgotten(q, p) => Forgotten(s, p)
  BY <1>1 DEF Forgotten
<1>5. e = New(p) => Renewed(s, p)
  BY <1>1 DEF Renewed
<1>6. e # Gone(p) /\ Renewed(q, p) => Renewed(s, p)
  BY <1>1 DEF Renewed
<1>7. ASSUME NEW r, GoneBeforeNew(q, r, p) PROVE GoneBeforeNew(s, r, p)
  BY <1>1, <1>7 DEF GoneBeforeNew
<1>8. ASSUME NEW r, GoneIn(q, r), e = New(p) PROVE GoneBeforeNew(s, r, p)
  <2>1. PICK j \in 1..Len(q) : q[j] = Gone(r)
    BY <1>8 DEF GoneIn
  <2>2. /\ j \in 1..Len(s) /\ Len(q) + 1 \in 1..Len(s) /\ j < Len(q) + 1
        /\ s[j] = Gone(r) /\ s[Len(q) + 1] = New(p)
    BY <1>1, <1>8, <2>1
  <2>3. QED
    BY <2>2 DEF GoneBeforeNew
<1>9. QED
  BY <1>2, <1>3, <1>4, <1>5, <1>6, <1>7, <1>8 DEF s

NewIn(q, p) == \E k \in 1..Len(q) : q[k] = New(p)

LEMMA TailComing ==
    ASSUME NEW q \in Seq(Event), q # <<>>, NEW p \in Path
    PROVE  /\ GoneIn(Tail(q), p) => GoneIn(q, p)
           /\ GoneIn(q, p) => GoneIn(Tail(q), p) \/ Head(q) = Gone(p)
           /\ Forgotten(q, p) => Forgotten(Tail(q), p)
           /\ Forgotten(q, p) /\ Head(q) = New(p) => GoneIn(Tail(q), p)
           /\ Renewed(q, p) => \/ Renewed(Tail(q), p)
                               \/ Head(q) = New(p) /\ ~GoneIn(Tail(q), p)
           /\ \A r : GoneBeforeNew(q, r, p) =>
                 /\ NewIn(Tail(q), p)
                 /\ Head(q) # Gone(r) => GoneBeforeNew(Tail(q), r, p)
<1> DEFINE s == Tail(q)
<1>1. /\ Len(q) \in Nat /\ Len(q) > 0 /\ Len(s) = Len(q) - 1 /\ Head(q) = q[1]
      /\ \A k \in 1..Len(s) : s[k] = q[k + 1]
  OBVIOUS
<1> HIDE DEF s
<1>2. \A k \in 1..Len(q) : k # 1 => k - 1 \in 1..Len(s) /\ s[k - 1] = q[k]
  BY <1>1
<1>3. GoneIn(s, p) => GoneIn(q, p)
  BY <1>1 DEF GoneIn
<1>4. GoneIn(q, p) => GoneIn(s, p) \/ Head(q) = Gone(p)
  <2>1. ASSUME NEW k \in 1..Len(q), q[k] = Gone(p), k # 1
        PROVE  GoneIn(s, p)
    BY <1>2, <2>1 DEF GoneIn
  <2>2. QED
    BY <1>1, <2>1 DEF GoneIn
<1>5. Forgotten(q, p) => Forgotten(s, p)
  <2>1. ASSUME Forgotten(q, p), NEW k \in 1..Len(s), s[k] = New(p)
        PROVE  \E j \in (k + 1)..Len(s) : s[j] = Gone(p)
    <3>1. PICK j \in (k + 2)..Len(q) : q[j] = Gone(p)
      BY <1>1, <2>1 DEF Forgotten
    <3>2. j - 1 \in (k + 1)..Len(s) /\ s[j - 1] = Gone(p)
      BY <1>1, <3>1
    <3>3. QED
      BY <3>2
  <2>2. QED
    BY <2>1 DEF Forgotten
<1>6. Forgotten(q, p) /\ Head(q) = New(p) => GoneIn(s, p)
  <2>1. ASSUME Forgotten(q, p), Head(q) = New(p)
        PROVE  \E j \in 2..Len(q) : q[j] = Gone(p)
    BY <1>1, <2>1 DEF Forgotten
  <2>2. ASSUME NEW j \in 2..Len(q), q[j] = Gone(p)
        PROVE  GoneIn(s, p)
    <3>1. j - 1 \in 1..Len(s) /\ s[j - 1] = Gone(p)
      BY <1>1, <2>2
    <3>2. QED
      BY <3>1 DEF GoneIn
  <2>3. QED
    BY <2>1, <2>2
<1>7. Renewed(q, p) => Renewed(s, p) \/ (Head(q) = New(p) /\ ~GoneIn(s, p))
  <2>1. SUFFICES ASSUME NEW k \in 1..Len(q), q[k] = New(p),
                        \A j \in (k + 1)..Len(q) : q[j] # Gone(p)
                 PROVE  Renewed(s, p) \/ (Head(q) = New(p) /\ ~GoneIn(s, p))
    BY DEF Renewed
  <2>2. CASE k = 1
    BY <1>1, <2>1, <2>2 DEF GoneIn
  <2>3. CASE k # 1
    <3>1. k - 1 \in 1..Len(s) /\ s[k - 1] = New(p)
      BY <1>1, <2>1, <2>3
    <3>2. \A j \in ((k - 1) + 1)..Len(s) : s[j] # Gone(p)
      BY <1>1, <2>1, <2>3
    <3>3. QED
      BY <3>1, <3>2 DEF Renewed
  <2>4. QED
    BY <2>2, <2>3
<1>8. ASSUME NEW r, GoneBeforeNew(q, r, p)
      PROVE  NewIn(s, p) /\ (Head(q) # Gone(r) => GoneBeforeNew(s, r, p))
  <2>1. PICK j \in 1..Len(q), k \in 1..Len(q) :
           j < k /\ q[j] = Gone(r) /\ q[k] = New(p)
    BY <1>8 DEF GoneBeforeNew
  <2>2. k # 1 /\ k - 1 \in 1..Len(s) /\ s[k - 1] = New(p)
    BY <1>1, <1>2, <2>1
  <2>3. Head(q) # Gone(r) =>
           j - 1 \in 1..Len(s) /\ s[j - 1] = Gone(r) /\ j - 1 < k - 1
    BY <1>1, <1>2, <2>1
  <2>4. QED
    BY <2>2, <2>3 DEF NewIn, GoneBeforeNew
<1>9. QED
  BY <1>3, <1>4, <1>5, <1>6, <1>7, <1>8 DEF s

\* With p to be looked at and no removal of it to follow at the end, no removal
\* follows that.
LEMMA NewLast ==
    ASSUME NEW q \in Seq(Event), NEW p \in Path,
           NewIn(q, p), GoneIn(q, p) => Renewed(q, p)
    PROVE  Renewed(q, p)
BY DEF NewIn, GoneIn, Renewed

----------------------------------------------------------------------------
(* Single facts                                                            *)

LEMMA JobFacts ==
    /\ NoJob \in Jobs /\ NoJob.step = "none" /\ NoJob.path = NoPath
    /\ NoPath \notin Path
    /\ NoLink \notin Link /\ NoLink = <<Unnamed, 0>>
    /\ \A d \in Disk : <<d, 0>> # NoLink
    /\ \A p \in Path : NothingMapped[p] = NoLink
<1>1. \A d \in Disk : <<d, 0>> # <<Unnamed, 0>>
  BY SentinelAssumption
<1>2. NoLink \notin Link
  <2>1. \A l \in Link : l[1] \in Disk
    BY LinkAssumption
  <2>2. NoLink[1] = Unnamed
    BY DEF NoLink
  <2>3. QED
    BY <2>1, <2>2, SentinelAssumption
<1>3. NoPath \notin Path
  BY WatchAssumption
<1>4. NoJob \in Jobs
  BY DEF NoJob, Jobs
<1>5. QED
  BY <1>1, <1>2, <1>3, <1>4 DEF NoJob, NoLink, NothingMapped

LEMMA PlaceFacts ==
    ASSUME NEW place \in Places
    PROVE  /\ place = Free <=> place.stage = "none"
           /\ place # Free => place.part \in Part
           /\ place.stage = "mounted" => place.stem \in Stem
           /\ place.stage \in {"none", "made", "mounted", "left"}
BY DEF Places, Free

LEMMA LinkFacts ==
    ASSUME NEW v \in Part
    PROVE  /\ v[1] \in Drive /\ v[2] \in Nat
           /\ FirstLink(v) \in Link /\ SecondLink(v) \in Link
           /\ FirstLink(v) = <<RootOf[v[1]], 0>>
           /\ FirstLink(v)[1] = RootOf[v[1]] /\ FirstLink(v)[2] = 0
           /\ FirstLink(v) # NoLink
           /\ RootOf[v[1]] \in Disk /\ PartOf[v[1]] \in Disk
           /\ v[2] = 0 => SecondLink(v) = FirstLink(v)
           /\ v[2] # 0 => /\ SecondLink(v) = <<PartOf[v[1]], v[2]>>
                          /\ SecondLink(v)[1] = PartOf[v[1]]
                          /\ SecondLink(v)[2] = v[2]
<1>1. v[1] \in Drive /\ v[2] \in Nat
  BY WatchAssumption
<1>2. RootOf[v[1]] \in Disk /\ PartOf[v[1]] \in Disk
  BY <1>1, WatchAssumption
<1>3. <<RootOf[v[1]], 0>> \in Link /\ <<PartOf[v[1]], v[2]>> \in Link
  BY WatchAssumption
<1>4. QED
  BY <1>1, <1>2, <1>3, JobFacts DEF FirstLink, SecondLink

LEMMA ResolveType ==
    ASSUME WatchTypeOK, NEW l \in Link
    PROVE  Resolve(l) \in Stem \cup {NoStem}
BY DEF Resolve, WatchTypeOK

LEMMA FilterFacts ==
    ASSUME NEW d \in Device
    PROVE  /\ Filter(d) \in Device
           /\ Filter(d).link = d.link /\ Filter(d).dir = d.dir
           /\ Filter(d).vol = d.vol
           /\ d.state # "PROBED" => Filter(d) = d
           /\ d.state = "PROBED" => /\ Filter(d).state \in {"OK", "REJECTED"}
                                    /\ IsAcceptable(d.link) => Filter(d).state = "OK"
BY DEF Filter, Device, DeviceState

----------------------------------------------------------------------------
(* The world moves                                                         *)

LEMMA WatchView ==
    ASSUME WatchInv
    PROVE  /\ ViewInv /\ NothingHidden /\ CoreTypeOK /\ FdTypeOK
           /\ \A i \in ID : \A k \in Mounted(devices[i]) :
                 /\ Registered(i) /\ devices[i].state = "OK"
                 /\ devices[i].link \in Disk
<1>1. /\ CoreTypeOK /\ FdTypeOK /\ UniqueLinks /\ ClientViewExact /\ JobConsistent
      /\ AdoptedRight
  BY DEF WatchInv, WatchTypeOK, JobRight
<1>2. \A i \in ID : ~Registered(i) => Mounted(devices[i]) = {}
  BY SentinelFacts DEF Registered, Mounted
<1>3. NothingHidden
  BY <1>1, <1>2 DEF NothingHidden, AdoptedRight
<1>4. ASSUME NEW i \in ID, NEW k \in Mounted(devices[i])
      PROVE  Registered(i) /\ devices[i].state = "OK" /\ devices[i].link \in Disk
  <2>1. Registered(i)
    BY <1>2, <1>4
  <2>2. devices[i].state = "OK"
    BY <1>1, <1>4, <2>1 DEF AdoptedRight
  <2>3. PICK d \in Drive : devices[i].link = RootOf[d]
    BY <1>1, <2>1, <2>2 DEF AdoptedRight
  <2>4. QED
    BY <2>1, <2>2, <2>3, WatchAssumption
<1>5. QED
  BY <1>1, <1>3, <1>4 DEF ViewInv

LEMMA CoreKept ==
    ASSUME WatchInv, UNCHANGED coreVars
    PROVE  ViewInv' /\ AdoptedRight' /\ (UNCHANGED mapVars => MapRight')
BY DEF WatchInv, coreVars, mapVars, WatchTypeOK, ViewInv, CoreTypeOK, UniqueLinks,
   ClientViewExact, JobRight, JobConsistent, AdoptedRight, MapRight, Registered

\* Removals follow as long as no directory goes unnoticed and the daemon takes
\* an interest in no more of them.
LEMMA RemovalsKept ==
    ASSUME RemovalsFollow, UNCHANGED <<faults, fd, Coming>>,
           \A p \in Path : at'[p] = Free => at[p] = Free,
           \A p \in Path : at'[p] = Free /\ (mapped'[p] # NoLink \/ job'.path = p \/ p \in scan')
              => mapped[p] # NoLink \/ job.path = p \/ p \in scan
    PROVE  RemovalsFollow'
BY DEF RemovalsFollow

LEMMA MoreComing ==
    ASSUME NEW s \in Seq(Event), NEW e \in Event, NEW t \in {s, Append(s, e)},
           NEW p \in Path, e # New(p), Forgotten(s, p)
    PROVE  /\ Forgotten(t, p)
           /\ GoneIn(s, p) => GoneIn(t, p)
<1>1. /\ Forgotten(Append(s, e), p)
      /\ GoneIn(s, p) => GoneIn(Append(s, e), p)
  BY AppendComing
<1>2. QED
  BY <1>1

LEMMA WorldRemovals ==
    ASSUME WatchInv, World
    PROVE  RemovalsFollow'
<1>1. /\ FdTypeOK /\ RemovalsFollow /\ at \in [Path -> Places]
      /\ Coming \in Seq(Event)
  BY ComingType DEF WatchInv, WatchTypeOK
<1>2. UNCHANGED <<mapped, job, faults>>
  BY DEF World, Plug, Unplug, MkDir, Mount, Umount, RmDir, LoseDirectory,
     daemonVars, mapVars
<1>3. CASE UNCHANGED <<eventVars, scan>> /\ \A p \in Path : at'[p] = Free => at[p] = Free
  <2>1. UNCHANGED <<fd, Coming>>
    BY <1>3 DEF eventVars, Coming
  <2>2. QED
    BY <1>1, <1>2, <1>3, <2>1, RemovalsKept
<1>4. ASSUME NEW d \in Drive, Unplug(d) \/ \E stem \in Stem : Plug(d, stem)
      PROVE  RemovalsFollow'
  BY <1>3, <1>4 DEF Unplug, Plug
<1>5. ASSUME NEW p \in Path, Mount(p) \/ Umount(p)
      PROVE  RemovalsFollow'
  <2>1. at[p] # Free /\ \A q \in Path \ {p} : at'[q] = at[q]
    BY <1>1, <1>5 DEF Mount, Umount, Free
  <2>2. UNCHANGED <<eventVars, scan>>
    BY <1>5 DEF Mount, Umount
  <2>3. at'[p].stage \in {"mounted", "left"}
    BY <1>1, <1>5, PlaceFacts DEF Mount, Umount, Places
  <2>4. at'[p] # Free
    BY <2>3 DEF Free
  <2>5. QED
    BY <1>3, <2>1, <2>2, <2>4
<1>6. ASSUME NEW p \in Path, NEW v \in Part, MkDir(p, v)
      PROVE  RemovalsFollow'
  <2>1. /\ at'[p].stage = "made" /\ \A q \in Path \ {p} : at'[q] = at[q]
        /\ Happens(New(p)) /\ scan' \in {scan, scan \cup {p}}
    BY <1>1, <1>6 DEF MkDir
  <2>2. at'[p] # Free
    BY <2>1 DEF Free
  <2>3. fd' = fd /\ Coming' \in {Coming, Append(Coming, New(p))}
    BY <1>1, <2>1, EventFacts, HappensStream
  <2>4. ASSUME NEW q \in Path, at'[q] = Free, Forgotten(Coming, q)
        PROVE  /\ Forgotten(Coming', q)
               /\ GoneIn(Coming, q) => GoneIn(Coming', q)
    <3>1. q # p /\ New(p) # New(q) /\ New(p) \in Event
      BY <2>2, <2>4, EventFacts
    <3>2. QED
      BY <1>1, <2>3, <2>4, <3>1, MoreComing
  <2>5. QED
    BY <1>1, <1>2, <2>1, <2>2, <2>3, <2>4 DEF RemovalsFollow
<1>7. ASSUME NEW p \in Path, RmDir(p)
      PROVE  RemovalsFollow'
  <2>1. /\ Room /\ \A q \in Path \ {p} : at'[q] = at[q]
        /\ Happens(Gone(p)) /\ scan' = scan
    BY <1>1, <1>7 DEF RmDir
  <2>2. /\ fd' = fd
        /\ "overflow" \notin faults /\ fd = "open" => Coming' = Append(Coming, Gone(p))
    BY <1>1, <2>1, EventFacts, HappensStream DEF Room
  <2>3. ASSUME NEW q \in Path, q # p, Coming' = Append(Coming, Gone(p)),
               Forgotten(Coming, q)
        PROVE  /\ Forgotten(Coming', q)
               /\ GoneIn(Coming, q) => GoneIn(Coming', q)
    <3>1. Gone(p) # New(q) /\ Gone(p) \in Event
      BY EventFacts
    <3>2. QED
      BY <1>1, <2>3, <3>1, MoreComing
  <2>4. Coming' = Append(Coming, Gone(p)) => Forgotten(Coming', p) /\ GoneIn(Coming', p)
    BY <1>1, EventFacts, AppendComing
  <2>5. QED
    BY <1>1, <1>2, <2>1, <2>2, <2>3, <2>4 DEF RemovalsFollow
<1>8. CASE LoseDirectory
  <2>1. Happens(Ended) /\ UNCHANGED <<at, scan>>
    BY <1>8 DEF LoseDirectory
  <2>2. fd' = fd /\ Coming' \in {Coming, Append(Coming, Ended)}
    BY <1>1, <2>1, EventsAssumption, HappensStream
  <2>3. ASSUME NEW q \in Path, Forgotten(Coming, q)
        PROVE  /\ Forgotten(Coming', q)
               /\ GoneIn(Coming, q) => GoneIn(Coming', q)
    <3>1. Ended # New(q) /\ Ended \in Event
      BY EventFacts
    <3>2. QED
      BY <1>1, <2>2, <2>3, <3>1, MoreComing
  <2>4. QED
    BY <1>1, <1>2, <2>1, <2>2, <2>3 DEF RemovalsFollow
<1>9. QED
  BY <1>4, <1>5, <1>6, <1>7, <1>8 DEF World

LEMMA WorldTypes ==
    ASSUME WatchInv, World
    PROVE  WatchTypeOK'
<1>1. WatchTypeOK /\ FdTypeOK /\ UNCHANGED <<coreVars, mapVars, job, phase>>
  BY DEF WatchInv, WatchTypeOK, World, Plug, Unplug, MkDir, Mount, Umount, RmDir,
     LoseDirectory, daemonVars
<1>2. CoreTypeOK'
  BY <1>1, CoreKept DEF ViewInv
<1>3. FdTypeOK'
  BY <1>1, WorldTakesFdSteps, FdStep
<1>4. /\ faults' \in WatchFaults /\ node' \in [Drive -> Stem \cup {NoStem}]
      /\ there' \in BOOLEAN /\ scan' \in SUBSET Path
  <2>1. faults' = faults /\ (there' = there \/ there' = FALSE)
    BY DEF World, Plug, Unplug, MkDir, Mount, Umount, RmDir, LoseDirectory
  <2>2. scan' \in {scan} \cup {scan \cup {p} : p \in Path}
    BY DEF World, Plug, Unplug, MkDir, Mount, Umount, RmDir, LoseDirectory
  <2>3. \/ node' = node
        \/ \E d \in Drive, s \in Stem \cup {NoStem} : node' = [node EXCEPT ![d] = s]
    BY DEF World, Plug, Unplug, MkDir, Mount, Umount, RmDir, LoseDirectory
  <2>4. node' \in [Drive -> Stem \cup {NoStem}]
    BY <1>1, <2>3 DEF WatchTypeOK
  <2>5. scan' \in SUBSET Path
    BY <1>1, <2>2 DEF WatchTypeOK
  <2>6. there' \in BOOLEAN
    BY <1>1, <2>1 DEF WatchTypeOK
  <2>7. QED
    BY <1>1, <2>1, <2>4, <2>5, <2>6 DEF WatchTypeOK
<1>5. moves' \in 0..MaxMoves[faults']
  <2>1. MaxMoves[faults] \in Nat /\ moves \in 0..MaxMoves[faults] /\ faults' = faults
    BY <1>1, WatchAssumption DEF WatchTypeOK, World, Plug, Unplug, MkDir, Mount,
       Umount, RmDir, LoseDirectory
  <2>2. moves' = moves \/ (moves < MaxMoves[faults] /\ moves' = moves + 1)
    BY DEF World, Plug, Unplug, MkDir, Mount, Umount, RmDir, LoseDirectory
  <2>3. QED
    BY <2>1, <2>2
<1>6. at' \in [Path -> Places]
  <2>1. at \in [Path -> Places]
    BY <1>1 DEF WatchTypeOK
  <2>2. ASSUME NEW p \in Path, NEW v \in Part, MkDir(p, v)
        PROVE  at' \in [Path -> Places]
    <3>1. [stage |-> "made", part |-> v, stem |-> NoStem] \in Places
      BY DEF Places
    <3>2. QED
      BY <2>1, <2>2, <3>1 DEF MkDir
  <2>3. ASSUME NEW p \in Path, Mount(p)
        PROVE  at' \in [Path -> Places]
    <3>1. at[p] \in Places /\ at[p].stage = "made" /\ at[p] # Free
      BY <2>1, <2>3 DEF Mount, Free
    <3>2. at[p].part \in Part
      BY <3>1, PlaceFacts
    <3>3. node[at[p].part[1]] \in Stem
      BY <1>1, <2>3, <3>2, LinkFacts DEF Mount, WatchTypeOK
    <3>4. at' = [at EXCEPT ![p] = [stage |-> "mounted", part |-> at[p].part,
                                   stem |-> node[at[p].part[1]]]]
      BY <2>1, <2>3, <3>1 DEF Mount, Places, Free
    <3>5. QED
      BY <2>1, <3>2, <3>3, <3>4 DEF Places
  <2>4. ASSUME NEW p \in Path, Umount(p)
        PROVE  at' \in [Path -> Places]
    <3>1. at[p] \in Places /\ at[p].stage = "mounted" /\ at[p] # Free
      BY <2>1, <2>4 DEF Umount, Free
    <3>2. at[p] \in [stage : {"mounted"}, part : Part, stem : Stem]
      BY <3>1 DEF Places, Free
    <3>3. [at[p] EXCEPT !.stage = "left", !.stem = NoStem]
            \in [stage : {"made", "left"}, part : Part, stem : {NoStem}]
      BY <3>2
    <3>4. at' = [at EXCEPT ![p] = [at[p] EXCEPT !.stage = "left", !.stem = NoStem]]
      BY <2>1, <2>4 DEF Umount
    <3>5. QED
      BY <2>1, <3>3, <3>4 DEF Places
  <2>5. ASSUME NEW p \in Path, RmDir(p)
        PROVE  at' \in [Path -> Places]
    BY <2>1, <2>5 DEF RmDir, Places
  <2>6. QED
    BY <2>1, <2>2, <2>3, <2>4, <2>5 DEF World, Plug, Unplug, LoseDirectory
<1>7. /\ phase' \in {"starting", "watching", "scanning", "running", "stopped"}
      /\ mapped' \in [Path -> Link \cup {NoLink}]
      /\ shown' \in SUBSET (ID \X Index \X Path)
      /\ job' \in Jobs /\ displaced' \in SUBSET Link
  BY <1>1 DEF WatchTypeOK, mapVars
<1>8. QED
  BY <1>2, <1>3, <1>4, <1>5, <1>6, <1>7 DEF WatchTypeOK

LEMMA WorldInv ==
    ASSUME WatchInv, World
    PROVE  WatchInv'
<1>1. UNCHANGED <<coreVars, mapVars, job, phase>>
  BY DEF World, Plug, Unplug, MkDir, Mount, Umount, RmDir, LoseDirectory, daemonVars
<1>2. ViewInv' /\ AdoptedRight' /\ MapRight'
  BY <1>1, CoreKept
<1>3. JobRight'
  <2>1. JobConsistent' /\ UNCHANGED <<pc, todo, cur, devices, job, mapped>>
    BY <1>1, <1>2 DEF ViewInv, coreVars, mapVars
  <2>2. QED
    BY <2>1 DEF WatchInv, JobRight
<1>4. PhaseRight'
  <2>1. phase # "scanning" => scan' = {}
    BY DEF WatchInv, PhaseRight, World, Plug, Unplug, MkDir, Mount, Umount, RmDir,
       LoseDirectory
  <2>2. QED
    BY <1>1, <2>1 DEF WatchInv, PhaseRight, coreVars, mapVars, Registered
<1>5. QED
  BY <1>2, <1>3, <1>4, WorldRemovals, WorldTypes DEF WatchInv, ViewInv

----------------------------------------------------------------------------
(* The daemon starts, scans and reads                                      *)

LEMMA JobKept ==
    ASSUME WatchInv, UNCHANGED <<coreVars, mapped, job>>
    PROVE  JobRight'
<1>1. ViewInv' /\ UNCHANGED <<pc, todo, cur, devices, job, mapped>>
  BY CoreKept DEF coreVars
<1>2. QED
  BY <1>1 DEF WatchInv, JobRight, ViewInv

\* The types, as far as a step of the daemon can endanger them.
LEMMA DaemonTypes ==
    ASSUME WatchTypeOK, UNCHANGED placeVars, CoreTypeOK', FdTypeOK',
           phase' \in {"starting", "watching", "scanning", "running", "stopped"},
           scan' \in SUBSET Path, mapped' \in [Path -> Link \cup {NoLink}],
           shown' \in SUBSET (ID \X Index \X Path), job' \in Jobs,
           displaced' \in SUBSET Link
    PROVE  WatchTypeOK'
BY DEF WatchTypeOK, placeVars

LEMMA SetUpWatchInv ==
    ASSUME WatchInv, SetUpWatch
    PROVE  WatchInv'
<1>1. /\ phase = "starting" /\ phase' = "watching"
      /\ UNCHANGED <<coreVars, placeVars, mapVars, job, scan>>
      /\ fd' = "open" /\ pending' = <<>> /\ batch' = <<>>
  BY DEF SetUpWatch, Watch
<1>2. ViewInv' /\ AdoptedRight' /\ MapRight' /\ JobRight'
  BY <1>1, CoreKept, JobKept DEF mapVars
<1>3. /\ job = NoJob /\ mapped = NothingMapped /\ scan = {}
      /\ pc = "idle" /\ \A i \in ID : ~Registered(i)
      /\ shown = {}
  BY <1>1 DEF WatchInv, PhaseRight
<1>4. PhaseRight'
  BY <1>1, <1>3 DEF PhaseRight, coreVars, mapVars, Registered
<1>5. RemovalsFollow'
  <2>1. Coming' = <<>>
    BY <1>1 DEF Coming
  <2>2. \A p \in Path : Forgotten(<<>>, p)
    BY NothingComing
  <2>3. mapped' = NothingMapped /\ job' = NoJob /\ scan' = {}
    BY <1>1, <1>3 DEF mapVars
  <2>4. \A p \in Path : ~(mapped'[p] # NoLink \/ job'.path = p \/ p \in scan')
    BY <2>3, JobFacts
  <2>5. QED
    BY <2>1, <2>2, <2>4 DEF RemovalsFollow
<1>6. WatchTypeOK'
  <2>1. FdTypeOK'
    BY WatchStream DEF SetUpWatch, WatchInv, WatchTypeOK
  <2>2. QED
    BY <1>1, <1>2, <2>1, DaemonTypes DEF WatchInv, WatchTypeOK, mapVars, ViewInv
<1>7. QED
  BY <1>2, <1>4, <1>5, <1>6 DEF WatchInv, ViewInv

LEMMA QuietStepInv ==
    ASSUME WatchInv, OpenDirectory \/ EnterMainLoop \/ Read
    PROVE  WatchInv'
<1>1. UNCHANGED <<coreVars, placeVars, mapVars, job>>
  BY DEF OpenDirectory, EnterMainLoop, Read
<1>2. ViewInv' /\ AdoptedRight' /\ MapRight' /\ JobRight'
  BY <1>1, CoreKept, JobKept DEF mapVars
<1>3. PhaseRight'
  <2>1. /\ phase \in {"watching", "scanning", "running"}
        /\ phase' \in {"scanning", "running"}
        /\ phase' = "running" => scan' = {}
    BY DEF WatchInv, PhaseRight, OpenDirectory, EnterMainLoop, Read
  <2>2. QED
    BY <1>1, <2>1 DEF WatchInv, PhaseRight, coreVars, mapVars
<1>4. FdTypeOK /\ FdTypeOK' /\ UNCHANGED <<fd, Coming>>
  <2>1. FdTypeOK
    BY DEF WatchInv, WatchTypeOK
  <2>2. CASE Read
    <3>1. FillBuffer /\ UNCHANGED fd
      BY <2>2 DEF Read, FillBuffer
    <3>2. QED
      BY <2>1, <3>1, FillBufferStream
  <2>3. CASE UNCHANGED eventVars
    BY <2>1, <2>3 DEF eventVars, FdTypeOK, Coming
  <2>4. QED
    BY <2>2, <2>3 DEF OpenDirectory, EnterMainLoop
<1>5. scan' \in SUBSET Path /\ \A p \in scan' : p \in scan \/ at[p] # Free
  BY DEF WatchInv, WatchTypeOK, OpenDirectory, EnterMainLoop, Read
<1>6. RemovalsFollow'
  <2>1. RemovalsFollow /\ UNCHANGED <<faults, at, mapped, job>>
    BY <1>1 DEF WatchInv, placeVars, mapVars
  <2>2. QED
    BY <1>4, <1>5, <2>1, RemovalsKept
<1>7. WatchTypeOK'
  <2>1. phase' \in {"scanning", "running"}
    BY DEF OpenDirectory, EnterMainLoop, Read
  <2>2. QED
    BY <1>1, <1>2, <1>4, <1>5, <2>1, DaemonTypes
    DEF WatchInv, WatchTypeOK, mapVars, ViewInv
<1>8. QED
  BY <1>2, <1>3, <1>6, <1>7 DEF WatchInv, ViewInv

\* A look is due at a directory, which the scan or an event led to.
LEMMA NewMountpointInv ==
    ASSUME WatchInv, NEW p \in Path, NewMountpoint(p), phase \in {"scanning", "running"},
           UNCHANGED <<placeVars, phase>>, FdTypeOK', scan' \in SUBSET scan,
           RemovalsFollow'
    PROVE  WatchInv'
<1>1. /\ job.step = "none" /\ pc = "idle" /\ UNCHANGED <<coreVars, mapVars>>
      /\ job' = [NoJob EXCEPT !.step = "look", !.path = p]
  BY DEF NewMountpoint
<1>2. job' \in Jobs /\ job'.step = "look" /\ job'.path = p /\ job'.first = NoLink
  BY <1>1 DEF NoJob, Jobs
<1>3. ViewInv' /\ AdoptedRight' /\ MapRight'
  BY <1>1, CoreKept
<1>4. JobRight'
  <2>1. pc' = "idle" /\ JobConsistent'
    BY <1>1, <1>3 DEF coreVars, ViewInv
  <2>2. QED
    BY <1>2, <2>1 DEF JobRight
<1>5. PhaseRight'
  BY <1>1 DEF WatchInv, PhaseRight, coreVars
<1>6. WatchTypeOK'
  BY <1>1, <1>2, <1>3, DaemonTypes DEF WatchInv, WatchTypeOK, mapVars, ViewInv
<1>7. QED
  BY <1>3, <1>4, <1>5, <1>6 DEF WatchInv, ViewInv

LEMMA ScanEntryInv ==
    ASSUME WatchInv, NEW p \in Path, ScanEntry(p)
    PROVE  WatchInv'
<1>1. /\ phase = "scanning" /\ p \in scan /\ scan' = scan \ {p}
      /\ NewMountpoint(p) /\ UNCHANGED <<eventVars, placeVars, phase>>
      /\ job.step = "none" /\ UNCHANGED mapped /\ job'.path = p
  BY DEF ScanEntry, NewMountpoint, mapVars, NoJob
<1>2. FdTypeOK' /\ UNCHANGED <<fd, Coming>>
  BY <1>1 DEF WatchInv, WatchTypeOK, eventVars, FdTypeOK, Coming
<1>3. RemovalsFollow'
  <2>1. RemovalsFollow /\ UNCHANGED <<faults, at>>
    BY <1>1 DEF WatchInv, placeVars
  <2>2. QED
    BY <1>1, <1>2, <2>1, RemovalsKept
<1>4. QED
  BY <1>1, <1>2, <1>3, NewMountpointInv

LEMMA HandedNewInv ==
    ASSUME WatchInv, NEW p \in Path, phase = "running",
           Handed(New(p)), NewMountpoint(p), UNCHANGED <<placeVars, scan, phase>>
    PROVE  WatchInv'
<1>1. /\ FdTypeOK' /\ fd' = fd /\ Coming \in Seq(Event)
      /\ Coming # <<>> /\ Head(Coming) = New(p) /\ Coming' = Tail(Coming)
  BY HandedStream, ComingType, EventFacts DEF WatchInv, WatchTypeOK
<1>2. /\ RemovalsFollow /\ UNCHANGED <<faults, at, mapped>> /\ job'.path = p
      /\ job = NoJob
  BY DEF WatchInv, placeVars, mapVars, NewMountpoint, NoJob, JobRight
<1>3. ASSUME NEW q \in Path, at[q] = Free, "overflow" \notin faults, fd = "open"
      PROVE  /\ Forgotten(Coming', q)
             /\ mapped'[q] # NoLink \/ job'.path = q \/ q \in scan' => GoneIn(Coming', q)
  <2>1. /\ Forgotten(Coming, q)
        /\ mapped[q] # NoLink \/ job.path = q \/ q \in scan => GoneIn(Coming, q)
    BY <1>2, <1>3 DEF RemovalsFollow
  <2>2. Forgotten(Coming', q)
    BY <1>1, <2>1, TailComing
  <2>3. q = p => GoneIn(Coming', q)
    BY <1>1, <2>1, TailComing
  <2>4. GoneIn(Coming, q) => GoneIn(Coming', q)
    BY <1>1, TailComing, EventFacts
  <2>5. QED
    BY <1>2, <2>1, <2>2, <2>3, <2>4
<1>4. RemovalsFollow'
  BY <1>1, <1>2, <1>3 DEF RemovalsFollow
<1>5. QED
  BY <1>1, <1>4, NewMountpointInv

LEMMA LookInv ==
    ASSUME WatchInv, Look
    PROVE  WatchInv'
<1>1. /\ job.step = "look"
      /\ LinksFound(at[job.path]) \/ NoLinks(at[job.path])
      /\ UNCHANGED <<coreVars, eventVars, placeVars, mapVars, phase, scan>>
      /\ job.path \in Path /\ job \in Jobs /\ at[job.path] \in Places
      /\ phase \notin {"stopped", "starting", "watching"}
      /\ pc \in {"idle", "spinning"}
  <2>1. job.path \in Path
    BY DEF Look, WatchInv, JobRight
  <2>2. phase \notin {"stopped", "starting", "watching"}
    BY JobFacts DEF Look, WatchInv, PhaseRight
  <2>3. QED
    BY <2>1, <2>2 DEF Look, WatchInv, WatchTypeOK, JobRight
<1>2. \/ job' = NoJob
      \/ \E v \in Part : /\ job' = [job EXCEPT !.step = "disk", !.first = FirstLink(v),
                                               !.second = SecondLink(v)]
  <2>1. at[job.path].stage = "mounted" => at[job.path].part \in Part
    BY <1>1, PlaceFacts DEF Free
  <2>2. QED
    BY <1>1, <2>1 DEF LinksFound, NoLinks
<1>3. /\ job' \in Jobs
      /\ \/ job' = NoJob
         \/ /\ job'.step = "disk" /\ job'.path = job.path
            /\ \E v \in Part : job'.first = FirstLink(v) /\ job'.second = SecondLink(v)
  <2>1. ASSUME NEW v \in Part,
               job' = [job EXCEPT !.step = "disk", !.first = FirstLink(v),
                                  !.second = SecondLink(v)]
        PROVE  /\ job' \in Jobs /\ job'.step = "disk" /\ job'.path = job.path
               /\ job'.first = FirstLink(v) /\ job'.second = SecondLink(v)
    <3>1. FirstLink(v) \in Link /\ SecondLink(v) \in Link
      BY LinkFacts
    <3>2. QED
      BY <1>1, <2>1, <3>1 DEF Jobs
  <2>2. QED
    BY <1>2, <2>1, JobFacts
<1>4. ViewInv' /\ AdoptedRight' /\ MapRight'
  BY <1>1, CoreKept
<1>5. JobRight'
  <2>1. JobConsistent' /\ pc' \in {"idle", "spinning"}
    BY <1>1, <1>4 DEF ViewInv, coreVars
  <2>2. QED
    BY <1>1, <1>3, <2>1, JobFacts DEF JobRight
<1>6. PhaseRight'
  BY <1>1 DEF WatchInv, PhaseRight, coreVars
<1>7. FdTypeOK' /\ UNCHANGED <<fd, Coming>>
  BY <1>1 DEF WatchInv, WatchTypeOK, eventVars, FdTypeOK, Coming
<1>8. RemovalsFollow'
  <2>1. RemovalsFollow /\ UNCHANGED <<faults, at, mapped, scan>>
    BY <1>1 DEF WatchInv, placeVars, mapVars
  <2>2. \A p \in Path : job'.path = p => job.path = p
    BY <1>3, JobFacts
  <2>3. QED
    BY <1>7, <2>1, <2>2, RemovalsKept
<1>9. WatchTypeOK'
  BY <1>1, <1>3, <1>4, <1>7, DaemonTypes DEF WatchInv, WatchTypeOK, mapVars, ViewInv
<1>10. QED
  BY <1>4, <1>5, <1>6, <1>8, <1>9 DEF WatchInv, ViewInv

----------------------------------------------------------------------------
(* The two links of a volume                                               *)

\* What new_entry makes of the link: a device nobody else goes by the name of,
\* probed only under the first name of its drive.
Sane(i, l, e) ==
    /\ i \in ID /\ e.dev \in Device /\ e.vol \in Index \cup {NoIndex}
    /\ \A j \in ID : Registered(j) /\ j # i => devices[j].link # e.dev.link
    /\ e.dev.link \in {l[1], Unnamed}
    /\ e.dev.dir = devices[i].dir
    /\ Registered(i) => e.dev.link = devices[i].link
    /\ Mounted(e.dev) = Mounted(devices[i])
    /\ e.dev.state = "SYNTHETIC" \/ \E d \in Drive : e.dev.link = RootOf[d]
    /\ e.dev.state = "OK" <=> devices[i].state = "OK"

LEMMA SameName ==
    ASSUME UniqueLinks, NEW i \in ID, NEW name, IsDevice(i, name)
    PROVE  /\ Registered(i) /\ devices[i].link = name
           /\ \A j \in ID : Registered(j) /\ j # i => devices[j].link # name
BY DEF UniqueLinks, IsDevice

\* The device before it is probed.
LEMMA DeviceFound ==
    ASSUME WatchInv, NEW v \in Part, NEW l \in {FirstLink(v), SecondLink(v)},
           NEW stem \in Stem \cup {NoStem}, NEW i \in ID, EntryIn(i, l, stem)
    PROVE  LET n == Number(l, stem)
               name == IF n = 0 THEN l[1] ELSE RootName(l)
               d == IF Registered(i) THEN devices[i] ELSE NewDevice(name) IN
           /\ d \in Device /\ d.link = name /\ d.dir = devices[i].dir
           /\ n = 0 => \E e \in Drive : name = RootOf[e]
           /\ n \in Nat /\ (n > 0 /\ stem # NoStem => n \in Index)
           /\ ~Registered(i) => ~Known(name)
           /\ \A j \in ID : Registered(j) /\ j # i => devices[j].link # name
           /\ Registered(i) => devices[i].link = name
           /\ \A k \in Index : d.vol[k] = devices[i].vol[k]
           /\ d.state = (IF Registered(i) THEN devices[i].state ELSE "SYNTHETIC")
           /\ d.state = "SYNTHETIC" \/ \E e \in Drive : d.link = RootOf[e]
           /\ d.state = "OK" <=> devices[i].state = "OK"
<1> DEFINE n == Number(l, stem)
           name == IF n = 0 THEN l[1] ELSE RootName(l)
           d == IF Registered(i) THEN devices[i] ELSE NewDevice(name)
<1>1. l \in Link
  BY LinkFacts
<1>2. /\ n \in Nat /\ (n = 0 => l[2] = 0) /\ (n > 0 /\ stem # NoStem => n \in Index)
      /\ name \in Disk \cup {Unnamed}
  BY <1>1, NumberType
<1>3. n = 0 => \E e \in Drive : name = RootOf[e]
  BY <1>2, LinkFacts
<1>4. CoreTypeOK /\ UniqueLinks /\ AdoptedRight
  BY WatchView DEF WatchInv
<1>5. IsDevice(i, name) \/ (~Known(name) /\ ~Registered(i))
  BY DEF EntryIn, IsNextId
<1>6. CASE IsDevice(i, name)
  <2>1. /\ Registered(i) /\ devices[i].link = name
        /\ \A j \in ID : Registered(j) /\ j # i => devices[j].link # name
    BY <1>4, <1>6, SameName
  <2>2. devices[i] \in Device
    BY <1>4, <2>1, DeviceCases
  <2>3. devices[i].state = "SYNTHETIC" \/ \E e \in Drive : devices[i].link = RootOf[e]
    BY <1>4, <2>1 DEF AdoptedRight
  <2>4. QED
    BY <1>2, <1>3, <2>1, <2>2, <2>3
<1>7. CASE ~Known(name) /\ ~Registered(i)
  <2>1. devices[i] = Absent
    BY <1>7 DEF Registered
  <2>2. \A j \in ID : Registered(j) => devices[j].link # name
    BY <1>7 DEF Known
  <2>3. /\ NewDevice(name) \in Device /\ NewDevice(name).state = "SYNTHETIC"
        /\ NewDevice(name).dir = "unset" /\ NewDevice(name).link = name
        /\ \A k \in Index : NewDevice(name).vol[k] = NoVolume
    BY <1>2, NewDeviceType
  <2>4. QED
    BY <1>2, <1>3, <1>7, <2>1, <2>2, <2>3, SentinelFacts
<1>8. QED
  BY <1>5, <1>6, <1>7

LEMMA EntrySane ==
    ASSUME WatchInv, NEW v \in Part, NEW l \in {FirstLink(v), SecondLink(v)},
           NEW stem \in Stem \cup {NoStem}, NEW o \in Outcome(stem),
           NEW i \in ID, EntryIn(i, l, stem)
    PROVE  Sane(i, l, Entry(i, l, stem, o))
<1> DEFINE n == Number(l, stem)
           name == IF n = 0 THEN l[1] ELSE RootName(l)
           d == IF Registered(i) THEN devices[i] ELSE NewDevice(name)
           index == IF n = 0 THEN Whole ELSE n
           probed == IF n = 0 THEN Probe(d, o.probe) ELSE d
           wanted == o.info /\ (n = 0 => ~Registered(i))
           e == Entry(i, l, stem, o)
<1>1. /\ d \in Device /\ d.link = name /\ d.dir = devices[i].dir
      /\ n = 0 => \E f \in Drive : name = RootOf[f]
      /\ n \in Nat /\ (n > 0 /\ stem # NoStem => n \in Index)
      /\ \A j \in ID : Registered(j) /\ j # i => devices[j].link # name
      /\ Registered(i) => devices[i].link = name
      /\ \A k \in Index : d.vol[k] = devices[i].vol[k]
      /\ d.state = "SYNTHETIC" \/ \E f \in Drive : d.link = RootOf[f]
      /\ d.state = "OK" <=> devices[i].state = "OK"
  BY DeviceFound
<1>2. o.probe \in BOOLEAN /\ o.info \in BOOLEAN /\ (o.info => stem \in Stem)
  BY DEF Outcome
<1>3. wanted => index \in Index /\ stem \in Stem
  <2>1. Whole \in Index
    BY DEF Index
  <2>2. wanted => stem \in Stem /\ stem # NoStem
    BY <1>2, SentinelAssumption
  <2>3. QED
    BY <1>1, <2>1, <2>2
<1>4. e = IF wanted /\ d.vol[index] = NoVolume
          THEN [dev |-> AddVolume(probed, index, stem), vol |-> index]
          ELSE [dev |-> probed,
                vol |-> IF wanted \/ n = 0 THEN LookupVolume(d, index, stem) ELSE NoIndex]
  BY DEF Entry
<1>5. name \in {l[1], Unnamed}
  BY DEF RootName
<1>6. SUFFICES Sane(i, l, e)
  OBVIOUS
<1> HIDE DEF e
<1>7. /\ probed \in Device /\ probed.link = name /\ probed.dir = devices[i].dir
      /\ \A k \in Index : probed.vol[k] = devices[i].vol[k]
      /\ probed.state = "SYNTHETIC" \/ \E f \in Drive : probed.link = RootOf[f]
      /\ probed.state = "OK" <=> devices[i].state = "OK"
  <2>1. CASE n = 0
    <3>1. /\ Probe(d, o.probe) \in Device
          /\ Probe(d, o.probe).link = d.link
          /\ Probe(d, o.probe).dir = d.dir
          /\ Probe(d, o.probe).vol = d.vol
          /\ d.state # "SYNTHETIC" => Probe(d, o.probe).state = d.state
          /\ d.state = "SYNTHETIC" => Probe(d, o.probe).state \in {"PROBED", "BROKEN"}
      BY <1>1, <1>2, ProbeType
    <3>2. QED
      BY <1>1, <2>1, <3>1
  <2>2. CASE n # 0
    BY <1>1, <2>2
  <2>3. QED
    BY <2>1, <2>2
<1> HIDE DEF probed
<1>8. CASE wanted /\ d.vol[index] = NoVolume
  <2> DEFINE a == AddVolume(probed, index, stem)
  <2>1. index \in Index /\ stem \in Stem /\ e.dev = a /\ e.vol = index
    BY <1>3, <1>4, <1>8
  <2>2. /\ a \in Device /\ a.link = probed.link /\ a.dir = probed.dir
        /\ a.state = probed.state /\ a.vol[index].state = "PENDING"
        /\ \A j \in Index : j # index => a.vol[j] = probed.vol[j]
    BY <1>7, <2>1, AddVolumeType
  <2>3. Mounted(a) = Mounted(devices[i])
    <3>1. devices[i].vol[index] = NoVolume
      BY <1>1, <1>8, <2>1
    <3>2. QED
      BY <1>7, <2>1, <2>2, <3>1, SentinelFacts DEF Mounted
  <2> HIDE DEF a
  <2>4. QED
    BY <1>1, <1>5, <1>7, <2>1, <2>2, <2>3 DEF Sane
<1>9. CASE ~(wanted /\ d.vol[index] = NoVolume)
  <2>1. e.dev = probed
    BY <1>4, <1>9
  <2>2. e.vol = (IF wanted \/ n = 0 THEN LookupVolume(d, index, stem) ELSE NoIndex)
    BY <1>4, <1>9
  <2>3. e.vol \in Index \cup {NoIndex}
    BY <1>3, <2>2 DEF LookupVolume, Index
  <2>4. Mounted(probed) = Mounted(devices[i])
    BY <1>7 DEF Mounted
  <2>5. QED
    BY <1>1, <1>5, <1>7, <2>1, <2>3, <2>4 DEF Sane
<1>10. QED
  BY <1>8, <1>9

\* A device is stored under an ID with what was known of it.
LEMMA StoreDoes ==
    ASSUME CoreTypeOK, NEW i \in ID, NEW d \in Device, Store(i, d)
    PROVE  /\ devices' \in [ID -> Device \cup {Absent}]
           /\ devices'[i] = d
           /\ \A j \in ID : j # i => devices'[j] = devices[j]
           /\ nextFreeId' \in 0..MaxId
<1>1. nextFreeId' \in 0..MaxId
  BY MaxIdAssumption DEF CoreTypeOK, Store, ID
<1>2. QED
  BY <1>1 DEF CoreTypeOK, Store

LEMMA StoreView ==
    ASSUME WatchInv, pc = "idle", NEW i \in ID, NEW d \in Device, Store(i, d),
           \A j \in ID : Registered(j) /\ j # i => devices[j].link # d.link,
           Registered(i) => d.link = devices[i].link,
           Mounted(d) = Mounted(devices[i]),
           d.state = "SYNTHETIC" \/ \E e \in Drive : d.link = RootOf[e],
           \/ d.state = "OK" /\ d.dir = "created"
           \/ d.state # "OK" /\ d.dir = "unset" /\ devices[i].dir = "unset",
           catalog' = IF d.state = "OK" THEN [catalog EXCEPT ![i] = "announced"]
                                        ELSE catalog,
           UNCHANGED catVolumes, pc' \in {"idle", "mount"},
           bug' \in {"none", "insertion", "container", "remount", "unusable"},
           cur' \in ID \cup {NoId}, todo' \in SUBSET Index,
           JobConsistent'
    PROVE  ViewInv' /\ AdoptedRight' /\ (UNCHANGED <<mapped, shown, displaced>> => MapRight')
<1>1. /\ CoreTypeOK /\ UniqueLinks /\ ClientViewExact /\ AdoptedRight /\ NothingHidden
      /\ MapRight
  BY WatchView DEF WatchInv
<1>2. /\ devices' \in [ID -> Device \cup {Absent}]
      /\ devices'[i] = d
      /\ \A j \in ID : j # i => devices'[j] = devices[j]
      /\ nextFreeId' \in 0..MaxId
  BY <1>1, StoreDoes
<1>3. CoreTypeOK'
  BY <1>1, <1>2 DEF CoreTypeOK
<1>4. UniqueLinks'
  BY <1>1, <1>2 DEF UniqueLinks, Registered
<1>5. ClientViewExact'
  <2>1. \A j \in ID : catalog[j] # "leaving" /\ catalog'[j] # "leaving"
    BY <1>1 DEF CoreTypeOK, ClientViewExact
  <2>2. \A j \in ID : Mounted(devices'[j]) = Mounted(devices[j])
    BY <1>2
  <2>3. \A j \in ID : catalog'[j] # "unknown" <=> devices'[j].dir = "created"
    <3>1. \A j \in ID : catalog[j] # "unknown" <=> devices[j].dir = "created"
      BY <1>1 DEF ClientViewExact
    <3>2. CASE d.state = "OK"
      BY <1>1, <1>2, <3>1, <3>2 DEF CoreTypeOK
    <3>3. CASE d.state # "OK"
      BY <1>1, <1>2, <3>1, <3>3
    <3>4. QED
      BY <3>2, <3>3
  <2>4. \A j \in ID, k \in Index : <<j, k>> \in catVolumes' <=> k \in Mounted(devices'[j])
    BY <1>1, <2>1, <2>2 DEF ClientViewExact
  <2>5. \A j \in ID : Mounted(devices'[j]) \subseteq Index
    BY DEF Mounted
  <2>6. QED
    BY <2>1, <2>3, <2>4, <2>5 DEF ClientViewExact
<1>6. AdoptedRight'
  <2>1. d.dir = "unset" => Mounted(d) = {}
    BY <1>1 DEF NothingHidden
  <2>2. QED
    BY <1>1, <1>2, <2>1 DEF AdoptedRight, Registered
<1>7. UNCHANGED <<mapped, shown, displaced>> => MapRight'
  <2>1. ASSUME NEW s \in shown
        PROVE  devices'[s[1]].link = devices[s[1]].link
               /\ Mounted(devices'[s[1]]) = Mounted(devices[s[1]])
    <3>1. s[1] \in ID /\ s[2] \in Mounted(devices[s[1]])
      BY <1>1, <2>1 DEF WatchInv, WatchTypeOK, MapRight
    <3>2. Registered(s[1])
      BY <3>1, WatchView
    <3>3. QED
      BY <1>2, <3>1, <3>2
  <2>2. \A s \in shown : <<devices[s[1]].link, 0>> \notin displaced
           => mapped[s[3]] = <<devices[s[1]].link, 0>>
    BY <1>1 DEF MapRight
  <2>3. \A s \in shown : s[2] \in Mounted(devices[s[1]])
    BY <1>1 DEF MapRight
  <2>4. QED
    BY <1>1, <2>1, <2>2, <2>3 DEF MapRight
<1>8. QED
  BY <1>3, <1>4, <1>5, <1>6, <1>7 DEF ViewInv

\* While there is something to do, the daemon is up and its own actions leave
\* phase, events and places alone.
LEMMA BusyPhase ==
    ASSUME WatchInv, job.step # "none" \/ pc = "drop"
    PROVE  phase \in {"scanning", "running"}
BY JobFacts DEF WatchInv, WatchTypeOK, PhaseRight

LEMMA BusyStep ==
    ASSUME WatchInv, phase \in {"scanning", "running"},
           UNCHANGED <<eventVars, placeVars, phase, scan>>, pc' # "stopped",
           job'.path \in {job.path, NoPath},
           \A p \in Path : mapped'[p] # NoLink => mapped[p] # NoLink \/ job.path = p
    PROVE  PhaseRight' /\ RemovalsFollow' /\ FdTypeOK'
<1>1. FdTypeOK' /\ UNCHANGED <<fd, Coming>>
  BY DEF WatchInv, WatchTypeOK, eventVars, FdTypeOK, Coming
<1>2. RemovalsFollow'
  <2>1. RemovalsFollow /\ UNCHANGED <<faults, at>>
    BY DEF WatchInv, placeVars
  <2>2. \A p \in Path : job'.path = p => job.path = p
    BY JobFacts
  <2>3. QED
    BY <1>1, <2>1, <2>2, RemovalsKept
<1>3. PhaseRight'
  BY DEF WatchInv, PhaseRight
<1>4. QED
  BY <1>1, <1>2, <1>3

LEMMA NoEntryInv ==
    ASSUME WatchInv, NEW l, NEW stem, NEW o, NoEntry(l, stem, o),
           pc = "idle", job.step \in {"disk", "volume"},
           UNCHANGED <<eventVars, placeVars, phase, scan>>
    PROVE  WatchInv'
<1>1. phase \in {"scanning", "running"}
  BY BusyPhase
<1>2. UNCHANGED mapVars
  BY DEF NoEntry
<1>3. CASE job' = NoJob /\ UNCHANGED coreVars
  <2>1. ViewInv' /\ AdoptedRight' /\ MapRight'
    BY <1>2, <1>3, CoreKept
  <2>2. pc' = "idle" /\ JobConsistent'
    BY <1>3, <2>1 DEF coreVars, ViewInv
  <2>3. JobRight'
    BY <1>3, <2>2, JobFacts DEF JobRight
  <2>4. PhaseRight' /\ RemovalsFollow' /\ FdTypeOK'
    BY <1>1, <1>2, <1>3, <2>2, JobFacts, BusyStep DEF mapVars
  <2>5. WatchTypeOK'
    BY <1>2, <1>3, <2>1, <2>4, JobFacts, DaemonTypes
    DEF WatchInv, WatchTypeOK, mapVars, ViewInv
  <2>6. QED
    BY <2>1, <2>3, <2>4, <2>5 DEF WatchInv, ViewInv
<1>4. CASE Spin(l, stem, o) /\ UNCHANGED job
  <2>1. /\ pc' = "spinning" /\ bug' = "none"
        /\ UNCHANGED <<devices, nextFreeId, cur, todo, catalog, catVolumes>>
    BY <1>4 DEF Spin
  <2>2. /\ CoreTypeOK /\ UniqueLinks /\ ClientViewExact /\ JobConsistent
        /\ AdoptedRight /\ MapRight
    BY DEF WatchInv, WatchTypeOK, JobRight
  <2>3. ViewInv'
    BY <2>1, <2>2 DEF ViewInv, CoreTypeOK, UniqueLinks, ClientViewExact,
       JobConsistent, Registered
  <2>4. AdoptedRight' /\ MapRight'
    BY <1>2, <2>1, <2>2 DEF AdoptedRight, MapRight, Registered, mapVars
  <2>5. JobRight'
    <3>1. JobConsistent'
      BY <2>3 DEF ViewInv
    <3>2. QED
      BY <1>4, <2>1, <3>1 DEF WatchInv, JobRight
  <2>6. PhaseRight' /\ RemovalsFollow' /\ FdTypeOK'
    BY <1>1, <1>2, <1>4, <2>1, BusyStep DEF mapVars
  <2>7. WatchTypeOK'
    BY <1>2, <1>4, <2>3, <2>6, DaemonTypes
    DEF WatchInv, WatchTypeOK, mapVars, ViewInv
  <2>8. QED
    BY <2>3, <2>4, <2>5, <2>6, <2>7 DEF WatchInv, ViewInv
<1>5. QED
  BY <1>3, <1>4 DEF NoEntry

LEMMA DiskLinkInv ==
    ASSUME WatchInv, DiskLink
    PROVE  WatchInv'
<1> DEFINE l == job.first
           stem == Resolve(l)
<1>1. /\ job.step = "disk" /\ pc = "idle"
      /\ UNCHANGED <<eventVars, placeVars, phase, scan>>
      /\ job.path \in Path /\ job \in Jobs
      /\ phase \in {"scanning", "running"}
  BY BusyPhase DEF DiskLink, WatchInv, WatchTypeOK, JobRight
<1>2. PICK v \in Part : job.first = FirstLink(v) /\ job.second = SecondLink(v)
  BY <1>1 DEF WatchInv, JobRight
<1>3. l \in Link /\ stem \in Stem \cup {NoStem}
  BY <1>2, LinkFacts, ResolveType DEF WatchInv
<1>4. PICK o \in Answer(l) :
         \/ NoEntry(l, stem, o)
         \/ /\ \E i \in ID : /\ EntryIn(i, l, stem)
                             /\ Store(i, Entry(i, l, stem, o).dev)
            /\ job' = [job EXCEPT !.step = "volume"]
            /\ bug' = "none"
            /\ UNCHANGED <<pc, cur, todo, catalog, catVolumes, mapVars>>
  BY DEF DiskLink
<1>5. o \in Outcome(stem)
  BY DEF Answer
<1> HIDE DEF l, stem
<1>6. ASSUME NEW i \in ID, EntryIn(i, l, stem), Store(i, Entry(i, l, stem, o).dev),
             job' = [job EXCEPT !.step = "volume"], bug' = "none",
             UNCHANGED <<pc, cur, todo, catalog, catVolumes, mapVars>>
      PROVE  WatchInv'
  <2> DEFINE e == Entry(i, l, stem, o)
  <2>1. Sane(i, l, e)
    BY <1>2, <1>3, <1>5, <1>6, EntrySane DEF l
  <2> HIDE DEF e
  <2>2. Store(i, e.dev)
    BY <1>6 DEF e
  <2>3. /\ CoreTypeOK /\ JobConsistent /\ AdoptedRight
        /\ cur = NoId /\ todo = {}
    BY <1>1 DEF WatchInv, WatchTypeOK, JobRight, JobConsistent
  <2>4. JobConsistent'
    BY <1>1, <1>6, <2>3 DEF JobConsistent
  <2>5. \/ e.dev.state = "OK" /\ e.dev.dir = "created" /\ Registered(i)
        \/ e.dev.state # "OK" /\ e.dev.dir = "unset" /\ devices[i].dir = "unset"
    BY <2>1, <2>3, SentinelFacts DEF Sane, AdoptedRight, Registered
  <2>6. catalog' = IF e.dev.state = "OK" THEN [catalog EXCEPT ![i] = "announced"]
                                         ELSE catalog
    <3>1. CASE e.dev.state = "OK"
      <4>1. catalog[i] = "announced"
        BY <1>1, <2>1, <2>3, <2>5, <3>1 DEF Sane, WatchInv, ClientViewExact, CoreTypeOK
      <4>2. catalog = [catalog EXCEPT ![i] = "announced"]
        BY <2>3, <4>1 DEF CoreTypeOK
      <4>3. QED
        BY <1>6, <3>1, <4>2
    <3>2. QED
      BY <1>6, <3>1
  <2>7. /\ i \in ID /\ e.dev \in Device
        /\ \A j \in ID : Registered(j) /\ j # i => devices[j].link # e.dev.link
        /\ Registered(i) => e.dev.link = devices[i].link
        /\ Mounted(e.dev) = Mounted(devices[i])
        /\ e.dev.state = "SYNTHETIC" \/ \E d \in Drive : e.dev.link = RootOf[d]
    BY <2>1 DEF Sane
  <2>8. /\ pc' \in {"idle", "mount"} /\ cur' \in ID \cup {NoId} /\ todo' \in SUBSET Index
        /\ bug' \in {"none", "insertion", "container", "remount", "unusable"}
        /\ UNCHANGED catVolumes
    BY <1>1, <1>6, <2>3
  <2>9. ViewInv' /\ AdoptedRight' /\ (UNCHANGED <<mapped, shown, displaced>> => MapRight')
    <3> DEFINE d == e.dev
    <3> HIDE DEF d
    <3>1. \/ d.state = "OK" /\ d.dir = "created"
          \/ d.state # "OK" /\ d.dir = "unset" /\ devices[i].dir = "unset"
      BY <2>5 DEF d
    <3>2. /\ d \in Device /\ Store(i, d)
          /\ \A j \in ID : Registered(j) /\ j # i => devices[j].link # d.link
          /\ Registered(i) => d.link = devices[i].link
          /\ Mounted(d) = Mounted(devices[i])
          /\ d.state = "SYNTHETIC" \/ \E f \in Drive : d.link = RootOf[f]
          /\ catalog' = IF d.state = "OK" THEN [catalog EXCEPT ![i] = "announced"]
                                          ELSE catalog
      BY <2>2, <2>6, <2>7 DEF d
    <3>3. QED
      BY <1>1, <2>4, <2>8, <3>1, <3>2, StoreView
  <2>10. UNCHANGED <<mapped, shown, displaced>>
    BY <1>6 DEF mapVars
  <2>11. /\ job' \in Jobs /\ job'.step = "volume" /\ job'.path = job.path
         /\ job'.first = job.first /\ job'.second = job.second
    BY <1>1, <1>6 DEF Jobs
  <2>12. JobRight'
    BY <1>1, <1>2, <1>6, <2>4, <2>11 DEF JobRight
  <2>13. PhaseRight' /\ RemovalsFollow' /\ FdTypeOK'
    BY <1>1, <1>6, <2>10, <2>11, BusyStep
  <2>14. WatchTypeOK'
    BY <1>1, <2>9, <2>10, <2>11, <2>13, DaemonTypes
    DEF WatchInv, WatchTypeOK, ViewInv
  <2>15. QED
    BY <2>9, <2>10, <2>12, <2>13, <2>14 DEF WatchInv, ViewInv
<1>7. QED
  BY <1>1, <1>4, <1>6, NoEntryInv

\* The map is right after the link of the drive is remembered: what was shown
\* at the same directory for another drive is displaced.
LEMMA RememberRight ==
    ASSUME WatchInv, pc = "idle", Remember, UNCHANGED shown, job.path \in Path,
           NEW v \in Part, job.first = FirstLink(v),
           \A i \in ID : Registered(i) => devices'[i].link = devices[i].link,
           \A i \in ID : Mounted(devices'[i]) = Mounted(devices[i])
    PROVE  /\ MapRight'
           /\ mapped' \in [Path -> Link \cup {NoLink}] /\ displaced' \in SUBSET Link
           /\ mapped'[job.path] = job.first
           /\ \A p \in Path : p # job.path => mapped'[p] = mapped[p]
<1>1. /\ mapped \in [Path -> Link \cup {NoLink}] /\ displaced \in SUBSET Link
      /\ shown \in SUBSET (ID \X Index \X Path) /\ MapRight
  BY DEF WatchInv, WatchTypeOK
<1>2. /\ job.first \in Link /\ job.first = <<RootOf[v[1]], 0>> /\ v[1] \in Drive
  BY LinkFacts
<1>3. /\ mapped' \in [Path -> Link \cup {NoLink}]
      /\ mapped'[job.path] = job.first
      /\ \A p \in Path : p # job.path => mapped'[p] = mapped[p]
      /\ displaced' = displaced \cup ({mapped[job.path]} \ {job.first, NoLink})
  BY <1>1, <1>2 DEF Remember
<1>4. displaced' \in SUBSET Link
  BY <1>1, <1>3
<1>5. \A p \in Path : mapped'[p] # NoLink => \E d \in Drive : mapped'[p] = <<RootOf[d], 0>>
  BY <1>1, <1>2, <1>3 DEF MapRight
<1>6. ASSUME NEW s \in shown
      PROVE  /\ s[2] \in Mounted(devices'[s[1]])
             /\ <<devices'[s[1]].link, 0>> \notin displaced' =>
                   mapped'[s[3]] = <<devices'[s[1]].link, 0>>
  <2> DEFINE link == <<devices[s[1]].link, 0>>
  <2>1. s[1] \in ID /\ s[3] \in Path /\ s[2] \in Mounted(devices[s[1]])
    BY <1>1, <1>6 DEF MapRight
  <2>2. Registered(s[1]) /\ devices[s[1]].link \in Disk
    BY <2>1, WatchView
  <2>3. /\ devices'[s[1]].link = devices[s[1]].link
        /\ s[2] \in Mounted(devices'[s[1]])
    BY <2>1, <2>2
  <2>4. link \notin displaced => mapped[s[3]] = link
    BY <1>1, <1>6 DEF MapRight
  <2>5. link # NoLink
    BY <2>2, JobFacts
  <2> HIDE DEF link
  <2>6. link \notin displaced' => mapped'[s[3]] = link
    BY <1>3, <2>1, <2>4, <2>5
  <2>7. QED
    BY <2>3, <2>6 DEF link
<1>7. MapRight'
  BY <1>5, <1>6 DEF MapRight
<1>8. QED
  BY <1>3, <1>4, <1>7

\* What both outcomes of the volume's link have in common.
LEMMA VolumeStored ==
    ASSUME WatchInv, job.step = "volume", pc = "idle",
           UNCHANGED <<eventVars, placeVars, phase, scan>>,
           NEW i \in ID, NEW d \in Device, Store(i, d),
           \A j \in ID : Registered(j) /\ j # i => devices[j].link # d.link,
           Registered(i) => d.link = devices[i].link,
           Mounted(d) = Mounted(devices[i]),
           d.state = "SYNTHETIC" \/ \E e \in Drive : d.link = RootOf[e],
           \/ d.state = "OK" /\ d.dir = "created"
           \/ d.state # "OK" /\ d.dir = "unset" /\ devices[i].dir = "unset",
           catalog' = IF d.state = "OK" THEN [catalog EXCEPT ![i] = "announced"]
                                        ELSE catalog,
           UNCHANGED catVolumes,
           bug' \in {"none", "insertion", "container", "remount", "unusable"},
           Remember, UNCHANGED shown,
           \/ UNCHANGED <<pc, cur, todo>> /\ job' = NoJob
           \/ /\ d.state = "OK" /\ d.link = job.first[1]
              /\ pc' = "mount" /\ cur' = i /\ job' = [job EXCEPT !.step = "report"]
              /\ \E k \in Pending(d) : todo' = {k}
    PROVE  WatchInv'
<1>1. /\ job.path \in Path /\ job \in Jobs
      /\ phase \in {"scanning", "running"}
  BY BusyPhase DEF WatchInv, WatchTypeOK, JobRight
<1>2. PICK v \in Part : job.first = FirstLink(v) /\ job.second = SecondLink(v)
  BY DEF WatchInv, JobRight
<1>3. /\ CoreTypeOK /\ JobConsistent /\ cur = NoId /\ todo = {}
  BY DEF WatchInv, WatchTypeOK, JobRight, JobConsistent
<1>4. /\ devices'[i] = d
      /\ \A j \in ID : j # i => devices'[j] = devices[j]
  BY <1>3, StoreDoes
<1>5. /\ MapRight'
      /\ mapped' \in [Path -> Link \cup {NoLink}] /\ displaced' \in SUBSET Link
      /\ mapped'[job.path] = job.first
      /\ \A p \in Path : p # job.path => mapped'[p] = mapped[p]
  <2>1. \A j \in ID : Registered(j) => devices'[j].link = devices[j].link
    BY <1>4
  <2>2. \A j \in ID : Mounted(devices'[j]) = Mounted(devices[j])
    BY <1>4
  <2>3. QED
    BY <1>1, <1>2, <2>1, <2>2, RememberRight
<1>6. JobConsistent' /\ pc' \in {"idle", "mount"} /\ cur' \in ID \cup {NoId}
      /\ todo' \in SUBSET Index
  <2>1. CASE UNCHANGED <<pc, cur, todo>>
    BY <1>3, <2>1 DEF JobConsistent
  <2>2. ASSUME NEW k \in Pending(d), d.state = "OK", d.dir = "created",
               pc' = "mount", cur' = i, todo' = {k}
        PROVE  JobConsistent' /\ todo' \in SUBSET Index
    <3>1. k \in Index
      BY <2>2 DEF Pending
    <3>2. todo' \subseteq Pending(devices'[i]) /\ todo' # {}
      BY <1>4, <2>2
    <3>3. QED
      BY <1>4, <2>2, <3>1, <3>2 DEF JobConsistent
  <2>3. QED
    BY <1>3, <2>1, <2>2
<1>7. ViewInv' /\ AdoptedRight'
  BY <1>6, StoreView
<1>8. /\ job' \in Jobs /\ job'.path \in {job.path, NoPath}
      /\ \/ job' = NoJob /\ pc' = "idle"
         \/ /\ job'.step = "report" /\ job'.path = job.path /\ pc' = "mount"
            /\ job'.first = job.first /\ job'.second = job.second
  <2>1. CASE job' = NoJob /\ UNCHANGED pc
    BY <2>1, JobFacts
  <2>2. CASE job' = [job EXCEPT !.step = "report"] /\ pc' = "mount"
    BY <1>1, <2>2 DEF Jobs
  <2>3. QED
    BY <2>1, <2>2
<1>9. JobRight'
  <2>1. CASE job' = NoJob /\ pc' = "idle"
    BY <1>6, <2>1, JobFacts DEF JobRight
  <2>2. CASE job'.step = "report"
    <3>1. /\ d.state = "OK" /\ d.link = job.first[1] /\ pc' = "mount" /\ cur' = i
          /\ \E k \in Pending(d) : todo' = {k}
      BY <2>2, JobFacts
    <3>2. \E k \in Index : todo' = {k}
      BY <3>1 DEF Pending
    <3>3. d.link = RootOf[v[1]]
      BY <1>2, <3>1, LinkFacts
    <3>4. Store(i, d) /\ devices'[cur'].link = d.link
      BY <1>4, <3>1
    <3>5. /\ mapped'[job'.path] = <<devices'[cur'].link, 0>>
          /\ mapped'[job'.path] = job'.first
      BY <1>2, <1>5, <1>8, <2>2, <3>3, <3>4, JobFacts, LinkFacts
    <3>6. QED
      BY <1>1, <1>2, <1>6, <1>8, <2>2, <3>1, <3>2, <3>5, JobFacts DEF JobRight
  <2>3. QED
    BY <1>8, <2>1, <2>2
<1>10. PhaseRight' /\ RemovalsFollow' /\ FdTypeOK'
  BY <1>1, <1>5, <1>8, BusyStep
<1>11. WatchTypeOK'
  BY <1>1, <1>5, <1>7, <1>8, <1>10, DaemonTypes
  DEF WatchInv, WatchTypeOK, ViewInv
<1>12. QED
  BY <1>5, <1>7, <1>9, <1>10, <1>11 DEF WatchInv, ViewInv

LEMMA VolumeLinkInv ==
    ASSUME WatchInv, VolumeLink
    PROVE  WatchInv'
<1> DEFINE l == job.second
           stem == Resolve(l)
<1>1. /\ job.step = "volume" /\ pc = "idle"
      /\ UNCHANGED <<eventVars, placeVars, phase, scan>>
  BY DEF VolumeLink
<1>2. PICK v \in Part : job.first = FirstLink(v) /\ job.second = SecondLink(v)
  BY <1>1 DEF WatchInv, JobRight
<1>3. l \in Link /\ stem \in Stem \cup {NoStem}
  BY <1>2, LinkFacts, ResolveType DEF WatchInv
<1>4. PICK o \in Answer(l) :
         \/ NoEntry(l, stem, o)
         \/ /\ \E i \in ID :
                  /\ EntryIn(i, l, stem)
                  /\ LET e == Entry(i, l, stem, o) IN Pass(i, e, o.info) \/ Adopt(i, e)
            /\ Remember
            /\ UNCHANGED shown
  BY DEF VolumeLink
<1>5. o \in Outcome(stem)
  BY DEF Answer
<1>6. /\ CoreTypeOK /\ AdoptedRight /\ ClientViewExact
      /\ cur = NoId /\ todo = {}
  BY <1>1 DEF WatchInv, WatchTypeOK, JobRight, JobConsistent
<1> HIDE DEF stem
<1>7. ASSUME NEW i \in ID, NEW e, Sane(i, l, e), Remember, UNCHANGED shown,
             Pass(i, e, o.info)
      PROVE  WatchInv'
  <2> DEFINE d == IF e.vol = NoIndex THEN e.dev ELSE Filter(e.dev)
  <2>1. /\ e.vol = NoIndex \/ d.state # "OK"
        /\ Store(i, d)
        /\ bug' = IF o.info /\ e.vol = NoIndex THEN "insertion" ELSE "none"
        /\ UNCHANGED <<pc, cur, todo, catalog, catVolumes>>
        /\ job' = NoJob
    BY <1>7 DEF Pass
  <2>2. /\ e.dev \in Device
        /\ \A j \in ID : Registered(j) /\ j # i => devices[j].link # e.dev.link
        /\ e.dev.dir = devices[i].dir
        /\ Registered(i) => e.dev.link = devices[i].link
        /\ Mounted(e.dev) = Mounted(devices[i])
        /\ e.dev.state = "SYNTHETIC" \/ \E f \in Drive : e.dev.link = RootOf[f]
        /\ e.dev.state = "OK" <=> devices[i].state = "OK"
    BY <1>7 DEF Sane
  <2>3. /\ d \in Device /\ d.link = e.dev.link /\ d.dir = e.dev.dir /\ d.vol = e.dev.vol
        /\ d.state = "SYNTHETIC" \/ \E f \in Drive : d.link = RootOf[f]
        /\ d.state = "OK" <=> devices[i].state = "OK"
    <3>1. CASE e.vol = NoIndex
      BY <2>2, <3>1
    <3>2. CASE e.vol # NoIndex
      <4>1. /\ Filter(e.dev) \in Device
            /\ Filter(e.dev).link = e.dev.link /\ Filter(e.dev).dir = e.dev.dir
            /\ Filter(e.dev).vol = e.dev.vol
            /\ e.dev.state # "PROBED" => Filter(e.dev) = e.dev
        BY <2>2, FilterFacts
      <4>2. Filter(e.dev).state # "OK"
        BY <2>1, <3>2
      <4>3. d = Filter(e.dev)
        BY <3>2
      <4> HIDE DEF d
      <4>4. QED
        BY <2>2, <4>1, <4>2, <4>3
    <3>3. QED
      BY <3>1, <3>2
  <2> HIDE DEF d
  <2>4. \/ d.state = "OK" /\ d.dir = "created" /\ Registered(i)
        \/ d.state # "OK" /\ d.dir = "unset" /\ devices[i].dir = "unset"
    BY <1>6, <2>2, <2>3, SentinelFacts DEF AdoptedRight, Registered
  <2>5. catalog' = IF d.state = "OK" THEN [catalog EXCEPT ![i] = "announced"]
                                     ELSE catalog
    <3>1. CASE d.state = "OK"
      <4>1. catalog[i] = "announced"
        BY <1>1, <1>6, <2>2, <2>3, <2>4, <3>1 DEF ClientViewExact, CoreTypeOK
      <4>2. catalog = [catalog EXCEPT ![i] = "announced"]
        BY <1>6, <4>1 DEF CoreTypeOK
      <4>3. QED
        BY <2>1, <3>1, <4>2
    <3>2. QED
      BY <2>1, <3>1
  <2>6. Mounted(d) = Mounted(devices[i])
    BY <2>2, <2>3 DEF Mounted
  <2>7. bug' \in {"none", "insertion", "container", "remount", "unusable"}
    BY <2>1
  <2>8. QED
    BY <1>1, <1>7, <2>1, <2>2, <2>3, <2>4, <2>5, <2>6, <2>7, VolumeStored
<1>8. ASSUME NEW i \in ID, NEW e, Sane(i, l, e), Remember, UNCHANGED shown,
             Adopt(i, e)
      PROVE  WatchInv'
  <2> DEFINE f == Filter(e.dev)
             d == [f EXCEPT !.dir = "created"]
  <2>1. /\ e.vol # NoIndex /\ f.state = "OK"
        /\ Store(i, d) /\ Announce(i) /\ UNCHANGED catVolumes
        /\ \/ /\ f.vol[e.vol].state = "PENDING"
              /\ StartMounting(i, {e.vol})
              /\ bug' = IF f.dir = "created" THEN "container" ELSE "none"
              /\ job' = [job EXCEPT !.step = "report"]
           \/ /\ bug' = "remount" /\ job' = NoJob
              /\ UNCHANGED <<pc, cur, todo>>
    BY <1>8 DEF Adopt
  <2>2. /\ e.dev \in Device /\ e.vol \in Index \cup {NoIndex}
        /\ \A j \in ID : Registered(j) /\ j # i => devices[j].link # e.dev.link
        /\ e.dev.link \in {l[1], Unnamed}
        /\ Registered(i) => e.dev.link = devices[i].link
        /\ Mounted(e.dev) = Mounted(devices[i])
        /\ e.dev.state = "SYNTHETIC" \/ \E g \in Drive : e.dev.link = RootOf[g]
    BY <1>8 DEF Sane
  <2>3. /\ f \in Device /\ f.link = e.dev.link /\ f.vol = e.dev.vol
        /\ e.dev.state # "PROBED" => f = e.dev
    BY <2>2, FilterFacts
  <2>4. PICK g \in Drive : e.dev.link = RootOf[g]
    BY <2>1, <2>2, <2>3
  <2>5. e.dev.link = job.first[1]
    <3>1. /\ RootOf[g] \in Disk /\ v[1] \in Drive
          /\ l[1] \in {RootOf[v[1]], PartOf[v[1]]}
          /\ job.first[1] = RootOf[v[1]]
      BY <1>2, LinkFacts, WatchAssumption
    <3>2. RootOf[g] \in {RootOf[v[1]], PartOf[v[1]]}
      BY <2>2, <2>4, <3>1, SentinelAssumption
    <3>3. {RootOf[g], PartOf[g]} \cap {RootOf[v[1]], PartOf[v[1]]} # {}
      BY <3>2
    <3>4. g = v[1]
      BY <3>1, <3>3, NamesAssumption
    <3>5. QED
      BY <2>4, <3>1, <3>4
  <2> HIDE DEF f
  <2>6. /\ d \in Device /\ d.link = e.dev.link /\ d.vol = e.dev.vol
        /\ d.state = "OK" /\ d.dir = "created"
    BY <2>1, <2>3 DEF Device
  <2>7. Mounted(d) = Mounted(devices[i])
    BY <2>2, <2>6 DEF Mounted
  <2>8. \/ UNCHANGED <<pc, cur, todo>> /\ job' = NoJob
        \/ /\ d.state = "OK" /\ d.link = job.first[1]
           /\ pc' = "mount" /\ cur' = i /\ job' = [job EXCEPT !.step = "report"]
           /\ \E k \in Pending(d) : todo' = {k}
    <3>1. CASE /\ f.vol[e.vol].state = "PENDING"
               /\ StartMounting(i, {e.vol})
               /\ job' = [job EXCEPT !.step = "report"]
      <4>1. e.vol \in Pending(d)
        BY <2>1, <2>2, <2>3, <2>6, <3>1 DEF Pending
      <4>2. pc' = "mount" /\ cur' = i /\ todo' = {e.vol}
        BY <3>1 DEF StartMounting
      <4>3. QED
        BY <2>5, <2>6, <3>1, <4>1, <4>2
    <3>2. QED
      BY <2>1, <3>1
  <2>9. bug' \in {"none", "insertion", "container", "remount", "unusable"}
    BY <2>1
  <2>10. Store(i, d) /\ catalog' = [catalog EXCEPT ![i] = "announced"]
         /\ UNCHANGED catVolumes
    BY <2>1 DEF Announce
  <2>11. /\ \A j \in ID : Registered(j) /\ j # i => devices[j].link # d.link
         /\ Registered(i) => d.link = devices[i].link
         /\ \E h \in Drive : d.link = RootOf[h]
    BY <2>2, <2>4, <2>6
  <2> HIDE DEF d
  <2>12. QED
    BY <1>1, <1>8, <2>6, <2>7, <2>8, <2>9, <2>10, <2>11, VolumeStored
<1>9. ASSUME NEW i \in ID, EntryIn(i, l, stem)
      PROVE  Sane(i, l, Entry(i, l, stem, o))
  BY <1>2, <1>3, <1>5, <1>9, EntrySane
<1>10. CASE NoEntry(l, stem, o)
  BY <1>1, <1>10, NoEntryInv
<1> HIDE DEF l
<1>11. QED
  BY <1>4, <1>7, <1>8, <1>9, <1>10

----------------------------------------------------------------------------
(* Volumes are told of, and directories go                                 *)

LEMMA ReportInvariant ==
    ASSUME WatchInv, Report
    PROVE  WatchInv'
<1>1. /\ ViewInv /\ CoreTypeOK /\ JobConsistent /\ AdoptedRight /\ MapRight /\ UniqueLinks
      /\ shown \in SUBSET (ID \X Index \X Path)
  BY WatchView DEF WatchInv, WatchTypeOK, ViewInv
<1>2. PICK k \in todo, ok \in BOOLEAN :
         /\ ok /\ MountVolume(k, ok)
         /\ shown' = shown \cup {<<cur, k, job.path>>}
  BY DEF Report
<1>3. /\ job' = NoJob
      /\ UNCHANGED <<mapped, displaced, eventVars, placeVars, phase, scan>>
  BY DEF Report
<1>4. k \in Index
  BY <1>1 DEF CoreTypeOK
<1> DEFINE d == devices[cur]
           e == devices'[cur]
<1>5. /\ pc = "mount" /\ k \in todo /\ cur \in ID /\ Registered(cur)
      /\ d.state = "OK" /\ d.dir = "created"
      /\ \A j \in ID : j # cur => devices'[j] = devices[j]
      /\ e \in Device /\ e.state = "OK" /\ e.dir = "created" /\ e.link = d.link
      /\ e.vol[k].state = "MOUNTED"
      /\ \A n \in Index : n # k => e.vol[n] = d.vol[n]
      /\ todo' = todo \ {k}
      /\ \/ todo \ {k} = {} /\ pc' = "idle" /\ cur' = NoId
         \/ todo \ {k} # {} /\ pc' = "mount" /\ cur' = cur
  <2>1. /\ pc = "mount" /\ k \in todo /\ cur \in ID /\ Registered(cur)
        /\ d.state = "OK" /\ d.dir = "created"
        /\ \A j \in ID : j # cur => devices'[j] = devices[j]
        /\ e \in Device /\ e.state = "OK" /\ e.dir = "created" /\ e.link = d.link
        /\ e.vol[k].state = (IF ok THEN "MOUNTED" ELSE "UNUSABLE")
        /\ \A n \in Index : n # k => e.vol[n] = d.vol[n]
        /\ todo' = todo \ {k}
        /\ \/ todo \ {k} = {} /\ pc' = "idle" /\ cur' = NoId
           \/ todo \ {k} # {} /\ pc' = "mount" /\ cur' = cur
    BY <1>1, <1>2, <1>4, MountVolumeDoes
  <2>2. e.vol[k].state = "MOUNTED"
    BY <1>2, <2>1
  <2>3. QED
    BY <2>1, <2>2
<1>6. ViewInv'
  BY <1>1, <1>2, <1>4, MountVolumeView
<1>7. /\ job.step = "report" /\ job.path \in Path /\ todo = {k}
      /\ mapped[job.path] = <<d.link, 0>>
  BY <1>5 DEF WatchInv, JobRight
<1>8. pc' = "idle"
  BY <1>5, <1>7
<1>9. phase \in {"scanning", "running"}
  BY <1>7, BusyPhase
<1>10. AdoptedRight'
  <2>1. \E f \in Drive : d.link = RootOf[f]
    BY <1>1, <1>5 DEF AdoptedRight
  <2>2. \A j \in ID : j # cur => devices'[j] = devices[j]
    BY <1>5
  <2>3. QED
    BY <1>1, <1>5, <2>1, <2>2 DEF AdoptedRight, Registered
<1>11. MapRight'
  <2>1. ASSUME NEW j \in ID
        PROVE  /\ devices'[j].link = devices[j].link
               /\ Mounted(devices[j]) \subseteq Mounted(devices'[j])
    BY <1>5 DEF Mounted
  <2>2. k \in Mounted(e)
    BY <1>4, <1>5 DEF Mounted
  <2>3. ASSUME NEW s \in shown
        PROVE  /\ s[2] \in Mounted(devices'[s[1]])
               /\ devices'[s[1]].link = devices[s[1]].link
               /\ <<devices[s[1]].link, 0>> \notin displaced
                    => mapped[s[3]] = <<devices[s[1]].link, 0>>
    <3>1. s[1] \in ID /\ s[2] \in Mounted(devices[s[1]])
      BY <1>1, <2>3 DEF MapRight
    <3>2. <<devices[s[1]].link, 0>> \notin displaced
            => mapped[s[3]] = <<devices[s[1]].link, 0>>
      BY <1>1, <1>5, <2>3 DEF MapRight
    <3>3. QED
      BY <2>1, <3>1, <3>2
  <2>4. \A s \in shown' : /\ s[2] \in Mounted(devices'[s[1]])
                          /\ <<devices'[s[1]].link, 0>> \notin displaced
                               => mapped[s[3]] = <<devices'[s[1]].link, 0>>
    <3>1. ASSUME NEW s, s = <<cur, k, job.path>>
          PROVE  /\ s[2] \in Mounted(devices'[s[1]])
                 /\ mapped[s[3]] = <<devices'[s[1]].link, 0>>
      BY <1>5, <1>7, <2>2, <3>1
    <3>2. QED
      BY <1>2, <2>3, <3>1
  <2>5. \A p \in Path : mapped'[p] # NoLink => \E f \in Drive : mapped'[p] = <<RootOf[f], 0>>
    BY <1>1, <1>3 DEF MapRight
  <2>6. QED
    BY <1>3, <2>4, <2>5 DEF MapRight
<1>12. JobRight'
  <2>1. JobConsistent'
    BY <1>6 DEF ViewInv
  <2>2. QED
    BY <1>3, <1>8, <2>1, JobFacts DEF JobRight
<1>13. PhaseRight' /\ RemovalsFollow' /\ FdTypeOK'
  BY <1>3, <1>8, <1>9, JobFacts, BusyStep
<1>14. WatchTypeOK'
  <2>1. shown' \in SUBSET (ID \X Index \X Path)
    BY <1>1, <1>2, <1>4, <1>5, <1>7
  <2>2. QED
    BY <1>3, <1>6, <1>13, <2>1, JobFacts, DaemonTypes
    DEF WatchInv, WatchTypeOK, ViewInv
<1>15. QED
  BY <1>6, <1>10, <1>11, <1>12, <1>13, <1>14 DEF WatchInv, ViewInv

\* What was mounted goes with the device the directory leads to.
LEMMA HandedGoneInv ==
    ASSUME WatchInv, NEW p \in Path, phase = "running",
           Handed(Gone(p)), MountpointGone(p), UNCHANGED <<placeVars, scan, phase>>
    PROVE  WatchInv'
<1>1. /\ job.step = "none" /\ pc = "idle"
      /\ \/ mapped[p] = NoLink /\ UNCHANGED coreVars
         \/ mapped[p] # NoLink /\ HandleRemovedDevice(mapped[p])
      /\ mapped' = [mapped EXCEPT ![p] = NoLink]
      /\ UNCHANGED <<shown, displaced, job>>
  BY DEF MountpointGone
<1>2. /\ ViewInv /\ CoreTypeOK /\ UniqueLinks /\ AdoptedRight /\ MapRight
      /\ mapped \in [Path -> Link \cup {NoLink}]
      /\ job = NoJob /\ scan = {}
  BY <1>1, WatchView DEF WatchInv, WatchTypeOK, JobRight, PhaseRight
<1>3. /\ mapped' \in [Path -> Link \cup {NoLink}] /\ mapped'[p] = NoLink
      /\ \A q \in Path : q # p => mapped'[q] = mapped[q]
  BY <1>1, <1>2
<1>4. /\ ViewInv' /\ UNCHANGED devices /\ pc' \in {"idle", "drop"}
      /\ \/ mapped[p] = NoLink
         \/ /\ pc' = "drop" /\ Registered(cur') /\ cur' \in ID
            /\ mapped[p] = <<devices[cur'].link, 0>>
         \/ /\ pc' = "idle" /\ mapped[p] # NoLink
            /\ \A i \in ID : Registered(i) => mapped[p] # <<devices[i].link, 0>>
  <2>1. CASE mapped[p] = NoLink /\ UNCHANGED coreVars
    BY <1>1, <2>1, CoreKept DEF coreVars
  <2>2. CASE mapped[p] # NoLink /\ HandleRemovedDevice(mapped[p])
    <3>1. mapped[p] \in Link
      BY <1>2, <2>2
    <3>2. PICK r \in Drive : mapped[p] = <<RootOf[r], 0>>
      BY <1>2, <2>2 DEF MapRight
    <3>3. mapped[p][1] = RootOf[r] /\ mapped[p][2] = 0
      BY <3>2
    <3>4. ViewInv'
      BY <1>2, <2>2, <3>1, HandleRemovedDeviceView
    <3>5. /\ UNCHANGED devices
          /\ \/ UNCHANGED pc /\ (mapped[p][2] > 0 \/ ~Known(mapped[p][1]))
             \/ \E i \in ID : /\ Registered(i) /\ devices[i].link = mapped[p][1]
                              /\ pc' = "drop" /\ cur' = i
      BY <1>2, <2>2, <3>1, HandleRemovedDeviceDoes
    <3>6. CASE UNCHANGED pc /\ ~Known(mapped[p][1])
      <4>1. \A i \in ID : Registered(i) => devices[i].link # RootOf[r]
        BY <3>3, <3>6 DEF Known
      <4>2. \A i \in ID : Registered(i) => mapped[p] # <<devices[i].link, 0>>
        BY <3>2, <4>1
      <4>3. QED
        BY <1>1, <2>2, <3>4, <3>5, <3>6, <4>2
    <3>7. CASE \E i \in ID : /\ Registered(i) /\ devices[i].link = mapped[p][1]
                             /\ pc' = "drop" /\ cur' = i
      BY <3>2, <3>3, <3>4, <3>5, <3>7
    <3>8. QED
      BY <3>3, <3>5, <3>6, <3>7
  <2>3. QED
    BY <1>1, <2>1, <2>2
<1>5. AdoptedRight'
  BY <1>2, <1>4 DEF AdoptedRight, Registered
<1>6. MapRight'
  <2>1. \A q \in Path : mapped'[q] # NoLink => \E d \in Drive : mapped'[q] = <<RootOf[d], 0>>
    BY <1>2, <1>3 DEF MapRight
  <2>2. ASSUME NEW s \in shown, <<devices[s[1]].link, 0>> \notin displaced,
               ~(pc' = "drop" /\ cur' = s[1])
        PROVE  mapped'[s[3]] = <<devices[s[1]].link, 0>>
    <3>1. /\ mapped[s[3]] = <<devices[s[1]].link, 0>>
          /\ s[2] \in Mounted(devices[s[1]]) /\ s[1] \in ID /\ s[3] \in Path
      BY <1>1, <1>2, <2>2 DEF MapRight, WatchInv, WatchTypeOK
    <3>2. Registered(s[1]) /\ devices[s[1]].link \in Disk
      BY <3>1, WatchView
    <3>3. s[3] # p
      <4>1. SUFFICES ASSUME s[3] = p PROVE FALSE
        OBVIOUS
      <4>2. mapped[p] # NoLink
        BY <3>1, <3>2, <4>1, JobFacts
      <4>3. pc' = "drop" /\ Registered(cur') /\ cur' \in ID
            /\ mapped[p] = <<devices[cur'].link, 0>>
        BY <1>4, <3>1, <3>2, <4>1, <4>2
      <4>4. devices[cur'].link = devices[s[1]].link
        BY <3>1, <4>1, <4>3
      <4>5. cur' = s[1]
        BY <1>2, <3>1, <3>2, <4>3, <4>4 DEF UniqueLinks
      <4>6. QED
        BY <2>2, <4>3, <4>5
    <3>4. QED
      BY <1>3, <3>1, <3>3
  <2>3. QED
    BY <1>1, <1>2, <1>4, <2>1, <2>2 DEF MapRight
<1>7. JobRight'
  <2>1. JobConsistent' /\ job' = NoJob
    BY <1>1, <1>2, <1>4 DEF ViewInv
  <2>2. QED
    BY <1>4, <2>1, JobFacts DEF JobRight
<1>8. PhaseRight'
  BY <1>2, <1>4 DEF PhaseRight
<1>9. /\ FdTypeOK' /\ fd' = fd /\ Coming \in Seq(Event)
      /\ Coming # <<>> /\ Head(Coming) = Gone(p) /\ Coming' = Tail(Coming)
  BY HandedStream, ComingType, EventFacts DEF WatchInv, WatchTypeOK
<1>10. RemovalsFollow'
  <2>1. /\ RemovalsFollow /\ UNCHANGED <<faults, at>> /\ scan' = {} /\ job' = NoJob
    BY <1>1, <1>2 DEF WatchInv, placeVars
  <2>2. ASSUME NEW q \in Path, at[q] = Free, "overflow" \notin faults, fd = "open"
        PROVE  /\ Forgotten(Coming', q)
               /\ mapped'[q] # NoLink => GoneIn(Coming', q)
    <3>1. /\ Forgotten(Coming, q)
          /\ mapped[q] # NoLink => GoneIn(Coming, q)
      BY <2>1, <2>2 DEF RemovalsFollow
    <3>2. Forgotten(Coming', q)
      BY <1>9, <3>1, TailComing
    <3>3. q # p /\ GoneIn(Coming, q) => GoneIn(Coming', q)
      <4>1. q # p => Head(Coming) # Gone(q)
        BY <1>9, EventFacts
      <4>2. QED
        BY <1>9, <4>1, TailComing
    <3>4. QED
      BY <1>3, <3>1, <3>2, <3>3
  <2>3. QED
    BY <1>9, <2>1, <2>2, JobFacts DEF RemovalsFollow
<1>11. WatchTypeOK'
  BY <1>1, <1>2, <1>3, <1>4, <1>9, JobFacts, DaemonTypes
  DEF WatchInv, WatchTypeOK, ViewInv
<1>12. QED
  BY <1>4, <1>5, <1>6, <1>7, <1>8, <1>10, <1>11 DEF WatchInv, ViewInv

LEMMA DropInv ==
    ASSUME WatchInv, Drop
    PROVE  WatchInv'
<1>1. /\ ViewInv /\ NothingHidden /\ CoreTypeOK /\ JobConsistent /\ UniqueLinks
      /\ AdoptedRight /\ MapRight
      /\ shown \in SUBSET (ID \X Index \X Path) /\ displaced \in SUBSET Link
  BY WatchView DEF WatchInv, WatchTypeOK, ViewInv
<1>2. /\ UNCHANGED <<mapped, job, eventVars, placeVars, phase, scan>>
      /\ \/ /\ \E k \in Index : /\ DropVolume(k)
                                /\ shown' = {s \in shown : s[1] # cur \/ s[2] # k}
            /\ UNCHANGED displaced
         \/ /\ DropDevice
            /\ displaced' = displaced \ {<<devices[cur].link, 0>>}
            /\ UNCHANGED shown
  BY <1>1 DEF Drop, CoreTypeOK
<1>3. /\ pc = "drop" /\ cur \in ID /\ Registered(cur)
      /\ job = NoJob /\ phase \in {"scanning", "running"}
  <2>1. pc = "drop"
    BY <1>2 DEF DropVolume, DropDevice
  <2>2. job.step = "none"
    BY <2>1 DEF WatchInv, WatchTypeOK, JobRight, Jobs
  <2>3. QED
    BY <1>1, <2>1, <2>2, BusyPhase DEF WatchInv, JobRight, JobConsistent
<1>4. /\ ViewInv' /\ AdoptedRight' /\ MapRight' /\ pc' \in {"drop", "idle"}
      /\ shown' \in SUBSET shown /\ displaced' \in SUBSET displaced
  <2>1. ASSUME NEW k \in Index, DropVolume(k), UNCHANGED displaced,
               shown' = {s \in shown : s[1] # cur \/ s[2] # k}
        PROVE  /\ ViewInv' /\ AdoptedRight' /\ MapRight' /\ pc' \in {"drop", "idle"}
               /\ shown' \in SUBSET shown /\ displaced' \in SUBSET displaced
    <3> DEFINE d == devices[cur]
               e == devices'[cur]
    <3>1. /\ d \in Device
          /\ \A j \in ID : j # cur => devices'[j] = devices[j]
          /\ e \in Device /\ e.state = d.state /\ e.dir = d.dir /\ e.link = d.link
          /\ \A n \in Index : n # k => e.vol[n] = d.vol[n]
          /\ Mounted(e) \subseteq Mounted(d)
          /\ UNCHANGED <<pc, cur>>
      BY <1>1, <2>1, DropVolumeDoes
    <3>2. ViewInv'
      BY <1>1, <2>1, DropVolumeView
    <3>3. AdoptedRight'
      <4>1. \A j \in ID : /\ devices'[j].state = devices[j].state
                          /\ devices'[j].dir = devices[j].dir
                          /\ devices'[j].link = devices[j].link
                          /\ Mounted(devices'[j]) \subseteq Mounted(devices[j])
        BY <3>1
      <4>2. \A j \in ID : devices'[j] # Absent => Registered(j)
        BY <1>3, <3>1 DEF Registered
      <4>3. QED
        BY <1>1, <4>1, <4>2 DEF AdoptedRight, Registered
    <3>4. MapRight'
      <4>1. ASSUME NEW s \in shown, s[1] # cur \/ s[2] # k
            PROVE  /\ s[2] \in Mounted(devices'[s[1]])
                   /\ devices'[s[1]].link = devices[s[1]].link
        <5>1. s[1] \in ID /\ s[2] \in Mounted(devices[s[1]]) /\ s[2] \in Index
          BY <1>1, <4>1 DEF MapRight, Mounted
        <5>2. CASE s[1] # cur
          BY <3>1, <5>1, <5>2
        <5>3. CASE s[1] = cur
          BY <3>1, <4>1, <5>1, <5>3 DEF Mounted
        <5>4. QED
          BY <5>2, <5>3
      <4>2. QED
        BY <1>1, <1>2, <2>1, <3>1, <4>1 DEF MapRight
    <3>5. QED
      BY <1>3, <2>1, <3>1, <3>2, <3>3, <3>4
  <2>2. ASSUME DropDevice, UNCHANGED shown,
               displaced' = displaced \ {<<devices[cur].link, 0>>}
        PROVE  /\ ViewInv' /\ AdoptedRight' /\ MapRight' /\ pc' \in {"drop", "idle"}
               /\ shown' \in SUBSET shown /\ displaced' \in SUBSET displaced
    <3>1. /\ Volumes(devices[cur]) = {}
          /\ pc' = "idle" /\ devices'[cur] = Absent
          /\ \A j \in ID : j # cur => devices'[j] = devices[j]
      BY <1>1, <2>2, DropDeviceDoes
    <3>2. ViewInv'
      BY <1>1, <2>2, DropDeviceView
    <3>3. AdoptedRight'
      BY <1>1, <3>1 DEF AdoptedRight, Registered
    <3>4. MapRight'
      <4>1. ASSUME NEW s \in shown
            PROVE  /\ s[2] \in Mounted(devices'[s[1]])
                   /\ devices'[s[1]].link = devices[s[1]].link
                   /\ s[1] # cur
                   /\ <<devices[s[1]].link, 0>> \notin displaced' =>
                         <<devices[s[1]].link, 0>> \notin displaced
        <5>1. s[1] \in ID /\ s[2] \in Mounted(devices[s[1]])
          BY <1>1, <4>1 DEF MapRight
        <5>2. s[1] # cur
          BY <3>1, <5>1, SentinelFacts DEF Mounted, Volumes
        <5>3. Registered(s[1])
          BY <5>1, WatchView
        <5>4. devices[s[1]].link # devices[cur].link
          BY <1>1, <1>3, <5>1, <5>2, <5>3 DEF UniqueLinks
        <5>5. <<devices[s[1]].link, 0>> # <<devices[cur].link, 0>>
          BY <5>4
        <5>6. QED
          BY <2>2, <3>1, <5>1, <5>2, <5>5
      <4>2. \A p \in Path : mapped'[p] # NoLink => \E f \in Drive : mapped'[p] = <<RootOf[f], 0>>
        BY <1>1, <1>2 DEF MapRight
      <4>3. \A s \in shown : <<devices[s[1]].link, 0>> \notin displaced
               => mapped[s[3]] = <<devices[s[1]].link, 0>>
        BY <1>1, <4>1 DEF MapRight
      <4>4. QED
        BY <1>2, <2>2, <4>1, <4>2, <4>3 DEF MapRight
    <3>5. QED
      BY <2>2, <3>1, <3>2, <3>3, <3>4
  <2>3. QED
    BY <1>2, <2>1, <2>2
<1>5. JobRight'
  <2>1. JobConsistent' /\ job' = NoJob
    BY <1>2, <1>3, <1>4 DEF ViewInv
  <2>2. QED
    BY <1>4, <2>1, JobFacts DEF JobRight
<1>6. PhaseRight' /\ RemovalsFollow' /\ FdTypeOK'
  BY <1>2, <1>3, <1>4, BusyStep
<1>7. WatchTypeOK'
  <2>1. shown' \in SUBSET (ID \X Index \X Path) /\ displaced' \in SUBSET Link
    BY <1>1, <1>4
  <2>2. QED
    BY <1>2, <1>4, <1>6, <2>1, DaemonTypes DEF WatchInv, WatchTypeOK, ViewInv
<1>8. QED
  BY <1>4, <1>5, <1>6, <1>7 DEF WatchInv, ViewInv

----------------------------------------------------------------------------
(* The end and the beginning                                               *)

\* What is left after the end of the process, and before its next life.
LEMMA EndedInv ==
    ASSUME WatchInv, Ends, UNCHANGED placeVars, FdTypeOK', RemovalsFollow',
           \/ pc' = "stopped" /\ phase' = "stopped"
           \/ /\ pc' = "idle" /\ phase' = "starting" /\ mapped' = NothingMapped
              /\ \A i \in ID : devices'[i] = Absent,
           job' = NoJob, shown' = {}, displaced' \in SUBSET displaced, scan' = {},
           mapped' \in {mapped, NothingMapped}
    PROVE  WatchInv'
<1>1. /\ CoreTypeOK /\ UniqueLinks /\ JobConsistent /\ AdoptedRight /\ MapRight
      /\ mapped \in [Path -> Link \cup {NoLink}]
  BY DEF WatchInv, WatchTypeOK, JobRight
<1>2. ViewInv'
  BY <1>1, StoppedView
<1>3. AdoptedRight'
  <2>1. \A i \in ID : devices'[i] # Absent => devices'[i] = devices[i]
    BY DEF Ends
  <2>2. QED
    BY <1>1, <2>1 DEF AdoptedRight, Registered
<1>4. MapRight'
  <2>1. \A p \in Path : mapped'[p] # NoLink => mapped' = mapped
    BY JobFacts
  <2>2. QED
    BY <1>1, <2>1 DEF MapRight
<1>5. JobRight'
  <2>1. JobConsistent' /\ pc' # "mount"
    BY <1>2 DEF ViewInv
  <2>2. QED
    BY <2>1, JobFacts DEF JobRight
<1>6. PhaseRight'
  BY DEF PhaseRight, Registered
<1>7. WatchTypeOK'
  <2>1. mapped' \in [Path -> Link \cup {NoLink}]
    BY <1>1 DEF NothingMapped
  <2>2. phase' \in {"starting", "stopped"} /\ shown' \in SUBSET (ID \X Index \X Path)
        /\ scan' \in SUBSET Path
    OBVIOUS
  <2>3. displaced' \in SUBSET Link
    BY DEF WatchInv, WatchTypeOK
  <2>4. QED
    BY <1>2, <2>1, <2>2, <2>3, JobFacts, DaemonTypes DEF WatchInv, WatchTypeOK, ViewInv
<1>8. QED
  BY <1>2, <1>3, <1>4, <1>5, <1>6, <1>7 DEF WatchInv, ViewInv

LEMMA HandedLastInv ==
    ASSUME WatchInv, phase = "running", HandedLast, UNCHANGED <<placeVars, scan>>,
           job.step = "none", UNCHANGED <<job, mapped, displaced>>,
           \/ Shutdown /\ phase' = "stopped" /\ shown' = {}
           \/ pc = "idle" /\ UNCHANGED <<coreVars, phase, shown>>
    PROVE  WatchInv'
<1>1. /\ CoreTypeOK /\ ClientViewExact /\ job = NoJob /\ scan = {} /\ FdTypeOK
  BY DEF WatchInv, WatchTypeOK, JobRight, PhaseRight
<1>2. FdTypeOK' /\ fd' = "closed"
  BY <1>1, ClosedStream DEF HandedLast
<1>3. RemovalsFollow'
  BY <1>2 DEF RemovalsFollow
<1>4. CASE Shutdown /\ phase' = "stopped" /\ shown' = {}
  <2>1. Ends /\ pc = "idle" /\ pc' = "stopped"
    BY <1>1, <1>4, StopsEnd DEF Shutdown
  <2>2. /\ job' = NoJob /\ scan' = {} /\ UNCHANGED placeVars
        /\ displaced' \in SUBSET displaced /\ mapped' \in {mapped, NothingMapped}
    BY <1>1
  <2>3. QED
    BY <1>2, <1>3, <1>4, <2>1, <2>2, EndedInv
<1>5. CASE UNCHANGED <<coreVars, phase, shown>>
  <2>1. UNCHANGED mapVars
    BY <1>5 DEF mapVars
  <2>2. ViewInv' /\ AdoptedRight' /\ MapRight' /\ JobRight'
    BY <1>5, <2>1, CoreKept, JobKept
  <2>3. PhaseRight'
    BY <1>5 DEF WatchInv, PhaseRight, coreVars
  <2>4. WatchTypeOK'
    BY <1>2, <1>5, <2>2, DaemonTypes DEF WatchInv, WatchTypeOK, ViewInv
  <2>5. QED
    BY <1>3, <2>2, <2>3, <2>4 DEF WatchInv, ViewInv
<1>6. QED
  BY <1>4, <1>5

LEMMA DispatchInv ==
    ASSUME WatchInv, Dispatch
    PROVE  WatchInv'
<1>1. phase = "running" /\ UNCHANGED <<placeVars, scan>>
  BY DEF Dispatch
<1>2. ASSUME NEW p \in Path, Handed(New(p)) /\ NewMountpoint(p), UNCHANGED phase
      PROVE  WatchInv'
  BY <1>1, <1>2, HandedNewInv
<1>3. ASSUME NEW p \in Path, Handed(Gone(p)) /\ MountpointGone(p), UNCHANGED phase
      PROVE  WatchInv'
  BY <1>1, <1>3, HandedGoneInv
<1>4. CASE /\ HandedLast
           /\ IF "isdir" \in faults
              THEN Shutdown /\ phase' = "stopped" /\ shown' = {}
              ELSE pc = "idle" /\ UNCHANGED <<coreVars, phase, shown>>
           /\ job.step = "none" /\ UNCHANGED <<job, mapped, displaced>>
  BY <1>1, <1>4, HandedLastInv
<1>5. QED
  BY <1>2, <1>3, <1>4 DEF Dispatch

LEMMA DieInv ==
    ASSUME WatchInv, Die
    PROVE  WatchInv'
<1>1. /\ CoreTypeOK /\ ClientViewExact /\ FdTypeOK
  BY DEF WatchInv, WatchTypeOK
<1>2. /\ Ends /\ cur' = NoId /\ todo' = {} /\ pc' = "stopped" /\ phase' = "stopped"
  BY <1>1, StopsEnd DEF Die, Stop
<1>3. FdTypeOK' /\ fd' = "closed"
  BY <1>1, ClosedStream DEF Die, Vanish
<1>4. RemovalsFollow'
  BY <1>3 DEF RemovalsFollow
<1>5. /\ UNCHANGED placeVars /\ job' = NoJob /\ shown' = {} /\ scan' = {}
      /\ displaced' \in SUBSET displaced /\ mapped' \in {mapped, NothingMapped}
  BY DEF Die
<1>6. QED
  BY <1>2, <1>3, <1>4, <1>5, EndedInv

LEMMA StartAgainInv ==
    ASSUME WatchInv, StartAgain
    PROVE  WatchInv'
<1>1. /\ CoreTypeOK /\ ClientViewExact /\ FdTypeOK /\ phase = "stopped"
      /\ job = NoJob /\ scan = {} /\ RemovalsFollow
  BY DEF WatchInv, WatchTypeOK, PhaseRight, StartAgain
<1>2. /\ Ends /\ cur' = NoId /\ todo' = {} /\ pc' = "idle" /\ phase' = "starting"
      /\ \A i \in ID : devices'[i] = Absent
  BY <1>1, StopsEnd DEF StartAgain, Restart
<1>3. FdTypeOK' /\ UNCHANGED <<fd, Coming>>
  BY <1>1 DEF StartAgain, eventVars, FdTypeOK, Coming
<1>4. /\ mapped' = NothingMapped /\ shown' = {} /\ displaced' = {}
      /\ UNCHANGED <<eventVars, placeVars, job, scan>>
  BY DEF StartAgain
<1>5. RemovalsFollow'
  <2>1. UNCHANGED <<faults, at>>
    BY <1>4 DEF placeVars
  <2>2. \A p \in Path : mapped'[p] = NoLink
    BY <1>4, JobFacts
  <2>3. QED
    BY <1>1, <1>3, <1>4, <2>1, <2>2, RemovalsKept
<1>6. QED
  BY <1>1, <1>2, <1>3, <1>4, <1>5, EndedInv

----------------------------------------------------------------------------
(* The theorems                                                            *)

LEMMA WatchInitInv == WatchInit => WatchInv
<1>1. SUFFICES ASSUME WatchInit PROVE WatchInv
  OBVIOUS
<1>2. CoreInit /\ FdInit
  BY <1>1 DEF WatchInit
<1>3. ViewInv
  BY <1>2, CoreInitInv, CoreInvIsView
<1>4. FdTypeOK /\ Coming = <<>>
  <2>1. fd = "closed" /\ pending = <<>> /\ batch = <<>>
    BY <1>2 DEF FdInit
  <2>2. QED
    BY <2>1, EventsAssumption DEF FdTypeOK, Coming
<1>5. /\ job = NoJob /\ mapped = NothingMapped /\ shown = {} /\ scan = {}
      /\ displaced = {} /\ phase = "starting" /\ fd = "closed" /\ pc = "idle"
      /\ \A i \in ID : devices[i] = Absent
  BY <1>1, <1>2 DEF WatchInit, FdInit, CoreInit
<1>6. WatchTypeOK
  <2>1. mapped \in [Path -> Link \cup {NoLink}]
    BY <1>5 DEF NothingMapped
  <2>2. at \in [Path -> Places] /\ node \in [Drive -> Stem \cup {NoStem}]
        /\ there \in BOOLEAN /\ faults \in WatchFaults
    BY <1>1 DEF WatchInit, Places
  <2>3. moves \in 0..MaxMoves[faults]
    <3>1. MaxMoves[faults] \in Nat /\ moves = 0
      BY <1>1, WatchAssumption DEF WatchInit
    <3>2. QED
      BY <3>1
  <2>4. QED
    BY <1>3, <1>4, <1>5, <2>1, <2>2, <2>3, JobFacts DEF WatchTypeOK, ViewInv
<1>7. JobRight
  BY <1>3, <1>5, JobFacts DEF JobRight, ViewInv
<1>8. PhaseRight /\ AdoptedRight
  BY <1>5 DEF PhaseRight, AdoptedRight, Registered
<1>9. MapRight
  BY <1>5, JobFacts DEF MapRight
<1>10. RemovalsFollow
  BY <1>5 DEF RemovalsFollow
<1>11. QED
  BY <1>3, <1>6, <1>7, <1>8, <1>9, <1>10 DEF WatchInv, ViewInv

LEMMA WatchStutterInv ==
    ASSUME WatchInv, UNCHANGED vars
    PROVE  WatchInv'
<1>1. UNCHANGED <<coreVars, eventVars, placeVars, mapVars, phase, scan, job>>
  BY DEF vars
<1>2. ViewInv' /\ AdoptedRight' /\ MapRight' /\ JobRight'
  BY <1>1, CoreKept, JobKept DEF mapVars
<1>3. PhaseRight'
  BY <1>1 DEF WatchInv, PhaseRight, coreVars, mapVars, Registered
<1>4. FdTypeOK' /\ UNCHANGED <<fd, Coming>>
  BY <1>1 DEF WatchInv, WatchTypeOK, eventVars, FdTypeOK, Coming
<1>5. RemovalsFollow'
  BY <1>1, <1>4, RemovalsKept DEF WatchInv, placeVars, mapVars
<1>6. WatchTypeOK'
  BY <1>1, <1>2, <1>4, DaemonTypes DEF WatchInv, WatchTypeOK, mapVars, ViewInv
<1>7. QED
  BY <1>2, <1>3, <1>5, <1>6 DEF WatchInv, ViewInv

LEMMA WatchStepInv == WatchInv /\ [WatchNext]_vars => WatchInv'
<1>1. SUFFICES ASSUME WatchInv, [WatchNext]_vars PROVE WatchInv'
  OBVIOUS
<1>2. CASE World
  BY <1>1, <1>2, WorldInv
<1>3. CASE SetUpWatch
  BY <1>1, <1>3, SetUpWatchInv
<1>4. CASE OpenDirectory \/ EnterMainLoop \/ Read
  BY <1>1, <1>4, QuietStepInv
<1>5. CASE \E p \in Path : ScanEntry(p)
  BY <1>1, <1>5, ScanEntryInv
<1>6. CASE Dispatch
  BY <1>1, <1>6, DispatchInv
<1>7. CASE Look
  BY <1>1, <1>7, LookInv
<1>8. CASE DiskLink \/ VolumeLink
  BY <1>1, <1>8, DiskLinkInv, VolumeLinkInv
<1>9. CASE Report \/ Drop
  BY <1>1, <1>9, ReportInvariant, DropInv
<1>10. CASE Die \/ StartAgain
  BY <1>1, <1>10, DieInv, StartAgainInv
<1>11. CASE UNCHANGED vars
  BY <1>1, <1>11, WatchStutterInv
<1>12. QED
  BY <1>1, <1>2, <1>3, <1>4, <1>5, <1>6, <1>7, <1>8, <1>9, <1>10, <1>11
  DEF WatchNext, Daemon

\* With --watch the daemon keeps its own invariant, whatever drives there are,
\* whatever others do in the directory and whatever fails.
THEOREM WatchInvariant == WatchSpec => []WatchInv
<1>1. QED
  BY WatchInitInv, WatchStepInv, PTL DEF WatchSpec

\* The types of the daemon's variables, and of what it watches.
COROLLARY WatchTypesAreRight == WatchSpec => []WatchTypeOK
<1>1. WatchInv => WatchTypeOK
  BY DEF WatchInv
<1>2. QED
  BY <1>1, WatchInvariant, PTL

\* A client that only listens to signals knows exactly the devices and volumes
\* the daemon has, though it announces a device each time a volume is found.
COROLLARY WatchersSeeTheTruth == WatchSpec => []ClientViewExact
<1>1. WatchInv => ClientViewExact
  BY DEF WatchInv
<1>2. QED
  BY <1>1, WatchInvariant, PTL

\* Once every event has been handled, a volume is shown at a directory that
\* exists, and that leads to its device, unless events were dropped or the
\* device's directory has been given to another drive.
THEOREM ShownIsThere == WatchSpec => []ReportedAreThere
<1>1. ASSUME WatchInv
      PROVE  ReportedAreThere
  <2>1. SUFFICES ASSUME Settled, "overflow" \notin faults, NEW s \in shown,
                        <<devices[s[1]].link, 0>> \notin displaced
                 PROVE  /\ at[s[3]] # Free
                        /\ mapped[s[3]] = <<devices[s[1]].link, 0>>
    BY DEF ReportedAreThere
  <2>2. /\ s[1] \in ID /\ s[3] \in Path /\ s[2] \in Mounted(devices[s[1]])
        /\ mapped[s[3]] = <<devices[s[1]].link, 0>>
    BY <1>1, <2>1 DEF WatchInv, WatchTypeOK, MapRight, Settled
  <2>3. mapped[s[3]] # NoLink
    BY <1>1, <2>2, WatchView, JobFacts
  <2>4. Coming = <<>> /\ fd = "open"
    BY <2>1 DEF Settled, Coming
  <2>5. at[s[3]] = Free => GoneIn(Coming, s[3])
    BY <1>1, <2>1, <2>2, <2>3, <2>4 DEF WatchInv, RemovalsFollow
  <2>6. QED
    BY <2>2, <2>4, <2>5, NothingComing
<1>2. QED
  BY <1>1, WatchInvariant, PTL

----------------------------------------------------------------------------
(* The catalogue *)

\* A device that is announced once more is none of the client's business.
LEMMA AnnounceCatalog ==
    ASSUME ViewInv, pc = "idle", NEW i \in ID, Announce(i), UNCHANGED catVolumes
    PROVE  CatalogStep
<1>1. catalog[i] \in {"unknown", "announced", "leaving"} /\ catalog[i] # "leaving"
  BY DEF ViewInv, CoreTypeOK, ClientViewExact
<1>2. CASE catalog[i] = "unknown"
  <2>1. Catalog!NewUSBDevice(i)
    BY <1>2, QuietOutsideRemoval DEF Announce, Catalog!NewUSBDevice
  <2>2. QED
    BY <2>1 DEF CatalogStep, Catalog!CatalogNext
<1>3. CASE catalog[i] = "announced"
  <2>1. catalog' = catalog
    BY <1>3 DEF Announce, ViewInv, CoreTypeOK
  <2>2. QED
    BY <2>1 DEF CatalogStep, Catalog!catalogVars
<1>4. QED
  BY <1>1, <1>2, <1>3

LEMMA WatchCatalog == WatchInv /\ [WatchNext]_vars => CatalogStep
<1>1. SUFFICES ASSUME WatchInv, [WatchNext]_vars PROVE CatalogStep
  OBVIOUS
<1>2. ViewInv
  BY <1>1, WatchView
<1>3. ASSUME UNCHANGED <<catalog, catVolumes>> PROVE CatalogStep
  BY <1>3 DEF CatalogStep, Catalog!catalogVars
<1>4. ASSUME NameVanishes PROVE CatalogStep
  BY <1>4 DEF NameVanishes, CatalogStep, Catalog!CatalogNext, Catalog!NameLost
<1>5. CASE World
  BY <1>3, <1>5 DEF World, Plug, Unplug, MkDir, Mount, Umount, RmDir,
     LoseDirectory, daemonVars, coreVars
<1>6. CASE \/ SetUpWatch \/ OpenDirectory \/ EnterMainLoop \/ Read \/ Look
           \/ \E p \in Path : ScanEntry(p)
  BY <1>3, <1>6 DEF SetUpWatch, OpenDirectory, EnterMainLoop, Read, Look,
     ScanEntry, NewMountpoint, coreVars
<1>7. CASE Dispatch
  <2>1. ASSUME NEW p \in Path, NewMountpoint(p) PROVE CatalogStep
    BY <1>3, <2>1 DEF NewMountpoint, coreVars
  <2>2. ASSUME NEW p \in Path, MountpointGone(p) PROVE CatalogStep
    <3>1. CASE UNCHANGED coreVars
      BY <1>3, <3>1 DEF coreVars
    <3>2. CASE mapped[p] # NoLink /\ HandleRemovedDevice(mapped[p])
      <4>1. mapped[p] \in Link
        BY <1>1, <2>2, <3>2, JobFacts DEF WatchInv, WatchTypeOK
      <4>2. QED
        BY <1>2, <3>2, <4>1, HandleRemovedDeviceCatalog
    <3>3. QED
      BY <2>2, <3>1, <3>2 DEF MountpointGone
  <2>3. CASE Shutdown
    BY <1>4, <2>3 DEF Shutdown
  <2>4. CASE UNCHANGED <<coreVars, phase, shown>>
    BY <1>3, <2>4 DEF coreVars
  <2>5. QED
    BY <1>7, <2>1, <2>2, <2>3, <2>4 DEF Dispatch
<1>8. CASE DiskLink
  BY <1>3, <1>8 DEF DiskLink, NoEntry, Spin, coreVars
<1>9. CASE VolumeLink
  <2>1. pc = "idle"
    BY <1>9 DEF VolumeLink
  <2>2. PICK o \in Answer(job.second) :
          \/ NoEntry(job.second, Resolve(job.second), o)
          \/ \E i \in ID :
                LET e == Entry(i, job.second, Resolve(job.second), o) IN
                Pass(i, e, o.info) \/ Adopt(i, e)
    BY <1>9 DEF VolumeLink
  <2>3. CASE NoEntry(job.second, Resolve(job.second), o)
    BY <1>3, <2>3 DEF NoEntry, Spin, coreVars
  <2>4. ASSUME NEW i \in ID, NEW e, Pass(i, e, o.info) PROVE CatalogStep
    BY <1>3, <2>4 DEF Pass
  <2>5. ASSUME NEW i \in ID, NEW e, Adopt(i, e) PROVE CatalogStep
    <3>1. Announce(i) /\ UNCHANGED catVolumes
      BY <2>5 DEF Adopt
    <3>2. QED
      BY <1>2, <2>1, <3>1, AnnounceCatalog
  <2>6. QED
    BY <2>2, <2>3, <2>4, <2>5
<1>10. CASE Report
  <2>1. PICK k \in todo, ok \in BOOLEAN : MountVolume(k, ok)
    BY <1>10 DEF Report
  <2>2. k \in Index
    BY <1>2 DEF ViewInv, CoreTypeOK
  <2>3. QED
    BY <1>2, <2>1, <2>2, MountVolumeCatalog
<1>11. CASE Drop
  <2>1. CASE DropDevice
    BY <1>2, <2>1, DropDeviceCatalog
  <2>2. ASSUME NEW k \in todo, DropVolume(k) PROVE CatalogStep
    BY <1>3, <2>2 DEF DropVolume
  <2>3. QED
    BY <1>11, <2>1, <2>2 DEF Drop
<1>12. CASE Die
  BY <1>4, <1>12 DEF Die, Stop
<1>13. CASE StartAgain
  BY <1>3, <1>13 DEF StartAgain, Restart
<1>14. CASE UNCHANGED vars
  BY <1>3, <1>14 DEF vars, coreVars
<1>15. QED
  BY <1>1, <1>5, <1>6, <1>7, <1>8, <1>9, <1>10, <1>11, <1>12, <1>13, <1>14
  DEF WatchNext, Daemon

\* The daemon with --watch implements the abstract catalogue as well, though
\* it announces a device again with each volume found on it, and though
\* nothing but directories tells it what comes and goes.
THEOREM WatchImplementsCatalog == WatchSpec => RefinesCatalog
<1>1. WatchInit => Catalog!CatalogInit
  BY DEF WatchInit, CoreInit, Catalog!CatalogInit
<1>2. WatchInv /\ [WatchNext]_vars => [Catalog!CatalogNext]_(Catalog!catalogVars)
  BY WatchCatalog DEF CatalogStep
<1>3. QED
  BY <1>1, <1>2, WatchInvariant, PTL DEF WatchSpec, RefinesCatalog, Catalog!CatalogSpec

----------------------------------------------------------------------------
(* The daemon comes to rest                                                *)

\* Events that were read need not be read again.
LEMMA EventsShrink ==
    ASSUME FdTypeOK, phase = "running", Read \/ Dispatch
    PROVE  /\ Len(pending) \in Nat /\ Len(batch) \in Nat
           /\ Len(pending') \in Nat /\ Len(batch') \in Nat
           /\ 2 * Len(pending') + Len(batch') < 2 * Len(pending) + Len(batch)
<1>1. pending \in Seq(Event) /\ batch \in Seq(Event)
  BY DEF FdTypeOK
<1>2. CASE Read
  <2> DEFINE n == Min2(BatchMax, Len(pending))
  <2>1. /\ batch = <<>> /\ pending # <<>>
        /\ batch' = SubSeq(pending, 1, n)
        /\ pending' = SubSeq(pending, n + 1, Len(pending))
    BY <1>2 DEF Read, FillBuffer
  <2>2. Len(pending) \in Nat /\ Len(pending) > 0
    BY <1>1, <2>1
  <2>3. n \in 1..Len(pending)
    BY <2>2, EventsAssumption DEF Min2
  <2> HIDE DEF n
  <2>4. Len(batch') = n /\ Len(pending') = Len(pending) - n
    BY <1>1, <2>1, <2>2, <2>3
  <2>5. Len(batch) = 0
    BY <2>1
  <2>6. QED
    BY <2>2, <2>3, <2>4, <2>5
<1>3. CASE Dispatch
  <2>1. \/ batch # <<>> /\ batch' = Tail(batch) /\ pending' = pending
        \/ batch # <<>> /\ batch' = <<>> /\ pending' = <<>>
    BY <1>3 DEF Dispatch, Handed, HandedLast
  <2>2. Len(pending) \in Nat /\ Len(batch) \in Nat /\ Len(batch) > 0
    BY <1>1, <2>1
  <2>3. CASE batch' = Tail(batch) /\ pending' = pending
    <3>1. Len(batch') = Len(batch) - 1 /\ Len(pending') = Len(pending)
      BY <1>1, <2>2, <2>3
    <3>2. QED
      BY <2>2, <3>1
  <2>4. CASE batch' = <<>> /\ pending' = <<>>
    <3>1. Len(batch') = 0 /\ Len(pending') = 0
      BY <2>4
    <3>2. QED
      BY <2>2, <3>1
  <2>5. QED
    BY <2>1, <2>3, <2>4
<1>4. QED
  BY <1>2, <1>3

\* A handler that does not loop over volumes gets one link further, or stops.
LEMMA LinkStepShrinks ==
    ASSUME WatchTypeOK, IsFiniteSet(Index), Look \/ DiskLink \/ VolumeLink
    PROVE  StepsLeft' < StepsLeft
<1>1. job \in Jobs /\ todo \subseteq Index
  BY DEF WatchTypeOK, CoreTypeOK
<1>2. Cardinality(todo) \in Nat
  BY <1>1, FS_Subset, FS_CardinalityType
<1>3. CASE Look
  <2>1. LinksLeft = 5 /\ LinksLeft' \in {0, 4}
    <3>1. job.step = "look" /\ job'.step \in {"disk", "none"}
      <4>1. job.step = "look"
        BY <1>3 DEF Look
      <4>2. CASE LinksFound(at[job.path])
        BY <1>1, <4>1, <4>2 DEF LinksFound, Jobs
      <4>3. CASE NoLinks(at[job.path])
        BY <4>1, <4>3 DEF NoLinks, NoJob
      <4>4. QED
        BY <1>3, <4>1, <4>2, <4>3 DEF Look
    <3>2. QED
      BY <3>1 DEF LinksLeft
  <2>2. todo' = todo /\ pc' = pc
    BY <1>3 DEF Look, coreVars
  <2>3. QED
    BY <1>2, <2>1, <2>2 DEF StepsLeft
<1>4. CASE DiskLink
  <2>1. job.step = "disk" /\ pc = "idle" /\ todo' = todo
    BY <1>4 DEF DiskLink, NoEntry, Spin, coreVars
  <2>2. \/ job'.step \in {"none", "volume"} /\ pc' = pc
        \/ job' = job /\ pc' = "spinning"
    BY <1>1, <1>4 DEF DiskLink, NoEntry, Spin, coreVars, NoJob, Jobs
  <2>3. LinksLeft = 4 /\ (job'.step \in {"none", "volume"} => LinksLeft' \in {0, 3})
    BY <2>1 DEF LinksLeft
  <2>4. job' = job => LinksLeft' = LinksLeft
    BY DEF LinksLeft
  <2>5. QED
    BY <1>2, <2>1, <2>2, <2>3, <2>4 DEF StepsLeft
<1>5. CASE VolumeLink
  <2>1. job.step = "volume" /\ pc = "idle" /\ LinksLeft = 3
    BY <1>5 DEF VolumeLink, LinksLeft
  <2>2. \/ job'.step = "none" /\ pc' = pc /\ todo' = todo
        \/ job' = job /\ pc' = "spinning" /\ todo' = todo
        \/ job'.step = "report" /\ pc' = "mount" /\ \E k : todo' = {k}
    <3>1. PICK o \in Answer(job.second) :
             \/ NoEntry(job.second, Resolve(job.second), o)
             \/ \E i \in ID :
                   LET e == Entry(i, job.second, Resolve(job.second), o) IN
                   Pass(i, e, o.info) \/ Adopt(i, e)
      BY <1>5 DEF VolumeLink
    <3>2. CASE NoEntry(job.second, Resolve(job.second), o)
      BY <3>2 DEF NoEntry, Spin, coreVars, NoJob
    <3>3. ASSUME NEW i, NEW e, Pass(i, e, o.info)
          PROVE  job'.step = "none" /\ pc' = pc /\ todo' = todo
      BY <3>3 DEF Pass, NoJob
    <3>4. ASSUME NEW i, NEW e, Adopt(i, e)
          PROVE  \/ job'.step = "none" /\ pc' = pc /\ todo' = todo
                 \/ job'.step = "report" /\ pc' = "mount" /\ \E k : todo' = {k}
      <4>1. CASE job' = NoJob /\ UNCHANGED <<pc, cur, todo>>
        BY <4>1 DEF NoJob
      <4>2. CASE job' = [job EXCEPT !.step = "report"] /\ StartMounting(i, {e.vol})
        BY <1>1, <4>2 DEF StartMounting, Jobs
      <4>3. QED
        BY <3>4, <4>1, <4>2 DEF Adopt
    <3>5. QED
      BY <3>1, <3>2, <3>3, <3>4
  <2>3. CASE job'.step = "none" /\ pc' = pc /\ todo' = todo
    BY <1>2, <2>1, <2>3 DEF StepsLeft, LinksLeft
  <2>4. CASE job' = job /\ pc' = "spinning" /\ todo' = todo
    BY <1>2, <2>1, <2>4 DEF StepsLeft, LinksLeft
  <2>5. CASE job'.step = "report" /\ pc' = "mount" /\ \E k : todo' = {k}
    <3>1. Cardinality(todo') = 1
      BY <2>5, FS_Singleton
    <3>2. LinksLeft' = 0
      BY <2>5 DEF LinksLeft
    <3>3. QED
      BY <1>2, <2>1, <2>5, <3>1, <3>2 DEF StepsLeft
  <2>6. QED
    BY <2>2, <2>3, <2>4, <2>5
<1>6. QED
  BY <1>3, <1>4, <1>5

LEMMA VolumeStepShrinks ==
    ASSUME WatchTypeOK, IsFiniteSet(Index), Report \/ Drop
    PROVE  StepsLeft' < StepsLeft
<1>1. todo \subseteq Index
  BY DEF WatchTypeOK, CoreTypeOK
<1>2. \/ \E k \in todo : (\E ok \in BOOLEAN : MountVolume(k, ok)) \/ DropVolume(k)
      \/ DropDevice
  BY DEF Report, Drop
<1>3. /\ pc \in {"mount", "drop"} /\ pc' \in {"idle", "mount", "drop"}
      /\ Cardinality(todo) \in Nat /\ Cardinality(todo)' \in Nat
      /\ Cardinality(todo)' + (IF pc' = "drop" THEN 1 ELSE 0)
           < Cardinality(todo) + (IF pc = "drop" THEN 1 ELSE 0)
  BY <1>1, <1>2, HandlerShrinks
<1>4. LinksLeft \in Nat /\ LinksLeft' \in Nat /\ LinksLeft' <= LinksLeft
  <2>1. job' = NoJob \/ job' = job
    BY DEF Report, Drop
  <2>2. NoJob.step = "none"
    BY DEF NoJob
  <2>3. QED
    BY <2>1, <2>2 DEF LinksLeft
<1>5. QED
  BY <1>3, <1>4 DEF StepsLeft

LEMMA WatchStepShrinks ==
    ASSUME IsFiniteSet(Link), IsFiniteSet(Stem), IsFiniteSet(Path),
           WatchTypeOK, Daemon
    PROVE  \/ PhasesLeft' < PhasesLeft
           \/ PhasesLeft' = PhasesLeft /\ EventsLeft' < EventsLeft
           \/ /\ PhasesLeft' = PhasesLeft /\ EventsLeft' = EventsLeft
              /\ StepsLeft' < StepsLeft
<1>1. scan \in SUBSET Path /\ FdTypeOK
  BY DEF WatchTypeOK
<1>2. Cardinality(scan) \in Nat /\ Len(pending) \in Nat /\ Len(batch) \in Nat
  BY <1>1, FS_Subset, FS_CardinalityType DEF FdTypeOK
<1>3. CASE SetUpWatch \/ OpenDirectory \/ EnterMainLoop
  <2>1. PhasesLeft' < PhasesLeft
    BY <1>3 DEF SetUpWatch, OpenDirectory, EnterMainLoop, PhasesLeft
  <2>2. QED
    BY <2>1
<1>4. CASE \E p \in Path : ScanEntry(p)
  <2>1. PICK p \in Path : ScanEntry(p)
    BY <1>4
  <2>2. /\ phase' = phase /\ pending' = pending /\ batch' = batch
        /\ p \in scan /\ scan' = scan \ {p}
    BY <2>1 DEF ScanEntry, eventVars
  <2>3. Cardinality(scan \ {p}) \in Nat /\ Cardinality(scan \ {p}) < Cardinality(scan)
    BY <1>1, <2>2, OneLess
  <2>4. PhasesLeft' = PhasesLeft
    BY <2>2 DEF PhasesLeft
  <2>5. EventsLeft' < EventsLeft
    BY <1>2, <2>2, <2>3 DEF EventsLeft
  <2>6. QED
    BY <2>4, <2>5
<1>5. CASE Read \/ Dispatch
  <2>1. phase = "running" /\ phase' \in {"running", "stopped"} /\ scan' = scan
    BY <1>5 DEF Read, Dispatch
  <2>2. PhasesLeft' = PhasesLeft
    BY <2>1 DEF PhasesLeft
  <2>3. EventsLeft' < EventsLeft
    BY <1>1, <1>2, <1>5, <2>1, EventsShrink DEF EventsLeft
  <2>4. QED
    BY <2>2, <2>3
<1>6. CASE Look \/ DiskLink \/ VolumeLink \/ Report \/ Drop
  <2>1. phase' = phase /\ pending' = pending /\ batch' = batch /\ scan' = scan
    BY <1>6 DEF Look, DiskLink, VolumeLink, Report, Drop, eventVars
  <2>2. PhasesLeft' = PhasesLeft /\ EventsLeft' = EventsLeft
    BY <2>1 DEF PhasesLeft, EventsLeft
  <2>3. StepsLeft' < StepsLeft
    BY <1>6, IndexFinite, LinkStepShrinks, VolumeStepShrinks
  <2>4. QED
    BY <2>2, <2>3
<1>7. QED
  BY <1>3, <1>4, <1>5, <1>6 DEF Daemon

\* With finitely many links, nodes and paths, no step of the daemon in watch
\* mode leaves as much to do as there was: left alone, it comes to rest.
THEOREM WatcherComesToRest ==
    ASSUME IsFiniteSet(Link), IsFiniteSet(Stem), IsFiniteSet(Path)
    PROVE  WatchSpec => WorkShrinks
<1>1. WatchInv /\ [WatchNext]_vars =>
        [Daemon => \/ PhasesLeft' < PhasesLeft
                   \/ PhasesLeft' = PhasesLeft /\ EventsLeft' < EventsLeft
                   \/ /\ PhasesLeft' = PhasesLeft /\ EventsLeft' = EventsLeft
                      /\ StepsLeft' < StepsLeft]_vars
  BY WatchStepShrinks DEF WatchInv
<1>2. QED
  BY <1>1, WatchInvariant, PTL DEF WatchSpec, WorkShrinks

=============================================================================
