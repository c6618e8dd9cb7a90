--------------------------- MODULE UdevInfo_proofs ---------------------------
(***************************************************************************)
(* A query of udev returns the best UUID of the last answer and the label  *)
(* and type that go with it, and fails for lack of them only, however many *)
(* lines udev prints, in any order, for any number of attempts.            *)
(***************************************************************************)
EXTENDS UdevInfo, FiniteSetTheorems, SequenceTheorems, TLAPS

----------------------------------------------------------------------------
(* Induction on the lines                                                  *)

\* Were some number missing, so would all numbers before it: subtracting one
\* would map the missing ones to fewer.
LEMMA SetInduction ==
    ASSUME NEW S, 0 \in S, \A n \in Nat : n \in S => n + 1 \in S
    PROVE  \A n \in Nat : n \in S
<1> SUFFICES ASSUME NEW m \in Nat, m \notin S PROVE FALSE
  OBVIOUS
<1> DEFINE U == {n \in 0..m : n \notin S}
           T == U \ {m}
           f == [n \in U |-> n - 1]
<1>1. \A n \in U : n \in Nat /\ n # 0 /\ n - 1 \in U /\ n - 1 # m
  <2> SUFFICES ASSUME NEW n \in U PROVE n \in Nat /\ n # 0 /\ n - 1 \in U /\ n - 1 # m
    OBVIOUS
  <2>1. n \in Nat /\ n <= m /\ n \notin S
    OBVIOUS
  <2>2. n # 0
    BY <2>1
  <2>3. n - 1 \in Nat /\ (n - 1) + 1 = n
    BY <2>1, <2>2
  <2>4. n - 1 \notin S
    BY <2>1, <2>3
  <2>5. QED
    BY <2>1, <2>2, <2>3, <2>4
<1>2. m \in U
  OBVIOUS
<1>3. IsFiniteSet(0..m)
  BY FS_Interval
<1>4. IsFiniteSet(U)
  BY <1>3, FS_Subset, U \in SUBSET (0..m)
<1> HIDE DEF U
<1>5. IsFiniteSet(T) /\ Cardinality(T) = Cardinality(U) - 1
  BY <1>2, <1>4, FS_RemoveElement
<1>6. Cardinality(U) \in Nat
  BY <1>4, FS_CardinalityType
<1>7. f \in [U -> T]
  BY <1>1
<1>8. Cardinality(T) < Cardinality(U)
  BY <1>5, <1>6
<1> HIDE DEF T
<1>9. \E x, y \in U : x # y /\ f[x] = f[y]
  <2> HIDE DEF f
  <2>1. QED
    BY <1>4, <1>5, <1>7, <1>8, FS_PigeonHole
<1>10. QED
  BY <1>1, <1>9

----------------------------------------------------------------------------
(* Reading one line after the other                                        *)

LEMMA Lines ==
    ASSUME NEW line \in Line
    PROVE  /\ line.key \in UUIDKeys \cup {"LABEL", "TYPE", "PATH"}
           /\ line.key \in UUIDKeys => line.value \in {None, "value"}
           /\ line.key \in {"LABEL", "TYPE"} => line.value = "value"
           /\ line.key = "PATH" => line.value \in {"usb", "other"}
BY DEF Line, UUIDKeys

LEMMA ReadUUIDType ==
    ASSUME NEW i \in Info, NEW line \in Line, line.key \in UUIDKeys
    PROVE  /\ ReadUUID(i, line) \in Info
           /\ ReadUUID(i, line).usb = i.usb
           /\ ReadUUID(i, line).label = i.label
           /\ ReadUUID(i, line).fstype = i.fstype
           /\ ReadUUID(i, line).uuid =
                 IF i.rank >= Rank(line.key) THEN i.uuid ELSE Value(line)
           /\ ReadUUID(i, line).rank =
                 IF i.rank >= Rank(line.key) \/ line.value = None
                 THEN i.rank ELSE Rank(line.key)
<1>1. Rank(line.key) \in 1..3 /\ Value(line) \in UUIDKeys \cup {None}
  BY DEF Rank, Value, UUIDKeys
<1> DEFINE r == IF line.value = None THEN i.rank ELSE Rank(line.key)
           j == [i EXCEPT !.uuid = Value(line), !.rank = r]
<1>2. ReadUUID(i, line) = IF i.rank >= Rank(line.key) THEN i ELSE j
  BY DEF ReadUUID
<1>3. r \in 0..3
  BY <1>1 DEF Info
<1> HIDE DEF r
<1>4. /\ j \in Info
      /\ j.uuid = Value(line) /\ j.rank = r
      /\ j.usb = i.usb /\ j.label = i.label /\ j.fstype = i.fstype
  BY <1>1, <1>3 DEF Info
<1> HIDE DEF j
<1>5. CASE i.rank >= Rank(line.key)
  BY <1>2, <1>5
<1>6. CASE ~(i.rank >= Rank(line.key))
  BY <1>2, <1>4, <1>6 DEF r
<1>7. QED
  BY <1>5, <1>6

LEMMA ReadLineType ==
    ASSUME NEW i \in Info, NEW line \in Line
    PROVE  ReadLine(i, line) \in Info
<1>1. CASE line.key \in UUIDKeys
  <2>1. ReadUUID(i, line) \in Info
    BY <1>1, ReadUUIDType
  <2>2. line.key # "PATH" /\ line.key # "LABEL" /\ line.key # "TYPE"
    BY <1>1 DEF UUIDKeys
  <2>3. QED
    BY <1>1, <2>1, <2>2 DEF ReadLine, ReadDeviceLine, ReadVolumeLine
<1>2. CASE line.key \notin UUIDKeys
  <2>1. line.key = "LABEL" \/ line.key = "TYPE" => Value(line) = line.key
    BY <1>2, Lines DEF Value, None
  <2>2. ReadVolumeLine(i, line) \in Info
    BY <1>2, <2>1 DEF ReadVolumeLine, Info
  <2>3. ReadDeviceLine(i, line) \in Info
    BY <1>2, Lines DEF ReadDeviceLine, Info
  <2>4. QED
    BY <2>2, <2>3 DEF ReadLine
<1>3. QED
  BY <1>1, <1>2

\* What is read up to the n-th line.
Reading(f, start, lines, n) ==
    /\ f \in [0..n -> Info]
    /\ f[0] = start
    /\ \A k \in 1..n : f[k] = ReadLine(f[k - 1], lines[k])

LEMMA ReadingExists ==
    ASSUME NEW start \in Info, NEW lines \in Seq(Line)
    PROVE  \E f : Reading(f, start, lines, Len(lines))
<1> DEFINE S == {n \in Nat : n <= Len(lines) => \E f : Reading(f, start, lines, n)}
<1>1. 0 \in S
  <2>1. Reading([k \in 0..0 |-> start], start, lines, 0)
    BY DEF Reading
  <2>2. QED
    BY <2>1
<1>2. ASSUME NEW n \in Nat, n \in S PROVE n + 1 \in S
  <2> SUFFICES ASSUME n + 1 <= Len(lines)
               PROVE  \E f : Reading(f, start, lines, n + 1)
    OBVIOUS
  <2>1. Len(lines) \in Nat /\ n <= Len(lines)
    OBVIOUS
  <2>2. PICK g : Reading(g, start, lines, n)
    BY <1>2, <2>1
  <2> DEFINE f == [k \in 0..(n + 1) |->
                      IF k = n + 1 THEN ReadLine(g[n], lines[n + 1]) ELSE g[k]]
  <2>3. g[n] \in Info /\ lines[n + 1] \in Line
    BY <2>1, <2>2 DEF Reading
  <2>4. ReadLine(g[n], lines[n + 1]) \in Info
    BY <2>3, ReadLineType
  <2>5. f \in [0..(n + 1) -> Info] /\ f[0] = start
    BY <2>2, <2>4 DEF Reading
  <2>6. ASSUME NEW k \in 1..(n + 1) PROVE f[k] = ReadLine(f[k - 1], lines[k])
    <3>1. k - 1 \in 0..n /\ k - 1 # n + 1 /\ k \in 0..(n + 1)
      OBVIOUS
    <3>2. f[k - 1] = g[k - 1]
      BY <3>1
    <3>3. CASE k = n + 1
      BY <3>1, <3>2, <3>3
    <3>4. CASE k # n + 1
      <4>1. k \in 1..n
        BY <3>4
      <4>2. f[k] = g[k] /\ g[k] = ReadLine(g[k - 1], lines[k])
        BY <2>2, <3>1, <3>4, <4>1 DEF Reading
      <4>3. QED
        BY <3>2, <4>2
    <3>5. QED
      BY <3>3, <3>4
  <2>7. QED
    BY <2>5, <2>6 DEF Reading
<1> HIDE DEF S
<1>3. \A n \in Nat : n \in S
  BY <1>1, <1>2, SetInduction
<1>4. QED
  BY <1>3 DEF S

\* The recursive function of ReadLines is the last of them.
LEMMA ReadLinesReads ==
    ASSUME NEW start \in Info, NEW lines \in Seq(Line)
    PROVE  \E f : /\ Reading(f, start, lines, Len(lines))
                  /\ ReadLines(start, lines) = NameUnnamed(f[Len(lines)])
<1> DEFINE Next(f) == [n \in 0..Len(lines) |->
                          IF n = 0 THEN start ELSE ReadLine(f[n - 1], lines[n])]
           after == CHOOSE f : f = Next(f)
<1>1. Len(lines) \in Nat
  OBVIOUS
<1>2. PICK g : Reading(g, start, lines, Len(lines))
  BY ReadingExists
<1>3. g = Next(g)
  <2>1. ASSUME NEW n \in 0..Len(lines) PROVE g[n] = Next(g)[n]
    BY <1>2 DEF Reading
  <2>2. g \in [0..Len(lines) -> Info]
    BY <1>2 DEF Reading
  <2> HIDE DEF Next
  <2>3. DOMAIN Next(g) = 0..Len(lines) /\ Next(g) = [n \in 0..Len(lines) |-> Next(g)[n]]
    BY DEF Next
  <2>4. QED
    BY <2>1, <2>2, <2>3
<1>4. after = Next(after)
  <2> HIDE DEF Next
  <2>1. QED
    BY <1>3
<1>5. ReadLines(start, lines) = NameUnnamed(after[Len(lines)])
  BY DEF ReadLines
<1> HIDE DEF after
<1>6. after[0] = start /\ \A n \in 1..Len(lines) : after[n] = ReadLine(after[n - 1], lines[n])
  <2>1. \A n \in 0..Len(lines) : after[n] = IF n = 0 THEN start ELSE ReadLine(after[n - 1], lines[n])
    BY <1>4
  <2>2. QED
    BY <1>1, <2>1
<1>7. DOMAIN after = 0..Len(lines) /\ after = [n \in 0..Len(lines) |-> after[n]]
  BY <1>4
<1> DEFINE S == {n \in Nat : n <= Len(lines) => after[n] \in Info}
<1>8. 0 \in S
  BY <1>6
<1>9. ASSUME NEW n \in Nat, n \in S PROVE n + 1 \in S
  <2> SUFFICES ASSUME n + 1 <= Len(lines) PROVE after[n + 1] \in Info
    OBVIOUS
  <2>1. after[n] \in Info /\ lines[n + 1] \in Line
    BY <1>1, <1>9
  <2>2. after[n + 1] = ReadLine(after[n], lines[n + 1])
    BY <1>1, <1>6
  <2>3. QED
    BY <2>1, <2>2, ReadLineType
<1> HIDE DEF S
<1>10. \A n \in Nat : n \in S
  BY <1>8, <1>9, SetInduction
<1>11. \A n \in 0..Len(lines) : after[n] \in Info
  BY <1>1, <1>10 DEF S
<1>12. Reading(after, start, lines, Len(lines))
  BY <1>6, <1>7, <1>11 DEF Reading
<1>13. QED
  BY <1>5, <1>12

----------------------------------------------------------------------------
(* What the lines read so far, in whatever order, make of the information  *)

\* Its rank is that of the best UUID read, and its UUID that one, unless an
\* empty one came after it.
BestOf(i, S) ==
    /\ i.rank = 0 => \A l \in S : l.key \in UUIDKeys => l.value = None
    /\ i.rank > 0 => \E l \in S :
          /\ l.key \in UUIDKeys /\ l.value # None
          /\ Rank(l.key) = i.rank /\ i.uuid \in {None, l.key}
    /\ i.rank > 0 => \A l \in S :
          l.key \in UUIDKeys /\ l.value # None => Rank(l.key) <= i.rank
    /\ i.rank > 0 /\ i.uuid = None => \E l \in S :
          l.key \in UUIDKeys /\ l.value = None

PathOf(i, S) ==
    /\ i.usb = "unknown" => \A l \in S : l.key # "PATH"
    /\ i.usb # "unknown" => \E l \in S : l.key = "PATH" /\ l.value = i.usb

TextsOf(i, start, S) ==
    /\ i.usb = "unknown"
    /\ i.label = IF \E l \in S : l.key = "LABEL" THEN "LABEL" ELSE start.label
    /\ i.fstype = IF \E l \in S : l.key = "TYPE" THEN "TYPE" ELSE start.fstype

SoFar(i, start, S) ==
    /\ i.usb # "other" => BestOf(i, S)
    /\ IF kind = "device" THEN PathOf(i, S) ELSE TextsOf(i, start, S)

LEMMA BestWithUUID ==
    ASSUME NEW i \in Info, NEW S, BestOf(i, S), NEW line \in Line,
           line.key \in UUIDKeys
    PROVE  BestOf(ReadUUID(i, line), S \cup {line})
<1> DEFINE j == ReadUUID(i, line)
           r == Rank(line.key)
<1>1. r \in 1..3 /\ Value(line) = (IF line.value = None THEN None ELSE line.key)
  BY DEF Rank, Value, UUIDKeys
<1>2. i.rank \in 0..3
  BY DEF Info
<1>3. /\ j.uuid = IF i.rank >= r THEN i.uuid ELSE Value(line)
      /\ j.rank = IF i.rank >= r \/ line.value = None THEN i.rank ELSE r
  BY ReadUUIDType
<1> HIDE DEF j, r
<1>4. CASE i.rank >= r
  <2>1. j.rank = i.rank /\ j.uuid = i.uuid /\ i.rank > 0 /\ r <= i.rank
    BY <1>1, <1>2, <1>3, <1>4
  <2>2. QED
    BY <2>1 DEF BestOf, j, r
<1>5. CASE ~(i.rank >= r) /\ line.value = None
  <2>1. j.rank = i.rank /\ j.uuid = None
    BY <1>1, <1>3, <1>5
  <2>2. QED
    BY <2>1, <1>5 DEF BestOf, j
<1>6. CASE ~(i.rank >= r) /\ line.value # None
  <2>1. j.rank = r /\ j.uuid = line.key /\ r > 0 /\ i.rank < r
    BY <1>1, <1>2, <1>3, <1>6
  <2>2. line.key # None
    BY DEF UUIDKeys, None
  <2>3. ASSUME NEW l \in S \cup {line}, l.key \in UUIDKeys, l.value # None
        PROVE  Rank(l.key) <= r
    <3>1. Rank(l.key) \in 1..3
      BY <2>3 DEF Rank, UUIDKeys
    <3>2. CASE l = line
      BY <1>1, <3>2 DEF r
    <3>3. CASE l \in S /\ i.rank = 0
      BY <2>3, <3>3 DEF BestOf
    <3>4. CASE l \in S /\ i.rank > 0
      <4>1. Rank(l.key) <= i.rank
        BY <2>3, <3>4 DEF BestOf
      <4>2. QED
        BY <1>1, <1>2, <2>1, <3>1, <4>1
    <3>5. QED
      BY <1>2, <2>3, <3>2, <3>3, <3>4
  <2>4. Rank(line.key) = j.rank /\ j.uuid \in {None, line.key} /\ line \in S \cup {line}
    BY <2>1 DEF r
  <2>5. ~(j.rank = 0) /\ ~(j.uuid = None)
    BY <2>1, <2>2
  <2>6. BestOf(j, S \cup {line})
    BY <1>6, <2>1, <2>3, <2>4, <2>5 DEF BestOf
  <2>7. QED
    BY <2>6 DEF j
<1>7. QED
  BY <1>4, <1>5, <1>6

\* Other lines do not concern it.
LEMMA BestWithOther ==
    ASSUME NEW i, NEW j, NEW S, BestOf(i, S), NEW line,
           line.key \notin UUIDKeys, j.uuid = i.uuid, j.rank = i.rank
    PROVE  BestOf(j, S \cup {line})
BY DEF BestOf

LEMMA SoFarOneMore ==
    ASSUME NEW i \in Info, NEW start, NEW S, SoFar(i, start, S), NEW line \in Line
    PROVE  SoFar(ReadLine(i, line), start, S \cup {line})
<1> DEFINE j == ReadLine(i, line)
           T == S \cup {line}
<1>1. CASE kind = "device" /\ i.usb = "other"
  <2>1. j = i
    BY <1>1 DEF ReadLine, ReadDeviceLine
  <2>2. PathOf(i, T)
    BY <1>1 DEF SoFar, PathOf
  <2>3. QED
    BY <1>1, <2>1, <2>2 DEF SoFar
<1>2. CASE kind = "device" /\ i.usb # "other" /\ line.key \in UUIDKeys
  <2>1. line.key # "PATH"
    BY <1>2 DEF UUIDKeys
  <2>2. j = ReadUUID(i, line)
    BY <1>2, <2>1 DEF ReadLine, ReadDeviceLine
  <2>3. j.usb = i.usb
    BY <1>2, <2>2, ReadUUIDType
  <2>4. BestOf(j, T)
    BY <1>2, <2>2, BestWithUUID DEF SoFar
  <2>5. PathOf(j, T)
    BY <1>2, <2>1, <2>3 DEF SoFar, PathOf
  <2>6. QED
    BY <1>2, <2>4, <2>5 DEF SoFar
<1>3. CASE kind = "device" /\ i.usb # "other" /\ line.key = "PATH"
  <2>1. j = [i EXCEPT !.usb = line.value]
    BY <1>3 DEF ReadLine, ReadDeviceLine, UUIDKeys
  <2>2. /\ j.usb = line.value /\ j.uuid = i.uuid /\ j.rank = i.rank
        /\ line.value \in {"usb", "other"}
    BY <1>3, <2>1, Lines DEF Info
  <2>3. line.key \notin UUIDKeys
    BY <1>3 DEF UUIDKeys
  <2>4. BestOf(i, S)
    BY <1>3 DEF SoFar
  <2>5. BestOf(j, T)
    BY <2>2, <2>3, <2>4, BestWithOther
  <2>6. PathOf(j, T)
    BY <1>3, <2>2 DEF PathOf
  <2>7. QED
    BY <1>3, <2>5, <2>6 DEF SoFar
<1>4. CASE kind = "device" /\ i.usb # "other" /\ line.key \notin UUIDKeys \cup {"PATH"}
  <2>1. j = i
    BY <1>4 DEF ReadLine, ReadDeviceLine
  <2>2. BestOf(i, S)
    BY <1>4 DEF SoFar
  <2>3. BestOf(j, T)
    BY <1>4, <2>1, <2>2, BestWithOther
  <2>4. PathOf(j, T)
    BY <1>4, <2>1 DEF SoFar, PathOf
  <2>5. QED
    BY <1>4, <2>3, <2>4 DEF SoFar
<1>5. CASE kind # "device"
  <2>1. i.usb = "unknown" /\ BestOf(i, S) /\ TextsOf(i, start, S)
    BY <1>5 DEF SoFar, TextsOf
  <2>2. j = ReadVolumeLine(i, line)
    BY <1>5 DEF ReadLine
  <2>3. CASE line.key \in UUIDKeys
    <3>1. line.key # "LABEL" /\ line.key # "TYPE"
      BY <2>3 DEF UUIDKeys
    <3>2. j = ReadUUID(i, line)
      BY <2>2, <2>3, <3>1 DEF ReadVolumeLine
    <3>3. j.usb = i.usb /\ j.label = i.label /\ j.fstype = i.fstype
      BY <2>3, <3>2, ReadUUIDType
    <3>4. BestOf(j, T)
      BY <2>1, <2>3, <3>2, BestWithUUID
    <3>5. TextsOf(j, start, T)
      BY <2>1, <3>1, <3>3 DEF TextsOf
    <3>6. QED
      BY <1>5, <3>4, <3>5 DEF SoFar
  <2>4. CASE line.key \notin UUIDKeys
    <3>1. /\ j.uuid = i.uuid /\ j.rank = i.rank /\ j.usb = i.usb
          /\ j.label = IF line.key = "LABEL" THEN "LABEL" ELSE i.label
          /\ j.fstype = IF line.key = "TYPE" THEN "TYPE" ELSE i.fstype
      <4>1. line.key \in {"LABEL", "TYPE"} => Value(line) = line.key
        BY Lines DEF Value, None
      <4>2. CASE line.key = "LABEL"
        BY <2>2, <2>4, <4>1, <4>2 DEF ReadVolumeLine, Info
      <4>3. CASE line.key = "TYPE"
        BY <2>2, <2>4, <4>1, <4>3 DEF ReadVolumeLine, Info
      <4>4. CASE line.key \notin {"LABEL", "TYPE"}
        BY <2>2, <2>4, <4>4 DEF ReadVolumeLine
      <4>5. QED
        BY <4>2, <4>3, <4>4
    <3>2. BestOf(j, T)
      BY <2>1, <2>4, <3>1, BestWithOther
    <3>3. TextsOf(j, start, T)
      BY <2>1, <3>1 DEF TextsOf
    <3>4. QED
      BY <1>5, <3>2, <3>3 DEF SoFar
  <2>5. QED
    BY <2>3, <2>4
<1>6. QED
  BY <1>1, <1>2, <1>3, <1>4, <1>5

\* By induction on the lines.
LEMMA ReadSoFar ==
    ASSUME NEW start \in Info, start.rank = 0, start.usb = "unknown",
           NEW lines \in Seq(Line)
    PROVE  \E i \in Info : /\ SoFar(i, start, LinesOf(lines))
                           /\ ReadLines(start, lines) = NameUnnamed(i)
<1>1. Len(lines) \in Nat /\ \A n \in 1..Len(lines) : lines[n] \in Line
  OBVIOUS
<1>2. PICK f : /\ Reading(f, start, lines, Len(lines))
               /\ ReadLines(start, lines) = NameUnnamed(f[Len(lines)])
  BY ReadLinesReads
<1> DEFINE Upto(n) == {lines[k] : k \in 1..n}
           S == {n \in Nat : n <= Len(lines) => SoFar(f[n], start, Upto(n))}
<1>3. 0 \in S
  <2>1. f[0] = start /\ Upto(0) = {}
    BY <1>2 DEF Reading
  <2>2. SoFar(start, start, {})
    BY DEF SoFar, BestOf, PathOf, TextsOf
  <2> HIDE DEF Upto
  <2>3. QED
    BY <2>1, <2>2
<1>4. ASSUME NEW n \in Nat, n \in S PROVE n + 1 \in S
  <2> SUFFICES ASSUME n + 1 <= Len(lines)
               PROVE  SoFar(f[n + 1], start, Upto(n + 1))
    OBVIOUS
  <2>1. Upto(n + 1) = Upto(n) \cup {lines[n + 1]}
    OBVIOUS
  <2>2. SoFar(f[n], start, Upto(n))
    BY <1>1, <1>4
  <2>3. f[n] \in Info /\ lines[n + 1] \in Line
    BY <1>1, <1>2 DEF Reading
  <2>4. f[n + 1] = ReadLine(f[n], lines[n + 1])
    BY <1>1, <1>2 DEF Reading
  <2> HIDE DEF Upto
  <2>5. QED
    BY <2>1, <2>2, <2>3, <2>4, SoFarOneMore
<1> HIDE DEF S
<1>5. \A n \in Nat : n \in S
  BY <1>3, <1>4, SetInduction
<1>6. SoFar(f[Len(lines)], start, LinesOf(lines))
  <2>1. Len(lines) \in S
    BY <1>1, <1>5
  <2>2. Upto(Len(lines)) = LinesOf(lines)
    BY DEF LinesOf
  <2> HIDE DEF Upto
  <2>3. SoFar(f[Len(lines)], start, Upto(Len(lines)))
    BY <1>1, <2>1 DEF S
  <2>4. QED
    BY <2>2, <2>3
<1>7. f[Len(lines)] \in Info
  BY <1>1, <1>2 DEF Reading
<1>8. QED
  BY <1>2, <1>6, <1>7
----------------------------------------------------------------------------
(* What an attempt returns                                                 *)

LEMMA Named ==
    ASSUME NEW i \in Info
    PROVE  LET j == NameUnnamed(i) IN
           /\ j \in Info
           /\ j.usb = i.usb /\ j.label = i.label /\ j.fstype = i.fstype
           /\ j.uuid = IF i.usb # "other" /\ (i.rank = 0 \/ (i.rank = 1 /\ kind = "partition"))
                       THEN MadeUp ELSE i.uuid
BY DEF NameUnnamed, Info

Valued(S, key) == \E l \in S : l.key = key /\ l.value # None

LEMMA Ranks ==
    ASSUME NEW key \in UUIDKeys
    PROVE  /\ Rank(key) \in 1..3
           /\ Rank(key) = 1 <=> key = "TABLE"
           /\ Rank(key) = 2 <=> key = "ENTRY"
           /\ Rank(key) = 3 <=> key = "FS"
BY DEF Rank, UUIDKeys

\* A UUID that is there and not made up is the best of those udev printed.
LEMMA BestFound ==
    ASSUME NEW i \in Info, NEW S, BestOf(i, S), i.usb # "other",
           NameUnnamed(i).uuid # None
    PROVE  NameUnnamed(i).uuid =
              CASE Valued(S, "FS") -> "FS"
                [] ~Valued(S, "FS") /\ Valued(S, "ENTRY") -> "ENTRY"
                [] ~Valued(S, "FS") /\ ~Valued(S, "ENTRY") /\ Valued(S, "TABLE")
                      /\ kind # "partition" -> "TABLE"
                [] OTHER -> MadeUp
<1> DEFINE u == NameUnnamed(i).uuid
<1>1. i.rank \in 0..3
  BY DEF Info
<1>2. u = IF i.rank = 0 \/ (i.rank = 1 /\ kind = "partition") THEN MadeUp ELSE i.uuid
  BY Named
<1> HIDE DEF u
<1>3. {"FS", "ENTRY", "TABLE"} = UUIDKeys
  BY DEF UUIDKeys
<1>4. Rank("FS") = 3 /\ Rank("ENTRY") = 2 /\ Rank("TABLE") = 1
  BY DEF Rank
<1>5. CASE i.rank = 0
  <2>1. ~Valued(S, "FS") /\ ~Valued(S, "ENTRY") /\ ~Valued(S, "TABLE")
    BY <1>3, <1>5 DEF BestOf, Valued
  <2>2. u = MadeUp
    BY <1>2, <1>5
  <2>3. QED
    BY <2>1, <2>2 DEF u
<1>6. CASE i.rank > 0
  <2>1. PICK l \in S :
          /\ l.key \in UUIDKeys /\ l.value # None
          /\ Rank(l.key) = i.rank /\ i.uuid \in {None, l.key}
    BY <1>6 DEF BestOf
  <2>2. Valued(S, l.key)
    BY <2>1 DEF Valued
  <2>3. ASSUME NEW key \in UUIDKeys, Valued(S, key)
        PROVE  Rank(key) <= i.rank
    BY <1>6, <2>3 DEF BestOf, Valued
  <2>4. CASE i.rank = 3
    <3>1. l.key = "FS"
      BY <2>1, <2>4, Ranks
    <3>2. u = "FS"
      BY <1>2, <2>1, <2>4, <3>1, NameUnnamed(i).uuid # None DEF u
    <3>3. QED
      BY <2>2, <3>1, <3>2 DEF u
  <2>5. CASE i.rank = 2
    <3>1. l.key = "ENTRY"
      BY <2>1, <2>5, Ranks
    <3>2. u = "ENTRY"
      BY <1>2, <2>1, <2>5, <3>1, NameUnnamed(i).uuid # None DEF u
    <3>3. ~Valued(S, "FS")
      BY <1>3, <1>4, <2>3, <2>5
    <3>4. QED
      BY <2>2, <3>1, <3>2, <3>3 DEF u
  <2>6. CASE i.rank = 1
    <3>1. l.key = "TABLE"
      BY <2>1, <2>6, Ranks
    <3>2. ~Valued(S, "FS") /\ ~Valued(S, "ENTRY")
      BY <1>3, <1>4, <2>3, <2>6
    <3>3. CASE kind = "partition"
      <4>1. u = MadeUp
        BY <1>2, <2>6, <3>3
      <4>2. QED
        BY <3>2, <3>3, <4>1 DEF u
    <3>4. CASE kind # "partition"
      <4>1. u = "TABLE"
        BY <1>2, <2>1, <2>6, <3>1, <3>4, NameUnnamed(i).uuid # None DEF u
      <4>2. QED
        BY <2>2, <3>1, <3>2, <3>4, <4>1 DEF u
    <3>5. QED
      BY <3>3, <3>4
  <2>7. QED
    BY <1>1, <1>6, <2>4, <2>5, <2>6
<1>7. QED
  BY <1>1, <1>5, <1>6

\* One is missing only if an empty one was printed.
LEMMA MissingIsEmpty ==
    ASSUME NEW i \in Info, NEW S, BestOf(i, S), i.usb # "other",
           NameUnnamed(i).uuid = None
    PROVE  \E l \in S : l.key \in UUIDKeys /\ l.value = None
<1>1. i.rank \in 0..3 /\ MadeUp # None
  BY DEF Info, MadeUp, None
<1>2. i.rank # 0 /\ i.uuid = None
  BY <1>1, Named
<1>3. QED
  BY <1>1, <1>2 DEF BestOf

Beginning == [info EXCEPT !.rank = 0]

LEMMA Parsed ==
    ASSUME QueryInv, answer = "none"
    PROVE  /\ db \in Seq(Line)
           /\ Beginning \in Info
           /\ Beginning.label = info.label /\ Beginning.fstype = info.fstype
           /\ \E i \in Info : /\ SoFar(i, Beginning, LinesOf(db))
                              /\ Parse(db) = NameUnnamed(i)
<1>1. db \in Seq(Line) /\ info \in Info
  BY DEF QueryInv, QueryTypeOK
<1>2. info.usb = "unknown"
  BY DEF QueryInv, Unparsed
<1>3. /\ Beginning \in Info /\ Beginning.rank = 0 /\ Beginning.usb = "unknown"
      /\ Beginning.label = info.label /\ Beginning.fstype = info.fstype
  BY <1>1, <1>2 DEF Beginning, Info
<1>4. Parse(db) = ReadLines(Beginning, db)
  BY DEF Parse, Beginning
<1> HIDE DEF Beginning
<1>5. QED
  BY <1>1, <1>3, <1>4, ReadSoFar

----------------------------------------------------------------------------
(* The invariant                                                           *)

\* The properties speak of an answer, so that they hold while there is none.
Asking == BestUUID /\ FailsForReason /\ OneVolume

LEMMA NotAnswered == answer = "none" => Asking
BY DEF Asking, BestUUID, FailsForReason, OneVolume

LEMMA QueryStart == QueryInit => QueryInv
<1> SUFFICES ASSUME QueryInit PROVE QueryInv
  OBVIOUS
<1>1. Unparsed \in Info
  BY DEF Unparsed, Info, None
<1>2. db \in Seq(Line) /\ Len(db) = 0
  BY DEF QueryInit
<1>3. LineMax \in Nat /\ TryMax \in Nat \ {0}
  BY QueryAssumption
<1>4. QueryTypeOK
  <2>1. /\ Len(db) <= LineMax /\ seen \in SUBSET Line /\ tries \in 0..TryMax
    BY <1>2, <1>3 DEF QueryInit
  <2>2. rewritten \in BOOLEAN
    BY DEF QueryInit
  <2>3. QED
    BY <1>1, <1>2, <2>1, <2>2 DEF QueryInit, QueryTypeOK
<1>5. Asking
  BY NotAnswered DEF QueryInit
<1>6. info.usb = "unknown" /\ info.label = None
  BY DEF QueryInit, Unparsed
<1>7. QED
  BY <1>2, <1>3, <1>4, <1>5, <1>6 DEF QueryInit, QueryInv, Asking

\* A line put in among others.
LEMMA Inserted ==
    ASSUME NEW s \in Seq(Line), NEW line \in Line, NEW n \in 1..(Len(s) + 1)
    PROVE  LET t == InsertAt(s, n, line) IN
           /\ t \in Seq(Line) /\ Len(t) = Len(s) + 1
           /\ \A k \in 1..Len(t) : t[k] = IF k < n THEN s[k]
                                          ELSE IF k = n THEN line ELSE s[k - 1]
<1> DEFINE a == SubSeq(s, 1, n - 1)
           b == SubSeq(s, n, Len(s))
           t == (a \o <<line>>) \o b
<1>1. Len(s) \in Nat /\ n \in Int /\ 1 <= n /\ n <= Len(s) + 1
  OBVIOUS
<1>2. a \in Seq(Line) /\ Len(a) = n - 1 /\ \A k \in 1..(n - 1) : a[k] = s[k]
  BY <1>1
<1>3. b \in Seq(Line) /\ Len(b) = Len(s) - n + 1
      /\ \A k \in 1..(Len(s) - n + 1) : b[k] = s[n + k - 1]
  BY <1>1
<1>4. <<line>> \in Seq(Line) /\ Len(<<line>>) = 1 /\ <<line>>[1] = line
  OBVIOUS
<1> DEFINE c == a \o <<line>>
<1> HIDE DEF a, b
<1>5. /\ c \in Seq(Line) /\ Len(c) = n
      /\ \A k \in 1..n : c[k] = IF k < n THEN s[k] ELSE line
  BY <1>1, <1>2, <1>4
<1> HIDE DEF c
<1>6. /\ c \o b \in Seq(Line) /\ Len(c \o b) = Len(s) + 1
      /\ \A k \in 1..(Len(s) + 1) :
            (c \o b)[k] = IF k <= n THEN c[k] ELSE b[k - n]
  <2>1. c \o b \in Seq(Line) /\ Len(c \o b) = Len(c) + Len(b)
    BY <1>3, <1>5, ConcatProperties
  <2>2. Len(c \o b) = Len(s) + 1
    BY <1>1, <1>3, <1>5, <2>1
  <2>3. \A k \in 1..(Len(c) + Len(b)) :
           (c \o b)[k] = IF k <= Len(c) THEN c[k] ELSE b[k - Len(c)]
    BY <1>3, <1>5, ConcatProperties
  <2>4. Len(c) + Len(b) = Len(s) + 1 /\ Len(c) = n
    BY <1>1, <1>3, <1>5
  <2>5. QED
    BY <2>1, <2>2, <2>3, <2>4
<1> DEFINE d == c \o b
<1> HIDE DEF d
<1>7. \A k \in 1..(Len(s) + 1) : d[k] = IF k < n THEN s[k]
                                        ELSE IF k = n THEN line ELSE s[k - 1]
  BY <1>1, <1>3, <1>5, <1>6 DEF d
<1>8. InsertAt(s, n, line) = d
  BY DEF InsertAt, a, b, c, d
<1>9. QED
  BY <1>6, <1>7, <1>8 DEF d

LEMMA LearnKeeps ==
    ASSUME QueryInv, NEW line \in Line, NEW n \in 1..(Len(db) + 1), Learn(line, n)
    PROVE  QueryInv'
<1>1. db \in Seq(Line) /\ Len(db) \in Nat /\ LineMax \in Nat
  BY QueryAssumption DEF QueryInv, QueryTypeOK
<1>2. /\ db' \in Seq(Line) /\ Len(db') = Len(db) + 1
      /\ \A k \in 1..Len(db') : db'[k] = IF k < n THEN db[k]
                                         ELSE IF k = n THEN line ELSE db[k - 1]
  BY <1>1, Inserted DEF Learn
<1>3. answer = "none" /\ answer' = answer /\ Len(db) < LineMax
      /\ UNCHANGED <<kind, rewritten, seen, info, tries>>
  BY DEF Learn
<1>4. \A k \in 1..Len(db) : db[k].key # line.key
  BY DEF Learn, LinesOf
<1>5. QueryTypeOK'
  <2>1. QueryTypeOK
    BY DEF QueryInv
  <2>2. Len(db') <= LineMax
    BY <1>1, <1>2, <1>3
  <2>3. QED
    BY <1>2, <1>3, <2>1, <2>2 DEF QueryTypeOK, Info
<1>6. ASSUME NEW k \in 1..Len(db'), NEW m \in 1..Len(db'), db'[k].key = db'[m].key
      PROVE  k = m
  <2>1. \A x, y \in 1..Len(db) : db[x].key = db[y].key => x = y
    BY DEF QueryInv
  <2> DEFINE Old(x) == IF x < n THEN x ELSE x - 1
  <2>2. ASSUME NEW x \in 1..Len(db'), x # n
        PROVE  Old(x) \in 1..Len(db) /\ db'[x] = db[Old(x)]
    BY <1>1, <1>2, <2>2
  <2>3. CASE k = n /\ m = n
    BY <2>3
  <2>4. CASE k = n /\ m # n
    <3>1. db'[k] = line
      BY <1>1, <1>2, <2>4
    <3> HIDE DEF Old
    <3>2. QED
      BY <1>4, <1>6, <2>2, <2>4, <3>1
  <2>5. CASE k # n /\ m = n
    <3>1. db'[m] = line
      BY <1>1, <1>2, <2>5
    <3> HIDE DEF Old
    <3>2. QED
      BY <1>4, <1>6, <2>2, <2>5, <3>1
  <2>6. CASE k # n /\ m # n
    <3>1. Old(k) = Old(m)
      <4> HIDE DEF Old
      <4>1. QED
        BY <1>6, <2>1, <2>2, <2>6
    <3>2. QED
      BY <1>1, <2>6, <3>1
  <2>7. QED
    BY <2>3, <2>4, <2>5, <2>6
<1>7. LinesOf(db) \subseteq LinesOf(db')
  <2> SUFFICES ASSUME NEW k \in 1..Len(db) PROVE \E m \in 1..Len(db') : db'[m] = db[k]
    BY DEF LinesOf
  <2>1. CASE k < n
    BY <1>1, <1>2, <2>1
  <2>2. CASE ~(k < n)
    <3>1. k + 1 \in 1..Len(db') /\ db'[k + 1] = db[k]
      BY <1>1, <1>2, <2>2
    <3>2. QED
      BY <3>1
  <2>3. QED
    BY <2>1, <2>2
<1>8. Asking'
  BY <1>3, NotAnswered DEF Asking, BestUUID, FailsForReason, OneVolume
<1>9. kind # "device" /\ info.label # None /\ ~rewritten =>
         \E l \in LinesOf(db') : l.key = "LABEL"
  BY <1>7 DEF QueryInv
<1>10. QED
  BY <1>3, <1>5, <1>6, <1>8, <1>9 DEF QueryInv, Asking

LEMMA ForgetKeeps ==
    ASSUME QueryInv, Forget
    PROVE  QueryInv'
<1>1. /\ answer = "none" /\ answer' = answer /\ db' = <<>> /\ rewritten' = TRUE
      /\ UNCHANGED <<kind, seen, info, tries>>
  BY DEF Forget
<1>2. db' \in Seq(Line) /\ Len(db') = 0 /\ LineMax \in Nat
  BY <1>1, QueryAssumption
<1>3. QueryTypeOK'
  <2>1. QueryTypeOK
    BY DEF QueryInv
  <2>2. rewritten' \in BOOLEAN
    BY <1>1
  <2>3. QED
    BY <1>1, <1>2, <2>1, <2>2 DEF QueryTypeOK, Info
<1>4. Asking'
  BY <1>1, NotAnswered DEF Asking, BestUUID, FailsForReason, OneVolume
<1>5. QED
  BY <1>1, <1>2, <1>3, <1>4 DEF QueryInv, Asking

\* An attempt of a query; j is what it makes of the lines.
LEMMA AskKeeps ==
    ASSUME QueryInv, Ask
    PROVE  QueryInv'
<1> DEFINE S == LinesOf(db)
<1>1. /\ answer = "none" /\ seen' = S /\ info' = Parse(db) /\ tries' = tries + 1
      /\ UNCHANGED <<kind, db, rewritten>>
      /\ answer' = CASE Complete(info') -> "yes"
                     [] ~Complete(info') /\ (kind = "device" \/ tries' = TryMax) -> "no"
                     [] OTHER -> "none"
  BY DEF Ask
<1>2. PICK i \in Info : SoFar(i, Beginning, S) /\ info' = NameUnnamed(i)
  BY <1>1, Parsed
<1>3. /\ info' \in Info /\ info'.usb = i.usb
      /\ info'.label = i.label /\ info'.fstype = i.fstype
  BY <1>2, Named
<1>4. /\ Beginning.label = info.label /\ Beginning.fstype = info.fstype
      /\ db \in Seq(Line)
  BY <1>1, Parsed
<1>5. tries \in Nat /\ tries < TryMax /\ TryMax \in Nat /\ LineMax \in Nat
  BY <1>1, QueryAssumption DEF QueryInv, QueryTypeOK
<1>6. QueryTypeOK'
  <2>1. S \in SUBSET Line
    BY <1>4 DEF LinesOf
  <2>2. answer' \in {"none", "yes", "no"}
    BY <1>1
  <2>3. tries' \in 0..TryMax
    BY <1>1, <1>5
  <2>4. QueryTypeOK
    BY DEF QueryInv
  <2>5. QED
    BY <1>1, <1>3, <2>1, <2>2, <2>3, <2>4 DEF QueryTypeOK, Info
<1>7. /\ answer' = "yes" => Complete(info')
      /\ answer' = "no" => ~Complete(info') /\ (kind = "device" \/ tries' = TryMax)
      /\ answer' = "none" => ~(kind = "device" \/ tries' = TryMax)
  BY <1>1
<1>8. kind # "device" => i.usb = "unknown"
  BY <1>2 DEF SoFar, TextsOf
<1>9. i.usb # "other" => BestOf(i, S)
  BY <1>2 DEF SoFar
<1>10. BestUUID'
  <2> SUFFICES ASSUME answer' = "yes"
               PROVE  info'.uuid =
                        CASE Valued(S, "FS") -> "FS"
                          [] ~Valued(S, "FS") /\ Valued(S, "ENTRY") -> "ENTRY"
                          [] ~Valued(S, "FS") /\ ~Valued(S, "ENTRY")
                                /\ Valued(S, "TABLE") /\ kind # "partition" -> "TABLE"
                          [] OTHER -> MadeUp
    <3>1. Has("FS")' = Valued(S, "FS") /\ Has("ENTRY")' = Valued(S, "ENTRY")
          /\ Has("TABLE")' = Valued(S, "TABLE")
      BY <1>1 DEF Has, Present, Valued
    <3>2. QED
      BY <1>1, <3>1 DEF BestUUID
  <2>1. Complete(info')
    BY <1>7
  <2>2. i.usb # "other" /\ info'.uuid # None
    BY <1>3, <1>8, <2>1 DEF Complete
  <2>3. QED
    BY <1>2, <1>9, <2>2, BestFound
<1>11. FailsForReason'
  <2> SUFFICES ASSUME answer' = "no"
               PROVE  \/ kind = "device" /\ [key |-> "PATH", value |-> "usb"] \notin Present'
                      \/ kind # "device" /\ tries' = TryMax /\ ~Has("TYPE")'
                      \/ (kind # "device" => tries' = TryMax)
                            /\ \E line \in seen' \ Present' : line.key \in UUIDKeys
    BY <1>1 DEF FailsForReason
  <2>1. ~Complete(info') /\ (kind # "device" => tries' = TryMax)
    BY <1>7
  <2>2. Present' = {l \in S : l.value # None}
    BY <1>1 DEF Present
  <2>3. CASE kind = "device" /\ i.usb # "usb"
    <3> SUFFICES ASSUME [key |-> "PATH", value |-> "usb"] \in S PROVE FALSE
      BY <2>2, <2>3
    <3>1. PathOf(i, S)
      BY <1>2, <2>3 DEF SoFar
    <3>2. i.usb # "unknown"
      BY <3>1 DEF PathOf
    <3>3. PICK l \in S : l.key = "PATH" /\ l.value = i.usb
      BY <3>1, <3>2 DEF PathOf
    <3>4. \A x, y \in S : x.key = y.key => x = y
      BY DEF QueryInv, LinesOf
    <3>5. l = [key |-> "PATH", value |-> "usb"]
      BY <3>3, <3>4
    <3>6. QED
      BY <2>3, <3>3, <3>5
  <2>4. CASE kind # "device" /\ i.fstype = None
    <3>1. ~\E l \in S : l.key = "TYPE"
      BY <1>2, <2>4 DEF SoFar, TextsOf, None
    <3>2. ~Has("TYPE")'
      BY <2>2, <3>1 DEF Has
    <3>3. QED
      BY <2>1, <2>4, <3>2
  <2>5. CASE /\ ~(kind = "device" /\ i.usb # "usb")
             /\ ~(kind # "device" /\ i.fstype = None)
    <3>1. info'.uuid = None /\ i.usb # "other"
      BY <1>3, <1>8, <2>1, <2>5 DEF Complete
    <3>2. \E l \in S : l.key \in UUIDKeys /\ l.value = None
      BY <1>2, <1>9, <3>1, MissingIsEmpty
    <3>3. \E line \in seen' \ Present' : line.key \in UUIDKeys
      BY <1>1, <2>2, <3>2
    <3>4. QED
      BY <2>1, <3>3
  <2>6. QED
    BY <2>3, <2>4, <2>5
<1>12. kind # "device" /\ ~rewritten =>
          (i.label # None <=> \E l \in S : l.key = "LABEL")
  <2> SUFFICES ASSUME kind # "device", ~rewritten
               PROVE  i.label # None <=> \E l \in S : l.key = "LABEL"
    OBVIOUS
  <2>1. i.label = IF \E l \in S : l.key = "LABEL" THEN "LABEL" ELSE info.label
    BY <1>2, <1>4 DEF SoFar, TextsOf
  <2>2. info.label # None => \E l \in S : l.key = "LABEL"
    BY DEF QueryInv
  <2>3. QED
    BY <2>1, <2>2 DEF None
<1>13. \A l \in S : l.key = "LABEL" => l.value # None
  <2>1. S \subseteq Line
    BY <1>4 DEF LinesOf
  <2>2. QED
    BY <2>1, Lines DEF None
<1>14. OneVolume'
  <2> SUFFICES ASSUME answer' = "yes", kind # "device", ~rewritten
               PROVE  info'.fstype # None /\ (info'.label # None <=> Has("LABEL")')
    BY <1>1 DEF OneVolume
  <2>1. info'.fstype # None
    BY <1>7 DEF Complete
  <2>2. Has("LABEL")' <=> \E l \in S : l.key = "LABEL"
    BY <1>1, <1>13 DEF Has, Present
  <2>3. QED
    BY <1>3, <1>12, <2>1, <2>2
<1>15. kind # "device" /\ info'.label # None /\ ~rewritten =>
          \E l \in S : l.key = "LABEL"
  BY <1>3, <1>12
<1>16. QED
  <2>1. answer' = "none" => tries' < TryMax /\ kind # "device"
    BY <1>1, <1>5, <1>7
  <2>2. kind # "device" => info'.usb = "unknown"
    BY <1>3, <1>8
  <2>3. QED
    BY <1>1, <1>6, <1>10, <1>11, <1>14, <1>15, <2>1, <2>2 DEF QueryInv

LEMMA QueryStep ==
    ASSUME QueryInv, [QueryNext]_vars
    PROVE  QueryInv'
<1>1. ASSUME NEW line \in Line, NEW n \in 1..(Len(db) + 1), Learn(line, n)
      PROVE  QueryInv'
  BY <1>1, LearnKeeps
<1>2. CASE Forget
  BY <1>2, ForgetKeeps
<1>3. CASE Ask
  BY <1>3, AskKeeps
<1>4. CASE UNCHANGED vars
  BY <1>4 DEF vars, QueryInv, QueryTypeOK, Info, LinesOf, BestUUID, FailsForReason,
              OneVolume, Has, Present
<1>5. QED
  BY <1>1, <1>2, <1>3, <1>4 DEF QueryNext

----------------------------------------------------------------------------
(* The theorems                                                            *)

\* What the properties rest on holds in every reachable state, for any number
\* of lines and attempts.
THEOREM QueryInvariant == QuerySpec => []QueryInv
<1>1. QueryInv /\ [QueryNext]_vars => QueryInv'
  BY QueryStep
<1>2. QED
  BY <1>1, QueryStart, PTL DEF QuerySpec

\* Type correctness of a query: the attempts are counted, and what is parsed of
\* any lines is a DeviceInfo or VolumeInfo.
COROLLARY QueryTypesAreRight == QuerySpec => []QueryTypeOK
<1>1. QueryInv => QueryTypeOK
  BY DEF QueryInv
<1>2. QED
  BY <1>1, QueryInvariant, PTL

\* A query that succeeds returns the best UUID udev printed in the last attempt,
\* wherever it stood and whatever was read before, and a made-up one if there
\* is none that tells the device from others.
COROLLARY BestIsChosen == QuerySpec => []BestUUID
<1>1. QueryInv => BestUUID
  BY DEF QueryInv
<1>2. QED
  BY <1>1, QueryInvariant, PTL

\* A query fails only for a type or path that udev did not print in the last
\* attempt, or for an empty UUID that it did.
COROLLARY FailuresAreJustified == QuerySpec => []FailsForReason
<1>1. QueryInv => FailsForReason
  BY DEF QueryInv
<1>2. QED
  BY <1>1, QueryInvariant, PTL

\* Label and type come from the last answer, unless udev started over.
COROLLARY VolumesAreNotMixed == QuerySpec => []OneVolume
<1>1. QueryInv => OneVolume
  BY DEF QueryInv
<1>2. QED
  BY <1>1, QueryInvariant, PTL
=============================================================================
