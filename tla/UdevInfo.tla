------------------------------ MODULE UdevInfo ------------------------------
(***************************************************************************)
(* What the device manager asks udev: the lines "udevadm info" prints of a *)
(* device, how they are parsed, and the second and third attempt for a     *)
(* volume udev does not know enough of yet.                                *)
(*                                                                         *)
(* udev writes its database while it is asked, and prints the properties   *)
(* in no particular order.                                                 *)
(***************************************************************************)
EXTENDS Integers, SequencesExt

CONSTANTS
    LineMax,    \* bound on the number of lines
    TryMax      \* maximum_retries, 3 in the code

ASSUME QueryAssumption == LineMax \in Nat /\ TryMax \in Nat \ {0}

VARIABLES
    kind,       \* what is asked for
    db,         \* what udev would print now
    rewritten,  \* whether udev started over in between
    seen,       \* the lines it printed last
    info,       \* the DeviceInfo or VolumeInfo under construction
    tries,      \* attempts so far
    answer      \* what the query returned

vars == <<kind, db, rewritten, seen, info, tries, answer>>

\* UUIDs from worst to best: of a partition table, of an entry in it, of a
\* file system.
UUIDKeys == {"TABLE", "ENTRY", "FS"}
Rank(key) == CASE key = "TABLE" -> 1 [] key = "ENTRY" -> 2 [] key = "FS" -> 3

\* A line is the path of the device, USB or not, or a property, a UUID perhaps
\* without a value; lines the query passes over are left out.  A value is given
\* by what it is the value of.
None == ""
MadeUp == "DO-NOT-STORE"
Line == [key : UUIDKeys, value : {None, "value"}]
        \cup [key : {"LABEL", "TYPE"}, value : {"value"}]
        \cup [key : {"PATH"}, value : {"usb", "other"}]
Asked == IF kind = "device" THEN UUIDKeys \cup {"PATH"}
                            ELSE UUIDKeys \cup {"LABEL", "TYPE"}

Value(line) == IF line.value = None THEN None ELSE line.key

LinesOf(s) == {s[n] : n \in 1..Len(s)}

Unparsed == [uuid |-> None, rank |-> 0, label |-> None, fstype |-> None,
             usb |-> "unknown"]
Info == [uuid : UUIDKeys \cup {None, MadeUp}, rank : 0..3,
         label : {None, "LABEL"}, fstype : {None, "TYPE"},
         usb : {"unknown", "usb", "other"}]

QueryTypeOK ==
    /\ kind \in {"device", "disk", "partition"}
    /\ db \in Seq(Line) /\ Len(db) <= LineMax /\ seen \in SUBSET Line
    /\ rewritten \in BOOLEAN
    /\ info \in Info /\ tries \in 0..TryMax
    /\ answer \in {"none", "yes", "no"}

QueryInit ==
    /\ kind \in {"device", "disk", "partition"}
    /\ db = <<>> /\ seen = {} /\ rewritten = FALSE
    /\ info = Unparsed /\ tries = 0 /\ answer = "none"

----------------------------------------------------------------------------
(* udev *)

\* One more line, anywhere among the others.
Learn(line, n) ==
    /\ answer = "none" /\ Len(db) < LineMax
    /\ \A other \in LinesOf(db) : other.key # line.key
    /\ db' = InsertAt(db, n, line)
    /\ UNCHANGED <<kind, rewritten, seen, info, tries, answer>>

\* The medium was changed: it starts over.
Forget ==
    /\ answer = "none" /\ db # <<>> /\ ~rewritten
    /\ db' = <<>> /\ rewritten' = TRUE
    /\ UNCHANGED <<kind, seen, info, tries, answer>>

----------------------------------------------------------------------------
(* Parsing *)

\* Mutant: the first UUID found is kept.
ReadFirstUUID(i, line) ==
    IF i.rank > 0 THEN i
    ELSE [i EXCEPT !.uuid = Value(line),
                   !.rank = IF line.value = None THEN @ ELSE Rank(line.key)]

\* A better UUID replaces a worse one.  An empty one does, too, but leaves the
\* kind of the old one.
ReadUUID(i, line) ==
    IF i.rank >= Rank(line.key) THEN i
    ELSE [i EXCEPT !.uuid = Value(line),
                   !.rank = IF line.value = None THEN @ ELSE Rank(line.key)]

\* Mutant: label and type are looked at after a UUID only.
ReadVolumeLineLate(i, line) ==
    CASE line.key \in UUIDKeys -> ReadUUID(i, line)
      [] line.key = "LABEL" /\ i.rank > 0 -> [i EXCEPT !.label = Value(line)]
      [] line.key = "TYPE" -> [i EXCEPT !.fstype = Value(line)]
      [] OTHER -> i

ReadVolumeLine(i, line) ==
    CASE line.key \in UUIDKeys -> ReadUUID(i, line)
      [] line.key = "LABEL" -> [i EXCEPT !.label = Value(line)]
      [] line.key = "TYPE" -> [i EXCEPT !.fstype = Value(line)]
      [] OTHER -> i

\* Nothing is read after a path that is not of a USB device.
ReadDeviceLine(i, line) ==
    CASE i.usb = "other" -> i
      [] i.usb # "other" /\ line.key = "PATH" -> [i EXCEPT !.usb = line.value]
      [] i.usb # "other" /\ line.key \in UUIDKeys -> ReadUUID(i, line)
      [] OTHER -> i

\* Mutant: a missing UUID stays missing.
NameUnnamedNever(i) == i

\* What has no UUID gets a name instead; that of its partition table does not
\* identify a partition.
NameUnnamed(i) ==
    IF i.usb # "other" /\ (i.rank = 0 \/ (i.rank = 1 /\ kind = "partition"))
    THEN [i EXCEPT !.uuid = MadeUp] ELSE i

----------------------------------------------------------------------------
(* Asking *)

ReadLine(i, line) ==
    IF kind = "device" THEN ReadDeviceLine(i, line) ELSE ReadVolumeLine(i, line)

ReadLines(start, lines) ==
    LET after[n \in 0..Len(lines)] ==
            IF n = 0 THEN start ELSE ReadLine(after[n - 1], lines[n])
    IN  NameUnnamed(after[Len(lines)])

\* The kind of UUID is forgotten between attempts, the rest is not.
Parse(lines) == ReadLines([info EXCEPT !.rank = 0], lines)

Complete(i) ==
    /\ i.uuid # None
    /\ IF kind = "device" THEN i.usb = "usb" ELSE i.fstype # None

\* Mutant: attempts are not counted.
AskOnAndOn ==
    /\ answer = "none"
    /\ seen' = LinesOf(db) /\ info' = Parse(db)
    /\ answer' = CASE Complete(info') -> "yes"
                   [] ~Complete(info') /\ kind = "device" -> "no"
                   [] OTHER -> "none"
    /\ UNCHANGED <<kind, db, rewritten, tries>>

\* Mutant: one attempt more.
AskOnceMore ==
    /\ answer = "none"
    /\ seen' = LinesOf(db) /\ info' = Parse(db)
    /\ tries' = tries + 1
    /\ answer' = CASE Complete(info') -> "yes"
                   [] ~Complete(info') /\ (kind = "device" \/ tries' > TryMax) -> "no"
                   [] OTHER -> "none"
    /\ UNCHANGED <<kind, db, rewritten>>

\* get_device_information asks once, get_volume_information up to three times.
Ask ==
    /\ answer = "none"
    /\ seen' = LinesOf(db) /\ info' = Parse(db)
    /\ tries' = tries + 1
    /\ answer' = CASE Complete(info') -> "yes"
                   [] ~Complete(info') /\ (kind = "device" \/ tries' = TryMax) -> "no"
                   [] OTHER -> "none"
    /\ UNCHANGED <<kind, db, rewritten>>

QueryNext ==
    \/ \E line \in {l \in Line : l.key \in Asked}, n \in 1..Len(db) + 1 :
          Learn(line, n)
    \/ Forget \/ Ask

QuerySpec == QueryInit /\ [][QueryNext]_vars

\* An attempt ends: udevadm returns, and the pauses between attempts are 100
\* and 200 milliseconds.
FairQuerySpec == QuerySpec /\ WF_vars(Ask)

----------------------------------------------------------------------------
(* Properties *)

Present == {line \in seen : line.value # None}
Has(key) == \E line \in Present : line.key = key

\* Whatever the order of the lines, and whatever earlier attempts read, a query
\* that succeeds returns the best UUID udev printed in the last one, and a name
\* instead if there is none that tells this device from others.
BestUUID ==
    answer = "yes" =>
        info.uuid = CASE Has("FS") -> "FS"
                      [] ~Has("FS") /\ Has("ENTRY") -> "ENTRY"
                      [] ~Has("FS") /\ ~Has("ENTRY") /\ Has("TABLE")
                            /\ kind # "partition" -> "TABLE"
                      [] OTHER -> MadeUp

\* A query fails only if what udev printed in the very last attempt will not
\* do: there is no file system type or no USB path, or an empty UUID, which
\* spoils a good one if it comes after it.
FailsForReason ==
    answer = "no" =>
        \/ kind = "device" /\ [key |-> "PATH", value |-> "usb"] \notin Present
        \/ kind # "device" /\ tries = TryMax /\ ~Has("TYPE")
        \/ (kind # "device" => tries = TryMax)
              /\ \E line \in seen \ Present : line.key \in UUIDKeys

\* Label and type are those of the last answer, too, in whatever order they
\* came and though earlier attempts read some: unless udev started over, after
\* which a label of the former medium may stay.
OneVolume ==
    answer = "yes" /\ kind # "device" /\ ~rewritten =>
        /\ info.fstype # None
        /\ info.label # None <=> Has("LABEL")

\* What these rest on: udev prints a property once, a device is asked about
\* once, a volume has no path to read, and a label read earlier is still there.
QueryInv ==
    /\ QueryTypeOK
    /\ \A m, n \in 1..Len(db) : db[m].key = db[n].key => m = n
    /\ answer = "none" => tries < TryMax /\ (kind = "device" => info = Unparsed)
    /\ kind # "device" => info.usb = "unknown"
    /\ kind # "device" /\ info.label # None /\ ~rewritten =>
          \E line \in LinesOf(db) : line.key = "LABEL"
    /\ BestUUID /\ FailsForReason /\ OneVolume

\* A query ends, however long udev takes.
QueryEnds == answer = "none" ~> answer # "none"

=============================================================================
