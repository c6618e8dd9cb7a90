----------------------------- MODULE FdEvents -----------------------------
(***************************************************************************)
(* The class FdEvents: an inotify descriptor with one watch, the kernel's  *)
(* queue behind it, and the buffer of process(), which reads as many events*)
(* as fit and hands them to the handler one by one before it reads again.  *)
(*                                                                         *)
(* The module is used by others: its actions change these variables only,  *)
(* and Handed(e) is the guard under which a handler may run.               *)
(***************************************************************************)
EXTENDS Integers, Sequences

CONSTANTS
    Event,      \* what the watch reports
    Ended,      \* the event that reports the end of the watched directory
    BatchMax,   \* number of events that fit into the buffer
    QueueMax    \* number of events the kernel keeps

ASSUME EventsAssumption ==
    /\ Ended \in Event
    /\ BatchMax \in Nat \ {0} /\ QueueMax \in Nat \ {0}

VARIABLES
    fd,         \* the descriptor: "open" or "closed"
    pending,    \* the kernel's queue
    batch       \* what was read and not yet handled, the current event first

eventVars == <<fd, pending, batch>>

FdTypeOK ==
    /\ fd \in {"open", "closed"}
    /\ pending \in Seq(Event) /\ Len(pending) <= QueueMax
    /\ batch \in Seq(Event) /\ Len(batch) <= BatchMax
    /\ fd = "closed" => pending = <<>> /\ batch = <<>>

FdInit == fd = "closed" /\ pending = <<>> /\ batch = <<>>

Watch ==
    /\ fd = "closed" /\ fd' = "open"
    /\ pending' = <<>> /\ batch' = <<>>

\* Something happens in the directory.  If the queue is full the kernel drops
\* it; the IN_Q_OVERFLOW it leaves instead has none of the bits process()
\* looks at.
Happens(e) ==
    /\ pending' = IF fd = "open" /\ Len(pending) < QueueMax
                  THEN Append(pending, e) ELSE pending
    /\ UNCHANGED <<fd, batch>>

Min2(a, b) == IF a < b THEN a ELSE b

\* Mutant: the buffer is filled again before all of it was handled.
FillBufferEarly ==
    /\ fd = "open" /\ pending # <<>>
    /\ LET n == Min2(BatchMax, Len(pending)) IN
       /\ batch' = SubSeq(pending, 1, n)
       /\ pending' = SubSeq(pending, n + 1, Len(pending))
    /\ UNCHANGED fd

FillBuffer ==
    /\ fd = "open" /\ batch = <<>> /\ pending # <<>>
    /\ LET n == Min2(BatchMax, Len(pending)) IN
       /\ batch' = SubSeq(pending, 1, n)
       /\ pending' = SubSeq(pending, n + 1, Len(pending))
    /\ UNCHANGED fd

\* Mutant: the loop over the buffer does not get on.
HandedAgain(e) ==
    /\ batch # <<>> /\ Head(batch) = e
    /\ UNCHANGED <<fd, pending, batch>>

\* The handler returns from an ordinary event.
Handed(e) ==
    /\ batch # <<>> /\ Head(batch) = e
    /\ batch' = Tail(batch)
    /\ UNCHANGED <<fd, pending>>

\* It returns from the last one: the descriptor is closed, what else was read
\* is not looked at.
HandedLast ==
    /\ batch # <<>> /\ Head(batch) = Ended
    /\ fd' = "closed"
    /\ batch' = <<>> /\ pending' = <<>>

\* The process is gone, and its descriptor with it.
Vanish == fd' = "closed" /\ pending' = <<>> /\ batch' = <<>>

\* The promise, and what its state is here.
Stream == INSTANCE EventStream WITH
              stream <- batch \o pending, watching <- fd = "open"

\* Whatever the sizes of buffer and queue, events reach the handler once and in
\* order (the loop of process over one buffer, then the next).
DeliversStream == Stream!StreamSpec
=============================================================================
