---------------------------- MODULE EventStream ----------------------------
(***************************************************************************)
(* What FdEvents promises to the handlers of events: one stream, in which  *)
(* everything that happens in the watched directory comes out once and in  *)
(* order, until the directory is gone or the watch is given up.  Events    *)
(* may be missing only where the kernel could not take them in.            *)
(***************************************************************************)
EXTENDS Sequences

CONSTANT Event          \* what may happen

VARIABLES
    stream,             \* what has happened and was not handled yet
    watching            \* whether anything is heard at all

streamVars == <<stream, watching>>

StreamInit == stream = <<>> /\ watching = FALSE

Begin ==
    /\ ~watching /\ watching' = TRUE
    /\ stream' = <<>>

Arrive(e) ==
    /\ watching
    /\ stream' = Append(stream, e)
    /\ UNCHANGED watching

Deliver ==
    /\ watching /\ stream # <<>>
    /\ stream' = Tail(stream)
    /\ UNCHANGED watching

\* Nothing is delivered after the end.
End ==
    /\ watching /\ watching' = FALSE
    /\ stream' = <<>>

StreamNext == Begin \/ Deliver \/ End \/ \E e \in Event : Arrive(e)

StreamSpec == StreamInit /\ [][StreamNext]_streamVars
=============================================================================
