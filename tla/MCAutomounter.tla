--------------------------- MODULE MCAutomounter ---------------------------
(***************************************************************************)
(* Small instances of Automounter.                                         *)
(***************************************************************************)
EXTENDS Automounter, TLC

\* A stick with two partitions, a card of which only a partition is ever seen,
\* and an entry of no interest.  A node may be one whose name has a number, which
\* then is the number of the volume, or not, for the same link today and tomorrow.
MCDisk == {"usb", "card", "dm"}
MCLink == {<<"usb", 0>>, <<"usb", 1>>, <<"usb", 2>>, <<"card", 1>>, <<"dm", 0>>}
MCStem == {"sda", "sr1"}
MCNameNumber == [d \in MCDisk |-> 0]
MCNodeNumber == ("sda" :> 0) @@ ("sr1" :> 1)
MCForeign == {"dm"}
=============================================================================
