------------------------------ MODULE MCMounta ------------------------------
(***************************************************************************)
(* Small instances of Mounta.                                              *)
(***************************************************************************)
EXTENDS Mounta, TLC

\* One stick with one partition that may come back under another node name.
OneDisk == {"usb"}
OneLink == {<<"usb", 0>>, <<"usb", 1>>}
OneNumber == [d \in OneDisk |-> 0]
OneNode == [d \in OneDisk |-> Stem]
TwoStems == {"sda", "sdb"}
TwoStemNumbers == [s \in Stem |-> 0]

\* Two sticks, the second one without a partition table.
TwoDisks == {"usb", "ata"}
TwoLinks == {<<"usb", 0>>, <<"usb", 1>>, <<"ata", 0>>}
TwoNumbers == ("usb" :> 0) @@ ("ata" :> 7)
TwoNodes == [d \in TwoDisks |-> Stem]
TwoSymmetry == Permutations(Stem)

\* One stick and a disc drive whose node carries a number.
DriveDisks == {"usb", "cd"}
DriveLinks == {<<"usb", 0>>, <<"usb", 1>>, <<"cd", 0>>}
DriveNumbers == [d \in DriveDisks |-> 0]
DriveStems == {"sda", "sdb", "sr1"}
DriveStemNumbers == [s \in DriveStems |-> IF s = "sr1" THEN 1 ELSE 0]
DriveNodes == ("usb" :> {"sda", "sdb"}) @@ ("cd" :> {"sr1"})

Ata == {"ata"}
Cd == {"cd"}
Nothing == {}

NoFault == {{}}
Repartition == {{"repartition"}}
Ended == {{}, {"term", "crash"}}
AnyFault == {{"info", "probe", "mkdir", "mount", "directory", "name", "crash"},
             {"takeover", "repartition", "info"},
             {"disorder", "info", "directory", "isdir"},
             {"overflow"}}
=============================================================================
