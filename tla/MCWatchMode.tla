---------------------------- MODULE MCWatchMode ----------------------------
(***************************************************************************)
(* Small instances of WatchMode: a stick with a partition table, a drive   *)
(* without one, one that is listed under two names, and two places to mount*)
(* them.  There are more names than IDs.                                   *)
(***************************************************************************)
EXTENDS WatchMode, TLC

MCDisk == {"usb", "ata", "dvd", "wwn"}
MCLink == {<<"usb", 0>>, <<"usb", 1>>, <<"ata", 0>>, <<"dvd", 0>>, <<"wwn", 1>>}
MCNameNumber == [d \in MCDisk |-> IF d = "usb" THEN 7 ELSE 0]
MCNodeNumber == [s \in Stem |-> 0]
MCForeign == {"wwn"}

MCDrive == {"stick", "floppy", "alias"}
MCRootOf == ("stick" :> "usb") @@ ("floppy" :> "ata") @@ ("alias" :> "dvd")
MCPartOf == ("stick" :> "usb") @@ ("floppy" :> "ata") @@ ("alias" :> "wwn")
MCNode == [d \in MCDrive |-> Stem]
MCPart == {<<"stick", 1>>, <<"floppy", 0>>, <<"alias", 1>>}
MCEnded == <<"SHUTDOWN", "nowhere">>
MCEvent == ({"NEW", "GONE"} \X Path) \cup {MCEnded}

MCFaults == {{}, {"alias"}, {"slow", "info", "findmnt", "probe"},
             {"several", "overflow"}, {"crash", "directory"},
             {"directory", "isdir"}}
MCMoves == [f \in MCFaults |-> IF f = {} THEN 5
                             ELSE IF {"several", "slow"} \cap f = {} THEN 4 ELSE 3]

MCSymmetry == Permutations(Path) \cup Permutations(Stem)
=============================================================================
