----------------------------- MODULE UsbCatalog -----------------------------
(***************************************************************************)
(* What MounTA promises to its D-Bus clients, in terms of the signals they *)
(* receive and nothing else: a catalogue of USB devices and of the volumes *)
(* mounted from them.                                                      *)
(***************************************************************************)
CONSTANTS ID, Index     \* device IDs, volume indices

VARIABLES
    catalog,            \* what the client knows of each device
    catVolumes          \* the volumes it was told of, as <<device, index>>

catalogVars == <<catalog, catVolumes>>

CatalogInit ==
    /\ catalog = [i \in ID |-> "unknown"]
    /\ catVolumes = {}

\* While a device is being taken down nothing else is announced.
Quiet == \A i \in ID : catalog[i] # "leaving"

NewUSBDevice(i) ==
    /\ catalog[i] = "unknown" /\ Quiet
    /\ catalog' = [catalog EXCEPT ![i] = "announced"]
    /\ UNCHANGED catVolumes

\* Any volume is announced after its containing device, and only once.
NewVolume(i, k) ==
    /\ catalog[i] = "announced" /\ Quiet
    /\ <<i, k>> \notin catVolumes
    /\ catVolumes' = catVolumes \cup {<<i, k>>}
    /\ UNCHANGED catalog

DeviceWillBeRemoved(i) ==
    /\ catalog[i] = "announced" /\ Quiet
    /\ catalog' = [catalog EXCEPT ![i] = "leaving"]
    /\ UNCHANGED catVolumes

\* The removal of a device withdraws all its volumes.
DeviceRemoved(i) ==
    /\ catalog[i] = "leaving"
    /\ catalog' = [catalog EXCEPT ![i] = "unknown"]
    /\ catVolumes' = {v \in catVolumes : v[1] # i}

\* The daemon lost its bus name: the client starts over.
NameLost ==
    /\ catalog' = [i \in ID |-> "unknown"]
    /\ catVolumes' = {}

CatalogNext ==
    \/ \E i \in ID : \/ NewUSBDevice(i)
                     \/ DeviceWillBeRemoved(i)
                     \/ DeviceRemoved(i)
                     \/ \E k \in Index : NewVolume(i, k)
    \/ NameLost

CatalogSpec == CatalogInit /\ [][CatalogNext]_catalogVars
=============================================================================
