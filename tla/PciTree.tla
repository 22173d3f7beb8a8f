------------------------------ MODULE PciTree ------------------------------
(***************************************************************************)
(* The scan of sysfs at the start of pcitop (src/src/pci_sysfs.c): the     *)
(* lists of root bridges, of buses and of slots, and the slots linked to   *)
(* their root bridge through their bus.                                    *)
(*                                                                         *)
(* readdir returns the entries of a directory in any order.  A root        *)
(* bridge, a bus and a slot stand for the names they have in sysfs; the    *)
(* entries the scan skips because their names do not parse are left out.   *)
(*                                                                         *)
(* A definition Faulty... is the definition after it with a plausible slip *)
(* in it, used to see that a property notices the slip.                    *)
(***************************************************************************)
EXTENDS Naturals, Sequences, FiniteSets, Functions

CONSTANTS
    RootBridges,   \* the directories pciDDDD:BB of /sys/devices
    Buses,         \* the entries of /sys/class/pci_bus
    Slots,         \* the entries of /sys/bus/pci/slots
    Link,          \* the root bridge that the device link of a bus names
    Address,       \* the bus that the address attribute of a slot names
    NoAddress,     \* the slots whose address may not be readable
    Faults,        \* what else may fail: "opendir", "calloc"
    NULL           \* no root bridge, no bus

ASSUME TreeAssumption ==
    /\ Link \in [Buses -> RootBridges \cup {NULL}]
    /\ Address \in [Slots -> Buses \cup {NULL}]
    /\ NoAddress \subseteq Slots
    /\ NULL \notin RootBridges \cup Buses \cup Slots

VARIABLES
    phase,              \* where the scan is
    dir,                \* entries of the open directory not yet returned
    root_bridge_list,
    bus_list,
    slot_list,
    root_bridge,        \* the field root_bridge of each bus
    bus,                \* the field bus of each slot
    slots,              \* the list of slots of each root bridge
    address             \* the buffer address of create_sysfs_slot_list

lists == <<root_bridge_list, bus_list, slot_list, root_bridge, bus, slots>>
treeVars == <<phase, dir, lists, address>>

Uninitialized == "uninitialized"   \* what the buffer holds before any read
Phases == {"roots_open", "roots", "buses_open", "buses", "slots_open",
           "slots", "tree_done", "crashed"}

-----------------------------------------------------------------------------

TreeInit ==
    /\ phase = "roots_open"
    /\ dir = {}
    /\ root_bridge_list = <<>> /\ bus_list = <<>> /\ slot_list = <<>>
    /\ root_bridge = [b \in Buses |-> NULL]
    /\ bus = [s \in Slots |-> NULL]
    /\ slots = [r \in RootBridges |-> <<>>]
    /\ address = Uninitialized

\* opendir of a directory with the given entries.  The result of each part
\* of the scan is ignored by create_sysfs_pci_tree, so the next part follows
\* also when this one failed.
OpenDir(from, to, next, entries) ==
    /\ phase = from
    /\ \/ phase' = to /\ dir' = entries
       \/ "opendir" \in Faults /\ phase' = next /\ dir' = {}
    /\ UNCHANGED <<lists, address>>

\* readdir returns NULL, or calloc fails for an entry: closedir.
CloseDir(from, next) ==
    /\ phase = from
    /\ dir = {} \/ "calloc" \in Faults
    /\ phase' = next
    /\ dir' = {}
    /\ UNCHANGED <<lists, address>>

\* The loop of create_root_bridge_list.
AddRootBridge ==
    /\ phase = "roots"
    /\ \E r \in dir : /\ dir' = dir \ {r}
                      /\ root_bridge_list' = Append(root_bridge_list, r)
    /\ UNCHANGED <<phase, bus_list, slot_list, root_bridge, bus, slots, address>>

FaultyGetRootBridge(name) ==  \* compares nothing: the first of the list
    IF root_bridge_list = <<>> THEN NULL ELSE root_bridge_list[1]

FaultyRootBridgeNotFound(name) ==  \* found is never set
    NULL

\* The root bridge of the list with that name; the list has no name twice.
get_sysfs_root_bridge(name) ==
    IF name \in Range(root_bridge_list) THEN name ELSE NULL

FaultyAddBus ==               \* never sets root_bridge
    /\ phase = "buses"
    /\ \E b \in dir :
        /\ dir' = dir \ {b}
        /\ bus_list' = Append(bus_list, b)
    /\ UNCHANGED <<phase, root_bridge_list, slot_list, root_bridge, bus, slots,
                  address>>

\* The loop of create_pci_bus_list.  A bus is left out when neither of its
\* links can be read and parsed.
AddBus ==
    /\ phase = "buses"
    /\ \E b \in dir :
        /\ dir' = dir \ {b}
        /\ IF Link[b] = NULL
             THEN UNCHANGED <<bus_list, root_bridge>>
             ELSE /\ bus_list' = Append(bus_list, b)
                  /\ root_bridge' =
                       [root_bridge EXCEPT ![b] = get_sysfs_root_bridge(Link[b])]
    /\ UNCHANGED <<phase, root_bridge_list, slot_list, bus, slots, address>>

FaultyReadAddress(s) ==       \* only the first slot's address is read
    IF address = Uninitialized THEN {Address[s]} ELSE {address}

\* What the buffer can hold after read_attribute for slot s, whose result is
\* ignored: on failure what it held before.
ReadAddress(s) ==
    {Address[s]} \cup
      (IF s \notin NoAddress THEN {}
       ELSE IF address = Uninitialized THEN Buses \cup {NULL} ELSE {address})

\* One slot, when its address is a and a bus of that name is listed: it is
\* put on the list of slots and on that of the bus's root bridge, which the
\* code does not check to be there.
LinkSlot(s, a) ==
    /\ bus' = [bus EXCEPT ![s] = a]
    /\ slot_list' = Append(slot_list, s)
    /\ IF root_bridge[a] = NULL
         THEN phase' = "crashed" /\ UNCHANGED slots
         ELSE /\ slots' = [slots EXCEPT ![root_bridge[a]] = Append(@, s)]
              /\ UNCHANGED phase

FaultyGiveUpScan ==           \* the slot is listed before its bus is known
    /\ phase' = "tree_done"
    /\ slot_list' = Append(slot_list, CHOOSE s \in dir : s \notin dir')
    /\ UNCHANGED <<bus, slots>>

\* One slot without a listed bus: the scan ends.
GiveUpScan ==
    /\ phase' = "tree_done"
    /\ UNCHANGED <<slot_list, bus, slots>>

\* The loop of create_sysfs_slot_list.
AddSlot ==
    /\ phase = "slots"
    /\ \E s \in dir : \E a \in ReadAddress(s) :
        /\ dir' = dir \ {s}
        /\ address' = a
        /\ IF a \in Range(bus_list) THEN LinkSlot(s, a) ELSE GiveUpScan
    /\ UNCHANGED <<root_bridge_list, bus_list, root_bridge>>

create_root_bridge_list ==
    \/ OpenDir("roots_open", "roots", "buses_open", RootBridges)
    \/ AddRootBridge
    \/ CloseDir("roots", "buses_open")

create_pci_bus_list ==
    \/ OpenDir("buses_open", "buses", "slots_open", Buses)
    \/ AddBus
    \/ CloseDir("buses", "slots_open")

create_sysfs_slot_list ==
    \/ OpenDir("slots_open", "slots", "tree_done", Slots)
    \/ AddSlot
    \/ CloseDir("slots", "tree_done")

TreeNext ==
    \/ create_root_bridge_list
    \/ create_pci_bus_list
    \/ create_sysfs_slot_list

TreeSpec == TreeInit /\ [][TreeNext]_treeVars

-----------------------------------------------------------------------------

\* Every list holds names of its kind, every field what it can point to.
TreeTypeOK ==
    /\ phase \in Phases
    /\ dir \subseteq RootBridges \cup Buses \cup Slots
    /\ root_bridge_list \in Seq(RootBridges)
    /\ bus_list \in Seq(Buses)
    /\ slot_list \in Seq(Slots)
    /\ root_bridge \in [Buses -> RootBridges \cup {NULL}]
    /\ bus \in [Slots -> Buses \cup {NULL}]
    /\ slots \in [RootBridges -> Seq(Slots)]
    /\ address \in Buses \cup {NULL, Uninitialized}

\* A slot is listed under the root bridge that it is behind: the one its
\* bus's link names.  Whatever else fails, only a slot whose own address could
\* not be read is found in a wrong place (create_sysfs_slot_list).
SlotUnderOwnBridge ==
    \A r \in RootBridges : \A s \in Range(slots[r]) \ NoAddress :
        Address[s] \in Buses /\ Link[Address[s]] = r

\* The root bridge that slot s is behind.
BridgeOf(s) == IF Address[s] = NULL THEN NULL ELSE Link[Address[s]]

\* The list of all slots and the lists of the root bridges stay one
\* partition, whatever fails: a slot of the list is under exactly one root
\* bridge, once, the one of its field bus (create_sysfs_slot_list).
ListsAgree ==
    phase # "crashed" =>
        /\ \A s \in Range(slot_list) : \E r \in RootBridges : s \in Range(slots[r])
        /\ \A r \in RootBridges :
             /\ \A s \in Range(slots[r]) :
                  s \in Range(slot_list) /\ root_bridge[bus[s]] = r
             /\ \A i, j \in DOMAIN slots[r] : slots[r][i] = slots[r][j] => i = j

\* The scan follows a pointer to a root bridge that is not there only when a
\* root bridge was lost in the first part of the scan, whatever else fails
\* (pci_sysfs.c:127-133, 182-184).
CrashNeedsLostBridge ==
    phase = "crashed" => Range(root_bridge_list) # RootBridges

=============================================================================
