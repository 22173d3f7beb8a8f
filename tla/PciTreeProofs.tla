--------------------------- MODULE PciTreeProofs ----------------------------
(***************************************************************************)
(* The scan of sysfs is right for any tree, any order of the entries and   *)
(* any failures.                                                           *)
(***************************************************************************)
EXTENDS PciTree, TLAPS

LEMMA AppendFacts ==
  ASSUME NEW S, NEW seq \in Seq(S), NEW e \in S
  PROVE  /\ Append(seq, e) \in Seq(S)
         /\ Range(Append(seq, e)) = Range(seq) \cup {e}
         /\ DOMAIN Append(seq, e) = 1 .. (Len(seq) + 1)
         /\ DOMAIN seq = 1 .. Len(seq) /\ Len(seq) \in Nat
         /\ \A i \in DOMAIN seq : Append(seq, e)[i] = seq[i]
         /\ Append(seq, e)[Len(seq) + 1] = e
<1>1. /\ Append(seq, e) \in Seq(S)
      /\ DOMAIN Append(seq, e) = 1 .. (Len(seq) + 1)
      /\ DOMAIN seq = 1 .. Len(seq) /\ Len(seq) \in Nat
      /\ \A i \in DOMAIN seq : Append(seq, e)[i] = seq[i]
      /\ Append(seq, e)[Len(seq) + 1] = e
  OBVIOUS
<1>2. Range(Append(seq, e)) = Range(seq) \cup {e}
  BY <1>1 DEF Range
<1> QED
  BY <1>1, <1>2

LEMMA EmptyRange == Range(<< >>) = {}
  BY DEF Range

LEMMA RangeIn ==
  ASSUME NEW S, NEW seq \in Seq(S)
  PROVE  Range(seq) \subseteq S
  BY DEF Range

-----------------------------------------------------------------------------
(* The inductive invariant.                                                *)

\* The lists come into being one after the other, and the directory that is
\* open is the one of the list being made.
PhaseOrder ==
  /\ phase \in {"roots_open", "roots", "buses_open"} => bus_list = << >>
  /\ phase \in {"roots_open", "roots", "buses_open", "buses", "slots_open"} =>
       slot_list = << >> /\ slots = [r \in RootBridges |-> << >>]
  /\ phase = "roots" => dir \subseteq RootBridges
  /\ phase = "buses" => dir \subseteq Buses
  /\ phase = "slots" => dir \subseteq Slots \ Range(slot_list)

\* A listed bus points to the root bridge that its link names, if that one is
\* listed.
BusesLinked ==
  \A b \in Range(bus_list) :
    /\ Link[b] \in RootBridges
    /\ root_bridge[b] = get_sysfs_root_bridge(Link[b])

\* A listed slot points to a listed bus.
SlotsLinked == \A s \in Range(slot_list) : bus[s] \in Buses

TreeInv ==
  /\ TreeTypeOK /\ PhaseOrder /\ BusesLinked /\ SlotsLinked
  /\ SlotUnderOwnBridge /\ ListsAgree /\ CrashNeedsLostBridge

LEMMA TreeInitInv == TreeInit => TreeInv
  BY TreeAssumption, EmptyRange
  DEF TreeInit, TreeInv, TreeTypeOK, Phases, Uninitialized, PhaseOrder,
      BusesLinked, SlotsLinked, SlotUnderOwnBridge, ListsAgree, CrashNeedsLostBridge

\* Opening and closing a directory changes no list.
LEMMA DirKeepsInv ==
  ASSUME TreeInv, UNCHANGED <<lists, address>>,
         \/ phase = "roots_open" /\ phase' \in {"roots", "buses_open"} /\ dir' \subseteq RootBridges
         \/ phase = "roots" /\ phase' = "buses_open" /\ dir' = {}
         \/ phase = "buses_open" /\ phase' \in {"buses", "slots_open"} /\ dir' \subseteq Buses
         \/ phase = "buses" /\ phase' = "slots_open" /\ dir' = {}
         \/ phase = "slots_open" /\ phase' \in {"slots", "tree_done"} /\ dir' \subseteq Slots
         \/ phase = "slots" /\ phase' = "tree_done" /\ dir' = {}
  PROVE  TreeInv'
<1> USE DEF TreeInv, lists
<1>1. TreeTypeOK'
  BY DEF TreeTypeOK, Phases
<1>2. PhaseOrder'
  BY EmptyRange DEF PhaseOrder
<1>3. BusesLinked' /\ SlotsLinked' /\ SlotUnderOwnBridge'
  BY DEF BusesLinked, SlotsLinked, SlotUnderOwnBridge, get_sysfs_root_bridge
<1>4. ListsAgree' /\ CrashNeedsLostBridge'
  BY DEF ListsAgree, CrashNeedsLostBridge
<1> QED
  BY <1>1, <1>2, <1>3, <1>4

LEMMA AddRootBridgeKeepsInv ==
  ASSUME TreeInv, AddRootBridge
  PROVE  TreeInv'
<1> USE DEF TreeInv
<1>1. PICK r \in dir : /\ dir' = dir \ {r}
                       /\ root_bridge_list' = Append(root_bridge_list, r)
  BY DEF AddRootBridge
<1>2. /\ phase = "roots" /\ r \in RootBridges
      /\ UNCHANGED <<phase, bus_list, slot_list, root_bridge, bus, slots, address>>
  BY <1>1 DEF AddRootBridge, PhaseOrder
<1>3. TreeTypeOK'
  BY <1>1, <1>2, AppendFacts DEF TreeTypeOK
<1>4. PhaseOrder'
  BY <1>1, <1>2 DEF PhaseOrder
<1>5. BusesLinked' /\ SlotsLinked' /\ SlotUnderOwnBridge'
  BY <1>2, EmptyRange DEF BusesLinked, SlotsLinked, SlotUnderOwnBridge, PhaseOrder
<1>6. ListsAgree' /\ CrashNeedsLostBridge'
  BY <1>2 DEF ListsAgree, CrashNeedsLostBridge
<1> QED
  BY <1>3, <1>4, <1>5, <1>6

LEMMA AddBusKeepsInv ==
  ASSUME TreeInv, AddBus
  PROVE  TreeInv'
<1> USE DEF TreeInv
<1>1. PICK b \in dir :
        /\ dir' = dir \ {b}
        /\ \/ UNCHANGED <<bus_list, root_bridge>>
           \/ /\ Link[b] # NULL
              /\ bus_list' = Append(bus_list, b)
              /\ root_bridge' =
                   [root_bridge EXCEPT ![b] = get_sysfs_root_bridge(Link[b])]
  BY DEF AddBus
<1>2. /\ phase = "buses" /\ b \in Buses
      /\ UNCHANGED <<phase, root_bridge_list, slot_list, bus, slots, address>>
  BY <1>1 DEF AddBus, PhaseOrder
<1>3. get_sysfs_root_bridge(Link[b]) \in RootBridges \cup {NULL}
  BY RangeIn DEF get_sysfs_root_bridge, TreeTypeOK
<1>4. TreeTypeOK'
  <2>1. Append(bus_list, b) \in Seq(Buses)
    BY <1>2, AppendFacts DEF TreeTypeOK
  <2>2. [root_bridge EXCEPT ![b] = get_sysfs_root_bridge(Link[b])]
          \in [Buses -> RootBridges \cup {NULL}]
    BY <1>2, <1>3 DEF TreeTypeOK
  <2>3. /\ bus_list' \in Seq(Buses)
        /\ root_bridge' \in [Buses -> RootBridges \cup {NULL}]
    BY <1>1, <2>1, <2>2 DEF TreeTypeOK
  <2> QED
    BY <1>1, <1>2, <2>3 DEF TreeTypeOK
<1>5. PhaseOrder'
  BY <1>1, <1>2 DEF PhaseOrder
<1>6. BusesLinked'
  <2>1. CASE UNCHANGED <<bus_list, root_bridge>>
    BY <1>2, <2>1 DEF BusesLinked, get_sysfs_root_bridge
  <2>2. CASE /\ Link[b] # NULL
             /\ bus_list' = Append(bus_list, b)
             /\ root_bridge' =
                  [root_bridge EXCEPT ![b] = get_sysfs_root_bridge(Link[b])]
    <3>1. Range(bus_list') = Range(bus_list) \cup {b}
      BY <1>2, <2>2, AppendFacts DEF TreeTypeOK
    <3>2. Link[b] \in RootBridges
      BY <1>2, <2>2, TreeAssumption
    <3>3. \A c \in Range(bus_list') : root_bridge'[c] = get_sysfs_root_bridge(Link[c])
      BY <1>2, <2>2, <3>1, RangeIn DEF BusesLinked, TreeTypeOK
    <3> QED
      BY <1>2, <3>1, <3>2, <3>3 DEF BusesLinked, get_sysfs_root_bridge
  <2> QED
    BY <1>1, <2>1, <2>2
<1>7. SlotsLinked' /\ SlotUnderOwnBridge'
  BY <1>2 DEF SlotsLinked, SlotUnderOwnBridge
<1>8. ListsAgree' /\ CrashNeedsLostBridge'
  BY <1>2, EmptyRange DEF ListsAgree, CrashNeedsLostBridge, PhaseOrder
<1> QED
  BY <1>4, <1>5, <1>6, <1>7, <1>8

LEMMA AddSlotKeepsInv ==
  ASSUME TreeInv, AddSlot
  PROVE  TreeInv'
<1> USE DEF TreeInv
<1>0. PICK s \in dir : \E a \in ReadAddress(s) :
        /\ dir' = dir \ {s}
        /\ address' = a
        /\ IF a \in Range(bus_list) THEN LinkSlot(s, a) ELSE GiveUpScan
  BY DEF AddSlot
<1>1. PICK a \in ReadAddress(s) :
        /\ dir' = dir \ {s}
        /\ address' = a
        /\ IF a \in Range(bus_list) THEN LinkSlot(s, a) ELSE GiveUpScan
  BY <1>0
<1>2. /\ phase = "slots" /\ s \in Slots /\ s \notin Range(slot_list)
      /\ dir \subseteq Slots \ Range(slot_list)
      /\ UNCHANGED <<root_bridge_list, bus_list, root_bridge>>
  BY <1>1 DEF AddSlot, PhaseOrder
<1>3. /\ a \in Buses \cup {NULL, Uninitialized}
      /\ s \notin NoAddress => a = Address[s]
  BY <1>1, <1>2, TreeAssumption DEF ReadAddress, TreeTypeOK
<1>4. BusesLinked'
  BY <1>2 DEF BusesLinked, get_sysfs_root_bridge
<1>5. CASE a \notin Range(bus_list)
  <2>1. phase' = "tree_done" /\ UNCHANGED <<slot_list, bus, slots>>
    BY <1>1, <1>5 DEF GiveUpScan
  <2>2. TreeTypeOK'
    BY <1>1, <1>2, <1>3, <2>1 DEF TreeTypeOK, Phases
  <2>3. PhaseOrder' /\ SlotsLinked' /\ SlotUnderOwnBridge'
    BY <2>1 DEF PhaseOrder, SlotsLinked, SlotUnderOwnBridge
  <2>4. ListsAgree' /\ CrashNeedsLostBridge'
    BY <1>2, <2>1 DEF ListsAgree, CrashNeedsLostBridge
  <2> QED
    BY <1>4, <2>2, <2>3, <2>4
<1>6. CASE a \in Range(bus_list)
  <2>1. /\ bus' = [bus EXCEPT ![s] = a]
        /\ slot_list' = Append(slot_list, s)
    BY <1>1, <1>6 DEF LinkSlot
  <2>2. a \in Buses /\ Link[a] \in RootBridges /\ root_bridge[a] \in {Link[a], NULL}
    BY <1>6, RangeIn DEF TreeTypeOK, BusesLinked, get_sysfs_root_bridge
  <2>3. /\ Range(slot_list') = Range(slot_list) \cup {s}
        /\ slot_list' \in Seq(Slots)
    BY <1>2, <2>1, AppendFacts DEF TreeTypeOK
  <2>4. /\ bus' \in [Slots -> Buses \cup {NULL}]
        /\ bus'[s] = a /\ \A t \in Slots \ {s} : bus'[t] = bus[t]
    BY <1>2, <2>1, <2>2 DEF TreeTypeOK
  <2>5. SlotsLinked'
    BY <2>2, <2>3, <2>4, RangeIn DEF SlotsLinked, TreeTypeOK
  <2>6. CASE root_bridge[a] = NULL
    <3>1. phase' = "crashed" /\ UNCHANGED slots
      BY <1>1, <1>6, <2>6 DEF LinkSlot
    <3>2. TreeTypeOK'
      BY <1>1, <1>2, <1>3, <2>3, <2>4, <3>1 DEF TreeTypeOK, Phases
    <3>3. PhaseOrder' /\ SlotUnderOwnBridge' /\ ListsAgree'
      BY <3>1 DEF PhaseOrder, SlotUnderOwnBridge, ListsAgree
    <3>4. CrashNeedsLostBridge'
      BY <1>2, <1>6, <2>2, <2>6, TreeAssumption
      DEF CrashNeedsLostBridge, BusesLinked, get_sysfs_root_bridge
    <3> QED
      BY <1>4, <2>5, <3>2, <3>3, <3>4
  <2>7. CASE root_bridge[a] # NULL
    <3> DEFINE r == Link[a]
               new == Append(slots[r], s)
    <3>1. /\ root_bridge[a] = r /\ r \in RootBridges
          /\ slots' = [slots EXCEPT ![r] = new] /\ phase' = phase
      BY <1>1, <1>6, <2>2, <2>7 DEF LinkSlot
    <3>2. /\ slots[r] \in Seq(Slots) /\ new \in Seq(Slots)
          /\ Range(new) = Range(slots[r]) \cup {s}
          /\ DOMAIN slots[r] = 1 .. Len(slots[r]) /\ Len(slots[r]) \in Nat
          /\ DOMAIN new = 1 .. (Len(slots[r]) + 1)
          /\ \A i \in DOMAIN slots[r] : new[i] = slots[r][i]
          /\ new[Len(slots[r]) + 1] = s
      BY <1>2, <3>1, AppendFacts DEF TreeTypeOK
    <3>3. \A k \in RootBridges : slots'[k] = IF k = r THEN new ELSE slots[k]
      BY <3>1 DEF TreeTypeOK
    <3>4. slots' \in [RootBridges -> Seq(Slots)]
      BY <3>1, <3>2 DEF TreeTypeOK
    <3> HIDE DEF new
    <3>5. TreeTypeOK'
      BY <1>1, <1>2, <1>3, <2>3, <2>4, <3>1, <3>4 DEF TreeTypeOK
    <3>6. PhaseOrder'
      BY <1>1, <1>2, <2>3, <3>1 DEF PhaseOrder
    <3>7. SlotUnderOwnBridge'
      BY <1>2, <1>3, <2>2, <3>1, <3>2, <3>3 DEF SlotUnderOwnBridge
    <3>8. ListsAgree'
      <4>1. /\ \A t \in Range(slot_list) : \E k \in RootBridges : t \in Range(slots[k])
            /\ \A k \in RootBridges :
                 /\ \A t \in Range(slots[k]) :
                      t \in Range(slot_list) /\ root_bridge[bus[t]] = k
                 /\ \A i, j \in DOMAIN slots[k] : slots[k][i] = slots[k][j] => i = j
        BY <1>2 DEF ListsAgree
      <4>2. \A t \in Range(slot_list) : t \in Slots /\ t # s /\ bus'[t] = bus[t]
        BY <1>2, <2>4, RangeIn DEF TreeTypeOK
      <4>3. \A k \in RootBridges :
              Range(slots'[k]) = Range(slots[k]) \cup (IF k = r THEN {s} ELSE {})
        BY <3>2, <3>3
      <4>4. \A t \in Range(slot_list') : \E k \in RootBridges : t \in Range(slots'[k])
        BY <2>3, <3>1, <4>1, <4>3
      <4>5. \A k \in RootBridges : \A t \in Range(slots'[k]) :
              t \in Range(slot_list') /\ root_bridge'[bus'[t]] = k
        BY <1>2, <2>3, <2>4, <3>1, <4>1, <4>2, <4>3
      <4>6. s \notin Range(slots[r])
        BY <1>2, <3>1, <4>1
      <4>7. \A i \in DOMAIN slots[r] : slots[r][i] # s
        BY <4>6 DEF Range
      <4>8. \A i, j \in DOMAIN new : new[i] = new[j] => i = j
        <5>1. \A i \in DOMAIN new : i \in DOMAIN slots[r] \/ i = Len(slots[r]) + 1
          BY <3>2
        <5> QED
          BY <3>1, <3>2, <4>1, <4>7, <5>1
      <4>9. \A k \in RootBridges :
              \A i, j \in DOMAIN slots'[k] : slots'[k][i] = slots'[k][j] => i = j
        BY <3>3, <4>1, <4>8
      <4> QED
        BY <4>4, <4>5, <4>9 DEF ListsAgree
    <3>9. CrashNeedsLostBridge'
      BY <1>2, <3>1 DEF CrashNeedsLostBridge
    <3> QED
      BY <1>4, <2>5, <3>5, <3>6, <3>7, <3>8, <3>9
  <2> QED
    BY <2>6, <2>7
<1> QED
  BY <1>5, <1>6

LEMMA TreeInvKept ==
  ASSUME TreeInv, [TreeNext]_treeVars
  PROVE  TreeInv'
<1>1. CASE create_root_bridge_list
  BY <1>1, DirKeepsInv, AddRootBridgeKeepsInv
  DEF create_root_bridge_list, OpenDir, CloseDir
<1>2. CASE create_pci_bus_list
  BY <1>2, DirKeepsInv, AddBusKeepsInv
  DEF create_pci_bus_list, OpenDir, CloseDir
<1>3. CASE create_sysfs_slot_list
  BY <1>3, DirKeepsInv, AddSlotKeepsInv
  DEF create_sysfs_slot_list, OpenDir, CloseDir
<1>4. CASE UNCHANGED treeVars
  BY <1>4
  DEF treeVars, lists, TreeInv, TreeTypeOK, PhaseOrder, BusesLinked, SlotsLinked,
      SlotUnderOwnBridge, ListsAgree, CrashNeedsLostBridge, get_sysfs_root_bridge
<1> QED
  BY <1>1, <1>2, <1>3, <1>4 DEF TreeNext

\* TreeInv is an inductive invariant of the scan, for any directories, links
\* and addresses, and whichever calls fail.
THEOREM TreeInvariant == TreeSpec => []TreeInv
<1>1. TreeInit => TreeInv
  BY TreeInitInv
<1>2. TreeInv /\ [TreeNext]_treeVars => TreeInv'
  BY TreeInvKept
<1> QED
  BY <1>1, <1>2, PTL DEF TreeSpec

\* Every list holds names of its kind, every field what it can point to.
THEOREM TreeTypeTheorem == TreeSpec => []TreeTypeOK
  BY TreeInvariant, PTL DEF TreeInv

\* However the directories are ordered and whatever fails, a slot whose own
\* address is readable is listed under no other root bridge than the one it is
\* behind (create_sysfs_slot_list).
THEOREM SlotTheorem == TreeSpec => []SlotUnderOwnBridge
  BY TreeInvariant, PTL DEF TreeInv

\* The list of slots and the lists of the root bridges stay one partition
\* (create_sysfs_slot_list).
THEOREM ListsTheorem == TreeSpec => []ListsAgree
  BY TreeInvariant, PTL DEF TreeInv

\* The scan follows a missing root bridge only when one was lost in its first
\* part (create_root_bridge_list, create_sysfs_slot_list).
THEOREM CrashTheorem == TreeSpec => []CrashNeedsLostBridge
  BY TreeInvariant, PTL DEF TreeInv

=============================================================================
