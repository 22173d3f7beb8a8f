------------------------- MODULE HplbaModuleProofs --------------------------
(***************************************************************************)
(* Inserting and removing the driver, for any platform and any failures.   *)
(***************************************************************************)
EXTENDS HplbaModule, FiniteSetTheorems, TLAPS

-----------------------------------------------------------------------------
(* Lists of bridges.                                                       *)

LEMMA AppendList ==
  ASSUME NEW S, NEW seq \in Seq(S), NEW e \in S
  PROVE  /\ Append(seq, e) \in Seq(S)
         /\ Len(seq) \in Nat /\ Len(Append(seq, e)) = Len(seq) + 1
         /\ \A i \in 1 .. Len(seq) : Append(seq, e)[i] = seq[i]
         /\ Append(seq, e)[Len(seq) + 1] = e
  OBVIOUS

LEMMA TailList ==
  ASSUME NEW S, NEW seq \in Seq(S), seq # << >>
  PROVE  /\ Tail(seq) \in Seq(S) /\ Head(seq) = seq[1]
         /\ Len(seq) \in Nat \ {0} /\ Len(Tail(seq)) = Len(seq) - 1
         /\ \A i \in 1 .. Len(seq) - 1 : Tail(seq)[i] = seq[i + 1]
  OBVIOUS

\* As many names as members, when no name is there twice.
LEMMA CountNames ==
  ASSUME NEW n \in Nat, NEW seq, NEW T,
         \A i, j \in 1 .. n : seq[i][2] = seq[j][2] => i = j,
         \A t : t \in T <=> \E i \in 1 .. n : seq[i][2] = t
  PROVE  Cardinality(T) = n
<1> DEFINE f == [i \in 1 .. n |-> seq[i][2]]
<1>1. f \in [1 .. n -> T] /\ DOMAIN f = 1 .. n
  OBVIOUS
<1>2. IsInjective(f)
  BY <1>1 DEF IsInjective
<1>3. \A t \in T : \E i \in 1 .. n : f[i] = t
  OBVIOUS
<1>4. f \in Bijection(1 .. n, T)
  BY <1>1, <1>2, <1>3 DEF Bijection, Injection, Surjection
<1>5. ExistsBijection(1 .. n, T)
  BY <1>4 DEF ExistsBijection
<1> QED
  BY <1>5, FS_CountingElements

-----------------------------------------------------------------------------
(* The inductive invariant.                                                *)

\* A struct lba, named by the probe that allocated it.
Probe == (1 .. 4) \X Handles

ModuleTypes ==
  /\ mod \in {"out", "find", "in", "exit", "oops"}
  /\ class \in BOOLEAN /\ interface \in BOOLEAN
  /\ pnp \in 1 .. 4 /\ walk \subseteq Handles
  /\ lba_list \in Seq(Probe) /\ devices \subseteq Probe
  /\ mappings \in [Handles -> Nat]

\* The list, the devices and the memory are the same at every step, and no
\* bridge is on the list twice.
ListInv ==
  /\ devices = heap
  /\ \A d : d \in devices <=> \E i \in 1 .. Len(lba_list) : lba_list[i] = d
  /\ \A i, j \in 1 .. Len(lba_list) : lba_list[i][2] = lba_list[j][2] => i = j
  /\ \A d \in devices : mappings[d[2]] > 0
  /\ "device_unregister" \notin bad

OutInv == mod = "out" => lba_list = << >> /\ ~class /\ ~interface

\* Of the probes of known bridges, those that are over ended with a device or
\* with a failure.
Settled(h, i) == NameTaken(h) \/ <<i, h>> \in failed

SearchInv ==
  \A h \in Handles : FunctionId[h] \in KnownIds =>
    \A i \in PnpIds[h] :
      /\ mod = "find" /\ (i < pnp \/ (i = pnp /\ h \notin walk)) => Settled(h, i)
      /\ mod = "in" /\ class => Settled(h, i)

ModuleInv == ModuleTypes /\ ListInv /\ OutInv /\ SearchInv

-----------------------------------------------------------------------------
(* Every step keeps it.                                                    *)

LEMMA ModuleInvInit == ModuleInit => ModuleInv
<1> SUFFICES ASSUME ModuleInit
             PROVE  ModuleInv
  OBVIOUS
<1>1. /\ mod = "out" /\ class = FALSE /\ interface = FALSE /\ pnp = 1 /\ walk = {}
      /\ heap = {} /\ devices = {} /\ lba_list = << >>
      /\ mappings = [h \in Handles |-> 0] /\ bad = {}
  BY DEF ModuleInit
<1>2. lba_list \in Seq(Probe) /\ Len(lba_list) = 0
  BY <1>1
<1>3. ModuleTypes
  <2>1. class \in BOOLEAN /\ interface \in BOOLEAN
    BY <1>1, Zenon
  <2>2. mappings \in [Handles -> Nat]
    BY <1>1
  <2>3. mod \in {"out"} /\ pnp \in 1 .. 4 /\ walk \subseteq Handles /\ devices \subseteq Probe
    BY <1>1
  <2> QED
    BY <1>2, <2>1, <2>2, <2>3 DEF ModuleTypes
<1>4. ListInv
  BY <1>1, <1>2 DEF ListInv
<1> QED
  BY <1>1, <1>3, <1>4 DEF ModuleInv, OutInv, SearchInv

\* What the steps of register_hplba_class have in common.
LEMMA RegisterKeepsModule ==
  ASSUME ModuleInv, register_hplba_class
  PROVE  ModuleInv'
<1> USE DEF ModuleInv
<1>1. /\ mod = "out" /\ UNCHANGED <<heap, devices, lba_list, mappings>>
      /\ lba_list = << >> /\ devices = {}
      /\ \/ /\ mod' = "find" /\ class' = TRUE /\ interface' = OldKernel
            /\ pnp' = 1 /\ walk' = Matching(1) /\ bad' = bad
         \/ /\ mod' = "in" /\ UNCHANGED <<class, interface, pnp, walk>>
            /\ bad' \subseteq bad \cup {"class_unregister", "class_interface_unregister"}
  <2>1. lba_list = << >> /\ Len(lba_list) = 0 /\ mod = "out"
    BY DEF OutInv, register_hplba_class
  <2>2. devices = {}
    BY <2>1 DEF ListInv
  <2> QED
    BY <2>1, <2>2 DEF register_hplba_class
<1>2. ModuleTypes'
  <2>1. OldKernel \in BOOLEAN /\ Matching(1) \subseteq Handles
    BY ModuleAssumption DEF Matching
  <2>2. /\ class \in BOOLEAN /\ interface \in BOOLEAN
        /\ pnp \in 1 .. 4 /\ walk \subseteq Handles
    BY DEF ModuleTypes
  <2>3. mod' \in {"find", "in"} /\ pnp' \in 1 .. 4 /\ walk' \subseteq Handles
    BY <1>1, <2>1, <2>2
  <2>4. class' \in BOOLEAN /\ interface' \in BOOLEAN
    BY <1>1, <2>1, <2>2, Zenon
  <2> QED
    BY <1>1, <2>3, <2>4 DEF ModuleTypes
<1>3. ListInv'
  BY <1>1 DEF ListInv
<1>4. OutInv'
  BY <1>1 DEF OutInv
<1>5. SearchInv'
  <2> SUFFICES ASSUME NEW h \in Handles, FunctionId[h] \in KnownIds, NEW i \in PnpIds[h]
               PROVE  /\ mod' = "find" => ~(i < pnp' \/ (i = pnp' /\ h \notin walk'))
                      /\ ~(mod' = "in" /\ class')
    BY DEF SearchInv
  <2>1. i \in 1 .. 4
    BY ModuleAssumption
  <2> QED
    BY <1>1, <2>1 DEF OutInv, Matching
<1> QED
  BY <1>2, <1>3, <1>4, <1>5

\* A probe that adds no device.
LEMMA SkipKeepsModule ==
  ASSUME ModuleInv, NEW h \in walk, walk' = walk \ {h}, UNCHANGED <<pnp, kernel, lba_list>>,
         mod = "find", mod' \in {"find", "oops"},
         failed \subseteq failed',
         mod' = "find" /\ FunctionId[h] \in KnownIds => <<pnp, h>> \in failed',
         "device_unregister" \notin bad',
         mappings' = mappings \/ ioremap(h)
  PROVE  ModuleInv'
<1> USE DEF ModuleInv
<1>1. /\ UNCHANGED <<class, interface, devices, heap>>
      /\ h \in Handles /\ mappings' \in [Handles -> Nat]
      /\ \A k \in Handles : mappings'[k] >= mappings[k]
  BY DEF kernel, ModuleTypes, ioremap
<1>2. ModuleTypes' /\ OutInv'
  BY <1>1 DEF ModuleTypes, OutInv
<1>3. ListInv'
  <2>1. \A d \in devices : mappings'[d[2]] > 0
    <3> SUFFICES ASSUME NEW d \in devices
                 PROVE  mappings'[d[2]] > 0
      OBVIOUS
    <3>1. d[2] \in Handles /\ mappings[d[2]] > 0
      BY DEF ModuleTypes, Probe, ListInv
    <3> QED
      BY <1>1, <3>1 DEF ModuleTypes
  <2> QED
    BY <1>1, <2>1 DEF ListInv
<1>4. SearchInv'
  <2> SUFFICES ASSUME NEW k \in Handles, FunctionId[k] \in KnownIds, NEW i \in PnpIds[k],
                      mod' = "find", i < pnp \/ (i = pnp /\ k \notin walk')
               PROVE  NameTaken(k) \/ <<i, k>> \in failed'
    BY <1>1 DEF SearchInv, Settled, NameTaken
  <2>1. i < pnp \/ (i = pnp /\ k \notin walk) => Settled(k, i)
    BY DEF SearchInv
  <2>2. k \notin walk' => k \notin walk \/ k = h
    OBVIOUS
  <2> QED
    BY <2>1, <2>2 DEF Settled
<1> QED
  BY <1>2, <1>3, <1>4

LEMMA DeviceKeepsModule ==
  ASSUME ModuleInv, mod = "find", NEW h \in walk, walk' = walk \ {h}, UNCHANGED pnp,
         ProbeRegisters(h)
  PROVE  ModuleInv'
<1> USE DEF ModuleInv
<1> DEFINE d == <<pnp, h>>
           n == Len(lba_list)
<1>1. /\ UNCHANGED <<mod, class, interface, bad, failed>> /\ ~NameTaken(h)
      /\ mappings' = [mappings EXCEPT ![h] = @ + 1]
      /\ heap' = heap \cup {d} /\ devices' = devices \cup {d}
      /\ lba_list' = Append(lba_list, d)
      /\ h \in Handles /\ d \in Probe /\ d[2] = h
  BY DEF ProbeRegisters, ioremap, ModuleTypes, Probe
<1>2. /\ lba_list' \in Seq(Probe) /\ n \in Nat /\ Len(lba_list') = n + 1
      /\ \A i \in 1 .. n : lba_list'[i] = lba_list[i]
      /\ lba_list'[n + 1] = d
  BY <1>1, AppendList DEF ModuleTypes
<1>3. /\ mappings' \in [Handles -> Nat] /\ mappings'[h] > 0
      /\ \A k \in Handles : mappings'[k] >= mappings[k]
  BY <1>1 DEF ModuleTypes
<1> HIDE DEF d, n
<1>4. ModuleTypes'
  BY <1>1, <1>2, <1>3 DEF ModuleTypes
<1>5. OutInv'
  BY <1>1 DEF OutInv
<1>6. ListInv'
  <2>1. \A e : e \in devices' <=> \E i \in 1 .. n + 1 : lba_list'[i] = e
    <3>1. \A e : e \in devices <=> \E i \in 1 .. n : lba_list[i] = e
      BY DEF ListInv, n
    <3>2. 1 .. n + 1 = (1 .. n) \cup {n + 1}
      BY <1>2
    <3> QED
      BY <1>1, <1>2, <3>1, <3>2
  <2>2. \A i \in 1 .. n : lba_list[i] \in devices /\ lba_list[i][2] # h
    <3>1. \A i \in 1 .. n : lba_list[i] \in devices
      BY DEF ListInv, n
    <3> QED
      BY <1>1, <3>1 DEF NameTaken
  <2>3. \A i, j \in 1 .. n + 1 : lba_list'[i][2] = lba_list'[j][2] => i = j
    <3>1. \A i, j \in 1 .. n : lba_list[i][2] = lba_list[j][2] => i = j
      BY DEF ListInv, n
    <3> QED
      BY <1>1, <1>2, <2>2, <3>1
  <2>4. \A e \in devices' : mappings'[e[2]] > 0
    <3>1. ASSUME NEW e \in devices
          PROVE  mappings'[e[2]] > 0
      <4>1. e[2] \in Handles /\ mappings[e[2]] > 0
        BY DEF ModuleTypes, Probe, ListInv
      <4> QED
        BY <1>3, <4>1 DEF ModuleTypes
    <3> QED
      BY <1>1, <1>3, <3>1
  <2>5. devices' = heap' /\ "device_unregister" \notin bad'
    BY <1>1 DEF ListInv
  <2> QED
    BY <1>2, <2>1, <2>3, <2>4, <2>5 DEF ListInv
<1>7. SearchInv'
  <2>1. NameTaken(h)' /\ \A k : NameTaken(k) => NameTaken(k)'
    BY <1>1 DEF NameTaken
  <2> QED
    BY <1>1, <2>1 DEF SearchInv, Settled
<1> QED
  BY <1>4, <1>5, <1>6, <1>7

LEMMA ProbeKeepsModule ==
  ASSUME ModuleInv, lba_probe
  PROVE  ModuleInv'
<1>1. PICK h \in walk : /\ walk' = walk \ {h}
                        /\ \/ NoRegisters(h) \/ ProbeSkips(h) \/ ProbeNoMemory(h)
                           \/ ProbeRegisterFails(h) \/ ProbeRegisters(h)
  BY DEF lba_probe
<1>2. mod = "find" /\ UNCHANGED pnp /\ "device_unregister" \notin bad
  BY DEF lba_probe, ModuleInv, ListInv
<1>3. CASE NoRegisters(h)
  BY <1>1, <1>2, <1>3, SkipKeepsModule DEF NoRegisters
<1>4. CASE ProbeSkips(h)
  BY <1>1, <1>2, <1>4, SkipKeepsModule DEF ProbeSkips
<1>5. CASE ProbeNoMemory(h)
  BY <1>1, <1>2, <1>5, SkipKeepsModule DEF ProbeNoMemory
<1>6. CASE ProbeRegisterFails(h)
  BY <1>1, <1>2, <1>6, SkipKeepsModule DEF ProbeRegisterFails
<1>7. CASE ProbeRegisters(h)
  BY <1>1, <1>2, <1>7, DeviceKeepsModule
<1> QED
  BY <1>1, <1>3, <1>4, <1>5, <1>6, <1>7

LEMMA FindKeepsModule ==
  ASSUME ModuleInv, find_lbas
  PROVE  ModuleInv'
<1> USE DEF ModuleInv
<1>1. /\ mod = "find" /\ walk = {} /\ pnp \in 1 .. 4
      /\ UNCHANGED <<class, interface, devices, heap, lba_list, mappings, bad, failed>>
      /\ \/ pnp < 4 /\ pnp' = pnp + 1 /\ walk' = Matching(pnp + 1) /\ mod' = "find"
         \/ pnp = 4 /\ mod' = "in" /\ UNCHANGED <<pnp, walk>>
  BY DEF find_lbas, kernel, ModuleTypes
<1>2. ModuleTypes' /\ OutInv' /\ ListInv'
  BY <1>1 DEF ModuleTypes, OutInv, ListInv, Matching
<1>3. SearchInv'
  <2> SUFFICES ASSUME NEW h \in Handles, FunctionId[h] \in KnownIds, NEW i \in PnpIds[h]
               PROVE  /\ mod' = "find" /\ (i < pnp' \/ (i = pnp' /\ h \notin walk')) =>
                           Settled(h, i)
                      /\ mod' = "in" => Settled(h, i)
    BY <1>1 DEF SearchInv, Settled, NameTaken
  <2>1. i \in 1 .. 4
    BY ModuleAssumption
  <2>2. i <= pnp => Settled(h, i)
    BY <1>1, <2>1 DEF SearchInv
  <2> QED
    BY <1>1, <2>1, <2>2 DEF Matching
<1> QED
  BY <1>2, <1>3

\* The device that is taken out is registered, and no other stays with its
\* name.
LEMMA UnregisterKeepsModule ==
  ASSUME ModuleInv, UnregisterDevice
  PROVE  ModuleInv'
<1> USE DEF ModuleInv
<1> DEFINE d == Head(lba_list)
           n == Len(lba_list)
<1>1. /\ lba_list # << >> /\ mod' = "exit" /\ lba_list' = Tail(lba_list)
      /\ UNCHANGED <<class, interface, pnp, walk, mappings, failed>>
      /\ devices' = devices \ {d} /\ heap' = heap \ {d}
      /\ d \in devices => bad' = bad
  BY DEF UnregisterDevice, unregister_hplba_device
<1>2. /\ lba_list' \in Seq(Probe) /\ d = lba_list[1]
      /\ n \in Nat \ {0} /\ Len(lba_list') = n - 1
      /\ \A i \in 1 .. n - 1 : lba_list'[i] = lba_list[i + 1]
  BY <1>1, TailList DEF ModuleTypes
<1> HIDE DEF d, n
<1>3. /\ \A e : e \in devices <=> \E i \in 1 .. n : lba_list[i] = e
      /\ \A i, j \in 1 .. n : lba_list[i][2] = lba_list[j][2] => i = j
  BY DEF ListInv, n
<1>4. d \in devices
  BY <1>2, <1>3
<1>5. ModuleTypes' /\ OutInv' /\ SearchInv'
  BY <1>1, <1>2 DEF ModuleTypes, OutInv, SearchInv
<1>6. \A e : e \in devices' <=> \E i \in 1 .. n - 1 : lba_list'[i] = e
  <2> SUFFICES ASSUME NEW e
               PROVE  e \in devices' <=> \E i \in 1 .. n - 1 : lba_list'[i] = e
    OBVIOUS
  <2>1. ASSUME e \in devices, e # d
        PROVE  \E i \in 1 .. n - 1 : lba_list'[i] = e
    <3>1. PICK i \in 1 .. n : lba_list[i] = e
      BY <1>3, <2>1
    <3>2. i - 1 \in 1 .. n - 1 /\ (i - 1) + 1 = i
      BY <1>2, <2>1, <3>1
    <3>3. lba_list'[i - 1] = e
      BY <1>2, <3>1, <3>2
    <3> QED
      BY <3>2, <3>3
  <2>2. ASSUME NEW i \in 1 .. n - 1, lba_list'[i] = e
        PROVE  e \in devices /\ e # d
    <3>1. i + 1 \in 1 .. n /\ 1 \in 1 .. n /\ i + 1 # 1 /\ lba_list[i + 1] = e
      BY <1>2, <2>2
    <3>2. e # d
      <4>1. lba_list[i + 1][2] # lba_list[1][2]
        BY <1>3, <3>1
      <4> QED
        BY <1>2, <3>1, <4>1
    <3> QED
      BY <1>3, <3>1, <3>2
  <2> QED
    BY <1>1, <2>1, <2>2
<1>7. \A i, j \in 1 .. n - 1 : lba_list'[i][2] = lba_list'[j][2] => i = j
  <2> SUFFICES ASSUME NEW i \in 1 .. n - 1, NEW j \in 1 .. n - 1,
                      lba_list'[i][2] = lba_list'[j][2]
               PROVE  i = j
    OBVIOUS
  <2>1. i + 1 \in 1 .. n /\ j + 1 \in 1 .. n
    BY <1>2
  <2>2. lba_list[i + 1][2] = lba_list[j + 1][2]
    BY <1>2
  <2>3. i + 1 = j + 1
    BY <1>3, <2>1, <2>2
  <2> QED
    BY <2>3
<1>8. ListInv'
  BY <1>1, <1>2, <1>4, <1>6, <1>7 DEF ListInv
<1> QED
  BY <1>5, <1>8

LEMMA ExitKeepsModule ==
  ASSUME ModuleInv, unregister_hplba_class
  PROVE  ModuleInv'
<1>1. /\ mod' = "out" /\ class' = FALSE /\ interface' = FALSE /\ lba_list = << >>
      /\ UNCHANGED <<heap, devices, pnp, walk, lba_list, mappings, failed>>
      /\ bad' \subseteq bad \cup {"class_unregister", "class_interface_unregister"}
  BY DEF unregister_hplba_class
<1> QED
  BY <1>1 DEF ModuleInv, ModuleTypes, ListInv, OutInv, SearchInv

LEMMA ModuleInvKept ==
  ASSUME ModuleInv, [ModuleNext]_moduleVars
  PROVE  ModuleInv'
<1>1. CASE UNCHANGED moduleVars
  BY <1>1 DEF moduleVars, kernel, ModuleInv, ModuleTypes, ListInv, OutInv, SearchInv,
              Settled, NameTaken
<1> QED
  BY <1>1, RegisterKeepsModule, ProbeKeepsModule, FindKeepsModule, UnregisterKeepsModule,
     ExitKeepsModule DEF ModuleNext, hplba_init, hplba_exit

\* At every step of lba_probe, find_lbas and hplba_exit, the list is what is
\* registered and allocated.
THEOREM ModuleInvariant == ModuleSpec => []ModuleInv
<1>1. ModuleInit => ModuleInv
  BY ModuleInvInit
<1>2. ModuleInv /\ [ModuleNext]_moduleVars => ModuleInv'
  BY ModuleInvKept
<1> QED
  BY <1>1, <1>2, PTL DEF ModuleSpec

-----------------------------------------------------------------------------
(* Theorems.                                                               *)

\* lba_probe registers a device for a bridge at most once, and puts exactly
\* the bridges with a device on the list.
THEOREM DevicesTheorem == ModuleSpec => []OneDevicePerBridge
<1>1. ASSUME ModuleInv
      PROVE  OneDevicePerBridge
  <2> DEFINE n == Len(lba_list)
  <2>1. n \in Nat
    BY <1>1 DEF ModuleInv, ModuleTypes
  <2>2. /\ \A d : d \in devices <=> \E i \in 1 .. n : lba_list[i] = d
        /\ \A i, j \in 1 .. n : lba_list[i][2] = lba_list[j][2] => i = j
        /\ devices = heap /\ \A d \in devices : mappings[d[2]] > 0
    BY <1>1 DEF ModuleInv, ListInv
  <2>3. ToSet(lba_list) = devices
    <3>1. DOMAIN lba_list = 1 .. n
      BY <1>1 DEF ModuleInv, ModuleTypes
    <3> QED
      BY <2>2, <3>1 DEF ToSet
  <2> DEFINE T == {dev[2] : dev \in devices}
  <2>4. \A t : t \in T <=> \E i \in 1 .. n : lba_list[i][2] = t
    BY <2>2
  <2> HIDE DEF n, T
  <2>5. Cardinality(T) = n
    BY <2>1, <2>2, <2>4, CountNames
  <2> QED
    BY <2>2, <2>3, <2>5 DEF OneDevicePerBridge, n, T
<1> QED
  BY <1>1, ModuleInvariant, PTL

\* The loops of find_lbas and acpi_get_devices leave out no bridge of a known
\* chipset, whichever of the PNP ids it matches.
THEOREM FoundTheorem ==
  ModuleSpec => []AllFound
<1>1. ASSUME ModuleInv
      PROVE  AllFound
  <2> SUFFICES ASSUME mod = "in", class, NEW h \in Handles,
                      FunctionId[h] \in KnownIds, PnpIds[h] # {}
               PROVE  NameTaken(h) \/ \E i \in PnpIds[h] : <<i, h>> \in failed
    BY DEF AllFound
  <2>1. \A i \in PnpIds[h] : Settled(h, i)
    BY <1>1 DEF ModuleInv, SearchInv
  <2> QED
    BY <2>1 DEF Settled
<1> QED
  BY <1>1, ModuleInvariant, PTL

\* hplba_exit takes back all that lba_probe and register_hplba_class left in
\* the kernel, whatever failed.
THEOREM NothingLeftTheorem == ModuleSpec => []NothingLeft
<1>1. ASSUME ModuleInv
      PROVE  NothingLeft
  <2> SUFFICES ASSUME mod = "out"
               PROVE  /\ lba_list = << >> /\ devices = {} /\ heap = {}
                      /\ ~class /\ ~interface /\ "device_unregister" \notin bad
    BY DEF NothingLeft
  <2>1. lba_list = << >> /\ ~class /\ ~interface
    BY <1>1 DEF ModuleInv, OutInv
  <2>2. Len(lba_list) = 0
    BY <2>1
  <2> QED
    BY <1>1, <2>1, <2>2 DEF ModuleInv, ListInv
<1> QED
  BY <1>1, ModuleInvariant, PTL

=============================================================================
