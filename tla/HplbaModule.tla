---------------------------- MODULE HplbaModule ----------------------------
(***************************************************************************)
(* Inserting and removing the hplba driver (src/drivers/hplba_drv.c and    *)
(* hplba_sysfs.c): the sysfs class, the probe of the bridges that ACPI     *)
(* knows, their devices, and the way back.                                 *)
(*                                                                         *)
(* A struct lba is named by the probe that allocated it: the index of the  *)
(* PNP id and the ACPI handle it was called with.  The kernel's part is    *)
(* external: it keeps a set of registered names, refuses a name twice, and *)
(* leaves a module inserted whose init returns a positive number.          *)
(***************************************************************************)
EXTENDS Naturals, Sequences, SequencesExt

CONSTANTS
  Handles,       \* the ACPI handles of devices
  PnpIds,        \* the indices in pnpids that a handle matches
  FunctionId,    \* what LBA_FUNC_ID reads at a handle's bridge
  OldKernel,     \* before 2.6.26: there is a class interface
  Faults,        \* what may fail: "class", "interface", "csr", "acpi_device",
                 \* "pci_id", "kmalloc", "device_add"
  MaxLoads       \* bound: how often the driver is inserted

KnownIds == {"apollo", "gemini", "mercury"}   \* lba_info_tab

ASSUME ModuleAssumption ==
  /\ PnpIds \in [Handles -> SUBSET (1..4)]
  /\ FunctionId \in [Handles -> KnownIds \cup {"unknown"}]
  /\ OldKernel \in BOOLEAN
  /\ MaxLoads \in Nat

VARIABLES
  mod,           \* the module: out, in one of the steps of its init, or in
  class,         \* lba_class is registered
  interface,     \* lba_class_inf is registered
  pnp,           \* the loop index of find_lbas
  walk,          \* handles that acpi_get_devices has still to call with
  heap,          \* struct lba allocated
  devices,       \* struct lba whose device is registered
  lba_list,
  mappings,      \* how often ioremap mapped the registers of a handle's bridge
  bad,           \* calls made with something that is not there
  failed,        \* probes in which a call failed
  loads

kernel == <<class, interface, devices, heap>>
moduleVars == <<mod, kernel, pnp, walk, lba_list, mappings, bad, failed, loads>>

Matching(i) == {h \in Handles : i \in PnpIds[h]}

ModuleInit ==
  /\ mod = "out"
  /\ class = FALSE /\ interface = FALSE
  /\ pnp = 1 /\ walk = {}
  /\ heap = {} /\ devices = {} /\ lba_list = <<>>
  /\ mappings = [h \in Handles |-> 0]
  /\ bad = {} /\ failed = {}
  /\ loads = 0

-----------------------------------------------------------------------------
(* hplba_init.  A definition Faulty... is the definition after it with a   *)
(* plausible slip in it, used to see that a property notices the slip.     *)

\* The steps of register_hplba_class.  When one fails, the calls on its way
\* out undo also the step that failed.
register_hplba_class ==
  /\ mod = "out"
  /\ loads < MaxLoads
  /\ loads' = loads + 1
  /\ failed' = {}
  /\ \/ /\ mod' = "find" /\ class' = TRUE /\ interface' = OldKernel
        /\ pnp' = 1 /\ walk' = Matching(1)
        /\ UNCHANGED bad
     \/ /\ "class" \in Faults
        /\ mod' = "in"
        /\ bad' = bad \cup {"class_unregister"}
        /\ UNCHANGED <<class, interface, pnp, walk>>
     \/ /\ "interface" \in Faults /\ OldKernel
        /\ mod' = "in"
        /\ bad' = bad \cup {"class_interface_unregister"}
        /\ UNCHANGED <<class, interface, pnp, walk>>
  /\ UNCHANGED <<heap, devices, lba_list, mappings>>

\* hp_acpi_csr_space fails: lba_probe returns before it maps the registers.
NoRegisters(h) ==
  /\ "csr" \in Faults
  /\ failed' = failed \cup {<<pnp, h>>}
  /\ UNCHANGED <<mod, kernel, lba_list, mappings, bad>>

\* The registers are mapped to read the function id.  No way out of
\* lba_probe, and nothing in hplba_exit, takes the mapping back.
ioremap(h) == mappings' = [mappings EXCEPT ![h] = @ + 1]

\* A call of lba_probe that finds no bridge it can use: it returns AE_OK.
ProbeSkips(h) ==
  /\ ioremap(h)
  /\ \/ FunctionId[h] \notin KnownIds /\ UNCHANGED failed
     \/ /\ Faults \cap {"acpi_device", "pci_id"} # {}
        /\ failed' = failed \cup {<<pnp, h>>}
  /\ UNCHANGED <<mod, kernel, lba_list, bad>>

\* kmalloc returns NULL, which memset is called with before the test.
ProbeNoMemory(h) ==
  /\ ioremap(h)
  /\ FunctionId[h] \in KnownIds
  /\ "kmalloc" \in Faults
  /\ mod' = "oops"
  /\ bad' = bad \cup {"memset"}
  /\ UNCHANGED <<kernel, lba_list, failed>>

\* The device has the name of the bridge's PCI address, so the kernel refuses
\* a second one for the same handle.
NameTaken(h) == \E dev \in devices : dev[2] = h

FaultyProbeRegisterFails(h) ==   \* freed, but already on the list
  /\ ioremap(h)
  /\ FunctionId[h] \in KnownIds
  /\ NameTaken(h) \/ "device_add" \in Faults
  /\ failed' = failed \cup {<<pnp, h>>}
  /\ lba_list' = Append(lba_list, <<pnp, h>>)
  /\ UNCHANGED <<mod, kernel, bad>>

\* register_hplba_device fails: the struct lba is freed.
ProbeRegisterFails(h) ==
  /\ ioremap(h)
  /\ FunctionId[h] \in KnownIds
  /\ NameTaken(h) \/ "device_add" \in Faults
  /\ failed' = failed \cup {<<pnp, h>>}
  /\ UNCHANGED <<mod, kernel, lba_list, bad>>

FaultyProbeRegisters(h) ==       \* the list is not kept
  /\ ioremap(h)
  /\ FunctionId[h] \in KnownIds
  /\ ~NameTaken(h)
  /\ heap' = heap \cup {<<pnp, h>>}
  /\ devices' = devices \cup {<<pnp, h>>}
  /\ UNCHANGED <<mod, class, interface, lba_list, bad, failed>>

\* The bridge gets its device, and then its place in the list.  Its segment is
\* stored, too, and never read.
ProbeRegisters(h) ==
  /\ ioremap(h)
  /\ FunctionId[h] \in KnownIds
  /\ ~NameTaken(h)
  /\ heap' = heap \cup {<<pnp, h>>}
  /\ devices' = devices \cup {<<pnp, h>>}
  /\ lba_list' = Append(lba_list, <<pnp, h>>)
  /\ UNCHANGED <<mod, class, interface, bad, failed>>

lba_probe ==
  /\ mod = "find"
  /\ \E h \in walk :
       /\ walk' = walk \ {h}
       /\ \/ NoRegisters(h)
          \/ ProbeSkips(h)
          \/ ProbeNoMemory(h)
          \/ ProbeRegisterFails(h)
          \/ ProbeRegisters(h)
  /\ UNCHANGED <<pnp, loads>>

FaultyFindLbas ==                \* the last PNP id is left out
  /\ mod = "find"
  /\ walk = {}
  /\ IF pnp < 3
       THEN pnp' = pnp + 1 /\ walk' = Matching(pnp + 1) /\ UNCHANGED mod
       ELSE mod' = "in" /\ UNCHANGED <<pnp, walk>>
  /\ UNCHANGED <<kernel, lba_list, mappings, bad, failed, loads>>

\* The loop of find_lbas goes on, or hplba_init returns: 0, or 1 when the list
\* is empty, and with both the module is in.
find_lbas ==
  /\ mod = "find"
  /\ walk = {}
  /\ IF pnp < 4
       THEN pnp' = pnp + 1 /\ walk' = Matching(pnp + 1) /\ UNCHANGED mod
       ELSE mod' = "in" /\ UNCHANGED <<pnp, walk>>
  /\ UNCHANGED <<kernel, lba_list, mappings, bad, failed, loads>>

-----------------------------------------------------------------------------
(* hplba_exit.                                                             *)

\* The device of a bridge is taken from the kernel.
unregister_hplba_device(dev) ==
  /\ devices' = devices \ {dev}
  /\ bad' = IF dev \in devices THEN bad ELSE bad \cup {"device_unregister"}

FaultyUnregisterDevice ==        \* kfree is left to the release function
  /\ mod \in {"in", "exit"}
  /\ lba_list # <<>>
  /\ mod' = "exit"
  /\ lba_list' = Tail(lba_list)
  /\ unregister_hplba_device(Head(lba_list))
  /\ UNCHANGED <<class, interface, heap, pnp, walk, mappings, failed, loads>>

\* One round of the loop over lba_list: list_del, unregister_hplba_device and
\* kfree.
UnregisterDevice ==
  /\ mod \in {"in", "exit"}
  /\ lba_list # <<>>
  /\ mod' = "exit"
  /\ lba_list' = Tail(lba_list)
  /\ unregister_hplba_device(Head(lba_list))
  /\ heap' = heap \ {Head(lba_list)}
  /\ UNCHANGED <<class, interface, pnp, walk, mappings, failed, loads>>

unregister_hplba_class ==
  /\ mod \in {"in", "exit"}
  /\ lba_list = <<>>
  /\ mod' = "out"
  /\ class' = FALSE /\ interface' = FALSE
  /\ bad' = bad \cup (IF class THEN {} ELSE {"class_unregister"})
                \cup (IF interface = OldKernel THEN {} ELSE {"class_interface_unregister"})
  /\ UNCHANGED <<heap, devices, pnp, walk, lba_list, mappings, failed, loads>>

hplba_init == register_hplba_class \/ lba_probe \/ find_lbas
hplba_exit == UnregisterDevice \/ unregister_hplba_class

ModuleNext == hplba_init \/ hplba_exit

ModuleSpec == ModuleInit /\ [][ModuleNext]_moduleVars

-----------------------------------------------------------------------------

\* While the module is in, what the list holds, what is registered and what
\* is allocated are the same, no bridge is there twice, although it may match
\* several PNP ids and any probe may fail, and the registers of each are mapped
\* (lba_probe).
OneDevicePerBridge ==
  mod = "in" =>
    /\ ToSet(lba_list) = devices /\ devices = heap
    /\ Len(lba_list) = Cardinality({dev[2] : dev \in devices})
    /\ \A dev \in heap : mappings[dev[2]] > 0

\* A bridge of a known chipset that matches a PNP id is missing only when one
\* of its probes failed (find_lbas, lba_probe).
AllFound ==
  mod = "in" /\ class =>
    \A h \in Handles :
      FunctionId[h] \in KnownIds /\ PnpIds[h] # {} =>
        \/ NameTaken(h)
        \/ \E i \in PnpIds[h] : <<i, h>> \in failed

\* Once the module is out, no device, memory or class of it stays in the
\* kernel, whatever failed before, and no device was unregistered that was not
\* there (hplba_exit).  Only the mappings of ioremap stay.
NothingLeft ==
  mod = "out" =>
    /\ lba_list = <<>> /\ devices = {} /\ heap = {}
    /\ ~class /\ ~interface
    /\ "device_unregister" \notin bad

=============================================================================
