------------------------------- MODULE Hplba --------------------------------
(***************************************************************************)
(* The hplba kernel driver: the "utilization" attribute that it exposes    *)
(* for each root bridge (LBA), the state machine behind it and the chipset *)
(* registers and counters it drives.                                       *)
(*                                                                         *)
(* A client is a process that is inside a system call on the attribute.    *)
(* The driver takes no lock (sysfs serialises the users of one open file,  *)
(* not those of two), so a call is a series of steps that interleave with  *)
(* the calls of other clients and with the bus clock:                      *)
(*                                                                         *)
(*   store:  read util_state -> check the transition and set util_state    *)
(*           -> one step per register write of the chipset's operation     *)
(*   show:   read the timer -> read the counter                            *)
(***************************************************************************)
EXTENDS Integers, Sequences, Chipsets

CONSTANTS
  Lba,        \* the root bridges the driver registered
  Client,     \* processes that may have a call in progress
  Opens,      \* the root bridges whose attribute each client uses
  chip,       \* the chipset of each root bridge
  Populated,  \* the root bridges with a device behind them
  CntrMod,    \* the counters count modulo this (2^48 in the chipsets)
  MaxReloads  \* bound: how often the driver is removed and inserted again

ASSUME HplbaAssumption ==
  /\ chip \in [Lba -> Chips]
  /\ Populated \subseteq Lba
  /\ CntrMod \in Nat \ {0}
  /\ MaxReloads \in Nat

ASSUME OpensAssumption == Opens \in [Client -> SUBSET Lba]

VARIABLES
  loaded,      \* is the driver inserted (are its sysfs files there)?
  reloads,     \* how often it was removed
  util_state,  \* lba->util_state of each root bridge
  reg,         \* the register fields of each root bridge
  timer,       \* DIAG_CTRL0_TIMER of each root bridge
  cntr,        \* DIAG_CTRL1_CNTR1 of each root bridge
  call         \* the call each client is in

driver == <<loaded, reloads, util_state>>
hw     == <<reg, timer, cntr>>
hplbaVars == <<driver, hw, call>>

-----------------------------------------------------------------------------
(* States.                                                                 *)

Idle == [pc |-> "idle"]

\* A store that has read util_state and not yet acted on it, a store that is
\* executing its chipset operation, and a show that has read the timer.
CheckCall == [pc : {"check"}, lba : Lba, cmd : UtilCommands, cur : UtilStates]
RegsCall  == [pc : {"regs"}, lba : Lba, cmd : UtilCommands, i : 1 .. 3]
ShowCall  == [pc : {"cntr"}, lba : Lba, timer : 0 .. CntrMod - 1]

\* Values a register field holds: those the driver writes, and for the event
\* selector the one that was there before.
EN0Values   == {"0x0", "0x3", "0xf"}
RegFile(l)  == [DIAG_EN0          : EN0Values,
                CTRL0A_ALWAYS_CNT : {"0x0", "0x1"},
                DIAG_CTRL1        : {"other", BusyEvent(chip[l])}]

Counting(l)   == reg[l].DIAG_EN0 = "0x3"
Programmed(l) == /\ reg[l].CTRL0A_ALWAYS_CNT = "0x1"
                 /\ reg[l].DIAG_CTRL1 = BusyEvent(chip[l])

\* No client is in a store on l.
NoStore(l)  == \A c \in Client :
                 call[c].pc \in {"check", "regs"} => call[c].lba # l

TypeOK ==
  /\ loaded \in BOOLEAN
  /\ reloads \in 0 .. MaxReloads
  /\ util_state \in [Lba -> UtilStates]
  /\ DOMAIN reg = Lba /\ \A l \in Lba : reg[l] \in RegFile(l)
  /\ timer \in [Lba -> 0 .. CntrMod - 1]
  /\ cntr \in [Lba -> 0 .. CntrMod - 1]
  /\ call \in [Client -> {Idle} \cup CheckCall \cup RegsCall \cup ShowCall]

-----------------------------------------------------------------------------
(* The attribute's store method.  A definition named Faulty... is the one  *)
(* after it with one slip of the pen.  No definition uses it; it shows     *)
(* that a property notices the slip.                                       *)

\* hplba_util_state_to_value: the text is looked up in util_states_tab.
hplba_util_state_to_value(text) ==
  IF text \in UtilStates THEN text ELSE "unknown"

FaultyLegalFrom ==          \* start and stop fall through to break
  [init  |-> UtilStates,
   reset |-> UtilCommands,
   start |-> UtilStates,
   stop  |-> UtilStates]

\* The nested switches of set_util_state: from which states each state may be
\* entered.
LegalFrom ==
  [init  |-> UtilStates,
   reset |-> {"init", "reset", "start", "stop"},
   start |-> {"reset", "start", "stop"},
   stop  |-> {"start", "stop"}]

FaultyStoreUnparsed(c, l, text) ==  \* without the test for LBA_UTILSTATE_UNK
  /\ loaded
  /\ call[c] = Idle
  /\ call' = [call EXCEPT ![c] =
       [pc |-> "check", lba |-> l, cmd |-> hplba_util_state_to_value(text),
        cur |-> util_state[l]]]
  /\ UNCHANGED <<driver, hw>>

\* A client opens the attribute and writes to it.  Text that names no state,
\* and "unknown", is answered by -EINVAL at once.  set_util_state then reads
\* the current state.
utilization_store(c, l, text) ==
  /\ loaded
  /\ call[c] = Idle
  /\ hplba_util_state_to_value(text) # "unknown"
  /\ call' = [call EXCEPT ![c] =
       [pc |-> "check", lba |-> l, cmd |-> hplba_util_state_to_value(text),
        cur |-> util_state[l]]]
  /\ UNCHANGED <<driver, hw>>

FaultySetUtilState(c) ==    \* the new state is stored before it is checked
  /\ call[c].pc = "check"
  /\ util_state' = [util_state EXCEPT ![call[c].lba] = call[c].cmd]
  /\ call' = [call EXCEPT ![c] =
       IF call[c].cur \in LegalFrom[call[c].cmd]
         THEN [pc |-> "regs", lba |-> call[c].lba, cmd |-> call[c].cmd, i |-> 1]
         ELSE Idle]
  /\ UNCHANGED <<loaded, reloads, hw>>

\* The rest of set_util_state up to the call of the chipset operation: the
\* transition is checked against the state read before, and the new state is
\* stored, or the call fails with -EINVAL.
set_util_state(c) ==
  /\ call[c].pc = "check"
  /\ \/ /\ call[c].cur \in LegalFrom[call[c].cmd]
        /\ util_state' = [util_state EXCEPT ![call[c].lba] = call[c].cmd]
        /\ call' = [call EXCEPT ![c] =
             [pc |-> "regs", lba |-> call[c].lba, cmd |-> call[c].cmd, i |-> 1]]
     \/ /\ call[c].cur \notin LegalFrom[call[c].cmd]
        /\ call' = [call EXCEPT ![c] = Idle]
        /\ UNCHANGED util_state
  /\ UNCHANGED <<loaded, reloads, hw>>

FaultyUtilOp(c) ==          \* returns after the second register write
  /\ call[c].pc = "regs"
  /\ LET l  == call[c].lba
         op == util_ops(chip[l])[call[c].cmd]
         w  == op[call[c].i]
     IN /\ reg' = [reg EXCEPT ![l][w.reg] = w.val]
        /\ call' = [call EXCEPT ![c] =
             IF call[c].i < Len(op) - 1
               THEN [call[c] EXCEPT !.i = call[c].i + 1] ELSE Idle]
  /\ UNCHANGED <<driver, timer, cntr>>

FaultyUtilOpShared(c) ==    \* all bridges are accessed through one phys_addr
  /\ call[c].pc = "regs"
  /\ LET op == util_ops(chip[call[c].lba])[call[c].cmd]
         w  == op[call[c].i]
     IN /\ reg' = [l \in Lba |-> [reg[l] EXCEPT ![w.reg] = w.val]]
        /\ call' = [call EXCEPT ![c] =
             IF call[c].i < Len(op)
               THEN [call[c] EXCEPT !.i = call[c].i + 1] ELSE Idle]
  /\ UNCHANGED <<driver, timer, cntr>>

\* One LBA_REG_WRITE of the chipset operation.  Storing 0xf in DIAG_EN0 clears
\* the counters.  After the last write the store returns.
util_op(c) ==
  /\ call[c].pc = "regs"
  /\ LET l  == call[c].lba
         op == util_ops(chip[l])[call[c].cmd]
         w  == op[call[c].i]
     IN /\ reg' = [reg EXCEPT ![l][w.reg] = w.val]
        /\ IF w.val = "0xf"
             THEN /\ timer' = [timer EXCEPT ![l] = 0]
                  /\ cntr' = [cntr EXCEPT ![l] = 0]
             ELSE UNCHANGED <<timer, cntr>>
        /\ call' = [call EXCEPT ![c] =
             IF call[c].i < Len(op)
               THEN [call[c] EXCEPT !.i = call[c].i + 1] ELSE Idle]
  /\ UNCHANGED driver

-----------------------------------------------------------------------------
(* The attribute's show method.                                            *)

\* xxx_utilization reads the timer ...
utilization_show(c, l) ==
  /\ loaded
  /\ call[c] = Idle
  /\ call' = [call EXCEPT ![c] = [pc |-> "cntr", lba |-> l,
                                  timer |-> timer[l]]]
  /\ UNCHANGED <<driver, hw>>

\* ... and then the counter, and both are formatted for the reader, who gets
\* call[c].timer and cntr[call[c].lba].
utilization_show_cntr(c) ==
  /\ call[c].pc = "cntr"
  /\ call' = [call EXCEPT ![c] = Idle]
  /\ UNCHANGED <<driver, hw>>

-----------------------------------------------------------------------------
(* The driver's life, and the hardware.                                    *)

\* rmmod.  A process inside a call keeps the module pinned.
hplba_exit ==
  /\ loaded
  /\ reloads < MaxReloads
  /\ \A c \in Client : call[c] = Idle
  /\ loaded' = FALSE
  /\ reloads' = reloads + 1
  /\ UNCHANGED <<util_state, hw, call>>

\* insmod.  lba_probe starts every root bridge in state unknown; the registers
\* stay as they are.
hplba_init ==
  /\ ~loaded
  /\ loaded' = TRUE
  /\ util_state' = [l \in Lba |-> "unknown"]
  /\ UNCHANGED <<reloads, hw, call>>

\* One cycle of the bus behind l, in which data is transferred (busy = 1) or
\* not.  While DIAG_EN0 is 0x3 the timer counts cycles if it was told to count
\* always, and the counter counts the selected event; a counter that was not
\* programmed counts something else.  With no device behind the bridge the
\* counter counts every cycle (the comment in measure_utilization).
BusCycle(l, busy) ==
  /\ IF Counting(l)
       THEN \E dt, dc \in {0, 1} :
              /\ reg[l].CTRL0A_ALWAYS_CNT = "0x1" => dt = 1
              /\ reg[l].DIAG_CTRL1 = BusyEvent(chip[l]) =>
                   dc = IF l \in Populated THEN busy ELSE 1
              /\ timer' = [timer EXCEPT ![l] = (@ + dt) % CntrMod]
              /\ cntr' = [cntr EXCEPT ![l] = (@ + dc) % CntrMod]
       ELSE UNCHANGED <<timer, cntr>>
  /\ UNCHANGED <<driver, reg, call>>

-----------------------------------------------------------------------------
(* The driver on its own, with clients that make any call.                 *)

\* The driver has just been inserted; an earlier user of the chipset may have
\* left the registers in any state.
HplbaInit ==
  /\ loaded = TRUE
  /\ reloads = 0
  /\ util_state = [l \in Lba |-> "unknown"]
  /\ reg \in [Lba -> UNION {RegFile(l) : l \in Lba}]
  /\ \A l \in Lba : reg[l] \in RegFile(l)
  /\ timer = [l \in Lba |-> 0]
  /\ cntr = [l \in Lba |-> 0]
  /\ call = [c \in Client |-> Idle]

\* What clients write: the states' names, and text that is none of them.
Texts == UtilStates \cup {"none of these"}

Call(c) ==
  \/ \E l \in Opens[c], text \in Texts : utilization_store(c, l, text)
  \/ set_util_state(c)
  \/ util_op(c)
  \/ \E l \in Opens[c] : utilization_show(c, l)
  \/ utilization_show_cntr(c)

Bus == \E l \in Lba, busy \in {0, 1} : BusCycle(l, busy)

HplbaNext == (\E c \in Client : Call(c)) \/ hplba_exit \/ hplba_init \/ Bus

HplbaSpec == HplbaInit /\ [][HplbaNext]_hplbaVars

-----------------------------------------------------------------------------
(* Properties.                                                             *)

\* The registers that util_state stands for.
HwMatchesState(l) ==
  /\ util_state[l] \in {"init", "stop"} => reg[l].DIAG_EN0 = "0x0"
  /\ util_state[l] = "reset" => reg[l].DIAG_EN0 = "0xf"
  /\ util_state[l] = "start" => reg[l].DIAG_EN0 = "0x3"

\* No two clients use bridge l.
Exclusive(l) == \A c, d \in Client : l \in Opens[c] \cap Opens[d] => c = d

\* Between stores, util_state tells what the hardware is doing: the counters
\* run exactly in state "start" and are held cleared in state "reset".
\* set_util_state checks transitions on the strength of that.  It holds for
\* a bridge that one client uses, whatever others do with other bridges; two
\* stores on one bridge whose register writes overtake each other break it.
StateMatchesHw ==
  \A l \in Lba : Exclusive(l) /\ NoStore(l) => HwMatchesState(l)

\* Whatever the interleaving of stores, a bridge that has left "unknown" and
\* has no store in progress has its counters programmed to count the busy
\* event: no start or stop can get ahead of the initialisation for good.
ProgrammedWhenQuiet ==
  \A l \in Lba : util_state[l] # "unknown" /\ NoStore(l) => Programmed(l)

\* Only init takes a bridge out of "unknown", and only removing the driver
\* takes it back there, however the calls interleave.
InitFirst ==
  [][\A l \in Lba :
       /\ util_state[l] = "unknown" => util_state'[l] \in {"unknown", "init"}
       /\ util_state'[l] = "unknown" /\ util_state[l] # "unknown" => ~loaded
    ]_hplbaVars

TransitionLegal(l) ==
  loaded /\ util_state'[l] # util_state[l] =>
    util_state[l] \in LegalFrom[util_state'[l]]

\* Every change of util_state of a bridge that one client uses is one that the
\* switches of set_util_state allow, although the check and the assignment are
\* two steps.
ExclusiveTransitions ==
  [][\A l \in Lba : Exclusive(l) => TransitionLegal(l)]_hplbaVars

\* The same for every bridge: set_util_state reports any other change as an
\* "illegal transition" (hplba_drv.c:167-172).
LegalTransitions ==
  [][\A l \in Lba : TransitionLegal(l)]_hplbaVars

=============================================================================
