------------------------------ MODULE Chipsets ------------------------------
(***************************************************************************)
(* The three root bridge chipsets the hplba driver knows, as far as the    *)
(* utilization counters are concerned.                                     *)
(*                                                                         *)
(* Each operation of a chipset's lba_util_ops (drivers/apollo.c, gemini.c  *)
(* and mercury.c) is a straight line of LBA_REG_WRITEs.  It is modelled as *)
(* the sequence of those writes, each a register field and the value       *)
(* stored in it, so that the driver can execute it one write at a time.    *)
(* LBA_REG_WRITE reads the register, replaces one field and writes it back *)
(* (hplba.h, lines 179-202); the three fields lie in three different       *)
(* registers and every writer replaces the whole field, so the outcome of  *)
(* two racing writes is the value of the last one: a write is one step.    *)
(* Values are the hexadecimal literals of the source.                      *)
(***************************************************************************)

Chips == {"apollo", "gemini", "mercury"}

\* The register fields the utilization operations write.
Regs == {"DIAG_EN0", "CTRL0A_ALWAYS_CNT", "DIAG_CTRL1"}

\* The text a client writes to the "utilization" attribute, and the names in
\* util_states_tab: the four commands, and "unknown".
UtilCommands == {"init", "reset", "start", "stop"}
UtilStates   == UtilCommands \cup {"unknown"}

Write(r, v) == [reg |-> r, val |-> v]

-----------------------------------------------------------------------------
\* drivers/apollo.c: the event selector is a two bit field (0x3 << 33).

apollo_util_ops ==
  [init  |-> << Write("DIAG_EN0", "0x0"),
                Write("CTRL0A_ALWAYS_CNT", "0x1"),
                Write("DIAG_CTRL1", "0x3") >>,
   reset |-> << Write("DIAG_EN0", "0xf") >>,
   start |-> << Write("DIAG_EN0", "0x3") >>,
   stop  |-> << Write("DIAG_EN0", "0x0") >>]

\* drivers/gemini.c: the whole of DIAG_CTRL1 is written.

gemini_util_ops ==
  [init  |-> << Write("DIAG_EN0", "0x0"),
                Write("CTRL0A_ALWAYS_CNT", "0x1"),
                Write("DIAG_CTRL1", "0x797900ff001f043c") >>,
   reset |-> << Write("DIAG_EN0", "0xf") >>,
   start |-> << Write("DIAG_EN0", "0x3") >>,
   stop  |-> << Write("DIAG_EN0", "0x0") >>]

\* drivers/mercury.c: as Gemini, at another register offset.

mercury_util_ops ==
  [init  |-> << Write("DIAG_EN0", "0x0"),
                Write("CTRL0A_ALWAYS_CNT", "0x1"),
                Write("DIAG_CTRL1", "0x797900ff001f043c") >>,
   reset |-> << Write("DIAG_EN0", "0xf") >>,
   start |-> << Write("DIAG_EN0", "0x3") >>,
   stop  |-> << Write("DIAG_EN0", "0x0") >>]

\* lba_info_tab and find_lba_ops: the operations of a chipset.
lba_info_tab == [apollo  |-> apollo_util_ops,
                 gemini  |-> gemini_util_ops,
                 mercury |-> mercury_util_ops]
util_ops(chip) == lba_info_tab[chip]

\* The event "the bus transfers data": the value that util_init leaves in
\* DIAG_CTRL1.  Which event a value selects is a fact about the hardware.
BusyEvent(chip) == IF chip = "apollo" THEN "0x3" ELSE "0x797900ff001f043c"

=============================================================================
