------------------------------ MODULE ChipInfo ------------------------------
(***************************************************************************)
(* The read-only attributes of a bridge: revision, bus_mode, bus_speed and *)
(* ropes as the chipset code decodes them (src/drivers/apollo.c, gemini.c, *)
(* mercury.c), read by several processes, and the names of modes and       *)
(* speeds on their way to pcitop's fields (hplba.h, pcitop.c).             *)
(*                                                                         *)
(* reg[l] holds the fields of bridge l's registers that the code reads.    *)
(***************************************************************************)
EXTENDS Integers, Sequences, SequencesExt

CONSTANTS
  Lba,           \* bridges
  Reader,        \* processes that read attributes
  RegisterSets,  \* what the registers of a bridge may hold
  MaxReads       \* bound: calls of a reader

\* The chipsets that have operations.
Chips == {"apollo", "gemini", "mercury"}

\* The characters of a revision, "%lu.%lu" of two fields of four bits, and
\* the size of the buffers that it is printed to.
RevisionChars == {"0", "1", "2", "3", "4", "5", "6", "7", "8", "9", "."}
Nul == "NUL"
REVISION_SIZE == 6

\* The fields that tables are indexed by, in the width of the registers'
\* masks; a revision leaves room for its '\0'.
ASSUME ChipInfoAssumption ==
  /\ \A r \in RegisterSets :
       /\ r.function_id \in Chips
       /\ r.revision \in Seq(RevisionChars) /\ Len(r.revision) < REVISION_SIZE
       /\ r.max_link_width \in 0..3 /\ r.bus_op_mode \in 0..7
  /\ MaxReads \in Nat

VARIABLES
  reg,           \* fields of the registers; they do not change
  revision,      \* the static buffer of each chipset's revision function
  call,          \* where each reader is in revision_show
  result,        \* what its last call returned
  reads          \* how often it called

infoVars == <<reg, revision, call, result, reads>>

-----------------------------------------------------------------------------
(* Names of modes and speeds.  The driver's tables are indexed by the      *)
(* enumerations of hplba.h, those of pcitop are searched.  A name is a     *)
(* sequence, cut where one name goes on after the end of another; its      *)
(* blanks are written as _ .                                               *)

LBA_UNK_TYPE  == 6
LBA_UNK_SPEED == 11

AGP       == <<"AGP">>
PCI       == <<"PCI">>
PCI_X     == <<"PCI", "-X_mode_1">>
PCI_X_ECC == <<"mode_1_ECC">>
PCI_X2    == <<"PCI", "-X_mode_2_ECC">>
PCIE      == <<"PCI", "e">>
Unknown   == <<"unknown">>

DriverModes == <<AGP, PCI, PCI_X, PCI_X_ECC, PCI_X2, PCIE, Unknown>>
DriverSpeeds ==
  <<<<"66_MHz">>, <<"100_MHz">>, <<"133_MHz">>, <<"266_MHz">>, <<"x1">>, <<"x2">>,
    <<"x4">>, <<"x8">>, <<"1x">>, <<"2x">>, <<"4x">>, Unknown>>

\* Each table as its values and their names.
PcitopModes ==
  [value |-> <<LBA_UNK_TYPE, 0, 1, 2, 3, 4, 5>>,
   name  |-> <<Unknown, AGP, PCI, PCI_X, PCI_X_ECC, PCI_X2, PCIE>>]
PcitopSpeeds ==
  [value |-> <<LBA_UNK_SPEED, 0, 1, 2, 3, 4, 5, 6, 7, 8, 9, 10>>,
   name  |-> <<Unknown, <<"66_MHz">>, <<"100_MHz">>, <<"133_MHz">>, <<"266_MHz">>,
               <<"x1">>, <<"x2">>, <<"x4">>, <<"x8">>, <<"1x">>, <<"2x">>, <<"4x">>>>]

FaultyMatches(entry, text) ==      \* without the test that the text ends there
  IsPrefix(entry, text)

\* strncmp over the length of the entry, and the end of the text after it.
Matches(entry, text) == IsPrefix(entry, text) /\ Len(text) = Len(entry)

\* hplba_bus_op_mode_to_value and hplba_bus_speed_to_value: the value of the
\* first entry that matches.
ToValue(tab, unk, text) ==
  LET found == {i \in 1..(unk + 1) : Matches(tab.name[i], text)}
  IN  IF found = {} THEN unk ELSE tab.value[Min(found)]

\* hplba_bus_op_mode_to_str and hplba_bus_speed_to_str.
ToStr(tab, unk, value) ==
  LET found == {i \in 1..(unk + 1) : tab.value[i] = value}
  IN  tab.name[IF found = {} THEN unk + 1 ELSE Min(found)]

\* bus_type and bus_speed of struct lba_info for the text of the attributes.
ShownMode(text)  == ToStr(PcitopModes, LBA_UNK_TYPE, ToValue(PcitopModes, LBA_UNK_TYPE, text))
ShownSpeed(text) == ToStr(PcitopSpeeds, LBA_UNK_SPEED, ToValue(PcitopSpeeds, LBA_UNK_SPEED, text))

-----------------------------------------------------------------------------
(* The decoding, as tables indexed by the register field.                  *)

gemini_bus_op_mode(r) == DriverModes[<<1, 2, 2, 2, 3, 3, 4, 4>>[r.bus_op_mode + 1] + 1]
gemini_bus_speed(r)   == DriverSpeeds[<<0, 1, 0, 2, 0, 2, 2, 3>>[r.bus_op_mode + 1] + 1]
gemini_ropes(r)       == IF r.rope_4x_l = 0 THEN 4 ELSE IF r.rope_2x_l = 0 THEN 2 ELSE 1

apollo_bus_op_mode(r) == DriverModes[5 + 1]
apollo_bus_speed(r)   == DriverSpeeds[<<7, 4, 5, 6>>[r.max_link_width + 1] + 1]
apollo_ropes(r)       == IF r.rope_4x_l = 0 THEN 4 ELSE IF r.rope_2x_l = 0 THEN 2 ELSE 1

\* The field BUS_OP_MODE of Mercury has two bits.
TwoBits(n) == n % 4

FaultyMercuryBusSpeed(r) ==        \* without the test for AGP
  DriverSpeeds[<<0, 1, 0, 2>>[TwoBits(r.bus_op_mode) + 1] + 1]

mercury_bus_op_mode(r) ==
  IF r.agp_bus_mode # 0 THEN DriverModes[0 + 1]
  ELSE DriverModes[<<1, 2, 2, 2>>[TwoBits(r.bus_op_mode) + 1] + 1]
mercury_bus_speed(r) ==
  IF r.agp_bus_mode = 0 THEN DriverSpeeds[<<0, 1, 0, 2>>[TwoBits(r.bus_op_mode) + 1] + 1]
  ELSE IF r.agp_data_rate \in {1, 2, 4}
    THEN DriverSpeeds[<<8, 9, 0, 10>>[r.agp_data_rate] + 1]
    ELSE DriverSpeeds[LBA_UNK_SPEED + 1]
mercury_ropes(r) == IF r.rope_2x_l = 0 THEN 2 ELSE 1

\* The chipset that find_lba_ops chose by the function id.
chip(l) == reg[l].function_id

BusMode(l) ==
  CASE chip(l) = "apollo"  -> apollo_bus_op_mode(reg[l])
    [] chip(l) = "gemini"  -> gemini_bus_op_mode(reg[l])
    [] chip(l) = "mercury" -> mercury_bus_op_mode(reg[l])
BusSpeed(l) ==
  CASE chip(l) = "apollo"  -> apollo_bus_speed(reg[l])
    [] chip(l) = "gemini"  -> gemini_bus_speed(reg[l])
    [] chip(l) = "mercury" -> mercury_bus_speed(reg[l])
Ropes(l) ==
  CASE chip(l) = "apollo"  -> apollo_ropes(reg[l])
    [] chip(l) = "gemini"  -> gemini_ropes(reg[l])
    [] chip(l) = "mercury" -> mercury_ropes(reg[l])

-----------------------------------------------------------------------------
(* The attributes.                                                         *)

Idle == [pc |-> "idle"]
Nothing == [attr |-> "none"]

InfoInitWith(registers) ==
  /\ reg = registers
  /\ revision = [k \in Chips |-> [i \in 1..REVISION_SIZE |-> Nul]]
  /\ call = [p \in Reader |-> Idle]
  /\ result = [p \in Reader |-> Nothing]
  /\ reads = [p \in Reader |-> 0]

InfoInit == \E registers \in [Lba -> RegisterSets] : InfoInitWith(registers)

\* The attributes bus_mode, bus_speed and ropes, read one after the other.
\* Nothing in them is shared, so that a call is one step and so are three.
ReadBus(p) ==
  /\ call[p] = Idle /\ reads[p] < MaxReads
  /\ \E l \in Lba :
       result' = [result EXCEPT ![p] =
         [attr |-> "bus", lba |-> l, mode |-> BusMode(l), speed |-> BusSpeed(l),
          ropes |-> Ropes(l)]]
  /\ reads' = [reads EXCEPT ![p] = @ + 1]
  /\ UNCHANGED <<reg, revision, call>>

(* A call of revision_show: the place in it, the bridge, the byte of the   *)
(* buffer that is written next, the characters counted and copied, and, as *)
(* history, whether no other call used the buffer of the chipset meanwhile.*)
(* Nothing is locked: each byte that is written or read is a step.         *)

Own(p) == reg[call[p].lba].revision
Chip(p) == chip(call[p].lba)
Using(k) == {p \in Reader : call[p] # Idle /\ Chip(p) = k}

\* revision_show calls apollo_revision, gemini_revision or mercury_revision,
\* which reads the two numbers,
revision_show(p) ==
  /\ call[p] = Idle /\ reads[p] < MaxReads
  /\ \E l \in Lba :
       call' = [q \in Reader |->
         IF q = p THEN [pc |-> "memset", lba |-> l, at |-> 1, len |-> 0, text |-> <<>>,
                        alone |-> Using(chip(l)) = {}]
         ELSE IF q \in Using(chip(l)) THEN [call[q] EXCEPT !.alone = FALSE]
         ELSE call[q]]
  /\ reads' = [reads EXCEPT ![p] = @ + 1]
  /\ UNCHANGED <<reg, revision, result>>

\* empties the static buffer, in this order or in larger pieces of it,
memset(p) ==
  /\ call[p].pc = "memset"
  /\ revision' = [revision EXCEPT ![Chip(p)][call[p].at] = Nul]
  /\ call' = [call EXCEPT ![p] =
       IF call[p].at < REVISION_SIZE THEN [call[p] EXCEPT !.at = @ + 1]
       ELSE [call[p] EXCEPT !.pc = "snprintf", !.at = 1]]
  /\ UNCHANGED <<reg, result, reads>>

\* The byte that snprintf stores next: a character, and a '\0' at the end.
NextByte(p) == IF call[p].at <= Len(Own(p)) THEN Own(p)[call[p].at] ELSE Nul

AfterByte(p) ==
  /\ call' = [call EXCEPT ![p] =
       IF call[p].at <= Len(Own(p)) THEN [call[p] EXCEPT !.at = @ + 1]
       ELSE [call[p] EXCEPT !.pc = "strnlen"]]
  /\ UNCHANGED <<reg, result, reads>>

FaultySnprintf(p) ==               \* one buffer for all chipsets
  /\ call[p].pc = "snprintf"
  /\ revision' = [k \in Chips |-> [revision[k] EXCEPT ![call[p].at] = NextByte(p)]]
  /\ AfterByte(p)

\* and prints the numbers to it.
snprintf(p) ==
  /\ call[p].pc = "snprintf"
  /\ revision' = [revision EXCEPT ![Chip(p)][call[p].at] = NextByte(p)]
  /\ AfterByte(p)

\* Then sprintf counts the characters for the "%s" of revision_show,
strnlen(p) ==
  /\ call[p].pc = "strnlen"
  /\ call' = [call EXCEPT ![p] =
       IF revision[Chip(p)][call[p].len + 1] # Nul THEN [call[p] EXCEPT !.len = @ + 1]
       ELSE [call[p] EXCEPT !.pc = "copy"]]
  /\ UNCHANGED <<reg, revision, result, reads>>

\* copies that many, whatever they have become, and adds a newline.
sprintf(p) ==
  /\ call[p].pc = "copy"
  /\ IF Len(call[p].text) < call[p].len
       THEN /\ call' = [call EXCEPT ![p] =
                 [call[p] EXCEPT !.text = Append(@, revision[Chip(p)][Len(@) + 1])]]
            /\ UNCHANGED result
       ELSE /\ result' = [result EXCEPT ![p] =
                 [attr |-> "revision", lba |-> call[p].lba, text |-> call[p].text,
                  alone |-> call[p].alone]]
            /\ call' = [call EXCEPT ![p] = Idle]
  /\ UNCHANGED <<reg, revision, reads>>

InfoNext ==
  \E p \in Reader :
    ReadBus(p) \/ revision_show(p) \/ memset(p) \/ snprintf(p) \/ strnlen(p) \/ sprintf(p)

InfoSpec == InfoInit /\ [][InfoNext]_infoVars

-----------------------------------------------------------------------------

\* The revision read from a bridge is the bridge's own, whole, when no other
\* call used the buffer of its chipset meanwhile.  With others at the same
\* time each of its characters is one that the revision of a bridge of this
\* chipset has at this place, or a '\0': part of a revision or a mix of two,
\* but never of another chipset, and never more than a revision is long
\* (apollo_revision, gemini_revision, mercury_revision, revision_show).
RevisionOfChipset ==
  \A p \in Reader :
    result[p].attr = "revision" =>
      LET l    == result[p].lba
          text == result[p].text
      IN  /\ result[p].alone => text = reg[l].revision
          /\ \A i \in DOMAIN text :
               \E m \in Lba : /\ chip(m) = chip(l) /\ i <= Len(reg[m].revision)
                              /\ text[i] \in {Nul, reg[m].revision[i]}

\* Mode and speed, decoded by two functions from the same registers, fit: a
\* PCI bus runs at 66 MHz, PCI-X modes have the speeds they are made for,
\* AGP and PCIe have speeds of their own, and the mode is never unknown.
SpeedsOf(m) ==
  {<<speed>> : speed \in
     CASE m = PCI       -> {"66_MHz"}
       [] m = PCI_X     -> {"66_MHz", "100_MHz", "133_MHz"}
       [] m = PCI_X_ECC -> {"66_MHz", "133_MHz"}
       [] m = PCI_X2    -> {"133_MHz", "266_MHz"}
       [] m = PCIE      -> {"x1", "x2", "x4", "x8"}
       [] m = AGP       -> {"1x", "2x", "4x", "unknown"}
       [] OTHER         -> {}}
ModeAndSpeedFit ==
  \A p \in Reader :
    result[p].attr = "bus" => result[p].speed \in SpeedsOf(result[p].mode)

\* pcitop's fields hold the names that the driver wrote, although the tables
\* of the two differ in their order, and "PCI" is found in front of others
\* that begin with it (init_lba, hplba.h).
NamesSurvive ==
  \A p \in Reader :
    result[p].attr = "bus" => /\ ShownMode(result[p].mode) = result[p].mode
                              /\ ShownSpeed(result[p].speed) = result[p].speed
=============================================================================
