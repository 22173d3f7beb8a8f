------------------------------ MODULE Startup ------------------------------
(***************************************************************************)
(* pcitop from its command line to the measurement (src/src/pcitop.c,      *)
(* main): options, the scan of sysfs (PciTree), the bridges that the       *)
(* driver shows, where they are (Integrity), the filters, and then the     *)
(* information about the bridges or the banner and the lines of results    *)
(* (Layout).  What init_lba makes of a bridge's attributes is InitLba's.   *)
(***************************************************************************)
EXTENDS PciTree, Integrity, Layout

CONSTANTS
  Lbas,          \* the entries of /sys/class/hplba, by the root bridge's name
  PciId,         \* <<domain, bus>> of each root bridge
  SlotName,      \* the name of each slot, as Integrity takes it
  Interfaces,    \* for each network interface, the root bridge it is behind
                 \* and whether it is on the bridge's own bus
  Args,          \* options a user may give: [opt, arg, means], where means is
                 \* the number that the user wrote, if any; pcitop reads arg
  MaxArgs,       \* bound: options on the command line
  PrintedWidths  \* bound: the characters that a result may be printed in

\* The options that getopt_long returns; "h" stands for all that end main.
Opts == {"a", "o", "D", "b", "P", "I", "C", "B", "A", "S", "i", "c", "t", "h", "V"}

ASSUME StartupAssumption ==
  /\ Lbas \subseteq RootBridges
  /\ PciId \in [RootBridges -> Nat \X Nat]
  /\ \A a \in Args : a.opt \in Opts /\ (a.opt = "c" => a.arg \in Seq(Int))
  /\ MaxArgs \in Nat
  /\ \A w \in PrintedWidths : w \in Nat /\ w >= RESULT_WIDTH

VARIABLES
  pc,            \* where main is
  argv,          \* the command line
  options,       \* the match options, show_info, num_lba, num_lba_display
  entries,       \* entries of the class directory not yet returned
  host_lba_list,
  lba,           \* struct lba_info of each bridge
  sys_info,      \* the lists of cabinets, bays and chassis of the machine
  at,            \* place in the list that a loop is in
  output         \* what was printed or built: lines of information, or the
                 \* banner and the last line of results

mainVars == <<argv, options, entries, host_lba_list, lba, sys_info, at, output>>
startVars == <<pc, mainVars, treeVars>>

\* A pointer option is a sequence, empty for NULL.  opt_match_lspci is
\* <<domain, bus>>, or <<0>> for text of another length than an address; the
\* other texts are sequences of characters (Integrity).
NoOptions ==
  [and |-> TRUE, domain |-> -1, bus |-> -1, lspci |-> <<>>, cabinet |-> <<>>,
   bay |-> <<>>, chassis |-> <<>>, slot |-> <<>>, show_info |-> FALSE,
   nsamples |-> 0, timeout |-> 0, num_lba |-> 0, num_lba_display |-> 0]

\* calloc of register_lba.
NewLba ==
  [sysfs_root_bridge |-> NULL, display |-> FALSE, num_slots |-> 0,
   cabinet |-> 0, bay |-> 0, chassis |-> 0]

StartupInit ==
  /\ TreeInit
  /\ pc = "options"
  /\ argv \in UNION {[1..n -> Args] : n \in 0..MaxArgs}
  /\ options = NoOptions
  /\ entries = {}
  /\ host_lba_list = <<>>
  /\ lba = [l \in Lbas |-> NewLba]
  /\ sys_info = <<<<>>, <<>>, <<>>>>
  /\ at = 1
  /\ output = <<>>

-----------------------------------------------------------------------------
(* Options.  A definition Faulty... is the definition after it with a      *)
(* plausible slip in it, used to see that a property notices the slip.     *)

ULONG == 2^16     \* bound: unsigned long arithmetic is modulo this (2^64)
CharA == 49       \* the character 'a', by its distance from '0'
CharX == 72       \* the character 'x'
ToUpper == -32    \* from a letter to the capital letter

\* The value of a digit of strtol: 10 and more for letters.
DigitValue(ch) ==
  IF ch \in Digits THEN ch
  ELSE IF ch >= CharA THEN 10 + ch - CharA
  ELSE IF ch >= CharA + ToUpper THEN 10 + ch - (CharA + ToUpper)
  ELSE -1

\* strtol(text, NULL, 0): after a sign hexadecimal after "0x", octal after "0",
\* as far as there are digits.
strtol(text) ==
  LET str  == Unsigned(text)
      hex  == Len(str) > 2 /\ str[1] = 0 /\ str[2] \in {CharX, CharX + ToUpper}
      base == IF hex THEN 16 ELSE IF str # <<>> /\ Head(str) = 0 THEN 8 ELSE 10
      rest == IF hex THEN SubSeq(str, 3, Len(str)) ELSE str
      isDigit(ch) == DigitValue(ch) \in 0..(base - 1)
      n == Max({k \in 0..Len(rest) : \A i \in 1..k : isDigit(rest[i])})
      value == FoldLeft(LAMBDA v, ch : base * v + DigitValue(ch), 0, SubSeq(rest, 1, n))
  IN  IF Negative(text) THEN -value ELSE value

\* strtoul(text, NULL, 10): a minus sign is taken modulo the word.
strtoul(text) == ScanNumber(text) % ULONG

\* sscanf "%d" of a domain that is printed with four hexadecimal digits: no
\* number when one of them is a letter.
ReadAsDecimal(domain) ==
  LET digit(k) == (domain \div 16^k) % 16
  IN  IF \E k \in 0..3 : digit(k) > 9 THEN -1
      ELSE digit(3) * 1000 + digit(2) * 100 + digit(1) * 10 + digit(0)

\* The address of the root bridge that has interface i on its own bus, or
\* <<>> when find_interface returns -1.
find_interface(i) ==
  LET id == PciId[Interfaces[i].bridge]
  IN  IF Interfaces[i].direct /\ ReadAsDecimal(id[1]) >= 0
        THEN <<ReadAsDecimal(id[1]), id[2]>> ELSE <<>>

FaultyAfterOption(o, a) ==        \* -I overwrites -P when it finds nothing
  CASE a.opt = "a" -> [o EXCEPT !.and = TRUE]
    [] a.opt = "o" -> [o EXCEPT !.and = FALSE]
    [] a.opt = "D" -> [o EXCEPT !.domain = strtol(a.arg)]
    [] a.opt = "b" -> [o EXCEPT !.bus = strtol(a.arg)]
    [] a.opt = "P" -> [o EXCEPT !.lspci = a.arg]
    [] a.opt = "I" -> [o EXCEPT !.lspci = find_interface(a.arg)]
    [] a.opt = "C" -> [o EXCEPT !.cabinet = a.arg]
    [] a.opt = "B" -> [o EXCEPT !.bay = a.arg]
    [] a.opt = "A" -> [o EXCEPT !.chassis = a.arg]
    [] a.opt = "S" -> [o EXCEPT !.slot = a.arg]
    [] a.opt = "i" -> [o EXCEPT !.show_info = TRUE]
    [] a.opt = "c" -> [o EXCEPT !.nsamples = strtoul(a.arg)]
    [] a.opt = "t" -> [o EXCEPT !.timeout = ScanNumber(a.arg)]

\* One case of the switch in main.
AfterOption(o, a) ==
  CASE a.opt = "a" -> [o EXCEPT !.and = TRUE]
    [] a.opt = "o" -> [o EXCEPT !.and = FALSE]
    [] a.opt = "D" -> [o EXCEPT !.domain = strtol(a.arg)]
    [] a.opt = "b" -> [o EXCEPT !.bus = strtol(a.arg)]
    [] a.opt = "P" -> [o EXCEPT !.lspci = a.arg]
    [] a.opt = "I" -> IF find_interface(a.arg) = <<>> THEN o
                      ELSE [o EXCEPT !.lspci = find_interface(a.arg)]
    [] a.opt = "C" -> [o EXCEPT !.cabinet = a.arg]
    [] a.opt = "B" -> [o EXCEPT !.bay = a.arg]
    [] a.opt = "A" -> [o EXCEPT !.chassis = a.arg]
    [] a.opt = "S" -> [o EXCEPT !.slot = a.arg]
    [] a.opt = "i" -> [o EXCEPT !.show_info = TRUE]
    [] a.opt = "c" -> [o EXCEPT !.nsamples = strtoul(a.arg)]
    [] a.opt = "t" -> [o EXCEPT !.timeout = ScanNumber(a.arg)]

ParseOption ==
  /\ pc = "options"
  /\ at \in DOMAIN argv
  /\ argv[at].opt \notin {"h", "V"}
  /\ \/ options' = AfterOption(options, argv[at])
     \/ argv[at].opt = "I" /\ "opendir" \in Faults /\ UNCHANGED options
  /\ at' = at + 1
  /\ UNCHANGED <<pc, argv, entries, host_lba_list, lba, sys_info, output, treeVars>>

\* -h, -V and an option that getopt_long does not know end the program, after
\* what the options before them did.
usage ==
  /\ pc = "options"
  /\ at \in DOMAIN argv
  /\ argv[at].opt \in {"h", "V"}
  /\ pc' = "usage"
  /\ UNCHANGED <<mainVars, treeVars>>

\* The test for root, drivers_loaded, the default of -c, setup_signal and
\* integrity_init_sys_info.  A user who is not root, or a missing driver, ends
\* the program.
CheckDrivers ==
  /\ pc = "options"
  /\ at \notin DOMAIN argv
  /\ \/ /\ pc' = "tree"
        /\ options' = [options EXCEPT !.nsamples = IF @ = 0 THEN 60 ELSE @]
     \/ {"user", "driver"} \cap Faults # {} /\ pc' = "exit" /\ UNCHANGED options
  /\ UNCHANGED <<argv, entries, host_lba_list, lba, sys_info, at, output, treeVars>>

create_sysfs_pci_tree ==
  /\ pc = "tree"
  /\ TreeNext
  /\ UNCHANGED <<pc, mainVars>>

-----------------------------------------------------------------------------
(* The bridges.                                                            *)

\* init_lbas opens the class directory of the driver.
init_lbas ==
  /\ pc = "tree" /\ phase = "tree_done"
  /\ \/ pc' = (IF Lbas = {} THEN "filter" ELSE "lbas") /\ entries' = Lbas
     \/ "opendir" \in Faults /\ pc' = "exit" /\ UNCHANGED entries
  /\ at' = 1
  /\ UNCHANGED <<argv, options, host_lba_list, lba, sys_info, output, treeVars>>

\* init_lba for entry l, and the search of its root bridge at the start of
\* find_lba_location_info.
init_lba ==
  /\ pc = "lbas"
  /\ \E l \in entries :
       /\ entries' = entries \ {l}
       /\ host_lba_list' = Append(host_lba_list, l)
       /\ lba' = [lba EXCEPT ![l] = [NewLba EXCEPT
            !.display = TRUE, !.sysfs_root_bridge = get_sysfs_root_bridge(l)]]
  /\ options' = [options EXCEPT !.num_lba = @ + 1]
  /\ pc' = "locate" /\ at' = 1
  /\ UNCHANGED <<argv, sys_info, output, treeVars>>

\* init_lba without memory for the buffer: the bridge is on the list, but it
\* is not counted and no attribute is read.
InitLbaNoBuffer ==
  /\ pc = "lbas"
  /\ "calloc" \in Faults
  /\ \E l \in entries :
       /\ entries' = entries \ {l}
       /\ host_lba_list' = Append(host_lba_list, l)
       /\ lba' = [lba EXCEPT ![l] = [NewLba EXCEPT
            !.display = TRUE, !.sysfs_root_bridge = get_sysfs_root_bridge(l)]]
  /\ pc' = "locate" /\ at' = 1
  /\ UNCHANGED <<argv, options, sys_info, output, treeVars>>

\* init_lba without memory for the name returns NULL, which
\* find_lba_location_info follows; without memory for the bridge,
\* register_lba ends the program.
InitLbaNoMemory ==
  /\ pc = "lbas"
  /\ "calloc" \in Faults
  /\ entries # {}
  /\ pc' \in {"crashed", "exit"}
  /\ UNCHANGED <<mainVars, treeVars>>

\* The bridge that was added last, and its slots.
Current == Last(host_lba_list)
SlotsOf(l) ==
  IF lba[l].sysfs_root_bridge = NULL THEN <<>> ELSE slots[lba[l].sysfs_root_bridge]

\* The three lists of integrity_update_sys_info, in its order, each with the
\* number of the place to be found on it.
NumbersOf(place) == <<place.cabinet, place.bay, place.chassis>>

\* Where integrity_update_sys_info can stop for want of memory: at a list
\* that the number has to be added to.  Its result is ignored.
Stops(place) ==
  {4} \cup (IF "calloc" \notin Faults THEN {}
            ELSE {n \in 1..3 : ~Contains(sys_info[n], NumbersOf(place)[n])})

\* The loop of find_lba_location_info: integrity_parse_slot,
\* integrity_update_lba_info, integrity_update_sys_info.
find_lba_location_info ==
  /\ pc = "locate"
  /\ at \in DOMAIN SlotsOf(Current)
  /\ LET place == integrity_parse_slot(SlotName[SlotsOf(Current)[at]])
     IN  /\ lba' = [lba EXCEPT ![Current] = [@ EXCEPT
              !.cabinet = place.cabinet, !.bay = place.bay,
              !.chassis = place.chassis,
              !.num_slots = CountSlot(@, place.slot)]]
         /\ \E stop \in Stops(place) :
              sys_info' = [n \in 1..3 |->
                IF n < stop THEN AddNumber(sys_info[n], NumbersOf(place)[n])
                ELSE sys_info[n]]
  /\ at' = at + 1
  /\ UNCHANGED <<pc, argv, options, entries, host_lba_list, output, treeVars>>

\* The loop is done; init_lbas goes on to the next entry or filter_lbas begins.
NextEntry ==
  /\ pc = "locate"
  /\ at \notin DOMAIN SlotsOf(Current)
  /\ pc' = IF entries = {} THEN "filter" ELSE "lbas"
  /\ at' = 1
  /\ UNCHANGED <<argv, options, entries, host_lba_list, lba, sys_info, output, treeVars>>

-----------------------------------------------------------------------------
(* The filters.                                                            *)

\* Domain and bus, out of the name that register_hplba_device gave the entry.
name_to_pci_id(l) == PciId[l]

\* The text of -P against the address of bridge l.
pcicmp(l) == name_to_pci_id(l) = options.lspci

\* integrity_match_cabinet, _bay and _chassis: the text against a number.
integrity_match(text, number) == ScanNumber(text) = number

\* The tests of filter_match_and and filter_match_or before the one of the
\* slot: whether the option is given, and whether bridge l matches it.
Tests(l) ==
  {[given |-> options.domain >= 0,    match |-> name_to_pci_id(l)[1] = options.domain],
   [given |-> options.bus >= 0,       match |-> name_to_pci_id(l)[2] = options.bus],
   [given |-> options.lspci # <<>>,   match |-> pcicmp(l)],
   [given |-> options.cabinet # <<>>, match |-> integrity_match(options.cabinet, lba[l].cabinet)],
   [given |-> options.bay # <<>>,     match |-> integrity_match(options.bay, lba[l].bay)],
   [given |-> options.chassis # <<>>, match |-> integrity_match(options.chassis, lba[l].chassis)]}

\* The number that integrity_slot_str prints for slot s.
ShownNumber(s) == integrity_parse_slot(SlotName[s]).slot

\* The slot is compared as text: "08" is not slot 8.
match_slot(l) ==
  \E s \in Range(SlotsOf(l)) : integrity_slot_str(ShownNumber(s)) = options.slot

\* The first test that fails decides in filter_match_and, the first that
\* matches in filter_match_or; the slot is tested when none of them did.
Decided(l) ==
  \E t \in Tests(l) : t.given /\ (t.match # options.and)

\* What the filter assigns to lba->display.
Displays(l) ==
  IF Decided(l) THEN ~options.and
  ELSE IF options.slot = <<>> THEN options.and ELSE match_slot(l)

\* match_slot follows sysfs_root_bridge without a check.
FilterCrashes(l) ==
  ~Decided(l) /\ options.slot # <<>> /\ lba[l].sysfs_root_bridge = NULL

FaultyFilterLbas ==           \* counted before the last test
  /\ pc = "filter"
  /\ at \in DOMAIN host_lba_list
  /\ LET l == host_lba_list[at]
     IN  IF FilterCrashes(l)
           THEN pc' = "crashed" /\ UNCHANGED <<lba, options, at>>
           ELSE /\ lba' = [lba EXCEPT ![l].display = Displays(l)]
                /\ options' = [options EXCEPT !.num_lba_display =
                                 IF Decided(l) THEN @ ELSE @ + 1]
                /\ at' = at + 1
                /\ UNCHANGED pc
  /\ UNCHANGED <<argv, entries, host_lba_list, sys_info, output, treeVars>>

\* One round of filter_lbas.
filter_lbas ==
  /\ pc = "filter"
  /\ at \in DOMAIN host_lba_list
  /\ LET l == host_lba_list[at]
     IN  IF FilterCrashes(l)
           THEN pc' = "crashed" /\ UNCHANGED <<lba, options, at>>
           ELSE /\ lba' = [lba EXCEPT ![l].display = Displays(l)]
                /\ options' = [options EXCEPT !.num_lba_display =
                                 IF Displays(l) THEN @ + 1 ELSE @]
                /\ at' = at + 1
                /\ UNCHANGED pc
  /\ UNCHANGED <<argv, entries, host_lba_list, sys_info, output, treeVars>>

FaultyDispatch ==             \* the default of -t comes before the options
  /\ pc = "filter"
  /\ at \notin DOMAIN host_lba_list
  /\ pc' = IF options.show_info THEN "show"
           ELSE IF options.num_lba = 0 \/ options.num_lba_display = 0 THEN "exit"
           ELSE "banner"
  /\ UNCHANGED <<mainVars, treeVars>>

\* main after the filters: -i, the default of -t, and the two reasons to end.
Dispatch ==
  /\ pc = "filter"
  /\ at \notin DOMAIN host_lba_list
  /\ pc' = IF options.show_info THEN "show"
           ELSE IF options.num_lba = 0 \/ options.num_lba_display = 0 THEN "exit"
           ELSE "banner"
  /\ options' = [options EXCEPT !.timeout =
       IF @ = 0 /\ ~options.show_info /\ options.num_lba # 0 THEN 1 ELSE @]
  /\ UNCHANGED <<argv, entries, host_lba_list, lba, sys_info, at, output, treeVars>>

-----------------------------------------------------------------------------
(* What is printed.                                                        *)

\* The loops over host_lba_list skip the bridges that are not displayed.
Displayed ==
  LET upTo[n \in 0..Len(host_lba_list)] ==
        IF n = 0 THEN <<>>
        ELSE LET l == host_lba_list[n]
             IN  IF lba[l].display THEN Append(upTo[n - 1], l) ELSE upTo[n - 1]
  IN  upTo[Len(host_lba_list)]

\* Both ways of printing follow sysfs_root_bridge of each displayed bridge.
NoRootBridge == \E l \in Range(Displayed) : lba[l].sysfs_root_bridge = NULL

\* One line of show_all_root_info.  Cabinet, bay and chassis are printed when
\* the machine has several.
InfoLine(l) ==
  LET part(n, value) == IF Len(sys_info[n]) > 1 THEN <<value>> ELSE <<>>
  IN  [lba |-> l,
       cabinet |-> part(1, lba[l].cabinet), bay |-> part(2, lba[l].bay),
       chassis |-> part(3, lba[l].chassis),
       slots |-> [i \in DOMAIN SlotsOf(l) |-> ShownNumber(SlotsOf(l)[i])]]

show_all_root_info ==
  /\ pc = "show"
  /\ IF NoRootBridge
       THEN pc' = "crashed" /\ UNCHANGED output
       ELSE /\ pc' = "done"
            /\ output' = [i \in DOMAIN Displayed |-> InfoLine(Displayed[i])]
  /\ UNCHANGED <<argv, options, entries, host_lba_list, lba, sys_info, at, treeVars>>

FaultyColumns ==              \* a separator after every column
  [i \in DOMAIN Displayed |->
     [last |-> FALSE,
      slots |-> [k \in DOMAIN SlotsOf(Displayed[i]) |->
                   ShownNumber(SlotsOf(Displayed[i])[k])]]]

\* The columns of the banner and of the lines.
Columns ==
  [i \in DOMAIN Displayed |->
     [last |-> Displayed[i] = Last(host_lba_list),
      slots |-> [k \in DOMAIN SlotsOf(Displayed[i]) |->
                   ShownNumber(SlotsOf(Displayed[i])[k])]]]

\* The start of measure_utilization: the banner and the buffer for a line are
\* allocated for num_lba_display columns.  Then Measure begins.
build_banner ==
  /\ pc = "banner"
  /\ \/ "calloc" \in Faults /\ pc' = "exit" /\ UNCHANGED output
     \/ NoRootBridge /\ pc' = "crashed" /\ UNCHANGED output
     \/ /\ ~NoRootBridge
        /\ pc' = "measure"
        /\ output' = [size |-> BannerSize(options.num_lba_display),
                      length |-> BannerLength(Columns, options.num_lba_display),
                      line_size |-> LineSize(options.num_lba_display),
                      line_length |-> 0, printed |-> <<>>]
  /\ UNCHANGED <<argv, options, entries, host_lba_list, lba, sys_info, at, treeVars>>

\* A line of results of measure_utilization, at the end of a sample or with
\* the averages, in line_results.  A ratio may be of any size: the counters
\* wrap (Measure).
print_line ==
  /\ pc = "measure"
  /\ \E printed \in [DOMAIN Displayed -> PrintedWidths] :
       output' = [output EXCEPT !.printed = printed,
                                !.line_length = LineLength(Columns, printed)]
  /\ UNCHANGED <<pc, argv, options, entries, host_lba_list, lba, sys_info, at, treeVars>>

StartupNext ==
  \/ ParseOption \/ usage \/ CheckDrivers
  \/ create_sysfs_pci_tree
  \/ init_lbas \/ init_lba \/ InitLbaNoBuffer \/ InitLbaNoMemory
  \/ find_lba_location_info \/ NextEntry
  \/ filter_lbas \/ Dispatch
  \/ show_all_root_info \/ build_banner \/ print_line

StartupSpec == StartupInit /\ [][StartupNext]_startVars

-----------------------------------------------------------------------------
(* Properties.                                                             *)

\* Every variable stays in its range.
StartupTypeOK ==
  /\ TreeTypeOK
  /\ pc \in {"options", "tree", "lbas", "locate", "filter", "show", "banner",
             "measure", "done", "usage", "exit", "crashed"}
  /\ entries \subseteq Lbas
  /\ host_lba_list \in Seq(Lbas)
  /\ options.num_lba <= Len(host_lba_list)
  /\ options.num_lba_display <= Len(host_lba_list)
  /\ \A l \in Lbas : lba[l].sysfs_root_bridge \in {l, NULL}
  /\ at \in 1..(Max({MaxArgs, Cardinality(Slots), Cardinality(Lbas)}) + 1)

(* What the user asked for, told from the command line, the true place of  *)
(* the slots and the numbers WXYZZ of integrity.c:105-121.                 *)

Behind(l) == {s \in Slots : BridgeOf(s) = l}
WXYZZ(s)  == ReadDigits(SlotName[s])
Part(n)   == <<10000, 1000, 100>>[n]

\* Bridge l is in cabinet (n = 1), bay (2) or chassis (3) v; a bridge without
\* slots counts as in number 0.
IsIn(l, n, v) ==
  IF Behind(l) = {} THEN v = 0
  ELSE \A s \in Behind(l) : (WXYZZ(s) \div Part(n)) % 10 = v

Given(opts) == {k \in DOMAIN argv : argv[k].opt \in opts}
Value(opt)  == argv[Max(Given({opt}))].means

\* The options -P, and those -I whose interface is found.
GivenAddress == {k \in Given({"P", "I"}) :
                   argv[k].opt = "P" \/ Interfaces[argv[k].arg].direct}

Meets(l, opt) ==
  CASE opt = "D" -> PciId[l][1] = Value("D")
    [] opt = "b" -> PciId[l][2] = Value("b")
    [] opt = "P" -> LET a == argv[Max(GivenAddress)]
                    IN  IF a.opt = "P" THEN PciId[l] = a.arg
                        ELSE Interfaces[a.arg].bridge = l
    [] opt = "C" -> IsIn(l, 1, Value("C"))
    [] opt = "B" -> IsIn(l, 2, Value("B"))
    [] opt = "A" -> IsIn(l, 3, Value("A"))
    [] opt = "S" -> \E s \in Behind(l) : WXYZZ(s) % 100 = Value("S")

Criteria == {opt \in {"D", "b", "C", "B", "A", "S"} : Given({opt}) # {}}
              \cup (IF GivenAddress = {} THEN {} ELSE {"P"})

Asked(l) ==
  LET modes == Given({"a", "o"})
  IN  IF modes = {} \/ argv[Max(modes)].opt = "a"
        THEN \A opt \in Criteria : Meets(l, opt)
        ELSE \E opt \in Criteria : Meets(l, opt)

Filtered == pc \in {"show", "banner", "measure", "done"}

(* What DisplayedAsAsked and InfoShows take for granted.                   *)

NothingFails == Faults = {} /\ NoAddress = {}

\* Every slot has a name WXYZZ or the end of one, and is behind a bridge that
\* the driver shows; the slots of one bridge are in one chassis; no address
\* names two bridges, and that of a bridge with an interface on its own bus
\* reads the same in decimal.
MachineAsNamed ==
  /\ \A s \in Slots : /\ SlotName[s] \in Seq(Digits) /\ Len(SlotName[s]) \in 1..5
                      /\ BridgeOf(s) \in Lbas
  /\ \A s, t \in Slots : BridgeOf(s) = BridgeOf(t) => WXYZZ(s) \div 100 = WXYZZ(t) \div 100
  /\ IsInjective(PciId)
  /\ \A i \in DOMAIN Interfaces :
       LET r == Interfaces[i].bridge
       IN  /\ r \in RootBridges
           /\ Interfaces[i].direct => ReadAsDecimal(PciId[r][1]) = PciId[r][1]

\* The texts on the command line are not empty and write the numbers that the
\* user means, that of a slot as integrity_slot_str does.
ArgsMean ==
  \A a \in Args :
    /\ a.opt \in {"D", "b"} => strtol(a.arg) = a.means /\ a.means >= 0
    /\ a.opt \in {"P", "C", "B", "A", "S"} => a.arg # <<>>
    /\ a.opt = "I" => a.arg \in DOMAIN Interfaces
    /\ a.opt \in {"C", "B", "A"} => ScanNumber(a.arg) = a.means
    /\ a.opt = "S" => \A n \in 0..99 : integrity_slot_str(n) = a.arg <=> n = a.means

\* When nothing fails, the bridges displayed are those that the options on the
\* command line ask for, in whatever order sysfs lists bridges, buses and
\* slots (main, find_interface, filter_lbas).
DisplayedAsAsked ==
  Filtered \/ pc = "exit" => Range(Displayed) = {l \in Lbas : Asked(l)}

\* When nothing fails, -i prints one line for each of them, with the numbers
\* of exactly the slots behind it.  Where there are slots, a cabinet, bay or
\* chassis that is printed is theirs, and it is printed at least when the
\* machine has several (show_all_root_info).
InfoShows ==
  pc = "done" =>
    /\ Len(output) = Cardinality({l \in Lbas : Asked(l)})
    /\ \A i \in DOMAIN output :
         LET line == output[i]
             told(n, field) ==
               Behind(line.lba) # {} =>
                 /\ Cardinality({(WXYZZ(s) \div Part(n)) % 10 : s \in Slots}) > 1
                      => Len(field) = 1
                 /\ field # <<>> => IsIn(line.lba, n, field[1])
         IN  /\ Asked(line.lba)
             /\ Len(line.slots) = Cardinality(Behind(line.lba))
             /\ Range(line.slots) = {WXYZZ(s) % 100 : s \in Behind(line.lba)}
             /\ told(1, line.cabinet) /\ told(2, line.bay) /\ told(3, line.chassis)

\* The line of a bridge with slots shows its cabinet, bay and chassis, as in
\* the example of the README, where all the slots are in cabinet, bay and
\* chassis 0 (README:26-41).
InfoAsInReadme ==
  pc = "done" =>
    \A i \in DOMAIN output :
      Behind(output[i].lba) # {} =>
        /\ Len(output[i].cabinet) = 1
        /\ Len(output[i].bay) = 1
        /\ Len(output[i].chassis) = 1

\* Whatever fails, the number that the buffers are sized by is that of the
\* bridges displayed (filter_lbas).
DisplayCount == Filtered => options.num_lba_display = Len(Displayed)

\* Whatever fails and whatever texts -c and -t have, what main hands over is
\* what measure_utilization relies on, and module Measure assumes: a bridge to
\* measure, none of them twice, a sample to take and a time to sleep.
MeasureReady ==
  pc = "measure" =>
    /\ Displayed # <<>> /\ IsInjective(Displayed)
    /\ options.nsamples \in 1..(ULONG - 1)
    /\ options.timeout # 0

\* Once the bridges are on the list, pcitop follows no missing pointer unless
\* a root bridge was lost in the scan (match_slot, show_all_root_info,
\* build_banner).
LateCrashNeedsLostBridge ==
  pc = "crashed" /\ entries = {} => Range(root_bridge_list) # RootBridges

\* The banner with its '\0' fits into its buffer (pcitop.c:764-768).
BannerFits == pc = "measure" => output.length + 1 <= output.size

\* It does when the last bridge of the list is displayed and no row of slots
\* is wider than its column.
BannerFitsWhenLastShown ==
  /\ pc = "measure"
  /\ Last(Displayed) = Last(host_lba_list)
  /\ \A i \in DOMAIN Displayed : Len(SlotsOf(Displayed[i])) <= 4
  => BannerFits

\* A line of results fits into line_results exactly when the last bridge of
\* the list is displayed, whose column has no separator, and each result takes
\* the six characters that are counted for it: there is nothing to spare
\* (measure_utilization, pcitop.c:881, 943-951, 968-976).
LineFitsExactly ==
  pc = "measure" /\ output.printed # <<>> =>
    (output.line_length <= output.line_size
       <=> /\ Last(Displayed) = Last(host_lba_list)
           /\ \A i \in DOMAIN output.printed : output.printed[i] = RESULT_WIDTH)
=============================================================================
