# pcitop and the hplba driver, specified in TLA+

This directory specifies pcitop, the PCI bus utilization monitor for HP
Integrity machines, and hplba, the kernel driver it works with. The modules are
written from the source (`src/src/` is the user program, `src/drivers/` the
driver), checked with TLC on small instances, and all components are proved about
with TLAPS. `PROJECT.json` lists the runs, the theorems, the source lines each
definition stands for, the hazards and the findings.

## The system

A root bridge ("LBA") has a chipset (Apollo, Gemini or Mercury) with two
counters, one of bus cycles and one of cycles that transfer data. The driver
probes the bridges, and gives each a directory in sysfs with attributes:
`function_id`, `revision`, `bus_mode`, `bus_speed`, `ropes`, and
`utilization`, which is read for the two counters and written with the commands
`init`, `reset`, `start` and `stop`. The program lists the bridges, finds the
PCI slots behind them, filters them by the user's options, and then in a loop
starts the counters, sleeps, stops them, reads them and prints a line of
ratios. SIGINT ends the loop, and averages are printed.

| component | state | operations | interacts with |
|---|---|---|---|
| utilization attribute (`hplba_drv.c`, `hplba_sysfs.c`, `hplba.h`) | `util_state` of each bridge | store, show | called by any process that opens the file, without a lock; calls the chipset operations |
| chipset operations (`apollo.c`, `gemini.c`, `mercury.c`) | registers and counters of the hardware | init, reset, start, stop, utilization; decoding of revision, mode, speed, ropes | called by the attributes; the hardware counts concurrently |
| module life cycle (`hplba_drv.c`, `hplba_sysfs.c`) | list of bridges, sysfs class | probe, load, unload | creates and removes the attributes under a running pcitop |
| measurement (`pcitop.c`: `measure_utilization`) | samples left, current and previous counts, signal mask, `time_to_quit` | the loop, SIGINT | writes and reads the attribute of each displayed bridge |
| start of the program (`pcitop.c`: `main`, filters) | options, `display` flags | option parsing, driver check, filters | bridges, slots, cabinet data |
| bridge information (`init_lba`, `show_all_root_info`) | `struct lba_info` | attribute reads, `-i` output | attributes of the driver, name tables shared through `hplba.h` |
| PCI topology (`pci_sysfs.c`) | root bridges, buses, slots | scan of sysfs | slots are linked to bridges through buses |
| Integrity slot names (`integrity.c`) | cabinet, bay, chassis of a slot | `integrity_parse_slot`, `integrity_update_sys_info` | called for each slot of a bridge |
| layout (`build_banner`, lines) | widths | banner and lines | number of displayed bridges |
| attribute files (`util.c`) | one static page | `read_attribute`, `write_attribute` | all sysfs access |
| CCAN list (`list.h`, `list.c`) | rings of cells | add, delete, loops, `list_check` | every list of pcitop, `lba_list` of the driver in the same form |
| other CCAN helpers | - | string, noerr, talloc | vendored, linked, not called |

What is hard about it: several clients may be inside the driver at once and
nothing locks a bridge; the hardware counts while software looks; the driver
ignores what it is told in the wrong state and pcitop ignores that it was
ignored; SIGINT is masked for most of the loop; pcitop may be killed with the
counters running; the driver may be removed and inserted again under it; the
counters wrap; a good part of the start-up ignores failures of reading
sysfs; and all attributes are read through one page into buffers that are used
again. What makes each part correct:

* attribute: states change only as the switches of `set_util_state` allow, and
  `util_state` tells what the registers do;
* measurement: a line shows what went over the bus in the window between start
  and stop, the average shows all windows, it ends soon after SIGINT, and it
  leaves the counters stopped;
* program start: the displayed bridges are those the options name, and their
  number is the number of columns;
* information: each field shown is the field read, and the names written by the
  driver are those the program parses;
* topology and slot names: each slot is found under its own bridge, and its
  cabinet, bay and chassis are the digits of its number;
* attribute files: a buffer holds the line that was read last, and nothing of
  one before;
* lists: both pointers lead along the members, and a loop misses none that
  stays;
* module: whatever fails while loading, nothing half registered stays.

## Modules

| module | content |
|---|---|
| `Chipsets` | the register writes of each chipset's utilization operations, as sequences of field and value |
| `Hplba` | the utilization attribute, the state machine behind it, registers, counters, removal and insertion of the driver |
| `HplbaModule` | probe of the bridges, their devices, the class, unloading, with the kernel's failures |
| `ChipInfo` | the read-only attributes: decoding of registers, static revision buffers, tables of names |
| `InitLba` | the five reads by which `init_lba` takes these attributes over, through one buffer |
| `Attribute` | `read_attribute`: the static page and the buffers of its callers |
| `List` | the doubly-linked lists and the loops over them |
| `Measure` | pcitop processes measuring through `Hplba`, signals, kill and rerun |
| `Meter` | abstract: what a pcitop promises its user |
| `Metered` | `Measure` with history variables for what really went over the buses; implements `Meter` |
| `PciTree` | the scan of sysfs for root bridges, buses and slots |
| `Integrity` | slot names of Integrity machines |
| `Layout` | widths of the banner and of a line of results |
| `Startup` | `main` from the options to the lines of results or the list of bridges; composes the last three |
| `HplbaProofs`, `PciTreeProofs`, `HplbaModuleProofs`, `ListProofs`, `StartupProofs` | theorems about the module of that name |
| `MeasureProofs`, `MeteredProofs` | theorems about the measurement; the second about accuracy and the refinement of `Meter` |
| `PartsProofs` | theorems about `ChipInfo`, `InitLba` and `Attribute` |
| `MCHplba`, `MCMetered`, `MCStartup`, `MCHplbaModule`, `MCParts` | instances for TLC |

A definition named `Faulty...` is the one after it with a plausible slip in it.
No specification uses it; it shows that a property notices the slip.

### Hplba

A client is a process in a system call on the attribute. `call[c]` says where
in the call it is, and each step of a call is an action:

* `utilization_store`: the text is looked up (`-EINVAL` if it names no state),
  and `set_util_state` reads `curr_state` (`hplba_drv.c:108`);
* `set_util_state`: the switches, and the assignment of line 174. It decides on
  the state read in the step before;
* `util_op`: one `LBA_REG_WRITE` of the chipset operation; the call returns
  after the last;
* `utilization_show`, `utilization_show_cntr`: the reads of the timer and of the
  counter.

`LBA_REG_WRITE` reads, changes and writes back a register. It is one step here,
because the three fields the operations write lie in different registers and
nothing else writes those registers. `hplba_exit` waits for calls in progress,
as an open sysfs file pins the module; `hplba_init` starts every bridge in
`unknown`. `BusCycle` is the hardware: the timer counts when it was told to
count always, the counter counts the event selected by `util_init`, both only
while `DIAG_EN0` is `0x3`; storing `0xf` clears both. These facts about the
chipset are not in the source and are taken from how the source uses it.

### Measure

Each client runs `measure_utilization`. `pc` names the place in the function
(the four loops that write a command are named by the command), `at` is the
place in the list of displayed bridges, `info` holds the counts of
`struct lba_info`. A process in a system call takes the driver's steps. With the
driver gone, opening the attribute fails and the loop goes on to the next
bridge. SIGINT sets `time_to_quit` when it is not masked and is held back
otherwise; `unmask_signals` delivers it. `sleep` may return at any moment, which
covers the time-out as well as the interrupt. A process may be killed, or end,
and be run again; a system call is finished first.

Left out: SIGALRM (masked, and nothing sends it), the messages, and the layout
of a line. A ratio is kept as its two numbers, because the division is where
0 / 0 and more than 100% come from.

### Metered and Meter

The window of a process on a bridge opens with the register write of its start
and closes with that of its stop. `win` counts the cycles and busy cycles in the
last window, `tot` in all of them. A process has hold of a bridge (`ready`) from its
own `init` of it until the driver is removed: a driver that is inserted again
knows nothing of the bridge, and refuses everything but `init`. `Meter` has
windows, holds and lines only: for each bridge that is held, a line of samples
shows the last window, the average shows the totals, and nothing is printed
while a window is open; of a bridge that was lost it promises nothing.
`ImplementsMeter` is `Meter`'s specification with `win`, `tot`, `ready` and
`shown` of `Metered`. What a pcitop can and cannot do to a bridge it has lost is
`RefusedForGood`.

`SampleAccurate` and `AverageAccurate` hold while the counters wrap, too: they
say which lines a wrap falsifies, and by what. pcitop
subtracts counters of 48 bits as words of 64, so the one line in
whose window a counter wraps is off by a multiple of 2^48; the next is right
again.

### HplbaModule

`mod` tells where `hplba_init` and `hplba_exit` are. `register_hplba_class`,
each call of `lba_probe` (by `acpi_get_devices`, in any order of the handles),
each round of `find_lbas` and of the loop in `hplba_exit` is an action. A
`struct lba` is named by the PNP id and the handle of the probe that allocated
it, so a bridge that matches two PNP ids is probed twice and the kernel refuses
the second device of that name. `heap`, `devices` and `class` are the kernel's
side, `bad` collects calls made with something that is not there: the class
unregistered although registering it failed, `memset` of a null pointer.
`hplba_init` returns a positive number when it fails, and the module stays in.
`mappings` counts how often the registers of a bridge were mapped, which nothing
undoes. Left out: the debug parameter.

### ChipInfo

`reg[l]` holds the fields of the registers that are decoded; the decoding
switches are tables indexed by the field (the field `BUS_OP_MODE` of Mercury is
read with two bits). Each chipset prints its revision to a static buffer, which
nothing locks: `memset`, `snprintf`, the count of the characters and the copy by
`sprintf` in `revision_show` go byte by byte, each byte a step, so that calls
overlap at any of them. The mark `alone` remembers whether another call used the
buffer meanwhile. The other attributes share nothing and are read in one step. The names go through
the tables of `hplba.h` as the driver writes them (`DriverModes`) and as pcitop
searches them (`PcitopModes`, in another order). A name is a sequence of tokens,
since pcitop compares no more than the length of its own entry and then looks for
the end of the text (`Matches`): without that, an entry that begins another, as
`PCI` does, would be taken for it.

### InitLba

`init_lba` of pcitop reads `bus_mode`, `bus_speed`, `function_id`, `revision` and
`ropes` one after the other into one buffer, each read a step that may fail, and
makes the field of `struct lba_info` from what is in the buffer then. `Taken` tells
what each of the five conversions makes of any text: the tables answer unknown,
`sscanf` of the id leaves what the field held when it finds no number, and `strncpy`
and `atoi` take whatever there is. Left out: that `strncpy` stores no NUL after a
revision of `REV_LEN` characters, and what pcitop makes of a revision read while
another process reads one.

### Attribute

`read_attribute` clears its static page, reads the file into it, cuts the last
character and copies what is left with `strncpy`. `contents[c]` is the buffer of
the caller `c`, which starts with whatever memory holds, `last[c]` remembers the
line that the caller read last. A read that fails after the page was cleared
leaves the caller's buffer alone, and the caller does not notice.

### List

`next` and `prev` are the pointers of each cell, `lists` remembers the members
that the calls made, in their order. The two loops are split into their
initialisation and their iteration, so that nodes are added and deleted in
between, by the loop's own body or a function it calls. Callers keep to
`list.h`: a loop does not lose the node it goes on from, which is its own in
`list_for_each` and the one after it in `list_for_each_safe`. The other modules
take lists as sequences, which `Linked`, `AnswersAgree` and `LoopKeepsPlace`
justify. Callers that break those rules are not modelled; `list_check` would not
always notice, since it compares the `prev` of every member but not that of the head
(`list.h:68`).

### PciTree, Integrity, Layout, Startup

`PciTree` reads three directories in any order of their entries. `phase` says
which loop is running. A root bridge, a bus and a slot stand for their names in
sysfs; `Link[b]` is the root bridge the device link of a bus names, `Address[s]`
the bus of a slot's address. The result of each scan is ignored, as is that of
reading an address: the buffer then holds the address of the slot before. A slot
whose bus is not listed ends the scan. A bus without a root bridge is linked to
nothing, and a slot on it makes pcitop follow that pointer (`crashed`).

`Integrity` reads a slot name as its characters' distances from `'0'`:
`integrity_parse_slot` takes one character each for cabinet, bay and chassis and
scans the rest. `Layout` computes how many characters the banner and a line
store, and how many are allocated. The texts of the banner are filled up to their
column; a result is not: `%06.2f` prints six characters or as many more as the
number has, and the blanks after it are counted for six.

`Startup` adds the rest of `main` around them: `ParseOption` is a case of the
option switch; `CheckDrivers`; `init_lbas` and, for each entry of the class
directory, `init_lba` and `find_lba_location_info`; one round of `filter_lbas`
at a time; and `show_all_root_info` or `build_banner`, after which `Measure`
begins. Of the measurement, `print_line` keeps what a line stores in its buffer:
each result is of any of the widths in `PrintedWidths`, since counters that wrap
(`Measure`) make ratios of any size. `filter_match_and` and `filter_match_or` are one definition, `Displays`:
a test that is given decides when its outcome differs from the mode, and the
slot is looked at when none did. Numbers are texts, read by `strtol`, `strtoul`
and `sscanf` as the option does: with a sign, with a base told by the first
characters, with letters and capitals as digits, or with no digit at all; blanks
in front of a number are not modelled. `usage` stands for `-h`, `-V` and unknown options; a user who is not root, a
missing driver, memory, directories, and addresses of some slots may fail;
attributes are the concern of `InitLba`. `MeasureReady` is what `MeasureAssumption` asks of the list
of bridges and the count of samples, so that what `Measure` begins with is
what `Startup` ends with. Left out: `-v` and `-d`, which only add messages;
`dump_sysfs_pci_tree`, which nothing calls.

## Runs

| run | instance | shows |
|---|---|---|
| `driver` | 2 bridges (Apollo, Mercury), 2 clients that make any call with any text, one of them on both bridges, 1 reload | `TypeOK`; `StateMatchesHw` and `ExclusiveTransitions` for the bridge that one client uses; `ProgrammedWhenQuiet` and `InitFirst` for both |
| `driver_race` | the same | violation: `LegalTransitions` |
| `one_bridge` | 1 pcitop, 1 bridge, no end of samples, 1 kill, 1 reload, counters that wrap at 3 | `MeasureTypeOK`, `SampleAccurate`, `AverageAccurate`, `InterruptBounded`, `NoStoreRejected`, `CountersStoppedAtExit`, `RefusedForGood`, `InterruptEnds` |
| `two_bridges` | 1 pcitop, 2 bridges, 2 samples, 1 reload | `ImplementsMeter` |
| `disjoint` | 2 pcitops with a bridge each | `ImplementsMeter`, `NoStoreRejected`, `CountersStoppedAtExit` |
| `idle_bridge` | a bridge without devices | violation: `IdleBridgeShowsZero` |
| `filters` | 3 bridges, one without slots, 2 buses, 3 slots in 2 cabinets and bays and 1 chassis, up to 3 options of 12, nothing fails | `DisplayedAsAsked`, `InfoShows` |
| `info_example` | 2 bridges, 2 slots of one of them in cabinet, bay and chassis 0 | violation: `InfoAsInReadme` |
| `start_failures` | 2 bridges, 3 buses of which one has no link, 3 slots, up to 1 option of 9, some with texts that are no count, failures, results of 6, 7 and 25 characters | `StartupTypeOK`, `SlotUnderOwnBridge`, `ListsAgree`, `CrashNeedsLostBridge`, `LateCrashNeedsLostBridge`, `DisplayCount`, `MeasureReady`, `BannerFitsWhenLastShown`, `LineFitsExactly` |
| `banner_overflow` | 2 bridges, the last of the list not displayed | violation: `BannerFits` |
| `module_load` | 3 handles, one with two PNP ids and one of an unknown chipset, 2 loads, any call may fail | `OneDevicePerBridge`, `AllFound`, `NothingLeft` |
| `parts` | every value of the registers of each chipset; revisions of 2 bridges of one chipset and 1 of another, 2 readers with a call each; the attributes of the 3 bridges taken over, with any read failing; every name of up to five of the digits 0, 1, 2, 5, 9; lines of up to 3 characters read into 2 buffers; 2 lists with 3 nodes and a loop | `ModeAndSpeedFit`, `NamesSurvive`, `RevisionOfChipset`, `AttributesOwn`, `PlaceIsWXYZZ`, `ShowsLastRead`, `Linked`, `AnswersAgree`, `LoopKeepsPlace` |

Bounds. Two bridges are enough for one to be served while the other waits, and
they have the two kinds of event selector. Two clients are enough for a check
that is stale when it is used: more only repeat it. In `one_bridge`, `MaxTicks` is
`CntrMod`, so that a counter wraps, in any window, and `WordMod` is twice
`CntrMod`, so that a difference of wrapped counters is not that of the cycles, as
2^64 is not 2^48; in the runs of `ImplementsMeter` no counter wraps. In `driver`,
`CntrMod` is 1, as its properties do not look at counts. `MaxLate` is above the
two lines that may follow a signal. `MaxKills = 1` gives every state a killed
pcitop can leave, from which a whole run follows, and `MaxReloads = 1` every
moment at which a driver can go. `UTIL_ROWS` is 1 or 2 instead of 16. Three
options are enough for two that overwrite each other and one that sets the mode, or
for two criteria and the mode. `RankedSpec` keeps one order of the options that assign
different fields, as these commute; `AskedTheorem` is about every order. Three slots
put two on one bridge and one on another, so that cabinet and bay are printed and the
chassis, of which there is one, is omitted; the third bridge has none. The failing run
has a slot on a bus that is not listed. Results have the six characters that
are counted for them, one more, as from 1000% on, or the 25 of the difference of two
words of 64 bits. Two loads show what the first leaves behind. In `parts`, two of the
three bridges share the buffer of revisions and have revisions of different lengths;
one call of each reader is enough for an overlap at any byte. Five digits include zero, which
`integrity_parse_slot` treats apart, and the largest. A page of five characters
and lines of three leave room for the newline and the NUL, and a shorter line
after a longer one; one buffer is filled by its line, the other is longer than
the page. Three nodes have one that is first, one that is last and one between
them; the second list is there to be moved to. `ULONG` is 2^16 for 2^64.
Deadlock is not checked
where the program ends or a bound stops it.

Fairness. Only `MeasureSpec` and `MeteredSpec` have any: weak fairness of each process's steps. The
scheduler runs a runnable process, a system call on the attribute does not
block, and `sleep` returns after its time. SIGINT, kills, bus cycles and loading
or removing the driver are not fair: nobody has to do them.

### What the violations show

* `driver_race`: one client's `start` reads `reset`, another's `init` gets in
  between, and the state goes from `init` to `start`, which the driver reports
  as an illegal transition when it sees it.
* `idle_bridge`: `in_use` is always 1, so the workaround of
  `pcitop.c:938-943` never applies.
* `banner_overflow`: a column gets a separator unless its bridge is the last of
  the whole list, so when that one is filtered out each row of the banner is two
  characters too wide for its buffer.
* `info_example`: the README prints cabinet, bay and chassis 0 for each bridge with
  slots of a machine that has one of each (`src/README:26-41`);
  `show_all_root_info` prints them only when the machine has several
  (`pcitop.c:730-740`).

### Where the properties stop

Some properties hold under a condition, and the condition marks a behaviour of
the code that a user may not expect:

* two pcitops on one bridge (`disjoint` gives each its own): a command of one
  undoes that of the other, and pcitop does not look at the result of a write;
* a counter that wraps in a window (`SampleAccurate`) or over the whole run
  (`AverageAccurate`): differences are taken modulo 2^64 of counters of 48 bits;
* SIGINT before the first sample (`AverageAccurate` allows it): the average
  printed is 0 / 0;
* a driver removed and inserted again (`CountersStoppedAtExit` and accuracy are
  about bridges in `ready`): pcitop goes on printing, and cannot stop the
  counters (`RefusedForGood`);
* an unreadable address (`SlotUnderOwnBridge` leaves out such slots): the slot is
  listed where the one before it is;
* a slot whose bus is not listed: slots returned later are not listed at all;
* an unreadable attribute (`AttributesOwn` says what becomes of it): revision and
  ropes are taken from the text of an earlier attribute of the bridge, mode and speed
  are unknown, and the id is none;
* a ratio of 1000% or more, as after a wrap, or a last bridge that is not displayed
  (`LineFitsExactly`): the line of results does not fit its buffer;
* a single cabinet, bay or chassis (`InfoShows` does not ask for it): `-i` leaves it
  out, which `info_example` holds against the README;
* attributes without a newline, or longer than a page (`AttributeAssumption`
  rules them out): the last character is cut, and the end of the page is passed;
* a root bridge lost for want of memory (`CrashNeedsLostBridge`,
  `LateCrashNeedsLostBridge`): a null pointer is followed;
* a bridge without slots: the filters take it to be in cabinet 0, bay 0, chassis 0
  (`DisplayedAsAsked`), where the example in the README prints `n/a`; `InfoShows`
  leaves open what `-i` prints of it;
* more than four slots on a bridge (`BannerFitsWhenLastShown`): its row may be
  wider than the buffer has space for; also, no `'\0'` is stored after the
  banner, which the model does not look at;
* a negative time (`MeasureReady` demands only that it is not zero): `-t -1` is
  handed on as it is;
* revisions read at the same time from bridges of one chipset, or from one bridge
  (`RevisionOfChipset`): a reader may get part of a revision or a mix of two.

## Proofs

`HplbaProofs` proves for any set of bridges and of clients, any assignment of
chipsets and any counter width (`HplbaAssumption` and `OpensAssumption`
are the only assumptions):

* `TypeCorrect`: `HplbaSpec => []TypeOK`;
* `ProgrammedTheorem`: `HplbaSpec => []ProgrammedWhenQuiet`;
* `InitFirstTheorem`: `HplbaSpec => InitFirst`.

`ProgrammedWhenQuiet` is not inductive: it says nothing while a store is in
progress, and then it is just the stores that must be known to end well.
`DriverInv` strengthens it by `CallsOK` and `ProgrammedOrInit`: a bridge that has
left `unknown` is programmed, or some client is still in `util_init` on it; a
client at the last write of `util_init` finds the one before done, since no
operation ever undoes it; a store that has seen a bridge out of `unknown` can
rely on it, since the driver cannot be removed meanwhile. `UtilOpStep` says what
one register write does, from the tables of the three chipsets (`UtilOps`,
`WriteAt`).

`ExclusiveTheorem` proves `StateMatchesHw` and `ExclusiveTransitions`, which are
about each bridge that one client uses, whatever other clients do elsewhere.
`ExclusiveInv` adds that each store is on a bridge its client uses, that the
state it has read is still the state, and that between stores the registers
match. `LocalStep` reduces a step to its client and its bridge. For bridges that
two clients use, `driver_race` refutes it.

`PciTreeProofs` proves for any tree of root bridges, buses and slots, any order
of the entries and any failures (`TreeAssumption` is the only assumption):

* `SlotTheorem`: `TreeSpec => []SlotUnderOwnBridge`;
* `ListsTheorem`: `TreeSpec => []ListsAgree`;
* `CrashTheorem`: `TreeSpec => []CrashNeedsLostBridge`.

The three are proved together as `TreeInvariant`. `TreeInv` adds `TreeTypeOK`;
`PhaseOrder`, that a list is empty before its scan and that a slot still to be
returned is not listed, without which a slot could be put on two lists;
`BusesLinked`, that a listed bus points to the root bridge of its link when that
one is listed, which makes the lost root bridge the only reason of a crash; and
`SlotsLinked`. Opening and closing a directory is one lemma, each loop another.
`Startup` takes exactly these steps while it scans, and none that changes the
lists afterwards.

`MeasureProofs` and `MeteredProofs` are about `MeteredSpec`, pcitop processes on
top of the driver, for any number of processes, bridges and samples, any limit
of samples and any counter width.

* `MeasureTypeTheorem`: `MeasureTypeOK`, from `Types`, which adds the types of the
  history variables, and the driver's `DriverInv`.
* `InterruptTheorem`: `InterruptBounded`. `SharedInv` adds `SignalInv`, where in the
  loop the signal is masked and how many lines may have come after it at each place,
  and `CallInv`, which bridge and command a system call in progress is about.
* Everything else assumes `OwnBridges`, that no two processes open the same bridge.
  The code does not enforce it; when it fails, the processes stop and reset
  each other's counters.
  `OwnInv` then has for each process `PlaceInv`: the place in the loop tells, for each
  bridge the process has hold of, the state of the driver and whether its counters
  run, and that a bridge it has lost stays in `unknown`. It needs `ExclusiveInv`:
  what a store has read is still true when it acts. From it follow `StoresTheorem`
  (`NoStoreRejected`), `StoppedTheorem` (`CountersStoppedAtExit`) and
  `RefusedTheorem` (`RefusedForGood`, an action property).
* `MeterInv` adds the numbers: the registers hold what went over the bus since the
  window opened, modulo `CntrMod`; the counts of the process are what it has read,
  modulo the word; the lines printed are those counts. `SampleTheorem` and
  `AverageTheorem` follow because a word holds a multiple of the counter's range
  (`CntrMod` divides `WordMod`), so that one remainder may be taken before the other.
* `RefinementTheorem`: `MeteredSpec` implements `Meter`: initial states map to
  initial states, each step to a step or a stutter. It assumes besides `NoWraps`,
  that each displayed bridge has a device behind it (without one the code divides
  zero by zero) and that no counter goes once around (`MaxTicks < CntrMod`).

`HplbaModuleProofs` proves for any ACPI handles, PNP ids and failures
`OneDevicePerBridge`, `AllFound` and `NothingLeft`. `ModuleInv` has `ListInv`, that
the list, the devices and the memory are of the same bridges, each once; `OutInv`,
that a driver which is out has no list, class or interface; and `SearchInv`, that
each probe of a known bridge which is over ended with a device or with a failure of
its own. `AllFound` needs the last: it speaks of the end of the walk, the invariant
of any point in it.

`ListProofs` proves for any heads and nodes `Linked`, `LoopKeepsPlace` and, for
finitely many cells, `AnswersAgree`. `RingInv` says that the pointers form a ring
for each list, through its head and its members in order, and that no node is in two
rings or in one twice; it is inductive only together with the types. `LoopInv` says
of a loop in progress that the members which stay are in the list and which of them
are still ahead, seen from the member it is at or, for `list_for_each_safe`, from the
successor it has saved. That `list_check` returns is an argument
about how far it gets in the ring (`WayExists`); it wants `IsFiniteSet(Cells)`.

`StartupProofs` proves for any machine, command line and failures
`LateCrashNeedsLostBridge`, `DisplayCount`, `MeasureReady` and, with
`IsFiniteSet(Slots)` and `IsFiniteSet(Lbas)` (a `Cardinality` bounds the loops),
`StartupTypeOK`. `StartInv` takes over `TreeInv`, and adds `HostInv`, that each
entry comes on the list once; `RootInv`, that a bridge on the list has the root
bridge that the search returned, which makes the loss in the scan the only reason
for a later crash; `AtInv`; `CountInv`, that the number displayed counts the bridges
the filter has passed; and `ReadyInv`. `StartInv` was checked on `start_failures` before.

`LineTheorem` (`LineFitsExactly`) is about any machine, failures and widths, too.
`LineInv` tells what `build_banner` and `print_line` have stored. A cell is never
narrower than its column (`CellWidth`), and only the last can go without a separator
(`LastShownLast`), so none makes up for another: the cells take no more than
`LINE_WIDTH` exactly when each is as wide as it should be (`TotalOfCells`,
`LineIsExact`).

Two more theorems of `StartupProofs` are about slots whose names are one to five
digits (`SlotsNamed`), the names that `integrity_parse_slot` is written for:

* `PlaceTheorem`: each such name is read as the place that the number it spells
  stands for (`PlaceOfNumber`), what `PlaceIsWXYZZ` says of the names of `parts`.
  `HornerSteps` and `DigitsSteps` show that `ReadDigits` goes digit by digit.
* `BannerTheorem` (`BannerFitsWhenLastShown`), for any number of bridges. A number
  shown has at most two digits by `PlaceTheorem`, so four slots leave their column
  as wide as the others (`SlotsFitColumn`); no bridge is displayed twice, so exactly
  the last column goes without a separator when the last bridge of the list is
  displayed, and the columns add up to `LINE_WIDTH` (`TotalOfLine`, `BannerRoom`).
  Nothing moves any more once `build_banner` is done (`AfterBanner`).

`PartsProofs` proves:

* `LastReadTheorem` (`ShowsLastRead`): any callers, buffers and texts that
  `AttributeAssumption` allows. The work is in `LineArrives`: what the clearing,
  the newline and `strncpy` make of a line, whatever was in the page before.
* `RevisionTheorem` (`RevisionOfChipset`) for any bridges and chipsets, any number of
  readers and calls, and calls that overlap at any byte. `RevisionInv` has two halves.
  A byte of a static buffer is at any time a `'\0'` or a character that some
  bridge of the chipset prints there, whoever wrote it; so are the characters that
  a call has counted and copied. And while a call is alone, the bytes it has emptied
  or printed are as it left them, which the end of its count needs.
* `AttributesTheorem` (`AttributesOwn`) for any bridges in any order, and any reads that
  fail. `AttrInv` adds that the buffer holds the last text that could be read of the
  bridge `init_lba` is called for, or none.
* `ModeAndSpeedTheorem` and `NamesTheorem` (`ModeAndSpeedFit`, `NamesSurvive`) for
  every value of the fields. `DecodedInv` keeps with each result that its mode and
  speed fit and are in pcitop's tables; `TableSurvives` is about any table with
  different names and different values.

The last two theorems of `StartupProofs`, `AskedTheorem` (`DisplayedAsAsked`) and
`InfoTheorem` (`InfoShows`), compare all that happened since the command line was
typed with what is displayed and printed, in whatever order sysfs lists its entries.
They assume:

* `NothingFails`: no call fails, and the address of every slot can be read.
* `MachineAsNamed`: slot names are one to five digits, the only names
  `integrity_parse_slot` reads as a place (`PlaceTheorem`); every slot is behind a bridge
  that the driver shows, since one on another bus ends the scan or is left on a bridge
  that pcitop does not list; the slots of one bridge are in one chassis, since
  `find_lba_location_info` keeps a single place for each bridge, that of its last slot;
  no two bridges have one PCI address, which `-P` would not tell apart; an interface
  belongs to a bridge of the machine, and when `-I` finds it, its domain reads the same
  in decimal and in hexadecimal, since `find_interface` scans it with `%d`.
* `ArgsMean`: what the user means by an argument is what the conversion of that option
  makes of its text. The filters take a negative domain or bus, and an empty text, for
  an option that was not given, so these are left out; and `-S` compares texts, so a slot
  must be written as pcitop prints it.

`NothingFailsAssumption` of `MCStartup` has TLC evaluate the three on the machine and
the arguments of `filters`. `DisplayedAsAsked` is not inductive, as it speaks of the
end only. `WholeInv` says what each stage hands to the next, on top of `StartInv`:

* `OptInv`: after n options, each field of `options` has the value that the last of
  the first n to name it gave, or its default (`OptionsTold`); a field is assigned by
  two options in `-a`/`-o` and `-P`/`-I`. With `ArgsMean` this becomes what the user
  means (`ToldIsMeant`).
* `TreeWhole`: each entry that a scan has not returned yet is still in the directory
  and each that it has returned is on its list, so that in the end a bridge has exactly
  the slots behind it, each once (`SlotsFound`).
* `EntriesInv`: the same for the class directory; and no pointer is missing, so a start
  without failures never crashes.
* `LocatedInv`: a bridge is where its slot last looked at is (`Done` counts how many were).
  When all are done that is where every slot behind it is, as these share a chassis; a
  bridge without slots keeps the zeroes of `calloc` (`WhereItIs`).
* `SysInv`: each list of `sys_info` holds the cabinets, bays or chassis of the slots
  looked at, none twice. `InfoShows` needs it: a column is printed when its list has more
  than one entry, and it asks for the column when the machine has more than one.
* `FilterInv`: a bridge that the filters have passed is displayed if and only if it is
  asked for. `DisplaysAsked` decides the tests one by one: `and` looks for one that
  fails, `or` for one that succeeds, and no test means what the mode says.

`WholeInv` was checked by TLC on `filters` together with `StartInv`.

Where a proof goes by induction, over the digits of a text, the loops over
`host_lba_list` or the members of a ring, it takes the least counterexample of a
set of numbers (`LeastNumber`, `NatSet`), because the provers cannot instantiate the
induction theorems of the library. The existence of a function that is defined
recursively is proved the same way (`ShownExists`, `FoldExists`).

Only model-checked: `InterruptEnds`, a liveness property under fairness, which is out
of the prover's reach. `PlaceIsWXYZZ` is stated for the names of the run `parts`; its
content, for any name, is `PlaceTheorem`. Every other property of a passing run is
stated by a theorem. What the violating runs show is not proved either: the
counterexample is the proof.

## Plan

The modules were written in the order in which their failures matter: the
attribute and its state machine, the measurement on top of it and what it
promises, the start of the program, the driver module, the read-only attributes,
and what all of them rest on, attribute files and lists; the proofs in nearly
the same order. What could come next: the texts of the lines, which `Layout` reduces
to their lengths, so that the columns of the banner can be compared with those of
the lines; and what of `DisplayedAsAsked` remains when single addresses cannot be read.

## Not modelled

* `string.c`, `talloc.c`, `noerr.c` and the type checks: vendored from CCAN and
  linked, but of them pcitop uses only the macro `streq` (`string.c` is all that
  calls talloc).
* Messages: `debug`, `verbose`, `error`, `-v`, `-d`, and the driver's debug
  parameter. No state depends on them.
* The segment that the driver stores in `struct lba` and never reads.
* The texts of lines and banners, of which `Layout` keeps the lengths.
* Hazards listed without a property, each with its reason in `PROJECT.json`:
  mostly inputs to which neither code nor documentation gives a right answer (slot
  names with a suffix, domains above nine with `-I`), and memory whose contents
  the model does not have.
* Build files, packaging and the web pages have no logic of the program.
