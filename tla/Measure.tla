------------------------------ MODULE Measure -------------------------------
(***************************************************************************)
(* pcitop measuring utilization: measure_utilization, its signal handling  *)
(* and the attribute operations of hplba_ops (src/pcitop.c), on top of the *)
(* driver of module Hplba.                                                 *)
(*                                                                         *)
(* Each client of the driver is a pcitop process.  While a process is in a *)
(* system call on an attribute, its next step is the driver's step; the    *)
(* results of failing calls are ignored, as they are in the code.          *)
(***************************************************************************)
EXTENDS Hplba

CONSTANTS
  Display,    \* for each process, its list of bridges with lba->display set
  NSamples,   \* options.nsamples, the number of samples asked for
  Endless,    \* TRUE: so many samples that the count plays no role
  UTIL_ROWS,  \* lines of results between two banners
  WordMod,    \* unsigned long arithmetic is modulo this (2^64)
  MaxKills    \* bound: how often each process is killed and run again

\* main refuses to measure when the filters left no bridge, and turns a count
\* of zero samples into the default.
ASSUME MeasureAssumption ==
  /\ Display \in [Client -> Seq(Lba)]
  /\ \A p \in Client :
       /\ Display[p] # << >>
       /\ \A i \in 1 .. Len(Display[p]) : Display[p][i] \in Opens[p]
       /\ \A i, j \in 1 .. Len(Display[p]) :
            Display[p][i] = Display[p][j] => i = j
  /\ NSamples \in Nat \ {0}
  /\ Endless \in BOOLEAN
  /\ UTIL_ROWS \in Nat \ {0}
  /\ WordMod \in Nat \ {0} /\ WordMod % CntrMod = 0
  /\ MaxKills \in Nat

VARIABLES
  pc,            \* where in measure_utilization each process is
  at,            \* the place in the list of the list_for_each it is in
  nsamples,      \* samples left to take
  num_lines,     \* lines since the banner
  time_to_quit,  \* set by sigint_handler
  blocked,       \* is SIGINT in the process's signal mask?
  pending,       \* did SIGINT arrive while it was blocked?
  info,          \* timer, counter and their previous values, per bridge
  shown,         \* the last line of results, as ratios
  kills          \* how often the process was killed

signals == <<time_to_quit, blocked, pending>>
results == <<nsamples, num_lines, info, shown>>
procVars == <<pc, at, results, signals, kills>>
measureVars == <<hplbaVars, procVars>>

-----------------------------------------------------------------------------
(* States.                                                                 *)

\* The list_for_each loops that write a command are named by the command.
PCs == UtilCommands \cup {"loop", "sleep", "collect", "print", "final", "done"}

\* The bridges process p displays.
Displayed(p) == {Display[p][i] : i \in 1 .. Len(Display[p])}

Counts == 0 .. CntrMod - 1

\* struct lba_info, as far as it takes part in the measurement; init_lba
\* callocs it, with in_use set to 1 and never changed.
LbaInfo == [timer : Counts, counter : Counts,
            prev_timer : Counts, prev_counter : Counts]
NewInfo == [timer |-> 0, counter |-> 0, prev_timer |-> 0, prev_counter |-> 0]
in_use(l) == 1

\* A utilization is the ratio c / t of two unsigned longs.
Ratio == [c : 0 .. WordMod - 1, t : 0 .. WordMod - 1]
NothingShown == [kind |-> "nothing"]

MeasureTypeOK ==
  /\ pc \in [Client -> PCs]
  /\ \A p \in Client : at[p] \in 1 .. Len(Display[p]) + 1
  /\ nsamples \in [Client -> 0 .. NSamples]
  /\ num_lines \in [Client -> 1 .. UTIL_ROWS]
  /\ \A v \in {time_to_quit, blocked, pending} : v \in [Client -> BOOLEAN]
  /\ info \in [Client -> [Lba -> LbaInfo]]
  /\ \A p \in Client :
       shown[p] \in {NothingShown} \cup
         [kind : {"sample", "average"}, util : [Displayed(p) -> Ratio]]
  /\ kills \in [Client -> 0 .. MaxKills]

-----------------------------------------------------------------------------
(* The loops over the bridges.                                             *)

\* Process p is at a place of measure_utilization, outside any call.
In(p, place) == pc[p] = place /\ call[p] = Idle
AtEnd(p)     == at[p] > Len(Display[p])
Bridge(p)    == Display[p][at[p]]

Next_lba(p)    == at' = [at EXCEPT ![p] = @ + 1]
Goto(p, place) == /\ pc' = [pc EXCEPT ![p] = place]
                  /\ at' = [at EXCEPT ![p] = 1]

\* The attribute of bridge l is opened and written, or read.  With the driver
\* gone the open fails, and what was read before stays.
write_attribute(p, l, cmd) ==
  \/ utilization_store(p, l, cmd)
  \/ ~loaded /\ UNCHANGED hplbaVars

read_attribute(p, l) ==
  \/ utilization_show(p, l)
  \/ ~loaded /\ UNCHANGED hplbaVars

\* hplba_init, hplba_reset, hplba_start and hplba_stop: the command is written
\* to the bridge's attribute.
write_lba_attribute(p, cmd) ==
  /\ In(p, cmd) /\ ~AtEnd(p)
  /\ write_attribute(p, Bridge(p), cmd)
  /\ Next_lba(p)
  /\ UNCHANGED <<pc, results, signals, kills>>

\* hplba_collect: the bridge's attribute is read ...
read_lba_attribute(p) ==
  /\ In(p, "collect") /\ ~AtEnd(p)
  /\ read_attribute(p, Bridge(p))
  /\ Next_lba(p)
  /\ UNCHANGED <<pc, results, signals, kills>>

\* ... and what was read becomes the bridge's current count.
hplba_collect(p) ==
  /\ utilization_show_cntr(p)
  /\ info' = [info EXCEPT ![p][call[p].lba].timer = call[p].timer,
                          ![p][call[p].lba].counter = cntr[call[p].lba]]
  /\ UNCHANGED <<pc, at, nsamples, num_lines, shown, signals, kills>>

\* The steps of the driver in a store of process p.
StoreStep(p) == (set_util_state(p) \/ util_op(p)) /\ UNCHANGED procVars

-----------------------------------------------------------------------------
(* The rest of measure_utilization.                                        *)

FaultyNextPlace ==          \* the counters are programmed but not reset
  [init |-> "loop", reset |-> "loop", stop |-> "collect", collect |-> "print"]

\* From one loop over the bridges to the next.
NextPlace == [init |-> "reset", reset |-> "loop", stop |-> "collect",
              collect |-> "print"]

EndList(p) ==
  /\ \E place \in DOMAIN NextPlace :
       In(p, place) /\ AtEnd(p) /\ Goto(p, NextPlace[place])
  /\ UNCHANGED <<hplbaVars, results, signals, kills>>

\* The condition of the for loop.
LoopTest(p) ==
  /\ In(p, "loop")
  /\ Goto(p, IF ~time_to_quit[p] /\ nsamples[p] > 0 THEN "start" ELSE "final")
  /\ UNCHANGED <<hplbaVars, results, signals, kills>>

FaultyUnblock(p) ==         \* SIGALRM is unblocked instead of SIGINT
  UNCHANGED signals

\* sigprocmask(SIG_UNBLOCK): a pending SIGINT is delivered before it returns.
Unblock(p) ==
  /\ blocked' = [blocked EXCEPT ![p] = FALSE]
  /\ time_to_quit' = [time_to_quit EXCEPT ![p] = @ \/ pending[p]]
  /\ pending' = [pending EXCEPT ![p] = FALSE]

\* All bridges are started.
unmask_signals(p) ==
  /\ In(p, "start") /\ AtEnd(p)
  /\ Unblock(p)
  /\ Goto(p, "sleep")
  /\ UNCHANGED <<hplbaVars, results, kills>>

FaultyMaskQuits(p) ==       \* an interrupted sleep leaves the loop at once
  /\ In(p, "sleep")
  /\ blocked' = [blocked EXCEPT ![p] = TRUE]
  /\ Goto(p, IF time_to_quit[p] THEN "final" ELSE "stop")
  /\ UNCHANGED <<hplbaVars, results, time_to_quit, pending, kills>>

FaultyMaskCollects(p) ==    \* the counters are read before they are stopped
  /\ In(p, "sleep")
  /\ blocked' = [blocked EXCEPT ![p] = TRUE]
  /\ Goto(p, "collect")
  /\ UNCHANGED <<hplbaVars, results, time_to_quit, pending, kills>>

\* sleep returns, because the time is over or because SIGINT came.
mask_signals(p) ==
  /\ In(p, "sleep")
  /\ blocked' = [blocked EXCEPT ![p] = TRUE]
  /\ Goto(p, "stop")
  /\ UNCHANGED <<hplbaVars, results, time_to_quit, pending, kills>>

FaultyMinus(a, b) == a - b  \* signed subtraction

\* unsigned long subtraction
Minus(a, b) == (a - b) % WordMod

FaultyAverageUtil(i) ==     \* since the previous sample
  [c |-> Minus(i.counter, i.prev_counter), t |-> Minus(i.timer, i.prev_timer)]

\* The utilization since the previous sample, and since the reset.
SampleUtil(i)  == [c |-> Minus(i.counter, i.prev_counter),
                   t |-> Minus(i.timer, i.prev_timer)]
AverageUtil(i) == [c |-> i.counter, t |-> i.timer]
NoUtil         == [c |-> 0, t |-> 1]

SampleLine(p) ==
  [l \in Displayed(p) |->
     IF in_use(l) = 1 THEN SampleUtil(info[p][l]) ELSE NoUtil]
AverageLine(p) ==
  [l \in Displayed(p) |->
     IF in_use(l) = 1 THEN AverageUtil(info[p][l]) ELSE NoUtil]

FaultyPrintSample(p) ==     \* prev_counter is not updated
  /\ In(p, "print")
  /\ shown' = [shown EXCEPT ![p] = [kind |-> "sample",
                                     util |-> SampleLine(p)]]
  /\ info' = [info EXCEPT ![p] = [l \in Lba |->
       IF l \in Displayed(p)
         THEN [info[p][l] EXCEPT !.prev_timer = info[p][l].timer]
         ELSE info[p][l]]]
  /\ num_lines' = [num_lines EXCEPT ![p] = IF @ = UTIL_ROWS THEN 1 ELSE @ + 1]
  /\ nsamples' = [nsamples EXCEPT ![p] = IF Endless THEN @ ELSE @ - 1]
  /\ Goto(p, "loop")
  /\ UNCHANGED <<hplbaVars, signals, kills>>

\* A line of results: the banner when it is due, the utilizations, and the
\* increments of the for loop.
PrintSample(p) ==
  /\ In(p, "print")
  /\ shown' = [shown EXCEPT ![p] = [kind |-> "sample",
                                     util |-> SampleLine(p)]]
  /\ info' = [info EXCEPT ![p] = [l \in Lba |->
       IF l \in Displayed(p)
         THEN [info[p][l] EXCEPT !.prev_timer = info[p][l].timer,
                                 !.prev_counter = info[p][l].counter]
         ELSE info[p][l]]]
  /\ num_lines' = [num_lines EXCEPT ![p] = IF @ = UTIL_ROWS THEN 1 ELSE @ + 1]
  /\ nsamples' = [nsamples EXCEPT ![p] = IF Endless THEN @ ELSE @ - 1]
  /\ Goto(p, "loop")
  /\ UNCHANGED <<hplbaVars, signals, kills>>

\* After the for loop: signals are unmasked and the averages printed.
PrintAverage(p) ==
  /\ In(p, "final")
  /\ Unblock(p)
  /\ shown' = [shown EXCEPT ![p] = [kind |-> "average",
                                     util |-> AverageLine(p)]]
  /\ Goto(p, "done")
  /\ UNCHANGED <<hplbaVars, nsamples, num_lines, info, kills>>

-----------------------------------------------------------------------------
(* The environment of a process.                                           *)

\* SIGINT is sent to process p.
sigint_handler(p) ==
  /\ pc[p] # "done"
  /\ \/ /\ blocked[p]
        /\ pending' = [pending EXCEPT ![p] = TRUE]
        /\ UNCHANGED time_to_quit
     \/ /\ ~blocked[p]
        /\ time_to_quit' = [time_to_quit EXCEPT ![p] = TRUE]
        /\ UNCHANGED pending
  /\ UNCHANGED <<hplbaVars, pc, at, results, blocked, kills>>

\* Process p is killed and pcitop is run again with the same options.  A call
\* on an attribute runs to its end first.
Rerun(p) ==
  /\ call[p] = Idle
  /\ kills[p] < MaxKills
  /\ kills' = [kills EXCEPT ![p] = @ + 1]
  /\ Goto(p, "init")
  /\ nsamples' = [nsamples EXCEPT ![p] = NSamples]
  /\ num_lines' = [num_lines EXCEPT ![p] = UTIL_ROWS]
  /\ time_to_quit' = [time_to_quit EXCEPT ![p] = FALSE]
  /\ blocked' = [blocked EXCEPT ![p] = FALSE]
  /\ pending' = [pending EXCEPT ![p] = FALSE]
  /\ info' = [info EXCEPT ![p] = [l \in Lba |-> NewInfo]]
  /\ shown' = [shown EXCEPT ![p] = NothingShown]
  /\ UNCHANGED hplbaVars

-----------------------------------------------------------------------------
MeasureInit ==
  /\ HplbaInit
  /\ pc = [p \in Client |-> "init"]
  /\ at = [p \in Client |-> 1]
  /\ nsamples = [p \in Client |-> NSamples]
  /\ num_lines = [p \in Client |-> UTIL_ROWS]
  /\ time_to_quit = [p \in Client |-> FALSE]
  /\ blocked = [p \in Client |-> FALSE]
  /\ pending = [p \in Client |-> FALSE]
  /\ info = [p \in Client |-> [l \in Lba |-> NewInfo]]
  /\ shown = [p \in Client |-> NothingShown]
  /\ kills = [p \in Client |-> 0]

\* A step of process p, in the program or in a system call.
Step(p) ==
  \/ \E cmd \in UtilCommands : write_lba_attribute(p, cmd)
  \/ read_lba_attribute(p)
  \/ hplba_collect(p)
  \/ StoreStep(p)
  \/ EndList(p)
  \/ LoopTest(p)
  \/ unmask_signals(p)
  \/ mask_signals(p)
  \/ PrintSample(p)
  \/ PrintAverage(p)

MeasureNext ==
  \/ \E p \in Client : Step(p) \/ sigint_handler(p) \/ Rerun(p)
  \/ (hplba_exit \/ hplba_init \/ Bus) /\ UNCHANGED procVars

\* The scheduler runs every process, and sleep returns.  Nobody has to send
\* SIGINT, to kill a process or to load a driver.
MeasureSpec == /\ MeasureInit /\ [][MeasureNext]_measureVars
               /\ \A p \in Client : WF_measureVars(Step(p))

-----------------------------------------------------------------------------
(* Properties.                                                             *)

\* A process that was sent SIGINT gets to its end unless it is killed before,
\* whenever the signal came, however many samples were asked for and whether or
\* not the driver is still there.
InterruptEnds ==
  \A p \in Client, k \in 0 .. MaxKills :
    (time_to_quit[p] \/ pending[p]) /\ kills[p] = k
      ~> pc[p] = "done" \/ kills[p] > k

\* pcitop.c, lines 938-939: the counters of a bridge without devices "always"
\* show 100%, which the test of in_use is there to turn into 0%.
IdleBridgeShowsZero ==
  \A p \in Client : shown[p] # NothingShown =>
    \A l \in Displayed(p) \ Populated : shown[p].util[l].c = 0

=============================================================================
