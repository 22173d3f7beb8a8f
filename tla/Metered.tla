------------------------------ MODULE Metered -------------------------------
(***************************************************************************)
(* pcitop and its driver (module Measure) with history variables that say  *)
(* what really happened on the buses.  A window of process p on bridge l   *)
(* opens when the start that p asked for reaches l's registers and closes  *)
(* when the stop does.  The abstract specification Meter says what p must  *)
(* print in terms of its windows.  A process has hold of a bridge (ready)  *)
(* from its init of the bridge until the driver is removed.                *)
(***************************************************************************)
EXTENDS Measure

CONSTANT MaxTicks   \* bound: how many cycles of each bus are looked at

ASSUME MeteredAssumption == MaxTicks \in Nat

MaxLate == 3    \* bound: how far the lines after SIGINT are counted

VARIABLES
  win,    \* for each process and bridge, the last window
  tot,    \* for each process and bridge, all windows together
  ready,  \* the bridges that each process has hold of
  ticks,  \* cycles of each bus
  late    \* lines of samples that each process printed after SIGINT

cycles == <<win, tot, ready>>
meteredVars == <<measureVars, cycles, ticks, late>>

Closed   == [open |-> FALSE, c |-> 0, t |-> 0]
NoCycles == [c |-> 0, t |-> 0]

\* What process p's register write does to its windows.
Observe(p) ==
  LET l == call[p].lba
  IN \/ /\ call[p].cmd = "init"
        /\ ready' = [ready EXCEPT ![p] = @ \cup {l}]
        /\ UNCHANGED <<win, tot>>
     \/ /\ call[p].cmd = "reset"
        /\ tot' = [tot EXCEPT ![p][l] = NoCycles]
        /\ UNCHANGED <<win, ready>>
     \/ /\ call[p].cmd = "start"
        /\ win' = [win EXCEPT ![p][l] = [Closed EXCEPT !.open = TRUE]]
        /\ UNCHANGED <<tot, ready>>
     \/ /\ call[p].cmd = "stop"
        /\ win' = [win EXCEPT ![p][l].open = FALSE]
        /\ UNCHANGED <<tot, ready>>

\* One more cycle, if it is seen through a window of process p on bridge l.
Seen(w, p, l, busy) ==
  IF win[p][l].open THEN [w EXCEPT !.c = @ + busy, !.t = @ + 1] ELSE w

MeteredInit ==
  /\ MeasureInit
  /\ win = [p \in Client |-> [l \in Lba |-> Closed]]
  /\ tot = [p \in Client |-> [l \in Lba |-> NoCycles]]
  /\ ready = [p \in Client |-> {}]
  /\ ticks = [l \in Lba |-> 0]
  /\ late = [p \in Client |-> 0]

MeteredStep(p) ==
  /\ Step(p)
  /\ IF call[p].pc = "regs" THEN Observe(p) ELSE UNCHANGED cycles
  /\ late' = IF pc[p] = "print" /\ (time_to_quit[p] \/ pending[p])
               THEN [late EXCEPT ![p] = IF @ < MaxLate THEN @ + 1 ELSE @]
               ELSE late
  /\ UNCHANGED ticks

MeteredRerun(p) ==
  /\ Rerun(p)
  /\ win' = [win EXCEPT ![p] = [l \in Lba |-> Closed]]
  /\ tot' = [tot EXCEPT ![p] = [l \in Lba |-> NoCycles]]
  /\ ready' = [ready EXCEPT ![p] = {}]
  /\ late' = [late EXCEPT ![p] = 0]
  /\ UNCHANGED ticks

\* The driver is removed, or inserted.  A process that is at its end does not
\* mind.
MeteredReload ==
  /\ \/ /\ hplba_exit
        /\ win' = [p \in Client |->
             IF pc[p] = "done" THEN win[p] ELSE [l \in Lba |-> Closed]]
        /\ tot' = [p \in Client |->
             IF pc[p] = "done" THEN tot[p] ELSE [l \in Lba |-> NoCycles]]
        /\ ready' = [p \in Client |-> IF pc[p] = "done" THEN ready[p] ELSE {}]
     \/ hplba_init /\ UNCHANGED cycles
  /\ UNCHANGED <<procVars, ticks, late>>

\* A cycle that neither a counter counts nor a window sees is left out.
MeteredCycle(l, busy) ==
  /\ Counting(l) \/ \E p \in Client : win[p][l].open
  /\ ticks[l] < MaxTicks
  /\ ticks' = [ticks EXCEPT ![l] = @ + 1]
  /\ BusCycle(l, busy)
  /\ win' = [p \in Client |-> [win[p] EXCEPT ![l] = Seen(@, p, l, busy)]]
  /\ tot' = [p \in Client |-> [tot[p] EXCEPT ![l] = Seen(@, p, l, busy)]]
  /\ UNCHANGED <<procVars, ready, late>>

MeteredNext ==
  \/ \E p \in Client : \/ MeteredStep(p)
                       \/ sigint_handler(p) /\ UNCHANGED <<cycles, ticks, late>>
                       \/ MeteredRerun(p)
  \/ MeteredReload
  \/ \E l \in Lba, busy \in {0, 1} : MeteredCycle(l, busy)

\* The fairness of MeasureSpec.
MeteredSpec == /\ MeteredInit /\ [][MeteredNext]_meteredVars
               /\ \A p \in Client : WF_meteredVars(MeteredStep(p))

-----------------------------------------------------------------------------
(* Properties.  Each is about processes that display bridges of their own. *)

\* A count of n cycles, seen by a counter that wrapped meanwhile or not.
Counted(shows, n, wrapped) ==
  /\ (shows - n) % CntrMod = 0
  /\ ~wrapped => shows = n

\* A line of samples shows, for each bridge with a device behind it, the busy
\* cycles and the cycles of the window that was open since the line before:
\* none is lost or counted twice between stop and the next start, or while the
\* other bridges are served.  The 48 bit counters are subtracted as 64 bit
\* words, so that the window in which a counter wraps is off by a multiple of
\* 2^48; no other line is.
SampleAccurate ==
  \A p \in Client : pc[p] = "loop" /\ shown[p] # NothingShown =>
    \A l \in Displayed(p) \cap Populated \cap ready[p] :
      LET u == shown[p].util[l]
          w == win[p][l]
          Wraps(all, n) == all \div CntrMod # (all - n) \div CntrMod
      IN /\ Counted(u.c, w.c, Wraps(tot[p][l].c, w.c))
         /\ Counted(u.t, w.t, Wraps(tot[p][l].t, w.t))

\* The final line shows all windows together, up to the width of the counters,
\* also after an interrupt, before which there may have been no window at all
\* (0 / 0), and when an earlier pcitop was killed in the middle of a sample.
AverageAccurate ==
  \A p \in Client : pc[p] = "done" =>
    \A l \in Displayed(p) \cap Populated \cap ready[p] :
      LET u == shown[p].util[l]
      IN /\ Counted(u.c, tot[p][l].c, tot[p][l].c >= CntrMod)
         /\ Counted(u.t, tot[p][l].t, tot[p][l].t >= CntrMod)

\* However SIGINT falls between the masked and the unmasked stretches of the
\* loop, at most two more lines of samples are printed: the one in progress,
\* and one more if the signal was held back until the next unmask_signals.
InterruptBounded == \A p \in Client : late[p] < MaxLate

\* As long as the driver stays, no store of pcitop is refused: set_util_state's
\* switches allow every transition pcitop asks for, also in the state that a
\* killed pcitop left behind.  (pcitop would not notice a refusal.)
NoStoreRejected ==
  \A p \in Client :
    call[p].pc = "check" /\ (call[p].cmd = "init" \/ call[p].lba \in ready[p])
      => call[p].cur \in LegalFrom[call[p].cmd]

\* A pcitop that ends, interrupted or not, leaves no counter running, unless
\* the driver was removed under it.
CountersStoppedAtExit ==
  \A p \in Client : pc[p] = "done" =>
    \A l \in Displayed(p) \cap ready[p] : ~Counting(l)

\* When the driver is removed and inserted again, a running pcitop is refused
\* whatever it asks for until it ends: the counters of its bridges go on as
\* they were, and pcitop, which ignores the refusals, cannot stop them.  Only
\* a new pcitop begins with init.
RefusedForGood ==
  [][\A p \in Client : pc[p] # "init" =>
       \A l \in Displayed(p) \ ready[p] : reg'[l] = reg[l]]_meteredVars

\* pcitop implements the abstract meter, as long as no counter wraps.
TheMeter == INSTANCE Meter WITH
  Process <- Client, Shows <- [p \in Client |-> Displayed(p)]
ImplementsMeter == TheMeter!Spec

=============================================================================
