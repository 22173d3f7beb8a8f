------------------------------- MODULE Meter --------------------------------
(***************************************************************************)
(* What pcitop promises its user, with no driver, register or signal in    *)
(* sight: each process looks at its bridges through windows of time, and   *)
(* every line it prints is about what went over the buses while the        *)
(* windows were open.  A line of samples is about the last window of each  *)
(* bridge, the final line about all its windows together.  Nothing is      *)
(* promised for a bridge that the process lost hold of.                    *)
(***************************************************************************)
EXTENDS Integers

CONSTANTS
  Process,
  Lba,
  Shows     \* the bridges each process shows

VARIABLES
  win,      \* the last window: is it open, busy cycles and cycles in it
  tot,      \* busy cycles and cycles in all windows
  ready,    \* the bridges that each process has hold of
  shown     \* the last line printed

meterVars == <<win, tot, ready, shown>>

Closed   == [open |-> FALSE, c |-> 0, t |-> 0]
NoCycles == [c |-> 0, t |-> 0]

Init ==
  /\ win = [p \in Process |-> [l \in Lba |-> Closed]]
  /\ tot = [p \in Process |-> [l \in Lba |-> NoCycles]]
  /\ ready = [p \in Process |-> {}]
  /\ shown = [p \in Process |-> [kind |-> "nothing"]]

\* Before the first line a process takes hold of its bridges and clears their
\* totals.
Hold(p, l) ==
  /\ l \in Shows[p]
  /\ shown[p].kind = "nothing"
  /\ ready' = [ready EXCEPT ![p] = @ \cup {l}]
  /\ UNCHANGED <<win, tot, shown>>

Clear(p, l) ==
  /\ l \in ready[p]
  /\ shown[p].kind = "nothing"
  /\ tot' = [tot EXCEPT ![p][l] = NoCycles]
  /\ UNCHANGED <<win, ready, shown>>

Open(p, l) ==
  /\ l \in ready[p]
  /\ ~win[p][l].open
  /\ shown[p].kind # "average"
  /\ win' = [win EXCEPT ![p][l] = [open |-> TRUE, c |-> 0, t |-> 0]]
  /\ UNCHANGED <<tot, ready, shown>>

Close(p, l) ==
  /\ l \in ready[p]
  /\ win[p][l].open
  /\ win' = [win EXCEPT ![p][l].open = FALSE]
  /\ UNCHANGED <<tot, ready, shown>>

\* A cycle of the bus behind l is seen through every open window on l.
Cycle(l, busy) ==
  LET Seen(w, p) == IF win[p][l].open
                      THEN [w EXCEPT !.c = @ + busy, !.t = @ + 1] ELSE w
  IN /\ win' = [p \in Process |-> [win[p] EXCEPT ![l] = Seen(@, p)]]
     /\ tot' = [p \in Process |-> [tot[p] EXCEPT ![l] = Seen(@, p)]]
     /\ UNCHANGED <<ready, shown>>

\* Everybody loses hold of all bridges, for as long as they run.
Lose ==
  LET Ended(p) == shown[p].kind = "average"
  IN /\ ready' = [p \in Process |-> IF Ended(p) THEN ready[p] ELSE {}]
     /\ win' = [p \in Process |->
                  IF Ended(p) THEN win[p] ELSE [l \in Lba |-> Closed]]
     /\ tot' = [p \in Process |->
                  IF Ended(p) THEN tot[p] ELSE [l \in Lba |-> NoCycles]]
     /\ UNCHANGED shown

\* A line, the last one or not, is about the windows w.
Line(p, kind, w) ==
  /\ shown[p].kind # "average"
  /\ \A l \in ready[p] : ~win[p][l].open
  /\ shown'[p].kind = kind
  /\ \A l \in ready[p] :
       shown'[p].util[l] = [c |-> w[p][l].c, t |-> w[p][l].t]
  /\ \A q \in Process \ {p} : shown'[q] = shown[q]
  /\ UNCHANGED <<win, tot, ready>>

\* The process is killed, and run again.
Restart(p) ==
  /\ win' = [win EXCEPT ![p] = [l \in Lba |-> Closed]]
  /\ tot' = [tot EXCEPT ![p] = [l \in Lba |-> NoCycles]]
  /\ ready' = [ready EXCEPT ![p] = {}]
  /\ shown' = [shown EXCEPT ![p] = [kind |-> "nothing"]]

Next ==
  \/ \E p \in Process, l \in Lba :
       Hold(p, l) \/ Clear(p, l) \/ Open(p, l) \/ Close(p, l)
  \/ \E l \in Lba, busy \in {0, 1} : Cycle(l, busy)
  \/ \E p \in Process :
       Line(p, "sample", win) \/ Line(p, "average", tot) \/ Restart(p)
  \/ Lose

Spec == Init /\ [][Next]_meterVars

=============================================================================
