--------------------------- MODULE MeasureProofs ----------------------------
(***************************************************************************)
(* The measurement, for any number of processes, bridges and samples.      *)
(***************************************************************************)
EXTENDS Metered, HplbaProofs

-----------------------------------------------------------------------------
(* pcitop as a client of the driver.                                       *)

LEMMA DisplayFacts ==
  ASSUME NEW p \in Client
  PROVE  /\ Len(Display[p]) \in Nat
         /\ \A i \in 1 .. Len(Display[p]) :
              Display[p][i] \in Lba /\ Display[p][i] \in Displayed(p)
         /\ Displayed(p) \subseteq Opens[p] /\ Displayed(p) \subseteq Lba
         /\ \A i, j \in 1 .. Len(Display[p]) : Display[p][i] = Display[p][j] => i = j
<1>1. Display[p] \in Seq(Lba)
  BY MeasureAssumption
<1>2. /\ \A i \in 1 .. Len(Display[p]) : Display[p][i] \in Opens[p]
      /\ \A i, j \in 1 .. Len(Display[p]) : Display[p][i] = Display[p][j] => i = j
  BY MeasureAssumption
<1> QED
  BY <1>1, <1>2 DEF Displayed

\* The bridge that a loop over the list has come to.
LEMMA AtBridge ==
  ASSUME MeasureTypeOK, NEW p \in Client, ~AtEnd(p)
  PROVE  /\ at[p] \in 1 .. Len(Display[p])
         /\ Bridge(p) \in Displayed(p) /\ Bridge(p) \in Opens[p] /\ Bridge(p) \in Lba
<1>1. at[p] \in 1 .. Len(Display[p])
  BY DisplayFacts DEF MeasureTypeOK, AtEnd
<1> QED
  BY <1>1, DisplayFacts DEF Bridge

\* What a step of a process does to the driver is a step of the driver.
LEMMA ProcessIsClient ==
  ASSUME NEW p \in Client, Step(p), MeasureTypeOK
  PROVE  Call(p) \/ UNCHANGED hplbaVars
<1>1. ASSUME NEW cmd \in UtilCommands, write_lba_attribute(p, cmd)
      PROVE  Call(p) \/ UNCHANGED hplbaVars
  <2>1. Bridge(p) \in Opens[p]
    BY <1>1, AtBridge DEF write_lba_attribute
  <2>2. cmd \in Texts
    BY DEF Texts, UtilStates
  <2> QED
    BY <1>1, <2>1, <2>2 DEF write_lba_attribute, write_attribute, Call
<1>2. ASSUME read_lba_attribute(p)
      PROVE  Call(p) \/ UNCHANGED hplbaVars
  <2>1. Bridge(p) \in Opens[p]
    BY <1>2, AtBridge DEF read_lba_attribute
  <2> QED
    BY <1>2, <2>1 DEF read_lba_attribute, read_attribute, Call
<1>3. ASSUME \/ hplba_collect(p) \/ StoreStep(p)
      PROVE  Call(p)
  BY <1>3 DEF hplba_collect, StoreStep, Call
<1>4. ASSUME \/ EndList(p) \/ LoopTest(p) \/ unmask_signals(p) \/ mask_signals(p)
             \/ PrintSample(p) \/ PrintAverage(p)
      PROVE  UNCHANGED hplbaVars
  BY <1>4 DEF EndList, LoopTest, unmask_signals, mask_signals, PrintSample, PrintAverage
<1> QED
  BY <1>1, <1>2, <1>3, <1>4 DEF Step

LEMMA MeteredIsHplba ==
  ASSUME MeasureTypeOK, [MeteredNext]_meteredVars
  PROVE  [HplbaNext]_hplbaVars
<1>1. ASSUME NEW p \in Client, MeteredStep(p)
      PROVE  Call(p) \/ UNCHANGED hplbaVars
  BY <1>1, ProcessIsClient DEF MeteredStep
<1>2. ASSUME NEW p \in Client, sigint_handler(p) \/ MeteredRerun(p)
      PROVE  UNCHANGED hplbaVars
  BY <1>2 DEF sigint_handler, MeteredRerun, Rerun
<1>3. ASSUME MeteredReload
      PROVE  hplba_exit \/ hplba_init
  BY <1>3 DEF MeteredReload
<1>4. ASSUME NEW l \in Lba, NEW busy \in {0, 1}, MeteredCycle(l, busy)
      PROVE  Bus
  BY <1>4 DEF MeteredCycle, Bus
<1>5. ASSUME UNCHANGED meteredVars
      PROVE  UNCHANGED hplbaVars
  BY <1>5 DEF meteredVars, measureVars
<1> QED
  BY <1>1, <1>2, <1>3, <1>4, <1>5 DEF MeteredNext, HplbaNext

-----------------------------------------------------------------------------
(* Types.                                                                  *)

Sampling == {"start", "sleep", "stop", "collect", "print"}

\* The history variables, and what MeasureTypeOK leaves out: at and shown are
\* functions, and a sample is only taken when one is left to take.
MeteredTypeOK ==
  /\ at \in [Client -> Nat] /\ DOMAIN shown = Client
  /\ \A p \in Client : pc[p] \in Sampling => nsamples[p] > 0
  /\ win \in [Client -> [Lba -> [open : BOOLEAN, c : Nat, t : Nat]]]
  /\ tot \in [Client -> [Lba -> [c : Nat, t : Nat]]]
  /\ ready \in [Client -> SUBSET Lba]
  /\ ticks \in [Lba -> 0 .. MaxTicks]
  /\ late \in [Client -> 0 .. MaxLate]

Types == TypeOK /\ MeasureTypeOK /\ MeteredTypeOK

LEMMA MinusInWord ==
  ASSUME NEW a \in Int, NEW b \in Int
  PROVE  Minus(a, b) \in 0 .. WordMod - 1
<1>1. WordMod \in Nat \ {0}
  BY MeasureAssumption
<1>2. \A n \in Int : n % WordMod \in 0 .. WordMod - 1
  BY <1>1
<1> QED
  BY <1>2 DEF Minus

\* CntrMod divides WordMod, so that a count fits into a word.
LEMMA CountsInWord == Counts \subseteq 0 .. WordMod - 1
<1>1. CntrMod \in Nat \ {0} /\ WordMod \in Nat \ {0} /\ WordMod % CntrMod = 0
  BY HplbaAssumption, MeasureAssumption
<1>2. WordMod < CntrMod => WordMod % CntrMod = WordMod
  BY <1>1
<1> QED
  BY <1>1, <1>2 DEF Counts

\* A loop over the bridges, and the steps that leave what was measured alone.
LEMMA GotoKeepsTypes ==
  ASSUME MeasureTypeOK, MeteredTypeOK, NEW p \in Client, NEW place \in PCs, Goto(p, place),
         nsamples' = nsamples
  PROVE  /\ pc' \in [Client -> PCs]
         /\ at' \in [Client -> Nat]
         /\ \A q \in Client : at'[q] \in 1 .. Len(Display[q]) + 1
         /\ (place \in Sampling => pc[p] \in Sampling \/ nsamples[p] > 0) =>
              \A q \in Client : pc'[q] \in Sampling => nsamples'[q] > 0
<1>1. \A q \in Client : Len(Display[q]) \in Nat
  BY DisplayFacts
<1> QED
  BY <1>1 DEF MeasureTypeOK, MeteredTypeOK, Goto, PCs

LEMMA NextLbaKeepsTypes ==
  ASSUME MeasureTypeOK, MeteredTypeOK, NEW p \in Client, ~AtEnd(p), Next_lba(p)
  PROVE  /\ at' \in [Client -> Nat]
         /\ \A q \in Client : at'[q] \in 1 .. Len(Display[q]) + 1
<1>1. \A q \in Client : Len(Display[q]) \in Nat
  BY DisplayFacts
<1>2. at[p] \in 1 .. Len(Display[p])
  BY AtBridge
<1> QED
  BY <1>1, <1>2 DEF MeasureTypeOK, MeteredTypeOK, Next_lba

\* What hplba_collect stores.
LEMMA CollectStores ==
  ASSUME Types, NEW p \in Client, hplba_collect(p), NEW l, l = call[p].lba
  PROVE  /\ l \in Lba
         /\ info' \in [Client -> [Lba -> LbaInfo]]
         /\ \A q \in Client, k \in Lba : q # p \/ k # l => info'[q][k] = info[q][k]
         /\ info'[p][l].timer = call[p].timer /\ info'[p][l].counter = cntr[l]
         /\ info'[p][l].prev_timer = info[p][l].prev_timer
         /\ info'[p][l].prev_counter = info[p][l].prev_counter
<1> DEFINE t == call[p].timer
           c == cntr[l]
<1>1. l \in Lba /\ t \in Counts /\ c \in Counts
  BY CallKinds DEF Types, hplba_collect, utilization_show_cntr, ShowCall, Counts, TypeOK
<1>2. info' = [info EXCEPT ![p][l].timer = t, ![p][l].counter = c]
  BY DEF hplba_collect
<1>3. info \in [Client -> [Lba -> LbaInfo]]
  BY DEF Types, MeasureTypeOK
<1> HIDE DEF t, c
<1> DEFINE new == [info[p][l] EXCEPT !.timer = t, !.counter = c]
<1>4. info[p][l] \in LbaInfo /\ info[p] \in [Lba -> LbaInfo]
  BY <1>1, <1>3
<1>5. /\ new \in LbaInfo /\ new.timer = t /\ new.counter = c
      /\ new.prev_timer = info[p][l].prev_timer
      /\ new.prev_counter = info[p][l].prev_counter
  BY <1>1, <1>4 DEF LbaInfo
<1>6. info' = [info EXCEPT ![p] = [info[p] EXCEPT ![l] = new]]
  BY <1>1, <1>2, <1>3
<1> HIDE DEF new
<1>7. /\ info' \in [Client -> [Lba -> LbaInfo]]
      /\ \A q \in Client, k \in Lba : q # p \/ k # l => info'[q][k] = info[q][k]
      /\ info'[p][l] = new
  BY <1>1, <1>3, <1>5, <1>6
<1> QED
  BY <1>1, <1>5, <1>7 DEF t, c

\* The lines that are printed are of the type that shown has.
LEMMA LinesTyped ==
  ASSUME Types, NEW p \in Client
  PROVE  /\ SampleLine(p) \in [Displayed(p) -> Ratio]
         /\ AverageLine(p) \in [Displayed(p) -> Ratio]
<1>1. ASSUME NEW l \in Displayed(p)
      PROVE  SampleUtil(info[p][l]) \in Ratio /\ AverageUtil(info[p][l]) \in Ratio
  <2>1. info[p][l] \in LbaInfo
    BY DisplayFacts DEF Types, MeasureTypeOK
  <2>2. /\ info[p][l].counter \in Counts /\ info[p][l].prev_counter \in Counts
        /\ info[p][l].timer \in Counts /\ info[p][l].prev_timer \in Counts
    BY <2>1 DEF LbaInfo
  <2>3. Counts \subseteq Int
    BY DEF Counts
  <2> QED
    BY <2>2, <2>3, MinusInWord, CountsInWord DEF SampleUtil, AverageUtil, Ratio
<1> QED
  BY <1>1 DEF SampleLine, AverageLine, in_use

\* What MeasureTypeOK and MeteredTypeOK say of the variables of Measure.
MeasureVarsOK ==
  /\ MeasureTypeOK
  /\ at \in [Client -> Nat] /\ DOMAIN shown = Client
  /\ \A p \in Client : pc[p] \in Sampling => nsamples[p] > 0

LEMMA LoopsKeepTypes ==
  ASSUME Types, NEW p \in Client,
         \/ \E cmd \in UtilCommands : write_lba_attribute(p, cmd)
         \/ read_lba_attribute(p)
         \/ hplba_collect(p)
         \/ StoreStep(p)
  PROVE  MeasureVarsOK'
<1> USE DEF Types
<1>1. CASE \/ \E cmd \in UtilCommands : write_lba_attribute(p, cmd)
           \/ read_lba_attribute(p)
  <2>1. /\ ~AtEnd(p) /\ Next_lba(p) /\ UNCHANGED <<pc, results, signals, kills>>
    BY <1>1 DEF write_lba_attribute, read_lba_attribute
  <2>2. /\ at' \in [Client -> Nat]
        /\ \A q \in Client : at'[q] \in 1 .. Len(Display[q]) + 1
    BY <2>1, NextLbaKeepsTypes
  <2> QED
    BY <2>1, <2>2 DEF MeasureTypeOK, MeteredTypeOK, MeasureVarsOK, results, signals
<1>2. CASE hplba_collect(p)
  <2>1. info' \in [Client -> [Lba -> LbaInfo]]
    BY <1>2, CollectStores
  <2> QED
    BY <1>2, <2>1
    DEF hplba_collect, MeasureTypeOK, MeteredTypeOK, MeasureVarsOK, signals
<1>3. CASE StoreStep(p)
  BY <1>3 DEF StoreStep, MeasureTypeOK, MeteredTypeOK, MeasureVarsOK, procVars, results, signals
<1> QED
  BY <1>1, <1>2, <1>3

LEMMA PlacesKeepTypes ==
  ASSUME Types, NEW p \in Client,
         EndList(p) \/ LoopTest(p) \/ unmask_signals(p) \/ mask_signals(p)
  PROVE  MeasureVarsOK'
<1> USE DEF Types
<1> DEFINE Placed(place) ==
      /\ Goto(p, place) /\ place \in PCs
      /\ place \in Sampling => pc[p] \in Sampling \/ nsamples[p] > 0
      /\ UNCHANGED <<results, kills>>
      /\ \A v \in {time_to_quit, blocked, pending}' : v \in [Client -> BOOLEAN]
<1>1. ASSUME EndList(p)
      PROVE  \E place : Placed(place)
  <2>1. PICK place \in DOMAIN NextPlace :
               In(p, place) /\ AtEnd(p) /\ Goto(p, NextPlace[place])
    BY <1>1 DEF EndList
  <2>2. /\ NextPlace[place] \in PCs
        /\ NextPlace[place] \in Sampling => pc[p] \in Sampling
    BY <2>1 DEF NextPlace, In, PCs, UtilCommands, Sampling
  <2>3. UNCHANGED <<results, kills, signals>>
    BY <1>1 DEF EndList
  <2>4. Placed(NextPlace[place])
    BY <2>1, <2>2, <2>3 DEF signals, MeasureTypeOK
  <2> QED
    BY <2>4, Zenon
<1>2. ASSUME LoopTest(p)
      PROVE  \E place : Placed(place)
  <2>1. /\ UNCHANGED <<results, kills, signals>>
        /\ \/ Goto(p, "start") /\ nsamples[p] > 0
           \/ Goto(p, "final")
    BY <1>2 DEF LoopTest
  <2>2. Placed("start") \/ Placed("final")
    BY <2>1 DEF signals, MeasureTypeOK, PCs, UtilCommands, Sampling
  <2> QED
    BY <2>2, Zenon
<1>3. ASSUME unmask_signals(p)
      PROVE  \E place : Placed(place)
  <2>1. Placed("sleep")
    BY <1>3 DEF unmask_signals, Unblock, In, MeasureTypeOK, PCs, Sampling
  <2> QED
    BY <2>1, Zenon
<1>4. ASSUME mask_signals(p)
      PROVE  \E place : Placed(place)
  <2>1. Placed("stop")
    BY <1>4 DEF mask_signals, In, MeasureTypeOK, PCs, UtilCommands, Sampling
  <2> QED
    BY <2>1, Zenon
<1> HIDE DEF Placed
<1>5. PICK place : Placed(place)
  BY <1>1, <1>2, <1>3, <1>4
<1> USE DEF Placed
<1>6. /\ pc' \in [Client -> PCs]
      /\ at' \in [Client -> Nat]
      /\ \A q \in Client : at'[q] \in 1 .. Len(Display[q]) + 1
      /\ \A q \in Client : pc'[q] \in Sampling => nsamples'[q] > 0
  BY <1>5, GotoKeepsTypes DEF results
<1> QED
  BY <1>5, <1>6 DEF MeasureTypeOK, MeteredTypeOK, MeasureVarsOK, results

LEMMA PrintsKeepTypes ==
  ASSUME Types, NEW p \in Client, PrintSample(p) \/ PrintAverage(p)
  PROVE  MeasureVarsOK'
<1> USE DEF Types
<1>1. \A q \in Client : Len(Display[q]) \in Nat
  BY DisplayFacts
<1>2. /\ UTIL_ROWS \in Nat \ {0} /\ NSamples \in Nat
  BY MeasureAssumption
<1>3. UNCHANGED kills
  BY DEF PrintSample, PrintAverage
<1>4. /\ pc' \in [Client -> PCs] /\ at' \in [Client -> Nat]
      /\ \A q \in Client : at'[q] \in 1 .. Len(Display[q]) + 1
      /\ pc'[p] \notin Sampling
      /\ \A q \in Client \ {p} : pc'[q] = pc[q]
  <2>1. PICK place \in {"loop", "done"} : Goto(p, place)
    BY DEF PrintSample, PrintAverage
  <2> QED
    BY <1>1, <2>1 DEF Goto, MeasureTypeOK, MeteredTypeOK, PCs, Sampling
<1>5. /\ nsamples' \in [Client -> 0 .. NSamples]
      /\ \A q \in Client \ {p} : nsamples'[q] = nsamples[q]
  <2>1. CASE PrintSample(p)
    <3>1. nsamples[p] > 0
      BY <2>1 DEF PrintSample, In, MeteredTypeOK, Sampling
    <3>2. \E n \in {nsamples[p], nsamples[p] - 1} :
            nsamples' = [nsamples EXCEPT ![p] = n]
      BY <2>1 DEF PrintSample
    <3>3. nsamples \in [Client -> 0 .. NSamples]
      BY DEF MeasureTypeOK
    <3>4. {nsamples[p], nsamples[p] - 1} \subseteq 0 .. NSamples
      BY <1>2, <3>1, <3>3
    <3> QED
      BY <3>2, <3>3, <3>4
  <2>2. CASE PrintAverage(p)
    BY <2>2 DEF PrintAverage, MeasureTypeOK
  <2> QED
    BY <2>1, <2>2
<1>6. num_lines' \in [Client -> 1 .. UTIL_ROWS]
  <2>1. \/ UNCHANGED num_lines
        \/ num_lines' = [num_lines EXCEPT ![p] = 1]
        \/ /\ num_lines[p] # UTIL_ROWS
           /\ num_lines' = [num_lines EXCEPT ![p] = num_lines[p] + 1]
    BY DEF PrintSample, PrintAverage
  <2> QED
    BY <1>2, <2>1 DEF MeasureTypeOK
<1>7. \A v \in {time_to_quit, blocked, pending}' : v \in [Client -> BOOLEAN]
  <2>1. /\ time_to_quit \in [Client -> BOOLEAN] /\ blocked \in [Client -> BOOLEAN]
        /\ pending \in [Client -> BOOLEAN]
    BY DEF MeasureTypeOK
  <2>2. CASE UNCHANGED signals
    BY <2>1, <2>2 DEF signals
  <2>3. CASE Unblock(p)
    BY <2>1, <2>3 DEF Unblock
  <2> QED
    BY <2>2, <2>3 DEF PrintSample, PrintAverage
<1>8. info' \in [Client -> [Lba -> LbaInfo]]
  <2>1. CASE PrintSample(p)
    <3> DEFINE new == [l \in Lba |-> IF l \in Displayed(p)
                         THEN [info[p][l] EXCEPT !.prev_timer = info[p][l].timer,
                                                 !.prev_counter = info[p][l].counter]
                         ELSE info[p][l]]
    <3>1. new \in [Lba -> LbaInfo]
      <4>1. ASSUME NEW l \in Lba
            PROVE  [info[p][l] EXCEPT !.prev_timer = info[p][l].timer,
                                      !.prev_counter = info[p][l].counter] \in LbaInfo
        <5>1. info[p][l] \in LbaInfo
          BY DEF MeasureTypeOK
        <5> QED
          BY <5>1 DEF LbaInfo
      <4>2. \A l \in Lba : info[p][l] \in LbaInfo
        BY DEF MeasureTypeOK
      <4> QED
        BY <4>1, <4>2, Zenon
    <3>2. info' = [info EXCEPT ![p] = new]
      BY <2>1, Zenon DEF PrintSample
    <3> HIDE DEF new
    <3> QED
      BY <3>1, <3>2 DEF MeasureTypeOK
  <2>2. CASE PrintAverage(p)
    BY <2>2 DEF PrintAverage, MeasureTypeOK
  <2> QED
    BY <2>1, <2>2
<1>9. /\ DOMAIN shown' = Client
      /\ \A q \in Client : shown'[q] \in {NothingShown} \cup
           [kind : {"sample", "average"}, util : [Displayed(q) -> Ratio]]
  <2>1. PICK line : /\ shown' = [shown EXCEPT ![p] = line]
                    /\ line \in [kind : {"sample", "average"},
                                 util : [Displayed(p) -> Ratio]]
    <3>1. CASE PrintSample(p)
      <4>1. shown' = [shown EXCEPT ![p] = [kind |-> "sample", util |-> SampleLine(p)]]
        BY <3>1 DEF PrintSample
      <4>2. [kind |-> "sample", util |-> SampleLine(p)] \in
               [kind : {"sample", "average"}, util : [Displayed(p) -> Ratio]]
        BY LinesTyped
      <4> QED
        BY <4>1, <4>2
    <3>2. CASE PrintAverage(p)
      <4>1. shown' = [shown EXCEPT ![p] = [kind |-> "average", util |-> AverageLine(p)]]
        BY <3>2 DEF PrintAverage
      <4>2. [kind |-> "average", util |-> AverageLine(p)] \in
               [kind : {"sample", "average"}, util : [Displayed(p) -> Ratio]]
        BY LinesTyped
      <4> QED
        BY <4>1, <4>2
    <3> QED
      BY <3>1, <3>2
  <2>2. DOMAIN shown' = Client
    BY <2>1 DEF MeteredTypeOK
  <2>3. shown'[p] = line /\ \A q \in Client \ {p} : shown'[q] = shown[q]
    BY <2>1 DEF MeteredTypeOK
  <2> QED
    BY <2>1, <2>2, <2>3 DEF MeasureTypeOK
<1>10. \A q \in Client : pc'[q] \in Sampling => nsamples'[q] > 0
  BY <1>4, <1>5 DEF MeteredTypeOK
<1>11. kills' \in [Client -> 0 .. MaxKills]
  BY <1>3 DEF MeasureTypeOK
<1> QED
  BY <1>4, <1>5, <1>6, <1>7, <1>8, <1>9, <1>10, <1>11, Zenon DEF MeasureTypeOK, MeasureVarsOK

-----------------------------------------------------------------------------
(* The history variables.                                                  *)

Window == [open : BOOLEAN, c : Nat, t : Nat]
Total  == [c : Nat, t : Nat]

LEMMA HistoryTyped ==
  ASSUME Types
  PROVE  /\ win \in [Client -> [Lba -> Window]] /\ tot \in [Client -> [Lba -> Total]]
         /\ ready \in [Client -> SUBSET Lba]
         /\ \A p \in Client, l \in Lba :
              /\ win[p][l].open \in BOOLEAN /\ win[p][l].c \in Nat /\ win[p][l].t \in Nat
              /\ tot[p][l].c \in Nat /\ tot[p][l].t \in Nat
  BY DEF Types, MeteredTypeOK, Window, Total

\* What a register write of process p does to its windows.
LEMMA ObserveFacts ==
  ASSUME Types, NEW p \in Client, call[p].pc = "regs", Observe(p),
         NEW l, l = call[p].lba
  PROVE  /\ l \in Lba
         /\ win' \in [Client -> [Lba -> Window]] /\ tot' \in [Client -> [Lba -> Total]]
         /\ ready' \in [Client -> SUBSET Lba]
         /\ \A q \in Client \ {p} :
              win'[q] = win[q] /\ tot'[q] = tot[q] /\ ready'[q] = ready[q]
         /\ \A k \in Lba \ {l} : win'[p][k] = win[p][k] /\ tot'[p][k] = tot[p][k]
         /\ ready'[p] = IF call[p].cmd = "init" THEN ready[p] \cup {l} ELSE ready[p]
         /\ tot'[p][l] = IF call[p].cmd = "reset" THEN NoCycles ELSE tot[p][l]
         /\ call[p].cmd = "start" =>
              win'[p][l].open /\ win'[p][l].c = 0 /\ win'[p][l].t = 0
         /\ call[p].cmd = "stop" =>
              /\ ~win'[p][l].open
              /\ win'[p][l].c = win[p][l].c /\ win'[p][l].t = win[p][l].t
         /\ call[p].cmd \notin {"start", "stop"} => win'[p][l] = win[p][l]
<1>1. l \in Lba
  BY CallKinds DEF Types, RegsCall
<1>2. /\ win \in [Client -> [Lba -> Window]] /\ tot \in [Client -> [Lba -> Total]]
      /\ ready \in [Client -> SUBSET Lba]
      /\ win[p][l] \in Window
  BY <1>1, HistoryTyped
<1>3. NoCycles \in Total
  BY DEF NoCycles, Total
<1>4. CASE call[p].cmd = "init"
  <2>1. /\ ready' = [ready EXCEPT ![p] = ready[p] \cup {l}]
        /\ UNCHANGED <<win, tot>>
    BY <1>4 DEF Observe
  <2> QED
    BY <1>1, <1>2, <1>4, <2>1
<1>5. CASE call[p].cmd = "reset"
  <2>1. tot' = [tot EXCEPT ![p][l] = NoCycles] /\ UNCHANGED <<win, ready>>
    BY <1>5 DEF Observe
  <2> QED
    BY <1>1, <1>2, <1>3, <1>5, <2>1
<1>6. CASE call[p].cmd = "start"
  <2> DEFINE w == [Closed EXCEPT !.open = TRUE]
  <2>1. win' = [win EXCEPT ![p][l] = w] /\ UNCHANGED <<tot, ready>>
    BY <1>6 DEF Observe
  <2>2. w \in Window /\ w.open /\ w.c = 0 /\ w.t = 0
    BY DEF Closed, Window
  <2> HIDE DEF w
  <2> QED
    BY <1>1, <1>2, <1>6, <2>1, <2>2
<1>7. CASE call[p].cmd = "stop"
  <2> DEFINE x == win[p][l]
             w == [x EXCEPT !.open = FALSE]
  <2>1. win' = [win EXCEPT ![p][l].open = FALSE] /\ UNCHANGED <<tot, ready>>
    BY <1>7 DEF Observe
  <2>2. x \in Window
    BY <1>2
  <2> HIDE DEF x
  <2>5. w \in Window /\ ~w.open /\ w.c = x.c /\ w.t = x.t
    BY <2>2 DEF Window
  <2>3. win' = [win EXCEPT ![p][l] = w]
    BY <1>1, <1>2, <2>1 DEF x
  <2> HIDE DEF w
  <2>4. /\ win' \in [Client -> [Lba -> Window]]
        /\ \A q \in Client \ {p} : win'[q] = win[q]
        /\ \A k \in Lba \ {l} : win'[p][k] = win[p][k]
        /\ win'[p][l] = w
    BY <1>1, <1>2, <2>5, <2>3
  <2> QED
    BY <1>1, <1>2, <1>7, <2>1, <2>4, <2>5 DEF x
<1>8. call[p].cmd \in UtilCommands
  BY CallKinds DEF Types, RegsCall
<1> QED
  BY <1>4, <1>5, <1>6, <1>7, <1>8, Zenon DEF UtilCommands

\* A stop closes the window and leaves what was seen through it.
LEMMA StopFacts ==
  ASSUME Types, NEW p \in Client, call[p].pc = "regs", Observe(p),
         NEW l, l = call[p].lba, call[p].cmd = "stop"
  PROVE  win'[p][l].c = win[p][l].c /\ win'[p][l].t = win[p][l].t
<1>1. win'[p][l].c = win[p][l].c
  BY ObserveFacts, Zenon
<1>2. win'[p][l].t = win[p][l].t
  BY ObserveFacts, Zenon
<1> QED
  BY <1>1, <1>2

\* A reset forgets the windows, and nothing else does.
LEMMA ResetFacts ==
  ASSUME Types, NEW p \in Client, call[p].pc = "regs", Observe(p),
         NEW l, l = call[p].lba
  PROVE  /\ call[p].cmd = "reset" => tot'[p][l] = NoCycles
         /\ call[p].cmd # "reset" => tot'[p][l] = tot[p][l]
<1>1. ASSUME call[p].cmd = "reset"
      PROVE  tot'[p][l] = NoCycles
  BY <1>1, ObserveFacts, Zenon
<1>2. ASSUME call[p].cmd # "reset"
      PROVE  tot'[p][l] = tot[p][l]
  BY <1>2, ObserveFacts, Zenon
<1> QED
  BY <1>1, <1>2

\* A cycle of the bus behind k is seen through the windows on k that are open.
LEMMA CycleFacts ==
  ASSUME Types, NEW k \in Lba, NEW busy \in {0, 1}, MeteredCycle(k, busy)
  PROVE  /\ win' \in [Client -> [Lba -> Window]] /\ tot' \in [Client -> [Lba -> Total]]
         /\ UNCHANGED <<procVars, ready, late>>
         /\ ticks[k] < MaxTicks /\ ticks' = [ticks EXCEPT ![k] = ticks[k] + 1]
         /\ \A p \in Client, l \in Lba \ {k} :
              win'[p][l] = win[p][l] /\ tot'[p][l] = tot[p][l]
         /\ \A p \in Client : ~win[p][k].open =>
              win'[p][k] = win[p][k] /\ tot'[p][k] = tot[p][k]
         /\ \A p \in Client : win[p][k].open =>
              /\ win'[p][k].open
              /\ win'[p][k].c = win[p][k].c + busy /\ win'[p][k].t = win[p][k].t + 1
              /\ tot'[p][k].c = tot[p][k].c + busy /\ tot'[p][k].t = tot[p][k].t + 1
<1> DEFINE w(p) == Seen(win[p][k], p, k, busy)
           t(p) == Seen(tot[p][k], p, k, busy)
<1>1. ASSUME NEW p \in Client
      PROVE  /\ w(p) \in Window /\ t(p) \in Total
             /\ ~win[p][k].open => w(p) = win[p][k] /\ t(p) = tot[p][k]
             /\ win[p][k].open =>
                  /\ w(p).open
                  /\ w(p).c = win[p][k].c + busy /\ w(p).t = win[p][k].t + 1
                  /\ t(p).c = tot[p][k].c + busy /\ t(p).t = tot[p][k].t + 1
  <2>1. win[p][k] \in Window /\ tot[p][k] \in Total
    BY HistoryTyped
  <2>2. CASE ~win[p][k].open
    BY <2>1, <2>2 DEF Seen
  <2>3. CASE win[p][k].open
    <3> DEFINE x == win[p][k]
               y == tot[p][k]
    <3>1. /\ w(p) = [x EXCEPT !.c = x.c + busy, !.t = x.t + 1]
          /\ t(p) = [y EXCEPT !.c = y.c + busy, !.t = y.t + 1]
      BY <2>3, Zenon DEF Seen
    <3>2. x \in Window /\ y \in Total /\ x.open = TRUE
      BY <2>1, <2>3 DEF Window
    <3> HIDE DEF x, y
    <3> DEFINE x2 == [x EXCEPT !.c = x.c + busy, !.t = x.t + 1]
               y2 == [y EXCEPT !.c = y.c + busy, !.t = y.t + 1]
    <3>6. ASSUME NEW m \in Nat, NEW n \in Nat
          PROVE  /\ [x EXCEPT !.c = m, !.t = n] \in Window
                 /\ [x EXCEPT !.c = m, !.t = n].open
                 /\ [x EXCEPT !.c = m, !.t = n].c = m
                 /\ [x EXCEPT !.c = m, !.t = n].t = n
                 /\ [y EXCEPT !.c = m, !.t = n] \in Total
                 /\ [y EXCEPT !.c = m, !.t = n].c = m
                 /\ [y EXCEPT !.c = m, !.t = n].t = n
      BY <3>2 DEF Window, Total
    <3>7. /\ x.c + busy \in Nat /\ x.t + 1 \in Nat
          /\ y.c + busy \in Nat /\ y.t + 1 \in Nat
      BY <3>2 DEF Window, Total
    <3>3. x2 \in Window /\ x2.open /\ x2.c = x.c + busy /\ x2.t = x.t + 1
      BY <3>6, <3>7, Zenon
    <3>4. y2 \in Total /\ y2.c = y.c + busy /\ y2.t = y.t + 1
      BY <3>6, <3>7, Zenon
    <3> HIDE DEF x2, y2, w, t
    <3>5. w(p) = x2 /\ t(p) = y2
      BY <3>1 DEF x2, y2
    <3> QED
      BY <2>3, <3>3, <3>4, <3>5 DEF x, y
  <2> QED
    BY <2>2, <2>3
<1>2. /\ win' = [p \in Client |-> [win[p] EXCEPT ![k] = w(p)]]
      /\ tot' = [p \in Client |-> [tot[p] EXCEPT ![k] = t(p)]]
      /\ UNCHANGED <<procVars, ready, late>>
      /\ ticks[k] < MaxTicks /\ ticks' = [ticks EXCEPT ![k] = ticks[k] + 1]
  BY Zenon DEF MeteredCycle
<1> HIDE DEF w, t
<1>3. /\ win \in [Client -> [Lba -> Window]] /\ tot \in [Client -> [Lba -> Total]]
  BY HistoryTyped
<1>4. ASSUME NEW p \in Client
      PROVE  /\ win'[p][k] = w(p) /\ tot'[p][k] = t(p)
             /\ \A l \in Lba \ {k} : win'[p][l] = win[p][l] /\ tot'[p][l] = tot[p][l]
  <2>1. /\ win'[p] = [win[p] EXCEPT ![k] = w(p)]
        /\ tot'[p] = [tot[p] EXCEPT ![k] = t(p)]
    BY <1>2, Zenon
  <2>2. win[p] \in [Lba -> Window] /\ tot[p] \in [Lba -> Total]
    BY <1>3
  <2> QED
    BY <2>1, <2>2
<1>7. win' \in [Client -> [Lba -> Window]] /\ tot' \in [Client -> [Lba -> Total]]
  BY <1>1, <1>2, <1>3
<1> QED
  BY <1>1, <1>2, <1>4, <1>7

LEMMA HistoryKept ==
  ASSUME Types, [MeteredNext]_meteredVars
  PROVE  /\ win' \in [Client -> [Lba -> Window]] /\ tot' \in [Client -> [Lba -> Total]]
         /\ ready' \in [Client -> SUBSET Lba]
         /\ ticks' \in [Lba -> 0 .. MaxTicks]
         /\ late' \in [Client -> 0 .. MaxLate]
<1> DEFINE Typed == /\ win' \in [Client -> [Lba -> Window]]
                    /\ tot' \in [Client -> [Lba -> Total]]
                    /\ ready' \in [Client -> SUBSET Lba]
<1>1. /\ win \in [Client -> [Lba -> Window]] /\ tot \in [Client -> [Lba -> Total]]
      /\ ready \in [Client -> SUBSET Lba]
      /\ Closed \in Window /\ NoCycles \in Total
  BY HistoryTyped DEF Closed, NoCycles, Window, Total
<1>2. /\ ticks \in [Lba -> 0 .. MaxTicks] /\ MaxTicks \in Nat
      /\ late \in [Client -> 0 .. MaxLate] /\ 0 \in 0 .. MaxLate
  BY MeteredAssumption DEF Types, MeteredTypeOK, MaxLate
<1>3. UNCHANGED cycles => Typed
  BY <1>1 DEF cycles
<1>4. ASSUME NEW p \in Client, MeteredStep(p)
      PROVE  Typed /\ UNCHANGED ticks /\ late' \in [Client -> 0 .. MaxLate]
  <2>1. Typed
    BY <1>3, <1>4, ObserveFacts DEF MeteredStep
  <2>2. \E n \in 0 .. MaxLate : \/ late' = [late EXCEPT ![p] = n]
                                \/ late' = late
    <3> DEFINE n == IF late[p] < MaxLate THEN late[p] + 1 ELSE late[p]
    <3>1. late' = [late EXCEPT ![p] = n] \/ late' = late
      BY <1>4, Zenon DEF MeteredStep
    <3>2. n \in 0 .. MaxLate
      BY <1>2 DEF MaxLate
    <3> QED
      BY <3>1, <3>2, Zenon
  <2> QED
    BY <1>2, <1>4, <2>1, <2>2 DEF MeteredStep
<1>5. ASSUME NEW p \in Client, MeteredRerun(p)
      PROVE  Typed /\ UNCHANGED ticks /\ late' \in [Client -> 0 .. MaxLate]
  BY <1>1, <1>2, <1>5 DEF MeteredRerun
<1>6. ASSUME MeteredReload
      PROVE  Typed /\ UNCHANGED <<ticks, late>>
  <2>1. CASE UNCHANGED cycles
    BY <1>3, <1>6, <2>1 DEF MeteredReload
  <2>2. CASE ~UNCHANGED cycles
    BY <1>1, <1>6, <2>2 DEF MeteredReload
  <2> QED
    BY <2>1, <2>2
<1>7. ASSUME NEW l \in Lba, NEW busy \in {0, 1}, MeteredCycle(l, busy)
      PROVE  Typed /\ UNCHANGED late /\ ticks' \in [Lba -> 0 .. MaxTicks]
  BY <1>1, <1>2, <1>7, CycleFacts
<1>8. ASSUME NEW p \in Client, sigint_handler(p) /\ UNCHANGED <<cycles, ticks, late>>
      PROVE  Typed /\ UNCHANGED <<ticks, late>>
  BY <1>3, <1>8
<1>9. ASSUME UNCHANGED meteredVars
      PROVE  Typed /\ UNCHANGED <<ticks, late>>
  BY <1>3, <1>9 DEF meteredVars
<1> HIDE DEF Typed
<1>10. Typed /\ ticks' \in [Lba -> 0 .. MaxTicks] /\ late' \in [Client -> 0 .. MaxLate]
  BY <1>2, <1>4, <1>5, <1>6, <1>7, <1>8, <1>9 DEF MeteredNext
<1> QED
  BY <1>10 DEF Typed

LEMMA TypesKept ==
  ASSUME Types, DriverInv, [MeteredNext]_meteredVars
  PROVE  Types'
<1> USE DEF Types
<1>1. TypeOK'
  BY MeteredIsHplba, DriverInvKept DEF DriverInv
<1>2. ASSUME NEW p \in Client, Step(p)
      PROVE  MeasureVarsOK'
  BY <1>2, LoopsKeepTypes, PlacesKeepTypes, PrintsKeepTypes DEF Step
<1>3. ASSUME UNCHANGED procVars
      PROVE  MeasureVarsOK'
  BY <1>3 DEF procVars, results, signals, MeasureVarsOK, MeasureTypeOK, MeteredTypeOK
<1>4. ASSUME NEW p \in Client, sigint_handler(p)
      PROVE  MeasureVarsOK'
  <2>1. /\ time_to_quit' \in [Client -> BOOLEAN] /\ blocked' \in [Client -> BOOLEAN]
        /\ pending' \in [Client -> BOOLEAN]
    BY <1>4 DEF sigint_handler, MeasureTypeOK
  <2>2. UNCHANGED <<pc, at, results, kills>>
    BY <1>4 DEF sigint_handler
  <2> QED
    BY <2>1, <2>2 DEF results, MeasureVarsOK, MeasureTypeOK, MeteredTypeOK
<1>5. ASSUME NEW p \in Client, Rerun(p)
      PROVE  MeasureVarsOK'
  <2>1. /\ \A q \in Client : Len(Display[q]) \in Nat
        /\ MaxKills \in Nat /\ NSamples \in Nat /\ UTIL_ROWS \in Nat \ {0}
    BY DisplayFacts, MeasureAssumption
  <2>2. /\ pc' \in [Client -> PCs] /\ at' \in [Client -> Nat]
        /\ \A q \in Client : at'[q] \in 1 .. Len(Display[q]) + 1
        /\ pc'[p] = "init" /\ \A q \in Client \ {p} : pc'[q] = pc[q]
    <3>1. Goto(p, "init")
      BY <1>5 DEF Rerun
    <3> QED
      BY <2>1, <3>1 DEF Goto, PCs, UtilCommands, MeasureTypeOK, MeteredTypeOK
  <2>3. /\ time_to_quit' \in [Client -> BOOLEAN] /\ blocked' \in [Client -> BOOLEAN]
        /\ pending' \in [Client -> BOOLEAN]
    BY <1>5 DEF Rerun, MeasureTypeOK
  <2>4. /\ nsamples' \in [Client -> 0 .. NSamples]
        /\ \A q \in Client \ {p} : nsamples'[q] = nsamples[q]
        /\ num_lines' \in [Client -> 1 .. UTIL_ROWS]
    BY <1>5, <2>1 DEF Rerun, MeasureTypeOK
  <2>5. kills' \in [Client -> 0 .. MaxKills]
    <3>1. kills' = [kills EXCEPT ![p] = kills[p] + 1] /\ kills[p] < MaxKills
      BY <1>5 DEF Rerun
    <3> QED
      BY <2>1, <3>1 DEF MeasureTypeOK
  <2>6. info' \in [Client -> [Lba -> LbaInfo]]
    <3>1. NewInfo \in LbaInfo
      BY HplbaAssumption DEF NewInfo, LbaInfo, Counts
    <3> QED
      BY <1>5, <3>1 DEF Rerun, MeasureTypeOK
  <2>7. /\ DOMAIN shown' = Client
        /\ shown'[p] = NothingShown /\ \A q \in Client \ {p} : shown'[q] = shown[q]
    BY <1>5 DEF Rerun, MeteredTypeOK
  <2>8. \A q \in Client : shown'[q] \in {NothingShown} \cup
          [kind : {"sample", "average"}, util : [Displayed(q) -> Ratio]]
    BY <2>7 DEF MeasureTypeOK
  <2>9. \A q \in Client : pc'[q] \in Sampling => nsamples'[q] > 0
    BY <2>2, <2>4 DEF MeteredTypeOK, Sampling
  <2> QED
    BY <2>2, <2>3, <2>4, <2>5, <2>6, <2>7, <2>8, <2>9
    DEF MeasureVarsOK, MeasureTypeOK
<1>6. MeasureVarsOK'
  <2>1. ASSUME NEW p \in Client, MeteredStep(p)
        PROVE  MeasureVarsOK'
    BY <1>2, <2>1 DEF MeteredStep
  <2>2. ASSUME NEW p \in Client, MeteredRerun(p)
        PROVE  MeasureVarsOK'
    BY <1>5, <2>2 DEF MeteredRerun
  <2>3. ASSUME MeteredReload
        PROVE  MeasureVarsOK'
    BY <1>3, <2>3 DEF MeteredReload
  <2>4. ASSUME NEW l \in Lba, NEW busy \in {0, 1}, MeteredCycle(l, busy)
        PROVE  MeasureVarsOK'
    BY <1>3, <2>4 DEF MeteredCycle
  <2>5. ASSUME UNCHANGED meteredVars
        PROVE  MeasureVarsOK'
    BY <1>3, <2>5 DEF meteredVars, measureVars
  <2> QED
    BY <1>4, <2>1, <2>2, <2>3, <2>4, <2>5 DEF MeteredNext
<1>7. MeteredTypeOK'
  BY <1>6, HistoryKept DEF MeteredTypeOK, MeasureVarsOK, Window, Total
<1> QED
  BY <1>1, <1>6, <1>7 DEF MeasureVarsOK

LEMMA TypesInit == MeteredInit => Types /\ DriverInv
<1> SUFFICES ASSUME MeteredInit
             PROVE  Types /\ DriverInv
  OBVIOUS
<1>1. DriverInv
  BY DriverInvInit DEF MeteredInit, MeasureInit
<1>2. /\ \A q \in Client : Len(Display[q]) \in Nat
      /\ MaxKills \in Nat /\ NSamples \in Nat /\ UTIL_ROWS \in Nat \ {0} /\ MaxTicks \in Nat
  BY DisplayFacts, MeasureAssumption, MeteredAssumption
<1>3. NewInfo \in LbaInfo /\ Closed \in Window /\ NoCycles \in Total
  BY HplbaAssumption DEF NewInfo, LbaInfo, Counts, Closed, Window, NoCycles, Total
<1>4. MeasureTypeOK
  BY <1>2, <1>3 DEF MeteredInit, MeasureInit, MeasureTypeOK, PCs, UtilCommands
<1>5. MeteredTypeOK
  BY <1>2, <1>3 DEF MeteredInit, MeasureInit, MeteredTypeOK, Sampling, Window, Total, MaxLate
<1> QED
  BY <1>1, <1>4, <1>5 DEF Types, DriverInv

\* Type correctness of measure_utilization, for any number of processes,
\* bridges and samples: the list loops stay inside the list, the count of
\* samples does not fall below zero, and what is printed are unsigned longs.
THEOREM MeasureTypeTheorem == MeteredSpec => []MeasureTypeOK
<1>1. MeteredInit => Types /\ DriverInv
  BY TypesInit
<1>2. (Types /\ DriverInv) /\ [MeteredNext]_meteredVars => (Types /\ DriverInv)'
  BY TypesKept, MeteredIsHplba, DriverInvKept DEF Types
<1> QED
  BY <1>1, <1>2, PTL DEF MeteredSpec, Types

-----------------------------------------------------------------------------
(* Steps of one process as the others see them.                            *)

\* What process q keeps to itself is as it was.
Same(q) ==
  /\ pc'[q] = pc[q] /\ at'[q] = at[q] /\ call'[q] = call[q] /\ nsamples'[q] = nsamples[q]
  /\ time_to_quit'[q] = time_to_quit[q] /\ blocked'[q] = blocked[q]
  /\ pending'[q] = pending[q] /\ late'[q] = late[q]
  /\ info'[q] = info[q] /\ shown'[q] = shown[q]
  /\ win'[q] = win[q] /\ tot'[q] = tot[q] /\ ready'[q] = ready[q]

\* The steps of process p, and what may happen to it.
ActsOn(p) == \/ MeteredStep(p)
             \/ sigint_handler(p) /\ UNCHANGED <<cycles, ticks, late>>
             \/ MeteredRerun(p)

LEMMA NextCases ==
  ASSUME [MeteredNext]_meteredVars
  PROVE  \/ \E p \in Client : ActsOn(p)
         \/ MeteredReload
         \/ \E l \in Lba, busy \in {0, 1} : MeteredCycle(l, busy)
         \/ UNCHANGED meteredVars
  BY DEF MeteredNext, ActsOn

LEMMA OthersStay ==
  ASSUME Types, NEW p \in Client, ActsOn(p), NEW q \in Client, q # p
  PROVE  Same(q)
<1>0. /\ pc \in [Client -> PCs] /\ at \in [Client -> Nat]
      /\ nsamples \in [Client -> 0 .. NSamples]
      /\ time_to_quit \in [Client -> BOOLEAN] /\ blocked \in [Client -> BOOLEAN]
      /\ pending \in [Client -> BOOLEAN]
      /\ info \in [Client -> [Lba -> LbaInfo]] /\ DOMAIN shown = Client
      /\ late \in [Client -> 0 .. MaxLate]
      /\ call \in [Client -> {Idle} \cup CheckCall \cup RegsCall \cup ShowCall]
  BY DEF Types, TypeOK, MeasureTypeOK, MeteredTypeOK
<1>10. /\ win \in [Client -> [Lba -> Window]] /\ tot \in [Client -> [Lba -> Total]]
       /\ ready \in [Client -> SUBSET Lba]
  BY HistoryTyped
<1>1. ASSUME Step(p)
      PROVE  /\ pc'[q] = pc[q] /\ at'[q] = at[q] /\ nsamples'[q] = nsamples[q]
             /\ time_to_quit'[q] = time_to_quit[q] /\ blocked'[q] = blocked[q]
             /\ pending'[q] = pending[q]
             /\ info'[q] = info[q] /\ shown'[q] = shown[q]
  <2>1. CASE \/ \E cmd \in UtilCommands : write_lba_attribute(p, cmd)
             \/ read_lba_attribute(p)
    BY <1>0, <2>1 DEF write_lba_attribute, read_lba_attribute, Next_lba, results, signals
  <2>2. CASE hplba_collect(p)
    <3>1. UNCHANGED <<pc, at, nsamples, shown, signals>>
      BY <2>2 DEF hplba_collect
    <3>2. info'[q] = info[q]
      <4>1. info' \in [Client -> [Lba -> LbaInfo]] /\ \A k \in Lba : info'[q][k] = info[q][k]
        BY <2>2, CollectStores
      <4>2. info \in [Client -> [Lba -> LbaInfo]]
        BY <1>0
      <4> QED
        BY <4>1, <4>2
    <3> QED
      BY <3>1, <3>2 DEF signals
  <2>3. CASE StoreStep(p)
    BY <2>3 DEF StoreStep, procVars, results, signals
  <2>4. CASE EndList(p) \/ LoopTest(p) \/ unmask_signals(p) \/ mask_signals(p)
    BY <1>0, <2>4 DEF EndList, LoopTest, unmask_signals, mask_signals, Goto, Unblock, results, signals
  <2>5. CASE PrintSample(p)
    <3>1. /\ pc'[q] = pc[q] /\ at'[q] = at[q] /\ nsamples'[q] = nsamples[q]
          /\ UNCHANGED signals
          /\ shown'[q] = shown[q]
      <4>1. /\ Goto(p, "loop") /\ UNCHANGED signals
            /\ \E n : nsamples' = [nsamples EXCEPT ![p] = n]
            /\ \E n : shown' = [shown EXCEPT ![p] = n]
        BY <2>5, Zenon DEF PrintSample
      <4> QED
        BY <1>0, <4>1 DEF Goto
    <3>2. \E n : info' = [info EXCEPT ![p] = n]
      BY <2>5, Zenon DEF PrintSample
    <3> QED
      BY <1>0, <3>1, <3>2 DEF signals
  <2>6. CASE PrintAverage(p)
    <3>1. \E n : shown' = [shown EXCEPT ![p] = n]
      BY <2>6, Zenon DEF PrintAverage
    <3>2. Goto(p, "done") /\ Unblock(p) /\ UNCHANGED <<nsamples, info>>
      BY <2>6 DEF PrintAverage
    <3> QED
      BY <1>0, <3>1, <3>2 DEF Goto, Unblock
  <2> QED
    BY <1>1, <2>1, <2>2, <2>3, <2>4, <2>5, <2>6 DEF Step
<1>2. ASSUME Step(p)
      PROVE  call'[q] = call[q]
  <2>1. Call(p) \/ UNCHANGED hplbaVars
    BY <1>2, ProcessIsClient DEF Types
  <2>2. Call(p) => \E n : call' = [call EXCEPT ![p] = n]
    BY DEF Call, utilization_store, set_util_state, util_op, utilization_show,
           utilization_show_cntr
  <2> QED
    BY <1>0, <2>1, <2>2 DEF hplbaVars
<1>3. ASSUME MeteredStep(p)
      PROVE  Same(q)
  <2>1. win'[q] = win[q] /\ tot'[q] = tot[q] /\ ready'[q] = ready[q]
    <3>1. CASE call[p].pc = "regs" /\ Observe(p)
      BY <3>1, ObserveFacts
    <3>2. CASE UNCHANGED cycles
      BY <3>2 DEF cycles
    <3> QED
      BY <1>3, <3>1, <3>2 DEF MeteredStep
  <2>2. late'[q] = late[q]
    <3>1. late' = late \/ \E n : late' = [late EXCEPT ![p] = n]
      BY <1>3, Zenon DEF MeteredStep
    <3> QED
      BY <1>0, <3>1
  <2> QED
    BY <1>1, <1>2, <1>3, <2>1, <2>2 DEF MeteredStep, Same
<1>4. ASSUME sigint_handler(p), UNCHANGED <<cycles, ticks, late>>
      PROVE  Same(q)
  BY <1>0, <1>4 DEF sigint_handler, results, cycles, hplbaVars, Same
<1>5. ASSUME MeteredRerun(p)
      PROVE  Same(q)
  <2>1. /\ Goto(p, "init")
        /\ time_to_quit' = [time_to_quit EXCEPT ![p] = FALSE]
        /\ blocked' = [blocked EXCEPT ![p] = FALSE]
        /\ pending' = [pending EXCEPT ![p] = FALSE]
        /\ shown' = [shown EXCEPT ![p] = NothingShown]
        /\ UNCHANGED hplbaVars
        /\ nsamples' = [nsamples EXCEPT ![p] = NSamples]
        /\ late' = [late EXCEPT ![p] = 0]
        /\ ready' = [ready EXCEPT ![p] = {}]
    BY <1>5 DEF MeteredRerun, Rerun
  <2>2. /\ \E n : info' = [info EXCEPT ![p] = n]
        /\ \E n : win' = [win EXCEPT ![p] = n]
        /\ \E n : tot' = [tot EXCEPT ![p] = n]
    BY <1>5, Zenon DEF MeteredRerun, Rerun
  <2>3. info'[q] = info[q] /\ win'[q] = win[q] /\ tot'[q] = tot[q]
    BY <1>0, <1>10, <2>2
  <2>4. /\ pc'[q] = pc[q] /\ at'[q] = at[q] /\ call'[q] = call[q]
        /\ nsamples'[q] = nsamples[q]
        /\ time_to_quit'[q] = time_to_quit[q] /\ blocked'[q] = blocked[q]
        /\ pending'[q] = pending[q] /\ late'[q] = late[q]
        /\ shown'[q] = shown[q] /\ ready'[q] = ready[q]
    BY <1>0, <1>10, <2>1 DEF Goto, hplbaVars
  <2> QED
    BY <2>3, <2>4 DEF Same
<1> QED
  BY <1>3, <1>4, <1>5 DEF ActsOn

-----------------------------------------------------------------------------
(* Where in its list a process is.                                         *)

\* The loop has passed bridge l, and has come from l last.
Passed(p, l) == \E i \in 1 .. at[p] - 1 : Display[p][i] = l
At(p, l)     == at[p] > 1 /\ Display[p][at[p] - 1] = l

LEMMA PassedFacts ==
  ASSUME Types, NEW p \in Client
  PROVE  /\ \A l : At(p, l) => Passed(p, l) /\ l \in Displayed(p)
         /\ \A k, l : At(p, k) /\ At(p, l) => k = l
         /\ AtEnd(p) => \A l \in Displayed(p) : Passed(p, l)
         /\ ~AtEnd(p) => ~Passed(p, Bridge(p))
         /\ Next_lba(p) /\ ~AtEnd(p) =>
              /\ \A l : l = Bridge(p) => At(p, l)'
              /\ \A l \in Displayed(p) : Passed(p, l)' <=> Passed(p, l) \/ l = Bridge(p)
         /\ \A place : Goto(p, place) => \A l : ~Passed(p, l)'
         /\ at'[p] = at[p] => \A l : /\ Passed(p, l)' <=> Passed(p, l)
                                     /\ At(p, l)' <=> At(p, l)
<1>1. /\ Len(Display[p]) \in Nat
      /\ \A i, j \in 1 .. Len(Display[p]) : Display[p][i] = Display[p][j] => i = j
  BY DisplayFacts
<1>2. at[p] \in 1 .. Len(Display[p]) + 1 /\ at \in [Client -> Nat]
  BY DEF Types, MeasureTypeOK, MeteredTypeOK
<1>3. \A l : At(p, l) => Passed(p, l) /\ l \in Displayed(p)
  BY <1>1, <1>2 DEF At, Passed, Displayed
<1>4. \A k, l : At(p, k) /\ At(p, l) => k = l
  BY DEF At
<1>5. AtEnd(p) => \A l \in Displayed(p) : Passed(p, l)
  BY <1>1, <1>2 DEF AtEnd, Passed, Displayed
<1>6. ~AtEnd(p) => ~Passed(p, Bridge(p))
  BY <1>1, <1>2 DEF AtEnd, Passed, Bridge
<1>7. ASSUME Next_lba(p), ~AtEnd(p)
      PROVE  /\ \A l : l = Bridge(p) => At(p, l)'
             /\ \A l \in Displayed(p) : Passed(p, l)' <=> Passed(p, l) \/ l = Bridge(p)
  <2>1. at'[p] = at[p] + 1
    BY <1>2, <1>7 DEF Next_lba
  <2>2. Display[p][at'[p] - 1] = Bridge(p)
    BY <1>2, <2>1 DEF Bridge
  <2>3. at[p] \in 1 .. Len(Display[p])
    BY <1>1, <1>2, <1>7 DEF AtEnd
  <2>4. \A l : l = Bridge(p) => At(p, l)'
    BY <2>1, <2>3 DEF At, Bridge
  <2>5. ASSUME NEW l
        PROVE  Passed(p, l)' <=> Passed(p, l) \/ l = Bridge(p)
    <3>1. Passed(p, l)' <=> \E i \in 1 .. at[p] : Display[p][i] = l
      BY <2>1, <2>3 DEF Passed
    <3> QED
      BY <2>3, <3>1 DEF Passed, Bridge
  <2> QED
    BY <2>4, <2>5
<1>8. \A place : Goto(p, place) => \A l : ~Passed(p, l)'
  <2>1. ASSUME NEW place, Goto(p, place)
        PROVE  at'[p] = 1
    BY <1>2, <2>1 DEF Goto
  <2> QED
    BY <2>1 DEF Passed
<1>9. at'[p] = at[p] => \A l : /\ Passed(p, l)' <=> Passed(p, l)
                               /\ At(p, l)' <=> At(p, l)
  BY DEF Passed, At
<1> QED
  BY <1>3, <1>4, <1>5, <1>6, <1>7, <1>8, <1>9, Zenon

-----------------------------------------------------------------------------
(* Calls, as process p sees them.                                          *)

LEMMA CallRange ==
  ASSUME Types, NEW p \in Client
  PROVE  /\ call[p] # Idle <=> call[p].pc \in {"check", "regs", "cntr"}
         /\ call[p] # Idle => call[p].lba \in Lba
         /\ InStore(p) => call[p].cmd \in UtilCommands
         /\ call[p].pc = "check" => call[p].cur \in UtilStates
  BY CallKinds DEF Types, CheckCall, RegsCall, ShowCall, Idle, InStore

LEMMA AskFacts ==
  ASSUME Types, NEW p \in Client, NEW l \in Lba, NEW cmd \in UtilCommands,
         utilization_store(p, l, cmd)
  PROVE  /\ loaded /\ call[p] = Idle
         /\ call'[p].pc = "check" /\ call'[p].lba = l /\ call'[p].cmd = cmd
         /\ call'[p].cur = util_state[l]
         /\ UNCHANGED <<loaded, util_state, reg, timer, cntr>>
<1>1. hplba_util_state_to_value(cmd) = cmd
  BY DEF hplba_util_state_to_value, UtilStates
<1> QED
  BY <1>1 DEF utilization_store, driver, hw, Types, TypeOK

LEMMA SetFacts ==
  ASSUME Types, NEW p \in Client, set_util_state(p), NEW l, l = call[p].lba
  PROVE  /\ call[p].pc = "check" /\ l \in Lba
         /\ UNCHANGED <<loaded, reg, timer, cntr>>
         /\ \A k \in Lba \ {l} : util_state'[k] = util_state[k]
         /\ \/ /\ call[p].cur \notin LegalFrom[call[p].cmd]
               /\ call'[p] = Idle /\ UNCHANGED util_state
            \/ /\ call[p].cur \in LegalFrom[call[p].cmd]
               /\ call'[p].pc = "regs" /\ call'[p].lba = l /\ call'[p].i = 1
               /\ call'[p].cmd = call[p].cmd /\ util_state'[l] = call[p].cmd
<1>1. call[p].pc = "check" /\ l \in Lba
  BY CallRange DEF set_util_state, Idle
<1> QED
  BY <1>1 DEF set_util_state, hw, Types, TypeOK

\* Only the reset of a bridge clears its counters.
LEMMA OpFacts ==
  ASSUME Types, CallsOK, NEW p \in Client, util_op(p), NEW l, l = call[p].lba
  PROVE  /\ call[p].pc = "regs" /\ l \in Lba /\ call[p].cmd \in UtilCommands
         /\ call[p].i \in 1 .. 3 /\ (call[p].cmd # "init" => call[p].i = 1)
         /\ UNCHANGED <<loaded, util_state>>
         /\ \A k \in Lba \ {l} :
              reg'[k] = reg[k] /\ timer'[k] = timer[k] /\ cntr'[k] = cntr[k]
         /\ call[p].i = 1 => reg'[l].DIAG_EN0 = EN0Of[call[p].cmd]
         /\ call[p].i # 1 => reg'[l].DIAG_EN0 = reg[l].DIAG_EN0
         /\ IF call[p].cmd = "reset" THEN timer'[l] = 0 /\ cntr'[l] = 0
                                     ELSE UNCHANGED <<timer, cntr>>
         /\ IF call[p].cmd = "init" /\ call[p].i < 3
              THEN /\ call'[p].pc = "regs" /\ call'[p].lba = l
                   /\ call'[p].cmd = "init" /\ call'[p].i = call[p].i + 1
              ELSE call'[p] = Idle
<1> DEFINE op == util_ops(chip[l])[call[p].cmd]
           w  == op[call[p].i]
<1>1. /\ call[p].pc = "regs" /\ l \in Lba /\ call[p] \in RegsCall
      /\ call[p].cmd \in UtilCommands /\ call[p].i \in 1 .. 3
      /\ call[p].cmd # "init" => call[p].i = 1
  BY CallKinds DEF util_op, Types, RegsCall, CallsOK
<1>2. /\ UNCHANGED <<loaded, util_state>>
      /\ \A k \in Lba \ {l} : reg'[k] = reg[k]
      /\ reg'[l].DIAG_EN0 = IF call[p].i = 1 THEN EN0Of[call[p].cmd] ELSE reg[l].DIAG_EN0
      /\ call' = [call EXCEPT ![p] = IF call[p].cmd = "init" /\ call[p].i < 3
                    THEN [call[p] EXCEPT !.i = call[p].i + 1] ELSE Idle]
  BY UtilOpStep DEF Types, driver
<1>3. IF w.val = "0xf" THEN /\ timer' = [timer EXCEPT ![l] = 0]
                            /\ cntr' = [cntr EXCEPT ![l] = 0]
                       ELSE UNCHANGED <<timer, cntr>>
  BY Zenon DEF util_op
<1>4. w.val = "0xf" <=> call[p].cmd = "reset"
  <2>1. chip[l] \in Chips
    BY <1>1, HplbaAssumption
  <2>2. /\ call[p].i = 1 => w.val = EN0Of[call[p].cmd]
        /\ call[p].i = 2 => w.val = "0x1"
        /\ call[p].i = 3 => w.val = BusyEvent(chip[l])
    BY <1>1, <2>1, WriteAt
  <2> HIDE DEF w
  <2> QED
    BY <1>1, <2>2 DEF EN0Of, BusyEvent, UtilCommands
<1> HIDE DEF op, w
<1>5. IF call[p].cmd = "reset" THEN /\ timer' = [timer EXCEPT ![l] = 0]
                                    /\ cntr' = [cntr EXCEPT ![l] = 0]
                               ELSE UNCHANGED <<timer, cntr>>
  BY <1>3, <1>4
<1>6. timer \in [Lba -> 0 .. CntrMod - 1] /\ cntr \in [Lba -> 0 .. CntrMod - 1]
  BY DEF Types, TypeOK
<1>7. /\ IF call[p].cmd = "reset" THEN timer'[l] = 0 /\ cntr'[l] = 0
                                  ELSE UNCHANGED <<timer, cntr>>
      /\ \A k \in Lba \ {l} : timer'[k] = timer[k] /\ cntr'[k] = cntr[k]
  BY <1>1, <1>5, <1>6
<1>8. IF call[p].cmd = "init" /\ call[p].i < 3
        THEN /\ call'[p].pc = "regs" /\ call'[p].lba = l
             /\ call'[p].cmd = "init" /\ call'[p].i = call[p].i + 1
        ELSE call'[p] = Idle
  <2>1. p \in DOMAIN call
    BY DEF Types, TypeOK
  <2>2. CASE call[p].cmd = "init" /\ call[p].i < 3
    <3> DEFINE new == [call[p] EXCEPT !.i = call[p].i + 1]
    <3>1. call' = [call EXCEPT ![p] = new]
      BY <1>2, <2>2, Zenon
    <3>2. /\ new.pc = "regs" /\ new.lba = l /\ new.cmd = "init" /\ new.i = call[p].i + 1
      BY <1>1, <2>2 DEF RegsCall
    <3> HIDE DEF new
    <3>3. call'[p] = new
      BY <2>1, <3>1
    <3> QED
      BY <2>2, <3>2, <3>3
  <2>3. CASE ~(call[p].cmd = "init" /\ call[p].i < 3)
    <3>1. call' = [call EXCEPT ![p] = Idle]
      BY <1>2, <2>3, Zenon
    <3> QED
      BY <2>1, <2>3, <3>1
  <2> QED
    BY <2>2, <2>3
<1> QED
  BY <1>1, <1>2, <1>7, <1>8

\* A step of process p leaves it at its place in the program, in the middle of
\* a loop, or takes it from one place to another between two calls.
LEMMA StepKinds ==
  ASSUME Types, NEW p \in Client, Step(p)
  PROVE  \/ \E cmd \in UtilCommands : write_lba_attribute(p, cmd)
         \/ read_lba_attribute(p)
         \/ hplba_collect(p)
         \/ StoreStep(p)
         \/ /\ call[p] = Idle /\ UNCHANGED hplbaVars
            /\ EndList(p) \/ LoopTest(p) \/ unmask_signals(p) \/ mask_signals(p)
                 \/ PrintSample(p) \/ PrintAverage(p)
            /\ \E place : Goto(p, place)
  BY DEF Step, EndList, LoopTest, unmask_signals, mask_signals, PrintSample,
         PrintAverage, In

\* A call of process p is about the bridge that p's loop has come from last,
\* and a store is about the command that the loop writes.
CallInv(p) ==
  /\ call[p] # Idle => At(p, call[p].lba)
  /\ InStore(p) => call[p].cmd = pc[p]
  /\ call[p].pc = "cntr" => pc[p] = "collect"

LEMMA CallInvKept ==
  ASSUME Types, CallsOK, \A p \in Client : CallInv(p), [MeteredNext]_meteredVars
  PROVE  \A p \in Client : CallInv(p)'
<1>1. ASSUME NEW p \in Client,
             Same(p) \/ UNCHANGED <<pc, at, call>>
      PROVE  CallInv(p)'
  BY <1>1 DEF CallInv, Same, At, InStore
<1>2. ASSUME NEW p \in Client, call'[p] = Idle
      PROVE  CallInv(p)'
  BY <1>2 DEF CallInv, InStore, Idle
<1>3. ASSUME NEW p \in Client, Step(p)
      PROVE  CallInv(p)'
  <2>1. ASSUME NEW cmd \in UtilCommands, write_lba_attribute(p, cmd)
        PROVE  CallInv(p)'
    <3>1. ~AtEnd(p) /\ Next_lba(p) /\ pc'[p] = cmd /\ call[p] = Idle
      BY <2>1 DEF write_lba_attribute, In
    <3>2. PICK l : l = Bridge(p) /\ l \in Lba
      BY <3>1, AtBridge DEF Types
    <3>3. At(p, l)'
      BY <3>1, <3>2, PassedFacts
    <3>4. CASE utilization_store(p, l, cmd)
      BY <3>1, <3>2, <3>3, <3>4, AskFacts DEF CallInv
    <3>5. CASE UNCHANGED hplbaVars
      BY <1>2, <3>1, <3>5 DEF hplbaVars
    <3> QED
      BY <2>1, <3>2, <3>4, <3>5 DEF write_lba_attribute, write_attribute
  <2>2. ASSUME read_lba_attribute(p)
        PROVE  CallInv(p)'
    <3>1. ~AtEnd(p) /\ Next_lba(p) /\ pc'[p] = "collect" /\ call[p] = Idle
      BY <2>2 DEF read_lba_attribute, In
    <3>2. PICK l : l = Bridge(p) /\ l \in Lba
      BY <3>1, AtBridge DEF Types
    <3>3. At(p, l)'
      BY <3>1, <3>2, PassedFacts
    <3>4. CASE utilization_show(p, l)
      <4>1. call'[p].pc = "cntr" /\ call'[p].lba = l
        BY <3>4 DEF utilization_show, Types, TypeOK
      <4> QED
        BY <3>1, <3>3, <4>1 DEF CallInv, InStore
    <3>5. CASE UNCHANGED hplbaVars
      BY <1>2, <3>1, <3>5 DEF hplbaVars
    <3> QED
      BY <2>2, <3>2, <3>4, <3>5 DEF read_lba_attribute, read_attribute
  <2>3. ASSUME hplba_collect(p)
        PROVE  CallInv(p)'
    BY <1>2, <2>3 DEF hplba_collect, utilization_show_cntr, Types, TypeOK
  <2>4. ASSUME StoreStep(p)
        PROVE  CallInv(p)'
    <3>1. UNCHANGED <<pc, at>>
      BY <2>4 DEF StoreStep, procVars
    <3>2. CallInv(p) /\ InStore(p)
      BY <2>4 DEF StoreStep, set_util_state, util_op, InStore
    <3>3. \/ call'[p] = Idle
          \/ /\ call'[p].lba = call[p].lba /\ call'[p].cmd = call[p].cmd
             /\ call'[p].pc = "regs"
      BY <2>4, SetFacts, OpFacts DEF StoreStep
    <3>4. At(p, call[p].lba)
      BY <3>2, CallRange DEF CallInv, InStore, Idle
    <3> QED
      BY <1>2, <3>1, <3>2, <3>3, <3>4 DEF CallInv, At, InStore
  <2>5. ASSUME call[p] = Idle, UNCHANGED hplbaVars
        PROVE  CallInv(p)'
    BY <1>2, <2>5 DEF hplbaVars
  <2> QED
    BY <1>3, <2>1, <2>2, <2>3, <2>4, <2>5, StepKinds
<1>4. ASSUME NEW p \in Client, ActsOn(p)
      PROVE  CallInv(p)'
  <2>1. CASE MeteredStep(p)
    BY <1>3, <2>1 DEF MeteredStep
  <2>2. CASE sigint_handler(p)
    BY <1>1, <2>2 DEF sigint_handler, hplbaVars
  <2>3. CASE MeteredRerun(p)
    BY <1>2, <2>3 DEF MeteredRerun, Rerun, hplbaVars
  <2> QED
    BY <1>4, <2>1, <2>2, <2>3 DEF ActsOn
<1>5. CASE MeteredReload
  <2>1. UNCHANGED <<pc, at, call>>
    BY <1>5 DEF MeteredReload, procVars, hplba_exit, hplba_init
  <2> QED
    BY <1>1, <2>1
<1>6. CASE \E l \in Lba, busy \in {0, 1} : MeteredCycle(l, busy)
  BY <1>1, <1>6 DEF MeteredCycle, procVars, BusCycle
<1>7. CASE UNCHANGED meteredVars
  BY <1>1, <1>7 DEF meteredVars, measureVars, procVars, hplbaVars
<1> QED
  BY <1>1, <1>4, <1>5, <1>6, <1>7, NextCases, OthersStay

-----------------------------------------------------------------------------
(* Interrupts.                                                             *)

\* Where SIGINT is blocked, and how many lines may have been printed since it
\* came: one more is due as long as the signal is held back.
SignalInv(p) ==
  /\ pending[p] => blocked[p]
  /\ blocked[p] => pc[p] \in {"stop", "collect", "print", "loop", "start", "final"}
  /\ pc[p] = "done" => ~pending[p]
  /\ ~time_to_quit[p] /\ ~pending[p] => late[p] = 0
  /\ pc[p] = "done" \/ time_to_quit[p] => late[p] <= 2
  /\ time_to_quit[p] /\ pc[p] \in Sampling => late[p] <= 1
  /\ ~time_to_quit[p] => late[p] <= 1
  /\ ~time_to_quit[p] /\ pc[p] \in {"stop", "collect", "print"} => late[p] = 0

LEMMA SignalInvKept ==
  ASSUME Types, \A p \in Client : CallInv(p), \A p \in Client : SignalInv(p),
         [MeteredNext]_meteredVars
  PROVE  \A p \in Client : SignalInv(p)'
<1>0. /\ pc \in [Client -> PCs] /\ late \in [Client -> 0 .. MaxLate] /\ MaxLate = 3
      /\ time_to_quit \in [Client -> BOOLEAN] /\ blocked \in [Client -> BOOLEAN]
      /\ pending \in [Client -> BOOLEAN]
  BY DEF Types, MeasureTypeOK, MeteredTypeOK, MaxLate
<1>1. ASSUME NEW p \in Client,
             UNCHANGED <<pc, signals, late>> \/ Same(p)
      PROVE  SignalInv(p)'
  BY <1>1 DEF SignalInv, Same, signals
<1>2. ASSUME NEW p \in Client, MeteredStep(p)
      PROVE  SignalInv(p)'
  <2>0. SignalInv(p) /\ Step(p)
    BY <1>2 DEF MeteredStep
  <2>1. pc[p] # "print" => UNCHANGED late
    BY <1>2 DEF MeteredStep
  <2>2. CASE \/ \E cmd \in UtilCommands : write_lba_attribute(p, cmd)
             \/ read_lba_attribute(p) \/ hplba_collect(p) \/ StoreStep(p)
    <3>1. UNCHANGED <<pc, signals>>
      BY <2>2 DEF write_lba_attribute, read_lba_attribute, hplba_collect, StoreStep,
                  procVars
    <3>2. CASE call[p] = Idle
      <4>1. pc[p] \in UtilCommands \/ pc[p] = "collect"
        BY <2>2, <3>2 DEF write_lba_attribute, read_lba_attribute, In, hplba_collect,
           utilization_show_cntr, StoreStep, set_util_state, util_op, Idle
      <4> QED
        BY <1>1, <2>1, <3>1, <4>1 DEF UtilCommands
    <3>3. CASE call[p] # Idle
      <4>1. pc[p] \in UtilCommands \/ pc[p] = "collect"
        BY <3>3, CallRange DEF CallInv, InStore
      <4> QED
        BY <1>1, <2>1, <3>1, <4>1 DEF UtilCommands
    <3> QED
      BY <3>2, <3>3
  <2>3. CASE EndList(p)
    <3>1. PICK place \in DOMAIN NextPlace : /\ pc[p] = place /\ Goto(p, NextPlace[place])
                                            /\ UNCHANGED signals
      BY <2>3 DEF EndList, In
    <3>2. /\ pc'[p] = NextPlace[place]
          /\ <<place, NextPlace[place]>> \in {<<"init", "reset">>, <<"reset", "loop">>,
                <<"stop", "collect">>, <<"collect", "print">>}
          /\ UNCHANGED late
      BY <1>0, <2>1, <3>1 DEF Goto, NextPlace
    <3> QED
      BY <2>0, <3>1, <3>2 DEF SignalInv, signals, Sampling
  <2>4. CASE LoopTest(p)
    <3>1. /\ pc[p] = "loop" /\ UNCHANGED <<late, signals>>
          /\ \/ pc'[p] = "start" /\ ~time_to_quit[p]
             \/ pc'[p] = "final"
      BY <1>0, <2>1, <2>4 DEF LoopTest, In, Goto
    <3> QED
      BY <2>0, <3>1 DEF SignalInv, signals, Sampling
  <2>5. CASE unmask_signals(p)
    <3>1. /\ pc[p] = "start" /\ pc'[p] = "sleep" /\ UNCHANGED late
          /\ ~blocked'[p] /\ ~pending'[p]
          /\ time_to_quit'[p] <=> time_to_quit[p] \/ pending[p]
      BY <1>0, <2>1, <2>5 DEF unmask_signals, In, Goto, Unblock
    <3> QED
      BY <1>0, <2>0, <3>1 DEF SignalInv, Sampling
  <2>6. CASE mask_signals(p)
    <3>1. /\ pc[p] = "sleep" /\ pc'[p] = "stop" /\ UNCHANGED <<late, time_to_quit, pending>>
          /\ blocked'[p]
      BY <1>0, <2>1, <2>6 DEF mask_signals, In, Goto
    <3> QED
      BY <2>0, <3>1 DEF SignalInv, Sampling
  <2>7. CASE PrintSample(p)
    <3>1. /\ pc[p] = "print" /\ Goto(p, "loop") /\ UNCHANGED signals
      BY <2>7 DEF PrintSample, In
    <3>2. pc'[p] = "loop"
      BY <1>0, <3>1 DEF Goto
    <3>3. late'[p] = IF time_to_quit[p] \/ pending[p]
                       THEN IF late[p] < MaxLate THEN late[p] + 1 ELSE late[p]
                       ELSE late[p]
      BY <1>0, <1>2, <3>1 DEF MeteredStep
    <3> QED
      BY <1>0, <2>0, <3>1, <3>2, <3>3 DEF SignalInv, signals, Sampling
  <2>8. CASE PrintAverage(p)
    <3>1. /\ pc[p] = "final" /\ pc'[p] = "done" /\ UNCHANGED late
          /\ ~blocked'[p] /\ ~pending'[p]
          /\ time_to_quit'[p] <=> time_to_quit[p] \/ pending[p]
      BY <1>0, <2>1, <2>8 DEF PrintAverage, In, Goto, Unblock
    <3> QED
      BY <1>0, <2>0, <3>1 DEF SignalInv, Sampling
  <2> QED
    BY <2>0, <2>2, <2>3, <2>4, <2>5, <2>6, <2>7, <2>8 DEF Step
<1>3. ASSUME NEW p \in Client, sigint_handler(p), UNCHANGED late
      PROVE  SignalInv(p)'
  <2>0. SignalInv(p)
    OBVIOUS
  <2>1. /\ pc[p] # "done" /\ UNCHANGED <<pc, blocked>>
        /\ \/ blocked[p] /\ pending'[p] /\ UNCHANGED time_to_quit
           \/ ~blocked[p] /\ time_to_quit'[p] /\ UNCHANGED pending
    BY <1>0, <1>3 DEF sigint_handler
  <2> QED
    BY <1>3, <2>0, <2>1 DEF SignalInv, Sampling
<1>4. ASSUME NEW p \in Client, MeteredRerun(p)
      PROVE  SignalInv(p)'
  <2>1. /\ Goto(p, "init") /\ late'[p] = 0
        /\ ~time_to_quit'[p] /\ ~blocked'[p] /\ ~pending'[p]
    BY <1>0, <1>4 DEF MeteredRerun, Rerun
  <2>2. pc'[p] = "init"
    BY <1>0, <2>1 DEF Goto
  <2> QED
    BY <2>1, <2>2 DEF SignalInv, Sampling
<1>5. ASSUME NEW p \in Client, ActsOn(p)
      PROVE  SignalInv(p)'
  BY <1>2, <1>3, <1>4, <1>5 DEF ActsOn
<1>6. CASE MeteredReload \/ \E l \in Lba, busy \in {0, 1} : MeteredCycle(l, busy)
  BY <1>1, <1>6 DEF MeteredReload, MeteredCycle, procVars
<1>7. CASE UNCHANGED meteredVars
  BY <1>1, <1>7 DEF meteredVars, measureVars, procVars
<1> QED
  BY <1>1, <1>5, <1>6, <1>7, NextCases, OthersStay

\* What holds for any number of processes, on bridges of their own or shared.
SharedInv ==
  Types /\ DriverInv /\ \A p \in Client : CallInv(p) /\ SignalInv(p)

LEMMA SharedInvInit == MeteredInit => SharedInv
<1> SUFFICES ASSUME MeteredInit
             PROVE  SharedInv
  OBVIOUS
<1>1. ASSUME NEW p \in Client
      PROVE  /\ call[p] = Idle /\ pc[p] = "init" /\ late[p] = 0
             /\ ~pending[p] /\ ~blocked[p] /\ ~time_to_quit[p]
  BY <1>1 DEF MeteredInit, MeasureInit, HplbaInit
<1>2. \A p \in Client : CallInv(p) /\ SignalInv(p)
  BY <1>1 DEF CallInv, SignalInv, InStore, Idle, Sampling
<1> QED
  BY <1>2, TypesInit DEF SharedInv

LEMMA SharedInvKept ==
  ASSUME SharedInv, [MeteredNext]_meteredVars
  PROVE  SharedInv'
<1> USE DEF SharedInv
<1>1. Types' /\ DriverInv'
  BY TypesKept, MeteredIsHplba, DriverInvKept DEF Types
<1>2. \A p \in Client : CallInv(p)'
  BY CallInvKept DEF DriverInv
<1>3. \A p \in Client : SignalInv(p)'
  BY SignalInvKept
<1> QED
  BY <1>1, <1>2, <1>3

\* Whatever bridges the processes share: a call of a process is the one its loop
\* made last, the driver's invariant holds, and SIGINT is counted right.
THEOREM SharedInvariant == MeteredSpec => []SharedInv
  BY SharedInvInit, SharedInvKept, PTL DEF MeteredSpec

\* sigint_handler, mask_signals and unmask_signals: wherever SIGINT falls, at
\* most two more lines of samples are printed.
THEOREM InterruptTheorem == MeteredSpec => []InterruptBounded
<1>1. SharedInv => InterruptBounded
  <2> SUFFICES ASSUME SharedInv, NEW p \in Client
               PROVE  late[p] < MaxLate
    BY DEF InterruptBounded
  <2>1. late[p] \in 0 .. 3 /\ time_to_quit[p] \in BOOLEAN
    BY DEF SharedInv, Types, MeasureTypeOK, MeteredTypeOK, MaxLate
  <2> QED
    BY <2>1 DEF SharedInv, SignalInv, MaxLate
<1> QED
  BY <1>1, SharedInvariant, PTL

=============================================================================
