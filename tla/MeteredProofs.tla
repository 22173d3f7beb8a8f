--------------------------- MODULE MeteredProofs ----------------------------
(***************************************************************************)
(* The measurement, for any number of processes that display bridges of    *)
(* their own: what a process knows of a bridge that it has hold of, and of *)
(* one that it lost; then what it prints, the counters, the counts it has  *)
(* read and the lines, against the cycles that went over the buses; and    *)
(* that it implements Meter.                                               *)
(***************************************************************************)
EXTENDS MeasureProofs

\* No two pcitops look at the same bridge.  Without it nothing below holds:
\* one pcitop would stop and reset the counters of the other.
OwnBridges == \A l \in Lba : Exclusive(l)

-----------------------------------------------------------------------------
(* The inductive invariant.                                                *)

\* Process p is in a store on bridge l; it has not acted on the state it read.
Storing(p, l)  == InStore(p) /\ call[p].lba = l
Checking(p, l) == call[p].pc = "check" /\ call[p].lba = l

\* The states a bridge may be in that a loop has not come to.
Before == [init  |-> {},                sleep   |-> {"start"},
           reset |-> {"init"},          stop    |-> {"start"},
           loop  |-> {"reset", "stop"}, collect |-> {"stop"},
           start |-> {"reset", "stop"}, print   |-> {"stop"},
           final |-> {"reset", "stop"}]

\* The states that process p, where it is, left bridge l in.
StatesAt(p, l) ==
  IF pc[p] \in UtilCommands /\ Passed(p, l) /\ ~Checking(p, l)
    THEN {pc[p]} ELSE Before[pc[p]]

\* A bridge that p has hold of is in the state that p left it in, and counts
\* exactly while p has a window open on it.
HeldInv(p, l) ==
  /\ pc[p] # "done" => loaded /\ util_state[l] \in StatesAt(p, l)
  /\ win[p][l].open <=> Counting(l)
  /\ pc[p] \in {"init", "reset", "done"} => ~win[p][l].open
  /\ Storing(p, l) /\ pc[p] = "start" => ~win[p][l].open
  /\ Storing(p, l) /\ pc[p] = "stop" => win[p][l].open

\* A bridge that p lost stays in state unknown, out of which only init leads.
LostInv(p, l) ==
  /\ loaded /\ (pc[p] = "init" => Passed(p, l) /\ ~Storing(p, l)) =>
       util_state[l] = "unknown"
  /\ ~win[p][l].open

BridgeInv(p, l) == IF l \in ready[p] THEN HeldInv(p, l) ELSE LostInv(p, l)

\* Only a bridge that p has hold of is written to, but for the first write of
\* init.
WritesHeld(p) ==
  call[p].pc = "regs" /\ (call[p].cmd # "init" \/ call[p].i > 1) =>
    call[p].lba \in ready[p]

PlaceInv(p) ==
  /\ ready[p] \subseteq Displayed(p)
  /\ WritesHeld(p)
  /\ \A l \in Displayed(p) : BridgeInv(p, l)

OwnInv == SharedInv /\ ExclusiveInv /\ \A p \in Client : PlaceInv(p)

-----------------------------------------------------------------------------
(* Lemmas.                                                                 *)

LEMMA SwitchFacts ==
  /\ LegalFrom["init"] = UtilStates
  /\ \A cmd \in UtilCommands : /\ Before[cmd] \subseteq LegalFrom[cmd]
                               /\ cmd # "init" => "unknown" \notin LegalFrom[cmd]
  BY DEF LegalFrom, Before, UtilCommands, UtilStates

\* Between two stores on l of the one process that uses l, the registers are
\* as util_state says.
LEMMA QuietBridge ==
  ASSUME OwnBridges, SharedInv, ExclusiveInv, NEW p \in Client, NEW l \in Displayed(p),
         call[p].pc = "regs" => call[p].lba # l
  PROVE  /\ HwMatchesState(l)
         /\ util_state[l] \in {"init", "reset", "stop"} => ~Counting(l)
         /\ util_state[l] = "start" => Counting(l)
<1>1. l \in Opens[p] /\ l \in Lba /\ Exclusive(l)
  BY DisplayFacts DEF OwnBridges
<1>2. \A c \in Client : call[c].pc = "regs" => call[c].lba # l
  BY <1>1 DEF ExclusiveInv, InStore, Exclusive
<1> QED
  BY <1>1, <1>2 DEF ExclusiveInv, HwMatchesState, Counting

LEMMA CallKindsOf ==
  ASSUME SharedInv, NEW p \in Client, ActsOn(p)
  PROVE  \/ set_util_state(p) \/ util_op(p)
         \/ UNCHANGED <<loaded, util_state, reg, timer, cntr>>
<1>1. ASSUME UNCHANGED hplbaVars
      PROVE  UNCHANGED <<loaded, util_state, reg, timer, cntr>>
  BY <1>1 DEF hplbaVars, driver, hw
<1>2. ASSUME MeteredStep(p)
      PROVE  Call(p) \/ UNCHANGED hplbaVars
  BY <1>2, ProcessIsClient DEF MeteredStep, SharedInv, Types
<1>3. ASSUME sigint_handler(p) \/ MeteredRerun(p)
      PROVE  UNCHANGED hplbaVars
  BY <1>3 DEF sigint_handler, MeteredRerun, Rerun
<1>4. ASSUME Call(p)
      PROVE  \/ set_util_state(p) \/ util_op(p)
             \/ UNCHANGED <<loaded, util_state, reg, timer, cntr>>
  BY <1>4 DEF Call, utilization_store, utilization_show, utilization_show_cntr, driver, hw
<1> QED
  BY <1>1, <1>2, <1>3, <1>4 DEF ActsOn

LEMMA DriverStays ==
  ASSUME SharedInv, NEW p \in Client, ActsOn(p)
  PROVE  loaded' = loaded
<1>1. ASSUME util_op(p)
      PROVE  loaded' = loaded
  BY <1>1, Zenon DEF util_op, driver
<1>2. ASSUME set_util_state(p)
      PROVE  loaded' = loaded
  BY <1>2 DEF set_util_state
<1> QED
  BY <1>1, <1>2, CallKindsOf

\* What a step of process p leaves alone of the bridges of process q.
LEMMA OthersBridges ==
  ASSUME OwnBridges, SharedInv, NEW p \in Client, ActsOn(p),
         NEW q \in Client, q # p, NEW l \in Displayed(q)
  PROVE  /\ util_state'[l] = util_state[l] /\ reg'[l] = reg[l]
         /\ timer'[l] = timer[l] /\ cntr'[l] = cntr[l]
<1>1. l \in Lba /\ l \notin Opens[p]
  BY DisplayFacts DEF OwnBridges, Exclusive
<1>2. call[p] # Idle => call[p].lba # l
  <2>1. call[p] # Idle => call[p].lba \in Displayed(p)
    BY PassedFacts DEF SharedInv, CallInv
  <2> QED
    BY <1>1, <2>1, DisplayFacts
<1>3. ASSUME set_util_state(p)
      PROVE  /\ util_state'[l] = util_state[l]
             /\ reg'[l] = reg[l] /\ timer'[l] = timer[l] /\ cntr'[l] = cntr[l]
  <2>1. call[p] # Idle
    BY <1>3 DEF set_util_state, Idle
  <2> QED
    BY <1>1, <1>2, <1>3, <2>1, SetFacts DEF SharedInv
<1>4. ASSUME util_op(p)
      PROVE  /\ util_state'[l] = util_state[l]
             /\ reg'[l] = reg[l] /\ timer'[l] = timer[l] /\ cntr'[l] = cntr[l]
  <2>1. call[p].pc = "regs"
    BY <1>4, Zenon DEF util_op
  <2>2. call[p] # Idle
    BY <2>1 DEF Idle
  <2> QED
    BY <1>1, <1>2, <1>4, <2>2, OpFacts DEF SharedInv, DriverInv
<1> QED
  BY <1>3, <1>4, CallKindsOf

\* The invariant of process p is about what p keeps to itself and about the
\* states and registers of its bridges.
LEMMA PlaceFrame ==
  ASSUME Types, NEW p \in Client, PlaceInv(p),
         pc'[p] = pc[p], at'[p] = at[p], call'[p] = call[p], ready'[p] = ready[p],
         loaded' = loaded,
         \A l \in Displayed(p) : /\ util_state'[l] = util_state[l] /\ reg'[l] = reg[l]
                                 /\ win'[p][l].open <=> win[p][l].open
  PROVE  PlaceInv(p)'
<1>1. /\ ready'[p] \subseteq Displayed(p) /\ WritesHeld(p)'
  BY DEF PlaceInv, WritesHeld
<1>2. ASSUME NEW l \in Displayed(p)
      PROVE  BridgeInv(p, l)'
  <2>1. Passed(p, l)' <=> Passed(p, l)
    BY PassedFacts
  <2>2. BridgeInv(p, l)
    BY DEF PlaceInv
  <2>3. StatesAt(p, l)' = StatesAt(p, l)
    BY <2>1 DEF StatesAt, Checking
  <2>4. /\ Storing(p, l)' <=> Storing(p, l)
        /\ Counting(l)' <=> Counting(l)
    BY DEF Storing, InStore, Counting
  <2> QED
    BY <1>2, <2>1, <2>2, <2>3, <2>4 DEF BridgeInv, HeldInv, LostInv
<1> QED
  BY <1>1, <1>2 DEF PlaceInv, Displayed

-----------------------------------------------------------------------------
(* The steps of process p keep its invariant.                              *)

\* A command is asked for, or a count.
LEMMA AskKeepsPlace ==
  ASSUME OwnBridges, OwnInv, NEW p \in Client, UNCHANGED cycles,
         (\E cmd \in UtilCommands : write_lba_attribute(p, cmd)) \/ read_lba_attribute(p)
  PROVE  PlaceInv(p)'
<1> USE DEF OwnInv, SharedInv
<1>0. ~AtEnd(p) /\ Next_lba(p) /\ pc' = pc /\ call[p] = Idle
  BY DEF write_lba_attribute, read_lba_attribute, In
<1>1. PICK k : k = Bridge(p) /\ k \in Lba /\ k \in Displayed(p)
  BY <1>0, AtBridge DEF Types
<1>2. /\ ~Passed(p, k)
      /\ \A l \in Displayed(p) : Passed(p, l)' <=> Passed(p, l) \/ l = k
  BY <1>0, <1>1, PassedFacts
<1>3. PlaceInv(p)
  OBVIOUS
<1>4. /\ call[p].pc \notin {"check", "regs"} /\ ~InStore(p)
      /\ \A l : ~Storing(p, l) /\ ~Checking(p, l)
  BY <1>0 DEF Idle, InStore, Storing, Checking
<1>5. CASE UNCHANGED hplbaVars /\ ~loaded
  <2>1. /\ UNCHANGED <<loaded, util_state, reg, call>> /\ UNCHANGED <<win, ready>>
    BY <1>5 DEF hplbaVars, driver, hw, cycles
  <2>2. WritesHeld(p)'
    BY <1>4, <2>1 DEF WritesHeld
  <2>3. ASSUME NEW l \in Displayed(p)
        PROVE  BridgeInv(p, l)'
    <3>1. BridgeInv(p, l)
      BY <1>3 DEF PlaceInv
    <3>2. /\ Storing(p, l)' <=> Storing(p, l)
          /\ Counting(l)' <=> Counting(l)
      BY <2>1 DEF Storing, InStore, Counting
    <3> QED
      BY <1>0, <1>4, <1>5, <2>1, <3>1, <3>2 DEF BridgeInv, HeldInv, LostInv
  <2> QED
    BY <1>3, <2>1, <2>2, <2>3 DEF PlaceInv
<1>6. ASSUME UNCHANGED <<loaded, util_state, reg>>, loaded,
             \/ /\ pc[p] \in UtilCommands /\ call'[p].pc = "check" /\ call'[p].lba = k
             \/ pc[p] = "collect" /\ call'[p].pc = "cntr"
      PROVE  PlaceInv(p)'
  <2>1. UNCHANGED <<win, ready>>
    BY DEF cycles
  <2>2. WritesHeld(p)'
    BY <1>6 DEF WritesHeld
  <2>3. ASSUME NEW l \in Displayed(p)
        PROVE  BridgeInv(p, l)'
    <3>1. BridgeInv(p, l)
      BY <1>3 DEF PlaceInv
    <3>2. Counting(l)' <=> Counting(l)
      BY <1>6 DEF Counting
    <3>3. /\ pc[p] \in UtilCommands => /\ Storing(p, l)' <=> l = k
                                       /\ Checking(p, l)' <=> l = k
          /\ pc[p] \notin UtilCommands => ~Storing(p, l)'
      BY <1>6 DEF Storing, Checking, InStore, UtilCommands
    <3>4. StatesAt(p, l)' = StatesAt(p, l)
      BY <1>0, <1>2, <1>4, <3>3 DEF StatesAt
    <3>5. /\ util_state[l] \in {"init", "reset", "stop"} => ~Counting(l)
          /\ util_state[l] = "start" => Counting(l)
      BY <1>4, QuietBridge
    <3>6. l = k => StatesAt(p, l) = Before[pc[p]]
      BY <1>2 DEF StatesAt
    <3>7. Before["start"] = {"reset", "stop"} /\ Before["stop"] = {"start"}
      BY DEF Before
    <3>8. CASE l \in ready[p]
      <4>1. HeldInv(p, l)
        BY <3>1, <3>8 DEF BridgeInv
      <4>2. HeldInv(p, l)'
        BY <1>0, <1>6, <2>1, <3>2, <3>3, <3>4, <3>5, <3>6, <3>7, <4>1 DEF HeldInv
      <4> QED
        BY <2>1, <3>8, <4>2 DEF BridgeInv
    <3>9. CASE l \notin ready[p]
      <4>1. LostInv(p, l)
        BY <3>1, <3>9 DEF BridgeInv
      <4>2. LostInv(p, l)'
        BY <1>0, <1>2, <1>4, <1>6, <2>1, <3>3, <4>1 DEF LostInv, UtilCommands
      <4> QED
        BY <2>1, <3>9, <4>2 DEF BridgeInv
    <3> QED
      BY <3>8, <3>9
  <2> QED
    BY <1>3, <2>1, <2>2, <2>3 DEF PlaceInv
<1>7. ASSUME NEW cmd \in UtilCommands, write_lba_attribute(p, cmd)
      PROVE  PlaceInv(p)'
  <2>1. pc[p] = cmd
    BY <1>7 DEF write_lba_attribute, In
  <2>2. utilization_store(p, k, cmd) \/ (~loaded /\ UNCHANGED hplbaVars)
    BY <1>1, <1>7 DEF write_lba_attribute, write_attribute
  <2> QED
    BY <1>1, <1>5, <1>6, <2>1, <2>2, AskFacts
<1>8. ASSUME read_lba_attribute(p)
      PROVE  PlaceInv(p)'
  <2>1. pc[p] = "collect"
    BY <1>8 DEF read_lba_attribute, In
  <2>2. utilization_show(p, k) \/ (~loaded /\ UNCHANGED hplbaVars)
    BY <1>1, <1>8 DEF read_lba_attribute, read_attribute
  <2>3. CASE utilization_show(p, k)
    <3>1. /\ loaded /\ UNCHANGED <<loaded, util_state, reg>> /\ call'[p].pc = "cntr"
      BY <2>3 DEF utilization_show, driver, hw, Types, TypeOK
    <3> QED
      BY <1>6, <2>1, <3>1
  <2> QED
    BY <1>5, <2>2, <2>3
<1> QED
  BY <1>7, <1>8

\* What was read is stored.
LEMMA CollectKeepsPlace ==
  ASSUME OwnBridges, OwnInv, NEW p \in Client, UNCHANGED cycles, hplba_collect(p)
  PROVE  PlaceInv(p)'
<1> USE DEF OwnInv, SharedInv
<1>1. /\ UNCHANGED <<pc, at, loaded, util_state, reg>> /\ UNCHANGED <<win, ready>>
      /\ call[p].pc = "cntr" /\ call'[p] = Idle
  BY DEF hplba_collect, utilization_show_cntr, driver, hw, cycles, Types, TypeOK
<1>2. PlaceInv(p)
  OBVIOUS
<1>3. WritesHeld(p)'
  BY <1>1 DEF WritesHeld, Idle
<1>4. ASSUME NEW l \in Displayed(p)
      PROVE  BridgeInv(p, l)'
  <2>1. BridgeInv(p, l)
    BY <1>2 DEF PlaceInv
  <2>2. Passed(p, l)' <=> Passed(p, l)
    BY <1>1, PassedFacts
  <2>3. /\ ~Storing(p, l) /\ ~Storing(p, l)' /\ ~Checking(p, l) /\ ~Checking(p, l)'
        /\ Counting(l)' <=> Counting(l)
    BY <1>1 DEF Storing, Checking, InStore, Counting, Idle
  <2>4. StatesAt(p, l)' = StatesAt(p, l)
    BY <1>1, <2>2, <2>3 DEF StatesAt
  <2> QED
    BY <1>1, <2>1, <2>2, <2>3, <2>4 DEF BridgeInv, HeldInv, LostInv
<1> QED
  BY <1>1, <1>2, <1>3, <1>4 DEF PlaceInv

\* set_util_state, and one register write.
LEMMA SetKeepsPlace ==
  ASSUME OwnBridges, OwnInv, NEW p \in Client, UNCHANGED cycles, UNCHANGED procVars,
         set_util_state(p)
  PROVE  PlaceInv(p)'
<1> USE DEF OwnInv, SharedInv
<1>1. PICK k : k = call[p].lba
  OBVIOUS
<1>2. /\ call[p].pc = "check" /\ k \in Lba /\ InStore(p) /\ call[p] # Idle
      /\ UNCHANGED <<loaded, reg, pc, at>> /\ UNCHANGED <<win, ready>>
      /\ \A l \in Lba \ {k} : util_state'[l] = util_state[l]
  BY <1>1, SetFacts DEF procVars, cycles, InStore, Idle
<1>3. /\ call[p].cmd = pc[p] /\ pc[p] \in UtilCommands
      /\ Passed(p, k) /\ k \in Displayed(p)
  BY <1>1, <1>2, CallRange, PassedFacts DEF CallInv
<1>4. loaded /\ call[p].cur = util_state[k] /\ util_state[k] \in UtilStates
  BY <1>1, <1>2 DEF DriverInv, CallsOK, ExclusiveInv, StoreOK, OwnBridges, Types, TypeOK
<1>5. PlaceInv(p) /\ BridgeInv(p, k)
  BY <1>3 DEF PlaceInv
<1>6. k \in ready[p] => util_state[k] \in Before[pc[p]]
  <2>1. ASSUME k \in ready[p]
        PROVE  HeldInv(p, k) /\ Checking(p, k) /\ pc[p] # "done"
    BY <1>1, <1>2, <1>3, <1>5, <2>1 DEF BridgeInv, Checking, UtilCommands
  <2> QED
    BY <1>3, <2>1 DEF HeldInv, StatesAt
<1>7. k \notin ready[p] /\ pc[p] # "init" => util_state[k] = "unknown"
  BY <1>4, <1>5 DEF BridgeInv, LostInv
<1>8. /\ util_state[k] \in LegalFrom[pc[p]] <=> k \in ready[p] \/ pc[p] = "init"
      /\ ~(k \in ready[p] /\ pc[p] = "init")
  BY <1>3, <1>4, <1>6, <1>7, SwitchFacts DEF Before
<1>9. CASE /\ call[p].cur \in LegalFrom[call[p].cmd]
           /\ call'[p].pc = "regs" /\ call'[p].lba = k /\ call'[p].i = 1
           /\ call'[p].cmd = call[p].cmd /\ util_state'[k] = call[p].cmd
  <2>1. k \in ready[p] \/ pc[p] = "init"
    BY <1>3, <1>4, <1>8, <1>9
  <2>2. WritesHeld(p)'
    BY <1>2, <1>3, <1>9, <2>1 DEF WritesHeld
  <2>3. ASSUME NEW l \in Displayed(p)
        PROVE  BridgeInv(p, l)'
    <3>0. l \in Lba
      BY DisplayFacts
    <3>1. BridgeInv(p, l)
      BY <1>5 DEF PlaceInv
    <3>2. Passed(p, l)' <=> Passed(p, l)
      BY <1>2, PassedFacts
    <3>3. /\ Storing(p, l) <=> l = k
          /\ Storing(p, l)' <=> l = k
          /\ Checking(p, l) <=> l = k
          /\ ~Checking(p, l)'
          /\ Counting(l)' <=> Counting(l)
      BY <1>1, <1>2, <1>9 DEF Storing, Checking, InStore, Counting
    <3>4. CASE l # k
      <4>1. StatesAt(p, l)' = StatesAt(p, l)
        BY <1>2, <3>2, <3>3, <3>4 DEF StatesAt
      <4>2. util_state'[l] = util_state[l]
        BY <1>2, <3>0, <3>4
      <4> QED
        BY <1>2, <3>1, <3>2, <3>3, <3>4, <4>1, <4>2 DEF BridgeInv, HeldInv, LostInv
    <3>5. CASE l = k
      <4>1. StatesAt(p, l)' = {pc[p]}
        BY <1>2, <1>3, <3>2, <3>3, <3>5 DEF StatesAt
      <4>2. util_state'[l] = pc[p]
        BY <1>3, <1>9, <3>5
      <4> QED
        BY <1>2, <1>4, <2>1, <3>1, <3>2, <3>3, <3>5, <4>1, <4>2 DEF BridgeInv, HeldInv, LostInv
    <3> QED
      BY <3>4, <3>5
  <2> QED
    BY <1>2, <1>5, <2>2, <2>3 DEF PlaceInv
<1>10. CASE /\ call[p].cur \notin LegalFrom[call[p].cmd]
            /\ call'[p] = Idle /\ UNCHANGED util_state
  <2>1. k \notin ready[p] /\ pc[p] # "init"
    BY <1>3, <1>4, <1>8, <1>10
  <2>2. WritesHeld(p)'
    BY <1>10 DEF WritesHeld, Idle
  <2>3. ASSUME NEW l \in Displayed(p)
        PROVE  BridgeInv(p, l)'
    <3>1. BridgeInv(p, l)
      BY <1>5 DEF PlaceInv
    <3>2. Passed(p, l)' <=> Passed(p, l)
      BY <1>2, PassedFacts
    <3>3. /\ ~Storing(p, l)' /\ ~Checking(p, l)'
          /\ Checking(p, l) <=> l = k
          /\ Counting(l)' <=> Counting(l)
      BY <1>1, <1>2, <1>10 DEF Storing, Checking, InStore, Counting, Idle
    <3>4. l # k => StatesAt(p, l)' = StatesAt(p, l)
      BY <1>2, <3>2, <3>3 DEF StatesAt
    <3> QED
      BY <1>2, <1>10, <2>1, <3>1, <3>2, <3>3, <3>4 DEF BridgeInv, HeldInv, LostInv
  <2> QED
    BY <1>2, <1>5, <2>2, <2>3 DEF PlaceInv
<1> QED
  BY <1>1, <1>9, <1>10, SetFacts

LEMMA OpKeepsPlace ==
  ASSUME OwnBridges, OwnInv, NEW p \in Client, Observe(p), UNCHANGED procVars, util_op(p)
  PROVE  PlaceInv(p)'
<1> USE DEF OwnInv, SharedInv
<1>1. PICK k : k = call[p].lba
  OBVIOUS
<1>2. /\ call[p].pc = "regs" /\ k \in Lba /\ InStore(p) /\ call[p] # Idle
      /\ call[p].cmd \in UtilCommands /\ call[p].i \in 1 .. 3
      /\ call[p].cmd # "init" => call[p].i = 1
      /\ UNCHANGED <<loaded, util_state, pc, at>>
      /\ \A l \in Lba \ {k} : reg'[l] = reg[l]
      /\ call[p].i = 1 => reg'[k].DIAG_EN0 = EN0Of[call[p].cmd]
      /\ call[p].i # 1 => reg'[k].DIAG_EN0 = reg[k].DIAG_EN0
  BY <1>1, OpFacts DEF procVars, InStore, Idle, DriverInv
<1>3. /\ call[p].cmd = pc[p] /\ pc[p] \in UtilCommands /\ pc[p] # "done"
      /\ Passed(p, k) /\ k \in Displayed(p)
  BY <1>1, <1>2, PassedFacts DEF CallInv, UtilCommands
<1>4. loaded /\ util_state[k] = pc[p]
  BY <1>1, <1>2, <1>3 DEF DriverInv, CallsOK, ExclusiveInv, StoreOK, OwnBridges
<1>5. PlaceInv(p) /\ BridgeInv(p, k)
  BY <1>3 DEF PlaceInv
<1>6. k \in ready[p] \/ (pc[p] = "init" /\ call[p].i = 1)
  BY <1>1, <1>2, <1>3, <1>5 DEF PlaceInv, WritesHeld
<1>7. /\ ready'[p] = IF pc[p] = "init" THEN ready[p] \cup {k} ELSE ready[p]
      /\ k \in ready'[p]
      /\ \A l \in Lba \ {k} : win'[p][l] = win[p][l]
      /\ pc[p] = "start" => win'[p][k].open
      /\ pc[p] = "stop" => ~win'[p][k].open
      /\ pc[p] \notin {"start", "stop"} => win'[p][k] = win[p][k]
  <2>0. Types /\ Observe(p) /\ call[p].pc = "regs" /\ k = call[p].lba
    BY <1>1, <1>2
  <2>1. \A l \in Lba \ {k} : win'[p][l] = win[p][l] /\ tot'[p][l] = tot[p][l]
    BY <2>0, ObserveFacts, ZenonT(60)
  <2>2. ready'[p] = IF call[p].cmd = "init" THEN ready[p] \cup {k} ELSE ready[p]
    BY <2>0, ObserveFacts, ZenonT(60)
  <2>3. call[p].cmd = "start" => win'[p][k].open
    BY <2>0, ObserveFacts, ZenonT(60)
  <2>4. call[p].cmd = "stop" => ~win'[p][k].open
    BY <2>0, ObserveFacts, ZenonT(60)
  <2>5. call[p].cmd \notin {"start", "stop"} => win'[p][k] = win[p][k]
    BY <2>0, ObserveFacts, ZenonT(60)
  <2> QED
    BY <1>3, <1>6, <2>1, <2>2, <2>3, <2>4, <2>5
<1>8. \/ call'[p] = Idle
      \/ pc[p] = "init" /\ call'[p].pc = "regs" /\ call'[p].lba = k
  BY <1>1, <1>3, OpFacts DEF DriverInv
<1>9. WritesHeld(p)'
  BY <1>7, <1>8 DEF WritesHeld, Idle
<1>10. ASSUME NEW l \in Displayed(p)
       PROVE  BridgeInv(p, l)'
  <2>0. l \in Lba
    BY DisplayFacts
  <2>1. BridgeInv(p, l)
    BY <1>5 DEF PlaceInv
  <2>2. Passed(p, l)' <=> Passed(p, l)
    BY <1>2, PassedFacts
  <2>3. /\ Storing(p, l) <=> l = k
        /\ Storing(p, l)' => l = k /\ pc[p] = "init"
        /\ ~Checking(p, l) /\ ~Checking(p, l)'
    BY <1>1, <1>2, <1>8 DEF Storing, Checking, InStore, Idle
  <2>4. StatesAt(p, l)' = StatesAt(p, l)
    BY <1>2, <2>2, <2>3 DEF StatesAt
  <2>5. CASE l # k
    <3>1. /\ reg'[l] = reg[l] /\ win'[p][l] = win[p][l]
          /\ l \in ready'[p] <=> l \in ready[p]
      BY <1>2, <1>7, <2>0, <2>5
    <3>2. Counting(l)' <=> Counting(l)
      BY <3>1 DEF Counting
    <3> QED
      BY <1>2, <2>1, <2>2, <2>3, <2>4, <2>5, <3>1, <3>2 DEF BridgeInv, HeldInv, LostInv
  <2>6. CASE l = k
    <3>1. StatesAt(p, l) = {pc[p]}
      BY <1>3, <2>3, <2>6 DEF StatesAt
    <3>2. pc[p] \in {"init", "reset"} => ~win[p][l].open
      BY <1>5, <2>6 DEF BridgeInv, HeldInv, LostInv
    <3>3. Counting(l)' <=> pc[p] = "start"
      <4>1. CASE call[p].i = 1
        BY <1>2, <1>3, <2>6, <4>1 DEF Counting, EN0Of, UtilCommands
      <4>2. CASE call[p].i # 1
        <5>1. pc[p] = "init" /\ l \in ready[p]
          BY <1>2, <1>3, <1>6, <2>6, <4>2
        <5>2. ~Counting(l)
          BY <2>1, <3>2, <5>1 DEF BridgeInv, HeldInv
        <5> QED
          BY <1>2, <2>6, <4>2, <5>1, <5>2 DEF Counting
      <4> QED
        BY <4>1, <4>2
    <3>4. win'[p][l].open <=> pc[p] = "start"
      BY <1>3, <1>7, <2>6, <3>2 DEF UtilCommands
    <3>5. Storing(p, l)' => pc[p] = "init"
      BY <2>3
    <3> QED
      BY <1>2, <1>3, <1>4, <1>7, <2>4, <2>6, <3>1, <3>3, <3>4, <3>5 DEF BridgeInv, HeldInv
  <2> QED
    BY <2>5, <2>6
<1>11. ready'[p] \subseteq Displayed(p)
  BY <1>3, <1>5, <1>7 DEF PlaceInv
<1> QED
  BY <1>9, <1>10, <1>11 DEF PlaceInv

\* Where process p goes from one loop or wait to the next.
Follows == {<<"init", "reset">>, <<"reset", "loop">>, <<"loop", "start">>,
            <<"loop", "final">>, <<"start", "sleep">>, <<"sleep", "stop">>,
            <<"stop", "collect">>, <<"collect", "print">>, <<"print", "loop">>,
            <<"final", "done">>}

LEMMA PlaceFacts ==
  ASSUME Types, NEW p \in Client,
         EndList(p) \/ LoopTest(p) \/ unmask_signals(p) \/ mask_signals(p)
           \/ PrintSample(p) \/ PrintAverage(p)
  PROVE  /\ <<pc[p], pc'[p]>> \in Follows
         /\ pc[p] \in UtilCommands => AtEnd(p)
         /\ call[p] = Idle /\ UNCHANGED hplbaVars
         /\ \E place : Goto(p, place)
<1>0. p \in DOMAIN pc
  BY DEF Types, MeasureTypeOK
<1>1. ASSUME NEW from, NEW to, In(p, from), Goto(p, to)
      PROVE  pc[p] = from /\ pc'[p] = to
  BY <1>0, <1>1 DEF In, Goto
<1>2. CASE EndList(p)
  <2>1. PICK from \in DOMAIN NextPlace : In(p, from) /\ AtEnd(p) /\ Goto(p, NextPlace[from])
    BY <1>2 DEF EndList
  <2>2. pc[p] = from /\ pc'[p] = NextPlace[from]
    BY <1>1, <2>1
  <2> QED
    BY <1>2, <2>1, <2>2 DEF EndList, NextPlace, Follows, In
<1>3. CASE LoopTest(p)
  <2>1. In(p, "loop") /\ (Goto(p, "start") \/ Goto(p, "final"))
    BY <1>3 DEF LoopTest
  <2> QED
    BY <1>1, <1>3, <2>1 DEF LoopTest, Follows, In, UtilCommands
<1>4. CASE unmask_signals(p)
  BY <1>1, <1>4 DEF unmask_signals, Follows, In
<1>5. CASE mask_signals(p)
  BY <1>1, <1>5 DEF mask_signals, Follows, In, UtilCommands
<1>6. CASE PrintSample(p)
  <2>1. In(p, "print") /\ Goto(p, "loop") /\ UNCHANGED hplbaVars
    BY <1>6 DEF PrintSample
  <2> QED
    BY <1>1, <2>1 DEF Follows, In, UtilCommands
<1>7. CASE PrintAverage(p)
  <2>1. In(p, "final") /\ Goto(p, "done") /\ UNCHANGED hplbaVars
    BY <1>7 DEF PrintAverage
  <2> QED
    BY <1>1, <2>1 DEF Follows, In, UtilCommands
<1> QED
  BY <1>2, <1>3, <1>4, <1>5, <1>6, <1>7

LEMMA GotoKeepsPlace ==
  ASSUME OwnBridges, OwnInv, NEW p \in Client, UNCHANGED cycles,
         EndList(p) \/ LoopTest(p) \/ unmask_signals(p) \/ mask_signals(p)
           \/ PrintSample(p) \/ PrintAverage(p)
  PROVE  PlaceInv(p)'
<1> USE DEF OwnInv, SharedInv
<1>1. /\ <<pc[p], pc'[p]>> \in Follows
      /\ pc[p] \in UtilCommands => AtEnd(p)
      /\ call[p] = Idle /\ call'[p] = Idle
      /\ UNCHANGED <<loaded, util_state, reg>> /\ UNCHANGED <<win, ready>>
      /\ \A l : ~Passed(p, l)'
  BY PlaceFacts, PassedFacts DEF hplbaVars, driver, hw, cycles
<1>2. PlaceInv(p)
  OBVIOUS
<1>3. WritesHeld(p)'
  BY <1>1 DEF WritesHeld, Idle
<1>4. ASSUME NEW l \in Displayed(p)
      PROVE  BridgeInv(p, l)'
  <2>1. BridgeInv(p, l)
    BY <1>2 DEF PlaceInv
  <2>2. /\ ~Storing(p, l) /\ ~Storing(p, l)' /\ ~Checking(p, l)
        /\ Counting(l)' <=> Counting(l)
    BY <1>1 DEF Storing, Checking, InStore, Counting, Idle
  <2>3. pc[p] \in UtilCommands => Passed(p, l)
    BY <1>1, PassedFacts
  <2>4. /\ StatesAt(p, l) = IF pc[p] \in UtilCommands THEN {pc[p]} ELSE Before[pc[p]]
        /\ StatesAt(p, l)' = Before[pc'[p]]
    BY <1>1, <2>2, <2>3 DEF StatesAt
  <2>5. util_state[l] \in {"init", "reset", "stop"} => ~Counting(l)
    BY <1>1, QuietBridge DEF Idle
  <2>6. /\ pc[p] # "done"
        /\ pc'[p] # "done" => StatesAt(p, l) \subseteq StatesAt(p, l)'
        /\ pc'[p] = "done" => StatesAt(p, l) \subseteq {"reset", "stop"}
        /\ pc'[p] # "init"
        /\ pc'[p] = "reset" => pc[p] = "init"
        /\ pc[p] = "init" => Passed(p, l)
    BY <1>1, <2>3, <2>4 DEF Follows, UtilCommands, Before
  <2>7. CASE l \in ready[p]
    <3>1. HeldInv(p, l)
      BY <2>1, <2>7 DEF BridgeInv
    <3>2. HeldInv(p, l)'
      BY <1>1, <2>2, <2>5, <2>6, <3>1 DEF HeldInv
    <3> QED
      BY <1>1, <2>7, <3>2 DEF BridgeInv
  <2>8. CASE l \notin ready[p]
    BY <1>1, <2>1, <2>2, <2>6, <2>8 DEF BridgeInv, LostInv
  <2> QED
    BY <2>7, <2>8
<1> QED
  BY <1>1, <1>2, <1>3, <1>4 DEF PlaceInv

LEMMA PlaceKept ==
  ASSUME OwnBridges, OwnInv, [MeteredNext]_meteredVars, NEW p \in Client
  PROVE  PlaceInv(p)'
<1> USE DEF OwnInv, SharedInv
<1>0. PlaceInv(p)
  OBVIOUS
<1>1. CASE MeteredStep(p)
  <2>1. Step(p) /\ IF call[p].pc = "regs" THEN Observe(p) ELSE UNCHANGED cycles
    BY <1>1 DEF MeteredStep
  <2>2. CASE (\E cmd \in UtilCommands : write_lba_attribute(p, cmd)) \/ read_lba_attribute(p)
    <3>1. call[p].pc # "regs"
      BY <2>2 DEF write_lba_attribute, read_lba_attribute, In, Idle
    <3> QED
      BY <2>1, <2>2, <3>1, AskKeepsPlace
  <2>3. CASE hplba_collect(p)
    <3>1. call[p].pc # "regs"
      BY <2>3 DEF hplba_collect, utilization_show_cntr
    <3> QED
      BY <2>1, <2>3, <3>1, CollectKeepsPlace
  <2>4. CASE StoreStep(p)
    <3>1. UNCHANGED procVars /\ (set_util_state(p) \/ util_op(p))
      BY <2>4, Zenon DEF StoreStep
    <3>2. /\ set_util_state(p) => call[p].pc = "check"
          /\ util_op(p) => call[p].pc = "regs"
      BY Zenon DEF set_util_state, util_op
    <3> QED
      BY <2>1, <3>1, <3>2, SetKeepsPlace, OpKeepsPlace
  <2>5. CASE EndList(p) \/ LoopTest(p) \/ unmask_signals(p) \/ mask_signals(p)
               \/ PrintSample(p) \/ PrintAverage(p)
    <3>0. call[p] = Idle
      BY <2>5, PlaceFacts
    <3>1. call[p].pc # "regs"
      BY <3>0 DEF Idle
    <3> QED
      BY <2>1, <2>5, <3>1, GotoKeepsPlace
  <2> QED
    BY <2>1, <2>2, <2>3, <2>4, <2>5 DEF Step
<1>2. CASE sigint_handler(p) /\ UNCHANGED <<cycles, ticks, late>>
  <2>1. UNCHANGED <<pc, at, call, loaded, util_state, reg>> /\ UNCHANGED <<win, ready>>
    BY <1>2 DEF sigint_handler, hplbaVars, driver, hw, cycles
  <2> QED
    BY <1>0, <2>1, PlaceFrame
<1>3. CASE MeteredRerun(p)
  <2>1. /\ Goto(p, "init") /\ call'[p] = Idle /\ ready'[p] = {}
        /\ \A l \in Lba : win'[p][l] = Closed
    <3>1. /\ Goto(p, "init") /\ call[p] = Idle /\ UNCHANGED hplbaVars
          /\ ready' = [ready EXCEPT ![p] = {}]
          /\ win' = [win EXCEPT ![p] = [l \in Lba |-> Closed]]
      BY <1>3 DEF MeteredRerun, Rerun
    <3> QED
      BY <3>1, HistoryTyped DEF hplbaVars
  <2>2. pc'[p] = "init" /\ \A l : ~Passed(p, l)'
    BY <2>1, PassedFacts DEF Goto, Types, MeasureTypeOK
  <2>3. ~Closed.open
    BY DEF Closed
  <2>4. \A l \in Displayed(p) : LostInv(p, l)' /\ l \notin ready'[p]
    BY <2>1, <2>2, <2>3, DisplayFacts DEF LostInv
  <2>5. WritesHeld(p)'
    BY <2>1 DEF WritesHeld, Idle
  <2> QED
    BY <2>1, <2>4, <2>5 DEF PlaceInv, BridgeInv
<1>4. ASSUME NEW q \in Client, q # p, ActsOn(q)
      PROVE  PlaceInv(p)'
  <2>1. Same(p)
    BY <1>4, OthersStay
  <2>2. \A l \in Displayed(p) : util_state'[l] = util_state[l] /\ reg'[l] = reg[l]
    BY <1>4, OthersBridges
  <2>3. loaded' = loaded
    BY <1>4, DriverStays
  <2> QED
    BY <1>0, <2>1, <2>2, <2>3, PlaceFrame DEF Same
<1>5. CASE MeteredReload /\ hplba_exit
  <2>0. p \in Client
    OBVIOUS
  <2>1. /\ ~loaded' /\ call[p] = Idle /\ UNCHANGED <<pc, at, call, reg>>
        /\ pc[p] # "done" => ready'[p] = {} /\ \A l \in Lba : win'[p][l] = Closed
        /\ pc[p] = "done" => ready'[p] = ready[p] /\ win'[p] = win[p]
    <3>1. /\ hplba_exit /\ UNCHANGED procVars
          /\ win' = [q \in Client |->
               IF pc[q] = "done" THEN win[q] ELSE [l \in Lba |-> Closed]]
          /\ ready' = [q \in Client |-> IF pc[q] = "done" THEN ready[q] ELSE {}]
      BY <1>5, Zenon DEF MeteredReload, hplba_exit, hplba_init
    <3>2. /\ win'[p] = IF pc[p] = "done" THEN win[p] ELSE [l \in Lba |-> Closed]
          /\ ready'[p] = IF pc[p] = "done" THEN ready[p] ELSE {}
      BY <3>1, Zenon
    <3> QED
      BY <3>1, <3>2 DEF hplba_exit, hw, procVars
  <2>2. WritesHeld(p)'
    BY <2>1 DEF WritesHeld, Idle
  <2>3. ASSUME NEW l \in Displayed(p)
        PROVE  BridgeInv(p, l)'
    <3>1. BridgeInv(p, l) /\ l \in Lba
      BY <1>0, DisplayFacts DEF PlaceInv
    <3>2. /\ Counting(l)' <=> Counting(l)
          /\ ~Storing(p, l)' /\ ~Closed.open
      BY <2>1 DEF Counting, Storing, InStore, Idle, Closed
    <3> QED
      BY <2>1, <3>1, <3>2 DEF BridgeInv, HeldInv, LostInv
  <2> QED
    BY <1>0, <2>1, <2>2, <2>3 DEF PlaceInv
<1>6. CASE MeteredReload /\ hplba_init
  <2>1. /\ ~loaded /\ call[p] = Idle /\ UNCHANGED <<pc, at, call, reg>>
        /\ \A l \in Lba : util_state'[l] = "unknown"
        /\ UNCHANGED <<win, ready>>
    BY <1>6 DEF MeteredReload, hplba_init, hplba_exit, hw, procVars, cycles, DriverInv, CallsOK
  <2>2. WritesHeld(p)'
    BY <2>1 DEF WritesHeld, Idle
  <2>3. ASSUME NEW l \in Displayed(p)
        PROVE  BridgeInv(p, l)'
    <3>1. BridgeInv(p, l) /\ l \in Lba
      BY <1>0, DisplayFacts DEF PlaceInv
    <3>2. /\ Counting(l)' <=> Counting(l)
          /\ ~Storing(p, l)'
      BY <2>1 DEF Counting, Storing, InStore, Idle
    <3> QED
      BY <2>1, <3>1, <3>2 DEF BridgeInv, HeldInv, LostInv
  <2> QED
    BY <1>0, <2>1, <2>2, <2>3 DEF PlaceInv
<1>7. ASSUME NEW k \in Lba, NEW busy \in {0, 1}, MeteredCycle(k, busy)
      PROVE  PlaceInv(p)'
  <2>1. /\ UNCHANGED <<pc, at, call, loaded, util_state, reg, ready>>
    BY <1>7 DEF MeteredCycle, BusCycle, procVars, driver
  <2>2. \A l \in Lba : win'[p][l].open <=> win[p][l].open
    BY <1>7, CycleFacts
  <2> QED
    BY <1>0, <2>1, <2>2, PlaceFrame, DisplayFacts
<1>8. CASE UNCHANGED meteredVars
  <2>1. /\ UNCHANGED <<pc, at, call, loaded, util_state, reg>> /\ UNCHANGED <<win, ready>>
    BY <1>8 DEF meteredVars, measureVars, procVars, hplbaVars, driver, hw, cycles
  <2> QED
    BY <1>0, <2>1, PlaceFrame
<1>9. MeteredReload => hplba_exit \/ hplba_init
  BY DEF MeteredReload
<1> QED
  BY <1>1, <1>2, <1>3, <1>4, <1>5, <1>6, <1>7, <1>8, <1>9, NextCases DEF ActsOn

-----------------------------------------------------------------------------
(* Theorems.                                                               *)

LEMMA OwnInvInit ==
  ASSUME MeteredInit
  PROVE  OwnInv
<1>1. SharedInv /\ ExclusiveInv
  BY SharedInvInit, ExclusiveInit DEF MeteredInit, MeasureInit
<1>2. ASSUME NEW p \in Client
      PROVE  PlaceInv(p)
  <2>1. /\ call[p] = Idle /\ pc[p] = "init" /\ at[p] = 1 /\ ready[p] = {} /\ loaded
        /\ \A l \in Lba : util_state[l] = "unknown" /\ win[p][l] = Closed
    BY <1>2 DEF MeteredInit, MeasureInit, HplbaInit
  <2>2. \A l \in Displayed(p) : LostInv(p, l) /\ l \notin ready[p]
    BY <2>1, DisplayFacts DEF LostInv, Closed
  <2> QED
    BY <2>1, <2>2 DEF PlaceInv, BridgeInv, WritesHeld, Idle
<1> QED
  BY <1>1, <1>2 DEF OwnInv

LEMMA OwnInvKept ==
  ASSUME OwnBridges, OwnInv, [MeteredNext]_meteredVars
  PROVE  OwnInv'
<1>1. SharedInv'
  BY SharedInvKept DEF OwnInv
<1>2. ExclusiveInv'
  BY MeteredIsHplba, ExclusiveKeeps DEF OwnInv, SharedInv, Types
<1>3. \A p \in Client : PlaceInv(p)'
  BY PlaceKept
<1> QED
  BY <1>1, <1>2, <1>3 DEF OwnInv

\* What every pcitop knows of its bridges is true, wherever the others, the
\* driver and the buses are.
THEOREM OwnInvariant ==
  ASSUME OwnBridges
  PROVE  MeteredSpec => []OwnInv
<1>1. MeteredInit => OwnInv
  BY OwnInvInit
<1>2. OwnInv /\ [MeteredNext]_meteredVars => OwnInv'
  BY OwnInvKept
<1> QED
  BY <1>1, <1>2, PTL DEF MeteredSpec

LEMMA StoresAllowed ==
  ASSUME OwnBridges, OwnInv
  PROVE  NoStoreRejected
<1> SUFFICES ASSUME NEW p \in Client, call[p].pc = "check",
                    call[p].cmd = "init" \/ call[p].lba \in ready[p]
             PROVE  call[p].cur \in LegalFrom[call[p].cmd]
  BY DEF NoStoreRejected
<1> DEFINE l == call[p].lba
<1>1. /\ call[p] \in CheckCall /\ InStore(p) /\ call[p] # Idle
      /\ call[p].cmd \in UtilCommands /\ call[p].cur \in UtilStates
  BY CallKinds DEF OwnInv, SharedInv, Types, TypeOK, CheckCall, InStore, Idle
<1>2. call[p].cmd = pc[p] /\ l \in Displayed(p) /\ l \in Lba
  BY <1>1, PassedFacts, DisplayFacts DEF OwnInv, SharedInv, CallInv
<1>3. call[p].cur = util_state[l]
  BY <1>1, <1>2 DEF OwnBridges, OwnInv, ExclusiveInv, StoreOK
<1>4. CASE l \in ready[p]
  <2>1. HeldInv(p, l)
    BY <1>2, <1>4 DEF OwnInv, PlaceInv, BridgeInv
  <2>2. util_state[l] \in Before[pc[p]]
    BY <1>1, <1>2, <2>1 DEF HeldInv, StatesAt, Checking, UtilCommands
  <2> QED
    BY <1>1, <1>2, <1>3, <2>2, SwitchFacts
<1>5. CASE call[p].cmd = "init"
  BY <1>1, <1>5, SwitchFacts
<1> QED
  BY <1>4, <1>5

\* set_util_state's switches allow every store that pcitop asks for on
\* a bridge that it has hold of, and every init.
THEOREM StoresTheorem ==
  ASSUME OwnBridges
  PROVE  MeteredSpec => []NoStoreRejected
<1>1. OwnInv => NoStoreRejected
  BY StoresAllowed
<1> QED
  BY <1>1, OwnInvariant, PTL

\* measure_utilization leaves no counter running at its end, interrupted or
\* not, on any bridge it still had hold of.
THEOREM StoppedTheorem ==
  ASSUME OwnBridges
  PROVE  MeteredSpec => []CountersStoppedAtExit
<1>1. OwnInv => CountersStoppedAtExit
  BY DEF CountersStoppedAtExit, OwnInv, PlaceInv, BridgeInv, HeldInv
<1> QED
  BY <1>1, OwnInvariant, PTL

\* The results of write_attribute are ignored: after hplba_exit pcitop goes on
\* to ask, set_util_state refuses it until its end, and no register of its
\* bridges changes.
THEOREM RefusedTheorem ==
  ASSUME OwnBridges
  PROVE  MeteredSpec => RefusedForGood
<1>1. ASSUME OwnInv, [MeteredNext]_meteredVars
      PROVE  [\A p \in Client : pc[p] # "init" =>
                \A l \in Displayed(p) \ ready[p] : reg'[l] = reg[l]]_meteredVars
  <2> SUFFICES ASSUME MeteredNext, NEW p \in Client, pc[p] # "init",
                      NEW l \in Displayed(p) \ ready[p]
               PROVE  reg'[l] = reg[l]
    BY <1>1
  <2> USE <1>1 DEF OwnInv
  <2>1. l \in Lba
    BY DisplayFacts
  <2>2. ASSUME util_op(p)
        PROVE  reg'[l] = reg[l]
    <3>1. /\ call[p].pc = "regs"
          /\ \A k \in Lba \ {call[p].lba} : reg'[k] = reg[k]
      BY <2>2, OpFacts DEF SharedInv, DriverInv
    <3>2. call[p].cmd = pc[p]
      BY <3>1 DEF SharedInv, CallInv, InStore
    <3>3. call[p].lba \in ready[p]
      BY <3>1, <3>2 DEF PlaceInv, WritesHeld
    <3> QED
      BY <2>1, <3>1, <3>3
  <2>3. ASSUME set_util_state(p)
        PROVE  reg'[l] = reg[l]
    BY <2>3 DEF set_util_state, hw
  <2>4. CASE ActsOn(p)
    BY <2>2, <2>3, <2>4, CallKindsOf
  <2>5. ASSUME NEW q \in Client, q # p, ActsOn(q)
        PROVE  reg'[l] = reg[l]
    BY <2>5, OthersBridges
  <2>6. CASE MeteredReload
    BY <2>6 DEF MeteredReload, hplba_exit, hplba_init, hw
  <2>7. ASSUME NEW k \in Lba, NEW busy \in {0, 1}, MeteredCycle(k, busy)
        PROVE  reg'[l] = reg[l]
    BY <2>7 DEF MeteredCycle, BusCycle
  <2>8. CASE UNCHANGED meteredVars
    BY <2>8 DEF meteredVars, measureVars, hplbaVars, hw
  <2> QED
    BY <1>1, <2>4, <2>5, <2>6, <2>7, <2>8, NextCases
<1> QED
  BY <1>1, OwnInvariant, PTL DEF MeteredSpec, RefusedForGood

-----------------------------------------------------------------------------
(* What is printed: the inductive invariant.                               *)

\* What a counter shows after n counts.
Wrap(n) == n % CntrMod

\* The counters of l, the counts of l that p read last, and those of the line
\* before, are those of n busy cycles among m.
Counters(l, n, m) == cntr[l] = Wrap(n) /\ timer[l] = Wrap(m)
Read(p, l, n, m)  == /\ info[p][l].counter = Wrap(n)
                     /\ info[p][l].timer = Wrap(m)
Since(p, l, n, m) == /\ info[p][l].prev_counter = Wrap(n)
                     /\ info[p][l].prev_timer = Wrap(m)

\* What the counters say when windows with n busy cycles are open before
\* a window with k.
Shown(n, k) == Minus(Wrap(n + k), Wrap(n))

\* The process has read the timer of l and not yet its counter.
Reading(p, l) == call[p].pc = "cntr" /\ call[p].lba = l

\* The cycles before the last window.
BeforeC(p, l) == tot[p][l].c - win[p][l].c
BeforeT(p, l) == tot[p][l].t - win[p][l].t

\* The last window is a part of all windows, and these of all cycles.
Few(p, l) == /\ 0 <= BeforeC(p, l) /\ 0 <= BeforeT(p, l)
             /\ tot[p][l].c <= tot[p][l].t /\ tot[p][l].t <= ticks[l]

\* Before the first window.
NothingYet(p, l) ==
  pc[p] \in {"init", "reset"} =>
    /\ win[p][l].c = 0 /\ win[p][l].t = 0 /\ tot[p][l].c = 0 /\ tot[p][l].t = 0
    /\ Read(p, l, 0, 0) /\ Since(p, l, 0, 0)

\* The window that p goes through was opened.
Begun(p, l) == \/ pc[p] \in {"sleep", "stop", "collect", "print"}
               \/ pc[p] = "start" /\ win[p][l].open
Between(p, l) == \/ pc[p] \in {"loop", "final"}
                 \/ pc[p] = "start" /\ ~win[p][l].open

Cleared(p, l) == \/ pc[p] \notin {"init", "reset", "done"}
                 \/ pc[p] = "reset" /\ Passed(p, l) /\ ~Storing(p, l)
Collected(p, l) == \/ pc[p] = "print"
                   \/ pc[p] = "collect" /\ Passed(p, l) /\ ~Reading(p, l)

CountInv(p, l) ==
  LET n == tot[p][l].c
      m == tot[p][l].t
  IN /\ Cleared(p, l) => Counters(l, n, m)
     /\ Between(p, l) => Read(p, l, n, m) /\ Since(p, l, n, m)
     /\ Begun(p, l) => Since(p, l, BeforeC(p, l), BeforeT(p, l))
     /\ Reading(p, l) => call[p].timer = timer[l]
     /\ Collected(p, l) => Read(p, l, n, m)
     /\ pc[p] = "loop" /\ shown[p] # NothingShown =>
          /\ shown[p].util[l].c = Shown(BeforeC(p, l), win[p][l].c)
          /\ shown[p].util[l].t = Shown(BeforeT(p, l), win[p][l].t)
     /\ pc[p] = "done" =>
          /\ shown[p].util[l].c = Wrap(n)
          /\ shown[p].util[l].t = Wrap(m)

\* Lines of samples come after the first reset, and the averages at the end.
LinesInv(p) ==
  /\ pc[p] \in {"init", "reset"} => shown[p] = NothingShown
  /\ pc[p] = "done" <=> shown[p].kind = "average"

PrintsInv(p) ==
  /\ LinesInv(p)
  /\ \A l \in Displayed(p) : NothingYet(p, l) /\ Few(p, l)
  /\ \A l \in Displayed(p) \cap ready[p] \cap Populated : CountInv(p, l)

MeterInv == OwnInv /\ \A p \in Client : PrintsInv(p)

-----------------------------------------------------------------------------
(* Arithmetic.                                                             *)

\* Division, for divisors that are not known.
LEMMA Division ==
  ASSUME NEW M \in Nat \ {0}, NEW n \in Nat
  PROVE  \E q \in Nat, r \in 0 .. M - 1 : q = n \div M /\ r = n % M /\ n = M * q + r
<1>1. n \div M \in Nat /\ n % M \in 0 .. M - 1 /\ n = M * (n \div M) + (n % M)
  OBVIOUS
<1> QED
  BY <1>1, Zenon

LEMMA Quotient ==
  ASSUME NEW M \in Nat \ {0}, NEW q \in Int, NEW r \in 0 .. M - 1
  PROVE  (M * q + r) % M = r
  OBVIOUS

LEMMA Multiple ==
  ASSUME NEW M \in Nat \ {0}, NEW q \in Int, NEW n \in Int, n = M * q
  PROVE  n % M = 0
  OBVIOUS

LEMMA Distributes ==
  ASSUME NEW M \in Int, NEW a \in Int, NEW b \in Int
  PROVE  /\ M * a \in Int /\ M * b \in Int
         /\ M * (a + b) = M * a + M * b /\ M * (a - b) = M * a - M * b
  OBVIOUS

LEMMA Small ==
  ASSUME NEW M \in Nat \ {0}, NEW n \in 0 .. M - 1
  PROVE  n % M = n /\ (n - M) % M = n
  OBVIOUS

\* The difference of the counts of n + k and of n cycles.
LEMMA Difference ==
  ASSUME NEW n \in Nat, NEW k \in Nat
  PROVE  /\ (Shown(n, k) - k) % CntrMod = 0
         /\ (n + k) \div CntrMod = n \div CntrMod => Shown(n, k) = k
<1>0. PICK M \in Nat \ {0}, K \in Nat \ {0} : M = CntrMod /\ K = WordMod /\ K % M = 0
  BY HplbaAssumption, MeasureAssumption
<1>a. PICK s \in Int : s = (((n + k) % M) - (n % M)) % K
  OBVIOUS
<1>b. Shown(n, k) = s
  BY <1>0, <1>a DEF Shown, Wrap, Minus
<1> SUFFICES /\ (s - k) % M = 0
             /\ (n + k) \div M = n \div M => s = k
  BY <1>0, <1>b, Zenon
<1>1. PICK q \in Nat, r \in 0 .. M - 1 : q = n \div M /\ r = n % M /\ n = M * q + r
  BY Division
<1>2. n + k \in Nat
  OBVIOUS
<1>3. PICK q2 \in Nat, r2 \in 0 .. M - 1 :
         q2 = (n + k) \div M /\ r2 = (n + k) % M /\ n + k = M * q2 + r2
  BY <1>2, Division, Zenon
<1>4. PICK f \in Nat : K = M * f /\ K >= M
  <2>1. PICK g \in Nat, r0 \in 0 .. M - 1 : g = K \div M /\ r0 = K % M /\ K = M * g + r0
    <3>1. K \in Nat
      OBVIOUS
    <3> QED
      BY <3>1, Division, Zenon
  <2>2. K < M => K % M = K
    OBVIOUS
  <2>3. K = M * g
    <3> DEFINE x == M * g
    <3>1. x \in Int /\ r0 = 0 /\ K = x + r0
      BY <1>0, <2>1
    <3> HIDE DEF x
    <3>2. K = x
      BY <3>1
    <3> QED
      BY <3>2 DEF x
  <2> QED
    BY <2>2, <2>3
<1>5. s = (r2 - r) % K
  BY <1>a, <1>1, <1>3
<1> DEFINE x == M * q
           y == M * q2
           z == M * f
<1>6. /\ x \in Int /\ y \in Int /\ z \in Int /\ z = K
      /\ n = x + r /\ n + k = y + r2 /\ M * (q - q2) = x - y
      /\ M * ((q - q2) + f) = (x - y) + z
  <2>1. q - q2 \in Int
    OBVIOUS
  <2>2. x \in Int /\ y \in Int /\ z \in Int /\ M * (q - q2) = x - y
    BY Distributes
  <2>3. M * ((q - q2) + f) = (M * (q - q2)) + z
    <3>1. q - q2 \in Int /\ f \in Int /\ M \in Int
      OBVIOUS
    <3> QED
      BY <3>1, Distributes, Zenon
  <2>4. z = K /\ n = x + r /\ n + k = y + r2
    BY <1>1, <1>3, <1>4
  <2> QED
    BY <2>2, <2>3, <2>4
<1>7. q = q2 => x = y
  OBVIOUS
<1> HIDE DEF x, y, z
<1>8. CASE r2 >= r
  <2>1. r2 - r \in 0 .. K - 1
    BY <1>4, <1>8
  <2>2. s = r2 - r
    BY <1>5, <2>1, Small
  <2>3. q - q2 \in Int /\ s - k \in Int /\ s - k = M * (q - q2)
    BY <1>6, <2>2
  <2>4. (s - k) % M = 0
    BY <2>3, Multiple, Zenon
  <2>5. q = q2 => s = k
    BY <1>6, <1>7, <2>2
  <2> QED
    BY <1>1, <1>3, <2>4, <2>5
<1>9. CASE r2 < r
  <2> DEFINE u == (r2 - r) + K
  <2>1. u \in 0 .. K - 1 /\ r2 - r = u - K
    BY <1>4, <1>9
  <2> HIDE DEF u
  <2>2. s = u
    BY <1>5, <2>1, Small
  <2>3. (q - q2) + f \in Int /\ s - k \in Int /\ s - k = M * ((q - q2) + f)
    BY <1>6, <2>2 DEF u
  <2>4. (s - k) % M = 0
    BY <2>3, Multiple, Zenon
  <2>5. q # q2
    BY <1>6, <1>7, <1>9
  <2> QED
    BY <1>1, <1>3, <2>4, <2>5
<1> QED
  BY <1>8, <1>9

LEMMA WrapAdds ==
  ASSUME NEW M \in Nat \ {0}, NEW n \in Nat, NEW d \in Nat
  PROVE  ((n % M) + d) % M = (n + d) % M
<1>1. PICK q \in Nat, r \in 0 .. M - 1 : q = n \div M /\ r = n % M /\ n = M * q + r
  BY Division
<1>2. r + d \in Nat
  OBVIOUS
<1>3. PICK q2 \in Nat, r2 \in 0 .. M - 1 :
         q2 = (r + d) \div M /\ r2 = (r + d) % M /\ r + d = M * q2 + r2
  BY <1>2, Division, Zenon
<1> DEFINE x == M * q
           y == M * q2
           z == M * (q + q2)
<1>4. n = x + r /\ r + d = y + r2 /\ z = x + y /\ x \in Int /\ y \in Int
  <2>1. n = x + r /\ r + d = y + r2
    BY <1>1, <1>3
  <2>2. M \in Int /\ q \in Int /\ q2 \in Int
    OBVIOUS
  <2>3. z = x + y /\ x \in Int /\ y \in Int
    BY <2>2, Distributes, Zenon
  <2> QED
    BY <2>1, <2>3
<1> HIDE DEF x, y, z
<1>5. n + d = z + r2 /\ q + q2 \in Int
  BY <1>4
<1>6. (n + d) % M = r2
  BY <1>5, Quotient DEF z
<1> QED
  BY <1>1, <1>3, <1>6

LEMMA WrapFacts ==
  /\ Wrap(0) = 0
  /\ \A n \in Nat, d \in Nat : (Wrap(n) + d) % CntrMod = Wrap(n + d)
  /\ \A n \in Nat, k \in Nat :
       /\ (Shown(n, k) - k) % CntrMod = 0
       /\ (n + k) \div CntrMod = n \div CntrMod => Shown(n, k) = k
<1>1. /\ CntrMod \in Nat \ {0}
      /\ WordMod \in Nat \ {0} /\ WordMod % CntrMod = 0
  BY HplbaAssumption, MeasureAssumption
<1>2. 0 % CntrMod = 0
  BY <1>1
<1>3. \A n \in Nat, d \in Nat : ((n % CntrMod) + d) % CntrMod = (n + d) % CntrMod
  BY <1>1, WrapAdds, Zenon
<1> QED
  BY <1>2, <1>3, Difference, Zenon DEF Wrap

-----------------------------------------------------------------------------
(* What a step leaves alone.                                               *)

\* A bridge that p has hold of counts only from start to stop.
LEMMA OpenPlaces ==
  ASSUME OwnBridges, OwnInv, NEW p \in Client, NEW l \in Displayed(p)
  PROVE  /\ win[p][l].open => l \in ready[p] /\ pc[p] \in {"start", "sleep", "stop"}
         /\ l \in ready[p] => (win[p][l].open <=> Counting(l))
         /\ l \in ready[p] /\ pc[p] # "done" => util_state[l] # "unknown" /\ loaded
<1> USE DEF OwnInv, SharedInv
<1>1. BridgeInv(p, l)
  BY DEF PlaceInv
<1>2. l \notin ready[p] => ~win[p][l].open
  BY <1>1 DEF BridgeInv, LostInv
<1>3. ASSUME l \in ready[p]
      PROVE  /\ win[p][l].open => pc[p] \in {"start", "sleep", "stop"}
             /\ win[p][l].open <=> Counting(l)
             /\ pc[p] # "done" => util_state[l] # "unknown" /\ loaded
  <2>1. HeldInv(p, l)
    BY <1>1, <1>3 DEF BridgeInv
  <2>2. pc[p] \in PCs
    BY DEF Types, MeasureTypeOK
  <2>3. pc[p] # "done" => util_state[l] \in StatesAt(p, l)
    BY <2>1 DEF HeldInv
  <2>4. pc[p] # "done" => util_state[l] # "unknown"
    BY <2>2, <2>3 DEF StatesAt, Before, PCs, UtilCommands
  <2>5. ASSUME pc[p] \in {"loop", "collect", "print", "final"}
        PROVE  ~Counting(l)
    <3>1. util_state[l] \in {"reset", "stop"}
      BY <2>3, <2>5 DEF StatesAt, Before, UtilCommands
    <3>2. call[p].pc # "regs"
      BY <2>5, CallRange DEF CallInv, InStore, UtilCommands
    <3> QED
      BY <3>1, <3>2, QuietBridge
  <2> QED
    BY <2>1, <2>2, <2>4, <2>5 DEF HeldInv, PCs, UtilCommands
<1> QED
  BY <1>2, <1>3

LEMMA HistoryFrame ==
  ASSUME Types, Types', NEW p \in Client, NEW l \in Displayed(p),
         pc'[p] = pc[p], info'[p][l] = info[p][l], win'[p][l] = win[p][l],
         tot'[p][l] = tot[p][l], ticks[l] <= ticks'[l]
  PROVE  /\ NothingYet(p, l) => NothingYet(p, l)'
         /\ Few(p, l) => Few(p, l)'
<1>1. NothingYet(p, l) => NothingYet(p, l)'
  BY DEF NothingYet, Read, Since
<1>2. l \in Lba
  BY DisplayFacts
<1>3. /\ tot[p][l].t \in Nat /\ ticks[l] \in Nat /\ ticks'[l] \in Nat
  BY <1>2, HistoryTyped DEF Types, MeteredTypeOK
<1>4. Few(p, l) => Few(p, l)'
  BY <1>3 DEF Few, BeforeC, BeforeT
<1> QED
  BY <1>1, <1>4

LEMMA CountFrame ==
  ASSUME NEW p \in Client, NEW l \in Displayed(p), CountInv(p, l),
         pc'[p] = pc[p], shown'[p] = shown[p], info'[p][l] = info[p][l],
         win'[p][l].c = win[p][l].c, win'[p][l].t = win[p][l].t,
         tot'[p][l] = tot[p][l], cntr'[l] = cntr[l], timer'[l] = timer[l],
         Cleared(p, l)' => Cleared(p, l), Between(p, l)' => Between(p, l),
         Begun(p, l)' => Begun(p, l), Collected(p, l)' => Collected(p, l),
         Reading(p, l)' => call'[p].timer = timer[l]
  PROVE  CountInv(p, l)'
  BY DEF CountInv, Counters, Read, Since, BeforeC, BeforeT

\* What is said of a bridge depends on what p keeps about it, and on its
\* counters.
LEMMA BridgeFrame ==
  ASSUME Types, Types', NEW p \in Client, NEW l \in Displayed(p),
         pc'[p] = pc[p], at'[p] = at[p], call'[p] = call[p], shown'[p] = shown[p],
         info'[p][l] = info[p][l], win'[p][l] = win[p][l], tot'[p][l] = tot[p][l],
         ticks[l] <= ticks'[l]
  PROVE  /\ NothingYet(p, l) => NothingYet(p, l)'
         /\ Few(p, l) => Few(p, l)'
         /\ CountInv(p, l) /\ cntr'[l] = cntr[l] /\ timer'[l] = timer[l] => CountInv(p, l)'
<1>1. Passed(p, l)' <=> Passed(p, l)
  BY PassedFacts
<1>2. /\ Cleared(p, l)' <=> Cleared(p, l)
      /\ Begun(p, l)' <=> Begun(p, l)
      /\ Between(p, l)' <=> Between(p, l)
      /\ Collected(p, l)' <=> Collected(p, l)
      /\ Reading(p, l)' <=> Reading(p, l)
  BY <1>1 DEF Cleared, Begun, Between, Collected, Reading, Storing, InStore
<1>3. CountInv(p, l) /\ cntr'[l] = cntr[l] /\ timer'[l] = timer[l] => CountInv(p, l)'
  <2>1. CountInv(p, l) /\ Reading(p, l) => call[p].timer = timer[l]
    BY DEF CountInv
  <2> QED
    BY <1>2, <2>1, CountFrame
<1> QED
  BY <1>3, HistoryFrame

LEMMA PrintsFrame ==
  ASSUME Types, Types', NEW p \in Client, PrintsInv(p),
         pc'[p] = pc[p], at'[p] = at[p], call'[p] = call[p], shown'[p] = shown[p],
         ready'[p] = ready[p], info'[p] = info[p], win'[p] = win[p], tot'[p] = tot[p],
         UNCHANGED ticks,
         \A l \in Displayed(p) : cntr'[l] = cntr[l] /\ timer'[l] = timer[l]
  PROVE  PrintsInv(p)'
<1>1. LinesInv(p)'
  BY DEF PrintsInv, LinesInv
<1>2. ASSUME NEW l \in Displayed(p)
      PROVE  /\ NothingYet(p, l)' /\ Few(p, l)'
             /\ l \in ready[p] \cap Populated => CountInv(p, l)'
  <2>1. ticks[l] <= ticks'[l]
    BY DisplayFacts DEF Types, MeteredTypeOK
  <2>2. /\ NothingYet(p, l) /\ Few(p, l)
        /\ l \in ready[p] \cap Populated => CountInv(p, l)
    BY DEF PrintsInv
  <2> QED
    BY <2>1, <2>2, BridgeFrame
<1> QED
  BY <1>1, <1>2 DEF PrintsInv

LEMMA OthersKeepPrints ==
  ASSUME OwnBridges, MeterInv, Types', NEW q \in Client, ActsOn(q),
         NEW p \in Client, q # p
  PROVE  PrintsInv(p)'
<1> USE DEF MeterInv, OwnInv, SharedInv
<1>1. Same(p)
  BY OthersStay
<1>2. \A l \in Displayed(p) : cntr'[l] = cntr[l] /\ timer'[l] = timer[l]
  BY OthersBridges
<1>3. UNCHANGED ticks
  BY DEF ActsOn, MeteredStep, MeteredRerun
<1> QED
  BY <1>1, <1>2, <1>3, PrintsFrame DEF Same

LEMMA ReloadKeepsPrints ==
  ASSUME OwnBridges, MeterInv, Types', MeteredReload, NEW p \in Client
  PROVE  PrintsInv(p)'
<1> USE DEF MeterInv, OwnInv, SharedInv
<1>1. /\ UNCHANGED <<pc, at, call, shown, info, ticks, cntr, timer>>
  BY DEF MeteredReload, hplba_exit, hplba_init, procVars, results, hw
<1>2. CASE ready'[p] = ready[p] /\ win'[p] = win[p] /\ tot'[p] = tot[p]
  BY <1>1, <1>2, PrintsFrame
<1>3. CASE /\ ready'[p] = {}
           /\ \A l \in Lba : win'[p][l] = Closed /\ tot'[p][l] = NoCycles
  <2>1. LinesInv(p)'
    BY <1>1 DEF PrintsInv, LinesInv
  <2>2. ASSUME NEW l \in Displayed(p)
        PROVE  NothingYet(p, l)' /\ Few(p, l)'
    <3>1. l \in Lba /\ win'[p][l] = Closed /\ tot'[p][l] = NoCycles
      BY <1>3, DisplayFacts
    <3>2. ticks'[l] \in Nat
      BY <3>1 DEF Types, MeteredTypeOK
    <3>3. NothingYet(p, l)
      BY DEF PrintsInv
    <3> QED
      BY <1>1, <3>1, <3>2, <3>3
         DEF NothingYet, Few, Read, Since, BeforeC, BeforeT, Closed, NoCycles
  <2> QED
    BY <1>3, <2>1, <2>2 DEF PrintsInv
<1>4. CASE hplba_exit
  <2>1. /\ win' = [q \in Client |->
             IF pc[q] = "done" THEN win[q] ELSE [l \in Lba |-> Closed]]
        /\ tot' = [q \in Client |->
             IF pc[q] = "done" THEN tot[q] ELSE [l \in Lba |-> NoCycles]]
        /\ ready' = [q \in Client |-> IF pc[q] = "done" THEN ready[q] ELSE {}]
    BY <1>4, Zenon DEF MeteredReload, hplba_exit, hplba_init
  <2>2. CASE pc[p] = "done"
    BY <1>2, <2>1, <2>2, Zenon
  <2>3. CASE pc[p] # "done"
    BY <1>3, <2>1, <2>3, Zenon
  <2> QED
    BY <2>2, <2>3
<1>5. CASE UNCHANGED cycles
  BY <1>2, <1>5 DEF cycles
<1> QED
  BY <1>4, <1>5 DEF MeteredReload

\* What one cycle does to programmed counters.
LEMMA CycleCounts ==
  ASSUME Types, NEW l \in Lba, NEW busy \in {0, 1}, BusCycle(l, busy)
  PROVE  /\ \A k \in Lba \ {l} : cntr'[k] = cntr[k] /\ timer'[k] = timer[k]
         /\ ~Counting(l) => cntr'[l] = cntr[l] /\ timer'[l] = timer[l]
         /\ Counting(l) /\ Programmed(l) /\ l \in Populated =>
              /\ cntr'[l] = (cntr[l] + busy) % CntrMod
              /\ timer'[l] = (timer[l] + 1) % CntrMod
<1>0. cntr \in [Lba -> Counts] /\ timer \in [Lba -> Counts]
  BY DEF Types, TypeOK, Counts
<1>1. CASE ~Counting(l)
  BY <1>1 DEF BusCycle
<1>2. CASE Counting(l)
  <2>1. PICK dt \in {0, 1}, dc \in {0, 1} :
          /\ reg[l].CTRL0A_ALWAYS_CNT = "0x1" => dt = 1
          /\ reg[l].DIAG_CTRL1 = BusyEvent(chip[l]) =>
               dc = IF l \in Populated THEN busy ELSE 1
          /\ timer' = [timer EXCEPT ![l] = (@ + dt) % CntrMod]
          /\ cntr' = [cntr EXCEPT ![l] = (@ + dc) % CntrMod]
    BY <1>2, Zenon DEF BusCycle
  <2>2. /\ \A k \in Lba \ {l} : cntr'[k] = cntr[k] /\ timer'[k] = timer[k]
        /\ timer'[l] = (timer[l] + dt) % CntrMod
        /\ cntr'[l] = (cntr[l] + dc) % CntrMod
    BY <1>0, <2>1
  <2>3. Programmed(l) /\ l \in Populated => dt = 1 /\ dc = busy
    BY <2>1 DEF Programmed
  <2> QED
    BY <1>2, <2>2, <2>3
<1> QED
  BY <1>1, <1>2

\* The counters of a bridge that p has hold of and that is past init count
\* what they should.
LEMMA CountsBusy ==
  ASSUME OwnBridges, OwnInv, NEW p \in Client, NEW l \in Displayed(p) \cap ready[p],
         pc[p] \notin {"init", "done"}
  PROVE  Programmed(l)
<1> USE DEF OwnInv, SharedInv
<1>1. util_state[l] # "unknown" /\ l \in Lba
  BY OpenPlaces, DisplayFacts
<1>2. Programmed(l) \/ InitRunning(l)
  BY <1>1 DEF DriverInv, ProgrammedOrInit
<1>3. ASSUME NEW c \in Client, call[c].pc = "regs", call[c].lba = l, call[c].cmd = "init"
      PROVE  FALSE
  <2>1. l \in Displayed(c) /\ pc[c] = "init"
    BY <1>3, CallRange, PassedFacts DEF CallInv, InStore
  <2>2. l \in Opens[c] /\ l \in Opens[p]
    BY <2>1, DisplayFacts
  <2>3. c = p
    BY <1>1, <2>2 DEF OwnBridges, Exclusive
  <2> QED
    BY <2>1, <2>3
<1> QED
  BY <1>2, <1>3 DEF InitRunning

LEMMA CycleKeepsPrints ==
  ASSUME OwnBridges, MeterInv, Types', NEW p \in Client,
         NEW k \in Lba, NEW busy \in {0, 1}, MeteredCycle(k, busy)
  PROVE  PrintsInv(p)'
<1> USE DEF MeterInv, OwnInv, SharedInv
<1>1. /\ UNCHANGED <<pc, at, call, shown, info, ready>>
      /\ BusCycle(k, busy)
  BY DEF MeteredCycle, BusCycle, procVars, results
<1>2. LinesInv(p)'
  BY <1>1 DEF PrintsInv, LinesInv
<1>3. ASSUME NEW l \in Displayed(p)
      PROVE  /\ NothingYet(p, l)' /\ Few(p, l)'
             /\ l \in ready[p] \cap Populated => CountInv(p, l)'
  <2>0. l \in Lba
    BY DisplayFacts
  <2>1. /\ NothingYet(p, l) /\ Few(p, l)
        /\ l \in ready[p] \cap Populated => CountInv(p, l)
    BY DEF PrintsInv
  <2>2. /\ ticks[l] \in Nat /\ ticks'[l] = IF l = k THEN ticks[l] + 1 ELSE ticks[l]
    BY <2>0, CycleFacts DEF Types, MeteredTypeOK
  <2>3. CASE l # k \/ ~win[p][l].open
    <3>1. win'[p][l] = win[p][l] /\ tot'[p][l] = tot[p][l]
      BY <2>0, <2>3, CycleFacts
    <3>2. l \in ready[p] => cntr'[l] = cntr[l] /\ timer'[l] = timer[l]
      BY <1>1, <2>0, <2>3, CycleCounts, OpenPlaces
    <3> QED
      BY <1>1, <2>1, <2>2, <3>1, <3>2, BridgeFrame
  <2>4. CASE l = k /\ win[p][l].open
    <3>1. /\ l \in ready[p] /\ pc[p] \in {"start", "sleep", "stop"} /\ Counting(l)
      BY <2>4, OpenPlaces
    <3>2. /\ win'[p][l].open
          /\ win'[p][l].c = win[p][l].c + busy /\ win'[p][l].t = win[p][l].t + 1
          /\ tot'[p][l].c = tot[p][l].c + busy /\ tot'[p][l].t = tot[p][l].t + 1
      BY <2>4, CycleFacts
    <3>3. /\ win[p][l].c \in Nat /\ win[p][l].t \in Nat
          /\ tot[p][l].c \in Nat /\ tot[p][l].t \in Nat
      BY <2>0, HistoryTyped
    <3>4. NothingYet(p, l)'
      BY <1>1, <3>1 DEF NothingYet
    <3>5. /\ BeforeC(p, l)' = BeforeC(p, l) /\ BeforeT(p, l)' = BeforeT(p, l)
      BY <3>2, <3>3 DEF BeforeC, BeforeT
    <3>6. Few(p, l)'
      BY <2>1, <2>2, <2>4, <3>2, <3>3, <3>5 DEF Few
    <3>7. ASSUME l \in Populated
          PROVE  CountInv(p, l)'
      <4>0. CountInv(p, l)
        BY <2>1, <3>1, <3>7
      <4>1. Counters(l, tot[p][l].c, tot[p][l].t)
        BY <3>1, <4>0 DEF CountInv, Cleared
      <4>2. Programmed(l)
        BY <3>1, CountsBusy
      <4>3. /\ cntr'[l] = (cntr[l] + busy) % CntrMod
            /\ timer'[l] = (timer[l] + 1) % CntrMod
        BY <1>1, <2>0, <2>4, <3>1, <3>7, <4>2, CycleCounts
      <4>4. /\ cntr'[l] = Wrap(tot[p][l].c + busy)
            /\ timer'[l] = Wrap(tot[p][l].t + 1)
        <5>1. busy \in Nat /\ 1 \in Nat
          OBVIOUS
        <5>2. (Wrap(tot[p][l].c) + busy) % CntrMod = Wrap(tot[p][l].c + busy)
          BY <3>3, <5>1, WrapFacts, Zenon
        <5>3. (Wrap(tot[p][l].t) + 1) % CntrMod = Wrap(tot[p][l].t + 1)
          BY <3>3, <5>1, WrapFacts, Zenon
        <5> QED
          BY <4>1, <4>3, <5>2, <5>3, Zenon DEF Counters
      <4>5. call[p].pc # "cntr"
        BY <3>1 DEF CallInv
      <4>6. Since(p, l, BeforeC(p, l), BeforeT(p, l))
        BY <3>1, <2>4, <4>0 DEF CountInv, Begun
      <4>7. Since(p, l, BeforeC(p, l), BeforeT(p, l))'
        BY <1>1, <3>5, <4>6 DEF Since
      <4>8. Counters(l, tot[p][l].c, tot[p][l].t)'
        BY <3>2, <4>4 DEF Counters
      <4>9. /\ pc'[p] \in {"start", "sleep", "stop"} /\ ~Between(p, l)'
            /\ ~Collected(p, l)' /\ ~Reading(p, l)'
        BY <1>1, <3>1, <3>2, <4>5 DEF Between, Collected, Reading
      <4> QED
        BY <4>7, <4>8, <4>9 DEF CountInv
    <3> QED
      BY <3>1, <3>4, <3>6, <3>7
  <2> QED
    BY <2>3, <2>4
<1> QED
  BY <1>1, <1>2, <1>3 DEF PrintsInv

-----------------------------------------------------------------------------
(* The calls of process p keep what is said of its lines.                  *)

\* The attribute of a bridge is opened, and written or read.
LEMMA AskKeepsPrints ==
  ASSUME OwnBridges, MeterInv, Types', NEW p \in Client, UNCHANGED <<cycles, ticks>>,
         (\E cmd \in UtilCommands : write_lba_attribute(p, cmd)) \/ read_lba_attribute(p)
  PROVE  PrintsInv(p)'
<1> USE DEF MeterInv, OwnInv, SharedInv
<1>1. /\ UNCHANGED <<pc, info, shown>> /\ UNCHANGED <<win, tot, ready, ticks>>
      /\ Next_lba(p) /\ ~AtEnd(p) /\ call[p] = Idle
      /\ pc[p] \in UtilCommands \cup {"collect"}
  BY DEF write_lba_attribute, read_lba_attribute, results, cycles, In
<1>2. PICK k : k = Bridge(p) /\ k \in Displayed(p) /\ k \in Lba
  BY <1>1, AtBridge DEF Types
<1>3. \A l \in Displayed(p) : Passed(p, l)' <=> Passed(p, l) \/ l = k
  BY <1>1, <1>2, PassedFacts
<1>4. /\ UNCHANGED <<timer, cntr>>
      /\ \/ ~loaded
         \/ pc[p] \in UtilCommands /\ call'[p].pc = "check" /\ call'[p].lba = k
         \/ /\ pc[p] = "collect" /\ call'[p].pc = "cntr" /\ call'[p].lba = k
            /\ call'[p].timer = timer[k]
  <2>1. CASE UNCHANGED hplbaVars /\ ~loaded
    BY <2>1 DEF hplbaVars, hw
  <2>2. ASSUME NEW cmd \in UtilCommands, pc[p] = cmd, utilization_store(p, k, cmd)
        PROVE  /\ UNCHANGED <<timer, cntr>>
               /\ pc[p] \in UtilCommands /\ call'[p].pc = "check" /\ call'[p].lba = k
    BY <1>2, <2>2, AskFacts
  <2>3. ASSUME pc[p] = "collect", utilization_show(p, k)
        PROVE  /\ UNCHANGED <<timer, cntr>>
               /\ call'[p].pc = "cntr" /\ call'[p].lba = k /\ call'[p].timer = timer[k]
    BY <2>3 DEF utilization_show, hw, Types, TypeOK
  <2> QED
    BY <1>2, <2>1, <2>2, <2>3
       DEF write_lba_attribute, read_lba_attribute, write_attribute, read_attribute, In
<1>5. LinesInv(p)'
  BY <1>1 DEF PrintsInv, LinesInv
<1>6. ASSUME NEW l \in Displayed(p)
      PROVE  /\ NothingYet(p, l)' /\ Few(p, l)'
             /\ l \in ready[p] \cap Populated => CountInv(p, l)'
  <2>0. /\ NothingYet(p, l) /\ Few(p, l)
        /\ l \in ready[p] \cap Populated => CountInv(p, l)
    BY DEF PrintsInv
  <2>1. ticks[l] <= ticks'[l]
    BY <1>1, DisplayFacts DEF Types, MeteredTypeOK
  <2>2. ASSUME l \in ready[p] \cap Populated
        PROVE  CountInv(p, l)'
    <3>1. loaded
      BY <1>1, <2>2, OpenPlaces DEF UtilCommands
    <3>2. /\ Cleared(p, l)' => Cleared(p, l)
          /\ Collected(p, l)' => Collected(p, l)
          /\ Reading(p, l)' => call'[p].timer = timer[l]
      BY <1>1, <1>3, <1>4, <3>1
         DEF Cleared, Collected, Reading, Storing, InStore, Idle, UtilCommands
    <3>3. /\ Between(p, l)' => Between(p, l)
          /\ Begun(p, l)' => Begun(p, l)
      BY <1>1 DEF Between, Begun
    <3> QED
      BY <1>1, <1>4, <2>0, <2>2, <3>2, <3>3, CountFrame
  <2> QED
    BY <1>1, <2>0, <2>1, <2>2, HistoryFrame
<1> QED
  BY <1>1, <1>5, <1>6 DEF PrintsInv

\* hplba_collect stores the count that the driver answers.
LEMMA CollectKeepsPrints ==
  ASSUME OwnBridges, MeterInv, Types', NEW p \in Client, UNCHANGED <<cycles, ticks>>,
         hplba_collect(p)
  PROVE  PrintsInv(p)'
<1> USE DEF MeterInv, OwnInv, SharedInv
<1>1. /\ UNCHANGED <<pc, at, shown, timer, cntr>> /\ UNCHANGED <<win, tot, ready, ticks>>
      /\ call[p].pc = "cntr" /\ call'[p] = Idle /\ pc[p] = "collect"
  BY DEF hplba_collect, utilization_show_cntr, hw, cycles, Types, TypeOK, CallInv
<1>2. PICK k : k = call[p].lba
  OBVIOUS
<1>3. /\ k \in Lba
      /\ \A l \in Lba : l # k => info'[p][l] = info[p][l]
      /\ info'[p][k].timer = call[p].timer /\ info'[p][k].counter = cntr[k]
      /\ info'[p][k].prev_timer = info[p][k].prev_timer
      /\ info'[p][k].prev_counter = info[p][k].prev_counter
  BY <1>2, CollectStores
<1>4. LinesInv(p)'
  BY <1>1 DEF PrintsInv, LinesInv
<1>5. ASSUME NEW l \in Displayed(p)
      PROVE  /\ NothingYet(p, l)' /\ Few(p, l)'
             /\ l \in ready[p] \cap Populated => CountInv(p, l)'
  <2>0. /\ NothingYet(p, l) /\ Few(p, l) /\ l \in Lba
        /\ l \in ready[p] \cap Populated => CountInv(p, l)
    BY DisplayFacts DEF PrintsInv
  <2>1. NothingYet(p, l)' /\ Few(p, l)'
    BY <1>1, <2>0 DEF NothingYet, Few, BeforeC, BeforeT
  <2>2. ASSUME l \in ready[p] \cap Populated
        PROVE  CountInv(p, l)'
    <3>1. CountInv(p, l) /\ (Passed(p, l)' <=> Passed(p, l))
      BY <1>1, <2>0, <2>2, PassedFacts
    <3>2. /\ ~Reading(p, l)' /\ ~Between(p, l)' /\ Cleared(p, l) /\ Begun(p, l)
      BY <1>1 DEF Reading, Between, Cleared, Begun, Idle
    <3>3. CASE l # k
      <4>1. Collected(p, l)' => Collected(p, l)
        BY <1>1, <1>2, <3>1, <3>3 DEF Collected, Reading
      <4> QED
        BY <1>1, <1>3, <2>0, <3>1, <3>2, <3>3, <4>1, CountFrame
    <3>4. CASE l = k
      <4>1. Reading(p, l)
        BY <1>1, <1>2, <3>4 DEF Reading
      <4>2. /\ Counters(l, tot[p][l].c, tot[p][l].t) /\ call[p].timer = timer[l]
            /\ Since(p, l, BeforeC(p, l), BeforeT(p, l))
        BY <3>1, <3>2, <4>1 DEF CountInv
      <4>3. Read(p, l, tot[p][l].c, tot[p][l].t)'
        BY <1>1, <1>3, <3>4, <4>2 DEF Read, Counters
      <4>4. Counters(l, tot[p][l].c, tot[p][l].t)'
        BY <1>1, <4>2 DEF Counters
      <4>5. Since(p, l, BeforeC(p, l), BeforeT(p, l))'
        BY <1>1, <1>3, <3>4, <4>2 DEF Since, BeforeC, BeforeT
      <4> QED
        BY <1>1, <3>2, <4>3, <4>4, <4>5 DEF CountInv
    <3> QED
      BY <3>3, <3>4
  <2> QED
    BY <2>1, <2>2
<1> QED
  BY <1>1, <1>4, <1>5 DEF PrintsInv

\* No store is refused on a bridge that p has hold of, so that the reset of
\* every such bridge takes place.
LEMMA SetKeepsPrints ==
  ASSUME OwnBridges, MeterInv, Types', NEW p \in Client, UNCHANGED <<cycles, ticks>>,
         UNCHANGED procVars, set_util_state(p)
  PROVE  PrintsInv(p)'
<1> USE DEF MeterInv, OwnInv, SharedInv
<1>1. UNCHANGED <<pc, at, info, shown, timer, cntr>> /\ UNCHANGED <<win, tot, ready, ticks>>
  BY SetFacts DEF procVars, results, cycles
<1>2. PICK k : k = call[p].lba
  OBVIOUS
<1>3. /\ call[p].pc = "check"
      /\ \/ k \notin ready[p]
         \/ call'[p].pc = "regs" /\ call'[p].lba = k
      /\ call'[p].pc \in {"idle", "regs"}
  BY <1>2, SetFacts, StoresAllowed DEF NoStoreRejected, Idle
<1>4. LinesInv(p)'
  BY <1>1 DEF PrintsInv, LinesInv
<1>5. ASSUME NEW l \in Displayed(p)
      PROVE  /\ NothingYet(p, l)' /\ Few(p, l)'
             /\ l \in ready[p] \cap Populated => CountInv(p, l)'
  <2>0. /\ NothingYet(p, l) /\ Few(p, l)
        /\ l \in ready[p] \cap Populated => CountInv(p, l)
    BY DEF PrintsInv
  <2>1. ticks[l] <= ticks'[l]
    BY <1>1, DisplayFacts DEF Types, MeteredTypeOK
  <2>2. ASSUME l \in ready[p] \cap Populated
        PROVE  CountInv(p, l)'
    <3>1. Passed(p, l)' <=> Passed(p, l)
      BY <1>1, PassedFacts
    <3>2. /\ Cleared(p, l)' => Cleared(p, l)
          /\ Collected(p, l)' => Collected(p, l)
          /\ ~Reading(p, l)'
      BY <1>1, <1>2, <1>3, <2>2, <3>1 DEF Cleared, Collected, Reading, Storing, InStore
    <3>3. /\ Between(p, l)' => Between(p, l)
          /\ Begun(p, l)' => Begun(p, l)
      BY <1>1 DEF Between, Begun
    <3> QED
      BY <1>1, <2>0, <2>2, <3>2, <3>3, CountFrame
  <2> QED
    BY <1>1, <2>0, <2>1, <2>2, HistoryFrame
<1> QED
  BY <1>1, <1>4, <1>5 DEF PrintsInv

\* One register write.  A reset clears the counters when it clears the history;
\* a start opens a window, a stop closes it.
LEMMA OpKeepsPrints ==
  ASSUME OwnBridges, MeterInv, Types', NEW p \in Client, UNCHANGED ticks,
         UNCHANGED procVars, Observe(p), util_op(p)
  PROVE  PrintsInv(p)'
<1> USE DEF MeterInv, OwnInv, SharedInv
<1>1. UNCHANGED <<pc, at, info, shown>>
  BY DEF procVars, results
<1>2. PICK k : k = call[p].lba
  OBVIOUS
<1>3. /\ call[p].pc = "regs" /\ k \in Lba /\ call'[p].pc \in {"idle", "regs"}
      /\ \A l \in Lba \ {k} : timer'[l] = timer[l] /\ cntr'[l] = cntr[l]
      /\ IF call[p].cmd = "reset" THEN timer'[k] = 0 /\ cntr'[k] = 0
                                  ELSE UNCHANGED <<timer, cntr>>
      /\ call[p].cmd # "init" => call'[p] = Idle
  BY <1>2, OpFacts DEF DriverInv, Idle
<1>4. /\ call[p].cmd = pc[p] /\ pc[p] \in UtilCommands
      /\ k \in Displayed(p) /\ Passed(p, k)
  BY <1>2, <1>3, CallRange, PassedFacts DEF CallInv, InStore
<1>5. Types /\ Observe(p) /\ call[p].pc = "regs" /\ k = call[p].lba
  BY <1>2, <1>3
<1>6. \A l \in Lba \ {k} : win'[p][l] = win[p][l] /\ tot'[p][l] = tot[p][l]
  BY <1>5, ObserveFacts, ZenonT(60)
<1>7. /\ call[p].cmd = "reset" => tot'[p][k] = NoCycles
      /\ call[p].cmd # "reset" => tot'[p][k] = tot[p][k]
  BY <1>5, ResetFacts
<1>8. call[p].cmd \notin {"start", "stop"} => win'[p][k] = win[p][k]
  BY <1>5, ObserveFacts, ZenonT(60)
<1>9. call[p].cmd = "start" => win'[p][k].open
  BY <1>5, ObserveFacts, ZenonT(60)
<1>10. call[p].cmd = "start" => win'[p][k].c = 0
  BY <1>5, ObserveFacts, ZenonT(60)
<1>11. call[p].cmd = "start" => win'[p][k].t = 0
  BY <1>5, ObserveFacts, ZenonT(60)
<1>12. call[p].cmd = "stop" => win'[p][k].c = win[p][k].c
  BY <1>5, StopFacts
<1>13. call[p].cmd = "stop" => win'[p][k].t = win[p][k].t
  BY <1>5, StopFacts
<1>14. call[p].cmd # "init" => ready'[p] = ready[p]
  BY <1>5, ObserveFacts, ZenonT(60)
<1>15. LinesInv(p)'
  BY <1>1 DEF PrintsInv, LinesInv
<1>16. ASSUME NEW l \in Displayed(p)
       PROVE  /\ NothingYet(p, l)' /\ Few(p, l)'
              /\ l \in (ready[p])' \cap Populated => CountInv(p, l)'
  <2>0. /\ NothingYet(p, l) /\ Few(p, l) /\ l \in Lba
        /\ l \in ready[p] \cap Populated => CountInv(p, l)
    BY DisplayFacts DEF PrintsInv
  <2>1. /\ tot[p][l].c \in Nat /\ tot[p][l].t \in Nat
        /\ ticks[l] \in Nat /\ ticks'[l] = ticks[l]
    BY <2>0, HistoryTyped DEF Types, MeteredTypeOK
  <2>2. Passed(p, l)' <=> Passed(p, l)
    BY <1>1, PassedFacts
  <2>3. ~Reading(p, l)'
    BY <1>3 DEF Reading
  <2>4. CASE l # k
    <3>1. /\ win'[p][l] = win[p][l] /\ tot'[p][l] = tot[p][l]
          /\ timer'[l] = timer[l] /\ cntr'[l] = cntr[l]
      BY <1>3, <1>6, <2>0, <2>4
    <3>2. NothingYet(p, l)' /\ Few(p, l)'
      BY <1>1, <2>0, <2>1, <3>1, HistoryFrame
    <3>3. CASE pc[p] = "init"
      BY <1>1, <2>3, <3>2, <3>3
         DEF CountInv, Cleared, Between, Begun, Collected
    <3>4. CASE pc[p] # "init"
      <4>1. /\ Cleared(p, l)' => Cleared(p, l)
            /\ Collected(p, l)' => Collected(p, l)
            /\ Between(p, l)' => Between(p, l)
            /\ Begun(p, l)' => Begun(p, l)
        BY <1>1, <1>2, <1>4, <2>2, <2>4, <3>1
           DEF Cleared, Collected, Between, Begun, Storing, UtilCommands
      <4> QED
        BY <1>1, <1>4, <1>14, <2>0, <2>3, <3>1, <3>2, <3>4, <4>1, CountFrame
    <3> QED
      BY <3>3, <3>4
  <2>5. CASE l = k /\ pc[p] = "init"
    <3>1. win'[p][l] = win[p][l] /\ tot'[p][l] = tot[p][l]
      BY <1>4, <1>7, <1>8, <2>5
    <3>2. NothingYet(p, l)' /\ Few(p, l)'
      BY <1>1, <2>0, <2>1, <3>1, HistoryFrame
    <3> QED
      BY <1>1, <2>3, <2>5, <3>2
         DEF CountInv, Cleared, Between, Begun, Collected
  <2>6. CASE l = k /\ pc[p] = "reset"
    <3>1. /\ win'[p][l] = win[p][l] /\ tot'[p][l] = NoCycles
          /\ timer'[l] = 0 /\ cntr'[l] = 0
      BY <1>3, <1>4, <1>7, <1>8, <2>6
    <3>2. NothingYet(p, l)' /\ Few(p, l)'
      BY <1>1, <2>0, <2>1, <2>6, <3>1
         DEF NothingYet, Few, Read, Since, BeforeC, BeforeT, NoCycles
    <3>3. Counters(l, tot[p][l].c, tot[p][l].t)'
      BY <3>1, WrapFacts DEF Counters, NoCycles
    <3> QED
      BY <1>1, <2>3, <2>6, <3>2, <3>3 DEF CountInv, Between, Begun, Collected
  <2>7. CASE l = k /\ pc[p] = "start"
    <3>1. /\ win'[p][l].open /\ win'[p][l].c = 0 /\ win'[p][l].t = 0
          /\ tot'[p][l] = tot[p][l] /\ timer'[l] = timer[l] /\ cntr'[l] = cntr[l]
      BY <1>3, <1>4, <1>7, <1>9, <1>10, <1>11, <2>7
    <3>2. NothingYet(p, l)' /\ Few(p, l)'
      BY <1>1, <2>0, <2>1, <2>7, <3>1 DEF NothingYet, Few, BeforeC, BeforeT
    <3>3. ASSUME l \in ready[p] \cap Populated
          PROVE  CountInv(p, l)'
      <4>1. ~win[p][l].open
        BY <1>2, <1>3, <2>7, <3>3 DEF PlaceInv, BridgeInv, HeldInv, Storing, InStore
      <4>2. /\ Counters(l, tot[p][l].c, tot[p][l].t)
            /\ Since(p, l, tot[p][l].c, tot[p][l].t)
        BY <2>0, <2>7, <3>3, <4>1 DEF CountInv, Cleared, Between
      <4>3. BeforeC(p, l)' = tot[p][l].c /\ BeforeT(p, l)' = tot[p][l].t
        BY <2>1, <3>1 DEF BeforeC, BeforeT
      <4>4. Counters(l, tot[p][l].c, tot[p][l].t)'
        BY <3>1, <4>2 DEF Counters
      <4>5. Since(p, l, BeforeC(p, l), BeforeT(p, l))'
        BY <1>1, <4>2, <4>3 DEF Since
      <4> QED
        BY <1>1, <2>3, <2>7, <3>1, <4>4, <4>5 DEF CountInv, Between, Collected
    <3> QED
      BY <1>4, <1>14, <2>7, <3>2, <3>3
  <2>8. CASE l = k /\ pc[p] = "stop"
    <3>1. /\ win'[p][l].c = win[p][l].c /\ win'[p][l].t = win[p][l].t
          /\ tot'[p][l] = tot[p][l] /\ timer'[l] = timer[l] /\ cntr'[l] = cntr[l]
      BY <1>3, <1>4, <1>7, <1>12, <1>13, <2>8
    <3>2. NothingYet(p, l)' /\ Few(p, l)'
      BY <1>1, <2>0, <2>1, <2>8, <3>1 DEF NothingYet, Few, BeforeC, BeforeT
    <3>3. /\ Cleared(p, l) /\ ~Collected(p, l)' /\ ~Between(p, l)' /\ Begun(p, l)
      BY <1>1, <2>8 DEF Cleared, Collected, Between, Begun
    <3> QED
      BY <1>1, <1>4, <1>14, <2>0, <2>3, <2>8, <3>1, <3>2, <3>3, CountFrame
  <2> QED
    BY <1>4, <2>4, <2>5, <2>6, <2>7, <2>8 DEF UtilCommands
<1> QED
  BY <1>15, <1>16 DEF PrintsInv

-----------------------------------------------------------------------------
(* The steps of process p outside calls keep what is said of its lines.    *)

\* From one loop to the next.
LEMMA GotoKeepsPrints ==
  ASSUME OwnBridges, MeterInv, Types', NEW p \in Client, UNCHANGED <<cycles, ticks>>,
         EndList(p) \/ LoopTest(p) \/ unmask_signals(p) \/ mask_signals(p)
  PROVE  PrintsInv(p)'
<1> USE DEF MeterInv, OwnInv, SharedInv
<1>1. /\ UNCHANGED <<info, shown, timer, cntr>> /\ UNCHANGED <<win, tot, ready, ticks>>
      /\ call[p] = Idle /\ call'[p] = Idle /\ \A l : ~Passed(p, l)'
      /\ <<pc[p], pc'[p]>> \in Follows \ {<<"print", "loop">>, <<"final", "done">>}
      /\ pc[p] \in UtilCommands \cup {"collect"} => AtEnd(p)
  <2>1. UNCHANGED hplbaVars /\ UNCHANGED <<info, shown>> /\ UNCHANGED <<win, tot, ready, ticks>>
    BY DEF EndList, LoopTest, unmask_signals, mask_signals, results, cycles
  <2>2. /\ pc[p] \notin {"print", "final"}
        /\ pc[p] = "collect" => AtEnd(p)
    BY DEF EndList, LoopTest, unmask_signals, mask_signals, In, NextPlace
  <2>3. /\ <<pc[p], pc'[p]>> \in Follows /\ (pc[p] \in UtilCommands => AtEnd(p))
        /\ call[p] = Idle /\ \E place : Goto(p, place)
    BY PlaceFacts
  <2>4. \A l : ~Passed(p, l)'
    BY <2>3, PassedFacts
  <2>5. <<pc[p], pc'[p]>> \notin {<<"print", "loop">>, <<"final", "done">>}
    BY <2>2
  <2> QED
    BY <2>1, <2>2, <2>3, <2>4, <2>5 DEF hplbaVars, hw
<1>2. /\ pc'[p] \notin {"init", "done"} /\ pc[p] \notin {"print", "final", "done"}
      /\ pc'[p] = "reset" <=> pc[p] = "init"
      /\ pc'[p] = "loop" => pc[p] = "reset"
      /\ pc'[p] = "start" \/ pc'[p] = "final" => pc[p] = "loop"
      /\ pc'[p] = "sleep" => pc[p] = "start"
      /\ pc'[p] = "stop" => pc[p] = "sleep"
      /\ pc'[p] = "collect" => pc[p] = "stop"
      /\ pc'[p] = "print" => pc[p] = "collect"
      /\ pc'[p] \in PCs
  BY <1>1 DEF Follows, MeasureTypeOK, Types
<1>3. LinesInv(p)'
  BY <1>1, <1>2 DEF PrintsInv, LinesInv
<1>4. ASSUME NEW l \in Displayed(p)
      PROVE  /\ NothingYet(p, l)' /\ Few(p, l)'
             /\ l \in ready[p] \cap Populated => CountInv(p, l)'
  <2>0. /\ NothingYet(p, l) /\ Few(p, l) /\ LinesInv(p)
        /\ l \in ready[p] \cap Populated => CountInv(p, l)
    BY DEF PrintsInv
  <2>1. NothingYet(p, l)'
    BY <1>1, <1>2, <2>0 DEF NothingYet, Read, Since
  <2>2. Few(p, l)'
    BY <1>1, <2>0 DEF Few, BeforeC, BeforeT
  <2>3. ASSUME l \in ready[p] \cap Populated
        PROVE  CountInv(p, l)'
    <3>0. CountInv(p, l)
      BY <2>0, <2>3
    <3>1. /\ pc[p] \in UtilCommands \cup {"collect"} => Passed(p, l)
          /\ ~Storing(p, l) /\ ~Checking(p, l) /\ ~Reading(p, l) /\ ~Reading(p, l)'
      BY <1>1, PassedFacts DEF Storing, Checking, InStore, Reading, Idle
    <3>2. Counters(l, tot[p][l].c, tot[p][l].t)' \/ pc'[p] = "reset"
      <4>1. Cleared(p, l) \/ pc'[p] = "reset"
        BY <1>2, <3>1 DEF Cleared, UtilCommands
      <4> QED
        BY <1>1, <3>0, <4>1 DEF CountInv, Counters
    <3>3. Between(p, l)' => Read(p, l, tot[p][l].c, tot[p][l].t)'
                            /\ Since(p, l, tot[p][l].c, tot[p][l].t)'
      <4>1. CASE pc[p] = "reset"
        BY <1>1, <2>0, <4>1 DEF NothingYet, Read, Since
      <4>2. CASE pc[p] = "loop"
        BY <1>1, <3>0, <4>2 DEF CountInv, Between, Read, Since
      <4>3. CASE pc[p] \notin {"reset", "loop"}
        BY <1>2, <4>3 DEF Between
      <4> QED
        BY <4>1, <4>2, <4>3
    <3>4. Begun(p, l)' => Begun(p, l)
      <4>1. CASE pc[p] = "start"
        <5>1. HeldInv(p, l) /\ util_state[l] \in StatesAt(p, l)
          BY <2>3, <4>1 DEF PlaceInv, BridgeInv, HeldInv
        <5>2. util_state[l] = "start"
          BY <3>1, <4>1, <5>1 DEF StatesAt, UtilCommands
        <5>3. Counting(l)
          BY <1>1, <5>2, QuietBridge DEF Idle
        <5> QED
          BY <4>1, <5>1, <5>3 DEF HeldInv, Begun
      <4>2. CASE pc[p] = "loop"
        <5>1. ~win[p][l].open
          BY <4>2, OpenPlaces
        <5> QED
          BY <1>1, <1>2, <4>2, <5>1 DEF Begun
      <4>3. CASE pc[p] \notin {"start", "loop"}
        BY <1>1, <1>2, <4>3 DEF Begun
      <4> QED
        BY <4>1, <4>2, <4>3
    <3>5. Begun(p, l)' => Since(p, l, BeforeC(p, l), BeforeT(p, l))'
      BY <1>1, <3>0, <3>4 DEF CountInv, Since, BeforeC, BeforeT
    <3>6. Collected(p, l)' => Read(p, l, tot[p][l].c, tot[p][l].t)'
      <4>1. Collected(p, l)' => Collected(p, l)
        BY <1>1, <1>2, <3>1 DEF Collected
      <4> QED
        BY <1>1, <3>0, <4>1 DEF CountInv, Read
    <3>7. pc'[p] = "loop" => shown'[p] = NothingShown
      BY <1>1, <1>2, <2>0 DEF LinesInv
    <3>8. Cleared(p, l)' => pc'[p] # "reset"
      BY <1>1 DEF Cleared
    <3> QED
      BY <1>2, <3>1, <3>2, <3>3, <3>5, <3>6, <3>7, <3>8 DEF CountInv
  <2> QED
    BY <2>1, <2>2, <2>3
<1> QED
  BY <1>1, <1>3, <1>4 DEF PrintsInv

\* The two kinds of lines.
LEMMA SampleFacts ==
  ASSUME Types, NEW p \in Client, PrintSample(p)
  PROVE  /\ pc[p] = "print" /\ pc'[p] = "loop" /\ call[p] = Idle
         /\ UNCHANGED hplbaVars
         /\ shown'[p].kind = "sample"
         /\ \A l \in Displayed(p) :
              /\ info'[p][l].counter = info[p][l].counter
              /\ info'[p][l].timer = info[p][l].timer
              /\ info'[p][l].prev_counter = info[p][l].counter
              /\ info'[p][l].prev_timer = info[p][l].timer
              /\ shown'[p].util[l].c = Minus(info[p][l].counter, info[p][l].prev_counter)
              /\ shown'[p].util[l].t = Minus(info[p][l].timer, info[p][l].prev_timer)
<1>1. /\ pc[p] = "print" /\ call[p] = Idle /\ UNCHANGED hplbaVars /\ Goto(p, "loop")
      /\ shown' = [shown EXCEPT ![p] = [kind |-> "sample", util |-> SampleLine(p)]]
  BY Zenon DEF PrintSample, In
<1>2. info' = [info EXCEPT ![p] = [l \in Lba |->
                 IF l \in Displayed(p)
                   THEN [info[p][l] EXCEPT !.prev_timer = info[p][l].timer,
                                           !.prev_counter = info[p][l].counter]
                   ELSE info[p][l]]]
  BY Zenon DEF PrintSample
<1>3. pc'[p] = "loop"
  BY <1>1 DEF Goto, Types, MeasureTypeOK
<1>4. shown'[p].kind = "sample" /\ shown'[p].util = SampleLine(p)
  BY <1>1 DEF Types, MeteredTypeOK
<1>5. ASSUME NEW l \in Displayed(p)
      PROVE  /\ info'[p][l].counter = info[p][l].counter
             /\ info'[p][l].timer = info[p][l].timer
             /\ info'[p][l].prev_counter = info[p][l].counter
             /\ info'[p][l].prev_timer = info[p][l].timer
  <2>0. PICK i : i = info[p][l]
    OBVIOUS
  <2>1. l \in Lba /\ i \in LbaInfo /\ p \in DOMAIN info
    BY <2>0, DisplayFacts DEF Types, MeasureTypeOK
  <2>2. info'[p][l] = [info[p][l] EXCEPT !.prev_timer = info[p][l].timer,
                                         !.prev_counter = info[p][l].counter]
    BY <1>2, <2>1, Zenon
  <2>3. info'[p][l] = [i EXCEPT !.prev_timer = i.timer, !.prev_counter = i.counter]
    BY <2>0, <2>2, Zenon
  <2>4. PICK j : j = info'[p][l]
    OBVIOUS
  <2>5. /\ j.counter = i.counter /\ j.timer = i.timer
        /\ j.prev_counter = i.counter /\ j.prev_timer = i.timer
    <3>1. j = [i EXCEPT !.prev_timer = i.timer, !.prev_counter = i.counter]
      BY <2>3, <2>4
    <3> QED
      BY <2>1, <3>1 DEF LbaInfo
  <2> QED
    BY <2>0, <2>4, <2>5
<1>6. ASSUME NEW l \in Displayed(p)
      PROVE  /\ shown'[p].util[l].c = Minus(info[p][l].counter, info[p][l].prev_counter)
             /\ shown'[p].util[l].t = Minus(info[p][l].timer, info[p][l].prev_timer)
  <2>1. shown'[p].util[l] = SampleUtil(info[p][l])
    BY <1>4 DEF SampleLine, in_use
  <2> QED
    BY <2>1 DEF SampleUtil
<1> QED
  BY <1>1, <1>3, <1>4, <1>5, <1>6

LEMMA AverageFacts ==
  ASSUME Types, NEW p \in Client, PrintAverage(p)
  PROVE  /\ pc[p] = "final" /\ pc'[p] = "done" /\ call[p] = Idle
         /\ UNCHANGED hplbaVars /\ info' = info
         /\ shown'[p].kind = "average"
         /\ \A l \in Displayed(p) : /\ shown'[p].util[l].c = info[p][l].counter
                                    /\ shown'[p].util[l].t = info[p][l].timer
<1>1. /\ pc[p] = "final" /\ call[p] = Idle /\ UNCHANGED hplbaVars /\ Goto(p, "done")
      /\ shown' = [shown EXCEPT ![p] = [kind |-> "average", util |-> AverageLine(p)]]
      /\ info' = info
  BY Zenon DEF PrintAverage, In
<1>2. pc'[p] = "done"
  BY <1>1 DEF Goto, Types, MeasureTypeOK
<1>3. shown'[p].kind = "average" /\ shown'[p].util = AverageLine(p)
  BY <1>1 DEF Types, MeteredTypeOK
<1>4. ASSUME NEW l \in Displayed(p)
      PROVE  /\ shown'[p].util[l].c = info[p][l].counter
             /\ shown'[p].util[l].t = info[p][l].timer
  <2>1. shown'[p].util[l] = AverageUtil(info[p][l])
    BY <1>3 DEF AverageLine, in_use
  <2> QED
    BY <2>1 DEF AverageUtil
<1> QED
  BY <1>1, <1>2, <1>3, <1>4

\* What is printed are the counts that were collected; the count of the line
\* before becomes the one that the next line starts from.
LEMMA LineKeepsPrints ==
  ASSUME OwnBridges, MeterInv, Types', NEW p \in Client, UNCHANGED <<cycles, ticks>>,
         PrintSample(p) \/ PrintAverage(p)
  PROVE  PrintsInv(p)'
<1> USE DEF MeterInv, OwnInv, SharedInv
<1>1. /\ UNCHANGED <<timer, cntr>> /\ UNCHANGED <<win, tot, ready, ticks>>
      /\ call'[p] = Idle /\ pc'[p] \in {"loop", "done"}
  BY SampleFacts, AverageFacts DEF hplbaVars, hw, cycles
<1>2. LinesInv(p)'
  BY SampleFacts, AverageFacts DEF LinesInv
<1>3. ASSUME NEW l \in Displayed(p)
      PROVE  /\ NothingYet(p, l)' /\ Few(p, l)'
             /\ l \in ready[p] \cap Populated => CountInv(p, l)'
  <2>0. /\ Few(p, l) /\ l \in Lba
        /\ l \in ready[p] \cap Populated => CountInv(p, l)
    BY DisplayFacts DEF PrintsInv
  <2>1. NothingYet(p, l)' /\ Few(p, l)'
    BY <1>1, <2>0 DEF NothingYet, Few, BeforeC, BeforeT
  <2>2. ASSUME l \in ready[p] \cap Populated
        PROVE  CountInv(p, l)'
    <3>0. CountInv(p, l)
      BY <2>0, <2>2
    <3>1. ~Reading(p, l)' /\ ~Begun(p, l)' /\ ~Collected(p, l)'
      BY <1>1 DEF Reading, Begun, Collected, Idle
    <3>2. CASE PrintSample(p)
      <4>1. /\ pc[p] = "print" /\ pc'[p] = "loop"
            /\ info'[p][l].counter = info[p][l].counter
            /\ info'[p][l].timer = info[p][l].timer
            /\ info'[p][l].prev_counter = info[p][l].counter
            /\ info'[p][l].prev_timer = info[p][l].timer
            /\ shown'[p].util[l].c = Minus(info[p][l].counter, info[p][l].prev_counter)
            /\ shown'[p].util[l].t = Minus(info[p][l].timer, info[p][l].prev_timer)
        BY <3>2, SampleFacts
      <4>2. /\ Counters(l, tot[p][l].c, tot[p][l].t)
            /\ Read(p, l, tot[p][l].c, tot[p][l].t)
            /\ Since(p, l, BeforeC(p, l), BeforeT(p, l))
        BY <3>0, <4>1 DEF CountInv, Cleared, Collected, Begun
      <4>3. /\ Counters(l, tot[p][l].c, tot[p][l].t)'
            /\ Read(p, l, tot[p][l].c, tot[p][l].t)'
            /\ Since(p, l, tot[p][l].c, tot[p][l].t)'
        BY <1>1, <4>1, <4>2 DEF Counters, Read, Since
      <4>4. /\ BeforeC(p, l) + win[p][l].c = tot[p][l].c
            /\ BeforeT(p, l) + win[p][l].t = tot[p][l].t
        BY <2>0, HistoryTyped DEF BeforeC, BeforeT
      <4>5. /\ shown'[p].util[l].c = Shown(BeforeC(p, l), win[p][l].c)
            /\ shown'[p].util[l].t = Shown(BeforeT(p, l), win[p][l].t)
        BY <4>1, <4>2, <4>4, Zenon DEF Read, Since, Shown
      <4>6. /\ BeforeC(p, l)' = BeforeC(p, l) /\ BeforeT(p, l)' = BeforeT(p, l)
            /\ win'[p][l] = win[p][l]
        BY <1>1 DEF BeforeC, BeforeT
      <4>7. /\ shown'[p].util[l].c = Shown(BeforeC(p, l), win[p][l].c)'
            /\ shown'[p].util[l].t = Shown(BeforeT(p, l), win[p][l].t)'
        BY <4>5, <4>6 DEF Shown, Wrap, Minus
      <4> QED
        BY <3>1, <4>1, <4>3, <4>7 DEF CountInv
    <3>3. CASE PrintAverage(p)
      <4>1. /\ pc[p] = "final" /\ pc'[p] = "done"
            /\ shown'[p].util[l].c = info[p][l].counter
            /\ shown'[p].util[l].t = info[p][l].timer
        BY <3>3, AverageFacts
      <4>2. Read(p, l, tot[p][l].c, tot[p][l].t)
        BY <3>0, <4>1 DEF CountInv, Between
      <4>3. ~Cleared(p, l)' /\ ~Between(p, l)'
        BY <4>1 DEF Cleared, Between
      <4>4. /\ shown'[p].util[l].c = Wrap(tot[p][l].c)'
            /\ shown'[p].util[l].t = Wrap(tot[p][l].t)'
        BY <1>1, <4>1, <4>2 DEF Read, Wrap
      <4> QED
        BY <3>1, <4>1, <4>3, <4>4 DEF CountInv
    <3> QED
      BY <3>2, <3>3
  <2> QED
    BY <2>1, <2>2
<1> QED
  BY <1>1, <1>2, <1>3 DEF PrintsInv

\* A new run has printed nothing, and has hold of nothing.
LEMMA FreshPrints ==
  ASSUME NEW p \in Client,
         pc[p] = "init", shown[p] = NothingShown, ready[p] = {},
         ticks \in [Lba -> 0 .. MaxTicks],
         \A l \in Lba : /\ win[p][l] = Closed /\ tot[p][l] = NoCycles
                        /\ info[p][l] = NewInfo
  PROVE  PrintsInv(p)
<1>1. LinesInv(p)
  BY DEF LinesInv, NothingShown
<1>2. ASSUME NEW l \in Displayed(p)
      PROVE  NothingYet(p, l) /\ Few(p, l)
  <2>1. /\ l \in Lba /\ win[p][l] = Closed /\ tot[p][l] = NoCycles
        /\ info[p][l] = NewInfo
    BY DisplayFacts
  <2>2. ticks[l] \in Nat
    BY <2>1
  <2> QED
    BY <2>1, <2>2, WrapFacts
       DEF NothingYet, Few, Read, Since, BeforeC, BeforeT, Closed, NoCycles, NewInfo
<1> QED
  BY <1>1, <1>2 DEF PrintsInv

LEMMA RerunKeepsPrints ==
  ASSUME Types, Types', NEW p \in Client, MeteredRerun(p)
  PROVE  PrintsInv(p)'
<1>1. /\ pc' = [pc EXCEPT ![p] = "init"]
      /\ shown' = [shown EXCEPT ![p] = NothingShown]
      /\ ready' = [ready EXCEPT ![p] = {}]
      /\ win' = [win EXCEPT ![p] = [l \in Lba |-> Closed]]
      /\ tot' = [tot EXCEPT ![p] = [l \in Lba |-> NoCycles]]
      /\ info' = [info EXCEPT ![p] = [l \in Lba |-> NewInfo]]
  BY DEF MeteredRerun, Rerun, Goto
<1>2. /\ pc'[p] = "init" /\ shown'[p] = NothingShown /\ ready'[p] = {}
      /\ \A l \in Lba : /\ win'[p][l] = Closed /\ tot'[p][l] = NoCycles
                        /\ info'[p][l] = NewInfo
  <2>1. /\ p \in DOMAIN pc /\ p \in DOMAIN shown /\ p \in DOMAIN ready
        /\ p \in DOMAIN win /\ p \in DOMAIN tot /\ p \in DOMAIN info
    BY HistoryTyped DEF Types, MeasureTypeOK, MeteredTypeOK
  <2>2. /\ pc'[p] = "init" /\ shown'[p] = NothingShown /\ ready'[p] = {}
        /\ win'[p] = [l \in Lba |-> Closed] /\ tot'[p] = [l \in Lba |-> NoCycles]
        /\ info'[p] = [l \in Lba |-> NewInfo]
    BY <1>1, <2>1, Zenon
  <2> QED
    BY <2>2
<1>3. ticks' \in [Lba -> 0 .. MaxTicks]
  BY DEF Types, MeteredTypeOK
<1>4. LinesInv(p)'
  BY <1>2 DEF LinesInv, NothingShown
<1>5. ASSUME NEW l \in Displayed(p)
      PROVE  NothingYet(p, l)' /\ Few(p, l)'
  <2>1. /\ l \in Lba /\ win'[p][l] = Closed /\ tot'[p][l] = NoCycles
        /\ info'[p][l] = NewInfo
    BY <1>2, DisplayFacts
  <2>2. ticks'[l] \in Nat
    BY <1>3, <2>1
  <2> QED
    BY <2>1, <2>2, WrapFacts
       DEF NothingYet, Few, Read, Since, BeforeC, BeforeT, Closed, NoCycles, NewInfo
<1> QED
  BY <1>2, <1>4, <1>5 DEF PrintsInv

LEMMA PrintsKept ==
  ASSUME OwnBridges, MeterInv, Types', [MeteredNext]_meteredVars, NEW p \in Client
  PROVE  PrintsInv(p)'
<1> USE DEF MeterInv, OwnInv, SharedInv
<1>1. CASE MeteredStep(p)
  <2>1. /\ Step(p) /\ UNCHANGED ticks
        /\ IF call[p].pc = "regs" THEN Observe(p) ELSE UNCHANGED cycles
    BY <1>1 DEF MeteredStep
  <2>2. CASE (\E cmd \in UtilCommands : write_lba_attribute(p, cmd)) \/ read_lba_attribute(p)
    <3>1. call[p].pc # "regs"
      BY <2>2 DEF write_lba_attribute, read_lba_attribute, In, Idle
    <3> QED
      BY <2>1, <2>2, <3>1, AskKeepsPrints
  <2>3. CASE hplba_collect(p)
    <3>1. call[p].pc # "regs"
      BY <2>3 DEF hplba_collect, utilization_show_cntr
    <3> QED
      BY <2>1, <2>3, <3>1, CollectKeepsPrints
  <2>4. CASE StoreStep(p)
    <3>1. UNCHANGED procVars /\ (set_util_state(p) \/ util_op(p))
      BY <2>4, Zenon DEF StoreStep
    <3>2. /\ set_util_state(p) => call[p].pc = "check"
          /\ util_op(p) => call[p].pc = "regs"
      BY Zenon DEF set_util_state, util_op
    <3> QED
      BY <2>1, <3>1, <3>2, SetKeepsPrints, OpKeepsPrints
  <2>5. ASSUME \/ EndList(p) \/ LoopTest(p) \/ unmask_signals(p) \/ mask_signals(p)
               \/ PrintSample(p) \/ PrintAverage(p)
        PROVE  UNCHANGED cycles
    <3>1. call[p] = Idle
      BY <2>5, PlaceFacts
    <3> QED
      BY <2>1, <3>1 DEF Idle
  <2>6. CASE EndList(p) \/ LoopTest(p) \/ unmask_signals(p) \/ mask_signals(p)
    BY <2>1, <2>5, <2>6, GotoKeepsPrints
  <2>7. CASE PrintSample(p) \/ PrintAverage(p)
    BY <2>1, <2>5, <2>7, LineKeepsPrints
  <2> QED
    BY <2>1, <2>2, <2>3, <2>4, <2>6, <2>7 DEF Step
<1>2. CASE sigint_handler(p) /\ UNCHANGED <<cycles, ticks, late>>
  <2>1. /\ UNCHANGED <<pc, at, call, shown, info, ticks, cntr, timer>>
        /\ UNCHANGED <<win, tot, ready>>
    BY <1>2 DEF sigint_handler, hplbaVars, hw, results, cycles
  <2> QED
    BY <2>1, PrintsFrame
<1>3. CASE MeteredRerun(p)
  BY <1>3, RerunKeepsPrints
<1>4. ASSUME NEW q \in Client, q # p, ActsOn(q)
      PROVE  PrintsInv(p)'
  BY <1>4, OthersKeepPrints
<1>5. CASE MeteredReload
  BY <1>5, ReloadKeepsPrints
<1>6. ASSUME NEW k \in Lba, NEW busy \in {0, 1}, MeteredCycle(k, busy)
      PROVE  PrintsInv(p)'
  BY <1>6, CycleKeepsPrints
<1>7. CASE UNCHANGED meteredVars
  <2>1. /\ UNCHANGED <<pc, at, call, shown, info, ticks, cntr, timer>>
        /\ UNCHANGED <<win, tot, ready>>
    BY <1>7 DEF meteredVars, measureVars, procVars, hplbaVars, hw, results, cycles
  <2> QED
    BY <2>1, PrintsFrame
<1> QED
  BY <1>1, <1>2, <1>3, <1>4, <1>5, <1>6, <1>7, NextCases DEF ActsOn

-----------------------------------------------------------------------------
(* Theorems.                                                               *)

LEMMA MeterInvInit ==
  ASSUME MeteredInit
  PROVE  MeterInv
<1>1. OwnInv
  BY OwnInvInit
<1>2. ASSUME NEW p \in Client
      PROVE  PrintsInv(p)
  <2>1. /\ pc[p] = "init" /\ shown[p] = NothingShown /\ ready[p] = {}
        /\ \A l \in Lba : /\ win[p][l] = Closed /\ tot[p][l] = NoCycles
                          /\ info[p][l] = NewInfo
    BY DEF MeteredInit, MeasureInit
  <2>2. ticks \in [Lba -> 0 .. MaxTicks]
    BY MeteredAssumption DEF MeteredInit
  <2> QED
    BY <2>1, <2>2, FreshPrints
<1> QED
  BY <1>1, <1>2 DEF MeterInv

LEMMA MeterInvKept ==
  ASSUME OwnBridges, MeterInv, [MeteredNext]_meteredVars
  PROVE  MeterInv'
<1>1. OwnInv'
  BY OwnInvKept DEF MeterInv
<1>2. Types'
  BY <1>1 DEF OwnInv, SharedInv
<1>3. \A p \in Client : PrintsInv(p)'
  BY <1>2, PrintsKept
<1> QED
  BY <1>1, <1>3 DEF MeterInv

\* The counters of every bridge that a pcitop has hold of, what hplba_collect
\* read of them and what was printed are the counts of the cycles that went
\* over the bus while pcitop's windows were open.
THEOREM MeterInvariant ==
  ASSUME OwnBridges
  PROVE  MeteredSpec => []MeterInv
<1>1. MeteredInit => MeterInv
  BY MeterInvInit
<1>2. MeterInv /\ [MeteredNext]_meteredVars => MeterInv'
  BY MeterInvKept
<1> QED
  BY <1>1, <1>2, PTL DEF MeteredSpec

LEMMA SamplesTrue ==
  ASSUME OwnBridges, MeterInv
  PROVE  SampleAccurate
<1> SUFFICES ASSUME NEW p \in Client, pc[p] = "loop", shown[p] # NothingShown,
                    NEW l \in Displayed(p) \cap Populated \cap ready[p]
             PROVE  LET u == shown[p].util[l]
                        w == win[p][l]
                        Wraps(all, n) == all \div CntrMod # (all - n) \div CntrMod
                    IN /\ Counted(u.c, w.c, Wraps(tot[p][l].c, w.c))
                       /\ Counted(u.t, w.t, Wraps(tot[p][l].t, w.t))
  BY DEF SampleAccurate
<1>1. CountInv(p, l) /\ Few(p, l)
  BY DEF MeterInv, PrintsInv
<1>2. l \in Lba
  BY DisplayFacts
<1>3. ASSUME NEW n \in Nat, NEW k \in Nat, n - k >= 0
      PROVE  Counted(Shown(n - k, k), k, n \div CntrMod # (n - k) \div CntrMod)
  <2>1. n - k \in Nat /\ (n - k) + k = n
    BY <1>3
  <2>2. /\ (Shown(n - k, k) - k) % CntrMod = 0
        /\ n \div CntrMod = (n - k) \div CntrMod => Shown(n - k, k) = k
    BY <2>1, WrapFacts, Zenon
  <2> QED
    BY <2>2, Zenon DEF Counted
<1>4. /\ tot[p][l].c \in Nat /\ tot[p][l].t \in Nat
      /\ win[p][l].c \in Nat /\ win[p][l].t \in Nat
      /\ tot[p][l].c - win[p][l].c >= 0 /\ tot[p][l].t - win[p][l].t >= 0
  BY <1>1, <1>2, HistoryTyped DEF MeterInv, OwnInv, SharedInv, Few, BeforeC, BeforeT
<1>5. /\ shown[p].util[l].c = Shown(tot[p][l].c - win[p][l].c, win[p][l].c)
      /\ shown[p].util[l].t = Shown(tot[p][l].t - win[p][l].t, win[p][l].t)
  BY <1>1, Zenon DEF CountInv, BeforeC, BeforeT
<1> QED
  BY <1>3, <1>4, <1>5, Zenon

\* A line of samples shows, for every bridge with a device behind it, what
\* went over its bus between the start and the stop, up to the multiple of
\* 2^48 that the subtraction of 64 bit words makes of a counter's wrap: the
\* handling of prev_counter and prev_timer in measure_utilization.
THEOREM SampleTheorem ==
  ASSUME OwnBridges
  PROVE  MeteredSpec => []SampleAccurate
<1>1. MeterInv => SampleAccurate
  BY SamplesTrue
<1> QED
  BY <1>1, MeterInvariant, PTL

LEMMA Remainders ==
  ASSUME NEW n \in Nat
  PROVE  Counted(Wrap(n), n, n >= CntrMod)
<1>0. PICK M \in Nat \ {0} : M = CntrMod
  BY HplbaAssumption
<1>1. PICK q \in Nat, r \in 0 .. M - 1 : q = n \div M /\ r = n % M /\ n = M * q + r
  BY Division
<1>2. n < M => r = n
  BY <1>1
<1>3. (r - n) % M = 0
  <2> DEFINE x == M * q
             y == M * (0 - q)
  <2>1. n = x + r /\ x \in Int
    BY <1>1
  <2>2. 0 \in Int /\ q \in Int /\ M \in Int /\ M * 0 = 0
    OBVIOUS
  <2>3. y = (M * 0) - x
    BY <2>2, Distributes, Zenon
  <2> HIDE DEF x
  <2>4. r - n = y /\ 0 - q \in Int /\ r - n \in Int
    <3> HIDE DEF y
    <3> QED
      BY <2>1, <2>2, <2>3
  <2> QED
    BY <2>4, Multiple, Zenon
<1> QED
  BY <1>0, <1>1, <1>2, <1>3 DEF Counted, Wrap

\* The final line shows what went over the bus in all windows together, up to
\* the width of the counters: they are reset once and never in between, and
\* hplba_collect read them after the last stop.
THEOREM AverageTheorem ==
  ASSUME OwnBridges
  PROVE  MeteredSpec => []AverageAccurate
<1>1. ASSUME MeterInv
      PROVE  AverageAccurate
  <2> SUFFICES ASSUME NEW p \in Client, pc[p] = "done",
                      NEW l \in Displayed(p) \cap Populated \cap ready[p]
               PROVE  /\ Counted(shown[p].util[l].c, tot[p][l].c, tot[p][l].c >= CntrMod)
                      /\ Counted(shown[p].util[l].t, tot[p][l].t, tot[p][l].t >= CntrMod)
    BY DEF AverageAccurate
  <2>1. /\ shown[p].util[l].c = Wrap(tot[p][l].c)
        /\ shown[p].util[l].t = Wrap(tot[p][l].t)
    BY <1>1 DEF MeterInv, PrintsInv, CountInv
  <2>2. tot[p][l].c \in Nat /\ tot[p][l].t \in Nat
    BY <1>1, DisplayFacts, HistoryTyped DEF MeterInv, OwnInv, SharedInv
  <2> QED
    BY <2>1, <2>2, Remainders
<1> QED
  BY <1>1, MeterInvariant, PTL

-----------------------------------------------------------------------------
(* pcitop implements the abstract meter, as long as no counter wraps.      *)

\* There is a device behind every bridge that is displayed, and fewer cycles
\* are looked at than a counter can count.
NoWraps == MaxTicks < CntrMod /\ \A p \in Client : Displayed(p) \subseteq Populated

LEMMA NoWrapFacts ==
  ASSUME NoWraps, NEW n \in Nat, n <= MaxTicks
  PROVE  Wrap(n) = n /\ \A k \in 0 .. n : Shown(k, n - k) = n - k
<1>1. CntrMod \in Nat \ {0} /\ WordMod \in Nat \ {0} /\ MaxTicks \in Nat /\ CntrMod <= WordMod
  <2>1. /\ CntrMod \in Nat \ {0} /\ WordMod \in Nat \ {0} /\ WordMod % CntrMod = 0
        /\ MaxTicks \in Nat
    BY HplbaAssumption, MeasureAssumption, MeteredAssumption
  <2>2. WordMod < CntrMod => WordMod % CntrMod = WordMod
    BY <2>1
  <2> QED
    BY <2>1, <2>2
<1>2. \A m \in 0 .. n : m \in 0 .. CntrMod - 1 /\ m \in 0 .. WordMod - 1
  BY <1>1 DEF NoWraps
<1>3. \A m \in 0 .. n : m % CntrMod = m /\ m % WordMod = m
  BY <1>1, <1>2, Small, Zenon
<1>4. ASSUME NEW k \in 0 .. n
      PROVE  Shown(k, n - k) = n - k
  <2>1. k + (n - k) = n /\ n \in 0 .. n /\ n - k \in 0 .. n
    OBVIOUS
  <2>2. Shown(k, n - k) = (n - k) % WordMod
    BY <1>3, <2>1, Zenon DEF Shown, Wrap, Minus
  <2> QED
    BY <1>3, <2>1, <2>2, Zenon
<1>5. Wrap(n) = n
  <2>1. n \in 0 .. n
    OBVIOUS
  <2> QED
    BY <1>3, <2>1, Zenon DEF Wrap
<1> QED
  BY <1>4, <1>5

LEMMA MeterInit ==
  ASSUME MeteredInit
  PROVE  TheMeter!Init
  BY DEF MeteredInit, MeasureInit, TheMeter!Init, TheMeter!Closed, TheMeter!NoCycles,
         Closed, NoCycles, NothingShown

\* A register write takes hold of a bridge, clears its totals, opens a window
\* or closes it.
LEMMA WriteIsMeter ==
  ASSUME OwnBridges, MeterInv, NEW p \in Client, Observe(p), UNCHANGED procVars, util_op(p)
  PROVE  TheMeter!Next
<1> USE DEF MeterInv, OwnInv, SharedInv
<1>1. PICK l : l = call[p].lba
  OBVIOUS
<1>2. /\ call[p].pc = "regs" /\ l \in Lba /\ UNCHANGED shown
      /\ call[p].cmd \in UtilCommands
  BY <1>1, OpFacts DEF DriverInv, procVars, results
<1>3. /\ call[p].cmd = pc[p] /\ l \in Displayed(p) /\ Storing(p, l)
  BY <1>1, <1>2, CallRange, PassedFacts DEF CallInv, InStore, Storing
<1>4. /\ pc[p] \in {"init", "reset"} => shown[p].kind = "nothing"
      /\ pc[p] \in UtilCommands => shown[p].kind # "average"
  BY DEF PrintsInv, LinesInv, NothingShown, UtilCommands
<1>5. pc[p] # "init" => l \in ready[p]
  BY <1>1, <1>2, <1>3 DEF PlaceInv, WritesHeld
<1>6. l \in ready[p] => /\ pc[p] = "start" => ~win[p][l].open
                        /\ pc[p] = "stop" => win[p][l].open
  BY <1>3 DEF PlaceInv, BridgeInv, HeldInv
<1>7. CASE call[p].cmd = "init"
  <2>1. ready' = [ready EXCEPT ![p] = ready[p] \cup {l}] /\ UNCHANGED <<win, tot>>
    BY <1>1, <1>7 DEF Observe
  <2>2. TheMeter!Hold(p, l)
    BY <1>2, <1>3, <1>4, <1>7, <2>1 DEF TheMeter!Hold
  <2> QED
    BY <1>2, <2>2 DEF TheMeter!Next
<1>8. CASE call[p].cmd = "reset"
  <2>1. tot' = [tot EXCEPT ![p][l] = NoCycles] /\ UNCHANGED <<win, ready>>
    BY <1>1, <1>8 DEF Observe
  <2>2. TheMeter!Clear(p, l)
    BY <1>2, <1>3, <1>4, <1>5, <1>8, <2>1
       DEF TheMeter!Clear, TheMeter!NoCycles, NoCycles
  <2> QED
    BY <1>2, <2>2 DEF TheMeter!Next
<1>9. CASE call[p].cmd = "start"
  <2>1. win' = [win EXCEPT ![p][l] = [Closed EXCEPT !.open = TRUE]]
        /\ UNCHANGED <<tot, ready>>
    BY <1>1, <1>9 DEF Observe
  <2>2. [Closed EXCEPT !.open = TRUE] = [open |-> TRUE, c |-> 0, t |-> 0]
    <3> DEFINE w == [Closed EXCEPT !.open = TRUE]
    <3>1. w \in Window /\ w.open = TRUE /\ w.c = 0 /\ w.t = 0
      BY DEF Closed, Window
    <3>2. ASSUME NEW u \in Window
          PROVE  u = [open |-> u.open, c |-> u.c, t |-> u.t]
      BY DEF Window
    <3> HIDE DEF w
    <3>3. w = [open |-> w.open, c |-> w.c, t |-> w.t]
      BY <3>1, <3>2
    <3>4. w = [open |-> TRUE, c |-> 0, t |-> 0]
      BY <3>1, <3>3, Zenon
    <3> QED
      BY <3>4 DEF w
  <2>3. TheMeter!Open(p, l)
    BY <1>2, <1>3, <1>4, <1>5, <1>6, <1>9, <2>1, <2>2 DEF TheMeter!Open
  <2> QED
    BY <1>2, <2>3 DEF TheMeter!Next
<1>10. CASE call[p].cmd = "stop"
  <2>1. win' = [win EXCEPT ![p][l].open = FALSE] /\ UNCHANGED <<tot, ready>>
    BY <1>1, <1>10 DEF Observe
  <2>2. TheMeter!Close(p, l)
    BY <1>2, <1>3, <1>5, <1>6, <1>10, <2>1 DEF TheMeter!Close
  <2> QED
    BY <1>2, <2>2 DEF TheMeter!Next
<1> QED
  BY <1>2, <1>7, <1>8, <1>9, <1>10 DEF UtilCommands

\* Every line is about windows that are closed.
LEMMA LineIsMeter ==
  ASSUME OwnBridges, NoWraps, MeterInv, MeterInv', NEW p \in Client,
         UNCHANGED <<cycles, ticks>>, PrintSample(p) \/ PrintAverage(p)
  PROVE  TheMeter!Line(p, "sample", win) \/ TheMeter!Line(p, "average", tot)
<1> USE DEF MeterInv, OwnInv, SharedInv
<1>1. /\ UNCHANGED <<win, tot, ready, ticks>>
      /\ pc[p] \in {"print", "final"}
      /\ \A q \in Client \ {p} : shown'[q] = shown[q]
  <2>1. \E line : shown' = [shown EXCEPT ![p] = line]
    BY DEF PrintSample, PrintAverage
  <2>2. \A q \in Client \ {p} : shown'[q] = shown[q]
    BY <2>1 DEF Types, MeteredTypeOK
  <2> QED
    BY <2>2, SampleFacts, AverageFacts DEF cycles
<1>2. shown[p].kind # "average"
  BY <1>1 DEF PrintsInv, LinesInv
<1>3. ready[p] \subseteq Displayed(p)
  BY DEF PlaceInv
<1>4. \A l \in ready[p] : ~win[p][l].open
  BY <1>1, <1>3, OpenPlaces
<1>5. ASSUME NEW l \in ready[p]
      PROVE  /\ l \in Displayed(p) /\ l \in Lba /\ CountInv(p, l)'
             /\ tot[p][l].c \in Nat /\ tot[p][l].t \in Nat
             /\ BeforeC(p, l) \in 0 .. tot[p][l].c
             /\ BeforeT(p, l) \in 0 .. tot[p][l].t
             /\ win[p][l].c = tot[p][l].c - BeforeC(p, l)
             /\ win[p][l].t = tot[p][l].t - BeforeT(p, l)
             /\ tot[p][l].c <= MaxTicks /\ tot[p][l].t <= MaxTicks
             /\ BeforeC(p, l)' = BeforeC(p, l) /\ BeforeT(p, l)' = BeforeT(p, l)
             /\ shown'[p].kind \in {"sample", "average"} =>
                  shown'[p].util[l] = [c |-> shown'[p].util[l].c, t |-> shown'[p].util[l].t]
  <2>1. l \in Displayed(p) /\ l \in Lba /\ l \in Populated
    BY <1>3, DisplayFacts DEF NoWraps
  <2>2. l \in (ready[p])' \cap Populated
    BY <1>1, <2>1
  <2>3. CountInv(p, l)' /\ Few(p, l)
    BY <2>1, <2>2 DEF PrintsInv
  <2>4. /\ tot[p][l].c \in Nat /\ tot[p][l].t \in Nat
        /\ win[p][l].c \in Nat /\ win[p][l].t \in Nat /\ ticks[l] \in 0 .. MaxTicks
    BY <2>1, HistoryTyped DEF Types, MeteredTypeOK
  <2>5. /\ BeforeC(p, l) \in 0 .. tot[p][l].c
        /\ BeforeT(p, l) \in 0 .. tot[p][l].t
        /\ win[p][l].c = tot[p][l].c - BeforeC(p, l)
        /\ win[p][l].t = tot[p][l].t - BeforeT(p, l)
        /\ tot[p][l].c <= MaxTicks /\ tot[p][l].t <= MaxTicks
    BY <2>3, <2>4, MeteredAssumption DEF Few, BeforeC, BeforeT
  <2>6. BeforeC(p, l)' = BeforeC(p, l) /\ BeforeT(p, l)' = BeforeT(p, l)
    BY <1>1 DEF BeforeC, BeforeT
  <2>7. shown'[p].kind \in {"sample", "average"} =>
          shown'[p].util[l] = [c |-> shown'[p].util[l].c, t |-> shown'[p].util[l].t]
    <3>1. shown'[p].kind # "nothing" => shown'[p].util \in [Displayed(p) -> Ratio]
      BY DEF Types, MeasureTypeOK, NothingShown
    <3>2. ASSUME NEW u \in Ratio
          PROVE  u = [c |-> u.c, t |-> u.t]
      BY DEF Ratio
    <3>3. shown'[p].kind # "nothing" => shown'[p].util[l] \in Ratio
      BY <2>1, <3>1
    <3> QED
      BY <3>2, <3>3
  <2> QED
    BY <2>1, <2>3, <2>4, <2>5, <2>6, <2>7
<1>6. CASE PrintSample(p)
  <2>1. pc'[p] = "loop" /\ shown'[p].kind = "sample"
    BY <1>6, SampleFacts
  <2>2. shown'[p] # NothingShown
    BY <2>1 DEF NothingShown
  <2>3. ASSUME NEW l \in ready[p]
        PROVE  shown'[p].util[l] = [c |-> win[p][l].c, t |-> win[p][l].t]
    <3>1. /\ shown'[p].util[l].c = Shown(BeforeC(p, l), win[p][l].c)'
          /\ shown'[p].util[l].t = Shown(BeforeT(p, l), win[p][l].t)'
      BY <1>5, <2>1, <2>2 DEF CountInv
    <3>2. /\ shown'[p].util[l].c = Shown(BeforeC(p, l), win[p][l].c)
          /\ shown'[p].util[l].t = Shown(BeforeT(p, l), win[p][l].t)
      BY <1>1, <1>5, <3>1 DEF Shown, Wrap, Minus
    <3>3. /\ Shown(BeforeC(p, l), tot[p][l].c - BeforeC(p, l)) = tot[p][l].c - BeforeC(p, l)
          /\ Shown(BeforeT(p, l), tot[p][l].t - BeforeT(p, l)) = tot[p][l].t - BeforeT(p, l)
      BY <1>5, NoWrapFacts, Zenon
    <3>4. shown'[p].util[l].c = win[p][l].c /\ shown'[p].util[l].t = win[p][l].t
      BY <1>5, <3>2, <3>3, Zenon
    <3>5. shown'[p].util[l] = [c |-> shown'[p].util[l].c, t |-> shown'[p].util[l].t]
      BY <1>5, <2>1
    <3> QED
      BY <3>4, <3>5, Zenon
  <2> QED
    BY <1>1, <1>2, <1>4, <2>1, <2>3 DEF TheMeter!Line
<1>7. CASE PrintAverage(p)
  <2>1. pc'[p] = "done" /\ shown'[p].kind = "average"
    BY <1>7, AverageFacts
  <2>2. ASSUME NEW l \in ready[p]
        PROVE  shown'[p].util[l] = [c |-> tot[p][l].c, t |-> tot[p][l].t]
    <3>1. /\ shown'[p].util[l].c = Wrap(tot[p][l].c)
          /\ shown'[p].util[l].t = Wrap(tot[p][l].t)
      BY <1>1, <1>5, <2>1 DEF CountInv, Wrap
    <3>2. shown'[p].util[l].c = tot[p][l].c /\ shown'[p].util[l].t = tot[p][l].t
      BY <1>5, <3>1, NoWrapFacts, Zenon
    <3>3. shown'[p].util[l] = [c |-> shown'[p].util[l].c, t |-> shown'[p].util[l].t]
      BY <1>5, <2>1
    <3> QED
      BY <3>2, <3>3, Zenon
  <2> QED
    BY <1>1, <1>2, <1>4, <2>1, <2>2 DEF TheMeter!Line
<1> QED
  BY <1>6, <1>7

LEMMA CycleIsMeter ==
  ASSUME NEW l \in Lba, NEW busy \in {0, 1}, MeteredCycle(l, busy)
  PROVE  TheMeter!Cycle(l, busy)
<1>1. /\ win' = [p \in Client |-> [win[p] EXCEPT ![l] = Seen(@, p, l, busy)]]
      /\ tot' = [p \in Client |-> [tot[p] EXCEPT ![l] = Seen(@, p, l, busy)]]
      /\ ready' = ready /\ shown' = shown
  BY DEF MeteredCycle, procVars, results
<1> QED
  BY <1>1 DEF TheMeter!Cycle, Seen

LEMMA RerunIsMeter ==
  ASSUME NEW p \in Client, MeteredRerun(p)
  PROVE  TheMeter!Restart(p)
<1>1. /\ win' = [win EXCEPT ![p] = [l \in Lba |-> Closed]]
      /\ tot' = [tot EXCEPT ![p] = [l \in Lba |-> NoCycles]]
      /\ ready' = [ready EXCEPT ![p] = {}]
      /\ shown' = [shown EXCEPT ![p] = NothingShown]
  BY DEF MeteredRerun, Rerun
<1> QED
  BY <1>1 DEF TheMeter!Restart, TheMeter!Closed, TheMeter!NoCycles,
              Closed, NoCycles, NothingShown

LEMMA ExitIsMeter ==
  ASSUME MeterInv, MeteredReload
  PROVE  TheMeter!Lose \/ UNCHANGED TheMeter!meterVars
<1>1. UNCHANGED shown
  BY DEF MeteredReload, procVars, results
<1>2. CASE UNCHANGED cycles
  BY <1>1, <1>2 DEF cycles, TheMeter!meterVars
<1>3. CASE /\ win' = [p \in Client |->
                IF pc[p] = "done" THEN win[p] ELSE [l \in Lba |-> Closed]]
           /\ tot' = [p \in Client |->
                IF pc[p] = "done" THEN tot[p] ELSE [l \in Lba |-> NoCycles]]
           /\ ready' = [p \in Client |-> IF pc[p] = "done" THEN ready[p] ELSE {}]
  <2>1. \A p \in Client : pc[p] = "done" <=> shown[p].kind = "average"
    BY DEF MeterInv, PrintsInv, LinesInv
  <2>2. /\ win' = [p \in Client |->
             IF shown[p].kind = "average" THEN win[p] ELSE [l \in Lba |-> Closed]]
        /\ tot' = [p \in Client |->
             IF shown[p].kind = "average" THEN tot[p] ELSE [l \in Lba |-> NoCycles]]
        /\ ready' = [p \in Client |->
             IF shown[p].kind = "average" THEN ready[p] ELSE {}]
    BY <1>3, <2>1
  <2> QED
    BY <1>1, <2>2, Zenon
       DEF TheMeter!Lose, TheMeter!Closed, TheMeter!NoCycles, Closed, NoCycles
<1> QED
  BY <1>2, <1>3, Zenon DEF MeteredReload

LEMMA NextIsMeter ==
  ASSUME OwnBridges, NoWraps, MeterInv, MeterInv', [MeteredNext]_meteredVars
  PROVE  [TheMeter!Next]_TheMeter!meterVars
<1> USE DEF MeterInv, OwnInv, SharedInv
<1>1. ASSUME NEW p \in Client, MeteredStep(p)
      PROVE  TheMeter!Next \/ UNCHANGED TheMeter!meterVars
  <2>1. /\ Step(p) /\ UNCHANGED ticks
        /\ IF call[p].pc = "regs" THEN Observe(p) ELSE UNCHANGED cycles
    BY <1>1 DEF MeteredStep
  <2>2. ASSUME UNCHANGED <<shown, cycles>>
        PROVE  UNCHANGED TheMeter!meterVars
    BY <2>2 DEF cycles, TheMeter!meterVars
  <2>3. CASE (\E cmd \in UtilCommands : write_lba_attribute(p, cmd)) \/ read_lba_attribute(p)
    <3>1. call[p].pc # "regs" /\ UNCHANGED shown
      BY <2>3 DEF write_lba_attribute, read_lba_attribute, In, Idle, results
    <3> QED
      BY <2>1, <2>2, <3>1
  <2>4. CASE hplba_collect(p)
    <3>1. call[p].pc # "regs" /\ UNCHANGED shown
      BY <2>4 DEF hplba_collect, utilization_show_cntr
    <3> QED
      BY <2>1, <2>2, <3>1
  <2>5. CASE StoreStep(p)
    <3>1. UNCHANGED procVars /\ (set_util_state(p) \/ util_op(p))
      BY <2>5, Zenon DEF StoreStep
    <3>2. /\ set_util_state(p) => call[p].pc = "check"
          /\ util_op(p) => call[p].pc = "regs"
      BY Zenon DEF set_util_state, util_op
    <3>3. UNCHANGED shown
      BY <3>1 DEF procVars, results
    <3> QED
      BY <1>1, <2>1, <2>2, <3>1, <3>2, <3>3, WriteIsMeter
  <2>6. ASSUME \/ EndList(p) \/ LoopTest(p) \/ unmask_signals(p) \/ mask_signals(p)
               \/ PrintSample(p) \/ PrintAverage(p)
        PROVE  UNCHANGED cycles
    <3>1. call[p] = Idle
      BY <2>6, PlaceFacts
    <3> QED
      BY <2>1, <3>1 DEF Idle
  <2>7. CASE EndList(p) \/ LoopTest(p) \/ unmask_signals(p) \/ mask_signals(p)
    <3>1. UNCHANGED shown
      BY <2>7 DEF EndList, LoopTest, unmask_signals, mask_signals, results
    <3> QED
      BY <2>2, <2>6, <2>7, <3>1
  <2>8. CASE PrintSample(p) \/ PrintAverage(p)
    <3>1. TheMeter!Line(p, "sample", win) \/ TheMeter!Line(p, "average", tot)
      BY <1>1, <2>1, <2>6, <2>8, LineIsMeter
    <3> QED
      BY <1>1, <3>1 DEF TheMeter!Next
  <2> QED
    BY <2>1, <2>3, <2>4, <2>5, <2>7, <2>8 DEF Step
<1>2. ASSUME NEW p \in Client, sigint_handler(p) /\ UNCHANGED <<cycles, ticks, late>>
      PROVE  UNCHANGED TheMeter!meterVars
  BY <1>2 DEF sigint_handler, results, cycles, TheMeter!meterVars
<1>3. ASSUME NEW p \in Client, MeteredRerun(p)
      PROVE  TheMeter!Next
  BY <1>3, RerunIsMeter DEF TheMeter!Next
<1>4. ASSUME NEW l \in Lba, NEW busy \in {0, 1}, MeteredCycle(l, busy)
      PROVE  TheMeter!Next
  BY <1>4, CycleIsMeter DEF TheMeter!Next
<1>5. ASSUME MeteredReload
      PROVE  TheMeter!Next \/ UNCHANGED TheMeter!meterVars
  BY <1>5, ExitIsMeter DEF TheMeter!Next
<1>6. ASSUME UNCHANGED meteredVars
      PROVE  UNCHANGED TheMeter!meterVars
  BY <1>6 DEF meteredVars, measureVars, procVars, results, cycles, TheMeter!meterVars
<1> QED
  BY <1>1, <1>2, <1>3, <1>4, <1>5, <1>6, NextCases DEF ActsOn

\* pcitop on top of the driver, its calls and register writes interleaved with
\* the bus, with signals, kills and the removal of the driver, does what the
\* abstract meter promises, as long as no counter wraps.
THEOREM RefinementTheorem ==
  ASSUME OwnBridges, NoWraps
  PROVE  MeteredSpec => ImplementsMeter
<1>1. MeteredInit => TheMeter!Init
  BY MeterInit
<1>2. MeterInv /\ MeterInv' /\ [MeteredNext]_meteredVars =>
        [TheMeter!Next]_TheMeter!meterVars
  BY NextIsMeter
<1> QED
  BY <1>1, <1>2, MeterInvariant, PTL DEF MeteredSpec, ImplementsMeter, TheMeter!Spec

=============================================================================
