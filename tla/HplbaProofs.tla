---------------------------- MODULE HplbaProofs -----------------------------
EXTENDS Hplba, TLAPS

LEMMA UtilOps ==
  ASSUME NEW k \in Chips
  PROVE  /\ util_ops(k)["init"] = << Write("DIAG_EN0", "0x0"),
                                  Write("CTRL0A_ALWAYS_CNT", "0x1"),
                                  Write("DIAG_CTRL1", BusyEvent(k)) >>
         /\ util_ops(k)["reset"] = << Write("DIAG_EN0", "0xf") >>
         /\ util_ops(k)["start"] = << Write("DIAG_EN0", "0x3") >>
         /\ util_ops(k)["stop"] = << Write("DIAG_EN0", "0x0") >>
<1>1. CASE k = "apollo"
  BY <1>1 DEF util_ops, lba_info_tab, apollo_util_ops, BusyEvent
<1>2. CASE k = "gemini"
  BY <1>2 DEF util_ops, lba_info_tab, gemini_util_ops, BusyEvent
<1>3. CASE k = "mercury"
  BY <1>3 DEF util_ops, lba_info_tab, mercury_util_ops, BusyEvent
<1> QED
  BY <1>1, <1>2, <1>3 DEF Chips

LEMMA CallKinds ==
  ASSUME TypeOK, NEW c \in Client
  PROVE  /\ call[c] \in {Idle} \cup CheckCall \cup RegsCall \cup ShowCall
         /\ call[c].pc = "check" => call[c] \in CheckCall
         /\ call[c].pc = "regs" => call[c] \in RegsCall
         /\ call[c].pc = "cntr" => call[c] \in ShowCall
  BY DEF TypeOK, Idle, CheckCall, RegsCall, ShowCall

LEMMA WriteReg ==
  ASSUME NEW k \in Lba, TypeOK, NEW r \in Regs, NEW v,
         reg' = [reg EXCEPT ![k][r] = v],
         r = "DIAG_EN0" => v \in EN0Values,
         r = "CTRL0A_ALWAYS_CNT" => v = "0x1",
         r = "DIAG_CTRL1" => v = BusyEvent(chip[k])
  PROVE  /\ DOMAIN reg' = Lba
         /\ \A l \in Lba : reg'[l] \in RegFile(l)
         /\ reg'[k].DIAG_EN0 = IF r = "DIAG_EN0" THEN v ELSE reg[k].DIAG_EN0
         /\ reg'[k].CTRL0A_ALWAYS_CNT =
              IF r = "CTRL0A_ALWAYS_CNT" THEN v ELSE reg[k].CTRL0A_ALWAYS_CNT
         /\ reg'[k].DIAG_CTRL1 =
              IF r = "DIAG_CTRL1" THEN v ELSE reg[k].DIAG_CTRL1
         /\ \A l \in Lba \ {k} : reg'[l] = reg[l]
<1>1. CASE r = "DIAG_EN0"
  BY <1>1 DEF TypeOK, RegFile
<1>2. CASE r = "CTRL0A_ALWAYS_CNT"
  BY <1>2 DEF TypeOK, RegFile
<1>3. CASE r = "DIAG_CTRL1"
  BY <1>3 DEF TypeOK, RegFile
<1> QED
  BY <1>1, <1>2, <1>3 DEF Regs

-----------------------------------------------------------------------------
(* The inductive invariant.                                                *)

\* What the calls in progress may rely on: the driver stays, a bridge that
\* was seen to be initialised still is, and an init that is about to write its
\* last register has written the one before.
CallsOK ==
  /\ ~loaded => \A c \in Client : call[c] = Idle
  /\ \A c \in Client :
       /\ call[c].pc = "check" /\ call[c].cur # "unknown" =>
            util_state[call[c].lba] # "unknown"
       /\ call[c].pc = "regs" /\ call[c].cmd # "init" => call[c].i = 1
       /\ call[c].pc = "regs" /\ call[c].i = 3 =>
            reg[call[c].lba].CTRL0A_ALWAYS_CNT = "0x1"

\* Some client is executing the chipset's util_init on l.
InitRunning(l) ==
  \E c \in Client : call[c].pc = "regs" /\ call[c].lba = l /\ call[c].cmd = "init"

ProgrammedOrInit ==
  \A l \in Lba : util_state[l] # "unknown" => Programmed(l) \/ InitRunning(l)

DriverInv == TypeOK /\ CallsOK /\ ProgrammedOrInit

\* The value each operation stores in DIAG_EN0.
EN0Of == [init |-> "0x0", reset |-> "0xf", start |-> "0x3", stop |-> "0x0"]

\* The write that each operation is at.
LEMMA WriteAt ==
  ASSUME NEW k \in Chips, NEW cmd \in UtilCommands, NEW i \in 1 .. 3,
         cmd # "init" => i = 1
  PROVE  LET op == util_ops(k)[cmd]
         IN /\ i = 1 => op[i].reg = "DIAG_EN0" /\ op[i].val = EN0Of[cmd]
            /\ i = 2 => op[i].reg = "CTRL0A_ALWAYS_CNT" /\ op[i].val = "0x1"
            /\ i = 3 => op[i].reg = "DIAG_CTRL1" /\ op[i].val = BusyEvent(k)
            /\ Len(op) = IF cmd = "init" THEN 3 ELSE 1
<1>1. CASE cmd = "init"
  <2>1. util_ops(k)[cmd] = << [reg |-> "DIAG_EN0", val |-> "0x0"],
                               [reg |-> "CTRL0A_ALWAYS_CNT", val |-> "0x1"],
                               [reg |-> "DIAG_CTRL1", val |-> BusyEvent(k)] >>
    BY <1>1, UtilOps, Zenon DEF Write
  <2>2. EN0Of[cmd] = "0x0"
    BY <1>1 DEF EN0Of
  <2> QED
    BY <1>1, <2>1, <2>2
<1>2. CASE cmd = "reset"
  <2>1. util_ops(k)[cmd] = << [reg |-> "DIAG_EN0", val |-> "0xf"] >>
    BY <1>2, UtilOps, Zenon DEF Write
  <2>2. EN0Of[cmd] = "0xf"
    BY <1>2 DEF EN0Of
  <2> QED
    BY <1>2, <2>1, <2>2
<1>3. CASE cmd = "start"
  <2>1. util_ops(k)[cmd] = << [reg |-> "DIAG_EN0", val |-> "0x3"] >>
    BY <1>3, UtilOps, Zenon DEF Write
  <2>2. EN0Of[cmd] = "0x3"
    BY <1>3 DEF EN0Of
  <2> QED
    BY <1>3, <2>1, <2>2
<1>4. CASE cmd = "stop"
  <2>1. util_ops(k)[cmd] = << [reg |-> "DIAG_EN0", val |-> "0x0"] >>
    BY <1>4, UtilOps, Zenon DEF Write
  <2>2. EN0Of[cmd] = "0x0"
    BY <1>4 DEF EN0Of
  <2> QED
    BY <1>4, <2>1, <2>2
<1> QED
  BY <1>1, <1>2, <1>3, <1>4 DEF UtilCommands

\* What one register write of client c does.
LEMMA UtilOpStep ==
  ASSUME TypeOK, CallsOK, NEW c \in Client, util_op(c),
         NEW l, l = call[c].lba
  PROVE  /\ l \in Lba /\ call[c] \in RegsCall
         /\ UNCHANGED driver
         /\ DOMAIN reg' = Lba /\ \A k \in Lba : reg'[k] \in RegFile(k)
         /\ \A k \in Lba \ {l} : reg'[k] = reg[k]
         /\ reg'[l].DIAG_EN0 =
              IF call[c].i = 1 THEN EN0Of[call[c].cmd] ELSE reg[l].DIAG_EN0
         /\ reg'[l].CTRL0A_ALWAYS_CNT =
              IF call[c].i = 2 THEN "0x1" ELSE reg[l].CTRL0A_ALWAYS_CNT
         /\ reg'[l].DIAG_CTRL1 =
              IF call[c].i = 3 THEN BusyEvent(chip[l]) ELSE reg[l].DIAG_CTRL1
         /\ call' = [call EXCEPT ![c] =
              IF call[c].cmd = "init" /\ call[c].i < 3
                THEN [call[c] EXCEPT !.i = call[c].i + 1] ELSE Idle]
         /\ timer' \in [Lba -> 0 .. CntrMod - 1]
         /\ cntr' \in [Lba -> 0 .. CntrMod - 1]
<1> DEFINE op == util_ops(chip[l])[call[c].cmd]
           w  == op[call[c].i]
<1>1. /\ call[c] \in RegsCall /\ l \in Lba /\ call[c].cmd \in UtilCommands
      /\ call[c].i \in 1 .. 3
      /\ call[c].cmd # "init" => call[c].i = 1
  BY CallKinds DEF util_op, RegsCall, CallsOK
<1>2. chip[l] \in Chips
  BY <1>1, HplbaAssumption
<1>3. /\ reg' = [reg EXCEPT ![l][w.reg] = w.val]
      /\ call' = [call EXCEPT ![c] = IF call[c].i < Len(op)
                    THEN [call[c] EXCEPT !.i = call[c].i + 1] ELSE Idle]
      /\ UNCHANGED driver
      /\ \/ timer' = [timer EXCEPT ![l] = 0] /\ cntr' = [cntr EXCEPT ![l] = 0]
         \/ timer' = timer /\ cntr' = cntr
  BY Zenon DEF util_op
<1>4. /\ timer' \in [Lba -> 0 .. CntrMod - 1]
      /\ cntr' \in [Lba -> 0 .. CntrMod - 1]
  BY <1>1, <1>3, HplbaAssumption DEF TypeOK
<1>5. /\ call[c].i = 1 => w.reg = "DIAG_EN0" /\ w.val = EN0Of[call[c].cmd]
      /\ call[c].i = 2 => w.reg = "CTRL0A_ALWAYS_CNT" /\ w.val = "0x1"
      /\ call[c].i = 3 => w.reg = "DIAG_CTRL1" /\ w.val = BusyEvent(chip[l])
      /\ Len(op) = IF call[c].cmd = "init" THEN 3 ELSE 1
  BY <1>1, <1>2, WriteAt
<1> HIDE DEF op, w
<1>6. /\ w.reg \in Regs
      /\ w.reg = "DIAG_EN0" => w.val \in EN0Values
      /\ w.reg = "CTRL0A_ALWAYS_CNT" => w.val = "0x1"
      /\ w.reg = "DIAG_CTRL1" => w.val = BusyEvent(chip[l])
      /\ w.reg = "DIAG_EN0" <=> call[c].i = 1
      /\ w.reg = "CTRL0A_ALWAYS_CNT" <=> call[c].i = 2
      /\ w.reg = "DIAG_CTRL1" <=> call[c].i = 3
  BY <1>1, <1>5 DEF Regs, EN0Values, EN0Of, UtilCommands
<1>7. /\ DOMAIN reg' = Lba
      /\ \A k \in Lba : reg'[k] \in RegFile(k)
      /\ reg'[l].DIAG_EN0 = IF w.reg = "DIAG_EN0" THEN w.val ELSE reg[l].DIAG_EN0
      /\ reg'[l].CTRL0A_ALWAYS_CNT =
           IF w.reg = "CTRL0A_ALWAYS_CNT" THEN w.val ELSE reg[l].CTRL0A_ALWAYS_CNT
      /\ reg'[l].DIAG_CTRL1 =
           IF w.reg = "DIAG_CTRL1" THEN w.val ELSE reg[l].DIAG_CTRL1
      /\ \A k \in Lba \ {l} : reg'[k] = reg[k]
  <2> DEFINE r == w.reg
             v == w.val
  <2>1. reg' = [reg EXCEPT ![l][r] = v]
    BY <1>3
  <2>2. /\ r \in Regs
        /\ r = "DIAG_EN0" => v \in EN0Values
        /\ r = "CTRL0A_ALWAYS_CNT" => v = "0x1"
        /\ r = "DIAG_CTRL1" => v = BusyEvent(chip[l])
    BY <1>6
  <2> HIDE DEF r, v
  <2>3. /\ DOMAIN reg' = Lba
        /\ \A k \in Lba : reg'[k] \in RegFile(k)
        /\ reg'[l].DIAG_EN0 = IF r = "DIAG_EN0" THEN v ELSE reg[l].DIAG_EN0
        /\ reg'[l].CTRL0A_ALWAYS_CNT =
             IF r = "CTRL0A_ALWAYS_CNT" THEN v ELSE reg[l].CTRL0A_ALWAYS_CNT
        /\ reg'[l].DIAG_CTRL1 = IF r = "DIAG_CTRL1" THEN v ELSE reg[l].DIAG_CTRL1
        /\ \A k \in Lba \ {l} : reg'[k] = reg[k]
    BY <1>1, <2>1, <2>2, WriteReg
  <2> QED
    BY <2>3 DEF r, v
<1>8. call' = [call EXCEPT ![c] = IF call[c].cmd = "init" /\ call[c].i < 3
                 THEN [call[c] EXCEPT !.i = call[c].i + 1] ELSE Idle]
  <2>1. call[c].i < Len(op) <=> call[c].cmd = "init" /\ call[c].i < 3
    BY <1>1, <1>5
  <2> QED
    BY <2>1, <1>3, Zenon
<1> QED
  BY <1>1, <1>3, <1>4, <1>5, <1>6, <1>7, <1>8

-----------------------------------------------------------------------------
(* The invariant holds.                                                    *)

LEMMA DriverInvInit == HplbaInit => DriverInv
<1> SUFFICES ASSUME HplbaInit
             PROVE  DriverInv
  OBVIOUS
<1>1. TypeOK
  BY HplbaAssumption DEF HplbaInit, TypeOK, UtilStates
<1>2. CallsOK
  BY DEF HplbaInit, CallsOK, Idle
<1>3. ProgrammedOrInit
  BY DEF HplbaInit, ProgrammedOrInit
<1> QED
  BY <1>1, <1>2, <1>3 DEF DriverInv

LEMMA StoreKeepsInv ==
  ASSUME DriverInv, NEW c \in Client, NEW l \in Lba, NEW text \in Texts,
         utilization_store(c, l, text)
  PROVE  DriverInv'
<1> DEFINE cmd == hplba_util_state_to_value(text)
           new == [pc |-> "check", lba |-> l, cmd |-> cmd, cur |-> util_state[l]]
<1> USE DEF DriverInv
<1>1. cmd \in UtilCommands
  BY DEF utilization_store, hplba_util_state_to_value, UtilStates
<1>2. util_state[l] \in UtilStates
  BY DEF TypeOK
<1> HIDE DEF cmd
<1>3. new \in CheckCall
  BY <1>1, <1>2 DEF CheckCall
<1>4. /\ call[c] = Idle /\ loaded
      /\ call' = [call EXCEPT ![c] = new]
      /\ UNCHANGED <<loaded, reloads, util_state, reg, timer, cntr>>
  BY DEF utilization_store, cmd, driver, hw
<1>5. TypeOK'
  BY <1>3, <1>4 DEF TypeOK, RegFile
<1>6. CallsOK'
  BY <1>4 DEF CallsOK, TypeOK
<1>7. ProgrammedOrInit'
  BY <1>4 DEF ProgrammedOrInit, Programmed, InitRunning, TypeOK, Idle
<1> QED
  BY <1>5, <1>6, <1>7

LEMMA SetKeepsInv ==
  ASSUME DriverInv, NEW c \in Client, set_util_state(c)
  PROVE  DriverInv'
<1> USE DEF DriverInv
<1> DEFINE l   == call[c].lba
           cmd == call[c].cmd
           new == [pc |-> "regs", lba |-> l, cmd |-> cmd, i |-> 1]
<1>1. /\ l \in Lba /\ cmd \in UtilCommands /\ call[c].cur \in UtilStates
      /\ call[c].pc = "check"
  BY CallKinds DEF set_util_state, CheckCall
<1>2. UNCHANGED <<loaded, reloads, reg, timer, cntr>>
  BY DEF set_util_state, hw
<1>3. CASE call' = [call EXCEPT ![c] = Idle] /\ UNCHANGED util_state
  <2>1. TypeOK'
    BY <1>2, <1>3 DEF TypeOK, RegFile
  <2>2. CallsOK'
    BY <1>2, <1>3 DEF CallsOK, TypeOK, Idle
  <2>3. ProgrammedOrInit'
    BY <1>1, <1>2, <1>3 DEF ProgrammedOrInit, Programmed, InitRunning, TypeOK
  <2> QED
    BY <2>1, <2>2, <2>3
<1>4. CASE /\ call[c].cur \in LegalFrom[cmd]
           /\ util_state' = [util_state EXCEPT ![l] = cmd]
           /\ call' = [call EXCEPT ![c] = new]
  <2>1. new \in RegsCall
    BY <1>1 DEF RegsCall
  <2>2. TypeOK'
    BY <1>1, <1>2, <1>4, <2>1 DEF TypeOK, RegFile, UtilStates
  <2>3. cmd # "unknown"
    BY <1>1 DEF UtilCommands
  <2>4. loaded
    BY <1>1 DEF CallsOK, Idle
  <2>5. CallsOK'
    BY <1>1, <1>2, <1>4, <2>3, <2>4 DEF CallsOK, TypeOK
  <2>6. cmd # "init" => util_state[l] # "unknown"
    BY <1>1, <1>4 DEF CallsOK, LegalFrom, UtilCommands
  <2>7. ProgrammedOrInit'
    BY <1>1, <1>2, <1>4, <2>6 DEF ProgrammedOrInit, Programmed, InitRunning, TypeOK
  <2> QED
    BY <2>2, <2>5, <2>7
<1> QED
  BY <1>3, <1>4 DEF set_util_state

LEMMA UtilOpKeepsInv ==
  ASSUME DriverInv, NEW c \in Client, util_op(c)
  PROVE  DriverInv'
<1> USE DEF DriverInv
<1> DEFINE l == call[c].lba
<1>1. /\ l \in Lba /\ call[c] \in RegsCall
      /\ UNCHANGED <<loaded, reloads, util_state>>
      /\ DOMAIN reg' = Lba /\ \A k \in Lba : reg'[k] \in RegFile(k)
      /\ \A k \in Lba \ {l} : reg'[k] = reg[k]
      /\ timer' \in [Lba -> 0 .. CntrMod - 1]
      /\ cntr' \in [Lba -> 0 .. CntrMod - 1]
  BY UtilOpStep DEF driver
<1>2. /\ reg'[l].CTRL0A_ALWAYS_CNT =
           IF call[c].i = 2 THEN "0x1" ELSE reg[l].CTRL0A_ALWAYS_CNT
      /\ reg'[l].DIAG_CTRL1 =
           IF call[c].i = 3 THEN BusyEvent(chip[l]) ELSE reg[l].DIAG_CTRL1
  BY UtilOpStep
<1>3. call' = [call EXCEPT ![c] = IF call[c].cmd = "init" /\ call[c].i < 3
                 THEN [call[c] EXCEPT !.i = call[c].i + 1] ELSE Idle]
  BY UtilOpStep
<1>4. /\ call[c].pc = "regs" /\ call[c].cmd \in UtilCommands
      /\ call[c].i \in 1 .. 3
      /\ call[c].cmd # "init" => call[c].i = 1
  BY <1>1 DEF RegsCall, CallsOK
<1>5. loaded
  BY <1>4 DEF CallsOK, Idle
<1>6. CASE call[c].cmd = "init" /\ call[c].i < 3
  <2> DEFINE new == [call[c] EXCEPT !.i = call[c].i + 1]
  <2>1. /\ new \in RegsCall /\ new.pc = "regs" /\ new.lba = l /\ new.cmd = "init"
        /\ new.i = call[c].i + 1
    BY <1>1, <1>4, <1>6 DEF RegsCall
  <2>2. call' = [call EXCEPT ![c] = new]
    BY <1>3, <1>6, Zenon
  <2> HIDE DEF new
  <2>3. TypeOK'
    BY <1>1, <2>1, <2>2 DEF TypeOK, RegFile
  <2>4. \A d \in Client : d # c => call'[d] = call[d]
    BY <2>2 DEF TypeOK
  <2>5. call'[c] = new
    BY <2>2 DEF TypeOK
  <2>6. \A d \in Client : call[d].pc = "regs" => call[d].lba \in Lba
    BY CallKinds DEF RegsCall
  <2>7. CallsOK'
    BY <1>1, <1>2, <1>4, <1>5, <1>6, <2>1, <2>4, <2>5, <2>6 DEF CallsOK
  <2>8. ProgrammedOrInit'
    BY <1>1, <1>2, <1>4, <1>6, <2>1, <2>4, <2>5
    DEF ProgrammedOrInit, Programmed, InitRunning
  <2> QED
    BY <2>3, <2>7, <2>8
<1>7. CASE ~(call[c].cmd = "init" /\ call[c].i < 3)
  <2>2. call' = [call EXCEPT ![c] = Idle]
    BY <1>3, <1>7, Zenon
  <2>3. TypeOK'
    BY <1>1, <2>2 DEF TypeOK, RegFile
  <2>4. \A d \in Client : d # c => call'[d] = call[d]
    BY <2>2 DEF TypeOK
  <2>5. call'[c] = Idle /\ Idle.pc = "idle"
    BY <2>2 DEF TypeOK, Idle
  <2>6. \A d \in Client : call[d].pc = "regs" => call[d].lba \in Lba
    BY CallKinds DEF RegsCall
  <2>7. CallsOK'
    BY <1>1, <1>2, <1>4, <1>5, <1>7, <2>4, <2>5, <2>6 DEF CallsOK
  <2>8. call[c].cmd = "init" => /\ reg'[l].CTRL0A_ALWAYS_CNT = "0x1"
                                /\ reg'[l].DIAG_CTRL1 = BusyEvent(chip[l])
    BY <1>1, <1>2, <1>4, <1>7 DEF CallsOK
  <2>9. ProgrammedOrInit'
    BY <1>1, <1>2, <1>4, <1>7, <2>4, <2>5, <2>8
    DEF ProgrammedOrInit, Programmed, InitRunning
  <2> QED
    BY <2>3, <2>7, <2>9
<1> QED
  BY <1>6, <1>7

LEMMA OthersKeepInv ==
  ASSUME DriverInv,
         \/ \E c \in Client, l \in Lba : utilization_show(c, l)
         \/ \E c \in Client : utilization_show_cntr(c)
         \/ hplba_exit \/ hplba_init \/ Bus
         \/ UNCHANGED hplbaVars
  PROVE  DriverInv'
<1> USE DEF DriverInv
<1>1. ASSUME NEW c \in Client, NEW l \in Lba, utilization_show(c, l)
      PROVE  DriverInv'
  <2> DEFINE new == [pc |-> "cntr", lba |-> l, timer |-> timer[l]]
  <2>1. /\ new \in ShowCall /\ call[c] = Idle /\ loaded
        /\ call' = [call EXCEPT ![c] = new]
        /\ UNCHANGED <<loaded, reloads, util_state, reg, timer, cntr>>
    BY <1>1 DEF utilization_show, driver, hw, TypeOK, ShowCall
  <2>2. TypeOK'
    BY <2>1 DEF TypeOK, RegFile
  <2>3. CallsOK'
    BY <2>1 DEF CallsOK, TypeOK
  <2>4. ProgrammedOrInit'
    BY <2>1 DEF ProgrammedOrInit, Programmed, InitRunning, TypeOK, Idle
  <2> QED
    BY <2>2, <2>3, <2>4
<1>2. ASSUME NEW c \in Client, utilization_show_cntr(c)
      PROVE  DriverInv'
  <2>1. /\ call[c].pc = "cntr"
        /\ call' = [call EXCEPT ![c] = Idle]
        /\ UNCHANGED <<loaded, reloads, util_state, reg, timer, cntr>>
    BY <1>2 DEF utilization_show_cntr, driver, hw
  <2>2. TypeOK'
    BY <2>1 DEF TypeOK, RegFile
  <2>3. CallsOK'
    BY <2>1 DEF CallsOK, TypeOK, Idle
  <2>4. ProgrammedOrInit'
    BY <2>1 DEF ProgrammedOrInit, Programmed, InitRunning, TypeOK, Idle
  <2> QED
    BY <2>2, <2>3, <2>4
<1>3. ASSUME hplba_exit
      PROVE  DriverInv'
  <2>1. TypeOK'
    <3>1. loaded' \in BOOLEAN
      BY <1>3, Zenon DEF hplba_exit
    <3>2. reloads' = reloads + 1 /\ reloads < MaxReloads
      BY <1>3, Zenon DEF hplba_exit
    <3>3. reloads' \in 0 .. MaxReloads
      BY <3>2, HplbaAssumption DEF TypeOK
    <3>4. UNCHANGED <<util_state, reg, timer, cntr, call>>
      BY <1>3 DEF hplba_exit, hw
    <3> QED
      BY <3>1, <3>3, <3>4 DEF TypeOK, RegFile
  <2>2. CallsOK'
    BY <1>3 DEF hplba_exit, hw, CallsOK
  <2>3. ProgrammedOrInit'
    BY <1>3 DEF hplba_exit, hw, ProgrammedOrInit, Programmed, InitRunning
  <2> QED
    BY <2>1, <2>2, <2>3
<1>4. ASSUME hplba_init
      PROVE  DriverInv'
  <2>1. TypeOK'
    BY <1>4 DEF hplba_init, hw, TypeOK, RegFile, UtilStates
  <2>2. CallsOK'
    BY <1>4 DEF hplba_init, hw, CallsOK, Idle
  <2>3. ProgrammedOrInit'
    BY <1>4 DEF hplba_init, hw, ProgrammedOrInit
  <2> QED
    BY <2>1, <2>2, <2>3
<1>5. ASSUME NEW l \in Lba, NEW busy \in {0, 1}, BusCycle(l, busy)
      PROVE  DriverInv'
  <2>1. /\ UNCHANGED <<loaded, reloads, util_state, reg, call>>
        /\ \E dt, dc \in {0, 1} :
             \/ /\ timer' = [timer EXCEPT ![l] = (timer[l] + dt) % CntrMod]
                /\ cntr' = [cntr EXCEPT ![l] = (cntr[l] + dc) % CntrMod]
             \/ UNCHANGED <<timer, cntr>>
    BY <1>5 DEF BusCycle, driver
  <2>2. \A n \in Int : n % CntrMod \in 0 .. CntrMod - 1
    BY HplbaAssumption
  <2>3. \A dt \in {0, 1} : /\ (timer[l] + dt) % CntrMod \in 0 .. CntrMod - 1
                            /\ (cntr[l] + dt) % CntrMod \in 0 .. CntrMod - 1
    <3>1. timer[l] \in Int /\ cntr[l] \in Int
      BY HplbaAssumption DEF TypeOK
    <3>2. \A dt \in {0, 1} : timer[l] + dt \in Int /\ cntr[l] + dt \in Int
      BY <3>1
    <3> QED
      BY <2>2, <3>2
  <2>4. TypeOK'
    BY <2>1, <2>3 DEF TypeOK, RegFile
  <2>5. CallsOK' /\ ProgrammedOrInit'
    BY <2>1 DEF CallsOK, ProgrammedOrInit, Programmed, InitRunning
  <2> QED
    BY <2>4, <2>5
<1>6. ASSUME UNCHANGED hplbaVars
      PROVE  DriverInv'
  BY <1>6 DEF hplbaVars, driver, hw, TypeOK, RegFile, CallsOK, ProgrammedOrInit,
              Programmed, InitRunning
<1> QED
  BY <1>1, <1>2, <1>3, <1>4, <1>5, <1>6 DEF Bus

LEMMA DriverInvKept ==
  ASSUME DriverInv, [HplbaNext]_hplbaVars
  PROVE  DriverInv'
BY StoreKeepsInv, SetKeepsInv, UtilOpKeepsInv, OthersKeepInv, OpensAssumption
DEF HplbaNext, Call

\* DriverInv is an inductive invariant of the driver, for any number of
\* bridges and of clients in calls at the same time.
THEOREM DriverInvariant == HplbaSpec => []DriverInv
<1>1. HplbaInit => DriverInv
  BY DriverInvInit
<1>2. DriverInv /\ [HplbaNext]_hplbaVars => DriverInv'
  BY DriverInvKept
<1> QED
  BY <1>1, <1>2, PTL DEF HplbaSpec

\* Type correctness: no value outside the tables of hplba.h reaches util_state,
\* no register field gets a value that no operation writes, and no operation
\* runs past its last write.
THEOREM TypeCorrect == HplbaSpec => []TypeOK
  BY DriverInvariant, PTL DEF DriverInv

\* However the stores of any number of clients interleave, a bridge that has
\* left "unknown" and has no store in progress is programmed to count the busy
\* event (set_util_state and the util_init of the chipsets).
THEOREM ProgrammedTheorem == HplbaSpec => []ProgrammedWhenQuiet
<1>1. DriverInv => ProgrammedWhenQuiet
  BY DEF DriverInv, ProgrammedOrInit, ProgrammedWhenQuiet, InitRunning, NoStore
<1> QED
  BY <1>1, DriverInvariant, PTL

\* Only init takes a bridge out of "unknown", and only removing the driver
\* takes it back there, although set_util_state decides on a state that it
\* read before.
THEOREM InitFirstTheorem == HplbaSpec => InitFirst
<1> DEFINE Step(l) ==
      /\ util_state[l] = "unknown" => util_state'[l] \in {"unknown", "init"}
      /\ util_state'[l] = "unknown" /\ util_state[l] # "unknown" => ~loaded
<1>1. ASSUME DriverInv, [HplbaNext]_hplbaVars
      PROVE  [\A l \in Lba : Step(l)]_hplbaVars
  <2> USE DEF DriverInv
  <2>1. ASSUME NEW c \in Client, set_util_state(c)
        PROVE  \A l \in Lba : Step(l)
    <3>1. /\ call[c].lba \in Lba /\ call[c].cmd \in UtilCommands
          /\ call[c].pc = "check"
      BY <1>1, <2>1, CallKinds DEF set_util_state, CheckCall
    <3>2. \/ UNCHANGED util_state
          \/ /\ call[c].cur \in LegalFrom[call[c].cmd]
             /\ util_state' = [util_state EXCEPT ![call[c].lba] = call[c].cmd]
      BY <2>1 DEF set_util_state
    <3>3. /\ call[c].cur # "unknown" => util_state[call[c].lba] # "unknown"
          /\ call[c].cmd # "init" /\ call[c].cur \in LegalFrom[call[c].cmd] =>
               call[c].cur # "unknown"
          /\ call[c].cmd # "unknown"
      BY <1>1, <3>1 DEF CallsOK, LegalFrom, UtilCommands
    <3> QED
      BY <1>1, <3>1, <3>2, <3>3 DEF TypeOK
  <2>2. ASSUME hplba_init
        PROVE  \A l \in Lba : Step(l)
    BY <2>2 DEF hplba_init
  <2>3. ASSUME UNCHANGED util_state
        PROVE  \A l \in Lba : Step(l)
    BY <2>3
  <2>4. ASSUME NEW c \in Client, util_op(c)
        PROVE  UNCHANGED util_state
    BY <2>4 DEF util_op, driver
  <2> QED
    BY <1>1, <2>1, <2>2, <2>3, <2>4
    DEF HplbaNext, Call, Bus, BusCycle, utilization_store, utilization_show,
        utilization_show_cntr, hplba_exit, driver
<1> QED
  BY <1>1, DriverInvariant, PTL DEF HplbaSpec, InitFirst

-----------------------------------------------------------------------------
(* Bridges that one client uses.                                           *)

\* With nobody to get in between, the state that a store has read is still the
\* state when it acts on it, and the registers follow.
StoreOK(c) ==
  /\ call[c].pc = "check" => call[c].cur = util_state[call[c].lba]
  /\ call[c].pc = "regs" =>
       /\ util_state[call[c].lba] = call[c].cmd
       /\ call[c].i > 1 => reg[call[c].lba].DIAG_EN0 = "0x0"

InStore(c) == call[c].pc \in {"check", "regs"}

ExclusiveInv ==
  /\ \A c \in Client : InStore(c) =>
       /\ call[c].lba \in Opens[c]
       /\ Exclusive(call[c].lba) => StoreOK(c)
  /\ \A l \in Lba :
       Exclusive(l) /\ (\A c \in Client : call[c].pc = "regs" => call[c].lba # l) =>
         HwMatchesState(l)

ExclusiveStep == \A l \in Lba : Exclusive(l) => TransitionLegal(l)

\* A step of client c on bridge l keeps the invariant if it does for that
\* client and that bridge.
LEMMA LocalStep ==
  ASSUME DriverInv, ExclusiveInv, NEW c \in Client, NEW l \in Opens[c],
         \A d \in Client \ {c} : call'[d] = call[d],
         \A k \in Lba \ {l} : util_state'[k] = util_state[k] /\ reg'[k] = reg[k],
         InStore(c)' => call'[c].lba = l /\ (Exclusive(l) => StoreOK(c)'),
         InStore(c) => call[c].lba = l,
         Exclusive(l) /\ call'[c].pc # "regs" => HwMatchesState(l)'
  PROVE  ExclusiveInv'
<1>1. ASSUME NEW d \in Client \ {c}, InStore(d)'
      PROVE  /\ call'[d].lba \in Opens[d]
             /\ Exclusive(call'[d].lba) => StoreOK(d)'
  <2>1. InStore(d) /\ call'[d] = call[d] /\ call[d].lba \in Lba
    BY <1>1, CallKinds DEF InStore, DriverInv, CheckCall, RegsCall
  <2>2. call[d].lba \in Opens[d]
    BY <2>1 DEF ExclusiveInv
  <2>3. Exclusive(call[d].lba) => call[d].lba # l
    BY <2>2 DEF Exclusive
  <2> QED
    BY <2>1, <2>2, <2>3 DEF ExclusiveInv, StoreOK
<1>2. InStore(c)' => /\ call'[c].lba \in Opens[c]
                     /\ Exclusive(call'[c].lba) => StoreOK(c)'
  OBVIOUS
<1>3. ASSUME NEW k \in Lba, Exclusive(k), k # l,
             \A d \in Client : call'[d].pc = "regs" => call'[d].lba # k
      PROVE  HwMatchesState(k)'
  <2>1. \A d \in Client : call[d].pc = "regs" => call[d].lba # k
    BY <1>3 DEF InStore
  <2>2. HwMatchesState(k)
    BY <1>3, <2>1 DEF ExclusiveInv
  <2> QED
    BY <1>3, <2>2 DEF HwMatchesState
<1>4. ASSUME Exclusive(l), \A d \in Client : call'[d].pc = "regs" => call'[d].lba # l
      PROVE  HwMatchesState(l)'
  BY <1>4 DEF InStore
<1>5. \A k : Exclusive(k)' <=> Exclusive(k)
  BY DEF Exclusive
<1> QED
  BY <1>1, <1>2, <1>3, <1>4, <1>5 DEF ExclusiveInv

\* No other client is in a store on a bridge that c uses alone.
LEMMA Alone ==
  ASSUME ExclusiveInv, NEW c \in Client, NEW l \in Opens[c], Exclusive(l)
  PROVE  \A d \in Client \ {c} : InStore(d) => call[d].lba # l
  BY DEF ExclusiveInv, Exclusive

LEMMA ExclusiveInit == HplbaInit => ExclusiveInv
  BY DEF HplbaInit, ExclusiveInv, InStore, HwMatchesState, Idle

LEMMA ExclusiveKeeps ==
  ASSUME DriverInv, ExclusiveInv, [HplbaNext]_hplbaVars
  PROVE  ExclusiveInv' /\ [ExclusiveStep]_hplbaVars
<1> USE DEF DriverInv
<1>0. \A c \in Client : Opens[c] \subseteq Lba
  BY OpensAssumption
<1>1. ASSUME NEW c \in Client, NEW l \in Opens[c], NEW text \in Texts,
             utilization_store(c, l, text)
      PROVE  ExclusiveInv' /\ ExclusiveStep
  <2>1. /\ call[c] = Idle /\ call'[c].pc = "check" /\ call'[c].lba = l
        /\ call'[c].cur = util_state[l]
        /\ \A d \in Client \ {c} : call'[d] = call[d]
        /\ UNCHANGED <<util_state, reg>>
    BY <1>1 DEF utilization_store, driver, hw, TypeOK
  <2>2. Exclusive(l) => HwMatchesState(l)'
    BY <1>0, <2>1, Alone DEF ExclusiveInv, InStore, HwMatchesState, Idle
  <2>3. ExclusiveInv'
    BY <2>1, <2>2, LocalStep DEF InStore, StoreOK, Idle
  <2> QED
    BY <2>1, <2>3 DEF ExclusiveStep, TransitionLegal
<1>2. ASSUME NEW c \in Client, set_util_state(c)
      PROVE  ExclusiveInv' /\ ExclusiveStep
  <2>0. PICK l \in Lba : l = call[c].lba
    BY <1>2, CallKinds DEF set_util_state, CheckCall
  <2>1. /\ l \in Opens[c] /\ call[c].pc = "check"
        /\ Exclusive(l) => call[c].cur = util_state[l]
        /\ \A d \in Client \ {c} : call'[d] = call[d]
        /\ UNCHANGED reg
    BY <1>2, <2>0
    DEF set_util_state, hw, ExclusiveInv, InStore, StoreOK, TypeOK
  <2>2. \/ call'[c] = Idle /\ UNCHANGED util_state
        \/ /\ call[c].cur \in LegalFrom[call[c].cmd]
           /\ util_state' = [util_state EXCEPT ![l] = call[c].cmd]
           /\ call'[c] = [pc |-> "regs", lba |-> l, cmd |-> call[c].cmd, i |-> 1]
    BY <1>2, <2>0 DEF set_util_state, TypeOK
  <2>3. ExclusiveStep
    BY <2>1, <2>2 DEF ExclusiveStep, TransitionLegal, TypeOK
  <2>4. Exclusive(l) => HwMatchesState(l)
    BY <2>1, Alone DEF ExclusiveInv, InStore
  <2>5. /\ \A k \in Lba \ {l} : util_state'[k] = util_state[k] /\ reg'[k] = reg[k]
        /\ call'[c].pc # "regs" => UNCHANGED util_state
        /\ InStore(c)' => call'[c].lba = l /\ StoreOK(c)'
    BY <2>1, <2>2 DEF InStore, StoreOK, Idle, TypeOK
  <2>6. Exclusive(l) /\ call'[c].pc # "regs" => HwMatchesState(l)'
    BY <2>1, <2>4, <2>5 DEF HwMatchesState
  <2>7. ExclusiveInv'
    BY <2>0, <2>1, <2>5, <2>6, LocalStep
  <2> QED
    BY <2>3, <2>7
<1>3. ASSUME NEW c \in Client, util_op(c)
      PROVE  ExclusiveInv' /\ ExclusiveStep
  <2>0. PICK l \in Lba : l = call[c].lba
    BY <1>3, UtilOpStep
  <2>1. /\ call[c] \in RegsCall
        /\ UNCHANGED util_state
        /\ \A k \in Lba \ {l} : reg'[k] = reg[k]
        /\ reg'[l].DIAG_EN0 =
             IF call[c].i = 1 THEN EN0Of[call[c].cmd] ELSE reg[l].DIAG_EN0
    BY <1>3, <2>0, UtilOpStep DEF driver
  <2>2. call' = [call EXCEPT ![c] = IF call[c].cmd = "init" /\ call[c].i < 3
                   THEN [call[c] EXCEPT !.i = call[c].i + 1] ELSE Idle]
    BY <1>3, UtilOpStep
  <2>3. /\ call[c].pc = "regs" /\ call[c].cmd \in UtilCommands
        /\ call[c].i \in 1 .. 3 /\ l \in Opens[c]
        /\ call[c].cmd # "init" => call[c].i = 1
        /\ Exclusive(l) => /\ util_state[l] = call[c].cmd
                           /\ call[c].i > 1 => reg[l].DIAG_EN0 = "0x0"
    BY <2>0, <2>1 DEF RegsCall, CallsOK, ExclusiveInv, InStore, StoreOK
  <2>4. Exclusive(l) => reg'[l].DIAG_EN0 = EN0Of[call[c].cmd]
    <3>1. CASE call[c].i = 1
      BY <3>1, <2>1
    <3>2. CASE call[c].i # 1
      BY <3>2, <2>1, <2>3 DEF EN0Of
    <3> QED
      BY <3>1, <3>2
  <2>5. ExclusiveStep
    BY <2>1 DEF ExclusiveStep, TransitionLegal
  <2>6. /\ EN0Of["init"] = "0x0" /\ EN0Of["reset"] = "0xf"
        /\ EN0Of["start"] = "0x3" /\ EN0Of["stop"] = "0x0"
    BY DEF EN0Of
  <2>7. Exclusive(l) => HwMatchesState(l)'
    BY <2>1, <2>3, <2>4, <2>6 DEF HwMatchesState, UtilCommands
  <2>8. \A d \in Client \ {c} : call'[d] = call[d]
    BY <2>2 DEF TypeOK
  <2>9. InStore(c)' => call'[c].lba = l /\ (Exclusive(l) => StoreOK(c)')
    <3>1. CASE call[c].cmd = "init" /\ call[c].i < 3
      <4> DEFINE new == [call[c] EXCEPT !.i = call[c].i + 1]
      <4>1. new.pc = "regs" /\ new.lba = l /\ new.cmd = "init"
        BY <2>0, <2>1, <2>3, <3>1 DEF RegsCall
      <4>2. call' = [call EXCEPT ![c] = new]
        BY <2>2, <3>1, Zenon
      <4> HIDE DEF new
      <4>3. call'[c] = new
        BY <4>2 DEF TypeOK
      <4>4. Exclusive(l) => reg'[l].DIAG_EN0 = "0x0" /\ util_state'[l] = "init"
        BY <2>1, <2>3, <2>4, <2>6, <3>1
      <4> QED
        BY <4>1, <4>3, <4>4 DEF StoreOK
    <3>2. CASE ~(call[c].cmd = "init" /\ call[c].i < 3)
      <4>1. call' = [call EXCEPT ![c] = Idle]
        BY <2>2, <3>2, Zenon
      <4>2. call'[c] = Idle /\ Idle.pc = "idle"
        BY <4>1 DEF TypeOK, Idle
      <4> QED
        BY <4>2 DEF InStore
    <3> QED
      BY <3>1, <3>2
  <2>10. ExclusiveInv'
    <3>1. \A k \in Lba \ {l} : util_state'[k] = util_state[k] /\ reg'[k] = reg[k]
      BY <2>1
    <3> QED
      BY <2>0, <2>3, <2>7, <2>8, <2>9, <3>1, LocalStep
  <2> QED
    BY <2>5, <2>10
<1>4. ASSUME NEW c \in Client, NEW l \in Opens[c], utilization_show(c, l)
      PROVE  ExclusiveInv' /\ ExclusiveStep
  <2>1. /\ call[c] = Idle /\ call'[c].pc = "cntr"
        /\ \A d \in Client \ {c} : call'[d] = call[d]
        /\ UNCHANGED <<util_state, reg>>
    BY <1>4 DEF utilization_show, driver, hw, TypeOK
  <2> QED
    BY <2>1 DEF ExclusiveInv, ExclusiveStep, TransitionLegal, InStore, StoreOK,
                HwMatchesState, Exclusive, Idle
<1>5. ASSUME NEW c \in Client, utilization_show_cntr(c)
      PROVE  ExclusiveInv' /\ ExclusiveStep
  <2>1. /\ call[c].pc = "cntr" /\ call'[c] = Idle
        /\ \A d \in Client \ {c} : call'[d] = call[d]
        /\ UNCHANGED <<util_state, reg>>
    BY <1>5 DEF utilization_show_cntr, driver, hw, TypeOK
  <2> QED
    BY <2>1 DEF ExclusiveInv, ExclusiveStep, TransitionLegal, InStore, StoreOK,
                HwMatchesState, Exclusive, Idle
<1>6. ASSUME hplba_init
      PROVE  ExclusiveInv' /\ ExclusiveStep
  <2>1. /\ ~loaded /\ \A l \in Lba : util_state'[l] = "unknown"
        /\ UNCHANGED <<reg, call>>
        /\ \A c \in Client : call[c] = Idle
    BY <1>6 DEF hplba_init, hw, CallsOK
  <2> QED
    BY <2>1 DEF ExclusiveInv, ExclusiveStep, TransitionLegal, InStore,
                HwMatchesState, Idle
<1>7. ASSUME UNCHANGED <<util_state, reg, call>>
      PROVE  ExclusiveInv' /\ ExclusiveStep
  BY <1>7 DEF ExclusiveInv, ExclusiveStep, TransitionLegal, InStore, StoreOK,
              HwMatchesState, Exclusive
<1>8. ASSUME hplba_exit \/ Bus \/ UNCHANGED hplbaVars
      PROVE  UNCHANGED <<util_state, reg, call>>
  BY <1>8 DEF hplba_exit, Bus, BusCycle, hplbaVars, driver, hw
<1> QED
  BY <1>1, <1>2, <1>3, <1>4, <1>5, <1>6, <1>7, <1>8 DEF HplbaNext, Call

\* On a bridge that one client uses, whatever other clients do with other
\* bridges, util_state tells between stores what the counters are doing, and
\* every change of it is one that set_util_state's switches allow.
THEOREM ExclusiveTheorem == HplbaSpec => []StateMatchesHw /\ ExclusiveTransitions
<1>1. HplbaInit => ExclusiveInv
  BY ExclusiveInit
<1>2. DriverInv /\ ExclusiveInv /\ [HplbaNext]_hplbaVars =>
        ExclusiveInv' /\ [ExclusiveStep]_hplbaVars
  BY ExclusiveKeeps
<1>3. ExclusiveInv => StateMatchesHw
  BY DEF ExclusiveInv, StateMatchesHw, NoStore
<1> QED
  BY <1>1, <1>2, <1>3, DriverInvariant, PTL
  DEF HplbaSpec, ExclusiveTransitions, ExclusiveStep

=============================================================================
