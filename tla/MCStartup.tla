----------------------------- MODULE MCStartup -----------------------------
(***************************************************************************)
(* Small machines and command lines for pcitop's start.                    *)
(***************************************************************************)
EXTENDS Startup

CONSTANTS r1, r2, r3, b1, b2, b3, s1, s2, s3, eth0, eth1

\* r3 has no slots.
MCPciId == [l \in RootBridges |->
  CASE l = r1 -> <<0, 1>> [] l = r2 -> <<1, 10>> [] l = r3 -> <<0, 10>>]

\* Neither link of b3 can be read.  s2 is on it in a machine that has b3.
MCLink    == [b \in Buses |-> CASE b = b1 -> r1 [] b = b2 -> r2 [] b = b3 -> NULL]
MCAddress ==
  [s \in Slots |-> IF s = s3 THEN b2 ELSE IF s = s2 /\ b3 \in Buses THEN b3 ELSE b1]

\* Slots 8 and 10 in cabinet 1, bay 2, and slot 17 in bay 1 of cabinet 0; all
\* of them in a chassis 3.
MCSlotName == (s1 :> <<1, 2, 3, 0, 8>>) @@ (s2 :> <<1, 2, 3, 1, 0>>) @@ (s3 :> <<1, 3, 1, 7>>)

\* The slots 9 and 10 of one bridge, named by a machine with one cabinet, bay
\* and chassis, as in the example of the README; the other bridge has none.
ExampleSlotName == (s1 :> <<9>>) @@ (s2 :> <<1, 0>>)

MCInterfaces ==
  (eth0 :> [bridge |-> r2, direct |-> TRUE]) @@ (eth1 :> [bridge |-> r1, direct |-> FALSE])

\* Options without a number, and with one that is written as text.
Opt(opt, arg)         == [opt |-> opt, arg |-> arg, means |-> 0]
Num(opt, text, means) == [opt |-> opt, arg |-> text, means |-> means]

AllArgs ==
  {Opt("a", <<>>), Opt("o", <<>>), Opt("i", <<>>),
   Opt("P", <<0, 1>>), Opt("I", eth0), Opt("I", eth1),
   Num("D", <<Plus, 1>>, 1), Num("b", <<0, CharX, CharA + ToUpper>>, 10),
   Num("C", <<0, 1>>, 1), Num("B", <<1>>, 1), Num("A", <<3>>, 3),
   Num("S", <<1, 0>>, 10)}

\* Options that assign different fields commute, so of the orders of one
\* command line those are enough in which -a and -o, and -P and -I, come in
\* any order and all others in this one.
Rank == [i |-> 1, a |-> 2, o |-> 2, P |-> 3, I |-> 3, D |-> 4, b |-> 5,
         C |-> 6, B |-> 7, A |-> 8, S |-> 9]
RankedInit ==
  StartupInit /\ \A j, k \in DOMAIN argv : j < k => Rank[argv[j].opt] <= Rank[argv[k].opt]
RankedSpec == RankedInit /\ [][StartupNext]_startVars

\* Enough to list, to measure all, and to measure one; counts and times of
\* zero, below zero, and of no number at all, and a bus below zero, which is
\* as if the option were not given.
FewArgs == {Opt("i", <<>>), Num("b", <<1>>, 1), Num("S", <<8>>, 8)}
TextArgs == FewArgs \cup
  {Opt("h", <<>>), Opt("I", eth0), Num("c", <<0>>, 0), Num("c", <<Minus, 1>>, -1),
   Num("t", <<CharA>>, 0), Num("b", <<Minus, 1>>, -1)}

\* Results of less than 1000 per cent, of 1000 per cent, and of the difference
\* of two words of 64 bits in parts of one.
Widths == {RESULT_WIDTH, RESULT_WIDTH + 1, 25}

\* A machine and command lines as the properties of a start without failures
\* take them.
ASSUME NothingFailsAssumption ==
  Faults = {} => NothingFails /\ MachineAsNamed /\ ArgsMean
=============================================================================
