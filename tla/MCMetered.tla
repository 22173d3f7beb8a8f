----------------------------- MODULE MCMetered ------------------------------
(***************************************************************************)
(* Small instances of pcitop and its driver.                               *)
(***************************************************************************)
EXTENDS Metered

CONSTANTS b1, b2, b3, p1

MCchip == [l \in Lba |->
  CHOOSE c \in Chips :
    \/ l = b1 /\ c = "apollo"
    \/ l = b2 /\ c = "mercury"
    \/ l = b3 /\ c = "gemini"]

\* Process p1 displays two bridges, the other one if it is there.
MCDisplay == [p \in Client |->
  IF p # p1 THEN << b3 >> ELSE IF b2 \in Lba THEN << b2, b1 >> ELSE << b1 >>]

\* A process uses the bridges that it displays.
MCOpens == [p \in Client |-> Displayed(p)]

=============================================================================
