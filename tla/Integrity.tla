----------------------------- MODULE Integrity -----------------------------
(***************************************************************************)
(* Slot names of HP Integrity machines (src/src/integrity.c).  A name is a *)
(* sequence of characters, each given by its distance from '0'.            *)
(***************************************************************************)
EXTENDS Integers, Sequences, SequencesExt

INTEGRITY_NONE == -1
Digits == 0..9
Plus   == -5          \* the character '+'
Minus  == -3          \* the character '-'

\* The digits that str begins with, as a decimal number.
ReadDigits(str) ==
  LET n == Max({k \in 0..Len(str) : \A i \in 1..k : str[i] \in Digits})
  IN  FoldLeft(LAMBDA value, d : 10 * value + d, 0, SubSeq(str, 1, n))

\* The sign that a number may begin with, and the text after it.
Negative(str) == str # <<>> /\ Head(str) = Minus
Unsigned(str) == IF str # <<>> /\ Head(str) \in {Plus, Minus} THEN Tail(str) ELSE str

\* sscanf(str, "%d", slot), where *slot was 0; atoi(str) is the same.
ScanNumber(str) ==
  IF Negative(str) THEN -ReadDigits(Unsigned(str)) ELSE ReadDigits(Unsigned(str))

\* The number of characters in front of the slot number: how often
\* slot_name++ is reached before the test len >= 2.
Leading(len) ==
  IF len = 5 THEN 3 ELSE IF len >= 4 THEN 2 ELSE IF len = 3 THEN 1 ELSE 0

\* *slot, from the name without the characters in front of it.
SlotNumber(rest) ==
  IF Len(rest) = 1 THEN rest[1]
  ELSE IF rest[1] = 0 THEN rest[2] ELSE ScanNumber(rest)

Faulty_integrity_parse_slot(name) ==  \* the arguments bay and chassis swapped
  LET len  == Len(name)
      lead == Leading(len)
  IN  [cabinet |-> IF len = 5 THEN name[1] ELSE 0,
       bay     |-> IF len >= 3 THEN name[lead] ELSE 0,
       chassis |-> IF len >= 4 THEN name[lead - 1] ELSE 0,
       slot    |-> SlotNumber(SubSeq(name, lead + 1, len))]

\* The location that a slot's name tells, for names of at least one character.
integrity_parse_slot(name) ==
  LET len  == Len(name)
      lead == Leading(len)
  IN  [cabinet |-> IF len = 5 THEN name[1] ELSE 0,
       bay     |-> IF len >= 4 THEN name[lead - 1] ELSE 0,
       chassis |-> IF len >= 3 THEN name[lead] ELSE 0,
       slot    |-> SlotNumber(SubSeq(name, lead + 1, len))]

\* The comment on integrity_parse_slot: the number WXYZZ names cabinet W, bay X,
\* chassis Y and slot ZZ, with what is left out taken as zero
\* (integrity.c:105-121).
PlaceOfNumber(n) ==
  [cabinet |-> n \div 10000, bay |-> (n \div 1000) % 10,
   chassis |-> (n \div 100) % 10, slot |-> n % 100]

\* integrity_slot_str: what "%d" prints for a slot number of up to two digits.
DigitsOf(n) == IF n < 10 THEN <<n>> ELSE <<n \div 10, n % 10>>
integrity_slot_str(slot) ==
  IF slot < 0 THEN <<Minus>> \o DigitsOf(-slot) ELSE DigitsOf(slot)

\* integrity_update_lba_info: slots are counted unless the number is NONE.
CountSlot(num_slots, slot) == IF slot = INTEGRITY_NONE THEN num_slots ELSE num_slots + 1

FaultyAddNumber(list, number) ==      \* found is not reset
  IF list # <<>> THEN list ELSE Append(list, number)

\* One of the three searches of integrity_update_sys_info: a number that is
\* not on the list is added at its end.  num_cabinets, num_bays and
\* num_chassis are the lengths of the lists.
AddNumber(list, number) ==
  IF Contains(list, number) THEN list ELSE Append(list, number)
=============================================================================
