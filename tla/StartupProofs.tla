--------------------------- MODULE StartupProofs ----------------------------
(***************************************************************************)
(* pcitop from its command line to the measurement, for any machine, any   *)
(* command line and any failures; and, when nothing fails, that it         *)
(* displays and prints what the user asked for.                            *)
(***************************************************************************)
EXTENDS Startup, PciTreeProofs, FiniteSetTheorems, WellFoundedInduction

-----------------------------------------------------------------------------
(* Numbers: induction, and the greatest of a set.                          *)

LEMMA LeastNumber ==
  ASSUME NEW T \in SUBSET Nat, T # {}
  PROVE  \E x \in T : \A y \in T : x <= y
<1>1. \E x \in T : \A y \in T : <<y, x>> \notin OpToRel(<, Nat)
  BY NatLessThanWellFounded, WFMin
<1>2. PICK x \in T : \A y \in T : <<y, x>> \notin OpToRel(<, Nat)
  BY <1>1
<1>3. \A y \in T : ~(y < x)
  BY <1>2 DEF OpToRel
<1> QED
  BY <1>3

LEMMA NatSet ==
  ASSUME NEW S, 0 \in S, \A n \in Nat : n \in S => n + 1 \in S
  PROVE  \A n \in Nat : n \in S
<1> DEFINE T == {n \in Nat : n \notin S}
<1> SUFFICES ASSUME T # {}
             PROVE  FALSE
  OBVIOUS
<1>1. PICK x \in T : \A y \in T : x <= y
  BY LeastNumber
<1>2. x # 0 /\ x - 1 \in Nat /\ (x - 1) + 1 = x
  OBVIOUS
<1> QED
  BY <1>1, <1>2

LEMMA MaxFacts ==
  ASSUME NEW m \in Nat, NEW S \in SUBSET (0 .. m), S # {}
  PROVE  Max(S) \in S /\ \A y \in S : y <= Max(S)
<1> DEFINE U == {u \in Nat : \A y \in S : y <= u}
<1>1. m \in U
  OBVIOUS
<1>2. PICK u \in U : \A v \in U : u <= v
  BY <1>1, LeastNumber
<1>3. u \in S
  <2> SUFFICES ASSUME u \notin S
               PROVE  FALSE
    OBVIOUS
  <2>1. \A y \in S : y \in Nat /\ y < u
    OBVIOUS
  <2>2. u # 0
    <3>1. PICK y \in S : TRUE
      OBVIOUS
    <3>2. y \in Nat /\ y < u
      BY <2>1, <3>1
    <3> QED
      BY <3>2
  <2>3. u - 1 \in Nat /\ u - 1 < u
    BY <2>2
  <2>4. \A y \in S : y <= u - 1
    BY <2>1, <2>3
  <2>5. u - 1 \in U
    BY <2>3, <2>4
  <2> QED
    BY <1>2, <2>3, <2>5
<1>4. \E x \in S : \A y \in S : x >= y
  BY <1>3
<1> QED
  BY <1>4 DEF Max

-----------------------------------------------------------------------------
(* The digits of a text make a number.                                     *)

\* A fold over the places of s takes them from the greatest on down.  There is
\* a function that does it, and its values are numbers.
LEMMA FoldExists ==
  ASSUME NEW n \in Nat, NEW s \in [1 .. n -> Int], NEW b \in Nat
  PROVE  \E w \in [SUBSET (1 .. n) -> Int] : \A T \in SUBSET (1 .. n) :
           w[T] = IF T = {} THEN 0 ELSE b * w[T \ {Max(T)}] + s[Max(T)]
<1> DEFINE Step(w, T) == IF T = {} THEN 0 ELSE b * w[T \ {Max(T)}] + s[Max(T)]
           Folds(w, m) == /\ w \in [SUBSET (1 .. m) -> Int]
                          /\ \A T \in SUBSET (1 .. m) : w[T] = Step(w, T)
           S == {m \in Nat : m <= n => \E w : Folds(w, m)}
<1>1. ASSUME NEW m \in Nat, NEW T \in SUBSET (1 .. m), T # {}
      PROVE  Max(T) \in T /\ Max(T) \in 1 .. m /\ \A y \in T : y <= Max(T)
  <2>1. T \in SUBSET (0 .. m)
    OBVIOUS
  <2> QED
    BY <1>1, <2>1, MaxFacts
<1>2. 0 \in S
  <2> DEFINE w == [T \in SUBSET (1 .. 0) |-> 0]
  <2>1. Folds(w, 0)
    <3>1. \A T \in SUBSET (1 .. 0) : T = {}
      OBVIOUS
    <3> QED
      BY <3>1
  <2> HIDE DEF Folds
  <2> QED
    BY <2>1
<1>3. ASSUME NEW m \in Nat, m \in S
      PROVE  m + 1 \in S
  <2> HIDE DEF Folds
  <2> SUFFICES ASSUME m + 1 <= n
               PROVE  \E v : Folds(v, m + 1)
    OBVIOUS
  <2>1. PICK w : Folds(w, m)
    BY <1>3
  <2> USE DEF Folds
  <2> DEFINE v == [T \in SUBSET (1 .. m + 1) |->
                     IF m + 1 \in T THEN b * w[T \ {m + 1}] + s[m + 1] ELSE w[T]]
  <2>2. ASSUME NEW T \in SUBSET (1 .. m + 1)
        PROVE  v[T] = Step(v, T) /\ v[T] \in Int
    <3>1. CASE m + 1 \in T
      <4>1. Max(T) = m + 1
        BY <1>1, <3>1
      <4>2. T \ {m + 1} \in SUBSET (1 .. m) /\ s[m + 1] \in Int
        OBVIOUS
      <4>3. v[T \ {m + 1}] = w[T \ {m + 1}] /\ w[T \ {m + 1}] \in Int
        BY <2>1, <4>2
      <4>4. v[T] = b * w[T \ {m + 1}] + s[m + 1]
        BY <3>1
      <4>5. v[T] = Step(v, T)
        BY <3>1, <4>1, <4>3, <4>4
      <4> HIDE DEF v
      <4>6. v[T] \in Int
        BY <4>2, <4>3, <4>4
      <4> QED
        BY <4>5, <4>6
    <3>2. CASE m + 1 \notin T
      <4>1. T \in SUBSET (1 .. m)
        BY <3>2
      <4>2. v[T] = w[T] /\ w[T] = Step(w, T) /\ w[T] \in Int
        BY <2>1, <3>2, <4>1
      <4>3. T # {} => v[T \ {Max(T)}] = w[T \ {Max(T)}]
        BY <3>2, <4>1
      <4> QED
        BY <4>2, <4>3
    <3> QED
      BY <3>1, <3>2
  <2>3. Folds(v, m + 1)
    <3>1. v \in [SUBSET (1 .. m + 1) -> Int]
      <4> DEFINE D == SUBSET (1 .. m + 1)
      <4>1. DOMAIN v = D /\ \A T \in D : v[T] \in Int
        BY <2>2
      <4>2. v = [T \in D |-> v[T]]
        OBVIOUS
      <4> HIDE DEF v, D
      <4>3. v \in [D -> Int]
        BY <4>1, <4>2
      <4> QED
        BY <4>3 DEF D
    <3> QED
      BY <2>2, <3>1
  <2> HIDE DEF Folds, v
  <2> QED
    BY <2>3
<1> HIDE DEF Folds
<1>4. \A m \in Nat : m \in S
  <2> HIDE DEF S
  <2> QED
    BY <1>2, <1>3, NatSet
<1>5. PICK w : Folds(w, n)
  BY <1>4
<1> QED
  BY <1>5 DEF Folds

\* Reading digits goes place by place.
LEMMA HornerSteps ==
  ASSUME NEW s \in Seq(Int)
  PROVE  \E h \in [0 .. Len(s) -> Int] :
           /\ h[0] = 0
           /\ \A m \in 0 .. Len(s) - 1 : h[m + 1] = 10 * h[m] + s[m + 1]
           /\ FoldLeft(LAMBDA value, d : 10 * value + d, 0, s) = h[Len(s)]
<1> DEFINE n == Len(s)
           Step(w, T) == IF T = {} THEN 0 ELSE 10 * w[T \ {Max(T)}] + s[Max(T)]
           IsIter(w) == w = [T \in SUBSET (1 .. n) |-> Step(w, T)]
           iter == CHOOSE w : IsIter(w)
<1>1. n \in Nat /\ DOMAIN s = 1 .. n /\ s \in [1 .. n -> Int]
  OBVIOUS
<1>2. ASSUME NEW m \in Nat, NEW T \in SUBSET (1 .. m), T # {}
      PROVE  Max(T) \in T /\ Max(T) \in 1 .. m /\ \A y \in T : y <= Max(T)
  <2>1. T \in SUBSET (0 .. m)
    OBVIOUS
  <2> QED
    BY <1>2, <2>1, MaxFacts
<1>3. \E w : IsIter(w)
  <2> HIDE DEF n
  <2> DEFINE b == 10
  <2>0. n \in Nat /\ s \in [1 .. n -> Int] /\ b \in Nat
    BY <1>1
  <2> HIDE DEF b
  <2>1. PICK w \in [SUBSET (1 .. n) -> Int] : \A T \in SUBSET (1 .. n) :
          w[T] = IF T = {} THEN 0 ELSE b * w[T \ {Max(T)}] + s[Max(T)]
    BY <2>0, FoldExists, Zenon
  <2> USE DEF b
  <2>2. IsIter(w)
    BY <2>1
  <2> HIDE DEF IsIter
  <2> QED
    BY <2>2
<1>4. IsIter(iter)
  <2> HIDE DEF IsIter
  <2> QED
    BY <1>3
<1>5. \A T \in SUBSET (1 .. n) : iter[T] = Step(iter, T)
  <2> HIDE DEF iter
  <2> QED
    BY <1>4
<1> DEFINE h == [m \in 0 .. n |-> iter[1 .. m]]
<1>6. FoldLeft(LAMBDA value, d : 10 * value + d, 0, s) = iter[1 .. n]
  BY <1>1 DEF FoldLeft, MapThenFoldSet, iter, IsIter, Step
<1> HIDE DEF iter, IsIter
<1>7. h[0] = 0
  <2>1. 1 .. 0 = {} /\ {} \in SUBSET (1 .. n)
    OBVIOUS
  <2>2. iter[{}] = 0
    BY <1>5, <2>1
  <2> QED
    BY <1>1, <2>1, <2>2
<1>8. ASSUME NEW m \in 0 .. n - 1
      PROVE  h[m + 1] = 10 * h[m] + s[m + 1]
  <2> DEFINE T == 1 .. m + 1
  <2>0. m \in Nat /\ m + 1 \in 1 .. n
    BY <1>1
  <2>1. T \in SUBSET (1 .. n) /\ m + 1 \in T /\ m + 1 \in Nat /\ T \in SUBSET (1 .. m + 1)
    BY <1>1, <2>0
  <2>2. Max(T) = m + 1
    <3> HIDE DEF T
    <3>1. Max(T) \in 1 .. m + 1 /\ m + 1 <= Max(T)
      BY <1>2, <2>1
    <3> QED
      BY <2>0, <3>1
  <2>3. T \ {m + 1} = 1 .. m
    BY <2>0
  <2>4. iter[T] = Step(iter, T)
    BY <1>5, <2>1
  <2>5. h[m + 1] = iter[T] /\ h[m] = iter[1 .. m]
    BY <1>1
  <2> HIDE DEF T, h
  <2> QED
    BY <2>1, <2>2, <2>3, <2>4, <2>5
<1> HIDE DEF h
<1>9. \A m \in Nat : m <= n => h[m] \in Int
  <2> DEFINE S == {m \in Nat : m <= n => h[m] \in Int}
  <2>1. 0 \in S
    BY <1>7
  <2>2. ASSUME NEW m \in Nat, m \in S
        PROVE  m + 1 \in S
    <3> SUFFICES ASSUME m + 1 <= n
                 PROVE  h[m + 1] \in Int
      OBVIOUS
    <3>1. m \in 0 .. n - 1 /\ h[m] \in Int /\ m + 1 \in 1 .. n
      BY <1>1, <2>2
    <3>2. s[m + 1] \in Int
      BY <1>1, <3>1
    <3> QED
      BY <1>8, <3>1, <3>2
  <2> HIDE DEF S
  <2>3. \A m \in Nat : m \in S
    BY <2>1, <2>2, NatSet
  <2> QED
    BY <2>3 DEF S
<1>10. h \in [0 .. n -> Int]
  <2>1. \A m \in 0 .. n : h[m] \in Int
    BY <1>1, <1>9
  <2> QED
    BY <2>1 DEF h
<1>11. h[n] = iter[1 .. n]
  BY <1>1 DEF h
<1> QED
  BY <1>6, <1>7, <1>8, <1>10, <1>11

LEMMA DigitsFold ==
  ASSUME NEW s \in Seq(Digits)
  PROVE  FoldLeft(LAMBDA value, d : 10 * value + d, 0, s) \in Nat
<1> DEFINE n == Len(s)
<1>1. s \in Seq(Int) /\ n \in Nat /\ \A i \in 1 .. n : s[i] \in Nat
  BY DEF Digits
<1>2. PICK h \in [0 .. n -> Int] :
        /\ h[0] = 0
        /\ \A m \in 0 .. n - 1 : h[m + 1] = 10 * h[m] + s[m + 1]
        /\ FoldLeft(LAMBDA value, d : 10 * value + d, 0, s) = h[n]
  BY <1>1, HornerSteps
<1>3. h[0] = 0
  BY <1>2, Zenon
<1>4. \A m \in 0 .. n - 1 : h[m + 1] = 10 * h[m] + s[m + 1]
  BY <1>2, Zenon
<1> HIDE DEF n
<1> DEFINE S == {m \in Nat : m <= n => h[m] \in Nat}
<1>5. 0 \in S
  BY <1>3
<1>6. ASSUME NEW m \in Nat, m \in S
      PROVE  m + 1 \in S
  <2> SUFFICES ASSUME m + 1 <= n
               PROVE  h[m + 1] \in Nat
    OBVIOUS
  <2>1. m \in 0 .. n - 1 /\ h[m] \in Nat /\ m + 1 \in 1 .. n
    BY <1>1, <1>6
  <2>2. h[m + 1] = 10 * h[m] + s[m + 1] /\ s[m + 1] \in Nat
    BY <1>1, <1>4, <2>1
  <2> HIDE DEF S
  <2> QED
    BY <2>1, <2>2
<1> HIDE DEF S
<1>7. n \in S
  BY <1>1, <1>5, <1>6, NatSet
<1>8. h[n] \in Nat
  BY <1>1, <1>7 DEF S
<1> QED
  BY <1>2, <1>8, Zenon

LEMMA ElementsIn ==
  ASSUME NEW S, NEW n \in Nat, NEW q, q \in Seq(Int), DOMAIN q = 1 .. n,
         \A i \in 1 .. n : q[i] \in S
  PROVE  q \in Seq(S)
  OBVIOUS

LEMMA ReadDigitsNat ==
  ASSUME NEW str \in Seq(Int)
  PROVE  ReadDigits(str) \in Nat
<1> DEFINE K == {k \in 0 .. Len(str) : \A i \in 1 .. k : str[i] \in Digits}
           n == Max(K)
           t == SubSeq(str, 1, n)
<1>1. Len(str) \in Nat /\ DOMAIN str = 1 .. Len(str)
  OBVIOUS
<1>2. K \in SUBSET (0 .. Len(str)) /\ 0 \in K
  BY <1>1
<1>3. n \in K
  <2> HIDE DEF K
  <2> QED
    BY <1>1, <1>2, MaxFacts
<1> HIDE DEF n
<1>4. n \in 0 .. Len(str) /\ \A i \in 1 .. n : str[i] \in Digits
  BY <1>3
<1>5. Len(t) = n /\ \A i \in 1 .. n : t[i] = str[i]
  BY <1>1, <1>4
<1>6. t \in Seq(Int) /\ DOMAIN t = 1 .. n
  BY <1>1, <1>4, <1>5
<1>7. t \in Seq(Digits)
  <2>1. n \in Nat /\ \A i \in 1 .. n : t[i] \in Digits
    BY <1>1, <1>4, <1>5
  <2> HIDE DEF t
  <2> QED
    BY <1>6, <2>1, ElementsIn
<1>8. FoldLeft(LAMBDA value, d : 10 * value + d, 0, t) \in Nat
  <2> HIDE DEF t
  <2> QED
    BY <1>7, DigitsFold
<1> QED
  BY <1>8 DEF ReadDigits, n, t

\* Every character of a text of digits is read.
LEMMA DigitsSteps ==
  ASSUME NEW str \in Seq(Digits)
  PROVE  \E h \in [0 .. Len(str) -> Int] :
           /\ h[0] = 0
           /\ \A m \in 0 .. Len(str) - 1 : h[m + 1] = 10 * h[m] + str[m + 1]
           /\ ReadDigits(str) = h[Len(str)]
<1> DEFINE K == {k \in 0 .. Len(str) : \A i \in 1 .. k : str[i] \in Digits}
           n == Max(K)
<1>1. Len(str) \in Nat /\ \A i \in 1 .. Len(str) : str[i] \in Digits /\ str[i] \in Int
  BY DEF Digits
<1>2. K \in SUBSET (0 .. Len(str)) /\ Len(str) \in K
  BY <1>1
<1>3. n = Len(str)
  <2> DEFINE l == Len(str)
  <2> HIDE DEF K
  <2>1. n \in K /\ \A y \in K : y <= n
    BY <1>1, <1>2, MaxFacts
  <2>2. n \in 0 .. l /\ l <= n
    BY <1>2, <2>1
  <2> QED
    BY <1>1, <2>2
<1>4. SubSeq(str, 1, n) = str
  <2> DEFINE l == Len(str)
  <2>1. l \in Nat /\ DOMAIN str = 1 .. l /\ str = [i \in 1 .. l |-> str[i]]
    OBVIOUS
  <2> HIDE DEF n
  <2> QED
    BY <1>3, <2>1
<1>5. str \in Seq(Int)
  BY <1>1
<1>6. ReadDigits(str) = FoldLeft(LAMBDA value, d : 10 * value + d, 0, str)
  BY <1>4 DEF ReadDigits
<1> QED
  BY <1>5, <1>6, HornerSteps

LEMMA ScanNumberInt ==
  ASSUME NEW str \in Seq(Int)
  PROVE  ScanNumber(str) \in Int
<1>1. Unsigned(str) \in Seq(Int)
  BY DEF Unsigned
<1>2. ReadDigits(Unsigned(str)) \in Nat
  BY <1>1, ReadDigitsNat
<1> QED
  BY <1>2 DEF ScanNumber

LEMMA StrtoulRange ==
  ASSUME NEW str \in Seq(Int)
  PROVE  strtoul(str) \in 0 .. ULONG - 1
<1>1. ULONG \in Nat /\ ULONG > 60
  BY DEF ULONG
<1>2. ScanNumber(str) \in Int
  BY ScanNumberInt
<1> QED
  BY <1>1, <1>2 DEF strtoul

-----------------------------------------------------------------------------
(* The place of a slot.                                                    *)

\* The text in front of a slot number, and the number.
LEMMA SlotNumberIs ==
  ASSUME NEW name \in Seq(Digits), Len(name) \in 1 .. 5
  PROVE  SlotNumber(SubSeq(name, Leading(Len(name)) + 1, Len(name))) =
           IF Len(name) = 1 THEN name[1] ELSE 10 * name[Len(name) - 1] + name[Len(name)]
<1> DEFINE l == Len(name)
           lead == Leading(l)
           rest == SubSeq(name, lead + 1, l)
<1>1. l \in 1 .. 5 /\ \A i \in 1 .. l : name[i] \in 0 .. 9
  BY DEF Digits
<1>2. lead \in Nat /\ l - lead = IF l = 1 THEN 1 ELSE 2
  <2>1. l = 1 \/ l = 2 \/ l = 3 \/ l = 4 \/ l = 5
    BY <1>1
  <2> HIDE DEF l
  <2> QED
    BY <2>1 DEF Leading
<1> HIDE DEF lead
<1>3. Len(rest) = l - lead /\ \A i \in 1 .. l - lead : rest[i] = name[lead + i]
  BY <1>1, <1>2
<1> HIDE DEF rest
<1>4. CASE l = 1
  <2>1. lead = 0 /\ Len(rest) = 1
    BY <1>2, <1>3, <1>4
  <2>2. rest[1] = name[1]
    BY <1>2, <1>3, <1>4, <2>1
  <2> QED
    BY <1>4, <2>1, <2>2 DEF SlotNumber, rest, lead
<1>5. CASE l # 1
  <2>1. Len(rest) = 2 /\ lead + 1 = l - 1 /\ lead + 2 = l
    BY <1>1, <1>2, <1>3, <1>5
  <2>2. rest[1] = name[l - 1] /\ rest[2] = name[l]
    BY <1>2, <1>3, <1>5, <2>1
  <2>3. rest \in Seq(Digits)
    BY <1>1, <1>2 DEF rest
  <2>4. rest[1] \in 0 .. 9 /\ rest[2] \in 0 .. 9
    <3>0. ASSUME NEW k \in 1 .. 5, k # 1
          PROVE  k - 1 \in 1 .. k /\ k \in 1 .. k
      BY <3>0
    <3>1. l - 1 \in 1 .. l /\ l \in 1 .. l
      <4> HIDE DEF l
      <4> QED
        BY <1>1, <1>5, <3>0
    <3> QED
      BY <1>1, <2>2, <3>1
  <2>5. ReadDigits(rest) = 10 * rest[1] + rest[2]
    <3>1. PICK h \in [0 .. Len(rest) -> Int] :
            /\ h[0] = 0
            /\ \A m \in 0 .. Len(rest) - 1 : h[m + 1] = 10 * h[m] + rest[m + 1]
            /\ ReadDigits(rest) = h[Len(rest)]
      BY <2>3, DigitsSteps
    <3>2. h[1] = rest[1]
      BY <2>1, <2>4, <3>1
    <3>3. h[2] = 10 * h[1] + rest[2]
      BY <2>1, <3>1
    <3> QED
      BY <2>1, <3>1, <3>2, <3>3
  <2>6. ScanNumber(rest) = 10 * rest[1] + rest[2]
    <3>1. Head(rest) = rest[1] /\ rest # << >>
      <4>1. \A r \in Seq(Digits) : Len(r) = 2 => Head(r) = r[1] /\ r # << >>
        OBVIOUS
      <4> QED
        BY <2>1, <2>3, <4>1
    <3>2. Head(rest) # Minus /\ Head(rest) # Plus
      BY <2>4, <3>1 DEF Minus, Plus
    <3>3. ~Negative(rest) /\ Unsigned(rest) = rest
      BY <3>2 DEF Negative, Unsigned
    <3> QED
      BY <2>5, <3>3 DEF ScanNumber
  <2>7. SlotNumber(rest) = 10 * rest[1] + rest[2]
    BY <2>1, <2>4, <2>6 DEF SlotNumber
  <2> QED
    BY <1>5, <2>2, <2>7 DEF rest, lead
<1> QED
  BY <1>4, <1>5

\* The place that a name of up to five digits tells is the number WXYZZ of
\* cabinet W, bay X, chassis Y and slot ZZ (integrity_parse_slot,
\* integrity.c:105-121).
THEOREM PlaceTheorem ==
  ASSUME NEW name \in Seq(Digits), Len(name) \in 1 .. 5
  PROVE  integrity_parse_slot(name) = PlaceOfNumber(ReadDigits(name))
<1> DEFINE l == Len(name)
           n == ReadDigits(name)
           cab == IF l = 5 THEN name[1] ELSE 0
           bay == IF l >= 4 THEN name[Leading(l) - 1] ELSE 0
           cha == IF l >= 3 THEN name[Leading(l)] ELSE 0
           slt == IF l = 1 THEN name[1] ELSE 10 * name[l - 1] + name[l]
<1>1. l \in 1 .. 5 /\ \A i \in 1 .. l : name[i] \in 0 .. 9
  BY DEF Digits
<1>2. integrity_parse_slot(name) = [cabinet |-> cab, bay |-> bay, chassis |-> cha, slot |-> slt]
  BY SlotNumberIs DEF integrity_parse_slot
<1>3. PICK h \in [0 .. l -> Int] :
        /\ h[0] = 0
        /\ \A m \in 0 .. l - 1 : h[m + 1] = 10 * h[m] + name[m + 1]
        /\ n = h[l]
  BY DigitsSteps
<1> HIDE DEF n
<1>4. /\ cab \in 0 .. 9 /\ bay \in 0 .. 9 /\ cha \in 0 .. 9 /\ slt \in 0 .. 99
      /\ n = 10000 * cab + 1000 * bay + 100 * cha + slt
  <2>0. h[1] = name[1]
    BY <1>1, <1>3
  <2>1. CASE l = 1
    <3>1. cab = 0 /\ bay = 0 /\ cha = 0 /\ slt = name[1]
      BY <2>1
    <3>2. name[1] \in 0 .. 9
      BY <1>1, <2>1
    <3>3. n = name[1]
      BY <1>3, <2>0, <2>1
    <3> HIDE DEF cab, bay, cha, slt, l
    <3> QED
      BY <3>1, <3>2, <3>3
  <2>2. CASE l = 2
    <3>1. cab = 0 /\ bay = 0 /\ cha = 0 /\ slt = 10 * name[1] + name[2]
      BY <2>2
    <3>2. name[1] \in 0 .. 9 /\ name[2] \in 0 .. 9
      BY <1>1, <2>2
    <3>3. n = 10 * name[1] + name[2]
      BY <1>3, <2>0, <2>2
    <3> DEFINE a == name[1]
               b == name[2]
    <3> HIDE DEF cab, bay, cha, slt, l, a, b
    <3>4. a \in 0 .. 9 /\ b \in 0 .. 9
      BY <3>2 DEF a, b
    <3>5. cab = 0 /\ bay = 0 /\ cha = 0 /\ slt = 10 * a + b
      BY <3>1 DEF a, b
    <3>6. n = 10 * a + b
      BY <3>3 DEF a, b
    <3> QED
      BY <3>4, <3>5, <3>6
  <2>3. CASE l = 3
    <3>1. cab = 0 /\ bay = 0 /\ cha = name[1] /\ slt = 10 * name[2] + name[3]
      BY <2>3 DEF Leading
    <3>2. /\ name[1] \in 0 .. 9 /\ name[2] \in 0 .. 9 /\ name[3] \in 0 .. 9
      BY <1>1, <2>3
    <3>3. n = 10 * (10 * name[1] + name[2]) + name[3]
      BY <1>3, <2>0, <2>3
    <3> DEFINE a == name[1]
               b == name[2]
               c == name[3]
    <3> HIDE DEF cab, bay, cha, slt, l, a, b, c
    <3>4. a \in 0 .. 9 /\ b \in 0 .. 9 /\ c \in 0 .. 9
      BY <3>2 DEF a, b, c
    <3>5. cab = 0 /\ bay = 0 /\ cha = a /\ slt = 10 * b + c
      BY <3>1 DEF a, b, c
    <3>6. n = 10 * (10 * a + b) + c
      BY <3>3 DEF a, b, c
    <3> QED
      BY <3>4, <3>5, <3>6
  <2>4. CASE l = 4
    <3>1. cab = 0 /\ bay = name[1] /\ cha = name[2] /\ slt = 10 * name[3] + name[4]
      BY <2>4 DEF Leading
    <3>2. /\ name[1] \in 0 .. 9 /\ name[2] \in 0 .. 9 /\ name[3] \in 0 .. 9
          /\ name[4] \in 0 .. 9
      BY <1>1, <2>4
    <3>3. n = 10 * (10 * (10 * name[1] + name[2]) + name[3]) + name[4]
      BY <1>3, <2>0, <2>4
    <3> DEFINE a == name[1]
               b == name[2]
               c == name[3]
               d == name[4]
    <3> HIDE DEF cab, bay, cha, slt, l, a, b, c, d
    <3>4. a \in 0 .. 9 /\ b \in 0 .. 9 /\ c \in 0 .. 9 /\ d \in 0 .. 9
      BY <3>2 DEF a, b, c, d
    <3>5. cab = 0 /\ bay = a /\ cha = b /\ slt = 10 * c + d
      BY <3>1 DEF a, b, c, d
    <3>6. n = 10 * (10 * (10 * a + b) + c) + d
      BY <3>3 DEF a, b, c, d
    <3> QED
      BY <3>4, <3>5, <3>6
  <2>5. CASE l = 5
    <3>1. cab = name[1] /\ bay = name[2] /\ cha = name[3] /\ slt = 10 * name[4] + name[5]
      BY <2>5 DEF Leading
    <3>2. /\ name[1] \in 0 .. 9 /\ name[2] \in 0 .. 9 /\ name[3] \in 0 .. 9
          /\ name[4] \in 0 .. 9 /\ name[5] \in 0 .. 9
      BY <1>1, <2>5
    <3>3. n = 10 * (10 * (10 * (10 * name[1] + name[2]) + name[3]) + name[4]) + name[5]
      BY <1>3, <2>0, <2>5
    <3> DEFINE a == name[1]
               b == name[2]
               c == name[3]
               d == name[4]
               e == name[5]
    <3> HIDE DEF cab, bay, cha, slt, l, a, b, c, d, e
    <3>4. a \in 0 .. 9 /\ b \in 0 .. 9 /\ c \in 0 .. 9 /\ d \in 0 .. 9 /\ e \in 0 .. 9
      BY <3>2 DEF a, b, c, d, e
    <3>5. cab = a /\ bay = b /\ cha = c /\ slt = 10 * d + e
      BY <3>1 DEF a, b, c, d, e
    <3>6. n = 10 * (10 * (10 * (10 * a + b) + c) + d) + e
      BY <3>3 DEF a, b, c, d, e
    <3> QED
      BY <3>4, <3>5, <3>6
  <2> QED
    BY <1>1, <2>1, <2>2, <2>3, <2>4, <2>5
<1> HIDE DEF cab, bay, cha, slt
<1>5. n \div 10000 = cab
  BY <1>4
<1>6. (n \div 1000) % 10 = bay
  <2>1. n \div 1000 = 10 * cab + bay
    BY <1>4
  <2> QED
    BY <1>4, <2>1
<1>7. (n \div 100) % 10 = cha
  <2>1. n \div 100 = 10 * (10 * cab + bay) + cha
    BY <1>4
  <2> QED
    BY <1>4, <2>1
<1>8. n % 100 = slt
  BY <1>4
<1> QED
  BY <1>2, <1>5, <1>6, <1>7, <1>8 DEF n, PlaceOfNumber

-----------------------------------------------------------------------------
(* The inductive invariant.                                                *)

OptionNames == {"and", "domain", "bus", "lspci", "cabinet", "bay", "chassis",
                "slot", "show_info", "nsamples", "timeout", "num_lba",
                "num_lba_display"}
LbaNames == {"sysfs_root_bridge", "display", "num_slots", "cabinet", "bay",
             "chassis"}

Shape ==
  /\ pc \in {"options", "tree", "lbas", "locate", "filter", "show", "banner",
             "measure", "done", "usage", "exit", "crashed"}
  /\ argv \in Seq(Args) /\ Len(argv) <= MaxArgs
  /\ DOMAIN options = OptionNames
  /\ options.nsamples \in 0 .. ULONG - 1
  /\ options.num_lba \in Nat
  /\ DOMAIN lba = Lbas
  /\ \A l \in Lbas : DOMAIN lba[l] = LbaNames

\* Every bridge of the class directory comes on the list once.  The number of
\* bridges counts at most those on the list.
HostInv ==
  /\ host_lba_list \in Seq(Lbas)
  /\ \A i, j \in DOMAIN host_lba_list : host_lba_list[i] = host_lba_list[j] => i = j
  /\ entries \subseteq Lbas
  /\ entries \cap Range(host_lba_list) = {}
  /\ pc \in {"options", "tree"} => host_lba_list = << >>
  /\ pc = "locate" => host_lba_list # << >>
  /\ options.num_lba <= Len(host_lba_list)

\* Once bridges are read, the scan of the tree is over; each bridge on the list
\* has the root bridge that the search for it returned.
RootInv ==
  /\ pc \in {"lbas", "locate"} => phase = "tree_done"
  /\ \A l \in Lbas : lba[l].sysfs_root_bridge \in {l, NULL}
  /\ \A l \in Range(host_lba_list) : lba[l].sysfs_root_bridge = get_sysfs_root_bridge(l)

AtInv ==
  /\ at \in Nat \ {0}
  /\ pc = "options" => at <= Len(argv) + 1
  /\ pc = "locate" => at <= Len(SlotsOf(Current)) + 1
  /\ pc = "filter" => at <= Len(host_lba_list) + 1

\* The places on the list, up to n, of the bridges displayed.
ShownUpTo(list, info, n) == {k \in 1 .. n : info[list[k]].display}

\* The number of bridges displayed counts those that filter_lbas has passed.
CountInv ==
  /\ pc \in {"options", "tree", "lbas", "locate"} => options.num_lba_display = 0
  /\ pc = "filter" =>
       options.num_lba_display = Cardinality(ShownUpTo(host_lba_list, lba, at - 1))
  /\ Filtered =>
       options.num_lba_display =
         Cardinality(ShownUpTo(host_lba_list, lba, Len(host_lba_list)))

\* What CheckDrivers and Dispatch leave for the measurement.
ReadyInv ==
  /\ pc \notin {"options", "usage", "exit", "crashed"} => options.nsamples # 0
  /\ pc \in {"banner", "measure"} => options.num_lba_display # 0 /\ options.timeout # 0

StartInv ==
  /\ TreeInv
  /\ Shape /\ HostInv /\ RootInv /\ AtInv /\ CountInv /\ ReadyInv
  /\ LateCrashNeedsLostBridge

LEMMA ULongBig == ULONG \in Nat /\ ULONG > 60
  BY DEF ULONG

\* A command line of at most MaxArgs options.
LEMMA StartInitInv ==
  ASSUME StartupInit
  PROVE  StartInv
<1>1. TreeInv
  BY TreeInitInv DEF StartupInit
<1>2. /\ pc = "options" /\ options = NoOptions /\ entries = {} /\ host_lba_list = << >>
      /\ lba = [l \in Lbas |-> NewLba] /\ at = 1
  BY DEF StartupInit
<1>3. DOMAIN NoOptions = OptionNames /\ NoOptions.nsamples = 0 /\ NoOptions.num_lba = 0
      /\ NoOptions.num_lba_display = 0
  BY DEF NoOptions, OptionNames
<1>4. DOMAIN NewLba = LbaNames /\ NewLba.sysfs_root_bridge = NULL
  BY DEF NewLba, LbaNames
<1>5. argv \in Seq(Args) /\ Len(argv) <= MaxArgs
  <2>1. PICK n \in 0 .. MaxArgs : argv \in [1 .. n -> Args]
    BY DEF StartupInit
  <2>2. n \in Nat /\ MaxArgs \in Nat /\ n <= MaxArgs
    BY StartupAssumption
  <2> QED
    BY <2>1, <2>2
<1>6. Shape
  BY <1>2, <1>3, <1>4, <1>5, ULongBig DEF Shape
<1>7. HostInv
  BY <1>2, <1>3 DEF HostInv
<1>8. RootInv
  BY <1>2, <1>4, EmptyRange DEF RootInv
<1>9. AtInv
  BY <1>2, <1>5 DEF AtInv
<1>10. CountInv /\ ReadyInv
  BY <1>2, <1>3 DEF CountInv, ReadyInv, Filtered
<1>12. LateCrashNeedsLostBridge
  BY <1>2 DEF LateCrashNeedsLostBridge
<1> QED
  BY <1>1, <1>6, <1>7, <1>8, <1>9, <1>10, <1>12 DEF StartInv

-----------------------------------------------------------------------------
(* The options.                                                            *)

\* No option changes the numbers of bridges; -c sets a number of samples that
\* fits the word.
LEMMA AfterOptionFacts ==
  ASSUME NEW o, DOMAIN o = OptionNames, o.nsamples \in 0 .. ULONG - 1,
         NEW a \in Args, a.opt \notin {"h", "V"}
  PROVE  LET r == AfterOption(o, a)
         IN  /\ DOMAIN r = OptionNames
             /\ r.nsamples \in 0 .. ULONG - 1
             /\ r.num_lba = o.num_lba
             /\ r.num_lba_display = o.num_lba_display
<1> USE DEF OptionNames
<1>1. a.opt \in Opts /\ (a.opt = "c" => a.arg \in Seq(Int))
  BY StartupAssumption
<1>2. CASE a.opt = "a"
  BY <1>2 DEF AfterOption
<1>3. CASE a.opt = "o"
  BY <1>3 DEF AfterOption
<1>4. CASE a.opt = "D"
  BY <1>4 DEF AfterOption
<1>5. CASE a.opt = "b"
  BY <1>5 DEF AfterOption
<1>6. CASE a.opt = "P"
  BY <1>6 DEF AfterOption
<1>7. CASE a.opt = "I"
  BY <1>7 DEF AfterOption
<1>8. CASE a.opt = "C"
  BY <1>8 DEF AfterOption
<1>9. CASE a.opt = "B"
  BY <1>9 DEF AfterOption
<1>10. CASE a.opt = "A"
  BY <1>10 DEF AfterOption
<1>11. CASE a.opt = "S"
  BY <1>11 DEF AfterOption
<1>12. CASE a.opt = "i"
  BY <1>12 DEF AfterOption
<1>13. CASE a.opt = "c"
  <2>1. strtoul(a.arg) \in 0 .. ULONG - 1
    BY <1>1, <1>13, StrtoulRange
  <2> QED
    BY <1>13, <2>1 DEF AfterOption
<1>14. CASE a.opt = "t"
  BY <1>14 DEF AfterOption
<1> QED
  BY <1>1, <1>2, <1>3, <1>4, <1>5, <1>6, <1>7, <1>8, <1>9, <1>10, <1>11, <1>12, <1>13,
     <1>14 DEF Opts

\* Nothing is on the list yet, and nothing is printed.
LEMMA EarlyKeepsInv ==
  ASSUME StartInv, TreeInv', pc \in {"options", "tree"},
         pc' \in {"options", "tree", "usage", "exit"},
         UNCHANGED <<argv, entries, host_lba_list, lba, output>>,
         DOMAIN options' = OptionNames, options'.nsamples \in 0 .. ULONG - 1,
         options'.num_lba = options.num_lba,
         options'.num_lba_display = options.num_lba_display,
         pc' = "tree" => options'.nsamples # 0,
         at' \in Nat \ {0}, pc' = "options" => at' <= Len(argv) + 1
  PROVE  StartInv'
<1> USE DEF StartInv
<1>1. Shape'
  BY DEF Shape
<1>2. host_lba_list = << >>
  BY DEF HostInv
<1>3. HostInv'
  BY <1>2 DEF HostInv, Shape
<1>4. RootInv'
  BY <1>2, EmptyRange DEF RootInv
<1>5. AtInv'
  BY DEF AtInv
<1>6. CountInv' /\ ReadyInv'
  BY DEF CountInv, ReadyInv, Filtered
<1>7. LateCrashNeedsLostBridge'
  BY DEF LateCrashNeedsLostBridge
<1> QED
  BY <1>1, <1>3, <1>4, <1>5, <1>6, <1>7

\* A step of main is one of the scan, or leaves the lists of the scan alone.
LEMMA TreeMoves ==
  ASSUME [StartupNext]_startVars
  PROVE  [TreeNext]_treeVars
  BY DEF StartupNext, startVars, ParseOption, usage, CheckDrivers, create_sysfs_pci_tree,
         init_lbas, init_lba, InitLbaNoBuffer, InitLbaNoMemory, find_lba_location_info,
         NextEntry, filter_lbas, Dispatch, show_all_root_info, build_banner, print_line

LEMMA TreeStep ==
  ASSUME TreeInv, [StartupNext]_startVars
  PROVE  TreeInv'
  BY TreeMoves, TreeInvKept

LEMMA ParseOptionKeepsInv ==
  ASSUME StartInv, TreeInv', ParseOption
  PROVE  StartInv'
<1>1. /\ pc = "options" /\ at \in DOMAIN argv /\ at' = at + 1
      /\ argv[at].opt \notin {"h", "V"}
      /\ options' \in {AfterOption(options, argv[at]), options}
      /\ UNCHANGED <<pc, argv, entries, host_lba_list, lba, output>>
  BY DEF ParseOption
<1>2. /\ argv \in Seq(Args) /\ DOMAIN options = OptionNames
      /\ options.nsamples \in 0 .. ULONG - 1
  BY DEF StartInv, Shape
<1>3. argv[at] \in Args /\ at \in 1 .. Len(argv) /\ Len(argv) \in Nat
  BY <1>1, <1>2
<1>4. /\ DOMAIN options' = OptionNames /\ options'.nsamples \in 0 .. ULONG - 1
      /\ options'.num_lba = options.num_lba
      /\ options'.num_lba_display = options.num_lba_display
  <2>1. CASE options' = AfterOption(options, argv[at])
    BY <1>1, <1>2, <1>3, <2>1, AfterOptionFacts
  <2>2. CASE options' = options
    BY <1>2, <2>2
  <2> QED
    BY <1>1, <2>1, <2>2
<1>5. at' \in Nat \ {0} /\ at' <= Len(argv) + 1
  BY <1>1, <1>3
<1> QED
  BY <1>1, <1>4, <1>5, EarlyKeepsInv

LEMMA UsageKeepsInv ==
  ASSUME StartInv, TreeInv', usage
  PROVE  StartInv'
<1>1. pc = "options" /\ pc' = "usage" /\ UNCHANGED mainVars
  BY DEF usage
<1>2. /\ DOMAIN options = OptionNames /\ options.nsamples \in 0 .. ULONG - 1
      /\ at \in Nat \ {0}
  BY DEF StartInv, Shape, AtInv
<1> QED
  BY <1>1, <1>2, EarlyKeepsInv DEF mainVars

LEMMA CheckDriversKeepsInv ==
  ASSUME StartInv, TreeInv', CheckDrivers
  PROVE  StartInv'
<1>1. /\ pc = "options"
      /\ \/ /\ pc' = "tree"
            /\ options' = [options EXCEPT !.nsamples = IF @ = 0 THEN 60 ELSE @]
         \/ pc' = "exit" /\ options' = options
      /\ UNCHANGED <<argv, entries, host_lba_list, lba, output, at>>
  BY DEF CheckDrivers
<1>2. /\ DOMAIN options = OptionNames /\ options.nsamples \in 0 .. ULONG - 1
      /\ at \in Nat \ {0}
  BY DEF StartInv, Shape, AtInv
<1>3. /\ DOMAIN options' = OptionNames /\ options'.nsamples \in 0 .. ULONG - 1
      /\ options'.num_lba = options.num_lba
      /\ options'.num_lba_display = options.num_lba_display
      /\ pc' = "tree" => options'.nsamples # 0
  BY <1>1, <1>2, ULongBig DEF OptionNames
<1> QED
  BY <1>1, <1>2, <1>3, EarlyKeepsInv

LEMMA CreateTreeKeepsInv ==
  ASSUME StartInv, TreeInv', create_sysfs_pci_tree
  PROVE  StartInv'
<1>1. pc = "tree" /\ pc' = pc /\ UNCHANGED mainVars
  BY DEF create_sysfs_pci_tree
<1>2. /\ DOMAIN options = OptionNames /\ options.nsamples \in 0 .. ULONG - 1
      /\ at \in Nat \ {0} /\ options.nsamples # 0
  BY <1>1 DEF StartInv, Shape, AtInv, ReadyInv
<1> QED
  BY <1>1, <1>2, EarlyKeepsInv DEF mainVars

-----------------------------------------------------------------------------
(* The bridges.                                                            *)

LEMMA RootFound ==
  ASSUME NEW l \in Lbas
  PROVE  get_sysfs_root_bridge(l) \in {l, NULL}
  BY DEF get_sysfs_root_bridge

LEMMA SlotsTyped ==
  ASSUME NEW l \in Lbas, NEW r \in {l, NULL}, NEW list \in [RootBridges -> Seq(Slots)]
  PROVE  (IF r = NULL THEN << >> ELSE list[r]) \in Seq(Slots)
  BY StartupAssumption

LEMMA InitLbasKeepsInv ==
  ASSUME StartInv, TreeInv', init_lbas
  PROVE  StartInv'
<1>1. /\ pc = "tree" /\ phase = "tree_done" /\ phase' = phase /\ at' = 1
      /\ \/ pc' \in {"filter", "lbas"} /\ entries' = Lbas
         \/ pc' = "exit" /\ UNCHANGED entries
      /\ UNCHANGED <<argv, options, host_lba_list, lba, output>>
  BY DEF init_lbas, treeVars
<1> USE DEF StartInv
<1>2. Shape'
  BY <1>1 DEF Shape
<1>3. host_lba_list = << >>
  BY <1>1 DEF HostInv
<1>4. HostInv'
  <2>1. entries' \subseteq Lbas
    BY <1>1 DEF HostInv
  <2> QED
    BY <1>1, <1>3, <2>1, EmptyRange DEF HostInv
<1>5. RootInv'
  BY <1>1, <1>3, EmptyRange DEF RootInv
<1>6. AtInv'
  BY <1>1, <1>3 DEF AtInv
<1>7. CountInv' /\ ReadyInv'
  <2>1. ShownUpTo(host_lba_list', lba', at' - 1) = {}
    BY <1>1 DEF ShownUpTo
  <2>2. Cardinality(ShownUpTo(host_lba_list', lba', at' - 1)) = 0
    BY <2>1, FS_EmptySet
  <2>3. options.num_lba_display = 0 /\ options.nsamples # 0
    BY <1>1 DEF CountInv, ReadyInv
  <2>4. options'.num_lba_display = 0 /\ options'.nsamples # 0 /\ ~Filtered'
        /\ pc' \notin {"banner", "measure"}
    BY <1>1, <2>3 DEF Filtered
  <2> QED
    BY <2>2, <2>4 DEF CountInv, ReadyInv
<1>9. LateCrashNeedsLostBridge'
  BY <1>1 DEF LateCrashNeedsLostBridge
<1> QED
  BY <1>2, <1>4, <1>5, <1>6, <1>7, <1>9

\* A bridge comes on the list, with the root bridge found for it.
LEMMA RegisterKeepsInv ==
  ASSUME StartInv, TreeInv', pc = "lbas", NEW l \in entries, NEW info,
         DOMAIN info = LbaNames,
         info.sysfs_root_bridge = get_sysfs_root_bridge(l),
         entries' = entries \ {l},
         host_lba_list' = Append(host_lba_list, l),
         lba' = [lba EXCEPT ![l] = info],
         DOMAIN options' = OptionNames, options'.nsamples = options.nsamples,
         options'.num_lba \in Nat, options'.num_lba <= options.num_lba + 1,
         options'.num_lba_display = options.num_lba_display,
         pc' = "locate", at' = 1, UNCHANGED <<argv, output, phase, root_bridge_list, slots>>
  PROVE  StartInv'
<1> USE DEF StartInv
<1>1. /\ entries \subseteq Lbas /\ l \in Lbas /\ l \notin Range(host_lba_list)
      /\ host_lba_list \in Seq(Lbas)
      /\ options.num_lba \in Nat /\ options.num_lba <= Len(host_lba_list)
      /\ DOMAIN lba = Lbas
  BY DEF HostInv, Shape
<1>2. /\ host_lba_list' \in Seq(Lbas) /\ Range(host_lba_list') = Range(host_lba_list) \cup {l}
      /\ DOMAIN host_lba_list' = 1 .. Len(host_lba_list) + 1
      /\ DOMAIN host_lba_list = 1 .. Len(host_lba_list) /\ Len(host_lba_list) \in Nat
      /\ \A i \in DOMAIN host_lba_list : host_lba_list'[i] = host_lba_list[i]
      /\ host_lba_list'[Len(host_lba_list) + 1] = l
  BY <1>1, AppendFacts
<1>3. Len(host_lba_list') = Len(host_lba_list) + 1 /\ host_lba_list' # << >>
  BY <1>1
<1>4. /\ DOMAIN lba' = Lbas /\ lba'[l] = info
      /\ \A m \in Lbas \ {l} : lba'[m] = lba[m]
  BY <1>1
<1>5. Shape'
  <2>1. \A m \in Lbas : DOMAIN lba'[m] = LbaNames
    BY <1>4 DEF Shape
  <2> QED
    BY <1>4, <2>1 DEF Shape
<1>6. HostInv'
  <2>1. \A i, j \in DOMAIN host_lba_list' :
          host_lba_list'[i] = host_lba_list'[j] => i = j
    <3>1. SUFFICES ASSUME NEW i \in DOMAIN host_lba_list', NEW j \in DOMAIN host_lba_list',
                          host_lba_list'[i] = host_lba_list'[j]
                   PROVE  i = j
      OBVIOUS
    <3>2. CASE i \in DOMAIN host_lba_list /\ j \in DOMAIN host_lba_list
      BY <1>2, <3>1, <3>2 DEF HostInv
    <3>3. CASE i \notin DOMAIN host_lba_list /\ j \notin DOMAIN host_lba_list
      BY <1>2, <3>3
    <3>4. CASE i \in DOMAIN host_lba_list /\ j \notin DOMAIN host_lba_list
      <4>1. host_lba_list[i] = l
        BY <1>2, <3>1, <3>4
      <4> QED
        BY <1>1, <3>4, <4>1 DEF Range
    <3>5. CASE i \notin DOMAIN host_lba_list /\ j \in DOMAIN host_lba_list
      <4>1. host_lba_list[j] = l
        BY <1>2, <3>1, <3>5
      <4> QED
        BY <1>1, <3>5, <4>1 DEF Range
    <3> QED
      BY <3>2, <3>3, <3>4, <3>5
  <2>2. entries' \subseteq Lbas /\ entries' \cap Range(host_lba_list') = {}
    BY <1>1, <1>2 DEF HostInv
  <2>3. options'.num_lba <= Len(host_lba_list')
    BY <1>1, <1>2, <1>3
  <2> QED
    BY <1>2, <1>3, <2>1, <2>2, <2>3 DEF HostInv
<1>7. RootInv'
  <2>1. phase' = "tree_done"
    BY DEF RootInv
  <2>2. \A m \in Lbas : lba'[m].sysfs_root_bridge \in {m, NULL}
    BY <1>4, RootFound DEF RootInv
  <2>3. \A m \in Lbas : get_sysfs_root_bridge(m)' = get_sysfs_root_bridge(m)
    BY DEF get_sysfs_root_bridge
  <2>4. \A m \in Range(host_lba_list') :
          lba'[m].sysfs_root_bridge = get_sysfs_root_bridge(m)
    BY <1>1, <1>2, <1>4, RangeIn DEF RootInv
  <2>5. \A m \in Range(host_lba_list') : m \in Lbas
    BY <1>2, RangeIn
  <2>6. \A m \in Range(host_lba_list') :
          lba'[m].sysfs_root_bridge = get_sysfs_root_bridge(m)'
    BY <2>3, <2>4, <2>5
  <2> QED
    BY <2>1, <2>2, <2>6 DEF RootInv
<1>8. AtInv'
  <2>1. Current' = l
    BY <1>2, <1>3 DEF Current, Last
  <2>2. lba'[l].sysfs_root_bridge \in {l, NULL}
    BY <1>1, <1>7 DEF RootInv
  <2>3. slots' \in [RootBridges -> Seq(Slots)]
    BY DEF TreeInv, TreeTypeOK
  <2>4. SlotsOf(Current)' \in Seq(Slots)
    BY <1>1, <2>1, <2>2, <2>3, SlotsTyped DEF SlotsOf
  <2>5. Len(SlotsOf(Current)') \in Nat
    BY <2>4
  <2> QED
    BY <2>5 DEF AtInv
<1>9. CountInv' /\ ReadyInv'
  BY DEF CountInv, ReadyInv, Filtered
<1>10. LateCrashNeedsLostBridge'
  BY DEF LateCrashNeedsLostBridge
<1> QED
  BY <1>5, <1>6, <1>7, <1>8, <1>9, <1>10

LEMMA InitLbaKeepsInv ==
  ASSUME StartInv, TreeInv', init_lba
  PROVE  StartInv'
<1>1. PICK l \in entries :
        /\ entries' = entries \ {l}
        /\ host_lba_list' = Append(host_lba_list, l)
        /\ lba' = [lba EXCEPT ![l] = [NewLba EXCEPT
             !.display = TRUE, !.sysfs_root_bridge = get_sysfs_root_bridge(l)]]
  BY DEF init_lba
<1>2. /\ pc = "lbas" /\ pc' = "locate" /\ at' = 1
      /\ options' = [options EXCEPT !.num_lba = @ + 1]
      /\ UNCHANGED <<argv, output, phase, root_bridge_list, slots>>
  BY DEF init_lba, treeVars, lists
<1> DEFINE info == [NewLba EXCEPT !.display = TRUE,
                      !.sysfs_root_bridge = get_sysfs_root_bridge(l)]
<1>3. DOMAIN info = LbaNames /\ info.sysfs_root_bridge = get_sysfs_root_bridge(l)
  BY DEF NewLba, LbaNames
<1>4. lba' = [lba EXCEPT ![l] = info]
  BY <1>1
<1>5. /\ DOMAIN options' = OptionNames /\ options'.nsamples = options.nsamples
      /\ options'.num_lba = options.num_lba + 1
      /\ options'.num_lba_display = options.num_lba_display
      /\ options.num_lba \in Nat
  BY <1>2 DEF StartInv, Shape, OptionNames
<1> HIDE DEF info
<1>6. /\ options'.num_lba \in Nat /\ options'.num_lba <= options.num_lba + 1
      /\ entries' = entries \ {l} /\ host_lba_list' = Append(host_lba_list, l)
  BY <1>1, <1>5
<1> QED
  BY <1>2, <1>3, <1>4, <1>5, <1>6, RegisterKeepsInv

LEMMA InitLbaNoBufferKeepsInv ==
  ASSUME StartInv, TreeInv', InitLbaNoBuffer
  PROVE  StartInv'
<1>1. PICK l \in entries :
        /\ entries' = entries \ {l}
        /\ host_lba_list' = Append(host_lba_list, l)
        /\ lba' = [lba EXCEPT ![l] = [NewLba EXCEPT
             !.display = TRUE, !.sysfs_root_bridge = get_sysfs_root_bridge(l)]]
  BY DEF InitLbaNoBuffer
<1>2. /\ pc = "lbas" /\ pc' = "locate" /\ at' = 1 /\ options' = options
      /\ UNCHANGED <<argv, output, phase, root_bridge_list, slots>>
  BY DEF InitLbaNoBuffer, treeVars, lists
<1> DEFINE info == [NewLba EXCEPT !.display = TRUE,
                      !.sysfs_root_bridge = get_sysfs_root_bridge(l)]
<1>3. /\ DOMAIN info = LbaNames
      /\ info.sysfs_root_bridge = get_sysfs_root_bridge(l)
  BY DEF NewLba, LbaNames
<1>4. lba' = [lba EXCEPT ![l] = info]
  BY <1>1
<1>6. DOMAIN options' = OptionNames /\ options'.num_lba \in Nat
      /\ options'.num_lba <= options.num_lba + 1
  BY <1>2 DEF StartInv, Shape
<1> HIDE DEF info
<1> QED
  BY <1>1, <1>2, <1>3, <1>4, <1>6, RegisterKeepsInv

-----------------------------------------------------------------------------
(* The bridges displayed.                                                  *)

\* What is displayed of a list, up to each of its places.
Shown(list, info) ==
  CHOOSE upTo : upTo =
    [n \in 0 .. Len(list) |->
       IF n = 0 THEN << >>
       ELSE IF info[list[n]].display THEN Append(upTo[n - 1], list[n]) ELSE upTo[n - 1]]

LEMMA DisplayedIsShown ==
  Displayed = Shown(host_lba_list, lba)[Len(host_lba_list)]
  BY DEF Displayed, Shown

LEMMA ShownExists ==
  ASSUME NEW list, NEW info, Len(list) \in Nat
  PROVE  LET w == Shown(list, info)
         IN  /\ w[0] = << >>
             /\ \A n \in 1 .. Len(list) :
                  w[n] = IF info[list[n]].display THEN Append(w[n - 1], list[n])
                         ELSE w[n - 1]
<1> DEFINE Step(w, n) == IF info[list[n]].display THEN Append(w[n - 1], list[n])
                         ELSE w[n - 1]
           IsShown(w, m) == w = [n \in 0 .. m |-> IF n = 0 THEN << >> ELSE Step(w, n)]
           S == {m \in Nat : \E w : IsShown(w, m)}
<1>1. 0 \in S
  <2> DEFINE w == [n \in 0 .. 0 |-> << >>]
  <2>1. IsShown(w, 0)
    OBVIOUS
  <2> QED
    BY <2>1
<1>2. ASSUME NEW m \in Nat, m \in S
      PROVE  m + 1 \in S
  <2>1. PICK w : IsShown(w, m)
    BY <1>2
  <2> DEFINE v == [n \in 0 .. m + 1 |->
                     IF n = m + 1 THEN (IF info[list[n]].display
                                          THEN Append(w[m], list[n]) ELSE w[m])
                     ELSE w[n]]
  <2>2. \A n \in 0 .. m : w[n] = IF n = 0 THEN << >> ELSE Step(w, n)
    BY <2>1
  <2>3. \A n \in 0 .. m + 1 : v[n] = IF n = 0 THEN << >> ELSE Step(v, n)
    BY <2>2
  <2> HIDE DEF Step
  <2>4. IsShown(v, m + 1)
    BY <2>3
  <2> HIDE DEF IsShown, v
  <2> QED
    BY <2>4
<1>3. \E w : IsShown(w, Len(list))
  <2> HIDE DEF S
  <2>1. Len(list) \in S
    BY <1>1, <1>2, NatSet
  <2> QED
    BY <2>1 DEF S
<1>4. IsShown(Shown(list, info), Len(list))
  BY <1>3 DEF Shown
<1> DEFINE z == Shown(list, info)
<1>5. IsShown(z, Len(list))
  BY <1>4
<1> HIDE DEF z
<1> HIDE DEF Step
<1>6. \A n \in 0 .. Len(list) : z[n] = IF n = 0 THEN << >> ELSE Step(z, n)
  BY <1>5
<1>7. z[0] = << >>
  BY <1>6
<1>8. \A n \in 1 .. Len(list) : z[n] = Step(z, n)
  BY <1>6
<1> QED
  BY <1>7, <1>8 DEF z, Step

LEMMA ShownUpToFinite ==
  ASSUME NEW list, NEW info, NEW n \in Nat
  PROVE  /\ IsFiniteSet(ShownUpTo(list, info, n))
         /\ Cardinality(ShownUpTo(list, info, n)) \in Nat
<1>1. IsFiniteSet(1 .. n) /\ ShownUpTo(list, info, n) \in SUBSET (1 .. n)
  BY FS_Interval DEF ShownUpTo
<1> QED
  BY <1>1, FS_Subset, FS_CardinalityType

\* One more place of the list.
LEMMA ShownUpToNext ==
  ASSUME NEW list, NEW info, NEW n \in Nat
  PROVE  Cardinality(ShownUpTo(list, info, n + 1)) =
           Cardinality(ShownUpTo(list, info, n)) +
             (IF info[list[n + 1]].display THEN 1 ELSE 0)
<1> DEFINE S == ShownUpTo(list, info, n)
<1>1. IsFiniteSet(S) /\ Cardinality(S) \in Nat /\ n + 1 \notin S
  BY ShownUpToFinite DEF ShownUpTo
<1>2. CASE info[list[n + 1]].display
  <2>1. ShownUpTo(list, info, n + 1) = S \cup {n + 1}
    BY <1>2 DEF ShownUpTo
  <2> HIDE DEF S
  <2>2. Cardinality(S \cup {n + 1}) = Cardinality(S) + 1
    BY <1>1, FS_AddElement
  <2> QED
    BY <1>2, <2>1, <2>2 DEF S
<1>3. CASE ~info[list[n + 1]].display
  <2>1. ShownUpTo(list, info, n + 1) = S
    BY <1>3 DEF ShownUpTo
  <2> HIDE DEF S
  <2> QED
    BY <1>1, <1>3, <2>1 DEF S
<1> QED
  BY <1>2, <1>3

\* What is displayed of a list without repetition are the bridges displayed,
\* each once.
LEMMA ShownFacts ==
  ASSUME NEW S, NEW list \in Seq(S), NEW info,
         \A i, j \in DOMAIN list : list[i] = list[j] => i = j
  PROVE  LET d == Shown(list, info)[Len(list)]
         IN  /\ d \in Seq(S)
             /\ Len(d) = Cardinality(ShownUpTo(list, info, Len(list)))
             /\ Range(d) = {list[k] : k \in ShownUpTo(list, info, Len(list))}
             /\ \A i, j \in DOMAIN d : d[i] = d[j] => i = j
<1> DEFINE w == Shown(list, info)
           L == Len(list)
           Good(n) == n <= L =>
             /\ w[n] \in Seq(S)
             /\ Len(w[n]) = Cardinality(ShownUpTo(list, info, n))
             /\ Range(w[n]) = {list[k] : k \in ShownUpTo(list, info, n)}
             /\ \A i, j \in DOMAIN w[n] : w[n][i] = w[n][j] => i = j
<1>1. /\ L \in Nat /\ DOMAIN list = 1 .. L
      /\ \A k \in 1 .. L : list[k] \in S
  OBVIOUS
<1>2. /\ w[0] = << >>
      /\ \A n \in 1 .. L : w[n] = IF info[list[n]].display THEN Append(w[n - 1], list[n])
                                  ELSE w[n - 1]
  BY <1>1, ShownExists
<1> HIDE DEF w, L
<1>3. Good(0)
  <2>1. ShownUpTo(list, info, 0) = {}
    BY DEF ShownUpTo
  <2>2. Cardinality({}) = 0
    BY FS_EmptySet
  <2>3. << >> \in Seq(S) /\ Len(<< >>) = 0 /\ Range(<< >>) = {}
    BY EmptyRange
  <2>4. {list[k] : k \in {}} = {}
    OBVIOUS
  <2>5. w[0] \in Seq(S) /\ Len(w[0]) = Cardinality(ShownUpTo(list, info, 0))
    BY <1>2, <2>1, <2>2, <2>3
  <2>6. Range(w[0]) = {list[k] : k \in ShownUpTo(list, info, 0)}
    BY <1>2, <2>1, <2>3, <2>4
  <2>7. \A i, j \in DOMAIN w[0] : w[0][i] = w[0][j] => i = j
    BY <1>2
  <2> QED
    BY <2>5, <2>6, <2>7
<1>4. ASSUME NEW n \in Nat, Good(n)
      PROVE  Good(n + 1)
  <2> SUFFICES ASSUME n + 1 <= L
               PROVE  /\ w[n + 1] \in Seq(S)
                      /\ Len(w[n + 1]) = Cardinality(ShownUpTo(list, info, n + 1))
                      /\ Range(w[n + 1]) = {list[k] : k \in ShownUpTo(list, info, n + 1)}
                      /\ \A i, j \in DOMAIN w[n + 1] : w[n + 1][i] = w[n + 1][j] => i = j
    OBVIOUS
  <2> DEFINE before == w[n]
             e == list[n + 1]
             old == ShownUpTo(list, info, n)
             new == ShownUpTo(list, info, n + 1)
  <2>1. /\ before \in Seq(S) /\ Len(before) = Cardinality(old)
        /\ Range(before) = {list[k] : k \in old}
        /\ \A i, j \in DOMAIN before : before[i] = before[j] => i = j
    BY <1>1, <1>4
  <2>2. n + 1 \in 1 .. L /\ (n + 1) - 1 = n /\ e \in S
    BY <1>1
  <2>3. w[n + 1] = IF info[e].display THEN Append(before, e) ELSE before
    BY <1>2, <2>2
  <2>4. Cardinality(new) = Cardinality(old) + (IF info[e].display THEN 1 ELSE 0)
    BY ShownUpToNext
  <2>5. Cardinality(old) \in Nat
    BY ShownUpToFinite
  <2>6. new = IF info[e].display THEN old \cup {n + 1} ELSE old
    BY <2>2 DEF ShownUpTo
  <2>7. e \notin Range(before)
    <3>1. \A k \in old : k \in 1 .. L /\ k # n + 1
      BY <1>1, <2>2 DEF ShownUpTo
    <3>2. \A k \in old : list[k] # e
      BY <1>1, <2>2, <3>1
    <3> QED
      BY <2>1, <3>2
  <2> HIDE DEF before, e, old, new
  <2>8. CASE info[e].display
    <3>1. /\ Append(before, e) \in Seq(S)
          /\ Range(Append(before, e)) = Range(before) \cup {e}
          /\ DOMAIN Append(before, e) = 1 .. (Len(before) + 1)
          /\ DOMAIN before = 1 .. Len(before) /\ Len(before) \in Nat
          /\ \A i \in DOMAIN before : Append(before, e)[i] = before[i]
          /\ Append(before, e)[Len(before) + 1] = e
      BY <2>1, <2>2, AppendFacts
    <3>2. Len(Append(before, e)) = Len(before) + 1
      BY <2>1, <2>2
    <3> DEFINE after == Append(before, e)
    <3> HIDE DEF after
    <3>3. \A i \in DOMAIN before : before[i] # e
      BY <2>7 DEF Range
    <3>4. \A i, j \in DOMAIN after : after[i] = after[j] => i = j
      BY <2>1, <3>1, <3>3 DEF after
    <3>5. w[n + 1] = after
      BY <2>3, <2>8 DEF after
    <3>6. new = old \cup {n + 1} /\ Cardinality(new) = Cardinality(old) + 1
      BY <2>4, <2>6, <2>8
    <3>7. {list[k] : k \in old \cup {n + 1}} = {list[k] : k \in old} \cup {e}
      BY DEF e
    <3>8. Range(after) = {list[k] : k \in new} /\ Len(after) = Cardinality(new)
      BY <2>1, <3>1, <3>2, <3>6, <3>7 DEF after
    <3>9. after \in Seq(S)
      BY <3>1 DEF after
    <3> QED
      BY <3>4, <3>5, <3>8, <3>9 DEF new
  <2>9. CASE ~info[e].display
    <3>1. w[n + 1] = before /\ new = old
      BY <2>3, <2>6, <2>9
    <3> QED
      BY <2>1, <3>1 DEF new
  <2> QED
    BY <2>8, <2>9
<1> HIDE DEF Good
<1>5. Good(L)
  <2> DEFINE G == {n \in Nat : Good(n)}
  <2>1. 0 \in G /\ \A n \in Nat : n \in G => n + 1 \in G
    BY <1>3, <1>4
  <2> HIDE DEF G
  <2>2. \A n \in Nat : n \in G
    BY <2>1, NatSet
  <2> QED
    BY <1>1, <2>2 DEF G
<1> QED
  BY <1>1, <1>5 DEF Good, w, L

-----------------------------------------------------------------------------
(* The other steps.                                                        *)

LEMMA LostBridge ==
  ASSUME StartInv, NEW l \in Range(host_lba_list), lba[l].sysfs_root_bridge = NULL
  PROVE  Range(root_bridge_list) # RootBridges
<1>1. l \in Lbas /\ l \in RootBridges /\ l # NULL
  BY StartupAssumption, TreeAssumption, RangeIn DEF StartInv, HostInv
<1>2. get_sysfs_root_bridge(l) = NULL
  BY DEF StartInv, RootInv
<1> QED
  BY <1>1, <1>2 DEF get_sysfs_root_bridge

LEMMA EndKeepsInv ==
  ASSUME StartInv, TreeInv', pc' \in {"exit", "crashed"},
         UNCHANGED <<argv, options, entries, host_lba_list, lba, at, output,
                     root_bridge_list>>,
         pc' = "crashed" => entries # {} \/ Range(root_bridge_list) # RootBridges
  PROVE  StartInv'
<1> USE DEF StartInv
<1>1. Shape'
  BY DEF Shape
<1>2. HostInv'
  BY DEF HostInv
<1>3. RootInv'
  BY DEF RootInv, get_sysfs_root_bridge
<1>4. AtInv' /\ CountInv' /\ ReadyInv'
  BY DEF AtInv, CountInv, ReadyInv, Filtered
<1>5. LateCrashNeedsLostBridge'
  BY DEF LateCrashNeedsLostBridge
<1> QED
  BY <1>1, <1>2, <1>3, <1>4, <1>5

LEMMA InitLbaNoMemoryKeepsInv ==
  ASSUME StartInv, TreeInv', InitLbaNoMemory
  PROVE  StartInv'
  BY EndKeepsInv DEF InitLbaNoMemory, mainVars, treeVars, lists

LEMMA LocateKeepsInv ==
  ASSUME StartInv, TreeInv', find_lba_location_info
  PROVE  StartInv'
<1> USE DEF StartInv
<1> DEFINE c == Current
           place == integrity_parse_slot(SlotName[SlotsOf(c)[at]])
<1>1. /\ pc = "locate" /\ at \in DOMAIN SlotsOf(c)
      /\ lba' = [lba EXCEPT ![c] = [@ EXCEPT
              !.cabinet = place.cabinet, !.bay = place.bay,
              !.chassis = place.chassis,
              !.num_slots = CountSlot(@, place.slot)]]
      /\ at' = at + 1
      /\ UNCHANGED <<pc, argv, options, entries, host_lba_list, output, phase,
                     root_bridge_list, slots>>
  BY DEF find_lba_location_info, treeVars, lists
<1>2. /\ host_lba_list \in Seq(Lbas) /\ host_lba_list # << >>
  BY <1>1 DEF HostInv
<1>3. c \in Lbas
  BY <1>2 DEF Current, Last
<1>4. DOMAIN lba = Lbas /\ \A m \in Lbas : DOMAIN lba[m] = LbaNames
  BY DEF Shape
<1> HIDE DEF place
<1>5. /\ DOMAIN lba' = Lbas
      /\ \A m \in Lbas :
           /\ DOMAIN lba'[m] = LbaNames
           /\ lba'[m].sysfs_root_bridge = lba[m].sysfs_root_bridge
  BY <1>1, <1>3, <1>4 DEF LbaNames
<1>6. c' = c
  BY <1>1 DEF Current
<1>7. lba[c].sysfs_root_bridge \in {c, NULL} /\ slots \in [RootBridges -> Seq(Slots)]
  BY <1>3 DEF RootInv, TreeInv, TreeTypeOK
<1>8. SlotsOf(c) \in Seq(Slots)
  BY <1>3, <1>7, SlotsTyped DEF SlotsOf
<1> HIDE DEF c
<1>9. SlotsOf(c)' = SlotsOf(c)
  BY <1>1, <1>3, <1>5, <1>6 DEF SlotsOf
<1>10. Shape'
  BY <1>1, <1>5 DEF Shape
<1>11. HostInv'
  BY <1>1 DEF HostInv
<1>12. RootInv'
  <2>1. \A m \in Range(host_lba_list) : m \in Lbas
    BY <1>2, RangeIn
  <2> QED
    BY <1>1, <1>5, <2>1 DEF RootInv, get_sysfs_root_bridge
<1>13. AtInv'
  <2>1. at \in 1 .. Len(SlotsOf(c)) /\ Len(SlotsOf(c)) \in Nat
    BY <1>1, <1>8
  <2>2. at' \in Nat \ {0} /\ at' <= Len(SlotsOf(c)) + 1
    BY <1>1, <2>1
  <2>3. SlotsOf(Current)' = SlotsOf(c)
    BY <1>9 DEF c
  <2> QED
    BY <1>1, <2>2, <2>3 DEF AtInv
<1>14. CountInv' /\ ReadyInv'
  BY <1>1 DEF CountInv, ReadyInv, Filtered
<1>15. LateCrashNeedsLostBridge'
  BY <1>1 DEF LateCrashNeedsLostBridge
<1> QED
  BY <1>10, <1>11, <1>12, <1>13, <1>14, <1>15

LEMMA NextEntryKeepsInv ==
  ASSUME StartInv, TreeInv', NextEntry
  PROVE  StartInv'
<1> USE DEF StartInv
<1>1. /\ pc = "locate" /\ pc' \in {"filter", "lbas"} /\ at' = 1
      /\ UNCHANGED <<argv, options, entries, host_lba_list, lba, output, phase,
                     root_bridge_list>>
  BY DEF NextEntry, treeVars, lists
<1>2. Shape' /\ HostInv'
  BY <1>1 DEF Shape, HostInv
<1>3. RootInv'
  BY <1>1 DEF RootInv, get_sysfs_root_bridge
<1>4. AtInv'
  <2>1. Len(host_lba_list) \in Nat
    BY DEF HostInv
  <2> QED
    BY <1>1, <2>1 DEF AtInv
<1>5. CountInv'
  <2>1. ShownUpTo(host_lba_list', lba', at' - 1) = {}
    BY <1>1 DEF ShownUpTo
  <2>2. Cardinality(ShownUpTo(host_lba_list', lba', at' - 1)) = 0
    BY <2>1, FS_EmptySet
  <2>3. options'.num_lba_display = 0 /\ ~Filtered'
    BY <1>1 DEF CountInv, Filtered
  <2> QED
    BY <2>2, <2>3 DEF CountInv
<1>6. ReadyInv'
  BY <1>1 DEF ReadyInv
<1>7. LateCrashNeedsLostBridge'
  BY <1>1 DEF LateCrashNeedsLostBridge
<1> QED
  BY <1>2, <1>3, <1>4, <1>5, <1>6, <1>7

LEMMA FilterKeepsInv ==
  ASSUME StartInv, TreeInv', filter_lbas
  PROVE  StartInv'
<1> USE DEF StartInv
<1> DEFINE l == host_lba_list[at]
<1>1. /\ pc = "filter" /\ at \in DOMAIN host_lba_list
      /\ UNCHANGED <<argv, entries, host_lba_list, output, phase, root_bridge_list>>
      /\ IF FilterCrashes(l)
           THEN pc' = "crashed" /\ UNCHANGED <<lba, options, at>>
           ELSE /\ lba' = [lba EXCEPT ![l].display = Displays(l)]
                /\ options' = [options EXCEPT !.num_lba_display =
                                 IF Displays(l) THEN @ + 1 ELSE @]
                /\ at' = at + 1
                /\ UNCHANGED pc
  BY DEF filter_lbas, treeVars, lists
<1>2. /\ host_lba_list \in Seq(Lbas) /\ at \in 1 .. Len(host_lba_list)
      /\ Len(host_lba_list) \in Nat /\ l \in Lbas /\ l \in Range(host_lba_list)
      /\ \A i, j \in DOMAIN host_lba_list : host_lba_list[i] = host_lba_list[j] => i = j
  BY <1>1 DEF HostInv, Range
<1>3. CASE FilterCrashes(l)
  <2>1. lba[l].sysfs_root_bridge = NULL
    BY <1>3 DEF FilterCrashes
  <2>2. Range(root_bridge_list) # RootBridges
    BY <1>2, <2>1, LostBridge
  <2> HIDE DEF l
  <2> QED
    BY <1>1, <1>3, <2>2, EndKeepsInv
<1>4. CASE ~FilterCrashes(l)
  <2> DEFINE shows == Displays(l)
  <2> HIDE DEF shows
  <2>1. /\ pc' = "filter" /\ at' = at + 1
        /\ lba' = [lba EXCEPT ![l].display = shows]
        /\ options' = [options EXCEPT !.num_lba_display = IF shows THEN @ + 1 ELSE @]
    BY <1>1, <1>4 DEF shows
  <2>2. DOMAIN lba = Lbas /\ \A m \in Lbas : DOMAIN lba[m] = LbaNames
    BY DEF Shape
  <2>3. /\ DOMAIN lba' = Lbas
        /\ \A m \in Lbas :
             /\ DOMAIN lba'[m] = LbaNames
             /\ lba'[m].sysfs_root_bridge = lba[m].sysfs_root_bridge
        /\ \A m \in Lbas \ {l} : lba'[m] = lba[m]
        /\ lba'[l].display <=> shows
    BY <1>2, <2>1, <2>2 DEF LbaNames
  <2>4. /\ DOMAIN options' = OptionNames
        /\ options'.nsamples = options.nsamples
        /\ options'.num_lba = options.num_lba
        /\ options'.num_lba_display =
             IF shows THEN options.num_lba_display + 1 ELSE options.num_lba_display
    BY <2>1 DEF Shape, OptionNames
  <2>5. Shape'
    BY <1>1, <2>1, <2>3, <2>4 DEF Shape
  <2>6. HostInv'
    BY <1>1, <2>1, <2>4 DEF HostInv
  <2>7. RootInv'
    <3>1. \A m \in Range(host_lba_list) : m \in Lbas
      BY <1>2, RangeIn
    <3> QED
      BY <1>1, <2>1, <2>3, <3>1 DEF RootInv, get_sysfs_root_bridge
  <2>8. AtInv'
    BY <1>1, <1>2, <2>1 DEF AtInv
  <2>9. CountInv'
    <3> DEFINE n == at - 1
    <3>1. n \in Nat /\ n + 1 = at /\ at' - 1 = at
      BY <1>2, <2>1
    <3>2. options.num_lba_display = Cardinality(ShownUpTo(host_lba_list, lba, n))
      BY <1>1 DEF CountInv
    <3>3. \A k \in 1 .. n : host_lba_list[k] \in Lbas \ {l}
      BY <1>2
    <3>4. ShownUpTo(host_lba_list, lba', n) = ShownUpTo(host_lba_list, lba, n)
      BY <2>3, <3>3 DEF ShownUpTo
    <3> HIDE DEF n
    <3>5. Cardinality(ShownUpTo(host_lba_list, lba', n + 1)) =
            Cardinality(ShownUpTo(host_lba_list, lba', n)) +
              (IF lba'[host_lba_list[n + 1]].display THEN 1 ELSE 0)
      BY <3>1, ShownUpToNext
    <3>6. Cardinality(ShownUpTo(host_lba_list, lba', n)) \in Nat
      BY <3>1, ShownUpToFinite
    <3>7. lba'[host_lba_list[n + 1]].display <=> shows
      BY <2>3, <3>1
    <3>8. options'.num_lba_display = Cardinality(ShownUpTo(host_lba_list, lba', at))
      BY <2>4, <3>1, <3>2, <3>4, <3>5, <3>6, <3>7
    <3> QED
      BY <1>1, <2>1, <3>1, <3>8 DEF CountInv, Filtered
  <2>10. ReadyInv'
    BY <1>1, <2>1, <2>4 DEF ReadyInv
  <2>11. LateCrashNeedsLostBridge'
    BY <2>1 DEF LateCrashNeedsLostBridge
  <2> QED
    BY <2>5, <2>6, <2>7, <2>8, <2>9, <2>10, <2>11
<1> QED
  BY <1>3, <1>4

LEMMA DisplayedFacts ==
  ASSUME HostInv
  PROVE  /\ Displayed \in Seq(Lbas)
         /\ Len(Displayed) = Cardinality(ShownUpTo(host_lba_list, lba, Len(host_lba_list)))
         /\ Range(Displayed) \subseteq Range(host_lba_list)
         /\ Range(Displayed) =
              {host_lba_list[k] : k \in ShownUpTo(host_lba_list, lba, Len(host_lba_list))}
         /\ \A i, j \in DOMAIN Displayed : Displayed[i] = Displayed[j] => i = j
<1> DEFINE d == Shown(host_lba_list, lba)[Len(host_lba_list)]
           places == ShownUpTo(host_lba_list, lba, Len(host_lba_list))
<1>1. /\ host_lba_list \in Seq(Lbas)
      /\ \A i, j \in DOMAIN host_lba_list : host_lba_list[i] = host_lba_list[j] => i = j
  BY DEF HostInv
<1>2. /\ d \in Seq(Lbas) /\ Len(d) = Cardinality(places)
      /\ Range(d) = {host_lba_list[k] : k \in places}
      /\ \A i, j \in DOMAIN d : d[i] = d[j] => i = j
  <2> DEFINE list == host_lba_list
             info == lba
  <2>1. list \in Seq(Lbas) /\ \A i, j \in DOMAIN list : list[i] = list[j] => i = j
    BY <1>1
  <2> HIDE DEF list, info
  <2>2. LET e == Shown(list, info)[Len(list)]
        IN  /\ e \in Seq(Lbas)
            /\ Len(e) = Cardinality(ShownUpTo(list, info, Len(list)))
            /\ Range(e) = {list[k] : k \in ShownUpTo(list, info, Len(list))}
            /\ \A i, j \in DOMAIN e : e[i] = e[j] => i = j
    BY <2>1, ShownFacts, Zenon
  <2> QED
    BY <2>2 DEF list, info
<1>3. \A k \in places : host_lba_list[k] \in Range(host_lba_list)
  BY <1>1 DEF ShownUpTo, Range
<1> HIDE DEF d, places
<1>4. Range(d) \subseteq Range(host_lba_list)
  BY <1>2, <1>3
<1>5. Displayed = d
  BY DisplayedIsShown DEF d
<1> QED
  BY <1>2, <1>4, <1>5 DEF places

LEMMA DispatchKeepsInv ==
  ASSUME StartInv, TreeInv', Dispatch
  PROVE  StartInv'
<1> USE DEF StartInv
<1>1. /\ pc = "filter" /\ at \notin DOMAIN host_lba_list
      /\ pc' = IF options.show_info THEN "show"
               ELSE IF options.num_lba = 0 \/ options.num_lba_display = 0 THEN "exit"
               ELSE "banner"
      /\ options' = [options EXCEPT !.timeout =
           IF @ = 0 /\ ~options.show_info /\ options.num_lba # 0 THEN 1 ELSE @]
      /\ UNCHANGED <<argv, entries, host_lba_list, lba, at, output, root_bridge_list>>
  BY DEF Dispatch, treeVars, lists
<1>2. DOMAIN options = OptionNames
  BY DEF Shape
<1>3. /\ DOMAIN options' = OptionNames
      /\ options'.nsamples = options.nsamples
      /\ options'.num_lba = options.num_lba
      /\ options'.num_lba_display = options.num_lba_display
      /\ options'.timeout = IF options.timeout = 0 /\ ~options.show_info /\ options.num_lba # 0
                              THEN 1 ELSE options.timeout
  BY <1>1, <1>2 DEF OptionNames
<1>4. pc' \in {"show", "exit", "banner"}
  BY <1>1
<1>5. pc' = "banner" => options'.num_lba_display # 0 /\ options'.timeout # 0
  BY <1>1, <1>3
<1>6. at - 1 = Len(host_lba_list)
  <2>1. at \in Nat \ {0} /\ at <= Len(host_lba_list) + 1 /\ Len(host_lba_list) \in Nat
        /\ DOMAIN host_lba_list = 1 .. Len(host_lba_list)
    BY <1>1 DEF AtInv, HostInv
  <2> QED
    BY <1>1, <2>1
<1>7. Shape'
  BY <1>1, <1>3, <1>4 DEF Shape
<1>8. HostInv'
  BY <1>1, <1>3, <1>4 DEF HostInv
<1>9. RootInv'
  BY <1>1, <1>4 DEF RootInv, get_sysfs_root_bridge
<1>10. AtInv'
  BY <1>1, <1>4 DEF AtInv
<1>11. CountInv'
  <2>1. options.num_lba_display =
          Cardinality(ShownUpTo(host_lba_list, lba, Len(host_lba_list)))
    BY <1>1, <1>6 DEF CountInv
  <2> QED
    BY <1>1, <1>3, <1>4, <2>1 DEF CountInv, Filtered
<1>12. ReadyInv'
  BY <1>1, <1>3, <1>4, <1>5 DEF ReadyInv
<1>13. LateCrashNeedsLostBridge'
  BY <1>4 DEF LateCrashNeedsLostBridge
<1> QED
  BY <1>7, <1>8, <1>9, <1>10, <1>11, <1>12, <1>13

\* What is displayed is on the list, so a missing root bridge was lost.
LEMMA NoRootBridgeLost ==
  ASSUME StartInv, NoRootBridge
  PROVE  Range(root_bridge_list) # RootBridges
<1>1. PICK l \in Range(Displayed) : lba[l].sysfs_root_bridge = NULL
  BY DEF NoRootBridge
<1>2. Range(Displayed) \subseteq Range(host_lba_list)
  BY DisplayedFacts DEF StartInv
<1> QED
  BY <1>1, <1>2, LostBridge

\* Printing changes nothing but the output.
LEMMA PrintKeepsInv ==
  ASSUME StartInv, TreeInv', pc \in {"show", "banner", "measure"},
         pc' \in {"done", "measure"}, pc' = "measure" => pc \in {"banner", "measure"},
         UNCHANGED <<argv, options, entries, host_lba_list, lba, at, root_bridge_list>>
  PROVE  StartInv'
<1> USE DEF StartInv
<1>1. Shape'
  BY DEF Shape
<1>2. HostInv'
  BY DEF HostInv
<1>3. RootInv'
  BY DEF RootInv, get_sysfs_root_bridge
<1>4. AtInv'
  BY DEF AtInv
<1>5. CountInv'
  BY DEF CountInv, Filtered
<1>6. ReadyInv'
  BY DEF ReadyInv
<1>7. LateCrashNeedsLostBridge'
  BY DEF LateCrashNeedsLostBridge
<1> QED
  BY <1>1, <1>2, <1>3, <1>4, <1>5, <1>6, <1>7

LEMMA ShowKeepsInv ==
  ASSUME StartInv, TreeInv', show_all_root_info
  PROVE  StartInv'
<1>1. /\ pc = "show"
      /\ UNCHANGED <<argv, options, entries, host_lba_list, lba, at, root_bridge_list>>
  BY DEF show_all_root_info, treeVars, lists
<1>2. CASE NoRootBridge
  <2>1. pc' = "crashed" /\ output' = output
    BY <1>2 DEF show_all_root_info
  <2> QED
    BY <1>1, <1>2, <2>1, NoRootBridgeLost, EndKeepsInv
<1>3. CASE ~NoRootBridge
  <2>1. pc' = "done"
    BY <1>3 DEF show_all_root_info
  <2> QED
    BY <1>1, <2>1, PrintKeepsInv
<1> QED
  BY <1>2, <1>3

LEMMA BannerKeepsInv ==
  ASSUME StartInv, TreeInv', build_banner
  PROVE  StartInv'
<1>1. /\ pc = "banner"
      /\ UNCHANGED <<argv, options, entries, host_lba_list, lba, at, root_bridge_list>>
      /\ \/ pc' = "exit" /\ UNCHANGED output
         \/ NoRootBridge /\ pc' = "crashed" /\ UNCHANGED output
         \/ pc' = "measure"
  BY DEF build_banner, treeVars, lists
<1>2. CASE pc' = "exit" /\ UNCHANGED output
  BY <1>1, <1>2, EndKeepsInv
<1>3. CASE NoRootBridge /\ pc' = "crashed" /\ UNCHANGED output
  BY <1>1, <1>3, NoRootBridgeLost, EndKeepsInv
<1>4. CASE pc' = "measure"
  BY <1>1, <1>4, PrintKeepsInv
<1> QED
  BY <1>1, <1>2, <1>3, <1>4

LEMMA LineKeepsInv ==
  ASSUME StartInv, TreeInv', print_line
  PROVE  StartInv'
<1>1. /\ pc = "measure" /\ pc' = "measure"
      /\ UNCHANGED <<argv, options, entries, host_lba_list, lba, at, root_bridge_list>>
  BY DEF print_line, treeVars, lists
<1> QED
  BY <1>1, PrintKeepsInv

LEMMA StartStutter ==
  ASSUME StartInv, UNCHANGED startVars
  PROVE  StartInv'
<1>1. UNCHANGED <<pc, argv, options, entries, host_lba_list, lba, at, output, phase,
                  root_bridge_list, slots>>
  BY DEF startVars, mainVars, treeVars, lists
<1>2. TreeInv'
  BY TreeStep DEF StartInv
<1> USE DEF StartInv
<1>3. Shape' /\ HostInv'
  BY <1>1 DEF Shape, HostInv
<1>4. RootInv' /\ AtInv'
  BY <1>1 DEF RootInv, get_sysfs_root_bridge, AtInv, SlotsOf, Current
<1>5. CountInv' /\ ReadyInv'
  BY <1>1 DEF CountInv, ReadyInv, Filtered
<1>6. LateCrashNeedsLostBridge'
  BY <1>1 DEF LateCrashNeedsLostBridge
<1> QED
  BY <1>2, <1>3, <1>4, <1>5, <1>6

LEMMA StartInvKept ==
  ASSUME StartInv, [StartupNext]_startVars
  PROVE  StartInv'
<1>1. TreeInv'
  BY TreeStep DEF StartInv
<1>2. CASE StartupNext
  BY <1>1, <1>2, ParseOptionKeepsInv, UsageKeepsInv, CheckDriversKeepsInv,
     CreateTreeKeepsInv, InitLbasKeepsInv, InitLbaKeepsInv, InitLbaNoBufferKeepsInv,
     InitLbaNoMemoryKeepsInv, LocateKeepsInv, NextEntryKeepsInv, FilterKeepsInv,
     DispatchKeepsInv, ShowKeepsInv, BannerKeepsInv, LineKeepsInv
  DEF StartupNext
<1>3. CASE UNCHANGED startVars
  BY <1>3, StartStutter
<1> QED
  BY <1>2, <1>3

-----------------------------------------------------------------------------
(* The loops end within the command line, the list of bridges, and the     *)
(* slots of a bridge.                                                      *)

Longest == Max({MaxArgs, Cardinality(Slots), Cardinality(Lbas)})

BoundInv ==
  /\ at <= Longest + 1
  /\ options.num_lba_display <= Len(host_lba_list)

LEMMA LongestFacts ==
  ASSUME IsFiniteSet(Slots), IsFiniteSet(Lbas)
  PROVE  /\ Longest \in Nat
         /\ MaxArgs <= Longest /\ Cardinality(Slots) <= Longest /\ Cardinality(Lbas) <= Longest
<1> DEFINE c == Cardinality(Slots)
           d == Cardinality(Lbas)
           S == {MaxArgs, c, d}
<1>1. MaxArgs \in Nat /\ c \in Nat /\ d \in Nat
  BY StartupAssumption, FS_CardinalityType
<1> HIDE DEF c, d
<1>2. MaxArgs + c + d \in Nat /\ S \in SUBSET (0 .. MaxArgs + c + d) /\ S # {}
  BY <1>1
<1>3. MaxArgs \in S /\ c \in S /\ d \in S /\ S \subseteq Nat
  BY <1>1
<1>4. Longest = Max(S)
  BY DEF Longest, c, d
<1> HIDE DEF S
<1>5. Max(S) \in S /\ \A y \in S : y <= Max(S)
  BY <1>2, MaxFacts
<1> QED
  BY <1>3, <1>4, <1>5 DEF c, d

LEMMA InjectiveLength ==
  ASSUME NEW S, IsFiniteSet(S), NEW q \in Seq(S),
         \A i, j \in DOMAIN q : q[i] = q[j] => i = j
  PROVE  Len(q) <= Cardinality(S)
<1> DEFINE D == 1 .. Len(q)
<1>1. Len(q) \in Nat /\ DOMAIN q = D /\ q \in [D -> S]
  OBVIOUS
<1>2. IsFiniteSet(D) /\ Cardinality(D) = Len(q)
  BY <1>1, FS_Interval
<1>3. Cardinality(S) \in Nat
  BY FS_CardinalityType
<1> HIDE DEF D
<1>4. ASSUME Cardinality(S) < Cardinality(D)
      PROVE  FALSE
  <2>1. q \in [D -> S]
    BY <1>1
  <2>2. \E x, y \in D : x # y /\ q[x] = q[y]
    BY <1>2, <1>4, <2>1, FS_PigeonHole
  <2> QED
    BY <1>1, <2>2
<1> QED
  BY <1>1, <1>2, <1>3, <1>4

LEMMA ShownUpToBound ==
  ASSUME NEW list, NEW info, NEW n \in Nat
  PROVE  Cardinality(ShownUpTo(list, info, n)) <= n
<1>1. IsFiniteSet(1 .. n) /\ Cardinality(1 .. n) = n
  BY FS_Interval
<1>2. ShownUpTo(list, info, n) \in SUBSET (1 .. n)
  BY DEF ShownUpTo
<1>3. Cardinality(ShownUpTo(list, info, n)) <= Cardinality(1 .. n)
  BY <1>1, <1>2, FS_Subset
<1> QED
  BY <1>1, <1>3

\* Where a loop goes on, it is within its list.
LEMMA AtStep ==
  ASSUME StartInv, [StartupNext]_startVars
  PROVE  \/ at' \in {at, 1}
         \/ at' = at + 1 /\ \/ pc = "options" /\ at \in DOMAIN argv
                            \/ pc = "locate" /\ at \in DOMAIN SlotsOf(Current)
                            \/ pc = "filter" /\ at \in DOMAIN host_lba_list
<1>1. CASE ParseOption
  BY <1>1 DEF ParseOption
<1>2. CASE usage \/ CheckDrivers \/ create_sysfs_pci_tree
  BY <1>2 DEF usage, CheckDrivers, create_sysfs_pci_tree, mainVars
<1>3. CASE init_lbas \/ init_lba \/ InitLbaNoBuffer
  BY <1>3 DEF init_lbas, init_lba, InitLbaNoBuffer
<1>4. CASE InitLbaNoMemory
  BY <1>4 DEF InitLbaNoMemory, mainVars
<1>5. CASE find_lba_location_info
  BY <1>5 DEF find_lba_location_info
<1>6. CASE NextEntry
  BY <1>6 DEF NextEntry
<1>7. CASE filter_lbas
  <2>1. at' = at \/ at' = at + 1
    BY <1>7 DEF filter_lbas
  <2> QED
    BY <1>7, <2>1 DEF filter_lbas
<1>8. CASE Dispatch \/ show_all_root_info \/ build_banner \/ print_line
  BY <1>8 DEF Dispatch, show_all_root_info, build_banner, print_line
<1>9. CASE UNCHANGED startVars
  BY <1>9 DEF startVars, mainVars
<1> QED
  BY <1>1, <1>2, <1>3, <1>4, <1>5, <1>6, <1>7, <1>8, <1>9 DEF StartupNext

\* A program that ended early left its numbers alone.
LEMMA EndStep ==
  ASSUME StartInv, [StartupNext]_startVars, pc' \in {"usage", "exit", "crashed"}
  PROVE  /\ options'.num_lba_display = options.num_lba_display
         /\ host_lba_list' = host_lba_list
<1>1. DOMAIN options = OptionNames
  BY DEF StartInv, Shape
<1>2. CASE ParseOption \/ init_lba \/ InitLbaNoBuffer \/ find_lba_location_info \/ NextEntry
  BY <1>2 DEF ParseOption, init_lba, InitLbaNoBuffer, find_lba_location_info, NextEntry
<1>3. CASE usage \/ create_sysfs_pci_tree \/ InitLbaNoMemory
  BY <1>3 DEF usage, create_sysfs_pci_tree, InitLbaNoMemory, mainVars
<1>4. CASE CheckDrivers
  BY <1>4 DEF CheckDrivers
<1>5. CASE init_lbas
  BY <1>5 DEF init_lbas
<1>6. CASE filter_lbas
  <2>1. pc = "filter" /\ host_lba_list' = host_lba_list
    BY <1>6 DEF filter_lbas
  <2>2. options' = options
    BY <1>6, <2>1 DEF filter_lbas
  <2> QED
    BY <2>1, <2>2
<1>7. CASE Dispatch
  BY <1>1, <1>7 DEF Dispatch, OptionNames
<1>8. CASE show_all_root_info \/ build_banner \/ print_line
  BY <1>8 DEF show_all_root_info, build_banner, print_line
<1>9. CASE UNCHANGED startVars
  BY <1>9 DEF startVars, mainVars
<1> QED
  BY <1>2, <1>3, <1>4, <1>5, <1>6, <1>7, <1>8, <1>9 DEF StartupNext

LEMMA BoundKept ==
  ASSUME IsFiniteSet(Slots), IsFiniteSet(Lbas),
         StartInv, BoundInv, [StartupNext]_startVars, StartInv'
  PROVE  BoundInv'
<1>1. /\ Longest \in Nat /\ MaxArgs <= Longest
      /\ Cardinality(Slots) <= Longest /\ Cardinality(Lbas) <= Longest
      /\ Cardinality(Slots) \in Nat /\ Cardinality(Lbas) \in Nat /\ MaxArgs \in Nat
  BY LongestFacts, FS_CardinalityType, StartupAssumption
<1>2. at \in Nat
  BY DEF StartInv, AtInv
<1>3. pc = "options" /\ at \in DOMAIN argv => at <= Longest
  <2>1. argv \in Seq(Args) /\ Len(argv) <= MaxArgs
    BY DEF StartInv, Shape
  <2> QED
    BY <1>1, <2>1
<1>4. pc = "locate" /\ at \in DOMAIN SlotsOf(Current) => at <= Longest
  <2> SUFFICES ASSUME pc = "locate", at \in DOMAIN SlotsOf(Current)
               PROVE  at <= Longest
    OBVIOUS
  <2> DEFINE c == Current
             q == SlotsOf(c)
  <2>1. c \in Lbas /\ phase = "tree_done"
    BY DEF StartInv, HostInv, RootInv, Current, Last
  <2>2. lba[c].sysfs_root_bridge \in {c, NULL} /\ c \in RootBridges
    BY <2>1, StartupAssumption DEF StartInv, RootInv
  <2>3. slots \in [RootBridges -> Seq(Slots)]
    BY DEF StartInv, TreeInv, TreeTypeOK
  <2>4. q \in {<< >>, slots[c]}
    BY <2>2 DEF SlotsOf
  <2>5. \A i, j \in DOMAIN slots[c] : slots[c][i] = slots[c][j] => i = j
    BY <2>1, <2>2 DEF StartInv, TreeInv, ListsAgree
  <2> HIDE DEF c
  <2>6. q \in Seq(Slots) /\ \A i, j \in DOMAIN q : q[i] = q[j] => i = j
    <3> HIDE DEF q
    <3>1. CASE q = << >>
      BY <3>1
    <3>2. CASE q = slots[c]
      BY <2>2, <2>3, <2>5, <3>2
    <3> QED
      BY <2>4, <3>1, <3>2
  <2>7. at \in DOMAIN q
    BY DEF c
  <2> HIDE DEF q
  <2>8. Len(q) <= Cardinality(Slots)
    BY <2>6, InjectiveLength
  <2>9. at \in 1 .. Len(q) /\ Len(q) \in Nat
    BY <2>6, <2>7
  <2> QED
    BY <1>1, <2>8, <2>9
<1>5. Len(host_lba_list) \in Nat /\ Len(host_lba_list) <= Cardinality(Lbas)
  BY InjectiveLength DEF StartInv, HostInv
<1>6. at \in DOMAIN host_lba_list => at <= Longest
  <2>1. host_lba_list \in Seq(Lbas)
    BY DEF StartInv, HostInv
  <2> QED
    BY <1>1, <1>5, <2>1
<1>7. at' <= Longest + 1
  <2>1. \/ at' \in {at, 1}
        \/ at' = at + 1 /\ \/ pc = "options" /\ at \in DOMAIN argv
                           \/ pc = "locate" /\ at \in DOMAIN SlotsOf(Current)
                           \/ pc = "filter" /\ at \in DOMAIN host_lba_list
    BY AtStep
  <2>2. at <= Longest + 1
    BY DEF BoundInv
  <2> QED
    BY <1>1, <1>2, <1>3, <1>4, <1>6, <2>1, <2>2
<1>8. options'.num_lba_display <= Len(host_lba_list')
  <2> DEFINE n == Len(host_lba_list')
  <2>1. n \in Nat
    BY DEF StartInv, HostInv
  <2>2. CASE pc' \in {"options", "tree", "lbas", "locate"}
    <3>1. options'.num_lba_display = 0
      BY <2>2 DEF StartInv, CountInv
    <3> QED
      BY <2>1, <3>1
  <2>3. CASE pc' = "filter"
    <3> DEFINE k == at' - 1
    <3>1. k \in Nat /\ k <= n
      <4>1. at' \in Nat \ {0} /\ at' <= n + 1
        BY <2>3 DEF StartInv, AtInv
      <4>2. \A x \in Nat \ {0} : \A y \in Nat : x <= y + 1 => x - 1 \in Nat /\ x - 1 <= y
        OBVIOUS
      <4> HIDE DEF n
      <4> QED
        BY <2>1, <4>1, <4>2
    <3>2. options'.num_lba_display = Cardinality(ShownUpTo(host_lba_list', lba', k))
      BY <2>3 DEF StartInv, CountInv
    <3> HIDE DEF k
    <3>3. /\ Cardinality(ShownUpTo(host_lba_list', lba', k)) <= k
          /\ Cardinality(ShownUpTo(host_lba_list', lba', k)) \in Nat
      BY <3>1, ShownUpToBound, ShownUpToFinite
    <3> QED
      BY <2>1, <3>1, <3>2, <3>3
  <2>4. CASE Filtered'
    <3>1. options'.num_lba_display = Cardinality(ShownUpTo(host_lba_list', lba', n))
      BY <2>4 DEF StartInv, CountInv
    <3> HIDE DEF n
    <3>2. Cardinality(ShownUpTo(host_lba_list', lba', n)) <= n
      BY <2>1, ShownUpToBound
    <3> QED
      BY <3>1, <3>2 DEF n
  <2>5. CASE pc' \in {"usage", "exit", "crashed"}
    BY <2>5, EndStep DEF BoundInv
  <2>6. pc' \in {"options", "tree", "lbas", "locate", "filter", "usage", "exit", "crashed"}
        \/ Filtered'
    BY DEF StartInv, Shape, Filtered
  <2> QED
    BY <2>2, <2>3, <2>4, <2>5, <2>6
<1> QED
  BY <1>7, <1>8 DEF BoundInv

-----------------------------------------------------------------------------
(* The theorems.                                                           *)

\* The invariant holds of any machine, command line and failure, in whatever
\* order readdir returns the entries.
THEOREM StartInvariant == StartupSpec => []StartInv
<1>1. StartupInit => StartInv
  BY StartInitInv
<1>2. StartInv /\ [StartupNext]_startVars => StartInv'
  BY StartInvKept
<1> QED
  BY <1>1, <1>2, PTL DEF StartupSpec

\* Every variable of main stays in its range on a machine with finitely many
\* bridges and slots: its loops end, its counters count what is on the list.
THEOREM StartTypeTheorem ==
  ASSUME IsFiniteSet(Slots), IsFiniteSet(Lbas)
  PROVE  StartupSpec => []StartupTypeOK
<1>1. StartupInit => BoundInv
  <2> SUFFICES ASSUME StartupInit
               PROVE  BoundInv
    OBVIOUS
  <2>1. at = 1 /\ host_lba_list = << >> /\ options.num_lba_display = 0
    BY DEF StartupInit, NoOptions
  <2> QED
    BY <2>1, LongestFacts DEF BoundInv
<1>2. StartInv /\ StartInv' /\ BoundInv /\ [StartupNext]_startVars => BoundInv'
  BY BoundKept
<1>3. StartInv /\ BoundInv => StartupTypeOK
  <2> SUFFICES ASSUME StartInv, BoundInv
               PROVE  StartupTypeOK
    OBVIOUS
  <2>1. Longest \in Nat
    BY LongestFacts
  <2>2. at \in 1 .. Longest + 1
    BY <2>1 DEF StartInv, AtInv, BoundInv
  <2> QED
    BY <2>2 DEF StartInv, TreeInv, Shape, HostInv, RootInv, BoundInv, StartupTypeOK, Longest
<1> QED
  BY <1>1, <1>2, <1>3, StartInvariant, PTL DEF StartupSpec

\* Once the bridges are on the list, pcitop follows a missing pointer only when
\* the first part of the scan lost a root bridge.
THEOREM LateCrashTheorem == StartupSpec => []LateCrashNeedsLostBridge
<1>1. StartInv => LateCrashNeedsLostBridge
  BY DEF StartInv
<1> QED
  BY <1>1, StartInvariant, PTL

\* The number that the buffers are sized by is that of the bridges displayed.
THEOREM DisplayCountTheorem == StartupSpec => []DisplayCount
<1>1. StartInv => DisplayCount
  BY DisplayedFacts DEF StartInv, CountInv, DisplayCount
<1> QED
  BY <1>1, StartInvariant, PTL

\* measure_utilization is handed what it relies on.
THEOREM MeasureReadyTheorem == StartupSpec => []MeasureReady
<1>1. StartInv => MeasureReady
  <2> SUFFICES ASSUME StartInv, pc = "measure"
               PROVE  /\ Displayed # << >> /\ IsInjective(Displayed)
                      /\ options.nsamples \in 1 .. (ULONG - 1)
                      /\ options.timeout # 0
    BY DEF MeasureReady
  <2>1. options.num_lba_display # 0 /\ options.timeout # 0 /\ options.nsamples # 0
    BY DEF StartInv, ReadyInv
  <2>2. options.num_lba_display = Len(Displayed)
    BY DisplayedFacts DEF StartInv, CountInv, Filtered
  <2>3. Displayed # << >>
    BY <2>1, <2>2
  <2>4. IsInjective(Displayed)
    BY DisplayedFacts DEF StartInv, IsInjective
  <2>5. options.nsamples \in 1 .. (ULONG - 1)
    BY <2>1, ULongBig DEF StartInv, Shape
  <2> QED
    BY <2>1, <2>3, <2>4, <2>5
<1> QED
  BY <1>1, StartInvariant, PTL

-----------------------------------------------------------------------------
(* The banner fits into its buffer.                                        *)

\* A sum goes place by place.
LEMMA TotalSteps ==
  ASSUME NEW s \in Seq(Int)
  PROVE  \E h \in [0 .. Len(s) -> Int] :
           /\ h[0] = 0
           /\ \A m \in 0 .. Len(s) - 1 : h[m + 1] = h[m] + s[m + 1]
           /\ Total(s) = h[Len(s)]
<1> DEFINE n == Len(s)
           Step(w, T) == IF T = {} THEN 0 ELSE w[T \ {Max(T)}] + s[Max(T)]
           IsIter(w) == w = [T \in SUBSET (1 .. n) |-> Step(w, T)]
           iter == CHOOSE w : IsIter(w)
<1>1. n \in Nat /\ DOMAIN s = 1 .. n /\ s \in [1 .. n -> Int]
  OBVIOUS
<1>2. ASSUME NEW m \in Nat, NEW T \in SUBSET (1 .. m), T # {}
      PROVE  Max(T) \in T /\ Max(T) \in 1 .. m /\ \A y \in T : y <= Max(T)
  <2>1. T \in SUBSET (0 .. m)
    OBVIOUS
  <2> QED
    BY <1>2, <2>1, MaxFacts
<1>3. \E w : IsIter(w)
  <2> HIDE DEF n
  <2> DEFINE b == 1
  <2>0. n \in Nat /\ s \in [1 .. n -> Int] /\ b \in Nat
    BY <1>1
  <2> HIDE DEF b
  <2>1. PICK w \in [SUBSET (1 .. n) -> Int] : \A T \in SUBSET (1 .. n) :
          w[T] = IF T = {} THEN 0 ELSE b * w[T \ {Max(T)}] + s[Max(T)]
    BY <2>0, FoldExists, Zenon
  <2> USE DEF b
  <2>2. IsIter(w)
    <3>1. ASSUME NEW T \in SUBSET (1 .. n)
          PROVE  w[T] = Step(w, T)
      <4> CASE T # {}
        <5>1. T \ {Max(T)} \in SUBSET (1 .. n)
          OBVIOUS
        <5> HIDE DEF Step
        <5>2. w[T \ {Max(T)}] \in Int
          BY <5>1
        <5>3. 1 * w[T \ {Max(T)}] = w[T \ {Max(T)}]
          BY <5>2
        <5> QED
          BY <2>1, <5>3 DEF Step
      <4> CASE T = {}
        BY <2>1
      <4> QED
        OBVIOUS
    <3> QED
      BY <3>1
  <2> HIDE DEF IsIter
  <2> QED
    BY <2>2
<1>4. IsIter(iter)
  <2> HIDE DEF IsIter
  <2> QED
    BY <1>3
<1>5. \A T \in SUBSET (1 .. n) : iter[T] = Step(iter, T)
  <2> HIDE DEF iter
  <2> QED
    BY <1>4
<1> DEFINE h == [m \in 0 .. n |-> iter[1 .. m]]
<1>6. Total(s) = iter[1 .. n]
  BY <1>1 DEF FoldLeft, MapThenFoldSet, Total, iter, IsIter, Step
<1> HIDE DEF iter, IsIter
<1>7. h[0] = 0
  <2>1. 1 .. 0 = {} /\ {} \in SUBSET (1 .. n)
    OBVIOUS
  <2>2. iter[{}] = 0
    BY <1>5, <2>1
  <2> QED
    BY <1>1, <2>1, <2>2
<1>8. ASSUME NEW m \in 0 .. n - 1
      PROVE  h[m + 1] = h[m] + s[m + 1]
  <2> DEFINE T == 1 .. m + 1
  <2>0. m \in Nat /\ m + 1 \in 1 .. n
    BY <1>1
  <2>1. T \in SUBSET (1 .. n) /\ m + 1 \in T /\ m + 1 \in Nat /\ T \in SUBSET (1 .. m + 1)
    BY <1>1, <2>0
  <2>2. Max(T) = m + 1
    <3> HIDE DEF T
    <3>1. Max(T) \in 1 .. m + 1 /\ m + 1 <= Max(T)
      BY <1>2, <2>1
    <3> QED
      BY <2>0, <3>1
  <2>3. T \ {m + 1} = 1 .. m
    BY <2>0
  <2>4. iter[T] = Step(iter, T)
    BY <1>5, <2>1
  <2>5. h[m + 1] = iter[T] /\ h[m] = iter[1 .. m]
    BY <1>1
  <2> HIDE DEF T, h
  <2> QED
    BY <2>1, <2>2, <2>3, <2>4, <2>5
<1> HIDE DEF h
<1>9. \A m \in Nat : m <= n => h[m] \in Int
  <2> DEFINE S == {m \in Nat : m <= n => h[m] \in Int}
  <2>1. 0 \in S
    BY <1>7
  <2>2. ASSUME NEW m \in Nat, m \in S
        PROVE  m + 1 \in S
    <3> SUFFICES ASSUME m + 1 <= n
                 PROVE  h[m + 1] \in Int
      OBVIOUS
    <3>1. m \in 0 .. n - 1 /\ h[m] \in Int /\ m + 1 \in 1 .. n
      BY <1>1, <2>2
    <3>2. s[m + 1] \in Int
      BY <1>1, <3>1
    <3> QED
      BY <1>8, <3>1, <3>2
  <2> HIDE DEF S
  <2>3. \A m \in Nat : m \in S
    BY <2>1, <2>2, NatSet
  <2> QED
    BY <2>3 DEF S
<1>10. h \in [0 .. n -> Int]
  <2>1. \A m \in 0 .. n : h[m] \in Int
    BY <1>1, <1>9
  <2> QED
    BY <2>1 DEF h
<1>11. h[n] = iter[1 .. n]
  BY <1>1 DEF h
<1> QED
  BY <1>6, <1>7, <1>8, <1>10, <1>11
\* The columns of a line take the width of all but the last with the separator.
LEMMA TotalOfLine ==
  ASSUME NEW s \in Seq(Int), Len(s) # 0,
         \A i \in 1 .. Len(s) : s[i] = IF i = Len(s) THEN 16 ELSE 18
  PROVE  Total(s) = 18 * (Len(s) - 1) + 16
<1> DEFINE n == Len(s)
<1>1. n \in Nat \ {0}
  OBVIOUS
<1>2. PICK h \in [0 .. n -> Int] :
        /\ h[0] = 0
        /\ \A m \in 0 .. n - 1 : h[m + 1] = h[m] + s[m + 1]
        /\ Total(s) = h[n]
  BY TotalSteps
<1>3. \A i \in 1 .. n : s[i] = IF i = n THEN 16 ELSE 18
  OBVIOUS
<1> HIDE DEF n
<1> DEFINE S == {m \in Nat : m <= n - 1 => h[m] = 18 * m}
<1>4. 0 \in S
  BY <1>2
<1>5. ASSUME NEW m \in Nat, m \in S
      PROVE  m + 1 \in S
  <2> SUFFICES ASSUME m + 1 <= n - 1
               PROVE  h[m + 1] = 18 * (m + 1)
    OBVIOUS
  <2>1. m \in 0 .. n - 1 /\ h[m] = 18 * m /\ m + 1 \in 1 .. n /\ m + 1 # n
    BY <1>1, <1>5
  <2>2. h[m + 1] = h[m] + s[m + 1] /\ s[m + 1] = 18
    BY <1>2, <1>3, <2>1
  <2> HIDE DEF S
  <2> QED
    BY <2>1, <2>2
<1> HIDE DEF S
<1>6. n - 1 \in S
  <2>1. n - 1 \in Nat
    BY <1>1
  <2> QED
    BY <1>4, <1>5, <2>1, NatSet
<1>7. h[n - 1] = 18 * (n - 1)
  BY <1>1, <1>6 DEF S
<1>8. n - 1 \in 0 .. n - 1 /\ (n - 1) + 1 = n /\ n \in 1 .. n
  BY <1>1
<1>9. h[n] = h[n - 1] + s[n] /\ s[n] = 16
  BY <1>2, <1>3, <1>8
<1>10. Total(s) = 18 * (n - 1) + 16
  BY <1>2, <1>7, <1>9
<1> QED
  BY <1>10 DEF n

\* Up to four slot numbers of one or two digits take up to eight characters.
LEMMA TotalOfSlots ==
  ASSUME NEW s \in Seq(Int), Len(s) <= 4, \A i \in 1 .. Len(s) : s[i] \in 1 .. 2
  PROVE  Total(s) \in 0 .. 8
<1> DEFINE n == Len(s)
<1>0. n \in Nat /\ n <= 4
  OBVIOUS
<1>1. n \in 0 .. 4 /\ \A i \in 1 .. n : s[i] \in 1 .. 2
  <2>1. \A i \in 1 .. n : s[i] \in 1 .. 2
    OBVIOUS
  <2> HIDE DEF n
  <2> QED
    BY <1>0, <2>1
<1>2. PICK h \in [0 .. n -> Int] :
        /\ h[0] = 0
        /\ \A m \in 0 .. n - 1 : h[m + 1] = h[m] + s[m + 1]
        /\ Total(s) = h[n]
  BY TotalSteps
<1> HIDE DEF n
<1> DEFINE S == {m \in Nat : m <= n => h[m] \in 0 .. 2 * m}
<1>3. 0 \in S
  BY <1>2
<1>4. ASSUME NEW m \in Nat, m \in S
      PROVE  m + 1 \in S
  <2> SUFFICES ASSUME m + 1 <= n
               PROVE  h[m + 1] \in 0 .. 2 * (m + 1)
    OBVIOUS
  <2>1. m \in 0 .. n - 1 /\ h[m] \in 0 .. 2 * m /\ m + 1 \in 1 .. n
    BY <1>1, <1>4
  <2>2. h[m + 1] = h[m] + s[m + 1] /\ s[m + 1] \in 1 .. 2
    BY <1>1, <1>2, <2>1
  <2> HIDE DEF S
  <2> QED
    BY <2>1, <2>2
<1> HIDE DEF S
<1>5. n \in S
  BY <1>1, <1>3, <1>4, NatSet
<1>6. h[n] \in 0 .. 2 * n
  BY <1>1, <1>5 DEF S
<1>7. Total(s) = h[n]
  BY <1>2
<1>8. ASSUME NEW a \in 0 .. 4, NEW v \in 0 .. 2 * a
      PROVE  v \in 0 .. 8
  OBVIOUS
<1>9. h[n] \in 0 .. 8
  BY <1>1, <1>6, <1>8
<1> QED
  BY <1>7, <1>9

LEMMA BlanksOf ==
  ASSUME NEW w \in Nat \ {0}
  PROVE  Blanks(w) = w
<1> DEFINE S == {1, w, -w}
<1>1. w \in S /\ \A y \in S : w >= y
  OBVIOUS
<1>2. S \subseteq Int /\ \A x \in S : x >= w => x = w
  OBVIOUS
<1>3. Max(S) = CHOOSE x \in S : \A y \in S : x >= y
  BY DEF Max
<1>4. Blanks(w) = Max(S)
  BY DEF Blanks
<1> HIDE DEF S
<1>5. Max(S) \in S /\ Max(S) >= w
  BY <1>1, <1>3
<1> QED
  BY <1>2, <1>4, <1>5

LEMMA WidthOfNumber ==
  ASSUME NEW v \in 0 .. 99
  PROVE  Width(v) \in 1 .. 2
  BY DEF Width

\* The numbers of up to four slots leave their column as wide as the others.
LEMMA SlotsFitColumn ==
  ASSUME NEW col, NEW q \in Seq(Nat), col.slots = q, Len(q) <= 4,
         \A i \in 1 .. Len(q) : q[i] \in 0 .. 99
  PROVE  SlotsCell(col) = TextCell(col)
<1>0. Len(q) \in Nat /\ DOMAIN q = 1 .. Len(q)
  OBVIOUS
<1> DEFINE s == [i \in DOMAIN q |-> Width(q[i])]
           n == Len(q)
           total == Total(s)
           tot == total + 2 * (n - 1)
           sep == Separator(col)
<1> HIDE DEF s, total, tot, sep
<1>1. n \in Nat /\ DOMAIN q = 1 .. n /\ \A i \in 1 .. n : q[i] \in 0 .. 99
  BY <1>0
<1>2. n <= 4
  OBVIOUS
<1>3. sep \in Int
  BY DEF Separator, COLUMN_SEP_WIDTH, sep
<1>4. CASE q = << >>
  BY <1>4 DEF SlotsCell, TextCell, Separator, COLUMN_DATA_WIDTH, COLUMN_SEP_WIDTH
<1>5. CASE q # << >>
  <2>1. n # 0
    BY <1>5
  <2>2. SlotsCell(col) = sep + (tot + Blanks(COLUMN_DATA_WIDTH - tot))
    BY <1>5 DEF SlotsCell, s, total, tot, sep
  <2> HIDE DEF n
  <2>3. \A i \in 1 .. n : s[i] \in 1 .. 2
    BY <1>1, WidthOfNumber DEF s
  <2>4. s \in Seq(Int) /\ Len(s) = n
    <3>1. DOMAIN s = 1 .. n /\ s = [i \in 1 .. n |-> s[i]] /\ \A i \in 1 .. n : s[i] \in Int
      BY <1>1, <2>3 DEF s
    <3> QED
      BY <1>1, <3>1
  <2>5. total \in 0 .. 8
    <3>1. Len(s) <= 4 /\ \A i \in 1 .. Len(s) : s[i] \in 1 .. 2
      BY <1>2, <2>3, <2>4
    <3> QED
      BY <2>4, <3>1, TotalOfSlots DEF total
  <2>6. tot \in 0 .. 14
    <3>1. n \in 1 .. 4
      BY <1>1, <1>2, <2>1
    <3> QED
      BY <2>5, <3>1 DEF tot
  <2>7. COLUMN_DATA_WIDTH - tot \in Nat \ {0}
    BY <2>6 DEF COLUMN_DATA_WIDTH
  <2>8. Blanks(COLUMN_DATA_WIDTH - tot) = COLUMN_DATA_WIDTH - tot
    BY <2>7, BlanksOf
  <2>9. tot + Blanks(COLUMN_DATA_WIDTH - tot) = 16
    BY <2>6, <2>8 DEF COLUMN_DATA_WIDTH
  <2> QED
    BY <1>3, <2>2, <2>9 DEF TextCell, COLUMN_DATA_WIDTH, sep
<1> QED
  BY <1>4, <1>5

\* The slots have the names WXYZZ that integrity_parse_slot is written for
\* (integrity.c:105-121), or the end of one.
SlotsNamed == \A s \in Slots : SlotName[s] \in Seq(Digits) /\ Len(SlotName[s]) \in 1 .. 5

LEMMA DigitsInt ==
  ASSUME NEW q \in Seq(Digits)
  PROVE  q \in Seq(Int)
  BY DEF Digits

\* Their numbers take no more than two digits.
LEMMA ShownNumberFacts ==
  ASSUME SlotsNamed, NEW s \in Slots
  PROVE  ShownNumber(s) \in 0 .. 99
<1> DEFINE name == SlotName[s]
<1>1. name \in Seq(Digits) /\ Len(name) \in 1 .. 5
  BY DEF SlotsNamed
<1>2. name \in Seq(Int)
  BY <1>1, DigitsInt
<1>3. ReadDigits(name) \in Nat
  BY <1>2, ReadDigitsNat
<1>4. integrity_parse_slot(name).slot = ReadDigits(name) % 100
  BY <1>1, PlaceTheorem DEF PlaceOfNumber
<1>5. ASSUME NEW n \in Nat
      PROVE  n % 100 \in 0 .. 99
  OBVIOUS
<1> QED
  BY <1>3, <1>4, <1>5 DEF ShownNumber

\* A line of columns that are all separated but for the last is LINE_WIDTH.
LEMMA RowWidth ==
  ASSUME NEW n \in Nat \ {0}, NEW widths, DOMAIN widths = 1 .. n,
         widths = [i \in 1 .. n |-> IF i = n THEN 16 ELSE 18]
  PROVE  Row(widths) = LINE_WIDTH(n)
<1>1. widths \in Seq(Int) /\ Len(widths) = n
  OBVIOUS
<1>2. \A i \in 1 .. n : widths[i] = IF i = n THEN 16 ELSE 18
  OBVIOUS
<1>3. Total(widths) = 18 * (n - 1) + 16
  BY <1>1, <1>2, TotalOfLine
<1> QED
  BY <1>3 DEF Row, LINE_WIDTH, COLUMN_HEADER_WIDTH, COLUMN_SEP_WIDTH, COLUMN_DATA_WIDTH

LEMMA BannerRoom ==
  ASSUME NEW n \in Nat \ {0}, NEW cols, DOMAIN cols = 1 .. n,
         \A i \in 1 .. n : cols[i].last <=> i = n,
         \A i \in 1 .. n : SlotsCell(cols[i]) = TextCell(cols[i])
  PROVE  BannerLength(cols, n) + 1 <= BannerSize(n)
<1> DEFINE text  == [i \in DOMAIN cols |-> TextCell(cols[i])]
           cells == [i \in DOMAIN cols |-> SlotsCell(cols[i])]
<1>1. \A i \in 1 .. n : TextCell(cols[i]) = IF i = n THEN 16 ELSE 18
  BY DEF TextCell, Separator, COLUMN_SEP_WIDTH, COLUMN_DATA_WIDTH
<1>2. text = [i \in 1 .. n |-> IF i = n THEN 16 ELSE 18]
  BY <1>1
<1>3. cells = [i \in 1 .. n |-> IF i = n THEN 16 ELSE 18]
  BY <1>1
<1> HIDE DEF text, cells
<1>4. Row(text) = LINE_WIDTH(n) /\ Row(cells) = LINE_WIDTH(n)
  BY <1>2, <1>3, RowWidth
<1>5. TextRow(cols) = LINE_WIDTH(n) /\ SlotsRow(cols) = LINE_WIDTH(n)
  BY <1>4 DEF TextRow, SlotsRow, text, cells
<1>6. LINE_WIDTH(n) \in Int
  BY DEF LINE_WIDTH, COLUMN_HEADER_WIDTH, COLUMN_SEP_WIDTH, COLUMN_DATA_WIDTH
<1>7. BannerLength(cols, n) = 7 * LINE_WIDTH(n) + 6
  BY <1>5, <1>6 DEF BannerLength
<1>8. BannerSize(n) = 7 * LINE_WIDTH(n) + 8
  BY <1>6 DEF BannerSize, NUM_BANNER_ROWS
<1> QED
  BY <1>6, <1>7, <1>8

\* The banner that build_banner lays out fits.
LEMMA BannerStep ==
  ASSUME SlotsNamed, StartInv, build_banner, pc' = "measure",
         Last(Displayed) = Last(host_lba_list),
         \A i \in DOMAIN Displayed : Len(SlotsOf(Displayed[i])) <= 4
  PROVE  output'.length + 1 <= output'.size
<1> DEFINE n == Len(Displayed)
<1>1. /\ Displayed \in Seq(Lbas)
      /\ \A i, j \in DOMAIN Displayed : Displayed[i] = Displayed[j] => i = j
      /\ options.num_lba_display = n
  BY DisplayedFacts DEF StartInv, CountInv, Filtered, build_banner
<1>2. pc = "banner"
  BY DEF build_banner
<1>3. options.num_lba_display # 0
  BY <1>2 DEF StartInv, ReadyInv
<1>4. n \in Nat \ {0} /\ DOMAIN Displayed = 1 .. n /\ \A i \in 1 .. n : Displayed[i] \in Lbas
  BY <1>1, <1>3
<1>5. output'.length = BannerLength(Columns, n) /\ output'.size = BannerSize(n)
  BY <1>1 DEF build_banner
<1>6. Last(Displayed) = Displayed[n]
  BY DEF Last
<1>7. DOMAIN Columns = 1 .. n
  BY <1>4 DEF Columns
<1>8. ASSUME NEW i \in 1 .. n
      PROVE  /\ Columns[i].last <=> i = n
             /\ SlotsCell(Columns[i]) = TextCell(Columns[i])
  <2> DEFINE col == Columns[i]
             q == [k \in DOMAIN SlotsOf(Displayed[i]) |->
                     ShownNumber(SlotsOf(Displayed[i])[k])]
  <2>1. col = [last |-> Displayed[i] = Last(host_lba_list), slots |-> q]
    BY <1>4 DEF Columns
  <2>2. n \in 1 .. n
    BY <1>4
  <2>3. col.last <=> i = n
    <3>1. col.last <=> Displayed[i] = Displayed[n]
      <4> HIDE DEF col, q, n
      <4>1. col.last = (Displayed[i] = Last(host_lba_list))
        BY <2>1
      <4> QED
        BY <1>6, <4>1
    <3>2. (Displayed[i] = Displayed[n]) <=> i = n
      <4> HIDE DEF n
      <4> QED
        BY <1>1, <1>4, <2>2
    <3> HIDE DEF col
    <3> QED
      BY <3>1, <3>2
  <2>4. SlotsOf(Displayed[i]) \in Seq(Slots) /\ Len(SlotsOf(Displayed[i])) <= 4
    <3> DEFINE l == Displayed[i]
    <3>1. l \in Lbas
      BY <1>4
    <3>2. lba[l].sysfs_root_bridge \in {l, NULL}
      BY <3>1 DEF StartInv, RootInv
    <3>3. slots \in [RootBridges -> Seq(Slots)]
      BY DEF StartInv, TreeInv, TreeTypeOK
    <3> HIDE DEF l
    <3>4. SlotsOf(l) \in Seq(Slots)
      BY <3>1, <3>2, <3>3, SlotsTyped DEF SlotsOf
    <3> QED
      BY <1>4, <3>4 DEF l
  <2> HIDE DEF col
  <2>5. /\ q \in Seq(Nat) /\ Len(q) <= 4 /\ \A k \in 1 .. Len(q) : q[k] \in 0 .. 99
    <3> DEFINE r == SlotsOf(Displayed[i])
               m == Len(r)
    <3> HIDE DEF r
    <3>1. r \in Seq(Slots) /\ Len(r) <= 4
      BY <2>4 DEF r
    <3>2. m \in Nat /\ DOMAIN r = 1 .. m /\ \A k \in 1 .. m : r[k] \in Slots
      BY <3>1
    <3>3. \A k \in 1 .. m : ShownNumber(r[k]) \in 0 .. 99
      BY <3>2, ShownNumberFacts
    <3>4. q = [k \in 1 .. m |-> ShownNumber(r[k])]
      BY <3>2 DEF r
    <3> HIDE DEF q
    <3>5. DOMAIN q = 1 .. m /\ \A k \in 1 .. m : q[k] \in 0 .. 99
      BY <3>3, <3>4
    <3>6. q \in Seq(Nat) /\ Len(q) = m
      <4>1. \A k \in 1 .. m : q[k] \in Nat
        <5>1. \A v \in 0 .. 99 : v \in Nat
          OBVIOUS
        <5> QED
          BY <3>5, <5>1, Zenon
      <4>2. q = [k \in 1 .. m |-> q[k]]
        BY <3>4
      <4> HIDE DEF m
      <4> QED
        BY <3>2, <4>1, <4>2
    <3> QED
      BY <3>1, <3>5, <3>6
  <2>6. col.slots = q
    BY <2>1
  <2> HIDE DEF q
  <2>7. SlotsCell(col) = TextCell(col)
    BY <2>5, <2>6, SlotsFitColumn
  <2> QED
    BY <2>3, <2>7 DEF col
<1> DEFINE cols == Columns
<1> HIDE DEF cols, n
<1>9. BannerLength(cols, n) + 1 <= BannerSize(n)
  <2>1. n \in Nat \ {0} /\ DOMAIN cols = 1 .. n
    BY <1>4, <1>7 DEF cols
  <2>2. /\ \A i \in 1 .. n : cols[i].last <=> i = n
        /\ \A i \in 1 .. n : SlotsCell(cols[i]) = TextCell(cols[i])
    BY <1>8 DEF cols
  <2> QED
    BY <2>1, <2>2, BannerRoom
<1> QED
  BY <1>5, <1>9 DEF cols

\* The bridges and their slots stay while pcitop measures.
LEMMA AfterBanner ==
  ASSUME StartInv, [StartupNext]_startVars, pc' = "measure"
  PROVE  /\ UNCHANGED <<host_lba_list, lba, slots>>
         /\ \/ build_banner
            \/ pc = "measure" /\ print_line
            \/ pc = "measure" /\ UNCHANGED output
<1>1. CASE StartupNext
  <2>1. ~ParseOption /\ ~usage /\ ~CheckDrivers /\ ~create_sysfs_pci_tree
    BY DEF ParseOption, usage, CheckDrivers, create_sysfs_pci_tree
  <2>2. ~init_lbas /\ ~init_lba /\ ~InitLbaNoBuffer /\ ~InitLbaNoMemory
    BY DEF init_lbas, init_lba, InitLbaNoBuffer, InitLbaNoMemory
  <2>3. ~find_lba_location_info /\ ~NextEntry /\ ~filter_lbas /\ ~Dispatch /\ ~show_all_root_info
    BY DEF find_lba_location_info, NextEntry, filter_lbas, Dispatch, show_all_root_info
  <2>4. build_banner \/ print_line
    BY <1>1, <2>1, <2>2, <2>3 DEF StartupNext
  <2> QED
    BY <2>4 DEF build_banner, print_line, treeVars, lists
<1>2. CASE UNCHANGED startVars
  BY <1>2 DEF startVars, mainVars, treeVars, lists
<1> QED
  BY <1>1, <1>2

\* The bridges displayed, and their columns.
LEMMA SameColumns ==
  ASSUME UNCHANGED <<host_lba_list, lba, slots>>
  PROVE  Displayed' = Displayed /\ Columns' = Columns
<1>1. Displayed' = Displayed
  <2>1. Displayed' = Shown(host_lba_list', lba')[Len(host_lba_list')]
    BY DEF Displayed, Shown
  <2> QED
    BY <2>1, DisplayedIsShown
<1> QED
  BY <1>1 DEF Columns, SlotsOf

\* What was built, and the line that was printed last.
OutputNames == {"size", "length", "line_size", "line_length", "printed"}
LineInv ==
  pc = "measure" =>
    /\ DOMAIN output = OutputNames
    /\ output.line_size = LineSize(Len(Displayed))
    /\ output.printed # << >> =>
         /\ output.printed \in [DOMAIN Displayed -> PrintedWidths]
         /\ output.line_length = LineLength(Columns, output.printed)

LEMMA LineKept ==
  ASSUME StartInv, LineInv, [StartupNext]_startVars
  PROVE  LineInv'
<1> SUFFICES ASSUME pc' = "measure"
             PROVE  LineInv'
  BY DEF LineInv
<1>1. /\ UNCHANGED <<host_lba_list, lba, slots>>
      /\ \/ build_banner
         \/ pc = "measure" /\ print_line
         \/ pc = "measure" /\ UNCHANGED output
  BY AfterBanner
<1>2. Displayed' = Displayed /\ Columns' = Columns
  BY <1>1, SameColumns
<1>3. CASE build_banner
  <2>1. options.num_lba_display = Len(Displayed)
    BY <1>3, DisplayedFacts DEF StartInv, CountInv, Filtered, build_banner
  <2>2. output' = [size |-> BannerSize(options.num_lba_display),
                   length |-> BannerLength(Columns, options.num_lba_display),
                   line_size |-> LineSize(options.num_lba_display),
                   line_length |-> 0, printed |-> << >>]
    BY <1>3 DEF build_banner
  <2>3. /\ DOMAIN output' = OutputNames /\ output'.printed = << >>
        /\ output'.line_size = LineSize(options.num_lba_display)
    BY <2>2 DEF OutputNames
  <2> QED
    BY <1>2, <2>1, <2>3 DEF LineInv
<1>4. CASE pc = "measure" /\ print_line
  <2>1. PICK printed \in [DOMAIN Displayed -> PrintedWidths] :
          output' = [output EXCEPT !.printed = printed,
                                   !.line_length = LineLength(Columns, printed)]
    BY <1>4 DEF print_line
  <2>2. DOMAIN output = OutputNames /\ output.line_size = LineSize(Len(Displayed))
    BY <1>4 DEF LineInv
  <2>3. /\ DOMAIN output' = OutputNames /\ output'.line_size = output.line_size
        /\ output'.printed = printed /\ output'.line_length = LineLength(Columns, printed)
    BY <2>1, <2>2 DEF OutputNames
  <2> QED
    BY <1>2, <2>2, <2>3 DEF LineInv
<1>5. CASE pc = "measure" /\ UNCHANGED output
  BY <1>2, <1>5 DEF LineInv
<1> QED
  BY <1>1, <1>3, <1>4, <1>5

LEMMA LineInvariant == StartupSpec => []LineInv
<1>1. StartupInit => LineInv
  BY DEF StartupInit, LineInv
<1>2. StartInv /\ LineInv /\ [StartupNext]_startVars => LineInv'
  BY LineKept
<1> QED
  BY <1>1, <1>2, StartInvariant, PTL DEF StartupSpec

LEMMA BannerKept ==
  ASSUME SlotsNamed, StartInv, LineInv, BannerFitsWhenLastShown, [StartupNext]_startVars
  PROVE  BannerFitsWhenLastShown'
<1> SUFFICES ASSUME pc' = "measure", Last(Displayed') = Last(host_lba_list'),
                    \A i \in DOMAIN Displayed' : Len(SlotsOf(Displayed[i])') <= 4
             PROVE  BannerFits'
  BY DEF BannerFitsWhenLastShown
<1>1. /\ UNCHANGED <<host_lba_list, lba, slots>>
      /\ \/ build_banner
         \/ pc = "measure" /\ print_line
         \/ pc = "measure" /\ UNCHANGED output
  BY AfterBanner
<1>2. Displayed' = Displayed
  BY <1>1, SameColumns
<1>3. \A i \in DOMAIN Displayed : SlotsOf(Displayed[i])' = SlotsOf(Displayed[i])
  BY <1>1, <1>2 DEF SlotsOf
<1>4. /\ Last(Displayed) = Last(host_lba_list)
      /\ \A i \in DOMAIN Displayed : Len(SlotsOf(Displayed[i])) <= 4
  BY <1>1, <1>2, <1>3
<1>5. CASE build_banner
  BY <1>4, <1>5, BannerStep DEF BannerFits
<1>6. CASE pc = "measure" /\ (print_line \/ UNCHANGED output)
  <2>1. output.length + 1 <= output.size
    BY <1>4, <1>6 DEF BannerFitsWhenLastShown, BannerFits
  <2>2. DOMAIN output = OutputNames
    BY <1>6 DEF LineInv
  <2>3. output'.length = output.length /\ output'.size = output.size
    BY <1>6, <2>2 DEF print_line, OutputNames
  <2> QED
    BY <2>1, <2>3 DEF BannerFits
<1> QED
  BY <1>1, <1>5, <1>6

\* The banner with its '\0' fits into its buffer when the last bridge of the
\* list is displayed and no row of slots is wider than its column, on a machine
\* with any number of bridges whose slots are named as build_banner expects
\* (pcitop.c:764-768).
THEOREM BannerTheorem ==
  ASSUME SlotsNamed
  PROVE  StartupSpec => []BannerFitsWhenLastShown
<1>1. StartupInit => BannerFitsWhenLastShown
  BY DEF StartupInit, BannerFitsWhenLastShown
<1>2. StartInv /\ LineInv /\ BannerFitsWhenLastShown /\ [StartupNext]_startVars
        => BannerFitsWhenLastShown'
  BY BannerKept
<1> QED
  BY <1>1, <1>2, StartInvariant, LineInvariant, PTL DEF StartupSpec

-----------------------------------------------------------------------------
(* A line of results.                                                      *)

\* Cells that are at least as wide as the columns take the width of the line
\* exactly when none is wider.
LEMMA TotalOfCells ==
  ASSUME NEW s \in Seq(Int), Len(s) # 0,
         \A i \in 1 .. Len(s) : s[i] >= IF i = Len(s) THEN 16 ELSE 18
  PROVE  Total(s) <= 18 * (Len(s) - 1) + 16
           <=> \A i \in 1 .. Len(s) : s[i] = IF i = Len(s) THEN 16 ELSE 18
<1> DEFINE n == Len(s)
<1>1. n \in Nat \ {0}
  OBVIOUS
<1>2. PICK h \in [0 .. n -> Int] :
        /\ h[0] = 0
        /\ \A m \in 0 .. n - 1 : h[m + 1] = h[m] + s[m + 1]
        /\ Total(s) = h[n]
  BY TotalSteps
<1>3. \A i \in 1 .. n : s[i] \in Int /\ s[i] >= IF i = n THEN 16 ELSE 18
  OBVIOUS
<1> HIDE DEF n
<1> DEFINE Exact(m) == \A i \in 1 .. m : s[i] = 18
           S == {m \in Nat : m <= n - 1 => /\ h[m] \in Int /\ h[m] >= 18 * m
                                           /\ h[m] = 18 * m <=> Exact(m)}
<1>4. 0 \in S
  BY <1>2
<1>5. ASSUME NEW m \in Nat, m \in S
      PROVE  m + 1 \in S
  <2> SUFFICES ASSUME m + 1 <= n - 1
               PROVE  /\ h[m + 1] \in Int /\ h[m + 1] >= 18 * (m + 1)
                      /\ h[m + 1] = 18 * (m + 1) <=> Exact(m + 1)
    OBVIOUS
  <2>1. /\ h[m] \in Int /\ h[m] >= 18 * m
        /\ h[m] = 18 * m <=> Exact(m)
    BY <1>1, <1>5
  <2>2. m \in 0 .. n - 1 /\ m + 1 \in 1 .. n /\ m + 1 # n
    BY <1>1
  <2>3. h[m + 1] = h[m] + s[m + 1] /\ s[m + 1] \in Int /\ s[m + 1] >= 18
    BY <1>2, <1>3, <2>2
  <2>4. Exact(m + 1) <=> Exact(m) /\ s[m + 1] = 18
    <3>1. 1 .. m + 1 = 1 .. m \cup {m + 1}
      OBVIOUS
    <3> QED
      BY <3>1
  <2> HIDE DEF S, Exact
  <2>5. /\ h[m + 1] \in Int /\ h[m + 1] >= 18 * (m + 1)
        /\ h[m + 1] = 18 * (m + 1) <=> h[m] = 18 * m /\ s[m + 1] = 18
    <3>1. PICK a, b : a = h[m] /\ b = s[m + 1]
      OBVIOUS
    <3>2. a \in Int /\ b \in Int /\ a >= 18 * m /\ b >= 18 /\ h[m + 1] = a + b
      BY <2>1, <2>3, <3>1
    <3>3. a + b \in Int /\ a + b >= 18 * (m + 1)
      BY <3>2
    <3>4. a + b = 18 * (m + 1) => a = 18 * m /\ b = 18
      BY <3>2
    <3>5. a = 18 * m /\ b = 18 => a + b = 18 * (m + 1)
      BY <3>2
    <3> QED
      BY <3>1, <3>2, <3>3, <3>4, <3>5, Zenon
  <2> QED
    BY <2>1, <2>4, <2>5, Zenon
<1>6. n - 1 \in S
  <2>1. n - 1 \in Nat
    BY <1>1
  <2> HIDE DEF S
  <2> QED
    BY <1>4, <1>5, <2>1, NatSet
<1>7. /\ h[n - 1] \in Int /\ h[n - 1] >= 18 * (n - 1)
      /\ h[n - 1] = 18 * (n - 1) <=> Exact(n - 1)
  BY <1>1, <1>6
<1>8. h[n] = h[n - 1] + s[n] /\ s[n] \in Int /\ s[n] >= 16
  <2>1. n - 1 \in 0 .. n - 1 /\ (n - 1) + 1 = n /\ n \in 1 .. n
    BY <1>1
  <2> QED
    BY <1>2, <1>3, <2>1
<1>9. (\A i \in 1 .. n : s[i] = IF i = n THEN 16 ELSE 18) <=> Exact(n - 1) /\ s[n] = 16
  <2>1. 1 .. n = 1 .. n - 1 \cup {n} /\ n \notin 1 .. n - 1
    BY <1>1
  <2> QED
    BY <2>1
<1> HIDE DEF S, Exact
<1>10. h[n] <= 18 * (n - 1) + 16 <=> Exact(n - 1) /\ s[n] = 16
  <2>1. h[n] <= 18 * (n - 1) + 16 <=> h[n - 1] = 18 * (n - 1) /\ s[n] = 16
    <3>1. PICK a, b : a = h[n - 1] /\ b = s[n]
      OBVIOUS
    <3>2. a \in Int /\ b \in Int /\ a >= 18 * (n - 1) /\ b >= 16 /\ h[n] = a + b
      BY <1>7, <1>8, <3>1
    <3>3. a + b <= 18 * (n - 1) + 16 => a = 18 * (n - 1) /\ b = 16
      BY <1>1, <3>2
    <3>4. a = 18 * (n - 1) /\ b = 16 => a + b <= 18 * (n - 1) + 16
      BY <1>1, <3>2
    <3> QED
      BY <3>1, <3>2, <3>3, <3>4, Zenon
  <2> QED
    BY <1>7, <2>1, Zenon
<1> QED
  BY <1>2, <1>9, <1>10 DEF n

\* The last bridge of the list has the last column, if it is displayed.
LEMMA LastShownLast ==
  ASSUME StartInv, NEW i \in DOMAIN Displayed, Displayed[i] = Last(host_lba_list)
  PROVE  i = Len(Displayed)
<1> DEFINE L == Len(host_lba_list)
           w == Shown(host_lba_list, lba)
           places == ShownUpTo(host_lba_list, lba, L)
<1>1. /\ Displayed \in Seq(Lbas)
      /\ Range(Displayed) = {host_lba_list[k] : k \in places}
      /\ \A k, j \in DOMAIN Displayed : Displayed[k] = Displayed[j] => k = j
  BY DisplayedFacts DEF StartInv
<1>2. /\ host_lba_list \in Seq(Lbas) /\ L \in Nat
      /\ \A k, j \in DOMAIN host_lba_list : host_lba_list[k] = host_lba_list[j] => k = j
  BY DEF StartInv, HostInv
<1>3. Last(host_lba_list) = host_lba_list[L]
  BY DEF Last
<1>4. PICK k \in places : host_lba_list[k] = host_lba_list[L]
  <2>1. Displayed[i] \in Range(Displayed)
    BY DEF Range
  <2> QED
    BY <1>1, <1>3, <2>1
<1>5. k \in 1 .. L /\ lba[host_lba_list[k]].display
  BY DEF ShownUpTo
<1>6. L \in 1 .. L /\ lba[host_lba_list[L]].display
  BY <1>2, <1>4, <1>5
<1>7. Displayed = Append(w[L - 1], host_lba_list[L])
  <2>1. w[L] = IF lba[host_lba_list[L]].display THEN Append(w[L - 1], host_lba_list[L])
               ELSE w[L - 1]
    BY <1>2, <1>6, ShownExists
  <2> QED
    BY <1>6, <2>1, DisplayedIsShown
<1> HIDE DEF w, L
<1>8. /\ Len(Displayed) \in DOMAIN Displayed
      /\ Displayed[Len(Displayed)] = host_lba_list[L]
  <2> DEFINE u == w[L - 1]
  <2> HIDE DEF u
  <2>1. Displayed = Append(u, host_lba_list[L])
    BY <1>7 DEF u
  <2>2. Len(Displayed) = Len(u) + 1
    BY <2>1
  <2>3. Len(Displayed) \in Nat /\ DOMAIN Displayed = 1 .. Len(Displayed)
    BY <1>1
  <2> QED
    BY <2>1, <2>2, <2>3
<1> QED
  BY <1>1, <1>3, <1>8

\* A cell of a line is wider than its column by the characters that its result
\* is wider than RESULT_WIDTH.
LEMMA CellWidth ==
  ASSUME NEW col, NEW printed \in Nat, printed >= RESULT_WIDTH
  PROVE  /\ ResultCell(col, printed) \in Int
         /\ ResultCell(col, printed) = TextCell(col) + printed - RESULT_WIDTH
         /\ TextCell(col) = IF col.last THEN 16 ELSE 18
<1> DEFINE sep == Separator(col)
<1>1. sep = IF col.last THEN 0 ELSE 2
  BY DEF Separator, COLUMN_SEP_WIDTH
<1> HIDE DEF sep
<1>2. COLUMN_DATA_WIDTH + sep - 7 \in Nat \ {0}
  BY <1>1 DEF COLUMN_DATA_WIDTH
<1>3. Blanks(COLUMN_DATA_WIDTH + sep - 7) = COLUMN_DATA_WIDTH + sep - 7
  BY <1>2, BlanksOf
<1> QED
  BY <1>1, <1>3 DEF ResultCell, TextCell, COLUMN_DATA_WIDTH, RESULT_WIDTH, sep

LEMMA LineIsExact ==
  ASSUME StartInv, LineInv
  PROVE  LineFitsExactly
<1> SUFFICES ASSUME pc = "measure", output.printed # << >>
             PROVE  output.line_length <= output.line_size
                      <=> /\ Last(Displayed) = Last(host_lba_list)
                          /\ \A i \in DOMAIN output.printed : output.printed[i] = RESULT_WIDTH
  BY DEF LineFitsExactly
<1> DEFINE n == Len(Displayed)
           p == output.printed
           cells == [i \in DOMAIN Columns |-> ResultCell(Columns[i], p[i])]
<1>1. /\ p \in [DOMAIN Displayed -> PrintedWidths]
      /\ output.line_length = LineLength(Columns, p)
      /\ output.line_size = LineSize(n)
  BY DEF LineInv
<1>2. /\ Displayed \in Seq(Lbas) /\ options.num_lba_display = n
      /\ options.num_lba_display # 0
  BY DisplayedFacts DEF StartInv, CountInv, ReadyInv, Filtered
<1>3. n \in Nat \ {0} /\ DOMAIN Displayed = 1 .. n
  BY <1>2
<1>4. DOMAIN Columns = 1 .. n
  BY <1>3 DEF Columns
<1>5. \A i \in 1 .. n : p[i] \in Nat /\ p[i] >= RESULT_WIDTH
  BY <1>1, <1>3, StartupAssumption
<1>6. Last(Displayed) = Displayed[n]
  BY DEF Last
<1>7. \A i \in 1 .. n : Columns[i].last <=> Displayed[i] = Last(host_lba_list)
  BY <1>3 DEF Columns
<1>8. \A i \in 1 .. n : Columns[i].last => i = n
  BY <1>3, <1>7, LastShownLast
<1>9. ASSUME NEW i \in 1 .. n
      PROVE  /\ cells[i] \in Int
             /\ cells[i] >= IF i = n THEN 16 ELSE 18
             /\ cells[i] = (IF i = n THEN 16 ELSE 18)
                  <=> p[i] = RESULT_WIDTH /\ (i = n => Columns[i].last)
  <2> DEFINE c == Columns[i]
             v == p[i]
  <2>1. cells[i] = ResultCell(c, v)
    BY <1>4
  <2>2. v \in Nat /\ v >= RESULT_WIDTH /\ (c.last => i = n)
    BY <1>5, <1>8
  <2> HIDE DEF c, v, cells, n
  <2>3. /\ cells[i] \in Int
        /\ cells[i] = TextCell(c) + v - RESULT_WIDTH
        /\ TextCell(c) = IF c.last THEN 16 ELSE 18
    BY <2>1, <2>2, CellWidth
  <2>4. /\ cells[i] >= IF i = n THEN 16 ELSE 18
        /\ cells[i] = (IF i = n THEN 16 ELSE 18)
             <=> v = RESULT_WIDTH /\ (i = n => c.last)
    BY <2>2, <2>3 DEF RESULT_WIDTH
  <2> QED
    BY <2>3, <2>4 DEF c, v
<1>10. cells \in Seq(Int) /\ Len(cells) = n
  <2>1. DOMAIN cells = 1 .. n /\ \A i \in 1 .. n : cells[i] \in Int
    BY <1>4, <1>9
  <2>2. cells = [i \in 1 .. n |-> cells[i]]
    BY <1>4
  <2> HIDE DEF cells, n
  <2> QED
    BY <1>3, <2>1, <2>2
<1>11. output.line_length <= output.line_size <=> Total(cells) <= 18 * (n - 1) + 16
  <2>1. output.line_length = COLUMN_HEADER_WIDTH + COLUMN_SEP_WIDTH + Total(cells) + 1
    BY <1>1 DEF LineLength, Row
  <2>2. Total(cells) \in Int
    <3> HIDE DEF cells
    <3> QED
      BY <1>10, TotalSteps
  <2> HIDE DEF cells, n
  <2> QED
    BY <1>1, <1>3, <2>1, <2>2
    DEF LineSize, LINE_WIDTH, COLUMN_HEADER_WIDTH, COLUMN_SEP_WIDTH, COLUMN_DATA_WIDTH
<1> HIDE DEF cells
<1>12. Total(cells) <= 18 * (n - 1) + 16
         <=> \A i \in 1 .. n : cells[i] = IF i = n THEN 16 ELSE 18
  <2>1. Len(cells) # 0 /\ \A i \in 1 .. Len(cells) : cells[i] >= IF i = Len(cells) THEN 16 ELSE 18
    BY <1>3, <1>9, <1>10
  <2> HIDE DEF n
  <2> QED
    BY <1>10, <2>1, TotalOfCells
<1>13. (\A i \in 1 .. n : cells[i] = IF i = n THEN 16 ELSE 18)
         <=> Columns[n].last /\ \A i \in 1 .. n : p[i] = RESULT_WIDTH
  <2>1. n \in 1 .. n
    BY <1>3
  <2> HIDE DEF n, p
  <2> QED
    BY <1>9, <2>1
<1>14. Columns[n].last <=> Last(Displayed) = Last(host_lba_list)
  BY <1>3, <1>6, <1>7
<1>15. DOMAIN p = 1 .. n
  BY <1>1, <1>3
<1> QED
  BY <1>11, <1>12, <1>13, <1>14, <1>15

\* On a machine with any number of bridges and for results of any width, a line
\* of results fits into its buffer exactly when the last bridge of the list is
\* displayed and every result takes six characters, those of a ratio below
\* 1000% (pcitop.c:881, 943-951, 968-976).
THEOREM LineTheorem == StartupSpec => []LineFitsExactly
<1>1. StartInv /\ LineInv => LineFitsExactly
  BY LineIsExact
<1> QED
  BY <1>1, StartInvariant, LineInvariant, PTL

-----------------------------------------------------------------------------
(* A start in which nothing fails: every bridge, bus and slot is found.    *)

TreeWhole ==
  /\ phase = "roots" => RootBridges \subseteq dir \cup Range(root_bridge_list)
  /\ phase \notin {"roots_open", "roots"} => RootBridges \subseteq Range(root_bridge_list)
  /\ phase = "buses" => \A b \in Buses : Link[b] # NULL => b \in dir \cup Range(bus_list)
  /\ phase \in {"slots_open", "slots", "tree_done"} =>
       \A b \in Buses : Link[b] # NULL => b \in Range(bus_list)
  /\ phase = "slots" => Slots \subseteq dir \cup Range(slot_list)
  /\ phase = "tree_done" => Slots \subseteq Range(slot_list)

LEMMA NoFaults ==
  ASSUME NothingFails
  PROVE  /\ "opendir" \notin Faults /\ "calloc" \notin Faults /\ "driver" \notin Faults
         /\ "user" \notin Faults /\ {"user", "driver"} \cap Faults = {}
         /\ \A s \in Slots : ReadAddress(s) = {Address[s]}
  BY DEF NothingFails, ReadAddress

\* A slot's bus has a link to a root bridge.
LEMMA BehindBridge ==
  ASSUME MachineAsNamed, NEW s \in Slots
  PROVE  Address[s] \in Buses /\ Link[Address[s]] = BridgeOf(s) /\ BridgeOf(s) \in Lbas
         /\ Link[Address[s]] # NULL
<1>1. BridgeOf(s) \in Lbas /\ Lbas \subseteq RootBridges /\ NULL \notin RootBridges
  BY StartupAssumption, TreeAssumption DEF MachineAsNamed
<1>2. Address[s] \in Buses \cup {NULL}
  BY TreeAssumption
<1> QED
  BY <1>1, <1>2 DEF BridgeOf

LEMMA TreeWholeKept ==
  ASSUME NothingFails, MachineAsNamed, TreeInv, TreeWhole, [TreeNext]_treeVars
  PROVE  TreeWhole'
<1> USE DEF TreeWhole
<1>0. /\ phase \in Phases /\ root_bridge_list \in Seq(RootBridges)
      /\ bus_list \in Seq(Buses) /\ slot_list \in Seq(Slots)
      /\ dir \subseteq RootBridges \cup Buses \cup Slots
  BY DEF TreeInv, TreeTypeOK
<1>1. CASE OpenDir("roots_open", "roots", "buses_open", RootBridges)
  BY <1>1, NoFaults DEF OpenDir, lists
<1>2. CASE AddRootBridge
  <2>1. PICK r \in dir : /\ dir' = dir \ {r}
                         /\ root_bridge_list' = Append(root_bridge_list, r)
    BY <1>2 DEF AddRootBridge
  <2>2. phase = "roots" /\ phase' = "roots" /\ r \in RootBridges
    BY <1>2, <2>1 DEF AddRootBridge, TreeInv, PhaseOrder
  <2>3. Range(root_bridge_list') = Range(root_bridge_list) \cup {r}
    BY <1>0, <2>1, <2>2, AppendFacts
  <2> QED
    BY <2>1, <2>2, <2>3
<1>3. CASE CloseDir("roots", "buses_open")
  BY <1>3, NoFaults DEF CloseDir, lists
<1>4. CASE OpenDir("buses_open", "buses", "slots_open", Buses)
  BY <1>4, NoFaults DEF OpenDir, lists
<1>5. CASE AddBus
  <2>1. PICK b \in dir : /\ dir' = dir \ {b}
                         /\ IF Link[b] = NULL THEN UNCHANGED bus_list
                            ELSE bus_list' = Append(bus_list, b)
    BY <1>5 DEF AddBus
  <2>2. phase = "buses" /\ phase' = "buses" /\ b \in Buses /\ root_bridge_list' = root_bridge_list
    BY <1>5, <2>1 DEF AddBus, TreeInv, PhaseOrder
  <2>3. /\ Range(bus_list) \subseteq Range(bus_list')
        /\ Link[b] # NULL => b \in Range(bus_list')
    <3>1. Range(Append(bus_list, b)) = Range(bus_list) \cup {b}
      BY <1>0, <2>2, AppendFacts
    <3> QED
      BY <2>1, <3>1
  <2> QED
    BY <2>1, <2>2, <2>3
<1>6. CASE CloseDir("buses", "slots_open")
  BY <1>6, NoFaults DEF CloseDir, lists
<1>7. CASE OpenDir("slots_open", "slots", "tree_done", Slots)
  BY <1>7, NoFaults DEF OpenDir, lists
<1>8. CASE AddSlot
  <2>1. PICK s \in dir : \E a \in ReadAddress(s) :
          /\ dir' = dir \ {s}
          /\ IF a \in Range(bus_list) THEN LinkSlot(s, a) ELSE GiveUpScan
    BY <1>8 DEF AddSlot
  <2>2. phase = "slots" /\ s \in Slots
    BY <1>8, <2>1 DEF AddSlot, TreeInv, PhaseOrder
  <2>3. ReadAddress(s) = {Address[s]}
    BY <2>2, NoFaults
  <2>4. Address[s] \in Range(bus_list)
    BY <2>2, BehindBridge
  <2>5. LinkSlot(s, Address[s]) /\ dir' = dir \ {s}
    BY <2>1, <2>3, <2>4
  <2>6. root_bridge[Address[s]] # NULL
    <3>1. root_bridge[Address[s]] = get_sysfs_root_bridge(Link[Address[s]])
      BY <2>4 DEF TreeInv, BusesLinked
    <3>2. Link[Address[s]] \in Range(root_bridge_list) /\ Link[Address[s]] # NULL
      BY <2>2, BehindBridge, StartupAssumption
    <3> QED
      BY <3>1, <3>2 DEF get_sysfs_root_bridge
  <2>7. phase' = "slots" /\ slot_list' = Append(slot_list, s)
    BY <2>2, <2>5, <2>6 DEF LinkSlot
  <2>8. UNCHANGED <<root_bridge_list, bus_list>>
    BY <1>8 DEF AddSlot
  <2>9. Range(slot_list') = Range(slot_list) \cup {s}
    BY <1>0, <2>2, <2>7, AppendFacts
  <2> QED
    BY <2>2, <2>5, <2>7, <2>8, <2>9
<1>9. CASE CloseDir("slots", "tree_done")
  BY <1>9, NoFaults DEF CloseDir, lists
<1>10. CASE UNCHANGED treeVars
  BY <1>10 DEF treeVars, lists
<1> QED
  BY <1>1, <1>2, <1>3, <1>4, <1>5, <1>6, <1>7, <1>8, <1>9, <1>10
  DEF TreeNext, create_root_bridge_list, create_pci_bus_list, create_sysfs_slot_list

\* When the scan is done, a bridge has exactly the slots behind it, each once.
LEMMA SlotsFound ==
  ASSUME NothingFails, MachineAsNamed, TreeInv, TreeWhole, phase = "tree_done"
  PROVE  /\ Range(root_bridge_list) = RootBridges
         /\ \A r \in RootBridges : /\ slots[r] \in Seq(Slots)
                                   /\ Range(slots[r]) = Behind(r)
                                   /\ IsInjective(slots[r])
<1>1. root_bridge_list \in Seq(RootBridges) /\ slots \in [RootBridges -> Seq(Slots)]
  BY DEF TreeInv, TreeTypeOK
<1>2. Range(root_bridge_list) = RootBridges
  BY <1>1, RangeIn DEF TreeWhole
<1>3. ASSUME NEW r \in RootBridges
      PROVE  Range(slots[r]) = Behind(r) /\ IsInjective(slots[r])
  <2>1. Range(slots[r]) \subseteq Slots
    BY <1>1, RangeIn
  <2>2. ASSUME NEW q \in RootBridges, NEW s \in Range(slots[q])
        PROVE  BridgeOf(s) = q
    <3>1. s \in Slots
      BY <1>1, <2>2, RangeIn
    <3>2. Link[Address[s]] = q
      BY <2>2 DEF TreeInv, SlotUnderOwnBridge, NothingFails
    <3> QED
      BY <3>1, <3>2, BehindBridge
  <2>3. ASSUME NEW s \in Slots, BridgeOf(s) = r
        PROVE  s \in Range(slots[r])
    <3>1. s \in Range(slot_list)
      BY DEF TreeWhole
    <3>2. PICK q \in RootBridges : s \in Range(slots[q])
      BY <3>1 DEF TreeInv, ListsAgree
    <3> QED
      BY <2>2, <2>3, <3>2
  <2>4. IsInjective(slots[r])
    BY DEF TreeInv, ListsAgree, IsInjective
  <2> QED
    BY <2>1, <2>2, <2>3, <2>4 DEF Behind
<1> QED
  BY <1>1, <1>2, <1>3

-----------------------------------------------------------------------------
(* Each option has the value that it was last given on the command line.   *)

UpTo(G, n) == {k \in G : k <= n}

\* Of the places G of the command line, the last up to n says the value.
Says(value, G, n, none, said) ==
  value = IF UpTo(G, n) = {} THEN none ELSE said[Max(UpTo(G, n))]

LEMMA SaysNothing ==
  ASSUME NEW G \in SUBSET (Nat \ {0}), NEW none, NEW said
  PROVE  Says(none, G, 0, none, said)
<1>0. \A k \in G : k \in Nat /\ ~(k <= 0)
  OBVIOUS
<1>1. UpTo(G, 0) = {}
  BY <1>0 DEF UpTo
<1> QED
  BY <1>1 DEF Says

LEMMA SaysNext ==
  ASSUME NEW G \in SUBSET Nat, NEW n \in Nat, NEW none, NEW said, NEW v, NEW w,
         Says(v, G, n, none, said),
         w = IF n + 1 \in G THEN said[n + 1] ELSE v
  PROVE  Says(w, G, n + 1, none, said)
<1>0. \A k \in G : /\ k \in Nat
                   /\ k <= n + 1 <=> k <= n \/ k = n + 1
                   /\ k <= n + 1 => k \in 0 .. n + 1
  OBVIOUS
<1>1. CASE n + 1 \in G
  <2> DEFINE U == UpTo(G, n + 1)
  <2>0. n + 1 <= n + 1 /\ U = {k \in G : k <= n + 1}
    BY DEF UpTo
  <2>1. U \in SUBSET (0 .. n + 1) /\ n + 1 \in U /\ U # {}
    <3> HIDE DEF U
    <3> QED
      BY <1>0, <1>1, <2>0, Zenon
  <2> HIDE DEF U
  <2>2. Max(U) \in U /\ n + 1 <= Max(U)
    BY <2>1, MaxFacts
  <2>3. Max(U) \in 0 .. n + 1
    BY <2>1, <2>2
  <2>4. Max(U) = n + 1
    BY <2>2, <2>3
  <2> QED
    BY <1>1, <2>1, <2>4 DEF Says, U
<1>2. CASE n + 1 \notin G
  <2>1. UpTo(G, n + 1) = UpTo(G, n)
    BY <1>0, <1>2, Zenon DEF UpTo
  <2> QED
    BY <1>2, <2>1 DEF Says
<1> QED
  BY <1>1, <1>2

AddressOf(a) == IF a.opt = "P" THEN a.arg ELSE PciId[Interfaces[a.arg].bridge]

\* The options after the first n of the command line.
OptionsTold(n) ==
  LET text == [k \in DOMAIN argv |-> argv[k].arg]
      num  == [k \in DOMAIN argv |-> argv[k].means]
  IN  /\ Says(options.and, Given({"a", "o"}), n, TRUE, [k \in DOMAIN argv |-> argv[k].opt = "a"])
      /\ Says(options.domain, Given({"D"}), n, -1, num)
      /\ Says(options.bus, Given({"b"}), n, -1, num)
      /\ Says(options.lspci, GivenAddress, n, << >>, [k \in DOMAIN argv |-> AddressOf(argv[k])])
      /\ Says(options.cabinet, Given({"C"}), n, << >>, text)
      /\ Says(options.bay, Given({"B"}), n, << >>, text)
      /\ Says(options.chassis, Given({"A"}), n, << >>, text)
      /\ Says(options.slot, Given({"S"}), n, << >>, text)

OptInv ==
  /\ pc = "options" => OptionsTold(at - 1)
  /\ pc \notin {"options", "usage"} => OptionsTold(Len(argv))

MatchNames == {"and", "domain", "bus", "lspci", "cabinet", "bay", "chassis", "slot"}

LEMMA AfterOptionMatch ==
  ASSUME NEW o, DOMAIN o = OptionNames, NEW a \in Args, a.opt \notin {"h", "V"}
  PROVE  LET r == AfterOption(o, a)
         IN  /\ r.and = IF a.opt \in {"a", "o"} THEN a.opt = "a" ELSE o.and
             /\ r.domain = IF a.opt = "D" THEN strtol(a.arg) ELSE o.domain
             /\ r.bus = IF a.opt = "b" THEN strtol(a.arg) ELSE o.bus
             /\ r.lspci = IF a.opt = "P" THEN a.arg
                          ELSE IF a.opt = "I" /\ find_interface(a.arg) # << >>
                                 THEN find_interface(a.arg) ELSE o.lspci
             /\ r.cabinet = IF a.opt = "C" THEN a.arg ELSE o.cabinet
             /\ r.bay = IF a.opt = "B" THEN a.arg ELSE o.bay
             /\ r.chassis = IF a.opt = "A" THEN a.arg ELSE o.chassis
             /\ r.slot = IF a.opt = "S" THEN a.arg ELSE o.slot
<1> USE DEF OptionNames
<1>1. a.opt \in Opts
  BY StartupAssumption
<1>2. CASE a.opt \in {"a", "o", "i", "c", "t"}
  BY <1>2 DEF AfterOption
<1>3. CASE a.opt \in {"D", "b"}
  BY <1>3 DEF AfterOption
<1>4. CASE a.opt \in {"P", "I"}
  BY <1>4 DEF AfterOption
<1>5. CASE a.opt \in {"C", "B", "A", "S"}
  BY <1>5 DEF AfterOption
<1> QED
  BY <1>1, <1>2, <1>3, <1>4, <1>5 DEF Opts

LEMMA FoundInterface ==
  ASSUME MachineAsNamed, NEW i \in DOMAIN Interfaces
  PROVE  find_interface(i) = IF Interfaces[i].direct THEN PciId[Interfaces[i].bridge] ELSE << >>
<1> DEFINE r == Interfaces[i].bridge
           id == PciId[r]
<1>1. r \in RootBridges /\ (Interfaces[i].direct => ReadAsDecimal(id[1]) = id[1])
  BY DEF MachineAsNamed
<1>2. id \in Nat \X Nat
  BY <1>1, StartupAssumption
<1>3. id = <<id[1], id[2]>> /\ id[1] >= 0
  BY <1>2
<1> HIDE DEF id
<1>4. find_interface(i) = IF Interfaces[i].direct /\ ReadAsDecimal(id[1]) >= 0
                          THEN <<ReadAsDecimal(id[1]), id[2]>> ELSE << >>
  BY DEF find_interface, id
<1> QED
  BY <1>1, <1>3, <1>4 DEF id

LEMMA GivenFacts ==
  ASSUME argv \in Seq(Args), NEW opts
  PROVE  /\ Given(opts) \in SUBSET (Nat \ {0})
         /\ \A k \in DOMAIN argv : k \in Given(opts) <=> argv[k].opt \in opts
         /\ GivenAddress \in SUBSET (Nat \ {0})
         /\ UpTo(Given(opts), Len(argv)) = Given(opts)
         /\ UpTo(GivenAddress, Len(argv)) = GivenAddress
<1>1. Len(argv) \in Nat /\ DOMAIN argv = 1 .. Len(argv)
  OBVIOUS
<1>2. \A k \in DOMAIN argv : k \in Nat \ {0} /\ k <= Len(argv)
  BY <1>1
<1>3. Given(opts) \subseteq DOMAIN argv /\ GivenAddress \subseteq DOMAIN argv
  BY DEF Given, GivenAddress
<1> QED
  BY <1>2, <1>3, Zenon DEF Given, UpTo

LEMMA ParseOptionTold ==
  ASSUME NothingFails, MachineAsNamed, ArgsMean, StartInv, OptInv, ParseOption
  PROVE  OptInv'
<1> DEFINE n == at - 1
           a == argv[at]
           text == [k \in DOMAIN argv |-> argv[k].arg]
           num  == [k \in DOMAIN argv |-> argv[k].means]
           mode == [k \in DOMAIN argv |-> argv[k].opt = "a"]
           addr == [k \in DOMAIN argv |-> AddressOf(argv[k])]
<1>1. /\ pc = "options" /\ pc' = "options" /\ at \in DOMAIN argv /\ at' = at + 1
      /\ a.opt \notin {"h", "V"} /\ argv' = argv
      /\ options' = AfterOption(options, a)
  BY NoFaults DEF ParseOption
<1>2. argv \in Seq(Args) /\ DOMAIN options = OptionNames
  BY DEF StartInv, Shape
<1>3. a \in Args /\ n \in Nat /\ n + 1 = at /\ at' - 1 = n + 1
  BY <1>1, <1>2
<1>4. text[n + 1] = a.arg /\ num[n + 1] = a.means /\ mode[n + 1] = (a.opt = "a")
      /\ addr[n + 1] = AddressOf(a)
  BY <1>1, <1>3
<1>5. /\ Says(options.and, Given({"a", "o"}), n, TRUE, mode)
      /\ Says(options.domain, Given({"D"}), n, -1, num)
      /\ Says(options.bus, Given({"b"}), n, -1, num)
      /\ Says(options.lspci, GivenAddress, n, << >>, addr)
      /\ Says(options.cabinet, Given({"C"}), n, << >>, text)
      /\ Says(options.bay, Given({"B"}), n, << >>, text)
      /\ Says(options.chassis, Given({"A"}), n, << >>, text)
      /\ Says(options.slot, Given({"S"}), n, << >>, text)
  BY <1>1 DEF OptInv, OptionsTold
<1>6. \A opts : /\ Given(opts) \in SUBSET Nat
                /\ n + 1 \in Given(opts) <=> a.opt \in opts
  BY <1>1, <1>2, <1>3, GivenFacts
<1>7. GivenAddress \in SUBSET Nat
  BY <1>2, GivenFacts
<1>8. /\ options'.and = IF a.opt \in {"a", "o"} THEN a.opt = "a" ELSE options.and
      /\ options'.domain = IF a.opt = "D" THEN strtol(a.arg) ELSE options.domain
      /\ options'.bus = IF a.opt = "b" THEN strtol(a.arg) ELSE options.bus
      /\ options'.lspci = IF a.opt = "P" THEN a.arg
                          ELSE IF a.opt = "I" /\ find_interface(a.arg) # << >>
                                 THEN find_interface(a.arg) ELSE options.lspci
      /\ options'.cabinet = IF a.opt = "C" THEN a.arg ELSE options.cabinet
      /\ options'.bay = IF a.opt = "B" THEN a.arg ELSE options.bay
      /\ options'.chassis = IF a.opt = "A" THEN a.arg ELSE options.chassis
      /\ options'.slot = IF a.opt = "S" THEN a.arg ELSE options.slot
  BY <1>1, <1>2, <1>3, AfterOptionMatch
<1>9. a.opt \in {"D", "b"} => strtol(a.arg) = a.means
  BY <1>3 DEF ArgsMean
<1>10. options'.lspci = IF n + 1 \in GivenAddress THEN AddressOf(a) ELSE options.lspci
  <2>1. n + 1 \in GivenAddress <=> \/ a.opt = "P"
                                   \/ a.opt = "I" /\ Interfaces[a.arg].direct
    BY <1>3, <1>6 DEF GivenAddress
  <2>2. CASE a.opt = "I"
    <3>1. a.arg \in DOMAIN Interfaces
      BY <1>3, <2>2 DEF ArgsMean
    <3>2. Interfaces[a.arg].bridge \in RootBridges
      BY <3>1 DEF MachineAsNamed
    <3>0. ASSUME NEW p \in Nat \X Nat
          PROVE  p # << >>
      OBVIOUS
    <3>3. PciId[Interfaces[a.arg].bridge] # << >>
      BY <3>0, <3>2, StartupAssumption
    <3>4. find_interface(a.arg) =
            IF Interfaces[a.arg].direct THEN PciId[Interfaces[a.arg].bridge] ELSE << >>
      BY <3>1, FoundInterface
    <3> HIDE DEF n, a
    <3> QED
      BY <1>8, <2>1, <2>2, <3>3, <3>4 DEF AddressOf
  <2>3. CASE a.opt # "I"
    BY <1>8, <2>1, <2>3 DEF AddressOf
  <2> QED
    BY <2>2, <2>3
<1> HIDE DEF n, a, text, num, mode, addr
<1>11. Says(options'.and, Given({"a", "o"}), n + 1, TRUE, mode)
  <2>1. options'.and = IF n + 1 \in Given({"a", "o"}) THEN mode[n + 1] ELSE options.and
    BY <1>4, <1>6, <1>8
  <2> QED
    BY <1>3, <1>5, <1>6, <2>1, SaysNext
<1>12. Says(options'.domain, Given({"D"}), n + 1, -1, num)
  <2>1. options'.domain = IF n + 1 \in Given({"D"}) THEN num[n + 1] ELSE options.domain
    BY <1>4, <1>6, <1>8, <1>9
  <2> QED
    BY <1>3, <1>5, <1>6, <2>1, SaysNext
<1>13. Says(options'.bus, Given({"b"}), n + 1, -1, num)
  <2>1. options'.bus = IF n + 1 \in Given({"b"}) THEN num[n + 1] ELSE options.bus
    BY <1>4, <1>6, <1>8, <1>9
  <2> QED
    BY <1>3, <1>5, <1>6, <2>1, SaysNext
<1>14. Says(options'.lspci, GivenAddress, n + 1, << >>, addr)
  BY <1>3, <1>4, <1>5, <1>7, <1>10, SaysNext
<1>15. Says(options'.cabinet, Given({"C"}), n + 1, << >>, text)
  <2>1. options'.cabinet = IF n + 1 \in Given({"C"}) THEN text[n + 1] ELSE options.cabinet
    BY <1>4, <1>6, <1>8
  <2> QED
    BY <1>3, <1>5, <1>6, <2>1, SaysNext
<1>16. Says(options'.bay, Given({"B"}), n + 1, << >>, text)
  <2>1. options'.bay = IF n + 1 \in Given({"B"}) THEN text[n + 1] ELSE options.bay
    BY <1>4, <1>6, <1>8
  <2> QED
    BY <1>3, <1>5, <1>6, <2>1, SaysNext
<1>17. Says(options'.chassis, Given({"A"}), n + 1, << >>, text)
  <2>1. options'.chassis = IF n + 1 \in Given({"A"}) THEN text[n + 1] ELSE options.chassis
    BY <1>4, <1>6, <1>8
  <2> QED
    BY <1>3, <1>5, <1>6, <2>1, SaysNext
<1>18. Says(options'.slot, Given({"S"}), n + 1, << >>, text)
  <2>1. options'.slot = IF n + 1 \in Given({"S"}) THEN text[n + 1] ELSE options.slot
    BY <1>4, <1>6, <1>8
  <2> QED
    BY <1>3, <1>5, <1>6, <2>1, SaysNext
<1>19. /\ Given({"a", "o"})' = Given({"a", "o"}) /\ Given({"D"})' = Given({"D"})
       /\ Given({"b"})' = Given({"b"}) /\ GivenAddress' = GivenAddress
       /\ Given({"C"})' = Given({"C"}) /\ Given({"B"})' = Given({"B"})
       /\ Given({"A"})' = Given({"A"}) /\ Given({"S"})' = Given({"S"})
  BY <1>1 DEF Given, GivenAddress
<1>20. /\ text = [k \in DOMAIN argv' |-> argv'[k].arg]
       /\ num = [k \in DOMAIN argv' |-> argv'[k].means]
       /\ mode = [k \in DOMAIN argv' |-> argv'[k].opt = "a"]
       /\ addr = [k \in DOMAIN argv' |-> AddressOf(argv'[k])]
  BY <1>1 DEF text, num, mode, addr
<1>21. OptionsTold(at - 1)'
  BY <1>3, <1>11, <1>12, <1>13, <1>14, <1>15, <1>16, <1>17, <1>18, <1>19, <1>20
  DEF OptionsTold
<1> QED
  BY <1>1, <1>21 DEF OptInv

\* The options keep what the command line said.
LEMMA SameOptions ==
  ASSUME NEW n, OptionsTold(n), argv' = argv,
         \A f \in MatchNames : options'[f] = options[f]
  PROVE  OptionsTold(n)'
<1>1. /\ options'.and = options.and /\ options'.domain = options.domain
      /\ options'.bus = options.bus /\ options'.lspci = options.lspci
      /\ options'.cabinet = options.cabinet /\ options'.bay = options.bay
      /\ options'.chassis = options.chassis /\ options'.slot = options.slot
  BY DEF MatchNames
<1>2. /\ Given({"a", "o"})' = Given({"a", "o"}) /\ Given({"D"})' = Given({"D"})
      /\ Given({"b"})' = Given({"b"}) /\ GivenAddress' = GivenAddress
      /\ Given({"C"})' = Given({"C"}) /\ Given({"B"})' = Given({"B"})
      /\ Given({"A"})' = Given({"A"}) /\ Given({"S"})' = Given({"S"})
  BY DEF Given, GivenAddress
<1> DEFINE text == [k \in DOMAIN argv |-> argv[k].arg]
           num  == [k \in DOMAIN argv |-> argv[k].means]
           mode == [k \in DOMAIN argv |-> argv[k].opt = "a"]
           addr == [k \in DOMAIN argv |-> AddressOf(argv[k])]
<1>3. /\ text' = text /\ num' = num /\ mode' = mode /\ addr' = addr
  OBVIOUS
<1>4. /\ Says(options.and, Given({"a", "o"}), n, TRUE, mode)
      /\ Says(options.domain, Given({"D"}), n, -1, num)
      /\ Says(options.bus, Given({"b"}), n, -1, num)
      /\ Says(options.lspci, GivenAddress, n, << >>, addr)
      /\ Says(options.cabinet, Given({"C"}), n, << >>, text)
      /\ Says(options.bay, Given({"B"}), n, << >>, text)
      /\ Says(options.chassis, Given({"A"}), n, << >>, text)
      /\ Says(options.slot, Given({"S"}), n, << >>, text)
  BY DEF OptionsTold
<1>5. /\ text = [k \in DOMAIN argv' |-> argv'[k].arg]
      /\ num = [k \in DOMAIN argv' |-> argv'[k].means]
      /\ mode = [k \in DOMAIN argv' |-> argv'[k].opt = "a"]
      /\ addr = [k \in DOMAIN argv' |-> AddressOf(argv'[k])]
  OBVIOUS
<1> HIDE DEF text, num, mode, addr
<1> QED
  BY <1>1, <1>2, <1>4, <1>5 DEF OptionsTold

LEMMA MatchStep ==
  ASSUME StartInv, [StartupNext]_startVars, ~ParseOption
  PROVE  /\ argv' = argv
         /\ \A f \in MatchNames : options'[f] = options[f]
<1> USE DEF MatchNames
<1>1. DOMAIN options = OptionNames
  BY DEF StartInv, Shape
<1>2. CASE usage \/ create_sysfs_pci_tree \/ InitLbaNoMemory
  BY <1>2 DEF usage, create_sysfs_pci_tree, InitLbaNoMemory, mainVars
<1>3. CASE CheckDrivers
  BY <1>1, <1>3 DEF CheckDrivers, OptionNames
<1>4. CASE init_lbas \/ InitLbaNoBuffer \/ find_lba_location_info \/ NextEntry
  BY <1>4 DEF init_lbas, InitLbaNoBuffer, find_lba_location_info, NextEntry
<1>5. CASE init_lba
  BY <1>1, <1>5 DEF init_lba, OptionNames
<1>6. CASE filter_lbas
  <2>1. argv' = argv /\ (options' = options \/
          \E n : options' = [options EXCEPT !.num_lba_display = n])
    BY <1>6 DEF filter_lbas
  <2> QED
    BY <1>1, <2>1 DEF OptionNames
<1>7. CASE Dispatch
  BY <1>1, <1>7 DEF Dispatch, OptionNames
<1>8. CASE show_all_root_info \/ build_banner \/ print_line
  BY <1>8 DEF show_all_root_info, build_banner, print_line
<1>9. CASE UNCHANGED startVars
  BY <1>9 DEF startVars, mainVars
<1> QED
  BY <1>2, <1>3, <1>4, <1>5, <1>6, <1>7, <1>8, <1>9 DEF StartupNext

\* After the options, main goes on from where getopt_long found the last one.
LEMMA OptionsEnd ==
  ASSUME StartInv, [StartupNext]_startVars, ~ParseOption
  PROVE  /\ pc' = "options" => pc = "options" /\ at' = at
         /\ pc' \notin {"options", "usage"} =>
              pc \notin {"options", "usage"} \/ (pc = "options" /\ at - 1 = Len(argv))
<1>1. CASE UNCHANGED startVars
  BY <1>1 DEF startVars, mainVars
<1>2. CASE usage
  BY <1>2 DEF usage
<1>3. CASE CheckDrivers
  <2>1. pc = "options" /\ at \notin DOMAIN argv /\ pc' \in {"tree", "exit"}
    BY <1>3 DEF CheckDrivers
  <2>2. argv \in Seq(Args) /\ at \in Nat \ {0} /\ at <= Len(argv) + 1
    BY <2>1 DEF StartInv, Shape, AtInv
  <2>3. Len(argv) \in Nat /\ DOMAIN argv = 1 .. Len(argv)
    BY <2>2
  <2> QED
    BY <2>1, <2>2, <2>3
<1>4. CASE create_sysfs_pci_tree \/ init_lbas
  BY <1>4 DEF create_sysfs_pci_tree, init_lbas
<1>5. CASE init_lba \/ InitLbaNoBuffer \/ InitLbaNoMemory
  BY <1>5 DEF init_lba, InitLbaNoBuffer, InitLbaNoMemory
<1>6. CASE find_lba_location_info \/ NextEntry
  BY <1>6 DEF find_lba_location_info, NextEntry
<1>7. CASE filter_lbas
  <2>1. pc = "filter" /\ pc' \in {"crashed", "filter"}
    BY <1>7 DEF filter_lbas
  <2> QED
    BY <2>1
<1>8. CASE Dispatch \/ show_all_root_info \/ build_banner \/ print_line
  BY <1>8 DEF Dispatch, show_all_root_info, build_banner, print_line
<1> QED
  BY <1>1, <1>2, <1>3, <1>4, <1>5, <1>6, <1>7, <1>8 DEF StartupNext

LEMMA OptInvKept ==
  ASSUME NothingFails, MachineAsNamed, ArgsMean, StartInv, OptInv,
         [StartupNext]_startVars
  PROVE  OptInv'
<1>1. CASE ParseOption
  BY <1>1, ParseOptionTold
<1>2. CASE ~ParseOption
  <2>1. \A n : OptionsTold(n) => OptionsTold(n)'
    BY <1>2, MatchStep, SameOptions
  <2>2. argv' = argv
    BY <1>2, MatchStep
  <2>3. CASE pc' = "options"
    <3>1. PICK m : m = at - 1
      OBVIOUS
    <3>2. OptionsTold(m) /\ m = at' - 1
      BY <1>2, <2>3, <3>1, OptionsEnd DEF OptInv
    <3>3. OptionsTold(m)'
      BY <2>1, <3>2
    <3>4. OptionsTold(at - 1)'
      BY <3>2, <3>3 DEF OptionsTold
    <3> QED
      BY <2>3, <3>4 DEF OptInv
  <2>4. CASE pc' \notin {"options", "usage"}
    <3>1. PICK m : m = Len(argv)
      OBVIOUS
    <3>2. OptionsTold(m) /\ m = Len(argv')
      BY <1>2, <2>2, <2>4, <3>1, OptionsEnd DEF OptInv
    <3>3. OptionsTold(m)'
      BY <2>1, <3>2
    <3>4. OptionsTold(Len(argv))'
      BY <3>2, <3>3 DEF OptionsTold
    <3> QED
      BY <2>4, <3>4 DEF OptInv
  <2> QED
    BY <2>3, <2>4 DEF OptInv
<1> QED
  BY <1>1, <1>2

LEMMA OptInvInit ==
  ASSUME StartupInit, StartInv
  PROVE  OptInv
<1>1. /\ pc = "options" /\ at = 1 /\ options = NoOptions /\ argv \in Seq(Args)
  BY DEF StartupInit, StartInv, Shape
<1>2. at - 1 = 0
  BY <1>1
<1>3. \A opts : Given(opts) \in SUBSET (Nat \ {0})
  BY <1>1, GivenFacts
<1>4. GivenAddress \in SUBSET (Nat \ {0})
  BY <1>1, GivenFacts
<1>5. \A none, said : /\ \A opts : Says(none, Given(opts), 0, none, said)
                      /\ Says(none, GivenAddress, 0, none, said)
  BY <1>3, <1>4, SaysNothing
<1>6. /\ options.and = TRUE /\ options.domain = -1 /\ options.bus = -1
      /\ options.lspci = << >> /\ options.cabinet = << >> /\ options.bay = << >>
      /\ options.chassis = << >> /\ options.slot = << >>
  BY <1>1 DEF NoOptions
<1>7. OptionsTold(0)
  BY <1>5, <1>6 DEF OptionsTold
<1> QED
  BY <1>1, <1>2, <1>7 DEF OptInv

-----------------------------------------------------------------------------
(* The place of each bridge is that of the slots behind it.                *)

\* The cabinet (n = 1), bay (2) or chassis (3) that a slot is in.
InPart(n, s) == (WXYZZ(s) \div Part(n)) % 10

LEMMA PlaceNumbers ==
  ASSUME MachineAsNamed, NEW s \in Slots
  PROVE  LET place == integrity_parse_slot(SlotName[s])
         IN  /\ place.cabinet = InPart(1, s) /\ place.bay = InPart(2, s)
             /\ place.chassis = InPart(3, s) /\ place.slot = WXYZZ(s) % 100
             /\ WXYZZ(s) \in Nat /\ \A n \in 1 .. 3 : InPart(n, s) \in Nat
<1> DEFINE name == SlotName[s]
           w == ReadDigits(name)
           cab == integrity_parse_slot(name).cabinet
<1>1. name \in Seq(Digits) /\ Len(name) \in 1 .. 5
  BY DEF MachineAsNamed
<1>2. w \in Nat
  BY <1>1, DigitsInt, ReadDigitsNat
<1>3. integrity_parse_slot(name) = PlaceOfNumber(w)
  BY <1>1, PlaceTheorem
<1>4. cab \in 0 .. 9
  <2>1. cab = IF Len(name) = 5 THEN name[1] ELSE 0
    BY DEF integrity_parse_slot
  <2>2. Len(name) = 5 => name[1] \in 0 .. 9
    BY <1>1 DEF Digits
  <2> QED
    BY <2>1, <2>2
<1> HIDE DEF w
<1>5. cab = w \div 10000 /\ integrity_parse_slot(name).bay = (w \div 1000) % 10
      /\ integrity_parse_slot(name).chassis = (w \div 100) % 10
      /\ integrity_parse_slot(name).slot = w % 100
  BY <1>3 DEF PlaceOfNumber
<1>6. Part(1) = 10000 /\ Part(2) = 1000 /\ Part(3) = 100
  BY DEF Part
<1>7. InPart(1, s) = (w \div 10000) % 10 /\ InPart(2, s) = (w \div 1000) % 10
      /\ InPart(3, s) = (w \div 100) % 10 /\ WXYZZ(s) = w
  BY <1>6 DEF InPart, WXYZZ, w
<1> HIDE DEF name, cab
<1>8. cab = (w \div 10000) % 10
  BY <1>2, <1>4, <1>5
<1>9. InPart(1, s) \in Nat /\ InPart(2, s) \in Nat /\ InPart(3, s) \in Nat
  BY <1>2, <1>7
<1>10. \A n \in 1 .. 3 : n = 1 \/ n = 2 \/ n = 3
  OBVIOUS
<1> QED
  BY <1>2, <1>5, <1>7, <1>8, <1>9, <1>10 DEF name, cab

LEMMA AddNumberFacts ==
  ASSUME NEW q \in Seq(Int), NEW v \in Int, \A i, j \in DOMAIN q : q[i] = q[j] => i = j
  PROVE  LET r == AddNumber(q, v)
         IN  /\ r \in Seq(Int) /\ Range(r) = Range(q) \cup {v}
             /\ \A i, j \in DOMAIN r : r[i] = r[j] => i = j
<1>1. Contains(q, v) <=> v \in Range(q)
  BY DEF Contains, Range
<1>2. CASE Contains(q, v)
  BY <1>1, <1>2 DEF AddNumber
<1>3. CASE ~Contains(q, v)
  <2> DEFINE r == Append(q, v)
  <2>1. /\ r \in Seq(Int) /\ Range(r) = Range(q) \cup {v}
        /\ DOMAIN r = 1 .. Len(q) + 1 /\ DOMAIN q = 1 .. Len(q) /\ Len(q) \in Nat
        /\ \A i \in DOMAIN q : r[i] = q[i]
        /\ r[Len(q) + 1] = v
    BY AppendFacts
  <2> HIDE DEF r
  <2>2. \A i \in DOMAIN q : q[i] # v
    BY <1>1, <1>3 DEF Range
  <2>3. \A i \in DOMAIN r : i \in DOMAIN q \/ i = Len(q) + 1
    BY <2>1
  <2>4. \A i, j \in DOMAIN r : r[i] = r[j] => i = j
    BY <2>1, <2>2, <2>3
  <2>5. AddNumber(q, v) = r
    BY <1>3 DEF AddNumber, r
  <2> QED
    BY <2>1, <2>4, <2>5
<1> QED
  BY <1>2, <1>3

\* How many slots of the i-th bridge on the list were looked at.
Done(i) ==
  IF pc = "locate" /\ i = Len(host_lba_list) THEN at - 1 ELSE Len(slots[host_lba_list[i]])

\* Nothing was lost, and every bridge of the class directory gets on the list.
EntriesInv ==
  /\ pc # "crashed"
  /\ pc \notin {"options", "tree", "usage"} =>
       phase = "tree_done" /\ Lbas \subseteq entries \cup Range(host_lba_list)
  /\ pc \notin {"options", "tree", "usage", "lbas", "locate"} => entries = {}

\* A bridge is where the last of its slots that was looked at is.
PartOf(l, n) == IF n = 1 THEN lba[l].cabinet ELSE IF n = 2 THEN lba[l].bay ELSE lba[l].chassis

LocatedInv ==
  \A i \in DOMAIN host_lba_list :
    LET l == host_lba_list[i]
    IN  /\ lba[l].sysfs_root_bridge = l
        /\ \A n \in 1 .. 3 :
             PartOf(l, n) = IF Done(i) = 0 THEN 0 ELSE InPart(n, slots[l][Done(i)])

\* The slots looked at, and the cabinets, bays and chassis they are in.
LookedAt ==
  {s \in Slots : \E i \in DOMAIN host_lba_list : \E k \in 1 .. Done(i) :
                   s = slots[host_lba_list[i]][k]}

SysInv ==
  /\ DOMAIN sys_info = 1 .. 3
  /\ \A n \in 1 .. 3 :
       /\ sys_info[n] \in Seq(Int)
       /\ \A i, j \in DOMAIN sys_info[n] : sys_info[n][i] = sys_info[n][j] => i = j
       /\ Range(sys_info[n]) = {InPart(n, s) : s \in LookedAt}

\* Root bridges are there when bridges are read.
LEMMA RootThere ==
  ASSUME NothingFails, MachineAsNamed, TreeInv, TreeWhole, phase = "tree_done",
         NEW l \in Lbas
  PROVE  get_sysfs_root_bridge(l) = l /\ l \in RootBridges /\ l # NULL
<1>1. Range(root_bridge_list) = RootBridges
  BY SlotsFound
<1>2. l \in RootBridges /\ NULL \notin RootBridges
  BY StartupAssumption, TreeAssumption
<1> QED
  BY <1>1, <1>2 DEF get_sysfs_root_bridge

LEMMA SameLocated ==
  ASSUME LocatedInv, SysInv, UNCHANGED <<host_lba_list, slots, sys_info>>,
         \A i \in DOMAIN host_lba_list : /\ Done(i)' = Done(i)
           /\ LET l == host_lba_list[i]
              IN  /\ lba'[l].sysfs_root_bridge = lba[l].sysfs_root_bridge
                  /\ lba'[l].cabinet = lba[l].cabinet /\ lba'[l].bay = lba[l].bay
                  /\ lba'[l].chassis = lba[l].chassis
  PROVE  LocatedInv' /\ SysInv'
<1>1. \A i \in DOMAIN host_lba_list : \A n \in 1 .. 3 :
        PartOf(host_lba_list[i], n)' = PartOf(host_lba_list[i], n)
  BY DEF PartOf
<1>2. LocatedInv'
  BY <1>1 DEF LocatedInv
<1>3. LookedAt' = LookedAt
  BY DEF LookedAt
<1>4. SysInv'
  BY <1>3 DEF SysInv
<1> QED
  BY <1>2, <1>4

\* Before the bridges are read the list is empty.
LEMMA NoneLocated ==
  ASSUME host_lba_list = << >>, SysInv, host_lba_list' = << >>, sys_info' = sys_info
  PROVE  LocatedInv' /\ SysInv'
<1>1. LookedAt = {} /\ LookedAt' = {}
  BY DEF LookedAt
<1> QED
  BY <1>1 DEF LocatedInv, SysInv

\* No step of a start without failures ends it early, and every bridge that
\* leaves the class directory gets on the list.
LEMMA EntriesKept ==
  ASSUME NothingFails, MachineAsNamed, StartInv, TreeInv', TreeWhole, EntriesInv,
         LocatedInv, [StartupNext]_startVars
  PROVE  EntriesInv'
<1> USE DEF EntriesInv
<1>0. /\ "calloc" \notin Faults /\ "opendir" \notin Faults
      /\ {"user", "driver"} \cap Faults = {}
  BY NoFaults
<1>1. CASE UNCHANGED startVars
  BY <1>1 DEF startVars, mainVars, treeVars, lists
<1>2. CASE ParseOption
  BY <1>2 DEF ParseOption, treeVars
<1>3. CASE usage
  BY <1>3 DEF usage
<1>4. CASE CheckDrivers
  BY <1>0, <1>4 DEF CheckDrivers
<1>5. CASE create_sysfs_pci_tree
  BY <1>5 DEF create_sysfs_pci_tree
<1>6. CASE init_lbas
  BY <1>0, <1>6 DEF init_lbas, treeVars
<1>7. CASE init_lba
  <2>1. PICK l \in entries : entries' = entries \ {l}
                             /\ host_lba_list' = Append(host_lba_list, l)
    BY <1>7 DEF init_lba
  <2>2. pc = "lbas" /\ pc' = "locate" /\ phase' = phase
    BY <1>7 DEF init_lba, treeVars
  <2>3. host_lba_list \in Seq(Lbas) /\ l \in Lbas
    BY <2>1 DEF StartInv, HostInv
  <2>4. Range(host_lba_list') = Range(host_lba_list) \cup {l}
    BY <2>1, <2>3, AppendFacts
  <2> QED
    BY <2>1, <2>2, <2>4
<1>8. CASE InitLbaNoBuffer \/ InitLbaNoMemory
  BY <1>0, <1>8 DEF InitLbaNoBuffer, InitLbaNoMemory
<1>9. CASE find_lba_location_info
  BY <1>9 DEF find_lba_location_info, treeVars
<1>10. CASE NextEntry
  BY <1>10 DEF NextEntry, treeVars
<1>11. CASE filter_lbas
  <2> DEFINE l == host_lba_list[at]
  <2>1. /\ pc = "filter" /\ at \in DOMAIN host_lba_list /\ UNCHANGED <<entries, host_lba_list, phase>>
        /\ pc' = IF FilterCrashes(l) THEN "crashed" ELSE pc
    BY <1>11 DEF filter_lbas, treeVars
  <2>2. lba[l].sysfs_root_bridge = l /\ l \in Lbas
    BY <2>1 DEF LocatedInv, StartInv, HostInv
  <2>3. l # NULL
    BY <2>2, StartupAssumption, TreeAssumption
  <2>4. ~FilterCrashes(l)
    BY <2>2, <2>3 DEF FilterCrashes
  <2> QED
    BY <2>1, <2>4
<1>12. CASE Dispatch
  BY <1>12 DEF Dispatch, treeVars
<1>13. CASE show_all_root_info \/ build_banner
  <2>1. ~NoRootBridge
    <3> SUFFICES ASSUME NoRootBridge
                 PROVE  FALSE
      OBVIOUS
    <3>1. Range(root_bridge_list) # RootBridges
      BY NoRootBridgeLost
    <3>2. phase = "tree_done"
      BY <1>13 DEF show_all_root_info, build_banner
    <3> QED
      BY <3>1, <3>2, SlotsFound DEF StartInv
  <2>2. /\ pc \in {"show", "banner"} /\ UNCHANGED <<entries, host_lba_list, phase>>
        /\ pc' \in {"done", "measure"}
    BY <1>0, <1>13, <2>1 DEF show_all_root_info, build_banner, treeVars
  <2> QED
    BY <2>2
<1>14. CASE print_line
  BY <1>14 DEF print_line, treeVars
<1> QED
  BY <1>1, <1>2, <1>3, <1>4, <1>5, <1>6, <1>7, <1>8, <1>9, <1>10, <1>11, <1>12, <1>13, <1>14
  DEF StartupNext

\* A bridge comes on the list before its slots are looked at.
LEMMA RegisterLocated ==
  ASSUME NothingFails, MachineAsNamed, StartInv, TreeWhole, LocatedInv, SysInv, init_lba
  PROVE  LocatedInv' /\ SysInv'
<1>1. PICK l \in entries :
        /\ host_lba_list' = Append(host_lba_list, l)
        /\ lba' = [lba EXCEPT ![l] = [NewLba EXCEPT
             !.display = TRUE, !.sysfs_root_bridge = get_sysfs_root_bridge(l)]]
  BY DEF init_lba
<1>2. /\ host_lba_list' = Append(host_lba_list, l)
      /\ lba' = [lba EXCEPT ![l] = [NewLba EXCEPT
           !.display = TRUE, !.sysfs_root_bridge = get_sysfs_root_bridge(l)]]
  BY <1>1
<1>3. /\ pc = "lbas" /\ pc' = "locate" /\ at' = 1 /\ phase = "tree_done"
      /\ UNCHANGED <<sys_info, slots>>
  BY DEF init_lba, treeVars, lists, StartInv, RootInv
<1> DEFINE info == [NewLba EXCEPT !.display = TRUE,
             !.sysfs_root_bridge = get_sysfs_root_bridge(l)]
<1>0. PICK L : L = Len(host_lba_list)
  OBVIOUS
<1>4. /\ host_lba_list \in Seq(Lbas) /\ l \in Lbas /\ l \notin Range(host_lba_list)
      /\ DOMAIN lba = Lbas
  BY DEF StartInv, HostInv, Shape
<1>5. /\ host_lba_list' \in Seq(Lbas)
      /\ DOMAIN host_lba_list' = 1 .. L + 1 /\ DOMAIN host_lba_list = 1 .. L /\ L \in Nat
      /\ \A i \in 1 .. L : host_lba_list'[i] = host_lba_list[i]
      /\ host_lba_list'[L + 1] = l /\ Len(host_lba_list') = L + 1
  BY <1>0, <1>2, <1>4, AppendFacts
<1>6. /\ info.sysfs_root_bridge = l /\ info.cabinet = 0 /\ info.bay = 0 /\ info.chassis = 0
  <2>1. get_sysfs_root_bridge(l) = l
    BY <1>3, <1>4, RootThere DEF StartInv
  <2> QED
    BY <2>1 DEF NewLba
<1>7. lba'[l] = info /\ \A m \in Lbas \ {l} : lba'[m] = lba[m]
  BY <1>2, <1>4
<1> HIDE DEF info
<1>8. \A i \in 1 .. L : host_lba_list[i] \in Lbas \ {l}
  BY <1>4, <1>5 DEF Range
<1>9. \A i \in 1 .. L : Done(i)' = Done(i)
  BY <1>3, <1>5, <1>8 DEF Done
<1>10. Done(L + 1)' = 0
  BY <1>3, <1>5 DEF Done
<1>11. \A i \in DOMAIN host_lba_list' : i \in 1 .. L \/ i = L + 1
  BY <1>5
<1>12. LocatedInv'
  <2> SUFFICES ASSUME NEW i \in DOMAIN host_lba_list', NEW m, m = host_lba_list'[i]
               PROVE  /\ lba'[m].sysfs_root_bridge = m
                      /\ \A n \in 1 .. 3 :
                           PartOf(m, n)' = IF Done(i)' = 0 THEN 0
                                           ELSE InPart(n, slots'[m][Done(i)'])
    BY Zenon DEF LocatedInv, PartOf
  <2>1. CASE i \in 1 .. L
    <3>1. m = host_lba_list[i] /\ lba'[m] = lba[m] /\ Done(i)' = Done(i) /\ slots' = slots
      BY <1>3, <1>5, <1>7, <1>8, <1>9, <2>1
    <3> QED
      BY <1>5, <2>1, <3>1 DEF LocatedInv, PartOf
  <2>2. CASE i = L + 1
    <3>1. m = l /\ lba'[m] = info /\ Done(i)' = 0
      BY <1>5, <1>7, <1>10, <2>2
    <3> QED
      BY <1>6, <3>1 DEF PartOf
  <2> QED
    BY <1>11, <2>1, <2>2
<1>13. LookedAt' = LookedAt
  <2>1. \A k : k \notin 1 .. 0
    OBVIOUS
  <2>2. ASSUME NEW s \in Slots
        PROVE  (\E i \in DOMAIN host_lba_list' : \E k \in 1 .. Done(i)' :
                  s = slots'[host_lba_list'[i]][k])
               <=> (\E i \in DOMAIN host_lba_list : \E k \in 1 .. Done(i) :
                  s = slots[host_lba_list[i]][k])
    <3>1. \A i \in 1 .. L : i \in 1 .. L + 1
      BY <1>5
    <3>2. ASSUME NEW i \in DOMAIN host_lba_list', NEW k \in 1 .. Done(i)'
          PROVE  i \in 1 .. L
      BY <1>10, <1>11, <2>1, <3>2
    <3>3. ASSUME NEW i \in 1 .. L, NEW k
          PROVE  /\ k \in 1 .. Done(i)' <=> k \in 1 .. Done(i)
                 /\ slots'[host_lba_list'[i]][k] = slots[host_lba_list[i]][k]
      BY <1>3, <1>5, <1>9
    <3> QED
      BY <1>5, <3>1, <3>2, <3>3, Zenon
  <2> QED
    BY <2>2 DEF LookedAt
<1>14. SysInv'
  BY <1>3, <1>13 DEF SysInv
<1> QED
  BY <1>12, <1>14

\* One slot is looked at: the bridge is where the slot is, and the machine has
\* that cabinet, bay and chassis.
LEMMA LookAtSlot ==
  ASSUME NothingFails, MachineAsNamed, StartInv, LocatedInv, SysInv,
         find_lba_location_info
  PROVE  LocatedInv' /\ SysInv'
<1>1. PICK L, c : L = Len(host_lba_list) /\ c = Current
  OBVIOUS
<1>2. PICK place : place = integrity_parse_slot(SlotName[SlotsOf(c)[at]])
  OBVIOUS
<1>3. /\ pc = "locate" /\ at \in DOMAIN SlotsOf(c) /\ at' = at + 1 /\ pc' = pc
      /\ UNCHANGED <<host_lba_list, slots>>
      /\ lba' = [lba EXCEPT ![c] = [@ EXCEPT
              !.cabinet = place.cabinet, !.bay = place.bay,
              !.chassis = place.chassis,
              !.num_slots = CountSlot(@, place.slot)]]
  BY <1>1, <1>2 DEF find_lba_location_info, treeVars, lists
<1>4. sys_info' = [n \in 1 .. 3 |-> AddNumber(sys_info[n], NumbersOf(place)[n])]
  <2>1. Stops(place) = {4}
    BY NoFaults DEF Stops
  <2>2. PICK stop \in Stops(place) :
          sys_info' = [n \in 1 .. 3 |-> IF n < stop THEN AddNumber(sys_info[n], NumbersOf(place)[n])
                                        ELSE sys_info[n]]
    BY <1>1, <1>2 DEF find_lba_location_info
  <2>3. stop = 4 /\ \A n \in 1 .. 3 : n < 4
    BY <2>1, <2>2
  <2> QED
    BY <2>2, <2>3
<1>5. /\ host_lba_list \in Seq(Lbas) /\ L \in Nat /\ L \in 1 .. L
      /\ DOMAIN host_lba_list = 1 .. L /\ c = host_lba_list[L] /\ c \in Lbas
      /\ \A i \in 1 .. L : host_lba_list[i] \in Lbas /\ (host_lba_list[i] = c => i = L)
  <2>1. host_lba_list \in Seq(Lbas) /\ host_lba_list # << >>
    BY <1>3 DEF StartInv, HostInv
  <2>2. L \in Nat /\ L \in 1 .. L /\ DOMAIN host_lba_list = 1 .. L /\ c = host_lba_list[L]
    BY <1>1, <2>1 DEF Current, Last
  <2> QED
    BY <2>1, <2>2 DEF StartInv, HostInv
<1>6. lba[c].sysfs_root_bridge = c /\ c \in RootBridges /\ c # NULL
  BY <1>5, StartupAssumption, TreeAssumption DEF LocatedInv
<1>7. SlotsOf(c) = slots[c] /\ slots[c] \in Seq(Slots)
  BY <1>6 DEF SlotsOf, StartInv, TreeInv, TreeTypeOK
<1>8. PICK s : s = slots[c][at]
  OBVIOUS
<1>9. s \in Slots /\ at \in Nat \ {0}
  BY <1>3, <1>7, <1>8
<1>10. /\ place.cabinet = InPart(1, s) /\ place.bay = InPart(2, s)
       /\ place.chassis = InPart(3, s) /\ \A n \in 1 .. 3 : InPart(n, s) \in Nat
  BY <1>2, <1>7, <1>8, <1>9, PlaceNumbers
<1>11. \A n \in 1 .. 3 : NumbersOf(place)[n] = InPart(n, s)
  <2>1. \A n \in 1 .. 3 : n = 1 \/ n = 2 \/ n = 3
    OBVIOUS
  <2> QED
    BY <1>10, <2>1 DEF NumbersOf
<1>12. Done(L) = at - 1 /\ Done(L)' = at
  BY <1>1, <1>3, <1>9 DEF Done
<1>13. \A i \in 1 .. L : i # L => Done(i)' = Done(i)
  BY <1>1, <1>3 DEF Done
<1>14. /\ lba'[c].cabinet = place.cabinet /\ lba'[c].bay = place.bay
       /\ lba'[c].chassis = place.chassis /\ lba'[c].sysfs_root_bridge = c
       /\ \A m \in Lbas \ {c} : lba'[m] = lba[m]
  <2>1. DOMAIN lba = Lbas /\ DOMAIN lba[c] = LbaNames
    BY <1>5 DEF StartInv, Shape
  <2> QED
    BY <1>3, <1>5, <1>6, <2>1 DEF LbaNames
<1>15. LocatedInv'
  <2> SUFFICES ASSUME NEW i \in DOMAIN host_lba_list', NEW m, m = host_lba_list'[i]
               PROVE  /\ lba'[m].sysfs_root_bridge = m
                      /\ \A n \in 1 .. 3 :
                           PartOf(m, n)' = IF Done(i)' = 0 THEN 0
                                           ELSE InPart(n, slots'[m][Done(i)'])
    BY Zenon DEF LocatedInv, PartOf
  <2>1. CASE i # L
    <3>1. m = host_lba_list[i] /\ lba'[m] = lba[m] /\ Done(i)' = Done(i) /\ slots' = slots
      BY <1>3, <1>5, <1>13, <1>14, <2>1
    <3>2. /\ lba[m].sysfs_root_bridge = m
          /\ \A n \in 1 .. 3 :
               PartOf(m, n) = IF Done(i) = 0 THEN 0 ELSE InPart(n, slots[m][Done(i)])
      BY <1>3, <3>1 DEF LocatedInv
    <3>3. \A n \in 1 .. 3 : PartOf(m, n)' = PartOf(m, n)
      BY <3>1 DEF PartOf
    <3> QED
      BY <3>1, <3>2, <3>3
  <2>2. CASE i = L
    <3>1. m = c /\ Done(i)' = at /\ slots'[m][at] = s /\ at # 0
      BY <1>3, <1>5, <1>8, <1>9, <1>12, <2>2
    <3>2. \A n \in 1 .. 3 : n = 1 \/ n = 2 \/ n = 3
      OBVIOUS
    <3> QED
      BY <1>10, <1>14, <3>1, <3>2 DEF PartOf
  <2> QED
    BY <2>1, <2>2
<1>16. LookedAt' = LookedAt \cup {s}
  <2>1. ASSUME NEW t
        PROVE  (\E k \in 1 .. at : t = slots[c][k])
               <=> (\E k \in 1 .. at - 1 : t = slots[c][k]) \/ t = s
    <3>1. \A k : k \in 1 .. at <=> k \in 1 .. at - 1 \/ k = at
      BY <1>9
    <3> QED
      BY <1>8, <3>1
  <2>2. ASSUME NEW t \in Slots
        PROVE  (\E i \in DOMAIN host_lba_list' : \E k \in 1 .. Done(i)' :
                  t = slots'[host_lba_list'[i]][k])
               <=> \/ \E i \in DOMAIN host_lba_list : \E k \in 1 .. Done(i) :
                        t = slots[host_lba_list[i]][k]
                   \/ t = s
    <3>1. /\ UNCHANGED <<host_lba_list, slots>> /\ L \in DOMAIN host_lba_list
          /\ c = host_lba_list[L] /\ Done(L) = at - 1 /\ Done(L)' = at
          /\ \A i \in DOMAIN host_lba_list : i # L => Done(i)' = Done(i)
      BY <1>3, <1>5, <1>12, <1>13
    <3>2. ASSUME NEW i \in DOMAIN host_lba_list
          PROVE  (\E k \in 1 .. Done(i)' : t = slots'[host_lba_list'[i]][k])
                 <=> \/ \E k \in 1 .. Done(i) : t = slots[host_lba_list[i]][k]
                     \/ i = L /\ t = s
      <4>1. CASE i = L
        BY <2>1, <3>1, <4>1
      <4>2. CASE i # L
        BY <3>1, <3>2, <4>2
      <4> QED
        BY <4>1, <4>2
    <3> QED
      BY <3>1, <3>2, Zenon
  <2>3. LookedAt' = {t \in Slots : \E i \in DOMAIN host_lba_list : \E k \in 1 .. Done(i) :
                        t = slots[host_lba_list[i]][k]} \cup {s}
    BY <1>9, <2>2 DEF LookedAt
  <2> QED
    BY <2>3 DEF LookedAt
<1>17. SysInv'
  <2> SUFFICES ASSUME NEW n \in 1 .. 3
               PROVE  /\ sys_info'[n] \in Seq(Int)
                      /\ \A i, j \in DOMAIN sys_info'[n] :
                           sys_info'[n][i] = sys_info'[n][j] => i = j
                      /\ Range(sys_info'[n]) = {InPart(n, t) : t \in LookedAt'}
    BY <1>4 DEF SysInv, InPart
  <2>1. sys_info'[n] = AddNumber(sys_info[n], InPart(n, s)) /\ InPart(n, s) \in Int
    BY <1>4, <1>10, <1>11
  <2>2. /\ sys_info[n] \in Seq(Int)
        /\ \A i, j \in DOMAIN sys_info[n] : sys_info[n][i] = sys_info[n][j] => i = j
        /\ Range(sys_info[n]) = {InPart(n, t) : t \in LookedAt}
    BY DEF SysInv
  <2>3. /\ sys_info'[n] \in Seq(Int)
        /\ Range(sys_info'[n]) = Range(sys_info[n]) \cup {InPart(n, s)}
        /\ \A i, j \in DOMAIN sys_info'[n] : sys_info'[n][i] = sys_info'[n][j] => i = j
    BY <2>1, <2>2, AddNumberFacts
  <2>4. {InPart(n, t) : t \in LookedAt'} = {InPart(n, t) : t \in LookedAt} \cup {InPart(n, s)}
    BY <1>16
  <2> QED
    BY <2>2, <2>3, <2>4
<1> QED
  BY <1>15, <1>17

\* Each bridge has been looked at, slot by slot, before the next one is read.
LEMMA LocatedKept ==
  ASSUME NothingFails, MachineAsNamed, StartInv, TreeWhole, LocatedInv, SysInv,
         [StartupNext]_startVars
  PROVE  LocatedInv' /\ SysInv'
<1>0. "calloc" \notin Faults
  BY NoFaults
<1>1. CASE init_lba
  BY <1>1, RegisterLocated
<1>2. CASE find_lba_location_info
  BY <1>2, LookAtSlot
<1>3. CASE create_sysfs_pci_tree
  <2>1. pc = "tree" /\ host_lba_list' = host_lba_list /\ sys_info' = sys_info
    BY <1>3 DEF create_sysfs_pci_tree, mainVars
  <2>2. host_lba_list = << >>
    BY <2>1 DEF StartInv, HostInv
  <2> QED
    BY <2>1, <2>2, NoneLocated
<1>4. CASE NextEntry
  <2>1. /\ pc = "locate" /\ pc' \in {"filter", "lbas"} /\ at \notin DOMAIN SlotsOf(Current)
        /\ UNCHANGED <<host_lba_list, slots, sys_info, lba>>
    BY <1>4 DEF NextEntry, treeVars, lists
  <2>2. PICK L, c : L = Len(host_lba_list) /\ c = Current
    OBVIOUS
  <2>3. /\ host_lba_list \in Seq(Lbas) /\ DOMAIN host_lba_list = 1 .. L /\ L \in 1 .. L
        /\ c = host_lba_list[L] /\ c \in Lbas
    BY <2>1, <2>2 DEF StartInv, HostInv, Current, Last
  <2>4. lba[c].sysfs_root_bridge = c /\ c \in RootBridges /\ c # NULL
    BY <2>3, StartupAssumption, TreeAssumption DEF LocatedInv
  <2>5. SlotsOf(c) = slots[c] /\ slots[c] \in Seq(Slots)
    BY <2>4 DEF SlotsOf, StartInv, TreeInv, TreeTypeOK
  <2>6. at \in Nat \ {0} /\ at <= Len(slots[c]) + 1 /\ at \notin 1 .. Len(slots[c])
        /\ Len(slots[c]) \in Nat
    BY <2>1, <2>2, <2>5 DEF StartInv, AtInv
  <2>7. at - 1 = Len(slots[c])
    BY <2>6
  <2>8. \A i \in DOMAIN host_lba_list : Done(i)' = Done(i)
    BY <2>1, <2>2, <2>3, <2>7 DEF Done
  <2> QED
    BY <2>1, <2>8, SameLocated
<1>5. CASE filter_lbas
  <2>1. /\ pc = "filter" /\ pc' \in {"filter", "crashed"}
        /\ UNCHANGED <<host_lba_list, slots, sys_info>>
        /\ \/ lba' = lba
           \/ \E shows : lba' = [lba EXCEPT ![host_lba_list[at]].display = shows]
    BY <1>5 DEF filter_lbas, treeVars, lists
  <2>2. /\ host_lba_list \in Seq(Lbas) /\ DOMAIN lba = Lbas
        /\ \A m \in Lbas : DOMAIN lba[m] = LbaNames
    BY DEF StartInv, HostInv, Shape
  <2>3. \A m \in Lbas : /\ lba'[m].sysfs_root_bridge = lba[m].sysfs_root_bridge
                        /\ lba'[m].cabinet = lba[m].cabinet /\ lba'[m].bay = lba[m].bay
                        /\ lba'[m].chassis = lba[m].chassis
    <3>1. CASE lba' = lba
      BY <3>1
    <3>2. ASSUME NEW shows, lba' = [lba EXCEPT ![host_lba_list[at]].display = shows]
          PROVE  \A m \in Lbas :
                   /\ lba'[m].sysfs_root_bridge = lba[m].sysfs_root_bridge
                   /\ lba'[m].cabinet = lba[m].cabinet /\ lba'[m].bay = lba[m].bay
                   /\ lba'[m].chassis = lba[m].chassis
      BY <2>2, <3>2 DEF LbaNames
    <3> QED
      BY <2>1, <3>1, <3>2
  <2>4. \A i \in DOMAIN host_lba_list : host_lba_list[i] \in Lbas /\ Done(i)' = Done(i)
    BY <2>1, <2>2 DEF Done
  <2> QED
    BY <2>1, <2>3, <2>4, SameLocated
<1>6. ASSUME UNCHANGED <<host_lba_list, slots, sys_info, lba>>,
             (pc' = pc /\ at' = at) \/ (pc # "locate" /\ pc' # "locate")
      PROVE  LocatedInv' /\ SysInv'
  <2>1. \A i \in DOMAIN host_lba_list : Done(i)' = Done(i)
    BY <1>6 DEF Done
  <2> QED
    BY <1>6, <2>1, SameLocated
<1>7. CASE UNCHANGED startVars
  BY <1>6, <1>7 DEF startVars, mainVars, treeVars, lists
<1>8. CASE ParseOption
  BY <1>6, <1>8 DEF ParseOption, treeVars, lists
<1>9. CASE usage
  BY <1>6, <1>9 DEF usage, mainVars, treeVars, lists
<1>10. CASE CheckDrivers \/ init_lbas
  BY <1>6, <1>10 DEF CheckDrivers, init_lbas, treeVars, lists
<1>11. CASE InitLbaNoBuffer \/ InitLbaNoMemory
  BY <1>0, <1>11 DEF InitLbaNoBuffer, InitLbaNoMemory
<1>12. CASE Dispatch
  BY <1>6, <1>12 DEF Dispatch, treeVars, lists
<1>13. CASE show_all_root_info \/ build_banner \/ print_line
  BY <1>6, <1>13 DEF show_all_root_info, build_banner, print_line, treeVars, lists
<1> QED
  BY <1>1, <1>2, <1>3, <1>4, <1>5, <1>7, <1>8, <1>9, <1>10, <1>11, <1>12, <1>13
  DEF StartupNext

-----------------------------------------------------------------------------
(* What the filters take, and what the user asked for.                     *)

LEMMA SameChassis ==
  ASSUME NEW x \in Nat, NEW y \in Nat, x \div 100 = y \div 100, NEW n \in 1 .. 3
  PROVE  (x \div Part(n)) % 10 = (y \div Part(n)) % 10
<1> DEFINE h == x \div 100
<1>1. \A z \in Nat : z \div 10000 = (z \div 100) \div 100 /\ z \div 1000 = (z \div 100) \div 10
  OBVIOUS
<1>2. x \div 10000 = y \div 10000 /\ x \div 1000 = y \div 1000
  BY <1>1
<1>3. Part(1) = 10000 /\ Part(2) = 1000 /\ Part(3) = 100 /\ (n = 1 \/ n = 2 \/ n = 3)
  BY DEF Part
<1> QED
  BY <1>2, <1>3

\* When the filters begin, each bridge on the list has the slots behind it and
\* is where they are.
LEMMA WhereItIs ==
  ASSUME NothingFails, MachineAsNamed, StartInv, TreeWhole, EntriesInv, LocatedInv,
         pc \notin {"options", "tree", "usage", "lbas", "locate"},
         NEW i \in DOMAIN host_lba_list, NEW l, l = host_lba_list[i]
  PROVE  /\ l \in Lbas /\ l \in RootBridges /\ lba[l].sysfs_root_bridge = l /\ l # NULL
         /\ SlotsOf(l) = slots[l] /\ slots[l] \in Seq(Slots)
         /\ Range(slots[l]) = Behind(l) /\ IsInjective(slots[l])
         /\ Done(i) = Len(slots[l])
         /\ \A n \in 1 .. 3 : \A v : PartOf(l, n) = v <=> IsIn(l, n, v)
<1>1. l \in Lbas /\ l \in RootBridges /\ l # NULL
  BY StartupAssumption, TreeAssumption DEF StartInv, HostInv
<1>2. lba[l].sysfs_root_bridge = l /\ SlotsOf(l) = slots[l]
  BY <1>1 DEF LocatedInv, SlotsOf
<1>3. slots[l] \in Seq(Slots) /\ Range(slots[l]) = Behind(l) /\ IsInjective(slots[l])
  BY <1>1, SlotsFound DEF EntriesInv, StartInv
<1>4. Done(i) = Len(slots[l])
  BY DEF Done
<1>5. ASSUME NEW n \in 1 .. 3, NEW v
      PROVE  PartOf(l, n) = v <=> IsIn(l, n, v)
  <2>1. PartOf(l, n) = IF Done(i) = 0 THEN 0 ELSE InPart(n, slots[l][Done(i)])
    BY DEF LocatedInv
  <2>2. CASE Len(slots[l]) = 0
    <3>1. Behind(l) = {}
      BY <1>3, <2>2 DEF Range
    <3> QED
      BY <1>4, <2>1, <2>2, <3>1 DEF IsIn
  <2>3. CASE Len(slots[l]) # 0
    <3>1. PICK s : s = slots[l][Len(slots[l])]
      OBVIOUS
    <3>2. s \in Range(slots[l])
      BY <1>3, <2>3, <3>1 DEF Range
    <3>3. s \in Behind(l) /\ s \in Slots
      BY <1>3, <3>2 DEF Behind
    <3>4. ASSUME NEW t \in Behind(l)
          PROVE  InPart(n, t) = InPart(n, s)
      <4>1. t \in Slots /\ BridgeOf(t) = BridgeOf(s)
        BY <3>3 DEF Behind
      <4>2. WXYZZ(t) \div 100 = WXYZZ(s) \div 100
        BY <3>3, <4>1 DEF MachineAsNamed
      <4>3. WXYZZ(t) \in Nat /\ WXYZZ(s) \in Nat
        BY <3>3, <4>1, PlaceNumbers
      <4> QED
        BY <4>2, <4>3, SameChassis DEF InPart
    <3>5. PartOf(l, n) = InPart(n, s)
      BY <1>4, <2>1, <2>3, <3>1
    <3>6. IsIn(l, n, v) <=> \A t \in Behind(l) : InPart(n, t) = v
      BY <3>3 DEF IsIn, InPart
    <3> QED
      BY <3>3, <3>4, <3>5, <3>6
  <2> QED
    BY <2>2, <2>3
<1> QED
  BY <1>1, <1>2, <1>3, <1>4, <1>5

LEMMA LastGiven ==
  ASSUME argv \in Seq(Args), NEW G, G \subseteq DOMAIN argv, G # {}
  PROVE  Max(G) \in G /\ Max(G) \in DOMAIN argv /\ argv[Max(G)] \in Args
<1>1. PICK n : n = Len(argv)
  OBVIOUS
<1>2. n \in Nat /\ DOMAIN argv = 1 .. n
  BY <1>1
<1>3. G \in SUBSET (0 .. n)
  BY <1>2
<1>4. Max(G) \in G
  BY <1>2, <1>3, MaxFacts
<1> QED
  BY <1>4

\* The options after the command line are what the user means.
OptionsMean ==
  /\ options.and \in BOOLEAN
  /\ options.and <=> Given({"a", "o"}) = {} \/ argv[Max(Given({"a", "o"}))].opt = "a"
  /\ IF Given({"D"}) = {} THEN options.domain = -1
     ELSE options.domain = Value("D") /\ options.domain >= 0
  /\ IF Given({"b"}) = {} THEN options.bus = -1
     ELSE options.bus = Value("b") /\ options.bus >= 0
  /\ IF GivenAddress = {} THEN options.lspci = << >>
     ELSE options.lspci = AddressOf(argv[Max(GivenAddress)]) /\ options.lspci # << >>
  /\ IF Given({"C"}) = {} THEN options.cabinet = << >>
     ELSE options.cabinet # << >> /\ ScanNumber(options.cabinet) = Value("C")
  /\ IF Given({"B"}) = {} THEN options.bay = << >>
     ELSE options.bay # << >> /\ ScanNumber(options.bay) = Value("B")
  /\ IF Given({"A"}) = {} THEN options.chassis = << >>
     ELSE options.chassis # << >> /\ ScanNumber(options.chassis) = Value("A")
  /\ IF Given({"S"}) = {} THEN options.slot = << >>
     ELSE /\ options.slot # << >>
          /\ \A n \in 0 .. 99 : integrity_slot_str(n) = options.slot <=> n = Value("S")

LEMMA PairNotEmpty ==
  ASSUME NEW p \in Nat \X Nat
  PROVE  p # << >>
  OBVIOUS

LEMMA ToldIsMeant ==
  ASSUME MachineAsNamed, ArgsMean, argv \in Seq(Args), OptionsTold(Len(argv))
  PROVE  OptionsMean
<1> DEFINE text == [k \in DOMAIN argv |-> argv[k].arg]
           num  == [k \in DOMAIN argv |-> argv[k].means]
           mode == [k \in DOMAIN argv |-> argv[k].opt = "a"]
           addr == [k \in DOMAIN argv |-> AddressOf(argv[k])]
           n == Len(argv)
<1>1. /\ Says(options.and, Given({"a", "o"}), n, TRUE, mode)
      /\ Says(options.domain, Given({"D"}), n, -1, num)
      /\ Says(options.bus, Given({"b"}), n, -1, num)
      /\ Says(options.lspci, GivenAddress, n, << >>, addr)
      /\ Says(options.cabinet, Given({"C"}), n, << >>, text)
      /\ Says(options.bay, Given({"B"}), n, << >>, text)
      /\ Says(options.chassis, Given({"A"}), n, << >>, text)
      /\ Says(options.slot, Given({"S"}), n, << >>, text)
  BY DEF OptionsTold
<1>2. \A k \in DOMAIN argv : text[k] = argv[k].arg /\ num[k] = argv[k].means
                             /\ mode[k] = (argv[k].opt = "a") /\ addr[k] = AddressOf(argv[k])
  OBVIOUS
<1>3. /\ \A opts : UpTo(Given(opts), n) = Given(opts)
      /\ UpTo(GivenAddress, n) = GivenAddress
  BY GivenFacts
<1> HIDE DEF text, num, mode, addr, n
<1>4. /\ options.and = IF Given({"a", "o"}) = {} THEN TRUE ELSE mode[Max(Given({"a", "o"}))]
      /\ options.domain = IF Given({"D"}) = {} THEN -1 ELSE num[Max(Given({"D"}))]
      /\ options.bus = IF Given({"b"}) = {} THEN -1 ELSE num[Max(Given({"b"}))]
      /\ options.lspci = IF GivenAddress = {} THEN << >> ELSE addr[Max(GivenAddress)]
      /\ options.cabinet = IF Given({"C"}) = {} THEN << >> ELSE text[Max(Given({"C"}))]
      /\ options.bay = IF Given({"B"}) = {} THEN << >> ELSE text[Max(Given({"B"}))]
      /\ options.chassis = IF Given({"A"}) = {} THEN << >> ELSE text[Max(Given({"A"}))]
      /\ options.slot = IF Given({"S"}) = {} THEN << >> ELSE text[Max(Given({"S"}))]
  BY <1>1, <1>3, Zenon DEF Says
<1>5. ASSUME NEW opts, Given(opts) # {}
      PROVE  LET k == Max(Given(opts))
             IN  k \in DOMAIN argv /\ argv[k] \in Args /\ argv[k].opt \in opts
  <2>1. Given(opts) \subseteq DOMAIN argv
    BY DEF Given
  <2>2. Max(Given(opts)) \in Given(opts) /\ Max(Given(opts)) \in DOMAIN argv
        /\ argv[Max(Given(opts))] \in Args
    BY <1>5, <2>1, LastGiven
  <2> QED
    BY <2>2 DEF Given
<1>6. /\ options.and \in BOOLEAN
      /\ options.and <=> Given({"a", "o"}) = {} \/ argv[Max(Given({"a", "o"}))].opt = "a"
  <2>1. CASE Given({"a", "o"}) = {}
    BY <1>4, <2>1
  <2>2. CASE Given({"a", "o"}) # {}
    <3>1. PICK k : k = Max(Given({"a", "o"}))
      OBVIOUS
    <3>2. k \in DOMAIN argv
      BY <1>5, <2>2, <3>1
    <3>3. options.and = (argv[k].opt = "a")
      BY <1>2, <1>4, <2>2, <3>1, <3>2
    <3> QED
      BY <2>2, <3>1, <3>3
  <2> QED
    BY <2>1, <2>2
<1>7. ASSUME NEW opt \in {"D", "b"}, Given({opt}) # {}
      PROVE  num[Max(Given({opt}))] = Value(opt) /\ Value(opt) >= 0
  <2>1. PICK k : k = Max(Given({opt}))
    OBVIOUS
  <2>2. k \in DOMAIN argv /\ argv[k] \in Args /\ argv[k].opt = opt
    <3>1. PICK opts : opts = {opt}
      OBVIOUS
    <3>2. k \in DOMAIN argv /\ argv[k] \in Args /\ argv[k].opt \in opts
      BY <1>5, <1>7, <2>1, <3>1
    <3> QED
      BY <3>1, <3>2
  <2> QED
    BY <1>2, <2>1, <2>2 DEF ArgsMean, Value
<1>8. ASSUME NEW opt \in {"C", "B", "A", "S"}, Given({opt}) # {}
      PROVE  LET str == text[Max(Given({opt}))]
             IN  /\ str # << >>
                 /\ opt # "S" => ScanNumber(str) = Value(opt)
                 /\ opt = "S" => \A m \in 0 .. 99 : integrity_slot_str(m) = str <=> m = Value("S")
  <2>1. PICK k : k = Max(Given({opt}))
    OBVIOUS
  <2>2. k \in DOMAIN argv /\ argv[k] \in Args /\ argv[k].opt = opt
    <3>1. PICK opts : opts = {opt}
      OBVIOUS
    <3>2. k \in DOMAIN argv /\ argv[k] \in Args /\ argv[k].opt \in opts
      BY <1>5, <1>8, <2>1, <3>1
    <3> QED
      BY <3>1, <3>2
  <2>3. text[k] = argv[k].arg /\ Value(opt) = argv[k].means
    BY <1>2, <2>1, <2>2 DEF Value
  <2>4. /\ argv[k].arg # << >>
        /\ opt # "S" => ScanNumber(argv[k].arg) = argv[k].means
        /\ opt = "S" => \A m \in 0 .. 99 :
                          integrity_slot_str(m) = argv[k].arg <=> m = argv[k].means
    BY <2>2 DEF ArgsMean
  <2> QED
    BY <2>1, <2>3, <2>4
<1>9. ASSUME GivenAddress # {}
      PROVE  addr[Max(GivenAddress)] = AddressOf(argv[Max(GivenAddress)])
             /\ AddressOf(argv[Max(GivenAddress)]) # << >>
  <2>1. PICK k : k = Max(GivenAddress)
    OBVIOUS
  <2>2. GivenAddress \subseteq DOMAIN argv
    BY DEF GivenAddress, Given
  <2>3. k \in GivenAddress /\ k \in DOMAIN argv /\ argv[k] \in Args
    BY <1>9, <2>1, <2>2, LastGiven
  <2>4. CASE argv[k].opt = "P"
    BY <1>2, <2>1, <2>3, <2>4 DEF AddressOf, ArgsMean
  <2>5. CASE argv[k].opt # "P"
    <3>1. argv[k].opt = "I"
      BY <2>3, <2>5 DEF GivenAddress, Given
    <3>2. argv[k].arg \in DOMAIN Interfaces
      BY <2>3, <3>1 DEF ArgsMean
    <3>3. Interfaces[argv[k].arg].bridge \in RootBridges
      BY <3>2 DEF MachineAsNamed
    <3>4. PciId[Interfaces[argv[k].arg].bridge] # << >>
      BY <3>3, PairNotEmpty, StartupAssumption
    <3> QED
      BY <1>2, <2>1, <2>3, <2>5, <3>4 DEF AddressOf
  <2> QED
    BY <2>4, <2>5
<1> QED
  BY <1>4, <1>6, <1>7, <1>8, <1>9 DEF OptionsMean

\* The tests of the filters, one by one.
LEMMA DecidedBy ==
  ASSUME NEW l, options.and \in BOOLEAN
  PROVE  Decided(l) <=>
           \/ options.domain >= 0 /\ ~((PciId[l][1] = options.domain) <=> options.and)
           \/ options.bus >= 0 /\ ~((PciId[l][2] = options.bus) <=> options.and)
           \/ options.lspci # << >> /\ ~((PciId[l] = options.lspci) <=> options.and)
           \/ options.cabinet # << >>
              /\ ~((ScanNumber(options.cabinet) = lba[l].cabinet) <=> options.and)
           \/ options.bay # << >>
              /\ ~((ScanNumber(options.bay) = lba[l].bay) <=> options.and)
           \/ options.chassis # << >>
              /\ ~((ScanNumber(options.chassis) = lba[l].chassis) <=> options.and)
<1> DEFINE t1 == [given |-> options.domain >= 0, match |-> PciId[l][1] = options.domain]
           t2 == [given |-> options.bus >= 0, match |-> PciId[l][2] = options.bus]
           t3 == [given |-> options.lspci # << >>, match |-> PciId[l] = options.lspci]
           t4 == [given |-> options.cabinet # << >>,
                  match |-> ScanNumber(options.cabinet) = lba[l].cabinet]
           t5 == [given |-> options.bay # << >>,
                  match |-> ScanNumber(options.bay) = lba[l].bay]
           t6 == [given |-> options.chassis # << >>,
                  match |-> ScanNumber(options.chassis) = lba[l].chassis]
           Decides(t) == t.given /\ (t.match # options.and)
<1>1. Tests(l) = {t1, t2, t3, t4, t5, t6}
  BY DEF Tests, name_to_pci_id, pcicmp, integrity_match
<1>2. Decided(l) <=> \E t \in Tests(l) : Decides(t)
  BY DEF Decided
<1>3. ASSUME NEW g \in BOOLEAN, NEW m \in BOOLEAN
      PROVE  Decides([given |-> g, match |-> m]) <=> g /\ ~(m <=> options.and)
  OBVIOUS
<1>4. /\ Decides(t1) <=> options.domain >= 0 /\ ~((PciId[l][1] = options.domain) <=> options.and)
      /\ Decides(t2) <=> options.bus >= 0 /\ ~((PciId[l][2] = options.bus) <=> options.and)
      /\ Decides(t3) <=> options.lspci # << >> /\ ~((PciId[l] = options.lspci) <=> options.and)
      /\ Decides(t4) <=> options.cabinet # << >>
                         /\ ~((ScanNumber(options.cabinet) = lba[l].cabinet) <=> options.and)
      /\ Decides(t5) <=> options.bay # << >>
                         /\ ~((ScanNumber(options.bay) = lba[l].bay) <=> options.and)
      /\ Decides(t6) <=> options.chassis # << >>
                         /\ ~((ScanNumber(options.chassis) = lba[l].chassis) <=> options.and)
  OBVIOUS
<1> HIDE DEF t1, t2, t3, t4, t5, t6, Decides
<1>5. Decided(l) <=> Decides(t1) \/ Decides(t2) \/ Decides(t3) \/ Decides(t4) \/ Decides(t5)
                     \/ Decides(t6)
  BY <1>1, <1>2
<1> QED
  BY <1>4, <1>5, Zenon

\* A bridge that has the slots behind it and is where they are.
PlaceKnown(l) ==
  /\ l \in RootBridges
  /\ SlotsOf(l) \in Seq(Slots) /\ Range(SlotsOf(l)) = Behind(l)
  /\ \A n \in 1 .. 3 : \A v : PartOf(l, n) = v <=> IsIn(l, n, v)

\* An option of the command line decides as its meaning does.
LEMMA MeetsTests ==
  ASSUME MachineAsNamed, argv \in Seq(Args), ArgsMean, OptionsMean,
         NEW l, PlaceKnown(l)
  PROVE  /\ Given({"D"}) # {} => ((PciId[l][1] = options.domain) <=> Meets(l, "D"))
         /\ Given({"b"}) # {} => ((PciId[l][2] = options.bus) <=> Meets(l, "b"))
         /\ GivenAddress # {} => ((PciId[l] = options.lspci) <=> Meets(l, "P"))
         /\ Given({"C"}) # {} =>
              ((ScanNumber(options.cabinet) = lba[l].cabinet) <=> Meets(l, "C"))
         /\ Given({"B"}) # {} => ((ScanNumber(options.bay) = lba[l].bay) <=> Meets(l, "B"))
         /\ Given({"A"}) # {} =>
              ((ScanNumber(options.chassis) = lba[l].chassis) <=> Meets(l, "A"))
         /\ Given({"S"}) # {} => (match_slot(l) <=> Meets(l, "S"))
<1>1. Given({"D"}) # {} => ((PciId[l][1] = options.domain) <=> Meets(l, "D"))
  BY DEF OptionsMean, Meets
<1>2. Given({"b"}) # {} => ((PciId[l][2] = options.bus) <=> Meets(l, "b"))
  BY DEF OptionsMean, Meets
<1>3. ASSUME GivenAddress # {}
      PROVE  (PciId[l] = options.lspci) <=> Meets(l, "P")
  <2>1. PICK a : a = argv[Max(GivenAddress)]
    OBVIOUS
  <2>2. options.lspci = AddressOf(a)
    BY <1>3, <2>1 DEF OptionsMean
  <2>3. Meets(l, "P") <=> IF a.opt = "P" THEN PciId[l] = a.arg ELSE Interfaces[a.arg].bridge = l
    BY <2>1 DEF Meets
  <2>4. CASE a.opt = "P"
    BY <2>2, <2>3, <2>4 DEF AddressOf
  <2>5. CASE a.opt # "P"
    <3>1. Max(GivenAddress) \in GivenAddress /\ a \in Args
      <4>1. GivenAddress \subseteq DOMAIN argv
        BY DEF GivenAddress, Given
      <4> QED
        BY <1>3, <2>1, <4>1, LastGiven
    <3>2. a.opt = "I"
      BY <2>1, <2>5, <3>1 DEF GivenAddress, Given
    <3>3. PICK r : r = Interfaces[a.arg].bridge
      OBVIOUS
    <3>4. r \in RootBridges
      BY <3>1, <3>2, <3>3 DEF ArgsMean, MachineAsNamed
    <3>5. DOMAIN PciId = RootBridges /\ IsInjective(PciId)
      BY StartupAssumption DEF MachineAsNamed
    <3>6. PciId[l] = PciId[r] <=> r = l
      BY <3>4, <3>5 DEF IsInjective, PlaceKnown
    <3>7. options.lspci = PciId[r] /\ (Meets(l, "P") <=> r = l)
      BY <2>2, <2>3, <2>5, <3>3 DEF AddressOf
    <3> QED
      BY <3>6, <3>7
  <2> QED
    BY <2>4, <2>5
<1>4. /\ \A v : lba[l].cabinet = v <=> IsIn(l, 1, v)
      /\ \A v : lba[l].bay = v <=> IsIn(l, 2, v)
      /\ \A v : lba[l].chassis = v <=> IsIn(l, 3, v)
  <2>1. /\ \A v : PartOf(l, 1) = v <=> IsIn(l, 1, v)
        /\ \A v : PartOf(l, 2) = v <=> IsIn(l, 2, v)
        /\ \A v : PartOf(l, 3) = v <=> IsIn(l, 3, v)
    BY DEF PlaceKnown
  <2>2. PartOf(l, 1) = lba[l].cabinet /\ PartOf(l, 2) = lba[l].bay
        /\ PartOf(l, 3) = lba[l].chassis
    BY DEF PartOf
  <2> QED
    BY <2>1, <2>2
<1>5. Given({"C"}) # {} => ((ScanNumber(options.cabinet) = lba[l].cabinet) <=> Meets(l, "C"))
  BY <1>4 DEF OptionsMean, Meets
<1>6. Given({"B"}) # {} => ((ScanNumber(options.bay) = lba[l].bay) <=> Meets(l, "B"))
  BY <1>4 DEF OptionsMean, Meets
<1>7. Given({"A"}) # {} => ((ScanNumber(options.chassis) = lba[l].chassis) <=> Meets(l, "A"))
  BY <1>4 DEF OptionsMean, Meets
<1>8. ASSUME Given({"S"}) # {}
      PROVE  match_slot(l) <=> Meets(l, "S")
  <2>1. \A n \in 0 .. 99 : integrity_slot_str(n) = options.slot <=> n = Value("S")
    BY <1>8 DEF OptionsMean
  <2>2. ASSUME NEW s \in Behind(l)
        PROVE  integrity_slot_str(ShownNumber(s)) = options.slot <=> WXYZZ(s) % 100 = Value("S")
    <3>1. s \in Slots
      BY DEF Behind
    <3>2. ShownNumber(s) = WXYZZ(s) % 100
      BY <3>1, PlaceNumbers DEF ShownNumber
    <3>3. ShownNumber(s) \in 0 .. 99
      BY <3>1, ShownNumberFacts DEF SlotsNamed, MachineAsNamed
    <3> QED
      BY <2>1, <3>2, <3>3
  <2>3. match_slot(l) <=> \E s \in Behind(l) : integrity_slot_str(ShownNumber(s)) = options.slot
    BY DEF match_slot, PlaceKnown
  <2>4. Meets(l, "S") <=> \E s \in Behind(l) : WXYZZ(s) % 100 = Value("S")
    BY DEF Meets
  <2> QED
    BY <2>2, <2>3, <2>4
<1> QED
  BY <1>1, <1>2, <1>3, <1>5, <1>6, <1>7, <1>8

\* The filters display a bridge that the user asked for, and no other.
LEMMA DisplaysAsked ==
  ASSUME MachineAsNamed, argv \in Seq(Args), ArgsMean, OptionsMean,
         NEW l, PlaceKnown(l)
  PROVE  Displays(l) <=> Asked(l)
<1> DEFINE mD == Meets(l, "D")
           mb == Meets(l, "b")
           mP == Meets(l, "P")
           mC == Meets(l, "C")
           mB == Meets(l, "B")
           mA == Meets(l, "A")
           mS == Meets(l, "S")
           gD == Given({"D"}) # {}
           gb == Given({"b"}) # {}
           gP == GivenAddress # {}
           gC == Given({"C"}) # {}
           gB == Given({"B"}) # {}
           gA == Given({"A"}) # {}
           gS == Given({"S"}) # {}
           all == options.and
<1>1. /\ (options.domain >= 0) <=> gD
      /\ (options.bus >= 0) <=> gb
      /\ (options.lspci # << >>) <=> gP
      /\ (options.cabinet # << >>) <=> gC
      /\ (options.bay # << >>) <=> gB
      /\ (options.chassis # << >>) <=> gA
      /\ (options.slot = << >>) <=> ~gS
      /\ all \in BOOLEAN
  <2>0. ~(-1 >= 0)
    OBVIOUS
  <2>1. (options.domain >= 0) <=> gD
    BY <2>0 DEF OptionsMean
  <2>2. (options.bus >= 0) <=> gb
    BY <2>0 DEF OptionsMean
  <2>3. (options.lspci # << >>) <=> gP
    BY DEF OptionsMean
  <2>4. (options.cabinet # << >>) <=> gC
    BY DEF OptionsMean
  <2>5. (options.bay # << >>) <=> gB
    BY DEF OptionsMean
  <2>6. (options.chassis # << >>) <=> gA
    BY DEF OptionsMean
  <2>7. (options.slot = << >>) <=> ~gS
    BY DEF OptionsMean
  <2>8. all \in BOOLEAN
    BY DEF OptionsMean
  <2> QED
    BY <2>1, <2>2, <2>3, <2>4, <2>5, <2>6, <2>7, <2>8
<1>2. /\ gD => ((PciId[l][1] = options.domain) <=> mD)
      /\ gb => ((PciId[l][2] = options.bus) <=> mb)
      /\ gP => ((PciId[l] = options.lspci) <=> mP)
      /\ gC => ((ScanNumber(options.cabinet) = lba[l].cabinet) <=> mC)
      /\ gB => ((ScanNumber(options.bay) = lba[l].bay) <=> mB)
      /\ gA => ((ScanNumber(options.chassis) = lba[l].chassis) <=> mA)
      /\ gS => (match_slot(l) <=> mS)
  BY MeetsTests
<1>3. /\ "D" \in Criteria <=> gD
      /\ "b" \in Criteria <=> gb
      /\ "P" \in Criteria <=> gP
      /\ "C" \in Criteria <=> gC
      /\ "B" \in Criteria <=> gB
      /\ "A" \in Criteria <=> gA
      /\ "S" \in Criteria <=> gS
      /\ \A opt \in Criteria : opt \in {"D", "b", "P", "C", "B", "A", "S"}
  BY DEF Criteria
<1>4. Asked(l) <=> IF all THEN \A opt \in Criteria : Meets(l, opt)
                   ELSE \E opt \in Criteria : Meets(l, opt)
  BY DEF OptionsMean, Asked
<1>5. Displays(l) <=> IF Decided(l) THEN ~all
                      ELSE IF options.slot = << >> THEN all ELSE match_slot(l)
  BY <1>1 DEF Displays
<1>6. Decided(l) <=> \/ gD /\ ~(mD <=> all)
                     \/ gb /\ ~(mb <=> all)
                     \/ gP /\ ~(mP <=> all)
                     \/ gC /\ ~(mC <=> all)
                     \/ gB /\ ~(mB <=> all)
                     \/ gA /\ ~(mA <=> all)
  <2> DEFINE d == options.domain >= 0
             nD == PciId[l][1] = options.domain
             b == options.bus >= 0
             nb == PciId[l][2] = options.bus
             p == options.lspci # << >>
             np == PciId[l] = options.lspci
             c == options.cabinet # << >>
             nc == ScanNumber(options.cabinet) = lba[l].cabinet
             y == options.bay # << >>
             ny == ScanNumber(options.bay) = lba[l].bay
             h == options.chassis # << >>
             nh == ScanNumber(options.chassis) = lba[l].chassis
  <2>1. Decided(l) <=> \/ d /\ ~(nD <=> all)
                       \/ b /\ ~(nb <=> all)
                       \/ p /\ ~(np <=> all)
                       \/ c /\ ~(nc <=> all)
                       \/ y /\ ~(ny <=> all)
                       \/ h /\ ~(nh <=> all)
    BY <1>1, DecidedBy
  <2>2. /\ d <=> gD
        /\ b <=> gb
        /\ p <=> gP
        /\ c <=> gC
        /\ y <=> gB
        /\ h <=> gA
    BY <1>1
  <2>3. /\ gD => (nD <=> mD)
        /\ gb => (nb <=> mb)
        /\ gP => (np <=> mP)
        /\ gC => (nc <=> mC)
        /\ gB => (ny <=> mB)
        /\ gA => (nh <=> mA)
    BY <1>2
  <2> HIDE DEF d, nD, b, nb, p, np, c, nc, y, ny, h, nh, gD, gb, gP, gC, gB, gA,
               mD, mb, mP, mC, mB, mA, all
  <2> QED
    BY <2>1, <2>2, <2>3
<1> HIDE DEF mD, mb, mP, mC, mB, mA, mS, gD, gb, gP, gC, gB, gA, gS, all
<1>7. (\A opt \in Criteria : Meets(l, opt)) <=>
        (gD => mD) /\ (gb => mb) /\ (gP => mP) /\ (gC => mC) /\ (gB => mB) /\ (gA => mA)
        /\ (gS => mS)
  BY <1>3 DEF mD, mb, mP, mC, mB, mA, mS
<1>8. (\E opt \in Criteria : Meets(l, opt)) <=>
        (gD /\ mD) \/ (gb /\ mb) \/ (gP /\ mP) \/ (gC /\ mC) \/ (gB /\ mB) \/ (gA /\ mA)
        \/ (gS /\ mS)
  BY <1>3 DEF mD, mb, mP, mC, mB, mA, mS
<1>9. CASE all
  BY <1>1, <1>2, <1>4, <1>5, <1>6, <1>7, <1>9
<1>10. CASE ~all
  BY <1>1, <1>2, <1>4, <1>5, <1>6, <1>8, <1>10
<1> QED
  BY <1>9, <1>10

-----------------------------------------------------------------------------
(* The whole invariant of a start without failures.                        *)

\* What the filters have passed is displayed as the user asked.
FilterInv ==
  /\ pc = "filter" =>
       \A k \in 1 .. at - 1 : lba[host_lba_list[k]].display <=> Asked(host_lba_list[k])
  /\ Filtered \/ pc = "exit" =>
       \A k \in DOMAIN host_lba_list : lba[host_lba_list[k]].display <=> Asked(host_lba_list[k])

WholeInv ==
  TreeWhole /\ OptInv /\ EntriesInv /\ LocatedInv /\ SysInv /\ FilterInv

LEMMA AskedSame ==
  ASSUME argv' = argv, NEW l
  PROVE  Asked(l)' <=> Asked(l)
<1>1. /\ \A opts : Given(opts)' = Given(opts)
      /\ GivenAddress' = GivenAddress
      /\ \A opt : Value(opt)' = Value(opt)
  BY DEF Given, GivenAddress, Value
<1>2. Criteria' = Criteria
  BY <1>1 DEF Criteria
<1>3. \A opt \in {"D", "b", "P", "C", "B", "A", "S"} : Meets(l, opt)' <=> Meets(l, opt)
  BY <1>1 DEF Meets, IsIn
<1>4. Criteria \subseteq {"D", "b", "P", "C", "B", "A", "S"}
  BY DEF Criteria
<1>5. /\ (\A opt \in Criteria : Meets(l, opt))' <=> (\A opt \in Criteria : Meets(l, opt))
      /\ (\E opt \in Criteria : Meets(l, opt))' <=> (\E opt \in Criteria : Meets(l, opt))
  BY <1>2, <1>3, <1>4
<1> QED
  BY <1>1, <1>5 DEF Asked

\* The bridge that the filters are at is displayed if and only if it is asked
\* for.
LEMMA FilterAsked ==
  ASSUME NothingFails, MachineAsNamed, ArgsMean, StartInv, WholeInv, pc = "filter",
         NEW i \in DOMAIN host_lba_list, NEW l, l = host_lba_list[i]
  PROVE  Displays(l) <=> Asked(l)
<1>1. OptionsMean /\ argv \in Seq(Args)
  BY ToldIsMeant DEF StartInv, Shape, WholeInv, OptInv
<1>2. /\ l \in RootBridges /\ SlotsOf(l) = slots[l] /\ slots[l] \in Seq(Slots)
      /\ Range(slots[l]) = Behind(l)
      /\ \A n \in 1 .. 3 : \A v : PartOf(l, n) = v <=> IsIn(l, n, v)
  BY WhereItIs DEF WholeInv
<1>3. PlaceKnown(l)
  BY <1>2 DEF PlaceKnown
<1> QED
  BY <1>1, <1>3, DisplaysAsked

LEMMA FilterKept ==
  ASSUME NothingFails, MachineAsNamed, ArgsMean, StartInv, WholeInv,
         [StartupNext]_startVars
  PROVE  FilterInv'
<1>0. /\ "calloc" \notin Faults /\ "opendir" \notin Faults
      /\ {"user", "driver"} \cap Faults = {}
  BY NoFaults
<1>1. CASE filter_lbas
  <2>1. PICK l : l = host_lba_list[at]
    OBVIOUS
  <2>2. /\ pc = "filter" /\ at \in DOMAIN host_lba_list
        /\ UNCHANGED <<argv, host_lba_list>>
        /\ \/ pc' = "crashed"
           \/ /\ pc' = "filter" /\ at' = at + 1
              /\ lba' = [lba EXCEPT ![l].display = Displays(l)]
    BY <1>1, <2>1 DEF filter_lbas
  <2>3. CASE pc' = "crashed"
    BY <2>3 DEF FilterInv, Filtered
  <2>4. CASE /\ pc' = "filter" /\ at' = at + 1
             /\ lba' = [lba EXCEPT ![l].display = Displays(l)]
    <3>1. PICK n : n = Len(host_lba_list)
      OBVIOUS
    <3>2. /\ host_lba_list \in Seq(Lbas) /\ n \in Nat /\ DOMAIN host_lba_list = 1 .. n
          /\ at \in 1 .. n
          /\ \A i, j \in DOMAIN host_lba_list : host_lba_list[i] = host_lba_list[j] => i = j
      BY <2>2, <3>1 DEF StartInv, HostInv
    <3>3. DOMAIN lba = Lbas /\ DOMAIN lba[l] = LbaNames /\ l \in Lbas
      BY <2>1, <3>2 DEF StartInv, Shape
    <3>4. PICK shows : shows = Displays(l)
      OBVIOUS
    <3>5. lba'[l].display = shows /\ \A m \in Lbas \ {l} : lba'[m] = lba[m]
      BY <2>4, <3>3, <3>4 DEF LbaNames
    <3>6. shows <=> Asked(l)
      BY <2>1, <2>2, <3>4, FilterAsked
    <3>7. ASSUME NEW k \in 1 .. at' - 1, NEW m, m = host_lba_list[k]
          PROVE  lba'[m].display <=> Asked(m)'
      <4>1. k \in 1 .. n /\ (k \in 1 .. at - 1 \/ k = at)
        BY <2>4, <3>2
      <4>2. Asked(m)' <=> Asked(m)
        BY <2>2, AskedSame
      <4>3. CASE k = at
        BY <2>1, <3>5, <3>6, <3>7, <4>2, <4>3
      <4>4. CASE k \in 1 .. at - 1
        <5>1. m \in Lbas \ {l}
          BY <2>1, <3>2, <3>7, <4>1, <4>4
        <5>2. lba[m].display <=> Asked(m)
          BY <2>2, <3>7, <4>4 DEF WholeInv, FilterInv
        <5> QED
          BY <3>5, <4>2, <5>1, <5>2
      <4> QED
        BY <4>1, <4>3, <4>4
    <3>8. pc' = "filter" /\ host_lba_list' = host_lba_list
      BY <2>2, <2>4
    <3>9. \A k \in 1 .. at' - 1 :
            lba'[host_lba_list'[k]].display <=> Asked(host_lba_list[k])'
      <4> SUFFICES ASSUME NEW k \in 1 .. at' - 1, NEW m, m = host_lba_list[k]
                   PROVE  lba'[m].display <=> Asked(m)'
        BY <3>8
      <4> QED
        BY <3>7
    <3> QED
      BY <3>8, <3>9 DEF FilterInv, Filtered
  <2> QED
    BY <2>2, <2>3, <2>4
<1>2. ASSUME UNCHANGED <<argv, host_lba_list, lba>>,
             \/ pc' = pc /\ at' = at
             \/ pc = "filter" /\ at - 1 = Len(host_lba_list) /\ pc' # "filter"
             \/ Filtered /\ pc' # "filter"
      PROVE  FilterInv'
  <2>1. Filtered \/ pc \in {"filter", "exit"} \/ (pc' = pc /\ ~Filtered /\ pc # "exit" /\ pc # "filter")
    BY <1>2
  <2>2. ASSUME NEW m
        PROVE  Asked(m)' <=> Asked(m)
    BY <1>2, AskedSame
  <2>3. ASSUME pc' = "filter", NEW k \in 1 .. at' - 1, NEW m, m = host_lba_list[k]
        PROVE  lba'[m].display <=> Asked(m)'
    BY <1>2, <2>2, <2>3 DEF WholeInv, FilterInv
  <2>4. ASSUME Filtered' \/ pc' = "exit", NEW k \in DOMAIN host_lba_list,
               NEW m, m = host_lba_list[k]
        PROVE  lba'[m].display <=> Asked(m)'
    <3>1. host_lba_list \in Seq(Lbas)
      BY DEF StartInv, HostInv
    <3>2. k \in 1 .. Len(host_lba_list)
      BY <3>1
    <3>3. lba[m].display <=> Asked(m)
      BY <1>2, <2>4, <3>2 DEF WholeInv, FilterInv, Filtered
    <3> QED
      BY <1>2, <2>2, <3>3
  <2>5. ASSUME pc' = "filter", NEW k \in 1 .. at' - 1
        PROVE  lba'[host_lba_list'[k]].display <=> Asked(host_lba_list[k])'
    <3> SUFFICES ASSUME NEW m, m = host_lba_list[k]
                 PROVE  lba'[m].display <=> Asked(m)'
      BY <1>2
    <3> QED
      BY <2>3, <2>5
  <2>6. ASSUME Filtered' \/ pc' = "exit", NEW k \in DOMAIN host_lba_list'
        PROVE  lba'[host_lba_list'[k]].display <=> Asked(host_lba_list[k])'
    <3> SUFFICES ASSUME NEW m, m = host_lba_list[k]
                 PROVE  lba'[m].display <=> Asked(m)'
      BY <1>2
    <3> QED
      BY <1>2, <2>4, <2>6
  <2> QED
    BY <2>5, <2>6 DEF FilterInv
<1>3. CASE Dispatch
  <2>1. /\ pc = "filter" /\ pc' # "filter" /\ at \notin DOMAIN host_lba_list
        /\ UNCHANGED <<argv, host_lba_list, lba>>
    BY <1>3 DEF Dispatch
  <2>2. host_lba_list \in Seq(Lbas) /\ at \in Nat \ {0} /\ at <= Len(host_lba_list) + 1
    BY <2>1 DEF StartInv, HostInv, AtInv
  <2>3. Len(host_lba_list) \in Nat /\ DOMAIN host_lba_list = 1 .. Len(host_lba_list)
    BY <2>2
  <2>4. at - 1 = Len(host_lba_list)
    BY <2>1, <2>2, <2>3
  <2> QED
    BY <1>2, <2>1, <2>4
<1>4. CASE show_all_root_info \/ build_banner \/ print_line
  <2>1. Filtered /\ UNCHANGED <<argv, host_lba_list, lba>> /\ pc' # "filter"
    BY <1>0, <1>4 DEF show_all_root_info, build_banner, print_line, Filtered
  <2> QED
    BY <1>2, <2>1
<1>5. CASE UNCHANGED startVars
  BY <1>2, <1>5 DEF startVars, mainVars
<1>6. ASSUME pc' \in {"options", "usage", "tree", "lbas", "locate"} \/ (pc' = "filter" /\ at' = 1)
      PROVE  FilterInv'
  BY <1>6 DEF FilterInv, Filtered
<1>7. CASE ParseOption \/ usage \/ CheckDrivers \/ create_sysfs_pci_tree
  BY <1>0, <1>6, <1>7 DEF ParseOption, usage, CheckDrivers, create_sysfs_pci_tree
<1>8. CASE init_lbas \/ init_lba \/ InitLbaNoBuffer \/ InitLbaNoMemory
  BY <1>0, <1>6, <1>8 DEF init_lbas, init_lba, InitLbaNoBuffer, InitLbaNoMemory
<1>9. CASE find_lba_location_info \/ NextEntry
  BY <1>6, <1>9 DEF find_lba_location_info, NextEntry
<1> QED
  BY <1>1, <1>3, <1>4, <1>5, <1>7, <1>8, <1>9 DEF StartupNext

LEMMA WholeInit ==
  ASSUME StartupInit, StartInv
  PROVE  WholeInv
<1>1. /\ pc = "options" /\ phase = "roots_open" /\ host_lba_list = << >>
      /\ sys_info = << << >>, << >>, << >> >>
  BY DEF StartupInit, TreeInit
<1>2. TreeWhole
  BY <1>1 DEF TreeWhole
<1>3. OptInv
  BY OptInvInit
<1>4. EntriesInv /\ FilterInv
  BY <1>1 DEF EntriesInv, FilterInv, Filtered
<1>5. LocatedInv
  BY <1>1 DEF LocatedInv
<1>6. LookedAt = {}
  BY <1>1 DEF LookedAt
<1>7. SysInv
  <2>1. \A n \in 1 .. 3 : sys_info[n] = << >>
    <3>1. \A n \in 1 .. 3 : n = 1 \/ n = 2 \/ n = 3
      OBVIOUS
    <3> QED
      BY <1>1, <3>1
  <2>2. DOMAIN sys_info = 1 .. 3
    BY <1>1
  <2>3. \A n \in 1 .. 3 : {InPart(n, s) : s \in LookedAt} = {}
    BY <1>6
  <2>4. \A q : q = << >> => q \in Seq(Int) /\ Range(q) = {} /\ \A i \in DOMAIN q : FALSE
    BY EmptyRange
  <2>5. ASSUME NEW n \in 1 .. 3, NEW q, q = sys_info[n]
        PROVE  /\ q \in Seq(Int) /\ \A i, j \in DOMAIN q : q[i] = q[j] => i = j
               /\ Range(q) = {InPart(n, s) : s \in LookedAt}
    BY <2>1, <2>3, <2>4, <2>5
  <2> QED
    BY <2>2, <2>5 DEF SysInv
<1> QED
  BY <1>2, <1>3, <1>4, <1>5, <1>7 DEF WholeInv

LEMMA WholeKept ==
  ASSUME NothingFails, MachineAsNamed, ArgsMean, StartInv, StartInv', WholeInv,
         [StartupNext]_startVars
  PROVE  WholeInv'
<1>1. TreeWhole'
  BY TreeMoves, TreeWholeKept DEF StartInv, WholeInv
<1>2. OptInv'
  BY OptInvKept DEF WholeInv
<1>3. EntriesInv'
  BY EntriesKept DEF StartInv, WholeInv
<1>4. LocatedInv' /\ SysInv'
  BY LocatedKept DEF WholeInv
<1>5. FilterInv'
  BY FilterKept
<1> QED
  BY <1>1, <1>2, <1>3, <1>4, <1>5 DEF WholeInv

LEMMA InjectiveCount ==
  ASSUME NEW S, NEW q \in Seq(S), \A i, j \in DOMAIN q : q[i] = q[j] => i = j
  PROVE  Len(q) = Cardinality(Range(q))
<1>1. PICK n : n = Len(q)
  OBVIOUS
<1>2. n \in Nat /\ DOMAIN q = 1 .. n /\ \A i \in 1 .. n : q[i] \in Range(q)
  BY <1>1 DEF Range
<1>3. PICK T : T = Range(q)
  OBVIOUS
<1>4. /\ q \in [1 .. n -> T] /\ \A t \in T : \E i \in 1 .. n : q[i] = t
      /\ IsInjective(q)
  BY <1>1, <1>2, <1>3 DEF Range, IsInjective
<1>5. q \in Bijection(1 .. n, T)
  BY <1>2, <1>4 DEF Bijection, Injection, Surjection, IsInjective
<1>6. ExistsBijection(1 .. n, T)
  BY <1>5 DEF ExistsBijection
<1> QED
  BY <1>1, <1>2, <1>3, <1>6, FS_CountingElements

\* When the filters are done, what is displayed is what was asked for.
LEMMA DisplayedIsAsked ==
  ASSUME StartInv, WholeInv, Filtered \/ pc = "exit"
  PROVE  Range(Displayed) = {l \in Lbas : Asked(l)}
<1> DEFINE n == Len(host_lba_list)
           D == Range(Displayed)
<1>1. D = {host_lba_list[k] : k \in ShownUpTo(host_lba_list, lba, n)}
  BY DisplayedFacts DEF StartInv
<1>2. host_lba_list \in Seq(Lbas) /\ n \in Nat /\ DOMAIN host_lba_list = 1 .. n
  BY DEF StartInv, HostInv
<1>3. Lbas \subseteq Range(host_lba_list)
  BY DEF WholeInv, EntriesInv, Filtered
<1>4. \A k \in 1 .. n : lba[host_lba_list[k]].display <=> Asked(host_lba_list[k])
  BY <1>2 DEF WholeInv, FilterInv
<1> HIDE DEF n, D
<1>5. ASSUME NEW k \in ShownUpTo(host_lba_list, lba, n)
      PROVE  host_lba_list[k] \in Lbas /\ Asked(host_lba_list[k])
  BY <1>2, <1>4 DEF ShownUpTo
<1>6. ASSUME NEW l \in Lbas, Asked(l)
      PROVE  \E k \in ShownUpTo(host_lba_list, lba, n) : l = host_lba_list[k]
  <2>1. PICK k \in 1 .. n : l = host_lba_list[k]
    BY <1>2, <1>3 DEF Range
  <2>2. lba[host_lba_list[k]].display
    BY <1>4, <1>6, <2>1
  <2>3. k \in ShownUpTo(host_lba_list, lba, n)
    BY <2>1, <2>2 DEF ShownUpTo
  <2> QED
    BY <2>1, <2>3
<1>7. ASSUME NEW l
      PROVE  l \in D <=> l \in Lbas /\ Asked(l)
  BY <1>1, <1>5, <1>6, Zenon
<1>8. D = {l \in Lbas : Asked(l)}
  BY <1>7
<1> QED
  BY <1>8 DEF D

\* When nothing fails, the bridges displayed are those that the options on the
\* command line ask for, for any machine named as the code expects, any command
\* line, and in whatever order sysfs lists its entries (main, find_interface,
\* create_sysfs_pci_tree, find_lba_location_info, filter_lbas).
THEOREM AskedTheorem ==
  ASSUME NothingFails, MachineAsNamed, ArgsMean
  PROVE  StartupSpec => []DisplayedAsAsked
<1>1. StartupInit /\ StartInv => WholeInv
  BY WholeInit
<1>2. StartInv /\ StartInv' /\ WholeInv /\ [StartupNext]_startVars => WholeInv'
  BY WholeKept
<1>3. StartInv /\ WholeInv => DisplayedAsAsked
  BY DisplayedIsAsked DEF DisplayedAsAsked
<1> QED
  BY <1>1, <1>2, <1>3, StartInvariant, PTL DEF StartupSpec

-----------------------------------------------------------------------------
(* What -i prints.                                                         *)

\* When the filters are done, every slot was looked at.
LEMMA AllLookedAt ==
  ASSUME NothingFails, MachineAsNamed, StartInv, WholeInv, Filtered
  PROVE  LookedAt = Slots
<1>1. /\ pc \notin {"options", "tree", "usage", "lbas", "locate"}
      /\ TreeWhole /\ EntriesInv /\ LocatedInv
  BY DEF Filtered, WholeInv
<1>2. Lbas \subseteq Range(host_lba_list)
  BY <1>1 DEF EntriesInv
<1>3. ASSUME NEW s \in Slots
      PROVE  \E i \in DOMAIN host_lba_list : \E k \in 1 .. Done(i) :
               s = slots[host_lba_list[i]][k]
  <2>1. PICK l : l = BridgeOf(s)
    OBVIOUS
  <2>2. l \in Lbas /\ s \in Behind(l)
    BY <2>1, BehindBridge DEF Behind
  <2>3. PICK i \in DOMAIN host_lba_list : l = host_lba_list[i]
    BY <1>2, <2>2 DEF Range
  <2>4. slots[l] \in Seq(Slots) /\ Range(slots[l]) = Behind(l) /\ Done(i) = Len(slots[l])
    BY <1>1, <2>3, WhereItIs
  <2>5. PICK k \in DOMAIN slots[l] : s = slots[l][k]
    BY <2>2, <2>4 DEF Range
  <2>6. k \in 1 .. Done(i)
    BY <2>4, <2>5
  <2> QED
    BY <2>3, <2>5, <2>6
<1> QED
  BY <1>3 DEF LookedAt

\* The cabinet (n = 1), bay (2) or chassis (3) of a line, and what it shows of
\* bridge l.
FieldOf(line, n) ==
  IF n = 1 THEN line.cabinet ELSE IF n = 2 THEN line.bay ELSE line.chassis

PartShown(l, n, field) ==
  Behind(l) # {} =>
    /\ Cardinality({InPart(n, s) : s \in Slots}) > 1 => Len(field) = 1
    /\ field # << >> => IsIn(l, n, field[1])

\* The line of a bridge that is displayed.
LEMMA LineShows ==
  ASSUME NothingFails, MachineAsNamed, StartInv, WholeInv, Filtered,
         NEW l \in Range(Displayed), NEW line, line = InfoLine(l),
         NEW n \in 1 .. 3, NEW field, field = FieldOf(line, n)
  PROVE  /\ line.lba = l
         /\ Len(line.slots) = Cardinality(Behind(l))
         /\ Range(line.slots) = {WXYZZ(s) % 100 : s \in Behind(l)}
         /\ PartShown(l, n, field)
<1> DEFINE rows == SlotsOf(l)
           shown == [i \in DOMAIN rows |-> ShownNumber(rows[i])]
<1>1. PICK i \in DOMAIN host_lba_list : l = host_lba_list[i]
  <2>1. l \in Range(host_lba_list)
    BY DisplayedFacts DEF StartInv
  <2> QED
    BY <2>1 DEF Range
<1>2. /\ rows = slots[l] /\ slots[l] \in Seq(Slots)
      /\ Range(slots[l]) = Behind(l) /\ IsInjective(slots[l])
      /\ \A v : PartOf(l, n) = v <=> IsIn(l, n, v)
  <2>1. /\ pc \notin {"options", "tree", "usage", "lbas", "locate"}
        /\ TreeWhole /\ EntriesInv /\ LocatedInv
    BY DEF Filtered, WholeInv
  <2> QED
    BY <1>1, <2>1, WhereItIs
<1>3. /\ line.lba = l /\ line.slots = shown
      /\ field = IF Len(sys_info[n]) > 1 THEN << PartOf(l, n) >> ELSE << >>
  <2>1. n = 1 \/ n = 2 \/ n = 3
    OBVIOUS
  <2> QED
    BY <2>1 DEF InfoLine, PartOf, FieldOf
<1> HIDE DEF rows
<1>4. PICK m : m = Len(rows)
  OBVIOUS
<1>5. m \in Nat /\ DOMAIN rows = 1 .. m /\ m = Cardinality(Behind(l))
  <2>1. \A j, k \in DOMAIN rows : rows[j] = rows[k] => j = k
    BY <1>2 DEF IsInjective
  <2>2. Len(rows) = Cardinality(Range(rows))
    BY <1>2, <2>1, InjectiveCount
  <2> QED
    BY <1>2, <1>4, <2>2
<1>6. \A k \in 1 .. m : rows[k] \in Behind(l) /\ rows[k] \in Slots
  BY <1>2, <1>5 DEF Range, Behind
<1>7. \A k \in 1 .. m : ShownNumber(rows[k]) = WXYZZ(rows[k]) % 100
  BY <1>6, PlaceNumbers DEF ShownNumber
<1>8. shown = [k \in 1 .. m |-> ShownNumber(rows[k])]
  BY <1>5
<1>9. Len(shown) = m
  BY <1>5, <1>8
<1>10. Range(shown) = {WXYZZ(s) % 100 : s \in Behind(l)}
  <2>1. \A s \in Behind(l) : \E k \in 1 .. m : rows[k] = s
    BY <1>2, <1>5 DEF Range
  <2>2. DOMAIN shown = 1 .. m /\ \A k \in 1 .. m : shown[k] = WXYZZ(rows[k]) % 100
    BY <1>7, <1>8
  <2> HIDE DEF shown
  <2> QED
    BY <1>6, <2>1, <2>2 DEF Range
<1>11. Len(sys_info[n]) = Cardinality({InPart(n, s) : s \in Slots})
  <2>1. /\ sys_info[n] \in Seq(Int)
        /\ \A j, k \in DOMAIN sys_info[n] : sys_info[n][j] = sys_info[n][k] => j = k
        /\ Range(sys_info[n]) = {InPart(n, s) : s \in Slots}
    BY AllLookedAt DEF WholeInv, SysInv
  <2>2. Len(sys_info[n]) = Cardinality(Range(sys_info[n]))
    BY <2>1, InjectiveCount
  <2> QED
    BY <2>1, <2>2
<1>12. PartShown(l, n, field)
  <2>1. PICK v : v = PartOf(l, n)
    OBVIOUS
  <2>2. IsIn(l, n, v)
    BY <1>2, <2>1
  <2>3. field = IF Cardinality({InPart(n, s) : s \in Slots}) > 1 THEN << v >> ELSE << >>
    BY <1>3, <1>11, <2>1
  <2> QED
    BY <2>2, <2>3 DEF PartShown
<1> QED
  BY <1>3, <1>5, <1>9, <1>10, <1>12

\* The lines of -i, one for every bridge displayed.
LEMMA LinesShown ==
  ASSUME NothingFails, MachineAsNamed, ArgsMean, StartInv, WholeInv,
         show_all_root_info, pc' = "done"
  PROVE  InfoShows'
<1>1. /\ pc = "show" /\ Filtered /\ argv' = argv
      /\ output' = [i \in DOMAIN Displayed |-> InfoLine(Displayed[i])]
  BY DEF show_all_root_info, Filtered
<1>2. PICK shown : shown = Displayed
  OBVIOUS
<1>3. /\ shown \in Seq(Lbas)
      /\ \A i, j \in DOMAIN shown : shown[i] = shown[j] => i = j
      /\ Range(shown) = {l \in Lbas : Asked(l)}
  BY <1>1, <1>2, DisplayedFacts, DisplayedIsAsked DEF StartInv
<1>4. PICK N : N = Len(shown)
  OBVIOUS
<1>5. N \in Nat /\ DOMAIN shown = 1 .. N /\ N = Cardinality({l \in Lbas : Asked(l)})
  <2>1. Len(shown) = Cardinality(Range(shown))
    BY <1>3, InjectiveCount
  <2>2. Len(shown) \in Nat /\ DOMAIN shown = 1 .. Len(shown)
    BY <1>3
  <2> QED
    BY <1>3, <1>4, <2>1, <2>2
<1>6. PICK out : out = output'
  OBVIOUS
<1>7. out = [i \in 1 .. N |-> InfoLine(shown[i])]
  BY <1>1, <1>2, <1>5, <1>6
<1>8. Len(out) = N /\ DOMAIN out = 1 .. N
  BY <1>5, <1>7
<1>9. ASSUME NEW l
      PROVE  Asked(l)' <=> Asked(l)
  BY <1>1, AskedSame
<1>10. {l \in Lbas : Asked(l)'} = {l \in Lbas : Asked(l)}
  BY <1>9
<1>11. ASSUME NEW i \in DOMAIN out, NEW line, line = out[i],
              NEW n \in 1 .. 3, NEW field, field = FieldOf(line, n)
       PROVE  /\ Asked(line.lba)'
              /\ Len(line.slots) = Cardinality(Behind(line.lba))
              /\ Range(line.slots) = {WXYZZ(s) % 100 : s \in Behind(line.lba)}
              /\ PartShown(line.lba, n, field)
  <2>1. PICK l : l = shown[i]
    OBVIOUS
  <2>2. i \in 1 .. N /\ line = InfoLine(l) /\ l \in Range(Displayed)
    BY <1>2, <1>5, <1>7, <1>8, <1>11, <2>1 DEF Range
  <2>3. Asked(l)'
    <3>1. Asked(l)
      BY <1>2, <1>3, <2>2
    <3> QED
      BY <1>9, <3>1
  <2>4. /\ line.lba = l
        /\ Len(line.slots) = Cardinality(Behind(l))
        /\ Range(line.slots) = {WXYZZ(s) % 100 : s \in Behind(l)}
        /\ PartShown(l, n, field)
    BY <1>1, <1>11, <2>2, LineShows
  <2> QED
    BY <2>3, <2>4
<1>12. ASSUME NEW i \in DOMAIN out, NEW line, line = out[i]
       PROVE  /\ Asked(line.lba)'
              /\ Len(line.slots) = Cardinality(Behind(line.lba))
              /\ Range(line.slots) = {WXYZZ(s) % 100 : s \in Behind(line.lba)}
              /\ PartShown(line.lba, 1, line.cabinet)
              /\ PartShown(line.lba, 2, line.bay)
              /\ PartShown(line.lba, 3, line.chassis)
  <2>1. /\ 1 \in 1 .. 3 /\ 2 \in 1 .. 3 /\ 3 \in 1 .. 3
        /\ line.cabinet = FieldOf(line, 1) /\ line.bay = FieldOf(line, 2)
        /\ line.chassis = FieldOf(line, 3)
    BY DEF FieldOf
  <2> QED
    BY <1>11, <1>12, <2>1
<1> QED
  BY <1>5, <1>6, <1>8, <1>10, <1>12 DEF InfoShows, InPart, PartShown

\* When nothing fails, -i prints one line for every bridge asked for, with
\* exactly the slots behind it; of a bridge with slots, each cabinet, bay and
\* chassis printed is theirs, and each that the machine has several of is
\* printed (show_all_root_info, show_root_info), for any machine named as the
\* code expects and any command line.
THEOREM InfoTheorem ==
  ASSUME NothingFails, MachineAsNamed, ArgsMean
  PROVE  StartupSpec => []InfoShows
<1>1. StartupInit /\ StartInv => WholeInv /\ InfoShows
  <2>1. StartupInit => pc = "options"
    BY DEF StartupInit
  <2> QED
    BY <2>1, WholeInit DEF InfoShows
<1>2. StartInv /\ StartInv' /\ WholeInv /\ InfoShows /\ [StartupNext]_startVars
        => WholeInv' /\ InfoShows'
  <2> SUFFICES ASSUME StartInv, StartInv', WholeInv, InfoShows, [StartupNext]_startVars
               PROVE  WholeInv' /\ InfoShows'
    OBVIOUS
  <2>1. WholeInv'
    BY WholeKept
  <2>2. CASE pc' # "done"
    BY <2>1, <2>2 DEF InfoShows
  <2>3. CASE show_all_root_info /\ pc' = "done"
    BY <2>1, <2>3, LinesShown
  <2>4. CASE UNCHANGED startVars
    <3>1. pc' = pc /\ output' = output /\ argv' = argv
      BY <2>4 DEF startVars, mainVars
    <3>2. ASSUME NEW l
          PROVE  Asked(l)' <=> Asked(l)
      BY <3>1, AskedSame
    <3>3. {l \in Lbas : Asked(l)'} = {l \in Lbas : Asked(l)}
      BY <3>2
    <3>4. ASSUME NEW line
          PROVE  Asked(line.lba)' <=> Asked(line.lba)
      BY <3>2
    <3> QED
      BY <2>1, <3>1, <3>3, <3>4 DEF InfoShows, IsIn
  <2>5. show_all_root_info \/ UNCHANGED startVars \/ pc' # "done"
    BY DEF StartupNext, ParseOption, usage, CheckDrivers, create_sysfs_pci_tree,
           init_lbas, init_lba, InitLbaNoBuffer, InitLbaNoMemory,
           find_lba_location_info, NextEntry, filter_lbas, Dispatch, build_banner, print_line
  <2> QED
    BY <2>1, <2>2, <2>3, <2>4, <2>5
<1> QED
  BY <1>1, <1>2, StartInvariant, PTL DEF StartupSpec

=============================================================================
