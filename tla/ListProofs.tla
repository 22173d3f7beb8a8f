----------------------------- MODULE ListProofs -----------------------------
(***************************************************************************)
(* The lists of list.h, for any number of heads and nodes, and any loop    *)
(* over one of them.                                                       *)
(***************************************************************************)
EXTENDS List, FiniteSetTheorems, SequenceTheorems, WellFoundedInduction, TLAPS

-----------------------------------------------------------------------------
(* A list as a ring of cells: its head is at 0 and after its last member.  *)

Cell(h, ms, k) == IF k \in 1 .. Len(ms) THEN ms[k] ELSE h

LEMMA CellFacts ==
  ASSUME NEW h, NEW ms \in Seq(Nodes)
  PROVE  /\ Len(ms) \in Nat
         /\ \A k \in Int : k \notin 1 .. Len(ms) => Cell(h, ms, k) = h
         /\ \A k \in 1 .. Len(ms) : Cell(h, ms, k) = ms[k] /\ ms[k] \in Nodes
  BY DEF Cell

LEMMA RingCells ==
  ASSUME NEW h \in Heads, NEW ms \in Seq(Nodes), NEW i \in 1 .. Len(ms) + 2
  PROVE  (<<h>> \o ms \o <<h>>)[i] = Cell(h, ms, i - 1)
<1> DEFINE L == Len(ms)
           t == <<h>>
           s == t \o ms
           u == s \o t
<1>1. /\ t \in Seq(Cells) /\ Len(t) = 1 /\ t[1] = h
      /\ ms \in Seq(Cells) /\ L \in Nat /\ i \in 1 .. L + 2
  BY DEF Cells
<1> HIDE DEF t
<1>2. /\ s \in Seq(Cells) /\ Len(s) = Len(t) + L
      /\ \A k \in 1 .. Len(t) + L : s[k] = IF k <= Len(t) THEN t[k] ELSE ms[k - Len(t)]
  BY <1>1, ConcatProperties
<1> HIDE DEF L, s
<1>3. /\ Len(u) = Len(s) + Len(t)
      /\ \A k \in 1 .. Len(s) + Len(t) : u[k] = IF k <= Len(s) THEN s[k] ELSE t[k - Len(s)]
  BY <1>1, <1>2, ConcatProperties
<1>4. (<<h>> \o ms \o <<h>>) = u
  BY DEF s, t
<1> HIDE DEF u
<1>5. CASE i = 1
  <2>1. u[1] = h
    BY <1>1, <1>2, <1>3
  <2> QED
    BY <1>4, <1>5, <2>1 DEF Cell
<1>6. CASE i \in 2 .. L + 1
  <2>1. u[i] = ms[i - 1]
    BY <1>1, <1>2, <1>3, <1>6
  <2> QED
    BY <1>1, <1>4, <1>6, <2>1 DEF Cell, L
<1>7. CASE i = L + 2
  <2>1. u[i] = h
    <3>1. i \in 1 .. Len(s) + Len(t) /\ ~(i <= Len(s)) /\ i - Len(s) = 1
      BY <1>1, <1>2, <1>7
    <3> QED
      BY <1>1, <1>3, <3>1
  <2> QED
    BY <1>1, <1>4, <1>7, <2>1 DEF Cell, L
<1> QED
  BY <1>1, <1>5, <1>6, <1>7

LEMMA PrependCells ==
  ASSUME NEW h, NEW ms \in Seq(Nodes), NEW n \in Nodes
  PROVE  /\ <<n>> \o ms \in Seq(Nodes) /\ Len(<<n>> \o ms) = Len(ms) + 1
         /\ \A k \in Int : Cell(h, <<n>> \o ms, k) = IF k = 1 THEN n ELSE Cell(h, ms, k - 1)
<1>1. <<n>> \in Seq(Nodes) /\ Len(<<n>>) = 1 /\ <<n>>[1] = n /\ Len(ms) \in Nat
  OBVIOUS
<1>2. /\ <<n>> \o ms \in Seq(Nodes) /\ Len(<<n>> \o ms) = Len(ms) + 1
      /\ \A i \in 1 .. Len(ms) + 1 :
           (<<n>> \o ms)[i] = IF i <= 1 THEN <<n>>[i] ELSE ms[i - 1]
  BY <1>1, ConcatProperties
<1> QED
  BY <1>1, <1>2 DEF Cell

LEMMA AppendCells ==
  ASSUME NEW h, NEW ms \in Seq(Nodes), NEW n \in Nodes
  PROVE  /\ Append(ms, n) \in Seq(Nodes) /\ Len(Append(ms, n)) = Len(ms) + 1
         /\ \A k \in Int : Cell(h, Append(ms, n), k) = IF k = Len(ms) + 1 THEN n ELSE Cell(h, ms, k)
<1>1. /\ Append(ms, n) \in Seq(Nodes) /\ Len(Append(ms, n)) = Len(ms) + 1 /\ Len(ms) \in Nat
      /\ \A i \in 1 .. Len(ms) : Append(ms, n)[i] = ms[i]
      /\ Append(ms, n)[Len(ms) + 1] = n
  OBVIOUS
<1> QED
  BY <1>1 DEF Cell

LEMMA RemoveCells ==
  ASSUME NEW h, NEW ms \in Seq(Nodes), NEW p \in 1 .. Len(ms)
  PROVE  /\ RemoveAt(ms, p) \in Seq(Nodes) /\ Len(RemoveAt(ms, p)) = Len(ms) - 1
         /\ \A k \in Int : k <= Len(ms) =>
              Cell(h, RemoveAt(ms, p), k) = IF k < p THEN Cell(h, ms, k) ELSE Cell(h, ms, k + 1)
<1> DEFINE L == Len(ms)
           s == SubSeq(ms, 1, p - 1)
           t == SubSeq(ms, p + 1, L)
<1>1. L \in Nat /\ p \in Int /\ \A i \in 1 .. L : ms[i] \in Nodes
  OBVIOUS
<1>2. /\ s \in Seq(Nodes) /\ Len(s) = p - 1
      /\ \A i \in 1 .. p - 1 : s[i] = ms[i]
  <2>1. \A i \in 1 .. p - 1 : ms[i] \in Nodes
    BY <1>1
  <2>2. /\ s \in Seq(Nodes) /\ Len(s) = IF 1 <= p - 1 THEN (p - 1) - 1 + 1 ELSE 0
        /\ \A i \in 1 .. (p - 1) - 1 + 1 : s[i] = ms[1 + i - 1]
    BY <1>1, <2>1, SubSeqProperties
  <2> HIDE DEF s
  <2> QED
    BY <1>1, <2>2
<1>3. /\ t \in Seq(Nodes) /\ Len(t) = L - p
      /\ \A i \in 1 .. L - p : t[i] = ms[p + i]
  <2>1. \A i \in p + 1 .. L : ms[i] \in Nodes
    BY <1>1
  <2>2. /\ t \in Seq(Nodes) /\ Len(t) = IF p + 1 <= L THEN L - (p + 1) + 1 ELSE 0
        /\ \A i \in 1 .. L - (p + 1) + 1 : t[i] = ms[p + 1 + i - 1]
    BY <1>1, <2>1, SubSeqProperties
  <2> HIDE DEF t
  <2>3. p <= L
    OBVIOUS
  <2> QED
    BY <1>1, <2>2, <2>3
<1>4. /\ s \o t \in Seq(Nodes) /\ Len(s \o t) = Len(s) + Len(t)
      /\ \A i \in 1 .. Len(s) + Len(t) :
           (s \o t)[i] = IF i <= Len(s) THEN s[i] ELSE t[i - Len(s)]
  BY <1>2, <1>3, ConcatProperties
<1>5. RemoveAt(ms, p) = s \o t
  BY DEF RemoveAt
<1> HIDE DEF s, t
<1> DEFINE u == RemoveAt(ms, p)
<1>6. /\ u \in Seq(Nodes) /\ Len(u) = L - 1
      /\ \A i \in 1 .. L - 1 : u[i] = IF i < p THEN ms[i] ELSE ms[i + 1]
  <2>1. Len(s) + Len(t) = L - 1 /\ Len(s) = p - 1 /\ u = s \o t
    BY <1>1, <1>2, <1>3, <1>5
  <2>2. \A i \in 1 .. L - 1 : u[i] = IF i <= p - 1 THEN s[i] ELSE t[i - (p - 1)]
    BY <1>4, <2>1
  <2>3. ASSUME NEW i \in 1 .. L - 1
        PROVE  u[i] = IF i < p THEN ms[i] ELSE ms[i + 1]
    <3> HIDE DEF u
    <3>1. CASE i < p
      <4>1. i <= p - 1 /\ i \in 1 .. p - 1
        BY <1>1, <3>1
      <4> QED
        BY <1>2, <2>2, <3>1, <4>1
    <3>2. CASE ~(i < p)
      <4>1. i - (p - 1) \in 1 .. L - p /\ p + (i - (p - 1)) = i + 1 /\ ~(i <= p - 1)
        BY <1>1, <3>2
      <4>2. u[i] = t[i - (p - 1)]
        BY <2>2, <4>1
      <4> QED
        BY <1>3, <3>2, <4>1, <4>2
    <3> QED
      BY <3>1, <3>2
  <2> QED
    BY <1>4, <2>1, <2>3
<1> HIDE DEF u
<1>7. ASSUME NEW k \in Int, k <= L
      PROVE  Cell(h, u, k) = IF k < p THEN Cell(h, ms, k) ELSE Cell(h, ms, k + 1)
  BY <1>1, <1>6, <1>7 DEF Cell
<1> QED
  BY <1>6, <1>7 DEF u

-----------------------------------------------------------------------------
(* The inductive invariant of the lists.                                   *)

ListTypes ==
  /\ next \in [Cells -> Cells \cup {NULL}] /\ prev \in [Cells -> Cells \cup {NULL}]
  /\ lists \in [Heads -> Seq(Nodes)]

\* A node is in at most one place of one list.
Distinct ==
  \A g, h \in Heads : \A i \in 1 .. Len(lists[g]), j \in 1 .. Len(lists[h]) :
    Cell(g, lists[g], i) = Cell(h, lists[h], j) => g = h /\ i = j

Links ==
  \A h \in Heads : \A k \in 0 .. Len(lists[h]) :
    /\ next[Cell(h, lists[h], k)] = Cell(h, lists[h], k + 1)
    /\ prev[Cell(h, lists[h], k + 1)] = Cell(h, lists[h], k)

RingInv == ListTypes /\ Distinct /\ Links

\* What it says of the cells, with positions as plain integers.
LEMMA RingFacts ==
  ASSUME RingInv
  PROVE  /\ \A h \in Heads : Len(lists[h]) \in Nat /\ lists[h] \in Seq(Nodes)
         /\ \A h \in Heads : \A k \in Int :
              k \notin 1 .. Len(lists[h]) => Cell(h, lists[h], k) = h
         /\ \A h \in Heads : \A k \in 1 .. Len(lists[h]) :
              Cell(h, lists[h], k) = lists[h][k] /\ Cell(h, lists[h], k) \in Nodes
         /\ \A h \in Heads : \A k \in Int : Cell(h, lists[h], k) \in Cells
         /\ \A n \in Nodes : n \notin Heads
         /\ \A h \in Heads : h \notin Nodes
<1>1. \A h \in Heads : lists[h] \in Seq(Nodes)
  BY DEF RingInv, ListTypes
<1>2. /\ \A h \in Heads : Len(lists[h]) \in Nat
      /\ \A h \in Heads : \A k \in Int :
           k \notin 1 .. Len(lists[h]) => Cell(h, lists[h], k) = h
      /\ \A h \in Heads : \A k \in 1 .. Len(lists[h]) :
           Cell(h, lists[h], k) = lists[h][k] /\ Cell(h, lists[h], k) \in Nodes
  BY <1>1, CellFacts
<1>3. \A h \in Heads : \A k \in Int : Cell(h, lists[h], k) \in Cells
  BY <1>2 DEF Cells
<1> QED
  BY <1>1, <1>2, <1>3, ListAssumption

\* Two positions with the same cell are the same, of those before the end.
LEMMA SameCell ==
  ASSUME RingInv, NEW g \in Heads, NEW h \in Heads,
         NEW i \in 0 .. Len(lists[g]), NEW j \in 0 .. Len(lists[h]),
         Cell(g, lists[g], i) = Cell(h, lists[h], j)
  PROVE  g = h /\ i = j
<1>1. CASE i = 0 /\ j = 0
  BY <1>1, RingFacts
<1>2. CASE i # 0 /\ j # 0
  BY <1>2, RingFacts DEF RingInv, Distinct
<1>3. CASE i = 0 /\ j # 0
  BY <1>3, RingFacts
<1>4. CASE i # 0 /\ j = 0
  BY <1>4, RingFacts
<1> QED
  BY <1>1, <1>2, <1>3, <1>4

\* And of those after the start.
LEMMA SameCellAfter ==
  ASSUME RingInv, NEW g \in Heads, NEW h \in Heads,
         NEW i \in 0 .. Len(lists[g]), NEW j \in 0 .. Len(lists[h]),
         Cell(g, lists[g], i + 1) = Cell(h, lists[h], j + 1)
  PROVE  g = h /\ i = j
<1> DEFINE m == Len(lists[g])
           n == Len(lists[h])
<1>1. m \in Nat /\ n \in Nat
  BY RingFacts
<1> HIDE DEF m, n
<1>2. CASE i = m /\ j = n
  <2>1. g = h
    BY <1>1, <1>2, RingFacts DEF m, n
  <2> QED
    BY <1>2, <2>1 DEF m, n
<1>3. CASE i # m /\ j # n
  BY <1>1, <1>3, RingFacts DEF RingInv, Distinct, m, n
<1>4. CASE i = m /\ j # n
  BY <1>1, <1>4, RingFacts DEF m, n
<1>5. CASE i # m /\ j = n
  BY <1>1, <1>5, RingFacts DEF m, n
<1> QED
  BY <1>2, <1>3, <1>4, <1>5

-----------------------------------------------------------------------------
(* The operations keep it.                                                 *)

\* A node that is free goes into position p of list h.
LEMMA InsertKeeps ==
  ASSUME RingInv, NEW h \in Heads, NEW n \in Nodes, IsFree(n),
         NEW p \in 1 .. Len(lists[h]) + 1, NEW ms \in Seq(Nodes),
         Len(ms) = Len(lists[h]) + 1,
         \A k \in Int : Cell(h, ms, k) = IF k < p THEN Cell(h, lists[h], k)
                                         ELSE IF k = p THEN n ELSE Cell(h, lists[h], k - 1),
         lists' = [lists EXCEPT ![h] = ms],
         next' = [next EXCEPT ![n] = Cell(h, lists[h], p), ![Cell(h, lists[h], p - 1)] = n],
         prev' = [prev EXCEPT ![n] = Cell(h, lists[h], p - 1), ![Cell(h, lists[h], p)] = n]
  PROVE  RingInv'
<1> DEFINE L == Len(lists[h])
           before == Cell(h, lists[h], p - 1)
           after == Cell(h, lists[h], p)
<1>1. /\ L \in Nat /\ p \in 1 .. L + 1 /\ Len(ms) = L + 1
      /\ before \in Cells /\ after \in Cells /\ n \in Cells
  BY RingFacts DEF Cells
<1>2. /\ lists' \in [Heads -> Seq(Nodes)] /\ lists'[h] = ms
      /\ \A g \in Heads : g # h => lists'[g] = lists[g]
  BY DEF RingInv, ListTypes
<1>3. \A g \in Heads : \A k \in Int : Cell(g, lists[g], k) # n
  <2> SUFFICES ASSUME NEW g \in Heads, NEW k \in Int
               PROVE  Cell(g, lists[g], k) # n
    OBVIOUS
  <2>1. CASE k \notin 1 .. Len(lists[g])
    <3>1. Cell(g, lists[g], k) = g /\ g \notin Nodes
      BY <2>1, RingFacts
    <3> QED
      BY <3>1
  <2>2. CASE k \in 1 .. Len(lists[g])
    <3>1. Cell(g, lists[g], k) = lists[g][k]
      BY <2>2, RingFacts
    <3> QED
      BY <2>2, <3>1 DEF IsFree, Contains
  <2> QED
    BY <2>1, <2>2
<1>4. before # n /\ after # n
  BY <1>1, <1>3
<1>5. /\ next' \in [Cells -> Cells \cup {NULL}] /\ prev' \in [Cells -> Cells \cup {NULL}]
      /\ next'[n] = after /\ next'[before] = n
      /\ \A c \in Cells : c # n /\ c # before => next'[c] = next[c]
      /\ prev'[n] = before /\ prev'[after] = n
      /\ \A c \in Cells : c # n /\ c # after => prev'[c] = prev[c]
  BY <1>1, <1>4 DEF RingInv, ListTypes
<1>6. ListTypes'
  BY <1>2, <1>5 DEF ListTypes
<1>7. Distinct'
  <2> SUFFICES ASSUME NEW f \in Heads, NEW g \in Heads,
                      NEW i \in 1 .. Len(lists'[f]), NEW j \in 1 .. Len(lists'[g]),
                      Cell(f, lists'[f], i) = Cell(g, lists'[g], j)
               PROVE  f = g /\ i = j
    BY DEF Distinct
  <2>1. /\ \A c, d \in Heads : \A k \in 1 .. Len(lists[c]), l \in 1 .. Len(lists[d]) :
             Cell(c, lists[c], k) = Cell(d, lists[d], l) => c = d /\ k = l
        /\ \A c \in Heads : Len(lists[c]) \in Nat
    BY RingFacts DEF RingInv, Distinct
  <2>2. CASE f # h /\ g # h
    BY <1>2, <2>1, <2>2
  <2>3. CASE f = h /\ g # h
    BY <1>1, <1>2, <1>3, <2>1, <2>3
  <2>4. CASE f # h /\ g = h
    BY <1>1, <1>2, <1>3, <2>1, <2>4
  <2>5. CASE f = h /\ g = h
    <3> DEFINE was(k) == Cell(h, lists[h], k)
               back(k) == IF k < p THEN k ELSE k - 1
    <3>1. /\ i \in 1 .. L + 1 /\ j \in 1 .. L + 1
          /\ \A k, l \in 1 .. L : was(k) = was(l) => k = l
      BY <1>1, <1>2, <2>1, <2>5
    <3>2. Cell(h, ms, i) = Cell(h, ms, j)
      BY <1>2, <2>5
    <3>3. \A k \in 1 .. L + 1 : IF k = p THEN Cell(h, ms, k) = n
                                ELSE /\ Cell(h, ms, k) = was(back(k)) /\ back(k) \in 1 .. L
                                     /\ Cell(h, ms, k) # n
      BY <1>1, <1>3
    <3>4. ASSUME i = p \/ j = p
          PROVE  i = j
      <4> HIDE DEF back, was
      <4> QED
        BY <3>1, <3>2, <3>3, <3>4
    <3>5. ASSUME i # p, j # p
          PROVE  i = j
      <4>1. back(i) = back(j)
        <5> HIDE DEF back, was
        <5> QED
          BY <3>1, <3>2, <3>3, <3>5
      <4> QED
        BY <1>1, <3>1, <3>5, <4>1
    <3>6. i = j
      BY <3>4, <3>5
    <3> QED
      BY <2>5, <3>6
  <2> QED
    BY <2>2, <2>3, <2>4, <2>5
<1>8. Links'
  <2> SUFFICES ASSUME NEW g \in Heads, NEW k \in 0 .. Len(lists'[g])
               PROVE  /\ next'[Cell(g, lists'[g], k)] = Cell(g, lists'[g], k + 1)
                      /\ prev'[Cell(g, lists'[g], k + 1)] = Cell(g, lists'[g], k)
    BY DEF Links
  <2> DEFINE now(l) == Cell(g, lists'[g], l)
             was(l) == Cell(g, lists[g], l)
  <2>1. /\ \A l \in 0 .. Len(lists[g]) : next[was(l)] = was(l + 1) /\ prev[was(l + 1)] = was(l)
        /\ \A l \in Int : was(l) \in Cells /\ was(l) # n
        /\ Len(lists[g]) \in Nat
    BY <1>3, RingFacts DEF RingInv, Links
  <2>2. CASE g # h
    <3>1. k \in 0 .. Len(lists[g]) /\ now(k) = was(k) /\ now(k + 1) = was(k + 1)
      BY <1>2, <2>2
    <3>2. was(k) # before
      <4>1. p - 1 \in 0 .. L
        BY <1>1
      <4> QED
        BY <2>2, <3>1, <4>1, SameCell
    <3>3. was(k + 1) # after
      <4>1. p - 1 \in 0 .. L /\ (p - 1) + 1 = p
        BY <1>1
      <4> QED
        BY <2>2, <3>1, <4>1, SameCellAfter
    <3> HIDE DEF now, was, before, after
    <3>4. next'[now(k)] = now(k + 1) /\ prev'[now(k + 1)] = now(k)
      BY <1>5, <2>1, <3>1, <3>2, <3>3
    <3> QED
      BY <3>4 DEF now
  <2>3. CASE g = h
    <3>1. /\ \A l \in Int : now(l) = IF l < p THEN was(l) ELSE IF l = p THEN n ELSE was(l - 1)
          /\ before = was(p - 1) /\ after = was(p)
          /\ k \in 0 .. L + 1 /\ L = Len(lists[g])
      BY <1>1, <1>2, <2>3
    <3>2. \A l \in 0 .. L : (was(l) = before => l = p - 1) /\ (was(l + 1) = after => l = p - 1)
      <4> SUFFICES ASSUME NEW l \in 0 .. L
                   PROVE  (was(l) = before => l = p - 1) /\ (was(l + 1) = after => l = p - 1)
        OBVIOUS
      <4>1. p - 1 \in 0 .. L /\ (p - 1) + 1 = p
        BY <1>1
      <4>2. was(l) = before => l = p - 1
        BY <2>3, <3>1, <4>1, SameCell
      <4>3. was(l + 1) = after => l = p - 1
        BY <2>3, <3>1, <4>1, SameCellAfter
      <4> QED
        BY <4>2, <4>3
    <3> HIDE DEF now, was, before, after, L
    <3> SUFFICES next'[now(k)] = now(k + 1) /\ prev'[now(k + 1)] = now(k)
      BY DEF now
    <3>3. CASE k < p - 1
      BY <1>1, <1>5, <2>1, <3>1, <3>2, <3>3
    <3>4. CASE k = p - 1
      BY <1>1, <1>5, <2>1, <3>1, <3>2, <3>4
    <3>5. CASE k = p
      BY <1>1, <1>5, <2>1, <3>1, <3>2, <3>5
    <3>6. CASE k > p
      <4>1. /\ k - 1 \in 0 .. L /\ (k - 1) + 1 = k /\ k - 1 # p - 1
            /\ now(k) = was(k - 1) /\ now(k + 1) = was(k)
        BY <1>1, <3>1, <3>6
      <4>2. next[was(k - 1)] = was(k) /\ prev[was(k)] = was(k - 1)
        BY <2>1, <3>1, <4>1
      <4>3. was(k - 1) # before /\ was(k) # after
        BY <3>2, <4>1
      <4>4. was(k - 1) \in Cells /\ was(k) \in Cells /\ was(k - 1) # n /\ was(k) # n
        BY <1>1, <2>1, <3>1, <3>6
      <4> QED
        BY <1>5, <4>1, <4>2, <4>3, <4>4
    <3> QED
      BY <1>1, <3>1, <3>3, <3>4, <3>5, <3>6
  <2> QED
    BY <2>2, <2>3
<1> QED
  BY <1>6, <1>7, <1>8 DEF RingInv

\* The node at position p of list h leaves it.
LEMMA DeleteKeeps ==
  ASSUME RingInv, NEW h \in Heads, NEW p \in 1 .. Len(lists[h]),
         lists' = [lists EXCEPT ![h] = RemoveAt(@, p)],
         next' = [next EXCEPT ![Cell(h, lists[h], p - 1)] = Cell(h, lists[h], p + 1)],
         prev' = [prev EXCEPT ![Cell(h, lists[h], p + 1)] = Cell(h, lists[h], p - 1)]
  PROVE  RingInv'
<1> DEFINE L == Len(lists[h])
           before == Cell(h, lists[h], p - 1)
           after == Cell(h, lists[h], p + 1)
           ms == RemoveAt(lists[h], p)
<1>1. L \in Nat /\ p \in 1 .. L /\ before \in Cells /\ after \in Cells
  BY RingFacts DEF Cells
<1>2. /\ ms \in Seq(Nodes) /\ Len(ms) = L - 1
      /\ \A k \in Int : k <= L =>
           Cell(h, ms, k) = IF k < p THEN Cell(h, lists[h], k) ELSE Cell(h, lists[h], k + 1)
  BY RemoveCells, RingFacts
<1> HIDE DEF ms
<1>3. /\ lists' \in [Heads -> Seq(Nodes)] /\ lists'[h] = ms
      /\ \A g \in Heads : g # h => lists'[g] = lists[g]
  BY <1>2 DEF RingInv, ListTypes, ms
<1>4. /\ next' \in [Cells -> Cells \cup {NULL}] /\ prev' \in [Cells -> Cells \cup {NULL}]
      /\ next'[before] = after
      /\ \A c \in Cells : c # before => next'[c] = next[c]
      /\ prev'[after] = before
      /\ \A c \in Cells : c # after => prev'[c] = prev[c]
  BY <1>1 DEF RingInv, ListTypes
<1>5. ListTypes'
  BY <1>3, <1>4 DEF ListTypes
<1>6. Distinct'
  <2> SUFFICES ASSUME NEW f \in Heads, NEW g \in Heads,
                      NEW i \in 1 .. Len(lists'[f]), NEW j \in 1 .. Len(lists'[g]),
                      Cell(f, lists'[f], i) = Cell(g, lists'[g], j)
               PROVE  f = g /\ i = j
    BY DEF Distinct
  <2> DEFINE back(c, k) == IF c = h /\ k >= p THEN k + 1 ELSE k
  <2>1. /\ \A c, d \in Heads : \A k \in 1 .. Len(lists[c]), l \in 1 .. Len(lists[d]) :
             Cell(c, lists[c], k) = Cell(d, lists[d], l) => c = d /\ k = l
        /\ \A c \in Heads : Len(lists[c]) \in Nat
    BY RingFacts DEF RingInv, Distinct
  <2>2. \A c \in Heads : \A k \in 1 .. Len(lists'[c]) :
          /\ back(c, k) \in 1 .. Len(lists[c])
          /\ Cell(c, lists'[c], k) = Cell(c, lists[c], back(c, k))
    BY <1>1, <1>2, <1>3, <2>1
  <2>3. f = g /\ back(f, i) = back(g, j)
    <3> HIDE DEF back
    <3> QED
      BY <2>1, <2>2
  <2>4. i \in Int /\ j \in Int
    OBVIOUS
  <2> QED
    BY <1>1, <2>3, <2>4
<1>7. Links'
  <2> SUFFICES ASSUME NEW g \in Heads, NEW k \in 0 .. Len(lists'[g])
               PROVE  /\ next'[Cell(g, lists'[g], k)] = Cell(g, lists'[g], k + 1)
                      /\ prev'[Cell(g, lists'[g], k + 1)] = Cell(g, lists'[g], k)
    BY DEF Links
  <2> DEFINE now(l) == Cell(g, lists'[g], l)
             was(l) == Cell(g, lists[g], l)
  <2>1. /\ \A l \in 0 .. Len(lists[g]) : next[was(l)] = was(l + 1) /\ prev[was(l + 1)] = was(l)
        /\ \A l \in Int : was(l) \in Cells
        /\ Len(lists[g]) \in Nat
    BY RingFacts DEF RingInv, Links
  <2>2. CASE g # h
    <3>1. k \in 0 .. Len(lists[g]) /\ now(k) = was(k) /\ now(k + 1) = was(k + 1)
      BY <1>3, <2>2
    <3>2. was(k) # before
      <4>1. p - 1 \in 0 .. L
        BY <1>1
      <4> QED
        BY <2>2, <3>1, <4>1, SameCell
    <3>3. was(k + 1) # after
      BY <1>1, <2>2, <3>1, SameCellAfter
    <3> HIDE DEF now, was, before, after
    <3>4. next'[now(k)] = now(k + 1) /\ prev'[now(k + 1)] = now(k)
      BY <1>4, <2>1, <3>1, <3>2, <3>3
    <3> QED
      BY <3>4 DEF now
  <2>3. CASE g = h
    <3>1. /\ \A l \in Int : l <= L => now(l) = IF l < p THEN was(l) ELSE was(l + 1)
          /\ before = was(p - 1) /\ after = was(p + 1)
          /\ k \in 0 .. L - 1 /\ L = Len(lists[g])
      BY <1>1, <1>2, <1>3, <2>3
    <3>2. \A l \in 0 .. L : (was(l) = before => l = p - 1) /\ (was(l + 1) = after => l = p)
      <4> SUFFICES ASSUME NEW l \in 0 .. L
                   PROVE  (was(l) = before => l = p - 1) /\ (was(l + 1) = after => l = p)
        OBVIOUS
      <4>1. p - 1 \in 0 .. L /\ p \in 0 .. L
        BY <1>1
      <4>2. was(l) = before => l = p - 1
        BY <2>3, <3>1, <4>1, SameCell
      <4>3. was(l + 1) = after => l = p
        BY <2>3, <3>1, <4>1, SameCellAfter
      <4> QED
        BY <4>2, <4>3
    <3> HIDE DEF now, was, before, after, L
    <3> SUFFICES next'[now(k)] = now(k + 1) /\ prev'[now(k + 1)] = now(k)
      BY DEF now
    <3>3. CASE k < p - 1
      BY <1>1, <1>4, <2>1, <3>1, <3>2, <3>3
    <3>4. CASE k = p - 1
      BY <1>1, <1>4, <2>1, <3>1, <3>2, <3>4
    <3>5. CASE k >= p
      <4>1. k + 1 \in 0 .. L /\ now(k) = was(k + 1) /\ now(k + 1) = was((k + 1) + 1)
        BY <1>1, <3>1, <3>5
      <4>2. was(k + 1) # before /\ was((k + 1) + 1) # after
        BY <1>1, <3>1, <3>2, <3>5, <4>1
      <4>3. was(k + 1) \in Cells /\ was((k + 1) + 1) \in Cells
        BY <2>1, <3>1
      <4>4. next[was(k + 1)] = was((k + 1) + 1) /\ prev[was((k + 1) + 1)] = was(k + 1)
        BY <2>1, <3>1, <4>1
      <4> QED
        BY <1>4, <4>1, <4>2, <4>3, <4>4
    <3> QED
      BY <1>1, <3>1, <3>3, <3>4, <3>5
  <2> QED
    BY <2>2, <2>3
<1> QED
  BY <1>5, <1>6, <1>7 DEF RingInv

LEMMA RingInvInit == ListInit => RingInv
<1> SUFFICES ASSUME ListInit
             PROVE  RingInv
  OBVIOUS
<1>1. /\ next = [c \in Cells |-> IF c \in Heads THEN c ELSE NULL] /\ prev = next
      /\ lists = [h \in Heads |-> << >>]
  BY DEF ListInit
<1>2. ListTypes
  BY <1>1 DEF ListTypes
<1>3. \A h \in Heads : Len(lists[h]) = 0
  BY <1>1
<1>4. Distinct
  BY <1>3 DEF Distinct
<1>5. Links
  <2> SUFFICES ASSUME NEW h \in Heads
               PROVE  /\ next[Cell(h, lists[h], 0)] = Cell(h, lists[h], 0 + 1)
                      /\ prev[Cell(h, lists[h], 0 + 1)] = Cell(h, lists[h], 0)
    BY <1>3 DEF Links
  <2>1. Cell(h, lists[h], 0) = h /\ Cell(h, lists[h], 0 + 1) = h
    BY <1>3 DEF Cell
  <2> QED
    BY <1>1, <2>1 DEF Cells
<1> QED
  BY <1>2, <1>4, <1>5 DEF RingInv

LEMMA ClearKeeps ==
  ASSUME RingInv, NEW h \in Heads, list_head_init(h)
  PROVE  RingInv'
<1>1. /\ next' = [next EXCEPT ![h] = h] /\ prev' = [prev EXCEPT ![h] = h]
      /\ lists' = [lists EXCEPT ![h] = << >>]
  BY DEF list_head_init
<1>2. /\ lists' \in [Heads -> Seq(Nodes)] /\ lists'[h] = << >> /\ Len(lists'[h]) = 0
      /\ \A g \in Heads : g # h => lists'[g] = lists[g]
  BY <1>1 DEF RingInv, ListTypes
<1>3. /\ next' \in [Cells -> Cells \cup {NULL}] /\ prev' \in [Cells -> Cells \cup {NULL}]
      /\ next'[h] = h /\ prev'[h] = h
      /\ \A c \in Cells : c # h => next'[c] = next[c] /\ prev'[c] = prev[c]
  BY <1>1 DEF RingInv, ListTypes, Cells
<1>4. Distinct'
  BY <1>2 DEF RingInv, Distinct
<1>5. Links'
  <2> SUFFICES ASSUME NEW g \in Heads, NEW k \in 0 .. Len(lists'[g])
               PROVE  /\ next'[Cell(g, lists'[g], k)] = Cell(g, lists'[g], k + 1)
                      /\ prev'[Cell(g, lists'[g], k + 1)] = Cell(g, lists'[g], k)
    BY DEF Links
  <2>1. CASE g = h
    <3>1. k = 0 /\ Cell(g, lists'[g], 0) = h /\ Cell(g, lists'[g], 0 + 1) = h
      BY <1>2, <2>1 DEF Cell
    <3> QED
      BY <1>3, <3>1
  <2>2. CASE g # h
    <3> DEFINE was(l) == Cell(g, lists[g], l)
    <3>1. /\ lists'[g] = lists[g] /\ k \in 0 .. Len(lists[g]) /\ Len(lists[g]) \in Nat
          /\ next[was(k)] = was(k + 1) /\ prev[was(k + 1)] = was(k)
      BY <1>2, <2>2, RingFacts DEF RingInv, Links
    <3>2. was(k) # h /\ was(k + 1) # h
      <4>1. \A l \in 1 .. Len(lists[g]) : was(l) \in Nodes
        BY RingFacts
      <4>2. \A l \in Int : l \notin 1 .. Len(lists[g]) => was(l) = g
        BY RingFacts
      <4>3. h \notin Nodes
        BY RingFacts
      <4>4. \A l \in Int : was(l) # h
        BY <2>2, <4>1, <4>2, <4>3
      <4> QED
        BY <3>1, <4>4
    <3>3. was(k) \in Cells /\ was(k + 1) \in Cells
      BY <3>1, RingFacts
    <3> HIDE DEF was
    <3>4. next'[was(k)] = was(k + 1) /\ prev'[was(k + 1)] = was(k)
      BY <1>3, <3>1, <3>2, <3>3
    <3> QED
      BY <3>1, <3>4 DEF was
  <2> QED
    BY <2>1, <2>2
<1> QED
  BY <1>2, <1>3, <1>4, <1>5 DEF RingInv, ListTypes

LEMMA AddKeeps ==
  ASSUME RingInv, NEW h \in Heads, NEW n \in Nodes, list_add(h, n)
  PROVE  RingInv'
<1> DEFINE ms == <<n>> \o lists[h]
           p == 1
<1>1. /\ ms \in Seq(Nodes) /\ Len(ms) = Len(lists[h]) + 1
      /\ \A k \in Int : Cell(h, ms, k) = IF k = p THEN n ELSE Cell(h, lists[h], k - 1)
  BY PrependCells, RingFacts
<1>2. /\ IsFree(n) /\ lists' = [lists EXCEPT ![h] = ms]
      /\ next' = [next EXCEPT ![n] = next[h], ![h] = n]
      /\ prev' = [prev EXCEPT ![n] = h, ![next[h]] = n]
  BY DEF list_add
<1>3. /\ Len(lists[h]) \in Nat /\ p - 1 = 0 /\ Cell(h, lists[h], 0) = h
      /\ next[h] = Cell(h, lists[h], p)
  BY RingFacts DEF RingInv, Links
<1>4. p \in 1 .. Len(lists[h]) + 1
  BY <1>3
<1> HIDE DEF ms, p
<1>5. ASSUME NEW k \in Int
      PROVE  Cell(h, ms, k) = IF k < p THEN Cell(h, lists[h], k)
                              ELSE IF k = p THEN n ELSE Cell(h, lists[h], k - 1)
  <2>1. CASE k < p
    <3>1. k \notin 1 .. Len(lists[h]) /\ k - 1 \notin 1 .. Len(lists[h]) /\ k # p
      BY <1>3, <2>1
    <3> QED
      BY <1>1, <2>1, <3>1, RingFacts
  <2>2. CASE ~(k < p)
    BY <1>1, <2>2
  <2> QED
    BY <2>1, <2>2
<1>6. /\ next' = [next EXCEPT ![n] = Cell(h, lists[h], p), ![Cell(h, lists[h], p - 1)] = n]
      /\ prev' = [prev EXCEPT ![n] = Cell(h, lists[h], p - 1), ![Cell(h, lists[h], p)] = n]
  BY <1>2, <1>3
<1>7. /\ ms \in Seq(Nodes) /\ Len(ms) = Len(lists[h]) + 1
      /\ IsFree(n) /\ lists' = [lists EXCEPT ![h] = ms]
  BY <1>1, <1>2
<1> QED
  BY <1>4, <1>5, <1>6, <1>7, InsertKeeps

LEMMA AddTailKeeps ==
  ASSUME RingInv, NEW h \in Heads, NEW n \in Nodes, list_add_tail(h, n)
  PROVE  RingInv'
<1> DEFINE ms == Append(lists[h], n)
           p == Len(lists[h]) + 1
<1>1. /\ ms \in Seq(Nodes) /\ Len(ms) = p
      /\ \A k \in Int : Cell(h, ms, k) = IF k = p THEN n ELSE Cell(h, lists[h], k)
  BY AppendCells, RingFacts
<1>2. /\ Len(lists[h]) \in Nat /\ Cell(h, lists[h], p) = h
      /\ prev[h] = Cell(h, lists[h], p - 1)
  BY RingFacts DEF RingInv, Links
<1>3. /\ IsFree(n) /\ lists' = [lists EXCEPT ![h] = ms]
      /\ next' = [next EXCEPT ![n] = Cell(h, lists[h], p), ![Cell(h, lists[h], p - 1)] = n]
      /\ prev' = [prev EXCEPT ![n] = Cell(h, lists[h], p - 1), ![Cell(h, lists[h], p)] = n]
  BY <1>2 DEF list_add_tail
<1>4. \A k \in Int : Cell(h, ms, k) = IF k < p THEN Cell(h, lists[h], k)
                                      ELSE IF k = p THEN n ELSE Cell(h, lists[h], k - 1)
  BY <1>1, <1>2, RingFacts
<1>5. p \in 1 .. Len(lists[h]) + 1 /\ Len(ms) = Len(lists[h]) + 1
  BY <1>1, <1>2
<1> HIDE DEF ms, p
<1> QED
  BY <1>1, <1>3, <1>4, <1>5, InsertKeeps

\* The place of the node that list_del takes out.
LEMMA DelFacts ==
  ASSUME RingInv, NEW n \in Nodes, list_del(n)
  PROVE  \E h \in Heads : \E p \in 1 .. Len(lists[h]) :
           /\ n = Cell(h, lists[h], p)
           /\ lists' = [lists EXCEPT ![h] = RemoveAt(@, p)]
           /\ next' = [next EXCEPT ![Cell(h, lists[h], p - 1)] = Cell(h, lists[h], p + 1)]
           /\ prev' = [prev EXCEPT ![Cell(h, lists[h], p + 1)] = Cell(h, lists[h], p - 1)]
<1>1. PICK h \in Heads : \E p \in DOMAIN lists[h] :
             lists[h][p] = n /\ lists' = [lists EXCEPT ![h] = RemoveAt(@, p)]
  BY DEF list_del
<1>2. lists[h] \in Seq(Nodes) /\ DOMAIN lists[h] = 1 .. Len(lists[h]) /\ Len(lists[h]) \in Nat
  BY RingFacts
<1>3. PICK p \in 1 .. Len(lists[h]) :
             lists[h][p] = n /\ lists' = [lists EXCEPT ![h] = RemoveAt(@, p)]
  BY <1>1, <1>2
<1>4. n = Cell(h, lists[h], p)
  BY <1>3, RingFacts
<1>5. next[n] = Cell(h, lists[h], p + 1)
  BY <1>2, <1>4 DEF RingInv, Links
<1>6. prev[n] = Cell(h, lists[h], p - 1)
  <2>1. p - 1 \in 0 .. Len(lists[h]) /\ (p - 1) + 1 = p
    BY <1>2
  <2>2. prev[Cell(h, lists[h], (p - 1) + 1)] = Cell(h, lists[h], p - 1)
    BY <2>1 DEF RingInv, Links
  <2> QED
    BY <1>4, <2>1, <2>2
<1> QED
  BY <1>3, <1>4, <1>5, <1>6 DEF list_del, Unlink

LEMMA RingInvKept ==
  ASSUME RingInv, [ListNext]_listVars
  PROVE  RingInv'
<1>1. CASE UNCHANGED <<next, prev, lists>>
  BY <1>1 DEF RingInv, ListTypes, Distinct, Links
<1>2. ASSUME NEW h \in Heads, list_head_init(h)
      PROVE  RingInv'
  BY <1>2, ClearKeeps
<1>3. ASSUME NEW h \in Heads, NEW n \in Nodes, list_add(h, n) \/ list_add_tail(h, n)
      PROVE  RingInv'
  BY <1>3, AddKeeps, AddTailKeeps
<1>4. ASSUME NEW n \in Nodes, list_del(n)
      PROVE  RingInv'
  BY <1>4, DelFacts, DeleteKeeps
<1>5. CASE UNCHANGED listVars
  BY <1>1, <1>5 DEF listVars
<1>6. ASSUME NEW h \in Heads, NEW safe, Enter(h, safe)
      PROVE  RingInv'
  BY <1>1, <1>6 DEF Enter
<1>7. CASE Advance
  BY <1>1, <1>7 DEF Advance
<1> QED
  BY <1>2, <1>3, <1>4, <1>5, <1>6, <1>7 DEF ListNext, list_for_each, list_for_each_safe

-----------------------------------------------------------------------------
(* The inductive invariant of the loops.                                   *)

Loops ==
  [head : Heads, safe : BOOLEAN, i : Cells, nxt : Cells, stay : SUBSET Nodes,
   seen : SUBSET Cells]

\* Loop l over list ms goes to position k next: it has seen the members before
\* that stay, and none of those from there on.
NextAt(l, ms, k) ==
  /\ IF l.safe THEN l.nxt = Cell(l.head, ms, k)
               ELSE k > 1 /\ l.i = Cell(l.head, ms, k - 1)
  /\ \A j \in 1 .. Len(ms) :
       Cell(l.head, ms, j) \in l.stay => (Cell(l.head, ms, j) \in l.seen <=> j < k)

Follows(l, ms) ==
  /\ \A c \in l.stay : \E j \in 1 .. Len(ms) : c = Cell(l.head, ms, j)
  /\ IF l.i = l.head THEN l.stay \subseteq l.seen
                     ELSE \E k \in 1 .. Len(ms) + 1 : NextAt(l, ms, k)

LoopInv == loop = NoLoop \/ (loop \in Loops /\ Follows(loop, lists[loop.head]))

\* A member that comes in is none of those that stay.
LEMMA FollowsInsert ==
  ASSUME NEW l \in Loops, NEW ms \in Seq(Nodes), NEW new \in Seq(Nodes), NEW n \in Nodes,
         n \notin l.stay, Len(new) = Len(ms) + 1, NEW p \in 1 .. Len(ms) + 1,
         \A k \in Int : Cell(l.head, new, k) =
           IF k < p THEN Cell(l.head, ms, k)
           ELSE IF k = p THEN n ELSE Cell(l.head, ms, k - 1),
         Follows(l, ms)
  PROVE  Follows(l, new)
<1> DEFINE L == Len(ms)
           was(k) == Cell(l.head, ms, k)
           now(k) == Cell(l.head, new, k)
<1>1. /\ L \in Nat /\ p \in 1 .. L + 1 /\ Len(new) = L + 1
      /\ \A k \in Int : now(k) = IF k < p THEN was(k) ELSE IF k = p THEN n ELSE was(k - 1)
  OBVIOUS
<1>2. /\ \A c \in l.stay : \E j \in 1 .. L : c = was(j)
      /\ l.i = l.head => l.stay \subseteq l.seen
      /\ l.i # l.head => \E k \in 1 .. L + 1 : NextAt(l, ms, k)
  BY DEF Follows
<1> HIDE DEF L, was, now
<1>3. \A c \in l.stay : \E j \in 1 .. L + 1 : c = now(j)
  <2> SUFFICES ASSUME NEW c \in l.stay
               PROVE  \E j \in 1 .. L + 1 : c = now(j)
    OBVIOUS
  <2>1. PICK j \in 1 .. L : c = was(j)
    BY <1>2
  <2>2. c = now(IF j < p THEN j ELSE j + 1)
    BY <1>1, <2>1
  <2> QED
    BY <1>1, <2>1, <2>2
<1>4. ASSUME l.i # l.head
      PROVE  \E k \in 1 .. L + 1 + 1 : NextAt(l, new, k)
  <2>1. PICK k \in 1 .. L + 1 : NextAt(l, ms, k)
    BY <1>2, <1>4
  <2>2. /\ IF l.safe THEN l.nxt = was(k) ELSE k > 1 /\ l.i = was(k - 1)
        /\ \A j \in 1 .. L : was(j) \in l.stay => (was(j) \in l.seen <=> j < k)
    BY <2>1 DEF NextAt, L, was
  <2> DEFINE q == IF l.safe THEN k ELSE k - 1
             m == IF p <= q THEN k + 1 ELSE k
  <2>3. m \in 1 .. L + 1 + 1 /\ q \in Int /\ (p <= q => m = k + 1) /\ (p > q => m = k)
    BY <1>1
  <2>4. IF l.safe THEN l.nxt = now(m) ELSE m > 1 /\ l.i = now(m - 1)
    <3>1. CASE l.safe
      BY <1>1, <2>2, <3>1
    <3>2. CASE ~l.safe
      BY <1>1, <2>2, <3>2
    <3> QED
      BY <3>1, <3>2
  <2>5. \A j \in 1 .. L + 1 : now(j) \in l.stay => (now(j) \in l.seen <=> j < m)
    <3> SUFFICES ASSUME NEW j \in 1 .. L + 1, now(j) \in l.stay
                 PROVE  now(j) \in l.seen <=> j < m
      OBVIOUS
    <3>1. j # p
      BY <1>1
    <3>2. (p <= k => m = k + 1) \/ (p = k /\ m = k)
      BY <1>1
    <3>3. (p > k => m = k) /\ k \in Int /\ m \in Int /\ p \in Int
      BY <1>1
    <3> HIDE DEF m, q
    <3>4. CASE j < p
      BY <1>1, <2>2, <3>2, <3>3, <3>4
    <3>5. CASE j > p
      <4>1. j - 1 \in 1 .. L /\ now(j) = was(j - 1)
        BY <1>1, <3>5
      <4> QED
        BY <1>1, <2>2, <3>2, <3>3, <3>5, <4>1
    <3> QED
      BY <3>1, <3>4, <3>5, <1>1
  <2>6. NextAt(l, new, m)
    <3> HIDE DEF m, q
    <3> QED
      BY <1>1, <2>4, <2>5 DEF NextAt, now
  <2> QED
    BY <2>3, <2>6
<1> QED
  BY <1>1, <1>2, <1>3, <1>4 DEF Follows, now

\* Members that are not on the list of the loop come and go.
LEMMA FollowsLess ==
  ASSUME NEW l \in Loops, NEW ms \in Seq(Nodes), NEW s, s \subseteq l.stay, Follows(l, ms)
  PROVE  Follows([l EXCEPT !.stay = s], ms) /\ [l EXCEPT !.stay = s] \in Loops
<1> DEFINE d == [l EXCEPT !.stay = s]
<1>1. /\ d \in Loops /\ d.head = l.head /\ d.safe = l.safe /\ d.i = l.i /\ d.nxt = l.nxt
      /\ d.stay = s /\ d.seen = l.seen
  BY DEF Loops
<1> HIDE DEF d
<1>2. Follows(d, ms)
  BY <1>1 DEF Follows, NextAt
<1> QED
  BY <1>1, <1>2 DEF d

\* A member that goes is not the one that the loop goes on from.
LEMMA FollowsDelete ==
  ASSUME NEW l \in Loops, NEW ms \in Seq(Nodes), NEW new \in Seq(Nodes), NEW n,
         NEW p \in 1 .. Len(ms), Len(new) = Len(ms) - 1, n = Cell(l.head, ms, p),
         \A k \in Int : k <= Len(ms) =>
           Cell(l.head, new, k) = IF k < p THEN Cell(l.head, ms, k) ELSE Cell(l.head, ms, k + 1),
         n # (IF l.safe THEN l.nxt ELSE l.i), n \notin l.stay,
         Follows(l, ms)
  PROVE  Follows(l, new)
<1> DEFINE L == Len(ms)
           was(k) == Cell(l.head, ms, k)
           now(k) == Cell(l.head, new, k)
<1>1. /\ L \in Nat /\ p \in 1 .. L /\ Len(new) = L - 1 /\ n = was(p)
      /\ \A k \in Int : k <= L => now(k) = IF k < p THEN was(k) ELSE was(k + 1)
  OBVIOUS
<1>2. /\ \A c \in l.stay : \E j \in 1 .. L : c = was(j)
      /\ l.i = l.head => l.stay \subseteq l.seen
      /\ l.i # l.head => \E k \in 1 .. L + 1 : NextAt(l, ms, k)
  BY DEF Follows
<1> HIDE DEF L, was, now
<1>3. \A c \in l.stay : \E j \in 1 .. L - 1 : c = now(j)
  <2> SUFFICES ASSUME NEW c \in l.stay
               PROVE  \E j \in 1 .. L - 1 : c = now(j)
    OBVIOUS
  <2>1. PICK j \in 1 .. L : c = was(j)
    BY <1>2
  <2>2. j # p
    BY <1>1, <2>1
  <2>3. CASE j < p
    BY <1>1, <2>1, <2>3
  <2>4. CASE j > p
    <3>1. j - 1 \in 1 .. L - 1 /\ (j - 1) + 1 = j /\ now(j - 1) = was((j - 1) + 1)
      BY <1>1, <2>4
    <3> QED
      BY <2>1, <3>1
  <2> QED
    BY <1>1, <2>2, <2>3, <2>4
<1>4. ASSUME l.i # l.head
      PROVE  \E k \in 1 .. (L - 1) + 1 : NextAt(l, new, k)
  <2>1. PICK k \in 1 .. L + 1 : NextAt(l, ms, k)
    BY <1>2, <1>4
  <2>2. /\ IF l.safe THEN l.nxt = was(k) ELSE k > 1 /\ l.i = was(k - 1)
        /\ \A j \in 1 .. L : was(j) \in l.stay => (was(j) \in l.seen <=> j < k)
    BY <2>1 DEF NextAt, L, was
  <2>3. IF l.safe THEN p # k ELSE p # k - 1
    BY <1>1, <2>2
  <2> DEFINE m == IF p < k THEN k - 1 ELSE k
  <2>4. m \in 1 .. (L - 1) + 1 /\ (p < k => m = k - 1) /\ (p >= k => m = k)
    BY <1>1, <2>3
  <2> HIDE DEF m
  <2>6. IF l.safe THEN l.nxt = now(m) ELSE m > 1 /\ l.i = now(m - 1)
    <3>1. ASSUME l.safe
          PROVE  l.nxt = now(m)
      <4>1. l.nxt = was(k) /\ p # k
        BY <2>2, <2>3, <3>1
      <4>2. CASE p < k
        <5>1. m \in Int /\ m <= L /\ ~(m < p) /\ m + 1 = k
          BY <1>1, <2>4, <4>2
        <5>2. now(m) = was(m + 1)
          BY <1>1, <5>1
        <5> QED
          BY <4>1, <5>1, <5>2
      <4>3. CASE p > k
        BY <1>1, <2>4, <4>1, <4>3
      <4> QED
        BY <1>1, <4>1, <4>2, <4>3
    <3>2. ASSUME ~l.safe
          PROVE  m > 1 /\ l.i = now(m - 1)
      <4>1. k > 1 /\ l.i = was(k - 1) /\ p # k - 1
        BY <2>2, <2>3, <3>2
      <4>2. CASE p < k
        <5>1. m - 1 \in Int /\ m - 1 <= L /\ ~(m - 1 < p) /\ (m - 1) + 1 = k - 1 /\ m > 1
          BY <1>1, <2>4, <4>1, <4>2
        <5>2. now(m - 1) = was((m - 1) + 1)
          BY <1>1, <5>1
        <5> QED
          BY <4>1, <5>1, <5>2
      <4>3. CASE p >= k
        BY <1>1, <2>4, <4>1, <4>3
      <4> QED
        BY <1>1, <4>2, <4>3
    <3> QED
      BY <3>1, <3>2
  <2>7. \A j \in 1 .. L - 1 : now(j) \in l.stay => (now(j) \in l.seen <=> j < m)
    <3> SUFFICES ASSUME NEW j \in 1 .. L - 1, now(j) \in l.stay
                 PROVE  now(j) \in l.seen <=> j < m
      OBVIOUS
    <3>1. CASE j < p
      <4>1. j \in 1 .. L /\ now(j) = was(j)
        BY <1>1, <3>1
      <4>2. was(j) \in l.seen <=> j < k
        BY <2>2, <4>1
      <4>3. j < k <=> j < m
        BY <1>1, <2>4, <3>1
      <4> QED
        BY <4>1, <4>2, <4>3
    <3>2. CASE j >= p
      <4>1. j + 1 \in 1 .. L /\ now(j) = was(j + 1)
        BY <1>1, <3>2
      <4>2. was(j + 1) \in l.seen <=> j + 1 < k
        BY <2>2, <4>1
      <4>3. j + 1 < k <=> j < m
        BY <1>1, <2>4, <3>2
      <4> QED
        BY <4>1, <4>2, <4>3
    <3> QED
      BY <1>1, <3>1, <3>2
  <2>8. NextAt(l, new, m)
    BY <1>1, <2>6, <2>7 DEF NextAt, now
  <2> QED
    BY <2>4, <2>8
<1> QED
  BY <1>1, <1>2, <1>3, <1>4 DEF Follows, now

LEMMA LoopEnters ==
  ASSUME RingInv, NEW h \in Heads, NEW safe \in BOOLEAN, Enter(h, safe)
  PROVE  LoopInv'
<1> DEFINE ms == lists[h]
           L == Len(ms)
           at(k) == Cell(h, ms, k)
           d == [head |-> h, safe |-> safe, i |-> next[h], nxt |-> next[next[h]],
                 stay |-> ToSet(ms), seen |-> {next[h]}]
<1>1. loop' = d /\ lists' = lists
  BY DEF Enter
<1>2. /\ L \in Nat /\ ms \in Seq(Nodes) /\ at(0) = h
      /\ \A k \in 1 .. L : at(k) = ms[k] /\ at(k) \in Nodes
      /\ \A k \in Int : k \notin 1 .. L => at(k) = h
      /\ \A k \in Int : at(k) \in Cells
      /\ \A k \in 0 .. L : next[at(k)] = at(k + 1)
      /\ h \notin Nodes
  <2>1. /\ L \in Nat /\ ms \in Seq(Nodes)
        /\ \A k \in 1 .. L : at(k) = ms[k] /\ at(k) \in Nodes
        /\ \A k \in Int : at(k) \in Cells
        /\ h \notin Nodes
    BY RingFacts
  <2>2. \A k \in Int : k \notin 1 .. L => at(k) = h
    BY RingFacts
  <2>3. \A k \in 0 .. L : next[at(k)] = at(k + 1)
    BY DEF RingInv, Links
  <2>4. at(0) = h
    BY <2>1, <2>2
  <2> HIDE DEF at
  <2> QED
    BY <2>1, <2>2, <2>3, <2>4
<1>3. \A j, k \in 1 .. L : at(j) = at(k) => j = k
  BY DEF RingInv, Distinct
<1>4. next[h] = at(1)
  BY <1>2
<1>5. next[next[h]] \in Cells
  <2>1. CASE L = 0
    BY <1>2, <1>4, <2>1
  <2>2. CASE L # 0
    BY <1>2, <1>4, <2>2
  <2> QED
    BY <2>1, <2>2
<1>6. \A c : c \in ToSet(ms) <=> \E j \in 1 .. L : c = at(j)
  <2>1. DOMAIN ms = 1 .. L
    BY <1>2
  <2> QED
    BY <1>2, <2>1 DEF ToSet
<1>7. ToSet(ms) \subseteq Nodes
  BY <1>2, <1>6
<1> HIDE DEF ms, L, at
<1>8. /\ d \in Loops /\ d.head = h /\ d.safe = safe /\ d.i = at(1) /\ d.nxt = next[at(1)]
      /\ d.stay = ToSet(ms) /\ d.seen = {at(1)}
  BY <1>2, <1>4, <1>5, <1>7 DEF Loops
<1> HIDE DEF d
<1>9. Follows(d, ms)
  <2>1. CASE L = 0
    <3>1. d.i = h /\ d.stay = {}
      BY <1>2, <1>6, <1>8, <2>1
    <3> QED
      BY <1>8, <3>1 DEF Follows
  <2>2. CASE L # 0
    <3>1. at(1) # h /\ 2 \in 1 .. L + 1 /\ next[at(1)] = at(2) /\ 2 - 1 = 1
      BY <1>2, <2>2
    <3>2. \A j \in 1 .. L : at(j) \in d.seen <=> j < 2
      BY <1>2, <1>3, <1>8, <2>2
    <3>3. NextAt(d, ms, 2)
      BY <1>8, <3>1, <3>2 DEF NextAt, at, L
    <3> QED
      BY <1>6, <1>8, <3>1, <3>3 DEF Follows, at, L
  <2> QED
    BY <2>1, <2>2
<1> QED
  BY <1>1, <1>8, <1>9 DEF LoopInv, ms

\* The cell that the loop goes to, at its position.
LEMMA AheadCell ==
  ASSUME RingInv, loop \in Loops, NEW k \in 1 .. Len(lists[loop.head]) + 1,
         NextAt(loop, lists[loop.head], k)
  PROVE  Ahead = Cell(loop.head, lists[loop.head], k)
<1>1. loop.head \in Heads /\ Len(lists[loop.head]) \in Nat
  BY RingFacts DEF Loops
<1>2. CASE loop.safe
  BY <1>2 DEF Ahead, NextAt
<1>3. CASE ~loop.safe
  <2>1. k > 1 /\ loop.i = Cell(loop.head, lists[loop.head], k - 1)
    BY <1>3 DEF NextAt
  <2>2. k - 1 \in 0 .. Len(lists[loop.head]) /\ (k - 1) + 1 = k
    BY <1>1, <2>1
  <2>3. next[loop.i] = Cell(loop.head, lists[loop.head], (k - 1) + 1)
    BY <1>1, <2>1, <2>2 DEF RingInv, Links
  <2> QED
    BY <1>3, <2>2, <2>3 DEF Ahead
<1> QED
  BY <1>2, <1>3

LEMMA LoopAdvances ==
  ASSUME RingInv, LoopInv, Advance
  PROVE  LoopInv'
<1> DEFINE h == loop.head
           ms == lists[h]
           L == Len(ms)
           at(k) == Cell(h, ms, k)
           d == [loop EXCEPT !.i = Ahead, !.nxt = next[Ahead], !.seen = @ \cup {Ahead}]
<1>1. /\ loop \in Loops /\ Follows(loop, ms) /\ h \in Heads /\ lists' = lists
      /\ loop' = IF loop.i = h THEN NoLoop ELSE d
  BY DEF Advance, LoopInv, Loops
<1> SUFFICES ASSUME loop.i # h
             PROVE  d \in Loops /\ Follows(d, lists[d.head])
  BY <1>1 DEF LoopInv
<1>2. PICK k \in 1 .. L + 1 : NextAt(loop, ms, k)
  BY DEF Follows, LoopInv, Advance
<1>3. Ahead = at(k)
  BY <1>1, <1>2, AheadCell
<1>4. /\ L \in Nat /\ at(0) = h
      /\ \A j \in 1 .. L : at(j) \in Nodes
      /\ \A j \in Int : j \notin 1 .. L => at(j) = h
      /\ \A j \in Int : at(j) \in Cells
      /\ \A j \in 0 .. L : next[at(j)] = at(j + 1)
      /\ h \notin Nodes
      /\ \A i, j \in 1 .. L : at(i) = at(j) => i = j
  BY <1>1, RingFacts DEF RingInv, Links, Distinct
<1>5. next[at(k)] \in Cells
  <2>1. CASE k \in 1 .. L
    BY <1>4, <2>1
  <2>2. CASE k = L + 1
    BY <1>4, <2>2
  <2> QED
    BY <1>4, <2>1, <2>2
<1>6. /\ d \in Loops /\ d.head = h /\ d.safe = loop.safe /\ d.i = at(k) /\ d.nxt = next[at(k)]
      /\ d.stay = loop.stay /\ d.seen = loop.seen \cup {at(k)}
  <2>1. at(k) \in Cells /\ k \in Int
    BY <1>4
  <2> HIDE DEF at
  <2> QED
    BY <1>1, <1>3, <1>5, <2>1 DEF Loops
<1>7. /\ \A c \in loop.stay : \E j \in 1 .. L : c = at(j)
      /\ \A j \in 1 .. L : at(j) \in loop.stay => (at(j) \in loop.seen <=> j < k)
  BY <1>1, <1>2 DEF Follows, NextAt
<1> HIDE DEF d, at, L, ms, h
<1>8. CASE k = L + 1
  <2>1. at(k) = h
    BY <1>4, <1>8
  <2>2. d.stay \subseteq d.seen
    BY <1>4, <1>6, <1>7, <1>8
  <2> QED
    BY <1>6, <1>7, <2>1, <2>2 DEF Follows, at, L, ms
<1>9. CASE k \in 1 .. L
  <2>1. at(k) # h /\ next[at(k)] = at(k + 1) /\ k + 1 \in 1 .. L + 1 /\ k + 1 > 1 /\ (k + 1) - 1 = k
    BY <1>4, <1>9
  <2>2. \A j \in 1 .. L : at(j) \in d.stay => (at(j) \in d.seen <=> j < k + 1)
    BY <1>4, <1>6, <1>7, <1>9
  <2>3. NextAt(d, ms, k + 1)
    BY <1>6, <2>1, <2>2 DEF NextAt, at, L
  <2> QED
    BY <1>6, <1>7, <2>1, <2>3 DEF Follows, at, L, ms
<1> QED
  BY <1>4, <1>8, <1>9

\* A node that is free stays on no list.
LEMMA FreeLeft ==
  ASSUME RingInv, loop \in Loops, Follows(loop, lists[loop.head]), NEW n, IsFree(n)
  PROVE  n \notin loop.stay
<1>1. loop.head \in Heads
  BY DEF Loops
<1>2. \A j \in 1 .. Len(lists[loop.head]) : Cell(loop.head, lists[loop.head], j) # n
  BY <1>1, RingFacts DEF IsFree, Contains
<1> QED
  BY <1>2 DEF Follows

LEMMA LoopInvKept ==
  ASSUME RingInv, LoopInv, [ListNext]_listVars
  PROVE  LoopInv'
<1>1. CASE UNCHANGED <<loop, lists>>
  BY <1>1 DEF LoopInv
<1>2. ASSUME NEW h \in Heads, list_head_init(h)
      PROVE  LoopInv'
  <2>1. loop' = loop /\ loop.head # h /\ lists' = [lists EXCEPT ![h] = << >>]
    BY <1>2 DEF list_head_init
  <2>2. CASE loop \in Loops /\ Follows(loop, lists[loop.head])
    <3>1. lists'[loop.head] = lists[loop.head]
      BY <2>1, <2>2 DEF Loops, RingInv, ListTypes
    <3> QED
      BY <2>1, <2>2, <3>1 DEF LoopInv
  <2> QED
    BY <2>1, <2>2 DEF LoopInv
<1>3. ASSUME NEW h \in Heads, NEW n \in Nodes, list_add(h, n) \/ list_add_tail(h, n),
             loop \in Loops, Follows(loop, lists[loop.head])
      PROVE  loop' = loop /\ Follows(loop, lists'[loop.head])
  <2> DEFINE f == loop.head
             ms == lists[f]
             new == lists'[f]
  <2>1. /\ loop' = loop /\ f \in Heads /\ n \notin loop.stay /\ ms \in Seq(Nodes)
        /\ Len(ms) \in Nat
    BY <1>3, FreeLeft, RingFacts DEF list_add, list_add_tail, Loops
  <2>2. lists' = [lists EXCEPT ![h] = <<n>> \o @] \/ lists' = [lists EXCEPT ![h] = Append(@, n)]
    BY <1>3 DEF list_add, list_add_tail
  <2>3. lists \in [Heads -> Seq(Nodes)]
    BY DEF RingInv, ListTypes
  <2>4. CASE h # f
    <3>1. new = ms
      BY <2>1, <2>2, <2>3, <2>4
    <3> QED
      BY <1>3, <2>1, <3>1
  <2>5. CASE h = f /\ new = <<n>> \o ms
    <3> DEFINE p == 1
    <3>1. /\ new \in Seq(Nodes) /\ Len(new) = Len(ms) + 1
          /\ \A k \in Int : Cell(f, new, k) = IF k = p THEN n ELSE Cell(f, ms, k - 1)
      BY <2>1, <2>5, PrependCells
    <3>2. \A k \in Int : k \notin 1 .. Len(ms) => Cell(f, ms, k) = f
      BY <2>1, RingFacts
    <3>3. p = 1 /\ p \in 1 .. Len(ms) + 1
      BY <2>1
    <3> HIDE DEF f, ms, new, p
    <3>4. ASSUME NEW k \in Int
          PROVE  Cell(f, new, k) = IF k < p THEN Cell(f, ms, k)
                                   ELSE IF k = p THEN n ELSE Cell(f, ms, k - 1)
      <4>1. CASE k < p
        <5>1. k \notin 1 .. Len(ms) /\ k - 1 \notin 1 .. Len(ms) /\ k # p
          BY <2>1, <3>3, <4>1
        <5> QED
          BY <3>1, <3>2, <4>1, <5>1
      <4>2. CASE ~(k < p)
        BY <3>1, <4>2
      <4> QED
        BY <4>1, <4>2
    <3>5. Follows(loop, new)
      BY <1>3, <2>1, <3>1, <3>3, <3>4, FollowsInsert DEF f, ms
    <3> QED
      BY <2>1, <3>5 DEF new, f
  <2>6. CASE h = f /\ new = Append(ms, n)
    <3> DEFINE p == Len(ms) + 1
    <3>1. /\ new \in Seq(Nodes) /\ Len(new) = p
          /\ \A k \in Int : Cell(f, new, k) = IF k = p THEN n ELSE Cell(f, ms, k)
      BY <2>1, <2>6, AppendCells
    <3>2. \A k \in Int : k \notin 1 .. Len(ms) => Cell(f, ms, k) = f
      BY <2>1, RingFacts
    <3>3. p = Len(ms) + 1 /\ p \in 1 .. Len(ms) + 1
      BY <2>1
    <3> HIDE DEF f, ms, new, p
    <3>4. ASSUME NEW k \in Int
          PROVE  Cell(f, new, k) = IF k < p THEN Cell(f, ms, k)
                                   ELSE IF k = p THEN n ELSE Cell(f, ms, k - 1)
      <4>1. CASE k > p
        <5>1. k \notin 1 .. Len(ms) /\ k - 1 \notin 1 .. Len(ms) /\ k # p
          BY <2>1, <3>3, <4>1
        <5> QED
          BY <3>1, <3>2, <4>1, <5>1
      <4>2. CASE ~(k > p)
        BY <3>1, <4>2
      <4> QED
        BY <4>1, <4>2
    <3>5. /\ loop \in Loops /\ Follows(loop, ms) /\ f = loop.head /\ n \notin loop.stay
          /\ Len(new) = Len(ms) + 1
      BY <1>3, <2>1, <3>1, <3>3 DEF f, ms
    <3>6. new \in Seq(Nodes) /\ ms \in Seq(Nodes) /\ p \in 1 .. Len(ms) + 1
      BY <2>1, <3>1, <3>3
    <3>7. Follows(loop, new)
      BY <3>4, <3>5, <3>6, FollowsInsert
    <3> QED
      BY <2>1, <3>7 DEF new, f
  <2>7. h = f => new = <<n>> \o ms \/ new = Append(ms, n)
    BY <2>1, <2>2, <2>3
  <2> QED
    BY <2>4, <2>5, <2>6, <2>7
<1>4. ASSUME NEW n \in Nodes, list_del(n), loop # NoLoop,
             loop \in Loops, Follows(loop, lists[loop.head])
      PROVE  loop' \in Loops /\ Follows(loop', lists'[loop'.head])
  <2> DEFINE f == loop.head
             ms == lists[f]
             new == lists'[f]
             d == [loop EXCEPT !.stay = loop.stay \ {n}]
  <2>0. PICK h \in Heads : \E p \in 1 .. Len(lists[h]) :
               n = Cell(h, lists[h], p) /\ lists' = [lists EXCEPT ![h] = RemoveAt(@, p)]
    BY <1>4, DelFacts
  <2>1. PICK p \in 1 .. Len(lists[h]) :
               n = Cell(h, lists[h], p) /\ lists' = [lists EXCEPT ![h] = RemoveAt(@, p)]
    BY <2>0
  <2>2. /\ loop' = d /\ n # (IF loop.safe THEN loop.nxt ELSE loop.i)
        /\ f \in Heads /\ ms \in Seq(Nodes) /\ Len(ms) \in Nat
    BY <1>4, RingFacts DEF list_del, GoesOnFrom, Loops
  <2>3. /\ Follows(d, ms) /\ d \in Loops
    BY <1>4, <2>2, FollowsLess
  <2>4. /\ d.head = f /\ d.safe = loop.safe /\ d.i = loop.i /\ d.nxt = loop.nxt
        /\ n \notin d.stay
    BY <1>4 DEF Loops
  <2>5. lists \in [Heads -> Seq(Nodes)]
    BY DEF RingInv, ListTypes
  <2>6. CASE h # f
    <3>1. new = ms
      BY <2>1, <2>2, <2>5, <2>6
    <3> QED
      BY <2>2, <2>3, <2>4, <3>1
  <2>7. CASE h = f
    <3>1. new = RemoveAt(ms, p) /\ p \in 1 .. Len(ms) /\ n = Cell(f, ms, p)
      BY <2>1, <2>2, <2>5, <2>7
    <3> HIDE DEF d, f, ms, new
    <3>2. /\ new \in Seq(Nodes) /\ Len(new) = Len(ms) - 1
          /\ \A k \in Int : k <= Len(ms) =>
               Cell(f, new, k) = IF k < p THEN Cell(f, ms, k) ELSE Cell(f, ms, k + 1)
      <4>1. ms \in Seq(Nodes)
        BY <2>2
      <4> QED
        BY <3>1, <4>1, RemoveCells
    <3>3. Follows(d, new)
      BY <2>2, <2>3, <2>4, <3>1, <3>2, FollowsDelete
    <3> QED
      BY <2>2, <2>3, <2>4, <3>3 DEF new
  <2> QED
    BY <2>6, <2>7
<1>5. ASSUME NEW h \in Heads, Enter(h, FALSE) \/ Enter(h, TRUE)
      PROVE  LoopInv'
  BY <1>5, LoopEnters
<1>6. ASSUME NEW h \in Heads, NEW n \in Nodes, list_add(h, n) \/ list_add_tail(h, n)
      PROVE  LoopInv'
  <2>1. loop' = loop
    BY <1>6 DEF list_add, list_add_tail
  <2> QED
    BY <1>3, <1>6, <2>1 DEF LoopInv
<1>7. ASSUME NEW n \in Nodes, list_del(n)
      PROVE  LoopInv'
  <2>1. CASE loop = NoLoop
    BY <1>7, <2>1 DEF list_del, LoopInv
  <2>2. CASE loop # NoLoop
    BY <1>4, <1>7, <2>2 DEF LoopInv
  <2> QED
    BY <2>1, <2>2
<1>8. CASE UNCHANGED listVars
  BY <1>1, <1>8 DEF listVars
<1> QED
  BY <1>2, <1>5, <1>6, <1>7, <1>8, LoopAdvances
     DEF ListNext, list_for_each, list_for_each_safe

\* Whatever is added, deleted, set up again and looped over, the pointers make
\* a ring of each list, and a loop keeps its place.
THEOREM ListInvariant == ListSpec => [](RingInv /\ LoopInv)
<1>1. ListInit => RingInv /\ LoopInv
  BY RingInvInit DEF ListInit, LoopInv
<1>2. RingInv /\ LoopInv /\ [ListNext]_listVars => (RingInv /\ LoopInv)'
  BY RingInvKept, LoopInvKept
<1> QED
  BY <1>1, <1>2, PTL DEF ListSpec

-----------------------------------------------------------------------------
(* Theorems.                                                               *)

\* list_add, list_add_tail, list_del and list_head_init keep both pointers of
\* every cell of every list right.
THEOREM LinkedTheorem == ListSpec => []Linked
<1>1. ASSUME RingInv
      PROVE  Linked
  <2> SUFFICES ASSUME NEW h \in Heads, NEW k \in 1 .. Len(lists[h]) + 1
               PROVE  next[Ring(h)[k]] = Ring(h)[k + 1] /\ prev[Ring(h)[k + 1]] = Ring(h)[k]
    BY DEF Linked
  <2> DEFINE ms == lists[h]
             L == Len(ms)
  <2>1. L \in Nat
    BY <1>1, RingFacts
  <2>2. \A i \in 1 .. L + 2 : Ring(h)[i] = Cell(h, ms, i - 1)
    BY <1>1, RingCells, RingFacts DEF Ring
  <2>3. k - 1 \in 0 .. L /\ k \in 1 .. L + 2 /\ k + 1 \in 1 .. L + 2 /\ (k + 1) - 1 = (k - 1) + 1
    BY <2>1
  <2>4. Ring(h)[k] = Cell(h, ms, k - 1) /\ Ring(h)[k + 1] = Cell(h, ms, (k - 1) + 1)
    BY <2>2, <2>3
  <2> QED
    BY <1>1, <2>3, <2>4 DEF RingInv, Links
<1> QED
  BY <1>1, ListInvariant, PTL

\* list_for_each and list_for_each_safe visit every member that stays exactly
\* once, in order, whatever is added and deleted meanwhile.
THEOREM LoopTheorem == ListSpec => []LoopKeepsPlace
<1>1. ASSUME RingInv, LoopInv
      PROVE  LoopKeepsPlace
  <2> SUFFICES ASSUME loop # NoLoop
               PROVE  IF loop.i = loop.head THEN loop.stay \subseteq loop.seen
                      ELSE \E k \in 1 .. (Len(lists[loop.head]) + 1) :
                        /\ Ahead = Append(lists[loop.head], loop.head)[k]
                        /\ loop.stay \ loop.seen =
                             loop.stay \cap {lists[loop.head][j] : j \in k .. Len(lists[loop.head])}
    BY DEF LoopKeepsPlace
  <2> DEFINE h == loop.head
             ms == lists[h]
             L == Len(ms)
  <2>1. loop \in Loops /\ Follows(loop, ms) /\ h \in Heads
    BY <1>1 DEF LoopInv, Loops
  <2>2. /\ L \in Nat /\ ms \in Seq(Nodes) /\ h \in Cells
        /\ \A j \in 1 .. L : Cell(h, ms, j) = ms[j]
        /\ Cell(h, ms, L + 1) = h
    BY <1>1, <2>1, RingFacts DEF Cells
  <2>3. CASE loop.i = h
    BY <2>1, <2>3 DEF Follows
  <2>4. CASE loop.i # h
    <3>1. PICK k \in 1 .. L + 1 : NextAt(loop, ms, k)
      BY <2>1, <2>4 DEF Follows
    <3>2. Ahead = Cell(h, ms, k)
      BY <1>1, <2>1, <3>1, AheadCell
    <3>3. Append(ms, h)[k] = Cell(h, ms, k)
      <4>1. ms \in Seq(Cells)
        BY <2>2 DEF Cells
      <4>2. Append(ms, h)[L + 1] = h /\ \A j \in 1 .. L : Append(ms, h)[j] = ms[j]
        BY <2>2, <4>1
      <4>3. k \in 1 .. L \/ k = L + 1
        BY <2>2
      <4> QED
        BY <2>2, <4>2, <4>3
    <3>4. loop.stay \ loop.seen = loop.stay \cap {ms[j] : j \in k .. L}
      <4>1. \A c \in loop.stay : \E j \in 1 .. L : c = ms[j]
        BY <2>1, <2>2 DEF Follows
      <4>2. \A j \in 1 .. L : ms[j] \in loop.stay => (ms[j] \in loop.seen <=> j < k)
        BY <2>2, <3>1 DEF NextAt
      <4>3. ASSUME NEW c \in loop.stay
            PROVE  c \notin loop.seen <=> \E j \in k .. L : c = ms[j]
        BY <2>2, <4>1, <4>2
      <4> HIDE DEF h, ms, L
      <4> QED
        BY <4>3
    <3> QED
      BY <2>4, <3>2, <3>3, <3>4
  <2> QED
    BY <2>3, <2>4
<1> QED
  BY <1>1, ListInvariant, PTL

-----------------------------------------------------------------------------
(* What list.h answers.  list_check follows the way forward, whose cells    *)
(* are told by induction on their number.                                  *)

LEMMA NatSet ==
  ASSUME NEW S, 0 \in S, \A n \in Nat : n \in S => n + 1 \in S
  PROVE  \A n \in Nat : n \in S
<1> DEFINE T == {n \in Nat : n \notin S}
<1> SUFFICES ASSUME T # {}
             PROVE  FALSE
  OBVIOUS
<1>1. \E x \in T : \A y \in T : <<y, x>> \notin OpToRel(<, Nat)
  BY NatLessThanWellFounded, WFMin
<1>2. PICK x \in T : \A y \in T : <<y, x>> \notin OpToRel(<, Nat)
  BY <1>1
<1>3. x # 0 /\ x - 1 \in Nat /\ (x - 1) + 1 = x
  OBVIOUS
<1>4. x - 1 \notin T
  <2>1. <<x - 1, x>> \in OpToRel(<, Nat)
    BY <1>3 DEF OpToRel
  <2> QED
    BY <1>2, <2>1
<1> QED
  BY <1>3, <1>4

\* A way of n steps along g from cell h.
Way(n, h, g) ==
  CHOOSE way : way = [k \in 0 .. n |-> IF k = 0 THEN h ELSE g[way[k - 1]]]

LEMMA WayExists ==
  ASSUME NEW h, NEW g, NEW n \in Nat
  PROVE  /\ Way(n, h, g)[0] = h
         /\ \A k \in 1 .. n : Way(n, h, g)[k] = g[Way(n, h, g)[k - 1]]
<1> DEFINE IsWay(w, m) == w = [k \in 0 .. m |-> IF k = 0 THEN h ELSE g[w[k - 1]]]
           S == {m \in Nat : \E w : IsWay(w, m)}
<1>1. 0 \in S
  <2> DEFINE w == [k \in 0 .. 0 |-> h]
  <2>1. IsWay(w, 0)
    OBVIOUS
  <2> QED
    BY <2>1
<1>2. ASSUME NEW m \in Nat, m \in S
      PROVE  m + 1 \in S
  <2>1. PICK w : IsWay(w, m)
    BY <1>2
  <2> DEFINE v == [k \in 0 .. m + 1 |-> IF k = m + 1 THEN g[w[m]] ELSE w[k]]
  <2>2. \A k \in 0 .. m : w[k] = IF k = 0 THEN h ELSE g[w[k - 1]]
    BY <2>1
  <2>3. \A k \in 0 .. m + 1 : v[k] = IF k = 0 THEN h ELSE g[v[k - 1]]
    BY <2>2
  <2>4. IsWay(v, m + 1)
    BY <2>3
  <2> HIDE DEF IsWay, v
  <2> QED
    BY <2>4
<1>3. \E w : IsWay(w, n)
  <2> HIDE DEF S
  <2>1. n \in S
    BY <1>1, <1>2, NatSet
  <2> QED
    BY <2>1 DEF S
<1>4. IsWay(Way(n, h, g), n)
  BY <1>3 DEF Way
<1> QED
  BY <1>4

\* As far as it does not come back to the head, the way forward is the list.
LEMMA CheckAccepts ==
  ASSUME RingInv, IsFiniteSet(Cells), NEW h \in Heads
  PROVE  list_check(h)
<1> DEFINE ms == lists[h]
           L == Len(ms)
           at(k) == Cell(h, ms, k)
           max == Cardinality(Cells)
           way == Way(max, h, next)
<1>1. /\ L \in Nat /\ at(0) = h /\ at(L + 1) = h
      /\ \A k \in 1 .. L : at(k) # h
      /\ \A k \in 0 .. L : next[at(k)] = at(k + 1) /\ prev[at(k + 1)] = at(k)
  <2>1. /\ L \in Nat
        /\ \A k \in 1 .. L : at(k) \in Nodes
        /\ h \notin Nodes
    BY RingFacts
  <2>2. \A k \in Int : k \notin 1 .. L => at(k) = h
    BY RingFacts
  <2>3. \A k \in 0 .. L : next[at(k)] = at(k + 1) /\ prev[at(k + 1)] = at(k)
    BY DEF RingInv, Links
  <2> HIDE DEF at
  <2> QED
    BY <2>1, <2>2, <2>3
<1>2. max \in Nat
  BY FS_CardinalityType
<1>3. way[0] = h /\ \A k \in 1 .. max : way[k] = next[way[k - 1]]
  BY <1>2, WayExists
<1> HIDE DEF at, L, max, way
<1>4. \A k \in Nat : k <= max /\ k <= L + 1 => way[k] = at(k)
  <2> DEFINE S == {k \in Nat : k <= max /\ k <= L + 1 => way[k] = at(k)}
  <2>1. 0 \in S
    BY <1>1, <1>3
  <2>2. ASSUME NEW k \in Nat, k \in S
        PROVE  k + 1 \in S
    <3> SUFFICES ASSUME k + 1 <= max, k + 1 <= L + 1
                 PROVE  way[k + 1] = at(k + 1)
      OBVIOUS
    <3>1. k + 1 \in 1 .. max /\ (k + 1) - 1 = k /\ k \in 0 .. L /\ way[k] = at(k)
      BY <1>1, <1>2, <2>2
    <3> QED
      BY <1>1, <1>3, <3>1
  <2> HIDE DEF S
  <2>3. \A k \in Nat : k \in S
    BY <2>1, <2>2, NatSet
  <2> QED
    BY <2>3 DEF S
<1>5. ASSUME NEW k \in 1 .. max, \A j \in 1 .. k : way[j] # h
      PROVE  prev[way[k]] = way[k - 1]
  <2>1. k <= L
    <3> SUFFICES ASSUME k >= L + 1
                 PROVE  FALSE
      BY <1>1
    <3>1. way[L + 1] = at(L + 1) /\ L + 1 \in 1 .. k
      BY <1>1, <1>2, <1>4
    <3> QED
      BY <1>1, <1>5, <3>1
  <2>2. k \in Nat /\ k - 1 \in Nat /\ k - 1 \in 0 .. L /\ (k - 1) + 1 = k
    BY <1>1, <2>1
  <2>3. way[k] = at(k) /\ way[k - 1] = at(k - 1)
    BY <1>1, <1>2, <1>4, <2>1, <2>2
  <2>4. prev[at((k - 1) + 1)] = at(k - 1)
    BY <1>1, <2>2
  <2> QED
    BY <2>2, <2>3, <2>4
<1>6. list_empty(h) => prev[h] = h
  <2>1. next[h] = at(1)
    BY <1>1
  <2>2. next[h] = h => L = 0
    BY <1>1, <2>1
  <2>3. L = 0 => prev[at(0 + 1)] = h /\ at(0 + 1) = h
    BY <1>1
  <2> QED
    BY <2>2, <2>3 DEF list_empty
<1> QED
  BY <1>5, <1>6 DEF list_check, way, Way, max

\* The functions of list.h that tell about a list tell what is on it, and
\* list_check accepts it.
THEOREM AnswersTheorem ==
  ASSUME IsFiniteSet(Cells)
  PROVE  ListSpec => []AnswersAgree
<1>1. ASSUME RingInv
      PROVE  AnswersAgree
  <2> SUFFICES ASSUME NEW h \in Heads
               PROVE  /\ list_check(h)
                      /\ list_empty(h) <=> lists[h] = << >>
                      /\ lists[h] # << >> => _list_top(h) = Head(lists[h])
                      /\ \A n \in ToSet(lists[h]) :
                           /\ list_is_first(h, n) <=> n = Head(lists[h])
                           /\ list_is_last(h, n) <=> n = Last(lists[h])
    BY DEF AnswersAgree
  <2> DEFINE ms == lists[h]
             L == Len(ms)
             at(k) == Cell(h, ms, k)
  <2>1. /\ L \in Nat /\ ms \in Seq(Nodes) /\ DOMAIN ms = 1 .. L /\ h \notin Nodes
        /\ \A k \in 1 .. L : at(k) = ms[k] /\ at(k) \in Nodes
    BY <1>1, RingFacts
  <2>2. \A k \in Int : k \notin 1 .. L => at(k) = h
    BY <1>1, RingFacts
  <2>3. \A k \in 0 .. L : next[at(k)] = at(k + 1) /\ prev[at(k + 1)] = at(k)
    BY <1>1 DEF RingInv, Links
  <2>4. \A j, k \in 1 .. L : at(j) = at(k) => j = k
    BY <1>1 DEF RingInv, Distinct
  <2>5. (ms = << >> <=> L = 0) /\ (L # 0 => Head(ms) = ms[1]) /\ Last(ms) = ms[L]
    BY <2>1 DEF Last
  <2> HIDE DEF at, L
  <2>6. at(0) = h /\ at(L + 1) = h /\ next[h] = at(1)
    BY <2>1, <2>2, <2>3
  <2>7. list_empty(h) <=> ms = << >>
    BY <2>1, <2>2, <2>5, <2>6 DEF list_empty
  <2>8. ms # << >> => _list_top(h) = Head(ms)
    BY <2>1, <2>5, <2>6, <2>7 DEF _list_top
  <2>9. ASSUME NEW n \in ToSet(ms)
        PROVE  /\ list_is_first(h, n) <=> n = Head(ms)
               /\ list_is_last(h, n) <=> n = Last(ms)
    <3>1. PICK k \in 1 .. L : n = at(k)
      BY <2>1 DEF ToSet
    <3>2. /\ L # 0 /\ 1 \in 1 .. L /\ L \in 1 .. L /\ k \in 0 .. L
          /\ k - 1 \in 0 .. L /\ (k - 1) + 1 = k
      BY <2>1
    <3>3. next[n] = at(k + 1) /\ prev[n] = at(k - 1)
      BY <2>3, <3>1, <3>2
    <3>4. (n = Head(ms) <=> k = 1) /\ (n = Last(ms) <=> k = L)
      BY <2>1, <2>4, <2>5, <3>1, <3>2
    <3>5. prev[n] = h <=> k = 1
      BY <2>1, <2>6, <3>2, <3>3
    <3>6. next[n] = h <=> k = L
      BY <2>1, <2>6, <3>2, <3>3
    <3> QED
      BY <3>4, <3>5, <3>6 DEF list_is_first, list_is_last
  <2> QED
    BY <1>1, <2>7, <2>8, <2>9, CheckAccepts
<1> QED
  BY <1>1, ListInvariant, PTL

=============================================================================
