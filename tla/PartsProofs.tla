---------------------------- MODULE PartsProofs ----------------------------
(***************************************************************************)
(* The parts that the others rest on: attribute files of any length in     *)
(* buffers of any size, and the attributes of any bridges in any number of *)
(* readers.                                                                *)
(***************************************************************************)
EXTENDS InitLba, Attribute, TLAPS

-----------------------------------------------------------------------------
(* Attribute files.                                                        *)

\* An array that holds a string and a NUL after it.
LEMMA CStringIs ==
  ASSUME NEW S, NEW array \in Seq(S), NEW text \in Seq(S),
         Len(text) < Len(array), array[Len(text) + 1] = NUL,
         \A i \in 1 .. Len(text) : array[i] = text[i] /\ text[i] # NUL
  PROVE  CString(array) = text
<1> DEFINE n == Len(text)
           Ends(k) == /\ \A i \in 1 .. k : array[i] # NUL
                      /\ k = Len(array) \/ array[k + 1] = NUL
           m == CHOOSE k \in 0 .. Len(array) : Ends(k)
<1>1. n \in Nat /\ Len(array) \in Nat /\ n \in 0 .. Len(array)
  OBVIOUS
<1>2. Ends(n)
  OBVIOUS
<1>3. m \in 0 .. Len(array) /\ Ends(m)
  BY <1>1, <1>2
<1> HIDE DEF m
<1>4. m = n
  <2>1. ASSUME m < n
        PROVE  FALSE
    <3>1. m # Len(array) /\ m + 1 \in 1 .. n
      BY <1>1, <1>3, <2>1
    <3> QED
      BY <1>3, <3>1
  <2>2. ASSUME m > n
        PROVE  FALSE
    <3>1. n + 1 \in 1 .. m
      BY <1>1, <1>3, <2>2
    <3> QED
      BY <1>3, <3>1
  <2> QED
    BY <1>1, <1>3, <2>1, <2>2
<1>5. SubSeq(array, 1, n) = text
  <2>1. /\ SubSeq(array, 1, n) \in Seq(S) /\ Len(SubSeq(array, 1, n)) = n
        /\ \A i \in 1 .. n : SubSeq(array, 1, n)[i] = array[i]
    BY <1>1
  <2> DEFINE t == SubSeq(array, 1, n)
  <2> HIDE DEF t
  <2>2. t \in Seq(S) /\ Len(t) = Len(text) /\ \A i \in 1 .. Len(text) : t[i] = text[i]
    BY <2>1 DEF t
  <2>3. t = text
    BY <2>2
  <2> QED
    BY <2>3 DEF t
<1> QED
  BY <1>4, <1>5 DEF CString, m

\* The line of a file, or nothing, comes through the page into a buffer whole,
\* whatever was in the page.
LEMMA LineArrives ==
  ASSUME NEW page, NEW text \in Texts, NEW c \in Callers,
         NEW file \in {Append(text, LF)} \cup (IF text = << >> THEN {<< >>} ELSE {})
  PROVE  CString(strncpy(Strip(Fill(page, file)), Size(c))) = text
<1> DEFINE S == Chars \cup {NUL, LF}
           n == Len(text)
           f == Fill(page, file)
           z == Size(c)
<1>1. /\ PageSize \in Nat /\ MaxText \in Nat /\ MaxText + 1 < PageSize
      /\ NUL \notin Chars /\ NUL # LF
      /\ z \in Nat /\ MaxText < z /\ z <= PageSize
  BY AttributeAssumption DEF NUL, LF, Size
<1>2. text \in Seq(Chars) /\ n \in Nat /\ n <= MaxText
  BY <1>1 DEF Texts
<1>3. /\ text \in Seq(S)
      /\ \A i \in 1 .. n : text[i] \in S /\ text[i] # NUL
  BY <1>1, <1>2
<1>4. /\ file \in Seq(S) /\ Len(file) \in {n, n + 1} /\ (Len(file) = n => n = 0)
      /\ \A i \in 1 .. n : file[i] = text[i]
      /\ \A i \in 1 .. Len(file) : file[i] \in S /\ file[i] # NUL
  <2>1. CASE file = Append(text, LF)
    <3>1. /\ file \in Seq(S) /\ Len(file) = n + 1 /\ file[n + 1] = LF
          /\ \A i \in 1 .. n : file[i] = text[i]
      BY <1>2, <1>3, <2>1
    <3> QED
      BY <1>1, <1>2, <1>3, <3>1
  <2>2. CASE text = << >> /\ file = << >>
    BY <2>2
  <2> QED
    BY <2>1, <2>2
<1> HIDE DEF z, S
<1>5. /\ f \in Seq(S) /\ Len(f) = PageSize
      /\ \A i \in 1 .. Len(file) : f[i] = file[i]
      /\ \A i \in 1 .. PageSize : i > Len(file) => f[i] = NUL
  <2>1. \A i \in 1 .. PageSize : f[i] = IF i <= Len(file) THEN file[i] ELSE NUL
    BY DEF Fill
  <2>2. Len(file) \in Nat /\ Len(file) < PageSize /\ NUL \in S
    BY <1>1, <1>2, <1>4 DEF S
  <2>3. f \in [1 .. PageSize -> S]
    BY <1>4, <2>2 DEF Fill
  <2> HIDE DEF f
  <2> QED
    BY <1>1, <2>1, <2>2, <2>3
<1> HIDE DEF f
<1>6. CString(f) = file
  <2>1. Len(file) < Len(f) /\ f[Len(file) + 1] = NUL
    BY <1>1, <1>2, <1>4, <1>5
  <2>2. \A i \in 1 .. Len(file) : f[i] = file[i] /\ file[i] # NUL
    BY <1>4, <1>5
  <2> QED
    BY <1>4, <1>5, <2>1, <2>2, CStringIs
<1> DEFINE g == Strip(f)
<1>7. /\ g \in Seq(S) /\ Len(g) = PageSize
      /\ \A i \in 1 .. n : g[i] = text[i]
      /\ g[n + 1] = NUL
  <2>1. n + 1 \in 1 .. PageSize /\ NUL \in S
    BY <1>1, <1>2 DEF S
  <2>2. CASE Len(file) > 0
    <3>1. Len(file) = n + 1
      BY <1>2, <1>4, <2>2
    <3>2. g = [f EXCEPT ![n + 1] = NUL]
      BY <1>6, <2>2, <3>1 DEF Strip
    <3>3. g \in Seq(S) /\ Len(g) = PageSize
      BY <1>1, <1>5, <2>1, <3>2
    <3>4. \A i \in 1 .. n : g[i] = f[i] /\ f[i] = file[i]
      BY <1>2, <1>5, <2>1, <3>1, <3>2
    <3>5. g[n + 1] = NUL
      BY <1>5, <2>1, <3>2
    <3> QED
      BY <1>4, <3>3, <3>4, <3>5
  <2>3. CASE ~(Len(file) > 0)
    <3>1. Len(file) = 0 /\ n = 0
      BY <1>2, <1>4, <2>3
    <3>2. g = f
      BY <1>6, <2>3 DEF Strip
    <3> QED
      BY <1>5, <2>1, <3>1, <3>2
  <2> QED
    BY <2>2, <2>3
<1> HIDE DEF g
<1>8. CString(g) = text
  <2>1. Len(text) < Len(g)
    BY <1>1, <1>2, <1>7
  <2> QED
    BY <1>3, <1>7, <2>1, CStringIs
<1> DEFINE b == strncpy(g, z)
<1>9. /\ b \in Seq(S) /\ Len(b) = z /\ b[n + 1] = NUL
      /\ \A i \in 1 .. n : b[i] = text[i]
  <2>1. b = [i \in 1 .. z |-> IF i <= n THEN text[i] ELSE NUL]
    BY <1>8 DEF strncpy
  <2>2. NUL \in S /\ n + 1 \in 1 .. z /\ \A i \in 1 .. n : i \in 1 .. z
    BY <1>1, <1>2 DEF S
  <2> HIDE DEF b
  <2>3. b \in [1 .. z -> S]
    BY <1>2, <1>3, <2>1, <2>2
  <2>4. b[n + 1] = NUL /\ \A i \in 1 .. n : b[i] = text[i]
    BY <1>2, <2>1, <2>2
  <2> QED
    BY <1>1, <2>3, <2>4
<1> HIDE DEF b
<1>10. CString(b) = text
  <2>1. Len(text) < Len(b)
    BY <1>1, <1>2, <1>9
  <2> QED
    BY <1>3, <1>9, <2>1, CStringIs
<1> QED
  BY <1>10 DEF b, g, f, z

AttributeInv ==
  /\ DOMAIN contents = Callers /\ DOMAIN last = Callers
  /\ ShowsLastRead

\* A caller's buffer holds the line it read last, whatever the others read and
\* whichever reads fail (read_attribute).
THEOREM LastReadTheorem == AttributeSpec => []ShowsLastRead
<1>1. AttributeInit => AttributeInv
  BY DEF AttributeInit, AttributeInitWith, AttributeInv, ShowsLastRead
<1>2. AttributeInv /\ [AttributeNext]_attributeVars => AttributeInv'
  <2> SUFFICES ASSUME AttributeInv, [AttributeNext]_attributeVars
               PROVE  AttributeInv'
    OBVIOUS
  <2>1. ASSUME NEW c \in Callers, read_attribute(c)
        PROVE  AttributeInv'
    <3>1. PICK text \in Texts :
            \E file \in {Append(text, LF)} \cup (IF text = << >> THEN {<< >>} ELSE {}) :
              /\ buf' = Strip(Fill(buf, file))
              /\ contents' = [contents EXCEPT ![c] = strncpy(buf', Size(c))]
              /\ last' = [last EXCEPT ![c] = <<text>>]
      BY <2>1 DEF read_attribute
    <3>2. PICK file \in {Append(text, LF)} \cup (IF text = << >> THEN {<< >>} ELSE {}) :
              /\ buf' = Strip(Fill(buf, file))
              /\ contents' = [contents EXCEPT ![c] = strncpy(buf', Size(c))]
              /\ last' = [last EXCEPT ![c] = <<text>>]
      BY <3>1
    <3>3. CString(strncpy(buf', Size(c))) = text
      BY <3>2, LineArrives
    <3>4. DOMAIN contents' = Callers /\ DOMAIN last' = Callers
      BY <3>2 DEF AttributeInv
    <3>5. ASSUME NEW d \in Callers, last'[d] # << >>
          PROVE  CString(contents'[d]) = last'[d][1]
      <4>1. CASE d = c
        BY <3>2, <3>3, <4>1 DEF AttributeInv
      <4>2. CASE d # c
        <5>1. contents'[d] = contents[d] /\ last'[d] = last[d]
          BY <3>2, <4>2 DEF AttributeInv
        <5> QED
          BY <3>5, <5>1 DEF AttributeInv, ShowsLastRead
      <4> QED
        BY <4>1, <4>2
    <3> QED
      BY <3>4, <3>5 DEF AttributeInv, ShowsLastRead
  <2>2. ASSUME UNCHANGED <<contents, last>>
        PROVE  AttributeInv'
    BY <2>2 DEF AttributeInv, ShowsLastRead
  <2> QED
    BY <2>1, <2>2 DEF AttributeNext, ReadFails, attributeVars
<1>3. AttributeInv => ShowsLastRead
  BY DEF AttributeInv
<1> QED
  BY <1>1, <1>2, <1>3, PTL DEF AttributeSpec

-----------------------------------------------------------------------------
(* The revision.  What is said of registers, buffers and calls takes them  *)
(* as parameters: R for reg, V for revision, C for call.                   *)

ChipOf(R, l) == R[l].function_id

\* Some bridge of chipset k has a revision with an i-th character.
HasPlace(R, k, i) == \E m \in Lba : ChipOf(R, m) = k /\ i <= Len(R[m].revision)

\* c may be at place i of the buffer of chipset k.
Printed(R, k, i, c) ==
  \/ c = Nul
  \/ \E m \in Lba : /\ ChipOf(R, m) = k /\ i <= Len(R[m].revision)
                    /\ c = R[m].revision[i]

Buffers == [1 .. REVISION_SIZE -> RevisionChars \cup {Nul}]

\* What is true of a call, whoever uses the buffer.
GoodCall(R, c) ==
  /\ DOMAIN c = {"pc", "lba", "at", "len", "text", "alone"}
  /\ c.pc \in {"memset", "snprintf", "strnlen", "copy"} /\ c.lba \in Lba
  /\ c.at \in Nat \ {0} /\ c.len \in Nat /\ c.alone \in BOOLEAN
  /\ c.pc = "memset" => c.at <= REVISION_SIZE
  /\ c.pc = "snprintf" => c.at <= Len(R[c.lba].revision) + 1
  /\ c.pc \in {"memset", "snprintf"} => c.len = 0
  /\ c.pc # "copy" => c.text = << >>
  /\ \A i \in 1 .. c.len : HasPlace(R, ChipOf(R, c.lba), i)
  /\ c.text \in Seq(RevisionChars \cup {Nul}) /\ Len(c.text) <= c.len
  /\ \A i \in 1 .. Len(c.text) : Printed(R, ChipOf(R, c.lba), i, c.text[i])

\* What is true of a call that nobody disturbs, with b in the buffer.
Undisturbed(R, c, b) ==
  LET own == R[c.lba].revision
  IN  /\ c.pc = "memset" => \A i \in 1 .. (c.at - 1) : b[i] = Nul
      /\ c.pc = "snprintf" =>
           \A i \in 1 .. REVISION_SIZE : b[i] = IF i < c.at THEN own[i] ELSE Nul
      /\ c.pc \in {"strnlen", "copy"} =>
           \A i \in 1 .. REVISION_SIZE : b[i] = IF i <= Len(own) THEN own[i] ELSE Nul
      /\ c.pc = "strnlen" => c.len <= Len(own)
      /\ c.pc = "copy" => /\ c.len = Len(own)
                          /\ \A i \in 1 .. Len(c.text) : c.text[i] = own[i]

\* Only reader p is in a call that uses the buffer of its chipset.
Lone(R, C, p) ==
  \A q \in Reader : C[q] # Idle /\ ChipOf(R, C[q].lba) = ChipOf(R, C[p].lba) => q = p

CallsRight(R, V, C) ==
  /\ DOMAIN C = Reader /\ V \in [Chips -> Buffers]
  /\ \A k \in Chips : \A i \in 1 .. REVISION_SIZE : Printed(R, k, i, V[k][i])
  /\ \A p \in Reader : C[p] # Idle => GoodCall(R, C[p])
  /\ \A p \in Reader : C[p] # Idle /\ C[p].alone =>
       Lone(R, C, p) /\ Undisturbed(R, C[p], V[ChipOf(R, C[p].lba)])

GoodResult(R, r) ==
  r.attr = "revision" =>
    /\ r.alone => r.text = R[r.lba].revision
    /\ \A i \in DOMAIN r.text :
         \E m \in Lba : /\ ChipOf(R, m) = ChipOf(R, r.lba) /\ i <= Len(R[m].revision)
                        /\ r.text[i] \in {Nul, R[m].revision[i]}

RevisionInv ==
  /\ reg \in [Lba -> RegisterSets]
  /\ CallsRight(reg, revision, call)
  /\ DOMAIN result = Reader
  /\ \A p \in Reader : GoodResult(reg, result[p])

LEMMA RegisterFacts ==
  ASSUME NEW R \in [Lba -> RegisterSets], NEW l \in Lba
  PROVE  /\ ChipOf(R, l) \in Chips
         /\ R[l].revision \in Seq(RevisionChars)
         /\ Len(R[l].revision) \in Nat /\ Len(R[l].revision) < REVISION_SIZE
         /\ \A i \in 1 .. Len(R[l].revision) :
              R[l].revision[i] \in RevisionChars /\ R[l].revision[i] # Nul
<1>1. R[l] \in RegisterSets /\ Nul \notin RevisionChars
  BY DEF Nul, RevisionChars
<1>2. R[l].revision \in Seq(RevisionChars) /\ Len(R[l].revision) < REVISION_SIZE
      /\ R[l].function_id \in Chips
  BY <1>1, ChipInfoAssumption
<1> HIDE DEF RevisionChars, Nul, Chips
<1>3. Len(R[l].revision) \in Nat
      /\ \A i \in 1 .. Len(R[l].revision) : R[l].revision[i] \in RevisionChars
  BY <1>2
<1> QED
  BY <1>1, <1>2, <1>3 DEF ChipOf

LEMMA GoodIsNotIdle ==
  ASSUME NEW R, NEW c, GoodCall(R, c)
  PROVE  c # Idle
<1>1. "lba" \in DOMAIN c /\ "lba" \notin DOMAIN Idle
  BY DEF GoodCall, Idle
<1> QED
  BY <1>1

\* A reader in a call takes a step, which may change the buffer it uses.
LEMMA StepKeeps ==
  ASSUME NEW R \in [Lba -> RegisterSets], NEW V, NEW C, CallsRight(R, V, C),
         NEW p \in Reader, C[p] # Idle,
         NEW k, k = ChipOf(R, C[p].lba),
         NEW new, GoodCall(R, new), new.lba = C[p].lba, new.alone = C[p].alone,
         NEW b \in Buffers, \A i \in 1 .. REVISION_SIZE : Printed(R, k, i, b[i]),
         new.alone => Undisturbed(R, new, b)
  PROVE  CallsRight(R, [V EXCEPT ![k] = b], [C EXCEPT ![p] = new])
<1> DEFINE W == [V EXCEPT ![k] = b]
           D == [C EXCEPT ![p] = new]
<1>1. DOMAIN C = Reader /\ V \in [Chips -> Buffers] /\ GoodCall(R, C[p])
  BY DEF CallsRight
<1>2. k \in Chips
  BY <1>1, RegisterFacts DEF GoodCall
<1>3. /\ W \in [Chips -> Buffers] /\ W[k] = b
      /\ \A j \in Chips : j # k => W[j] = V[j]
  BY <1>1, <1>2
<1>4. /\ DOMAIN D = Reader /\ D[p] = new
      /\ \A q \in Reader : q # p => D[q] = C[q]
  BY <1>1
<1>5. new # Idle
  BY GoodIsNotIdle
<1> HIDE DEF W, D
<1>6. \A j \in Chips : \A i \in 1 .. REVISION_SIZE : Printed(R, j, i, W[j][i])
  <2> SUFFICES ASSUME NEW j \in Chips, NEW i \in 1 .. REVISION_SIZE
               PROVE  Printed(R, j, i, W[j][i])
    OBVIOUS
  <2>1. CASE j = k
    BY <1>3, <2>1
  <2>2. CASE j # k
    BY <1>3, <2>2 DEF CallsRight
  <2> QED
    BY <2>1, <2>2
<1>7. \A q \in Reader : D[q] # Idle => GoodCall(R, D[q])
  <2> SUFFICES ASSUME NEW q \in Reader, D[q] # Idle
               PROVE  GoodCall(R, D[q])
    OBVIOUS
  <2>1. CASE q = p
    BY <1>4, <2>1
  <2>2. CASE q # p
    BY <1>4, <2>2 DEF CallsRight
  <2> QED
    BY <2>1, <2>2
<1>8. \A q \in Reader : /\ D[q] # Idle <=> C[q] # Idle
                        /\ D[q] # Idle => D[q].lba = C[q].lba /\ D[q].alone = C[q].alone
  <2> SUFFICES ASSUME NEW q \in Reader
               PROVE  /\ D[q] # Idle <=> C[q] # Idle
                      /\ D[q] # Idle => D[q].lba = C[q].lba /\ D[q].alone = C[q].alone
    OBVIOUS
  <2>1. CASE q = p
    BY <1>4, <1>5, <2>1
  <2>2. CASE q # p
    BY <1>4, <2>2
  <2> QED
    BY <2>1, <2>2
<1>9. ASSUME NEW q \in Reader, D[q] # Idle, D[q].alone
      PROVE  Lone(R, D, q) /\ Undisturbed(R, D[q], W[ChipOf(R, D[q].lba)])
  <2>1. C[q] # Idle /\ C[q].alone
    BY <1>8, <1>9
  <2>2. Lone(R, C, q) /\ Undisturbed(R, C[q], V[ChipOf(R, C[q].lba)])
    BY <2>1 DEF CallsRight
  <2>3. Lone(R, D, q)
    BY <1>8, <1>9, <2>2 DEF Lone
  <2>4. Undisturbed(R, D[q], W[ChipOf(R, D[q].lba)])
    <3>1. CASE q = p
      BY <1>3, <1>4, <1>9, <3>1
    <3>2. CASE q # p
      <4>1. ChipOf(R, C[q].lba) # k
        BY <2>2, <3>2 DEF Lone
      <4>2. D[q] = C[q] /\ ChipOf(R, C[q].lba) \in Chips
        BY <1>4, <2>1, <3>2, RegisterFacts DEF CallsRight, GoodCall
      <4>3. W[ChipOf(R, C[q].lba)] = V[ChipOf(R, C[q].lba)]
        BY <1>3, <4>1, <4>2
      <4> QED
        BY <2>2, <4>2, <4>3
    <3> QED
      BY <3>1, <3>2
  <2> QED
    BY <2>3, <2>4
<1> QED
  BY <1>3, <1>4, <1>6, <1>7, <1>9 DEF CallsRight, W, D

LEMMA RevisionInit ==
  ASSUME InfoInit
  PROVE  RevisionInv
<1>1. PICK registers \in [Lba -> RegisterSets] : InfoInitWith(registers)
  BY DEF InfoInit
<1>2. /\ reg \in [Lba -> RegisterSets]
      /\ revision = [k \in Chips |-> [i \in 1 .. REVISION_SIZE |-> Nul]]
      /\ call = [p \in Reader |-> Idle] /\ result = [p \in Reader |-> Nothing]
  BY <1>1 DEF InfoInitWith
<1>3. revision \in [Chips -> Buffers]
  BY <1>2 DEF Buffers
<1>4. \A k \in Chips : \A i \in 1 .. REVISION_SIZE : Printed(reg, k, i, revision[k][i])
  BY <1>2 DEF Printed
<1>5. \A p \in Reader : GoodResult(reg, result[p])
  BY <1>2 DEF Nothing, GoodResult
<1> QED
  BY <1>2, <1>3, <1>4, <1>5 DEF RevisionInv, CallsRight

\* A call begins: those that use the same buffer are no longer alone.
LEMMA BeginKeeps ==
  ASSUME RevisionInv, NEW p \in Reader, revision_show(p)
  PROVE  RevisionInv'
<1> DEFINE using(l) == {q \in Reader : call[q] # Idle /\ ChipOf(reg, call[q].lba) = ChipOf(reg, l)}
<1>1. PICK l \in Lba :
        call' = [q \in Reader |->
          IF q = p THEN [pc |-> "memset", lba |-> l, at |-> 1, len |-> 0, text |-> << >>,
                         alone |-> using(l) = {}]
          ELSE IF q \in using(l) THEN [call[q] EXCEPT !.alone = FALSE]
          ELSE call[q]]
  BY DEF revision_show, Using, Chip, chip, ChipOf
<1>2. UNCHANGED <<reg, revision, result>> /\ call[p] = Idle
  BY DEF revision_show
<1>3. PICK U : U = using(l)
  OBVIOUS
<1>4. /\ reg \in [Lba -> RegisterSets] /\ CallsRight(reg, revision, call)
  BY DEF RevisionInv
<1> DEFINE D == call'
           new == [pc |-> "memset", lba |-> l, at |-> 1, len |-> 0, text |-> << >>,
                   alone |-> U = {}]
<1>5. /\ DOMAIN D = Reader /\ D[p] = new
      /\ \A q \in Reader : q # p /\ q \in U => D[q] = [call[q] EXCEPT !.alone = FALSE]
      /\ \A q \in Reader : q # p /\ q \notin U => D[q] = call[q]
  BY <1>1, <1>3
<1>6. \A q \in Reader : q \in U <=> call[q] # Idle /\ ChipOf(reg, call[q].lba) = ChipOf(reg, l)
  BY <1>3
<1>7. GoodCall(reg, new) /\ (new.alone => U = {})
  <2>2. new.alone \in BOOLEAN /\ (new.alone => U = {})
    BY Zenon
  <2>3. /\ DOMAIN new = {"pc", "lba", "at", "len", "text", "alone"}
        /\ new.pc = "memset" /\ new.lba = l /\ new.at = 1 /\ new.len = 0
        /\ new.text = << >>
    OBVIOUS
  <2> HIDE DEF new
  <2> QED
    BY <2>2, <2>3 DEF GoodCall, REVISION_SIZE
<1>8. Undisturbed(reg, new, revision[ChipOf(reg, l)])
  BY DEF Undisturbed
<1> HIDE DEF D, new, using
<1>9. \A q \in Reader : q # p =>
        /\ D[q] # Idle <=> call[q] # Idle
        /\ D[q] # Idle => /\ GoodCall(reg, D[q]) /\ D[q].lba = call[q].lba
                          /\ D[q].alone => q \notin U /\ D[q] = call[q]
  <2> SUFFICES ASSUME NEW q \in Reader, q # p
               PROVE  /\ D[q] # Idle <=> call[q] # Idle
                      /\ D[q] # Idle => /\ GoodCall(reg, D[q]) /\ D[q].lba = call[q].lba
                                        /\ D[q].alone => q \notin U /\ D[q] = call[q]
    OBVIOUS
  <2>1. CASE q \notin U
    BY <1>4, <1>5, <2>1 DEF CallsRight
  <2>2. CASE q \in U
    <3>1. call[q] # Idle /\ D[q] = [call[q] EXCEPT !.alone = FALSE]
      BY <1>5, <1>6, <2>2
    <3>2. GoodCall(reg, call[q])
      BY <1>4, <3>1 DEF CallsRight
    <3>3. GoodCall(reg, D[q]) /\ D[q].lba = call[q].lba /\ D[q].alone = FALSE
      BY <3>1, <3>2 DEF GoodCall
    <3> QED
      BY <3>1, <3>3, GoodIsNotIdle
  <2> QED
    BY <2>1, <2>2
<1>10. D[p].lba = l /\ D[p] # Idle
  BY <1>5, <1>7, GoodIsNotIdle DEF new
<1>11. ASSUME NEW q \in Reader, D[q] # Idle, D[q].alone
       PROVE  Lone(reg, D, q) /\ Undisturbed(reg, D[q], revision[ChipOf(reg, D[q].lba)])
  <2>1. CASE q = p
    <3>1. U = {} /\ Undisturbed(reg, D[q], revision[ChipOf(reg, D[q].lba)])
      BY <1>5, <1>7, <1>8, <1>10, <1>11, <2>1
    <3>2. Lone(reg, D, q)
      BY <1>6, <1>9, <1>10, <2>1, <3>1 DEF Lone
    <3> QED
      BY <3>1, <3>2
  <2>2. CASE q # p
    <3>1. q \notin U /\ D[q] = call[q] /\ call[q] # Idle
      BY <1>9, <1>11, <2>2
    <3>2. Lone(reg, call, q) /\ Undisturbed(reg, D[q], revision[ChipOf(reg, D[q].lba)])
      BY <1>4, <1>11, <3>1 DEF CallsRight
    <3>3. ChipOf(reg, call[q].lba) # ChipOf(reg, l)
      BY <1>6, <3>1
    <3>4. Lone(reg, D, q)
      BY <1>9, <1>10, <3>1, <3>2, <3>3 DEF Lone
    <3> QED
      BY <3>2, <3>4
  <2> QED
    BY <2>1, <2>2
<1>12. \A q \in Reader : D[q] # Idle => GoodCall(reg, D[q])
  BY <1>5, <1>7, <1>9
<1>13. CallsRight(reg, revision, D)
  BY <1>4, <1>5, <1>11, <1>12 DEF CallsRight
<1> QED
  BY <1>2, <1>13 DEF RevisionInv, D

\* What is known of the call of a reader, its bridge and its buffer.
LEMMA InCall ==
  ASSUME RevisionInv, NEW p \in Reader, call[p].pc \in {"memset", "snprintf", "strnlen", "copy"}
  PROVE  /\ call[p] # Idle /\ GoodCall(reg, call[p])
         /\ reg \in [Lba -> RegisterSets] /\ CallsRight(reg, revision, call)
         /\ Chip(p) = ChipOf(reg, call[p].lba) /\ Own(p) = reg[call[p].lba].revision
         /\ Chip(p) \in Chips /\ revision[Chip(p)] \in Buffers
         /\ \A i \in 1 .. REVISION_SIZE : Printed(reg, Chip(p), i, revision[Chip(p)][i])
         /\ call[p].alone => Undisturbed(reg, call[p], revision[Chip(p)])
<1>1. call[p] # Idle
  BY DEF Idle
<1>2. reg \in [Lba -> RegisterSets] /\ CallsRight(reg, revision, call)
  BY DEF RevisionInv
<1>3. GoodCall(reg, call[p])
  BY <1>1, <1>2 DEF CallsRight
<1>4. Chip(p) = ChipOf(reg, call[p].lba) /\ Own(p) = reg[call[p].lba].revision
  BY DEF Chip, chip, ChipOf, Own
<1>5. Chip(p) \in Chips
  BY <1>2, <1>3, <1>4, RegisterFacts DEF GoodCall
<1> QED
  BY <1>1, <1>2, <1>3, <1>4, <1>5 DEF CallsRight

\* A call goes on to new and leaves b in its buffer.
LEMMA GoesOn ==
  ASSUME RevisionInv, NEW p \in Reader,
         call[p].pc \in {"memset", "snprintf", "strnlen", "copy"},
         UNCHANGED <<reg, result>>,
         NEW new, call' = [call EXCEPT ![p] = new],
         GoodCall(reg, new), new.lba = call[p].lba, new.alone = call[p].alone,
         NEW b \in Buffers, revision' = [revision EXCEPT ![Chip(p)] = b],
         \A i \in 1 .. REVISION_SIZE : Printed(reg, Chip(p), i, b[i]),
         new.alone => Undisturbed(reg, new, b)
  PROVE  RevisionInv'
<1>1. PICK R, V, C, k : R = reg /\ V = revision /\ C = call /\ k = Chip(p)
  OBVIOUS
<1>2. /\ R \in [Lba -> RegisterSets] /\ CallsRight(R, V, C) /\ C[p] # Idle
      /\ k = ChipOf(R, C[p].lba)
  BY <1>1, InCall
<1>3. CallsRight(R, [V EXCEPT ![k] = b], [C EXCEPT ![p] = new])
  <2>1. /\ GoodCall(R, new) /\ new.lba = C[p].lba /\ new.alone = C[p].alone
        /\ \A i \in 1 .. REVISION_SIZE : Printed(R, k, i, b[i])
        /\ new.alone => Undisturbed(R, new, b)
    BY <1>1
  <2> QED
    BY <1>2, <2>1, StepKeeps
<1>4. CallsRight(reg', revision', call')
  BY <1>1, <1>3
<1> QED
  BY <1>4 DEF RevisionInv

LEMMA MemsetKeeps ==
  ASSUME RevisionInv, NEW p \in Reader, memset(p)
  PROVE  RevisionInv'
<1> DEFINE Fields3 == {"pc", "lba", "at", "len", "text", "alone"}
<1>1. /\ call[p].pc = "memset" /\ UNCHANGED <<reg, result>>
      /\ revision' = [revision EXCEPT ![Chip(p)][call[p].at] = Nul]
      /\ call' = [call EXCEPT ![p] =
           IF call[p].at < REVISION_SIZE THEN [call[p] EXCEPT !.at = call[p].at + 1]
           ELSE [call[p] EXCEPT !.pc = "snprintf", !.at = 1]]
  <2>1. call[p].pc = "memset" /\ UNCHANGED <<reg, result>>
    BY DEF memset
  <2>2. revision' = [revision EXCEPT ![Chip(p)][call[p].at] = Nul]
    BY DEF memset
  <2>3. call' = [call EXCEPT ![p] =
           IF call[p].at < REVISION_SIZE THEN [call[p] EXCEPT !.at = call[p].at + 1]
           ELSE [call[p] EXCEPT !.pc = "snprintf", !.at = 1]]
    BY DEF memset
  <2> QED
    BY <2>1, <2>2, <2>3
<1>2. PICK c, b, k : c = call[p] /\ b = revision[Chip(p)] /\ k = Chip(p)
  OBVIOUS
<1>3. /\ GoodCall(reg, c) /\ k = ChipOf(reg, c.lba) /\ k \in Chips /\ b \in Buffers
      /\ reg \in [Lba -> RegisterSets]
      /\ \A i \in 1 .. REVISION_SIZE : Printed(reg, k, i, b[i])
      /\ c.alone => Undisturbed(reg, c, b)
  BY <1>1, <1>2, InCall
<1>4. REVISION_SIZE \in Nat /\ REVISION_SIZE > 0
  BY DEF REVISION_SIZE
<1>5. c.at \in 1 .. REVISION_SIZE /\ c.pc = "memset" /\ DOMAIN c = Fields3
  BY <1>1, <1>2, <1>3, <1>4 DEF GoodCall
<1> DEFINE new == IF c.at < REVISION_SIZE THEN [c EXCEPT !.at = c.at + 1]
                  ELSE [c EXCEPT !.pc = "snprintf", !.at = 1]
           now == [b EXCEPT ![c.at] = Nul]
<1>6. /\ DOMAIN new = Fields3 /\ new.lba = c.lba /\ new.alone = c.alone
      /\ new.len = c.len /\ new.text = c.text
      /\ c.at < REVISION_SIZE => new.pc = "memset" /\ new.at = c.at + 1
      /\ c.at = REVISION_SIZE => new.pc = "snprintf" /\ new.at = 1
  BY <1>5
<1>7. /\ now \in Buffers /\ now[c.at] = Nul
      /\ \A i \in 1 .. REVISION_SIZE : i # c.at => now[i] = b[i]
  BY <1>3, <1>5 DEF Buffers
<1> HIDE DEF new, now
<1>8. GoodCall(reg, new)
  BY <1>3, <1>4, <1>5, <1>6, RegisterFacts DEF GoodCall
<1>9. \A i \in 1 .. REVISION_SIZE : Printed(reg, k, i, now[i])
  BY <1>3, <1>7 DEF Printed
<1>10. ASSUME new.alone
       PROVE  Undisturbed(reg, new, now)
  <2>1. \A i \in 1 .. (c.at - 1) : b[i] = Nul
    BY <1>3, <1>5, <1>6, <1>10 DEF Undisturbed
  <2>2. \A i \in 1 .. c.at : now[i] = Nul
    BY <1>4, <1>5, <1>7, <2>1
  <2> QED
    BY <1>4, <1>5, <1>6, <2>2 DEF Undisturbed
<1>11. call' = [call EXCEPT ![p] = new]
  BY <1>1, <1>2 DEF new
<1>12. revision' = [revision EXCEPT ![Chip(p)] = now]
  BY <1>1, <1>2 DEF now
<1> QED
  BY <1>1, <1>2, <1>6, <1>7, <1>8, <1>9, <1>10, <1>11, <1>12, GoesOn

LEMMA SnprintfKeeps ==
  ASSUME RevisionInv, NEW p \in Reader, snprintf(p)
  PROVE  RevisionInv'
<1> DEFINE Fields3 == {"pc", "lba", "at", "len", "text", "alone"}
<1>1. /\ call[p].pc = "snprintf" /\ UNCHANGED <<reg, result>>
      /\ revision' = [revision EXCEPT ![Chip(p)][call[p].at] =
           IF call[p].at <= Len(Own(p)) THEN Own(p)[call[p].at] ELSE Nul]
      /\ call' = [call EXCEPT ![p] =
           IF call[p].at <= Len(Own(p)) THEN [call[p] EXCEPT !.at = call[p].at + 1]
           ELSE [call[p] EXCEPT !.pc = "strnlen"]]
  BY DEF snprintf, AfterByte, NextByte
<1>2. PICK c, b, k, own : c = call[p] /\ b = revision[Chip(p)] /\ k = Chip(p) /\ own = Own(p)
  OBVIOUS
<1>3. /\ GoodCall(reg, c) /\ k = ChipOf(reg, c.lba) /\ k \in Chips /\ b \in Buffers
      /\ reg \in [Lba -> RegisterSets] /\ own = reg[c.lba].revision
      /\ \A i \in 1 .. REVISION_SIZE : Printed(reg, k, i, b[i])
      /\ c.alone => Undisturbed(reg, c, b)
  BY <1>1, <1>2, InCall
<1>4. REVISION_SIZE \in Nat /\ REVISION_SIZE > 0
  BY DEF REVISION_SIZE
<1>5. /\ Len(own) \in Nat /\ Len(own) < REVISION_SIZE
      /\ \A i \in 1 .. Len(own) : own[i] \in RevisionChars /\ own[i] # Nul
      /\ c.lba \in Lba
  BY <1>3, RegisterFacts DEF GoodCall
<1>6. /\ c.at \in 1 .. (Len(own) + 1) /\ c.pc = "snprintf" /\ DOMAIN c = Fields3
      /\ c.len = 0 /\ c.text = << >>
  BY <1>1, <1>2, <1>3, <1>5 DEF GoodCall
<1> DEFINE new == IF c.at <= Len(own) THEN [c EXCEPT !.at = c.at + 1]
                  ELSE [c EXCEPT !.pc = "strnlen"]
           byte == IF c.at <= Len(own) THEN own[c.at] ELSE Nul
           now == [b EXCEPT ![c.at] = byte]
<1>7. /\ DOMAIN new = Fields3 /\ new.lba = c.lba /\ new.alone = c.alone
      /\ new.len = c.len /\ new.text = c.text
      /\ c.at <= Len(own) => new.pc = "snprintf" /\ new.at = c.at + 1
      /\ c.at = Len(own) + 1 => new.pc = "strnlen" /\ new.at = c.at
  BY <1>5, <1>6
<1>8. byte \in RevisionChars \cup {Nul} /\ Printed(reg, k, c.at, byte)
  BY <1>3, <1>5, <1>6 DEF Printed
<1> HIDE DEF byte
<1>9. /\ now \in Buffers /\ now[c.at] = byte
      /\ \A i \in 1 .. REVISION_SIZE : i # c.at => now[i] = b[i]
  BY <1>3, <1>4, <1>5, <1>6, <1>8 DEF Buffers
<1> HIDE DEF new, now
<1>10. GoodCall(reg, new)
  BY <1>3, <1>4, <1>5, <1>6, <1>7 DEF GoodCall
<1>11. \A i \in 1 .. REVISION_SIZE : Printed(reg, k, i, now[i])
  BY <1>3, <1>8, <1>9
<1>12. ASSUME new.alone
       PROVE  Undisturbed(reg, new, now)
  <2>1. \A i \in 1 .. REVISION_SIZE : b[i] = IF i < c.at THEN own[i] ELSE Nul
    BY <1>3, <1>6, <1>7, <1>12 DEF Undisturbed
  <2>2. CASE c.at <= Len(own)
    <3>1. \A i \in 1 .. REVISION_SIZE : now[i] = IF i < c.at + 1 THEN own[i] ELSE Nul
      BY <1>4, <1>5, <1>6, <1>9, <2>1, <2>2 DEF byte
    <3> QED
      BY <1>3, <1>7, <2>2, <3>1 DEF Undisturbed
  <2>3. CASE c.at = Len(own) + 1
    <3>1. \A i \in 1 .. REVISION_SIZE : now[i] = IF i <= Len(own) THEN own[i] ELSE Nul
      BY <1>4, <1>5, <1>6, <1>9, <2>1, <2>3 DEF byte
    <3> QED
      BY <1>3, <1>5, <1>6, <1>7, <2>3, <3>1 DEF Undisturbed
  <2> QED
    BY <1>5, <1>6, <2>2, <2>3
<1>13. call' = [call EXCEPT ![p] = new]
  BY <1>1, <1>2 DEF new
<1>14. revision' = [revision EXCEPT ![Chip(p)] = now]
  BY <1>1, <1>2 DEF now, byte
<1> QED
  BY <1>1, <1>2, <1>7, <1>9, <1>10, <1>11, <1>12, <1>13, <1>14, GoesOn

LEMMA StrnlenKeeps ==
  ASSUME RevisionInv, NEW p \in Reader, strnlen(p)
  PROVE  RevisionInv'
<1>1. /\ call[p].pc = "strnlen" /\ UNCHANGED <<reg, result, revision>>
      /\ call' = [call EXCEPT ![p] =
           IF revision[Chip(p)][call[p].len + 1] # Nul
             THEN [call[p] EXCEPT !.len = call[p].len + 1]
             ELSE [call[p] EXCEPT !.pc = "copy"]]
  BY DEF strnlen
<1>2. PICK c, b, k, own : c = call[p] /\ b = revision[Chip(p)] /\ k = Chip(p) /\ own = Own(p)
  OBVIOUS
<1>3. /\ GoodCall(reg, c) /\ k = ChipOf(reg, c.lba) /\ k \in Chips /\ b \in Buffers
      /\ reg \in [Lba -> RegisterSets] /\ own = reg[c.lba].revision
      /\ \A i \in 1 .. REVISION_SIZE : Printed(reg, k, i, b[i])
      /\ c.alone => Undisturbed(reg, c, b)
  BY <1>1, <1>2, InCall
<1>4. REVISION_SIZE \in Nat /\ REVISION_SIZE > 0
  BY DEF REVISION_SIZE
<1>5. /\ Len(own) \in Nat /\ Len(own) < REVISION_SIZE
      /\ \A i \in 1 .. Len(own) : own[i] # Nul
      /\ c.lba \in Lba
  BY <1>3, RegisterFacts DEF GoodCall
<1>6. /\ c.pc = "strnlen" /\ c.text = << >> /\ c.len \in Nat
      /\ DOMAIN c = {"pc", "lba", "at", "len", "text", "alone"}
      /\ \A i \in 1 .. c.len : HasPlace(reg, k, i)
  BY <1>1, <1>2, <1>3 DEF GoodCall
\* The count stays within the buffer: its last byte is never a character.
<1>7. c.len + 1 \in 1 .. REVISION_SIZE
  <2>1. CASE c.len = 0
    BY <1>4, <2>1
  <2>2. CASE c.len > 0
    <3>1. HasPlace(reg, k, c.len)
      BY <1>6, <2>2
    <3>2. c.len < REVISION_SIZE
      BY <1>3, <1>4, <1>6, <3>1, RegisterFacts DEF HasPlace
    <3> QED
      BY <1>4, <1>6, <3>2
  <2> QED
    BY <1>6, <2>1, <2>2
<1> DEFINE new == IF b[c.len + 1] # Nul THEN [c EXCEPT !.len = c.len + 1]
                  ELSE [c EXCEPT !.pc = "copy"]
<1>8. /\ DOMAIN new = DOMAIN c /\ new.lba = c.lba /\ new.alone = c.alone
      /\ new.at = c.at /\ new.text = c.text
      /\ b[c.len + 1] # Nul => new.pc = "strnlen" /\ new.len = c.len + 1
      /\ b[c.len + 1] = Nul => new.pc = "copy" /\ new.len = c.len
  BY <1>6
<1> HIDE DEF new
<1>9. GoodCall(reg, new)
  <2>1. b[c.len + 1] # Nul => HasPlace(reg, k, c.len + 1)
    BY <1>3, <1>7 DEF Printed, HasPlace
  <2>2. new.len \in Nat /\ \A i \in 1 .. new.len : HasPlace(reg, k, i)
    BY <1>6, <1>8, <2>1
  <2> QED
    BY <1>3, <1>6, <1>8, <2>2 DEF GoodCall
<1>10. ASSUME new.alone
       PROVE  Undisturbed(reg, new, b)
  <2>1. /\ \A i \in 1 .. REVISION_SIZE : b[i] = IF i <= Len(own) THEN own[i] ELSE Nul
        /\ c.len <= Len(own)
    BY <1>3, <1>6, <1>8, <1>10 DEF Undisturbed
  <2>2. b[c.len + 1] # Nul <=> c.len + 1 <= Len(own)
    BY <1>5, <1>6, <1>7, <2>1
  <2> QED
    BY <1>3, <1>5, <1>6, <1>8, <2>1, <2>2 DEF Undisturbed
<1>11. call' = [call EXCEPT ![p] = new]
  BY <1>1, <1>2 DEF new
<1>12. revision' = [revision EXCEPT ![Chip(p)] = b]
  <2>1. revision = [j \in Chips |-> revision[j]]
    BY DEF RevisionInv, CallsRight
  <2> QED
    BY <1>1, <1>2, <2>1
<1>13. /\ UNCHANGED <<reg, result>> /\ call[p].pc = "strnlen"
       /\ \A i \in 1 .. REVISION_SIZE : Printed(reg, Chip(p), i, b[i])
  BY <1>1, <1>2, <1>3
<1> QED
  BY <1>2, <1>3, <1>8, <1>9, <1>10, <1>11, <1>12, <1>13, GoesOn

\* sprintf copies one more character.
LEMMA CopyKeeps ==
  ASSUME RevisionInv, NEW p \in Reader, sprintf(p), Len(call[p].text) < call[p].len
  PROVE  RevisionInv'
<1>1. /\ call[p].pc = "copy" /\ UNCHANGED <<reg, result, revision>>
      /\ call' = [call EXCEPT ![p] = [call[p] EXCEPT !.text =
           Append(call[p].text, revision[Chip(p)][Len(call[p].text) + 1])]]
  BY DEF sprintf
<1>2. PICK c, b, k, own : c = call[p] /\ b = revision[Chip(p)] /\ k = Chip(p) /\ own = Own(p)
  OBVIOUS
<1>3. /\ GoodCall(reg, c) /\ k = ChipOf(reg, c.lba) /\ k \in Chips /\ b \in Buffers
      /\ reg \in [Lba -> RegisterSets] /\ own = reg[c.lba].revision
      /\ \A i \in 1 .. REVISION_SIZE : Printed(reg, k, i, b[i])
      /\ c.alone => Undisturbed(reg, c, b)
  BY <1>1, <1>2, InCall
<1> DEFINE S == RevisionChars \cup {Nul}
           n == Len(c.text)
<1>4. /\ c.pc = "copy" /\ c.len \in Nat /\ c.text \in Seq(S) /\ n \in Nat /\ n < c.len
      /\ DOMAIN c = {"pc", "lba", "at", "len", "text", "alone"}
      /\ \A i \in 1 .. c.len : HasPlace(reg, k, i)
      /\ \A i \in 1 .. n : Printed(reg, k, i, c.text[i])
  BY <1>1, <1>2, <1>3 DEF GoodCall
<1>5. n + 1 \in 1 .. REVISION_SIZE
  <2>1. HasPlace(reg, k, n + 1)
    BY <1>4
  <2> QED
    BY <1>3, <1>4, <2>1, RegisterFacts DEF HasPlace, REVISION_SIZE
<1>6. b[n + 1] \in S
  BY <1>3, <1>5 DEF Buffers
<1> DEFINE text == Append(c.text, b[n + 1])
           new == [c EXCEPT !.text = text]
<1> HIDE DEF S, n
<1>7. /\ text \in Seq(S) /\ Len(text) = n + 1 /\ text[n + 1] = b[n + 1]
      /\ \A i \in 1 .. n : text[i] = c.text[i]
  BY <1>4, <1>6 DEF n
<1> HIDE DEF text
<1>8. /\ DOMAIN new = DOMAIN c /\ new.lba = c.lba /\ new.alone = c.alone /\ new.pc = "copy"
      /\ new.at = c.at /\ new.len = c.len /\ new.text = text
  BY <1>4
<1> HIDE DEF new
<1>9. \A i \in 1 .. (n + 1) : Printed(reg, k, i, text[i])
  BY <1>3, <1>4, <1>5, <1>7
<1>10. GoodCall(reg, new)
  BY <1>3, <1>4, <1>7, <1>8, <1>9 DEF GoodCall, S
<1>11. ASSUME new.alone
       PROVE  Undisturbed(reg, new, b)
  <2>1. /\ \A i \in 1 .. REVISION_SIZE : b[i] = IF i <= Len(own) THEN own[i] ELSE Nul
        /\ c.len = Len(own) /\ \A i \in 1 .. n : c.text[i] = own[i]
    BY <1>3, <1>4, <1>8, <1>11 DEF Undisturbed, n
  <2>2. \A i \in 1 .. (n + 1) : text[i] = own[i]
    BY <1>4, <1>5, <1>7, <2>1
  <2> QED
    BY <1>3, <1>4, <1>7, <1>8, <2>1, <2>2 DEF Undisturbed
<1>12. call' = [call EXCEPT ![p] = new]
  BY <1>1, <1>2 DEF new, text, n
<1>13. revision' = [revision EXCEPT ![Chip(p)] = b]
  <2>1. revision = [j \in Chips |-> revision[j]]
    BY DEF RevisionInv, CallsRight
  <2> QED
    BY <1>1, <1>2, <2>1
<1>14. /\ UNCHANGED <<reg, result>> /\ call[p].pc = "copy"
       /\ \A i \in 1 .. REVISION_SIZE : Printed(reg, Chip(p), i, b[i])
  BY <1>1, <1>2, <1>3
<1> QED
  BY <1>2, <1>3, <1>8, <1>10, <1>11, <1>12, <1>13, <1>14, GoesOn

\* revision_show returns.
LEMMA ReturnKeeps ==
  ASSUME RevisionInv, NEW p \in Reader, sprintf(p), ~(Len(call[p].text) < call[p].len)
  PROVE  RevisionInv'
<1> DEFINE new == [attr |-> "revision", lba |-> call[p].lba, text |-> call[p].text,
                   alone |-> call[p].alone]
<1>1. /\ call[p].pc = "copy" /\ UNCHANGED <<reg, revision>>
      /\ result' = [result EXCEPT ![p] = new]
      /\ call' = [call EXCEPT ![p] = Idle]
  BY DEF sprintf
<1>2. PICK c, b, k, own : c = call[p] /\ b = revision[Chip(p)] /\ k = Chip(p) /\ own = Own(p)
  OBVIOUS
<1>3. /\ GoodCall(reg, c) /\ k = ChipOf(reg, c.lba) /\ c # Idle
      /\ reg \in [Lba -> RegisterSets] /\ own = reg[c.lba].revision
      /\ CallsRight(reg, revision, call)
      /\ c.alone => Undisturbed(reg, c, b)
  BY <1>1, <1>2, InCall
<1>4. /\ c.pc = "copy" /\ c.lba \in Lba /\ c.text \in Seq(RevisionChars \cup {Nul})
      /\ Len(c.text) = c.len /\ DOMAIN c.text = 1 .. c.len
      /\ \A i \in 1 .. c.len : HasPlace(reg, k, i) /\ Printed(reg, k, i, c.text[i])
  BY <1>1, <1>2, <1>3 DEF GoodCall
<1>5. c.alone => c.text = own
  <2> SUFFICES ASSUME c.alone
               PROVE  c.text = own
    OBVIOUS
  <2>1. own \in Seq(RevisionChars)
    BY <1>3, <1>4, RegisterFacts
  <2>2. c.len = Len(own) /\ \A i \in 1 .. Len(c.text) : c.text[i] = own[i]
    BY <1>3, <1>4 DEF Undisturbed
  <2> QED
    BY <1>4, <2>1, <2>2
<1>6. new.attr = "revision" /\ new.lba = c.lba /\ new.text = c.text /\ new.alone = c.alone
  BY <1>2
<1> HIDE DEF new
<1>7. GoodResult(reg, new)
  <2>1. ASSUME NEW i \in DOMAIN c.text
        PROVE  \E m \in Lba : /\ ChipOf(reg, m) = k /\ i <= Len(reg[m].revision)
                              /\ c.text[i] \in {Nul, reg[m].revision[i]}
    BY <1>4, <2>1 DEF HasPlace, Printed
  <2> QED
    BY <1>3, <1>5, <1>6, <2>1 DEF GoodResult
<1>8. /\ DOMAIN result' = Reader /\ result'[p] = new
      /\ \A q \in Reader \ {p} : result'[q] = result[q]
  BY <1>1 DEF RevisionInv
<1>9. \A q \in Reader : GoodResult(reg, result'[q])
  BY <1>7, <1>8 DEF RevisionInv
<1>10. /\ DOMAIN call' = Reader /\ call'[p] = Idle
       /\ \A q \in Reader \ {p} : call'[q] = call[q]
  BY <1>1 DEF RevisionInv, CallsRight
<1>11. CallsRight(reg, revision, call')
  <2>1. ASSUME NEW q \in Reader, call'[q] # Idle
        PROVE  /\ GoodCall(reg, call'[q])
               /\ call'[q].alone =>
                    /\ Lone(reg, call', q)
                    /\ Undisturbed(reg, call'[q], revision[ChipOf(reg, call'[q].lba)])
    <3>1. q # p /\ call'[q] = call[q]
      BY <1>10, <2>1
    <3>2. \A r \in Reader : call'[r] # Idle => call'[r] = call[r]
      BY <1>10
    <3>3. GoodCall(reg, call[q]) /\ (call[q].alone =>
            Lone(reg, call, q) /\ Undisturbed(reg, call[q], revision[ChipOf(reg, call[q].lba)]))
      BY <1>3, <2>1, <3>1 DEF CallsRight
    <3>4. Lone(reg, call, q) => Lone(reg, call', q)
      BY <3>1, <3>2 DEF Lone
    <3> QED
      BY <3>1, <3>3, <3>4
  <2> QED
    BY <1>3, <1>10, <2>1 DEF CallsRight
<1> QED
  BY <1>1, <1>8, <1>9, <1>11 DEF RevisionInv

LEMMA RevisionKept ==
  ASSUME RevisionInv, [InfoNext]_infoVars
  PROVE  RevisionInv'
<1>1. ASSUME NEW p \in Reader, ReadBus(p)
      PROVE  RevisionInv'
  <2>1. PICK l \in Lba :
          result' = [result EXCEPT ![p] =
            [attr |-> "bus", lba |-> l, mode |-> BusMode(l), speed |-> BusSpeed(l),
             ropes |-> Ropes(l)]]
    BY <1>1 DEF ReadBus
  <2>2. UNCHANGED <<reg, revision, call>>
    BY <1>1 DEF ReadBus
  <2>3. /\ DOMAIN result' = Reader /\ result'[p].attr = "bus"
        /\ \A q \in Reader \ {p} : result'[q] = result[q]
    BY <2>1 DEF RevisionInv
  <2>4. \A q \in Reader : GoodResult(reg, result'[q])
    <3>1. GoodResult(reg, result'[p])
      BY <2>3 DEF GoodResult
    <3> QED
      BY <2>3, <3>1 DEF RevisionInv
  <2> QED
    BY <2>2, <2>3, <2>4 DEF RevisionInv
<1>2. ASSUME NEW p \in Reader,
             \/ revision_show(p) \/ memset(p) \/ snprintf(p) \/ strnlen(p) \/ sprintf(p)
      PROVE  RevisionInv'
  BY <1>2, BeginKeeps, MemsetKeeps, SnprintfKeeps, StrnlenKeeps, CopyKeeps, ReturnKeeps
<1>3. CASE UNCHANGED infoVars
  BY <1>3 DEF infoVars, RevisionInv
<1> QED
  BY <1>1, <1>2, <1>3 DEF InfoNext

\* With any number of bridges and readers, and every byte of the shared
\* buffers a step: a reader that nobody disturbs gets the whole revision of its
\* bridge, and the others never a character of another chipset, nor more
\* characters than a revision has (apollo_revision, gemini_revision,
\* mercury_revision, revision_show).
THEOREM RevisionTheorem == InfoSpec => []RevisionOfChipset
<1>1. InfoInit => RevisionInv
  BY RevisionInit
<1>2. RevisionInv /\ [InfoNext]_infoVars => RevisionInv'
  BY RevisionKept
<1>3. RevisionInv => RevisionOfChipset
  BY DEF RevisionInv, RevisionOfChipset, GoodResult, ChipOf, chip
<1> QED
  BY <1>1, <1>2, <1>3, PTL DEF InfoSpec

-----------------------------------------------------------------------------
(* Names on their way through the tables.                                  *)

\* A text matches an entry only when it is the entry.
LEMMA MatchesIsEqual ==
  ASSUME NEW S, NEW entry \in Seq(S), NEW text \in Seq(S)
  PROVE  Matches(entry, text) <=> entry = text
<1>1. Matches(entry, text) => entry = text
  BY DEF Matches, IsPrefix
<1>2. Matches(entry, entry)
  BY DEF Matches, IsPrefix
<1> QED
  BY <1>1, <1>2

\* A table whose names match themselves alone, and whose values are
\* different, gives a name back.
LEMMA TableSurvives ==
  ASSUME NEW tab, NEW unk \in Nat,
         \A i, j \in 1..(unk + 1) : Matches(tab.name[i], tab.name[j]) <=> i = j,
         \A i, j \in 1..(unk + 1) : tab.value[i] = tab.value[j] => i = j,
         NEW k \in 1..(unk + 1)
  PROVE  ToStr(tab, unk, ToValue(tab, unk, tab.name[k])) = tab.name[k]
<1>1. {i \in 1..(unk + 1) : Matches(tab.name[i], tab.name[k])} = {k}
  OBVIOUS
<1>2. {i \in 1..(unk + 1) : tab.value[i] = tab.value[k]} = {k}
  OBVIOUS
<1>3. Min({k}) = k
  BY DEF Min
<1>4. ToValue(tab, unk, tab.name[k]) = tab.value[k]
  BY <1>1, <1>3 DEF ToValue
<1> QED
  BY <1>2, <1>3, <1>4 DEF ToStr

LEMMA OneIsSeq ==
  ASSUME NEW S, NEW x \in S
  PROVE  <<x>> \in Seq(S) /\ Len(<<x>>) = 1 /\ <<x>>[1] = x
  OBVIOUS

LEMMA TwoIsSeq ==
  ASSUME NEW S, NEW x \in S, NEW y \in S
  PROVE  <<x, y>> \in Seq(S) /\ Len(<<x, y>>) = 2 /\ <<x, y>>[1] = x /\ <<x, y>>[2] = y
  OBVIOUS

ModeWords ==
  {"unknown", "AGP", "PCI", "mode_1_ECC", "-X_mode_1", "-X_mode_2_ECC", "e"}

\* The names of the modes are different: they have not the same number of
\* parts, or differ in the last.
LEMMA ModesDiffer ==
  /\ Unknown \in Seq(ModeWords) /\ AGP \in Seq(ModeWords)
  /\ PCI \in Seq(ModeWords) /\ PCI_X_ECC \in Seq(ModeWords)
  /\ PCI_X \in Seq(ModeWords) /\ PCI_X2 \in Seq(ModeWords) /\ PCIE \in Seq(ModeWords)
  /\ Unknown \notin {AGP, PCI, PCI_X, PCI_X_ECC, PCI_X2, PCIE}
  /\ AGP \notin {PCI, PCI_X, PCI_X_ECC, PCI_X2, PCIE}
  /\ PCI \notin {PCI_X, PCI_X_ECC, PCI_X2, PCIE}
  /\ PCI_X \notin {PCI_X_ECC, PCI_X2, PCIE}
  /\ PCI_X_ECC \notin {PCI_X2, PCIE}
  /\ PCI_X2 # PCIE
<1>1. /\ Len(Unknown) = 1 /\ Unknown[1] = "unknown" /\ Len(AGP) = 1 /\ AGP[1] = "AGP"
      /\ Len(PCI) = 1 /\ PCI[1] = "PCI" /\ Len(PCI_X_ECC) = 1 /\ PCI_X_ECC[1] = "mode_1_ECC"
      /\ Len(PCI_X) = 2 /\ PCI_X[2] = "-X_mode_1" /\ Len(PCI_X2) = 2
      /\ PCI_X2[2] = "-X_mode_2_ECC" /\ Len(PCIE) = 2 /\ PCIE[2] = "e"
  BY DEF Unknown, AGP, PCI, PCI_X, PCI_X_ECC, PCI_X2, PCIE
<1>2. /\ Unknown \in Seq(ModeWords) /\ AGP \in Seq(ModeWords)
      /\ PCI \in Seq(ModeWords) /\ PCI_X_ECC \in Seq(ModeWords)
  BY DEF ModeWords, Unknown, AGP, PCI, PCI_X_ECC
<1>3. PCI_X \in Seq(ModeWords) /\ PCI_X2 \in Seq(ModeWords) /\ PCIE \in Seq(ModeWords)
  BY DEF ModeWords, PCI_X, PCI_X2, PCIE
<1> QED
  BY <1>1, <1>2, <1>3

LEMMA ModeSurvives ==
  ASSUME NEW k \in 1..7
  PROVE  ShownMode(PcitopModes.name[k]) = PcitopModes.name[k]
<1> DEFINE tab == PcitopModes
<1>1. /\ tab.name[1] = Unknown /\ tab.name[2] = AGP /\ tab.name[3] = PCI
      /\ tab.name[4] = PCI_X /\ tab.name[5] = PCI_X_ECC /\ tab.name[6] = PCI_X2
      /\ tab.name[7] = PCIE
  BY DEF PcitopModes
<1>2. tab.value[1] = 6 /\ \A i \in 2..7 : tab.value[i] = i - 2
  BY DEF PcitopModes, LBA_UNK_TYPE
<1>3. LBA_UNK_TYPE \in Nat /\ LBA_UNK_TYPE + 1 = 7
  BY DEF LBA_UNK_TYPE
<1> HIDE DEF tab
<1>4. \A i \in 1..7 : tab.name[i] \in Seq(ModeWords)
  BY <1>1, ModesDiffer
<1>5. \A i, j \in 1..7 : tab.name[i] = tab.name[j] => i = j
  <2> DEFINE word(i) == IF Len(tab.name[i]) = 1 THEN tab.name[i][1] ELSE tab.name[i][2]
  <2>1. /\ Len(Unknown) = 1 /\ Unknown[1] = "unknown" /\ Len(AGP) = 1 /\ AGP[1] = "AGP"
        /\ Len(PCI) = 1 /\ PCI[1] = "PCI" /\ Len(PCI_X_ECC) = 1
        /\ PCI_X_ECC[1] = "mode_1_ECC" /\ Len(PCI_X) = 2 /\ PCI_X[2] = "-X_mode_1"
        /\ Len(PCI_X2) = 2 /\ PCI_X2[2] = "-X_mode_2_ECC" /\ Len(PCIE) = 2 /\ PCIE[2] = "e"
    BY DEF Unknown, AGP, PCI, PCI_X, PCI_X_ECC, PCI_X2, PCIE
  <2>2. /\ word(1) = "unknown" /\ word(2) = "AGP" /\ word(3) = "PCI" /\ word(4) = "-X_mode_1"
        /\ word(5) = "mode_1_ECC" /\ word(6) = "-X_mode_2_ECC" /\ word(7) = "e"
    BY <1>1, <2>1
  <2>3. \A i, j \in 1..7 : tab.name[i] = tab.name[j] => word(i) = word(j)
    OBVIOUS
  <2> HIDE DEF word
  <2>4. \A i, j \in 1..7 : word(i) = word(j) => i = j
    BY <2>2
  <2> QED
    BY <2>3, <2>4
<1>6. \A i, j \in 1..7 : tab.value[i] = tab.value[j] => i = j
  BY <1>2
<1>7. \A i, j \in 1..7 : Matches(tab.name[i], tab.name[j]) <=> i = j
  <2> SUFFICES ASSUME NEW i \in 1..7, NEW j \in 1..7
               PROVE  Matches(tab.name[i], tab.name[j]) <=> i = j
    OBVIOUS
  <2>1. Matches(tab.name[i], tab.name[j]) <=> tab.name[i] = tab.name[j]
    <3>1. tab.name[i] \in Seq(ModeWords) /\ tab.name[j] \in Seq(ModeWords)
      BY <1>4
    <3> QED
      BY <3>1, MatchesIsEqual, Zenon
  <2> QED
    BY <2>1, <1>5
<1> DEFINE unk == LBA_UNK_TYPE
<1>8. /\ unk \in Nat /\ k \in 1..(unk + 1)
      /\ \A i, j \in 1..(unk + 1) : Matches(tab.name[i], tab.name[j]) <=> i = j
      /\ \A i, j \in 1..(unk + 1) : tab.value[i] = tab.value[j] => i = j
  BY <1>3, <1>6, <1>7
<1> HIDE DEF unk
<1>9. ToStr(tab, unk, ToValue(tab, unk, tab.name[k])) = tab.name[k]
  BY <1>8, TableSurvives
<1> QED
  BY <1>9 DEF ShownMode, tab, unk

SpeedWord ==
  <<"unknown", "66_MHz", "100_MHz", "133_MHz", "266_MHz", "x1", "x2", "x4", "x8", "1x", "2x",
    "4x">>

LEMMA SpeedsDiffer == \A i, j \in 1..12 : SpeedWord[i] = SpeedWord[j] => i = j
<1>1. /\ SpeedWord[1] = "unknown" /\ SpeedWord[2] = "66_MHz" /\ SpeedWord[3] = "100_MHz"
      /\ SpeedWord[4] = "133_MHz" /\ SpeedWord[5] = "266_MHz" /\ SpeedWord[6] = "x1"
      /\ SpeedWord[7] = "x2" /\ SpeedWord[8] = "x4" /\ SpeedWord[9] = "x8"
      /\ SpeedWord[10] = "1x" /\ SpeedWord[11] = "2x" /\ SpeedWord[12] = "4x"
  BY DEF SpeedWord
<1> QED
  BY <1>1, SMTT(60)

LEMMA SpeedSurvives ==
  ASSUME NEW k \in 1..12
  PROVE  ShownSpeed(PcitopSpeeds.name[k]) = PcitopSpeeds.name[k]
<1> DEFINE tab == PcitopSpeeds
           words == {SpeedWord[i] : i \in 1..12}
<1>1. /\ tab.name[1] = <<SpeedWord[1]>> /\ tab.name[2] = <<SpeedWord[2]>>
      /\ tab.name[3] = <<SpeedWord[3]>> /\ tab.name[4] = <<SpeedWord[4]>>
      /\ tab.name[5] = <<SpeedWord[5]>> /\ tab.name[6] = <<SpeedWord[6]>>
      /\ tab.name[7] = <<SpeedWord[7]>> /\ tab.name[8] = <<SpeedWord[8]>>
      /\ tab.name[9] = <<SpeedWord[9]>> /\ tab.name[10] = <<SpeedWord[10]>>
      /\ tab.name[11] = <<SpeedWord[11]>> /\ tab.name[12] = <<SpeedWord[12]>>
  BY DEF PcitopSpeeds, Unknown, SpeedWord
<1>2. tab.value[1] = 11 /\ \A i \in 2..12 : tab.value[i] = i - 2
  BY DEF PcitopSpeeds, LBA_UNK_SPEED
<1>3. LBA_UNK_SPEED \in Nat /\ LBA_UNK_SPEED + 1 = 12
  BY DEF LBA_UNK_SPEED
<1> HIDE DEF tab
<1>4. \A i \in 1..12 : tab.name[i] = <<SpeedWord[i]>> /\ SpeedWord[i] \in words
  BY <1>1
<1>5. \A i \in 1..12 : tab.name[i] \in Seq(words) /\ tab.name[i][1] = SpeedWord[i]
  <2> SUFFICES ASSUME NEW i \in 1..12
               PROVE  tab.name[i] \in Seq(words) /\ tab.name[i][1] = SpeedWord[i]
    OBVIOUS
  <2> HIDE DEF words
  <2> QED
    BY <1>4, OneIsSeq
<1> HIDE DEF words
<1>6. \A i, j \in 1..12 : tab.name[i] = tab.name[j] => i = j
  BY <1>5, SpeedsDiffer
<1>7. \A i, j \in 1..12 : tab.value[i] = tab.value[j] => i = j
  BY <1>2
<1>8. \A i, j \in 1..12 : Matches(tab.name[i], tab.name[j]) <=> i = j
  <2> SUFFICES ASSUME NEW i \in 1..12, NEW j \in 1..12
               PROVE  Matches(tab.name[i], tab.name[j]) <=> i = j
    OBVIOUS
  <2>1. Matches(tab.name[i], tab.name[j]) <=> tab.name[i] = tab.name[j]
    <3>1. tab.name[i] \in Seq(words) /\ tab.name[j] \in Seq(words)
      BY <1>5
    <3> QED
      BY <3>1, MatchesIsEqual, Zenon
  <2> QED
    BY <2>1, <1>6
<1> DEFINE unk == LBA_UNK_SPEED
<1>9. /\ unk \in Nat /\ k \in 1..(unk + 1)
      /\ \A i, j \in 1..(unk + 1) : Matches(tab.name[i], tab.name[j]) <=> i = j
      /\ \A i, j \in 1..(unk + 1) : tab.value[i] = tab.value[j] => i = j
  BY <1>3, <1>7, <1>8
<1> HIDE DEF unk
<1>10. ToStr(tab, unk, ToValue(tab, unk, tab.name[k])) = tab.name[k]
  BY <1>9, TableSurvives
<1> QED
  BY <1>10 DEF ShownSpeed, tab, unk

-----------------------------------------------------------------------------
(* What the chipsets decode.                                               *)

\* A mode and a speed that fit, and are found in the tables of pcitop.
Fits(m, s) ==
  /\ s \in SpeedsOf(m)
  /\ m \in {PcitopModes.name[k] : k \in 1..7}
  /\ s \in {PcitopSpeeds.name[k] : k \in 1..12}

LEMMA FitsTable ==
  /\ Fits(PCI, <<"66_MHz">>)
  /\ \A t \in {"66_MHz", "100_MHz", "133_MHz"} : Fits(PCI_X, <<t>>)
  /\ \A t \in {"66_MHz", "133_MHz"} : Fits(PCI_X_ECC, <<t>>)
  /\ \A t \in {"133_MHz", "266_MHz"} : Fits(PCI_X2, <<t>>)
  /\ \A t \in {"x1", "x2", "x4", "x8"} : Fits(PCIE, <<t>>)
  /\ \A t \in {"1x", "2x", "4x", "unknown"} : Fits(AGP, <<t>>)
<1>1. \A m \in {PCI, PCI_X, PCI_X_ECC, PCI_X2, PCIE, AGP} :
        m \in {PcitopModes.name[k] : k \in 1..7}
  <2>1. /\ PcitopModes.name[2] = AGP /\ PcitopModes.name[3] = PCI
        /\ PcitopModes.name[4] = PCI_X /\ PcitopModes.name[5] = PCI_X_ECC
        /\ PcitopModes.name[6] = PCI_X2 /\ PcitopModes.name[7] = PCIE
    BY DEF PcitopModes
  <2> QED
    BY <2>1
<1>2. \A t \in {"66_MHz", "100_MHz", "133_MHz", "266_MHz", "x1", "x2", "x4", "x8", "1x", "2x",
                "4x", "unknown"} :
        <<t>> \in {PcitopSpeeds.name[k] : k \in 1..12}
  <2>1. /\ PcitopSpeeds.name[1] = <<"unknown">> /\ PcitopSpeeds.name[2] = <<"66_MHz">>
        /\ PcitopSpeeds.name[3] = <<"100_MHz">> /\ PcitopSpeeds.name[4] = <<"133_MHz">>
        /\ PcitopSpeeds.name[5] = <<"266_MHz">> /\ PcitopSpeeds.name[6] = <<"x1">>
        /\ PcitopSpeeds.name[7] = <<"x2">> /\ PcitopSpeeds.name[8] = <<"x4">>
        /\ PcitopSpeeds.name[9] = <<"x8">> /\ PcitopSpeeds.name[10] = <<"1x">>
        /\ PcitopSpeeds.name[11] = <<"2x">> /\ PcitopSpeeds.name[12] = <<"4x">>
    BY DEF PcitopSpeeds, Unknown
  <2> QED
    BY <2>1
<1>3. SpeedsOf(PCI) = {<<t>> : t \in {"66_MHz"}}
  BY ModesDiffer DEF SpeedsOf
<1>4. SpeedsOf(PCI_X) = {<<t>> : t \in {"66_MHz", "100_MHz", "133_MHz"}}
  BY ModesDiffer DEF SpeedsOf
<1>5. SpeedsOf(PCI_X_ECC) = {<<t>> : t \in {"66_MHz", "133_MHz"}}
  BY ModesDiffer DEF SpeedsOf
<1>6. SpeedsOf(PCI_X2) = {<<t>> : t \in {"133_MHz", "266_MHz"}}
  BY ModesDiffer DEF SpeedsOf
<1>7. SpeedsOf(PCIE) = {<<t>> : t \in {"x1", "x2", "x4", "x8"}}
  BY ModesDiffer DEF SpeedsOf
<1>8. SpeedsOf(AGP) = {<<t>> : t \in {"1x", "2x", "4x", "unknown"}}
  BY ModesDiffer DEF SpeedsOf
<1>9. Fits(PCI, <<"66_MHz">>)
  BY <1>1, <1>2, <1>3 DEF Fits
<1>10. \A t \in {"66_MHz", "100_MHz", "133_MHz"} : Fits(PCI_X, <<t>>)
  BY <1>1, <1>2, <1>4 DEF Fits
<1>11. \A t \in {"66_MHz", "133_MHz"} : Fits(PCI_X_ECC, <<t>>)
  BY <1>1, <1>2, <1>5 DEF Fits
<1>12. \A t \in {"133_MHz", "266_MHz"} : Fits(PCI_X2, <<t>>)
  BY <1>1, <1>2, <1>6 DEF Fits
<1>13. \A t \in {"x1", "x2", "x4", "x8"} : Fits(PCIE, <<t>>)
  BY <1>1, <1>2, <1>7 DEF Fits
<1>14. \A t \in {"1x", "2x", "4x", "unknown"} : Fits(AGP, <<t>>)
  BY <1>1, <1>2, <1>8 DEF Fits
<1> QED
  BY <1>9, <1>10, <1>11, <1>12, <1>13, <1>14

\* The driver's tables, entry by entry.
LEMMA DriverTables ==
  /\ DriverModes[1] = AGP /\ DriverModes[2] = PCI /\ DriverModes[3] = PCI_X
  /\ DriverModes[4] = PCI_X_ECC /\ DriverModes[5] = PCI_X2 /\ DriverModes[6] = PCIE
  /\ DriverSpeeds[1] = <<"66_MHz">> /\ DriverSpeeds[2] = <<"100_MHz">>
  /\ DriverSpeeds[3] = <<"133_MHz">> /\ DriverSpeeds[4] = <<"266_MHz">>
  /\ DriverSpeeds[5] = <<"x1">> /\ DriverSpeeds[6] = <<"x2">> /\ DriverSpeeds[7] = <<"x4">>
  /\ DriverSpeeds[8] = <<"x8">> /\ DriverSpeeds[9] = <<"1x">> /\ DriverSpeeds[10] = <<"2x">>
  /\ DriverSpeeds[11] = <<"4x">> /\ DriverSpeeds[12] = <<"unknown">>
  BY DEF DriverModes, DriverSpeeds, Unknown

LEMMA ApolloFits ==
  ASSUME NEW r, r.max_link_width \in 0..3
  PROVE  Fits(apollo_bus_op_mode(r), apollo_bus_speed(r))
<1>1. apollo_bus_op_mode(r) = PCIE
  BY DriverTables DEF apollo_bus_op_mode
<1>2. PICK w \in 0..3 : r.max_link_width = w
  OBVIOUS
<1>3. apollo_bus_speed(r) = DriverSpeeds[<<7, 4, 5, 6>>[w + 1] + 1]
  BY <1>2 DEF apollo_bus_speed
<1>4. \E t \in {"x1", "x2", "x4", "x8"} : apollo_bus_speed(r) = <<t>>
  <2>1. CASE w = 0
    BY <1>3, <2>1, DriverTables
  <2>2. CASE w = 1
    BY <1>3, <2>2, DriverTables
  <2>3. CASE w = 2
    BY <1>3, <2>3, DriverTables
  <2>4. CASE w = 3
    BY <1>3, <2>4, DriverTables
  <2> QED
    BY <2>1, <2>2, <2>3, <2>4
<1> QED
  BY <1>1, <1>4, FitsTable

LEMMA GeminiFits ==
  ASSUME NEW r, r.bus_op_mode \in 0..7
  PROVE  Fits(gemini_bus_op_mode(r), gemini_bus_speed(r))
<1>1. PICK w \in 0..7 : r.bus_op_mode = w
  OBVIOUS
<1>2. /\ gemini_bus_op_mode(r) = DriverModes[<<1, 2, 2, 2, 3, 3, 4, 4>>[w + 1] + 1]
      /\ gemini_bus_speed(r) = DriverSpeeds[<<0, 1, 0, 2, 0, 2, 2, 3>>[w + 1] + 1]
  BY <1>1 DEF gemini_bus_op_mode, gemini_bus_speed
<1>3. CASE w = 0
  BY <1>2, <1>3, DriverTables, FitsTable
<1>4. CASE w \in {1, 2, 3}
  BY <1>2, <1>4, DriverTables, FitsTable
<1>5. CASE w \in {4, 5}
  BY <1>2, <1>5, DriverTables, FitsTable
<1>6. CASE w \in {6, 7}
  BY <1>2, <1>6, DriverTables, FitsTable
<1> QED
  BY <1>3, <1>4, <1>5, <1>6

LEMMA MercuryFits ==
  ASSUME NEW r, r.bus_op_mode \in 0..7
  PROVE  Fits(mercury_bus_op_mode(r), mercury_bus_speed(r))
<1>1. CASE r.agp_bus_mode = 0
  <2>1. PICK w \in 0..3 : TwoBits(r.bus_op_mode) = w
    BY DEF TwoBits
  <2>2. /\ mercury_bus_op_mode(r) = DriverModes[<<1, 2, 2, 2>>[w + 1] + 1]
        /\ mercury_bus_speed(r) = DriverSpeeds[<<0, 1, 0, 2>>[w + 1] + 1]
    BY <1>1, <2>1 DEF mercury_bus_op_mode, mercury_bus_speed
  <2>3. CASE w = 0
    BY <2>2, <2>3, DriverTables, FitsTable
  <2>4. CASE w \in {1, 2, 3}
    BY <2>2, <2>4, DriverTables, FitsTable
  <2> QED
    BY <2>3, <2>4
<1>2. CASE r.agp_bus_mode # 0
  <2>1. mercury_bus_op_mode(r) = AGP
    BY <1>2, DriverTables DEF mercury_bus_op_mode
  <2>2. CASE r.agp_data_rate \in {1, 2, 4}
    <3>1. PICK w \in {1, 2, 4} : r.agp_data_rate = w
      BY <2>2
    <3>2. mercury_bus_speed(r) = DriverSpeeds[<<8, 9, 0, 10>>[w] + 1]
      BY <1>2, <3>1 DEF mercury_bus_speed
    <3> QED
      BY <2>1, <3>2, DriverTables, FitsTable
  <2>3. CASE r.agp_data_rate \notin {1, 2, 4}
    <3>1. mercury_bus_speed(r) = DriverSpeeds[12]
      BY <1>2, <2>3 DEF mercury_bus_speed, LBA_UNK_SPEED
    <3> QED
      BY <2>1, <3>1, DriverTables, FitsTable
  <2> QED
    BY <2>2, <2>3
<1> QED
  BY <1>1, <1>2

LEMMA BridgeFits ==
  ASSUME NEW l \in Lba, reg[l] \in RegisterSets
  PROVE  Fits(BusMode(l), BusSpeed(l))
<1>1. /\ chip(l) \in {"apollo", "gemini", "mercury"}
      /\ reg[l].max_link_width \in 0..3 /\ reg[l].bus_op_mode \in 0..7
  BY ChipInfoAssumption DEF chip, Chips
<1>2. CASE chip(l) = "apollo"
  BY <1>1, <1>2, ApolloFits DEF BusMode, BusSpeed
<1>3. CASE chip(l) = "gemini"
  BY <1>1, <1>3, GeminiFits DEF BusMode, BusSpeed
<1>4. CASE chip(l) = "mercury"
  BY <1>1, <1>4, MercuryFits DEF BusMode, BusSpeed
<1> QED
  BY <1>1, <1>2, <1>3, <1>4

\* The registers do not change, and a result of the bus attributes is what one
\* bridge's registers decode to.
DecodedInv ==
  /\ reg \in [Lba -> RegisterSets] /\ DOMAIN result = Reader
  /\ \A p \in Reader : result[p].attr = "bus" => Fits(result[p].mode, result[p].speed)

LEMMA DecodedInit == InfoInit => DecodedInv
<1> SUFFICES ASSUME InfoInit
             PROVE  DecodedInv
  OBVIOUS
<1>1. PICK registers \in [Lba -> RegisterSets] : InfoInitWith(registers)
  BY DEF InfoInit
<1> QED
  BY <1>1 DEF InfoInitWith, DecodedInv, Nothing

LEMMA DecodedKept ==
  ASSUME DecodedInv, [InfoNext]_infoVars
  PROVE  DecodedInv'
<1>1. ASSUME NEW p \in Reader, ReadBus(p)
      PROVE  DecodedInv'
  <2>1. PICK l \in Lba :
          result' = [result EXCEPT ![p] =
            [attr |-> "bus", lba |-> l, mode |-> BusMode(l), speed |-> BusSpeed(l),
             ropes |-> Ropes(l)]]
    BY <1>1 DEF ReadBus
  <2>2. Fits(BusMode(l), BusSpeed(l))
    BY BridgeFits DEF DecodedInv
  <2> DEFINE m == BusMode(l)
             s == BusSpeed(l)
             n == Ropes(l)
  <2>3. result' = [result EXCEPT ![p] =
          [attr |-> "bus", lba |-> l, mode |-> m, speed |-> s, ropes |-> n]]
    BY <2>1
  <2>4. Fits(m, s)
    BY <2>2
  <2> HIDE DEF m, s, n
  <2>5. /\ DOMAIN result' = Reader /\ result'[p].mode = m /\ result'[p].speed = s
        /\ \A q \in Reader \ {p} : result'[q] = result[q]
    BY <2>3 DEF DecodedInv
  <2>6. \A q \in Reader : result'[q].attr = "bus" => Fits(result'[q].mode, result'[q].speed)
    BY <2>4, <2>5 DEF DecodedInv
  <2> QED
    BY <1>1, <2>5, <2>6 DEF ReadBus, DecodedInv
<1>2. ASSUME UNCHANGED <<reg, result>>
      PROVE  DecodedInv'
  BY <1>2 DEF DecodedInv
<1>3. ASSUME NEW p \in Reader, sprintf(p)
      PROVE  DecodedInv'
  <2> DEFINE new == [attr |-> "revision", lba |-> call[p].lba, text |-> call[p].text,
                     alone |-> call[p].alone]
  <2>1. /\ reg' = reg
        /\ result' = [result EXCEPT ![p] = new] \/ UNCHANGED result
    BY <1>3 DEF sprintf
  <2>2. CASE UNCHANGED result
    BY <1>2, <2>1, <2>2
  <2>3. CASE result' = [result EXCEPT ![p] = new]
    <3>1. new.attr = "revision"
      OBVIOUS
    <3> HIDE DEF new
    <3>2. /\ DOMAIN result' = Reader /\ result'[p].attr = "revision"
          /\ \A q \in Reader \ {p} : result'[q] = result[q]
      BY <2>3, <3>1 DEF DecodedInv
    <3>3. \A q \in Reader : result'[q].attr = "bus" => Fits(result'[q].mode, result'[q].speed)
      <4> SUFFICES ASSUME NEW q \in Reader, result'[q].attr = "bus"
                   PROVE  Fits(result'[q].mode, result'[q].speed)
        OBVIOUS
      <4>1. result'[q] = result[q]
        BY <3>2
      <4> QED
        BY <4>1 DEF DecodedInv
    <3> QED
      BY <2>1, <3>2, <3>3 DEF DecodedInv
  <2> QED
    BY <2>1, <2>2, <2>3
<1>4. CASE UNCHANGED infoVars
  BY <1>4 DEF infoVars, DecodedInv
<1>5. ASSUME NEW p \in Reader, revision_show(p) \/ memset(p) \/ snprintf(p) \/ strnlen(p)
      PROVE  DecodedInv'
  BY <1>2, <1>5 DEF revision_show, memset, snprintf, strnlen, AfterByte
<1> QED
  BY <1>1, <1>3, <1>4, <1>5 DEF InfoNext

LEMMA Decoded == InfoSpec => []DecodedInv
  BY DecodedInit, DecodedKept, PTL DEF InfoSpec

\* Mode and speed that a chipset decodes from the same registers fit, for all
\* the values that the registers' fields can have (apollo_bus_op_mode,
\* apollo_bus_speed and those of gemini and mercury).
THEOREM ModeAndSpeedTheorem == InfoSpec => []ModeAndSpeedFit
<1>1. DecodedInv => ModeAndSpeedFit
  BY DEF DecodedInv, Fits, ModeAndSpeedFit
<1> QED
  BY <1>1, Decoded, PTL

\* pcitop's fields hold the names that the driver wrote, for every bridge
\* (hplba_bus_op_mode_to_value, hplba_bus_speed_to_value and init_lba).
THEOREM NamesTheorem == InfoSpec => []NamesSurvive
<1>1. DecodedInv => NamesSurvive
  <2> SUFFICES ASSUME DecodedInv, NEW p \in Reader, result[p].attr = "bus"
               PROVE  /\ ShownMode(result[p].mode) = result[p].mode
                      /\ ShownSpeed(result[p].speed) = result[p].speed
    BY DEF NamesSurvive
  <2>1. PICK k \in 1..7 : result[p].mode = PcitopModes.name[k]
    BY DEF DecodedInv, Fits
  <2>2. PICK n \in 1..12 : result[p].speed = PcitopSpeeds.name[n]
    BY DEF DecodedInv, Fits
  <2> QED
    BY <2>1, <2>2, ModeSurvives, SpeedSurvives
<1> QED
  BY <1>1, Decoded, PTL

-----------------------------------------------------------------------------
(* Attributes taken over by pcitop.                                        *)

LEMMA AttributesDiffer ==
  /\ \A m, n \in 1 .. 5 : Attributes[m] = Attributes[n] => m = n
  /\ \A n \in 1 .. 5 : Attributes[n] \in Fields
<1>1. /\ Attributes[1] = "bus_mode" /\ Attributes[2] = "bus_speed"
      /\ Attributes[3] = "function_id" /\ Attributes[4] = "revision"
      /\ Attributes[5] = "ropes"
  BY DEF Attributes
<1> QED
  BY <1>1 DEF Fields

\* A text that is none of the names, or the name for unknown, is unknown.
LEMMA TableUnknown ==
  ASSUME NEW tab, NEW unk \in Nat, NEW text,
         \A i \in 1..(unk + 1) : ~Matches(tab.name[i], text),
         \A i \in 1..(unk + 1) : tab.value[i] = unk <=> i = 1
  PROVE  ToStr(tab, unk, ToValue(tab, unk, text)) = tab.name[1]
<1>1. {i \in 1..(unk + 1) : Matches(tab.name[i], text)} = {}
  OBVIOUS
<1>2. ToValue(tab, unk, text) = unk
  BY <1>1 DEF ToValue
<1>3. {i \in 1..(unk + 1) : tab.value[i] = unk} = {1}
  OBVIOUS
<1>4. Min({1}) = 1
  BY DEF Min
<1> QED
  BY <1>2, <1>3, <1>4 DEF ToStr

ModeNames == {PcitopModes.name[k] : k \in 1..7}
SpeedNames == {PcitopSpeeds.name[k] : k \in 1..12}

\* The parts of the names; of those of speeds only "unknown" is one of modes.
LEMMA NameFacts ==
  /\ \A m \in ModeNames :
       /\ m \in Seq(ModeWords) /\ Len(m) \in {1, 2}
       /\ Len(m) = 1 => m = Unknown \/ m[1] \in {"AGP", "PCI", "mode_1_ECC"}
       /\ Len(m) = 2 => m[1] = "PCI"
  /\ \A k \in 1..12 : /\ PcitopSpeeds.name[k] = <<SpeedWord[k]>>
                      /\ Len(PcitopSpeeds.name[k]) = 1
                      /\ PcitopSpeeds.name[k][1] = SpeedWord[k]
                      /\ SpeedWord[k] \notin {"AGP", "PCI", "mode_1_ECC", "0x"}
<1>1. /\ Len(Unknown) = 1 /\ Len(AGP) = 1 /\ AGP[1] = "AGP"
      /\ Len(PCI) = 1 /\ PCI[1] = "PCI" /\ Len(PCI_X_ECC) = 1 /\ PCI_X_ECC[1] = "mode_1_ECC"
      /\ Len(PCI_X) = 2 /\ PCI_X[1] = "PCI" /\ Len(PCI_X2) = 2
      /\ PCI_X2[1] = "PCI" /\ Len(PCIE) = 2 /\ PCIE[1] = "PCI"
  BY DEF Unknown, AGP, PCI, PCI_X, PCI_X_ECC, PCI_X2, PCIE
<1>2. /\ PcitopModes.name[1] = Unknown /\ PcitopModes.name[2] = AGP
      /\ PcitopModes.name[3] = PCI /\ PcitopModes.name[4] = PCI_X
      /\ PcitopModes.name[5] = PCI_X_ECC /\ PcitopModes.name[6] = PCI_X2
      /\ PcitopModes.name[7] = PCIE
  BY DEF PcitopModes
<1>3. ModeNames = {Unknown, AGP, PCI, PCI_X, PCI_X_ECC, PCI_X2, PCIE}
  BY <1>2 DEF ModeNames
<1>4. /\ PcitopSpeeds.name[1] = <<SpeedWord[1]>> /\ PcitopSpeeds.name[2] = <<SpeedWord[2]>>
      /\ PcitopSpeeds.name[3] = <<SpeedWord[3]>> /\ PcitopSpeeds.name[4] = <<SpeedWord[4]>>
      /\ PcitopSpeeds.name[5] = <<SpeedWord[5]>> /\ PcitopSpeeds.name[6] = <<SpeedWord[6]>>
      /\ PcitopSpeeds.name[7] = <<SpeedWord[7]>> /\ PcitopSpeeds.name[8] = <<SpeedWord[8]>>
      /\ PcitopSpeeds.name[9] = <<SpeedWord[9]>> /\ PcitopSpeeds.name[10] = <<SpeedWord[10]>>
      /\ PcitopSpeeds.name[11] = <<SpeedWord[11]>> /\ PcitopSpeeds.name[12] = <<SpeedWord[12]>>
  BY DEF PcitopSpeeds, Unknown, SpeedWord
<1>5. \A k \in 1..12 : PcitopSpeeds.name[k] = <<SpeedWord[k]>>
  BY <1>4
<1>6. \A k \in 1..12 : SpeedWord[k] \notin {"AGP", "PCI", "mode_1_ECC", "0x"}
  BY DEF SpeedWord
<1>7. \A x : Len(<<x>>) = 1 /\ <<x>>[1] = x
  OBVIOUS
<1>8. \A m \in ModeNames :
       /\ m \in Seq(ModeWords) /\ Len(m) \in {1, 2}
       /\ Len(m) = 1 => m = Unknown \/ m[1] \in {"AGP", "PCI", "mode_1_ECC"}
       /\ Len(m) = 2 => m[1] = "PCI"
  BY <1>1, <1>3, ModesDiffer
<1> QED
  BY <1>5, <1>6, <1>7, <1>8

LEMMA EmptyIsUnknown ==
  /\ ShownMode(<< >>) = Unknown
  /\ ShownSpeed(<< >>) = Unknown
<1>1. /\ \A i \in 1..7 : ~Matches(PcitopModes.name[i], << >>)
      /\ \A i \in 1..12 : ~Matches(PcitopSpeeds.name[i], << >>)
  <2>1. Len(<< >>) = 0
    OBVIOUS
  <2>2. \A i \in 1..7 : Len(PcitopModes.name[i]) # 0
    <3> SUFFICES ASSUME NEW i \in 1..7
                 PROVE  Len(PcitopModes.name[i]) # 0
      OBVIOUS
    <3>1. PcitopModes.name[i] \in ModeNames
      BY DEF ModeNames
    <3>2. Len(PcitopModes.name[i]) \in {1, 2}
      BY <3>1, NameFacts
    <3> QED
      BY <3>2
  <2>3. \A i \in 1..12 : Len(PcitopSpeeds.name[i]) # 0
    BY NameFacts
  <2> QED
    BY <2>1, <2>2, <2>3 DEF Matches
<1>2. /\ \A i \in 1..7 : PcitopModes.value[i] = 6 <=> i = 1
      /\ \A i \in 1..12 : PcitopSpeeds.value[i] = 11 <=> i = 1
      /\ PcitopModes.name[1] = Unknown /\ PcitopSpeeds.name[1] = Unknown
  BY DEF PcitopModes, PcitopSpeeds, LBA_UNK_TYPE, LBA_UNK_SPEED
<1>3. ToStr(PcitopModes, 6, ToValue(PcitopModes, 6, << >>)) = Unknown
  <2> DEFINE unk == 6
             tab == PcitopModes
  <2>1. unk \in Nat /\ unk + 1 = 7
    OBVIOUS
  <2>2. /\ \A i \in 1..7 : ~Matches(tab.name[i], << >>)
        /\ \A i \in 1..7 : tab.value[i] = unk <=> i = 1
        /\ tab.name[1] = Unknown
    BY <1>1, <1>2
  <2> HIDE DEF unk, tab
  <2>3. /\ \A i \in 1..(unk + 1) : ~Matches(tab.name[i], << >>)
        /\ \A i \in 1..(unk + 1) : tab.value[i] = unk <=> i = 1
    BY <2>1, <2>2
  <2>4. ToStr(tab, unk, ToValue(tab, unk, << >>)) = tab.name[1]
    BY <2>1, <2>3, TableUnknown
  <2> QED
    BY <2>2, <2>4 DEF unk, tab
<1>4. ToStr(PcitopSpeeds, 11, ToValue(PcitopSpeeds, 11, << >>)) = Unknown
  <2> DEFINE unk == 11
             tab == PcitopSpeeds
  <2>1. unk \in Nat /\ unk + 1 = 12
    OBVIOUS
  <2>2. /\ \A i \in 1..12 : ~Matches(tab.name[i], << >>)
        /\ \A i \in 1..12 : tab.value[i] = unk <=> i = 1
        /\ tab.name[1] = Unknown
    BY <1>1, <1>2
  <2> HIDE DEF unk, tab
  <2>3. /\ \A i \in 1..(unk + 1) : ~Matches(tab.name[i], << >>)
        /\ \A i \in 1..(unk + 1) : tab.value[i] = unk <=> i = 1
    BY <2>1, <2>2
  <2>4. ToStr(tab, unk, ToValue(tab, unk, << >>)) = tab.name[1]
    BY <2>1, <2>3, TableUnknown
  <2> QED
    BY <2>2, <2>4 DEF unk, tab
<1> QED
  BY <1>3, <1>4 DEF ShownMode, ShownSpeed, LBA_UNK_TYPE, LBA_UNK_SPEED

\* The name of a mode is not one of a speed, or it is "unknown" for both.
LEMMA ModeIsNoSpeed ==
  ASSUME NEW m \in ModeNames
  PROVE  ShownSpeed(m) = Unknown
<1>1. CASE m = Unknown
  <2>1. PcitopSpeeds.name[1] = Unknown
    BY DEF PcitopSpeeds
  <2>2. ShownSpeed(PcitopSpeeds.name[1]) = PcitopSpeeds.name[1]
    BY SpeedSurvives
  <2> QED
    BY <1>1, <2>1, <2>2
<1>2. CASE m # Unknown
  <2>1. \A i \in 1..12 : ~Matches(PcitopSpeeds.name[i], m)
    <3> SUFFICES ASSUME NEW i \in 1..12, Matches(PcitopSpeeds.name[i], m)
                 PROVE  FALSE
      OBVIOUS
    <3> DEFINE s == PcitopSpeeds.name[i]
               W == ModeWords \cup {SpeedWord[k] : k \in 1..12}
    <3>1. s \in Seq(W) /\ s[1] = SpeedWord[i] /\ Len(s) = 1
      <4>1. SpeedWord[i] \in W
        OBVIOUS
      <4>2. s = <<SpeedWord[i]>>
        BY NameFacts
      <4> HIDE DEF W, s
      <4>3. PICK x : x = SpeedWord[i]
        OBVIOUS
      <4>4. s = <<x>> /\ x \in W
        BY <4>1, <4>2, <4>3
      <4>5. s \in Seq(W) /\ s[1] = x /\ Len(s) = 1
        BY <4>4, OneIsSeq
      <4> QED
        BY <4>3, <4>5
    <3>2. m \in Seq(W) /\ (Len(m) = 1 => m[1] \in {"AGP", "PCI", "mode_1_ECC"})
      <4>1. m \in Seq(ModeWords) /\ (Len(m) = 1 => m[1] \in {"AGP", "PCI", "mode_1_ECC"})
        BY <1>2, NameFacts
      <4>2. ModeWords \subseteq W
        OBVIOUS
      <4> HIDE DEF W
      <4> QED
        BY <4>1, <4>2
    <3> HIDE DEF s, W
    <3>3. s = m
      BY <3>1, <3>2, MatchesIsEqual DEF s
    <3>4. m[1] = SpeedWord[i] /\ Len(m) = 1
      BY <3>1, <3>3
    <3> QED
      BY <3>2, <3>4, NameFacts
  <2>2. /\ \A i \in 1..12 : PcitopSpeeds.value[i] = 11 <=> i = 1
        /\ PcitopSpeeds.name[1] = Unknown
    BY DEF PcitopSpeeds, LBA_UNK_SPEED
  <2>3. ToStr(PcitopSpeeds, 11, ToValue(PcitopSpeeds, 11, m)) = Unknown
    <3> DEFINE unk == 11
               tab == PcitopSpeeds
    <3>1. unk \in Nat /\ unk + 1 = 12
      OBVIOUS
    <3>2. /\ \A i \in 1..12 : ~Matches(tab.name[i], m)
          /\ \A i \in 1..12 : tab.value[i] = unk <=> i = 1
          /\ tab.name[1] = Unknown
      BY <2>1, <2>2
    <3> HIDE DEF unk, tab
    <3>3. /\ \A i \in 1..(unk + 1) : ~Matches(tab.name[i], m)
          /\ \A i \in 1..(unk + 1) : tab.value[i] = unk <=> i = 1
      BY <3>1, <3>2
    <3>4. ToStr(tab, unk, ToValue(tab, unk, m)) = tab.name[1]
      BY <3>1, <3>3, TableUnknown
    <3> QED
      BY <3>2, <3>4 DEF unk, tab
  <2> QED
    BY <2>3 DEF ShownSpeed, LBA_UNK_SPEED
<1> QED
  BY <1>1, <1>2

\* Nor does it, or that of a speed, begin like an id.
LEMMA NoIdInNames ==
  /\ \A t \in ModeNames \cup SpeedNames \cup {<< >>} : ~IsPrefix(<<"0x">>, t)
  /\ \A x : IsPrefix(<<"0x">>, <<"0x", x>>)
<1>1. ASSUME NEW W, NEW t \in Seq(W), "0x" \in W, IsPrefix(<<"0x">>, t)
      PROVE  t[1] = "0x"
  <2>1. <<"0x">> \in Seq(W) /\ Len(<<"0x">>) = 1 /\ <<"0x">>[1] = "0x"
    BY <1>1, OneIsSeq
  <2>2. SubSeq(<<"0x">>, 1, 1)[1] = SubSeq(t, 1, 1)[1] /\ 1 <= Len(t)
    BY <1>1, <2>1 DEF IsPrefix
  <2> QED
    BY <1>1, <2>1, <2>2
<1>2. ~IsPrefix(<<"0x">>, << >>)
  BY DEF IsPrefix
<1>3. ASSUME NEW t \in ModeNames
      PROVE  ~IsPrefix(<<"0x">>, t)
  <2> DEFINE W == ModeWords \cup {"0x"}
  <2>1. t \in Seq(ModeWords) /\ t[1] \in {"unknown", "AGP", "PCI", "mode_1_ECC"}
    BY NameFacts DEF Unknown
  <2>2. t \in Seq(W) /\ "0x" \in W
    BY <2>1
  <2> HIDE DEF W
  <2> QED
    BY <1>1, <2>1, <2>2
<1>4. ASSUME NEW t \in SpeedNames
      PROVE  ~IsPrefix(<<"0x">>, t)
  <2>1. PICK k \in 1..12 : t = PcitopSpeeds.name[k]
    BY DEF SpeedNames
  <2> DEFINE W == {SpeedWord[i] : i \in 1..12} \cup {"0x"}
  <2>2. SpeedWord[k] \in W /\ "0x" \in W
    OBVIOUS
  <2> HIDE DEF W
  <2>3. PICK x : x = SpeedWord[k]
    OBVIOUS
  <2>4. t = <<x>> /\ x \in W
    BY <2>1, <2>2, <2>3, NameFacts
  <2>5. t \in Seq(W) /\ t[1] = SpeedWord[k]
    BY <2>3, <2>4, OneIsSeq
  <2> QED
    BY <1>1, <2>2, <2>5, NameFacts
<1>5. ASSUME NEW x
      PROVE  IsPrefix(<<"0x">>, <<"0x", x>>)
  <2>1. /\ Len(<<"0x">>) = 1 /\ Len(<<"0x", x>>) = 2
        /\ <<"0x">>[1] = "0x" /\ <<"0x", x>>[1] = "0x"
    OBVIOUS
  <2>2. SubSeq(<<"0x">>, 1, 1) = SubSeq(<<"0x", x>>, 1, 1)
    OBVIOUS
  <2> QED
    BY <2>1, <2>2 DEF IsPrefix
<1> QED
  BY <1>2, <1>3, <1>4, <1>5

\* What is right of one bridge: t holds the texts of its attributes, i its
\* fields, g the attributes that could be read, k how many were taken over,
\* and b the buffer.
RightField(t, i, g, n) ==
  LET field   == Attributes[n]
      earlier == {t[m] : m \in {j \in 1..(n - 1) : Attributes[j] \in g}}
  IN  /\ field \in g => i[field] = t[n]
      /\ field \notin g /\ n \in {1, 2} => i[field] = Unknown
      /\ field \notin g /\ n = 3 => i[field] = << >>
      /\ field \notin g /\ n \in {4, 5} => i[field] \in earlier \cup {<< >>}

RightSoFar(t, i, g, k) ==
  /\ DOMAIN i = Fields
  /\ \A f \in g : \E n \in 1..k : f = Attributes[n]
  /\ k <= 2 => i["function_id"] = << >>
  /\ \A n \in 1..k : RightField(t, i, g, n)

RightBuffer(t, g, k, b) == b = << >> \/ \E m \in 1..k : Attributes[m] \in g /\ b = t[m]

GoodTexts(t) == t[1] \in ModeNames /\ t[2] \in SpeedNames /\ \E x : t[3] = <<"0x", x>>

\* What becomes of the field of the next attribute, read or not.
LEMMA NextField ==
  ASSUME NEW t, GoodTexts(t), NEW g, NEW k \in 0..4, NEW b, NEW old,
         RightBuffer(t, g, k, b), k = 2 => old = << >>
  PROVE  /\ Taken(Attributes[k + 1], t[k + 1], old) = t[k + 1]
         /\ k \in {0, 1} => Taken(Attributes[k + 1], b, old) = Unknown
         /\ k = 2 => Taken(Attributes[k + 1], b, old) = << >>
         /\ k \in {3, 4} => Taken(Attributes[k + 1], b, old) = b
<1>1. /\ Attributes[1] = "bus_mode" /\ Attributes[2] = "bus_speed"
      /\ Attributes[3] = "function_id" /\ Attributes[4] = "revision"
      /\ Attributes[5] = "ropes"
  BY DEF Attributes
<1>2. CASE k = 0
  <2>1. \A s : Taken(Attributes[1], s, old) = ShownMode(s)
    BY <1>1 DEF Taken
  <2>2. PICK n \in 1..7 : t[1] = PcitopModes.name[n]
    BY DEF GoodTexts, ModeNames
  <2>3. ShownMode(t[1]) = t[1]
    BY <2>2, ModeSurvives
  <2>4. b = << >>
    BY <1>2 DEF RightBuffer
  <2> QED
    BY <1>2, <2>1, <2>3, <2>4, EmptyIsUnknown
<1>3. CASE k = 1
  <2>1. \A s : Taken(Attributes[2], s, old) = ShownSpeed(s)
    BY <1>1 DEF Taken
  <2>2. PICK n \in 1..12 : t[2] = PcitopSpeeds.name[n]
    BY DEF GoodTexts, SpeedNames
  <2>3. ShownSpeed(t[2]) = t[2]
    BY <2>2, SpeedSurvives
  <2>4. b = << >> \/ b = t[1]
    BY <1>3 DEF RightBuffer
  <2>5. ShownSpeed(b) = Unknown
    BY <2>4, EmptyIsUnknown, ModeIsNoSpeed DEF GoodTexts
  <2> QED
    BY <1>3, <2>1, <2>3, <2>5
<1>4. CASE k = 2
  <2>1. \A s : Taken(Attributes[3], s, old) = IF IsPrefix(<<"0x">>, s) THEN s ELSE old
    BY <1>1 DEF Taken
  <2>2. PICK x : t[3] = <<"0x", x>>
    BY DEF GoodTexts
  <2>3. IsPrefix(<<"0x">>, t[3])
    BY <2>2, NoIdInNames
  <2>4. b \in ModeNames \cup SpeedNames \cup {<< >>}
    BY <1>4 DEF RightBuffer, GoodTexts
  <2>5. ~IsPrefix(<<"0x">>, b)
    BY <2>4, NoIdInNames
  <2> QED
    BY <1>4, <2>1, <2>3, <2>5
<1>5. CASE k \in {3, 4}
  <2>1. \A s : Taken(Attributes[k + 1], s, old) = s
    BY <1>1, <1>5 DEF Taken
  <2> QED
    BY <1>5, <2>1
<1> QED
  BY <1>2, <1>3, <1>4, <1>5

\* One more attribute taken over.
LEMMA OneMore ==
  ASSUME NEW t, GoodTexts(t), NEW i, NEW g, NEW k \in 0..4, NEW b,
         RightSoFar(t, i, g, k), RightBuffer(t, g, k, b), NEW bb, NEW gg,
         \/ bb = t[k + 1] /\ gg = g \cup {Attributes[k + 1]}
         \/ bb = b /\ gg = g,
         NEW ii, ii = [i EXCEPT ![Attributes[k + 1]] = Taken(Attributes[k + 1], bb, @)]
  PROVE  RightSoFar(t, ii, gg, k + 1) /\ RightBuffer(t, gg, k + 1, bb)
<1> DEFINE field == Attributes[k + 1]
           old == i[field]
<1>1. field \in Fields /\ (k # 2 => field # "function_id") /\ (k = 2 => field = "function_id")
  BY AttributesDiffer DEF Attributes
<1>2. field \notin g /\ \A n \in 1..k : Attributes[n] # field
  BY AttributesDiffer DEF RightSoFar
<1>3. k = 2 => old = << >>
  BY <1>1 DEF RightSoFar
<1>4. /\ Taken(field, t[k + 1], old) = t[k + 1]
      /\ k \in {0, 1} => Taken(field, b, old) = Unknown
      /\ k = 2 => Taken(field, b, old) = << >>
      /\ k \in {3, 4} => Taken(field, b, old) = b
  BY <1>3, NextField
<1>5. /\ DOMAIN ii = Fields /\ ii[field] = Taken(field, bb, old)
      /\ \A f \in Fields : f # field => ii[f] = i[f]
  BY <1>1 DEF RightSoFar
<1>6. \A n \in 1..5 : Attributes[n] \in Fields
  BY AttributesDiffer
<1>7. k \in 0..4 /\ field = Attributes[k + 1]
  OBVIOUS
<1> HIDE DEF old, field
<1>8. \A n \in 1..k : Attributes[n] \in gg <=> Attributes[n] \in g
  BY <1>2, <1>7
<1>9. \A f \in gg : \E n \in 1..(k + 1) : f = Attributes[n]
  BY <1>7 DEF RightSoFar
<1>10. k + 1 <= 2 => ii["function_id"] = << >>
  <2> SUFFICES ASSUME k + 1 <= 2
               PROVE  ii["function_id"] = << >>
    OBVIOUS
  <2>1. "function_id" \in Fields
    BY <1>6 DEF Attributes
  <2> QED
    BY <1>1, <1>5, <2>1 DEF RightSoFar
<1>11. ASSUME NEW n \in 1..k
       PROVE  RightField(t, ii, gg, n)
  <2>1. RightField(t, i, g, n)
    BY <1>11 DEF RightSoFar
  <2>2. ii[Attributes[n]] = i[Attributes[n]]
    BY <1>2, <1>5, <1>6
  <2>3. \A j \in 1..(n - 1) : Attributes[j] \in gg <=> Attributes[j] \in g
    BY <1>8
  <2>4. {t[m] : m \in {j \in 1..(n - 1) : Attributes[j] \in gg}}
          = {t[m] : m \in {j \in 1..(n - 1) : Attributes[j] \in g}}
    BY <2>3
  <2> QED
    BY <1>8, <2>1, <2>2, <2>4 DEF RightField
<1>12. RightField(t, ii, gg, k + 1)
  <2>1. CASE bb = t[k + 1] /\ gg = g \cup {field}
    BY <1>4, <1>5, <1>7, <2>1 DEF RightField
  <2>2. CASE bb = b /\ gg = g
    <3>1. b = << >> \/ b \in {t[m] : m \in {j \in 1..((k + 1) - 1) : Attributes[j] \in g}}
      BY DEF RightBuffer
    <3> QED
      BY <1>2, <1>4, <1>5, <1>7, <2>2, <3>1 DEF RightField
  <2> QED
    BY <1>7, <2>1, <2>2
<1>13. RightSoFar(t, ii, gg, k + 1)
  <2>1. \A n \in 1..(k + 1) : n \in 1..k \/ n = k + 1
    BY <1>7
  <2>2. \A n \in 1..(k + 1) : RightField(t, ii, gg, n)
    BY <1>11, <1>12, <2>1
  <2> QED
    BY <1>5, <1>9, <1>10, <2>2 DEF RightSoFar
<1>14. RightBuffer(t, gg, k + 1, bb)
  BY <1>7 DEF RightBuffer
<1> QED
  BY <1>13, <1>14

BridgeTexts(l) == [n \in 1..5 |-> Text(l, Attributes[n])]

AttrInv ==
  /\ reg \in [Lba -> RegisterSets]
  /\ taken \in [Lba -> 0..5] /\ DOMAIN info = Lba /\ DOMAIN got = Lba
  /\ \A l \in Lba : RightSoFar(BridgeTexts(l), info[l], got[l], taken[l])
  /\ \A l \in Lba : l \notin inited => taken[l] = 0
  /\ \A l \in Lba : current = {l} => /\ l \in inited /\ taken[l] <= 4
                                     /\ RightBuffer(BridgeTexts(l), got[l], taken[l], attrib)

\* The texts of a bridge are those of its registers, and as good as the names
\* of the driver's tables.
LEMMA TextsGood ==
  ASSUME NEW l \in Lba, reg[l] \in RegisterSets
  PROVE  GoodTexts(BridgeTexts(l))
<1>1. /\ BridgeTexts(l)[1] = BusMode(l) /\ BridgeTexts(l)[2] = BusSpeed(l)
      /\ BridgeTexts(l)[3] = <<"0x", chip(l)>>
  BY DEF BridgeTexts, Text, Attributes
<1>2. Fits(BusMode(l), BusSpeed(l))
  BY BridgeFits
<1>3. BusMode(l) \in ModeNames /\ BusSpeed(l) \in SpeedNames
  BY <1>2 DEF Fits, ModeNames, SpeedNames
<1> QED
  BY <1>1, <1>3 DEF GoodTexts

LEMMA TextsStay ==
  ASSUME reg' = reg, NEW CONSTANT l \in Lba
  PROVE  BridgeTexts(l)' = BridgeTexts(l)
<1>1. BusMode(l)' = BusMode(l)
  BY DEF BusMode, chip, apollo_bus_op_mode, gemini_bus_op_mode, mercury_bus_op_mode
<1>2. BusSpeed(l)' = BusSpeed(l)
  BY DEF BusSpeed, chip, apollo_bus_speed, gemini_bus_speed, mercury_bus_speed
<1>3. Ropes(l)' = Ropes(l) /\ chip(l)' = chip(l)
  BY DEF Ropes, chip, apollo_ropes, gemini_ropes, mercury_ropes
<1> QED
  BY <1>1, <1>2, <1>3 DEF BridgeTexts, Text

LEMMA AttrInit == InfoInit /\ InitLbaInit => AttrInv
<1> SUFFICES ASSUME InfoInit, InitLbaInit
             PROVE  AttrInv
  OBVIOUS
<1>1. reg \in [Lba -> RegisterSets]
  BY DEF InfoInit, InfoInitWith
<1>2. taken = [l \in Lba |-> 0] /\ info = [l \in Lba |-> NewInfo] /\ got = [l \in Lba |-> {}]
  BY DEF InitLbaInit
<1>3. "function_id" \in Fields
  BY AttributesDiffer DEF Attributes
<1>4. DOMAIN NewInfo = Fields /\ NewInfo["function_id"] = << >>
  BY <1>3 DEF NewInfo
<1>5. \A l \in Lba : RightSoFar(BridgeTexts(l), info[l], got[l], taken[l])
  BY <1>2, <1>4 DEF RightSoFar
<1>6. \A l \in Lba : current # {l}
  BY DEF InitLbaInit
<1> QED
  BY <1>1, <1>2, <1>5, <1>6 DEF AttrInv

LEMMA AttrKept ==
  ASSUME AttrInv, [InitLbaNext /\ UNCHANGED infoVars]_<<infoVars, initVars>>
  PROVE  AttrInv'
<1>0. reg' = reg /\ \A l \in Lba : BridgeTexts(l)' = BridgeTexts(l)
  <2>1. reg' = reg
    BY DEF infoVars
  <2> QED
    BY <2>1, TextsStay
<1>1. CASE UNCHANGED initVars
  BY <1>0, <1>1 DEF AttrInv, initVars
<1>2. ASSUME NEW l \in Lba, Begin(l)
      PROVE  AttrInv'
  <2>1. /\ l \notin inited /\ inited' = inited \cup {l} /\ current' = {l} /\ attrib' = << >>
        /\ taken' = taken /\ info' = info /\ got' = got
    BY <1>2 DEF Begin
  <2>2. taken[l] = 0
    BY <2>1 DEF AttrInv
  <2>3. RightBuffer(BridgeTexts(l), got[l], taken[l], << >>)
    BY DEF RightBuffer
  <2> QED
    BY <1>0, <2>1, <2>2, <2>3 DEF AttrInv
<1>3. ASSUME NEW l \in Lba, ReadAttribute(l)
      PROVE  AttrInv'
  <2> DEFINE k == taken[l]
             field == Attributes[k + 1]
             ii == [info[l] EXCEPT ![field] = Taken(field, attrib', @)]
  <2>1. /\ current = {l} /\ inited' = inited
        /\ taken' = [taken EXCEPT ![l] = @ + 1]
        /\ current' = IF k = 4 THEN {} ELSE current
        /\ info' = [info EXCEPT ![l] = ii]
        /\ \/ attrib' = Text(l, field) /\ got' = [got EXCEPT ![l] = @ \cup {field}]
           \/ attrib' = attrib /\ got' = got
    BY <1>3 DEF ReadAttribute
  <2>2. /\ k \in 0..4 /\ l \in inited /\ RightBuffer(BridgeTexts(l), got[l], k, attrib)
        /\ RightSoFar(BridgeTexts(l), info[l], got[l], k)
    BY <2>1 DEF AttrInv
  <2>3. GoodTexts(BridgeTexts(l))
    BY TextsGood DEF AttrInv
  <2>4. BridgeTexts(l)[k + 1] = Text(l, field)
    BY <2>2 DEF BridgeTexts
  <2>5. /\ DOMAIN got' = Lba /\ \A m \in Lba \ {l} : got'[m] = got[m]
        /\ \/ attrib' = BridgeTexts(l)[k + 1] /\ got'[l] = got[l] \cup {field}
           \/ attrib' = attrib /\ got'[l] = got[l]
    BY <2>1, <2>4 DEF AttrInv
  <2>6. /\ RightSoFar(BridgeTexts(l), ii, got'[l], k + 1)
        /\ RightBuffer(BridgeTexts(l), got'[l], k + 1, attrib')
    BY <2>2, <2>3, <2>5, OneMore
  <2>7. /\ taken' \in [Lba -> 0..5] /\ taken'[l] = k + 1
        /\ \A m \in Lba \ {l} : taken'[m] = taken[m]
    BY <2>1, <2>2 DEF AttrInv
  <2> HIDE DEF ii, field
  <2>8. DOMAIN info' = Lba /\ info'[l] = ii /\ \A m \in Lba \ {l} : info'[m] = info[m]
    BY <2>1 DEF AttrInv
  <2>9. \A m \in Lba : RightSoFar(BridgeTexts(m), info'[m], got'[m], taken'[m])
    BY <2>5, <2>6, <2>7, <2>8 DEF AttrInv
  <2>10. \A m \in Lba : current' = {m} =>
           /\ m \in inited' /\ taken'[m] <= 4
           /\ RightBuffer(BridgeTexts(m), got'[m], taken'[m], attrib')
    <3> SUFFICES ASSUME NEW m \in Lba, current' = {m}
                 PROVE  /\ m \in inited' /\ taken'[m] <= 4
                        /\ RightBuffer(BridgeTexts(m), got'[m], taken'[m], attrib')
      OBVIOUS
    <3>1. m = l /\ k # 4
      BY <2>1
    <3> QED
      BY <2>1, <2>2, <2>6, <2>7, <3>1
  <2>11. \A m \in Lba : m \notin inited' => taken'[m] = 0
    BY <2>1, <2>2, <2>7 DEF AttrInv
  <2> QED
    BY <1>0, <2>5, <2>7, <2>8, <2>9, <2>10, <2>11 DEF AttrInv
<1> QED
  BY <1>1, <1>2, <1>3 DEF InitLbaNext, initVars

\* Every field that pcitop made of an attribute it could read is that
\* attribute's, and one that it could not read leaves nothing of another
\* bridge behind (init_lba).
THEOREM AttributesTheorem == InitLbaSpec => []AttributesOwn
<1>1. AttrInv => AttributesOwn
  <2> SUFFICES ASSUME AttrInv, NEW l \in Lba, NEW n \in 1..taken[l]
               PROVE  LET field   == Attributes[n]
                          earlier == {Text(l, Attributes[m]) :
                                        m \in {k \in 1..(n - 1) : Attributes[k] \in got[l]}}
                      IN  /\ field \in got[l] => info[l][field] = Text(l, field)
                          /\ field \notin got[l] =>
                               /\ n \in {1, 2} => info[l][field] = Unknown
                               /\ n = 3 => info[l][field] = << >>
                               /\ n \in {4, 5} =>
                                    info[l][field] \in earlier \cup {<< >>}
    BY DEF AttributesOwn
  <2> DEFINE t == BridgeTexts(l)
  <2>1. n \in 1..5 /\ taken[l] \in 0..5
    BY DEF AttrInv
  <2>2. RightField(t, info[l], got[l], n)
    BY DEF AttrInv, RightSoFar
  <2>3. \A m \in 1..5 : t[m] = Text(l, Attributes[m])
    BY DEF BridgeTexts
  <2>4. {t[m] : m \in {j \in 1..(n - 1) : Attributes[j] \in got[l]}}
          = {Text(l, Attributes[m]) : m \in {k \in 1..(n - 1) : Attributes[k] \in got[l]}}
    BY <2>1, <2>3
  <2>5. t[n] = Text(l, Attributes[n])
    BY <2>1, <2>3
  <2> HIDE DEF t
  <2> QED
    BY <2>1, <2>2, <2>4, <2>5 DEF RightField
<1> QED
  BY <1>1, AttrInit, AttrKept, PTL DEF InitLbaSpec
=============================================================================
