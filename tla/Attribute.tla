----------------------------- MODULE Attribute -----------------------------
(***************************************************************************)
(* Attribute files on their way into the buffers of pcitop                 *)
(* (src/src/util.c, read_attribute): one static page that every read goes  *)
(* through, and the buffer of each place in the code that reads, which it  *)
(* uses again and again without looking whether the read succeeded.        *)
(***************************************************************************)
EXTENDS Naturals, Sequences

CONSTANTS
  Callers,       \* places in the code that read attributes, each with a buffer
  N,             \* the length that each of them passes: PATH_MAX or
                 \* SLOT_ADDRESS_LEN
  PageSize,
  Chars,         \* characters of an attribute
  MaxText        \* bound: characters of an attribute in front of its newline

NUL == "NUL"
LF  == "\n"

\* The driver's attributes and the addresses of slots are shorter than the
\* buffers they are read into, and the kernel lets no attribute fill a page.
ASSUME AttributeAssumption ==
  /\ N \in [Callers -> Nat \ {0}] /\ PageSize \in Nat /\ MaxText \in Nat
  /\ {NUL, LF} \cap Chars = {}
  /\ MaxText + 1 < PageSize
  /\ \A c \in Callers : MaxText < N[c]

VARIABLES
  buf,           \* the static page of read_attribute
  contents,      \* the buffer of each caller, as far as read_attribute sets it
  last           \* history: what each caller's last read that succeeded read

attributeVars == <<buf, contents, last>>

Texts == UNION {[1..n -> Chars] : n \in 0..MaxText}
Size(c) == IF N[c] < PageSize THEN N[c] ELSE PageSize

\* What malloc and the stack hold differs; the model fills a buffer with one
\* character.
AttributeInitWith(garbage) ==
  /\ buf = [i \in 1..PageSize |-> NUL]
  /\ contents = [c \in Callers |-> [i \in 1..Size(c) |-> garbage]]
  /\ last = [c \in Callers |-> <<>>]

AttributeInit == \E garbage \in Chars \cup {NUL} : AttributeInitWith(garbage)

-----------------------------------------------------------------------------
(* A definition Faulty... is the definition after it with a plausible slip *)
(* in it, used to see that a property notices the slip.                    *)

\* The string in an array: its characters in front of the first NUL.
CString(array) ==
  LET n == CHOOSE k \in 0..Len(array) :
             /\ \A i \in 1..k : array[i] # NUL
             /\ k = Len(array) \/ array[k + 1] = NUL
  IN  SubSeq(array, 1, n)

FaultyFill(page, file) ==          \* the page is not cleared
  [i \in 1..PageSize |-> IF i <= Len(file) THEN file[i] ELSE page[i]]

\* memset and read.
Fill(page, file) == [i \in 1..PageSize |-> IF i <= Len(file) THEN file[i] ELSE NUL]

\* The last character of the string, the newline, becomes a NUL.
Strip(page) ==
  LET n == Len(CString(page))
  IN  IF n > 0 THEN [page EXCEPT ![n] = NUL] ELSE page

\* strncpy of n characters: what is left after the string is filled with NUL.
strncpy(page, n) ==
  LET str == CString(page)
  IN  [i \in 1..n |-> IF i <= Len(str) THEN str[i] ELSE NUL]

\* read_attribute for caller c of a file with one line, or with nothing.
read_attribute(c) ==
  \E text \in Texts :
  \E file \in {Append(text, LF)} \cup (IF text = <<>> THEN {<<>>} ELSE {}) :
    /\ buf' = Strip(Fill(buf, file))
    /\ contents' = [contents EXCEPT ![c] = strncpy(buf', Size(c))]
    /\ last' = [last EXCEPT ![c] = <<text>>]

\* The file is opened, but read returns an error.  Where it cannot be opened,
\* or there is no memory for the page, nothing changes.
ReadFails(c) ==
  /\ buf' = Fill(buf, <<>>)
  /\ UNCHANGED <<contents, last>>

AttributeNext == \E c \in Callers : read_attribute(c) \/ ReadFails(c)

AttributeSpec == AttributeInit /\ [][AttributeNext]_attributeVars

-----------------------------------------------------------------------------

\* A caller's buffer holds the line that it read last, whole, without its
\* newline and with an end, up to the longest line that leaves room for the
\* NUL: nothing of an earlier and longer line, of a line that another caller
\* read, or of a failed read shows (read_attribute).
ShowsLastRead ==
  \A c \in Callers : last[c] # <<>> => CString(contents[c]) = last[c][1]
=============================================================================
