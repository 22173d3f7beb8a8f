------------------------------ MODULE InitLba ------------------------------
(***************************************************************************)
(* How pcitop's init_lba takes over the attributes of the bridges          *)
(* (src/src/pcitop.c): five reads, one after the other, through a buffer   *)
(* that each bridge has anew, without a look at whether a read succeeded.  *)
(* What the driver writes and what the tables of pcitop make of it is      *)
(* ChipInfo's; that a read which succeeds leaves exactly the line of the   *)
(* file in the buffer, and one that fails changes nothing, is Attribute's  *)
(* ShowsLastRead.                                                          *)
(***************************************************************************)
EXTENDS ChipInfo

VARIABLES
  inited,        \* the bridges of which init_lba was called
  current,       \* the one it is called for, in a set of at most one
  taken,         \* for each bridge, how many attributes were taken over
  attrib,        \* the text in the buffer
  info,          \* the fields of struct lba_info
  got            \* history: the attributes of each bridge that could be read

initVars == <<inited, current, taken, attrib, info, got>>

\* The attributes in the order of the reads, and the fields made of them.
Attributes == <<"bus_mode", "bus_speed", "function_id", "revision", "ropes">>
Fields == {Attributes[n] : n \in 1..5}

\* calloc of register_lba: NULL, 0 and empty texts alike.
NewInfo == [f \in Fields |-> <<>>]

InitLbaInit ==
  /\ inited = {} /\ current = {}
  /\ taken = [l \in Lba |-> 0]
  /\ attrib = <<>>
  /\ info = [l \in Lba |-> NewInfo]
  /\ got = [l \in Lba |-> {}]

-----------------------------------------------------------------------------
(* A definition Faulty... is the definition after it with a plausible slip *)
(* in it, used to see that a property notices the slip.                    *)

RopesText(n) == CASE n = 1 -> <<"1">> [] n = 2 -> <<"2">> [] n = 4 -> <<"4">>

\* What the driver writes to the attribute of bridge l, when nobody else reads
\* a revision; the function id stands for the chipset.
Text(l, attribute) ==
  CASE attribute = "bus_mode"    -> BusMode(l)
    [] attribute = "bus_speed"   -> BusSpeed(l)
    [] attribute = "function_id" -> <<"0x", chip(l)>>
    [] attribute = "revision"    -> reg[l].revision
    [] attribute = "ropes"       -> RopesText(Ropes(l))

\* What becomes of a field when text is in the buffer: the name that the
\* tables know, or unknown; the id where sscanf finds "0x", else what the
\* field held; for revision and ropes the text that strncpy and atoi are given.
Taken(field, text, old) ==
  CASE field = "bus_mode"    -> ShownMode(text)
    [] field = "bus_speed"   -> ShownSpeed(text)
    [] field = "function_id" -> IF IsPrefix(<<"0x">>, text) THEN text ELSE old
    [] field \in {"revision", "ropes"} -> text

FaultyBegin(l) ==                  \* malloc instead of calloc
  /\ current = {} /\ l \notin inited
  /\ inited' = inited \cup {l} /\ current' = {l}
  /\ UNCHANGED <<taken, attrib, info, got>>

\* register_lba and calloc; the directory has the bridges in any order.
Begin(l) ==
  /\ current = {} /\ l \notin inited
  /\ inited' = inited \cup {l} /\ current' = {l}
  /\ attrib' = <<>>
  /\ UNCHANGED <<taken, info, got>>

\* One call of read_lba_attribute, and what is made of the buffer then.
ReadAttribute(l) ==
  /\ current = {l}
  /\ LET field == Attributes[taken[l] + 1]
     IN  /\ \/ attrib' = Text(l, field) /\ got' = [got EXCEPT ![l] = @ \cup {field}]
            \/ UNCHANGED <<attrib, got>>
         /\ info' = [info EXCEPT ![l][field] = Taken(field, attrib', @)]
  /\ taken' = [taken EXCEPT ![l] = @ + 1]
  /\ current' = IF taken[l] = 4 THEN {} ELSE current
  /\ UNCHANGED inited

InitLbaNext == \E l \in Lba : Begin(l) \/ ReadAttribute(l)

InitLbaSpec ==
  InfoInit /\ InitLbaInit /\ [][InitLbaNext /\ UNCHANGED infoVars]_<<infoVars, initVars>>

-----------------------------------------------------------------------------

\* A field of an attribute that could be read is the attribute's, as the
\* driver wrote it for this bridge.  Where it could not, mode and speed are
\* unknown and the id is none; only revision and ropes may be made of the
\* text of an earlier attribute, and that is one of the same bridge
\* (init_lba).
AttributesOwn ==
  \A l \in Lba : \A n \in 1..taken[l] :
    LET field   == Attributes[n]
        earlier == {Text(l, Attributes[m]) : m \in {k \in 1..(n - 1) : Attributes[k] \in got[l]}}
    IN  /\ field \in got[l] => info[l][field] = Text(l, field)
        /\ field \notin got[l] =>
             /\ n \in {1, 2} => info[l][field] = Unknown
             /\ n = 3 => info[l][field] = <<>>
             /\ n \in {4, 5} => info[l][field] \in earlier \cup {<<>>}
=============================================================================
