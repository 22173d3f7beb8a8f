------------------------------ MODULE MCParts ------------------------------
(***************************************************************************)
(* The parts that the others rest on, each by itself: every value of the   *)
(* registers of a bridge that its chipset decodes; two processes that read *)
(* revisions of two bridges of one chipset and one of another; pcitop      *)
(* taking over attributes that may be unreadable; every slot name of up to *)
(* five digits; attributes read into two buffers; and lists with a loop.   *)
(***************************************************************************)
EXTENDS InitLba, Integrity, Attribute, List, TLC

CONSTANTS a, b, g, p1, p2, lba, slot, h1, h2, n1, n2, n3,
  NameDigits     \* the digits in the names

VARIABLES what, name, place

\* Fields that the chipset does not have are zero.
Registers(id, widths, modes, agp, rates, ropes4) ==
  [function_id : {id}, revision : {<<"3", ".", "2">>}, bus_op_mode : modes,
   agp_bus_mode : agp, agp_data_rate : rates, max_link_width : widths,
   rope_2x_l : 0..1, rope_4x_l : ropes4]

MCRegisterSets ==
  Registers("apollo", 0..3, {0}, {0}, {0}, 0..1)
    \cup Registers("gemini", {0}, 0..7, {0}, {0}, 0..1)
    \cup Registers("mercury", {0}, 0..7, 0..1, 0..7, {0})

\* Registers that are zero, but for the revision.
Plain(id, rev) ==
  [function_id |-> id, revision |-> rev, bus_op_mode |-> 0, agp_bus_mode |-> 0,
   agp_data_rate |-> 0, max_link_width |-> 0, rope_2x_l |-> 0, rope_4x_l |-> 0]

\* Two bridges of one chipset with revisions of different lengths.
Revisions ==
  (a :> Plain("apollo", <<"3", ".", "2">>)) @@ (b :> Plain("apollo", <<"1", "2", ".", "1">>))
    @@ (g :> Plain("gemini", <<"2", ".", "0">>))

Names == UNION {[1..n -> NameDigits] : n \in 1..5}

\* The buffer for the attributes of a bridge, cut to a page, and the one for
\* the address of a slot, which an address fills.
MCN == (lba :> 7) @@ (slot :> 4)

AllRegisterSets == MCRegisterSets \cup Range(Revisions)

\* A behaviour reads the decoded attributes of the driver, or its revisions, or
\* takes attributes over into pcitop, or parses a name, or reads attributes
\* into buffers, or works with lists.
Init ==
  /\ place = <<>>
  /\ ListInit /\ InitLbaInit
  /\ \/ /\ what = "decode"
        /\ \E r \in MCRegisterSets : InfoInitWith([Revisions EXCEPT ![a] = r])
        /\ name = <<>>
        /\ AttributeInitWith(NUL)
     \/ /\ what \in {"revision", "init_lba", "list"}
        /\ name = <<>>
        /\ InfoInitWith(Revisions) /\ AttributeInitWith(NUL)
     \/ /\ what = "name"
        /\ name \in Names
        /\ InfoInitWith(Revisions) /\ AttributeInitWith(NUL)
     \/ /\ what = "attribute"
        /\ name = <<>>
        /\ InfoInitWith(Revisions) /\ AttributeInit

Parse ==
  /\ what = "name" /\ place = <<>>
  /\ place' = <<integrity_parse_slot(name)>>
  /\ UNCHANGED <<infoVars, initVars, attributeVars, listVars>>

ReadInfo ==
  /\ \/ what = "revision" /\ InfoNext
     \/ what = "decode" /\ \E p \in Reader : ReadBus(p)
  /\ UNCHANGED <<place, initVars, attributeVars, listVars>>

Next ==
  /\ \/ ReadInfo
     \/ Parse
     \/ what = "init_lba" /\ InitLbaNext /\ UNCHANGED <<place, infoVars, attributeVars, listVars>>
     \/ what = "attribute" /\ AttributeNext /\ UNCHANGED <<place, infoVars, initVars, listVars>>
     \/ what = "list" /\ ListNext /\ UNCHANGED <<place, infoVars, initVars, attributeVars>>
  /\ UNCHANGED <<what, name>>

Spec == Init /\ [][Next]_<<what, name, place, infoVars, initVars, attributeVars, listVars>>

\* The name of a slot is the number WXYZZ of cabinet W, bay X, chassis Y and
\* slot ZZ, with fields that are left out taken as zero (integrity_parse_slot,
\* integrity.c:105-121).
PlaceIsWXYZZ ==
  place # <<>> => place[1] = PlaceOfNumber(ReadDigits(name))
=============================================================================
