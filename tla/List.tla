------------------------------- MODULE List -------------------------------
(***************************************************************************)
(* The doubly-linked lists of src/src/list.h and list.c, on which pcitop   *)
(* keeps its bridges, buses, slots and places, and the loops over them.    *)
(* A list is a ring of cells: its head and the list_node of each member.   *)
(* Which structure a list_node lies in (container_of) is left out.         *)
(*                                                                         *)
(* The callers keep to what list.h asks for: a node that is added is on no *)
(* list, one that is deleted is on a list, and a loop does not lose the    *)
(* node it goes on from: its own in list_for_each, which reads its next    *)
(* after the body, and the one after it in list_for_each_safe.             *)
(***************************************************************************)
EXTENDS Naturals, Sequences, SequencesExt

CONSTANTS Heads, Nodes, NULL

Cells == Heads \cup Nodes

ASSUME ListAssumption == Heads \cap Nodes = {} /\ NULL \notin Cells

VARIABLES
  next, prev,    \* the two pointers of each cell
  loop,          \* the loop that runs, if one does
  lists          \* history: the members of each list, by the calls made

listVars == <<next, prev, loop, lists>>

\* A loop over a list: i and nxt are its variables, both cells.  History: the
\* members that were there at its start and never left, and those it visited.
NoLoop == [head |-> NULL]

\* The heads were set up by LIST_HEAD or list_head_init; nodes come from calloc.
ListInit ==
  /\ next = [c \in Cells |-> IF c \in Heads THEN c ELSE NULL]
  /\ prev = next
  /\ loop = NoLoop
  /\ lists = [h \in Heads |-> <<>>]

-----------------------------------------------------------------------------
(* The operations.  A definition Faulty... is the definition after it with *)
(* a plausible slip in it, used to see that a property notices the slip.   *)

IsFree(n) == \A h \in Heads : ~Contains(lists[h], n)

list_head_init(h) ==
  /\ loop.head # h
  /\ next' = [next EXCEPT ![h] = h]
  /\ prev' = [prev EXCEPT ![h] = h]
  /\ lists' = [lists EXCEPT ![h] = <<>>]
  /\ UNCHANGED loop

list_add(h, n) ==
  /\ IsFree(n)
  /\ next' = [next EXCEPT ![n] = next[h], ![h] = n]
  /\ prev' = [prev EXCEPT ![n] = h, ![next[h]] = n]
  /\ lists' = [lists EXCEPT ![h] = <<n>> \o @]
  /\ UNCHANGED loop

FaultyListAddTail(h, n) ==       \* the new node points back to the head
  /\ IsFree(n)
  /\ next' = [next EXCEPT ![n] = h, ![prev[h]] = n]
  /\ prev' = [prev EXCEPT ![n] = h, ![h] = n]
  /\ lists' = [lists EXCEPT ![h] = Append(@, n)]
  /\ UNCHANGED loop

list_add_tail(h, n) ==
  /\ IsFree(n)
  /\ next' = [next EXCEPT ![n] = h, ![prev[h]] = n]
  /\ prev' = [prev EXCEPT ![n] = prev[h], ![h] = n]
  /\ lists' = [lists EXCEPT ![h] = Append(@, n)]
  /\ UNCHANGED loop

FaultyUnlink(n) ==               \* only the way forward is closed
  /\ next' = [next EXCEPT ![prev[n]] = next[n]]
  /\ UNCHANGED prev

\* What list_del does to the cells around n; n keeps its own pointers.
Unlink(n) ==
  /\ next' = [next EXCEPT ![prev[n]] = next[n]]
  /\ prev' = [prev EXCEPT ![next[n]] = prev[n]]

\* The node that a loop goes on from after its body.
GoesOnFrom == IF loop = NoLoop THEN NULL ELSE IF loop.safe THEN loop.nxt ELSE loop.i

list_del(n) ==
  /\ n # GoesOnFrom
  /\ Unlink(n)
  /\ \E h \in Heads : \E k \in DOMAIN lists[h] :
       lists[h][k] = n /\ lists' = [lists EXCEPT ![h] = RemoveAt(@, k)]
  /\ loop' = IF loop = NoLoop THEN loop ELSE [loop EXCEPT !.stay = @ \ {n}]

-----------------------------------------------------------------------------
(* The loops, as steps of their own, so that anything happens in between.  *)

\* The initialisation of list_for_each and list_for_each_safe.
Enter(h, safe) ==
  /\ loop = NoLoop
  /\ loop' = [head |-> h, safe |-> safe, i |-> next[h], nxt |-> next[next[h]],
              stay |-> ToSet(lists[h]), seen |-> {next[h]}]
  /\ UNCHANGED <<next, prev, lists>>

FaultyAhead ==                   \* list_for_each where deleting asks for _safe
  next[loop.i]

\* The cell that the loop goes to.
Ahead == IF loop.safe THEN loop.nxt ELSE next[loop.i]

\* Their iteration, and their condition.
Advance ==
  /\ loop # NoLoop
  /\ loop' = IF loop.i = loop.head THEN NoLoop
             ELSE [loop EXCEPT !.i = Ahead, !.nxt = next[Ahead], !.seen = @ \cup {Ahead}]
  /\ UNCHANGED <<next, prev, lists>>

list_for_each      == Advance \/ \E h \in Heads : Enter(h, FALSE)
list_for_each_safe == Advance \/ \E h \in Heads : Enter(h, TRUE)

ListNext ==
  \/ \E h \in Heads : list_head_init(h)
  \/ \E h \in Heads, n \in Nodes : list_add(h, n) \/ list_add_tail(h, n)
  \/ \E n \in Nodes : list_del(n)
  \/ list_for_each \/ list_for_each_safe

ListSpec == ListInit /\ [][ListNext]_listVars

-----------------------------------------------------------------------------
(* What tells about a list and leaves it alone.                            *)

list_empty(h)       == next[h] = h
list_is_last(h, n)  == next[n] = h
list_is_first(h, n) == prev[n] = h
_list_top(h)        == IF list_empty(h) THEN NULL ELSE next[h]

\* list_check(h, NULL) # NULL: the way forward, as far as it does not come
\* back to the head, is the way back.
list_check(h) ==
  LET max == Cardinality(Cells)
      way[k \in 0..max] == IF k = 0 THEN h ELSE next[way[k - 1]]
  IN  IF list_empty(h) THEN prev[h] = h
      ELSE \A k \in 1..max :
             (\A j \in 1..k : way[j] # h) => prev[way[k]] = way[k - 1]

-----------------------------------------------------------------------------
(* Properties.                                                             *)

Ring(h) == <<h>> \o lists[h] \o <<h>>

\* Both pointers of the cells of a list lead along its members, forward and
\* back, whatever was added, deleted and moved before (list_add,
\* list_add_tail, list_del).
Linked ==
  \A h \in Heads : \A k \in 1..(Len(lists[h]) + 1) :
    next[Ring(h)[k]] = Ring(h)[k + 1] /\ prev[Ring(h)[k + 1]] = Ring(h)[k]

\* What list.h answers about a list is what its members say, and list_check
\* accepts it.
AnswersAgree ==
  \A h \in Heads :
    /\ list_check(h)
    /\ list_empty(h) <=> lists[h] = <<>>
    /\ lists[h] # <<>> => _list_top(h) = Head(lists[h])
    /\ \A n \in ToSet(lists[h]) : /\ list_is_first(h, n) <=> n = Head(lists[h])
                                  /\ list_is_last(h, n) <=> n = Last(lists[h])

\* A loop visits every member that stays on the list exactly once, in its
\* order, although others come and go meanwhile and list_for_each_safe may
\* delete the one it is at: before each step, the members not yet visited are
\* those from the cell on that the loop goes to next (list_for_each,
\* list_for_each_safe).
LoopKeepsPlace ==
  loop # NoLoop =>
    LET ms == lists[loop.head]
    IN  IF loop.i = loop.head THEN loop.stay \subseteq loop.seen
        ELSE \E k \in 1..(Len(ms) + 1) :
               /\ Ahead = Append(ms, loop.head)[k]
               /\ loop.stay \ loop.seen = loop.stay \cap {ms[j] : j \in k..Len(ms)}
=============================================================================
