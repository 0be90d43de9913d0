----------------------------- MODULE SortedList ------------------------------
(***************************************************************************)
(* The singly linked list of list.c: the sequence of its nodes and the     *)
(* counter that the code keeps beside it.  A key is a number, its place in *)
(* the order of strcmp.                                                    *)
(***************************************************************************)
EXTENDS TableSkel, Sequences

ASSUME KeyOrder == Key \subseteq Int

Entry == [key : Key, val : Val]
List == [node : Seq(Entry), size : Int]

list_create == [node |-> <<>>, size |-> 0]

HasKey(l, k) == \E i \in 1..Len(l.node) : l.node[i].key = k

\* The node that a search for k stops at: the first one with this key.
Find(l, k) ==
  CHOOSE i \in 1..Len(l.node) :
    l.node[i].key = k /\ \A j \in 1..Len(l.node) : j < i => l.node[j].key # k

list_get(l, k) == IF HasKey(l, k) THEN l.node[Find(l, k)].val ELSE NoVal

-----------------------------------------------------------------------------
\* list_add: the loop leaves at the first node where one of its tests holds.
Leaves(n, k, i) == \/ n[i].key = k
                   \/ n[i].key < k
                   \/ i = Len(n)
                   \/ n[i + 1].key < k

LeavesAt(n, k) ==
  CHOOSE i \in 1..Len(n) :
    Leaves(n, k, i) /\ \A j \in 1..Len(n) : j < i => ~Leaves(n, k, j)

\* The nodes after it.  The test for a smaller key makes the new node the
\* head, wherever the loop is.
Inserted(n, e) ==
  LET i == LeavesAt(n, e.key) IN
  CASE n[i].key = e.key -> [n EXCEPT ![i] = e]
    [] n[i].key < e.key -> <<e>> \o SubSeq(n, i, Len(n))
    [] n[i].key > e.key -> SubSeq(n, 1, i) \o <<e>> \o SubSeq(n, i + 1, Len(n))

AddedAtTail(l, e) ==
  [node |-> Append(l.node, e), size |-> l.size + 1]

list_add(l, e) ==
  IF l.node = <<>>
  THEN [node |-> <<e>>, size |-> l.size + 1]
  ELSE [node |-> Inserted(l.node, e),
        size |-> IF l.node[LeavesAt(l.node, e.key)].key = e.key
                 THEN l.size ELSE l.size + 1]

\* list_remove of a key that is there; otherwise it returns -1.
RemovedKeepsSize(l, k) ==
  LET i == Find(l, k) IN
  [node |-> SubSeq(l.node, 1, i - 1) \o SubSeq(l.node, i + 1, Len(l.node)),
   size |-> l.size]

list_remove(l, k) ==
  LET i == Find(l, k) IN
  [node |-> SubSeq(l.node, 1, i - 1) \o SubSeq(l.node, i + 1, Len(l.node)),
   size |-> l.size - 1]

\* The entries are stored through the pointer that list_get returned.
list_set(l, k, v) == [l EXCEPT !.node[Find(l, k)].val = v]

\* The array of list_get_keys ends at index size.
list_get_keys(l) == {l.node[i].key : i \in 1..l.size}

\* The nodes are in strictly descending order of their keys, the order that
\* list_add relies on to lose no node.
Sorted(l) == \A i, j \in 1..Len(l.node) : i < j => l.node[i].key > l.node[j].key
=============================================================================
