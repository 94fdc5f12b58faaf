----------------------------- MODULE LinkedList -----------------------------
(***************************************************************************)
(* The intrusive doubly linked list of util/list.c.  A list is a record of *)
(* its head, its tail, its size counter and the next and prev fields of    *)
(* all nodes that may be linked into it; NULL is the zero pointer.  The    *)
(* operators are the C functions, with the order of their assignments:     *)
(* they check nothing about membership, and list_remove leaves the fields  *)
(* of the removed node as they are.                                        *)
(***************************************************************************)
EXTENDS Integers, Sequences, FiniteSets

CONSTANT NULL

\* list_init, with next and prev of the nodes not in any list.
list_init(Nodes) ==
  [head |-> NULL, tail |-> NULL, size |-> 0,
   next |-> [n \in Nodes |-> NULL], prev |-> [n \in Nodes |-> NULL]]

\* Writes field[n] := v unless n is the zero pointer.
Store(field, n, v) == IF n = NULL THEN field ELSE [field EXCEPT ![n] = v]

list_insert_before(L, node, new) ==
  LET before == L.prev[node] IN
  [L EXCEPT !.prev = [@ EXCEPT ![new] = before, ![node] = new],
            !.next = Store([@ EXCEPT ![new] = node], before, new),
            !.head = IF before = NULL THEN new ELSE @,
            !.size = @ + 1]

\* Mutated form of list_insert_after: the tail is not moved.
InsertAfterKeepsTail(L, node, new) ==
  LET after == L.next[node] IN
  [L EXCEPT !.next = [@ EXCEPT ![new] = after, ![node] = new],
            !.prev = Store([@ EXCEPT ![new] = node], after, new),
            !.size = @ + 1]

list_insert_after(L, node, new) ==
  LET after == L.next[node] IN
  [L EXCEPT !.next = [@ EXCEPT ![new] = after, ![node] = new],
            !.prev = Store([@ EXCEPT ![new] = node], after, new),
            !.tail = IF after = NULL THEN new ELSE @,
            !.size = @ + 1]

list_add_head(L, node) ==
  IF L.head = NULL
  THEN [L EXCEPT !.head = node, !.tail = node, !.size = @ + 1,
                 !.next[node] = NULL, !.prev[node] = NULL]
  ELSE list_insert_before(L, L.head, node)

list_add_tail(L, node) ==
  IF L.tail = NULL THEN list_add_head(L, node)
                   ELSE list_insert_after(L, L.tail, node)

\* Mutated form of list_remove: the successor keeps its link back.
RemoveKeepsBackLink(L, node) ==
  LET before == L.prev[node]
      after  == L.next[node] IN
  [L EXCEPT !.next = Store(@, before, after),
            !.head = IF before = NULL THEN after ELSE @,
            !.tail = IF after = NULL THEN before ELSE @,
            !.size = @ - 1]

list_remove(L, node) ==
  LET before == L.prev[node]
      after  == L.next[node] IN
  [L EXCEPT !.next = Store(@, before, after),
            !.prev = Store(@, after, before),
            !.head = IF before = NULL THEN after ELSE @,
            !.tail = IF after = NULL THEN before ELSE @,
            !.size = @ - 1]
-----------------------------------------------------------------------------
\* s is what a walk along the next fields meets first.
IsChain(L, s) ==
  \A i \in 1 .. Len(s) : s[i] = IF i = 1 THEN L.head ELSE L.next[s[i - 1]]

\* The nodes met when the list is walked from its head, as list_for_each does:
\* the i-th one, NULL past the end.
Walk(L) ==
  LET Nodes == DOMAIN L.next
      step  == [n \in Nodes \cup {NULL} |-> IF n = NULL THEN NULL ELSE L.next[n]]
      at[i \in 1 .. Cardinality(Nodes) + 1] ==
        IF i = 1 THEN L.head ELSE step[at[i - 1]]
  IN at

\* The contents of the list as a sequence (its first nodes if it is cyclic).
Elements(L) ==
  LET at == Walk(L)
      Len0 == Cardinality({i \in DOMAIN at : at[i] # NULL})
  IN [i \in 1 .. Len0 |-> at[i]]

\* A list whose two chains agree with each other, with its ends and with its
\* size counter.
WellFormed(L) ==
  LET s == Elements(L) IN
  /\ Len(s) <= Cardinality(DOMAIN L.next)
  /\ L.size = Len(s)
  /\ L.tail = IF s = <<>> THEN NULL ELSE s[Len(s)]
  /\ \A i \in 1 .. Len(s) : L.prev[s[i]] = IF i = 1 THEN NULL ELSE s[i - 1]
=============================================================================
