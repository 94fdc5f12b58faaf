-------------------------------- MODULE Heap --------------------------------
(***************************************************************************)
(* The kernel heap, mm/heap.c with mm/range.c: an address range cut into   *)
(* nodes, each with a header on a page of its own in front of its memory.  *)
(*                                                                         *)
(* The unit is the page; address 0 is the null pointer.  The contents of a *)
(* page are a header, data of whoever allocated it, or nothing at all when *)
(* the page is not mapped.  Every public function holds heap_lock and is   *)
(* one step.  A step that uses a page as a header which holds none, or     *)
(* that calls panic, ends the run of the kernel.                           *)
(*                                                                         *)
(* The frame allocator and the page tables are external: pmm_alloc,        *)
(* pmm_alloc_contiguous and vmm_map fail whenever they like.               *)
(***************************************************************************)
EXTENDS Integers, Sequences, FiniteSets

CONSTANTS NPages,      \* pages of the heap: the addresses 1 .. NPages
          MaxSize,     \* bound on the size of a request
          Alignment    \* alignment of contiguous requests, FRAME_SIZE_1G

ASSUME HeapConstants ==
  /\ NPages \in Nat /\ NPages > 2
  /\ MaxSize \in Nat \ {0} /\ Alignment \in Nat \ {0}

Pages == 1 .. NPages

VARIABLES
  heap,     \* page: the contents of the pages; root: heap_root;
            \* fault: why the kernel stopped, "none" while it runs
  live      \* what callers hold: first page, number of pages and node state

vars == <<heap, live>>

Unmapped == [kind |-> "none", next |-> 0, prev |-> 0, state |-> "free", start |-> 0, end |-> 0]
DataPage == [Unmapped EXCEPT !.kind = "data"]
Header(next, prev, start, end) ==
  [kind |-> "node", next |-> next, prev |-> prev, state |-> "free", start |-> start, end |-> end]

\* heap_init: one free node, with its header on the first page.
Init ==
  /\ heap = [page |-> [p \in Pages |-> IF p = 1 THEN Header(0, 0, 2, NPages) ELSE Unmapped],
             root |-> 1, fault |-> "none"]
  /\ live = {}

IsNode(h, p) == p \in Pages /\ h.page[p].kind = "node"
Set(h, p, content) == [h EXCEPT !.page[p] = content]
Unmap(h, p) == IF p \in Pages THEN Set(h, p, Unmapped) ELSE h

\* h continues as r if all of the non-null pages in S are headers; using any
\* other page as a header is a fault.
Using(h, S, r) == IF \A p \in S \ {0} : IsNode(h, p) THEN r ELSE [h EXCEPT !.fault = "header"]
-----------------------------------------------------------------------------
\* range_free: every page must be mapped, and is unmapped.
range_free(h, first, last) ==
  IF \E p \in first .. last : h.page[p].kind = "none"
  THEN [h EXCEPT !.fault = "panic"]
  ELSE [h EXCEPT !.page = [p \in Pages |-> IF p \in first .. last THEN Unmapped ELSE @[p]]]

\* Mapping of n pages from first on.
MapData(h, first, n) ==
  [h EXCEPT !.page = [p \in Pages |-> IF p \in first .. first + n - 1 THEN DataPage ELSE @[p]]]

\* Coalesce the node at a with the free node that follows it.
CoalesceNext(h, a) ==
  LET n == h.page[a].next
      nn == h.page[n].next
      linked == Set(h, a, [h.page[a] EXCEPT !.next = nn, !.end = h.page[n].end])
  IN IF n = 0 THEN h
     ELSE IF ~IsNode(h, n) THEN [h EXCEPT !.fault = "header"]
     ELSE IF h.page[n].state # "free" \/ h.page[a].end + 1 # n THEN h
     ELSE Using(h, {nn},
            Unmap(IF nn = 0 THEN linked ELSE [linked EXCEPT !.page[nn].prev = a], n))

\* Coalesce the node at a with the free node in front of it.  The header that is
\* given back is the one that next still points to, read before the node was
\* coalesced with its successor.
CoalescePrev(h, a, next) ==
  LET b == h.page[a].prev
      n == h.page[a].next
      linked == Set(h, b, [h.page[b] EXCEPT !.next = n, !.end = h.page[a].end])
  IN IF b = 0 THEN h
     ELSE IF ~IsNode(h, b) THEN [h EXCEPT !.fault = "header"]
     ELSE IF h.page[b].state # "free" \/ h.page[b].end + 1 # a THEN h
     ELSE Using(h, {n},
            Unmap(IF n = 0 THEN linked ELSE [linked EXCEPT !.page[n].prev = b], next))

\* _heap_free of the memory at ptr.
FreeNode(h, ptr) ==
  LET a == ptr - 1
      N == h.page[a]
      h1 == IF N.state = "allocated" THEN range_free(h, N.start, N.end) ELSE h
      h2 == [h1 EXCEPT !.page[a].state = "free"]
      h3 == CoalesceNext(h2, a)
  IN IF ~IsNode(h, a) THEN [h EXCEPT !.fault = "header"]
     ELSE IF h1.fault # "none" THEN h1
     ELSE IF h3.fault # "none" THEN h3
     ELSE CoalescePrev(h3, a, N.next)
-----------------------------------------------------------------------------
AlignedStart(N, alignment) ==
  ((N.start + alignment - 1) \div alignment) * alignment - 1

\* Mutated form of Fits: nodes that are not free are not skipped.
FitsAnyState(N, size, alignment) ==
  AlignedStart(N, alignment) + 1 + size <= N.end + 1

Fits(N, size, alignment) ==
  N.state = "free" /\ AlignedStart(N, alignment) + 1 + size <= N.end + 1

\* The headers that find_node looks at, from the root on, up to the first that
\* fits, the null pointer or a page that is no header.
Search(h, size, alignment) ==
  LET s[n \in 0 .. NPages] ==
        IF n = 0 THEN h.root
        ELSE LET p == s[n - 1]
             IN IF ~IsNode(h, p) \/ Fits(h.page[p], size, alignment) THEN p
                ELSE h.page[p].next
  IN s[NPages]

\* Move the header at a to b, giving up the pages in between.
MoveNode(h, a, b) ==
  LET N == h.page[a]
      moved == Set(Unmap(h, a), b, [N EXCEPT !.start = b + 1])
      behind == IF N.prev = 0 THEN [moved EXCEPT !.root = b]
                ELSE [moved EXCEPT !.page[N.prev].next = b]
  IN Using(h, {N.prev, N.next},
       IF N.next = 0 THEN behind ELSE [behind EXCEPT !.page[N.next].prev = b])

\* Mutated form of SplitNode: the node behind the new one keeps its old
\* predecessor.
SplitKeepsPrev(h, a, size) ==
  LET N == h.page[a]
      b == N.start + size
      cut == Set(Set(h, b, Header(N.next, a, b + 1, N.end)),
                 a, [N EXCEPT !.end = b - 1, !.next = b])
  IN IF N.end + 1 - b < 2 THEN h ELSE Using(h, {N.next}, cut)

\* Cut the node at a behind its first size pages, if two pages are left over.
SplitNode(h, a, size) ==
  LET N == h.page[a]
      b == N.start + size
      cut == Set(Set(h, b, Header(N.next, a, b + 1, N.end)),
                 a, [N EXCEPT !.end = b - 1, !.next = b])
  IN IF N.end + 1 - b < 2 THEN h
     ELSE Using(h, {N.next}, IF N.next = 0 THEN cut ELSE [cut EXCEPT !.page[N.next].prev = b])

\* find_node, once a node that fits is found at a; split says whether the page
\* for the header of the rest could be allocated and mapped.
TakeNode(h, a, size, alignment, split) ==
  LET b == AlignedStart(h.page[a], alignment)
      h1 == IF b = a THEN h ELSE MoveNode(h, a, b)
      h2 == IF split /\ h1.fault = "none" THEN SplitNode(h1, b, size) ELSE h1
  IN IF h2.fault # "none" THEN h2 ELSE [h2 EXCEPT !.page[b].state = "reserved"]
-----------------------------------------------------------------------------
Running == heap.fault = "none"

\* The search ends at a page that is no header.
SearchFaults(size, alignment) ==
  LET a == Search(heap, size, alignment) IN
  /\ Running
  /\ ~IsNode(heap, a)
  /\ a # 0
  /\ heap' = [heap EXCEPT !.fault = "header"]
  /\ UNCHANGED live

\* What a request does after find_node: h is the heap with the node taken, at
\* ptr - 1.  The caller gets the memory.
Hand(h, ptr, size, state) ==
  /\ heap' = [h EXCEPT !.page[ptr - 1].state = state]
  /\ live' = live \cup {[ptr |-> ptr, size |-> size, state |-> state]}

\* heap_reserve, with room for it.
heap_reserve(size, split) ==
  LET a == Search(heap, size, 1)
      h == TakeNode(heap, a, size, 1, split)
  IN
  /\ Running /\ IsNode(heap, a)
  /\ IF h.fault # "none" THEN heap' = h /\ UNCHANGED live
     ELSE Hand(h, a + 1, size, "reserved")

\* heap_alloc; range_alloc maps the pages one by one and, when it cannot go on
\* after got of them, gives the whole range back.
heap_alloc(size, split, got) ==
  LET a == Search(heap, size, 1)
      h == TakeNode(heap, a, size, 1, split)
      back == range_free(MapData(h, a + 1, got), a + 1, a + size)
  IN
  /\ Running /\ IsNode(heap, a)
  /\ IF h.fault # "none" THEN heap' = h /\ UNCHANGED live
     ELSE IF got = size THEN Hand(MapData(h, a + 1, size), a + 1, size, "allocated")
     ELSE /\ heap' = IF back.fault # "none" THEN back ELSE FreeNode(back, a + 1)
          /\ UNCHANGED live

\* One attempt of heap_alloc_contiguous; range_alloc_contiguous maps all of the
\* pages or none.
heap_alloc_contiguous(size, split, ok) ==
  LET a == Search(heap, size, Alignment)
      b == AlignedStart(heap.page[a], Alignment)
      h == TakeNode(heap, a, size, Alignment, split)
  IN
  /\ Running /\ IsNode(heap, a)
  /\ IF h.fault # "none" THEN heap' = h /\ UNCHANGED live
     ELSE IF ok THEN Hand(MapData(h, b + 1, size), b + 1, size, "allocated")
     ELSE heap' = FreeNode(h, b + 1) /\ UNCHANGED live

\* The header cannot be mapped at its aligned place.
RemapFails(size) ==
  LET a == Search(heap, size, Alignment) IN
  /\ Running /\ IsNode(heap, a)
  /\ AlignedStart(heap.page[a], Alignment) # a
  /\ heap' = [Unmap(heap, a) EXCEPT !.fault = "panic"]
  /\ UNCHANGED live

\* heap_free by a caller of memory that it holds.
heap_free(x) ==
  /\ Running
  /\ heap' = FreeNode(heap, x.ptr)
  /\ live' = live \ {x}

Next ==
  \/ \E size \in 1 .. MaxSize :
       \/ \E alignment \in {1, Alignment} : SearchFaults(size, alignment)
       \/ RemapFails(size)
       \/ \E split \in BOOLEAN :
            \/ heap_reserve(size, split)
            \/ \E got \in 0 .. size : heap_alloc(size, split, got)
            \/ \E ok \in BOOLEAN : heap_alloc_contiguous(size, split, ok)
  \/ \E x \in live : heap_free(x)

Spec == Init /\ [][Next]_vars
-----------------------------------------------------------------------------
PagesOf(x) == x.ptr .. x.ptr + x.size - 1

\* The headers on the list, from the root on.
OnList ==
  LET s[n \in 0 .. NPages] ==
        IF n = 0 THEN {heap.root}
        ELSE s[n - 1] \cup {heap.page[p].next : p \in {q \in s[n - 1] : IsNode(heap, q)}}
  IN s[NPages] \ {0}

\* The types of the pages and of what callers hold.
TypeOK ==
  /\ heap.root \in Pages
  /\ heap.fault \in {"none", "header", "panic"}
  /\ \A p \in Pages :
       heap.page[p] \in [kind : {"none", "data", "node"}, next : 0 .. NPages, prev : 0 .. NPages,
                         state : {"free", "reserved", "allocated"},
                         start : 0 .. NPages, end : 0 .. NPages]
  /\ \A x \in live : PagesOf(x) \subseteq Pages

\* What heap_alloc and heap_reserve handed out stays the caller's until it is
\* freed, also when headers around it are moved, split, joined or unmapped:
\* memory of two callers does not overlap, no header on the list lies in it, and
\* what was allocated stays mapped.
LiveIntact ==
  /\ \A x, y \in live : x # y => PagesOf(x) \cap PagesOf(y) = {}
  /\ Running => \A x \in live :
       /\ PagesOf(x) \cap OnList = {}
       /\ x.state = "allocated" => \A p \in PagesOf(x) : heap.page[p].kind = "data"

\* The list is in the order of addresses without overlap, and its links agree in
\* both directions as far as its headers are mapped (the splits and joins of
\* _heap_alloc and _heap_free).
ListOrdered ==
  /\ TypeOK
  /\ Running => \A p \in OnList : IsNode(heap, p) =>
       LET N == heap.page[p] IN
       /\ N.start = p + 1 /\ N.start <= N.end
       /\ N.next # 0 => N.end < N.next
       /\ IsNode(heap, N.next) => heap.page[N.next].prev = p

\* "check if the magic matches to see if we get passed a dodgy pointer": a caller
\* that frees what it got passes this check.
LivePassesMagicCheck ==
  Running => \A x \in live : IsNode(heap, x.ptr - 1) /\ heap.page[x.ptr - 1].start = x.ptr
=============================================================================
