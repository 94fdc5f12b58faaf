----------------------------- MODULE PageTables -----------------------------
(***************************************************************************)
(* The page tables of one address space, mm/vmm.c, and the ranges of pages *)
(* built on them, mm/range.c, as operators on the state of the memory.     *)
(*                                                                         *)
(* A table has Fanout entries instead of 512, and the top table has one    *)
(* entry for user space and one for the kernel.  An entry is named by the  *)
(* path of indices that leads to it: <<i4>> is an entry of the PML4,       *)
(* <<i4, i3, i2, i1>> one of a PML1.  It is absent, a table, or a page of a   *)
(* frame that came from the frame allocator.                               *)
(* Frames have no identity: the frame allocator (Pmm.tla) is the number of *)
(* 4K frames it has left, and the sizes it cannot put together right now.  *)
(* Virtual page v stands for the address v * FRAME_SIZE.                   *)
(***************************************************************************)
EXTENDS Integers, Sequences, FiniteSets

CONSTANTS Fanout,         \* PAGE_TABLE_ENTRY_COUNT below the PML4
          enable1gPages   \* does the processor have 1G pages?

ASSUME PageTableConstants == Fanout \in Nat \ {0, 1} /\ enable1gPages \in BOOLEAN

SIZE_4K == 1
SIZE_2M == Fanout
SIZE_1G == Fanout * Fanout
Sizes == {SIZE_4K, SIZE_2M, SIZE_1G}
HalfPages == Fanout * SIZE_1G      \* pages of user space, and of the kernel

Idx == 0 .. Fanout - 1
Paths == {<<i>> : i \in 0 .. 1} \union {<<h, i>> : h \in 0 .. 1, i \in Idx}
           \union ({0, 1} \X Idx \X Idx) \union ({0, 1} \X Idx \X Idx \X Idx)
Children(p) == {Append(p, i) : i \in Idx}
Below(p) == {q \in Paths : Len(q) > Len(p) /\ SubSeq(q, 1, Len(p)) = p}

\* The entries that addr_to_index finds for virtual page v.
addr_to_index(v) ==
  [pml4 |-> <<v \div HalfPages>>,
   pml3 |-> <<v \div HalfPages, (v \div SIZE_1G) % Fanout>>,
   pml2 |-> <<v \div HalfPages, (v \div SIZE_1G) % Fanout, (v \div SIZE_2M) % Fanout>>,
   pml1 |-> <<v \div HalfPages, (v \div SIZE_1G) % Fanout, (v \div SIZE_2M) % Fanout, v % Fanout>>]

\* The state of the memory: pt, the entries; avail, the free frames; en2m,
\* enable2mPages; frag, the big sizes the frame allocator cannot supply;
\* halt, why the kernel stopped.
Entry == {"none", "table", "page"}
Memory == [pt : [Paths -> Entry], avail : Nat, en2m : BOOLEAN,
           frag : SUBSET {SIZE_2M, SIZE_1G}, halt : {"no", "panic", "corrupt", "null"}]

\* The entry that maps virtual page v with a page of this size.
Leaf(v, size) ==
  LET i == addr_to_index(v)
  IN IF size = SIZE_4K THEN i.pml1 ELSE IF size = SIZE_2M THEN i.pml2 ELSE i.pml3

\* pmm_allocs: a frame of this size can be had; pmm_frees gives it back.
CanAlloc(m, size) == m.avail >= size /\ size \notin m.frag
-----------------------------------------------------------------------------
\* _vmm_size: the size of the page that maps v, 0 if none does.
_vmm_size(m, v) ==
  LET i == addr_to_index(v)
      mapped == {s \in Sizes : m.pt[Leaf(v, s)] = "page"}
  IN IF \/ m.pt[i.pml4] = "none"
        \/ m.pt[i.pml3] = "none"
        \/ m.pt[i.pml3] = "table" /\ m.pt[i.pml2] = "none"
        \/ mapped = {}
     THEN 0
     ELSE CHOOSE s \in mapped : \A r \in mapped : r <= s

\* The tables that must exist before a page of this size can map v.
Tables(v, size) ==
  LET i == addr_to_index(v)
  IN {i.pml4} \union (IF size = SIZE_1G THEN {} ELSE {i.pml3})
       \union (IF size = SIZE_4K THEN {i.pml2} ELSE {})

\* _vmm_touch: make the missing tables, empty, each from a 4K frame.  A big
\* page in the way, or no frame for one of them, undoes the others.
_vmm_touch(m, v, size) ==
  LET new == {p \in Tables(v, size) : m.pt[p] = "none"}
      ok == /\ \A p \in Tables(v, size) : m.pt[p] \in {"none", "table"}
            /\ Cardinality(new) <= m.avail
  IN [ok |-> ok,
      m |-> IF ok THEN [m EXCEPT !.pt = [p \in Paths |-> IF p \in new THEN "table" ELSE @[p]],
                                 !.avail = @ - Cardinality(new)]
            ELSE m]

\* _vmm_maps: build the tables, then write the entry, whatever it held.
\* What was below an entry that becomes a page cannot be reached any more.
_vmm_maps(m, v, size) ==
  LET touched == _vmm_touch(m, v, size)
      leaf == Leaf(v, size)
  IN IF (size = SIZE_1G /\ ~enable1gPages) \/ (size = SIZE_2M /\ ~m.en2m) \/ ~touched.ok
     THEN [ok |-> FALSE, m |-> m]
     ELSE [ok |-> TRUE,
           m |-> [touched.m EXCEPT !.pt = [p \in Paths |->
                    IF p = leaf THEN "page" ELSE IF p \in Below(leaf) THEN "none" ELSE @[p]]]]

\* One level of _vmm_untouch: the table at p is freed if all its entries
\* are absent.
DropEmpty(m, p) ==
  IF \A q \in Children(p) : m.pt[q] = "none"
  THEN [m EXCEPT !.pt[p] = "none", !.avail = @ + 1]
  ELSE m

\* Mutated form of _vmm_untouch: the PML2 is dropped before the PML1 has been
\* looked at.
UntouchTopDown(m, v, size) ==
  LET i == addr_to_index(v)
      m2 == IF size # SIZE_1G THEN DropEmpty(m, i.pml3) ELSE m
      m1 == IF size = SIZE_4K THEN DropEmpty(m2, i.pml2) ELSE m2
  IN IF v < HalfPages THEN DropEmpty(m1, i.pml4) ELSE m1

\* _vmm_untouch: drop the tables v no longer needs, from the PML1 upwards.
\* The tables the PML4 points to are only dropped for user space.
_vmm_untouch(m, v, size) ==
  LET i == addr_to_index(v)
      m1 == IF size = SIZE_4K THEN DropEmpty(m, i.pml2) ELSE m
      m2 == IF size # SIZE_1G THEN DropEmpty(m1, i.pml3) ELSE m1
  IN IF v < HalfPages THEN DropEmpty(m2, i.pml4) ELSE m2

\* _vmm_unmaps
_vmm_unmaps(m, v, size) == _vmm_untouch([m EXCEPT !.pt[Leaf(v, size)] = "none"], v, size)
-----------------------------------------------------------------------------
RECURSIVE range_free(_, _, _)
\* range_free: unmap the pages from v up to end and free their frames.  A
\* page that is not mapped is a panic, with the ones before it freed.
range_free(m, v, end) ==
  LET size == _vmm_size(m, v)
  IN IF m.halt # "no" \/ v >= end THEN m
     ELSE IF size = 0 THEN [m EXCEPT !.halt = "panic"]
     ELSE range_free([_vmm_unmaps(m, v, size) EXCEPT !.avail = @ + size], v + size, end)

\* The page size range_alloc tries for v when this much remains.
Tried(m, v, remaining, size) ==
  /\ size = SIZE_1G => enable1gPages
  /\ size = SIZE_2M => m.en2m
  /\ v % size = 0 /\ remaining >= size
  /\ CanAlloc(m, size)

\* A frame of this size, mapped at v.
MapFrame(m, v, size) == _vmm_maps([m EXCEPT !.avail = @ - size], v, size)

RECURSIVE range_alloc(_, _, _, _)
\* range_alloc: map the pages from v up to end, with the largest pages that
\* fit.  When a big page cannot be mapped its frame goes back with the
\* arguments of pmm_frees exchanged, which indexes the frame stacks with an
\* address.  When a 4K page cannot, the whole range is freed, also the part
\* that was never mapped.
range_alloc(m, first, v, end) ==
  LET tried == {s \in Sizes : Tried(m, v, end - v, s)}
      size == CHOOSE s \in tried : \A r \in tried : r <= s
      mapped == MapFrame(m, v, size)
  IN IF m.halt # "no" \/ v >= end THEN m
     ELSE IF tried = {} THEN range_free(m, first, end)
     ELSE IF mapped.ok THEN range_alloc(mapped.m, first, v + size, end)
     ELSE IF size = SIZE_4K THEN range_free(m, first, end)
     ELSE [m EXCEPT !.halt = "corrupt"]
=============================================================================
