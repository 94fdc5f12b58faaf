---------------------------- MODULE AddressSpace ----------------------------
(***************************************************************************)
(* The user address space of one process: the list of segments of          *)
(* mm/seg.c on top of the page tables and ranges of PageTables.tla, with   *)
(* the callers that change it: the ELF loader, the stacks of the threads   *)
(* and the heap system calls.                                              *)
(*                                                                         *)
(* Every public function of mm/seg.c holds the lock of the segment list,   *)
(* and the page tables of a process are only changed under it: one call is *)
(* one step.  The calls of different threads come in any order.  malloc    *)
(* may fail.  A panic, a write through a null pointer or an access outside *)
(* the frame stacks stops the kernel.                                      *)
(***************************************************************************)
EXTENDS PageTables, SequencesExt

CONSTANTS Frames,    \* frames the frame allocator starts with
          Requests,  \* the sizes of heap requests in pages
          MaxBlocks, \* bound on the segments: requests of 0 bytes are not made beyond it
          StackPages,\* USER_STACK_SIZE in pages
          Threads,   \* threads of the process
          Elfs       \* executables: sequences of program headers

\* An address counts units of 8 bytes as if a frame had two: FRAME_SIZE * v
\* is the start of page v, and one less is eight bytes below it.
FRAME_SIZE == 2
UserEnd == HalfPages * FRAME_SIZE - 1
UserPages == 1 .. HalfPages - 1

\* Program headers: type, p_vaddr and the pages of p_memsz.
Phdr == [load : BOOLEAN, vaddr : 0 .. UserEnd, pages : Nat]
PagesOf(h) == {v \in 0 .. HalfPages : h.vaddr <= v * FRAME_SIZE /\ v * FRAME_SIZE < h.vaddr + h.pages * FRAME_SIZE}

\* The linker scripts put every segment on pages of its own.
ASSUME AddressSpaceConstants ==
  /\ Requests \union {Frames, MaxBlocks, StackPages} \subseteq Nat
  /\ \A e \in Elfs : \A i, j \in DOMAIN e :
       /\ e[i] \in Phdr
       /\ i # j /\ e[i].load /\ e[j].load => PagesOf(e[i]) \intersect PagesOf(e[j]) = {}

VARIABLES
  mem,      \* the memory, see PageTables
  blocks,   \* block_list of the segments
  phase,    \* "created", then "running" or "failed" once the ELF file was loaded
  stack     \* thread: its user stack (thread->stack and the segment it lies
            \* in), with the state of the thread

vars == <<mem, blocks, phase, stack>>

Block(start, end, state) == [start |-> start, end |-> end, state |-> state]
PageOf(addr) == addr \div FRAME_SIZE
BlockSize(b) == b.end - b.start + 1

NoStack == [state |-> "none", ptr |-> 0, seg |-> 0]

\* vmm_init_pml4 and seg_init: an empty user half, one large free segment
\* without the page of the null pointer.
Init ==
  /\ mem = [pt |-> [p \in Paths |-> IF p = <<1>> THEN "table" ELSE "none"],
            avail |-> Frames, en2m |-> TRUE, frag |-> {}, halt |-> "no"]
  /\ blocks = <<Block(FRAME_SIZE, UserEnd, "free")>>
  /\ phase = "created"
  /\ stack = [t \in Threads |-> NoStack]
-----------------------------------------------------------------------------
\* The functions below take and return the memory and the segments, and say
\* whether they succeeded, and where.
Segs(m, bl, ok, ptr) == [m |-> m, bl |-> bl, ok |-> ok, ptr |-> ptr]

RangeAlloc(m, addr, size) ==
  range_alloc(m, PageOf(addr), PageOf(addr), PageOf(addr + size))
RangeFree(m, addr, size) == range_free(m, PageOf(addr), PageOf(addr + size))

\* The segments with block i allocated from addr on, what is left of it on
\* either side split away as a free block.
Split(bl, i, addr, size) ==
  LET b == bl[i]
      left == IF addr # b.start THEN <<Block(b.start, addr - 1, "free")>> ELSE <<>>
      right == IF addr + size - 1 # b.end THEN <<Block(addr + size, b.end, "free")>> ELSE <<>>
  IN SubSeq(bl, 1, i - 1) \o left \o <<Block(addr, addr + size - 1, "allocated")>> \o right
       \o SubSeq(bl, i + 1, Len(bl))

\* Mutated form of TakeBlock: the range is not freed when malloc fails.
TakeBlockLeaky(m, bl, i, addr, size, malloc) ==
  LET r == RangeAlloc(m, addr, size)
  IN IF r.halt = "no" /\ BlockSize(bl[i]) # size /\ ~malloc
     THEN Segs(r, bl, FALSE, 0)
     ELSE Segs(r, Split(bl, i, addr, size), TRUE, addr)

\* The common part of _seg_alloc_at and _seg_alloc: map the range, get the
\* nodes for what is split away, link them in.
TakeBlock(m, bl, i, addr, size, malloc) ==
  LET r == RangeAlloc(m, addr, size)
  IN IF r.halt = "no" /\ BlockSize(bl[i]) # size /\ ~malloc
     THEN Segs(RangeFree(r, addr, size), bl, FALSE, 0)
     ELSE Segs(r, Split(bl, i, addr, size), TRUE, addr)

\* _seg_alloc_at: the first block around the range, in whatever state it is.
_seg_alloc_at(m, bl, addr, size, malloc) ==
  LET i == SelectInSeq(bl, LAMBDA b : addr >= b.start /\ addr + size - 1 <= b.end)
  IN IF i = 0 THEN Segs(m, bl, FALSE, 0) ELSE TakeBlock(m, bl, i, addr, size, malloc)

\* _seg_alloc: the first free block that is large enough.
_seg_alloc(m, bl, size, malloc) ==
  LET i == SelectInSeq(bl, LAMBDA b : b.state = "free" /\ BlockSize(b) >= size)
  IN IF i = 0 THEN Segs(m, bl, FALSE, 0)
     ELSE TakeBlock(m, bl, i, bl[i].start, size, malloc)

\* Block i merged with the one to its left, or to its right, if that is free.
MergeLeft(bl, i) ==
  IF i > 1 /\ bl[i - 1].state = "free"
  THEN RemoveAt([bl EXCEPT ![i].start = bl[i - 1].start], i - 1) ELSE bl
MergeRight(bl, i) ==
  IF i < Len(bl) /\ bl[i + 1].state = "free"
  THEN RemoveAt([bl EXCEPT ![i].end = bl[i + 1].end], i + 1) ELSE bl

\* Mutated form of FreeBlock: a block is only merged with its right neighbour.
FreeBlockNoLeft(bl, i) == MergeRight([bl EXCEPT ![i].state = "free"], i)

\* Block i freed and merged with both neighbours.
FreeBlock(bl, i) ==
  LET left == MergeLeft([bl EXCEPT ![i].state = "free"], i)
  IN MergeRight(left, IF Len(left) < Len(bl) THEN i - 1 ELSE i)

\* _seg_free: the block that starts at addr, if there is one.
_seg_free(m, bl, addr) ==
  LET i == SelectInSeq(bl, LAMBDA b : b.state # "free" /\ b.start = addr)
  IN IF i = 0 THEN Segs(m, bl, TRUE, 0)
     ELSE LET r == RangeFree(m, addr, BlockSize(bl[i]))
          IN Segs(r, IF r.halt = "no" THEN FreeBlock(bl, i) ELSE bl, TRUE, 0)

RECURSIVE SegFreeAll(_, _, _)
\* The rollback of elf64_load: seg_free for the first n program headers.
SegFreeAll(s, elf, n) ==
  IF s.m.halt # "no" \/ n = 0 THEN s
  ELSE LET before == SegFreeAll(s, elf, n - 1)
       IN _seg_free(before.m, before.bl, elf[n].vaddr)

RECURSIVE LoadFrom(_, _, _, _)
\* The loop of elf64_load, from program header i on.
LoadFrom(s, elf, i, malloc) ==
  LET h == elf[i]
      r == _seg_alloc_at(s.m, s.bl, h.vaddr, h.pages * FRAME_SIZE, malloc)
  IN IF s.m.halt # "no" \/ i > Len(elf) THEN s
     ELSE IF ~h.load THEN LoadFrom(s, elf, i + 1, malloc)
     ELSE IF h.vaddr % FRAME_SIZE = 0 /\ r.ok THEN LoadFrom(r, elf, i + 1, malloc)
     ELSE [SegFreeAll(s, elf, i - 1) EXCEPT !.ok = FALSE]
-----------------------------------------------------------------------------
Runs == mem.halt = "no"

\* The frame allocator has no big frames of the sizes in frag for this call.
With(frag) == [mem EXCEPT !.frag = frag]
Done(s) == mem' = [s.m EXCEPT !.frag = {}] /\ blocks' = s.bl

\* elf64_load for a new process.
elf64_load(elf, frag, malloc) ==
  LET s == LoadFrom(Segs(With(frag), blocks, TRUE, 0), elf, 1, malloc)
  IN /\ Runs /\ phase = "created"
     /\ Done(s)
     /\ phase' = IF s.ok THEN "running" ELSE "failed"
     /\ UNCHANGED stack

\* sys_heap_alloc of n pages, the size rounded up by the system call.
sys_heap_alloc(n, frag, malloc) ==
  /\ Runs /\ phase = "running"
  /\ n = 0 => Len(blocks) < MaxBlocks
  /\ Done(_seg_alloc(With(frag), blocks, n * FRAME_SIZE, malloc))
  /\ UNCHANGED <<phase, stack>>

\* sys_heap_free of any page address.
sys_heap_free(v) ==
  /\ Runs /\ phase = "running"
  /\ Done(_seg_free(mem, blocks, v * FRAME_SIZE))
  /\ UNCHANGED <<phase, stack>>

\* sys_hugepage_mode
sys_hugepage_mode ==
  /\ Runs /\ phase = "running"
  /\ mem' = [mem EXCEPT !.en2m = ~@]
  /\ UNCHANGED <<blocks, phase, stack>>

\* The user stack pointer thread_create derives from a segment: it counts down
\* to the next address with the low bits 8.
StackPointer(seg) == seg - 1

\* thread_create from sys_run_thread, with its user stack.  Without a stack it
\* returns null, and the system call writes through that.
thread_create(t, frag, malloc) ==
  LET s == _seg_alloc(With(frag), blocks, StackPages * FRAME_SIZE, malloc)
  IN /\ Runs /\ phase = "running" /\ stack[t] = NoStack
     /\ blocks' = s.bl
     /\ mem' = [s.m EXCEPT !.frag = {}, !.halt = IF @ = "no" /\ ~s.ok THEN "null" ELSE @]
     /\ stack' = IF s.ok
                 THEN [stack EXCEPT ![t] = [state |-> "running", ptr |-> StackPointer(s.ptr), seg |-> s.ptr]]
                 ELSE stack
     /\ UNCHANGED phase

\* thread_kill: the stack is freed at the pointer the thread was given.
thread_kill(t) ==
  /\ Runs /\ stack[t].state = "running"
  /\ Done(_seg_free(mem, blocks, stack[t].ptr))
  /\ stack' = [stack EXCEPT ![t].state = "zombie"]
  /\ UNCHANGED phase

Next ==
  \/ \E frag \in SUBSET {SIZE_2M, SIZE_1G}, malloc \in BOOLEAN :
       \/ \E elf \in Elfs : elf64_load(elf, frag, malloc)
       \/ \E n \in Requests : sys_heap_alloc(n, frag, malloc)
       \/ \E t \in Threads : thread_create(t, frag, malloc)
  \/ \E v \in UserPages : sys_heap_free(v)
  \/ sys_hugepage_mode
  \/ \E t \in Threads : thread_kill(t)

Spec == Init /\ [][Next]_vars
-----------------------------------------------------------------------------
\* The types of the variables; the frame allocator never owes a frame.
TypeOK ==
  /\ mem \in Memory
  /\ \A i \in DOMAIN blocks : blocks[i].state \in {"free", "allocated"}
  /\ phase \in {"created", "running", "failed"}
  /\ \A t \in Threads : stack[t].state \in {"none", "running", "zombie"}

Mapped(v) == _vmm_size(mem, v) # 0
In(v, b) == b.start <= v * FRAME_SIZE /\ v * FRAME_SIZE <= b.end

\* The segment list and the page tables, which the code keeps in two different
\* structures, agree: the pages of allocated segments are mapped, and no
\* others, after every mixture of allocations with 4K, 2M and 1G pages, frees,
\* failures of malloc and loads that were rolled back.
PagesMatchBlocks ==
  Runs => \A v \in UserPages :
            Mapped(v) <=> \E i \in DOMAIN blocks : blocks[i].state = "allocated" /\ In(v, blocks[i])

\* The segments cut user space into consecutive blocks without a gap or an
\* overlap, and no two neighbours are free: _seg_free has merged them.
BlocksTile ==
  /\ blocks[1].start = FRAME_SIZE /\ blocks[Len(blocks)].end = UserEnd
  /\ \A i \in 1 .. Len(blocks) - 1 :
       /\ blocks[i + 1].start = blocks[i].end + 1
       /\ ~(blocks[i].state = "free" /\ blocks[i + 1].state = "free")

LeafPaths(size) == {Leaf(v, size) : v \in 0 .. HalfPages - 1}
FramesMapped(size) == size * Cardinality({p \in LeafPaths(size) : mem.pt[p] = "page"})
UserTables == {p \in Paths : p[1] = 0 /\ mem.pt[p] = "table"}

\* No frame is lost or used twice: what the frame allocator has left, the
\* tables of user space and the mapped frames add up to what there was, and no
\* empty table is kept (_vmm_touch, _vmm_untouch, range_alloc, range_free).
FramesConserved ==
  /\ TypeOK
  /\ Runs => /\ mem.avail + Cardinality(UserTables)
                  + FramesMapped(SIZE_4K) + FramesMapped(SIZE_2M) + FramesMapped(SIZE_1G) = Frames
             /\ \A p \in UserTables : \E q \in Children(p) : mem.pt[q] # "none"

\* A call that does not change the list of segments, because malloc failed, no
\* block is large enough or none starts at the address, leaves the page tables
\* and the frames as they were: the rollback undoes exactly what was done.
FailureChangesNothing ==
  [][blocks' = blocks /\ mem'.halt = "no" => mem'.pt = mem.pt /\ mem'.avail = mem.avail]_vars

\* thread_kill says it frees the user stack: no segment is left for the stack
\* of a thread that is dead.
KilledThreadsHaveNoStack ==
  \A t \in Threads : stack[t].state = "zombie" =>
    ~\E i \in DOMAIN blocks : blocks[i].state = "allocated" /\ blocks[i].start = stack[t].seg
=============================================================================
