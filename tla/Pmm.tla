-------------------------------- MODULE Pmm --------------------------------
(***************************************************************************)
(* The physical memory manager, mm/pmm.c: nine stacks of free frames, one  *)
(* for each size and zone.  A stack is a chain of stack pages, which are   *)
(* themselves frames, so freeing a frame may allocate one and allocating   *)
(* one may free another.                                                   *)
(*                                                                         *)
(* The unit is the 4K frame: an address is a frame number, 0 is the null   *)
(* address.  The nine stack pages of the kernel image are the negative     *)
(* addresses.  The entries of a stack page above its count are left out:   *)
(* only the defragmentation, which is not modelled here, reads them.       *)
(*                                                                         *)
(* Every public function holds pmmLock and is one step.                    *)
(***************************************************************************)
EXTENDS Integers, Sequences, FiniteSetsExt, SequencesExt

CONSTANTS Ratio,           \* frames of one size in one of the next size, 512
          StackPageSize,   \* PMM_STACK_PAGE_SIZE, 510
          AuxPages,        \* PMM_AUX_PAGES_COUNT, 64
          SplitPages,      \* 2M pages cut up at the end of an entry, 4
          LimitDMA,        \* ZONE_LIMIT_DMA, as the last frame of the zone
          LimitDMA32,      \* ZONE_LIMIT_DMA32
          AddressSpace,    \* frame numbers wrap at this value
          Maps,            \* memory maps: sequences of available <<first, last>>
          Enable1g,        \* values of enable1gPages
          MaxHeld          \* bound on the blocks in use

ASSUME PmmConstants ==
  /\ StackPageSize \in Nat /\ 1 < StackPageSize /\ StackPageSize < Ratio
  /\ LimitDMA < LimitDMA32 /\ LimitDMA32 < AddressSpace
  /\ Enable1g \subseteq BOOLEAN /\ AuxPages \in Nat /\ SplitPages \in Nat /\ MaxHeld \in Nat

\* SIZE_4K, SIZE_2M and SIZE_1G; ZONE_DMA, ZONE_DMA32 and ZONE_STD.
Sizes == 0 .. 2
Zones == 0 .. 2
ZONE_STD == 2
Frames(size) == Ratio ^ size

VARIABLES
  map,     \* the memory map of this machine
  en1g,    \* enable1gPages
  up,      \* pmm_init has run
  mem,     \* page: the stack pages; top: pmmPml1Table, the top page of each
           \* stack; reserved, ready: the list of reserved stack pages and
           \* stackPageListInitialized; aux: the auxiliary pages;
           \* stuck: no stack page was to be had
  held     \* the blocks in use: address, size and the zone asked for

vars == <<map, en1g, up, mem, held>>

StaticPage(size, zone) == -(size * 3 + zone + 1)
Addresses == -9 .. AddressSpace - 1
EmptyPage == [next |-> 0, frames |-> <<>>]
Blank == [page |-> [a \in Addresses |-> EmptyPage],
          top |-> [size \in Sizes |-> [zone \in Zones |-> StaticPage(size, zone)]],
          reserved |-> <<>>, ready |-> FALSE, aux |-> <<>>, stuck |-> FALSE]

Init ==
  /\ map \in Maps /\ en1g \in Enable1g
  /\ up = FALSE /\ mem = Blank /\ held = {}
-----------------------------------------------------------------------------
\* Mutated form of get_zone: off by one at the limits.
GetZoneOffByOne(size, addr) ==
  LET last == addr + Frames(size) - 2
  IN  IF last <= LimitDMA THEN 0 ELSE IF last <= LimitDMA32 THEN 1 ELSE ZONE_STD

get_zone(size, addr) ==
  LET last == addr + Frames(size) - 1
  IN  IF last <= LimitDMA THEN 0 ELSE IF last <= LimitDMA32 THEN 1 ELSE ZONE_STD

TopPage(m, size, zone) == m.page[m.top[size][zone]]
SetTopFrames(m, size, zone, frames) == [m EXCEPT !.page[m.top[size][zone]].frames = frames]

\* stack_switch to the page below the top; the old top is no stack page any more.
PopPage(m, size, zone) ==
  [m EXCEPT !.top[size][zone] = TopPage(m, size, zone).next,
            !.page[m.top[size][zone]] = EmptyPage]

\* stack_switch to a new top page, which holds the given frames.
PushPage(m, size, zone, addr, frames) ==
  [m EXCEPT !.page[addr] = [next |-> m.top[size][zone], frames |-> frames],
            !.top[size][zone] = addr]

RECURSIVE _pmm_free(_, _, _, _)
RECURSIVE _pmm_alloc(_, _, _, _)
RECURSIVE FreeInZone(_, _, _, _)
RECURSIVE Take(_, _, _)
RECURSIVE PushEntries(_, _)
RECURSIVE PushRanges(_, _)
RECURSIVE FreeEach(_, _, _)

InsertDescending(s, addr) ==
  LET smaller == {i \in 1 .. Len(s) : s[i] < addr}
  IN  InsertAt(s, IF smaller = {} THEN Len(s) + 1 ELSE Min(smaller), addr)

\* Mutated form of _pmm_try_reserve_as_stack_page: the frame that made room for addr is not freed.
ReserveLosesLast(m, addr) ==
  IF ~m.ready \/ (Len(m.reserved) = StackPageSize /\ Last(m.reserved) >= addr)
  THEN [ok |-> FALSE, m |-> m]
  ELSE [ok |-> TRUE,
        m |-> [m EXCEPT !.reserved =
                 InsertDescending(IF Len(@) = StackPageSize THEN Front(@) ELSE @, addr)]]

\* A full list takes a frame only in exchange for its last one, which is freed.
_pmm_try_reserve_as_stack_page(m, addr) ==
  IF ~m.ready \/ (Len(m.reserved) = StackPageSize /\ Last(m.reserved) >= addr)
  THEN [ok |-> FALSE, m |-> m]
  ELSE IF Len(m.reserved) < StackPageSize
  THEN [ok |-> TRUE, m |-> [m EXCEPT !.reserved = InsertDescending(@, addr)]]
  ELSE LET out == Last(m.reserved)
           m1 == [m EXCEPT !.reserved = InsertDescending(Front(@), addr)]
       IN  [ok |-> TRUE, m |-> IF out = 0 THEN m1 ELSE _pmm_free(m1, 0, get_zone(0, out), out)]

\* Mutated form of StackPage: the page stays on the list.
StackPageStaysReserved(m) ==
  IF m.reserved # <<>> THEN [addr |-> Head(m.reserved), m |-> m]
  ELSE _pmm_alloc(m, 0, ZONE_STD, ZONE_STD)

\* The list of reserved pages comes first, then the stacks of 4K frames.
StackPage(m) ==
  IF m.reserved # <<>>
  THEN [addr |-> Head(m.reserved), m |-> [m EXCEPT !.reserved = Tail(@)]]
  ELSE _pmm_alloc(m, 0, ZONE_STD, ZONE_STD)

HasRoom(frames) == Len(frames) # StackPageSize

\* Without a new stack page the frame itself, or a part of it, is to become
\* one; stuck records that this happened, and the state is not followed.
_pmm_free(m, size, zone, addr) ==
  LET r == _pmm_try_reserve_as_stack_page(m, addr)
      frames == TopPage(m, size, zone).frames
      new == StackPage(m)
  IN  IF size = 0 /\ r.ok THEN r.m
      ELSE IF HasRoom(frames)
      THEN SetTopFrames(m, size, zone, Append(frames, addr))
      ELSE IF size = 0 /\ zone = ZONE_STD
      THEN PushPage(m, size, zone, addr, <<>>)
      ELSE IF new.addr # 0
      THEN PushPage(new.m, size, zone, new.addr, <<addr>>)
      ELSE [new.m EXCEPT !.stuck = TRUE]

\* Frees the frames of the given size in first .. end - 1, in ascending order.
Pieces(first, end, size) ==
  [i \in 1 .. (end - first) \div Frames(size) |-> first + (i - 1) * Frames(size)]
FreeInZone(m, size, zone, addrs) ==
  IF m.stuck \/ addrs = <<>> THEN m
  ELSE FreeInZone(_pmm_free(m, size, zone, Head(addrs)), size, zone, Tail(addrs))

\* The top page of a stack is empty: its own frame may satisfy the request.
UseNextPage(m, size, zone) ==
  LET old == m.top[size][zone]
      oldZone == get_zone(0, old)
      m1 == PopPage(m, size, zone)
      r == _pmm_try_reserve_as_stack_page(m1, old)
  IN  IF r.ok THEN _pmm_alloc(r.m, size, zone, zone)
      ELSE IF size = 0 /\ oldZone <= zone THEN [addr |-> old, zone |-> oldZone, m |-> m1]
      ELSE _pmm_alloc(_pmm_free(m1, 0, oldZone, old), size, zone, zone)

\* Mutated form of Split: the block is looked for in the lowest zone only.
SplitInLowestZone(m, size, maxZone) ==
  LET r == _pmm_alloc(m, size + 1, 0, 0)
      rest == Pieces(r.addr + Frames(size), r.addr + Frames(size + 1), size)
  IN  IF r.addr = 0 THEN r ELSE [r EXCEPT !.m = FreeInZone(r.m, size, r.zone, rest)]

\* A block of the next size is split, and all but its first piece are freed.
Split(m, size, maxZone) ==
  LET r == _pmm_alloc(m, size + 1, maxZone, maxZone)
      rest == Pieces(r.addr + Frames(size), r.addr + Frames(size + 1), size)
  IN  IF r.addr = 0 THEN r ELSE [r EXCEPT !.m = FreeInZone(r.m, size, r.zone, rest)]

_pmm_alloc(m, size, zone, maxZone) ==
  LET p == TopPage(m, size, zone)
  IN  IF p.frames # <<>>
      THEN [addr |-> Last(p.frames), zone |-> zone, m |-> SetTopFrames(m, size, zone, Front(p.frames))]
      ELSE IF p.next # 0 THEN UseNextPage(m, size, zone)
      ELSE IF zone > 0 THEN _pmm_alloc(m, size, zone - 1, maxZone)
      ELSE IF size < 2 THEN Split(m, size, maxZone)
      ELSE [addr |-> 0, zone |-> zone, m |-> m]
-----------------------------------------------------------------------------
\* Without 1G pages a range of them is pushed as 2M pages.
FreeEach(m, size, addrs) ==
  IF m.stuck \/ addrs = <<>> THEN m
  ELSE FreeEach(_pmm_free(m, size, get_zone(size, Head(addrs)), Head(addrs)), size, Tail(addrs))
pmm_push_range(m, first, end, size) ==
  LET s == IF size = 2 /\ ~en1g THEN 1 ELSE size
  IN  FreeEach(m, s, Pieces(first, end, s))

AlignUp(a, size) == ((a + Frames(size) - 1) \div Frames(size)) * Frames(size)
AlignDown(a, size) == (a \div Frames(size)) * Frames(size)

\* Without 1G pages up to SplitPages 2M pages at the end become 4K pages, as long as
\* they lie above 4G and in the range; the subtraction is unsigned.
SplitEnd(start2m, end2m) ==
  LET rest(k) == (end2m - k * Frames(1)) % AddressSpace
      fits == {k \in 0 .. SplitPages : rest(k) > LimitDMA32 /\ rest(k) >= start2m}
  IN  IF en1g \/ start2m > end2m \/ fits = {} THEN end2m ELSE rest(Max(fits))

\* The ranges pushed for the entry start .. end - 1, in order: first, end, size.
Layout(start, end) ==
  LET s2 == AlignUp(start, 1)
      e2 == SplitEnd(s2, AlignDown(end, 1))
      s1 == AlignUp(start, 2)
      e1 == AlignDown(end, 2)
      edges == << <<start, s2, 0>>, <<e2, end, 0>> >>
  IN  IF s1 <= e1 THEN edges \o << <<s2, s1, 1>>, <<e1, e2, 1>>, <<s1, e1, 2>> >>
      ELSE IF s2 <= e2 THEN Append(edges, <<s2, e2, 1>>)
      ELSE << <<start, end, 0>> >>

PushRanges(m, ranges) ==
  IF m.stuck \/ ranges = <<>> THEN m
  ELSE LET r == Head(ranges)
       IN  PushRanges(IF r[1] <= r[2] THEN pmm_push_range(m, r[1], r[2], r[3]) ELSE m, Tail(ranges))
PushEntries(m, entries) ==
  IF m.stuck \/ entries = <<>> THEN m
  ELSE PushEntries(PushRanges(m, Layout(Head(entries)[1], Head(entries)[2] + 1)), Tail(entries))

\* n frames for the manager's own use: the memory and the result of every call.
Take(m, n, got) ==
  IF m.stuck \/ n = 0 THEN [m |-> m, got |-> got]
  ELSE LET r == _pmm_alloc(m, 0, ZONE_STD, ZONE_STD)
       IN  Take(r.m, n - 1, Append(got, r.addr))

pmm_init ==
  /\ ~up
  /\ LET list == Take(PushEntries(mem, map), StackPageSize, <<>>)
         aux == Take([list.m EXCEPT !.reserved = list.got, !.ready = TRUE], AuxPages, <<>>)
     IN  mem' = [aux.m EXCEPT !.aux = aux.got]
  /\ up' = TRUE
  /\ UNCHANGED <<map, en1g, held>>

pmm_allocsz(size, zone) ==
  LET r == _pmm_alloc(mem, size, zone, zone)
  IN  /\ up /\ Cardinality(held) < MaxHeld
      /\ mem' = r.m
      /\ held' = IF r.addr = 0 THEN held
                 ELSE held \cup {[addr |-> r.addr, size |-> size, zone |-> zone]}
      /\ UNCHANGED <<map, en1g, up>>

\* Callers free what they hold, with the size they asked for.
pmm_frees(b) ==
  /\ up /\ b \in held
  /\ mem' = _pmm_free(mem, b.size, get_zone(b.size, b.addr), b.addr)
  /\ held' = held \ {b}
  /\ UNCHANGED <<map, en1g, up>>

Next ==
  \/ pmm_init
  \/ \E size \in Sizes, zone \in Zones : pmm_allocsz(size, zone)
  \/ \E b \in held : pmm_frees(b)

Spec == Init /\ [][Next]_vars
-----------------------------------------------------------------------------
\* The pages of a stack, from page a downwards.
RECURSIVE Chain(_, _, _)
Chain(m, a, seen) ==
  IF a = 0 \/ a \in seen THEN seen ELSE Chain(m, m.page[a].next, seen \cup {a})
StackPages(m, size, zone) == Chain(m, m.top[size][zone], {})

\* Every block of memory and where it is kept: <<keeper, place, address, frames>>.
FreeBlocks(m, size, zone) ==
  UNION {{<<size * 3 + zone, <<a, i>>, m.page[a].frames[i], Frames(size)>> :
            i \in 1 .. Len(m.page[a].frames)} : a \in StackPages(m, size, zone)}
PagesAsBlocks(m, size, zone) ==
  {<<size * 3 + zone, <<a, 0>>, a, 1>> : a \in StackPages(m, size, zone) \ {StaticPage(size, zone)}}
ListBlocks(keeper, s) == {<<keeper, <<0, i>>, s[i], 1>> : i \in 1 .. Len(s)}
Blocks ==
  UNION {FreeBlocks(mem, size, zone) \cup PagesAsBlocks(mem, size, zone) : size \in Sizes, zone \in Zones}
  \cup ListBlocks(9, mem.reserved) \cup ListBlocks(10, mem.aux)
  \cup {<<11, <<b.addr, b.size>>, b.addr, Frames(b.size)>> : b \in held}

FramesOf(b) == b[3] .. b[3] + b[4] - 1
Available == UNION {map[i][1] .. map[i][2] : i \in 1 .. Len(map)}

\* The state is well-formed; no stack page and no list of reserved pages holds
\* more than it has room for; a block lies below the limit of the zone it was
\* asked for, whether it came from a stack, from a split, or was a stack page
\* (pmm_allocsz).
TypeOK ==
  /\ map \in Maps /\ en1g \in Enable1g /\ up \in BOOLEAN
  /\ mem.top \in [Sizes -> [Zones -> Addresses \ {0}]]
  /\ \A a \in Addresses : Len(mem.page[a].frames) <= StackPageSize
  /\ Len(mem.reserved) <= StackPageSize
  /\ \A b \in held :
       /\ b.size \in Sizes /\ b.zone \in Zones
       /\ b.zone = 0 => b.addr + Frames(b.size) - 1 <= LimitDMA
       /\ b.zone = 1 => b.addr + Frames(b.size) - 1 <= LimitDMA32

\* pmm_init fills the stacks with ranges that follow each other (pmm.c:901-902),
\* and from then on every frame is in one place at most: no frame is on two
\* stacks, or free and at the same time a stack page, reserved, or in use.
NoFrameTwice ==
  \A b, c \in Blocks : b # c => FramesOf(b) \cap FramesOf(c) = {}

\* No frame of the available memory is ever lost, and none is invented: popping,
\* recycling and splitting pages keeps each of them in some place.
NoFrameLost ==
  up => UNION {FramesOf(b) : b \in Blocks} = Available

\* _pmm_alloc fails only when no block of the size or a greater one is free in
\* the zone or a lower one, however deep in a chain of stack pages it is.  So a
\* full stack always finds a page to grow: the branches of _pmm_free for a failed
\* allocation of a stack page are never reached.
FailsOnlyWhenExhausted ==
  /\ \A size \in Sizes, zone \in Zones :
       (\E s \in size .. 2, z \in 0 .. zone : FreeBlocks(mem, s, z) # {}) =>
         _pmm_alloc(mem, size, zone, zone).addr # 0
  /\ ~mem.stuck
=============================================================================
