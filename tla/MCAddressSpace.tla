--------------------------- MODULE MCAddressSpace ---------------------------
(***************************************************************************)
(* A small address space: tables of two entries, eight pages of user space.*)
(***************************************************************************)
EXTENDS AddressSpace

Load(v, n) == [load |-> TRUE, vaddr |-> v * FRAME_SIZE, pages |-> n]

\* Text and data; the same with a note between them; a last segment that is
\* not page aligned; a segment beyond user space; an empty segment.
MCElfs ==
  {<<Load(1, 1), Load(3, 1)>>,
   <<Load(1, 1), [load |-> FALSE, vaddr |-> 2, pages |-> 1], Load(2, 1)>>,
   <<Load(1, 2), [load |-> TRUE, vaddr |-> 7, pages |-> 1]>>,
   <<Load(1, 1), Load(HalfPages - 1, 2)>>,
   <<Load(1, 0), Load(1, 1)>>}
=============================================================================
