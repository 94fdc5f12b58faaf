------------------------------- MODULE RamFs -------------------------------
(***************************************************************************)
(* The RAM file system, fs/ramfs.c: the list of files of one directory,    *)
(* the table of file handles, and files as chains of blocks.               *)
(*                                                                         *)
(* A file is named by the structure that malloc returned for it, so that a *)
(* handle may outlive its file; a structure that was freed can be returned *)
(* again.  A block holds the data up to its dataLength; a block pointer is *)
(* an index into the chain of the file, 0 for the null pointer.            *)
(*                                                                         *)
(* ramfs_open and ramfs_delete hold ramfsLock and are one step each.  The  *)
(* other functions take no lock: ramfs_close stores twice and is two steps *)
(* that anything may come between; ramfs_read, ramfs_write and ramfs_seek  *)
(* change what belongs to their handle and its file only, and are one step *)
(* as long as the file has one handle.                                     *)
(***************************************************************************)
EXTENDS Integers, Sequences, SequencesExt, FiniteSets, TLC

CONSTANTS Files,          \* ramfs_file_t structures
          Names,          \* paths of files
          NHandles,       \* FILE_HANDLE_COUNT
          Bytes,
          MinBlock,       \* FILE_MIN_BLOCK_SIZE
          Alignment,      \* FILE_BLOCK_SIZE_ALIGNMENT
          MaxWrite,       \* bound on the length of one write
          MaxLength,      \* bound on the length of all files together
          NULL

ASSUME RamFsConstants ==
  /\ NHandles \in Nat \ {0}
  /\ MinBlock \in Nat \ {0} /\ Alignment \in Nat \ {0}
  /\ MaxWrite \in Nat /\ MaxLength \in Nat
  /\ NULL \notin Files \cup Names

Handles == 0 .. NHandles - 1
Offsets == -MaxLength .. MaxLength + 1

VARIABLES
  list,      \* the files of the directory, from firstFile to lastFile
  name,      \* file->name
  isOpen,    \* file->isOpen
  blocks,    \* file->firstBlock and its successors
  length,    \* file->dataLength
  handle,    \* fileHandles
  closing,   \* how many of its stores a ramfs_close in progress has done
  fault      \* "none", or the function that used the null pointer as a block

ramfsVars == <<list, name, isOpen, blocks, length, handle, closing, fault>>

NewBlock(size) == [size |-> size, data |-> <<>>]
Closed == [active |-> FALSE, file |-> NULL, position |-> 0, block |-> 0, at |-> 0]

RamFsInit ==
  /\ list = <<>>
  /\ name = [f \in Files |-> NULL]
  /\ isOpen = [f \in Files |-> FALSE]
  /\ blocks = [f \in Files |-> <<>>]
  /\ length = [f \in Files |-> 0]
  /\ handle = [h \in Handles |-> Closed]
  /\ closing = [h \in Handles |-> 0]
  /\ fault = "none"

Live(f) == \E i \in 1 .. Len(list) : list[i] = f
Usable(h) == handle[h].active /\ closing[h] = 0 /\ fault = "none"
-----------------------------------------------------------------------------
\* get_file_entry: the first file of the directory with name n.
get_file_entry(n) ==
  IF \E i \in 1 .. Len(list) : name[list[i]] = n
  THEN list[CHOOSE i \in 1 .. Len(list) :
              name[list[i]] = n /\ \A j \in 1 .. i - 1 : name[list[j]] # n]
  ELSE NULL

\* The first handle that is not active, NULL if there is none.
FreeHandle ==
  IF \A h \in Handles : handle[h].active THEN NULL
  ELSE CHOOSE h \in Handles : ~handle[h].active /\ \A g \in 0 .. h - 1 : handle[g].active

\* Initialize handle, on the first block of the file.
Attach(h, f) ==
  /\ handle' = [handle EXCEPT ![h] = [active |-> TRUE, file |-> f, position |-> 0,
                                      block |-> 1, at |-> 0]]
  /\ isOpen' = [isOpen EXCEPT ![f] = TRUE]

\* ramfs_open of an existing file.  Nothing asks whether it is open already.
ramfs_open(n) ==
  /\ fault = "none"
  /\ FreeHandle # NULL
  /\ get_file_entry(n) # NULL
  /\ Attach(FreeHandle, get_file_entry(n))
  /\ UNCHANGED <<list, name, blocks, length, closing, fault>>

\* ramfs_open that creates the file, with create_file.
create_file(n, f) ==
  /\ fault = "none"
  /\ FreeHandle # NULL
  /\ get_file_entry(n) = NULL
  /\ ~Live(f)
  /\ list' = Append(list, f)
  /\ name' = [name EXCEPT ![f] = n]
  /\ blocks' = [blocks EXCEPT ![f] = <<NewBlock(MinBlock)>>]
  /\ length' = [length EXCEPT ![f] = 0]
  /\ Attach(FreeHandle, f)
  /\ UNCHANGED <<closing, fault>>

\* Mutated form of CloseOrder: the handle is released first.
ReleasedFirst(k) == <<"active", "isOpen">>[k]

\* The two stores of ramfs_close in their order: the file is no longer open,
\* and then the handle is no longer active.
CloseOrder(k) == <<"isOpen", "active">>[k]

\* One store of ramfs_close; the file of the handle is read again for each.  The
\* fields that only the users of an active handle read are cleared with active.
ramfs_close(h) ==
  /\ fault = "none"
  /\ closing[h] = 0 => handle[h].active
  /\ closing' = [closing EXCEPT ![h] = 1 - @]
  /\ IF CloseOrder(closing[h] + 1) = "isOpen"
     THEN isOpen' = [isOpen EXCEPT ![handle[h].file] = FALSE] /\ UNCHANGED handle
     ELSE /\ handle' = [handle EXCEPT ![h] = [Closed EXCEPT !.file = handle[h].file]]
          /\ UNCHANGED isOpen
  /\ UNCHANGED <<list, name, blocks, length, fault>>

\* ramfs_delete: unlink the file, free its blocks and the file itself.  "The
\* file must not be open".
ramfs_delete(n) ==
  LET f == get_file_entry(n) IN
  /\ fault = "none"
  /\ f # NULL
  /\ ~isOpen[f]
  /\ list' = RemoveAt(list, CHOOSE i \in 1 .. Len(list) : list[i] = f)
  /\ name' = [name EXCEPT ![f] = NULL]
  /\ blocks' = [blocks EXCEPT ![f] = <<>>]
  /\ length' = [length EXCEPT ![f] = 0]
  /\ UNCHANGED <<isOpen, handle, closing, fault>>
-----------------------------------------------------------------------------
\* The next block of a chain, 0 at its end.
NextBlock(B, b) == IF b < Len(B) THEN b + 1 ELSE 0

\* The loop of ramfs_read on the chain B: what is left to read is n bytes from
\* position p of block b.  The null pointer is reported by block = -1.
ReadLoop(B) ==
  LET r[b \in 0 .. Len(B), p \in 0 .. 2 * MaxLength, n \in 0 .. 2 * MaxLength] ==
        IF n = 0 THEN [data |-> <<>>, block |-> b, at |-> p]
        ELSE IF b = 0 THEN [data |-> <<>>, block |-> -1, at |-> p]
        ELSE LET D == B[b].data
                 left == Len(D) - p
             IN IF p < Len(D) /\ n < left
                THEN [data |-> SubSeq(D, p + 1, p + n), block |-> b, at |-> p + n]
                ELSE LET taken == IF p < Len(D) THEN SubSeq(D, p + 1, Len(D)) ELSE <<>>
                         rest == r[NextBlock(B, b), 0, n - Len(taken)]
                     IN [rest EXCEPT !.data = taken \o @]
  IN r

\* Mutated form of ReadLength: a read is not cut off at the end of the file.
ReadLengthUnchecked(h, n) == n

\* The effective length of a read of n bytes.
ReadLength(h, n) ==
  LET size == length[handle[h].file]
  IN IF handle[h].position + n > size THEN size - handle[h].position ELSE n

\* Mutated form of ramfs_read: the position is not advanced.
ReadKeepsPosition(h, n) ==
  LET H == handle[h]
      k == ReadLength(h, n)
      res == ReadLoop(blocks[H.file])[H.block, H.at, k]
  IN
  /\ Usable(h)
  /\ IF res.block = -1
     THEN fault' = "read" /\ UNCHANGED handle
     ELSE /\ handle' = [handle EXCEPT ![h].block = res.block, ![h].at = res.at]
          /\ UNCHANGED fault
  /\ UNCHANGED <<list, name, isOpen, blocks, length, closing>>

ramfs_read(h, n) ==
  LET H == handle[h]
      k == ReadLength(h, n)
      res == ReadLoop(blocks[H.file])[H.block, H.at, k]
  IN
  /\ Usable(h)
  /\ IF res.block = -1
     THEN fault' = "read" /\ UNCHANGED handle
     ELSE /\ handle' = [handle EXCEPT ![h].block = res.block, ![h].at = res.at,
                                     ![h].position = @ + k]
          /\ UNCHANGED fault
  /\ UNCHANGED <<list, name, isOpen, blocks, length, closing>>

\* Size of the block that is added for n more bytes.
NewBlockSize(n) ==
  LET size == Alignment * (1 + n \div Alignment)
  IN IF size < MinBlock THEN MinBlock ELSE size

\* Mutated form of Stored: the data goes behind the data of the block.
StoredAtEnd(B, b, p, s) == [B EXCEPT ![b].data = @ \o s]

\* Writing s at position p of block b ends the block's data there.
Stored(B, b, p, s) == [B EXCEPT ![b].data = SubSeq(@, 1, p) \o s]

\* The loop of ramfs_write: s is to be written at position p of block b.  The
\* null pointer is reported by block = -1.
WriteLoop(B0, b0, p0, s0) ==
  LET w[n \in 0 .. Len(s0) + 1] ==      \* after n rounds
        IF n = 0 THEN [B |-> B0, block |-> b0, at |-> p0, left |-> s0, grown |-> 0]
        ELSE LET v == w[n - 1]
                 b == v.block
                 p == v.at
                 s == v.left
             IN IF s = <<>> \/ b = -1 THEN v
                ELSE IF b = 0 THEN [v EXCEPT !.block = -1]
                ELSE LET space == v.B[b].size - p
                         old == Len(v.B[b].data)
                     IN IF p < v.B[b].size /\ space >= Len(s)
                        THEN [B |-> Stored(v.B, b, p, s), block |-> b, at |-> p + Len(s),
                              left |-> <<>>, grown |-> v.grown + p + Len(s) - old]
                        ELSE LET fill == SubSeq(s, 1, space)
                                 rest == SubSeq(s, space + 1, Len(s))
                                 C == IF space > 0 THEN Stored(v.B, b, p, fill) ELSE v.B
                                 D == IF NextBlock(C, b) = 0
                                      THEN Append(C, NewBlock(NewBlockSize(Len(rest))))
                                      ELSE C
                             IN [B |-> D, block |-> NextBlock(D, b), at |-> 0, left |-> rest,
                                 grown |-> IF space > 0 THEN v.grown + p + space - old
                                                        ELSE v.grown]
  IN w[Len(s0) + 1]

ramfs_write(h, s) ==
  LET H == handle[h]
      f == H.file
      res == WriteLoop(blocks[f], H.block, H.at, s)
  IN
  /\ Usable(h)
  /\ SumFunction(length) + res.grown <= MaxLength
  /\ IF res.block = -1
     THEN fault' = "write" /\ UNCHANGED <<blocks, length, handle>>
     ELSE /\ blocks' = [blocks EXCEPT ![f] = res.B]
          /\ length' = [length EXCEPT ![f] = @ + res.grown]
          /\ handle' = [handle EXCEPT ![h].block = res.block, ![h].at = res.at,
                                      ![h].position = @ + Len(s)]
          /\ UNCHANGED fault
  /\ UNCHANGED <<list, name, isOpen, closing>>

\* The position that ramfs_seek goes to.
SeekTarget(h, whence, offset) ==
  LET size == length[handle[h].file]
      here == handle[h].position
      position == IF whence = "start" /\ offset >= 0 THEN offset
                  ELSE IF whence = "current" /\ here + offset >= 0 THEN here + offset
                  ELSE IF whence = "end" /\ offset <= 0 /\ size + offset >= 0 THEN size + offset
                  ELSE 0
  IN IF position > size THEN size ELSE position

\* Mutated form of SeekLoop: the place within the block is not kept.
SeekToBlockStart(B) ==
  LET r[b \in 0 .. Len(B), skip \in 0 .. 2 * MaxLength] ==
        IF skip = 0 THEN [block |-> b, at |-> 0]
        ELSE IF b = 0 THEN [block |-> -1, at |-> 0]
        ELSE IF skip > Len(B[b].data) THEN r[NextBlock(B, b), skip - Len(B[b].data)]
        ELSE [block |-> b, at |-> 0]
  IN r

\* The loop of ramfs_seek: find the block, skip bytes from the start of block b.
SeekLoop(B) ==
  LET r[b \in 0 .. Len(B), skip \in 0 .. 2 * MaxLength] ==
        IF skip = 0 THEN [block |-> b, at |-> 0]
        ELSE IF b = 0 THEN [block |-> -1, at |-> skip]
        ELSE IF skip > Len(B[b].data) THEN r[NextBlock(B, b), skip - Len(B[b].data)]
        ELSE [block |-> b, at |-> skip]
  IN r

ramfs_seek(h, whence, offset) ==
  LET position == SeekTarget(h, whence, offset)
      res == SeekLoop(blocks[handle[h].file])[1, position]
  IN
  /\ Usable(h)
  /\ IF res.block = -1
     THEN fault' = "seek" /\ UNCHANGED handle
     ELSE /\ handle' = [handle EXCEPT ![h].block = res.block, ![h].at = res.at,
                                     ![h].position = position]
          /\ UNCHANGED fault
  /\ UNCHANGED <<list, name, isOpen, blocks, length, closing>>
-----------------------------------------------------------------------------
Data == UNION {[1 .. n -> Bytes] : n \in 1 .. MaxWrite}

\* What the owner of a handle does with it.
Use(h) ==
  \/ ramfs_close(h)
  \/ \E n \in 0 .. MaxLength : ramfs_read(h, n)
  \/ \E s \in Data : ramfs_write(h, s)
  \/ \E w \in {"start", "current", "end"}, o \in Offsets : ramfs_seek(h, w, o)

\* Callers that open a file only when it is not open, which is what the comment
\* in ramfs_read takes for granted.
OpenOnce(n) == ramfs_open(n) /\ ~isOpen[get_file_entry(n)]

RamFsNext ==
  \/ \E n \in Names : OpenOnce(n) \/ ramfs_delete(n)
  \/ \E n \in Names, f \in Files : create_file(n, f)
  \/ \E h \in Handles : Use(h)

RamFsSpec == RamFsInit /\ [][RamFsNext]_ramfsVars

\* Any caller.
NextShared ==
  \/ \E n \in Names : ramfs_open(n) \/ ramfs_delete(n)
  \/ \E n \in Names, f \in Files : create_file(n, f)
  \/ \E h \in Handles : Use(h)

SpecShared == RamFsInit /\ [][NextShared]_ramfsVars
\* Files, names and bytes are told apart by nothing but equality.
Symmetry == Permutations(Files) \cup Permutations(Names) \cup Permutations(Bytes)
-----------------------------------------------------------------------------
Block == [size : MinBlock .. MinBlock + MaxWrite + Alignment, data : Seq(Bytes)]

\* The types of the directory, the files and the handles; no block holds more
\* than its size, and every file of the directory has a first block.
RamFsTypeOK ==
  /\ list \in Seq(Files) /\ IsInjective(list)
  /\ name \in [Files -> Names \cup {NULL}]
  /\ isOpen \in [Files -> BOOLEAN]
  /\ \A f \in Files : /\ blocks[f] \in Seq(Block)
                      /\ \A i \in 1 .. Len(blocks[f]) :
                           Len(blocks[f][i].data) <= blocks[f][i].size
                      /\ Live(f) => blocks[f] # <<>>
  /\ length \in [Files -> 0 .. MaxLength]
  /\ handle \in [Handles -> [active : BOOLEAN, file : Files \cup {NULL},
                             position : Nat, block : Nat, at : Nat]]
  /\ closing \in [Handles -> 0 .. 1]
  /\ fault \in {"none", "read", "write", "seek"}

Content(f) == FlattenSeq([i \in 1 .. Len(blocks[f]) |-> blocks[f][i].data])

\* A handle that can be used belongs to a file that exists and is marked open,
\* whatever ramfs_open and ramfs_delete did between the two stores of a
\* ramfs_close: the file was not freed under it.
NoDanglingHandle ==
  \A h \in Handles : Usable(h) => Live(handle[h].file) /\ isOpen[handle[h].file]

\* What ramfs_write, ramfs_read and ramfs_seek keep by differences agrees with
\* the blocks after every sequence of calls.  file->dataLength is the sum of the
\* lengths of the blocks.  The three ways in which a handle knows its place
\* agree: position is the number of bytes in front of currentBlock plus
\* currentBlockPosition.  After a read up to the end of the last block
\* currentBlock is the null pointer.
PositionAgrees ==
  /\ RamFsTypeOK
  /\ \A f \in Files : length[f] = Len(Content(f))
  /\ \A h \in Handles : Usable(h) =>
       LET H == handle[h]
           B == blocks[H.file]
       IN IF H.block = 0 THEN H.position = length[H.file] /\ H.at = 0
          ELSE /\ H.at <= Len(B[H.block].data)
               /\ H.position = H.at + Len(FlattenSeq([i \in 1 .. H.block - 1 |-> B[i].data]))

\* A read returns the bytes of the file from the position of the handle on, as
\* many as asked for or as there are, however the file is cut into blocks.
ReadsContent ==
  \A h \in Handles, n \in 0 .. MaxLength : Usable(h) =>
    LET H == handle[h]
        k == ReadLength(h, n)
    IN ReadLoop(blocks[H.file])[H.block, H.at, k].data
         = SubSeq(Content(H.file), H.position + 1, H.position + k)

\* A write keeps the bytes in front of the position and puts its data behind
\* them; what follows is an end of what followed before.
WriteStoresData ==
  [][\A h \in Handles, s \in Data :
       ramfs_write(h, s) /\ fault' = "none" =>
         LET f == handle[h].file
             old == Content(f)
             p == handle[h].position
         IN \E k \in p .. Len(old) :
              Content(f)' = SubSeq(old, 1, p) \o s \o SubSeq(old, k + 1, Len(old))]_ramfsVars

\* The null pointer is only ever used as a block by a ramfs_write on a handle
\* that has read up to the end of its file; reads and seeks never run off the
\* chain of blocks.
FaultsOnlyAfterReadToEnd ==
  /\ fault \in {"none", "write"}
  /\ fault = "write" => \E h \in Handles : /\ handle[h].active /\ handle[h].block = 0
                                          /\ handle[h].position = length[handle[h].file]

\* ramfs_delete: "The file must not be open".
DeletedFileNotOpen == \A h \in Handles : Usable(h) => Live(handle[h].file)
=============================================================================
