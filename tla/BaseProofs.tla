----------------------------- MODULE BaseProofs -----------------------------
(***************************************************************************)
(* Three components that stand by themselves and need few lemmas each.     *)
(*                                                                         *)
(* The raw spinlock excludes, for every number of threads that the byte    *)
(* can count, and refines the abstract mutex.  The invariant has to say    *)
(* how the byte relates to the labels: a successful decrement proves the   *)
(* lock free only because the byte counts every decrement outstanding, and *)
(* because it never wraps.                                                 *)
(*                                                                         *)
(* No shootdown is lost, for any number of CPUs and pages and any size of  *)
(* the queues.  StaleEntriesAreQueued is not inductive by itself: when a   *)
(* CPU empties its queue one has to know that its TLB was cleaned before   *)
(* and that nobody could change an entry in between, which is what         *)
(* LockDiscipline and CleanBeforeReset add.                                *)
(*                                                                         *)
(* No file of the RAM file system is freed while a handle uses it, for any *)
(* number of files, names and handles and files of any length.  isOpen is  *)
(* a flag and ramfs_close clears it before it gives the handle back,       *)
(* without a lock.  The invariant says which handles a flag stands for:    *)
(* those that are active and whose close has not begun (Attached), at most *)
(* one for each file as long as callers open a file only when it is not    *)
(* open.                                                                   *)
(***************************************************************************)
EXTENDS RawSpinlock, Tlb, RamFs, FiniteSetTheorems, SequenceTheorems,
        WellFoundedInduction, TLAPS

-----------------------------------------------------------------------------
\* The raw spinlock.

\* The charges stay within the byte.
LEMMA ChargedIsFinite ==
  /\ IsFiniteSet(Charged)
  /\ Cardinality(Charged) \in 0 .. Half + 1
<1>1. Charged \subseteq Threads
  BY DEF Charged
<1>2. IsFiniteSet(Charged) /\ Cardinality(Charged) <= Cardinality(Threads)
  BY <1>1, ThreadsFitTheByte, FS_Subset
<1> QED
  BY <1>2, ThreadsFitTheByte, FS_CardinalityType

\* Within its range the byte does not wrap.
LEMMA ByteInRange ==
  ASSUME NEW n \in -Half .. Half - 1
  PROVE  Byte(n) = n
BY ThreadsFitTheByte DEF Byte

RawInv == RawTypeOK /\ ValueCountsCharges /\ MutualExclusion

\* The free byte, and nobody inside.
LEMMA RawInvInit == RawInit => RawInv
<1> SUFFICES ASSUME RawInit PROVE RawInv
  OBVIOUS
<1>1. Charged = {}
  BY DEF RawInit, Charged
<1>2. ValueCountsCharges
  BY <1>1, FS_EmptySet DEF RawInit, ValueCountsCharges
<1>3. RawTypeOK
  BY ThreadsFitTheByte DEF RawInit, RawTypeOK
<1> QED
  BY <1>2, <1>3 DEF RawInv, RawInit, MutualExclusion, Holders

\* One step: what the charges become decides what the byte becomes.
LEMMA RawInvNext == RawInv /\ [RawNext]_rawVars => RawInv'
<1> SUFFICES ASSUME RawInv, [RawNext]_rawVars PROVE RawInv'
  OBVIOUS
<1> USE DEF RawInv
<1>1. ASSUME NEW t \in Threads, CallLock(t) PROVE RawInv'
  <2>1. Charged' = Charged /\ Holders' = Holders
    BY <1>1 DEF CallLock, Charged, Holders, RawTypeOK
  <2> QED
    BY <1>1, <2>1 DEF CallLock, RawTypeOK, ValueCountsCharges, MutualExclusion
<1>2. ASSUME NEW t \in Threads, Dec(t) PROVE RawInv'
  <2>1. t \notin Charged /\ Charged' = Charged \cup {t}
    BY <1>2 DEF Dec, Charged, RawTypeOK
  <2>2. Cardinality(Charged') = Cardinality(Charged) + 1
    BY <2>1, ChargedIsFinite, FS_AddElement
  <2>3. Cardinality(Charged') <= Half + 1
    <3>1. Charged' \subseteq Threads
      BY DEF Charged
    <3> QED
      BY <3>1, ThreadsFitTheByte, FS_Subset, FS_CardinalityType
  <2>4. value - 1 \in -Half .. Half - 1
    BY <2>2, <2>3, ChargedIsFinite, ThreadsFitTheByte DEF ValueCountsCharges, RawTypeOK
  <2>5. value' = value - 1
    BY <1>2, <2>4, ByteInRange, SMTT(30) DEF Dec
  <2>6. RawTypeOK' /\ ValueCountsCharges'
    BY <1>2, <2>2, <2>4, <2>5, ChargedIsFinite, SMTT(30) DEF Dec, RawTypeOK, ValueCountsCharges
  <2>7. MutualExclusion'
    <3>1. CASE value' >= 0
      <4>1. Cardinality(Charged) = 0
        BY <2>5, <3>1, ChargedIsFinite DEF ValueCountsCharges
      <4>2. Charged = {}
        BY <4>1, ChargedIsFinite, FS_EmptySet
      <4>3. Holders' = {t}
        BY <1>2, <3>1, <4>2, SMTT(30) DEF Dec, Charged, Holders, RawTypeOK
      <4> QED
        BY <4>3 DEF MutualExclusion
    <3>2. CASE ~(value' >= 0)
      <4>1. Holders' = Holders
        BY <1>2, <3>2 DEF Dec, Holders, RawTypeOK
      <4> QED
        BY <4>1 DEF MutualExclusion
    <3> QED
      BY <3>1, <3>2
  <2> QED
    BY <2>6, <2>7
<1>3. ASSUME NEW t \in Threads, Inc(t) \/ raw_spinlock_unlock(t) PROVE RawInv'
  <2>1. t \in Charged /\ Charged' = Charged \ {t}
    BY <1>3 DEF Inc, raw_spinlock_unlock, Charged, RawTypeOK
  <2>2. Cardinality(Charged') = Cardinality(Charged) - 1
    BY <2>1, ChargedIsFinite, FS_RemoveElement
  <2>3. Cardinality(Charged') \in Nat
    BY <2>1, ChargedIsFinite, FS_RemoveElement, FS_CardinalityType, SMTT(30)
  <2>4. value + 1 \in -Half .. Half - 1
    BY <2>2, <2>3, ChargedIsFinite, ThreadsFitTheByte, SMTT(30) DEF ValueCountsCharges, RawTypeOK
  <2>5. value' = value + 1
    BY <1>3, <2>4, ByteInRange, SMTT(30) DEF Inc, raw_spinlock_unlock
  <2>6. RawTypeOK' /\ ValueCountsCharges'
    BY <1>3, <2>2, <2>4, <2>5, ChargedIsFinite, SMTT(30)
      DEF Inc, raw_spinlock_unlock, RawTypeOK, ValueCountsCharges
  <2>7. Holders' \subseteq Holders
    BY <1>3 DEF Inc, raw_spinlock_unlock, Holders, RawTypeOK
  <2> QED
    BY <2>6, <2>7 DEF MutualExclusion, Holders
<1>4. CASE UNCHANGED rawVars
  BY <1>4 DEF rawVars, RawTypeOK, ValueCountsCharges, Charged, MutualExclusion, Holders
<1> QED
  BY <1>1, <1>2, <1>3, <1>4 DEF RawNext, Step

\* The invariant of lock and unlock.
LEMMA RawInvHolds == RawSpec => []RawInv
BY RawInvInit, RawInvNext, PTL DEF RawSpec

\* For every number of threads up to Half + 1, raw_spinlock_lock admits one
\* thread at a time.
THEOREM RawSpinlockSafe == RawSpec => []MutualExclusion
<1>1. RawInv => MutualExclusion
  BY SMTT(30) DEF RawInv
<1> QED
  BY <1>1, RawInvHolds, PTL

\* For every number of threads up to Half + 1, the byte is one minus the
\* decrements outstanding.
THEOREM ByteNeverWraps == RawSpec => []ValueCountsCharges
<1>1. RawInv => ValueCountsCharges
  BY DEF RawInv
<1> QED
  BY <1>1, RawInvHolds, PTL

\* raw_spinlock_lock and raw_spinlock_unlock implement the abstract mutex: a
\* decrement that succeeds is an acquisition, an unlock a release, and every
\* other step stutters.
THEOREM RawSpinlockImplementsMutex == RawSpec => ImplementsMutex
<1>1. RawInit => M!Init
  BY DEF RawInit, M!Init, Holders
<1>2. RawInv /\ RawInv' /\ [RawNext]_rawVars => [M!Next]_Holders
  <2> SUFFICES ASSUME RawInv, RawInv', [RawNext]_rawVars PROVE [M!Next]_Holders
    OBVIOUS
  <2> USE DEF RawInv, RawTypeOK
  <2>1. ASSUME NEW t \in Threads, CallLock(t) PROVE Holders' = Holders
    BY <2>1 DEF CallLock, Holders
  <2>2. ASSUME NEW t \in Threads, Inc(t) PROVE Holders' = Holders
    BY <2>2 DEF Inc, Holders
  <2>3. ASSUME NEW t \in Threads, Dec(t) PROVE M!Acquire(t) \/ Holders' = Holders
    <3>1. CASE value' >= 0
      <4>1. t \in Holders' /\ Holders' = Holders \cup {t} /\ t \notin Holders
        BY <2>3, <3>1 DEF Dec, Holders
      <4>2. Holders' \subseteq Threads
        BY DEF Holders
      <4>3. \A u \in Holders' : u = t
        BY <4>1, <4>2 DEF MutualExclusion
      <4> QED
        BY <4>1, <4>3 DEF M!Acquire
    <3>2. CASE ~(value' >= 0)
      BY <2>3, <3>2 DEF Dec, Holders
    <3> QED
      BY <3>1, <3>2
  <2>4. ASSUME NEW t \in Threads, raw_spinlock_unlock(t) PROVE M!Release(t)
    BY <2>4 DEF raw_spinlock_unlock, Holders, M!Release
  <2>5. CASE UNCHANGED rawVars
    BY <2>5 DEF rawVars, Holders
  <2> QED
    BY <2>1, <2>2, <2>3, <2>4, <2>5, SMTT(30) DEF RawNext, Step, M!Next
<1> QED
  BY <1>1, <1>2, RawInvHolds, PTL DEF RawSpec, ImplementsMutex, M!Spec
-----------------------------------------------------------------------------
\* The TLB shootdown.

\* Where a CPU is while it holds tlbQueueLock.
LockedAt == {"transaction", "written", "own done", "ipi done"}

LockDiscipline ==
  /\ \A c \in CPUs : pc[c] \in LockedAt <=> lock = c
  /\ \A c \in CPUs : page[c] # NONE => pc[c] = "written"
  /\ \A c \in CPUs : pc[c] = "written" => page[c] \in Pages

\* Between its operations and the reset of its queue, a CPU's TLB is clean.
CleanBeforeReset ==
  \A c \in CPUs : pc[c] \in {"own done", "ipi done"} => stale[c] = {}

TlbInv == TlbTypeOK /\ LockDiscipline /\ CleanBeforeReset /\ StaleEntriesAreQueued
-----------------------------------------------------------------------------
\* Enqueue keeps the queue a sequence of operations within its size.
LEMMA EnqueueType ==
  ASSUME NEW q \in Seq(Pages \cup {FLUSH}), Len(q) <= QueueSize, NEW p \in Pages
  PROVE  /\ Enqueue(q, p) \in Seq(Pages \cup {FLUSH})
         /\ Len(Enqueue(q, p)) <= QueueSize
<1> QueueSize \in Nat \ {0}
  BY TlbConstants
<1>1. CASE Len(q) = QueueSize
  BY <1>1 DEF Enqueue
<1>2. CASE Len(q) # QueueSize /\ Len(q) = 1 /\ q[1] = FLUSH
  BY <1>2 DEF Enqueue
<1>3. CASE Len(q) # QueueSize /\ ~(Len(q) = 1 /\ q[1] = FLUSH)
  <2>1. Enqueue(q, p) = Append(q, p)
    BY <1>3 DEF Enqueue
  <2> QED
    BY <1>3, <2>1
<1> QED
  BY <1>1, <1>2, <1>3

\* Enqueue covers the new page and uncovers none: replacing a full queue by a
\* flush, or dropping the operation next to a flush, loses nothing.
LEMMA EnqueueCovers ==
  ASSUME NEW q \in Seq(Pages \cup {FLUSH}), NEW p \in Pages
  PROVE  /\ Covers(Enqueue(q, p), p)
         /\ \A r \in Pages : Covers(q, r) => Covers(Enqueue(q, p), r)
<1>1. CASE Len(q) = QueueSize
  <2>1. Enqueue(q, p) = <<FLUSH>>
    BY <1>1 DEF Enqueue
  <2>2. \A r : Covers(<<FLUSH>>, r)
    BY DEF Covers
  <2> QED
    BY <2>1, <2>2
<1>2. CASE Len(q) # QueueSize /\ Len(q) = 1 /\ q[1] = FLUSH
  <2>1. Enqueue(q, p) = q
    BY <1>2 DEF Enqueue
  <2>2. \A r : Covers(q, r)
    BY <1>2 DEF Covers
  <2> QED
    BY <2>1, <2>2
<1>3. CASE Len(q) # QueueSize /\ ~(Len(q) = 1 /\ q[1] = FLUSH)
  <2>1. Enqueue(q, p) = Append(q, p)
    BY <1>3 DEF Enqueue
  <2>2. /\ Len(Append(q, p)) = Len(q) + 1
        /\ Append(q, p)[Len(q) + 1] = p
        /\ \A i \in 1 .. Len(q) : Append(q, p)[i] = q[i]
    OBVIOUS
  <2>3. Len(q) \in Nat
    OBVIOUS
  <2>4. Covers(Append(q, p), p)
    BY <2>2, <2>3 DEF Covers
  <2>5. \A r \in Pages : Covers(q, r) => Covers(Append(q, p), r)
    BY <2>2, <2>3 DEF Covers
  <2> QED
    BY <2>1, <2>4, <2>5
<1> QED
  BY <1>1, <1>2, <1>3

\* Empty queues and clean TLBs.
LEMMA TlbInvInit == TlbInit => TlbInv
<1> SUFFICES ASSUME TlbInit PROVE TlbInv
  OBVIOUS
<1>1. TlbTypeOK
  BY TlbConstants DEF TlbInit, TlbTypeOK
<1>2. LockDiscipline
  BY TlbConstants DEF TlbInit, LockDiscipline, LockedAt
<1>3. CleanBeforeReset /\ StaleEntriesAreQueued
  BY DEF TlbInit, CleanBeforeReset, StaleEntriesAreQueued
<1> QED
  BY <1>1, <1>2, <1>3 DEF TlbInv

\* One step of a CPU, with the lock it has.
LEMMA TlbInvNext == TlbInv /\ [TlbNext]_tlbVars => TlbInv'
<1> SUFFICES ASSUME TlbInv, [TlbNext]_tlbVars PROVE TlbInv'
  OBVIOUS
<1> USE TlbConstants
<1>0. TlbTypeOK /\ LockDiscipline /\ CleanBeforeReset /\ StaleEntriesAreQueued
  BY DEF TlbInv
<1>1. ASSUME NEW a \in CPUs, smp_boot(a) PROVE TlbInv'
  BY <1>0, <1>1, Zenon DEF smp_boot, TlbInv, TlbTypeOK, LockDiscipline, LockedAt,
     CleanBeforeReset, StaleEntriesAreQueued
<1>2. ASSUME NEW a \in CPUs, smp_ap_init(a) PROVE TlbInv'
  <2>1. TlbTypeOK'
    BY <1>0, <1>2, Zenon DEF smp_ap_init, TlbTypeOK
  <2>2. LockDiscipline'
    BY <1>0, <1>2, Zenon DEF smp_ap_init, TlbTypeOK, LockDiscipline, LockedAt
  <2>3. CleanBeforeReset'
    BY <1>0, <1>2, Zenon DEF smp_ap_init, TlbTypeOK, CleanBeforeReset
  <2>4. StaleEntriesAreQueued'
    BY <1>0, <1>2, Zenon DEF smp_ap_init, TlbTypeOK, StaleEntriesAreQueued
  <2> QED
    BY <2>1, <2>2, <2>3, <2>4 DEF TlbInv
<1>3. ASSUME smp_init PROVE TlbInv'
  BY <1>0, <1>3, Zenon DEF smp_init, TlbInv, TlbTypeOK, LockDiscipline, LockedAt,
     CleanBeforeReset, StaleEntriesAreQueued
<1>4. ASSUME NEW c \in CPUs, tlb_transaction_init(c) PROVE TlbInv'
  <2>1. TlbTypeOK'
    BY <1>0, <1>4, Zenon DEF tlb_transaction_init, Goto, boot, TlbTypeOK
  <2>2. LockDiscipline'
    <3>1. page' = page /\ lock' = c /\ \A d \in CPUs : lock # d
      BY <1>0, <1>4, TlbConstants, Zenon DEF tlb_transaction_init, TlbTypeOK
    <3>2. pc[c] # "written" /\ pc'[c] \in LockedAt /\ pc'[c] # "written"
      BY <1>0, <1>4, Zenon DEF tlb_transaction_init, Goto, TlbTypeOK, LockedAt
    <3>3. \A d \in CPUs : d # c => pc'[d] = pc[d]
      BY <1>0, <1>4, Zenon DEF tlb_transaction_init, Goto, TlbTypeOK
    <3> QED
      BY <1>0, <3>1, <3>2, <3>3, SMTT(30) DEF LockDiscipline
  <2>3. CleanBeforeReset'
    BY <1>0, <1>4, Zenon DEF tlb_transaction_init, Goto, boot, TlbTypeOK, CleanBeforeReset
  <2>4. StaleEntriesAreQueued'
    BY <1>0, <1>4, Zenon DEF tlb_transaction_init, Goto, boot, TlbTypeOK, StaleEntriesAreQueued
  <2> QED
    BY <2>1, <2>2, <2>3, <2>4 DEF TlbInv
<1>5. ASSUME NEW c \in CPUs, NEW p \in Pages, NEW S \in SUBSET CPUs,
             WriteEntry(c, p, S)
      PROVE  TlbInv'
  <2>1. lock = c /\ \A d \in CPUs : d # c => pc[d] \notin LockedAt
    BY <1>0, <1>5, Zenon DEF WriteEntry, LockDiscipline, LockedAt
  <2>2. TlbTypeOK'
    BY <1>0, <1>5, Zenon DEF WriteEntry, Goto, boot, TlbTypeOK
  <2>3. LockDiscipline'
    <3>1. lock' = lock /\ page'[c] = p /\ pc'[c] = "written"
      BY <1>0, <1>5, Zenon DEF WriteEntry, Goto, TlbTypeOK
    <3>2. \A d \in CPUs : d # c => pc'[d] = pc[d] /\ page'[d] = page[d]
      BY <1>0, <1>5, Zenon DEF WriteEntry, Goto, TlbTypeOK
    <3>3. "written" \in LockedAt
      BY DEF LockedAt
    <3> QED
      BY <1>0, <2>1, <3>1, <3>2, <3>3, SMTT(30) DEF LockDiscipline
  <2>4. CleanBeforeReset'
    BY <1>0, <1>5, <2>1, Zenon DEF WriteEntry, Goto, boot, TlbTypeOK, CleanBeforeReset, LockedAt
  <2>5. StaleEntriesAreQueued'
    <3>1. page'[c] = p /\ queue' = queue
      BY <1>0, <1>5, Zenon DEF WriteEntry, TlbTypeOK
    <3>2. \A d \in CPUs : page[d] # NONE => d # c /\ page'[d] = page[d]
      BY <1>0, <1>5, Zenon DEF WriteEntry, TlbTypeOK, LockDiscipline
    <3>3. \A d \in CPUs : \A r \in stale'[d] : r = p \/ r \in stale[d]
      BY <1>0, <1>5, Zenon DEF WriteEntry, TlbTypeOK
    <3> SUFFICES ASSUME NEW d \in CPUs, NEW r \in stale'[d]
                 PROVE  Covers(queue'[d], r) \/ \E e \in CPUs : page'[e] = r
      BY DEF StaleEntriesAreQueued, Covers
    <3>4. CASE r = p
      BY <3>1, <3>4, SMTT(30)
    <3>5. CASE r \in stale[d]
      <4>0. stale[d] \subseteq Pages
        BY <1>0, Zenon DEF TlbTypeOK
      <4>1. r # NONE
        BY <3>5, <4>0, TlbConstants, SMTT(30)
      <4>2. Covers(queue[d], r) \/ \E e \in CPUs : page[e] = r
        BY <1>0, <3>5, SMTT(30) DEF StaleEntriesAreQueued
      <4> QED
        BY <3>1, <3>2, <4>1, <4>2, SMTT(30)
    <3> QED
      BY <3>3, <3>4, <3>5, SMTT(30)
  <2> QED
    BY <2>2, <2>3, <2>4, <2>5, SMTT(30) DEF TlbInv
<1>6. ASSUME NEW c \in CPUs, tlb_transaction_queue_invlpg(c) PROVE TlbInv'
  <2>1. page[c] \in Pages /\ lock = c
    BY <1>0, <1>6, Zenon DEF tlb_transaction_queue_invlpg, LockDiscipline, LockedAt
  <2>2. \A d \in CPUs : queue'[d] = Enqueue(queue[d], page[c])
    BY <1>6, SMTT(30) DEF tlb_transaction_queue_invlpg
  <2>3. queue' \in [CPUs -> Seq(Pages \cup {FLUSH})]
        /\ \A d \in CPUs : Len(queue'[d]) <= QueueSize
    BY <1>0, <1>6, <2>1, EnqueueType, Zenon DEF tlb_transaction_queue_invlpg, TlbTypeOK
  <2>4. TlbTypeOK'
    BY <1>0, <1>6, <2>3, ZenonT(40) DEF tlb_transaction_queue_invlpg, Goto, boot, TlbTypeOK
  <2>5. LockDiscipline'
    BY <1>0, <1>6, Zenon DEF tlb_transaction_queue_invlpg, Goto, boot, TlbTypeOK,
       LockDiscipline, LockedAt
  <2>6. CleanBeforeReset'
    BY <1>0, <1>6, Zenon DEF tlb_transaction_queue_invlpg, Goto, boot, TlbTypeOK,
       CleanBeforeReset
  <2>7. StaleEntriesAreQueued'
    <3> SUFFICES ASSUME NEW d \in CPUs, NEW r \in stale'[d]
                 PROVE  Covers(queue'[d], r) \/ \E e \in CPUs : page'[e] = r
      BY DEF StaleEntriesAreQueued, Covers
    <3>1. r \in stale[d] /\ r \in Pages /\ queue[d] \in Seq(Pages \cup {FLUSH})
      BY <1>0, <1>6, Zenon DEF tlb_transaction_queue_invlpg, TlbTypeOK
    <3>2. CASE Covers(queue[d], r)
      BY <2>1, <2>2, <3>1, <3>2, EnqueueCovers, Zenon
    <3>3. CASE \E e \in CPUs : page[e] = r
      <4>1. PICK e \in CPUs : page[e] = r
        BY <3>3
      <4>2. e = c
        BY <1>0, <1>6, <2>1, <3>1, <4>1, Zenon DEF LockDiscipline, LockedAt
      <4>3. r = page[c] /\ queue'[d] = Enqueue(queue[d], page[c])
        BY <2>2, <4>1, <4>2, SMTT(30)
      <4> QED
        BY <2>1, <3>1, <4>3, EnqueueCovers, Zenon
    <3> QED
      BY <1>0, <3>1, <3>2, <3>3, SMTT(30) DEF StaleEntriesAreQueued
  <2> QED
    BY <2>4, <2>5, <2>6, <2>7 DEF TlbInv
<1>7. ASSUME NEW c \in CPUs, tlb_transaction_commit(c) PROVE TlbInv'
  <2>1. TlbTypeOK'
    BY <1>0, <1>7, Zenon DEF tlb_transaction_commit, Goto, boot, TlbTypeOK
  <2>2. LockDiscipline'
    BY <1>0, <1>7, Zenon DEF tlb_transaction_commit, Goto, boot, TlbTypeOK, LockDiscipline, LockedAt
  <2>3. CleanBeforeReset'
    BY <1>0, <1>7, ZenonT(40) DEF tlb_transaction_commit, Goto, boot, TlbTypeOK, CleanBeforeReset
  <2>4. StaleEntriesAreQueued'
    BY <1>0, <1>7, Zenon DEF tlb_transaction_commit, Goto, boot, TlbTypeOK, StaleEntriesAreQueued
  <2> QED
    BY <2>1, <2>2, <2>3, <2>4 DEF TlbInv
<1>8. ASSUME NEW c \in CPUs, tlb_handle_ipi(c) PROVE TlbInv'
  <2>1. TlbTypeOK'
    BY <1>0, <1>8, Zenon DEF tlb_handle_ipi, Goto, boot, TlbTypeOK
  <2>2. LockDiscipline'
    BY <1>0, <1>8, Zenon DEF tlb_handle_ipi, Goto, boot, TlbTypeOK, LockDiscipline, LockedAt
  <2>3. CleanBeforeReset'
    BY <1>0, <1>8, ZenonT(40) DEF tlb_handle_ipi, Goto, boot, TlbTypeOK, CleanBeforeReset
  <2>4. StaleEntriesAreQueued'
    BY <1>0, <1>8, Zenon DEF tlb_handle_ipi, Goto, boot, TlbTypeOK, StaleEntriesAreQueued
  <2> QED
    BY <2>1, <2>2, <2>3, <2>4 DEF TlbInv
<1>9. ASSUME NEW c \in CPUs, HandleOps(c) PROVE TlbInv'
  <2>1. \A d \in CPUs : pc[d] \notin LockedAt /\ page[d] = NONE
    BY <1>0, <1>9, Zenon DEF HandleOps, LockDiscipline, LockedAt
  <2>2. \A r \in stale[c] : Covers(queue[c], r)
    <3> SUFFICES ASSUME NEW r \in stale[c] PROVE Covers(queue[c], r)
      OBVIOUS
    <3>0. stale[c] \subseteq Pages
      BY <1>0, Zenon DEF TlbTypeOK
    <3>1. r # NONE
      BY <3>0, TlbConstants
    <3>2. Covers(queue[c], r) \/ \E d \in CPUs : page[d] = r
      BY <1>0 DEF StaleEntriesAreQueued
    <3> QED
      BY <2>1, <3>1, <3>2, SMTT(30)
  <2>3. stale'[c] = {}
    BY <1>0, <1>9, <2>2, Zenon DEF HandleOps, TlbTypeOK, AfterOps, Covers
  <2>4. \A d \in CPUs : d # c => stale'[d] = stale[d]
    BY <1>0, <1>9, Zenon DEF HandleOps, TlbTypeOK
  <2>5. stale' \in [CPUs -> SUBSET Pages]
    BY <1>0, <1>9, Zenon DEF HandleOps, TlbTypeOK, AfterOps
  <2>6. TlbTypeOK'
    BY <1>0, <1>9, <2>5, Zenon DEF HandleOps, Goto, boot, TlbTypeOK
  <2>7. LockDiscipline'
    BY <1>0, <1>9, <2>1, Zenon DEF HandleOps, Goto, boot, TlbTypeOK, LockDiscipline, LockedAt
  <2>8. CleanBeforeReset'
    BY <1>0, <1>9, <2>3, <2>4, ZenonT(40) DEF HandleOps, Goto, TlbTypeOK, CleanBeforeReset
  <2>9. StaleEntriesAreQueued'
    BY <1>0, <1>9, <2>3, <2>4, Zenon DEF HandleOps, boot, StaleEntriesAreQueued
  <2> QED
    BY <2>6, <2>7, <2>8, <2>9 DEF TlbInv
<1>10. ASSUME NEW c \in CPUs, ResetQueue(c) PROVE TlbInv'
  <2>1. stale'[c] = {}
    BY <1>0, <1>10, Zenon DEF ResetQueue, CleanBeforeReset
  <2>2. \A d \in CPUs : d # c => queue'[d] = queue[d]
    BY <1>0, <1>10, Zenon DEF ResetQueue, TlbTypeOK
  <2>3. TlbTypeOK'
    <3>1. <<>> \in Seq(Pages \cup {FLUSH}) /\ Len(<<>>) = 0 /\ 0 <= QueueSize
      BY TlbConstants
    <3>2. queue' \in [CPUs -> Seq(Pages \cup {FLUSH})]
      BY <1>0, <1>10, <3>1, ZenonT(40) DEF ResetQueue, TlbTypeOK
    <3>3. \A d \in CPUs : Len(queue'[d]) <= QueueSize
      BY <1>0, <1>10, <2>2, <3>1, ZenonT(40) DEF ResetQueue, TlbTypeOK
    <3> QED
      BY <1>0, <1>10, <3>2, <3>3, Zenon DEF ResetQueue, Goto, boot, TlbTypeOK
  <2>4. LockDiscipline'
    BY <1>0, <1>10, Zenon DEF ResetQueue, Goto, boot, TlbTypeOK, LockDiscipline, LockedAt
  <2>5. CleanBeforeReset'
    BY <1>0, <1>10, Zenon DEF ResetQueue, Goto, boot, TlbTypeOK, CleanBeforeReset
  <2>6. StaleEntriesAreQueued'
    BY <1>0, <1>10, <2>1, <2>2, Zenon DEF ResetQueue, boot, StaleEntriesAreQueued
  <2> QED
    BY <2>3, <2>4, <2>5, <2>6 DEF TlbInv
<1>11. ASSUME NEW c \in CPUs, Notify(c) PROVE TlbInv'
  <2>1. TlbTypeOK'
    BY <1>0, <1>11, Zenon DEF Notify, Goto, boot, TlbTypeOK
  <2>2. LockDiscipline'
    BY <1>0, <1>11, Zenon DEF Notify, Goto, boot, TlbTypeOK, LockDiscipline, LockedAt
  <2>3. CleanBeforeReset'
    BY <1>0, <1>11, Zenon DEF Notify, Goto, boot, TlbTypeOK, CleanBeforeReset
  <2>4. StaleEntriesAreQueued'
    BY <1>0, <1>11, ZenonT(40) DEF Notify, Goto, boot, TlbTypeOK, StaleEntriesAreQueued
  <2> QED
    BY <2>1, <2>2, <2>3, <2>4 DEF TlbInv
<1>12. CASE UNCHANGED tlbVars
  BY <1>0, <1>12, Zenon DEF tlbVars, TlbInv, TlbTypeOK, LockDiscipline, LockedAt,
     CleanBeforeReset, StaleEntriesAreQueued
<1> QED
  BY <1>1, <1>2, <1>3, <1>4, <1>5, <1>6, <1>7, <1>8, <1>9, <1>10, <1>11, <1>12, SMTT(30)
     DEF TlbNext, Boot, Proceed, Change

\* The inductive invariant holds in every state.
LEMMA TlbInvHolds == TlbSpec => []TlbInv
<1> QED
  BY TlbInvInit, TlbInvNext, PTL DEF TlbSpec

\* For every number of CPUs and pages and every TLB_OP_QUEUE_SIZE: an old
\* translation in a TLB always has an operation in that CPU's queue that will
\* remove it, or is about to get one.
THEOREM NoShootdownLost == TlbSpec => []StaleEntriesAreQueued
<1>1. TlbInv => StaleEntriesAreQueued
  BY DEF TlbInv
<1> QED
  BY <1>1, TlbInvHolds, PTL

\* tlbOperationQueueLength never exceeds TLB_OP_QUEUE_SIZE, so the append of
\* tlb_transaction_queue_invlpg stays inside the array.
THEOREM QueueNeverOverruns == TlbSpec => []TlbTypeOK
<1>1. TlbInv => TlbTypeOK
  BY DEF TlbInv
<1> QED
  BY <1>1, TlbInvHolds, PTL

\* tlb_handle_ops throws no operation away before it has been carried out.
THEOREM NothingResetUndone == TlbSpec => ResetsOnlyWhenClean
<1> DEFINE Clean == \A c \in CPUs : queue[c] # <<>> /\ queue'[c] = <<>> => stale[c] = {}
<1>1. TlbInv /\ [TlbNext]_tlbVars => [Clean]_tlbVars
  <2> SUFFICES ASSUME TlbInv, TlbNext, NEW c \in CPUs,
                      queue[c] # <<>>, queue'[c] = <<>>
               PROVE  stale[c] = {}
    OBVIOUS
  <2>1. queue' # queue
    BY SMTT(30)
  <2>2. CASE \E d \in CPUs : ResetQueue(d)
    <3>1. PICK d \in CPUs : ResetQueue(d)
      BY <2>2
    <3>2. d = c
      BY <3>1, Zenon DEF ResetQueue, TlbInv, TlbTypeOK
    <3> QED
      BY <3>1, <3>2, Zenon DEF ResetQueue, TlbInv, CleanBeforeReset
  <2>3. CASE \E d \in CPUs : tlb_transaction_queue_invlpg(d)
    <3>1. PICK d \in CPUs : tlb_transaction_queue_invlpg(d)
      BY <2>3
    <3>2. page[d] \in Pages /\ queue[c] \in Seq(Pages \cup {FLUSH})
      BY <3>1, Zenon DEF tlb_transaction_queue_invlpg, TlbInv, TlbTypeOK, LockDiscipline
    <3>3. Covers(queue'[c], page[d])
      BY <3>1, <3>2, EnqueueCovers, Zenon DEF tlb_transaction_queue_invlpg
    <3> QED
      BY <3>3, SMTT(30) DEF Covers
  <2> QED
    BY <2>1, <2>2, <2>3, Zenon DEF TlbNext, Boot, Proceed, Change, smp_init, smp_boot,
       smp_ap_init, tlb_transaction_init, WriteEntry, tlb_transaction_commit,
       tlb_handle_ipi, HandleOps, Notify, boot
<1> QED
  BY <1>1, TlbInvHolds, PTL DEF TlbSpec, ResetsOnlyWhenClean
-----------------------------------------------------------------------------
\* The handles of the RAM file system.

HandleRecord(x) == x = [k \in {"active", "file", "position", "block", "at"} |-> x[k]]

Attached(h) == handle[h].active /\ closing[h] = 0

HandleInv ==
  /\ list \in Seq(Files)
  /\ isOpen \in [Files -> BOOLEAN]
  /\ handle = [h \in Handles |-> handle[h]]
  /\ \A h \in Handles : HandleRecord(handle[h]) /\ handle[h].active \in BOOLEAN
  /\ closing \in [Handles -> {0, 1}]
  /\ \A h \in Handles : handle[h].active => handle[h].file \in Files
  /\ \A h \in Handles : closing[h] = 1 => handle[h].active
  /\ \A h \in Handles : Attached(h) => Live(handle[h].file) /\ isOpen[handle[h].file]
  /\ \A g, h \in Handles : Attached(g) /\ Attached(h) /\ g # h => handle[g].file # handle[h].file

\* A set of natural numbers has a least element.
LEMMA LeastElement ==
  ASSUME NEW T \in SUBSET Nat, T # {}
  PROVE  \E m \in T : \A k \in T : m <= k
<1>1. IsWellFoundedOn(OpToRel(<, Nat), Nat)
  BY NatLessThanWellFounded, Zenon
<1>2. PICK m \in T : \A k \in T : ~(<<k, m>> \in OpToRel(<, Nat))
  BY <1>1, WFMin, Zenon
<1>3. \A k \in T : ~(k < m)
  BY <1>2, Zenon DEF OpToRel
<1> QED
  BY <1>3

\* The handle that ramfs_open takes is one that is not active.
LEMMA FreeHandleIs ==
  ASSUME FreeHandle # NULL, \A h \in Handles : handle[h].active \in BOOLEAN
  PROVE  FreeHandle \in Handles /\ ~handle[FreeHandle].active
<1> DEFINE T == {h \in Handles : ~handle[h].active}
<1>1. T \in SUBSET Nat /\ T # {}
  BY RamFsConstants DEF FreeHandle, Handles
<1>2. PICK m \in T : \A k \in T : m <= k
  BY <1>1, LeastElement, ZenonT(40)
<1>3. \A g \in 0 .. m - 1 : handle[g].active
  BY <1>2, RamFsConstants, SMTT(30) DEF Handles
<1>4. \E h \in Handles : ~handle[h].active /\ \A g \in 0 .. h - 1 : handle[g].active
  BY <1>2, <1>3
<1> QED
  BY <1>1, <1>4, ZenonT(40) DEF FreeHandle

\* The file that get_file_entry finds is in the directory.
LEMMA EntryIsLive ==
  ASSUME NEW n, list \in Seq(Files), get_file_entry(n) # NULL
  PROVE  get_file_entry(n) \in Files /\ Live(get_file_entry(n))
<1> DEFINE T == {i \in 1 .. Len(list) : name[list[i]] = n}
<1>1. Len(list) \in Nat /\ \A i \in 1 .. Len(list) : list[i] \in Files
  OBVIOUS
<1>2. T \in SUBSET Nat /\ T # {}
  BY <1>1 DEF get_file_entry
<1>3. PICK m \in T : \A k \in T : m <= k
  BY <1>2, LeastElement, Zenon
<1>4. \A j \in 1 .. m - 1 : name[list[j]] # n
  BY <1>1, <1>3, SMTT(30)
<1> DEFINE P(i) == name[list[i]] = n /\ \A j \in 1 .. i - 1 : name[list[j]] # n
           c == CHOOSE i \in 1 .. Len(list) : P(i)
<1>5. \E i \in 1 .. Len(list) : P(i)
  BY <1>3, <1>4, SMTT(30)
<1>6. c \in 1 .. Len(list)
  BY <1>5, Zenon
<1>7. get_file_entry(n) = list[c]
  BY <1>3, Zenon DEF get_file_entry
<1> QED
  BY <1>1, <1>6, <1>7, Zenon DEF Live

\* An empty directory and no handle in use.
LEMMA InitHandle == RamFsInit => HandleInv
<1> SUFFICES ASSUME RamFsInit PROVE HandleInv
  OBVIOUS
<1>1. \A h \in Handles : handle[h] = Closed /\ closing[h] = 0
  BY DEF RamFsInit
<1>2. \A h \in Handles : HandleRecord(handle[h]) /\ handle[h].active = FALSE
  BY <1>1 DEF Closed, HandleRecord
<1>3. \A h \in Handles : ~Attached(h)
  BY <1>2 DEF Attached
<1>4. handle = [h \in Handles |-> handle[h]] /\ closing \in [Handles -> {0, 1}]
  BY DEF RamFsInit
<1>5. list \in Seq(Files) /\ isOpen \in [Files -> BOOLEAN]
  BY DEF RamFsInit
<1>6. \A h \in Handles : closing[h] # 1
  BY <1>1
<1> QED
  BY <1>2, <1>3, <1>4, <1>5, <1>6, Zenon DEF HandleInv

\* A handle is attached to a file of the directory that no other handle has.
LEMMA AttachKeeps ==
  ASSUME HandleInv, NEW h \in Handles, ~handle[h].active, NEW f \in Files, Attach(h, f),
         closing' = closing, list' \in Seq(Files), Live(f)',
         \A g \in Files : Live(g) => Live(g)',
         \A g \in Handles : Attached(g) => handle[g].file # f
  PROVE  HandleInv'
<1>1. /\ handle'[h] = [active |-> TRUE, file |-> f, position |-> 0, block |-> 1, at |-> 0]
      /\ \A g \in Handles \ {h} : handle'[g] = handle[g]
      /\ handle' = [g \in Handles |-> handle'[g]]
      /\ isOpen'[f] = TRUE /\ \A g \in Files \ {f} : isOpen'[g] = isOpen[g]
      /\ isOpen' \in [Files -> BOOLEAN]
  BY Zenon DEF Attach, HandleInv
<1>2. closing[h] = 0
  BY DEF HandleInv
<1>3. \A g \in Handles \ {h} : Attached(g)' <=> Attached(g)
  BY <1>1, SMTT(30) DEF Attached
<1>4. \A g \in Handles : HandleRecord(handle'[g]) /\ handle'[g].active \in BOOLEAN
                         /\ (handle'[g].active => handle'[g].file \in Files)
                         /\ (closing[g] = 1 => handle'[g].active)
  <2> TAKE g \in Handles
  <2>1. CASE g = h
    <3>1. handle'[g] = [active |-> TRUE, file |-> f, position |-> 0, block |-> 1, at |-> 0]
      BY <1>1, <2>1, SMTT(30)
    <3>2. HandleRecord(handle'[g])
      BY <3>1, SMTT(30) DEF HandleRecord
    <3>3. handle'[g].active = TRUE /\ handle'[g].file = f
      BY <3>1
    <3> QED
      BY <3>2, <3>3, Zenon
  <2>2. CASE g # h
    <3>1. handle'[g] = handle[g]
      BY <1>1, <2>2, SMTT(30)
    <3> QED
      BY <3>1 DEF HandleInv
  <2> QED
    BY <2>1, <2>2, SMTT(30)
<1>5. \A g \in Handles : Attached(g)' => (Live(handle[g].file) /\ isOpen[handle[g].file])'
  <2> TAKE g \in Handles
  <2>1. CASE g = h
    BY <1>1, <2>1, SMTT(30)
  <2>2. CASE g # h
    <3>1. handle'[g] = handle[g] /\ (Attached(g)' <=> Attached(g))
      BY <1>1, <1>3, <2>2, SMTT(30)
    <3>2. Attached(g) => Live(handle[g].file) /\ isOpen[handle[g].file] /\ handle[g].file \in Files
                         /\ handle[g].file # f
      BY DEF HandleInv, Attached
    <3> QED
      BY <1>1, <3>1, <3>2, SMTT(30)
  <2> QED
    BY <2>1, <2>2, SMTT(30)
<1>6. \A g, k \in Handles :
        Attached(g)' /\ Attached(k)' /\ g # k => handle'[g].file # handle'[k].file
  BY <1>1, <1>3, SMTT(30) DEF HandleInv
<1> QED
  BY <1>1, <1>4, <1>5, <1>6, Zenon DEF HandleInv

\* Reading, writing and seeking move the handle within its file.
LEMMA MoveKeeps ==
  ASSUME HandleInv, UNCHANGED <<list, isOpen, closing>>,
         handle' = [g \in Handles |-> handle'[g]],
         \A g \in Handles : /\ HandleRecord(handle'[g]) /\ handle'[g].active = handle[g].active
                            /\ handle'[g].file = handle[g].file
  PROVE  HandleInv'
BY SMTT(30) DEF HandleInv, Attached, Live

\* RemoveAt takes one entry from the directory and keeps the others.
LEMMA RemoveAtKeeps ==
  ASSUME NEW i \in 1 .. Len(list), list \in Seq(Files)
  PROVE  /\ RemoveAt(list, i) \in Seq(Files)
         /\ \A g \in Files \ {list[i]} :
              Live(g) => \E j \in 1 .. Len(RemoveAt(list, i)) : RemoveAt(list, i)[j] = g
<1> DEFINE u == SubSeq(list, 1, i - 1)
           v == SubSeq(list, i + 1, Len(list))
<1>1. /\ u \in Seq(Files) /\ Len(u) = i - 1 /\ \A j \in 1 .. i - 1 : u[j] = list[j]
      /\ v \in Seq(Files) /\ Len(v) = Len(list) - i
      /\ \A j \in 1 .. Len(list) - i : v[j] = list[i + j]
  OBVIOUS
<1>2. RemoveAt(list, i) = u \o v
  BY SMTT(30) DEF RemoveAt
<1> HIDE DEF u, v
<1>3. /\ u \o v \in Seq(Files) /\ Len(u \o v) = Len(u) + Len(v)
      /\ \A j \in 1 .. Len(u) : (u \o v)[j] = u[j]
      /\ \A j \in 1 .. Len(v) : (u \o v)[Len(u) + j] = v[j]
  <2>1. /\ u \o v \in Seq(Files) /\ Len(u \o v) = Len(u) + Len(v)
        /\ \A j \in 1 .. Len(u) + Len(v) :
             (u \o v)[j] = IF j <= Len(u) THEN u[j] ELSE v[j - Len(u)]
    BY <1>1, ConcatProperties, Zenon
  <2> DEFINE w == u \o v
  <2>2. Len(u) \in Nat /\ Len(v) \in Nat
    BY <1>1
  <2> HIDE DEF w
  <2>3. \A j \in 1 .. Len(u) + Len(v) : w[j] = IF j <= Len(u) THEN u[j] ELSE v[j - Len(u)]
    BY <2>1 DEF w
  <2>4. \A j \in 1 .. Len(u) : w[j] = u[j]
    BY <2>2, <2>3
  <2>5. ASSUME NEW j \in 1 .. Len(v) PROVE w[Len(u) + j] = v[j]
    <3>1. Len(u) + j \in 1 .. Len(u) + Len(v) /\ ~(Len(u) + j <= Len(u)) /\ Len(u) + j - Len(u) = j
      BY <2>2
    <3> QED
      BY <2>3, <3>1
  <2> QED
    BY <2>1, <2>4, <2>5 DEF w
<1>4. ASSUME NEW g \in Files \ {list[i]}, Live(g)
      PROVE  \E j \in 1 .. Len(u \o v) : (u \o v)[j] = g
  <2>1. PICK k \in 1 .. Len(list) : list[k] = g
    BY <1>4, SMTT(30) DEF Live
  <2>2. CASE k < i
    <3>1. k \in 1 .. i - 1 /\ Len(list) \in Nat
      BY <2>2, SMTT(30)
    <3>2. (u \o v)[k] = list[k]
      BY <1>1, <1>3, <3>1, SMTT(30)
    <3>3. k \in 1 .. Len(u \o v)
      BY <1>1, <1>3, <3>1, SMTT(30)
    <3> QED
      BY <2>1, <3>2, <3>3, SMTT(30)
  <2>3. CASE k > i
    <3>1. /\ Len(list) \in Nat /\ k - i \in 1 .. Len(list) - i /\ i + (k - i) = k
          /\ (i - 1) + (k - i) \in 1 .. (i - 1) + (Len(list) - i)
      BY <2>3
    <3>2. v[k - i] = list[k]
      BY <1>1, <3>1, SMTT(30)
    <3>3. (u \o v)[Len(u) + (k - i)] = v[k - i] /\ Len(u) + (k - i) \in 1 .. Len(u \o v)
      BY <1>1, <1>3, <3>1, SMTT(30)
    <3> QED
      BY <2>1, <3>2, <3>3, Zenon
  <2> QED
    BY <1>4, <2>1, <2>2, <2>3, SMTT(30)
<1> QED
  BY <1>2, <1>3, <1>4, Zenon

\* A file that is not open, or not in the directory, has no handle attached.
LEMMA NoneAttached ==
  ASSUME HandleInv, NEW f \in Files, ~isOpen[f] \/ ~Live(f)
  PROVE  \A g \in Handles : Attached(g) => handle[g].file # f
BY SMTT(30) DEF HandleInv

\* ramfs_open of an existing file.
LEMMA OpenStep == ASSUME HandleInv, NEW n \in Names, OpenOnce(n) PROVE HandleInv'
<1> DEFINE f == get_file_entry(n)
           h == FreeHandle
<1>1. h \in Handles /\ ~handle[h].active
  BY FreeHandleIs, SMTT(30) DEF OpenOnce, ramfs_open, HandleInv
<1>2. f \in Files /\ Live(f)
  BY EntryIsLive DEF OpenOnce, ramfs_open, HandleInv
<1>3. Attach(h, f) /\ closing' = closing /\ list' = list /\ ~isOpen[f]
  BY DEF OpenOnce, ramfs_open
<1> HIDE DEF f, h
<1>4. \A g \in Handles : Attached(g) => handle[g].file # f
  BY <1>2, <1>3, NoneAttached, SMTT(30)
<1>5. list' \in Seq(Files) /\ \A g \in Files : Live(g) => Live(g)'
  BY <1>3, SMTT(30) DEF HandleInv, Live
<1> QED
  BY <1>1, <1>2, <1>3, <1>4, <1>5, AttachKeeps, SMTT(30)

\* create_file and the open of the file it made.
LEMMA CreateStep ==
  ASSUME HandleInv, NEW n \in Names, NEW f \in Files, create_file(n, f) PROVE HandleInv'
<1> DEFINE h == FreeHandle
<1>1. h \in Handles /\ ~handle[h].active
  BY FreeHandleIs DEF create_file, HandleInv
<1>2. Attach(h, f) /\ closing' = closing /\ list' = Append(list, f) /\ ~Live(f)
  BY DEF create_file
<1> HIDE DEF h
<1>3. list \in Seq(Files)
  BY DEF HandleInv
<1>4. list' \in Seq(Files) /\ Len(list') = Len(list) + 1 /\ list'[Len(list) + 1] = f
      /\ \A i \in 1 .. Len(list) : list'[i] = list[i]
  BY <1>2, <1>3, SMTT(30)
<1>5. Live(f)' /\ \A g \in Files : Live(g) => Live(g)'
  BY <1>3, <1>4, SMTT(30) DEF Live
<1>6. \A g \in Handles : Attached(g) => handle[g].file # f
  BY <1>2, NoneAttached, SMTT(30)
<1> QED
  BY <1>1, <1>2, <1>4, <1>5, <1>6, AttachKeeps, SMTT(30)

\* ramfs_delete: no handle is attached to the file that leaves the directory.
LEMMA DeleteStep == ASSUME HandleInv, NEW n \in Names, ramfs_delete(n) PROVE HandleInv'
<1> DEFINE f == get_file_entry(n)
           i == CHOOSE j \in 1 .. Len(list) : list[j] = f
<1>1. f \in Files /\ Live(f)
  BY EntryIsLive DEF ramfs_delete, HandleInv
<1>2. ~isOpen[f] /\ list' = RemoveAt(list, i) /\ UNCHANGED <<isOpen, handle, closing>>
  BY DEF ramfs_delete
<1>3. i \in 1 .. Len(list) /\ list[i] = f
  BY <1>1, Zenon DEF Live
<1> HIDE DEF f, i
<1>4. \A g \in Handles : Attached(g) => handle[g].file # f
  BY <1>1, <1>2, NoneAttached, SMTT(30)
<1>5. list \in Seq(Files)
  BY DEF HandleInv
<1>6. list' \in Seq(Files) /\ \A g \in Files \ {f} : Live(g) => Live(g)'
  BY <1>2, <1>3, <1>5, RemoveAtKeeps, Zenon DEF Live
<1>7. \A g \in Handles : Attached(g) => (Live(handle[g].file) /\ isOpen[handle[g].file])'
  BY <1>2, <1>4, <1>6, SMTT(30) DEF HandleInv, Attached
<1>8. \A g \in Handles : Attached(g)' <=> Attached(g)
  BY <1>2, SMTT(30) DEF Attached
<1> QED
  BY <1>2, <1>6, <1>7, <1>8, SMTT(30) DEF HandleInv

\* The first store of ramfs_close: the handle is no longer attached, and the file
\* whose flag is cleared has no other handle.
LEMMA CloseFirst ==
  ASSUME HandleInv, NEW h \in Handles, ramfs_close(h), closing[h] = 0
  PROVE  HandleInv'
<1> DEFINE f == handle[h].file
<1>1. handle[h].active /\ Attached(h) /\ f \in Files
  BY DEF ramfs_close, Attached, HandleInv
<1>2. closing' = [closing EXCEPT ![h] = 1] /\ isOpen' = [isOpen EXCEPT ![f] = FALSE]
      /\ list' = list /\ handle' = handle
  <2>1. CloseOrder(closing[h] + 1) = "isOpen"
    BY DEF CloseOrder
  <2>2. closing' = [closing EXCEPT ![h] = 1 - closing[h]] /\ 1 - closing[h] = 1
    BY DEF ramfs_close, HandleInv
  <2> QED
    BY <2>1, <2>2 DEF ramfs_close
<1>3. closing' \in [Handles -> {0, 1}] /\ closing'[h] = 1
      /\ \A g \in Handles \ {h} : closing'[g] = closing[g]
  BY <1>2 DEF HandleInv
<1>4. isOpen' \in [Files -> BOOLEAN] /\ \A g \in Files \ {f} : isOpen'[g] = isOpen[g]
  BY <1>1, <1>2, Zenon DEF HandleInv
<1>5. ~Attached(h)' /\ \A g \in Handles \ {h} : Attached(g)' <=> Attached(g)
  BY <1>2, <1>3, SMTT(30) DEF Attached
<1>6. \A g \in Handles : Live(handle[g].file)' <=> Live(handle[g].file)
  BY <1>2, SMTT(30) DEF Live
<1>7. \A g \in Handles : Attached(g)' => (Live(handle[g].file) /\ isOpen[handle[g].file])'
  <2> SUFFICES ASSUME NEW g \in Handles, Attached(g)'
               PROVE  Live(handle[g].file)' /\ isOpen'[handle'[g].file]
    OBVIOUS
  <2>1. g # h /\ Attached(g)
    BY <1>5, SMTT(30)
  <2>2. handle[g].file # f /\ handle[g].file \in Files
    BY <1>1, <2>1, SMTT(30) DEF HandleInv, Attached
  <2>3. Live(handle[g].file) /\ isOpen[handle[g].file]
    BY <2>1, SMTT(30) DEF HandleInv
  <2> QED
    BY <1>2, <1>4, <1>6, <2>2, <2>3, SMTT(30)
<1>8. \A g, k \in Handles : Attached(g)' /\ Attached(k)' /\ g # k => handle[g].file # handle[k].file
  BY <1>5, SMTT(30) DEF HandleInv
<1>9. \A g \in Handles : closing'[g] = 1 => handle[g].active
  BY <1>1, <1>3 DEF HandleInv
<1> QED
  BY <1>2, <1>3, <1>4, <1>7, <1>8, <1>9, SMTT(30) DEF HandleInv

\* The second store of ramfs_close gives back a handle that is attached to no file.
LEMMA CloseSecond ==
  ASSUME HandleInv, NEW h \in Handles, ramfs_close(h), closing[h] = 1
  PROVE  HandleInv'
<1> DEFINE r == [Closed EXCEPT !.file = handle[h].file]
<1>1. closing' = [closing EXCEPT ![h] = 0] /\ handle' = [handle EXCEPT ![h] = r]
      /\ list' = list /\ isOpen' = isOpen
  <2>1. CloseOrder(closing[h] + 1) = "active"
    BY DEF CloseOrder
  <2>2. closing' = [closing EXCEPT ![h] = 1 - closing[h]] /\ 1 - closing[h] = 0
    BY DEF ramfs_close, HandleInv
  <2> QED
    BY <2>1, <2>2 DEF ramfs_close
<1>2. \A x : HandleRecord([Closed EXCEPT !.file = x]) /\ [Closed EXCEPT !.file = x].active = FALSE
  BY Zenon DEF Closed, HandleRecord
<1>3. HandleRecord(r) /\ r.active = FALSE
  BY <1>2, Zenon
<1> HIDE DEF r
<1>4. /\ handle'[h] = r /\ \A g \in Handles \ {h} : handle'[g] = handle[g]
      /\ handle' = [g \in Handles |-> handle'[g]]
  BY <1>1 DEF HandleInv
<1>5. closing' \in [Handles -> {0, 1}] /\ closing'[h] = 0
      /\ \A g \in Handles \ {h} : closing'[g] = closing[g]
  BY <1>1 DEF HandleInv
<1>6. handle'[h].active = FALSE
  BY <1>3, <1>4
<1>7. ~Attached(h)' /\ \A g \in Handles \ {h} : Attached(g)' <=> Attached(g)
  BY <1>4, <1>5, <1>6, SMTT(30) DEF Attached
<1>8. \A g \in Handles : HandleRecord(handle'[g]) /\ handle'[g].active \in BOOLEAN
                         /\ (handle'[g].active => handle'[g].file \in Files)
                         /\ (closing'[g] = 1 => handle'[g].active)
  <2> TAKE g \in Handles
  <2>1. CASE g = h
    <3>1. handle'[g] = r /\ closing'[g] # 1
      BY <1>4, <1>5, <2>1, SMTT(30)
    <3> QED
      BY <1>3, <3>1, Zenon
  <2>2. CASE g # h
    <3>1. handle'[g] = handle[g] /\ closing'[g] = closing[g]
      BY <1>4, <1>5, <2>2, SMTT(30)
    <3> QED
      BY <3>1, SMTT(30) DEF HandleInv
  <2> QED
    BY <2>1, <2>2, SMTT(30)
<1>9. \A g \in Handles : Attached(g)' => (Live(handle[g].file) /\ isOpen[handle[g].file])'
  <2> SUFFICES ASSUME NEW g \in Handles, Attached(g)'
               PROVE  Live(handle[g].file)' /\ isOpen'[handle'[g].file]
    OBVIOUS
  <2>1. handle'[g] = handle[g] /\ Attached(g)
    BY <1>4, <1>7, SMTT(30)
  <2>2. Live(handle[g].file) /\ isOpen[handle[g].file]
    BY <2>1, SMTT(30) DEF HandleInv
  <2> QED
    BY <1>1, <2>1, <2>2, SMTT(30) DEF Live
<1>10. \A g, k \in Handles :
         Attached(g)' /\ Attached(k)' /\ g # k => handle'[g].file # handle'[k].file
  BY <1>4, <1>7, SMTT(30) DEF HandleInv
<1> QED
  BY <1>1, <1>4, <1>5, <1>8, <1>9, <1>10, Zenon DEF HandleInv

\* What the owner of a handle does with it.
LEMMA UseStep == ASSUME HandleInv, NEW h \in Handles, Use(h) PROVE HandleInv'
<1>1. CASE ramfs_close(h)
  <2>1. closing[h] = 0 \/ closing[h] = 1
    BY DEF HandleInv
  <2> QED
    BY <1>1, <2>1, CloseFirst, CloseSecond, SMTT(30)
<1>2. ASSUME NEW b, NEW a, NEW p,
             handle' = handle
               \/ handle' = [handle EXCEPT ![h].block = b, ![h].at = a, ![h].position = p],
             UNCHANGED <<list, isOpen, closing>>
      PROVE  HandleInv'
  <2> DEFINE r == [handle[h] EXCEPT !.block = b, !.at = a, !.position = p]
  <2>1. HandleRecord(r) /\ r.active = handle[h].active /\ r.file = handle[h].file
    <3>1. \A x : HandleRecord(x) =>
                 LET y == [x EXCEPT !.block = b, !.at = a, !.position = p]
                 IN HandleRecord(y) /\ y.active = x.active /\ y.file = x.file
      BY Zenon DEF HandleRecord
    <3> QED
      BY <3>1, Zenon DEF HandleInv
  <2>2. CASE handle' = handle
    BY <1>2, <2>2, MoveKeeps, SMTT(30) DEF HandleInv
  <2>3. CASE handle' = [handle EXCEPT ![h].block = b, ![h].at = a, ![h].position = p]
    <3>1. handle' = [handle EXCEPT ![h] = r]
      BY <2>3, ZenonT(40)
    <3> HIDE DEF r
    <3>2. handle' = [g \in Handles |-> handle'[g]] /\ handle'[h] = r
          /\ \A g \in Handles \ {h} : handle'[g] = handle[g]
      BY <3>1, SMTT(30) DEF HandleInv
    <3>3. \A g \in Handles : HandleRecord(handle'[g]) /\ handle'[g].active = handle[g].active
                             /\ handle'[g].file = handle[g].file
      BY <2>1, <3>2 DEF HandleInv
    <3> QED
      BY <1>2, <3>2, <3>3, MoveKeeps, SMTT(30)
  <2> QED
    BY <1>2, <2>2, <2>3, SMTT(30)
<1>3. ASSUME NEW n \in 0 .. MaxLength, ramfs_read(h, n) PROVE HandleInv'
  BY <1>2, <1>3, Zenon DEF ramfs_read
<1>4. ASSUME NEW s \in Data, ramfs_write(h, s) PROVE HandleInv'
  <2> DEFINE res == WriteLoop(blocks[handle[h].file], handle[h].block, handle[h].at, s)
  <2>1. /\ UNCHANGED <<list, isOpen, closing>>
        /\ \/ handle' = handle
           \/ handle' = [handle EXCEPT ![h].block = res.block, ![h].at = res.at,
                                       ![h].position = @ + Len(s)]
    BY <1>4, SMTT(30) DEF ramfs_write
  <2> HIDE DEF res
  <2> QED
    BY <1>2, <2>1, ZenonT(40)
<1>5. ASSUME NEW w \in {"start", "current", "end"}, NEW o \in Offsets, ramfs_seek(h, w, o)
      PROVE  HandleInv'
  BY <1>2, <1>5, Zenon DEF ramfs_seek
<1> QED
  BY <1>1, <1>3, <1>4, <1>5, SMTT(30) DEF Use

\* Every step keeps the invariant of the handles.
LEMMA NextHandle == HandleInv /\ [RamFsNext]_ramfsVars => HandleInv'
<1> SUFFICES ASSUME HandleInv, [RamFsNext]_ramfsVars PROVE HandleInv'
  OBVIOUS
<1>1. CASE UNCHANGED ramfsVars
  BY <1>1 DEF ramfsVars, HandleInv, Attached, Live
<1>2. CASE RamFsNext
  BY <1>2, OpenStep, DeleteStep, CreateStep, UseStep, SMTT(30) DEF RamFsNext
<1> QED
  BY <1>1, <1>2, SMTT(30)

\* A file is not freed under a handle that can be used, whatever ramfs_open and
\* ramfs_delete do between the two stores of a ramfs_close.
THEOREM HandlesNeverDangle == RamFsSpec => []NoDanglingHandle
<1>1. HandleInv => NoDanglingHandle
  BY DEF HandleInv, NoDanglingHandle, Usable, Attached
<1> QED
  BY <1>1, InitHandle, NextHandle, PTL DEF RamFsSpec
=============================================================================
