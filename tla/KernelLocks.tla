---------------------------- MODULE KernelLocks -----------------------------
(***************************************************************************)
(* The kernel's sleepless locks: the interrupt mask count (lock/intr.c),   *)
(* the spinlock (lock/spinlock.c) and the read-write lock (lock/rwlock.c), *)
(* used the way the kernel uses them: intr_dispatch walks the handler list *)
(* as a reader of intr_route_lock, the routing functions of intr/route.c   *)
(* change it as writers, and both take malloc_lock inside, as does the     *)
(* code they interrupt.                                                    *)
(*                                                                         *)
(* todo[c] is what CPU c has yet to do, the innermost call first: a call   *)
(* is replaced by its body, and an interrupt puts its handler in front of  *)
(* the code it interrupts.  Every step on shared state or on the flag IF   *)
(* is a step of the model, so an interrupt may come between any two.       *)
(***************************************************************************)
EXTENDS Integers, Sequences, TLC

CONSTANTS CPUs,
          NONE,           \* nobody
          MaxPermits      \* INT_MAX, the largest value of read_permits

ASSUME LockConstants ==
  /\ NONE \notin CPUs
  /\ MaxPermits \in Nat \ {0}

\* lock->lock of intr_route_lock, and malloc_lock.
Locks == {"route", "malloc"}

VARIABLES
  todo,       \* the steps each CPU has yet to take
  mask,       \* cpu->intr_mask_count
  IF_,        \* the interrupt flag of each CPU
  spin,       \* the CPU that set each spinlock to SPIN_LOCKED, or NONE
  permits,    \* intr_route_lock.read_permits
  writing,    \* intr_route_lock.writing
  failed      \* an assertion has failed

vars == <<todo, mask, IF_, spin, permits, writing, failed>>

Init ==
  /\ todo = [c \in CPUs |-> <<>>]
  /\ mask = [c \in CPUs |-> 0]
  /\ IF_ = [c \in CPUs |-> TRUE]
  /\ spin = [l \in Locks |-> NONE]
  /\ permits = 0
  /\ writing = FALSE
  /\ failed = FALSE

\* A step: an operation of CPU c, or one on lock l.
Do(op) == <<op, "">>
Lock(l) == <<"spin_lock", l>>
TryLock(l) == <<"cas", l>>
Unlock(l) == <<"spin_unlock", l>>

\* The next step of CPU c, and taking it: `body' runs next.
At(c, step) == todo[c] # <<>> /\ Head(todo[c]) = step
Continue(c, body) == todo' = [todo EXCEPT ![c] = body \o Tail(@)]
Begin(c, body) == todo' = [todo EXCEPT ![c] = body \o @]
-----------------------------------------------------------------------------
\* intr_lock counts first and disables interrupts after.
intr_lock(c) ==
  /\ At(c, Do("intr_lock"))
  /\ mask' = [mask EXCEPT ![c] = @ + 1]
  /\ Continue(c, IF mask[c] = 0 THEN <<Do("cli")>> ELSE <<>>)
  /\ UNCHANGED <<IF_, spin, permits, writing, failed>>

intr_disable(c) ==
  /\ At(c, Do("cli"))
  /\ IF_' = [IF_ EXCEPT ![c] = FALSE]
  /\ Continue(c, <<>>)
  /\ UNCHANGED <<mask, spin, permits, writing, failed>>

\* intr_unlock enables interrupts when the count comes back to 0.
intr_unlock(c) ==
  /\ At(c, Do("intr_unlock"))
  /\ failed' = (failed \/ mask[c] = 0)
  /\ mask' = [mask EXCEPT ![c] = @ - 1]
  /\ Continue(c, IF mask[c] = 1 THEN <<Do("sti")>> ELSE <<>>)
  /\ UNCHANGED <<IF_, spin, permits, writing>>

intr_enable(c) ==
  /\ At(c, Do("sti"))
  /\ IF_' = [IF_ EXCEPT ![c] = TRUE]
  /\ Continue(c, <<>>)
  /\ UNCHANGED <<mask, spin, permits, writing, failed>>
-----------------------------------------------------------------------------
\* Mutated form of spin_lock: interrupts are masked only after the lock was
\* taken.
LockThenMask(c, l) ==
  /\ At(c, Lock(l))
  /\ Continue(c, <<TryLock(l), Do("intr_lock")>>)
  /\ UNCHANGED <<mask, IF_, spin, permits, writing, failed>>

\* spin_lock repeats spin_try_lock, which masks interrupts, tries to take the
\* lock, and unmasks them again when it is taken.
spin_lock(c, l) ==
  /\ At(c, Lock(l))
  /\ Continue(c, <<Do("intr_lock"), TryLock(l)>>)
  /\ UNCHANGED <<mask, IF_, spin, permits, writing, failed>>

\* Mutated form of spin_try_lock: a failed attempt leaves interrupts masked.
TryLockKeepsMask(c, l) ==
  /\ At(c, TryLock(l))
  /\ IF spin[l] = NONE
     THEN /\ spin' = [spin EXCEPT ![l] = c]
          /\ Continue(c, <<>>)
     ELSE /\ Continue(c, <<Lock(l)>>)
          /\ UNCHANGED spin
  /\ UNCHANGED <<mask, IF_, permits, writing, failed>>

spin_try_lock(c, l) ==
  /\ At(c, TryLock(l))
  /\ IF spin[l] = NONE
     THEN /\ spin' = [spin EXCEPT ![l] = c]
          /\ Continue(c, <<>>)
     ELSE /\ Continue(c, <<Do("intr_unlock"), Lock(l)>>)
          /\ UNCHANGED spin
  /\ UNCHANGED <<mask, IF_, permits, writing, failed>>

\* spin_unlock releases the lock before it unmasks interrupts.
spin_unlock(c, l) ==
  /\ At(c, Unlock(l))
  /\ failed' = (failed \/ spin[l] = NONE)
  /\ spin' = [spin EXCEPT ![l] = NONE]
  /\ Continue(c, <<Do("intr_unlock")>>)
  /\ UNCHANGED <<mask, IF_, permits, writing>>
-----------------------------------------------------------------------------
\* A section under lock->lock of the read-write lock.
Locked(body) == <<Lock("route")>> \o body

\* The calls of the read-write lock up to the test of its fields.
RwCall(c) ==
  /\ \/ At(c, Do("rw_rlock"))   /\ Continue(c, Locked(<<Do("rtest")>>))
     \/ At(c, Do("rw_runlock")) /\ Continue(c, Locked(<<Do("rdone")>>))
     \/ At(c, Do("rw_wlock"))   /\ Continue(c, Locked(<<Do("wtest")>>))
     \/ At(c, Do("rw_wunlock")) /\ Continue(c, Locked(<<Do("wdone")>>))
  /\ UNCHANGED <<mask, IF_, spin, permits, writing, failed>>

\* Mutated form of rw_rlock: read_permits is taken while a writer is in.
ReadWhileWriting(c) ==
  /\ At(c, Do("rtest"))
  /\ IF permits # MaxPermits
     THEN /\ permits' = permits + 1
          /\ Continue(c, <<Do("intr_lock"), Unlock("route")>>)
     ELSE /\ Continue(c, <<Unlock("route"), Do("rw_rlock")>>)
          /\ UNCHANGED permits
  /\ UNCHANGED <<mask, IF_, spin, writing, failed>>

\* rw_rlock: wait until nobody writes, and keep interrupts masked.
rw_rlock(c) ==
  /\ At(c, Do("rtest"))
  /\ IF ~writing /\ permits # MaxPermits
     THEN /\ permits' = permits + 1
          /\ Continue(c, <<Do("intr_lock"), Unlock("route")>>)
     ELSE /\ Continue(c, <<Unlock("route"), Do("rw_rlock")>>)
          /\ UNCHANGED permits
  /\ UNCHANGED <<mask, IF_, spin, writing, failed>>

rw_runlock(c) ==
  /\ At(c, Do("rdone"))
  /\ permits' = permits - 1
  /\ Continue(c, <<Do("intr_unlock"), Unlock("route")>>)
  /\ UNCHANGED <<mask, IF_, spin, writing, failed>>

\* rw_wlock: wait until nobody reads or writes, and keep interrupts masked.
rw_wlock(c) ==
  /\ At(c, Do("wtest"))
  /\ IF ~writing /\ permits = 0
     THEN /\ writing' = TRUE
          /\ Continue(c, <<Do("intr_lock"), Unlock("route")>>)
     ELSE /\ Continue(c, <<Unlock("route"), Do("rw_wlock")>>)
          /\ UNCHANGED writing
  /\ UNCHANGED <<mask, IF_, spin, permits, failed>>

rw_wunlock(c) ==
  /\ At(c, Do("wdone"))
  /\ writing' = FALSE
  /\ Continue(c, <<Do("intr_unlock"), Unlock("route")>>)
  /\ UNCHANGED <<mask, IF_, spin, permits, failed>>
-----------------------------------------------------------------------------
\* malloc or free: dlmalloc under malloc_lock.
Malloc == <<Lock("malloc"), Do("dlmalloc"), Unlock("malloc")>>

\* intr_dispatch: a handler (keyboard_handle_interrupt, say) may allocate.
intr_dispatch == {<<Do("rw_rlock"), Do("walk"), Do("rw_runlock")>>,
                  <<Do("rw_rlock"), Do("walk")>> \o Malloc \o <<Do("rw_runlock")>>}

\* intr_route_intr and intr_unroute_intr, which change the list of handlers;
\* intr_route_irq_to, which programs the I/O APIC.
intr_route_intr == <<Do("rw_wlock")>> \o Malloc \o <<Do("change"), Do("rw_wunlock")>>
intr_unroute_intr == <<Do("rw_wlock"), Do("change")>> \o Malloc \o <<Do("rw_wunlock")>>
intr_route_irq_to == <<Do("rw_wlock"), Do("rw_wunlock")>>

\* The code under a lock, which these models do not describe further.
Section(c) ==
  /\ \E s \in {Do("walk"), Do("change"), Do("dlmalloc")} : At(c, s)
  /\ Continue(c, <<>>)
  /\ UNCHANGED <<mask, IF_, spin, permits, writing, failed>>

\* Boot code calls the routing functions or the allocator with interrupts on.
Call(c) ==
  /\ todo[c] = <<>>
  /\ \E body \in {Malloc, intr_route_intr, intr_unroute_intr, intr_route_irq_to} :
       Begin(c, body)
  /\ UNCHANGED <<mask, IF_, spin, permits, writing, failed>>

\* A system call: SYSCALL clears IF, the stub counts.
syscall_stub(c) ==
  /\ todo[c] = <<>>
  /\ IF_' = [IF_ EXCEPT ![c] = FALSE]
  /\ mask' = [mask EXCEPT ![c] = @ + 1]
  /\ Begin(c, Malloc \o <<Do("return")>>)
  /\ UNCHANGED <<spin, permits, writing, failed>>

\* Mutated form of intr_stub: the entry code does not count.
StubForgetsMask(c) ==
  /\ IF_[c]
  /\ IF_' = [IF_ EXCEPT ![c] = FALSE]
  /\ \E handler \in intr_dispatch : Begin(c, handler \o <<Do("return")>>)
  /\ UNCHANGED <<mask, spin, permits, writing, failed>>

\* An interrupt: the processor clears IF, the stub counts.
intr_stub(c) ==
  /\ IF_[c]
  /\ IF_' = [IF_ EXCEPT ![c] = FALSE]
  /\ mask' = [mask EXCEPT ![c] = @ + 1]
  /\ \E handler \in intr_dispatch : Begin(c, handler \o <<Do("return")>>)
  /\ UNCHANGED <<spin, permits, writing, failed>>

\* The end of either: IRETQ or SYSRET restores the flag IF, which was set.
Return(c) ==
  /\ At(c, Do("return"))
  /\ IF_' = [IF_ EXCEPT ![c] = TRUE]
  /\ mask' = [mask EXCEPT ![c] = @ - 1]
  /\ Continue(c, <<>>)
  /\ UNCHANGED <<spin, permits, writing, failed>>

Next == \E c \in CPUs :
  \/ intr_lock(c) \/ intr_disable(c) \/ intr_unlock(c) \/ intr_enable(c)
  \/ \E l \in Locks : spin_lock(c, l) \/ spin_try_lock(c, l) \/ spin_unlock(c, l)
  \/ RwCall(c) \/ rw_rlock(c) \/ rw_runlock(c) \/ rw_wlock(c) \/ rw_wunlock(c)
  \/ Section(c) \/ Call(c) \/ syscall_stub(c) \/ intr_stub(c) \/ Return(c)

Spec == Init /\ [][Next]_vars
-----------------------------------------------------------------------------
TypeOK ==
  /\ mask \in [CPUs -> 0 .. 4]
  /\ IF_ \in [CPUs -> BOOLEAN]
  /\ spin \in [Locks -> CPUs \cup {NONE}]
  /\ permits \in 0 .. MaxPermits
  /\ writing \in BOOLEAN

\* No assertion of intr_unlock or spin_unlock ever fails.
NoAssertionFails == ~failed

\* intr_dispatch never walks the list of handlers, and the routing functions
\* never change it, while another CPU is changing it; dlmalloc runs on one CPU.
SectionsExclude ==
  \A c, d \in CPUs :
    c # d => /\ At(c, Do("change")) => ~At(d, Do("change")) /\ ~At(d, Do("walk"))
             /\ ~(At(c, Do("dlmalloc")) /\ At(d, Do("dlmalloc")))

\* CPU c has the read-write lock for writing.
Pending(c, step) == \E i \in 1 .. Len(todo[c]) : todo[c][i] = step
Writes(c) ==
  \/ Pending(c, Do("rw_wunlock")) /\ ~Pending(c, Do("rw_wlock")) /\ ~Pending(c, Do("wtest"))
  \/ Pending(c, Do("wdone"))

\* No CPU ever waits for a lock that it holds itself, in the code that it has
\* interrupted.
NeverWaitsForItself ==
  \A c \in CPUs :
    /\ \A l \in Locks : At(c, TryLock(l)) => spin[l] # c
    /\ At(c, Do("rtest")) /\ writing => ~Writes(c)

\* Interrupts follow the locks.  A lock is held with interrupts disabled, "so
\* this lock is safe to be used inside an interrupt handler"; and a CPU that has
\* left the kernel's locks, in whatever order they were taken, runs with
\* interrupts enabled and owns none of them.
MaskFollowsLocks ==
  /\ TypeOK
  /\ \A c \in CPUs :
       (\E s \in {Do("walk"), Do("change"), Do("dlmalloc")} : At(c, s)) => ~IF_[c]
  /\ \A c \in CPUs :
       todo[c] = <<>> => IF_[c] /\ mask[c] = 0 /\ \A l \in Locks : spin[l] # c
  /\ (\A c \in CPUs : todo[c] = <<>>) => permits = 0 /\ ~writing

Symmetry == Permutations(CPUs)
=============================================================================
