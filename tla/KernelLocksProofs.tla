-------------------------- MODULE KernelLocksProofs -------------------------
(***************************************************************************)
(* The locks of the kernel exclude each other, never fail an assertion and *)
(* leave the interrupt mask as they found it, for any number of CPUs and   *)
(* however deep interrupts and lock attempts interleave.                   *)
(*                                                                         *)
(* What a CPU has yet to do, todo[c], is a program that grows and shrinks; *)
(* the invariant is a typing of it.  Each step moves the CPU from one      *)
(* situation (mask count, flag, locks owned) to another (Moves), and the   *)
(* program is typed if its steps lead from the CPU's present situation to  *)
(* that of a CPU outside the kernel (RunsTo).  A call has the same type as *)
(* its body, and an attempt that failed the same type as one that did not, *)
(* so every step of a CPU leaves a typed program behind, and the steps of  *)
(* other CPUs do not change its situation.                                 *)
(***************************************************************************)
EXTENDS LockProgramProofs

\* The situation of CPU c, given which CPUs read and which write.
SituationOf(c, reads, writes) ==
  Sit(mask[c], IF IF_[c] THEN "on" ELSE "off", {l \in Locks : spin[l] = c},
      reads[c], writes[c])

\* The CPUs that read are n.
Readers(n, reads) ==
  \E f \in [1 .. n -> CPUs] :
    /\ \A i, j \in 1 .. n : f[i] = f[j] => i = j
    /\ \A c \in CPUs : reads[c] = "yes" <=> \E i \in 1 .. n : f[i] = c

\* read_permits counts the readers, and a writer is alone.
Shared(reads, writes) ==
  /\ Readers(permits, reads)
  /\ permits <= MaxPermits
  /\ writing <=> \E c \in CPUs : writes[c] # "no"
  /\ \A c, d \in CPUs : writes[c] # "no" => reads[d] = "no"
  /\ \A c, d \in CPUs : writes[c] # "no" /\ writes[d] # "no" => c = d

\* Every CPU's program leads it outside, from the situation it is in.
Typed(reads, writes) ==
  /\ reads \in [CPUs -> {"no", "yes"}]
  /\ writes \in [CPUs -> {"no", "yes", "leaving"}]
  /\ Shared(reads, writes)
  /\ \A c \in CPUs : RunsTo(todo[c], SituationOf(c, reads, writes), Outside)

\* The inductive invariant.
LInv ==
  /\ ~failed
  /\ todo \in [CPUs -> Seq(Step)]
  /\ TypeOK
  /\ \E reads \in [CPUs -> {"no", "yes"}],
        writes \in [CPUs -> {"no", "yes", "leaving"}] : Typed(reads, writes)
-----------------------------------------------------------------------------
\* The mask, the flag and the spinlocks of CPU c become those of a1, and the
\* others keep theirs.
Machine(c, a1) ==
  /\ mask' \in [CPUs -> Int] /\ mask'[c] = a1.mask
  /\ IF_' \in [CPUs -> BOOLEAN] /\ (IF_'[c] <=> a1.flag = "on")
  /\ spin' \in [Locks -> CPUs \cup {NONE}]
  /\ \A l \in Locks : spin'[l] = c <=> l \in a1.own
  /\ \A d \in CPUs \ {c} : mask'[d] = mask[d] /\ (IF_'[d] <=> IF_[d])
                           /\ \A l \in Locks : spin'[l] = d <=> spin[l] = d

\* A step takes CPU c to the situation a1, from which its program leads outside.
Becomes(c, a1) ==
  /\ a1 \in Sound
  /\ \E p \in Seq(Step) : todo' = [todo EXCEPT ![c] = p] /\ RunsTo(p, a1, Outside)
  /\ Machine(c, a1)

\* The situation of a CPU is sound, and made of the CPU's own state.
LEMMA SituationIs ==
  ASSUME LInv, NEW reads, NEW writes, Typed(reads, writes), NEW c \in CPUs
  PROVE  /\ SituationOf(c, reads, writes) \in Sound
         /\ SituationOf(c, reads, writes).mask = mask[c]
         /\ SituationOf(c, reads, writes).flag = IF IF_[c] THEN "on" ELSE "off"
         /\ SituationOf(c, reads, writes).own = {l \in Locks : spin[l] = c}
         /\ SituationOf(c, reads, writes).reads = reads[c]
         /\ SituationOf(c, reads, writes).writes = writes[c]
<1> DEFINE a == SituationOf(c, reads, writes)
<1>1. todo[c] \in Seq(Step) /\ RunsTo(todo[c], a, Outside)
  BY DEF LInv, Typed
<1>2. Outside \in Sound
  BY SitIs DEF Outside
<1> HIDE DEF a
<1>3. a \in Sound
  <2>1. CASE todo[c] = <<>>
    BY <1>1, <1>2, <2>1, RunsNothingIs
  <2>2. CASE todo[c] # <<>>
    BY <1>1, <2>2, RunsHead
  <2> QED
    BY <2>1, <2>2
<1>4. /\ a.mask = mask[c] /\ a.flag = (IF IF_[c] THEN "on" ELSE "off")
      /\ a.own = {l \in Locks : spin[l] = c}
      /\ a.reads = reads[c] /\ a.writes = writes[c]
  BY SitIs DEF SituationOf, a
<1> QED
  BY <1>3, <1>4 DEF a

\* A CPU that takes a step takes it to the situation its body starts from.
LEMMA Takes ==
  ASSUME LInv, NEW reads, NEW writes, Typed(reads, writes), NEW c \in CPUs,
         NEW step, NEW body \in Seq(Step), NEW a1,
         At(c, step), Continue(c, body),
         \A b \in Sound : Moves(step, SituationOf(c, reads, writes), b)
                            => RunsTo(body, a1, b)
  PROVE  \E p \in Seq(Step) : todo' = [todo EXCEPT ![c] = p] /\ RunsTo(p, a1, Outside)
<1> DEFINE s == todo[c]
           a == SituationOf(c, reads, writes)
<1>1. s \in Seq(Step) /\ RunsTo(s, a, Outside) /\ s # <<>> /\ Head(s) = step
  BY DEF LInv, Typed, At
<1>2. todo' = [todo EXCEPT ![c] = body \o Tail(s)]
  BY DEF Continue
<1>3. \A b \in Sound : Moves(Head(s), a, b) => RunsTo(body, a1, b)
  BY <1>1
<1> HIDE DEF s, a
<1>4. body \o Tail(s) \in Seq(Step) /\ RunsTo(body \o Tail(s), a1, Outside)
  BY <1>1, <1>3, Reduces
<1> QED
  BY <1>2, <1>4, Zenon

\* A step of CPU c after which its program still leads outside, and the
\* read-write lock still counts its readers, preserves the invariant.
LEMMA BecomesKeeps ==
  ASSUME LInv, NEW reads, NEW writes, Typed(reads, writes), NEW c \in CPUs,
         NEW a1, Becomes(c, a1), permits' \in Nat, writing' \in BOOLEAN, ~failed',
         Shared([reads EXCEPT ![c] = a1.reads], [writes EXCEPT ![c] = a1.writes])'
  PROVE  LInv'
<1> DEFINE r2 == [reads EXCEPT ![c] = a1.reads]
           w2 == [writes EXCEPT ![c] = a1.writes]
<1>1. /\ todo \in [CPUs -> Seq(Step)] /\ mask \in [CPUs -> 0 .. 4]
      /\ reads \in [CPUs -> {"no", "yes"}] /\ writes \in [CPUs -> {"no", "yes", "leaving"}]
  BY DEF LInv, Typed, TypeOK
<1>2. PICK p \in Seq(Step) : todo' = [todo EXCEPT ![c] = p] /\ RunsTo(p, a1, Outside)
  BY Zenon DEF Becomes
<1>3. todo' \in [CPUs -> Seq(Step)] /\ todo'[c] = p
      /\ \A d \in CPUs \ {c} : todo'[d] = todo[d]
  BY <1>1, <1>2
<1>4. a1 \in Sound /\ a1.mask \in 0 .. 4 /\ a1.flag \in {"on", "off"} /\ a1.own \in SUBSET Locks
      /\ a1.reads \in {"no", "yes"} /\ a1.writes \in {"no", "yes", "leaving"}
      /\ a1 = Sit(a1.mask, a1.flag, a1.own, a1.reads, a1.writes)
  BY SoundIs DEF Becomes, Machine
<1>5. r2 \in [CPUs -> {"no", "yes"}] /\ w2 \in [CPUs -> {"no", "yes", "leaving"}]
      /\ r2[c] = a1.reads /\ w2[c] = a1.writes
      /\ \A d \in CPUs \ {c} : r2[d] = reads[d] /\ w2[d] = writes[d]
  BY <1>1, <1>4
<1>6. Shared(r2, w2)'
  OBVIOUS
<1> HIDE DEF r2, w2
<1>7. TypeOK'
  <2>1. mask' \in [CPUs -> 0 .. 4]
    BY <1>1, <1>4, Zenon DEF Becomes, Machine
  <2>2. permits' \in 0 .. MaxPermits
    BY <1>6, LockConstants DEF Shared
  <2> QED
    BY <2>1, <2>2 DEF TypeOK, Becomes, Machine
<1>8. SituationOf(c, r2, w2)' = a1
  <2>1. {l \in Locks : spin'[l] = c} = a1.own
    BY <1>4 DEF Becomes, Machine
  <2>2. (IF IF_'[c] THEN "on" ELSE "off") = a1.flag /\ mask'[c] = a1.mask
    BY <1>4 DEF Becomes, Machine
  <2> QED
    BY <1>4, <1>5, <2>1, <2>2, Zenon DEF SituationOf
<1>9. ASSUME NEW d \in CPUs \ {c}
      PROVE  SituationOf(d, r2, w2)' = SituationOf(d, reads, writes)
  <2>1. {l \in Locks : spin'[l] = d} = {l \in Locks : spin[l] = d}
    BY DEF Becomes, Machine
  <2>2. (IF IF_'[d] THEN "on" ELSE "off") = (IF IF_[d] THEN "on" ELSE "off")
        /\ mask'[d] = mask[d]
    BY DEF Becomes, Machine
  <2> QED
    BY <1>5, <2>1, <2>2, Zenon DEF SituationOf
<1>10. ASSUME NEW d \in CPUs
       PROVE  RunsTo(todo'[d], SituationOf(d, r2, w2)', Outside)
  <2>1. CASE d = c
    BY <1>2, <1>3, <1>8, <2>1
  <2>2. CASE d # c
    BY <1>3, <1>9, <2>2, Zenon DEF Typed
  <2> QED
    BY <2>1, <2>2
<1>11. Typed(r2, w2)'
  BY <1>5, <1>6, <1>10 DEF Typed
<1> QED
  BY <1>3, <1>5, <1>7, <1>11, Zenon DEF LInv

\* The same for a step that takes no read-write lock.
LEMMA BecomesApart ==
  ASSUME LInv, NEW reads, NEW writes, Typed(reads, writes), NEW c \in CPUs,
         NEW a1, Becomes(c, a1), UNCHANGED <<permits, writing>>, ~failed',
         a1.reads = reads[c], a1.writes = writes[c]
  PROVE  LInv'
<1>1. reads \in [CPUs -> {"no", "yes"}] /\ writes \in [CPUs -> {"no", "yes", "leaving"}]
      /\ permits \in Nat /\ writing \in BOOLEAN
  BY LockConstants DEF LInv, Typed, TypeOK
<1>2. [reads EXCEPT ![c] = a1.reads] = reads /\ [writes EXCEPT ![c] = a1.writes] = writes
  BY <1>1
<1>3. Shared(reads, writes)'
  BY DEF Typed, Shared
<1>4. Shared([reads EXCEPT ![c] = a1.reads], [writes EXCEPT ![c] = a1.writes])'
  BY <1>2, <1>3
<1> QED
  BY <1>1, <1>4, BecomesKeeps, Zenon

\* a is the situation of CPU c.
Is(a, c, reads, writes) ==
  /\ Typed(reads, writes)
  /\ a = SituationOf(c, reads, writes) /\ a \in Sound
  /\ a.mask = mask[c] /\ (a.flag = "on" <=> IF_[c]) /\ (a.flag = "off" <=> ~IF_[c])
  /\ \A l \in Locks : l \in a.own <=> spin[l] = c
  /\ a.own \in SUBSET Locks
  /\ a.reads = reads[c] /\ a.writes = writes[c]

\* Under the invariant every CPU is in some situation.
LEMMA Starts ==
  ASSUME LInv, NEW c \in CPUs
  PROVE  \E reads, writes, a : Is(a, c, reads, writes)
<1>1. PICK reads, writes : Typed(reads, writes)
  BY DEF LInv
<1>2. PICK a : a = SituationOf(c, reads, writes)
  OBVIOUS
<1>3. /\ a \in Sound /\ a.mask = mask[c] /\ a.flag = (IF IF_[c] THEN "on" ELSE "off")
      /\ a.own = {l \in Locks : spin[l] = c} /\ a.reads = reads[c] /\ a.writes = writes[c]
  BY <1>1, <1>2, SituationIs
<1>4. (a.flag = "on" <=> IF_[c]) /\ (a.flag = "off" <=> ~IF_[c])
  BY <1>3
<1> QED
  BY <1>1, <1>2, <1>3, <1>4 DEF Is

\* The types that the steps need.
LEMMA LTypes ==
  ASSUME LInv, NEW c \in CPUs
  PROVE  /\ mask \in [CPUs -> Int] /\ IF_ \in [CPUs -> BOOLEAN]
         /\ spin \in [Locks -> CPUs \cup {NONE}] /\ c # NONE
<1>1. mask \in [CPUs -> 0 .. 4]
  BY DEF LInv, TypeOK
<1>2. mask \in [CPUs -> Int]
  BY <1>1
<1>3. c # NONE
  BY LockConstants
<1> QED
  BY <1>2, <1>3 DEF LInv, TypeOK

\* Its next step leads somewhere.
LEMMA NextMoves ==
  ASSUME LInv, NEW c \in CPUs, NEW reads, NEW writes, NEW a, Is(a, c, reads, writes),
         NEW step, At(c, step)
  PROVE  \E b \in Sound : Moves(step, a, b)
<1>1. todo[c] \in Seq(Step) /\ todo[c] # <<>> /\ RunsTo(todo[c], a, Outside)
      /\ Head(todo[c]) = step
  BY DEF LInv, Typed, Is, At
<1> QED
  BY <1>1, RunsHead

\* Steps that change the mask and the flag but no spinlock,
LEMMA MachineIs ==
  ASSUME LInv, NEW c \in CPUs, NEW reads, NEW writes, NEW a, Is(a, c, reads, writes),
         NEW a1, a1.own = a.own, spin' = spin,
         mask' \in [CPUs -> Int], mask'[c] = a1.mask,
         \A d \in CPUs \ {c} : mask'[d] = mask[d],
         IF_' \in [CPUs -> BOOLEAN], IF_'[c] <=> a1.flag = "on",
         \A d \in CPUs \ {c} : IF_'[d] <=> IF_[d]
  PROVE  Machine(c, a1)
<1>1. spin \in [Locks -> CPUs \cup {NONE}]
  BY LTypes
<1>2. \A l \in Locks : spin'[l] = c <=> l \in a1.own
  BY Zenon DEF Is
<1> QED
  BY <1>1, <1>2, Zenon DEF Machine

\* steps that change neither,
LEMMA MachineKept ==
  ASSUME LInv, NEW c \in CPUs, NEW reads, NEW writes, NEW a, Is(a, c, reads, writes),
         NEW a1, a1.mask = a.mask, a1.flag = a.flag, a1.own = a.own,
         UNCHANGED <<mask, IF_, spin>>
  PROVE  Machine(c, a1)
<1>1. mask \in [CPUs -> Int] /\ IF_ \in [CPUs -> BOOLEAN]
  BY LTypes
<1>2. a1.mask = mask[c] /\ (IF_[c] <=> a1.flag = "on")
  BY Zenon DEF Is
<1>3. mask' = mask /\ IF_' = IF_ /\ spin' = spin
  OBVIOUS
<1> QED
  BY <1>1, <1>2, <1>3, MachineIs, Zenon

\* and what every step has to show.
LEMMA StepBecomes ==
  ASSUME LInv, NEW c \in CPUs, NEW reads, NEW writes, NEW a, Is(a, c, reads, writes),
         NEW step, NEW body \in Seq(Step), At(c, step), Continue(c, body),
         NEW a1 \in Sound, \A x \in Sound : Moves(step, a, x) => RunsTo(body, a1, x),
         Machine(c, a1)
  PROVE  Becomes(c, a1)
<1>1. Typed(reads, writes) /\ a = SituationOf(c, reads, writes)
  BY Zenon DEF Is
<1>2. \A x \in Sound : Moves(step, SituationOf(c, reads, writes), x) => RunsTo(body, a1, x)
  BY <1>1, Zenon
<1>3. \E p \in Seq(Step) : todo' = [todo EXCEPT ![c] = p] /\ RunsTo(p, a1, Outside)
  BY <1>1, <1>2, Takes, Zenon
<1> QED
  BY <1>3, Zenon DEF Becomes

\* The same, when the step leaves the read-write lock alone.
LEMMA StepKeeps ==
  ASSUME LInv, NEW c \in CPUs, NEW reads, NEW writes, NEW a, Is(a, c, reads, writes),
         NEW step, NEW body \in Seq(Step), At(c, step), Continue(c, body),
         NEW a1 \in Sound, \A x \in Sound : Moves(step, a, x) => RunsTo(body, a1, x),
         Machine(c, a1), a1.reads = a.reads, a1.writes = a.writes,
         UNCHANGED <<permits, writing>>, ~failed'
  PROVE  LInv'
<1>1. Typed(reads, writes) /\ a1.reads = reads[c] /\ a1.writes = writes[c]
  BY Zenon DEF Is
<1>2. Becomes(c, a1)
  BY StepBecomes, Zenon
<1> QED
  BY <1>1, <1>2, BecomesApart, Zenon

\* intr_lock.
LEMMA IntrLockKeeps ==
  ASSUME LInv, NEW c \in CPUs, intr_lock(c)
  PROVE  LInv'
<1>1. PICK reads, writes, a : Is(a, c, reads, writes)
  BY Starts
<1>2. PICK b \in Sound : Moves(Do("intr_lock"), a, b)
  BY <1>1, NextMoves DEF intr_lock
<1>3. a \in Sound /\ a.mask = mask[c] /\ (a.flag = "on" <=> IF_[c])
  BY <1>1 DEF Is
<1> DEFINE a1 == Sit(a.mask + 1, a.flag, a.own, a.reads, a.writes)
           body == IF a.mask = 0 THEN <<Do("cli")>> ELSE <<>>
<1>4. a1 \in Sound /\ body \in Seq(Step)
  BY <1>2, <1>3, LockRuns, Steps
<1>5. \A x \in Sound : Moves(Do("intr_lock"), a, x) => RunsTo(body, a1, x)
  BY <1>3, LockRuns
<1>6. /\ a1.mask = a.mask + 1 /\ a1.flag = a.flag /\ a1.own = a.own
      /\ a1.reads = a.reads /\ a1.writes = a.writes
  BY SitIs
<1>7. /\ At(c, Do("intr_lock")) /\ Continue(c, body) /\ UNCHANGED <<permits, writing>>
  BY <1>3 DEF intr_lock
<1>8. ~failed'
  BY DEF intr_lock, LInv
<1> HIDE DEF a1, body
<1>9. Machine(c, a1)
  <2>1. mask \in [CPUs -> Int] /\ IF_ \in [CPUs -> BOOLEAN]
    BY LTypes
  <2>2. mask' \in [CPUs -> Int] /\ mask'[c] = a1.mask
        /\ \A d \in CPUs \ {c} : mask'[d] = mask[d]
    BY <1>3, <1>6, <2>1 DEF intr_lock
  <2>3. IF_' \in [CPUs -> BOOLEAN] /\ (IF_'[c] <=> a1.flag = "on")
        /\ \A d \in CPUs \ {c} : IF_'[d] <=> IF_[d]
    BY <1>3, <1>6, <2>1 DEF intr_lock
  <2>4. spin' = spin
    BY DEF intr_lock
  <2> QED
    BY <1>1, <1>6, <2>2, <2>3, <2>4, MachineIs, Zenon
<1> QED
  BY <1>1, <1>4, <1>5, <1>6, <1>7, <1>8, <1>9, StepKeeps, Zenon

\* The processor's cli.
LEMMA CliKeeps ==
  ASSUME LInv, NEW c \in CPUs, intr_disable(c)
  PROVE  LInv'
<1>1. PICK reads, writes, a : Is(a, c, reads, writes)
  BY Starts
<1>2. PICK b \in Sound : Moves(Do("cli"), a, b)
  BY <1>1, NextMoves DEF intr_disable
<1>3. a \in Sound /\ a.mask = mask[c] /\ (a.flag = "on" <=> IF_[c])
  BY <1>1 DEF Is
<1> DEFINE a1 == Sit(a.mask, "off", a.own, a.reads, a.writes)
           body == <<>>
<1>4. a1 \in Sound /\ body \in Seq(Step)
  BY <1>2, <1>3, PlainRuns, Steps
<1>5. \A x \in Sound : Moves(Do("cli"), a, x) => RunsTo(body, a1, x)
  BY <1>3, PlainRuns
<1>6. /\ a1.mask = a.mask /\ a1.flag = "off" /\ a1.own = a.own
      /\ a1.reads = a.reads /\ a1.writes = a.writes
  BY SitIs
<1>7. /\ At(c, Do("cli")) /\ Continue(c, body) /\ UNCHANGED <<permits, writing>>
  BY <1>3 DEF intr_disable
<1>8. ~failed'
  BY DEF intr_disable, LInv
<1> HIDE DEF a1, body
<1>9. Machine(c, a1)
  <2>1. mask \in [CPUs -> Int] /\ IF_ \in [CPUs -> BOOLEAN]
    BY LTypes
  <2>2. mask' \in [CPUs -> Int] /\ mask'[c] = a1.mask
        /\ \A d \in CPUs \ {c} : mask'[d] = mask[d]
    BY <1>3, <1>6, <2>1 DEF intr_disable
  <2>3. IF_' \in [CPUs -> BOOLEAN] /\ (IF_'[c] <=> a1.flag = "on")
        /\ \A d \in CPUs \ {c} : IF_'[d] <=> IF_[d]
    BY <1>3, <1>6, <2>1 DEF intr_disable
  <2>4. spin' = spin
    BY DEF intr_disable
  <2> QED
    BY <1>1, <1>6, <2>2, <2>3, <2>4, MachineIs
<1> QED
  BY <1>1, <1>4, <1>5, <1>6, <1>7, <1>8, <1>9, StepKeeps, Zenon

\* intr_unlock, whose assertion holds.
LEMMA IntrUnlockKeeps ==
  ASSUME LInv, NEW c \in CPUs, intr_unlock(c)
  PROVE  LInv'
<1>1. PICK reads, writes, a : Is(a, c, reads, writes)
  BY Starts
<1>2. PICK b \in Sound : Moves(Do("intr_unlock"), a, b)
  BY <1>1, NextMoves DEF intr_unlock
<1>3. a \in Sound /\ a.mask = mask[c] /\ (a.flag = "on" <=> IF_[c])
  BY <1>1 DEF Is
<1> DEFINE a1 == Sit(a.mask - 1, a.flag, a.own, a.reads, a.writes)
           body == IF a.mask = 1 THEN <<Do("sti")>> ELSE <<>>
<1>4. a1 \in Sound /\ body \in Seq(Step)
  BY <1>2, <1>3, UnlockRuns, Steps
<1>5. \A x \in Sound : Moves(Do("intr_unlock"), a, x) => RunsTo(body, a1, x)
  BY <1>3, UnlockRuns
<1>6. /\ a1.mask = a.mask - 1 /\ a1.flag = a.flag /\ a1.own = a.own
      /\ a1.reads = a.reads /\ a1.writes = a.writes
  BY SitIs
<1>7. /\ At(c, Do("intr_unlock")) /\ Continue(c, body) /\ UNCHANGED <<permits, writing>>
  BY <1>3 DEF intr_unlock
<1>8. ~failed'
  <2>1. mask[c] # 0
    BY <1>2, <1>3, UnlockRuns
  <2>2. ~failed
    BY DEF LInv
  <2> QED
    BY <2>1, <2>2, Zenon DEF intr_unlock
<1> HIDE DEF a1, body
<1>9. Machine(c, a1)
  <2>1. mask \in [CPUs -> Int] /\ IF_ \in [CPUs -> BOOLEAN]
    BY LTypes
  <2>2. mask' \in [CPUs -> Int] /\ mask'[c] = a1.mask
        /\ \A d \in CPUs \ {c} : mask'[d] = mask[d]
    BY <1>3, <1>6, <2>1 DEF intr_unlock
  <2>3. IF_' \in [CPUs -> BOOLEAN] /\ (IF_'[c] <=> a1.flag = "on")
        /\ \A d \in CPUs \ {c} : IF_'[d] <=> IF_[d]
    BY <1>3, <1>6, <2>1 DEF intr_unlock
  <2>4. spin' = spin
    BY DEF intr_unlock
  <2> QED
    BY <1>1, <1>6, <2>2, <2>3, <2>4, MachineIs, Zenon
<1> QED
  BY <1>1, <1>4, <1>5, <1>6, <1>7, <1>8, <1>9, StepKeeps, Zenon

\* The processor's sti.
LEMMA StiKeeps ==
  ASSUME LInv, NEW c \in CPUs, intr_enable(c)
  PROVE  LInv'
<1>1. PICK reads, writes, a : Is(a, c, reads, writes)
  BY Starts
<1>2. PICK b \in Sound : Moves(Do("sti"), a, b)
  BY <1>1, NextMoves DEF intr_enable
<1>3. a \in Sound /\ a.mask = mask[c] /\ (a.flag = "on" <=> IF_[c])
  BY <1>1 DEF Is
<1> DEFINE a1 == Sit(a.mask, "on", a.own, a.reads, a.writes)
           body == <<>>
<1>4. a1 \in Sound /\ body \in Seq(Step)
  BY <1>2, <1>3, PlainRuns, Steps
<1>5. \A x \in Sound : Moves(Do("sti"), a, x) => RunsTo(body, a1, x)
  BY <1>3, PlainRuns
<1>6. /\ a1.mask = a.mask /\ a1.flag = "on" /\ a1.own = a.own
      /\ a1.reads = a.reads /\ a1.writes = a.writes
  BY SitIs
<1>7. /\ At(c, Do("sti")) /\ Continue(c, body) /\ UNCHANGED <<permits, writing>>
  BY <1>3 DEF intr_enable
<1>8. ~failed'
  BY DEF intr_enable, LInv
<1> HIDE DEF a1, body
<1>9. Machine(c, a1)
  <2>1. mask \in [CPUs -> Int] /\ IF_ \in [CPUs -> BOOLEAN]
    BY LTypes
  <2>2. mask' \in [CPUs -> Int] /\ mask'[c] = a1.mask
        /\ \A d \in CPUs \ {c} : mask'[d] = mask[d]
    BY <1>3, <1>6, <2>1 DEF intr_enable
  <2>3. IF_' \in [CPUs -> BOOLEAN] /\ (IF_'[c] <=> a1.flag = "on")
        /\ \A d \in CPUs \ {c} : IF_'[d] <=> IF_[d]
    BY <1>3, <1>6, <2>1 DEF intr_enable
  <2>4. spin' = spin
    BY DEF intr_enable
  <2> QED
    BY <1>1, <1>6, <2>2, <2>3, <2>4, MachineIs, Zenon
<1> QED
  BY <1>1, <1>4, <1>5, <1>6, <1>7, <1>8, <1>9, StepKeeps, Zenon

\* The return from an interrupt or a system call.
LEMMA ReturnKeeps ==
  ASSUME LInv, NEW c \in CPUs, Return(c)
  PROVE  LInv'
<1>1. PICK reads, writes, a : Is(a, c, reads, writes)
  BY Starts
<1>2. PICK b \in Sound : Moves(Do("return"), a, b)
  BY <1>1, NextMoves DEF Return
<1>3. a \in Sound /\ a.mask = mask[c] /\ (a.flag = "on" <=> IF_[c])
  BY <1>1 DEF Is
<1> DEFINE a1 == Sit(a.mask - 1, "on", a.own, a.reads, a.writes)
           body == <<>>
<1>4. a1 \in Sound /\ body \in Seq(Step)
  <2>1. a1 \in Sound
    BY <1>2, <1>3, PlainRuns, Zenon
  <2> QED
    BY <2>1
<1>5. \A x \in Sound : Moves(Do("return"), a, x) => RunsTo(body, a1, x)
  BY <1>3, PlainRuns
<1>6. /\ a1.mask = a.mask - 1 /\ a1.flag = "on" /\ a1.own = a.own
      /\ a1.reads = a.reads /\ a1.writes = a.writes
  BY SitIs
<1>7. /\ At(c, Do("return")) /\ Continue(c, body) /\ UNCHANGED <<permits, writing>>
  BY <1>3 DEF Return
<1>8. ~failed'
  BY DEF Return, LInv
<1> HIDE DEF a1, body
<1>9. Machine(c, a1)
  <2>1. mask \in [CPUs -> Int] /\ IF_ \in [CPUs -> BOOLEAN]
    BY LTypes
  <2>2. mask' \in [CPUs -> Int] /\ mask'[c] = a1.mask
        /\ \A d \in CPUs \ {c} : mask'[d] = mask[d]
    BY <1>3, <1>6, <2>1 DEF Return
  <2>3. IF_' \in [CPUs -> BOOLEAN] /\ (IF_'[c] <=> a1.flag = "on")
        /\ \A d \in CPUs \ {c} : IF_'[d] <=> IF_[d]
    BY <1>3, <1>6, <2>1 DEF Return
  <2>4. spin' = spin
    BY DEF Return
  <2> QED
    BY <1>1, <1>6, <2>2, <2>3, <2>4, MachineIs, Zenon
<1> QED
  BY <1>1, <1>4, <1>5, <1>6, <1>7, <1>8, <1>9, StepKeeps, Zenon

\* spin_lock, which starts an attempt.
LEMMA SpinLockKeeps ==
  ASSUME LInv, NEW c \in CPUs, NEW l \in Locks, spin_lock(c, l)
  PROVE  LInv'
<1>1. PICK reads, writes, a : Is(a, c, reads, writes)
  BY Starts
<1> DEFINE body == <<Do("intr_lock"), TryLock(l)>>
<1>2. a \in Sound /\ body \in Seq(Step)
  BY <1>1, Steps DEF Is
<1>3. \A x \in Sound : Moves(Lock(l), a, x) => RunsTo(body, a, x)
  BY <1>2, SpinLockRuns
<1>4. /\ At(c, Lock(l)) /\ Continue(c, body) /\ ~failed'
      /\ UNCHANGED <<mask, IF_, spin, permits, writing>>
  BY DEF spin_lock, LInv
<1> HIDE DEF body
<1>5. Machine(c, a)
  BY <1>1, <1>4, MachineKept, Zenon
<1> QED
  BY <1>1, <1>2, <1>3, <1>4, <1>5, StepKeeps, Zenon

\* An attempt, which takes a free lock or gives up.
LEMMA TryLockKeeps ==
  ASSUME LInv, NEW c \in CPUs, NEW l \in Locks, spin_try_lock(c, l)
  PROVE  LInv'
<1>1. PICK reads, writes, a : Is(a, c, reads, writes)
  BY Starts
<1>2. PICK b \in Sound : Moves(TryLock(l), a, b)
  BY <1>1, NextMoves DEF spin_try_lock
<1>3. a \in Sound
  BY <1>1 DEF Is
<1>4. At(c, TryLock(l)) /\ ~failed' /\ UNCHANGED <<mask, IF_, permits, writing>>
  BY DEF spin_try_lock, LInv
<1>5. CASE spin[l] = NONE
  <2> DEFINE a1 == Owning(a, a.own \cup {l})
             body == <<>>
  <2>1. a1 \in Sound /\ \A x \in Sound : Moves(TryLock(l), a, x) => RunsTo(body, a1, x)
    BY <1>2, <1>3, PlainRuns, Zenon
  <2>2. /\ a1.mask = a.mask /\ a1.flag = a.flag /\ a1.own = a.own \cup {l}
        /\ a1.reads = a.reads /\ a1.writes = a.writes
    BY SitIs DEF Owning
  <2>3. body \in Seq(Step) /\ Continue(c, body) /\ spin' = [spin EXCEPT ![l] = c]
    BY <1>5 DEF spin_try_lock
  <2> HIDE DEF a1, body
  <2>4. mask \in [CPUs -> Int] /\ IF_ \in [CPUs -> BOOLEAN]
        /\ spin \in [Locks -> CPUs \cup {NONE}] /\ \A d \in CPUs : d # NONE
    BY LTypes
  <2>5. mask'[c] = a1.mask /\ (IF_'[c] <=> a1.flag = "on")
    BY <1>1, <1>4, <2>2 DEF Is
  <2>6. spin' \in [Locks -> CPUs \cup {NONE}]
        /\ \A k \in Locks : spin'[k] = c <=> k \in a1.own
    BY <1>1, <2>2, <2>3, <2>4 DEF Is
  <2>7. \A d \in CPUs \ {c} : \A k \in Locks : spin'[k] = d <=> spin[k] = d
    BY <1>5, <2>3, <2>4
  <2>8. Machine(c, a1)
    BY <1>4, <2>4, <2>5, <2>6, <2>7, Zenon DEF Machine
  <2> QED
    BY <1>1, <1>4, <2>1, <2>2, <2>3, <2>8, StepKeeps, Zenon
<1>6. CASE spin[l] # NONE
  <2> DEFINE body == <<Do("intr_unlock"), Lock(l)>>
  <2>1. \A x \in Sound : Moves(TryLock(l), a, x) => RunsTo(body, a, x)
    BY <1>3, SpinFailRuns
  <2>2. body \in Seq(Step)
    BY Steps
  <2>3. Continue(c, body) /\ UNCHANGED spin
    BY <1>6 DEF spin_try_lock
  <2> HIDE DEF body
  <2>4. Machine(c, a)
    BY <1>1, <1>4, <2>3, MachineKept, Zenon
  <2> QED
    BY <1>1, <1>3, <1>4, <2>1, <2>2, <2>3, <2>4, StepKeeps, Zenon
<1> QED
  BY <1>5, <1>6

\* spin_unlock, whose assertion holds.
LEMMA SpinUnlockKeeps ==
  ASSUME LInv, NEW c \in CPUs, NEW l \in Locks, spin_unlock(c, l)
  PROVE  LInv'
<1>1. PICK reads, writes, a : Is(a, c, reads, writes)
  BY Starts
<1>2. PICK b \in Sound : Moves(Unlock(l), a, b)
  BY <1>1, NextMoves DEF spin_unlock
<1>3. a \in Sound
  BY <1>1 DEF Is
<1> DEFINE a1 == Owning(a, a.own \ {l})
           body == <<Do("intr_unlock")>>
<1>4. l \in a.own /\ a1 \in Sound /\ body \in Seq(Step)
  <2>1. l \in a.own /\ a1 \in Sound
    BY <1>2, <1>3, SpinUnlockRuns, Zenon
  <2> QED
    BY <2>1, Steps
<1>5. \A x \in Sound : Moves(Unlock(l), a, x) => RunsTo(body, a1, x)
  BY <1>3, SpinUnlockRuns
<1>6. /\ a1.mask = a.mask /\ a1.flag = a.flag /\ a1.own = a.own \ {l}
      /\ a1.reads = a.reads /\ a1.writes = a.writes
  BY SitIs DEF Owning
<1>7. mask \in [CPUs -> Int] /\ IF_ \in [CPUs -> BOOLEAN]
      /\ spin \in [Locks -> CPUs \cup {NONE}] /\ \A d \in CPUs : d # NONE
  BY LTypes
<1>8. spin[l] = c /\ spin[l] # NONE
  BY <1>1, <1>4, <1>7, Zenon DEF Is
<1>9. /\ At(c, Unlock(l)) /\ Continue(c, body) /\ ~failed' /\ spin' = [spin EXCEPT ![l] = NONE]
      /\ UNCHANGED <<mask, IF_, permits, writing>>
  BY <1>8, Zenon DEF spin_unlock, LInv
<1> HIDE DEF a1, body
<1>10. Machine(c, a1)
  <2>1. mask'[c] = a1.mask /\ (IF_'[c] <=> a1.flag = "on")
    BY <1>1, <1>6, <1>9, Zenon DEF Is
  <2>2. spin' \in [Locks -> CPUs \cup {NONE}]
        /\ \A k \in Locks : spin'[k] = c <=> k \in a1.own
    BY <1>1, <1>6, <1>7, <1>9 DEF Is
  <2>3. \A d \in CPUs \ {c} : \A k \in Locks : spin'[k] = d <=> spin[k] = d
    BY <1>7, <1>8, <1>9
  <2> QED
    BY <1>7, <1>9, <2>1, <2>2, <2>3, Zenon DEF Machine
<1> QED
  BY <1>1, <1>4, <1>5, <1>6, <1>9, <1>10, StepKeeps, Zenon

\* The code under a lock.
LEMMA SectionKeeps ==
  ASSUME LInv, NEW c \in CPUs, Section(c)
  PROVE  LInv'
<1>1. PICK reads, writes, a : Is(a, c, reads, writes)
  BY Starts
<1>2. PICK s \in {Do("walk"), Do("change"), Do("dlmalloc")} : At(c, s)
  BY DEF Section
<1>3. a \in Sound
  BY <1>1 DEF Is
<1>4. Continue(c, <<>>) /\ ~failed' /\ UNCHANGED <<mask, IF_, spin, permits, writing>>
  BY DEF Section, LInv
<1>5. <<>> \in Seq(Step) /\ \A x \in Sound : Moves(s, a, x) => RunsTo(<<>>, a, x)
  BY <1>3, PlainRuns
<1>6. Machine(c, a)
  BY <1>1, <1>4, MachineKept, Zenon
<1> QED
  BY <1>1, <1>2, <1>3, <1>4, <1>5, <1>6, StepKeeps, Zenon
-----------------------------------------------------------------------------
\* A reader that enters is one more.
LEMMA ReaderIn ==
  ASSUME NEW reads \in [CPUs -> {"no", "yes"}], NEW n \in Nat, Readers(n, reads),
         NEW c \in CPUs, reads[c] = "no"
  PROVE  Readers(n + 1, [reads EXCEPT ![c] = "yes"])
<1>1. PICK f \in [1 .. n -> CPUs] :
        /\ \A i, j \in 1 .. n : f[i] = f[j] => i = j
        /\ \A d \in CPUs : reads[d] = "yes" <=> \E i \in 1 .. n : f[i] = d
  BY DEF Readers
<1> DEFINE g == [i \in 1 .. n + 1 |-> IF i = n + 1 THEN c ELSE f[i]]
<1>2. \A i \in 1 .. n + 1 : i = n + 1 \/ i \in 1 .. n
  OBVIOUS
<1>3. \A i \in 1 .. n : i \in 1 .. n + 1 /\ i # n + 1 /\ g[i] = f[i] /\ f[i] # c
  BY <1>1
<1>4. g \in [1 .. n + 1 -> CPUs] /\ n + 1 \in 1 .. n + 1 /\ g[n + 1] = c
  BY <1>2
<1> HIDE DEF g
<1>5. \A i, j \in 1 .. n + 1 : g[i] = g[j] => i = j
  BY <1>1, <1>2, <1>3, <1>4
<1>6. ASSUME NEW d \in CPUs
      PROVE  [reads EXCEPT ![c] = "yes"][d] = "yes" <=> \E i \in 1 .. n + 1 : g[i] = d
  <2>1. CASE d = c
    BY <1>4, <2>1
  <2>2. CASE d # c
    <3>1. [reads EXCEPT ![c] = "yes"][d] = reads[d]
      BY <2>2
    <3>2. (\E i \in 1 .. n + 1 : g[i] = d) <=> \E i \in 1 .. n : f[i] = d
      BY <1>2, <1>3, <1>4, <2>2
    <3> QED
      BY <1>1, <3>1, <3>2
  <2> QED
    BY <2>1, <2>2
<1> QED
  BY <1>4, <1>5, <1>6 DEF Readers

\* A reader that leaves gives its place in the count to the last one.
LEMMA ReaderOut ==
  ASSUME NEW reads \in [CPUs -> {"no", "yes"}], NEW n \in Nat, Readers(n, reads),
         NEW c \in CPUs, reads[c] = "yes"
  PROVE  n # 0 /\ Readers(n - 1, [reads EXCEPT ![c] = "no"])
<1>1. PICK f \in [1 .. n -> CPUs] :
        /\ \A i, j \in 1 .. n : f[i] = f[j] => i = j
        /\ \A d \in CPUs : reads[d] = "yes" <=> \E i \in 1 .. n : f[i] = d
  BY DEF Readers
<1>2. PICK k \in 1 .. n : f[k] = c
  BY <1>1
<1> DEFINE g == [i \in 1 .. n - 1 |-> IF i = k THEN f[n] ELSE f[i]]
<1>3. n \in 1 .. n /\ n # 0 /\ \A i \in 1 .. n : i = n \/ i \in 1 .. n - 1
  BY <1>2
<1>4. \A i \in 1 .. n - 1 : i \in 1 .. n /\ i # n
  OBVIOUS
<1>5. /\ g \in [1 .. n - 1 -> CPUs]
      /\ \A i \in 1 .. n - 1 : g[i] = IF i = k THEN f[n] ELSE f[i]
  BY <1>3, <1>4
<1> HIDE DEF g
<1>6. \A i, j \in 1 .. n - 1 : g[i] = g[j] => i = j
  BY <1>1, <1>3, <1>4, <1>5
<1>7. ASSUME NEW d \in CPUs
      PROVE  [reads EXCEPT ![c] = "no"][d] = "yes" <=> \E i \in 1 .. n - 1 : g[i] = d
  <2>1. ASSUME NEW i \in 1 .. n - 1, g[i] = d PROVE [reads EXCEPT ![c] = "no"][d] = "yes"
    BY <1>1, <1>2, <1>3, <1>4, <1>5, <2>1
  <2>2. ASSUME d # c, reads[d] = "yes" PROVE \E i \in 1 .. n - 1 : g[i] = d
    <3>1. PICK i \in 1 .. n : f[i] = d
      BY <1>1, <2>2
    <3>2. i # k
      BY <1>2, <2>2, <3>1
    <3> QED
      BY <1>3, <1>5, <3>1, <3>2
  <2> QED
    BY <2>1, <2>2
<1> QED
  BY <1>3, <1>5, <1>6, <1>7 DEF Readers

\* There is no reader exactly when the count is 0.
LEMMA NoReader ==
  ASSUME NEW reads \in [CPUs -> {"no", "yes"}]
  PROVE  /\ Readers(0, reads) <=> \A c \in CPUs : reads[c] = "no"
         /\ \A n \in Nat : Readers(n, reads) /\ (\A c \in CPUs : reads[c] = "no") => n = 0
<1>0. \A i \in 1 .. 0 : FALSE
  OBVIOUS
<1>1. ASSUME Readers(0, reads) PROVE \A c \in CPUs : reads[c] = "no"
  <2>1. PICK f \in [1 .. 0 -> CPUs] : \A c \in CPUs : reads[c] = "yes" <=> \E i \in 1 .. 0 : f[i] = c
    BY <1>1, Zenon DEF Readers
  <2> QED
    BY <1>0, <2>1, Zenon
<1>2. ASSUME \A c \in CPUs : reads[c] = "no" PROVE Readers(0, reads)
  <2> DEFINE f == [i \in 1 .. 0 |-> NONE]
  <2>1. f \in [1 .. 0 -> CPUs]
    BY <1>0
  <2> HIDE DEF f
  <2>2. \A c \in CPUs : reads[c] = "yes" <=> \E i \in 1 .. 0 : f[i] = c
    BY <1>0, <1>2, Zenon
  <2>3. \A i, j \in 1 .. 0 : f[i] = f[j] => i = j
    BY <1>0
  <2> QED
    BY <2>1, <2>2, <2>3, Zenon DEF Readers
<1>3. ASSUME NEW n \in Nat, Readers(n, reads), \A c \in CPUs : reads[c] = "no" PROVE n = 0
  <2>1. PICK f \in [1 .. n -> CPUs] : \A c \in CPUs : reads[c] = "yes" <=> \E i \in 1 .. n : f[i] = c
    BY <1>3 DEF Readers
  <2>2. n # 0 => 1 \in 1 .. n
    OBVIOUS
  <2> QED
    BY <1>3, <2>1, <2>2
<1> QED
  BY <1>1, <1>2, <1>3

\* read_permits keeps counting the readers, and a writer stays alone: when
\* rw_rlock lets a reader in,
LEMMA SharedReader ==
  ASSUME NEW reads \in [CPUs -> {"no", "yes"}],
         NEW writes \in [CPUs -> {"no", "yes", "leaving"}], Shared(reads, writes),
         permits \in Nat, NEW c \in CPUs, reads[c] = "no",
         ~writing, permits # MaxPermits, permits' = permits + 1, writing' = writing
  PROVE  Shared([reads EXCEPT ![c] = "yes"], [writes EXCEPT ![c] = writes[c]])'
<1> DEFINE r2 == [reads EXCEPT ![c] = "yes"]
<1>3. [writes EXCEPT ![c] = writes[c]] = writes
  OBVIOUS
<1>4. \A d \in CPUs : writes[d] = "no"
  BY DEF Shared
<1>2. Readers(permits + 1, r2)
  BY ReaderIn, Zenon DEF Shared
<1> HIDE DEF r2
<1>5. Readers(permits, r2)' /\ permits' <= MaxPermits
  <2>1. Readers(permits', r2)
    BY <1>2
  <2>2. Readers(permits, r2)'
    BY <2>1 DEF Readers
  <2> QED
    BY <2>2, LockConstants DEF Shared
<1>6. Shared(r2, writes)'
  BY <1>4, <1>5 DEF Shared
<1> QED
  BY <1>3, <1>6, Zenon DEF r2

\* when rw_runlock lets it out,
LEMMA SharedReaderOut ==
  ASSUME NEW reads \in [CPUs -> {"no", "yes"}],
         NEW writes \in [CPUs -> {"no", "yes", "leaving"}], Shared(reads, writes),
         permits \in Nat, NEW c \in CPUs, reads[c] = "yes",
         permits' = permits - 1, writing' = writing
  PROVE  /\ permits' \in Nat
         /\ Shared([reads EXCEPT ![c] = "no"], [writes EXCEPT ![c] = writes[c]])'
<1> DEFINE r2 == [reads EXCEPT ![c] = "no"]
<1>2. permits # 0 /\ Readers(permits - 1, r2)
  BY ReaderOut, Zenon DEF Shared
<1>3. [writes EXCEPT ![c] = writes[c]] = writes
  OBVIOUS
<1>4. \A d \in CPUs : reads[d] = "no" => r2[d] = "no"
  OBVIOUS
<1> HIDE DEF r2
<1>5. Readers(permits, r2)' /\ permits' <= MaxPermits /\ permits' \in Nat
  <2>1. Readers(permits', r2)
    BY <1>2
  <2>2. Readers(permits, r2)'
    BY <2>1 DEF Readers
  <2> QED
    BY <1>2, <2>2, LockConstants DEF Shared
<1>6. Shared(r2, writes)'
  BY <1>4, <1>5 DEF Shared
<1> QED
  BY <1>3, <1>5, <1>6, Zenon DEF r2

\* when rw_wlock lets a writer in,
LEMMA SharedWriter ==
  ASSUME NEW reads \in [CPUs -> {"no", "yes"}],
         NEW writes \in [CPUs -> {"no", "yes", "leaving"}], Shared(reads, writes),
         NEW c \in CPUs, ~writing, permits = 0, writing' = TRUE, permits' = permits
  PROVE  Shared([reads EXCEPT ![c] = reads[c]], [writes EXCEPT ![c] = "yes"])'
<1> DEFINE w2 == [writes EXCEPT ![c] = "yes"]
<1>2. \A d \in CPUs : reads[d] = "no"
  BY NoReader DEF Shared
<1>3. \A d \in CPUs : w2[d] # "no" <=> d = c
  BY DEF Shared
<1>4. [reads EXCEPT ![c] = reads[c]] = reads
  OBVIOUS
<1> HIDE DEF w2
<1>6. Readers(permits, reads)' /\ permits' <= MaxPermits
  <2>1. Readers(permits', reads) /\ permits' <= MaxPermits
    BY DEF Shared
  <2> QED
    BY <2>1, Zenon DEF Readers
<1>7. writing' <=> \E d \in CPUs : w2[d] # "no"
  BY <1>3
<1>5. Shared(reads, w2)'
  BY <1>2, <1>3, <1>6, <1>7, Zenon DEF Shared
<1> QED
  BY <1>4, <1>5, Zenon DEF w2

\* when it calls rw_wunlock, and when it is let out.
LEMMA SharedWriterOut ==
  ASSUME NEW reads \in [CPUs -> {"no", "yes"}],
         NEW writes \in [CPUs -> {"no", "yes", "leaving"}], Shared(reads, writes),
         NEW c \in CPUs, writes[c] # "no", permits' = permits
  PROVE  /\ writing' = writing =>
              Shared([reads EXCEPT ![c] = reads[c]], [writes EXCEPT ![c] = "leaving"])'
         /\ writing' = FALSE =>
              Shared([reads EXCEPT ![c] = reads[c]], [writes EXCEPT ![c] = "no"])'
<1>1. \A d \in CPUs : (writes[d] # "no" <=> d = c) /\ reads[d] = "no"
  BY DEF Shared
<1>2. [reads EXCEPT ![c] = reads[c]] = reads
  OBVIOUS
<1>3. ASSUME writing' = writing PROVE Shared(reads, [writes EXCEPT ![c] = "leaving"])'
  <2> DEFINE w2 == [writes EXCEPT ![c] = "leaving"]
  <2>1. \A d \in CPUs : w2[d] # "no" <=> d = c
    BY <1>1
  <2> HIDE DEF w2
  <2>2. Shared(reads, w2)'
    BY <1>1, <1>3, <2>1 DEF Shared, Readers
  <2> QED
    BY <2>2 DEF w2
<1>4. ASSUME writing' = FALSE PROVE Shared(reads, [writes EXCEPT ![c] = "no"])'
  <2> DEFINE w2 == [writes EXCEPT ![c] = "no"]
  <2>1. \A d \in CPUs : w2[d] = "no"
    BY <1>1
  <2> HIDE DEF w2
  <2>2. Shared(reads, w2)'
    BY <1>1, <1>4, <2>1 DEF Shared, Readers
  <2> QED
    BY <2>2 DEF w2
<1> QED
  BY <1>2, <1>3, <1>4, Zenon
-----------------------------------------------------------------------------
\* A step that changes no mask, flag or spinlock.
LEMMA BecomesHere ==
  ASSUME LInv, NEW c \in CPUs, NEW reads, NEW writes, NEW a, Is(a, c, reads, writes),
         NEW step, NEW body \in Seq(Step), At(c, step), Continue(c, body),
         NEW a1 \in Sound, \A x \in Sound : Moves(step, a, x) => RunsTo(body, a1, x),
         UNCHANGED <<mask, IF_, spin>>,
         a1.mask = a.mask, a1.flag = a.flag, a1.own = a.own
  PROVE  Becomes(c, a1)
<1>1. Machine(c, a1)
  BY MachineKept, Zenon
<1> QED
  BY <1>1, StepBecomes, Zenon

\* The calls of the read-write lock.
LEMMA RwCallKeeps ==
  ASSUME LInv, NEW c \in CPUs, RwCall(c)
  PROVE  LInv'
<1>1. PICK reads, writes, a : Is(a, c, reads, writes)
  BY Starts
<1>2. /\ a \in Sound /\ Typed(reads, writes) /\ a.reads = reads[c] /\ a.writes = writes[c]
      /\ reads \in [CPUs -> {"no", "yes"}] /\ writes \in [CPUs -> {"no", "yes", "leaving"}]
      /\ Shared(reads, writes)
  BY <1>1 DEF Is, Typed
<1>3. /\ ~failed' /\ UNCHANGED <<mask, IF_, spin, permits, writing>>
      /\ permits \in Nat /\ writing \in BOOLEAN
  BY LockConstants DEF RwCall, LInv, TypeOK
<1>4. \A x \in Step : Locked(<<x>>) = <<Lock("route"), x>> /\ Locked(<<x>>) \in Seq(Step)
  <2> SUFFICES ASSUME NEW x \in Step
               PROVE  Locked(<<x>>) = <<Lock("route"), x>> /\ Locked(<<x>>) \in Seq(Step)
    BY Zenon
  <2>1. Lock("route") \in Step
    BY Steps DEF Locks
  <2> DEFINE y == Lock("route")
             u == <<y>> \o <<x>>
             v == <<y, x>>
  <2> HIDE DEF y
  <2>2. <<x>> \in Seq(Step) /\ <<y>> \in Seq(Step) /\ v \in Seq(Step)
    BY <2>1 DEF y
  <2>3. u \in Seq(Step) /\ Len(u) = 2 /\ u[1] = y /\ u[2] = x
    BY <2>2
  <2>4. Len(v) = 2 /\ v[1] = y /\ v[2] = x
    OBVIOUS
  <2> HIDE DEF u, v
  <2>5. u = v
    BY <2>2, <2>3, <2>4, SameSeq
  <2> QED
    BY <2>3, <2>5 DEF u, v, y, Locked
<1>5. ASSUME NEW s, NEW t \in Step, At(c, s), Continue(c, Locked(<<t>>)),
             \A x \in Sound : Moves(s, a, x) => RunsTo(<<Lock("route"), t>>, a, x)
      PROVE  LInv'
  <2> DEFINE body == Locked(<<t>>)
  <2>1. body \in Seq(Step) /\ \A x \in Sound : Moves(s, a, x) => RunsTo(body, a, x)
    BY <1>4, <1>5
  <2> HIDE DEF body
  <2>2. Becomes(c, a)
    BY <1>1, <1>2, <1>3, <1>5, <2>1, BecomesHere DEF body
  <2> QED
    BY <1>2, <1>3, <2>2, BecomesApart
<1>6. CASE At(c, Do("rw_rlock")) /\ Continue(c, Locked(<<Do("rtest")>>))
  <2>1. \A x \in Sound : Moves(Do("rw_rlock"), a, x) => RunsTo(<<Lock("route"), Do("rtest")>>, a, x)
    BY <1>2, RwCallRuns
  <2> QED
    BY <1>5, <1>6, <2>1, Steps
<1>7. CASE At(c, Do("rw_runlock")) /\ Continue(c, Locked(<<Do("rdone")>>))
  <2>1. \A x \in Sound : Moves(Do("rw_runlock"), a, x) => RunsTo(<<Lock("route"), Do("rdone")>>, a, x)
    BY <1>2, RwCallRuns
  <2> QED
    BY <1>5, <1>7, <2>1, Steps
<1>8. CASE At(c, Do("rw_wlock")) /\ Continue(c, Locked(<<Do("wtest")>>))
  <2>1. \A x \in Sound : Moves(Do("rw_wlock"), a, x) => RunsTo(<<Lock("route"), Do("wtest")>>, a, x)
    BY <1>2, RwCallRuns
  <2> QED
    BY <1>5, <1>8, <2>1, Steps
<1>9. CASE At(c, Do("rw_wunlock")) /\ Continue(c, Locked(<<Do("wdone")>>))
  <2>1. PICK b \in Sound : Moves(Do("rw_wunlock"), a, b)
    BY <1>1, <1>9, NextMoves
  <2> DEFINE a1 == Writing(a, "leaving")
             body == Locked(<<Do("wdone")>>)
  <2>2. a1 \in Sound /\ a.writes = "yes"
    BY <1>2, <2>1, RwCallRuns
  <2>3. /\ a1.mask = a.mask /\ a1.flag = a.flag /\ a1.own = a.own
        /\ a1.reads = a.reads /\ a1.writes = "leaving"
    BY SitIs DEF Writing
  <2>4. body \in Seq(Step) /\ \A x \in Sound : Moves(Do("rw_wunlock"), a, x) => RunsTo(body, a1, x)
    BY <1>2, <1>4, RwCallRuns, Steps, Zenon
  <2> HIDE DEF a1, body
  <2>5. Becomes(c, a1)
    BY <1>1, <1>3, <1>9, <2>2, <2>3, <2>4, BecomesHere, Zenon DEF body
  <2>6. Shared([reads EXCEPT ![c] = reads[c]], [writes EXCEPT ![c] = "leaving"])'
    BY <1>2, <1>3, <2>2, SharedWriterOut, Zenon
  <2>7. Shared([reads EXCEPT ![c] = a1.reads], [writes EXCEPT ![c] = a1.writes])'
    BY <1>2, <2>3, <2>6
  <2> QED
    BY <1>2, <1>3, <2>5, <2>7, BecomesKeeps, Zenon
<1> QED
  BY <1>6, <1>7, <1>8, <1>9 DEF RwCall

\* rw_rlock takes a permit when nobody writes and one is left, and starts again
\* otherwise.
LEMMA ReadLockKeeps ==
  ASSUME LInv, NEW c \in CPUs, rw_rlock(c)
  PROVE  LInv'
<1>1. PICK reads, writes, a : Is(a, c, reads, writes)
  BY Starts
<1>2. /\ a \in Sound /\ Typed(reads, writes) /\ a.reads = reads[c] /\ a.writes = writes[c]
      /\ reads \in [CPUs -> {"no", "yes"}] /\ writes \in [CPUs -> {"no", "yes", "leaving"}]
      /\ Shared(reads, writes)
  BY <1>1 DEF Is, Typed
<1>3. At(c, Do("rtest")) /\ ~failed' /\ UNCHANGED <<mask, IF_, spin>>
      /\ permits \in Nat /\ writing \in BOOLEAN
  BY LockConstants DEF rw_rlock, LInv, TypeOK
<1>4. PICK b \in Sound : Moves(Do("rtest"), a, b)
  BY <1>1, <1>3, NextMoves
<1>5. a.reads = "no" /\ a.writes = "no" /\ Reading(a, "yes") \in Sound
  BY <1>2, <1>4, ReadTestRuns
<1>6. CASE ~writing /\ permits # MaxPermits
  <2> DEFINE a1 == Reading(a, "yes")
             body == <<Do("intr_lock"), Unlock("route")>>
  <2>1. /\ a1.mask = a.mask /\ a1.flag = a.flag /\ a1.own = a.own
        /\ a1.reads = "yes" /\ a1.writes = a.writes /\ a1 \in Sound
    BY <1>5, SitIs DEF Reading
  <2>2. \A x \in Sound : Moves(Do("rtest"), a, x) => RunsTo(body, a1, x)
    BY <1>2, ReadTestRuns
  <2>3. body \in Seq(Step)
    BY Steps DEF Locks
  <2>4. Continue(c, body) /\ permits' = permits + 1 /\ writing' = writing
    BY <1>6 DEF rw_rlock
  <2> HIDE DEF a1, body
  <2>5. Becomes(c, a1)
    BY <1>1, <1>3, <2>1, <2>2, <2>3, <2>4, BecomesHere, Zenon
  <2>6. Shared([reads EXCEPT ![c] = "yes"], [writes EXCEPT ![c] = writes[c]])'
    BY <1>2, <1>3, <1>5, <1>6, <2>4, SharedReader, Zenon
  <2>7. Shared([reads EXCEPT ![c] = a1.reads], [writes EXCEPT ![c] = a1.writes])'
    BY <1>2, <2>1, <2>6
  <2>8. permits' \in Nat /\ writing' \in BOOLEAN
    BY <1>3, <2>4
  <2> QED
    BY <1>2, <1>3, <2>5, <2>7, <2>8, BecomesKeeps, Zenon
<1>7. CASE ~(~writing /\ permits # MaxPermits)
  <2> DEFINE body == <<Unlock("route"), Do("rw_rlock")>>
  <2>1. \A x \in Sound : Moves(Do("rtest"), a, x) => RunsTo(body, a, x)
    BY <1>2, ReadTestRuns
  <2>2. body \in Seq(Step)
    BY Steps DEF Locks
  <2>3. Continue(c, body) /\ UNCHANGED <<permits, writing>>
    BY <1>7 DEF rw_rlock
  <2> HIDE DEF body
  <2>4. Becomes(c, a)
    BY <1>1, <1>2, <1>3, <2>1, <2>2, <2>3, BecomesHere
  <2> QED
    BY <1>2, <1>3, <2>3, <2>4, BecomesApart
<1> QED
  BY <1>6, <1>7

\* rw_wlock becomes the writer when nobody reads or writes, and starts again
\* otherwise.
LEMMA WriteLockKeeps ==
  ASSUME LInv, NEW c \in CPUs, rw_wlock(c)
  PROVE  LInv'
<1>1. PICK reads, writes, a : Is(a, c, reads, writes)
  BY Starts
<1>2. /\ a \in Sound /\ Typed(reads, writes) /\ a.reads = reads[c] /\ a.writes = writes[c]
      /\ reads \in [CPUs -> {"no", "yes"}] /\ writes \in [CPUs -> {"no", "yes", "leaving"}]
      /\ Shared(reads, writes)
  BY <1>1 DEF Is, Typed
<1>3. At(c, Do("wtest")) /\ ~failed' /\ UNCHANGED <<mask, IF_, spin>>
      /\ permits \in Nat /\ writing \in BOOLEAN
  BY LockConstants DEF rw_wlock, LInv, TypeOK
<1>4. PICK b \in Sound : Moves(Do("wtest"), a, b)
  BY <1>1, <1>3, NextMoves
<1>5. a.reads = "no" /\ a.writes = "no" /\ Writing(a, "yes") \in Sound
  BY <1>2, <1>4, WriteTestRuns
<1>6. CASE ~writing /\ permits = 0
  <2> DEFINE a1 == Writing(a, "yes")
             body == <<Do("intr_lock"), Unlock("route")>>
  <2>1. /\ a1.mask = a.mask /\ a1.flag = a.flag /\ a1.own = a.own
        /\ a1.reads = a.reads /\ a1.writes = "yes" /\ a1 \in Sound
    BY <1>5, SitIs DEF Writing
  <2>2. \A x \in Sound : Moves(Do("wtest"), a, x) => RunsTo(body, a1, x)
    BY <1>2, WriteTestRuns
  <2>3. body \in Seq(Step)
    BY Steps DEF Locks
  <2>4. Continue(c, body) /\ writing' = TRUE /\ permits' = permits
    BY <1>6 DEF rw_wlock
  <2> HIDE DEF a1, body
  <2>5. Becomes(c, a1)
    BY <1>1, <1>3, <2>1, <2>2, <2>3, <2>4, BecomesHere
  <2>6. Shared([reads EXCEPT ![c] = reads[c]], [writes EXCEPT ![c] = "yes"])'
    BY <1>2, <1>3, <1>5, <1>6, <2>4, SharedWriter, Zenon
  <2>7. Shared([reads EXCEPT ![c] = a1.reads], [writes EXCEPT ![c] = a1.writes])'
    BY <1>2, <2>1, <2>6
  <2>8. permits' \in Nat /\ writing' \in BOOLEAN
    BY <1>3, <2>4
  <2> QED
    BY <1>2, <1>3, <2>5, <2>7, <2>8, BecomesKeeps, Zenon
<1>7. CASE ~(~writing /\ permits = 0)
  <2> DEFINE body == <<Unlock("route"), Do("rw_wlock")>>
  <2>1. \A x \in Sound : Moves(Do("wtest"), a, x) => RunsTo(body, a, x)
    BY <1>2, WriteTestRuns
  <2>2. body \in Seq(Step)
    BY Steps DEF Locks
  <2>3. Continue(c, body) /\ UNCHANGED <<permits, writing>>
    BY <1>7 DEF rw_wlock
  <2> HIDE DEF body
  <2>4. Becomes(c, a)
    BY <1>1, <1>2, <1>3, <2>1, <2>2, <2>3, BecomesHere
  <2> QED
    BY <1>2, <1>3, <2>3, <2>4, BecomesApart
<1> QED
  BY <1>6, <1>7

\* rw_runlock gives the permit back.
LEMMA ReadUnlockKeeps ==
  ASSUME LInv, NEW c \in CPUs, rw_runlock(c)
  PROVE  LInv'
<1>1. PICK reads, writes, a : Is(a, c, reads, writes)
  BY Starts
<1>2. /\ a \in Sound /\ Typed(reads, writes) /\ a.reads = reads[c] /\ a.writes = writes[c]
      /\ reads \in [CPUs -> {"no", "yes"}] /\ writes \in [CPUs -> {"no", "yes", "leaving"}]
      /\ Shared(reads, writes)
  BY <1>1 DEF Is, Typed
<1>3. At(c, Do("rdone")) /\ ~failed' /\ UNCHANGED <<mask, IF_, spin>>
      /\ permits \in Nat /\ writing \in BOOLEAN
  BY LockConstants DEF rw_runlock, LInv, TypeOK
<1>4. PICK b \in Sound : Moves(Do("rdone"), a, b)
  BY <1>1, <1>3, NextMoves
<1>5. a.reads = "yes" /\ Reading(a, "no") \in Sound
  BY <1>2, <1>4, ReadDoneRuns
<1> DEFINE a1 == Reading(a, "no")
           body == <<Do("intr_unlock"), Unlock("route")>>
<1>6. /\ a1.mask = a.mask /\ a1.flag = a.flag /\ a1.own = a.own
      /\ a1.reads = "no" /\ a1.writes = a.writes /\ a1 \in Sound
  BY <1>5, SitIs DEF Reading
<1>7. \A x \in Sound : Moves(Do("rdone"), a, x) => RunsTo(body, a1, x)
  BY <1>2, ReadDoneRuns
<1>8. body \in Seq(Step)
  BY Steps DEF Locks
<1>9. Continue(c, body) /\ permits' = permits - 1 /\ writing' = writing
  BY DEF rw_runlock
<1> HIDE DEF a1, body
<1>10. Becomes(c, a1)
  BY <1>1, <1>3, <1>6, <1>7, <1>8, <1>9, BecomesHere, Zenon
<1>11. Shared([reads EXCEPT ![c] = "no"], [writes EXCEPT ![c] = writes[c]])'
       /\ permits' \in Nat /\ writing' \in BOOLEAN
  BY <1>2, <1>3, <1>5, <1>9, SharedReaderOut, Zenon
<1>12. Shared([reads EXCEPT ![c] = a1.reads], [writes EXCEPT ![c] = a1.writes])'
  BY <1>2, <1>6, <1>11
<1> QED
  BY <1>2, <1>3, <1>10, <1>11, <1>12, BecomesKeeps, Zenon

\* rw_wunlock gives the lock back.
LEMMA WriteUnlockKeeps ==
  ASSUME LInv, NEW c \in CPUs, rw_wunlock(c)
  PROVE  LInv'
<1>1. PICK reads, writes, a : Is(a, c, reads, writes)
  BY Starts
<1>2. /\ a \in Sound /\ Typed(reads, writes) /\ a.reads = reads[c] /\ a.writes = writes[c]
      /\ reads \in [CPUs -> {"no", "yes"}] /\ writes \in [CPUs -> {"no", "yes", "leaving"}]
      /\ Shared(reads, writes)
  BY <1>1 DEF Is, Typed
<1>3. At(c, Do("wdone")) /\ ~failed' /\ UNCHANGED <<mask, IF_, spin>>
      /\ permits \in Nat /\ writing \in BOOLEAN
  BY LockConstants DEF rw_wunlock, LInv, TypeOK
<1>4. PICK b \in Sound : Moves(Do("wdone"), a, b)
  BY <1>1, <1>3, NextMoves
<1>5. a.writes = "leaving" /\ Writing(a, "no") \in Sound
  BY <1>2, <1>4, WriteDoneRuns
<1> DEFINE a1 == Writing(a, "no")
           body == <<Do("intr_unlock"), Unlock("route")>>
<1>6. /\ a1.mask = a.mask /\ a1.flag = a.flag /\ a1.own = a.own
      /\ a1.reads = a.reads /\ a1.writes = "no" /\ a1 \in Sound
  BY <1>5, SitIs DEF Writing
<1>7. \A x \in Sound : Moves(Do("wdone"), a, x) => RunsTo(body, a1, x)
  BY <1>2, WriteDoneRuns
<1>8. body \in Seq(Step)
  BY Steps DEF Locks
<1>9. Continue(c, body) /\ writing' = FALSE /\ permits' = permits
  BY DEF rw_wunlock
<1> HIDE DEF a1, body
<1>10. Becomes(c, a1)
  BY <1>1, <1>3, <1>6, <1>7, <1>8, <1>9, BecomesHere, Zenon
<1>11. Shared([reads EXCEPT ![c] = reads[c]], [writes EXCEPT ![c] = "no"])'
       /\ permits' \in Nat /\ writing' \in BOOLEAN
  BY <1>2, <1>3, <1>5, <1>9, SharedWriterOut, Zenon
<1>12. Shared([reads EXCEPT ![c] = a1.reads], [writes EXCEPT ![c] = a1.writes])'
  BY <1>2, <1>6, <1>11
<1> QED
  BY <1>2, <1>3, <1>10, <1>11, <1>12, BecomesKeeps, Zenon
-----------------------------------------------------------------------------
\* New code on top of what a CPU has yet to do: it leads back to the situation
\* that it found.
LEMMA Begins ==
  ASSUME LInv, NEW c \in CPUs, NEW reads, NEW writes, NEW a, Is(a, c, reads, writes),
         NEW body \in Seq(Step), Begin(c, body), NEW a1, RunsTo(body, a1, a)
  PROVE  \E p \in Seq(Step) : todo' = [todo EXCEPT ![c] = p] /\ RunsTo(p, a1, Outside)
<1> DEFINE s == todo[c]
<1>1. s \in Seq(Step) /\ RunsTo(s, a, Outside)
  BY DEF LInv, Is, Typed
<1>2. todo' = [todo EXCEPT ![c] = body \o s]
  BY DEF Begin
<1> HIDE DEF s
<1>3. body \o s \in Seq(Step) /\ RunsTo(body \o s, a1, Outside)
  BY <1>1, RunsSeq
<1> QED
  BY <1>2, <1>3, Zenon

\* A CPU with nothing to do is outside.
LEMMA IdleOutside ==
  ASSUME LInv, NEW c \in CPUs, NEW reads, NEW writes, NEW a, Is(a, c, reads, writes),
         todo[c] = <<>>
  PROVE  a = Outside
<1>1. RunsTo(todo[c], a, Outside)
  BY DEF Is, Typed
<1> QED
  BY <1>1, RunsNothingIs

\* What a call or an entry has to show.
LEMMA BeginKeeps ==
  ASSUME LInv, NEW c \in CPUs, NEW reads, NEW writes, NEW a, Is(a, c, reads, writes),
         NEW body \in Seq(Step), Begin(c, body), NEW a1 \in Sound, RunsTo(body, a1, a),
         Machine(c, a1), a1.reads = a.reads, a1.writes = a.writes,
         UNCHANGED <<permits, writing, failed>>
  PROVE  LInv'
<1>1. Typed(reads, writes) /\ a1.reads = reads[c] /\ a1.writes = writes[c]
  BY Zenon DEF Is
<1>2. \E p \in Seq(Step) : todo' = [todo EXCEPT ![c] = p] /\ RunsTo(p, a1, Outside)
  BY Begins, Zenon
<1>3. Becomes(c, a1) /\ ~failed'
  BY <1>2, Zenon DEF Becomes, LInv
<1> QED
  BY <1>1, <1>3, BecomesApart, Zenon

\* A call of malloc or of a function that changes the handlers.
LEMMA CallKeeps ==
  ASSUME LInv, NEW c \in CPUs, Call(c)
  PROVE  LInv'
<1>1. PICK reads, writes, a : Is(a, c, reads, writes)
  BY Starts
<1>2. a = Outside /\ a \in Sound /\ UNCHANGED <<mask, IF_, spin, permits, writing, failed>>
  BY <1>1, IdleOutside, Zenon DEF Call, Is
<1>3. PICK body \in {Malloc, intr_route_intr, intr_unroute_intr, intr_route_irq_to} :
        Begin(c, body)
  BY DEF Call
<1>4. body \in Seq(Step) /\ RunsTo(body, a, a)
  BY <1>2, <1>3, CallRuns
<1>5. Machine(c, a)
  BY <1>1, <1>2, MachineKept, Zenon
<1> QED
  BY <1>1, <1>2, <1>3, <1>4, <1>5, BeginKeeps, Zenon

\* The processor clears IF and the stub counts: an entry into the kernel.
LEMMA EntryKeeps ==
  ASSUME LInv, NEW c \in CPUs, NEW reads, NEW writes, NEW a, Is(a, c, reads, writes),
         NEW body \in Seq(Step), Begin(c, body), NEW a1 \in Sound, RunsTo(body, a1, a),
         a1 = Sit(a.mask + 1, "off", a.own, a.reads, a.writes),
         IF_' = [IF_ EXCEPT ![c] = FALSE], mask' = [mask EXCEPT ![c] = @ + 1],
         UNCHANGED <<spin, permits, writing, failed>>
  PROVE  LInv'
<1>1. /\ a1.mask = a.mask + 1 /\ a1.flag = "off" /\ a1.own = a.own
      /\ a1.reads = a.reads /\ a1.writes = a.writes
  BY SitIs
<1>2. mask \in [CPUs -> Int] /\ IF_ \in [CPUs -> BOOLEAN]
  BY LTypes
<1>3. a.mask = mask[c]
  BY DEF Is
<1>4. mask' \in [CPUs -> Int] /\ mask'[c] = a1.mask
      /\ \A d \in CPUs \ {c} : mask'[d] = mask[d]
  BY <1>1, <1>2, <1>3
<1>5. IF_' \in [CPUs -> BOOLEAN] /\ (IF_'[c] <=> a1.flag = "on")
      /\ \A d \in CPUs \ {c} : IF_'[d] <=> IF_[d]
  BY <1>1, <1>2, SMTT(30)
<1>6. Machine(c, a1)
  BY <1>1, <1>4, <1>5, MachineIs
<1> QED
  BY <1>1, <1>6, BeginKeeps, Zenon

\* The system call stub.
LEMMA SyscallKeeps ==
  ASSUME LInv, NEW c \in CPUs, syscall_stub(c)
  PROVE  LInv'
<1>1. PICK reads, writes, a : Is(a, c, reads, writes)
  BY Starts
<1>2. a = Outside
  BY <1>1, IdleOutside, Zenon DEF syscall_stub
<1>3. Sit(a.mask + 1, "off", a.own, a.reads, a.writes) = Sit(1, "off", {}, "no", "no")
  <2>1. a.mask = 0 /\ a.own = {} /\ a.reads = "no" /\ a.writes = "no"
    BY <1>2, SitIs DEF Outside
  <2> QED
    BY <2>1
<1> DEFINE body == Malloc \o <<Do("return")>>
           a1 == Sit(a.mask + 1, "off", a.own, a.reads, a.writes)
<1>4. body \in Seq(Step) /\ a1 \in Sound /\ RunsTo(body, a1, a)
  BY <1>2, <1>3, SyscallRuns, Zenon
<1>5. Begin(c, body) /\ IF_' = [IF_ EXCEPT ![c] = FALSE] /\ mask' = [mask EXCEPT ![c] = @ + 1]
      /\ UNCHANGED <<spin, permits, writing, failed>>
  BY DEF syscall_stub
<1>6. a1 = Sit(a.mask + 1, "off", a.own, a.reads, a.writes)
  OBVIOUS
<1> HIDE DEF body, a1
<1> QED
  BY <1>1, <1>4, <1>5, <1>6, EntryKeeps, Zenon

\* The interrupt stub, which may come between any two steps while IF is set.
LEMMA InterruptKeeps ==
  ASSUME LInv, NEW c \in CPUs, intr_stub(c)
  PROVE  LInv'
<1>1. PICK reads, writes, a : Is(a, c, reads, writes)
  BY Starts
<1>2. PICK h \in intr_dispatch : Begin(c, h \o <<Do("return")>>)
  BY DEF intr_stub
<1> DEFINE body == h \o <<Do("return")>>
           a1 == Sit(a.mask + 1, "off", a.own, a.reads, a.writes)
<1>3. a \in Sound /\ a.flag = "on"
  BY <1>1 DEF Is, intr_stub
<1>4. body \in Seq(Step) /\ a1 \in Sound /\ RunsTo(body, a1, a)
  BY <1>3, HandlerRuns
<1>5. Begin(c, body) /\ IF_' = [IF_ EXCEPT ![c] = FALSE] /\ mask' = [mask EXCEPT ![c] = @ + 1]
      /\ UNCHANGED <<spin, permits, writing, failed>>
  BY <1>2 DEF intr_stub
<1>6. a1 = Sit(a.mask + 1, "off", a.own, a.reads, a.writes)
  OBVIOUS
<1> HIDE DEF body, a1
<1> QED
  BY <1>1, <1>4, <1>5, <1>6, EntryKeeps, Zenon
-----------------------------------------------------------------------------
\* The invariant holds when the CPUs start, outside every lock.
LEMMA InitLInv == Init => LInv
<1> SUFFICES ASSUME Init PROVE LInv
  OBVIOUS
<1> DEFINE reads == [c \in CPUs |-> "no"]
           writes == [c \in CPUs |-> "no"]
<1>1. ~failed /\ todo \in [CPUs -> Seq(Step)]
  BY DEF Init
<1>2. TypeOK
  <2>1. mask \in [CPUs -> 0 .. 4] /\ permits \in 0 .. MaxPermits
    BY LockConstants DEF Init
  <2>2. spin \in [Locks -> CPUs \cup {NONE}] /\ IF_ \in [CPUs -> BOOLEAN] /\ writing \in BOOLEAN
    BY Zenon DEF Init
  <2> QED
    BY <2>1, <2>2 DEF TypeOK
<1>3. reads \in [CPUs -> {"no", "yes"}] /\ writes \in [CPUs -> {"no", "yes", "leaving"}]
      /\ \A c \in CPUs : reads[c] = "no" /\ writes[c] = "no"
  OBVIOUS
<1> HIDE DEF reads, writes
<1>4. Shared(reads, writes)
  <2>1. Readers(0, reads)
    BY <1>3, NoReader
  <2>2. Readers(permits, reads) /\ permits <= MaxPermits
    BY <2>1, LockConstants DEF Init
  <2> QED
    BY <1>3, <2>2 DEF Init, Shared
<1>5. ASSUME NEW c \in CPUs PROVE RunsTo(todo[c], SituationOf(c, reads, writes), Outside)
  <2>1. todo[c] = <<>> /\ mask[c] = 0 /\ IF_[c] /\ {l \in Locks : spin[l] = c} = {}
    BY LockConstants DEF Init
  <2>2. SituationOf(c, reads, writes) = Outside
    BY <1>3, <2>1, Zenon DEF SituationOf, Outside
  <2>3. Outside \in Sound
    BY SitIs DEF Outside
  <2> QED
    BY <2>1, <2>2, <2>3, RunsNothing
<1>6. Typed(reads, writes)
  BY <1>3, <1>4, <1>5 DEF Typed
<1> QED
  BY <1>1, <1>2, <1>3, <1>6 DEF LInv

\* Every step preserves it,
LEMMA NextLInv == LInv /\ [Next]_vars => LInv'
<1> SUFFICES ASSUME LInv, [Next]_vars PROVE LInv'
  OBVIOUS
<1>1. ASSUME UNCHANGED vars PROVE LInv'
  <2>1. PICK reads \in [CPUs -> {"no", "yes"}], writes \in [CPUs -> {"no", "yes", "leaving"}] :
          Typed(reads, writes)
    BY DEF LInv
  <2>2. Typed(reads, writes)'
    BY <1>1, <2>1, Zenon DEF vars, Typed, Shared, SituationOf
  <2>3. TypeOK' /\ ~failed' /\ (todo \in [CPUs -> Seq(Step)])'
    BY <1>1 DEF vars, LInv, TypeOK
  <2> QED
    BY <2>2, <2>3, Zenon DEF LInv
<1>2. ASSUME NEW c \in CPUs,
             intr_lock(c) \/ intr_disable(c) \/ intr_unlock(c) \/ intr_enable(c)
      PROVE  LInv'
  BY <1>2, IntrLockKeeps, CliKeeps, IntrUnlockKeeps, StiKeeps
<1>3. ASSUME NEW c \in CPUs, NEW l \in Locks,
             spin_lock(c, l) \/ spin_try_lock(c, l) \/ spin_unlock(c, l)
      PROVE  LInv'
  BY <1>3, SpinLockKeeps, TryLockKeeps, SpinUnlockKeeps
<1>4. ASSUME NEW c \in CPUs,
             RwCall(c) \/ rw_rlock(c) \/ rw_runlock(c) \/ rw_wlock(c) \/ rw_wunlock(c)
      PROVE  LInv'
  BY <1>4, RwCallKeeps, ReadLockKeeps, ReadUnlockKeeps, WriteLockKeeps, WriteUnlockKeeps
<1>5. ASSUME NEW c \in CPUs,
             Section(c) \/ Call(c) \/ syscall_stub(c) \/ intr_stub(c) \/ Return(c)
      PROVE  LInv'
  BY <1>5, SectionKeeps, CallKeeps, SyscallKeeps, InterruptKeeps, ReturnKeeps
<1> QED
  BY <1>1, <1>2, <1>3, <1>4, <1>5 DEF Next

\* so it always holds.
LEMMA SpecLInv == Spec => []LInv
  BY InitLInv, NextLInv, PTL DEF Spec
-----------------------------------------------------------------------------
\* What the next step of a CPU says of its locks.
LEMMA NextStepSays ==
  ASSUME LInv, NEW reads, NEW writes, Typed(reads, writes), NEW c \in CPUs
  PROVE  /\ At(c, Do("walk")) => reads[c] = "yes" /\ ~IF_[c]
         /\ At(c, Do("change")) => writes[c] = "yes" /\ ~IF_[c]
         /\ At(c, Do("dlmalloc")) => spin["malloc"] = c /\ ~IF_[c]
         /\ \A l \in Locks : At(c, TryLock(l)) => spin[l] # c
         /\ At(c, Do("rtest")) => writes[c] = "no"
         /\ todo[c] = <<>> => /\ IF_[c] /\ mask[c] = 0 /\ \A l \in Locks : spin[l] # c
                              /\ reads[c] = "no" /\ writes[c] = "no"
<1>1. PICK a : a = SituationOf(c, reads, writes)
  OBVIOUS
<1>2. /\ a \in Sound /\ a.mask = mask[c] /\ a.flag = (IF IF_[c] THEN "on" ELSE "off")
      /\ a.own = {l \in Locks : spin[l] = c} /\ a.reads = reads[c] /\ a.writes = writes[c]
  BY <1>1, SituationIs
<1>3. (a.flag = "on" <=> IF_[c]) /\ (a.flag = "off" <=> ~IF_[c])
      /\ \A l \in Locks : l \in a.own <=> spin[l] = c
  BY <1>2
<1>4. Is(a, c, reads, writes)
  BY <1>1, <1>2, <1>3 DEF Is
<1>5. \A s : At(c, s) => \E b \in Sound : Moves(s, a, b)
  BY <1>4, NextMoves
<1>6. At(c, Do("walk")) => reads[c] = "yes" /\ ~IF_[c]
  BY <1>2, <1>3, <1>5, MovesDo, Zenon
<1>7. At(c, Do("change")) => writes[c] = "yes" /\ ~IF_[c]
  BY <1>2, <1>3, <1>5, MovesDo, Zenon
<1>8. At(c, Do("dlmalloc")) => spin["malloc"] = c /\ ~IF_[c]
  BY <1>2, <1>3, <1>5, MovesDo, Zenon
<1>9. \A l \in Locks : At(c, TryLock(l)) => spin[l] # c
  BY <1>3, <1>5, MovesOn, Zenon
<1>10. At(c, Do("rtest")) => writes[c] = "no"
  BY <1>2, <1>5, MovesDo, Zenon
<1>11. ASSUME todo[c] = <<>>
       PROVE  /\ IF_[c] /\ mask[c] = 0 /\ \A l \in Locks : spin[l] # c
              /\ reads[c] = "no" /\ writes[c] = "no"
  <2>1. a = Outside
    BY <1>4, <1>11, IdleOutside, Zenon
  <2>2. a.mask = 0 /\ a.flag = "on" /\ a.own = {} /\ a.reads = "no" /\ a.writes = "no"
    BY <2>1, SitIs DEF Outside
  <2> QED
    BY <1>2, <1>3, <2>2, Zenon
<1> QED
  BY <1>6, <1>7, <1>8, <1>9, <1>10, <1>11, Zenon

\* A pending wdone belongs to a CPU that is leaving, and a pending rw_wunlock
\* either to a writer or to a CPU that has yet to become one.
LEMMA PendingWrites ==
  ASSUME NEW s \in Seq(Step), NEW a, NEW z, RunsTo(s, a, z), a.writes = "no",
         NEW i \in 1 .. Len(s)
  PROVE  /\ s[i] # Do("wdone")
         /\ s[i] = Do("rw_wunlock") =>
              \E j \in 1 .. Len(s) : s[j] = Do("rw_wlock") \/ s[j] = Do("wtest")
<1>1. PICK st \in [1 .. Len(s) + 1 -> Sound] :
        /\ st[1] = a /\ st[Len(s) + 1] = z
        /\ \A k \in 1 .. Len(s) : Moves(s[k], st[k], st[k + 1])
        /\ \A k, m \in 1 .. Len(s) + 1 : k <= m => Between(s, st, k, m)
  BY DEF RunsTo
<1> DEFINE n == Len(s)
<1>2. n \in Nat /\ i \in 1 .. n /\ i \in Nat /\ i \in 1 .. n + 1
  OBVIOUS
<1> HIDE DEF n
<1>3. st \in [1 .. n + 1 -> Sound] /\ \A k \in 1 .. n : Moves(s[k], st[k], st[k + 1])
  BY <1>1 DEF n
<1>4. /\ s[i] = Do("wdone") => st[i].writes = "leaving"
      /\ s[i] = Do("rw_wunlock") => st[i].writes # "no"
  BY <1>2, <1>3, WriterMoves, Zenon
<1>7. Between(s, st, 1, i)
  BY <1>1, <1>2 DEF n
<1>8. i - 1 <= n
  BY <1>2
<1>5. s[i] # Do("wdone")
  BY <1>1, <1>4, <1>7 DEF Between
<1>6. s[i] = Do("rw_wunlock") =>
        \E j \in 1 .. Len(s) : s[j] = Do("rw_wlock") \/ s[j] = Do("wtest")
  <2>1. s[i] = Do("rw_wunlock") =>
          \E j \in 1 .. i - 1 : s[j] = Do("rw_wlock") \/ s[j] = Do("wtest")
    BY <1>1, <1>4, <1>7 DEF Between
  <2>2. \A j \in 1 .. i - 1 : j \in 1 .. Len(s)
    BY <1>2, <1>8 DEF n
  <2> QED
    BY <2>1, <2>2
<1> QED
  BY <1>5, <1>6
-----------------------------------------------------------------------------
\* The assertions of intr_unlock (the count is not 0) and spin_unlock (the lock
\* is taken) never fail, on any number of CPUs.
THEOREM AssertionsHold == Spec => []NoAssertionFails
<1>1. LInv => NoAssertionFails
  BY DEF LInv, NoAssertionFails
<1> QED
  BY <1>1, SpecLInv, PTL

\* The list of handlers is never changed while another CPU walks or changes it,
\* and dlmalloc runs on one CPU: the read-write lock and the spinlock exclude,
\* whatever interrupts come between the steps of taking them.
THEOREM LocksExclude == Spec => []SectionsExclude
<1>1. ASSUME LInv PROVE SectionsExclude
  <2>1. PICK reads, writes : Typed(reads, writes)
    BY <1>1 DEF LInv
  <2> SUFFICES ASSUME NEW c \in CPUs, NEW d \in CPUs, c # d
               PROVE  /\ At(c, Do("change")) => ~At(d, Do("change")) /\ ~At(d, Do("walk"))
                      /\ ~(At(c, Do("dlmalloc")) /\ At(d, Do("dlmalloc")))
    BY DEF SectionsExclude
  <2>2. /\ writes[c] # "no" => reads[d] = "no"
        /\ writes[c] # "no" /\ writes[d] # "no" => c = d
    BY <2>1 DEF Typed, Shared
  <2> QED
    BY <1>1, <2>1, <2>2, NextStepSays
<1> QED
  BY <1>1, SpecLInv, PTL

\* A CPU that tries a spinlock does not own it already, and one that tests the
\* read-write lock for reading has not interrupted its own write: no CPU spins
\* on itself.
THEOREM NoSelfDeadlock == Spec => []NeverWaitsForItself
<1>1. ASSUME LInv PROVE NeverWaitsForItself
  <2>1. PICK reads, writes : Typed(reads, writes)
    BY <1>1 DEF LInv
  <2>2. ASSUME NEW c \in CPUs, At(c, Do("rtest")), Writes(c) PROVE FALSE
    <3>1. PICK a : a = SituationOf(c, reads, writes)
      OBVIOUS
    <3>2. todo[c] \in Seq(Step) /\ RunsTo(todo[c], a, Outside)
      BY <1>1, <2>1, <3>1 DEF LInv, Typed
    <3>3. a.writes = "no"
      <4>1. writes[c] = "no"
        BY <1>1, <2>1, <2>2, NextStepSays
      <4>2. a.writes = writes[c]
        BY <1>1, <2>1, <3>1, SituationIs
      <4> QED
        BY <4>1, <4>2
    <3>4. ~Pending(c, Do("wdone"))
      BY <3>2, <3>3, PendingWrites DEF Pending
    <3>5. Pending(c, Do("rw_wunlock")) =>
            Pending(c, Do("rw_wlock")) \/ Pending(c, Do("wtest"))
      BY <3>2, <3>3, PendingWrites DEF Pending
    <3> QED
      BY <2>2, <3>4, <3>5 DEF Writes
  <2>3. \A c \in CPUs : \A l \in Locks : At(c, TryLock(l)) => spin[l] # c
    BY <1>1, <2>1, NextStepSays
  <2> QED
    BY <2>2, <2>3, Zenon DEF NeverWaitsForItself
<1> QED
  BY <1>1, SpecLInv, PTL

\* The mask count never exceeds 4 and IF follows it: interrupts are off in every
\* locked section, and back on, with the count at 0 and every lock released,
\* when the CPU has left the kernel's locks.
THEOREM MaskFollows == Spec => []MaskFollowsLocks
<1>1. ASSUME LInv PROVE MaskFollowsLocks
  <2>1. PICK reads, writes : Typed(reads, writes)
    BY <1>1 DEF LInv
  <2>2. TypeOK
    BY <1>1 DEF LInv
  <2>3. \A c \in CPUs :
          (\E s \in {Do("walk"), Do("change"), Do("dlmalloc")} : At(c, s)) => ~IF_[c]
    BY <1>1, <2>1, NextStepSays
  <2>4. \A c \in CPUs :
          todo[c] = <<>> => IF_[c] /\ mask[c] = 0 /\ \A l \in Locks : spin[l] # c
    BY <1>1, <2>1, NextStepSays
  <2>5. ASSUME \A c \in CPUs : todo[c] = <<>> PROVE permits = 0 /\ ~writing
    <3>1. ASSUME NEW c \in CPUs PROVE reads[c] = "no" /\ writes[c] = "no"
      <4>1. todo[c] = <<>>
        BY <2>5
      <4> QED
        BY <1>1, <2>1, <4>1, NextStepSays
    <3>2. permits \in Nat
      BY <2>2, LockConstants DEF TypeOK
    <3>3. reads \in [CPUs -> {"no", "yes"}] /\ Readers(permits, reads)
      BY <2>1, Zenon DEF Typed, Shared
    <3>4. permits = 0
      BY <3>1, <3>2, <3>3, NoReader, Zenon
    <3> QED
      BY <2>1, <3>1, <3>4, Zenon DEF Typed, Shared
  <2> QED
    BY <2>2, <2>3, <2>4, <2>5 DEF MaskFollowsLocks
<1> QED
  BY <1>1, SpecLInv, PTL
=============================================================================
