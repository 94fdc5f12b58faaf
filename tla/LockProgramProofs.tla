-------------------------- MODULE LockProgramProofs -------------------------
(***************************************************************************)
(* A typing of the programs that the kernel's lock functions are: each     *)
(* step leads a CPU from one situation (mask count, flag IF, locks owned)  *)
(* to another (Moves), and a program from the situation before its first   *)
(* step to the one after its last (RunsTo).  The lemmas show that the      *)
(* body of every call has the type of the call: intr_lock, spin_lock and   *)
(* its failed attempts, the read-write lock and its failed tests, malloc,  *)
(* the handler of an interrupt and the system call stub.                   *)
(***************************************************************************)
EXTENDS KernelLocks, TLAPS

\* The steps a program is made of.
Ops == {"intr_lock", "cli", "intr_unlock", "sti", "return", "walk", "change",
        "dlmalloc", "rw_rlock", "rw_runlock", "rw_wlock", "rw_wunlock",
        "rtest", "rdone", "wtest", "wdone"}
Step == {Do(op) : op \in Ops}
          \cup UNION {{Lock(l), TryLock(l), Unlock(l)} : l \in Locks}

\* The situation of a CPU: its mask count, its flag IF, the spinlocks it has
\* set, and whether it reads or writes under intr_route_lock; a writer that has
\* called rw_wunlock is "leaving".
Situation == [mask : 0 .. 4, flag : {"on", "off"}, own : SUBSET Locks,
              reads : {"no", "yes"}, writes : {"no", "yes", "leaving"}]

Sit(m, f, o, r, w) == [mask |-> m, flag |-> f, own |-> o, reads |-> r, writes |-> w]

Free(a) == a.own = {} /\ a.reads = "no" /\ a.writes = "no"

\* Interrupts are enabled only where no lock is held.
Sound == {a \in Situation : /\ a.flag = "on" => Free(a) /\ a.mask <= 1
                            /\ a.mask = 0 => Free(a)}

Outside == Sit(0, "on", {}, "no", "no")

\* intr_lock may follow: interrupts are disabled once the count is not 0.
Lockable(a) == a.mask <= 3 /\ (a.mask > 0 => a.flag = "off")
Masked(a) == Sit(a.mask + 1, "off", a.own, a.reads, a.writes)

\* intr_unlock may follow, n times.
Unlockable(a, n) == a.mask >= n /\ a.flag = "off" /\ (a.mask = n => Free(a))
Unmasked(a, n) ==
  Sit(a.mask - n, IF a.mask = n THEN "on" ELSE "off", a.own, a.reads, a.writes)

Owning(a, o) == Sit(a.mask, a.flag, o, a.reads, a.writes)
Reading(a, r) == Sit(a.mask, a.flag, a.own, r, a.writes)
Writing(a, w) == Sit(a.mask, a.flag, a.own, a.reads, w)

\* Under lock->lock of the read-write lock.
InRoute(a, n) == a.mask \in n .. 4 /\ a.flag = "off" /\ a.own = {"route"}

\* The step, with all that its body will do, leads from situation a to b.
Moves(step, a, b) ==
  \/ step = Do("intr_lock") /\ Lockable(a) /\ b = Masked(a)
  \/ step = Do("cli") /\ a.mask = 1 /\ b = Sit(1, "off", a.own, a.reads, a.writes)
  \/ step = Do("intr_unlock") /\ Unlockable(a, 1) /\ b = Unmasked(a, 1)
  \/ step = Do("sti") /\ a.mask = 0 /\ b = Sit(0, "on", a.own, a.reads, a.writes)
  \/ step = Do("return") /\ a.mask \in 1 .. 2 /\ a.flag = "off" /\ Free(a)
       /\ b = Sit(a.mask - 1, "on", a.own, a.reads, a.writes)
  \/ \E l \in Locks :
       step = Lock(l) /\ Lockable(a) /\ l \notin a.own
         /\ b = Owning(Masked(a), a.own \cup {l})
  \/ \E l \in Locks :
       step = TryLock(l) /\ Unlockable(a, 1) /\ l \notin a.own
         /\ b = Owning(a, a.own \cup {l})
  \/ \E l \in Locks :
       step = Unlock(l) /\ l \in a.own /\ Unlockable(Owning(a, a.own \ {l}), 1)
         /\ b = Unmasked(Owning(a, a.own \ {l}), 1)
  \/ step = Do("rw_rlock") /\ Lockable(a) /\ a.mask <= 2 /\ Free(a)
       /\ b = Reading(Masked(a), "yes")
  \/ step = Do("rtest") /\ InRoute(a, 1) /\ a.mask <= 3
       /\ a.reads = "no" /\ a.writes = "no" /\ b = Reading(Owning(a, {}), "yes")
  \/ step = Do("rw_runlock") /\ a.mask \in 1 .. 3 /\ a.flag = "off" /\ a.own = {}
       /\ a.reads = "yes" /\ a.writes = "no" /\ b = Unmasked(Reading(a, "no"), 1)
  \/ step = Do("rdone") /\ InRoute(a, 2) /\ a.reads = "yes" /\ a.writes = "no"
       /\ b = Unmasked(Reading(Owning(a, {}), "no"), 2)
  \/ step = Do("rw_wlock") /\ Lockable(a) /\ a.mask <= 2 /\ Free(a)
       /\ b = Writing(Masked(a), "yes")
  \/ step = Do("wtest") /\ InRoute(a, 1) /\ a.mask <= 3
       /\ a.reads = "no" /\ a.writes = "no" /\ b = Writing(Owning(a, {}), "yes")
  \/ step = Do("rw_wunlock") /\ a.mask \in 1 .. 3 /\ a.flag = "off" /\ a.own = {}
       /\ a.reads = "no" /\ a.writes = "yes" /\ b = Unmasked(Writing(a, "no"), 1)
  \/ step = Do("wdone") /\ InRoute(a, 2) /\ a.reads = "no" /\ a.writes = "leaving"
       /\ b = Unmasked(Writing(Owning(a, {}), "no"), 2)
  \/ step = Do("walk") /\ a.flag = "off" /\ a.reads = "yes" /\ b = a
  \/ step = Do("change") /\ a.flag = "off" /\ a.writes = "yes" /\ b = a
  \/ step = Do("dlmalloc") /\ a.flag = "off" /\ "malloc" \in a.own /\ b = a

\* From its i-th situation to its j-th, a run does not begin to leave, and it
\* begins to write only by rw_wlock or its test.
Between(s, st, i, j) ==
  /\ st[j].writes = "leaving" => st[i].writes = "leaving"
  /\ st[i].writes = "no" /\ st[j].writes # "no" =>
       \E k \in i .. j - 1 : s[k] = Do("rw_wlock") \/ s[k] = Do("wtest")

\* The steps of s lead from a to b.
RunsTo(s, a, b) ==
  \E st \in [1 .. Len(s) + 1 -> Sound] :
    /\ st[1] = a /\ st[Len(s) + 1] = b
    /\ \A i \in 1 .. Len(s) : Moves(s[i], st[i], st[i + 1])
    /\ \A i, j \in 1 .. Len(s) + 1 : i <= j => Between(s, st, i, j)

-----------------------------------------------------------------------------
\* What a situation is made of, and when it is sound.
LEMMA SitIs ==
  ASSUME NEW m, NEW f, NEW o, NEW r, NEW w
  PROVE  /\ Sit(m, f, o, r, w).mask = m /\ Sit(m, f, o, r, w).flag = f
         /\ Sit(m, f, o, r, w).own = o /\ Sit(m, f, o, r, w).reads = r
         /\ Sit(m, f, o, r, w).writes = w
         /\ Sit(m, f, o, r, w) \in Sound <=>
              /\ m \in 0 .. 4 /\ f \in {"on", "off"} /\ o \in SUBSET Locks
              /\ r \in {"no", "yes"} /\ w \in {"no", "yes", "leaving"}
              /\ f = "on" \/ m = 0 => o = {} /\ r = "no" /\ w = "no"
              /\ f = "on" => m <= 1
  BY DEF Sit, Sound, Situation, Free

\* Only rw_wlock and its test make a writer, and only the call of rw_wunlock,
\* which is over once it is made, a leaving one.
LEMMA MovesWrites ==
  ASSUME NEW s, NEW a \in Sound, NEW b \in Sound, Moves(s, a, b)
  PROVE  /\ b.writes = "leaving" => a.writes = "leaving"
         /\ a.writes = "no" /\ b.writes # "no" => s \in {Do("rw_wlock"), Do("wtest")}
<1>1. \A x, v : /\ Masked(x).writes = x.writes /\ Unmasked(x, v).writes = x.writes
                /\ Owning(x, v).writes = x.writes /\ Reading(x, v).writes = x.writes
                /\ Writing(x, v).writes = v
  BY SitIs DEF Masked, Unmasked, Owning, Reading, Writing
<1>2. /\ \A m, f : Sit(m, f, a.own, a.reads, a.writes).writes = a.writes
      /\ Masked(a).writes = a.writes /\ Unmasked(a, 1).writes = a.writes
      /\ \A o : /\ Owning(a, o).writes = a.writes /\ Owning(Masked(a), o).writes = a.writes
                /\ Unmasked(Owning(a, o), 1).writes = a.writes
  BY <1>1, SitIs
<1>3. /\ Reading(Masked(a), "yes").writes = a.writes
      /\ Reading(Owning(a, {}), "yes").writes = a.writes
      /\ Unmasked(Reading(a, "no"), 1).writes = a.writes
      /\ Unmasked(Reading(Owning(a, {}), "no"), 2).writes = a.writes
  BY <1>1
<1>4. /\ Writing(Masked(a), "yes").writes = "yes" /\ Writing(Owning(a, {}), "yes").writes = "yes"
      /\ Unmasked(Writing(a, "no"), 1).writes = "no"
      /\ Unmasked(Writing(Owning(a, {}), "no"), 2).writes = "no"
  BY <1>1
<1>5. \/ b.writes = a.writes \/ b.writes = "no"
      \/ s \in {Do("rw_wlock"), Do("wtest")} /\ b.writes = "yes"
  BY <1>2, <1>3, <1>4, Zenon DEF Moves
<1> QED
  BY <1>5

\* Sequences with the same elements are equal.
LEMMA SameSeq ==
  ASSUME NEW s \in Seq(Step), NEW t \in Seq(Step), Len(s) = Len(t),
         \A i \in 1 .. Len(s) : s[i] = t[i]
  PROVE  s = t
<1>1. s = [i \in 1 .. Len(s) |-> s[i]] /\ t = [i \in 1 .. Len(t) |-> t[i]]
  OBVIOUS
<1> QED
  BY <1>1

\* Programs can be put together and taken apart.
LEMMA RunsNothing ==
  ASSUME NEW a \in Sound
  PROVE  RunsTo(<<>>, a, a)
<1> DEFINE e == <<>>
           st == [i \in 1 .. 1 |-> a]
<1>1. Len(e) = 0
  OBVIOUS
<1>2. st \in [1 .. 1 -> Sound] /\ st[1] = a
  OBVIOUS
<1> HIDE DEF e, st
<1>3. RunsTo(e, a, a)
  BY <1>1, <1>2 DEF RunsTo, Between
<1> QED
  BY <1>3 DEF e

\* An empty program leads nowhere else.
LEMMA RunsNothingIs ==
  ASSUME NEW a, NEW b, RunsTo(<<>>, a, b)
  PROVE  a = b
  BY DEF RunsTo

\* One step is a program.
LEMMA RunsOne ==
  ASSUME NEW x, NEW a \in Sound, NEW b \in Sound, Moves(x, a, b)
  PROVE  RunsTo(<<x>>, a, b)
<1> DEFINE st == [i \in 1 .. 2 |-> IF i = 1 THEN a ELSE b]
<1>1. st \in [1 .. 2 -> Sound] /\ st[1] = a /\ st[2] = b
  OBVIOUS
<1>2. Len(<<x>>) = 1 /\ <<x>>[1] = x
  OBVIOUS
<1> HIDE DEF st
<1>3. \A i \in 1 .. 1 : Moves(<<x>>[i], st[i], st[i + 1])
  BY <1>1, <1>2
<1>4. Between(<<x>>, st, 1, 1) /\ Between(<<x>>, st, 2, 2)
  BY DEF Between
<1>5. Between(<<x>>, st, 1, 2)
  BY <1>1, <1>2, MovesWrites DEF Between
<1>6. \A i, j \in 1 .. 2 : i <= j => Between(<<x>>, st, i, j)
  BY <1>4, <1>5
<1> QED
  BY <1>1, <1>2, <1>3, <1>6 DEF RunsTo

\* Two programs run one after the other: a call followed by what is left to do.
LEMMA RunsSeq ==
  ASSUME NEW s \in Seq(Step), NEW t \in Seq(Step), NEW a, NEW b, NEW c,
         RunsTo(s, a, b), RunsTo(t, b, c)
  PROVE  RunsTo(s \o t, a, c)
<1>1. PICK p \in [1 .. Len(s) + 1 -> Sound] :
        /\ p[1] = a /\ p[Len(s) + 1] = b
        /\ \A i \in 1 .. Len(s) : Moves(s[i], p[i], p[i + 1])
        /\ \A i, j \in 1 .. Len(s) + 1 : i <= j => Between(s, p, i, j)
  BY SMTT(30) DEF RunsTo
<1>2. PICK q \in [1 .. Len(t) + 1 -> Sound] :
        /\ q[1] = b /\ q[Len(t) + 1] = c
        /\ \A i \in 1 .. Len(t) : Moves(t[i], q[i], q[i + 1])
        /\ \A i, j \in 1 .. Len(t) + 1 : i <= j => Between(t, q, i, j)
  BY Zenon DEF RunsTo
<1> DEFINE m == Len(s)
           n == Len(t)
           u == s \o t
           r == [i \in 1 .. m + n + 1 |-> IF i <= m THEN p[i] ELSE q[i - m]]
<1>3. /\ m \in Nat /\ n \in Nat /\ Len(u) = m + n
      /\ \A i \in 1 .. m + n : u[i] = IF i <= m THEN s[i] ELSE t[i - m]
  OBVIOUS
<1> HIDE DEF m, n, u
<1>4. r \in [1 .. Len(u) + 1 -> Sound]
  <2>1. ASSUME NEW i \in 1 .. m + n + 1 PROVE r[i] \in Sound
    <3>1. CASE i <= m
      <4>1. i \in 1 .. Len(s) + 1
        BY <1>3, <3>1 DEF m
      <4> QED
        BY <1>1, <3>1, <4>1
    <3>2. CASE ~(i <= m)
      <4>1. i - m \in 1 .. Len(t) + 1
        BY <1>3, <3>2 DEF n
      <4> QED
        BY <1>2, <3>2, <4>1
    <3> QED
      BY <3>1, <3>2
  <2> QED
    BY <1>3, <2>1
<1>5. r[m + n + 1] = c
  <2>1. m + n + 1 \in 1 .. m + n + 1 /\ ~(m + n + 1 <= m) /\ (m + n + 1) - m = n + 1
    BY <1>3
  <2> QED
    BY <1>2, <2>1 DEF n
<1>6. r[m + 1] = b
  <2>1. m + 1 \in 1 .. m + n + 1 /\ ~(m + 1 <= m) /\ (m + 1) - m = 1
    BY <1>3
  <2> QED
    BY <1>2, <2>1
<1>7. r[1] = a
  <2>1. CASE m = 0
    BY <1>1, <1>6, <2>1 DEF m
  <2>2. CASE m # 0
    <3>1. 1 \in 1 .. m + n + 1 /\ 1 <= m
      BY <1>3, <2>2
    <3> QED
      BY <1>1, <3>1
  <2> QED
    BY <2>1, <2>2
<1>8. ASSUME NEW i \in 1 .. m + n PROVE Moves(u[i], r[i], r[i + 1])
  <2>1. CASE i < m
    <3>1. i \in 1 .. m /\ i <= m /\ i + 1 <= m /\ i \in 1 .. m + n + 1 /\ i + 1 \in 1 .. m + n + 1
      BY <1>3, <2>1
    <3>2. u[i] = s[i] /\ r[i] = p[i] /\ r[i + 1] = p[i + 1]
      BY <1>3, <3>1
    <3> QED
      BY <1>1, <3>1, <3>2 DEF m
  <2>2. CASE i = m
    <3>1. m \in 1 .. m /\ i <= m /\ i \in 1 .. m + n + 1
      BY <1>3, <2>2
    <3>2. u[i] = s[m] /\ r[i] = p[m] /\ r[i + 1] = p[m + 1]
      BY <1>1, <1>3, <1>6, <2>2, <3>1 DEF m
    <3> QED
      BY <1>1, <3>1, <3>2, Zenon DEF m
  <2>3. CASE i > m
    <3>0. \A x, y, z \in Nat : z \in 1 .. x + y /\ z > x =>
            /\ z - x \in 1 .. y /\ ~(z <= x) /\ ~(z + 1 <= x) /\ (z + 1) - x = (z - x) + 1
            /\ z \in 1 .. x + y + 1 /\ z + 1 \in 1 .. x + y + 1
      OBVIOUS
    <3>1. /\ i - m \in 1 .. n /\ ~(i <= m) /\ ~(i + 1 <= m) /\ (i + 1) - m = (i - m) + 1
          /\ i \in 1 .. m + n + 1 /\ i + 1 \in 1 .. m + n + 1
      BY <1>3, <2>3, <3>0
    <3>2. u[i] = t[i - m] /\ r[i] = q[i - m] /\ r[i + 1] = q[(i - m) + 1]
      BY <1>3, <3>1, SMTT(30)
    <3> QED
      BY <1>2, <3>1, <3>2 DEF n
  <2> QED
    BY <1>3, <2>1, <2>2, <2>3
<1>10. \A i \in 1 .. m + 1 : i \in 1 .. Len(s) + 1 /\ i \in 1 .. m + n + 1 /\ r[i] = p[i]
  <2>1. ASSUME NEW i \in 1 .. m + 1 PROVE i \in 1 .. m + n + 1 /\ (i <= m \/ i = m + 1)
    BY <1>3
  <2> QED
    BY <1>1, <1>6, <2>1 DEF m
<1>11. \A i \in m + 1 .. m + n + 1 : i - m \in 1 .. Len(t) + 1 /\ r[i] = q[i - m]
  <2>1. ASSUME NEW i \in m + 1 .. m + n + 1
        PROVE  i \in 1 .. m + n + 1 /\ ~(i <= m) /\ i - m \in 1 .. n + 1
    BY <1>3
  <2> QED
    BY <2>1 DEF n
<1>12. ASSUME NEW i \in 1 .. m + 1, NEW j \in 1 .. m + 1, i <= j
       PROVE  Between(u, r, i, j)
  <2>1. Between(s, p, i, j)
    BY <1>1, <1>10, <1>12, Zenon
  <2>2. \A k \in i .. j - 1 : k \in 1 .. m + n /\ k <= m
    BY <1>3
  <2> QED
    BY <1>3, <1>10, <2>1, <2>2, Zenon DEF Between
<1>13. ASSUME NEW i \in m + 1 .. m + n + 1, NEW j \in m + 1 .. m + n + 1, i <= j
       PROVE  Between(u, r, i, j)
  <2>1. Between(t, q, i - m, j - m)
    <3>1. i - m <= j - m
      BY <1>3, <1>13
    <3> QED
      BY <1>2, <1>11, <3>1, Zenon
  <2>2. ASSUME NEW k \in i - m .. (j - m) - 1
        PROVE  /\ k + m \in i .. j - 1 /\ k + m \in 1 .. m + n /\ ~(k + m <= m)
               /\ (k + m) - m = k
    BY <1>3
  <2>3. \A k \in i - m .. (j - m) - 1 : k + m \in i .. j - 1 /\ u[k + m] = t[k]
    BY <1>3, <2>2, Zenon
  <2> QED
    BY <1>11, <2>1, <2>3, Zenon DEF Between
<1>14. ASSUME NEW i \in 1 .. m + n + 1, NEW j \in 1 .. m + n + 1, i <= j
       PROVE  Between(u, r, i, j)
  <2>0. m + 1 \in 1 .. m + 1 /\ m + 1 \in m + 1 .. m + n + 1
    BY <1>3
  <2>1. CASE j <= m + 1
    <3>1. i \in 1 .. m + 1 /\ j \in 1 .. m + 1
      BY <1>3, <1>14, <2>1
    <3> QED
      BY <1>12, <1>14, <3>1
  <2>2. CASE i >= m + 1
    <3>1. i \in m + 1 .. m + n + 1 /\ j \in m + 1 .. m + n + 1
      BY <1>3, <1>14, <2>2
    <3> QED
      BY <1>13, <1>14, <3>1
  <2>3. CASE i < m + 1 /\ j > m + 1
    <3>0. i \in 1 .. m + 1 /\ j \in m + 1 .. m + n + 1 /\ i <= m + 1 /\ m + 1 <= j
      BY <1>3, <2>3
    <3>1. Between(u, r, i, m + 1)
      BY <1>12, <2>0, <3>0
    <3>2. Between(u, r, m + 1, j)
      BY <1>13, <2>0, <3>0
    <3>3. \A k : k \in i .. (m + 1) - 1 \/ k \in m + 1 .. j - 1 => k \in i .. j - 1
      BY <1>3, <2>3
    <3> QED
      BY <3>1, <3>2, <3>3, Zenon DEF Between
  <2> QED
    BY <1>3, <2>1, <2>2, <2>3
<1> HIDE DEF r
<1>9. RunsTo(u, a, c)
  BY <1>3, <1>4, <1>5, <1>7, <1>8, <1>14, Zenon DEF RunsTo
<1> QED
  BY <1>9 DEF u

\* The first step of a program leads to a situation from which the rest runs.
LEMMA RunsHead ==
  ASSUME NEW s \in Seq(Step), s # <<>>, NEW a, NEW c, RunsTo(s, a, c)
  PROVE  a \in Sound /\ \E b \in Sound : Moves(Head(s), a, b) /\ RunsTo(Tail(s), b, c)
<1>1. PICK p \in [1 .. Len(s) + 1 -> Sound] :
        /\ p[1] = a /\ p[Len(s) + 1] = c
        /\ \A i \in 1 .. Len(s) : Moves(s[i], p[i], p[i + 1])
        /\ \A i, j \in 1 .. Len(s) + 1 : i <= j => Between(s, p, i, j)
  BY DEF RunsTo
<1> DEFINE n == Len(s)
           t == Tail(s)
           q == [i \in 1 .. n |-> p[i + 1]]
<1>2. /\ n \in Nat \ {0} /\ Len(t) = n - 1 /\ Head(s) = s[1]
      /\ \A i \in 1 .. n - 1 : t[i] = s[i + 1]
  OBVIOUS
<1>3. /\ p \in [1 .. n + 1 -> Sound] /\ p[1] = a /\ p[n + 1] = c
      /\ \A i \in 1 .. n : Moves(s[i], p[i], p[i + 1])
      /\ \A i, j \in 1 .. n + 1 : i <= j => Between(s, p, i, j)
  BY <1>1
<1> HIDE DEF n, t
<1>4. 1 \in 1 .. n + 1 /\ 2 \in 1 .. n + 1 /\ 1 \in 1 .. n
  BY <1>2
<1>5. q \in [1 .. Len(t) + 1 -> Sound]
  BY <1>2, <1>3
<1>6. q[1] = p[2] /\ q[Len(t) + 1] = c
  BY <1>2, <1>3
<1>7. ASSUME NEW i \in 1 .. Len(t) PROVE Moves(t[i], q[i], q[i + 1])
  <2>1. i \in 1 .. n /\ i + 1 \in 1 .. n /\ i \in 1 .. n - 1
    BY <1>2
  <2>2. t[i] = s[i + 1] /\ q[i] = p[i + 1] /\ q[i + 1] = p[(i + 1) + 1]
    BY <1>2, <2>1
  <2> QED
    BY <1>3, <2>1, <2>2
<1>10. ASSUME NEW i \in 1 .. Len(t) + 1, NEW j \in 1 .. Len(t) + 1, i <= j
       PROVE  Between(t, q, i, j)
  <2>1. /\ i \in 1 .. n /\ j \in 1 .. n /\ i + 1 \in 1 .. n + 1 /\ j + 1 \in 1 .. n + 1
        /\ i + 1 <= j + 1
    BY <1>2, <1>10
  <2>2. Between(s, p, i + 1, j + 1) /\ q[i] = p[i + 1] /\ q[j] = p[j + 1]
    BY <1>3, <2>1
  <2>3. ASSUME NEW k \in i + 1 .. (j + 1) - 1
        PROVE  k - 1 \in i .. j - 1 /\ k - 1 \in 1 .. n - 1 /\ (k - 1) + 1 = k
    BY <1>2, <2>1
  <2>4. \A k \in i + 1 .. (j + 1) - 1 : k - 1 \in i .. j - 1 /\ t[k - 1] = s[k]
    BY <1>2, <2>3
  <2> QED
    BY <2>2, <2>4, Zenon DEF Between
<1> HIDE DEF q
<1>8. RunsTo(t, p[2], c)
  BY <1>5, <1>6, <1>7, <1>10 DEF RunsTo
<1>9. p[1] \in Sound /\ p[2] \in Sound /\ Moves(Head(s), p[1], p[2])
  <2>1. Moves(s[1], p[1], p[1 + 1])
    BY <1>3, <1>4
  <2> QED
    BY <1>2, <1>3, <1>4, <2>1
<1> QED
  BY <1>3, <1>8, <1>9 DEF t

\* What each step of the locks requires and leads to.
LEMMA MovesDo ==
  ASSUME NEW a, NEW b
  PROVE
    /\ Moves(Do("intr_lock"), a, b) <=>
         Lockable(a) /\ b = Masked(a)
    /\ Moves(Do("cli"), a, b) <=>
         a.mask = 1 /\ b = Sit(1, "off", a.own, a.reads, a.writes)
    /\ Moves(Do("intr_unlock"), a, b) <=>
         Unlockable(a, 1) /\ b = Unmasked(a, 1)
    /\ Moves(Do("sti"), a, b) <=>
         a.mask = 0 /\ b = Sit(0, "on", a.own, a.reads, a.writes)
    /\ Moves(Do("return"), a, b) <=>
         a.mask \in 1 .. 2 /\ a.flag = "off" /\ Free(a)
         /\ b = Sit(a.mask - 1, "on", a.own, a.reads, a.writes)
    /\ Moves(Do("rw_rlock"), a, b) <=>
         Lockable(a) /\ a.mask <= 2 /\ Free(a)
         /\ b = Reading(Masked(a), "yes")
    /\ Moves(Do("rtest"), a, b) <=>
         InRoute(a, 1) /\ a.mask <= 3
         /\ a.reads = "no" /\ a.writes = "no" /\ b = Reading(Owning(a, {}), "yes")
    /\ Moves(Do("rw_runlock"), a, b) <=>
         a.mask \in 1 .. 3 /\ a.flag = "off" /\ a.own = {}
         /\ a.reads = "yes" /\ a.writes = "no" /\ b = Unmasked(Reading(a, "no"), 1)
    /\ Moves(Do("rdone"), a, b) <=>
         InRoute(a, 2) /\ a.reads = "yes" /\ a.writes = "no"
         /\ b = Unmasked(Reading(Owning(a, {}), "no"), 2)
    /\ Moves(Do("rw_wlock"), a, b) <=>
         Lockable(a) /\ a.mask <= 2 /\ Free(a)
         /\ b = Writing(Masked(a), "yes")
    /\ Moves(Do("wtest"), a, b) <=>
         InRoute(a, 1) /\ a.mask <= 3
         /\ a.reads = "no" /\ a.writes = "no" /\ b = Writing(Owning(a, {}), "yes")
    /\ Moves(Do("rw_wunlock"), a, b) <=>
         a.mask \in 1 .. 3 /\ a.flag = "off" /\ a.own = {}
         /\ a.reads = "no" /\ a.writes = "yes" /\ b = Unmasked(Writing(a, "no"), 1)
    /\ Moves(Do("wdone"), a, b) <=>
         InRoute(a, 2) /\ a.reads = "no" /\ a.writes = "leaving"
         /\ b = Unmasked(Writing(Owning(a, {}), "no"), 2)
    /\ Moves(Do("walk"), a, b) <=>
         a.flag = "off" /\ a.reads = "yes" /\ b = a
    /\ Moves(Do("change"), a, b) <=>
         a.flag = "off" /\ a.writes = "yes" /\ b = a
    /\ Moves(Do("dlmalloc"), a, b) <=>
         a.flag = "off" /\ "malloc" \in a.own /\ b = a
<1> USE DEF Do, Lock, TryLock, Unlock, Locks
<1>1. Moves(Do("intr_lock"), a, b) <=>
         Lockable(a) /\ b = Masked(a)
  BY DEF Moves
<1>2. Moves(Do("cli"), a, b) <=>
         a.mask = 1 /\ b = Sit(1, "off", a.own, a.reads, a.writes)
  BY DEF Moves
<1>3. Moves(Do("intr_unlock"), a, b) <=>
         Unlockable(a, 1) /\ b = Unmasked(a, 1)
  BY DEF Moves
<1>4. Moves(Do("sti"), a, b) <=>
         a.mask = 0 /\ b = Sit(0, "on", a.own, a.reads, a.writes)
  BY DEF Moves
<1>5. Moves(Do("return"), a, b) <=>
         a.mask \in 1 .. 2 /\ a.flag = "off" /\ Free(a)
         /\ b = Sit(a.mask - 1, "on", a.own, a.reads, a.writes)
  BY DEF Moves
<1>6. Moves(Do("rw_rlock"), a, b) <=>
         Lockable(a) /\ a.mask <= 2 /\ Free(a)
         /\ b = Reading(Masked(a), "yes")
  BY DEF Moves
<1>7. Moves(Do("rtest"), a, b) <=>
         InRoute(a, 1) /\ a.mask <= 3
         /\ a.reads = "no" /\ a.writes = "no" /\ b = Reading(Owning(a, {}), "yes")
  BY DEF Moves
<1>8. Moves(Do("rw_runlock"), a, b) <=>
         a.mask \in 1 .. 3 /\ a.flag = "off" /\ a.own = {}
         /\ a.reads = "yes" /\ a.writes = "no" /\ b = Unmasked(Reading(a, "no"), 1)
  BY DEF Moves
<1>9. Moves(Do("rdone"), a, b) <=>
         InRoute(a, 2) /\ a.reads = "yes" /\ a.writes = "no"
         /\ b = Unmasked(Reading(Owning(a, {}), "no"), 2)
  BY DEF Moves
<1>10. Moves(Do("rw_wlock"), a, b) <=>
         Lockable(a) /\ a.mask <= 2 /\ Free(a)
         /\ b = Writing(Masked(a), "yes")
  BY DEF Moves
<1>11. Moves(Do("wtest"), a, b) <=>
         InRoute(a, 1) /\ a.mask <= 3
         /\ a.reads = "no" /\ a.writes = "no" /\ b = Writing(Owning(a, {}), "yes")
  BY DEF Moves
<1>12. Moves(Do("rw_wunlock"), a, b) <=>
         a.mask \in 1 .. 3 /\ a.flag = "off" /\ a.own = {}
         /\ a.reads = "no" /\ a.writes = "yes" /\ b = Unmasked(Writing(a, "no"), 1)
  BY DEF Moves
<1>13. Moves(Do("wdone"), a, b) <=>
         InRoute(a, 2) /\ a.reads = "no" /\ a.writes = "leaving"
         /\ b = Unmasked(Writing(Owning(a, {}), "no"), 2)
  BY DEF Moves
<1>14. Moves(Do("walk"), a, b) <=>
         a.flag = "off" /\ a.reads = "yes" /\ b = a
  BY DEF Moves
<1>15. Moves(Do("change"), a, b) <=>
         a.flag = "off" /\ a.writes = "yes" /\ b = a
  BY DEF Moves
<1>16. Moves(Do("dlmalloc"), a, b) <=>
         a.flag = "off" /\ "malloc" \in a.own /\ b = a
  BY DEF Moves
<1> QED
  BY <1>1, <1>2, <1>3, <1>4, <1>5, <1>6, <1>7, <1>8, <1>9, <1>10, <1>11, <1>12,
     <1>13, <1>14, <1>15, <1>16, Zenon

\* The writer calls rw_wunlock, and the one that has called it is leaving.
LEMMA WriterMoves ==
  ASSUME NEW a, NEW b
  PROVE  /\ Moves(Do("rw_wunlock"), a, b) => a.writes # "no"
         /\ Moves(Do("wdone"), a, b) => a.writes = "leaving"
<1>1. Moves(Do("rw_wunlock"), a, b) => a.writes = "yes"
  BY MovesDo, Zenon
<1>2. Moves(Do("wdone"), a, b) => a.writes = "leaving"
  BY MovesDo, Zenon
<1> QED
  BY <1>1, <1>2

\* What the spinlock steps need and where they lead.
LEMMA MovesOn ==
  ASSUME NEW a, NEW b, NEW l \in Locks
  PROVE
    /\ Moves(Lock(l), a, b) <=>
         Lockable(a) /\ l \notin a.own /\ b = Owning(Masked(a), a.own \cup {l})
    /\ Moves(TryLock(l), a, b) <=>
         Unlockable(a, 1) /\ l \notin a.own /\ b = Owning(a, a.own \cup {l})
    /\ Moves(Unlock(l), a, b) <=>
         /\ l \in a.own /\ Unlockable(Owning(a, a.own \ {l}), 1)
         /\ b = Unmasked(Owning(a, a.own \ {l}), 1)
<1> USE DEF Do, Lock, TryLock, Unlock
<1>1. Moves(Lock(l), a, b) <=>
         Lockable(a) /\ l \notin a.own /\ b = Owning(Masked(a), a.own \cup {l})
  BY Zenon DEF Moves
<1>2. Moves(TryLock(l), a, b) <=>
         Unlockable(a, 1) /\ l \notin a.own /\ b = Owning(a, a.own \cup {l})
  BY Zenon DEF Moves
<1>3. Moves(Unlock(l), a, b) <=>
         /\ l \in a.own /\ Unlockable(Owning(a, a.own \ {l}), 1)
         /\ b = Unmasked(Owning(a, a.own \ {l}), 1)
  BY Zenon DEF Moves
<1> QED
  BY <1>1, <1>2, <1>3

\* The steps with nothing more to do.
LEMMA PlainRuns ==
  ASSUME NEW a \in Sound, NEW b \in Sound
  PROVE  /\ Moves(Do("cli"), a, b) =>
              /\ Sit(a.mask, "off", a.own, a.reads, a.writes) \in Sound
              /\ RunsTo(<<>>, Sit(a.mask, "off", a.own, a.reads, a.writes), b)
         /\ Moves(Do("sti"), a, b) =>
              /\ Sit(a.mask, "on", a.own, a.reads, a.writes) \in Sound
              /\ RunsTo(<<>>, Sit(a.mask, "on", a.own, a.reads, a.writes), b)
         /\ Moves(Do("return"), a, b) =>
              /\ Sit(a.mask - 1, "on", a.own, a.reads, a.writes) \in Sound
              /\ RunsTo(<<>>, Sit(a.mask - 1, "on", a.own, a.reads, a.writes), b)
         /\ \A s \in {Do("walk"), Do("change"), Do("dlmalloc")} :
              Moves(s, a, b) => RunsTo(<<>>, a, b)
         /\ \A l \in Locks : Moves(TryLock(l), a, b) =>
              /\ l \notin a.own /\ Owning(a, a.own \cup {l}) \in Sound
              /\ RunsTo(<<>>, Owning(a, a.own \cup {l}), b)
<1>1. RunsTo(<<>>, b, b)
  BY RunsNothing
<1>2. Moves(Do("cli"), a, b) => b = Sit(a.mask, "off", a.own, a.reads, a.writes)
  BY MovesDo
<1>3. Moves(Do("sti"), a, b) => b = Sit(a.mask, "on", a.own, a.reads, a.writes)
  BY MovesDo
<1>4. Moves(Do("return"), a, b) => b = Sit(a.mask - 1, "on", a.own, a.reads, a.writes)
  BY MovesDo
<1>5. \A s \in {Do("walk"), Do("change"), Do("dlmalloc")} : Moves(s, a, b) => b = a
  BY MovesDo
<1>6. \A l \in Locks : Moves(TryLock(l), a, b) => l \notin a.own /\ b = Owning(a, a.own \cup {l})
  BY MovesOn, Zenon
<1> QED
  BY <1>1, <1>2, <1>3, <1>4, <1>5, <1>6

\* A situation is the record of its five fields.
LEMMA SoundIs ==
  ASSUME NEW a \in Sound
  PROVE  /\ a = Sit(a.mask, a.flag, a.own, a.reads, a.writes)
         /\ a.mask \in 0 .. 4 /\ a.flag \in {"on", "off"} /\ a.own \in SUBSET Locks
         /\ a.reads \in {"no", "yes"} /\ a.writes \in {"no", "yes", "leaving"}
         /\ a.flag = "on" \/ a.mask = 0 => Free(a)
         /\ a.flag = "on" => a.mask <= 1
  BY DEF Sit, Sound, Situation, Free

\* Two steps in a row.
LEMMA RunsTwo ==
  ASSUME NEW x \in Step, NEW y \in Step, NEW a \in Sound, NEW m \in Sound,
         NEW b \in Sound, Moves(x, a, m), Moves(y, m, b)
  PROVE  RunsTo(<<x, y>>, a, b)
<1>1. <<x>> \in Seq(Step) /\ <<y>> \in Seq(Step) /\ <<x>> \o <<y>> = <<x, y>>
  <2> DEFINE u == <<x>> \o <<y>>
             v == <<x, y>>
  <2>1. <<x>> \in Seq(Step) /\ <<y>> \in Seq(Step) /\ v \in Seq(Step)
    OBVIOUS
  <2>2. u \in Seq(Step) /\ Len(u) = 2 /\ u[1] = x /\ u[2] = y
    BY <2>1
  <2>3. Len(v) = 2 /\ v[1] = x /\ v[2] = y
    OBVIOUS
  <2> HIDE DEF u, v
  <2>4. u = v
    BY <2>1, <2>2, <2>3, SameSeq
  <2> QED
    BY <2>1, <2>4 DEF u, v
<1>2. RunsTo(<<x>>, a, m) /\ RunsTo(<<y>>, m, b)
  BY RunsOne
<1> QED
  BY <1>1, <1>2, RunsSeq, Zenon

\* The programs of the model are made of its steps.
LEMMA Steps ==
  /\ \A l \in Locks : Lock(l) \in Step /\ TryLock(l) \in Step /\ Unlock(l) \in Step
  /\ Do("intr_lock") \in Step /\ Do("cli") \in Step /\ Do("intr_unlock") \in Step
  /\ Do("sti") \in Step /\ Do("return") \in Step /\ Do("walk") \in Step
  /\ Do("change") \in Step /\ Do("dlmalloc") \in Step
  /\ Do("rw_rlock") \in Step /\ Do("rw_runlock") \in Step /\ Do("rw_wlock") \in Step
  /\ Do("rw_wunlock") \in Step /\ Do("rtest") \in Step /\ Do("rdone") \in Step
  /\ Do("wtest") \in Step /\ Do("wdone") \in Step
<1>1. \A op \in Ops : Do(op) \in Step
  BY DEF Step
<1>2. \A l \in Locks : Lock(l) \in Step /\ TryLock(l) \in Step /\ Unlock(l) \in Step
  BY DEF Step
<1> QED
  BY <1>1, <1>2 DEF Ops
-----------------------------------------------------------------------------
\* A call leads where its body leads, whatever the tests in it find.
LEMMA LockRuns ==
  ASSUME NEW a \in Sound, NEW b \in Sound, Moves(Do("intr_lock"), a, b)
  PROVE  LET a1 == Sit(a.mask + 1, a.flag, a.own, a.reads, a.writes)
         IN  /\ a1 \in Sound
             /\ RunsTo(IF a.mask = 0 THEN <<Do("cli")>> ELSE <<>>, a1, b)
<1> DEFINE a1 == Sit(a.mask + 1, a.flag, a.own, a.reads, a.writes)
<1>1. Lockable(a) /\ b = Masked(a)
  BY MovesDo
<1>2. a1 \in Sound
  BY <1>1, SoundIs, SitIs DEF Lockable, Free
<1>3. CASE a.mask = 0
  <2>1. Moves(Do("cli"), a1, b)
    BY <1>1, <1>3, SitIs, MovesDo DEF Masked
  <2> QED
    BY <1>2, <1>3, <2>1, RunsOne
<1>4. CASE a.mask # 0
  <2>1. a1 = b
    BY <1>1, <1>4, SoundIs DEF Masked, Lockable
  <2> QED
    BY <1>2, <1>4, <2>1, RunsNothing
<1> QED
  BY <1>3, <1>4

\* The same for intr_unlock: the mask count is not 0, and interrupts go on when
\* it comes back to 0.
LEMMA UnlockRuns ==
  ASSUME NEW a \in Sound, NEW b \in Sound, Moves(Do("intr_unlock"), a, b)
  PROVE  LET a1 == Sit(a.mask - 1, a.flag, a.own, a.reads, a.writes)
         IN  /\ a1 \in Sound /\ a.mask # 0
             /\ RunsTo(IF a.mask = 1 THEN <<Do("sti")>> ELSE <<>>, a1, b)
<1> DEFINE a1 == Sit(a.mask - 1, a.flag, a.own, a.reads, a.writes)
<1>1. Unlockable(a, 1) /\ b = Unmasked(a, 1)
  BY MovesDo
<1>2. a1 \in Sound /\ a.mask # 0
  BY <1>1, SoundIs, SitIs DEF Unlockable, Free
<1>3. CASE a.mask = 1
  <2>1. Moves(Do("sti"), a1, b)
    BY <1>1, <1>3, SitIs, MovesDo DEF Unmasked
  <2> QED
    BY <1>2, <1>3, <2>1, RunsOne, SMTT(30)
<1>4. CASE a.mask # 1
  <2>1. a1 = b
    BY <1>1, <1>4, SoundIs DEF Unmasked, Unlockable
  <2> QED
    BY <1>2, <1>4, <2>1, RunsNothing
<1> QED
  BY <1>2, <1>3, <1>4

\* spin_lock leads where intr_lock followed by the attempt leads.
LEMMA SpinLockRuns ==
  ASSUME NEW l \in Locks, NEW a \in Sound, NEW b \in Sound, Moves(Lock(l), a, b)
  PROVE  RunsTo(<<Do("intr_lock"), TryLock(l)>>, a, b)
<1>1. Lockable(a) /\ l \notin a.own /\ b = Owning(Masked(a), a.own \cup {l})
  BY MovesOn, Zenon
<1>2. Masked(a) \in Sound /\ Unlockable(Masked(a), 1) /\ l \notin Masked(a).own
      /\ Masked(a).own = a.own
  BY <1>1, SoundIs, SitIs DEF Masked, Unlockable, Lockable, Free
<1>3. Moves(Do("intr_lock"), a, Masked(a)) /\ Moves(TryLock(l), Masked(a), b)
  BY <1>1, <1>2, MovesDo, MovesOn, Zenon
<1> QED
  BY <1>2, <1>3, RunsTwo, Steps

\* An attempt that failed leads where another one leads.
LEMMA SpinFailRuns ==
  ASSUME NEW l \in Locks, NEW a \in Sound, NEW b \in Sound, Moves(TryLock(l), a, b)
  PROVE  RunsTo(<<Do("intr_unlock"), Lock(l)>>, a, b)
<1>1. Unlockable(a, 1) /\ l \notin a.own /\ b = Owning(a, a.own \cup {l})
  BY MovesOn, Zenon
<1> DEFINE m == Unmasked(a, 1)
<1>2. m \in Sound /\ Lockable(m) /\ l \notin m.own /\ m.own = a.own /\ Masked(m) = a
  <2>1. /\ m.mask = a.mask - 1 /\ m.own = a.own /\ m.reads = a.reads /\ m.writes = a.writes
        /\ m.flag = IF a.mask = 1 THEN "on" ELSE "off"
    BY SitIs DEF Unmasked
  <2>2. m \in Sound /\ Lockable(m)
    BY <1>1, <2>1, SoundIs, SitIs DEF Unmasked, Unlockable, Lockable, Free
  <2>3. Masked(m) = a
    BY <1>1, <2>1, SoundIs DEF Masked, Unlockable
  <2> QED
    BY <1>1, <2>1, <2>2, <2>3
<1> HIDE DEF m
<1>3. Moves(Do("intr_unlock"), a, m)
  BY <1>1, MovesDo DEF m
<1>4. Moves(Lock(l), m, b)
  BY <1>1, <1>2, MovesOn, Zenon
<1> QED
  BY <1>2, <1>3, <1>4, RunsTwo, Steps

\* spin_unlock gives up a lock that the CPU owns, and then unmasks interrupts.
LEMMA SpinUnlockRuns ==
  ASSUME NEW l \in Locks, NEW a \in Sound, NEW b \in Sound, Moves(Unlock(l), a, b)
  PROVE  /\ l \in a.own /\ Owning(a, a.own \ {l}) \in Sound
         /\ RunsTo(<<Do("intr_unlock")>>, Owning(a, a.own \ {l}), b)
<1> DEFINE a1 == Owning(a, a.own \ {l})
<1>1. l \in a.own /\ Unlockable(a1, 1) /\ b = Unmasked(a1, 1)
  BY MovesOn, Zenon
<1>2. a1 \in Sound
  BY <1>1, SoundIs, SitIs DEF Owning, Unlockable, Free
<1>3. Moves(Do("intr_unlock"), a1, b)
  BY <1>1, MovesDo
<1> QED
  BY <1>1, <1>2, <1>3, RunsOne

\* The parts of a situation that the changes of the read-write lock leave alone.
LEMMA SitChanges ==
  ASSUME NEW m, NEW f, NEW o, NEW r, NEW w, NEW v
  PROVE  /\ Masked(Sit(m, f, o, r, w)) = Sit(m + 1, "off", o, r, w)
         /\ Unmasked(Sit(m, f, o, r, w), v) =
              Sit(m - v, IF m = v THEN "on" ELSE "off", o, r, w)
         /\ Owning(Sit(m, f, o, r, w), v) = Sit(m, f, v, r, w)
         /\ Reading(Sit(m, f, o, r, w), v) = Sit(m, f, o, v, w)
         /\ Writing(Sit(m, f, o, r, w), v) = Sit(m, f, o, r, v)
  BY SitIs DEF Masked, Unmasked, Owning, Reading, Writing
\* The same for the read-write lock: up to its test,
LEMMA RwCallRuns ==
  ASSUME NEW a \in Sound, NEW b \in Sound
  PROVE  /\ Moves(Do("rw_rlock"), a, b) => RunsTo(<<Lock("route"), Do("rtest")>>, a, b)
         /\ Moves(Do("rw_runlock"), a, b) => RunsTo(<<Lock("route"), Do("rdone")>>, a, b)
         /\ Moves(Do("rw_wlock"), a, b) => RunsTo(<<Lock("route"), Do("wtest")>>, a, b)
         /\ Moves(Do("rw_wunlock"), a, b) =>
              /\ a.writes = "yes" /\ Writing(a, "leaving") \in Sound
              /\ RunsTo(<<Lock("route"), Do("wdone")>>, Writing(a, "leaving"), b)
<1> DEFINE m == Owning(Masked(a), {"route"})
<1>0. "route" \in Locks /\ \A S \in SUBSET Locks : S = {} => S \cup {"route"} = {"route"}
  BY Zenon DEF Locks
<1>1. /\ m.mask = a.mask + 1 /\ m.flag = "off" /\ m.own = {"route"}
      /\ m.reads = a.reads /\ m.writes = a.writes
      /\ m = Sit(a.mask + 1, "off", {"route"}, a.reads, a.writes)
  BY SitIs DEF Owning, Masked
<1>2. ASSUME a.own = {}, Lockable(a)
      PROVE  m \in Sound /\ Moves(Lock("route"), a, m)
  <2>1. m \in Sound
    BY <1>0, <1>1, <1>2, SoundIs, SitIs DEF Lockable
  <2>2. "route" \notin a.own /\ a.own \cup {"route"} = {"route"}
    BY <1>2
  <2> QED
    BY <1>0, <1>2, <2>1, <2>2, MovesOn, Zenon
<1> HIDE DEF m
<1>3. ASSUME Moves(Do("rw_rlock"), a, b)
      PROVE  RunsTo(<<Lock("route"), Do("rtest")>>, a, b)
  <2>1. Lockable(a) /\ a.mask <= 2 /\ Free(a) /\ b = Reading(Masked(a), "yes")
    BY <1>3, MovesDo
  <2>2. m \in Sound /\ Moves(Lock("route"), a, m)
    BY <1>2, <2>1 DEF Free
  <2>3. b = Reading(Owning(m, {}), "yes")
    BY <1>1, <2>1, SitIs DEF Reading, Owning, Masked, Free
  <2>4. InRoute(m, 1) /\ m.mask <= 3 /\ m.reads = "no" /\ m.writes = "no"
    BY <1>1, <2>1, SoundIs DEF InRoute, Free
  <2>5. Moves(Do("rtest"), m, b)
    BY <2>3, <2>4, MovesDo
  <2> QED
    BY <1>0, <2>2, <2>5, RunsTwo, Steps
<1>4. ASSUME Moves(Do("rw_wlock"), a, b)
      PROVE  RunsTo(<<Lock("route"), Do("wtest")>>, a, b)
  <2>1. Lockable(a) /\ a.mask <= 2 /\ Free(a) /\ b = Writing(Masked(a), "yes")
    BY <1>4, MovesDo
  <2>2. m \in Sound /\ Moves(Lock("route"), a, m)
    BY <1>2, <2>1 DEF Free
  <2>3. b = Writing(Owning(m, {}), "yes")
    BY <1>1, <2>1, SitIs DEF Writing, Owning, Masked, Free
  <2>4. InRoute(m, 1) /\ m.mask <= 3 /\ m.reads = "no" /\ m.writes = "no"
    BY <1>1, <2>1, SoundIs DEF InRoute, Free
  <2>5. Moves(Do("wtest"), m, b)
    BY <2>3, <2>4, MovesDo
  <2> QED
    BY <1>0, <2>2, <2>5, RunsTwo, Steps
<1>5. ASSUME Moves(Do("rw_runlock"), a, b)
      PROVE  RunsTo(<<Lock("route"), Do("rdone")>>, a, b)
  <2>1. /\ a.mask \in 1 .. 3 /\ a.flag = "off" /\ a.own = {}
        /\ a.reads = "yes" /\ a.writes = "no" /\ b = Unmasked(Reading(a, "no"), 1)
    BY <1>5, MovesDo
  <2>2. m \in Sound /\ Moves(Lock("route"), a, m)
    BY <1>2, <2>1 DEF Lockable
  <2>3. b = Unmasked(Reading(Owning(m, {}), "no"), 2)
    <3>1. b = Sit(a.mask - 1, IF a.mask = 1 THEN "on" ELSE "off", {}, "no", "no")
      BY <2>1, SitIs DEF Unmasked, Reading
    <3>2. Unmasked(Reading(Owning(m, {}), "no"), 2)
            = Sit(m.mask - 2, IF m.mask = 2 THEN "on" ELSE "off", {}, "no", m.writes)
      BY SitIs DEF Unmasked, Reading, Owning
    <3>3. m.mask - 2 = a.mask - 1 /\ (m.mask = 2 <=> a.mask = 1)
      BY <1>1, <2>1
    <3> QED
      BY <1>1, <2>1, <3>1, <3>2, <3>3
  <2>4. InRoute(m, 2) /\ m.reads = "yes" /\ m.writes = "no"
    BY <1>1, <2>1 DEF InRoute
  <2>5. Moves(Do("rdone"), m, b)
    BY <2>3, <2>4, MovesDo
  <2> QED
    BY <1>0, <2>2, <2>5, RunsTwo, Steps
<1>6. ASSUME Moves(Do("rw_wunlock"), a, b)
      PROVE  /\ a.writes = "yes" /\ Writing(a, "leaving") \in Sound
             /\ RunsTo(<<Lock("route"), Do("wdone")>>, Writing(a, "leaving"), b)
  <2>1. /\ a.mask \in 1 .. 3 /\ a.flag = "off" /\ a.own = {}
        /\ a.reads = "no" /\ a.writes = "yes" /\ b = Unmasked(Writing(a, "no"), 1)
    BY <1>6, MovesDo
  <2> DEFINE a1 == Writing(a, "leaving")
             n == Sit(a.mask + 1, "off", {"route"}, "no", "leaving")
  <2>2. /\ a1.mask = a.mask /\ a1.flag = "off" /\ a1.own = {} /\ a1.reads = "no"
        /\ a1.writes = "leaving" /\ a1 \in Sound
    BY <2>1, SitIs DEF Writing
  <2>3. /\ n.mask = a.mask + 1 /\ n.flag = "off" /\ n.own = {"route"}
        /\ n.reads = "no" /\ n.writes = "leaving" /\ n \in Sound
    BY <1>0, <2>1, SitIs
  <2>4. n = Owning(Masked(a1), {"route"})
    BY <2>2, SitIs DEF Owning, Masked
  <2> HIDE DEF a1, n
  <2>5. Moves(Lock("route"), a1, n)
    <3>1. Lockable(a1) /\ "route" \notin a1.own /\ a1.own \cup {"route"} = {"route"}
      BY <2>1, <2>2 DEF Lockable
    <3> QED
      BY <1>0, <2>4, <3>1, MovesOn, Zenon
  <2>6. b = Unmasked(Writing(Owning(n, {}), "no"), 2)
    <3>1. b = Sit(a.mask - 1, IF a.mask = 1 THEN "on" ELSE "off", {}, "no", "no")
      BY <2>1, SitIs DEF Unmasked, Writing
    <3>2. Unmasked(Writing(Owning(n, {}), "no"), 2)
            = Sit(n.mask - 2, IF n.mask = 2 THEN "on" ELSE "off", {}, n.reads, "no")
      BY SitIs DEF Unmasked, Writing, Owning
    <3>3. n.mask - 2 = a.mask - 1 /\ (n.mask = 2 <=> a.mask = 1)
      BY <2>1, <2>3
    <3> QED
      BY <2>3, <3>1, <3>2, <3>3
  <2>7. InRoute(n, 2)
    BY <2>1, <2>3 DEF InRoute
  <2>8. Moves(Do("wdone"), n, b)
    BY <2>3, <2>6, <2>7, MovesDo
  <2>9. RunsTo(<<Lock("route"), Do("wdone")>>, a1, b)
    BY <1>0, <2>2, <2>3, <2>5, <2>8, RunsTwo, Steps
  <2> QED
    BY <2>1, <2>2, <2>9 DEF a1
<1> QED
  BY <1>3, <1>4, <1>5, <1>6

\* from its test on, whether it found a writer or not,
LEMMA ReadTestRuns ==
  ASSUME NEW a \in Sound, NEW b \in Sound, Moves(Do("rtest"), a, b)
  PROVE  /\ InRoute(a, 1) /\ a.reads = "no" /\ a.writes = "no"
         /\ Reading(a, "yes") \in Sound
         /\ RunsTo(<<Do("intr_lock"), Unlock("route")>>, Reading(a, "yes"), b)
         /\ RunsTo(<<Unlock("route"), Do("rw_rlock")>>, a, b)
<1>0. "route" \in Locks /\ {"route"} \ {"route"} = {}
  BY DEF Locks
<1>1. /\ InRoute(a, 1) /\ a.mask <= 3
      /\ a.reads = "no" /\ a.writes = "no" /\ b = Reading(Owning(a, {}), "yes")
  BY MovesDo
<1>2. a.mask \in 1 .. 3 /\ a.flag = "off" /\ a.own = {"route"}
  BY <1>1 DEF InRoute
<1> DEFINE a1 == Reading(a, "yes")
           m == Sit(a.mask + 1, "off", {"route"}, a1.reads, a1.writes)
           n == Sit(a.mask - 1, IF a.mask = 1 THEN "on" ELSE "off", {}, "no", "no")
<1>3. /\ a1.mask = a.mask /\ a1.flag = "off" /\ a1.own = {"route"}
      /\ a1.reads \in {"no", "yes"} /\ a1.writes \in {"no", "yes"} /\ a1 \in Sound
  BY <1>0, <1>1, <1>2, SitIs DEF Reading
<1>4. b = Sit(a.mask, "off", {}, a1.reads, a1.writes)
  BY <1>1, <1>2, SitIs DEF Reading, Owning
<1> HIDE DEF a1
<1>5. /\ m \in Sound /\ m.mask = a.mask + 1 /\ m.flag = "off" /\ m.own = {"route"}
      /\ m.reads = a1.reads /\ m.writes = a1.writes /\ m = Masked(a1)
  <2>1. a.mask + 1 \in 0 .. 4 /\ a.mask + 1 # 0 /\ {"route"} \in SUBSET Locks
    BY <1>0, <1>2
  <2>2. m \in Sound
    BY <1>3, <2>1, SitIs
  <2>3. m = Masked(a1)
    BY <1>3 DEF Masked
  <2> QED
    BY <2>2, <2>3, SitIs
<1>6. /\ n \in Sound /\ n.mask = a.mask - 1 /\ n.own = {} /\ n.reads = "no"
      /\ n.writes = "no" /\ n.flag = IF a.mask = 1 THEN "on" ELSE "off"
      /\ n = Unmasked(Owning(a, {}), 1)
  <2>1. n = Unmasked(Owning(a, {}), 1)
    BY <1>1, <1>2, SitChanges DEF Owning
  <2>2. CASE a.mask = 1
    BY <2>1, <2>2, SitIs
  <2>3. CASE a.mask # 1
    <3>1. n = Sit(a.mask - 1, "off", {}, "no", "no")
      BY <2>3, Zenon
    <3>2. a.mask - 1 \in 0 .. 4 /\ {} \in SUBSET Locks
      BY <1>2, SMTT(30)
    <3> HIDE DEF n
    <3> QED
      BY <2>1, <2>3, <3>1, <3>2, SitIs
  <2> QED
    BY <2>2, <2>3
<1>7. b = Reading(Masked(n), "yes")
  BY <1>1, <1>2, <1>6, SitIs, SMTT(30) DEF Reading, Owning, Masked
<1> HIDE DEF a1, m, n
<1>8. Moves(Do("intr_lock"), a1, m)
  <2>1. Lockable(a1)
    BY <1>2, <1>3 DEF Lockable
  <2> QED
    BY <1>5, <2>1, MovesDo
<1>9. Moves(Unlock("route"), m, b)
  <2> DEFINE k == Owning(m, m.own \ {"route"})
  <2>1. k = Sit(a.mask + 1, "off", {}, a1.reads, a1.writes)
    BY <1>0, <1>5 DEF Owning
  <2>2. Unlockable(k, 1) /\ b = Unmasked(k, 1)
    BY <1>2, <1>4, <2>1, SitIs DEF Unlockable, Unmasked
  <2> QED
    BY <1>0, <1>5, <2>2, MovesOn, Zenon
<1>10. Moves(Unlock("route"), a, n)
  <2>1. a.own \ {"route"} = {} /\ "route" \in a.own
    BY <1>2
  <2>2. Unlockable(Owning(a, {}), 1)
    BY <1>1, <1>2, SitIs, SMTT(30) DEF Unlockable, Owning, Free
  <2> QED
    BY <1>0, <1>6, <2>1, <2>2, MovesOn
<1>11. Moves(Do("rw_rlock"), n, b)
  <2>1. Lockable(n) /\ n.mask <= 2 /\ Free(n)
    BY <1>2, <1>6 DEF Lockable, Free
  <2> QED
    BY <1>7, <2>1, MovesDo
<1>12. RunsTo(<<Do("intr_lock"), Unlock("route")>>, a1, b)
  BY <1>0, <1>3, <1>5, <1>8, <1>9, RunsTwo, Steps
<1>13. RunsTo(<<Unlock("route"), Do("rw_rlock")>>, a, b)
  BY <1>0, <1>6, <1>10, <1>11, RunsTwo, Steps
<1> QED
  BY <1>1, <1>3, <1>12, <1>13 DEF a1

\* for a writer,
LEMMA WriteTestRuns ==
  ASSUME NEW a \in Sound, NEW b \in Sound, Moves(Do("wtest"), a, b)
  PROVE  /\ InRoute(a, 1) /\ a.reads = "no" /\ a.writes = "no"
         /\ Writing(a, "yes") \in Sound
         /\ RunsTo(<<Do("intr_lock"), Unlock("route")>>, Writing(a, "yes"), b)
         /\ RunsTo(<<Unlock("route"), Do("rw_wlock")>>, a, b)
<1>0. "route" \in Locks /\ {"route"} \ {"route"} = {}
  BY SMTT(30) DEF Locks
<1>1. /\ InRoute(a, 1) /\ a.mask <= 3
      /\ a.reads = "no" /\ a.writes = "no" /\ b = Writing(Owning(a, {}), "yes")
  BY MovesDo
<1>2. a.mask \in 1 .. 3 /\ a.flag = "off" /\ a.own = {"route"}
  BY <1>1 DEF InRoute
<1> DEFINE a1 == Writing(a, "yes")
           m == Sit(a.mask + 1, "off", {"route"}, a1.reads, a1.writes)
           n == Sit(a.mask - 1, IF a.mask = 1 THEN "on" ELSE "off", {}, "no", "no")
<1>3. /\ a1.mask = a.mask /\ a1.flag = "off" /\ a1.own = {"route"}
      /\ a1.reads \in {"no", "yes"} /\ a1.writes \in {"no", "yes"} /\ a1 \in Sound
  BY <1>0, <1>1, <1>2, SitIs DEF Writing
<1>4. b = Sit(a.mask, "off", {}, a1.reads, a1.writes)
  BY <1>1, <1>2, SitIs DEF Writing, Owning
<1> HIDE DEF a1
<1>5. /\ m \in Sound /\ m.mask = a.mask + 1 /\ m.flag = "off" /\ m.own = {"route"}
      /\ m.reads = a1.reads /\ m.writes = a1.writes /\ m = Masked(a1)
  <2>1. a.mask + 1 \in 0 .. 4 /\ a.mask + 1 # 0 /\ {"route"} \in SUBSET Locks
    BY <1>0, <1>2
  <2>2. m \in Sound
    BY <1>3, <2>1, SitIs
  <2>3. m = Masked(a1)
    BY <1>3 DEF Masked
  <2> QED
    BY <2>2, <2>3, SitIs
<1>6. /\ n \in Sound /\ n.mask = a.mask - 1 /\ n.own = {} /\ n.reads = "no"
      /\ n.writes = "no" /\ n.flag = IF a.mask = 1 THEN "on" ELSE "off"
      /\ n = Unmasked(Owning(a, {}), 1)
  <2>1. n = Unmasked(Owning(a, {}), 1)
    BY <1>1, <1>2, SitChanges DEF Owning
  <2>2. CASE a.mask = 1
    BY <2>1, <2>2, SitIs
  <2>3. CASE a.mask # 1
    <3>1. n = Sit(a.mask - 1, "off", {}, "no", "no")
      BY <2>3, Zenon
    <3>2. a.mask - 1 \in 0 .. 4 /\ {} \in SUBSET Locks
      BY <1>2, SMTT(30)
    <3> HIDE DEF n
    <3> QED
      BY <2>1, <2>3, <3>1, <3>2, SitIs
  <2> QED
    BY <2>2, <2>3
<1>7. b = Writing(Masked(n), "yes")
  BY <1>1, <1>2, <1>6, SitIs, SMTT(30) DEF Writing, Owning, Masked
<1> HIDE DEF a1, m, n
<1>8. Moves(Do("intr_lock"), a1, m)
  <2>1. Lockable(a1)
    BY <1>2, <1>3 DEF Lockable
  <2> QED
    BY <1>5, <2>1, MovesDo
<1>9. Moves(Unlock("route"), m, b)
  <2> DEFINE k == Owning(m, m.own \ {"route"})
  <2>1. k = Sit(a.mask + 1, "off", {}, a1.reads, a1.writes)
    BY <1>0, <1>5 DEF Owning
  <2>2. Unlockable(k, 1) /\ b = Unmasked(k, 1)
    BY <1>2, <1>4, <2>1, SitIs DEF Unlockable, Unmasked
  <2> QED
    BY <1>0, <1>5, <2>2, MovesOn, Zenon
<1>10. Moves(Unlock("route"), a, n)
  <2>1. a.own \ {"route"} = {} /\ "route" \in a.own
    BY <1>2
  <2>2. Unlockable(Owning(a, {}), 1)
    BY <1>1, <1>2, SitIs, SMTT(30) DEF Unlockable, Owning, Free
  <2> QED
    BY <1>0, <1>6, <2>1, <2>2, MovesOn
<1>11. Moves(Do("rw_wlock"), n, b)
  <2>1. Lockable(n) /\ n.mask <= 2 /\ Free(n)
    BY <1>2, <1>6, SMTT(30) DEF Lockable, Free
  <2> QED
    BY <1>7, <2>1, MovesDo, SMTT(30)
<1>12. RunsTo(<<Do("intr_lock"), Unlock("route")>>, a1, b)
  BY <1>0, <1>3, <1>5, <1>8, <1>9, RunsTwo, Steps
<1>13. RunsTo(<<Unlock("route"), Do("rw_wlock")>>, a, b)
  BY <1>0, <1>6, <1>10, <1>11, RunsTwo, Steps
<1> QED
  BY <1>1, <1>3, <1>12, <1>13 DEF a1

\* and where it gives up the lock.
LEMMA ReadDoneRuns ==
  ASSUME NEW a \in Sound, NEW b \in Sound, Moves(Do("rdone"), a, b)
  PROVE  /\ a.reads = "yes" /\ a.writes = "no"
         /\ Reading(a, "no") \in Sound
         /\ RunsTo(<<Do("intr_unlock"), Unlock("route")>>, Reading(a, "no"), b)
<1>0. "route" \in Locks /\ {"route"} \ {"route"} = {}
  BY DEF Locks
<1>1. /\ InRoute(a, 2) /\ a.reads = "yes" /\ a.writes = "no" /\ b = Unmasked(Reading(Owning(a, {}), "no"), 2)
  BY MovesDo, Zenon
<1>2. a.mask \in 2 .. 4 /\ a.flag = "off" /\ a.own = {"route"}
  BY <1>1 DEF InRoute
<1> DEFINE a1 == Reading(a, "no")
           m == Sit(a.mask - 1, "off", {"route"}, "no", "no")
<1>3. /\ a1.mask = a.mask /\ a1.flag = "off" /\ a1.own = {"route"}
      /\ a1.reads = "no" /\ a1.writes = "no" /\ a1 \in Sound
  BY <1>0, <1>1, <1>2, SitIs DEF Reading
<1>4. b = Sit(a.mask - 2, IF a.mask = 2 THEN "on" ELSE "off", {}, "no", "no")
  <2>1. Reading(Owning(a, {}), "no") = Sit(a.mask, "off", {}, "no", "no")
    BY <1>1, <1>2, SitIs DEF Owning, Reading
  <2> QED
    BY <1>1, <2>1, SitChanges
<1>5. /\ m \in Sound /\ m.mask = a.mask - 1 /\ m.flag = "off" /\ m.own = {"route"}
      /\ m.reads = "no" /\ m.writes = "no" /\ m = Unmasked(a1, 1)
  <2>1. m \in Sound
    BY <1>0, <1>2, SitIs
  <2>2. a.mask # 1 /\ a1 = Sit(a.mask, "off", {"route"}, "no", "no")
    BY <1>1, <1>2 DEF Reading
  <2>3. m = Unmasked(a1, 1)
    BY <2>2, SitChanges, SMTT(30)
  <2> QED
    BY <2>1, <2>3, SitIs
<1> HIDE DEF a1, m
<1>6. Moves(Do("intr_unlock"), a1, m)
  <2>1. Unlockable(a1, 1)
    BY <1>2, <1>3 DEF Unlockable
  <2> QED
    BY <1>5, <2>1, MovesDo
<1>7. Moves(Unlock("route"), m, b)
  <2> DEFINE k == Owning(m, m.own \ {"route"})
  <2>1. k = Sit(a.mask - 1, "off", {}, "no", "no")
    BY <1>0, <1>5 DEF Owning
  <2>2. (a.mask - 1) - 1 = a.mask - 2 /\ (a.mask - 1 = 1 <=> a.mask = 2) /\ a.mask - 1 >= 1
    BY <1>2
  <2> HIDE DEF k
  <2>3. Unlockable(k, 1)
    BY <1>2, <2>1, <2>2, SitIs DEF Unlockable, Free
  <2>4. b = Unmasked(k, 1)
    <3>1. k.mask = a.mask - 1 /\ k.own = {} /\ k.reads = "no" /\ k.writes = "no"
      BY <2>1, SitIs
    <3>2. k.mask - 1 = a.mask - 2 /\ (k.mask = 1 <=> a.mask = 2)
      BY <1>2, <3>1
    <3> QED
      BY <1>4, <3>1, <3>2 DEF Unmasked
  <2> QED
    BY <1>0, <1>5, <2>3, <2>4, MovesOn, SMTT(30) DEF k
<1>8. RunsTo(<<Do("intr_unlock"), Unlock("route")>>, a1, b)
  BY <1>0, <1>3, <1>5, <1>6, <1>7, RunsTwo, Steps
<1> QED
  BY <1>1, <1>3, <1>8 DEF a1

\* A writer gives it up likewise.
LEMMA WriteDoneRuns ==
  ASSUME NEW a \in Sound, NEW b \in Sound, Moves(Do("wdone"), a, b)
  PROVE  /\ a.reads = "no" /\ a.writes = "leaving"
         /\ Writing(a, "no") \in Sound
         /\ RunsTo(<<Do("intr_unlock"), Unlock("route")>>, Writing(a, "no"), b)
<1>0. "route" \in Locks /\ {"route"} \ {"route"} = {}
  BY DEF Locks
<1>1. /\ InRoute(a, 2) /\ a.reads = "no" /\ a.writes = "leaving" /\ b = Unmasked(Writing(Owning(a, {}), "no"), 2)
  BY MovesDo, Zenon
<1>2. a.mask \in 2 .. 4 /\ a.flag = "off" /\ a.own = {"route"}
  BY <1>1, SMTT(30) DEF InRoute
<1> DEFINE a1 == Writing(a, "no")
           m == Sit(a.mask - 1, "off", {"route"}, "no", "no")
<1>3. /\ a1.mask = a.mask /\ a1.flag = "off" /\ a1.own = {"route"}
      /\ a1.reads = "no" /\ a1.writes = "no" /\ a1 \in Sound
  BY <1>0, <1>1, <1>2, SitIs DEF Writing
<1>4. b = Sit(a.mask - 2, IF a.mask = 2 THEN "on" ELSE "off", {}, "no", "no")
  <2>1. Writing(Owning(a, {}), "no") = Sit(a.mask, "off", {}, "no", "no")
    BY <1>1, <1>2, SitIs DEF Owning, Writing
  <2> QED
    BY <1>1, <2>1, SitChanges, SMTT(30)
<1>5. /\ m \in Sound /\ m.mask = a.mask - 1 /\ m.flag = "off" /\ m.own = {"route"}
      /\ m.reads = "no" /\ m.writes = "no" /\ m = Unmasked(a1, 1)
  <2>1. m \in Sound
    BY <1>0, <1>2, SitIs
  <2>2. a.mask # 1 /\ a1 = Sit(a.mask, "off", {"route"}, "no", "no")
    BY <1>1, <1>2 DEF Writing
  <2>3. m = Unmasked(a1, 1)
    BY <2>2, SitChanges, SMTT(30)
  <2> QED
    BY <2>1, <2>3, SitIs
<1> HIDE DEF a1, m
<1>6. Moves(Do("intr_unlock"), a1, m)
  <2>1. Unlockable(a1, 1)
    BY <1>2, <1>3 DEF Unlockable
  <2> QED
    BY <1>5, <2>1, MovesDo
<1>7. Moves(Unlock("route"), m, b)
  <2> DEFINE k == Owning(m, m.own \ {"route"})
  <2>1. k = Sit(a.mask - 1, "off", {}, "no", "no")
    BY <1>0, <1>5 DEF Owning
  <2>2. (a.mask - 1) - 1 = a.mask - 2 /\ (a.mask - 1 = 1 <=> a.mask = 2) /\ a.mask - 1 >= 1
    BY <1>2
  <2> HIDE DEF k
  <2>3. Unlockable(k, 1)
    BY <1>2, <2>1, <2>2, SitIs DEF Unlockable, Free
  <2>4. b = Unmasked(k, 1)
    <3>1. k.mask = a.mask - 1 /\ k.own = {} /\ k.reads = "no" /\ k.writes = "no"
      BY <2>1, SitIs
    <3>2. k.mask - 1 = a.mask - 2 /\ (k.mask = 1 <=> a.mask = 2)
      BY <1>2, <3>1
    <3> QED
      BY <1>4, <3>1, <3>2 DEF Unmasked
  <2> QED
    BY <1>0, <1>5, <2>3, <2>4, MovesOn, SMTT(30) DEF k
<1>8. RunsTo(<<Do("intr_unlock"), Unlock("route")>>, a1, b)
  BY <1>0, <1>3, <1>5, <1>6, <1>7, RunsTwo, Steps
<1> QED
  BY <1>1, <1>3, <1>8 DEF a1
-----------------------------------------------------------------------------
\* Three steps in a row.
LEMMA RunsThree ==
  ASSUME NEW x \in Step, NEW y \in Step, NEW z \in Step, NEW a \in Sound,
         NEW m \in Sound, NEW n \in Sound, NEW b \in Sound,
         Moves(x, a, m), Moves(y, m, n), Moves(z, n, b)
  PROVE  <<x, y, z>> \in Seq(Step) /\ RunsTo(<<x, y, z>>, a, b)
<1>1. <<x, y>> \in Seq(Step) /\ <<z>> \in Seq(Step) /\ <<x, y>> \o <<z>> = <<x, y, z>>
      /\ <<x, y, z>> \in Seq(Step)
  <2> DEFINE u == <<x, y>> \o <<z>>
             v == <<x, y, z>>
  <2>1. <<x, y>> \in Seq(Step) /\ <<z>> \in Seq(Step) /\ v \in Seq(Step)
    OBVIOUS
  <2>2. u \in Seq(Step) /\ Len(u) = 3 /\ u[1] = x /\ u[2] = y /\ u[3] = z
    BY <2>1
  <2>3. Len(v) = 3 /\ v[1] = x /\ v[2] = y /\ v[3] = z
    OBVIOUS
  <2> HIDE DEF u, v
  <2>4. u = v
    BY <2>1, <2>2, <2>3, SameSeq
  <2> QED
    BY <2>1, <2>4 DEF u, v
<1>2. RunsTo(<<x, y>>, a, n) /\ RunsTo(<<z>>, n, b)
  BY RunsTwo, RunsOne
<1> QED
  BY <1>1, <1>2, RunsSeq, Zenon

\* malloc and free leave the situation as they find it.
LEMMA MallocRuns ==
  ASSUME NEW a \in Sound, Lockable(a), a.mask = 0 => a.flag = "on", "malloc" \notin a.own
  PROVE  Malloc \in Seq(Step) /\ RunsTo(Malloc, a, a)
<1> DEFINE o == a.own \cup {"malloc"}
           m == Owning(Masked(a), o)
<1>0. "malloc" \in Locks /\ o \in SUBSET Locks /\ o \ {"malloc"} = a.own /\ "malloc" \in o
  BY SoundIs, SMTT(30) DEF Locks
<1> HIDE DEF o
<1>1. /\ m.mask = a.mask + 1 /\ m.flag = "off" /\ m.own = o
      /\ m.reads = a.reads /\ m.writes = a.writes
      /\ m = Sit(a.mask + 1, "off", o, a.reads, a.writes)
  BY SitIs, SMTT(30) DEF Owning, Masked
<1>2. m \in Sound
  <2>1. a.mask + 1 \in 0 .. 4 /\ a.mask + 1 # 0
    BY SoundIs DEF Lockable
  <2> QED
    BY <1>0, <1>1, <2>1, SoundIs, SitIs
<1> HIDE DEF m
<1>3. Moves(Lock("malloc"), a, m)
  BY <1>0, MovesOn, Zenon DEF m, o
<1>4. Moves(Do("dlmalloc"), m, m)
  BY <1>0, <1>1, MovesDo
<1>5. Moves(Unlock("malloc"), m, a)
  <2> DEFINE k == Owning(m, m.own \ {"malloc"})
  <2>0. m.own \ {"malloc"} = a.own
    BY <1>0, <1>1
  <2>9. k = Sit(a.mask + 1, "off", a.own, a.reads, a.writes)
    BY <1>1, <2>0 DEF Owning
  <2> HIDE DEF k
  <2>1. /\ k.mask = a.mask + 1 /\ k.flag = "off" /\ k.own = a.own
        /\ k.reads = a.reads /\ k.writes = a.writes
    BY <2>9, SitIs
  <2>2. k.mask >= 1 /\ k.mask - 1 = a.mask /\ (k.mask = 1 <=> a.mask = 0)
    BY <2>1, SoundIs
  <2>3. Unlockable(k, 1)
    BY <2>1, <2>2, SoundIs DEF Unlockable, Free
  <2>4. a = Unmasked(k, 1)
    BY <2>1, <2>2, SoundIs DEF Unmasked, Lockable
  <2> QED
    BY <1>0, <1>1, <2>3, <2>4, MovesOn, Zenon DEF k
<1> QED
  BY <1>0, <1>2, <1>3, <1>4, <1>5, RunsThree, Steps DEF Malloc

\* A handler that interrupts a CPU leaves it as it was, and returns.
LEMMA HandlerRuns ==
  ASSUME NEW a \in Sound, a.flag = "on", NEW h \in intr_dispatch
  PROVE  LET a1 == Sit(a.mask + 1, "off", a.own, a.reads, a.writes)
         IN  /\ a1 \in Sound
             /\ h \o <<Do("return")>> \in Seq(Step)
             /\ RunsTo(h \o <<Do("return")>>, a1, a)
<1> DEFINE a1 == Sit(a.mask + 1, "off", a.own, a.reads, a.writes)
           m == Sit(a.mask + 2, "off", {}, "yes", "no")
<1>1. a.mask \in 0 .. 1 /\ a.own = {} /\ a.reads = "no" /\ a.writes = "no"
  BY SoundIs DEF Free
<1>2. /\ a1 \in Sound /\ a1.mask = a.mask + 1 /\ a1.flag = "off" /\ a1.own = {}
      /\ a1.reads = "no" /\ a1.writes = "no"
  BY <1>1, SitIs
<1>3. /\ m \in Sound /\ m.mask = a.mask + 2 /\ m.flag = "off" /\ m.own = {}
      /\ m.reads = "yes" /\ m.writes = "no"
  BY <1>1, SitIs
<1>4. m = Reading(Masked(a1), "yes")
  <2> HIDE DEF a1
  <2>1. a1.mask + 1 = a.mask + 2
    BY <1>1, <1>2
  <2>2. Masked(a1) = Sit(a.mask + 2, "off", {}, "no", "no")
    BY <1>2, <2>1 DEF Masked
  <2> QED
    BY <2>2, SitChanges
<1>5. a1 = Unmasked(Reading(m, "no"), 1)
  <2> DEFINE k == Reading(m, "no")
  <2>1. k.mask = a.mask + 2 /\ k.own = {} /\ k.reads = "no" /\ k.writes = "no"
    BY <1>3, SitIs DEF Reading
  <2> HIDE DEF k
  <2>2. k.mask - 1 = a.mask + 1 /\ k.mask # 1
    BY <1>1, <2>1
  <2> QED
    BY <1>1, <2>1, <2>2 DEF Unmasked, k
<1>6. a = Sit(a1.mask - 1, "on", a1.own, a1.reads, a1.writes)
  <2>1. a1.mask - 1 = a.mask
    BY <1>1, <1>2
  <2> QED
    BY <1>1, <1>2, <2>1, SoundIs, Zenon
<1> HIDE DEF a1, m
<1>7. Moves(Do("rw_rlock"), a1, m)
  <2>1. Lockable(a1) /\ a1.mask <= 2 /\ Free(a1)
    BY <1>1, <1>2 DEF Lockable, Free
  <2> QED
    BY <1>4, <2>1, MovesDo, Zenon
<1>8. Moves(Do("walk"), m, m)
  BY <1>3, MovesDo, Zenon
<1>9. Moves(Do("rw_runlock"), m, a1)
  <2>1. m.mask \in 1 .. 3
    BY <1>1, <1>3, SMTT(30)
  <2> QED
    BY <1>3, <1>5, <2>1, MovesDo, Zenon
<1>10. Moves(Do("return"), a1, a)
  BY <1>1, <1>2, <1>6, MovesDo DEF Free
<1>11. h \in Seq(Step) /\ RunsTo(h, a1, a1)
  <2>1. CASE h = <<Do("rw_rlock"), Do("walk"), Do("rw_runlock")>>
    BY <1>2, <1>3, <1>7, <1>8, <1>9, <2>1, RunsThree, Steps
  <2>2. CASE h = <<Do("rw_rlock"), Do("walk")>> \o Malloc \o <<Do("rw_runlock")>>
    <3> DEFINE s == <<Do("rw_rlock"), Do("walk")>>
               t == <<Do("rw_runlock")>>
    <3>1. s \in Seq(Step) /\ t \in Seq(Step)
      BY Steps
    <3>2. RunsTo(s, a1, m) /\ RunsTo(t, m, a1)
      BY <1>2, <1>3, <1>7, <1>8, <1>9, RunsTwo, RunsOne, Steps
    <3>3. Malloc \in Seq(Step) /\ RunsTo(Malloc, m, m)
      <4>1. Lockable(m) /\ m.mask # 0 /\ "malloc" \notin m.own
        BY <1>1, <1>3 DEF Lockable
      <4> QED
        BY <1>3, <4>1, MallocRuns
    <3> HIDE DEF s, t
    <3>4. s \o Malloc \in Seq(Step) /\ RunsTo(s \o Malloc, a1, m)
      BY <3>1, <3>2, <3>3, RunsSeq
    <3>5. (s \o Malloc) \o t \in Seq(Step) /\ RunsTo((s \o Malloc) \o t, a1, a1)
      <4> DEFINE u == s \o Malloc
      <4>1. u \in Seq(Step) /\ RunsTo(u, a1, m)
        BY <3>4
      <4> HIDE DEF u
      <4>2. u \o t \in Seq(Step) /\ RunsTo(u \o t, a1, a1)
        BY <3>1, <3>2, <4>1, RunsSeq
      <4> QED
        BY <4>2 DEF u
    <3> QED
      BY <2>2, <3>5 DEF s, t
  <2> QED
    BY <2>1, <2>2 DEF intr_dispatch
<1> DEFINE r == <<Do("return")>>
<1>12. r \in Seq(Step) /\ RunsTo(r, a1, a)
  BY <1>2, <1>10, RunsOne, Steps
<1> HIDE DEF r
<1>13. RunsTo(h \o r, a1, a) /\ h \o r \in Seq(Step)
  BY <1>11, <1>12, RunsSeq
<1> QED
  BY <1>2, <1>13 DEF a1, r

\* The calls made by code outside the locks lead back to it.
LEMMA CallRuns ==
  ASSUME NEW body \in {Malloc, intr_route_intr, intr_unroute_intr, intr_route_irq_to}
  PROVE  body \in Seq(Step) /\ RunsTo(body, Outside, Outside)
<1> DEFINE m == Sit(1, "off", {}, "no", "yes")
           s == <<Do("rw_wlock")>>
           e == <<Do("change"), Do("rw_wunlock")>>
           f == <<Do("rw_wlock"), Do("change")>>
           g == <<Do("rw_wunlock")>>
<1>1. /\ Outside \in Sound /\ Outside.mask = 0 /\ Outside.flag = "on" /\ Outside.own = {}
      /\ Outside.reads = "no" /\ Outside.writes = "no"
  BY SitIs DEF Outside
<1>2. /\ m \in Sound /\ m.mask = 1 /\ m.flag = "off" /\ m.own = {}
      /\ m.reads = "no" /\ m.writes = "yes"
  BY SitIs
<1>3. m = Writing(Masked(Outside), "yes") /\ Outside = Unmasked(Writing(m, "no"), 1)
  <2>1. Masked(Outside) = Sit(1, "off", {}, "no", "no")
    BY <1>1 DEF Masked
  <2>2. Writing(m, "no") = Sit(1, "off", {}, "no", "no")
    BY SitChanges
  <2>3. Unmasked(Sit(1, "off", {}, "no", "no"), 1) = Sit(0, "on", {}, "no", "no")
    BY SitIs DEF Unmasked
  <2> QED
    BY <2>1, <2>2, <2>3, SitChanges DEF Outside
<1> HIDE DEF m
<1>4. /\ Moves(Do("rw_wlock"), Outside, m) /\ Moves(Do("change"), m, m)
      /\ Moves(Do("rw_wunlock"), m, Outside)
  <2>1. Lockable(Outside) /\ Outside.mask <= 2 /\ Free(Outside)
    BY <1>1 DEF Lockable, Free
  <2>2. m.mask \in 1 .. 3
    BY <1>2
  <2> QED
    BY <1>2, <1>3, <2>1, <2>2, MovesDo, Zenon
<1>5. s \in Seq(Step) /\ e \in Seq(Step) /\ f \in Seq(Step) /\ g \in Seq(Step)
  BY Steps, SMTT(30)
<1>6. /\ RunsTo(s, Outside, m) /\ RunsTo(e, m, Outside)
      /\ RunsTo(f, Outside, m) /\ RunsTo(g, m, Outside)
  BY <1>1, <1>2, <1>4, RunsOne, RunsTwo, Steps
<1>7. Malloc \in Seq(Step) /\ RunsTo(Malloc, m, m) /\ RunsTo(Malloc, Outside, Outside)
  <2>1. Lockable(m) /\ m.mask # 0 /\ "malloc" \notin m.own
    BY <1>2 DEF Lockable
  <2>2. Lockable(Outside) /\ "malloc" \notin Outside.own
    BY <1>1 DEF Lockable
  <2> QED
    BY <1>1, <1>2, <2>1, <2>2, MallocRuns
<1>8. <<Do("rw_wlock"), Do("rw_wunlock")>> \in Seq(Step)
      /\ RunsTo(<<Do("rw_wlock"), Do("rw_wunlock")>>, Outside, Outside)
  BY <1>1, <1>2, <1>4, RunsTwo, Steps
<1> HIDE DEF s, e, f, g
<1> DEFINE u == s \o Malloc
           v == f \o Malloc
<1>9. u \in Seq(Step) /\ RunsTo(u, Outside, m) /\ v \in Seq(Step) /\ RunsTo(v, Outside, m)
  BY <1>5, <1>6, <1>7, RunsSeq
<1> HIDE DEF u, v
<1>10. /\ u \o e \in Seq(Step) /\ RunsTo(u \o e, Outside, Outside)
       /\ v \o g \in Seq(Step) /\ RunsTo(v \o g, Outside, Outside)
  BY <1>5, <1>6, <1>9, RunsSeq
<1>11. intr_route_intr = u \o e /\ intr_unroute_intr = v \o g
  BY DEF intr_route_intr, intr_unroute_intr, s, e, f, g, u, v
<1> QED
  BY <1>7, <1>8, <1>10, <1>11, Zenon DEF intr_route_irq_to

\* So does a system call, from the situation SYSCALL and its stub put the CPU in.
LEMMA SyscallRuns ==
  LET a1 == Sit(1, "off", {}, "no", "no")
  IN  /\ a1 \in Sound /\ Malloc \o <<Do("return")>> \in Seq(Step)
      /\ RunsTo(Malloc \o <<Do("return")>>, a1, Outside)
<1> DEFINE a1 == Sit(1, "off", {}, "no", "no")
           r == <<Do("return")>>
<1>1. /\ a1 \in Sound /\ a1.mask = 1 /\ a1.flag = "off" /\ a1.own = {}
      /\ a1.reads = "no" /\ a1.writes = "no" /\ Outside \in Sound
  BY SitIs DEF Outside
<1>2. Outside = Sit(a1.mask - 1, "on", a1.own, a1.reads, a1.writes)
  BY <1>1 DEF Outside
<1> HIDE DEF a1
<1>3. Malloc \in Seq(Step) /\ RunsTo(Malloc, a1, a1)
  <2>1. Lockable(a1) /\ a1.mask # 0 /\ "malloc" \notin a1.own
    BY <1>1 DEF Lockable
  <2> QED
    BY <1>1, <2>1, MallocRuns
<1>4. Moves(Do("return"), a1, Outside)
  <2>1. a1.mask \in 1 .. 2 /\ Free(a1)
    BY <1>1 DEF Free
  <2> QED
    BY <1>1, <1>2, <2>1, MovesDo, Zenon
<1>5. r \in Seq(Step) /\ RunsTo(r, a1, Outside)
  BY <1>1, <1>4, RunsOne, Steps
<1> HIDE DEF r
<1>6. Malloc \o r \in Seq(Step) /\ RunsTo(Malloc \o r, a1, Outside)
  BY <1>3, <1>5, RunsSeq
<1> QED
  BY <1>1, <1>6 DEF a1, r
-----------------------------------------------------------------------------
\* Taking a step: the body of its first call takes the place of the call.
LEMMA Reduces ==
  ASSUME NEW s \in Seq(Step), s # <<>>, NEW body \in Seq(Step), NEW a, NEW a1,
         NEW z, RunsTo(s, a, z),
         \A b \in Sound : Moves(Head(s), a, b) => RunsTo(body, a1, b)
  PROVE  body \o Tail(s) \in Seq(Step) /\ RunsTo(body \o Tail(s), a1, z)
<1>1. PICK b \in Sound : Moves(Head(s), a, b) /\ RunsTo(Tail(s), b, z)
  BY RunsHead
<1>2. Tail(s) \in Seq(Step)
  OBVIOUS
<1> DEFINE t == Tail(s)
<1>3. t \in Seq(Step) /\ RunsTo(t, b, z) /\ RunsTo(body, a1, b)
  BY <1>1, <1>2
<1> HIDE DEF t
<1>4. body \o t \in Seq(Step) /\ RunsTo(body \o t, a1, z)
  BY <1>3, RunsSeq
<1> QED
  BY <1>4 DEF t
=============================================================================
