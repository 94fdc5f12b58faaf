----------------------------- MODULE SchedProofs ----------------------------
(***************************************************************************)
(* A CPU in user mode has the address space and the kernel stack of the    *)
(* thread it executes, for any number of CPUs, threads and processes, and  *)
(* also when threads exit and leave the ready queue in disorder.           *)
(*                                                                         *)
(* The argument needs to know that a thread picked from the queue has been *)
(* created, since thread_create gives a thread its process: a disordered   *)
(* queue still links created threads only (ListIn), and a walk that starts *)
(* at its head never leaves them (ChainStaysInside, by the least index at  *)
(* which it would).                                                        *)
(*                                                                         *)
(* The second half is about a queue in order.  Holds relates the pointers  *)
(* of a list to the sequence of its nodes.  A walk of the list is a        *)
(* recursive function: WalkIs gives a function that solves its equation,   *)
(* and shows by the least argument on which two solutions differ that      *)
(* there is no other.                                                      *)
(***************************************************************************)
EXTENDS Sched, FiniteSetTheorems, TLAPS

\* All pointers of list L, whose nodes are N, lead to nodes in C.
ListIn(L, N, C) ==
  L \in [head : C \cup {NULL}, tail : C \cup {NULL}, size : Int,
         next : [N -> C \cup {NULL}], prev : [N -> C \cup {NULL}]]

Created == {t \in Workers : state[t] # "none"}

\* What CPU c has loaded, at each point of the scheduler.
CpuInv(c) ==
  /\ thread[c] # NULL => state[thread[c]] # "none"
  /\ prev[c] # NULL => state[prev[c]] # "none"
  /\ pc[c] \in {"user", "tick"} /\ thread[c] # NULL =>
       space[c] = procOf[thread[c]] /\ rsp0[c] = thread[c]
  /\ pc[c] = "resume" =>
       /\ thread[c] \in Workers /\ newThread[c] \in Workers
       /\ state[newThread[c]] # "none"
       /\ oldProc[c] = procOf[thread[c]] /\ rsp0[c] = thread[c]
  /\ pc[c] = "switch" =>
       /\ thread[c] # NULL
       /\ prev[c] # NULL => space[c] = procOf[prev[c]] /\ rsp0[c] = prev[c]

IInv ==
  /\ TypeOK
  /\ ListIn(queue, Workers, Created)
  /\ \A c \in CPUs : state[Idle(c)] = "SUSPENDED"
  /\ \A c \in CPUs : CpuInv(c)
-----------------------------------------------------------------------------
\* Storing a pointer into C keeps a field's pointers inside C.
LEMMA StoreIn ==
  ASSUME NEW N, NEW C \in SUBSET N, NEW f \in [N -> C \cup {NULL}],
         NEW n \in N \cup {NULL}, NEW v \in C \cup {NULL}
  PROVE  Store(f, n, v) \in [N -> C \cup {NULL}]
  BY DEF Store

\* list_remove introduces no pointer that was not there before.
LEMMA RemoveIn ==
  ASSUME NEW N, NEW C \in SUBSET N, NEW L, ListIn(L, N, C), NEW node \in N
  PROVE  ListIn(list_remove(L, node), N, C)
<1> DEFINE before == L.prev[node]
           after  == L.next[node]
           M == list_remove(L, node)
<1>1. before \in C \cup {NULL} /\ after \in C \cup {NULL}
  BY DEF ListIn
<1>2. before \in N \cup {NULL} /\ after \in N \cup {NULL}
  BY <1>1
<1>3. /\ L.next \in [N -> C \cup {NULL}] /\ L.prev \in [N -> C \cup {NULL}]
      /\ L.head \in C \cup {NULL} /\ L.tail \in C \cup {NULL} /\ L.size \in Int
  BY DEF ListIn
<1>4. Store(L.next, before, after) \in [N -> C \cup {NULL}]
  BY <1>1, <1>2, <1>3, StoreIn, Zenon
<1>5. Store(L.prev, after, before) \in [N -> C \cup {NULL}]
  BY <1>1, <1>2, <1>3, StoreIn, Zenon
<1>6. M = [head |-> IF before = NULL THEN after ELSE L.head,
           tail |-> IF after = NULL THEN before ELSE L.tail,
           size |-> L.size - 1,
           next |-> Store(L.next, before, after),
           prev |-> Store(L.prev, after, before)]
  <2>1. M = [L EXCEPT !.next = Store(L.next, before, after),
                      !.prev = Store(L.prev, after, before),
                      !.head = IF before = NULL THEN after ELSE L.head,
                      !.tail = IF after = NULL THEN before ELSE L.tail,
                      !.size = L.size - 1]
    BY DEF list_remove
  <2> HIDE DEF before, after, M
  <2> QED
    BY <2>1, Zenon DEF ListIn
<1> HIDE DEF before, after, M
<1>7. ListIn(M, N, C)
  BY <1>1, <1>3, <1>4, <1>5, <1>6 DEF ListIn
<1> QED
  BY <1>7 DEF M

\* list_add_tail of a node of C keeps all pointers inside C.
LEMMA AddTailIn ==
  ASSUME NEW N, NEW C \in SUBSET N, NEW L, ListIn(L, N, C), NEW node \in C,
         NULL \notin N
  PROVE  ListIn(list_add_tail(L, node), N, C)
<1>1. /\ L.next \in [N -> C \cup {NULL}] /\ L.prev \in [N -> C \cup {NULL}]
      /\ L.head \in C \cup {NULL} /\ L.tail \in C \cup {NULL} /\ L.size \in Int
  BY DEF ListIn
<1>2. CASE L.tail = NULL /\ L.head = NULL
  <2>1. list_add_tail(L, node) =
          [head |-> node, tail |-> node, size |-> L.size + 1,
           next |-> [L.next EXCEPT ![node] = NULL],
           prev |-> [L.prev EXCEPT ![node] = NULL]]
    BY <1>2, Zenon DEF list_add_tail, list_add_head, ListIn
  <2> QED
    BY <1>1, <2>1 DEF ListIn
<1>3. CASE L.tail = NULL /\ L.head # NULL
  <2> DEFINE h == L.head
             before == L.prev[h]
             nx == [L.next EXCEPT ![node] = h]
             M == list_add_tail(L, node)
  <2>1. h \in C /\ before \in C \cup {NULL} /\ before \in N \cup {NULL}
    BY <1>1, <1>3
  <2>2. nx \in [N -> C \cup {NULL}]
    BY <1>1, <2>1
  <2>3. Store(nx, before, node) \in [N -> C \cup {NULL}]
    BY <2>1, <2>2, StoreIn
  <2>4. M = [head |-> IF before = NULL THEN node ELSE L.head,
             tail |-> L.tail, size |-> L.size + 1,
             next |-> Store(nx, before, node),
             prev |-> [L.prev EXCEPT ![node] = before, ![h] = node]]
    BY <1>3, Zenon DEF list_add_tail, list_add_head, list_insert_before, ListIn
  <2>5. [L.prev EXCEPT ![node] = before, ![h] = node] \in [N -> C \cup {NULL}]
    BY <1>1, <2>1
  <2> HIDE DEF h, before, nx, M
  <2>6. ListIn(M, N, C)
    BY <1>1, <2>3, <2>4, <2>5 DEF ListIn
  <2> QED
    BY <2>6 DEF M
<1>4. CASE L.tail # NULL
  <2> DEFINE l == L.tail
             after == L.next[l]
             pv == [L.prev EXCEPT ![node] = l]
             M == list_add_tail(L, node)
  <2>1. l \in C /\ after \in C \cup {NULL} /\ after \in N \cup {NULL}
    BY <1>1, <1>4
  <2>2. pv \in [N -> C \cup {NULL}]
    BY <1>1, <2>1
  <2>3. Store(pv, after, node) \in [N -> C \cup {NULL}]
    BY <2>1, <2>2, StoreIn, Zenon
  <2>4. M = [head |-> L.head,
             tail |-> IF after = NULL THEN node ELSE L.tail,
             size |-> L.size + 1,
             next |-> [L.next EXCEPT ![node] = after, ![l] = node],
             prev |-> Store(pv, after, node)]
    BY <1>4, Zenon DEF list_add_tail, list_insert_after, ListIn
  <2>5. [L.next EXCEPT ![node] = after, ![l] = node] \in [N -> C \cup {NULL}]
    BY <1>1, <2>1
  <2> HIDE DEF l, after, pv, M
  <2>6. ListIn(M, N, C)
    BY <1>1, <2>3, <2>4, <2>5 DEF ListIn
  <2> QED
    BY <2>6 DEF M
<1> QED
  BY <1>2, <1>3, <1>4

\* A list linked inside C is linked inside every larger set of nodes.
LEMMA ListInGrows ==
  ASSUME NEW N, NEW C, NEW D, C \subseteq D, NEW L, ListIn(L, N, C)
  PROVE  ListIn(L, N, D)
  BY DEF ListIn

\* A walk that starts at the head of such a list stays inside C.
LEMMA ChainStaysInside ==
  ASSUME NEW N, NEW C \in SUBSET N, NEW L, ListIn(L, N, C), NULL \notin N,
         NEW n \in Nat \ {0}, NEW s \in [1 .. n -> N], IsChain(L, s)
  PROVE  s[n] \in C
<1> DEFINE T == {i \in 1 .. n : s[i] \notin C}
           R == OpToRel(<, Nat)
<1>1. SUFFICES ASSUME T # {} PROVE FALSE
  <2>1. n \in 1 .. n
    OBVIOUS
  <2> QED
    BY <1>1, <2>1
<1>2. T \subseteq Nat
  OBVIOUS
<1>3. \E x \in T : \A y \in T : ~(<<y, x>> \in R)
  BY <1>1, <1>2, NatLessThanWellFounded, WFMin, Zenon
<1>4. PICK x \in T : \A y \in T : ~(<<y, x>> \in R)
  BY <1>3, Zenon
<1>5. x \in 1 .. n /\ s[x] \notin C /\ s[x] \in N
  BY <1>4, Zenon
<1>6. Len(s) = n
  OBVIOUS
<1>7. s[x] = IF x = 1 THEN L.head ELSE L.next[s[x - 1]]
  BY <1>5, <1>6 DEF IsChain
<1>8. CASE x = 1
  BY <1>5, <1>7, <1>8 DEF ListIn
<1>9. CASE x # 1
  <2>1. x - 1 \in 1 .. n /\ x - 1 \in Nat /\ x \in Nat /\ x - 1 < x
    BY <1>5, <1>9
  <2>2. <<x - 1, x>> \in R
    BY <2>1 DEF OpToRel
  <2>3. s[x - 1] \in C
    BY <1>4, <2>1, <2>2, Zenon
  <2>4. L.next[s[x - 1]] \in C \cup {NULL}
    BY <2>3 DEF ListIn
  <2> QED
    BY <1>5, <1>7, <1>9, <2>4
<1> QED
  BY <1>8, <1>9

\* The thread that sched_tick picks has been created.
LEMMA PickedIsCreated ==
  ASSUME NEW c, NEW L, ListIn(L, Workers, Created)
  PROVE  FirstRunnable(c, L) \in Created \cup {NULL}
<1>1. CASE Found(c, L) = {}
  BY <1>1 DEF FirstRunnable
<1>2. CASE Found(c, L) # {}
  <2> DEFINE t == FirstRunnable(c, L)
  <2>1. t \in Found(c, L)
    BY <1>2 DEF FirstRunnable
  <2> HIDE DEF t
  <2>1a. PICK n \in 1 .. Cardinality(Workers) :
           \E s \in [1 .. n -> Workers] : IsChain(L, s) /\ s[n] = t
    BY <2>1 DEF Found
  <2>2. PICK s \in [1 .. n -> Workers] : IsChain(L, s) /\ s[n] = t
    BY <2>1a
  <2>3. n \in Nat \ {0}
    BY <2>2
  <2>4. Created \in SUBSET Workers /\ NULL \notin Workers
    BY SchedConstants DEF Created, Threads
  <2>5. s[n] \in Created
    BY <2>2, <2>3, <2>4, ChainStaysInside
  <2> QED
    BY <2>2, <2>5 DEF t
<1> QED
  BY <1>1, <1>2

\* Putting the current thread back links created threads only.
LEMMA PutBackIn ==
  ASSUME IInv, NEW c \in CPUs
  PROVE  ListIn(PutBack(c), Workers, Created)
<1>1. CASE thread[c] # NULL /\ state[thread[c]] = "RUNNING"
  <2>1. thread[c] \in Threads
    BY <1>1 DEF IInv, TypeOK
  <2>2. thread[c] \notin IdleThreads
    BY <1>1 DEF IInv, IdleThreads
  <2>3. thread[c] \in Created
    BY <1>1, <2>1, <2>2 DEF Threads, Created
  <2>4. Created \in SUBSET Workers /\ NULL \notin Workers
    BY SchedConstants DEF Created, Threads
  <2> QED
    BY <1>1, <2>3, <2>4, AddTailIn DEF PutBack, IInv
<1>2. CASE ~(thread[c] # NULL /\ state[thread[c]] = "RUNNING")
  BY <1>2 DEF PutBack, IInv
<1> QED
  BY <1>1, <1>2

\* At boot every CPU has loaded nothing wrong.
LEMMA InitIInv == Init => IInv
<1> SUFFICES ASSUME Init PROVE IInv
  OBVIOUS
<1> USE SchedConstants
<1>1. Created = {UiThread} /\ Created \in SUBSET Workers /\ NULL \notin Workers
  <2>1. \A t \in Workers : t \in Threads /\ t \notin IdleThreads
    BY DEF Threads
  <2> QED
    BY <2>1 DEF Init, Created, Threads
<1>2. ListIn(list_init(Workers), Workers, Created)
  BY DEF list_init, ListIn
<1>3. ListIn(queue, Workers, Created)
  BY <1>1, <1>2, AddTailIn DEF Init
<1>4. 0 \in CPUs /\ \A c \in CPUs : Idle(c) \in Threads /\ Idle(c) \in IdleThreads
  BY DEF CPUs, Threads, IdleThreads
<1>5. TypeOK
  <2>1. ListIn(queue, Workers, Workers)
    BY <1>1, <1>3, ListInGrows
  <2>2. /\ qlock \in CPUs \cup {NULL}
        /\ state \in [Threads -> {"none", "SUSPENDED", "RUNNING", "ZOMBIE"}]
        /\ coreId \in [Threads -> CPUs]
        /\ procOf \in [Threads -> Procs \cup {IdleProc}]
        /\ saved \in [Threads -> BOOLEAN]
    BY <1>4 DEF Init
  <2>3. /\ pc \in [CPUs -> {"user", "tick", "switch", "resume", "stuck"}]
        /\ thread \in [CPUs -> Threads \cup {NULL}]
        /\ prev \in [CPUs -> Threads \cup {NULL}]
        /\ regs \in [CPUs -> Threads \cup {NULL}]
        /\ rsp0 \in [CPUs -> Threads]
    BY <1>4 DEF Init
  <2>4. /\ space \in [CPUs -> Procs \cup {IdleProc, NULL}]
        /\ oldProc \in [CPUs -> Procs \cup {IdleProc, NULL}]
        /\ newThread \in [CPUs -> MaybeNode]
        /\ procs \subseteq Procs
    BY DEF Init, MaybeNode
  <2> QED
    BY <2>1, <2>2, <2>3, <2>4 DEF TypeOK, ListIn, MaybeNode
<1>6. \A c \in CPUs : state[Idle(c)] = "SUSPENDED"
  BY <1>4 DEF Init
<1>7. \A c \in CPUs : CpuInv(c)
  BY DEF Init, CpuInv
<1> QED
  BY <1>3, <1>5, <1>6, <1>7 DEF IInv

\* Creating thread t for process p disturbs no other thread.
LEMMA CreateKeeps ==
  ASSUME IInv, NEW t \in Workers, NEW p \in Procs \cup {IdleProc},
         thread_create(t, p)
  PROVE  /\ state' \in [Threads -> {"none", "SUSPENDED", "RUNNING", "ZOMBIE"}]
         /\ coreId' \in [Threads -> CPUs]
         /\ procOf' \in [Threads -> Procs \cup {IdleProc}]
         /\ saved' \in [Threads -> BOOLEAN]
         /\ state'[t] = "SUSPENDED"
         /\ Created \subseteq Created'
         /\ \A u \in Threads : state[u] # "none" =>
              state'[u] = state[u] /\ procOf'[u] = procOf[u]
<1>1. t \in Threads /\ 0 \in CPUs
  BY SchedConstants DEF Threads, CPUs
<1> QED
  BY <1>1 DEF IInv, TypeOK, thread_create, Created, Threads

\* Every step, thread exits included, leaves each CPU with what its thread needs.
LEMMA NextIInv == IInv /\ [NextExit]_vars => IInv'
<1> SUFFICES ASSUME IInv, [NextExit]_vars PROVE IInv'
  OBVIOUS
<1> USE SchedConstants
<1>0. /\ TypeOK /\ ListIn(queue, Workers, Created)
      /\ \A c \in CPUs : state[Idle(c)] = "SUSPENDED"
      /\ \A c \in CPUs : CpuInv(c)
  BY DEF IInv
<1>a. /\ Created \in SUBSET Workers /\ NULL \notin Workers /\ NULL \notin Threads
      /\ \A t \in Workers : t \in Threads
      /\ \A c \in CPUs : Idle(c) \in Threads /\ Idle(c) \notin Workers
  BY DEF Created, Threads, IdleThreads
<1>1. ASSUME NEW c \in CPUs, pc[c] = "user", Goto(c, "tick"),
             UNCHANGED <<queue, qlock, perThread, thread, loaded, locals, procs>>
      PROVE  IInv'
  <2>1. TypeOK'
    BY <1>0, <1>1 DEF Goto, perThread, loaded, locals, TypeOK
  <2>2. ListIn(queue, Workers, Created)'
    BY <1>0, <1>1 DEF perThread, Created
  <2>3. (\A d \in CPUs : CpuInv(d))'
    BY <1>0, <1>1 DEF Goto, perThread, loaded, locals, TypeOK, CpuInv
  <2>4. (\A d \in CPUs : state[Idle(d)] = "SUSPENDED")'
    BY <1>0, <1>1, Zenon DEF perThread, Idle
  <2> QED
    BY <2>1, <2>2, <2>3, <2>4 DEF IInv
<1>2. ASSUME NEW c \in CPUs, SchedPick(c) PROVE IInv'
  <2> DEFINE L == PutBack(c)
             next == FirstRunnable(c, L)
  <2>1. ListIn(L, Workers, Created)
    BY PutBackIn
  <2>2. next \in Created \cup {NULL}
    BY <2>1, PickedIsCreated
  <2>3. queue' = IF next = NULL THEN L ELSE list_remove(L, next)
    BY <1>2 DEF SchedPick
  <2>4. /\ thread' = [thread EXCEPT ![c] = IF Endless(c, L) THEN thread[c]
                                           ELSE IF next = NULL THEN Idle(c) ELSE next]
        /\ pc' = [pc EXCEPT ![c] = IF Endless(c, L) THEN "stuck" ELSE "switch"]
        /\ prev' = [prev EXCEPT ![c] = thread[c]]
        /\ pc[c] = "tick" /\ qlock' = c
        /\ UNCHANGED <<state, coreId, procOf, saved, regs, rsp0, space, oldProc,
                       newThread, procs>>
    BY <1>2 DEF SchedPick, Goto, perThread, loaded
  <2> HIDE DEF L, next
  <2>5. ListIn(queue', Workers, Created)
    BY <1>a, <2>1, <2>2, <2>3, RemoveIn
  <2>6. Created' = Created
    BY <2>4 DEF Created
  <2>7. ListIn(queue', Workers, Workers)
    BY <1>a, <2>5, ListInGrows
  <2>8. /\ thread'[c] \in Threads \cup {NULL}
        /\ thread'[c] # NULL => state[thread'[c]] # "none"
        /\ ~Endless(c, L) => thread'[c] # NULL
    <3>1. thread'[c] = IF Endless(c, L) THEN thread[c]
                       ELSE IF next = NULL THEN Idle(c) ELSE next
      BY <1>0, <2>4 DEF TypeOK
    <3>2. next # NULL => next \in Threads /\ state[next] # "none"
      BY <1>a, <2>2 DEF Created
    <3>3. thread[c] \in Threads \cup {NULL} /\ (thread[c] # NULL => state[thread[c]] # "none")
      BY <1>0 DEF TypeOK, CpuInv
    <3> QED
      BY <1>0, <1>a, <3>1, <3>2, <3>3
  <2>9. TypeOK'
    <3>1. /\ pc' \in [CPUs -> {"user", "tick", "switch", "resume", "stuck"}]
          /\ prev' \in [CPUs -> Threads \cup {NULL}] /\ qlock' \in CPUs \cup {NULL}
      BY <1>0, <2>4 DEF TypeOK
    <3>2. thread' \in [CPUs -> Threads \cup {NULL}]
      BY <1>0, <2>4, <2>8 DEF TypeOK
    <3> QED
      BY <1>0, <2>4, <2>7, <3>1, <3>2 DEF TypeOK, ListIn, MaybeNode
  <2>10. ASSUME NEW d \in CPUs PROVE CpuInv(d)'
    <3>1. CASE d = c
      <4>1. prev'[c] = thread[c] /\ pc'[c] = IF Endless(c, L) THEN "stuck" ELSE "switch"
        BY <1>0, <2>4 DEF TypeOK
      <4>2. thread[c] # NULL => /\ state[thread[c]] # "none"
                                /\ space[c] = procOf[thread[c]] /\ rsp0[c] = thread[c]
        BY <1>0, <2>4 DEF CpuInv
      <4> QED
        BY <2>4, <2>8, <3>1, <4>1, <4>2 DEF CpuInv
    <3>2. CASE d # c
      <4>1. thread'[d] = thread[d] /\ prev'[d] = prev[d] /\ pc'[d] = pc[d]
        BY <1>0, <2>4, <3>2 DEF TypeOK
      <4> QED
        BY <1>0, <2>4, <4>1 DEF CpuInv
    <3> QED
      BY <3>1, <3>2
  <2>11. (\A d \in CPUs : state[Idle(d)] = "SUSPENDED")'
    BY <1>0, <2>4, Zenon DEF Idle
  <2> QED
    BY <2>5, <2>6, <2>9, <2>10, <2>11 DEF IInv
<1>3. ASSUME NEW c \in CPUs, SchedSwitch(c) PROVE IInv'
  <2>1. /\ pc[c] = "switch" /\ pc' = [pc EXCEPT ![c] = "user"]
        /\ prev' = [prev EXCEPT ![c] = NULL] /\ qlock' = NULL
        /\ UNCHANGED <<queue, state, coreId, procOf, thread, oldProc, newThread, procs>>
    BY <1>3 DEF SchedSwitch, Goto
  <2>2. thread[c] \in Threads /\ state[thread[c]] # "none"
    BY <1>0, <2>1 DEF TypeOK, CpuInv
  <2>3. procOf[thread[c]] \in Procs \cup {IdleProc}
    BY <1>0, <2>2 DEF TypeOK
  <2>4. /\ space' \in [CPUs -> Procs \cup {IdleProc, NULL}]
        /\ rsp0' \in [CPUs -> Threads]
        /\ regs' \in [CPUs -> Threads \cup {NULL}]
    <3>1. CASE prev[c] = thread[c]
      BY <1>0, <1>3, <3>1 DEF SchedSwitch, TypeOK
    <3>2. CASE prev[c] # thread[c]
      <4>1. SpaceAfter(c) \in Procs \cup {IdleProc, NULL}
        BY <1>0, <2>3 DEF SpaceAfter, TypeOK
      <4>2. RegsAfter(c) \in Threads \cup {NULL}
        BY <2>2 DEF RegsAfter
      <4>3. /\ space' = [space EXCEPT ![c] = SpaceAfter(c)]
            /\ rsp0' = [rsp0 EXCEPT ![c] = thread[c]]
            /\ regs' = [regs EXCEPT ![c] = RegsAfter(c)]
        BY <1>3, <3>2 DEF SchedSwitch
      <4>4. /\ space \in [CPUs -> Procs \cup {IdleProc, NULL}]
            /\ rsp0 \in [CPUs -> Threads]
            /\ regs \in [CPUs -> Threads \cup {NULL}]
        BY <1>0 DEF TypeOK
      <4> QED
        BY <2>2, <4>1, <4>2, <4>3, <4>4
    <3> QED
      BY <3>1, <3>2
  <2>5. saved' \in [Threads -> BOOLEAN]
    <3>1. CASE prev[c] = thread[c]
      BY <1>0, <1>3, <3>1 DEF SchedSwitch, TypeOK
    <3>2. CASE prev[c] # thread[c]
      <4>1. saved' = SavedAfter(c)
        BY <1>3, <3>2 DEF SchedSwitch
      <4> QED
        BY <1>0, <2>2, <4>1, Zenon DEF SavedAfter, TypeOK
    <3> QED
      BY <3>1, <3>2
  <2>6. TypeOK'
    BY <1>0, <2>1, <2>4, <2>5, Zenon DEF TypeOK
  <2>7. space'[c] = procOf[thread[c]] /\ rsp0'[c] = thread[c]
    <3>1. CASE prev[c] = thread[c]
      BY <1>0, <1>3, <2>1, <3>1 DEF SchedSwitch, CpuInv
    <3>2. CASE prev[c] # thread[c]
      <4>1. /\ space' = [space EXCEPT ![c] = SpaceAfter(c)]
            /\ rsp0' = [rsp0 EXCEPT ![c] = thread[c]]
        BY <1>3, <3>2 DEF SchedSwitch
      <4>2. SpaceAfter(c) = procOf[thread[c]]
        BY <1>0, <2>1, SMTT(30) DEF SpaceAfter, CpuInv
      <4> QED
        BY <1>0, <4>1, <4>2 DEF TypeOK
    <3> QED
      BY <3>1, <3>2, SMTT(30)
  <2>8. ASSUME NEW d \in CPUs PROVE CpuInv(d)'
    <3>1. CASE d = c
      <4>1. pc'[c] = "user" /\ prev'[c] = NULL
        BY <1>0, <2>1, SMTT(30) DEF TypeOK
      <4> QED
        BY <2>1, <2>2, <2>7, <3>1, <4>1 DEF CpuInv
    <3>2. CASE d # c
      <4>1. /\ pc'[d] = pc[d] /\ prev'[d] = prev[d]
            /\ space'[d] = space[d] /\ rsp0'[d] = rsp0[d]
        BY <1>0, <1>3, <2>1, <3>2 DEF SchedSwitch, TypeOK
      <4>2. CpuInv(d)
        BY <1>0, SMTT(30)
      <4> QED
        BY <2>1, <4>1, <4>2 DEF CpuInv
    <3> QED
      BY <3>1, <3>2
  <2>9. ListIn(queue, Workers, Created)' /\ (\A d \in CPUs : state[Idle(d)] = "SUSPENDED")'
    BY <1>0, <2>1, SMTT(30) DEF Created, Idle
  <2> QED
    BY <2>6, <2>8, <2>9, SMTT(30) DEF IInv
<1>4. ASSUME NEW c \in CPUs, thread_resume(c) PROVE IInv'
  <2> DEFINE t == newThread[c]
  <2>1. /\ pc[c] = "resume" /\ pc' = [pc EXCEPT ![c] = "user"]
        /\ state' = [state EXCEPT ![t] = "RUNNING"]
        /\ queue' = list_add_tail(queue, t)
        /\ newThread' = [newThread EXCEPT ![c] = NULL]
        /\ space' = [space EXCEPT ![c] = oldProc[c]]
        /\ oldProc' = [oldProc EXCEPT ![c] = NULL]
        /\ UNCHANGED <<qlock, coreId, procOf, saved, thread, regs, rsp0, prev, procs>>
    BY <1>4 DEF thread_resume, Goto
  <2>2. /\ t \in Workers /\ t \in Threads /\ t \in Created
        /\ thread[c] \in Workers
        /\ oldProc[c] = procOf[thread[c]] /\ rsp0[c] = thread[c]
    BY <1>0, <1>a, <2>1 DEF CpuInv, Created
  <2>3. Created' = Created
    BY <1>0, <2>1, <2>2 DEF Created, TypeOK, Threads
  <2>4. ListIn(queue', Workers, Created)
    BY <1>0, <1>a, <2>1, <2>2, AddTailIn, SMTT(30)
  <2>5. ListIn(queue', Workers, Workers)
    BY <1>a, <2>4, ListInGrows
  <2> HIDE DEF t
  <2>6. TypeOK'
    <3>1. /\ state' \in [Threads -> {"none", "SUSPENDED", "RUNNING", "ZOMBIE"}]
          /\ pc' \in [CPUs -> {"user", "tick", "switch", "resume", "stuck"}]
          /\ newThread' \in [CPUs -> MaybeNode]
      BY <1>0, <2>1, <2>2 DEF TypeOK, MaybeNode
    <3>2. /\ space' \in [CPUs -> Procs \cup {IdleProc, NULL}]
          /\ oldProc' \in [CPUs -> Procs \cup {IdleProc, NULL}]
      BY <1>0, <2>1 DEF TypeOK
    <3> QED
      BY <1>0, <2>1, <2>5, <3>1, <3>2 DEF TypeOK, ListIn, MaybeNode
  <2>7. \A u \in Threads : state[u] # "none" => state'[u] # "none"
    BY <1>0, <2>1, <2>2 DEF TypeOK
  <2>8. ASSUME NEW d \in CPUs PROVE CpuInv(d)'
    <3>0. /\ thread[d] \in Threads \cup {NULL} /\ prev[d] \in Threads \cup {NULL}
          /\ newThread[d] \in Workers \cup {NULL}
      BY <1>0, SMTT(30) DEF TypeOK, MaybeNode
    <3>1. CASE d = c
      <4>1. pc'[c] = "user" /\ space'[c] = procOf[thread[c]]
        BY <1>0, <2>1, <2>2 DEF TypeOK
      <4> QED
        BY <1>0, <2>1, <2>2, <2>7, <3>0, <3>1, <4>1 DEF CpuInv
    <3>2. CASE d # c
      <4>1. /\ pc'[d] = pc[d] /\ space'[d] = space[d]
            /\ oldProc'[d] = oldProc[d] /\ newThread'[d] = newThread[d]
        BY <1>0, <2>1, <3>2 DEF TypeOK
      <4>2. CpuInv(d)
        BY <1>0
      <4>3. /\ thread'[d] = thread[d] /\ prev'[d] = prev[d] /\ rsp0'[d] = rsp0[d]
            /\ procOf' = procOf
        BY <2>1
      <4>4. /\ thread[d] # NULL /\ state[thread[d]] # "none" => state'[thread[d]] # "none"
            /\ prev[d] # NULL /\ state[prev[d]] # "none" => state'[prev[d]] # "none"
            /\ newThread[d] \in Workers /\ state[newThread[d]] # "none" =>
                 state'[newThread[d]] # "none"
        BY <2>7, <3>0 DEF Threads
      <4> QED
        BY <4>1, <4>2, <4>3, <4>4, Zenon DEF CpuInv
    <3> QED
      BY <3>1, <3>2
  <2>9. (\A d \in CPUs : state[Idle(d)] = "SUSPENDED")'
    BY <1>0, <1>a, <2>1, <2>2, Zenon DEF TypeOK, Idle
  <2> QED
    BY <2>3, <2>4, <2>6, <2>8, <2>9, SMTT(30) DEF IInv
<1>5. ASSUME NEW c \in CPUs, NEW id \in -1 .. NCpu, sys_set_affinity(c, id) PROVE IInv'
  <2>1. /\ thread[c] \in Workers /\ id \in CPUs
        /\ coreId' = [coreId EXCEPT ![thread[c]] = id]
        /\ UNCHANGED <<queue, qlock, state, procOf, saved, pc, thread, regs, rsp0,
                       space, prev, oldProc, newThread, procs>>
    BY <1>5 DEF sys_set_affinity, InUserThread, loaded, locals, CPUs
  <2>2. TypeOK'
    BY <1>0, <2>1, Zenon DEF TypeOK
  <2>3. (\A d \in CPUs : CpuInv(d))'
    BY <1>0, <2>1 DEF CpuInv
  <2>4. ListIn(queue, Workers, Created)' /\ (\A d \in CPUs : state[Idle(d)] = "SUSPENDED")'
    BY <1>0, <2>1, Zenon DEF Created, Idle
  <2> QED
    BY <2>2, <2>3, <2>4 DEF IInv
<1>6. ASSUME NEW c \in CPUs, NEW t \in Workers, NEW p \in Procs \cup {IdleProc},
             InUserThread(c), thread_create(t, p),
             space' = space \/ space' = [space EXCEPT ![c] = p],
             procs' \subseteq Procs,
             newThread' = [newThread EXCEPT ![c] = t],
             oldProc' = [oldProc EXCEPT ![c] = space[c]],
             Goto(c, "resume"),
             UNCHANGED <<queue, qlock, thread, regs, rsp0, prev>>
      PROVE  IInv'
  <2>1. /\ state' \in [Threads -> {"none", "SUSPENDED", "RUNNING", "ZOMBIE"}]
        /\ coreId' \in [Threads -> CPUs]
        /\ procOf' \in [Threads -> Procs \cup {IdleProc}]
        /\ saved' \in [Threads -> BOOLEAN]
        /\ state'[t] = "SUSPENDED"
        /\ Created \subseteq Created'
        /\ \A u \in Threads : state[u] # "none" =>
             state'[u] = state[u] /\ procOf'[u] = procOf[u]
    BY <1>6, CreateKeeps, SMTT(30)
  <2>2. /\ thread[c] \in Workers /\ pc[c] = "user"
        /\ space[c] = procOf[thread[c]] /\ rsp0[c] = thread[c]
    BY <1>0, <1>6, <1>a DEF InUserThread, CpuInv
  <2>3. /\ pc' = [pc EXCEPT ![c] = "resume"]
        /\ space' \in [CPUs -> Procs \cup {IdleProc, NULL}]
        /\ \A d \in CPUs \ {c} : space'[d] = space[d]
    BY <1>0, <1>6 DEF Goto, TypeOK
  <2>4. TypeOK'
    <3>1. /\ pc' \in [CPUs -> {"user", "tick", "switch", "resume", "stuck"}]
          /\ newThread' \in [CPUs -> MaybeNode]
          /\ oldProc' \in [CPUs -> Procs \cup {IdleProc, NULL}]
      BY <1>0, <1>6, <2>3, SMTT(30) DEF TypeOK, MaybeNode
    <3> QED
      BY <1>0, <1>6, <2>1, <2>3, <3>1 DEF TypeOK
  <2>5. ListIn(queue, Workers, Created)'
    BY <1>0, <1>6, <2>1, ListInGrows
  <2>6. ASSUME NEW d \in CPUs PROVE CpuInv(d)'
    <3>0. /\ thread[d] \in Threads \cup {NULL} /\ prev[d] \in Threads \cup {NULL}
      BY <1>0 DEF TypeOK
    <3>1. thread'[d] = thread[d] /\ prev'[d] = prev[d] /\ rsp0'[d] = rsp0[d]
      BY <1>6, Zenon
    <3>2. CpuInv(d)
      BY <1>0
    <3>3. /\ thread[d] # NULL /\ state[thread[d]] # "none" =>
               state'[thread[d]] # "none" /\ procOf'[thread[d]] = procOf[thread[d]]
          /\ prev[d] # NULL /\ state[prev[d]] # "none" =>
               state'[prev[d]] # "none" /\ procOf'[prev[d]] = procOf[prev[d]]
      BY <2>1, <3>0
    <3>4. CASE d = c
      <4>1. pc'[c] = "resume" /\ newThread'[c] = t /\ oldProc'[c] = space[c]
        BY <1>0, <1>6, <2>3 DEF TypeOK
      <4>2. procOf'[thread[c]] = procOf[thread[c]]
        BY <1>a, <2>2, <3>4, <3>2, <3>3, ZenonT(40) DEF CpuInv
      <4>3. /\ thread'[c] = thread[c] /\ prev'[c] = prev[c] /\ rsp0'[c] = thread[c]
            /\ oldProc'[c] = procOf'[thread[c]]
        BY <2>2, <3>1, <3>4, <4>1, <4>2
      <4>4. /\ thread[c] # NULL => state'[thread[c]] # "none"
            /\ prev[c] # NULL => state'[prev[c]] # "none"
        BY <3>2, <3>3, <3>4, Zenon DEF CpuInv
      <4> QED
        BY <2>1, <2>2, <3>4, <4>1, <4>3, <4>4 DEF CpuInv
    <3>5. CASE d # c
      <4>1. /\ pc'[d] = pc[d] /\ space'[d] = space[d]
            /\ oldProc'[d] = oldProc[d] /\ newThread'[d] = newThread[d]
        BY <1>0, <1>6, <2>3, <3>5, SMTT(30) DEF TypeOK
      <4>2. newThread[d] \in Workers /\ state[newThread[d]] # "none" =>
              state'[newThread[d]] # "none"
        BY <2>1 DEF Threads
      <4> QED
        BY <1>a, <3>1, <3>2, <3>3, <4>1, <4>2, Zenon DEF CpuInv
    <3> QED
      BY <3>4, <3>5
  <2>7. (\A d \in CPUs : state[Idle(d)] = "SUSPENDED")'
    BY <1>0, <1>a, <2>1, Zenon DEF Idle
  <2> QED
    BY <2>4, <2>5, <2>6, <2>7 DEF IInv
<1>7. ASSUME NEW c \in CPUs, NEW t \in Workers, sys_run_thread(c, t) PROVE IInv'
  <2>1. InUserThread(c) /\ space[c] = procOf[thread[c]] /\ thread[c] \in Threads
    BY <1>0, <1>7, <1>a DEF sys_run_thread, InUserThread, CpuInv
  <2>2. space[c] \in Procs \cup {IdleProc}
    BY <1>0, <2>1 DEF TypeOK
  <2>3. procs' \subseteq Procs
    BY <1>0, <1>7 DEF sys_run_thread, TypeOK
  <2> QED
    BY <1>6, <1>7, <2>2, <2>3, Zenon DEF sys_run_thread, loaded
<1>8. ASSUME NEW c \in CPUs, NEW t \in Workers, NEW p \in Procs,
             sys_start_process(c, t, p)
      PROVE  IInv'
  <2>1. procs' \subseteq Procs
    BY <1>0, <1>8 DEF sys_start_process, TypeOK
  <2> QED
    BY <1>6, <1>8, <2>1, Zenon DEF sys_start_process
<1>9. ASSUME NEW c \in CPUs, NEW p \in Procs, StartProcessFails(c, p) PROVE IInv'
  <2>1. /\ procs' \subseteq Procs
        /\ UNCHANGED <<queue, qlock, perThread, pc, thread, loaded, locals>>
    BY <1>0, <1>9 DEF StartProcessFails, TypeOK
  <2> QED
    BY <1>0, <2>1, Zenon DEF IInv, TypeOK, CpuInv, Created, Idle, perThread, loaded, locals
<1>10. ASSUME NEW c \in CPUs, sys_exit_thread(c) PROVE IInv'
  <2> DEFINE t == thread[c]
  <2>1. /\ pc[c] = "user" /\ t \in Workers /\ t \in Threads /\ state[t] # "none"
        /\ state' = [state EXCEPT ![t] = "ZOMBIE"]
        /\ pc' = [pc EXCEPT ![c] = "tick"]
        /\ UNCHANGED <<qlock, coreId, procOf, saved, thread, loaded, locals, procs>>
    BY <1>0, <1>10, <1>a, Zenon DEF sys_exit_thread, InUserThread, Goto, CpuInv
  <2>2. ListIn(queue', Workers, Created)
    BY <1>0, <1>10, <1>a, <2>1, RemoveIn, Zenon DEF sys_exit_thread
  <2>3. Created' = Created
    BY <1>0, <2>1 DEF Created, TypeOK, Threads
  <2>4. ListIn(queue', Workers, Workers)
    BY <1>a, <2>2, ListInGrows
  <2>5. \A u \in Threads : state[u] # "none" => state'[u] # "none"
    BY <1>0, <2>1 DEF TypeOK
  <2>6. (\A d \in CPUs : state[Idle(d)] = "SUSPENDED")'
    BY <1>0, <1>a, <2>1, Zenon DEF TypeOK, Idle
  <2> HIDE DEF t
  <2>7. TypeOK'
    <3>1. /\ state' \in [Threads -> {"none", "SUSPENDED", "RUNNING", "ZOMBIE"}]
          /\ pc' \in [CPUs -> {"user", "tick", "switch", "resume", "stuck"}]
      BY <1>0, <2>1 DEF TypeOK
    <3> QED
      BY <1>0, <2>1, <2>4, <3>1 DEF TypeOK, ListIn, MaybeNode, loaded, locals
  <2>8. ASSUME NEW d \in CPUs PROVE CpuInv(d)'
    <3>0. /\ thread[d] \in Threads \cup {NULL} /\ prev[d] \in Threads \cup {NULL}
          /\ newThread[d] \in Workers \cup {NULL}
      BY <1>0 DEF TypeOK, MaybeNode
    <3>1. pc'[d] = pc[d] \/ (pc[d] = "user" /\ pc'[d] = "tick")
      BY <1>0, <2>1 DEF TypeOK
    <3> QED
      BY <1>0, <1>a, <2>1, <2>5, <3>0, <3>1, Zenon DEF CpuInv, loaded, locals
  <2> QED
    BY <2>2, <2>3, <2>6, <2>7, <2>8, Zenon DEF IInv
<1>11. CASE UNCHANGED vars
  BY <1>0, <1>11, ZenonT(40) DEF vars, IInv, TypeOK, CpuInv, Created, Idle, perThread, loaded, locals
<1> QED
  BY <1>1, <1>2, <1>3, <1>4, <1>5, <1>7, <1>8, <1>9, <1>10, <1>11
  DEF NextExit, Next, KernelStep, SystemCall, TimerInterrupt, sys_yield, InUserThread

\* The invariant holds whatever the threads do.
LEMMA SpecIInv == SpecExit => []IInv
  BY InitIInv, NextIInv, PTL DEF SpecExit

\* sched_tick, sys_start_process and thread exits never leave a CPU in user
\* mode with another thread's address space or kernel stack.
THEOREM RightSpaceLoaded == SpecExit => []LoadedForThread
<1>1. IInv => LoadedForThread
  BY Zenon DEF IInv, CpuInv, LoadedForThread
<1> QED
  BY <1>1, SpecIInv, PTL

\* Every variable keeps its type whatever the threads do, and so sys_set_affinity
\* never gives a thread a core that does not exist.
THEOREM SchedTypesKept == SpecExit => []TypeOK
<1>1. IInv => TypeOK
  BY DEF IInv
<1> QED
  BY <1>1, SpecIInv, PTL

\* The same for a system in which no thread exits, the one the runs check.
THEOREM RightSpaceLoadedNoExit == Spec => []LoadedForThread
<1>1. IInv /\ [Next]_vars => IInv'
  BY NextIInv DEF NextExit
<1>2. IInv => LoadedForThread
  BY DEF IInv, CpuInv, LoadedForThread
<1> QED
  BY <1>1, <1>2, InitIInv, PTL DEF Spec
-----------------------------------------------------------------------------
\* The nodes of list L, all of them in N, are those of the sequence s, in its
\* order: both chains, both ends and the size counter agree with s, and no node
\* is linked twice.
Holds(L, N, s) ==
  /\ ListIn(L, N, N)
  /\ s \in Seq(N)
  /\ \A i, j \in 1 .. Len(s) : s[i] = s[j] => i = j
  /\ L.size = Len(s)
  /\ L.head = IF Len(s) = 0 THEN NULL ELSE s[1]
  /\ L.tail = IF Len(s) = 0 THEN NULL ELSE s[Len(s)]
  /\ \A i \in 1 .. Len(s) : L.next[s[i]] = IF i = Len(s) THEN NULL ELSE s[i + 1]
  /\ \A i \in 1 .. Len(s) : L.prev[s[i]] = IF i = 1 THEN NULL ELSE s[i - 1]

\* t is an element of the sequence s.
OnList(t, s) == \E i \in 1 .. Len(s) : s[i] = t

\* A sequence of one element.
LEMMA OneElement ==
  ASSUME NEW S, NEW s \in Seq(S), Len(s) = 1
  PROVE  s = <<s[1]>>
OBVIOUS

\* A non-empty set of naturals has a least element: the induction of the
\* lemmas below.
LEMMA LeastElement ==
  ASSUME NEW T \in SUBSET Nat, T # {}
  PROVE  \E x \in T : \A y \in T : x <= y
<1> DEFINE R == OpToRel(<, Nat)
<1>1. PICK x \in T : \A y \in T : ~(<<y, x>> \in R)
  BY NatLessThanWellFounded, WFMin, Zenon
<1>2. ASSUME NEW y \in T PROVE x <= y
  <2>1. ~(y < x)
    BY <1>1, Zenon DEF OpToRel
  <2> QED
    BY <2>1
<1> QED
  BY <1>2

\* The first k numbers are k numbers.
LEMMA CardinalityUpTo ==
  ASSUME NEW k \in Nat
  PROVE  Cardinality(1 .. k) = k
<1>1. Cardinality(1 .. k) = IF 1 > k THEN 0 ELSE k - 1 + 1
  BY FS_Interval
<1> QED
  BY <1>1

\* A list without repetitions is no longer than the set of its nodes.
LEMMA HoldsBound ==
  ASSUME NEW N, IsFiniteSet(N), NEW L, NEW s, Holds(L, N, s)
  PROVE  Len(s) \in Nat /\ Cardinality(N) \in Nat /\ Len(s) <= Cardinality(N)
<1>1. /\ s \in Seq(N) /\ Len(s) \in Nat /\ DOMAIN s = 1 .. Len(s)
      /\ \A i, j \in 1 .. Len(s) : s[i] = s[j] => i = j
  BY DEF Holds
<1>2. s \in [1 .. Len(s) -> N]
  BY <1>1
<1>3. s \in Injection(1 .. Len(s), N)
  BY <1>1, <1>2 DEF Injection, IsInjective
<1>4. Cardinality(1 .. Len(s)) <= Cardinality(N)
  BY <1>3, FS_Injection
<1>5. Cardinality(1 .. Len(s)) = Len(s)
  BY <1>1, CardinalityUpTo
<1>6. Cardinality(N) \in Nat
  BY FS_CardinalityType
<1> QED
  BY <1>1, <1>4, <1>5, <1>6

\* list_for_each meets the nodes of s, and then the end of the list.
LEMMA WalkIs ==
  ASSUME NEW N, IsFiniteSet(N), NULL \notin N, NEW L, NEW s, Holds(L, N, s)
  PROVE  Walk(L) = [i \in 1 .. Cardinality(N) + 1 |->
                      IF i <= Len(s) THEN s[i] ELSE NULL]
<1> DEFINE n == Cardinality(N)
           I == 1 .. n + 1
           step == [m \in N \cup {NULL} |-> IF m = NULL THEN NULL ELSE L.next[m]]
           Step(f) == [i \in I |-> IF i = 1 THEN L.head ELSE step[f[i - 1]]]
           w == [i \in I |-> IF i <= Len(s) THEN s[i] ELSE NULL]
<1>1. Len(s) \in Nat /\ n \in Nat /\ Len(s) <= n
  BY HoldsBound
<1>2. DOMAIN L.next = N
  BY DEF Holds, ListIn
<1>3. Walk(L) = CHOOSE f : f = Step(f)
  BY <1>2 DEF Walk
<1>4. \A i \in 1 .. Len(s) : s[i] \in N
  BY DEF Holds
<1>5. w = Step(w)
  <2>1. ASSUME NEW i \in I PROVE w[i] = Step(w)[i]
    <3>1. CASE i = 1
      BY <1>1, <3>1 DEF Holds
    <3>2. CASE i # 1 /\ i - 1 <= Len(s)
      <4>1. i - 1 \in 1 .. Len(s) /\ i - 1 \in I
        BY <1>1, <3>2
      <4>2. w[i - 1] = s[i - 1] /\ s[i - 1] \in N
        BY <1>4, <3>2, <4>1
      <4>3. step[s[i - 1]] = L.next[s[i - 1]]
        BY <4>2
      <4>4. L.next[s[i - 1]] = IF i - 1 = Len(s) THEN NULL ELSE s[i]
        BY <4>1 DEF Holds
      <4>5. Step(w)[i] = IF i - 1 = Len(s) THEN NULL ELSE s[i]
        BY <3>2, <4>2, <4>3, <4>4
      <4> QED
        BY <1>1, <3>2, <4>5
    <3>3. CASE i # 1 /\ i - 1 > Len(s)
      <4>1. i - 1 \in I /\ w[i - 1] = NULL /\ w[i] = NULL
        BY <1>1, <3>3
      <4> QED
        BY <3>3, <4>1
    <3> QED
      BY <1>1, <3>1, <3>2, <3>3
  <2> HIDE DEF step
  <2> QED
    BY <2>1, SMTT(30)
<1> HIDE DEF Step, w
<1>6. Walk(L) = Step(Walk(L))
  BY <1>3, <1>5
<1>7. ASSUME NEW i \in I, Walk(L)[i] # w[i] PROVE FALSE
  <2> DEFINE T == {k \in I : Walk(L)[k] # w[k]}
  <2>1. T \in SUBSET Nat /\ T # {}
    BY <1>1, <1>7
  <2>2. PICK k \in T : \A j \in T : k <= j
    BY <2>1, LeastElement, Zenon
  <2>3. /\ Walk(L)[k] = IF k = 1 THEN L.head ELSE step[Walk(L)[k - 1]]
        /\ w[k] = IF k = 1 THEN L.head ELSE step[w[k - 1]]
    BY <1>5, <1>6, Zenon DEF Step
  <2>4. k # 1
    BY <2>3
  <2>5. k - 1 \in I /\ ~(k <= k - 1)
    BY <1>1, <2>4
  <2>6. Walk(L)[k - 1] = w[k - 1]
    BY <2>2, <2>5
  <2> QED
    BY <2>3, <2>4, <2>6
<1>8. Walk(L) = [i \in I |-> Walk(L)[i]] /\ w = [i \in I |-> w[i]]
  BY <1>6 DEF Step, w
<1>9. Walk(L) = w
  BY <1>7, <1>8
<1> QED
  BY <1>9 DEF w

\* What the walk collects is s.
LEMMA ElementsIs ==
  ASSUME NEW N, IsFiniteSet(N), NULL \notin N, NEW L, NEW s, Holds(L, N, s)
  PROVE  Elements(L) = s
<1> DEFINE at == Walk(L)
           n == Cardinality(N)
           P == {i \in DOMAIN at : at[i] # NULL}
<1>1. Len(s) \in Nat /\ n \in Nat /\ Len(s) <= n
  BY HoldsBound
<1>2. at = [i \in 1 .. n + 1 |-> IF i <= Len(s) THEN s[i] ELSE NULL]
  BY WalkIs
<1>3. s \in Seq(N) /\ DOMAIN s = 1 .. Len(s) /\ \A i \in 1 .. Len(s) : s[i] \in N
  BY DEF Holds
<1> HIDE DEF at, n
<1>4. P = 1 .. Len(s)
  BY <1>1, <1>2, <1>3
<1>5. Elements(L) = [i \in 1 .. Cardinality(P) |-> at[i]]
  BY DEF Elements, at
<1> HIDE DEF P
<1>6. Cardinality(P) = Len(s)
  <2>1. Len(s) \in Nat
    BY <1>1
  <2>2. Cardinality(1 .. Len(s)) = Len(s)
    BY <2>1, CardinalityUpTo
  <2> QED
    BY <1>4, <2>2
<1>7. \A i \in 1 .. Len(s) : at[i] = s[i]
  BY <1>1, <1>2
<1>8. s = [i \in 1 .. Len(s) |-> s[i]]
  BY <1>3
<1> QED
  BY <1>5, <1>6, <1>7, <1>8

\* list_add_tail puts a node that is not in the list at its end.
LEMMA AddTailHolds ==
  ASSUME NEW N, NULL \notin N, NEW L, NEW s, Holds(L, N, s), NEW node \in N,
         \A i \in 1 .. Len(s) : s[i] # node
  PROVE  Holds(list_add_tail(L, node), N, Append(s, node))
<1> DEFINE M == list_add_tail(L, node)
           a == Append(s, node)
           n == Len(s)
<1>1. /\ s \in Seq(N) /\ n \in Nat /\ \A i \in 1 .. n : s[i] \in N
      /\ L.next \in [N -> N \cup {NULL}] /\ L.prev \in [N -> N \cup {NULL}]
      /\ L.size = n
  BY DEF Holds, ListIn
<1>2. /\ a \in Seq(N) /\ Len(a) = n + 1 /\ a[n + 1] = node
      /\ \A i \in 1 .. n : a[i] = s[i]
  BY <1>1
<1>3. ListIn(M, N, N)
  BY AddTailIn DEF Holds
<1>4. \A i, j \in 1 .. Len(a) : a[i] = a[j] => i = j
  <2>1. \A i, j \in 1 .. n : s[i] = s[j] => i = j
    BY DEF Holds
  <2>2. ASSUME NEW i \in 1 .. Len(a), NEW j \in 1 .. Len(a), a[i] = a[j] PROVE i = j
    <3>1. i \in 1 .. n \/ i = n + 1
      BY <1>1, <1>2
    <3>2. j \in 1 .. n \/ j = n + 1
      BY <1>1, <1>2
    <3> HIDE DEF a, n
    <3> QED
      BY <1>2, <2>1, <2>2, <3>1, <3>2 DEF n
  <2> QED
    BY <2>2
<1>5. CASE n = 0
  <2>1. L.head = NULL /\ L.tail = NULL
    BY <1>5 DEF Holds
  <2>2. M = [head |-> node, tail |-> node, size |-> L.size + 1,
             next |-> [L.next EXCEPT ![node] = NULL],
             prev |-> [L.prev EXCEPT ![node] = NULL]]
    BY <2>1, Zenon DEF list_add_tail, list_add_head, Holds, ListIn
  <2> HIDE DEF M, a
  <2>3. M.next[node] = NULL /\ M.prev[node] = NULL
    BY <1>1, <2>2
  <2>4. M.head = node /\ M.tail = node /\ M.size = 1
    BY <1>1, <1>5, <2>2
  <2>5. Len(a) = 1 /\ a[1] = node
    BY <1>2, <1>5
  <2>6. Holds(M, N, a)
    BY <1>2, <1>3, <1>4, <2>3, <2>4, <2>5, SMTT(30) DEF Holds
  <2> QED
    BY <2>6 DEF M, a
<1>6. CASE n # 0
  <2> DEFINE l == s[n]
  <2>1. /\ L.tail = l /\ L.head = s[1] /\ l \in N /\ L.next[l] = NULL
        /\ n \in 1 .. n /\ 1 \in 1 .. n
    BY <1>1, <1>6 DEF Holds
  <2>2. M = [head |-> L.head, tail |-> node, size |-> L.size + 1,
             next |-> [L.next EXCEPT ![node] = NULL, ![l] = node],
             prev |-> [L.prev EXCEPT ![node] = l]]
    <3>1. L.tail # NULL
      BY <2>1
    <3>2. M = [L EXCEPT !.next = [L.next EXCEPT ![node] = NULL, ![l] = node],
                        !.prev = [L.prev EXCEPT ![node] = l],
                        !.tail = node, !.size = L.size + 1]
      BY <2>1, <3>1, SMTT(30) DEF list_add_tail, list_insert_after, Store
    <3> HIDE DEF M, l
    <3> QED
      BY <3>2, Zenon DEF Holds, ListIn
  <2> HIDE DEF M, a
  <2>3. /\ M.next[node] = NULL /\ M.next[l] = node /\ M.prev[node] = l
        /\ \A m \in N : m # node /\ m # l => M.next[m] = L.next[m]
        /\ \A m \in N : m # node => M.prev[m] = L.prev[m]
    BY <1>1, <2>1, <2>2, SMTT(30)
  <2>4. M.head = s[1] /\ M.tail = node /\ M.size = n + 1
    BY <1>1, <2>1, <2>2
  <2>5. a[1] = s[1]
    BY <1>2, <2>1
  <2>6. \A i \in 1 .. Len(a) : M.next[a[i]] = IF i = Len(a) THEN NULL ELSE a[i + 1]
    <3>1. ASSUME NEW i \in 1 .. Len(a)
          PROVE  M.next[a[i]] = IF i = Len(a) THEN NULL ELSE a[i + 1]
      <4>1. CASE i = n + 1
        BY <1>2, <2>3, <4>1
      <4>2. CASE i = n
        BY <1>1, <1>2, <2>1, <2>3, <4>2, SMTT(30)
      <4>3. CASE i \in 1 .. n - 1
        <5>1. /\ i \in 1 .. n /\ i + 1 \in 1 .. n /\ i # n
              /\ a[i] = s[i] /\ a[i + 1] = s[i + 1]
          BY <1>1, <1>2, <4>3, SMTT(30)
        <5>2. s[i] \in N /\ s[i] # node /\ s[i] # l /\ L.next[s[i]] = s[i + 1]
          BY <1>1, <2>1, <5>1 DEF Holds
        <5> QED
          BY <1>1, <1>2, <2>3, <4>3, <5>1, <5>2, SMTT(30)
      <4> QED
        BY <1>1, <1>2, <1>6, <4>1, <4>2, <4>3
    <3> QED
      BY <3>1, SMTT(30)
  <2>7. \A i \in 1 .. Len(a) : M.prev[a[i]] = IF i = 1 THEN NULL ELSE a[i - 1]
    <3>1. ASSUME NEW i \in 1 .. Len(a)
          PROVE  M.prev[a[i]] = IF i = 1 THEN NULL ELSE a[i - 1]
      <4>1. CASE i = n + 1
        BY <1>1, <1>2, <1>6, <2>1, <2>3, <4>1, SMTT(30)
      <4>2. CASE i \in 1 .. n
        <5>1. a[i] = s[i] /\ (i # 1 => a[i - 1] = s[i - 1])
          BY <1>1, <1>2, <4>2
        <5>2. s[i] \in N /\ s[i] # node /\ L.prev[s[i]] = IF i = 1 THEN NULL ELSE s[i - 1]
          BY <1>1, <4>2, SMTT(30) DEF Holds
        <5> QED
          BY <2>3, <5>1, <5>2
      <4> QED
        BY <1>1, <1>2, <4>1, <4>2, SMTT(30)
    <3> QED
      BY <3>1
  <2>8. Holds(M, N, a)
    BY <1>1, <1>2, <1>3, <1>4, <2>4, <2>5, <2>6, <2>7 DEF Holds
  <2> QED
    BY <2>8 DEF M, a
<1> QED
  BY <1>5, <1>6

\* Removing the k-th element keeps the order of the others.
LEMMA WithoutIs ==
  ASSUME NEW N, NEW s \in Seq(N), NEW k \in 1 .. Len(s)
  PROVE  /\ RQ!Without(s, k) \in Seq(N)
         /\ Len(RQ!Without(s, k)) = Len(s) - 1
         /\ \A j \in 1 .. Len(s) - 1 :
              RQ!Without(s, k)[j] = IF j < k THEN s[j] ELSE s[j + 1]
<1> DEFINE r == RQ!Without(s, k)
<1>1. r = [j \in 1 .. Len(s) - 1 |-> IF j < k THEN s[j] ELSE s[j + 1]]
  BY DEF RQ!Without
<1>2. Len(s) - 1 \in Nat /\ \A j \in 1 .. Len(s) : s[j] \in N
  OBVIOUS
<1> HIDE DEF r
<1>3. \A j \in 1 .. Len(s) - 1 : r[j] \in N
  BY <1>1, <1>2
<1>4. r \in Seq(N) /\ Len(r) = Len(s) - 1
  BY <1>1, <1>2, <1>3
<1> QED
  BY <1>1, <1>4 DEF r

\* list_remove takes the k-th node out of the list and keeps the others.
LEMMA RemoveHolds ==
  ASSUME NEW N, NULL \notin N, NEW L, NEW s, Holds(L, N, s), NEW k \in 1 .. Len(s)
  PROVE  Holds(list_remove(L, s[k]), N, RQ!Without(s, k))
<1> DEFINE M == list_remove(L, s[k])
           r == RQ!Without(s, k)
           n == Len(s)
           before == L.prev[s[k]]
           after == L.next[s[k]]
<1>1. /\ s \in Seq(N) /\ n \in Nat \ {0} /\ \A i \in 1 .. n : s[i] \in N
      /\ L.next \in [N -> N \cup {NULL}] /\ L.prev \in [N -> N \cup {NULL}]
      /\ L.size = n /\ L.head = s[1] /\ L.tail = s[n]
      /\ \A i, j \in 1 .. n : s[i] = s[j] => i = j
  BY DEF Holds, ListIn
<1>2. /\ r \in Seq(N) /\ Len(r) = n - 1
      /\ \A j \in 1 .. n - 1 : r[j] = IF j < k THEN s[j] ELSE s[j + 1]
  BY <1>1, WithoutIs
<1>3. ListIn(M, N, N)
  BY <1>1, RemoveIn DEF Holds
<1>4. /\ before = IF k = 1 THEN NULL ELSE s[k - 1]
      /\ after = IF k = n THEN NULL ELSE s[k + 1]
  BY DEF Holds
<1>5. M = [head |-> IF before = NULL THEN after ELSE L.head,
           tail |-> IF after = NULL THEN before ELSE L.tail,
           size |-> L.size - 1,
           next |-> Store(L.next, before, after),
           prev |-> Store(L.prev, after, before)]
  <2>1. M = [L EXCEPT !.next = Store(L.next, before, after),
                      !.prev = Store(L.prev, after, before),
                      !.head = IF before = NULL THEN after ELSE L.head,
                      !.tail = IF after = NULL THEN before ELSE L.tail,
                      !.size = L.size - 1]
    BY DEF list_remove
  <2> HIDE DEF before, after, M
  <2> QED
    BY <2>1, Zenon DEF ListIn, Holds
<1> HIDE DEF M, r, before, after
<1>6. ASSUME NEW j \in 1 .. n, j # k
      PROVE  M.next[s[j]] = IF j = k - 1 THEN after ELSE L.next[s[j]]
  <2>1. CASE k = 1
    <3>1. before = NULL
      BY <1>4, <2>1
    <3>2. M.next = L.next
      BY <1>5, <3>1 DEF Store
    <3> QED
      BY <1>1, <2>1, <3>2
  <2>2. CASE k # 1
    <3>1. k - 1 \in 1 .. n /\ before = s[k - 1] /\ before \in N
      BY <1>1, <1>4, <2>2
    <3>2. M.next = [L.next EXCEPT ![s[k - 1]] = after]
      BY <1>5, <3>1 DEF Store
    <3>3. s[j] = s[k - 1] <=> j = k - 1
      BY <1>1, <3>1
    <3> QED
      BY <1>1, <3>1, <3>2, <3>3
  <2> QED
    BY <2>1, <2>2
<1>7. ASSUME NEW j \in 1 .. n, j # k
      PROVE  M.prev[s[j]] = IF j = k + 1 THEN before ELSE L.prev[s[j]]
  <2>1. CASE k = n
    <3>1. after = NULL
      BY <1>4, <2>1
    <3>2. M.prev = L.prev
      BY <1>5, <3>1 DEF Store
    <3> QED
      BY <1>1, <2>1, <3>2
  <2>2. CASE k # n
    <3>1. k + 1 \in 1 .. n /\ after = s[k + 1] /\ after \in N
      BY <1>1, <1>4, <2>2
    <3>2. M.prev = [L.prev EXCEPT ![s[k + 1]] = before]
      BY <1>5, <3>1 DEF Store
    <3>3. s[j] = s[k + 1] <=> j = k + 1
      BY <1>1, <3>1
    <3> QED
      BY <1>1, <3>1, <3>2, <3>3
  <2> QED
    BY <2>1, <2>2
<1>8. \A i, j \in 1 .. Len(r) : r[i] = r[j] => i = j
  <2>1. ASSUME NEW i \in 1 .. n - 1, NEW j \in 1 .. n - 1, r[i] = r[j] PROVE i = j
    <3> DEFINE a == IF i < k THEN i ELSE i + 1
               b == IF j < k THEN j ELSE j + 1
    <3>1. a \in 1 .. n /\ b \in 1 .. n /\ r[i] = s[a] /\ r[j] = s[b]
      BY <1>1, <1>2
    <3>2. a = b
      BY <1>1, <2>1, <3>1, ZenonT(40)
    <3> QED
      BY <3>2
  <2> QED
    BY <1>2, <2>1
<1>9. M.head = IF Len(r) = 0 THEN NULL ELSE r[1]
  <2>1. M.head = IF k = 1 THEN after ELSE s[1]
    <3>1. k # 1 => before # NULL
      BY <1>1, <1>4
    <3> QED
      BY <1>1, <1>4, <1>5, <3>1
  <2> QED
    BY <1>1, <1>2, <1>4, <2>1
<1>10. M.tail = IF Len(r) = 0 THEN NULL ELSE r[Len(r)]
  <2>1. M.tail = IF k = n THEN before ELSE s[n]
    <3>1. k # n => after # NULL
      BY <1>1, <1>4, SMTT(30)
    <3> QED
      BY <1>1, <1>4, <1>5, <3>1
  <2> QED
    BY <1>1, <1>2, <1>4, <2>1, SMTT(30)
<1>11. M.size = Len(r)
  BY <1>1, <1>2, <1>5, SMTT(30)
<1>12. ASSUME NEW i \in 1 .. n - 1
       PROVE  M.next[r[i]] = IF i = n - 1 THEN NULL ELSE r[i + 1]
  <2>0. i + 1 \in 1 .. n /\ i \in 1 .. n
    BY <1>1
  <2>1. CASE i < k - 1
    <3>1. r[i] = s[i] /\ i # k /\ i # k - 1 /\ i # n /\ i # n - 1 /\ r[i + 1] = s[i + 1]
      BY <1>1, <1>2, <2>0, <2>1, SMTT(30)
    <3>2. M.next[s[i]] = L.next[s[i]] /\ L.next[s[i]] = s[i + 1]
      BY <1>6, <2>0, <3>1, SMTT(30) DEF Holds
    <3> QED
      BY <3>1, <3>2
  <2>2. CASE i = k - 1
    <3>1. r[i] = s[i] /\ i # k /\ (i = n - 1 <=> k = n) /\ (k # n => r[i + 1] = s[k + 1])
      BY <1>1, <1>2, <2>0, <2>2
    <3>2. M.next[s[i]] = after
      BY <1>6, <2>0, <2>2, <3>1
    <3> QED
      BY <1>4, <3>1, <3>2
  <2>3. CASE i >= k
    <3>1. r[i] = s[i + 1] /\ i + 1 # k /\ i + 1 # k - 1 /\ (i = n - 1 <=> i + 1 = n)
      BY <1>1, <1>2, <2>0, <2>3
    <3>2. i + 1 # n => r[i + 1] = s[(i + 1) + 1]
      BY <1>1, <1>2, <2>0, <2>3
    <3>3. M.next[s[i + 1]] = L.next[s[i + 1]]
      BY <1>6, <2>0, <3>1
    <3>4. L.next[s[i + 1]] = IF i + 1 = n THEN NULL ELSE s[(i + 1) + 1]
      BY <2>0 DEF Holds
    <3> QED
      BY <3>1, <3>2, <3>3, <3>4
  <2> QED
    BY <1>1, <2>1, <2>2, <2>3
<1>13. ASSUME NEW i \in 1 .. n - 1
       PROVE  M.prev[r[i]] = IF i = 1 THEN NULL ELSE r[i - 1]
  <2>0. i + 1 \in 1 .. n /\ i \in 1 .. n
    BY <1>1
  <2>1. CASE i < k
    <3>1. r[i] = s[i] /\ i # k /\ i # k + 1 /\ (i # 1 => r[i - 1] = s[i - 1])
      BY <1>1, <1>2, <2>0, <2>1
    <3>2. M.prev[s[i]] = L.prev[s[i]] /\ L.prev[s[i]] = IF i = 1 THEN NULL ELSE s[i - 1]
      BY <1>7, <2>0, <3>1 DEF Holds
    <3> QED
      BY <3>1, <3>2
  <2>2. CASE i = k
    <3>1. r[i] = s[i + 1] /\ i + 1 = k + 1 /\ i + 1 # k /\ (i # 1 => r[i - 1] = s[i - 1])
      BY <1>1, <1>2, <2>0, <2>2
    <3>2. M.prev[s[i + 1]] = before
      BY <1>7, <2>0, <3>1
    <3> QED
      BY <1>4, <2>2, <3>1, <3>2
  <2>3. CASE i > k
    <3>1. r[i] = s[i + 1] /\ i + 1 # k + 1 /\ i + 1 # k /\ i # 1 /\ r[i - 1] = s[i]
      BY <1>1, <1>2, <2>0, <2>3
    <3>2. M.prev[s[i + 1]] = L.prev[s[i + 1]]
      BY <1>7, <2>0, <3>1
    <3>3. L.prev[s[i + 1]] = s[i]
      <4>1. L.prev[s[i + 1]] = IF i + 1 = 1 THEN NULL ELSE s[(i + 1) - 1]
        BY <2>0, SMTT(30) DEF Holds
      <4> QED
        BY <2>0, <4>1
    <3> QED
      BY <3>1, <3>2, <3>3
  <2> QED
    BY <1>1, <2>1, <2>2, <2>3
<1>14. Holds(M, N, r)
  BY <1>2, <1>3, <1>8, <1>9, <1>10, <1>11, <1>12, <1>13, SMTT(30) DEF Holds
<1> QED
  BY <1>14 DEF M, r

\* A list that holds a sequence is what its users expect of it.
LEMMA HoldsWellFormed ==
  ASSUME NEW N, IsFiniteSet(N), NULL \notin N, NEW L, NEW s, Holds(L, N, s)
  PROVE  WellFormed(L)
<1>1. Elements(L) = s
  BY ElementsIs
<1>2. Len(s) <= Cardinality(N) /\ DOMAIN L.next = N
  BY HoldsBound, SMTT(30) DEF Holds, ListIn
<1>3. s = <<>> <=> Len(s) = 0
  BY DEF Holds
<1> QED
  BY <1>1, <1>2, <1>3 DEF WellFormed, Holds

\* Every walk from the head of the list is the beginning of s.
LEMMA ChainIsPrefix ==
  ASSUME NEW N, NULL \notin N, NEW L, NEW s, Holds(L, N, s),
         NEW n \in Nat \ {0}, NEW t \in [1 .. n -> N], IsChain(L, t)
  PROVE  n <= Len(s) /\ \A i \in 1 .. n : t[i] = s[i]
<1> DEFINE T == {i \in 1 .. n : ~(i <= Len(s) /\ t[i] = s[i])}
<1>1. Len(s) \in Nat /\ Len(t) = n
  BY DEF Holds
<1>2. T = {}
  <2>1. SUFFICES ASSUME T # {} PROVE FALSE
    OBVIOUS
  <2>2. PICK x \in T : \A y \in T : x <= y
    <3>1. T \in SUBSET Nat
      OBVIOUS
    <3> HIDE DEF T
    <3> QED
      BY <2>1, <3>1, LeastElement
  <2>3. x \in 1 .. n /\ ~(x <= Len(s) /\ t[x] = s[x]) /\ t[x] \in N
    BY <2>2
  <2>4. t[x] = IF x = 1 THEN L.head ELSE L.next[t[x - 1]]
    BY <1>1, <2>3 DEF IsChain
  <2>5. CASE x = 1
    <3>1. L.head # NULL /\ L.head = IF Len(s) = 0 THEN NULL ELSE s[1]
      BY <2>3, <2>4, <2>5 DEF Holds
    <3> QED
      BY <1>1, <2>3, <2>4, <2>5, <3>1, SMTT(30)
  <2>6. CASE x # 1
    <3>1. x - 1 \in 1 .. n /\ ~(x <= x - 1)
      BY <2>3, <2>6
    <3>2. x - 1 \notin T
      BY <2>2, <3>1
    <3>3. x - 1 <= Len(s) /\ t[x - 1] = s[x - 1] /\ x - 1 \in 1 .. Len(s)
      BY <1>1, <3>1, <3>2, SMTT(30)
    <3>4. L.next[s[x - 1]] = IF x - 1 = Len(s) THEN NULL ELSE s[(x - 1) + 1]
      BY <3>3 DEF Holds
    <3>5. t[x] = s[x] /\ x - 1 # Len(s)
      BY <2>3, <2>4, <2>6, <3>3, <3>4
    <3> QED
      BY <1>1, <2>3, <3>3, <3>5
  <2> QED
    BY <2>5, <2>6
<1>3. \A i \in 1 .. n : i <= Len(s) /\ t[i] = s[i]
  BY <1>2
<1>4. n \in 1 .. n
  OBVIOUS
<1> QED
  BY <1>3, <1>4

\* sched_tick's walk stops at the first element of s that core c may run.
LEMMA FoundIs ==
  ASSUME NEW c, NEW L, NEW s, Holds(L, Workers, s)
  PROVE  Found(c, L) = {t \in Workers : \E k \in 1 .. Len(s) :
                          /\ t = s[k] /\ RunnableBy(c, s[k])
                          /\ \A j \in 1 .. k - 1 : ~RunnableBy(c, s[j])}
<1> DEFINE F == {t \in Workers : \E k \in 1 .. Len(s) :
                   /\ t = s[k] /\ RunnableBy(c, s[k])
                   /\ \A j \in 1 .. k - 1 : ~RunnableBy(c, s[j])}
<1>0. NULL \notin Workers /\ IsFiniteSet(Workers)
  BY SchedConstants DEF Threads
<1>1. ASSUME NEW t \in Found(c, L) PROVE t \in F
  <2>1. PICK n \in 1 .. Cardinality(Workers) : \E q \in [1 .. n -> Workers] :
          IsChain(L, q) /\ q[n] = t /\ \A i \in 1 .. n - 1 : ~RunnableBy(c, q[i])
    BY <1>1 DEF Found
  <2>2. PICK q \in [1 .. n -> Workers] :
          IsChain(L, q) /\ q[n] = t /\ \A i \in 1 .. n - 1 : ~RunnableBy(c, q[i])
    BY <2>1
  <2>3. n \in Nat \ {0}
    BY <2>1
  <2>4. n <= Len(s) /\ \A i \in 1 .. n : q[i] = s[i]
    BY <1>0, <2>2, <2>3, ChainIsPrefix
  <2>5. n \in 1 .. Len(s) /\ n \in 1 .. n /\ \A i \in 1 .. n - 1 : i \in 1 .. n
    BY <2>3, <2>4, HoldsBound, <1>0, SMTT(30)
  <2>6. t = s[n] /\ \A i \in 1 .. n - 1 : ~RunnableBy(c, s[i])
    BY <2>2, <2>4, <2>5
  <2>7. t \in Workers /\ RunnableBy(c, t)
    BY <1>1 DEF Found
  <2> QED
    BY <2>5, <2>6, <2>7
<1>2. ASSUME NEW t \in F PROVE t \in Found(c, L)
  <2>1. PICK k \in 1 .. Len(s) :
          /\ t = s[k] /\ RunnableBy(c, s[k])
          /\ \A j \in 1 .. k - 1 : ~RunnableBy(c, s[j])
    BY <1>2
  <2> DEFINE q == [i \in 1 .. k |-> s[i]]
  <2>2. k \in 1 .. Cardinality(Workers) /\ Len(s) \in Nat
    BY <1>0, HoldsBound, SMTT(30)
  <2>3. q \in [1 .. k -> Workers] /\ Len(q) = k
    BY <2>1, <2>2 DEF Holds
  <2>4. IsChain(L, q)
    <3>1. ASSUME NEW i \in 1 .. k
          PROVE  s[i] = IF i = 1 THEN L.head ELSE L.next[q[i - 1]]
      <4>1. CASE i = 1
        BY <2>2, <4>1, SMTT(30) DEF Holds
      <4>2. CASE i # 1
        <5>1. i - 1 \in 1 .. Len(s) /\ i - 1 # Len(s) /\ q[i - 1] = s[i - 1]
          BY <2>2, <4>2
        <5>2. L.next[s[i - 1]] = s[(i - 1) + 1]
          BY <5>1, Zenon DEF Holds
        <5> QED
          BY <2>2, <4>2, <5>1, <5>2
      <4> QED
        BY <4>1, <4>2, SMTT(30)
    <3> QED
      BY <2>3, <3>1, SMTT(30) DEF IsChain
  <2>5. q[k] = t /\ \A i \in 1 .. k - 1 : ~RunnableBy(c, q[i])
    BY <2>1, <2>2
  <2>6. RunnableBy(c, t) /\ t \in Workers
    BY <1>2, <2>1
  <2> HIDE DEF q
  <2> QED
    BY <2>2, <2>3, <2>4, <2>5, <2>6 DEF Found
<1> QED
  BY <1>1, <1>2

\* sched_tick picks the first thread of the queue that core c may run, finds
\* none only if there is none, and its walk always ends.
LEMMA PickIsFirst ==
  ASSUME NEW c, NEW L, NEW s, Holds(L, Workers, s)
  PROVE  /\ ~Endless(c, L)
         /\ \/ /\ FirstRunnable(c, L) = NULL
               /\ \A i \in 1 .. Len(s) : ~RunnableBy(c, s[i])
            \/ \E k \in 1 .. Len(s) :
                 /\ FirstRunnable(c, L) = s[k]
                 /\ RunnableBy(c, s[k])
                 /\ \A j \in 1 .. k - 1 : ~RunnableBy(c, s[j])
<1>0. NULL \notin Workers /\ IsFiniteSet(Workers)
  BY SchedConstants DEF Threads
<1>1. Len(s) \in Nat /\ Cardinality(Workers) \in Nat /\ Len(s) <= Cardinality(Workers)
  BY <1>0, HoldsBound
<1>2. ~Endless(c, L)
  <2>1. Walk(L) = [i \in 1 .. Cardinality(Workers) + 1 |->
                      IF i <= Len(s) THEN s[i] ELSE NULL]
    BY <1>0, WalkIs
  <2>2. /\ Cardinality(Workers) + 1 \in 1 .. Cardinality(Workers) + 1
        /\ ~(Cardinality(Workers) + 1 <= Len(s))
    BY <1>1
  <2>3. Walk(L)[Cardinality(Workers) + 1] = NULL
    BY <2>1, <2>2
  <2> QED
    BY <2>3 DEF Endless
<1>3. \A i \in 1 .. Len(s) : s[i] \in Workers
  BY DEF Holds
<1>4. CASE \A i \in 1 .. Len(s) : ~RunnableBy(c, s[i])
  <2>1. Found(c, L) = {}
    BY <1>4, FoundIs
  <2> QED
    BY <1>2, <1>4, <2>1 DEF FirstRunnable
<1>5. CASE ~ \A i \in 1 .. Len(s) : ~RunnableBy(c, s[i])
  <2> DEFINE T == {i \in 1 .. Len(s) : RunnableBy(c, s[i])}
  <2>1. PICK k \in T : \A y \in T : k <= y
    <3>1. T \in SUBSET Nat /\ T # {}
      BY <1>1, <1>5
    <3> HIDE DEF T
    <3> QED
      BY <3>1, LeastElement
  <2>2. k \in 1 .. Len(s) /\ RunnableBy(c, s[k])
    BY <2>1
  <2>3. \A j \in 1 .. k - 1 : ~RunnableBy(c, s[j])
    BY <1>1, <2>1, <2>2
  <2>4. s[k] \in Found(c, L)
    BY <1>3, <2>2, <2>3, FoundIs
  <2> DEFINE t == FirstRunnable(c, L)
  <2>5. t \in Found(c, L)
    BY <2>4 DEF FirstRunnable
  <2> HIDE DEF t
  <2>6. PICK m \in 1 .. Len(s) :
          /\ t = s[m] /\ RunnableBy(c, s[m])
          /\ \A j \in 1 .. m - 1 : ~RunnableBy(c, s[j])
    BY <2>5, FoundIs
  <2> QED
    BY <1>2, <2>6 DEF t
<1> QED
  BY <1>4, <1>5

\* Appending a node, or removing the k-th one, changes what is on the list
\* by that node.
LEMMA OnAppended ==
  ASSUME NEW N, NEW s \in Seq(N), NEW node \in N, NEW t
  PROVE  OnList(t, Append(s, node)) <=> OnList(t, s) \/ t = node
<1> DEFINE a == Append(s, node)
<1>1. /\ Len(s) \in Nat /\ Len(a) = Len(s) + 1 /\ a[Len(s) + 1] = node
      /\ \A i \in 1 .. Len(s) : a[i] = s[i]
  OBVIOUS
<1> HIDE DEF a
<1>2. ASSUME OnList(t, a) PROVE OnList(t, s) \/ t = node
  <2>1. PICK i \in 1 .. Len(a) : a[i] = t
    BY <1>2 DEF OnList
  <2>2. i = Len(s) + 1 \/ i \in 1 .. Len(s)
    BY <1>1
  <2> QED
    BY <1>1, <2>1, <2>2 DEF OnList
<1>3. ASSUME OnList(t, s) PROVE OnList(t, a)
  <2>1. PICK i \in 1 .. Len(s) : s[i] = t
    BY <1>3 DEF OnList
  <2>2. i \in 1 .. Len(a) /\ a[i] = t
    BY <1>1, <2>1
  <2> QED
    BY <2>2 DEF OnList
<1>4. ASSUME t = node PROVE OnList(t, a)
  <2>1. Len(s) + 1 \in 1 .. Len(a)
    BY <1>1
  <2> QED
    BY <1>1, <1>4, <2>1 DEF OnList
<1> QED
  BY <1>2, <1>3, <1>4 DEF a

\* Removing the k-th thread leaves exactly the others on the list.
LEMMA OnWithout ==
  ASSUME NEW N, NEW L, NEW s, Holds(L, N, s), NEW k \in 1 .. Len(s), NEW t
  PROVE  OnList(t, RQ!Without(s, k)) <=> OnList(t, s) /\ t # s[k]
<1> DEFINE r == RQ!Without(s, k)
<1>0. s \in Seq(N) /\ Len(s) \in Nat /\ \A i, j \in 1 .. Len(s) : s[i] = s[j] => i = j
  BY DEF Holds
<1>1. /\ Len(r) = Len(s) - 1
      /\ \A j \in 1 .. Len(s) - 1 : r[j] = IF j < k THEN s[j] ELSE s[j + 1]
  BY <1>0, WithoutIs
<1> HIDE DEF r
<1>2. ASSUME OnList(t, r) PROVE OnList(t, s) /\ t # s[k]
  <2>1. PICK i \in 1 .. Len(r) : r[i] = t
    BY <1>2 DEF OnList
  <2> DEFINE j == IF i < k THEN i ELSE i + 1
  <2>2. j \in 1 .. Len(s) /\ j # k /\ s[j] = t
    BY <1>0, <1>1, <2>1
  <2> QED
    BY <1>0, <2>2 DEF OnList
<1>3. ASSUME OnList(t, s), t # s[k] PROVE OnList(t, r)
  <2>1. PICK j \in 1 .. Len(s) : s[j] = t
    BY <1>3 DEF OnList
  <2> DEFINE i == IF j < k THEN j ELSE j - 1
  <2>2. i \in 1 .. Len(r) /\ r[i] = t
    <3>1. CASE j < k
      BY <1>0, <1>1, <2>1, <3>1
    <3>2. CASE ~(j < k)
      <4>1. j # k /\ j - 1 \in 1 .. Len(s) - 1 /\ ~(j - 1 < k) /\ (j - 1) + 1 = j
        BY <1>0, <1>3, <2>1, <3>2
      <4>2. r[j - 1] = s[(j - 1) + 1]
        BY <1>1, <4>1
      <4> QED
        BY <1>1, <2>1, <3>2, <4>1, <4>2
    <3> QED
      BY <3>1, <3>2
  <2> QED
    BY <2>2 DEF OnList
<1> QED
  BY <1>2, <1>3 DEF r
=============================================================================
