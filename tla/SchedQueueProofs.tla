-------------------------- MODULE SchedQueueProofs --------------------------
(***************************************************************************)
(* While no thread exits, the ready queue is in order: it holds the ready  *)
(* threads, each once, a CPU resumes a thread from its own registers, and  *)
(* the scheduler implements the first-in first-out queue of ReadyQueue.    *)
(*                                                                         *)
(* The invariant ties together three views of a thread: its state, the     *)
(* sequence of the queue's nodes (Holds), and the CPUs that execute it or  *)
(* have its registers.                                                     *)
(***************************************************************************)
EXTENDS SchedProofs

\* What a CPU executes and whose registers it has, while no thread exits.
ContextInv ==
  /\ \A c \in CPUs : pc[c] # "stuck"
  /\ \A c \in CPUs : pc[c] = "switch" <=> qlock = c
  /\ \A c \in CPUs : thread[c] \in Workers => state[thread[c]] = "RUNNING"
  /\ \A c \in CPUs : thread[c] \in IdleThreads => thread[c] = Idle(c)
  /\ \A c, d \in CPUs : thread[c] = thread[d] /\ thread[c] # NULL => c = d
  /\ \A c \in CPUs : regs[c] = IF pc[c] = "switch" THEN prev[c] ELSE thread[c]
  /\ \A c, d \in CPUs : regs[c] = regs[d] /\ regs[c] # NULL => c = d
  /\ \A t \in Threads : saved[t] <=> \A c \in CPUs : regs[c] # t

\* A thread between thread_create and thread_resume belongs to one CPU.
CreationInv ==
  /\ \A c \in CPUs : pc[c] = "resume" => state[newThread[c]] = "SUSPENDED"
  /\ \A c, d \in CPUs : pc[c] = "resume" /\ pc[d] = "resume"
                          /\ newThread[c] = newThread[d] => c = d
  /\ \A t \in Workers : state[t] = "none" => coreId[t] = 0

\* The queue holds the ready threads.
QueueInv ==
  /\ Holds(queue, Workers, Elements(queue))
  /\ \A t \in Workers : t \in Ready <=> OnList(t, Elements(queue))

QInv == IInv /\ ContextInv /\ CreationInv /\ QueueInv
-----------------------------------------------------------------------------
\* The queue once CPU c has put its thread back.
Requeued(c) ==
  IF thread[c] \in Workers THEN Append(Elements(queue), thread[c]) ELSE Elements(queue)

\* Putting the current thread back appends it, if it is not the idle thread.
LEMMA PutBackHolds ==
  ASSUME QInv, NEW c \in CPUs
  PROVE  /\ Holds(PutBack(c), Workers, Requeued(c))
         /\ \A t \in Workers : OnList(t, Requeued(c)) <=>
              state[t] = "RUNNING" /\ \A d \in CPUs \ {c} : thread[d] # t
<1> DEFINE s == Elements(queue)
<1>0. /\ Holds(queue, Workers, s) /\ s \in Seq(Workers)
      /\ \A t \in Workers : t \in Ready <=> OnList(t, s)
  BY DEF QInv, QueueInv, Holds
<1>1. NULL \notin Workers /\ Workers \cap IdleThreads = {}
  BY SchedConstants DEF Threads
<1>2. CASE thread[c] \in Workers
  <2>1. /\ state[thread[c]] = "RUNNING" /\ thread[c] # NULL
        /\ \A d \in CPUs : thread[d] = thread[c] => d = c
    BY <1>1, <1>2 DEF QInv, ContextInv
  <2>2. PutBack(c) = list_add_tail(queue, thread[c])
    BY <2>1 DEF PutBack
  <2>3. thread[c] \notin Ready
    BY DEF Ready
  <2>4. \A i \in 1 .. Len(s) : s[i] # thread[c]
    BY <1>0, <1>2, <2>3 DEF OnList
  <2>5. Holds(list_add_tail(queue, thread[c]), Workers, Append(s, thread[c]))
    BY <1>0, <1>1, <1>2, <2>4, AddTailHolds
  <2>6. \A t \in Workers : OnList(t, Append(s, thread[c])) <=> OnList(t, s) \/ t = thread[c]
    BY <1>0, <1>2, OnAppended
  <2>7. Requeued(c) = Append(s, thread[c])
    BY <1>2 DEF Requeued
  <2> HIDE DEF s
  <2> QED
    BY <1>0, <2>1, <2>2, <2>5, <2>6, <2>7 DEF Ready
<1>3. CASE thread[c] \notin Workers
  <2>1. thread[c] # NULL => thread[c] \in IdleThreads
    BY <1>3 DEF QInv, IInv, TypeOK, Threads
  <2>2. thread[c] # NULL => state[thread[c]] = "SUSPENDED"
    BY <2>1 DEF QInv, ContextInv, IInv
  <2>3. PutBack(c) = queue /\ Requeued(c) = s
    BY <1>3, <2>2 DEF PutBack, Requeued
  <2> HIDE DEF s
  <2> QED
    BY <1>0, <1>3, <2>3 DEF Ready
<1> QED
  BY <1>2, <1>3

\* What the first part of sched_tick does to the queue and to the CPU.
LEMMA PickEffect ==
  ASSUME QInv, NEW c \in CPUs, SchedPick(c)
  PROVE  /\ pc[c] = "tick" /\ qlock = NULL /\ qlock' = c
         /\ pc' = [pc EXCEPT ![c] = "switch"]
         /\ prev' = [prev EXCEPT ![c] = thread[c]]
         /\ UNCHANGED <<perThread, loaded, oldProc, newThread, procs>>
         /\ \/ /\ \A i \in 1 .. Len(Requeued(c)) : coreId[Requeued(c)[i]] # c
               /\ Holds(queue', Workers, Requeued(c))
               /\ thread' = [thread EXCEPT ![c] = Idle(c)]
            \/ \E k \in 1 .. Len(Requeued(c)) :
                 /\ coreId[Requeued(c)[k]] = c
                 /\ \A j \in 1 .. k - 1 : coreId[Requeued(c)[j]] # c
                 /\ Holds(queue', Workers, RQ!Without(Requeued(c), k))
                 /\ thread' = [thread EXCEPT ![c] = Requeued(c)[k]]
<1> DEFINE L == PutBack(c)
           next == FirstRunnable(c, L)
           q == Requeued(c)
<1>1. Holds(L, Workers, q)
  BY PutBackHolds
<1>2. \A i \in 1 .. Len(q) : q[i] \in Workers /\ q[i] # NULL
  BY <1>1, SchedConstants DEF Holds, Threads
<1>3. /\ ~Endless(c, L)
      /\ \/ next = NULL /\ \A i \in 1 .. Len(q) : ~RunnableBy(c, q[i])
         \/ \E k \in 1 .. Len(q) :
              /\ next = q[k] /\ RunnableBy(c, q[k])
              /\ \A j \in 1 .. k - 1 : ~RunnableBy(c, q[j])
  BY <1>1, PickIsFirst, Zenon
<1>4. /\ queue' = IF next = NULL THEN L ELSE list_remove(L, next)
      /\ thread' = [thread EXCEPT ![c] = IF Endless(c, L) THEN thread[c]
                                         ELSE IF next = NULL THEN Idle(c) ELSE next]
      /\ pc' = [pc EXCEPT ![c] = IF Endless(c, L) THEN "stuck" ELSE "switch"]
  BY DEF SchedPick, Goto
<1>5. /\ pc[c] = "tick" /\ qlock = NULL /\ qlock' = c
      /\ prev' = [prev EXCEPT ![c] = thread[c]]
      /\ UNCHANGED <<perThread, loaded, oldProc, newThread, procs>>
  BY DEF SchedPick
<1>6. pc' = [pc EXCEPT ![c] = "switch"]
  BY <1>3, <1>4
<1> HIDE DEF L, next, q
<1>7. CASE next = NULL /\ \A i \in 1 .. Len(q) : ~RunnableBy(c, q[i])
  <2>1. \A i \in 1 .. Len(q) : coreId[q[i]] # c
    BY <1>2, <1>7 DEF RunnableBy
  <2>2. queue' = L /\ thread' = [thread EXCEPT ![c] = Idle(c)]
    BY <1>3, <1>4, <1>7
  <2> QED
    BY <1>1, <1>5, <1>6, <2>1, <2>2 DEF q
<1>8. CASE \E k \in 1 .. Len(q) :
              /\ next = q[k] /\ RunnableBy(c, q[k])
              /\ \A j \in 1 .. k - 1 : ~RunnableBy(c, q[j])
  <2>1. PICK k \in 1 .. Len(q) :
              /\ next = q[k] /\ RunnableBy(c, q[k])
              /\ \A j \in 1 .. k - 1 : ~RunnableBy(c, q[j])
    BY <1>8
  <2>2. next # NULL
    BY <1>2, <2>1
  <2>3. queue' = list_remove(L, q[k]) /\ thread' = [thread EXCEPT ![c] = q[k]]
    BY <1>3, <1>4, <2>1, <2>2
  <2>4. Holds(queue', Workers, RQ!Without(q, k))
    BY <1>1, <2>3, RemoveHolds, SchedConstants DEF Threads
  <2>5. coreId[q[k]] = c /\ \A j \in 1 .. k - 1 : coreId[q[j]] # c
    <3>1. \A j \in 1 .. k - 1 : j \in 1 .. Len(q)
      BY <1>1 DEF Holds
    <3> QED
      BY <1>2, <2>1, <3>1 DEF RunnableBy
  <2> QED
    BY <1>5, <1>6, <2>3, <2>4, <2>5, Zenon DEF q
<1> QED
  BY <1>3, <1>7, <1>8
-----------------------------------------------------------------------------
\* sched_init and the boot code leave a queue with the UI's main thread in it.
LEMMA InitQInv == Init => QInv
<1> SUFFICES ASSUME Init PROVE QInv
  OBVIOUS
<1> USE SchedConstants
<1>1. IInv
  BY InitIInv
<1>2. /\ NULL \notin Workers /\ NULL \notin Threads /\ NULL \notin CPUs
      /\ Workers \cap IdleThreads = {}
      /\ \A t \in Workers : t \in Threads /\ t \notin IdleThreads
  BY DEF Threads
<1> DEFINE L0 == list_init(Workers)
           e == <<>>
<1>3. Holds(L0, Workers, e)
  <2>1. ListIn(L0, Workers, Workers)
    BY DEF list_init, ListIn
  <2>2. L0.size = 0 /\ L0.head = NULL /\ L0.tail = NULL
    BY DEF list_init
  <2>3. e \in Seq(Workers) /\ Len(e) = 0
    OBVIOUS
  <2> HIDE DEF L0, e
  <2> QED
    BY <2>1, <2>2, <2>3 DEF Holds
<1>4. Holds(queue, Workers, Append(e, UiThread))
  <2>1. \A i \in 1 .. Len(e) : e[i] # UiThread
    OBVIOUS
  <2>2. Holds(list_add_tail(L0, UiThread), Workers, Append(e, UiThread))
    BY <1>2, <1>3, <2>1, AddTailHolds, Zenon
  <2> QED
    BY <2>2 DEF Init
<1>5. Elements(queue) = Append(e, UiThread)
  BY <1>2, <1>4, ElementsIs
<1>6. \A t \in Workers : OnList(t, Elements(queue)) <=> t = UiThread
  <2>1. Len(Append(e, UiThread)) = 1 /\ Append(e, UiThread)[1] = UiThread
    OBVIOUS
  <2> QED
    BY <1>5, <2>1 DEF OnList
<1>7. \A t \in Workers : t \in Ready <=> t = UiThread
  BY <1>2 DEF Init, Ready
<1>8. QueueInv
  BY <1>4, <1>5, <1>6, <1>7 DEF QueueInv
<1>9. ContextInv
  BY <1>2 DEF Init, ContextInv, Threads
<1>10. CreationInv
  BY <1>2 DEF Init, CreationInv
<1> QED
  BY <1>1, <1>8, <1>9, <1>10 DEF QInv

\* A step that leaves the queue, the states and cpu->thread alone keeps the
\* queue what it is.
LEMMA QueueKept ==
  ASSUME QueueInv, queue' = queue, thread' = thread,
         \A t \in Workers : state'[t] = "RUNNING" <=> state[t] = "RUNNING"
  PROVE  QueueInv'
<1>1. Ready' = Ready
  BY DEF Ready
<1> QED
  BY <1>1, SMTT(30) DEF QueueInv, Holds, ListIn, OnList

\* sched_tick, first part.
LEMMA PickQInv ==
  ASSUME QInv, NEW c \in CPUs, SchedPick(c)
  PROVE  ContextInv' /\ CreationInv' /\ QueueInv'
<1> USE SchedConstants
<1> DEFINE q == Requeued(c)
<1>0. IInv /\ TypeOK /\ ContextInv /\ CreationInv /\ QueueInv
  BY DEF QInv, IInv
<1>1. /\ pc[c] = "tick" /\ qlock = NULL /\ qlock' = c
      /\ pc' = [pc EXCEPT ![c] = "switch"]
      /\ prev' = [prev EXCEPT ![c] = thread[c]]
      /\ state' = state /\ coreId' = coreId /\ saved' = saved
      /\ regs' = regs /\ newThread' = newThread
  BY PickEffect DEF perThread, loaded
<1>2. /\ Holds(PutBack(c), Workers, q)
      /\ \A t \in Workers : OnList(t, q) <=>
              state[t] = "RUNNING" /\ \A d \in CPUs \ {c} : thread[d] # t
  BY PutBackHolds
<1>3. \/ /\ Holds(queue', Workers, q)
         /\ thread' = [thread EXCEPT ![c] = Idle(c)]
      \/ \E k \in 1 .. Len(q) :
           /\ Holds(queue', Workers, RQ!Without(q, k))
           /\ thread' = [thread EXCEPT ![c] = q[k]]
  BY PickEffect
<1> HIDE DEF q
<1>4. /\ NULL \notin Workers /\ NULL \notin CPUs /\ IsFiniteSet(Workers)
      /\ Idle(c) \in IdleThreads /\ Idle(c) \notin Workers /\ Idle(c) # NULL
      /\ Workers \cap IdleThreads = {}
      /\ \A d \in CPUs : Idle(d) = Idle(c) => d = c
  BY DEF Threads, IdleThreads, Idle
<1>5. /\ \A d \in CPUs \ {c} : thread'[d] = thread[d] /\ pc'[d] = pc[d] /\ prev'[d] = prev[d]
      /\ pc'[c] = "switch" /\ prev'[c] = thread[c]
  BY <1>0, <1>1, <1>3 DEF TypeOK
<1>6. /\ \/ thread'[c] = Idle(c)
         \/ thread'[c] \in Workers /\ OnList(thread'[c], q)
      /\ QueueInv'
  <2>1. CASE Holds(queue', Workers, q) /\ thread' = [thread EXCEPT ![c] = Idle(c)]
    <3>1. thread'[c] = Idle(c)
      BY <1>0, <2>1 DEF TypeOK
    <3>2. Elements(queue') = q
      BY <1>4, <2>1, ElementsIs
    <3>3. \A t \in Workers : t \in Ready' <=> OnList(t, q)
      BY <1>1, <1>2, <1>4, <1>5, <3>1 DEF Ready
    <3> QED
      BY <2>1, <3>1, <3>2, <3>3 DEF QueueInv
  <2>2. ASSUME NEW k \in 1 .. Len(q), Holds(queue', Workers, RQ!Without(q, k)),
               thread' = [thread EXCEPT ![c] = q[k]]
        PROVE  /\ thread'[c] \in Workers /\ OnList(thread'[c], q)
               /\ QueueInv'
    <3>1. thread'[c] = q[k]
      BY <1>0, <2>2 DEF TypeOK
    <3>2. q[k] \in Workers /\ OnList(q[k], q)
      BY <1>2 DEF Holds, OnList
    <3>3. Elements(queue') = RQ!Without(q, k)
      BY <1>4, <2>2, ElementsIs
    <3>4. \A t \in Workers : OnList(t, RQ!Without(q, k)) <=> OnList(t, q) /\ t # q[k]
      BY <1>2, OnWithout
    <3>5. \A t \in Workers : t \in Ready' <=>
             /\ state[t] = "RUNNING" /\ t # q[k]
             /\ \A d \in CPUs \ {c} : thread[d] # t
      BY <1>1, <1>5, <3>1 DEF Ready
    <3>6. \A t \in Workers : t \in Ready' <=> OnList(t, RQ!Without(q, k))
      BY <1>2, <3>4, <3>5
    <3> QED
      BY <2>2, <3>1, <3>2, <3>3, <3>6 DEF QueueInv
  <2> QED
    BY <1>3, <2>1, <2>2
<1>7. ContextInv'
  <2>1. \A d \in CPUs : pc[d] # "switch"
    BY <1>0, <1>1, <1>4 DEF ContextInv
  <2>2. \A d \in CPUs : pc'[d] # "stuck" /\ (pc'[d] = "switch" <=> qlock' = d)
    BY <1>0, <1>1, <1>5, <2>1, SMTT(30) DEF ContextInv
  <2>3. \A d \in CPUs : thread'[d] \in Workers => state'[thread'[d]] = "RUNNING"
    BY <1>0, <1>1, <1>2, <1>4, <1>5, <1>6, SMTT(30) DEF ContextInv
  <2>4. \A d \in CPUs : thread'[d] \in IdleThreads => thread'[d] = Idle(d)
    BY <1>0, <1>4, <1>5, <1>6 DEF ContextInv
  <2>5. \A d, e \in CPUs : thread'[d] = thread'[e] /\ thread'[d] # NULL => d = e
    <3>1. \A d \in CPUs \ {c} : thread[d] # thread'[c]
      <4>1. CASE thread'[c] = Idle(c)
        BY <1>0, <1>4, <4>1 DEF ContextInv
      <4>2. CASE thread'[c] \in Workers /\ OnList(thread'[c], q)
        BY <1>2, <4>2
      <4> QED
        BY <1>6, <4>1, <4>2
    <3>2. \A d, e \in CPUs : thread[d] = thread[e] /\ thread[d] # NULL => d = e
      BY <1>0 DEF ContextInv
    <3> QED
      BY <1>5, <3>1, <3>2
  <2>6. \A d \in CPUs : regs'[d] = IF pc'[d] = "switch" THEN prev'[d] ELSE thread'[d]
    BY <1>0, <1>1, <1>5, <2>1 DEF ContextInv
  <2>7. /\ \A d, e \in CPUs : regs'[d] = regs'[e] /\ regs'[d] # NULL => d = e
        /\ \A t \in Threads : saved'[t] <=> \A d \in CPUs : regs'[d] # t
    BY <1>0, <1>1 DEF ContextInv
  <2> QED
    BY <2>2, <2>3, <2>4, <2>5, <2>6, <2>7, SMTT(30) DEF ContextInv
<1>8. CreationInv'
  <2>1. \A d \in CPUs : pc'[d] = "resume" => pc[d] = "resume"
    BY <1>5
  <2> QED
    BY <1>0, <1>1, <2>1 DEF CreationInv
<1> QED
  BY <1>6, <1>7, <1>8

\* sched_tick, second part.
LEMMA SwitchQInv ==
  ASSUME QInv, NEW c \in CPUs, SchedSwitch(c)
  PROVE  ContextInv' /\ CreationInv' /\ QueueInv' /\ regs'[c] = thread[c]
<1> USE SchedConstants
<1>0. IInv /\ TypeOK /\ CpuInv(c) /\ ContextInv /\ CreationInv /\ QueueInv
  BY DEF QInv, IInv
<1>1. /\ pc[c] = "switch" /\ pc' = [pc EXCEPT ![c] = "user"]
      /\ prev' = [prev EXCEPT ![c] = NULL] /\ qlock' = NULL
      /\ UNCHANGED <<queue, state, coreId, thread, newThread>>
  BY DEF SchedSwitch, Goto
<1>2. NULL \notin CPUs /\ NULL \notin Threads
  BY DEF Threads
<1>3. /\ \A d \in CPUs \ {c} : pc'[d] = pc[d] /\ prev'[d] = prev[d]
      /\ pc'[c] = "user" /\ prev'[c] = NULL
  BY <1>0, <1>1 DEF TypeOK
<1>4. \A d \in CPUs : pc[d] = "switch" => d = c
  BY <1>0, <1>1, <1>2, SMTT(30) DEF ContextInv
<1>5. \A d \in CPUs \ {c} : regs[d] = thread[d]
  BY <1>0, <1>4 DEF ContextInv
<1>6. regs[c] = prev[c] /\ thread[c] \in Threads /\ thread[c] # NULL
  BY <1>0, <1>1, SMTT(30) DEF ContextInv, CpuInv, TypeOK
<1>7. \A d \in CPUs \ {c} : thread[d] # thread[c]
  BY <1>0, <1>6 DEF ContextInv
<1>8. \A d, e \in CPUs : regs[d] = regs[e] /\ regs[d] # NULL => d = e
  BY <1>0 DEF ContextInv
<1>9. \A t \in Threads : saved[t] <=> \A d \in CPUs : regs[d] # t
  BY <1>0 DEF ContextInv
<1>10. /\ regs' = [regs EXCEPT ![c] = thread[c]]
       /\ \A t \in Threads : saved'[t] <=> \A d \in CPUs : regs'[d] # t
  <2>1. CASE prev[c] = thread[c]
    <3>1. regs' = regs /\ saved' = saved
      BY <2>1 DEF SchedSwitch
    <3> QED
      BY <1>0, <1>6, <1>9, <2>1, <3>1, SMTT(30) DEF TypeOK
  <2>2. CASE prev[c] # thread[c]
    <3>1. saved' = SavedAfter(c) /\ regs' = [regs EXCEPT ![c] = RegsAfter(c)]
      BY <2>2 DEF SchedSwitch
    <3>2. saved[thread[c]]
      BY <1>5, <1>6, <1>7, <1>9, <2>2
    <3>3. regs' = [regs EXCEPT ![c] = thread[c]]
      BY <3>1, <3>2 DEF RegsAfter
    <3>4. regs'[c] = thread[c] /\ \A d \in CPUs \ {c} : regs'[d] = regs[d]
      BY <1>0, <3>3 DEF TypeOK
    <3>5. ASSUME NEW t \in Threads PROVE saved'[t] <=> \A d \in CPUs : regs'[d] # t
      <4>1. CASE t = thread[c]
        <5>1. saved'[t] = FALSE
          BY <1>0, <1>6, <3>1, <4>1 DEF SavedAfter, TypeOK
        <5> QED
          BY <3>4, <4>1, <5>1
      <4>2. CASE t # thread[c] /\ t = prev[c]
        <5>1. saved'[t] = TRUE
          BY <1>0, <1>2, <1>6, <3>1, <4>2, Zenon DEF SavedAfter, TypeOK
        <5>2. \A d \in CPUs \ {c} : regs[d] # t
          BY <1>2, <1>6, <1>8, <4>2
        <5> QED
          BY <3>4, <4>2, <5>1, <5>2
      <4>3. CASE t # thread[c] /\ t # prev[c]
        <5>1. saved'[t] = saved[t]
          BY <1>0, <1>6, <3>1, <4>3, SMTT(30) DEF SavedAfter, TypeOK
        <5> QED
          BY <1>6, <1>9, <3>4, <4>3, <5>1
      <4> QED
        BY <4>1, <4>2, <4>3
    <3> QED
      BY <3>3, <3>5, Zenon
  <2> QED
    BY <2>1, <2>2
<1>11. regs'[c] = thread[c] /\ \A d \in CPUs \ {c} : regs'[d] = thread[d]
  BY <1>0, <1>5, <1>10, SMTT(30) DEF TypeOK
<1>12. ContextInv'
  <2>1. \A d \in CPUs : pc'[d] # "stuck" /\ pc'[d] # "switch"
    BY <1>0, <1>3, <1>4 DEF ContextInv
  <2>2. \A d \in CPUs : pc'[d] = "switch" <=> qlock' = d
    BY <1>1, <1>2, <2>1
  <2>3. /\ \A d \in CPUs : thread'[d] \in Workers => state'[thread'[d]] = "RUNNING"
        /\ \A d \in CPUs : thread'[d] \in IdleThreads => thread'[d] = Idle(d)
        /\ \A d, e \in CPUs : thread'[d] = thread'[e] /\ thread'[d] # NULL => d = e
    BY <1>0, <1>1 DEF ContextInv
  <2>4. /\ \A d \in CPUs : regs'[d] = IF pc'[d] = "switch" THEN prev'[d] ELSE thread'[d]
        /\ \A d, e \in CPUs : regs'[d] = regs'[e] /\ regs'[d] # NULL => d = e
    BY <1>1, <1>11, <2>1, <2>3
  <2> QED
    BY <1>10, <2>1, <2>2, <2>3, <2>4, SMTT(30) DEF ContextInv
<1>13. CreationInv'
  BY <1>0, <1>1, <1>3 DEF CreationInv
<1>14. QueueInv'
  BY <1>0, <1>1, QueueKept, SMTT(30)
<1> QED
  BY <1>11, <1>12, <1>13, <1>14

\* thread_resume appends the new thread, which no CPU executes yet.
LEMMA ResumeQInv ==
  ASSUME QInv, NEW c \in CPUs, thread_resume(c)
  PROVE  /\ ContextInv' /\ CreationInv' /\ QueueInv'
         /\ newThread[c] \in Workers /\ state[newThread[c]] = "SUSPENDED"
         /\ Elements(queue') = Append(Elements(queue), newThread[c])
<1> USE SchedConstants
<1> DEFINE t == newThread[c]
           s == Elements(queue)
<1>0. IInv /\ TypeOK /\ CpuInv(c) /\ ContextInv /\ CreationInv /\ QueueInv
  BY DEF QInv, IInv
<1>1. /\ pc[c] = "resume" /\ qlock = NULL /\ pc' = [pc EXCEPT ![c] = "user"]
      /\ state' = [state EXCEPT ![t] = "RUNNING"]
      /\ queue' = list_add_tail(queue, t)
      /\ newThread' = [newThread EXCEPT ![c] = NULL]
      /\ UNCHANGED <<qlock, coreId, saved, thread, regs, prev>>
  BY DEF thread_resume, Goto
<1>2. t \in Workers /\ state[t] = "SUSPENDED" /\ t \in Threads
  BY <1>0, <1>1 DEF CpuInv, CreationInv, Threads
<1>3. /\ NULL \notin CPUs /\ NULL \notin Workers /\ IsFiniteSet(Workers)
      /\ \A d \in CPUs : Idle(d) # t
  BY <1>2 DEF Threads, IdleThreads
<1>4. \A d \in CPUs : thread[d] # t
  BY <1>0, <1>2 DEF ContextInv
<1>5. Holds(queue, Workers, s) /\ s \in Seq(Workers)
  BY <1>0, Zenon DEF QueueInv, Holds
<1>6. \A i \in 1 .. Len(s) : s[i] # t
  BY <1>0, <1>2 DEF QueueInv, OnList, Ready
<1>7. Holds(queue', Workers, Append(s, t))
  BY <1>1, <1>2, <1>3, <1>5, <1>6, AddTailHolds
<1>8. Elements(queue') = Append(s, t)
  BY <1>3, <1>7, ElementsIs, Zenon
<1>9. \A u \in Threads \ {t} : state'[u] = state[u]
  BY <1>0, <1>1 DEF TypeOK
<1>10. state'[t] = "RUNNING"
  BY <1>0, <1>1, <1>2 DEF TypeOK
<1>11. \A d \in CPUs \ {c} : pc'[d] = pc[d] /\ newThread'[d] = newThread[d]
  BY <1>0, <1>1 DEF TypeOK
<1>12. pc'[c] = "user"
  BY <1>0, <1>1 DEF TypeOK
<1> HIDE DEF t, s
<1>13. QueueInv'
  <2>1. \A u \in Workers : OnList(u, Append(s, t)) <=> OnList(u, s) \/ u = t
    BY <1>2, <1>5, OnAppended
  <2>2. \A u \in Workers : u \in Ready' <=> u \in Ready \/ u = t
    BY <1>1, <1>4, <1>9, <1>10 DEF Ready, Threads
  <2>3. \A u \in Workers : u \in Ready <=> OnList(u, s)
    BY <1>0 DEF QueueInv, s
  <2> QED
    BY <1>7, <1>8, <2>1, <2>2, <2>3 DEF QueueInv
<1>14. ContextInv'
  <2>1. \A d \in CPUs : thread'[d] \in Workers => state'[thread'[d]] = "RUNNING"
    BY <1>0, <1>1, <1>4, <1>9 DEF ContextInv, Threads
  <2>2. \A d \in CPUs : pc[d] # "switch" /\ pc'[d] # "switch" /\ pc'[d] # "stuck"
    BY <1>0, <1>1, <1>3, <1>11, <1>12 DEF ContextInv
  <2>3. \A d \in CPUs : pc'[d] = "switch" <=> qlock' = d
    BY <1>1, <1>3, <2>2, Zenon
  <2>4. \A d \in CPUs : regs'[d] = IF pc'[d] = "switch" THEN prev'[d] ELSE thread'[d]
    BY <1>0, <1>1, <2>2, Zenon DEF ContextInv
  <2>5. thread' = thread /\ regs' = regs /\ saved' = saved
    BY <1>1
  <2> QED
    BY <1>0, <2>1, <2>2, <2>3, <2>4, <2>5, ZenonT(40) DEF ContextInv
<1>15. CreationInv'
  <2>1. \A d \in CPUs : pc'[d] = "resume" => /\ d # c /\ pc[d] = "resume"
                                             /\ newThread'[d] = newThread[d]
                                             /\ newThread[d] # t
    BY <1>0, <1>1, <1>11, <1>12 DEF CreationInv, t
  <2>2. \A d \in CPUs : pc[d] = "resume" => newThread[d] \in Threads
    BY Zenon DEF QInv, IInv, CpuInv, Threads
  <2>3. \A d \in CPUs : pc'[d] = "resume" => state'[newThread'[d]] = "SUSPENDED"
    BY <1>0, <1>9, <2>1, <2>2, SMTT(30) DEF CreationInv
  <2>4. \A d, e \in CPUs : pc'[d] = "resume" /\ pc'[e] = "resume"
                             /\ newThread'[d] = newThread'[e] => d = e
    BY <1>0, <2>1 DEF CreationInv
  <2>5. \A u \in Workers : state'[u] = "none" => coreId'[u] = 0
    BY <1>0, <1>1, <1>9, <1>10 DEF CreationInv, Threads
  <2> QED
    BY <2>3, <2>4, <2>5, SMTT(30) DEF CreationInv
<1> QED
  BY <1>2, <1>8, <1>13, <1>14, <1>15 DEF s, t

\* thread_create, with the system call that calls it: nothing that exists is
\* disturbed, and the new thread starts on core 0, where it was.
LEMMA CreateQInv ==
  ASSUME QInv, NEW c \in CPUs, NEW t \in Workers, NEW p, InUserThread(c),
         thread_create(t, p), newThread' = [newThread EXCEPT ![c] = t],
         Goto(c, "resume"), UNCHANGED <<queue, qlock, thread, regs, prev>>
  PROVE  /\ ContextInv' /\ CreationInv' /\ QueueInv'
         /\ coreId' = coreId
         /\ \A u \in Workers : state'[u] = "RUNNING" <=> state[u] = "RUNNING"
<1> USE SchedConstants
<1>0. IInv /\ TypeOK /\ ContextInv /\ CreationInv /\ QueueInv
  BY DEF QInv, IInv
<1>1. /\ state[t] = "none" /\ state' = [state EXCEPT ![t] = "SUSPENDED"]
      /\ coreId' = [coreId EXCEPT ![t] = 0]
      /\ saved' = [saved EXCEPT ![t] = TRUE]
      /\ pc[c] = "user" /\ thread[c] \in Workers
      /\ pc' = [pc EXCEPT ![c] = "resume"]
  BY DEF thread_create, InUserThread, Goto
<1>2. t \in Threads /\ NULL \notin Threads /\ NULL \notin CPUs
  BY DEF Threads
<1>3. /\ \A u \in Threads \ {t} : state'[u] = state[u] /\ saved'[u] = saved[u]
      /\ state'[t] = "SUSPENDED" /\ saved'[t] = TRUE
  BY <1>0, <1>1, <1>2, SMTT(30) DEF TypeOK
<1>4. coreId' = coreId
  <2>1. coreId[t] = 0
    BY <1>0, <1>1, SMTT(30) DEF CreationInv
  <2> QED
    BY <1>0, <1>1, <1>2, <2>1 DEF TypeOK
<1>5. /\ \A d \in CPUs \ {c} : pc'[d] = pc[d] /\ newThread'[d] = newThread[d]
      /\ pc'[c] = "resume" /\ newThread'[c] = t
  BY <1>0, <1>1 DEF TypeOK
<1>6. \A u \in Workers : state'[u] = "RUNNING" <=> state[u] = "RUNNING"
  BY <1>1, <1>3 DEF Threads
<1>7. \A d \in CPUs : thread[d] # t /\ prev[d] # t /\ regs[d] # t
  <2>1. \A d \in CPUs : thread[d] # t /\ prev[d] # t
    <3>1. \A d \in CPUs : /\ thread[d] # NULL => state[thread[d]] # "none"
                          /\ prev[d] # NULL => state[prev[d]] # "none"
      BY <1>0, Zenon DEF IInv, CpuInv
    <3> QED
      BY <1>1, <1>2, <3>1
  <2>2. \A d \in CPUs : regs[d] = IF pc[d] = "switch" THEN prev[d] ELSE thread[d]
    BY <1>0, Zenon DEF ContextInv
  <2> QED
    BY <2>1, <2>2, Zenon
<1>8. ContextInv'
  <2>1. /\ \A d \in CPUs : pc'[d] # "stuck" /\ (pc'[d] = "switch" <=> pc[d] = "switch")
        /\ \A d \in CPUs : thread'[d] \in Workers => state'[thread'[d]] = "RUNNING"
    BY <1>0, <1>1, <1>5, <1>6, SMTT(30) DEF ContextInv
  <2>2. \A u \in Threads : saved'[u] <=> \A d \in CPUs : regs'[d] # u
    BY <1>0, <1>3, <1>7 DEF ContextInv
  <2>3. thread' = thread /\ regs' = regs /\ prev' = prev /\ qlock' = qlock
    OBVIOUS
  <2>4. \A d \in CPUs : pc'[d] = "switch" <=> qlock' = d
    BY <1>0, <2>1, <2>3, Zenon DEF ContextInv
  <2>5. \A d \in CPUs : regs'[d] = IF pc'[d] = "switch" THEN prev'[d] ELSE thread'[d]
    BY <1>0, <2>1, <2>3, SMTT(30) DEF ContextInv
  <2>6. /\ \A d \in CPUs : thread'[d] \in IdleThreads => thread'[d] = Idle(d)
        /\ \A d, e \in CPUs : thread'[d] = thread'[e] /\ thread'[d] # NULL => d = e
        /\ \A d, e \in CPUs : regs'[d] = regs'[e] /\ regs'[d] # NULL => d = e
    BY <1>0, <2>3 DEF ContextInv
  <2> QED
    BY <2>1, <2>2, <2>4, <2>5, <2>6, ZenonT(40) DEF ContextInv
<1>9. CreationInv'
  <2>1. \A d \in CPUs \ {c} : pc[d] = "resume" => newThread[d] # t /\ newThread[d] \in Threads
    BY <1>0, <1>1, Zenon DEF IInv, CpuInv, Threads
  <2>2. \A d \in CPUs : pc'[d] = "resume" => state'[newThread'[d]] = "SUSPENDED"
    BY <1>0, <1>3, <1>5, <2>1, SMTT(30) DEF CreationInv
  <2>3. \A d, e \in CPUs : pc'[d] = "resume" /\ pc'[e] = "resume"
                             /\ newThread'[d] = newThread'[e] => d = e
    BY <1>0, <1>5, <2>1 DEF CreationInv
  <2>4. \A u \in Workers : state'[u] = "none" => coreId'[u] = 0
    BY <1>0, <1>3, <1>4 DEF CreationInv, Threads
  <2> QED
    BY <2>2, <2>3, <2>4 DEF CreationInv
<1>10. QueueInv'
  BY <1>0, <1>6, QueueKept
<1> QED
  BY <1>4, <1>6, <1>8, <1>9, <1>10, Zenon

\* sys_set_affinity binds the calling thread, which exists.
LEMMA AffinityQInv ==
  ASSUME QInv, NEW c \in CPUs, NEW id, sys_set_affinity(c, id)
  PROVE  ContextInv' /\ CreationInv' /\ QueueInv'
<1> USE SchedConstants
<1>0. IInv /\ TypeOK /\ ContextInv /\ CreationInv /\ QueueInv
  BY DEF QInv, IInv
<1>1. /\ thread[c] \in Workers /\ coreId' = [coreId EXCEPT ![thread[c]] = id]
      /\ UNCHANGED <<queue, qlock, state, saved, pc, thread, regs, prev, newThread>>
  BY DEF sys_set_affinity, InUserThread, loaded, locals
<1>2. \A u \in Workers : state'[u] = "none" => coreId'[u] = 0
  <2>1. \A u \in Workers \ {thread[c]} : coreId'[u] = coreId[u]
    BY <1>0, <1>1 DEF TypeOK, Threads
  <2>2. state[thread[c]] = "RUNNING"
    BY <1>0, <1>1, SMTT(30) DEF ContextInv
  <2> QED
    BY <1>0, <1>1, <2>1, <2>2 DEF CreationInv
<1>3. ContextInv'
  BY <1>0, <1>1, SMTT(30) DEF ContextInv
<1>4. CreationInv'
  BY <1>0, <1>1, <1>2 DEF CreationInv
<1>5. QueueInv'
  BY <1>0, <1>1, QueueKept, Zenon
<1> QED
  BY <1>3, <1>4, <1>5

\* A timer interrupt, sys_yield, a process that cannot be loaded, or nothing.
LEMMA OthersQInv ==
  ASSUME QInv, pc' = pc \/ \E c \in CPUs : pc[c] = "user" /\ Goto(c, "tick"),
         UNCHANGED <<queue, qlock, perThread, thread, regs, locals>>
  PROVE  ContextInv' /\ CreationInv' /\ QueueInv'
<1>0. IInv /\ TypeOK /\ ContextInv /\ CreationInv /\ QueueInv
  BY DEF QInv, IInv
<1>1. \A d \in CPUs : /\ pc'[d] = "stuck" <=> pc[d] = "stuck"
                      /\ pc'[d] = "switch" <=> pc[d] = "switch"
                      /\ pc'[d] = "resume" <=> pc[d] = "resume"
  BY <1>0 DEF TypeOK, Goto
<1>2. /\ queue' = queue /\ qlock' = qlock /\ state' = state /\ coreId' = coreId
      /\ saved' = saved /\ thread' = thread /\ regs' = regs /\ prev' = prev
      /\ newThread' = newThread
  BY SMTT(30) DEF perThread, locals
<1>3. ContextInv'
  BY <1>0, <1>1, <1>2 DEF ContextInv
<1>4. CreationInv'
  BY <1>0, <1>1, <1>2, Zenon DEF CreationInv
<1>5. QueueInv'
  BY <1>0, <1>2, QueueKept
<1> QED
  BY <1>3, <1>4, <1>5

\* Every handler of a kernel in which no thread exits keeps the queue, the
\* contexts and the creation of threads in order.
LEMMA NextQInv == QInv /\ [Next]_vars => QInv'
<1> SUFFICES ASSUME QInv, [Next]_vars PROVE QInv'
  OBVIOUS
<1>1. IInv'
  BY NextIInv DEF QInv, NextExit
<1>2. ASSUME NEW c \in CPUs, SchedPick(c) PROVE ContextInv' /\ CreationInv' /\ QueueInv'
  BY <1>2, PickQInv
<1>3. ASSUME NEW c \in CPUs, SchedSwitch(c) PROVE ContextInv' /\ CreationInv' /\ QueueInv'
  BY <1>3, SwitchQInv
<1>4. ASSUME NEW c \in CPUs, thread_resume(c) PROVE ContextInv' /\ CreationInv' /\ QueueInv'
  BY <1>4, ResumeQInv
<1>5. ASSUME NEW c \in CPUs, NEW id \in -1 .. NCpu, sys_set_affinity(c, id)
      PROVE  ContextInv' /\ CreationInv' /\ QueueInv'
  BY <1>5, AffinityQInv
<1>6. ASSUME NEW c \in CPUs, NEW t \in Workers, sys_run_thread(c, t)
      PROVE  ContextInv' /\ CreationInv' /\ QueueInv'
  BY <1>6, CreateQInv, Zenon DEF sys_run_thread, loaded
<1>7. ASSUME NEW c \in CPUs, NEW t \in Workers, NEW p \in Procs, sys_start_process(c, t, p)
      PROVE  ContextInv' /\ CreationInv' /\ QueueInv'
  BY <1>7, CreateQInv, Zenon DEF sys_start_process
<1>8. ASSUME NEW c \in CPUs, NEW p \in Procs, StartProcessFails(c, p)
      PROVE  ContextInv' /\ CreationInv' /\ QueueInv'
  BY <1>8, OthersQInv DEF StartProcessFails, loaded
<1>9. ASSUME NEW c \in CPUs, TimerInterrupt(c) \/ sys_yield(c)
      PROVE  ContextInv' /\ CreationInv' /\ QueueInv'
  BY <1>9, OthersQInv DEF TimerInterrupt, sys_yield, InUserThread, loaded
<1>10. ASSUME UNCHANGED vars PROVE ContextInv' /\ CreationInv' /\ QueueInv'
  BY <1>10, OthersQInv DEF vars, loaded
<1>11. ContextInv' /\ CreationInv' /\ QueueInv'
  BY <1>2, <1>3, <1>4, <1>5, <1>6, <1>7, <1>8, <1>9, <1>10, SMTT(30)
  DEF Next, KernelStep, SystemCall
<1> QED
  BY <1>1, <1>11 DEF QInv

\* So they are in order in every state the kernel reaches.
LEMMA SpecQInv == Spec => []QInv
  BY InitQInv, NextQInv, PTL DEF Spec

\* The queue is intact and holds exactly the ready threads, and no two CPUs
\* execute the same thread, as long as no thread exits.
THEOREM QueueIsTheReadyThreads == Spec => []QueueHoldsReadyThreads
<1>1. QInv => QueueHoldsReadyThreads
  <2> SUFFICES ASSUME QInv PROVE QueueHoldsReadyThreads
    OBVIOUS
  <2> DEFINE s == Elements(queue)
  <2>1. Holds(queue, Workers, s) /\ \A t \in Workers : t \in Ready <=> OnList(t, s)
    BY DEF QInv, QueueInv
  <2>2. NULL \notin Workers /\ IsFiniteSet(Workers)
    BY SchedConstants DEF Threads
  <2>3. WellFormed(queue)
    BY <2>1, <2>2, HoldsWellFormed
  <2>4. \A c, d \in CPUs : thread[c] = thread[d] /\ thread[c] # NULL => c = d
    BY SMTT(30) DEF QInv, ContextInv
  <2>5. /\ s \in Seq(Workers) /\ Len(s) \in Nat /\ DOMAIN s = 1 .. Len(s)
        /\ \A i, j \in 1 .. Len(s) : s[i] = s[j] => i = j
    BY <2>1 DEF Holds
  <2>6. {s[i] : i \in DOMAIN s} = Ready
    <3>1. Ready \subseteq Workers /\ \A i \in DOMAIN s : s[i] \in Workers
      BY <2>5 DEF Ready
    <3> HIDE DEF s
    <3> QED
      BY <2>1, <2>5, <3>1 DEF OnList
  <2>7. Len(s) = Cardinality(Ready)
    <3>1. s \in [1 .. Len(s) -> Ready]
      BY <2>5, <2>6
    <3>2. s \in Injection(1 .. Len(s), Ready) /\ s \in Surjection(1 .. Len(s), Ready)
      BY <2>5, <2>6, <3>1 DEF Injection, IsInjective, Surjection
    <3>3. ExistsBijection(1 .. Len(s), Ready)
      BY <3>2 DEF ExistsBijection, Bijection
    <3> HIDE DEF s
    <3> QED
      BY <2>5, <3>3, FS_CountingElements
  <2> QED
    BY <2>3, <2>4, <2>6, <2>7 DEF QueueHoldsReadyThreads
<1> QED
  BY <1>1, SpecQInv, PTL

\* A thread always goes on from its own most recent registers.
THEOREM OwnContextResumed == Spec => []ResumesOwnContext
<1>1. QInv => ResumesOwnContext
  BY DEF QInv, ContextInv, ResumesOwnContext
<1> QED
  BY <1>1, SpecQInv, PTL
-----------------------------------------------------------------------------
\* At boot the abstract queue holds the main thread of the UI.
LEMMA InitRefines == Init => RQ!Init
<1> SUFFICES ASSUME Init PROVE RQ!Init
  OBVIOUS
<1> USE SchedConstants
<1>1. QInv
  BY InitQInv
<1>2. NULL \notin Workers /\ \A t \in Workers : t \in Threads /\ t \notin IdleThreads
  BY DEF Threads
<1>3. [c \in CPUs |-> IF thread[c] \in Workers THEN thread[c] ELSE NULL] = [c \in CPUs |-> NULL]
  BY <1>2 DEF Init
<1>4. [t \in Workers |-> coreId[t]] = [t \in Workers |-> 0]
  BY <1>2 DEF Init
<1>5. {t \in Workers : state[t] = "RUNNING"} = {UiThread}
  BY <1>2 DEF Init
<1>6. Elements(queue) = <<UiThread>>
  <2> DEFINE s == Elements(queue)
  <2>1. /\ s \in Seq(Workers) /\ Len(s) \in Nat
        /\ \A i, j \in 1 .. Len(s) : s[i] = s[j] => i = j
        /\ \A t \in Workers : t \in Ready <=> OnList(t, s)
    BY <1>1, SMTT(30) DEF QInv, QueueInv, Holds
  <2>2. Ready = {UiThread}
    BY <1>2 DEF Init, Ready
  <2> HIDE DEF s
  <2>3. \A i \in 1 .. Len(s) : s[i] = UiThread
    BY <2>1, <2>2 DEF OnList
  <2>4. OnList(UiThread, s)
    BY <2>1, <2>2
  <2>5. Len(s) = 1
    <3>1. Len(s) # 0
      BY <2>1, <2>4 DEF OnList
    <3>2. Len(s) > 1 => s[1] = s[2] /\ 1 \in 1 .. Len(s) /\ 2 \in 1 .. Len(s)
      BY <2>1, <2>3
    <3>3. ~(Len(s) > 1)
      BY <2>1, <3>2
    <3>4. \A k \in Nat : k # 0 /\ ~(k > 1) => k = 1
      OBVIOUS
    <3> QED
      BY <2>1, <3>1, <3>3, <3>4, Zenon
  <2>6. s = <<UiThread>>
    <3>1. s[1] = UiThread
      BY <2>3, <2>5
    <3> QED
      BY <2>1, <2>5, <3>1, OneElement, Zenon
  <2> QED
    BY <2>6, SMTT(30) DEF s
<1> QED
  BY <1>3, <1>4, <1>5, <1>6 DEF RQ!Init

\* The first part of sched_tick is the abstract reschedule.
LEMMA PickRefines ==
  ASSUME QInv, NEW c \in CPUs, SchedPick(c)
  PROVE  RQ!Reschedule(c)
<1> USE SchedConstants
<1> DEFINE q == RQ!PutBack(c)
           current == [d \in CPUs |-> IF thread[d] \in Workers THEN thread[d] ELSE NULL]
           core == [t \in Workers |-> coreId[t]]
           eligible == {i \in 1 .. Len(q) : core[q[i]] = c}
<1>0. TypeOK
  BY DEF QInv, IInv
<1>1. NULL \notin Workers /\ IsFiniteSet(Workers) /\ Idle(c) \notin Workers
  BY DEF Threads, IdleThreads
<1>2. q = Requeued(c)
  BY <1>1, SMTT(30) DEF RQ!PutBack, Requeued
<1>3. core' = core /\ state' = state
  BY PickEffect, SMTT(30) DEF perThread
<1> HIDE DEF q
<1>4. Holds(PutBack(c), Workers, q)
  BY <1>2, PutBackHolds, SMTT(30)
<1>5. \A i \in 1 .. Len(q) : q[i] \in Workers /\ core[q[i]] = coreId[q[i]]
  BY <1>4 DEF Holds
<1>6. \/ /\ eligible = {}
         /\ Elements(queue') = q
         /\ current' = [current EXCEPT ![c] = NULL]
      \/ \E k \in eligible :
           /\ \A j \in eligible : k <= j
           /\ Elements(queue') = RQ!Without(q, k)
           /\ current' = [current EXCEPT ![c] = q[k]]
  <2>1. ASSUME \A i \in 1 .. Len(q) : coreId[q[i]] # c, Holds(queue', Workers, q),
               thread' = [thread EXCEPT ![c] = Idle(c)]
        PROVE  /\ eligible = {}
               /\ Elements(queue') = q
               /\ current' = [current EXCEPT ![c] = NULL]
    <3>1. eligible = {}
      BY <1>5, <2>1
    <3>2. Elements(queue') = q
      BY <1>1, <2>1, ElementsIs
    <3>3. thread'[c] = Idle(c) /\ \A d \in CPUs \ {c} : thread'[d] = thread[d]
      BY <1>0, <2>1, Zenon DEF TypeOK
    <3>4. current' = [current EXCEPT ![c] = NULL]
      BY <1>1, <3>3, Zenon
    <3> QED
      BY <3>1, <3>2, <3>4, ZenonT(40)
  <2>2. ASSUME NEW k \in 1 .. Len(q), coreId[q[k]] = c,
               \A j \in 1 .. k - 1 : coreId[q[j]] # c,
               Holds(queue', Workers, RQ!Without(q, k)),
               thread' = [thread EXCEPT ![c] = q[k]]
        PROVE  /\ k \in eligible
               /\ \A j \in eligible : k <= j
               /\ Elements(queue') = RQ!Without(q, k)
               /\ current' = [current EXCEPT ![c] = q[k]]
    <3>1. k \in eligible
      BY <1>5, <2>2
    <3>2. ASSUME NEW j \in eligible PROVE k <= j
      <4>1. j \in 1 .. Len(q) /\ coreId[q[j]] = c
        BY <1>5, <3>2
      <4>2. j \notin 1 .. k - 1
        BY <2>2, <4>1
      <4>3. Len(q) \in Nat
        BY <1>4, SMTT(30) DEF Holds
      <4> HIDE DEF q, eligible
      <4> QED
        BY <4>1, <4>2, <4>3
    <3>3. Elements(queue') = RQ!Without(q, k)
      BY <1>1, <2>2, ElementsIs
    <3>4. thread'[c] = q[k] /\ \A d \in CPUs \ {c} : thread'[d] = thread[d]
      BY <1>0, <2>2, Zenon DEF TypeOK
    <3>5. current' = [current EXCEPT ![c] = q[k]]
      BY <1>5, <3>4, ZenonT(40)
    <3> QED
      BY <3>1, <3>2, <3>3, <3>5, Zenon
  <2> HIDE DEF eligible, current
  <2>3. \/ /\ \A i \in 1 .. Len(q) : coreId[q[i]] # c
           /\ Holds(queue', Workers, q)
           /\ thread' = [thread EXCEPT ![c] = Idle(c)]
        \/ \E k \in 1 .. Len(q) :
             /\ coreId[q[k]] = c
             /\ \A j \in 1 .. k - 1 : coreId[q[j]] # c
             /\ Holds(queue', Workers, RQ!Without(q, k))
             /\ thread' = [thread EXCEPT ![c] = q[k]]
    BY <1>2, PickEffect
  <2> QED
    BY <2>1, <2>2, <2>3, Zenon
<1>7. {t \in Workers : state'[t] = "RUNNING"} = {t \in Workers : state[t] = "RUNNING"}
  BY <1>3
<1> QED
  BY <1>3, <1>6, <1>7, Zenon DEF RQ!Reschedule, q

\* thread_resume starts a thread, sys_set_affinity binds one.
LEMMA ResumeRefines ==
  ASSUME QInv, NEW c \in CPUs, thread_resume(c)
  PROVE  \E t \in Workers : RQ!Start(t)
<1>0. PICK t \in Workers : t = newThread[c]
  BY ResumeQInv
<1>1. /\ t \in Workers /\ state[t] = "SUSPENDED"
      /\ Elements(queue') = Append(Elements(queue), t)
  BY <1>0, ResumeQInv
<1>2. /\ state' = [state EXCEPT ![t] = "RUNNING"]
      /\ thread' = thread /\ coreId' = coreId
  BY <1>0 DEF thread_resume
<1>3. state \in [Threads -> {"none", "SUSPENDED", "RUNNING", "ZOMBIE"}] /\ t \in Threads
  BY <1>1 DEF QInv, IInv, TypeOK, Threads
<1>4. {u \in Workers : state'[u] = "RUNNING"} = {u \in Workers : state[u] = "RUNNING"} \cup {t}
  BY <1>1, <1>2, <1>3 DEF Threads
<1>5. t \notin {u \in Workers : state[u] = "RUNNING"}
  BY <1>1
<1>6. RQ!Start(t)
  BY <1>1, <1>2, <1>4, <1>5, Zenon DEF RQ!Start
<1> QED
  BY <1>1, <1>6

\* sys_set_affinity binds the calling thread to a core.
LEMMA AffinityRefines ==
  ASSUME QInv, NEW c \in CPUs, NEW id \in -1 .. NCpu, sys_set_affinity(c, id)
  PROVE  \E k \in CPUs : RQ!Bind(c, k)
<1>1. /\ thread[c] \in Workers /\ id \in CPUs
      /\ coreId' = [coreId EXCEPT ![thread[c]] = id]
      /\ UNCHANGED <<queue, state, thread>>
  BY SchedConstants DEF sys_set_affinity, InUserThread, CPUs
<1>2. coreId \in [Threads -> CPUs] /\ thread[c] \in Threads /\ NULL \notin Workers
  BY <1>1, SchedConstants DEF QInv, IInv, TypeOK, Threads
<1> DEFINE current == [d \in CPUs |-> IF thread[d] \in Workers THEN thread[d] ELSE NULL]
           core == [t \in Workers |-> coreId[t]]
<1>3. current[c] = thread[c] /\ current' = current
  BY <1>1
<1>4. core' = [core EXCEPT ![thread[c]] = id]
  BY <1>1, <1>2, Zenon DEF Threads
<1>5. RQ!Bind(c, id)
  BY <1>1, <1>2, <1>3, <1>4, Zenon DEF RQ!Bind
<1> QED
  BY <1>1, <1>5, SMTT(30)

\* Every other step leaves the abstract state alone.
LEMMA OthersRefine ==
  ASSUME queue' = queue, thread' = thread, coreId' = coreId,
         \A u \in Workers : state'[u] = "RUNNING" <=> state[u] = "RUNNING"
  PROVE  UNCHANGED RQ!qvars
  BY DEF RQ!qvars

\* Every step of the scheduler is a step of the abstract queue or none.
LEMMA NextRefines == QInv /\ [Next]_vars => [RQ!Next]_(RQ!qvars)
<1> SUFFICES ASSUME QInv, [Next]_vars PROVE RQ!Next \/ UNCHANGED RQ!qvars
  OBVIOUS
<1>1. ASSUME NEW c \in CPUs, SchedPick(c) PROVE RQ!Next
  BY <1>1, PickRefines DEF RQ!Next
<1>2. ASSUME NEW c \in CPUs, thread_resume(c) PROVE RQ!Next
  BY <1>2, ResumeRefines DEF RQ!Next
<1>3. ASSUME NEW c \in CPUs, NEW id \in -1 .. NCpu, sys_set_affinity(c, id) PROVE RQ!Next
  BY <1>3, AffinityRefines DEF RQ!Next
<1>4. ASSUME NEW c \in CPUs, SchedSwitch(c) PROVE UNCHANGED RQ!qvars
  <2>1. queue' = queue /\ thread' = thread /\ coreId' = coreId /\ state' = state
    BY <1>4 DEF SchedSwitch
  <2> QED
    BY <2>1, OthersRefine, SMTT(30)
<1>5. ASSUME NEW c \in CPUs, NEW t \in Workers, sys_run_thread(c, t)
      PROVE  UNCHANGED RQ!qvars
  <2>1. coreId' = coreId /\ \A u \in Workers : state'[u] = "RUNNING" <=> state[u] = "RUNNING"
    BY <1>5, CreateQInv, Zenon DEF sys_run_thread, loaded
  <2>2. queue' = queue /\ thread' = thread
    BY <1>5 DEF sys_run_thread
  <2> QED
    BY <2>1, <2>2, OthersRefine
<1>6. ASSUME NEW c \in CPUs, NEW t \in Workers, NEW p \in Procs, sys_start_process(c, t, p)
      PROVE  UNCHANGED RQ!qvars
  <2>1. coreId' = coreId /\ \A u \in Workers : state'[u] = "RUNNING" <=> state[u] = "RUNNING"
    BY <1>6, CreateQInv, Zenon DEF sys_start_process
  <2>2. queue' = queue /\ thread' = thread
    BY <1>6 DEF sys_start_process
  <2> QED
    BY <2>1, <2>2, OthersRefine
<1>7. ASSUME UNCHANGED <<queue, thread, perThread>> PROVE UNCHANGED RQ!qvars
  <2>1. queue' = queue /\ thread' = thread /\ coreId' = coreId /\ state' = state
    BY <1>7 DEF perThread
  <2> QED
    BY <2>1, OthersRefine
<1>8. ASSUME NEW c \in CPUs,
             \/ TimerInterrupt(c) \/ sys_yield(c)
             \/ \E p \in Procs : StartProcessFails(c, p)
      PROVE  UNCHANGED RQ!qvars
  BY <1>7, <1>8 DEF TimerInterrupt, sys_yield, StartProcessFails
<1>9. ASSUME UNCHANGED vars PROVE UNCHANGED RQ!qvars
  BY <1>7, <1>9 DEF vars
<1> QED
  BY <1>1, <1>2, <1>3, <1>4, <1>5, <1>6, <1>8, <1>9 DEF Next, KernelStep, SystemCall

\* The scheduler, with its pointer list, its lock and its two-part switch,
\* implements the per-core first-in first-out queue: sched_tick runs the thread
\* that has waited longest among those bound to its core.
THEOREM SchedIsReadyQueue == Spec => ImplementsReadyQueue
<1>1. QInv /\ [Next]_vars => [RQ!Next]_(RQ!qvars)
  BY NextRefines
<1>2. Init => RQ!Init
  BY InitRefines
<1> QED
  BY <1>1, <1>2, SpecQInv, PTL DEF Spec, ImplementsReadyQueue, RQ!Spec
-----------------------------------------------------------------------------
\* The discipline itself, for any number of CPUs and threads, with the variables
\* of ReadyQueue in place of the ones that Sched gives it.
VARIABLES ready, current, core, alive

Abs == INSTANCE ReadyQueue

\* The types of the abstract queue.
AbsTypeOK ==
  /\ ready \in Seq(Workers)
  /\ current \in [CPUs -> Workers \cup {NULL}]
  /\ alive \subseteq Workers

\* Only threads that were started wait or run.
OnlyAlive ==
  /\ \A i \in 1 .. Len(ready) : ready[i] \in alive
  /\ \A c \in CPUs : current[c] # NULL => current[c] \in alive

AbsInv == AbsTypeOK /\ OnlyAlive /\ Abs!OnePlace /\ Abs!NoneForgotten

\* What is left of a sequence when one element is taken out.
LEMMA WithoutFacts ==
  ASSUME NEW S, NEW s \in Seq(S), NEW i \in 1 .. Len(s)
  PROVE  /\ Abs!Without(s, i) \in Seq(S)
         /\ Len(Abs!Without(s, i)) = Len(s) - 1
         /\ \A j \in 1 .. Len(s) - 1 :
              Abs!Without(s, i)[j] = IF j < i THEN s[j] ELSE s[j + 1]
         /\ \A k \in 1 .. Len(s) : k # i =>
              \E j \in 1 .. Len(s) - 1 : Abs!Without(s, i)[j] = s[k]
<1> DEFINE w == Abs!Without(s, i)
<1>1. Len(s) \in Nat /\ Len(s) - 1 \in Nat
  OBVIOUS
<1>2. w = [j \in 1 .. Len(s) - 1 |-> IF j < i THEN s[j] ELSE s[j + 1]]
  BY DEF Abs!Without
<1>3. \A j \in 1 .. Len(s) - 1 : w[j] = IF j < i THEN s[j] ELSE s[j + 1]
  BY <1>2
<1>4. \A j \in 1 .. Len(s) - 1 : (IF j < i THEN s[j] ELSE s[j + 1]) \in S
  BY <1>1
<1>5. w \in [1 .. Len(s) - 1 -> S]
  BY <1>2, <1>4
<1>6. w \in Seq(S) /\ Len(w) = Len(s) - 1
  BY <1>1, <1>5
<1>7. ASSUME NEW k \in 1 .. Len(s), k # i
      PROVE  \E j \in 1 .. Len(s) - 1 : w[j] = s[k]
  <2>1. CASE k < i
    <3>1. k \in 1 .. Len(s) - 1
      BY <1>1, <2>1
    <3> QED
      BY <1>3, <2>1, <3>1
  <2>2. CASE k > i
    <3>1. k - 1 \in 1 .. Len(s) - 1 /\ ~(k - 1 < i) /\ (k - 1) + 1 = k
      BY <1>1, <2>2
    <3> QED
      BY <1>3, <3>1, Zenon
  <2> QED
    BY <1>7, <2>1, <2>2
<1> QED
  BY <1>3, <1>6, <1>7, Zenon

\* At first one thread waits and no CPU executes any.
LEMMA AbsInitInv ==
  ASSUME NULL \notin Workers
  PROVE  Abs!Init => AbsInv
<1> SUFFICES ASSUME Abs!Init PROVE AbsInv
  OBVIOUS
<1>1. PICK t \in Workers : ready = <<t>> /\ alive = {t}
  BY DEF Abs!Init
<1>2. Len(ready) = 1 /\ ready[1] = t
  BY <1>1
<1>3. AbsTypeOK
  BY <1>1 DEF Abs!Init, AbsTypeOK
<1>4. OnlyAlive
  BY <1>1, <1>2 DEF Abs!Init, OnlyAlive
<1>5. Abs!OnePlace
  BY <1>1, <1>2 DEF Abs!Init, Abs!OnePlace
<1>6. Abs!NoneForgotten
  BY <1>1, <1>2, SMTT(30) DEF Abs!Init, Abs!NoneForgotten
<1> QED
  BY <1>3, <1>4, <1>5, <1>6 DEF AbsInv

\* The queue with the thread of CPU c put back: still no thread twice, none on
\* another CPU, and together with the other CPUs all that are alive.
LEMMA PutBackFacts ==
  ASSUME NULL \notin Workers, AbsInv, NEW c \in CPUs
  PROVE  /\ Abs!PutBack(c) \in Seq(Workers)
         /\ \A i \in 1 .. Len(Abs!PutBack(c)) : Abs!PutBack(c)[i] \in alive
         /\ \A i, j \in 1 .. Len(Abs!PutBack(c)) :
              Abs!PutBack(c)[i] = Abs!PutBack(c)[j] => i = j
         /\ \A i \in 1 .. Len(Abs!PutBack(c)) : \A d \in CPUs \ {c} :
              Abs!PutBack(c)[i] # current[d]
         /\ \A t \in alive : \/ \E i \in 1 .. Len(Abs!PutBack(c)) : Abs!PutBack(c)[i] = t
                            \/ \E d \in CPUs \ {c} : current[d] = t
<1>0. AbsTypeOK /\ OnlyAlive /\ Abs!OnePlace /\ Abs!NoneForgotten
  BY DEF AbsInv
<1>1. CASE current[c] = NULL
  <2>1. Abs!PutBack(c) = ready
    BY <1>1 DEF Abs!PutBack
  <2>2. \A t \in alive : t # NULL
    BY <1>0 DEF AbsTypeOK
  <2> QED
    BY <1>0, <1>1, <2>1, <2>2 DEF AbsTypeOK, OnlyAlive, Abs!OnePlace, Abs!NoneForgotten
<1>2. CASE current[c] # NULL
  <2> DEFINE q == Append(ready, current[c])
             n == Len(ready)
  <2>1. Abs!PutBack(c) = q
    BY <1>2 DEF Abs!PutBack
  <2>2. ready \in Seq(Workers) /\ n \in Nat /\ current[c] \in Workers
    BY <1>0, <1>2 DEF AbsTypeOK
  <2>3. /\ q \in Seq(Workers)
        /\ Len(q) = n + 1
        /\ q[n + 1] = current[c]
        /\ \A i \in 1 .. n : q[i] = ready[i]
    BY <2>2
  <2>4. \A i \in 1 .. n + 1 : i \in 1 .. n \/ i = n + 1
    BY <2>2
  <2>5. \A i \in 1 .. n : i \in 1 .. n + 1
    BY <2>2
  <2>6. n + 1 \in 1 .. n + 1
    BY <2>2
  <2> HIDE DEF q, n
  <2>7. \A i \in 1 .. n + 1 : q[i] \in alive
    BY <1>0, <1>2, <2>3, <2>4, SMTT(30) DEF OnlyAlive, n
  <2>8. \A i, j \in 1 .. n + 1 : q[i] = q[j] => i = j
    BY <1>0, <2>3, <2>4 DEF Abs!OnePlace, n
  <2>9. \A i \in 1 .. n + 1 : \A d \in CPUs \ {c} : q[i] # current[d]
    BY <1>0, <1>2, <2>3, <2>4, SMTT(30) DEF Abs!OnePlace, n
  <2>10. ASSUME NEW t \in alive
         PROVE  \/ \E i \in 1 .. n + 1 : q[i] = t
                \/ \E d \in CPUs \ {c} : current[d] = t
    <3>1. CASE \E i \in 1 .. n : ready[i] = t
      BY <2>3, <2>5, <3>1
    <3>2. CASE \E d \in CPUs : current[d] = t
      BY <2>3, <2>6, <3>2
    <3> QED
      BY <1>0, <3>1, <3>2 DEF Abs!NoneForgotten, n
  <2> QED
    BY <2>1, <2>3, <2>7, <2>8, <2>9, <2>10
<1> QED
  BY <1>1, <1>2

\* Starting, binding and rescheduling threads keep every thread at one place.
LEMMA AbsNextInv ==
  ASSUME NULL \notin Workers
  PROVE  AbsInv /\ [Abs!Next]_(Abs!qvars) => AbsInv'
<1> SUFFICES ASSUME AbsInv, [Abs!Next]_(Abs!qvars) PROVE AbsInv'
  OBVIOUS
<1>0. AbsTypeOK /\ OnlyAlive /\ Abs!OnePlace /\ Abs!NoneForgotten
  BY DEF AbsInv
<1>1. ASSUME NEW t \in Workers, Abs!Start(t) PROVE AbsInv'
  <2> DEFINE n == Len(ready)
  <2>1. /\ ready' = Append(ready, t) /\ ready \in Seq(Workers) /\ n \in Nat
        /\ current' = current /\ alive' = alive \cup {t} /\ t \notin alive
    BY <1>0, <1>1 DEF Abs!Start, AbsTypeOK
  <2>2. /\ ready' \in Seq(Workers)
        /\ Len(ready') = n + 1
        /\ ready'[n + 1] = t
        /\ \A i \in 1 .. n : ready'[i] = ready[i]
    BY <2>1
  <2>3. \A i \in 1 .. n + 1 : i \in 1 .. n \/ i = n + 1
    BY <2>1
  <2>4. n + 1 \in 1 .. n + 1 /\ \A i \in 1 .. n : i \in 1 .. n + 1
    BY <2>1
  <2> HIDE DEF n
  <2>5. AbsTypeOK'
    BY <1>0, <2>1, <2>2 DEF AbsTypeOK
  <2>6. OnlyAlive'
    BY <1>0, <2>1, <2>2, <2>3 DEF OnlyAlive, n
  <2>7. t # NULL /\ \A c \in CPUs : current[c] # t
    BY <1>0, <2>1 DEF OnlyAlive
  <2>8. \A i \in 1 .. n : ready[i] # t
    BY <1>0, <2>1, SMTT(30) DEF OnlyAlive, n
  <2>9. Abs!OnePlace'
    BY <1>0, <2>1, <2>2, <2>3, <2>7, <2>8, SMTT(30) DEF Abs!OnePlace, n
  <2>10. Abs!NoneForgotten'
    BY <1>0, <2>1, <2>2, <2>4, SMTT(30) DEF Abs!NoneForgotten, n
  <2> QED
    BY <2>5, <2>6, <2>9, <2>10 DEF AbsInv
<1>2. ASSUME NEW c \in CPUs, NEW k \in CPUs, Abs!Bind(c, k) PROVE AbsInv'
  BY <1>0, <1>2, SMTT(30) DEF Abs!Bind, AbsInv, AbsTypeOK, OnlyAlive, Abs!OnePlace, Abs!NoneForgotten
<1>3. ASSUME NEW c \in CPUs, Abs!Reschedule(c) PROVE AbsInv'
  <2> DEFINE q == Abs!PutBack(c)
  <2>1. /\ q \in Seq(Workers)
        /\ \A i \in 1 .. Len(q) : q[i] \in alive
        /\ \A i, j \in 1 .. Len(q) : q[i] = q[j] => i = j
        /\ \A i \in 1 .. Len(q) : \A d \in CPUs \ {c} : q[i] # current[d]
        /\ \A t \in alive : \/ \E i \in 1 .. Len(q) : q[i] = t
                           \/ \E d \in CPUs \ {c} : current[d] = t
    BY PutBackFacts, ZenonT(40)
  <2>2. alive' = alive
    BY <1>3 DEF Abs!Reschedule
  <2>3. CASE ready' = q /\ current' = [current EXCEPT ![c] = NULL]
    <3>1. current'[c] = NULL /\ \A d \in CPUs \ {c} : current'[d] = current[d]
      BY <1>0, <2>3, SMTT(30) DEF AbsTypeOK
    <3>2. \A i \in 1 .. Len(q) : q[i] # NULL
      BY <2>1
    <3> HIDE DEF q
    <3>3. AbsTypeOK'
      BY <1>0, <2>1, <2>2, <2>3, SMTT(30) DEF AbsTypeOK
    <3>4. OnlyAlive'
      BY <1>0, <2>1, <2>2, <2>3, <3>1, SMTT(30) DEF OnlyAlive
    <3>5. Abs!OnePlace'
      BY <1>0, <2>1, <2>3, <3>1, <3>2, SMTT(30) DEF Abs!OnePlace
    <3>6. Abs!NoneForgotten'
      BY <2>1, <2>2, <2>3, <3>1 DEF Abs!NoneForgotten
    <3> QED
      BY <3>3, <3>4, <3>5, <3>6 DEF AbsInv
  <2>4. ASSUME NEW i \in 1 .. Len(q), ready' = Abs!Without(q, i),
               current' = [current EXCEPT ![c] = q[i]]
        PROVE  AbsInv'
    <3> DEFINE m == Len(q) - 1
    <3>1. current'[c] = q[i] /\ \A d \in CPUs \ {c} : current'[d] = current[d]
      BY <1>0, <2>4 DEF AbsTypeOK
    <3>2. Len(q) \in Nat /\ q[i] \in Workers
      BY <2>1
    <3> HIDE DEF q
    <3>3. /\ ready' \in Seq(Workers)
          /\ Len(ready') = m
          /\ \A j \in 1 .. m : ready'[j] = IF j < i THEN q[j] ELSE q[j + 1]
          /\ \A k \in 1 .. Len(q) : k # i => \E j \in 1 .. m : ready'[j] = q[k]
      <4>1. q \in Seq(Workers) /\ i \in 1 .. Len(q) /\ ready' = Abs!Without(q, i)
        BY <2>1, <2>4, SMTT(30)
      <4> QED
        BY <4>1, WithoutFacts, Zenon
    <3>4. \A j \in 1 .. m : \E k \in 1 .. Len(q) :
            k # i /\ ready'[j] = q[k] /\ k = IF j < i THEN j ELSE j + 1
      <4> SUFFICES ASSUME NEW j \in 1 .. m
                   PROVE  \E k \in 1 .. Len(q) : k # i /\ ready'[j] = q[k]
                            /\ k = IF j < i THEN j ELSE j + 1
        OBVIOUS
      <4>1. CASE j < i
        BY <3>2, <3>3, <4>1
      <4>2. CASE ~(j < i)
        <5>1. j + 1 \in 1 .. Len(q) /\ j + 1 # i
          BY <3>2, <4>2
        <5> QED
          BY <3>3, <4>2, <5>1
      <4> QED
        BY <4>1, <4>2
    <3>5. \A j, k \in 1 .. m :
            (IF j < i THEN j ELSE j + 1) = (IF k < i THEN k ELSE k + 1) => j = k
      BY <2>4, <3>2
    <3> HIDE DEF m
    <3>6. AbsTypeOK'
      BY <1>0, <2>2, <2>4, <3>2, <3>3, SMTT(30) DEF AbsTypeOK
    <3>7. OnlyAlive'
      <4>1. \A j \in 1 .. m : ready'[j] \in alive'
        BY <2>1, <2>2, <3>4
      <4>2. \A d \in CPUs : current'[d] # NULL => current'[d] \in alive'
        BY <1>0, <2>1, <2>2, <3>1, SMTT(30) DEF OnlyAlive
      <4> QED
        BY <3>3, <4>1, <4>2 DEF OnlyAlive
    <3>8. Abs!OnePlace'
      <4>1. \A j, k \in 1 .. m : ready'[j] = ready'[k] => j = k
        BY <2>1, <3>4, <3>5, SMTT(30)
      <4>2. \A j \in 1 .. m : \A d \in CPUs : ready'[j] # current'[d]
        BY <2>1, <3>1, <3>4, SMTT(30)
      <4>3. \A d, e \in CPUs : current'[d] = current'[e] /\ current'[d] # NULL => d = e
        BY <1>0, <2>1, <3>1, SMTT(30) DEF Abs!OnePlace
      <4> QED
        BY <3>3, <4>1, <4>2, <4>3, SMTT(30) DEF Abs!OnePlace
    <3>9. Abs!NoneForgotten'
      <4> SUFFICES ASSUME NEW t \in alive
                   PROVE  \/ \E j \in 1 .. m : ready'[j] = t
                          \/ \E d \in CPUs : current'[d] = t
        BY <2>2, <3>3 DEF Abs!NoneForgotten
      <4>1. CASE \E k \in 1 .. Len(q) : q[k] = t
        BY <3>1, <3>3, <4>1
      <4>2. CASE \E d \in CPUs \ {c} : current[d] = t
        BY <3>1, <4>2, SMTT(30)
      <4> QED
        BY <2>1, <4>1, <4>2, SMTT(30)
    <3> QED
      BY <3>6, <3>7, <3>8, <3>9, SMTT(30) DEF AbsInv
  <2> QED
    BY <1>3, <2>3, <2>4 DEF Abs!Reschedule
<1>4. CASE UNCHANGED Abs!qvars
  BY <1>0, <1>4 DEF Abs!qvars, AbsInv, AbsTypeOK, OnlyAlive, Abs!OnePlace, Abs!NoneForgotten
<1> QED
  BY <1>1, <1>2, <1>3, <1>4 DEF Abs!Next

\* For any number of CPUs and threads: in the discipline that sched_tick
\* implements, no thread is executed by two CPUs, waits twice, or waits while
\* it is executed.
THEOREM NoThreadTwice ==
  ASSUME NULL \notin Workers
  PROVE  Abs!Spec => []Abs!OnePlace
<1>1. AbsInv => Abs!OnePlace
  BY DEF AbsInv
<1> QED
  BY <1>1, AbsInitInv, AbsNextInv, PTL DEF Abs!Spec

\* For any number of CPUs and threads: a started thread always waits in the
\* queue or is executed.
THEOREM NoThreadForgotten ==
  ASSUME NULL \notin Workers
  PROVE  Abs!Spec => []Abs!NoneForgotten
<1>1. AbsInv => Abs!NoneForgotten
  BY DEF AbsInv
<1> QED
  BY <1>1, AbsInitInv, AbsNextInv, PTL DEF Abs!Spec
=============================================================================
