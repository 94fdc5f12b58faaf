------------------------------- MODULE Sched -------------------------------
(***************************************************************************)
(* The scheduler: proc/sched.c, the thread life cycle of proc/thread.c and *)
(* the system calls that reach them (proc/syscalls/thread.c, exit.c,       *)
(* yield.c), on several CPUs that share one ready queue.                   *)
(*                                                                         *)
(* Kernel code runs with interrupts masked, so a CPU is either in user     *)
(* code (or halted, in its idle thread or still in its boot code), or in   *)
(* one of the steps below.  thread_queue_lock is held from the start to    *)
(* the end of sched_tick, which is split where other CPUs could see it:    *)
(* the choice of the next thread, and the copy of the register files.      *)
(*                                                                         *)
(* A register file is modelled by the thread whose most recent state it    *)
(* is, NULL if it is no thread's: `saved' says whether thread_t holds the  *)
(* most recent state of its thread.                                        *)
(***************************************************************************)
EXTENDS LinkedList

CONSTANTS NCpu,         \* cpuCount; coreId runs from 0 to NCpu - 1
          Workers,      \* thread_t structures that may be created
          Procs,        \* proc_t structures that may be created
          UiThread,     \* created at boot by module_load ...
          UiProc,       \* ... in this process
          IdleProc      \* idle_proc

CPUs == 0 .. NCpu - 1

\* cpu->idle_thread.
Idle(c) == <<"idle", c>>
IdleThreads == {Idle(c) : c \in CPUs}
Threads == Workers \cup IdleThreads

ASSUME SchedConstants ==
  /\ NCpu \in Nat \ {0}
  /\ IsFiniteSet(Workers)
  /\ UiThread \in Workers /\ UiProc \in Procs
  /\ IdleProc \notin Procs
  /\ Workers \cap IdleThreads = {}
  /\ NULL \notin Threads /\ NULL \notin Procs \cup {IdleProc} /\ NULL \notin CPUs

VARIABLES
  queue,      \* thread_queue
  qlock,      \* the CPU that holds thread_queue_lock, NULL if it is free
  state,      \* thread->state, "none" before thread_create
  coreId,     \* thread->coreId
  procOf,     \* thread->proc
  saved,      \* the registers in thread_t are the most recent ones
  pc,         \* what each CPU is doing
  thread,     \* cpu->thread
  prev,       \* currThread, a local variable of sched_tick
  regs,       \* the thread whose most recent registers the CPU has
  rsp0,       \* the thread whose kernel stack the TSS points to
  space,      \* cpu->proc and CR3
  oldProc,    \* currProc, a local variable of sys_start_process
  newThread,  \* the thread that a system call is creating
  procs       \* processes that were created

perThread == <<state, coreId, procOf, saved>>
loaded == <<regs, rsp0, space>>
locals == <<prev, oldProc, newThread>>
vars == <<queue, qlock, perThread, pc, thread, loaded, locals, procs>>

\* The state after init: module_load has queued the main thread of the UI, no
\* CPU has taken a timer interrupt yet, and only the BSP has switched to the
\* idle process.  The idle threads stay THREAD_SUSPENDED for ever.
Init ==
  /\ queue = list_add_tail(list_init(Workers), UiThread)
  /\ qlock = NULL
  /\ state = [t \in Threads |-> IF t = UiThread THEN "RUNNING"
                                ELSE IF t \in IdleThreads THEN "SUSPENDED"
                                ELSE "none"]
  /\ coreId = [t \in Threads |-> 0]
  /\ procOf = [t \in Threads |-> IF t \in Workers THEN UiProc ELSE IdleProc]
  /\ saved = [t \in Threads |-> TRUE]
  /\ pc = [c \in CPUs |-> "user"]
  /\ thread = [c \in CPUs |-> NULL]
  /\ prev = [c \in CPUs |-> NULL]
  /\ regs = [c \in CPUs |-> NULL]
  /\ rsp0 = [c \in CPUs |-> Idle(c)]
  /\ space = [c \in CPUs |-> IF c = 0 THEN IdleProc ELSE NULL]
  /\ oldProc = [c \in CPUs |-> NULL]
  /\ newThread = [c \in CPUs |-> NULL]
  /\ procs = {UiProc}

Goto(c, label) == pc' = [pc EXCEPT ![c] = label]
InUserThread(c) == pc[c] = "user" /\ thread[c] \in Workers
-----------------------------------------------------------------------------
\* The timer interrupt (sched_handle_interrupt), which comes in user mode or
\* in halt_forever.
TimerInterrupt(c) ==
  /\ pc[c] = "user"
  /\ Goto(c, "tick")
  /\ UNCHANGED <<queue, qlock, perThread, thread, loaded, locals, procs>>

\* sys_yield calls sched_tick at once.
sys_yield(c) ==
  /\ InUserThread(c)
  /\ Goto(c, "tick")
  /\ UNCHANGED <<queue, qlock, perThread, thread, loaded, locals, procs>>

\* Mutated form of sched_tick's walk: threads of other cores are not skipped.
RunnableByAny(c, t) == t \in Workers

\* "Thread runnable by current core?"
RunnableBy(c, t) == t \in Workers /\ coreId[t] = c

\* The node at which a walk of core c through list L stops, if it finds one.
Found(c, L) ==
  {t \in Workers :
     /\ RunnableBy(c, t)
     /\ \E n \in 1 .. Cardinality(Workers) : \E s \in [1 .. n -> Workers] :
          /\ IsChain(L, s)
          /\ s[n] = t
          /\ \A i \in 1 .. n - 1 : ~RunnableBy(c, s[i])}

\* The thread sched_tick chooses; NULL if there is none for core c.
FirstRunnable(c, L) == IF Found(c, L) = {} THEN NULL ELSE CHOOSE t \in Found(c, L) : TRUE

\* The walk of sched_tick never ends: a cycle without a thread for core c.
Endless(c, L) ==
  /\ FirstRunnable(c, L) = NULL
  /\ Walk(L)[Cardinality(Workers) + 1] # NULL

\* The current thread is put back if it is runnable.
PutBack(c) ==
  IF thread[c] # NULL /\ state[thread[c]] = "RUNNING"
  THEN list_add_tail(queue, thread[c])
  ELSE queue

\* Mutated form of SchedPick: the lock is released before the registers are
\* copied, at the spin_unlock that the source has commented out.
PickUnlocksEarly(c) ==
  /\ pc[c] = "tick"
  /\ qlock = NULL
  /\ UNCHANGED qlock
  /\ prev' = [prev EXCEPT ![c] = thread[c]]
  /\ \E L \in {PutBack(c)} : \E next \in {FirstRunnable(c, L)} :
       /\ queue' = IF next = NULL THEN L ELSE list_remove(L, next)
       /\ thread' = [thread EXCEPT ![c] = IF next = NULL THEN Idle(c) ELSE next]
       /\ Goto(c, "switch")
  /\ UNCHANGED <<perThread, loaded, oldProc, newThread, procs>>

\* sched_tick, first part: take the lock, put the current thread back, choose
\* the next one and make it cpu->thread.
SchedPick(c) ==
  /\ pc[c] = "tick"
  /\ qlock = NULL
  /\ qlock' = c
  /\ prev' = [prev EXCEPT ![c] = thread[c]]
  /\ \E L \in {PutBack(c)} : \E next \in {FirstRunnable(c, L)} :
       /\ queue' = IF next = NULL THEN L ELSE list_remove(L, next)
       /\ thread' = [thread EXCEPT ![c] = IF Endless(c, L) THEN @
                                          ELSE IF next = NULL THEN Idle(c)
                                          ELSE next]
       /\ Goto(c, IF Endless(c, L) THEN "stuck" ELSE "switch")
  /\ UNCHANGED <<perThread, loaded, oldProc, newThread, procs>>

\* Saving the registers of CPU c into currThread, then restoring those of
\* nextThread: what thread_t holds afterwards, and what the CPU holds.
SavedAfter(c) ==
  LET curr == prev[c]
      stored == IF curr = NULL THEN saved
                ELSE [saved EXCEPT ![curr] = (regs[c] = curr)]
  IN [stored EXCEPT ![thread[c]] = FALSE]
RegsAfter(c) == IF saved[thread[c]] THEN thread[c] ELSE NULL

\* Mutated form of SpaceAfter: the test for a first switch is left out.
SpaceOnlyBetweenThreads(c) ==
  IF prev[c] # NULL /\ procOf[prev[c]] # procOf[thread[c]]
  THEN procOf[thread[c]] ELSE space[c]

\* proc_switch, only "if we're switcing between processes".
SpaceAfter(c) ==
  IF prev[c] = NULL \/ procOf[prev[c]] # procOf[thread[c]]
  THEN procOf[thread[c]] ELSE space[c]

\* sched_tick, second part: copy the register files, switch the address
\* space and the kernel stack, release the lock and return to user mode.
SchedSwitch(c) ==
  /\ pc[c] = "switch"
  /\ IF prev[c] = thread[c]
     THEN UNCHANGED <<saved, regs, rsp0, space>>
     ELSE /\ saved' = SavedAfter(c)
          /\ regs' = [regs EXCEPT ![c] = RegsAfter(c)]
          /\ space' = [space EXCEPT ![c] = SpaceAfter(c)]
          /\ rsp0' = [rsp0 EXCEPT ![c] = thread[c]]
  /\ prev' = [prev EXCEPT ![c] = NULL]
  /\ qlock' = NULL
  /\ Goto(c, "user")
  /\ UNCHANGED <<queue, state, coreId, procOf, thread, oldProc, newThread, procs>>
-----------------------------------------------------------------------------
\* thread_create: a suspended thread on core 0 with a fresh register file.
thread_create(t, p) ==
  /\ state[t] = "none"
  /\ state' = [state EXCEPT ![t] = "SUSPENDED"]
  /\ coreId' = [coreId EXCEPT ![t] = 0]
  /\ procOf' = [procOf EXCEPT ![t] = p]
  /\ saved' = [saved EXCEPT ![t] = TRUE]

\* sys_run_thread up to thread_resume: the thread joins the current process.
sys_run_thread(c, t) ==
  /\ InUserThread(c)
  /\ thread_create(t, space[c])
  /\ newThread' = [newThread EXCEPT ![c] = t]
  /\ oldProc' = [oldProc EXCEPT ![c] = space[c]]
  /\ Goto(c, "resume")
  /\ UNCHANGED <<queue, qlock, thread, loaded, prev, procs>>

\* sys_start_process up to thread_resume, on the address space of process p.
sys_start_process(c, t, p) ==
  /\ InUserThread(c)
  /\ p \notin procs
  /\ procs' = procs \cup {p}
  /\ oldProc' = [oldProc EXCEPT ![c] = space[c]]
  /\ space' = [space EXCEPT ![c] = p]
  /\ thread_create(t, p)
  /\ newThread' = [newThread EXCEPT ![c] = t]
  /\ Goto(c, "resume")
  /\ UNCHANGED <<queue, qlock, thread, regs, rsp0, prev>>

\* sys_start_process when elf64_load fails: the old address space is restored,
\* the new process stays behind without a thread.
StartProcessFails(c, p) ==
  /\ InUserThread(c)
  /\ p \notin procs
  /\ procs' = procs \cup {p}
  /\ UNCHANGED <<queue, qlock, perThread, pc, thread, loaded, locals>>

\* Mutated form of thread_resume: the caller's address space is not restored.
ResumeKeepsSpace(c) ==
  /\ pc[c] = "resume"
  /\ qlock = NULL
  /\ state' = [state EXCEPT ![newThread[c]] = "RUNNING"]
  /\ queue' = list_add_tail(queue, newThread[c])
  /\ newThread' = [newThread EXCEPT ![c] = NULL]
  /\ oldProc' = [oldProc EXCEPT ![c] = NULL]
  /\ Goto(c, "user")
  /\ UNCHANGED <<qlock, coreId, procOf, saved, thread, loaded, prev, procs>>

\* Mutated form of thread_resume: the thread is not queued.
ResumeForgotten(c) ==
  /\ pc[c] = "resume"
  /\ qlock = NULL
  /\ state' = [state EXCEPT ![newThread[c]] = "RUNNING"]
  /\ newThread' = [newThread EXCEPT ![c] = NULL]
  /\ space' = [space EXCEPT ![c] = oldProc[c]]
  /\ oldProc' = [oldProc EXCEPT ![c] = NULL]
  /\ Goto(c, "user")
  /\ UNCHANGED <<queue, qlock, coreId, procOf, saved, thread, regs, rsp0, prev, procs>>

\* thread_resume, and the end of the system call that called it: the address
\* space of the caller is restored.
thread_resume(c) ==
  /\ pc[c] = "resume"
  /\ qlock = NULL
  /\ state' = [state EXCEPT ![newThread[c]] = "RUNNING"]
  /\ queue' = list_add_tail(queue, newThread[c])
  /\ newThread' = [newThread EXCEPT ![c] = NULL]
  /\ space' = [space EXCEPT ![c] = oldProc[c]]
  /\ oldProc' = [oldProc EXCEPT ![c] = NULL]
  /\ Goto(c, "user")
  /\ UNCHANGED <<qlock, coreId, procOf, saved, thread, regs, rsp0, prev, procs>>

\* sys_set_affinity; an id out of range is ignored.
sys_set_affinity(c, id) ==
  /\ InUserThread(c)
  /\ id >= 0 /\ id < NCpu
  /\ coreId' = [coreId EXCEPT ![thread[c]] = id]
  /\ UNCHANGED <<queue, qlock, state, procOf, saved, pc, thread, loaded, locals, procs>>

\* sys_exit and sys_exit_thread: thread_kill on the calling thread, whose node
\* is not in the queue while it runs, and then sched_tick.
sys_exit_thread(c) ==
  /\ InUserThread(c)
  /\ qlock = NULL
  /\ queue' = IF state[thread[c]] = "RUNNING" THEN list_remove(queue, thread[c])
                                              ELSE queue
  /\ state' = [state EXCEPT ![thread[c]] = "ZOMBIE"]
  /\ Goto(c, "tick")
  /\ UNCHANGED <<qlock, coreId, procOf, saved, thread, loaded, locals, procs>>
-----------------------------------------------------------------------------
\* What a CPU does while no thread exits.
KernelStep(c) == SchedPick(c) \/ SchedSwitch(c) \/ thread_resume(c)

SystemCall(c) ==
  \/ sys_yield(c)
  \/ \E id \in -1 .. NCpu : sys_set_affinity(c, id)
  \/ \E t \in Workers : sys_run_thread(c, t)
  \/ \E t \in Workers, p \in Procs : sys_start_process(c, t, p)
  \/ \E p \in Procs : StartProcessFails(c, p)

Next == \E c \in CPUs : TimerInterrupt(c) \/ KernelStep(c) \/ SystemCall(c)
Spec == Init /\ [][Next]_vars

\* Threads may also end.
NextExit == Next \/ \E c \in CPUs : sys_exit_thread(c)
SpecExit == Init /\ [][NextExit]_vars

\* Every CPU's timer keeps firing (apic_monotonic); kernel code runs on; a CPU
\* that spins on thread_queue_lock gets it in the end, because the lock is held
\* for microseconds and each CPU takes it once in a while.
Fairness ==
  \A c \in CPUs : WF_vars(TimerInterrupt(c)) /\ SF_vars(KernelStep(c))
FairSpec == Spec /\ Fairness
-----------------------------------------------------------------------------
MaybeNode == Workers \cup {NULL}

TypeOK ==
  /\ queue \in [head : MaybeNode, tail : MaybeNode, size : Int,
                next : [Workers -> MaybeNode], prev : [Workers -> MaybeNode]]
  /\ qlock \in CPUs \cup {NULL}
  /\ state \in [Threads -> {"none", "SUSPENDED", "RUNNING", "ZOMBIE"}]
  /\ coreId \in [Threads -> CPUs]
  /\ procOf \in [Threads -> Procs \cup {IdleProc}]
  /\ saved \in [Threads -> BOOLEAN]
  /\ pc \in [CPUs -> {"user", "tick", "switch", "resume", "stuck"}]
  /\ thread \in [CPUs -> Threads \cup {NULL}]
  /\ prev \in [CPUs -> Threads \cup {NULL}]
  /\ regs \in [CPUs -> Threads \cup {NULL}]
  /\ rsp0 \in [CPUs -> Threads]
  /\ space \in [CPUs -> Procs \cup {IdleProc, NULL}]
  /\ oldProc \in [CPUs -> Procs \cup {IdleProc, NULL}]
  /\ newThread \in [CPUs -> MaybeNode]
  /\ procs \subseteq Procs

\* The ready threads: runnable and not executed by any CPU.
Ready == {t \in Workers : state[t] = "RUNNING" /\ \A c \in CPUs : thread[c] # t}

\* Every runnable thread is in exactly one place.  The queue is what sched.c
\* says it is, "a list of threads that are ready to run": intact, and with every
\* ready thread on it, none twice and no other; and sched_tick never lets two
\* CPUs execute the same thread.
QueueHoldsReadyThreads ==
  /\ \A c, d \in CPUs : thread[c] = thread[d] /\ thread[c] # NULL => c = d
  /\ WellFormed(queue)
  /\ {Elements(queue)[i] : i \in DOMAIN Elements(queue)} = Ready
  /\ Len(Elements(queue)) = Cardinality(Ready)

\* No thread is lost: every ready thread can be found by sched_tick's walk
\* through "a list of threads that are ready to run".
NoReadyThreadLost ==
  Ready \subseteq {Elements(queue)[i] : i \in DOMAIN Elements(queue)}

\* A thread goes on from where it was interrupted, whichever CPU it was on:
\* the registers restored by sched_tick are the ones it had last (the race the
\* TODO in sched_tick describes).
ResumesOwnContext ==
  \A c \in CPUs : pc[c] = "user" /\ thread[c] # NULL => regs[c] = thread[c]

\* In user mode a CPU has the address space and the kernel stack of the thread
\* it executes, although sched_tick switches the address space only when it
\* believes it must and sys_start_process borrows another one.
LoadedForThread ==
  \A c \in CPUs :
    pc[c] = "user" /\ thread[c] # NULL =>
      space[c] = procOf[thread[c]] /\ rsp0[c] = thread[c]

\* The scheduler implements the per-core first-in first-out queue.
RQ == INSTANCE ReadyQueue WITH
        ready   <- Elements(queue),
        current <- [c \in CPUs |-> IF thread[c] \in Workers THEN thread[c] ELSE NULL],
        core    <- [t \in Workers |-> coreId[t]],
        alive   <- {t \in Workers : state[t] = "RUNNING"}
ImplementsReadyQueue == RQ!Spec

\* No ready thread starves: sched_tick puts the running thread behind it, so it
\* is executed again and again.
ReadyThreadsRun ==
  \A t \in Workers :
    state[t] = "RUNNING" ~> \E c \in CPUs : pc[c] = "user" /\ thread[c] = t
=============================================================================
