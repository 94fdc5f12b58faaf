----------------------------- MODULE ReadyQueue -----------------------------
(***************************************************************************)
(* What the scheduler promises: the threads that are ready to run wait in  *)
(* the order in which they became ready, and a CPU that reschedules takes  *)
(* the first of them that is bound to it.  Sched, with its pointer list    *)
(* and its lock, is shown to implement this specification.                 *)
(***************************************************************************)
EXTENDS Integers, Sequences

CONSTANTS CPUs, Workers, NULL

VARIABLES ready,        \* the ready threads, the longest waiting first
          current,      \* the worker thread each CPU executes, NULL if none
          core,         \* the core each thread is bound to
          alive         \* threads that were started and have not exited

qvars == <<ready, current, core, alive>>

\* Sequence s without its i-th element.
Without(s, i) == [j \in 1 .. Len(s) - 1 |-> IF j < i THEN s[j] ELSE s[j + 1]]

Init ==
  /\ current = [c \in CPUs |-> NULL]
  /\ core = [t \in Workers |-> 0]
  /\ \E t \in Workers : ready = <<t>> /\ alive = {t}

\* A new thread becomes ready.
Start(t) ==
  /\ t \notin alive
  /\ alive' = alive \cup {t}
  /\ ready' = Append(ready, t)
  /\ UNCHANGED <<current, core>>

\* A running thread binds itself to another core.
Bind(c, k) ==
  /\ current[c] # NULL
  /\ core' = [core EXCEPT ![current[c]] = k]
  /\ UNCHANGED <<ready, current, alive>>

\* The queue once CPU c has put its thread back.
PutBack(c) == IF current[c] = NULL THEN ready ELSE Append(ready, current[c])

\* CPU c takes the longest waiting thread bound to it, if there is one.
Reschedule(c) ==
  LET queue    == PutBack(c)
      eligible == {i \in 1 .. Len(queue) : core[queue[i]] = c}
  IN
  /\ \/ /\ eligible = {}
        /\ ready' = queue
        /\ current' = [current EXCEPT ![c] = NULL]
     \/ \E i \in eligible :
          /\ \A j \in eligible : i <= j
          /\ ready' = Without(queue, i)
          /\ current' = [current EXCEPT ![c] = queue[i]]
  /\ UNCHANGED <<core, alive>>

Next ==
  \/ \E t \in Workers : Start(t)
  \/ \E c \in CPUs : Reschedule(c) \/ \E k \in CPUs : Bind(c, k)

Spec == Init /\ [][Next]_qvars
-----------------------------------------------------------------------------
\* A thread waits at one place of the queue or runs on one CPU, never both
\* and never twice.
OnePlace ==
  /\ \A i, j \in 1 .. Len(ready) : ready[i] = ready[j] => i = j
  /\ \A i \in 1 .. Len(ready) : \A c \in CPUs : ready[i] # current[c]
  /\ \A c, d \in CPUs : current[c] = current[d] /\ current[c] # NULL => c = d

\* A thread that was started is always waiting or running: none is forgotten.
NoneForgotten ==
  \A t \in alive : \/ \E i \in 1 .. Len(ready) : ready[i] = t
                   \/ \E c \in CPUs : current[c] = t
=============================================================================
