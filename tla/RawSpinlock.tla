---------------------------- MODULE RawSpinlock -----------------------------
(***************************************************************************)
(* The one-byte lock of lock/raw_spinlock.s, which the user library's raw  *)
(* mutex (lib/internal/mutex/raw.s) repeats with sys_yield in the place of *)
(* pause_once.  A locked decrement announces the caller and, by its sign   *)
(* flag, tells whether the lock was free; a caller that lost takes its     *)
(* decrement back with a locked increment and starts again.                *)
(*                                                                         *)
(* The byte is signed and wraps at its width: with Half = 128 it is the    *)
(* byte of the code.                                                       *)
(***************************************************************************)
EXTENDS Integers, FiniteSets

CONSTANTS Threads,      \* the threads that share one lock
          Half          \* half the number of values of the lock's byte

\* One holder and every other thread between its decrement and its increment
\* bring the byte to 1 - Cardinality(Threads); it has to fit.
ASSUME ThreadsFitTheByte ==
  /\ Half \in Nat /\ Half >= 2
  /\ IsFiniteSet(Threads)
  /\ Cardinality(Threads) <= Half + 1

VARIABLES value,        \* the byte
          label         \* where each thread is in lock / unlock

rawVars == <<value, label>>

\* The signed byte: -Half .. Half - 1, two's complement.
Byte(n) == ((n + Half) % (2 * Half)) - Half

RawInit ==
  /\ value = 1
  /\ label = [t \in Threads |-> "outside"]

\* A thread calls raw_spinlock_lock.
CallLock(t) ==
  /\ label[t] = "outside"
  /\ label' = [label EXCEPT ![t] = "dec"]
  /\ UNCHANGED value

\* "lock dec byte [rdi]; jns success": one atomic instruction, whose sign flag
\* the thread tests afterwards.
Dec(t) ==
  /\ label[t] = "dec"
  /\ value' = Byte(value - 1)
  /\ label' = [label EXCEPT ![t] = IF value' >= 0 THEN "critical" ELSE "inc"]

\* Mutated form of Inc: the failed decrement is not taken back.
IncForgotten(t) ==
  /\ label[t] = "inc"
  /\ label' = [label EXCEPT ![t] = "dec"]
  /\ UNCHANGED value

\* "lock inc byte [rdi]; call pause_once; jmp raw_spinlock_lock".
Inc(t) ==
  /\ label[t] = "inc"
  /\ value' = Byte(value + 1)
  /\ label' = [label EXCEPT ![t] = "dec"]

\* Mutated form of raw_spinlock_unlock: a plain store of the free value.
UnlockStoresOne(t) ==
  /\ label[t] = "critical"
  /\ value' = 1
  /\ label' = [label EXCEPT ![t] = "outside"]

\* Mutated form of raw_spinlock_unlock: zero taken for the free value.
UnlockStoresZero(t) ==
  /\ label[t] = "critical"
  /\ value' = 0
  /\ label' = [label EXCEPT ![t] = "outside"]

raw_spinlock_unlock(t) ==
  /\ label[t] = "critical"
  /\ value' = Byte(value + 1)
  /\ label' = [label EXCEPT ![t] = "outside"]

Step(t) == Dec(t) \/ Inc(t) \/ raw_spinlock_unlock(t)

RawNext == \E t \in Threads : CallLock(t) \/ Step(t)

RawSpec == RawInit /\ [][RawNext]_rawVars

\* A thread inside lock or unlock keeps executing instructions (it spins and
\* is never descheduled for good), and a holder eventually unlocks; nobody is
\* obliged to call lock.
RawFairSpec == RawSpec /\ \A t \in Threads : WF_rawVars(Step(t))
-----------------------------------------------------------------------------
\* The type of the lock's byte and of the labels.
RawTypeOK ==
  /\ value \in -Half .. Half - 1
  /\ label \in [Threads -> {"outside", "dec", "inc", "critical"}]

Holders == {t \in Threads : label[t] = "critical"}

\* Threads whose decrement has not been taken back yet.
Charged == {t \in Threads : label[t] \in {"critical", "inc"}}

\* The byte is exactly one minus the decrements outstanding, in spite of the
\* wrap-around of the byte and of any interleaving of lock and unlock.
ValueCountsCharges == value = 1 - Cardinality(Charged)

\* raw_spinlock_lock never lets two threads in.
MutualExclusion == \A t, u \in Threads : t \in Holders /\ u \in Holders => t = u

\* The byte protocol implements a mutex: a thread enters only when nobody is
\* inside, and leaves only by unlocking.
M == INSTANCE Mutex WITH holders <- Holders
ImplementsMutex == M!Spec

\* A thread that is in the end the only one to use the lock gets it: a holder
\* that leaves and losers that step back never leave the byte at a value that
\* shuts the lock for good.
LoneContenderAcquires ==
  \A t \in Threads :
    <>[](\A u \in Threads \ {t} : label[u] = "outside")
      => (label[t] = "dec" ~> label[t] = "critical")
=============================================================================
