------------------------------- MODULE Mutex --------------------------------
(***************************************************************************)
(* What a lock of the kernel promises, whatever its implementation: a set  *)
(* of holders that is empty or a singleton.  RawSpinlock is shown to       *)
(* implement this specification.                                           *)
(***************************************************************************)
CONSTANT Threads        \* whoever may call lock and unlock

VARIABLE holders        \* the callers between a lock and an unlock

Init == holders = {}

Acquire(t) ==
  /\ holders = {}
  /\ holders' = {t}

Release(t) ==
  /\ t \in holders
  /\ holders' = holders \ {t}

Next == \E t \in Threads : Acquire(t) \/ Release(t)

Spec == Init /\ [][Next]_holders
=============================================================================
