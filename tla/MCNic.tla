------------------------------- MODULE MCNic -------------------------------
(***************************************************************************)
(* Instances of Nic: e1000e or igb with the reader on any CPU, and e1000   *)
(* with the reader on CPU 0, where itslwip_run binds it.  The two          *)
(* directions share no state, so the traffic is mostly one of them.        *)
(***************************************************************************)
EXTENDS Nic

Setup(locked, cpus, received, sent0) ==
  [locked |-> locked, cpus |-> cpus, received |-> received, sent |-> sent0]

MCSetups == {Setup(TRUE, {0, 1}, 5, 0), Setup(FALSE, {0}, 5, 0),
             Setup(TRUE, {1}, 1, 5)}
=============================================================================
