----------------------------- MODULE PacketFifo -----------------------------
(***************************************************************************)
(* What a network driver promises in each direction: packets come out      *)
(* unchanged, once each, in the order in which they went in.               *)
(***************************************************************************)
EXTENDS Sequences

CONSTANT Packets

VARIABLES q,        \* the packets that are under way
          out       \* the packets that came out, the first one first

Init == q = <<>> /\ out = <<>>

Put(p) == q' = Append(q, p) /\ out' = out

Get == q # <<>> /\ out' = Append(out, Head(q)) /\ q' = Tail(q)

Next == Get \/ \E p \in Packets : Put(p)

Spec == Init /\ [][Next]_<<q, out>>
=============================================================================
