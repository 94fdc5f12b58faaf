----------------------------- MODULE NicProofs ------------------------------
(***************************************************************************)
(* What the network drivers promise, for rings of any size, any traffic    *)
(* and any number of setups.                                               *)
(*                                                                         *)
(* Receiving: the handler and the reader exclude each other for one of two *)
(* reasons, so the invariant relates the lock to both program counters     *)
(* where there is a lock, and otherwise says that one of the two is idle   *)
(* and the reader is on CPU 0.  From that follows that the lists of free   *)
(* and of queued buffers are chains that share nothing (BufferInv).        *)
(*                                                                         *)
(* Sending: send() picks its descriptor before the wait loop and fills the *)
(* buffer of txTail after it; the two are the same only while there is one *)
(* sender.  The pending descriptors are the ones from the device's head to *)
(* the tail (RingInv), so the ring is a queue.                             *)
(*                                                                         *)
(* What a recursive function computes (the entries along the next fields)  *)
(* is shown by the least counterexample, which LeastElement provides.      *)
(***************************************************************************)
EXTENDS Nic, FiniteSetTheorems, WellFoundedInduction, TLAPS

\* Where there is no lock the reader is bound to CPU 0 (itslwip_run).
ReaderBound == \A s \in Setups : s.locked \/ s.cpus = {0}

\* send() takes no lock: one sender at a time is what lwipMutex gives the
\* network stack, and what a caller outside it must see to.
OneSender == \A s, t \in Senders : s = t

RxRecords ==
  /\ irq = [pc |-> irq.pc, p |-> irq.p]
  /\ reader = [pc |-> reader.pc, cpu |-> reader.cpu, entry |-> reader.entry,
               after |-> reader.after]

RxInv ==
  /\ setup \in Setups
  /\ RxRecords
  /\ setup.locked => /\ IrqInSection <=> receiveLock = "irq"
                     /\ ReaderInSection <=> receiveLock = "reader"
  /\ ~setup.locked => /\ reader.cpu = 0
                      /\ irq.pc = "idle" \/ reader.pc = "idle"

\* The handler and the reader start idle, with the lock free.
LEMMA InitRx == Init => RxInv
BY DEF Init, RxInv, RxRecords, IrqInSection, ReaderInSection

\* No step of the device, the handler, the reader or a sender breaks the
\* relation between the lock and the program counters.
LEMMA NextRx == ASSUME ReaderBound PROVE RxInv /\ [Next]_vars => RxInv'
<1> SUFFICES ASSUME RxInv, [Next]_vars PROVE RxInv'
  OBVIOUS
<1> USE DEF RxInv, RxRecords, IrqInSection, ReaderInSection
<1>1. CASE Device
  BY <1>1 DEF Device, DeviceReceive, DeviceOverrun, DeviceTransmit, rxVars
<1>2. CASE handle_interrupt
  BY <1>2 DEF handle_interrupt
<1>3. CASE receive_lock
  BY <1>3 DEF receive_lock, Lock
<1>4. CASE receive_copy
  BY <1>4 DEF receive_copy
<1>5. CASE receive_status
  BY <1>5 DEF receive_status
<1>6. CASE receive_tail
  BY <1>6 DEF receive_tail
<1>7. CASE receive_unlock
  BY <1>7 DEF receive_unlock, Unlock
<1>8. ASSUME NEW cpu \in {0, 1}, next_received_packet(cpu) PROVE RxInv'
  BY <1>8, ReaderBound, Zenon DEF next_received_packet, ReaderBound
<1>9. CASE reader_lock
  BY <1>9 DEF reader_lock, Lock
<1>10. CASE reader_read
  BY <1>10, Zenon DEF reader_read
<1>11. CASE reader_remove
  BY <1>11 DEF reader_remove
<1>12. CASE reader_free
  BY <1>12, Zenon DEF reader_free
<1>13. CASE reader_unlock
  BY <1>13, Zenon DEF reader_unlock, Unlock
<1>14. ASSUME NEW s \in Senders, Send(s) PROVE RxInv'
  BY <1>14 DEF Send, send, send_fill, send_tail, rxVars
<1>15. CASE UNCHANGED vars
  BY <1>15 DEF vars, rxVars
<1> QED
  BY <1>1, <1>2, <1>3, <1>4, <1>5, <1>6, <1>7, <1>8, <1>9, <1>10, <1>11, <1>12,
     <1>13, <1>14, <1>15 DEF Next, Irq, Reader

\* In every driver the interrupt handler and the reader are never both at the
\* packet queue, by receiveLock or, in e1000, because the reader is bound to the
\* CPU that takes the interrupt.
THEOREM QueueIsExclusive ==
  ASSUME ReaderBound PROVE Spec => []QueueSectionsExclude
<1>1. RxInv => QueueSectionsExclude
  BY DEF RxInv, QueueSectionsExclude, IrqInSection, ReaderInSection
<1> QED
  BY InitRx, NextRx, <1>1, PTL DEF Spec
-----------------------------------------------------------------------------
TxTypes ==
  /\ txDesc \in [TxRing -> [length : {0, 1}, done : BOOLEAN, pkt : Nat]]
  /\ txTail \in TxRing
  /\ sender \in [Senders -> [pc : {"idle", "wait", "tail"}, desc : TxRing, pkt : Nat]]
  /\ sent \in Nat

TxInv ==
  /\ TxTypes
  /\ \A s \in Senders : sender[s].pc # "idle" => sender[s].desc = txTail
  /\ TDH \in TxRing

\* The ring starts with every descriptor unused and the sender idle.
LEMMA InitTx == Init => TxInv
BY NicConstants DEF Init, TxInv, TxTypes, TxRing, NONE

\* The descriptor a sender waits for stays the one at the tail.
LEMMA NextTx == ASSUME OneSender PROVE TxInv /\ [Next]_vars => TxInv'
<1> SUFFICES ASSUME TxInv, [Next]_vars PROVE TxInv'
  OBVIOUS
<1> USE NicConstants DEF TxInv, TxTypes
<1>1. CASE UNCHANGED txVars
  BY <1>1 DEF txVars
<1>2. CASE DeviceTransmit
  <2>1. TDH' \in TxRing
    BY <1>2 DEF DeviceTransmit, TxRing
  <2>2. txDesc' \in [TxRing -> [length : {0, 1}, done : BOOLEAN, pkt : Nat]]
    BY <1>2, Zenon DEF DeviceTransmit
  <2> QED
    BY <1>2, <2>1, <2>2 DEF DeviceTransmit
<1>3. ASSUME NEW s \in Senders, send(s) PROVE TxInv'
  BY <1>3 DEF send
<1>4. ASSUME NEW s \in Senders, send_fill(s) PROVE TxInv'
  BY <1>4, SMTT(30) DEF send_fill
<1>5. ASSUME NEW s \in Senders, send_tail(s) PROVE TxInv'
  <2>1. txTail' \in TxRing /\ 0 \in TxRing
    <3>1. txTail' = (txTail + 1) % TX_DESC_COUNT
      BY <1>5, Zenon DEF send_tail
    <3> QED
      BY <3>1 DEF TxRing
  <2>2. \A t \in Senders : sender'[t].pc = "idle"
    BY <1>5, OneSender DEF send_tail, OneSender
  <2> QED
    BY <1>5, <2>1, <2>2 DEF send_tail, NONE
<1>6. Next => \/ UNCHANGED txVars \/ DeviceTransmit
              \/ \E s \in Senders : send(s) \/ send_fill(s) \/ send_tail(s)
  BY DEF Next, Device, Irq, Reader, Send, DeviceReceive, DeviceOverrun, handle_interrupt,
         receive_lock, receive_copy, receive_status, receive_tail, receive_unlock,
         next_received_packet, reader_lock, reader_read, reader_remove, reader_free,
         reader_unlock
<1> QED
  BY <1>1, <1>2, <1>3, <1>4, <1>5, <1>6 DEF vars

\* With one sender at a time no packet that waits in the ring is overwritten,
\* whatever the size of the ring: the test of the wait loop is about the
\* descriptor whose buffer is filled.
THEOREM PendingPacketsKept ==
  ASSUME OneSender PROVE Spec => PendingIsKept
<1> DEFINE Kept == \A i \in Pending : txDesc'[i].pkt = txDesc[i].pkt
<1>1. ASSUME TxInv, Next PROVE Kept
  <2> USE DEF TxInv, TxTypes, Pending
  <2>1. ASSUME NEW s \in Senders, send_fill(s) PROVE Kept
    BY <1>1, <2>1 DEF send_fill, Unused
  <2>2. CASE DeviceTransmit
    BY <1>1, <2>2 DEF DeviceTransmit
  <2>3. CASE UNCHANGED txDesc
    BY <2>3
  <2>4. \/ UNCHANGED txDesc \/ DeviceTransmit \/ \E s \in Senders : send_fill(s)
    BY <1>1 DEF Next, Device, Irq, Reader, Send, DeviceReceive, DeviceOverrun,
         handle_interrupt, receive_lock, receive_copy, receive_status, receive_tail,
         receive_unlock, next_received_packet, reader_lock, reader_read, reader_remove,
         reader_free, reader_unlock, send, send_tail, txVars
  <2> QED
    BY <2>1, <2>2, <2>3, <2>4
<1>2. TxInv /\ [Next]_vars => [Kept]_vars
  BY <1>1
<1> QED
  BY InitTx, NextTx, <1>2, PTL DEF Spec, PendingIsKept
-----------------------------------------------------------------------------
\* The transmit ring as a queue: from the device's head on lie the descriptors
\* that are pending, up to the tail.  A descriptor is filled before the tail is
\* moved, so while a sender is in between the tail is one behind.

\* How far a descriptor is from the head, and a position of the ring.
Dist(i) == IF i >= TDH THEN i - TDH ELSE i - TDH + TX_DESC_COUNT
Wrap(x) == IF x < TX_DESC_COUNT THEN x ELSE x - TX_DESC_COUNT

AtTail == \E s \in Senders : sender[s].pc = "tail"
Behind == IF AtTail THEN 1 ELSE 0

RingInv ==
  /\ TxInv /\ setup \in Setups /\ sent \in 0 .. MaxSent
  /\ \A s \in Senders : sender[s].pc # "idle" => sender[s].pkt \in 1 .. MaxSent
  /\ \A i \in TxRing : i \in Pending <=> Dist(i) < Cardinality(Pending)
  /\ Behind <= Cardinality(Pending) /\ Cardinality(Pending) <= TX_DESC_COUNT
  /\ txTail = Wrap(TDH + Cardinality(Pending) - Behind) /\ TDT = txTail

\* Positions less than two rounds from the start are reduced by one round.
LEMMA OneRound ==
  ASSUME NEW n \in Nat \ {0}, NEW x \in 0 .. 2 * n - 1
  PROVE  x % n = IF x < n THEN x ELSE x - n
OBVIOUS

\* A function on the first n numbers is a sequence of length n.
LEMMA FunctionIsSeq ==
  ASSUME NEW n \in Nat, NEW a, a = [i \in 1 .. n |-> a[i]]
  PROVE  a \in Seq({a[i] : i \in 1 .. n}) /\ Len(a) = n /\ DOMAIN a = 1 .. n
<1>1. a \in [1 .. n -> {a[i] : i \in 1 .. n}]
  OBVIOUS
<1>2. a \in Seq({a[i] : i \in 1 .. n})
  BY <1>1
<1>3. Len(a) \in Nat /\ DOMAIN a = 1 .. Len(a) /\ DOMAIN a = 1 .. n
  BY <1>1, <1>2
<1> DEFINE l == Len(a)
<1> HIDE DEF l
<1>4. l \in Nat /\ 1 .. l = 1 .. n
  BY <1>3, Zenon DEF l
<1>5. l = n
  <2>1. l > n => l \in 1 .. n
    BY <1>4
  <2>2. n > l => n \in 1 .. l
    BY <1>4
  <2> QED
    BY <1>4, <2>1, <2>2
<1> QED
  BY <1>2, <1>3, <1>5, Zenon DEF l

\* What is left when the first element is taken out.
LEMMA TailOf ==
  ASSUME NEW n \in Nat \ {0}, NEW a, a = [i \in 1 .. n |-> a[i]]
  PROVE  a # <<>> /\ Head(a) = a[1] /\ Tail(a) = [i \in 1 .. n - 1 |-> a[i + 1]]
<1>1. a \in Seq({a[i] : i \in 1 .. n}) /\ Len(a) = n
  BY FunctionIsSeq
<1> QED
  BY <1>1

\* What is there when an element is put at the end.
LEMMA AppendTo ==
  ASSUME NEW n \in Nat, NEW a, a = [i \in 1 .. n |-> a[i]], NEW p
  PROVE  Append(a, p) = [i \in 1 .. n + 1 |-> IF i = n + 1 THEN p ELSE a[i]]
<1>1. a \in Seq({a[i] : i \in 1 .. n} \cup {p}) /\ Len(a) = n
  BY FunctionIsSeq
<1> QED
  BY <1>1

\* The pending descriptors are a finite set.
LEMMA PendingFinite ==
  IsFiniteSet(Pending) /\ Cardinality(Pending) \in Nat
<1>1. IsFiniteSet(TxRing)
  BY NicConstants, FS_Interval DEF TxRing
<1>2. Pending \subseteq TxRing
  BY DEF Pending
<1> QED
  BY <1>1, <1>2, FS_Subset, FS_CardinalityType

\* The packets under way, as the ring holds them.
LEMMA OutstandingIs ==
  ASSUME RingInv
  PROVE  Outstanding = [i \in 1 .. Cardinality(Pending) |-> txDesc[Wrap(TDH + i - 1)].pkt]
<1> DEFINE k == Cardinality(Pending)
<1>1. k \in Nat /\ k <= TX_DESC_COUNT /\ TDH \in 0 .. TX_DESC_COUNT - 1
  BY PendingFinite DEF RingInv, TxInv, TxRing
<1> HIDE DEF k
<1>2. \A i \in 1 .. k : TDH + i - 1 \in 0 .. 2 * TX_DESC_COUNT - 1
  BY <1>1, NicConstants
<1>3. \A i \in 1 .. k : (TDH + i - 1) % TX_DESC_COUNT = Wrap(TDH + i - 1)
  BY <1>2, OneRound, NicConstants, Zenon DEF Wrap
<1> QED
  BY <1>3 DEF Outstanding, k

\* An empty ring, with the tail at the head.
LEMMA InitRing == Init => RingInv
<1> SUFFICES ASSUME Init PROVE RingInv
  OBVIOUS
<1>1. Pending = {}
  BY DEF Init, Pending
<1>2. Cardinality(Pending) = 0
  BY <1>1, FS_EmptySet
<1>3. ~AtTail
  BY DEF Init, AtTail
<1>4. \A i \in TxRing : ~(Dist(i) < 0)
  BY DEF Init, TxRing, Dist
<1>5. \A s \in Senders : sender[s].pc = "idle"
  BY DEF Init
<1> QED
  BY <1>1, <1>2, <1>3, <1>4, <1>5, InitTx, NicConstants DEF Init, RingInv, Behind, Wrap

\* Steps of the others leave the ring alone.
LEMMA QuietRing ==
  ASSUME RingInv, TxInv', setup' = setup, UNCHANGED txVars
  PROVE  RingInv' /\ UNCHANGED <<Outstanding, wire>>
<1>1. /\ txDesc' = txDesc /\ TDH' = TDH /\ TDT' = TDT /\ txTail' = txTail
      /\ sender' = sender /\ sent' = sent /\ wire' = wire
  BY DEF txVars
<1>2. Pending' = Pending /\ Behind' = Behind
  BY <1>1 DEF Pending, Behind, AtTail
<1> QED
  BY <1>1, <1>2 DEF RingInv, Dist, Wrap, Outstanding

\* A descriptor is chosen.
LEMMA SendRing ==
  ASSUME RingInv, TxInv', NEW s \in Senders, send(s)
  PROVE  RingInv' /\ UNCHANGED <<Outstanding, wire>>
<1>1. /\ txDesc' = txDesc /\ TDH' = TDH /\ TDT' = TDT /\ txTail' = txTail
      /\ setup' = setup /\ wire' = wire /\ sent' = sent + 1 /\ sent < setup.sent
      /\ sender[s].pc = "idle"
      /\ sender' = [sender EXCEPT ![s] = [pc |-> "wait", desc |-> txTail, pkt |-> sent']]
  BY DEF send
<1>2. setup.sent \in 0 .. MaxSent
  BY NicConstants DEF RingInv
<1>3. sent' \in 1 .. MaxSent
  BY <1>1, <1>2, NicConstants DEF RingInv
<1>4. /\ sender'[s] = [pc |-> "wait", desc |-> txTail, pkt |-> sent']
      /\ \A t \in Senders \ {s} : sender'[t] = sender[t]
  BY <1>1 DEF RingInv, TxInv, TxTypes
<1>5. \A t \in Senders : sender'[t].pc # "idle" => sender'[t].pkt \in 1 .. MaxSent
  BY <1>3, <1>4 DEF RingInv
<1>6. Pending' = Pending /\ Behind' = Behind
  BY <1>1, <1>4 DEF Pending, Behind, AtTail
<1>7. sent' \in 0 .. MaxSent
  BY <1>3, NicConstants
<1> QED
  BY <1>1, <1>5, <1>6, <1>7 DEF RingInv, Dist, Wrap, Outstanding

\* The tail is moved past the descriptor that has been filled.
LEMMA SendTailRing ==
  ASSUME OneSender, RingInv, TxInv', NEW s \in Senders, send_tail(s)
  PROVE  RingInv' /\ UNCHANGED <<Outstanding, wire>>
<1> DEFINE k == Cardinality(Pending)
<1>1. /\ txDesc' = txDesc /\ TDH' = TDH /\ TDT' = txTail' /\ sent' = sent
      /\ txTail' = (txTail + 1) % TX_DESC_COUNT
      /\ setup' = setup /\ wire' = wire /\ sender[s].pc = "tail"
      /\ sender' = [sender EXCEPT ![s] = [pc |-> "idle", desc |-> 0, pkt |-> NONE]]
  BY DEF send_tail
<1>2. \A t \in Senders : sender'[t].pc = "idle"
  BY <1>1, OneSender DEF OneSender, RingInv, TxInv, TxTypes
<1>3. Pending' = Pending /\ Behind = 1 /\ Behind' = 0
  BY <1>1, <1>2 DEF Pending, Behind, AtTail
<1>4. /\ k \in Nat /\ 1 <= k /\ k <= TX_DESC_COUNT /\ TDH \in 0 .. TX_DESC_COUNT - 1
      /\ txTail \in 0 .. TX_DESC_COUNT - 1 /\ txTail = Wrap(TDH + k - 1)
  BY <1>3, PendingFinite DEF RingInv, TxInv, TxTypes, TxRing
<1> HIDE DEF k
<1>5. txTail' = Wrap(txTail + 1)
  <2>1. txTail + 1 \in 0 .. 2 * TX_DESC_COUNT - 1
    BY <1>4, NicConstants
  <2> QED
    BY <1>1, <2>1, OneRound, NicConstants DEF Wrap
<1>6. txTail' = Wrap(TDH + k - 0)
  BY <1>4, <1>5, NicConstants DEF Wrap
<1>7. txTail' = Wrap(TDH' + Cardinality(Pending') - Behind') /\ Behind' <= Cardinality(Pending')
  BY <1>1, <1>3, <1>4, <1>6 DEF k
<1> QED
  BY <1>1, <1>2, <1>3, <1>7 DEF RingInv, Dist, Wrap, Outstanding

\* The descriptor at the tail is filled: it is the first one past those that are
\* pending, since a full ring has none for which the wait loop ends.
LEMMA SendFillRing ==
  ASSUME OneSender, RingInv, TxInv', NEW s \in Senders, send_fill(s)
  PROVE  RingInv' /\ \E p \in 1 .. MaxSent : Sent!Put(p)
<1> DEFINE k == Cardinality(Pending)
           p == sender[s].pkt
<1>1. /\ sender[s].pc = "wait" /\ sender[s].desc = txTail /\ p \in 1 .. MaxSent
      /\ TDH' = TDH /\ TDT' = TDT /\ txTail' = txTail /\ setup' = setup
      /\ sent' = sent /\ wire' = wire /\ Unused(txDesc[txTail])
      /\ sender' = [sender EXCEPT ![s].pc = "tail"]
  BY DEF send_fill, RingInv, TxInv
<1>2. /\ txDesc'[txTail] = [length |-> 1, done |-> FALSE, pkt |-> p]
      /\ \A i \in TxRing \ {txTail} : txDesc'[i] = txDesc[i]
  <2>1. txDesc' = [[txDesc EXCEPT ![txTail].pkt = p]
                      EXCEPT ![txTail].length = 1, ![txTail].done = FALSE]
    BY <1>1 DEF send_fill
  <2> QED
    BY <2>1, Zenon DEF RingInv, TxInv, TxTypes
<1>3. /\ txTail \in TxRing /\ TDH \in TxRing /\ txTail \notin Pending
      /\ Pending \subseteq TxRing
  BY <1>1 DEF RingInv, TxInv, TxTypes, Pending, Unused
<1>4. Pending' = Pending \cup {txTail}
  BY <1>2, <1>3 DEF Pending
<1>5. Cardinality(Pending') = k + 1 /\ k \in Nat
  BY <1>3, <1>4, PendingFinite, FS_AddElement
<1>6. Behind = 0 /\ Behind' = 1
  <2>1. \A t \in Senders : t = s
    BY OneSender DEF OneSender
  <2>2. sender'[s].pc = "tail"
    BY <1>1 DEF RingInv, TxInv, TxTypes
  <2> QED
    BY <1>1, <2>1, <2>2 DEF Behind, AtTail
<1>7. /\ k <= TX_DESC_COUNT /\ txTail = Wrap(TDH + k)
      /\ \A i \in TxRing : i \in Pending <=> Dist(i) < k
  <2>1. txTail = Wrap(TDH + k - 0)
    BY <1>6 DEF RingInv
  <2>2. TDH + k - 0 = TDH + k
    BY <1>3, <1>5, NicConstants DEF TxRing
  <2> QED
    BY <2>1, <2>2 DEF RingInv
<1> HIDE DEF k
<1>8. k < TX_DESC_COUNT /\ Dist(txTail) = k
  BY <1>3, <1>5, <1>7, NicConstants DEF Wrap, Dist, TxRing
<1>9. \A i \in TxRing : i \in Pending' <=> Dist(i) < k + 1
  <2>1. \A i \in TxRing : Dist(i) = k => i = txTail
    BY <1>3, <1>5, <1>8, NicConstants DEF Dist, TxRing
  <2>2. \A i \in TxRing : Dist(i) \in Int
    BY <1>3, NicConstants DEF Dist, TxRing
  <2> QED
    BY <1>4, <1>5, <1>7, <1>8, <2>1, <2>2
<1>10. RingInv'
  <2>1. TDH' + (k + 1) - 1 = TDH + k
    BY <1>1, <1>3, <1>5, NicConstants DEF TxRing
  <2>2. txTail' = Wrap(TDH' + Cardinality(Pending') - Behind') /\ TDT' = txTail'
    BY <1>1, <1>5, <1>6, <1>7, <2>1 DEF RingInv
  <2>3. \A i \in TxRing : i \in Pending' <=> Dist(i)' < Cardinality(Pending')
    BY <1>1, <1>5, <1>9 DEF Dist
  <2>4. Behind' <= Cardinality(Pending') /\ Cardinality(Pending') <= TX_DESC_COUNT
    BY <1>5, <1>6, <1>8, NicConstants
  <2>5. \A t \in Senders : sender'[t].pkt = sender[t].pkt /\ sender[s].pc # "idle"
                             /\ (t # s => sender'[t].pc = sender[t].pc)
    BY <1>1 DEF RingInv, TxInv, TxTypes
  <2> QED
    BY <1>1, <2>2, <2>3, <2>4, <2>5 DEF RingInv, Wrap
<1>11. Outstanding' = Append(Outstanding, p)
  <2>1. Outstanding = [i \in 1 .. k |-> txDesc[Wrap(TDH + i - 1)].pkt]
    BY OutstandingIs DEF k
  <2>2. Outstanding' = [i \in 1 .. k + 1 |-> txDesc'[Wrap(TDH + i - 1)].pkt]
    <3>1. Outstanding' = [i \in 1 .. Cardinality(Pending') |-> txDesc'[(TDH' + i - 1) % TX_DESC_COUNT].pkt]
      BY DEF Outstanding
    <3>2. \A i \in 1 .. k + 1 : TDH + i - 1 \in 0 .. 2 * TX_DESC_COUNT - 1
      BY <1>3, <1>5, <1>8, NicConstants DEF TxRing
    <3>3. \A i \in 1 .. k + 1 : (TDH + i - 1) % TX_DESC_COUNT = Wrap(TDH + i - 1)
      BY <3>2, OneRound, NicConstants, Zenon DEF Wrap
    <3> QED
      BY <1>1, <1>5, <3>1, <3>3
  <2>3. \A i \in 1 .. k : Wrap(TDH + i - 1) \in TxRing \ {txTail}
    BY <1>3, <1>5, <1>7, <1>8, NicConstants DEF Wrap, TxRing
  <2>4. \A i \in 1 .. k : txDesc'[Wrap(TDH + i - 1)].pkt = txDesc[Wrap(TDH + i - 1)].pkt
    BY <1>2, <2>3
  <2>5. txDesc'[Wrap(TDH + (k + 1) - 1)].pkt = p
    <3>1. TDH + (k + 1) - 1 = TDH + k
      BY <1>3, <1>5, NicConstants DEF TxRing
    <3> QED
      BY <1>2, <1>7, <3>1
  <2> DEFINE a == [i \in 1 .. k |-> txDesc[Wrap(TDH + i - 1)].pkt]
             b(i) == txDesc'[Wrap(TDH + i - 1)].pkt
  <2>6. a = [i \in 1 .. k |-> a[i]]
    OBVIOUS
  <2> HIDE DEF a
  <2>7. Append(a, p) = [i \in 1 .. k + 1 |-> IF i = k + 1 THEN p ELSE a[i]]
    BY <1>5, <2>6, AppendTo
  <2>8. \A i \in 1 .. k + 1 : b(i) = IF i = k + 1 THEN p ELSE a[i]
    BY <1>5, <2>4, <2>5 DEF a
  <2> QED
    BY <2>1, <2>2, <2>7, <2>8, Zenon DEF a
<1> QED
  BY <1>1, <1>10, <1>11, SMTT(30) DEF Sent!Put

\* The device sends the packet at its head, which is pending: only an empty or
\* a full ring has its head at the tail, and the device sends from neither.
LEMMA TransmitRing ==
  ASSUME RingInv, TxInv', DeviceTransmit
  PROVE  RingInv' /\ Sent!Get
<1> DEFINE k == Cardinality(Pending)
<1>1. /\ TDH # TDT /\ wire' = Append(wire, txDesc[TDH].pkt)
      /\ txDesc' = [txDesc EXCEPT ![TDH].done = TRUE]
      /\ TDH' = (TDH + 1) % TX_DESC_COUNT
      /\ setup' = setup /\ TDT' = TDT /\ txTail' = txTail /\ sender' = sender /\ sent' = sent
  BY DEF DeviceTransmit
<1>2. Behind' = Behind /\ Behind \in {0, 1}
  BY <1>1 DEF Behind, AtTail
<1>3. /\ k \in Nat /\ Behind <= k /\ k <= TX_DESC_COUNT /\ TDH \in TxRing
      /\ TDH # txTail /\ txTail = Wrap(TDH + k - Behind)
      /\ \A i \in TxRing : i \in Pending <=> Dist(i) < k
  BY <1>1, PendingFinite DEF RingInv, TxInv
<1>4. TDH' = Wrap(TDH + 1)
  <2>1. TDH + 1 \in 0 .. 2 * TX_DESC_COUNT - 1
    BY <1>3, NicConstants DEF TxRing
  <2> QED
    BY <1>1, <2>1, OneRound, NicConstants DEF Wrap
<1>5. k >= 1 /\ Dist(TDH) = 0 /\ TDH \in Pending
  <2> HIDE DEF k
  <2>1. k # 0
    BY <1>2, <1>3, NicConstants DEF Wrap, TxRing
  <2>2. Dist(TDH) = 0
    BY <1>3, NicConstants DEF TxRing, Dist
  <2> QED
    BY <1>3, <2>1, <2>2
<1>6. /\ \A i \in TxRing \ {TDH} : txDesc'[i] = txDesc[i]
      /\ txDesc'[TDH].done /\ \A i \in TxRing : txDesc'[i].pkt = txDesc[i].pkt
  BY <1>1 DEF RingInv, TxInv, TxTypes
<1>7. Pending' = Pending \ {TDH}
  BY <1>3, <1>6 DEF Pending
<1>8. Cardinality(Pending') = k - 1
  BY <1>5, <1>7, PendingFinite, FS_RemoveElement
<1> HIDE DEF k
<1>9. \A i \in TxRing : Dist(i)' = IF i = TDH THEN TX_DESC_COUNT - 1 ELSE Dist(i) - 1
  BY <1>3, <1>4, NicConstants DEF Dist, Wrap, TxRing
<1>10. \A i \in TxRing : i \in Pending' <=> Dist(i)' < k - 1
  <2>1. \A i \in TxRing : Dist(i) \in Int
    BY <1>3, NicConstants DEF Dist, TxRing
  <2> QED
    BY <1>3, <1>7, <1>9, <2>1, NicConstants
<1>11. Behind <= k - 1 /\ txTail = Wrap(TDH' + (k - 1) - Behind)
  <2>1. Behind <= k - 1
    BY <1>2, <1>3, <1>5, NicConstants DEF Wrap, TxRing
  <2> QED
    BY <1>2, <1>3, <1>4, <2>1, NicConstants DEF Wrap, TxRing
<1>12. RingInv'
  <2>1. \A i \in TxRing : i \in Pending' <=> Dist(i)' < Cardinality(Pending')
    BY <1>8, <1>10
  <2>2. Behind' <= Cardinality(Pending') /\ Cardinality(Pending') <= TX_DESC_COUNT
    BY <1>2, <1>3, <1>8, <1>11, NicConstants
  <2>3. txTail' = Wrap(TDH' + Cardinality(Pending') - Behind') /\ TDT' = txTail'
    BY <1>1, <1>2, <1>8, <1>11 DEF RingInv
  <2> QED
    BY <1>1, <2>1, <2>2, <2>3 DEF RingInv, Wrap
<1>13. Outstanding # <<>> /\ Head(Outstanding) = txDesc[TDH].pkt /\ Outstanding' = Tail(Outstanding)
  <2> DEFINE a == [i \in 1 .. k |-> txDesc[Wrap(TDH + i - 1)].pkt]
             b(i) == txDesc'[Wrap(TDH' + i - 1)].pkt
  <2>1. Outstanding = a
    BY OutstandingIs DEF k
  <2>2. Outstanding' = [i \in 1 .. k - 1 |-> b(i)]
    <3>1. Outstanding' = [i \in 1 .. Cardinality(Pending') |-> txDesc'[(TDH' + i - 1) % TX_DESC_COUNT].pkt]
      BY DEF Outstanding
    <3>2. TDH' \in TxRing
      BY DEF TxInv
    <3>3. \A i \in 1 .. k - 1 : TDH' + i - 1 \in 0 .. 2 * TX_DESC_COUNT - 1
      <4>1. TDH' \in 0 .. TX_DESC_COUNT - 1 /\ k \in Nat /\ k <= TX_DESC_COUNT
        BY <1>3, <3>2 DEF TxRing
      <4> DEFINE h == TDH'
      <4> HIDE DEF h
      <4>2. h \in Nat /\ h <= TX_DESC_COUNT - 1 /\ k \in Nat /\ k <= TX_DESC_COUNT
              /\ TX_DESC_COUNT \in Nat
        BY <4>1, NicConstants DEF h
      <4>3. \A i \in 1 .. k - 1 : h + i - 1 \in 0 .. 2 * TX_DESC_COUNT - 1
        BY <4>2
      <4> QED
        BY <4>3 DEF h
    <3>4. \A i \in 1 .. k - 1 : (TDH' + i - 1) % TX_DESC_COUNT = Wrap(TDH' + i - 1)
      BY <3>3, OneRound, NicConstants, Zenon DEF Wrap
    <3> QED
      BY <1>8, <3>1, <3>4
  <2>3. \A i \in 1 .. k - 1 : Wrap(TDH' + i - 1) = Wrap(TDH + (i + 1) - 1)
    BY <1>3, <1>4, NicConstants DEF Wrap, TxRing
  <2>4. \A i \in 1 .. k - 1 : Wrap(TDH + (i + 1) - 1) \in TxRing
    BY <1>3, NicConstants DEF Wrap, TxRing
  <2>5. \A i \in 1 .. k - 1 : b(i) = a[i + 1]
    BY <1>3, <1>6, <2>3, <2>4
  <2>6. a = [i \in 1 .. k |-> a[i]] /\ k \in Nat \ {0}
    BY <1>3, <1>5
  <2>7. a # <<>> /\ Head(a) = a[1] /\ Tail(a) = [i \in 1 .. k - 1 |-> a[i + 1]]
    <3> HIDE DEF a
    <3> QED
      BY <2>6, TailOf
  <2>8. Wrap(TDH + 1 - 1) = TDH
    BY <1>3, NicConstants DEF Wrap, TxRing
  <2>9. a[1] = txDesc[TDH].pkt
    BY <1>3, <1>5, <2>8
  <2> QED
    BY <2>1, <2>2, <2>5, <2>7, <2>9, ZenonT(40)
<1> QED
  BY <1>1, <1>12, <1>13 DEF Sent!Get

\* In the sending direction the driver is a lossless FIFO for a ring of any size
\* and any traffic of one sender: the device puts the packets on the wire as they
\* were given to send(), each once, and in the same order.
THEOREM SendingIsFifo ==
  ASSUME OneSender PROVE Spec => TxImplementsFifo
<1>1. Init => Sent!Init
  <2> SUFFICES ASSUME Init PROVE Outstanding = <<>> /\ wire = <<>>
    BY DEF Sent!Init
  <2>1. Pending = {}
    BY DEF Init, Pending
  <2>2. Cardinality(Pending) = 0
    BY <2>1, FS_EmptySet
  <2> QED
    BY <2>2 DEF Init, Outstanding
<1>2. ASSUME RingInv, TxInv', [Next]_vars
      PROVE  RingInv' /\ [Sent!Next]_<<Outstanding, wire>>
  <2>1. CASE setup' = setup /\ UNCHANGED txVars
    BY <1>2, <2>1, QuietRing
  <2>2. CASE DeviceTransmit
    BY <1>2, <2>2, TransmitRing DEF Sent!Next
  <2>3. ASSUME NEW s \in Senders, Send(s)
        PROVE  RingInv' /\ [Sent!Next]_<<Outstanding, wire>>
    BY <1>2, <2>3, SendRing, SendFillRing, SendTailRing, Zenon DEF Send, Sent!Next
  <2>4. \/ setup' = setup /\ UNCHANGED txVars
        \/ DeviceTransmit \/ \E s \in Senders : Send(s)
    BY <1>2, SMTT(30) DEF Next, Device, Irq, Reader, DeviceReceive, DeviceOverrun, handle_interrupt,
         receive_lock, receive_copy, receive_status, receive_tail, receive_unlock,
         next_received_packet, reader_lock, reader_read, reader_remove, reader_free,
         reader_unlock, vars
  <2> QED
    BY <2>1, <2>2, <2>3, <2>4
<1>3. RingInv /\ [Next]_vars => RingInv' /\ [Sent!Next]_<<Outstanding, wire>>
  BY <1>2, NextTx DEF RingInv
<1> QED
  BY <1>1, <1>3, InitRing, PTL DEF Spec, TxImplementsFifo, Sent!Spec
-----------------------------------------------------------------------------
\* Types of both directions, with what they rest on: a round of receive() is
\* counted before the bound is reached, and packets are numbered as they come.
DriverTypes ==
  /\ setup \in Setups
  /\ rxDesc \in [RxRing -> [dd : BOOLEAN, pkt : BAD .. MaxReceived]]
  /\ RDH \in RxRing /\ RDT \in RxRing /\ rxTail = RDT
  /\ icr \subseteq {"RXT0", "RXO"} /\ receiveLock \in {"free", "irq", "reader"}
  /\ irq \in [pc : {"idle", "lock", "loop", "status", "tail", "unlock"},
              p : 0 .. RX_DESC_COUNT]
  /\ irq.pc \in {"status", "tail"} => irq.p < RX_DESC_COUNT
  /\ reader.pc \in {"idle", "lock", "read", "remove", "free", "unlock"}
  /\ arrived \in 0 .. MaxReceived

SenderTypes ==
  /\ setup \in Setups
  /\ txDesc \in [TxRing -> [length : {0, 1}, done : BOOLEAN, pkt : 0 .. MaxSent]]
  /\ TDH \in TxRing /\ TDT = txTail /\ txTail \in TxRing
  /\ sender \in [Senders -> [pc : {"idle", "wait", "tail"}, desc : TxRing,
                             pkt : 0 .. MaxSent]]
  /\ sent \in 0 .. MaxSent

\* The entries s[1], ..., s[m] hang together by their next fields nx, from
\* start to the end, and none is met twice.
IsChain(nx, start, m, s) ==
  /\ m \in Nat /\ s = [i \in 1 .. m |-> s[i]]
  /\ start = IF m = 0 THEN NONE ELSE s[1]
  /\ \A i \in 1 .. m : s[i] \in DOMAIN nx /\ nx[s[i]] = IF i = m THEN NONE ELSE s[i + 1]
  /\ \A i, j \in 1 .. m : s[i] = s[j] => i = j

Members(m, s) == {s[i] : i \in 1 .. m}
Hands == IF reader.pc = "free" THEN {reader.entry} ELSE {}

\* The lists of free and of queued buffers: every buffer is in one place, and
\* what the reader has read of the queue is still so.
Lists(f, fs, q, qs) ==
  /\ IsChain(next, receivedPacketsBufferListStart, f, fs)
  /\ IsChain(next, receivedPacketsQueueStart, q, qs)
  /\ receivedPacketsQueueEnd = IF q = 0 THEN NONE ELSE qs[q]
  /\ Members(f, fs) \cap Members(q, qs) = {}
  /\ Hands \cap (Members(f, fs) \cup Members(q, qs)) = {}
  /\ DOMAIN next = Members(f, fs) \cup Members(q, qs) \cup Hands
  /\ DOMAIN next = 1 .. f + q + (IF reader.pc = "free" THEN 1 ELSE 0)
  /\ next = [e \in DOMAIN next |-> next[e]] /\ packet = [e \in DOMAIN next |-> packet[e]]
  /\ reader.entry \in DOMAIN next \cup {NONE} /\ reader.after \in DOMAIN next \cup {NONE}
  /\ reader.pc \in {"lock", "read", "remove"} => q > 0
  /\ reader.pc = "remove" => reader.entry = qs[1] /\ reader.after = next[qs[1]]

BufferInv == RxInv /\ DriverTypes /\ \E f, fs, q, qs : Lists(f, fs, q, qs)

\* The types of the receiving side at the start ...
LEMMA InitDriver == Init => DriverTypes
BY NicConstants, SMTT(30) DEF Init, DriverTypes, RxRing, NONE, BAD

\* ... and after every step.
LEMMA NextDriver == DriverTypes /\ RxRecords /\ [Next]_vars => DriverTypes'
<1> SUFFICES ASSUME DriverTypes, RxRecords, [Next]_vars PROVE DriverTypes'
  OBVIOUS
<1> USE NicConstants DEF DriverTypes
<1>1. ASSUME NEW x \in RxRing PROVE (x + 1) % RX_DESC_COUNT \in RxRing
  BY DEF RxRing
<1>2. CASE DeviceReceive
  <2>1. PICK pkt \in {arrived + 1, BAD} :
          rxDesc' = [rxDesc EXCEPT ![RDH] = [dd |-> TRUE, pkt |-> pkt]]
    BY <1>2, Zenon DEF DeviceReceive
  <2>2. setup.received \in 0 .. MaxReceived
    OBVIOUS
  <2>3. arrived + 1 \in 0 .. MaxReceived /\ arrived' = arrived + 1
    BY <1>2, <2>2 DEF DeviceReceive
  <2>4. pkt \in BAD .. MaxReceived
    BY <2>1, <2>3 DEF BAD
  <2>5. rxDesc' \in [RxRing -> [dd : BOOLEAN, pkt : BAD .. MaxReceived]]
    BY <2>1, <2>4
  <2>6. RDH' \in RxRing
    BY <1>1, <1>2 DEF DeviceReceive
  <2> QED
    BY <1>2, <2>3, <2>5, <2>6 DEF DeviceReceive
<1>3. CASE DeviceOverrun
  BY <1>3 DEF DeviceOverrun
<1>4. CASE DeviceTransmit
  BY <1>4 DEF DeviceTransmit, rxVars
<1>5. CASE handle_interrupt
  BY <1>5 DEF handle_interrupt
<1>6. CASE receive_lock
  BY <1>6 DEF receive_lock, Lock
<1>7. CASE receive_copy
  BY <1>7 DEF receive_copy
<1>8. CASE receive_status
  <2>1. newRxTail \in RxRing
    BY <1>1 DEF newRxTail
  <2>2. rxDesc' \in [RxRing -> [dd : BOOLEAN, pkt : BAD .. MaxReceived]]
    BY <1>8, <2>1, ZenonT(40) DEF receive_status
  <2> QED
    BY <1>8, <2>2 DEF receive_status
<1>9. CASE receive_tail
  <2>1. newRxTail \in RxRing
    BY <1>1 DEF newRxTail
  <2> QED
    BY <1>9, <2>1 DEF receive_tail
<1>10. CASE receive_unlock
  BY <1>10 DEF receive_unlock, Unlock
<1>11. ASSUME NEW cpu \in {0, 1}, next_received_packet(cpu) PROVE DriverTypes'
  BY <1>11 DEF next_received_packet, RxRecords
<1>12. CASE reader_lock
  BY <1>12 DEF reader_lock, Lock, RxRecords
<1>13. CASE reader_read \/ reader_remove
  BY <1>13, Zenon DEF reader_read, reader_remove, RxRecords
<1>14. CASE reader_free
  BY <1>14, SMTT(30) DEF reader_free, RxRecords
<1>15. CASE reader_unlock
  BY <1>15 DEF reader_unlock, Unlock, RxRecords
<1>16. ASSUME NEW s \in Senders, Send(s) PROVE DriverTypes'
  BY <1>16 DEF Send, send, send_fill, send_tail, rxVars
<1>17. CASE UNCHANGED vars
  BY <1>17 DEF vars, rxVars
<1> QED
  BY <1>2, <1>3, <1>4, <1>5, <1>6, <1>7, <1>8, <1>9, <1>10, <1>11, <1>12, <1>13, <1>14,
     <1>15, <1>16, <1>17 DEF Next, Device, Irq, Reader

\* The types of the sending side, for any number of senders.
LEMMA InitSender == Init => SenderTypes
BY NicConstants DEF Init, SenderTypes, TxRing, NONE

\* They are kept as well.
LEMMA NextSender == SenderTypes /\ [Next]_vars => SenderTypes'
<1> SUFFICES ASSUME SenderTypes, [Next]_vars PROVE SenderTypes'
  OBVIOUS
<1> USE NicConstants DEF SenderTypes
<1>1. ASSUME NEW x \in TxRing PROVE (x + 1) % TX_DESC_COUNT \in TxRing /\ 0 \in TxRing
  BY DEF TxRing
<1>2. CASE setup' = setup /\ UNCHANGED txVars
  BY <1>2 DEF txVars
<1>3. CASE DeviceTransmit
  <2>1. TDH' \in TxRing
    BY <1>1, <1>3 DEF DeviceTransmit
  <2>2. txDesc' \in [TxRing -> [length : {0, 1}, done : BOOLEAN, pkt : 0 .. MaxSent]]
    BY <1>3, ZenonT(40) DEF DeviceTransmit
  <2> QED
    BY <1>3, <2>1, <2>2 DEF DeviceTransmit
<1>4. ASSUME NEW s \in Senders, send(s) PROVE SenderTypes'
  <2>1. setup.sent \in 0 .. MaxSent
    OBVIOUS
  <2>2. sent' \in 0 .. MaxSent
    BY <1>4, <2>1 DEF send
  <2> QED
    BY <1>4, <2>2 DEF send
<1>5. ASSUME NEW s \in Senders, send_fill(s) PROVE SenderTypes'
  <2> DEFINE d == sender[s].desc
             filled == [txDesc EXCEPT ![txTail].pkt = sender[s].pkt]
  <2>1. d \in TxRing /\ sender[s].pkt \in 0 .. MaxSent
    OBVIOUS
  <2>2. filled \in [TxRing -> [length : {0, 1}, done : BOOLEAN, pkt : 0 .. MaxSent]]
    BY <2>1, SMTT(30)
  <2>3. txDesc' = [filled EXCEPT ![d].length = 1, ![d].done = FALSE]
    BY <1>5 DEF send_fill
  <2> HIDE DEF filled, d
  <2>4. txDesc' \in [TxRing -> [length : {0, 1}, done : BOOLEAN, pkt : 0 .. MaxSent]]
    BY <2>1, <2>2, <2>3, Zenon
  <2>5. sender' \in [Senders -> [pc : {"idle", "wait", "tail"}, desc : TxRing,
                                pkt : 0 .. MaxSent]]
    BY <1>5, Zenon DEF send_fill
  <2>6. UNCHANGED <<setup, TDH, TDT, txTail, sent>>
    BY <1>5 DEF send_fill
  <2> QED
    BY <2>4, <2>5, <2>6
<1>6. ASSUME NEW s \in Senders, send_tail(s) PROVE SenderTypes'
  <2>1. txTail' \in TxRing /\ 0 \in TxRing /\ NONE \in 0 .. MaxSent
    BY <1>1, <1>6 DEF send_tail, NONE
  <2> QED
    BY <1>6, <2>1 DEF send_tail
<1>7. \/ setup' = setup /\ UNCHANGED txVars
      \/ DeviceTransmit \/ \E s \in Senders : Send(s)
  BY DEF Next, Device, Irq, Reader, DeviceReceive, DeviceOverrun, handle_interrupt,
         receive_lock, receive_copy, receive_status, receive_tail, receive_unlock,
         next_received_packet, reader_lock, reader_read, reader_remove, reader_free,
         reader_unlock, vars
<1> QED
  BY <1>2, <1>3, <1>4, <1>5, <1>6, <1>7 DEF Send

\* A non-empty set of naturals has a least element: the induction of the
\* lemmas below.
LEMMA LeastElement ==
  ASSUME NEW T \in SUBSET Nat, T # {}
  PROVE  \E x \in T : \A y \in T : x <= y
<1> DEFINE R == OpToRel(<, Nat)
<1>1. PICK x \in T : \A y \in T : ~(<<y, x>> \in R)
  BY NatLessThanWellFounded, WFMin, Zenon
<1>2. ASSUME NEW y \in T PROVE x <= y
  <2>1. ~(y < x)
    BY <1>1, Zenon DEF OpToRel
  <2> QED
    BY <2>1
<1> QED
  BY <1>2

\* The first k numbers are k numbers.
LEMMA CardinalityUpTo ==
  ASSUME NEW k \in Nat
  PROVE  IsFiniteSet(1 .. k) /\ Cardinality(1 .. k) = k
<1>1. IsFiniteSet(1 .. k) /\ Cardinality(1 .. k) = IF 1 > k THEN 0 ELSE k - 1 + 1
  BY FS_Interval
<1> QED
  BY <1>1

\* A chain is no longer than the number of entries.
LEMMA ChainBound ==
  ASSUME NEW n \in Nat, NEW nx, DOMAIN nx = 1 .. n, NEW e, NEW m, NEW s, IsChain(nx, e, m, s)
  PROVE  m \in Nat /\ m <= n
<1>1. /\ m \in Nat /\ s \in [1 .. m -> 1 .. n]
      /\ \A i, j \in 1 .. m : s[i] = s[j] => i = j
  BY Zenon DEF IsChain
<1>2. s \in Injection(1 .. m, 1 .. n)
  BY <1>1 DEF Injection, IsInjective
<1>3. IsFiniteSet(1 .. n) /\ Cardinality(1 .. n) = n /\ Cardinality(1 .. m) = m
  BY <1>1, CardinalityUpTo
<1>4. Cardinality(1 .. m) <= Cardinality(1 .. n)
  BY <1>2, <1>3, FS_Injection
<1> QED
  BY <1>1, <1>3, <1>4

\* Following the next fields from the start of a chain yields the chain: the
\* recursive definition has a solution, and by the least argument on which two
\* solutions differ no other.
LEMMA ChainIs ==
  ASSUME NEW n \in Nat, next = [x \in 1 .. n |-> next[x]], NEW e, NEW m, NEW s,
         IsChain(next, e, m, s)
  PROVE  Chain(e) = s
<1> DEFINE I == 1 .. n + 1
           Step(f) == [i \in I |-> IF i = 1 THEN e
                                   ELSE IF f[i - 1] = NONE THEN NONE ELSE next[f[i - 1]]]
           w == [i \in I |-> IF i <= m THEN s[i] ELSE NONE]
           at == CHOOSE f : f = Step(f)
           P == {i \in DOMAIN at : at[i] # NONE}
<1>1. Len(next) = n
  BY FunctionIsSeq
<1>2. m \in Nat /\ m <= n
  BY ChainBound
<1>3. Chain(e) = [i \in 1 .. Cardinality(P) |-> at[i]]
  BY <1>1 DEF Chain
<1>4. \A i \in 1 .. m : s[i] \in 1 .. n /\ s[i] # NONE
  BY DEF IsChain, NONE
<1>5. w = Step(w)
  <2>1. ASSUME NEW i \in I PROVE w[i] = Step(w)[i]
    <3>1. CASE i = 1
      BY <1>2, <3>1 DEF IsChain
    <3>2. CASE i # 1 /\ i - 1 <= m
      <4>1. i - 1 \in 1 .. m /\ i - 1 \in I
        BY <1>2, <3>2
      <4>2. w[i - 1] = s[i - 1] /\ s[i - 1] # NONE
        BY <1>4, <3>2, <4>1
      <4>3. next[s[i - 1]] = IF i - 1 = m THEN NONE ELSE s[i]
        <5>1. next[s[i - 1]] = IF i - 1 = m THEN NONE ELSE s[i - 1 + 1]
          BY <4>1, Zenon DEF IsChain
        <5>2. i - 1 + 1 = i
          OBVIOUS
        <5> QED
          BY <5>1, <5>2, Zenon
      <4>4. Step(w)[i] = IF i - 1 = m THEN NONE ELSE s[i]
        BY <3>2, <4>2, <4>3
      <4> QED
        BY <1>2, <3>2, <4>4
    <3>3. CASE i # 1 /\ i - 1 > m
      <4>1. i - 1 \in I /\ w[i - 1] = NONE /\ w[i] = NONE
        BY <1>2, <3>3
      <4> QED
        BY <3>3, <4>1
    <3> QED
      BY <1>2, <3>1, <3>2, <3>3
  <2> QED
    BY <2>1, Zenon
<1> HIDE DEF w, P
<1>6. at = Step(at)
  BY <1>5, Zenon
<1> HIDE DEF at
<1>7. ASSUME NEW i \in I, at[i] # w[i] PROVE FALSE
  <2> DEFINE T == {k \in I : at[k] # w[k]}
  <2>1. T \in SUBSET Nat /\ T # {}
    BY <1>7
  <2>2. PICK k \in T : \A j \in T : k <= j
    BY <2>1, LeastElement, Zenon
  <2>3. /\ at[k] = IF k = 1 THEN e ELSE IF at[k - 1] = NONE THEN NONE ELSE next[at[k - 1]]
        /\ w[k] = IF k = 1 THEN e ELSE IF w[k - 1] = NONE THEN NONE ELSE next[w[k - 1]]
    BY <1>5, <1>6, Zenon
  <2>4. k # 1
    BY <2>3
  <2>5. k - 1 \in I /\ ~(k <= k - 1)
    BY <2>4
  <2>6. at[k - 1] = w[k - 1]
    BY <2>2, <2>5
  <2> QED
    BY <2>3, <2>4, <2>6
<1>8. at = [i \in I |-> at[i]] /\ w = [i \in I |-> w[i]]
  BY <1>6 DEF w
<1>9. at = w
  BY <1>7, <1>8
<1>10. P = 1 .. m
  BY <1>2, <1>4, <1>9 DEF P, w
<1>11. Cardinality(P) = m
  <2>1. Cardinality(1 .. m) = m
    BY <1>2, CardinalityUpTo, Zenon
  <2> QED
    BY <1>10, <2>1
<1>12. \A i \in 1 .. m : at[i] = s[i]
  BY <1>2, <1>9 DEF w
<1> QED
  BY <1>3, <1>11, <1>12 DEF IsChain

\* What happens to entries outside of a chain does not concern it.
LEMMA ChainKept ==
  ASSUME NEW nx, NEW ny, NEW e, NEW m, NEW s, IsChain(nx, e, m, s),
         \A x \in Members(m, s) : x \in DOMAIN ny /\ ny[x] = nx[x]
  PROVE  IsChain(ny, e, m, s)
<1>1. \A i \in 1 .. m : s[i] \in Members(m, s)
  BY DEF Members
<1> QED
  BY <1>1, SMTT(30) DEF IsChain

\* The first entry is taken out.
LEMMA ChainRest ==
  ASSUME NEW nx, NEW e, NEW m, NEW s, IsChain(nx, e, m, s), m > 0
  PROVE  LET r == [i \in 1 .. m - 1 |-> s[i + 1]] IN
         /\ IsChain(nx, nx[e], m - 1, r) /\ e = s[1]
         /\ Members(m - 1, r) = Members(m, s) \ {e} /\ e \in Members(m, s)
<1> DEFINE r == [i \in 1 .. m - 1 |-> s[i + 1]]
<1>1. /\ m \in Nat /\ m - 1 \in Nat /\ e = s[1] /\ nx[e] = IF m = 1 THEN NONE ELSE s[2]
      /\ e \in Members(m, s)
  <2>1. m \in Nat /\ m - 1 \in Nat /\ m # 0 /\ 1 \in 1 .. m
    BY DEF IsChain
  <2>2. e = s[1] /\ nx[s[1]] = IF 1 = m THEN NONE ELSE s[1 + 1]
    BY <2>1, Zenon DEF IsChain
  <2> QED
    BY <2>1, <2>2 DEF Members
<1>2. \A i \in 1 .. m - 1 : i + 1 \in 1 .. m /\ r[i] = s[i + 1]
  BY <1>1
<1>3. \A i \in 1 .. m - 1 : r[i] \in DOMAIN nx /\ nx[r[i]] = IF i = m - 1 THEN NONE ELSE r[i + 1]
  <2>1. ASSUME NEW i \in 1 .. m - 1
        PROVE  r[i] \in DOMAIN nx /\ nx[r[i]] = IF i = m - 1 THEN NONE ELSE r[i + 1]
    <3>1. /\ s[i + 1] \in DOMAIN nx
          /\ nx[s[i + 1]] = IF i + 1 = m THEN NONE ELSE s[i + 1 + 1]
      BY <1>2, Zenon DEF IsChain
    <3>2. (i + 1 = m <=> i = m - 1) /\ (i # m - 1 => r[i + 1] = s[i + 1 + 1])
      BY <1>1
    <3> QED
      BY <1>2, <3>1, <3>2
  <2> QED
    BY <2>1, SMTT(30)
<1>4. \A i, j \in 1 .. m - 1 : r[i] = r[j] => i = j
  <2>1. \A i, j \in 1 .. m - 1 : s[i + 1] = s[j + 1] => i + 1 = j + 1
    BY <1>2 DEF IsChain
  <2> QED
    BY <1>1, <1>2, <2>1
<1>5. nx[e] = IF m - 1 = 0 THEN NONE ELSE r[1]
  BY <1>1
<1>6. IsChain(nx, nx[e], m - 1, r)
  BY <1>1, <1>3, <1>4, <1>5, Zenon DEF IsChain
<1>7. Members(m - 1, r) = Members(m, s) \ {e}
  <2>1. \A i \in 1 .. m - 1 : s[i + 1] \in Members(m, s) /\ s[i + 1] # e
    <3>1. \A i \in 1 .. m - 1 : i + 1 \in 1 .. m /\ 1 \in 1 .. m /\ i + 1 # 1
      BY <1>1
    <3> QED
      BY <1>1, <3>1 DEF Members, IsChain
  <2>2. ASSUME NEW x \in Members(m, s) \ {e} PROVE x \in Members(m - 1, r)
    <3>1. PICK i \in 1 .. m : x = s[i] /\ i # 1
      BY <1>1, <2>2 DEF Members
    <3>2. i - 1 \in 1 .. m - 1 /\ r[i - 1] = x
      BY <1>1, <3>1
    <3> QED
      BY <3>2 DEF Members
  <2> QED
    BY <1>2, <2>1, <2>2, Zenon DEF Members
<1> QED
  BY <1>1, <1>6, <1>7

\* An entry is put in front.
LEMMA ChainPush ==
  ASSUME NEW nx, NEW ny, NEW e, NEW m, NEW s, IsChain(nx, e, m, s),
         NEW x, x \notin Members(m, s), x \in DOMAIN ny, ny[x] = e,
         \A y \in Members(m, s) : y \in DOMAIN ny /\ ny[y] = nx[y]
  PROVE  LET r == [i \in 1 .. m + 1 |-> IF i = 1 THEN x ELSE s[i - 1]] IN
         IsChain(ny, x, m + 1, r) /\ Members(m + 1, r) = Members(m, s) \cup {x}
<1> DEFINE r == [i \in 1 .. m + 1 |-> IF i = 1 THEN x ELSE s[i - 1]]
<1>1. m \in Nat /\ IsChain(ny, e, m, s)
  <2>1. m \in Nat
    BY DEF IsChain
  <2> QED
    BY <2>1, ChainKept
<1>2. \A i \in 1 .. m : s[i] \in Members(m, s) /\ s[i] # x
  BY DEF Members
<1>3. r[1] = x /\ \A i \in 1 .. m + 1 : i # 1 => i - 1 \in 1 .. m /\ r[i] = s[i - 1]
  BY <1>1, SMTT(30)
<1>4. \A i \in 1 .. m + 1 : r[i] \in DOMAIN ny /\ ny[r[i]] = IF i = m + 1 THEN NONE ELSE r[i + 1]
  <2>1. ASSUME NEW i \in 1 .. m + 1, i # 1
        PROVE  r[i] \in DOMAIN ny /\ ny[r[i]] = IF i = m + 1 THEN NONE ELSE r[i + 1]
    <3>1. i - 1 \in 1 .. m /\ r[i] = s[i - 1] /\ (i # m + 1 => r[i + 1] = s[i])
      BY <1>1, <2>1
    <3>2. ny[s[i - 1]] = IF i - 1 = m THEN NONE ELSE s[i - 1 + 1]
      BY <1>1, <3>1, Zenon DEF IsChain
    <3>3. i - 1 + 1 = i /\ (i - 1 = m <=> i = m + 1)
      BY <1>1
    <3> QED
      BY <1>1, <3>1, <3>2, <3>3, Zenon DEF IsChain
  <2>2. ny[r[1]] = IF 1 = m + 1 THEN NONE ELSE r[1 + 1]
    BY <1>1, <1>3, SMTT(30) DEF IsChain
  <2> QED
    BY <1>3, <2>1, <2>2
<1>5. \A i, j \in 1 .. m + 1 : r[i] = r[j] => i = j
  <2>1. ASSUME NEW i \in 1 .. m + 1, NEW j \in 1 .. m + 1, r[i] = r[j], i # j PROVE FALSE
    <3>1. CASE i # 1 /\ j # 1
      <4>1. s[i - 1] = s[j - 1] /\ i - 1 \in 1 .. m /\ j - 1 \in 1 .. m
        BY <1>3, <2>1, <3>1
      <4>2. i - 1 = j - 1
        BY <4>1 DEF IsChain
      <4> QED
        BY <1>1, <2>1, <4>2, SMTT(30)
    <3>2. CASE i = 1 \/ j = 1
      BY <1>2, <1>3, <2>1, <3>2
    <3> QED
      BY <3>1, <3>2
  <2> QED
    BY <2>1
<1>6. IsChain(ny, x, m + 1, r)
  <2>1. m + 1 \in Nat /\ m + 1 # 0 /\ r = [i \in 1 .. m + 1 |-> r[i]]
    BY <1>1, SMTT(30)
  <2> HIDE DEF r
  <2> QED
    BY <1>3, <1>4, <1>5, <2>1, Zenon DEF IsChain
<1>7. Members(m + 1, r) = Members(m, s) \cup {x}
  <2>1. ASSUME NEW i \in 1 .. m PROVE s[i] \in Members(m + 1, r)
    <3>1. i + 1 \in 1 .. m + 1 /\ r[i + 1] = s[i]
      BY <1>1
    <3> QED
      BY <3>1 DEF Members
  <2>2. x \in Members(m + 1, r)
    BY <1>1, <1>3 DEF Members
  <2>3. \A i \in 1 .. m + 1 : r[i] \in Members(m, s) \cup {x}
    BY <1>1, <1>2, <1>3
  <2> QED
    BY <2>1, <2>2, <2>3 DEF Members
<1> QED
  BY <1>6, <1>7

\* x is linked behind the last entry of a chain.
Linked(nx, ny, e, m, s, x) ==
  /\ IsChain(nx, e, m, s) /\ x \notin Members(m, s) /\ x \in DOMAIN ny /\ ny[x] = NONE
  /\ m > 0 => ny[s[m]] = x
  /\ \A y \in Members(m, s) : y \in DOMAIN ny /\ (y # s[m] => ny[y] = nx[y])

\* An entry is put at the end.
LEMMA ChainAppend ==
  ASSUME NEW nx, NEW ny, NEW e, NEW m, NEW s, NEW x, Linked(nx, ny, e, m, s, x)
  PROVE  LET r == [i \in 1 .. m + 1 |-> IF i = m + 1 THEN x ELSE s[i]] IN
         /\ Members(m + 1, r) = Members(m, s) \cup {x}
         /\ IsChain(ny, IF m = 0 THEN x ELSE e, m + 1, r)
<1> DEFINE r == [i \in 1 .. m + 1 |-> IF i = m + 1 THEN x ELSE s[i]]
           b == IF m = 0 THEN x ELSE e
<1> USE DEF Linked
<1> HIDE DEF b
<1>1. m \in Nat
  BY DEF IsChain
<1>2. \A i \in 1 .. m : s[i] \in Members(m, s) /\ s[i] # x
  BY SMTT(30) DEF Members
<1>3. /\ m + 1 \in 1 .. m + 1 /\ r[m + 1] = x
      /\ \A i \in 1 .. m + 1 : i # m + 1 => i \in 1 .. m /\ r[i] = s[i]
  BY <1>1, SMTT(30)
<1>4. \A i \in 1 .. m + 1 : r[i] \in DOMAIN ny /\ ny[r[i]] = IF i = m + 1 THEN NONE ELSE r[i + 1]
  <2>1. ASSUME NEW i \in 1 .. m, i # m
        PROVE  r[i] \in DOMAIN ny /\ ny[r[i]] = r[i + 1]
    <3>1. i + 1 \in 1 .. m /\ r[i] = s[i] /\ r[i + 1] = s[i + 1] /\ m \in 1 .. m
      BY <1>1, <2>1
    <3>2. nx[s[i]] = s[i + 1] /\ s[i] # s[m]
      BY <2>1, <3>1, Zenon DEF IsChain
    <3> QED
      BY <1>2, <3>1, <3>2, SMTT(30)
  <2>2. m > 0 => ny[r[m]] = r[m + 1] /\ r[m] \in DOMAIN ny
    BY <1>1, <1>2, <1>3, SMTT(30)
  <2> QED
    BY <1>1, <1>3, <2>1, <2>2, SMTT(30)
<1>5. \A i, j \in 1 .. m + 1 : r[i] = r[j] => i = j
  BY <1>1, <1>2, <1>3, SMTT(30) DEF IsChain
<1>6. IsChain(ny, b, m + 1, r)
  <2>1. b = r[1]
    BY <1>1, <1>3 DEF IsChain, b
  <2>2. m + 1 \in Nat /\ m + 1 # 0 /\ r = [i \in 1 .. m + 1 |-> r[i]]
    BY <1>1
  <2> HIDE DEF r
  <2> QED
    BY <1>4, <1>5, <2>1, <2>2, SMTT(30) DEF IsChain
<1>7. Members(m + 1, r) = Members(m, s) \cup {x}
  BY <1>1, <1>2, <1>3 DEF Members
<1> QED
  BY <1>6, <1>7 DEF b
-----------------------------------------------------------------------------
\* All buffers are free at the start, the last one first.
LEMMA InitLists == Init => \E f, fs, q, qs : Lists(f, fs, q, qs)
<1> SUFFICES ASSUME Init PROVE \E f, fs, q, qs : Lists(f, fs, q, qs)
  BY SMTT(30)
<1> DEFINE n == RX_DESC_COUNT
           fs == [i \in 1 .. n |-> n + 1 - i]
           qs == [i \in 1 .. 0 |-> i]
<1>1. /\ n \in Nat /\ n > 1
      /\ next = [e \in 1 .. n |-> e - 1] /\ packet = [e \in 1 .. n |-> NONE]
      /\ receivedPacketsQueueStart = NONE /\ receivedPacketsQueueEnd = NONE
      /\ receivedPacketsBufferListStart = n
      /\ reader.pc = "idle" /\ reader.entry = NONE /\ reader.after = NONE
  BY NicConstants DEF Init
<1> HIDE DEF n
<1>2. IsChain(next, n, n, fs)
  <2>1. \A i \in 1 .. n : fs[i] = n + 1 - i /\ fs[i] \in DOMAIN next /\ next[fs[i]] = n + 1 - i - 1
    BY <1>1
  <2>2. \A i \in 1 .. n : next[fs[i]] = IF i = n THEN NONE ELSE fs[i + 1]
    BY <1>1, <2>1 DEF NONE
  <2>3. \A i, j \in 1 .. n : fs[i] = fs[j] => i = j
    BY <1>1, <2>1
  <2>4. n # 0 /\ n = fs[1] /\ fs = [i \in 1 .. n |-> fs[i]]
    BY <1>1
  <2> HIDE DEF fs
  <2> QED
    BY <1>1, <2>1, <2>2, <2>3, <2>4, Zenon DEF IsChain
<1>3. IsChain(next, NONE, 0, qs) /\ Members(0, qs) = {}
  BY DEF IsChain, Members
<1>4. Members(n, fs) = 1 .. n
  <2>1. ASSUME NEW e \in 1 .. n PROVE e \in Members(n, fs)
    <3>1. n + 1 - e \in 1 .. n /\ fs[n + 1 - e] = e
      BY <1>1
    <3> QED
      BY <3>1 DEF Members
  <2>2. \A i \in 1 .. n : fs[i] \in 1 .. n
    BY <1>1
  <2> HIDE DEF fs
  <2> QED
    BY <2>1, <2>2 DEF Members
<1>5. Hands = {} /\ n + 0 + 0 = n /\ DOMAIN next = 1 .. n
  BY <1>1, SMTT(30) DEF Hands
<1> HIDE DEF fs, qs
<1>6. Lists(n, fs, 0, qs)
  BY <1>1, <1>2, <1>3, <1>4, <1>5 DEF Lists
<1> QED
  BY <1>6

\* A step of the reader that changes no list and keeps what it has read.
LEMMA ReaderLists ==
  ASSUME NEW f, NEW fs, NEW q, NEW qs, Lists(f, fs, q, qs), UNCHANGED queueVars,
         reader.pc # "free", reader'.pc # "free",
         reader'.entry \in DOMAIN next \cup {NONE}, reader'.after \in DOMAIN next \cup {NONE},
         reader'.pc \in {"lock", "read", "remove"} => q > 0,
         reader'.pc = "remove" => reader'.entry = qs[1] /\ reader'.after = next[qs[1]]
  PROVE  Lists(f, fs, q, qs)'
<1>1. Hands' = Hands
  BY DEF Hands
<1> QED
  BY <1>1, ZenonT(40) DEF Lists, queueVars, IsChain, Members

\* Steps of the device, the senders and the handler away from the queue.
LEMMA QuietLists ==
  ASSUME NEW f, NEW fs, NEW q, NEW qs, Lists(f, fs, q, qs), UNCHANGED <<queueVars, reader>>
  PROVE  Lists(f, fs, q, qs)'
<1>1. /\ next' = next /\ packet' = packet /\ reader' = reader
      /\ receivedPacketsQueueStart' = receivedPacketsQueueStart
      /\ receivedPacketsQueueEnd' = receivedPacketsQueueEnd
      /\ receivedPacketsBufferListStart' = receivedPacketsBufferListStart
  BY DEF queueVars
<1>2. Hands' = Hands
  BY <1>1 DEF Hands
<1> QED
  BY <1>1, <1>2, Zenon DEF Lists

\* The reader takes the first buffer out of the queue.
LEMMA RemoveLists ==
  ASSUME NEW f, NEW fs, NEW q, NEW qs, Lists(f, fs, q, qs), RxRecords, reader_remove
  PROVE  q \in Nat \ {0} /\ reader.entry = qs[1] /\ reader.entry \in DOMAIN next
           /\ Lists(f, fs, q - 1, [i \in 1 .. q - 1 |-> qs[i + 1]])'
<1> DEFINE r == [i \in 1 .. q - 1 |-> qs[i + 1]]
           e == receivedPacketsQueueStart
<1>1. /\ q > 0 /\ q \in Nat /\ f \in Nat /\ reader.entry = qs[1] /\ reader.after = next[qs[1]]
      /\ reader.pc = "remove" /\ reader'.pc = "free"
      /\ reader'.entry = reader.entry /\ reader'.after = reader.after
  BY DEF reader_remove, RxRecords, Lists, IsChain
<1>2. /\ next' = next /\ packet' = packet
      /\ receivedPacketsBufferListStart' = receivedPacketsBufferListStart
      /\ receivedPacketsQueueStart' = reader.after
      /\ receivedPacketsQueueEnd' = IF reader.after = NONE THEN NONE
                                    ELSE receivedPacketsQueueEnd
  BY DEF reader_remove
<1>3. /\ IsChain(next, next[e], q - 1, r) /\ e = qs[1]
      /\ Members(q - 1, r) = Members(q, qs) \ {e} /\ e \in Members(q, qs)
  BY <1>1, ChainRest DEF Lists
<1> DEFINE k == q - 1
<1>4. k \in Nat /\ q = k + 1 /\ f + q + 0 = f + k + 1
  BY <1>1
<1>5. receivedPacketsQueueEnd' = IF k = 0 THEN NONE ELSE r[k]
  <2>1. q \in 1 .. q /\ receivedPacketsQueueEnd = qs[q] /\ qs[q] # NONE
    <3>1. q \in 1 .. q /\ q # 0
      BY <1>1
    <3>2. qs[q] \in DOMAIN next /\ receivedPacketsQueueEnd = qs[q]
      BY <3>1, Zenon DEF Lists, IsChain
    <3>3. \A x \in DOMAIN next : x # NONE
      BY DEF Lists, NONE
    <3> QED
      BY <3>1, <3>2, <3>3
  <2>2. reader.after = IF 1 = q THEN NONE ELSE qs[1 + 1]
    <3>1. 1 \in 1 .. q
      BY <1>1
    <3> QED
      BY <1>1, <3>1, Zenon DEF Lists, IsChain
  <2>3. q # 1 => qs[1 + 1] # NONE /\ r[k] = qs[q]
    <3>1. q # 1 => 1 + 1 \in 1 .. q /\ k \in 1 .. k
      BY <1>1
    <3>2. \A x \in DOMAIN next : x # NONE
      BY DEF Lists, NONE
    <3> QED
      BY <1>4, <3>1, <3>2, Zenon DEF Lists, IsChain
  <2> QED
    BY <1>1, <1>2, <2>1, <2>2, <2>3
<1>6. Hands = {} /\ Hands' = {e} /\ e \in DOMAIN next
  BY <1>1, <1>3 DEF Hands, Lists
<1> HIDE DEF r, k, e
<1>7. Lists(f, fs, k, r)'
  <2>1. IsChain(next', receivedPacketsBufferListStart', f, fs)
    BY <1>2 DEF Lists
  <2>2. IsChain(next', receivedPacketsQueueStart', k, r)
    BY <1>1, <1>2, <1>3 DEF k
  <2>3. /\ Members(k, r) = Members(q, qs) \ {e} /\ e \in Members(q, qs)
        /\ Members(f, fs) \cap Members(q, qs) = {}
        /\ DOMAIN next = Members(f, fs) \cup Members(q, qs)
    BY <1>3, <1>6 DEF k, Lists
  <2>4. DOMAIN next = 1 .. f + k + 1
    BY <1>1, <1>4, SMTT(30) DEF Lists
  <2>5. reader.entry \in DOMAIN next \cup {NONE} /\ reader.after \in DOMAIN next \cup {NONE}
        /\ next = [x \in DOMAIN next |-> next[x]] /\ packet = [x \in DOMAIN next |-> packet[x]]
    BY SMTT(30) DEF Lists
  <2> QED
    BY <1>1, <1>2, <1>5, <1>6, <2>1, <2>2, <2>3, <2>4, <2>5, ZenonT(40) DEF Lists
<1> QED
  BY <1>1, <1>3, <1>6, <1>7 DEF k, r

\* ... and gives it back.
LEMMA FreeLists ==
  ASSUME NEW f, NEW fs, NEW q, NEW qs, Lists(f, fs, q, qs), RxRecords, reader_free
  PROVE  /\ \E fs2 : Lists(f + 1, fs2, q, qs)'
         /\ reader.entry \notin Members(q, qs) /\ reader.entry \in DOMAIN next
<1> DEFINE e == reader.entry
<1>r. PICK r : r = [i \in 1 .. f + 1 |-> IF i = 1 THEN e ELSE fs[i - 1]]
  BY Zenon
<1>1. /\ reader.pc = "free" /\ reader'.pc = "unlock"
      /\ reader'.entry = NONE /\ reader'.after = NONE
      /\ packet' = packet /\ receivedPacketsQueueStart' = receivedPacketsQueueStart
      /\ receivedPacketsQueueEnd' = receivedPacketsQueueEnd
      /\ next' = [next EXCEPT ![e] = receivedPacketsBufferListStart]
      /\ receivedPacketsBufferListStart' = e
  BY DEF reader_free, RxRecords
<1>2. Hands = {e} /\ Hands' = {}
  BY <1>1 DEF Hands
<1>3. /\ e \notin Members(f, fs) /\ e \notin Members(q, qs) /\ e \in DOMAIN next
      /\ Members(f, fs) \subseteq DOMAIN next /\ Members(q, qs) \subseteq DOMAIN next
      /\ DOMAIN next = Members(f, fs) \cup Members(q, qs) \cup {e}
  BY <1>2 DEF Lists
<1>4. /\ DOMAIN next' = DOMAIN next /\ next'[e] = receivedPacketsBufferListStart
      /\ \A x \in DOMAIN next \ {e} : next'[x] = next[x]
      /\ next' = [x \in DOMAIN next |-> next'[x]]
  BY <1>1, <1>3, Zenon DEF Lists
<1>5. /\ IsChain(next, receivedPacketsBufferListStart, f, fs)
      /\ IsChain(next, receivedPacketsQueueStart, q, qs)
  BY DEF Lists
<1> HIDE DEF e
<1>6. IsChain(next', e, f + 1, r) /\ Members(f + 1, r) = Members(f, fs) \cup {e}
  <2>1. \A y \in Members(f, fs) : y \in DOMAIN next' /\ next'[y] = next[y]
    BY <1>3, <1>4
  <2>2. e \in DOMAIN next'
    BY <1>3, <1>4, SMTT(30)
  <2> DEFINE x == [i \in 1 .. f + 1 |-> IF i = 1 THEN e ELSE fs[i - 1]]
  <2>3. IsChain(next', e, f + 1, x) /\ Members(f + 1, x) = Members(f, fs) \cup {e}
    BY <1>3, <1>4, <1>5, <2>1, <2>2, ChainPush, SMTT(30)
  <2> QED
    BY <1>r, <2>3, Zenon
<1>7. IsChain(next', receivedPacketsQueueStart', q, qs)
  <2>1. \A y \in Members(q, qs) : y \in DOMAIN next' /\ next'[y] = next[y]
    BY <1>3, <1>4
  <2> QED
    BY <1>1, <1>5, <2>1, ChainKept, Zenon
<1>8. f \in Nat /\ q \in Nat /\ f + q + 1 = f + 1 + q + 0
  BY <1>5 DEF IsChain
<1>9. Lists(f + 1, r, q, qs)'
  <2>1. DOMAIN next' = 1 .. f + 1 + q + 0
    BY <1>1, <1>4, <1>8, SMTT(30) DEF Lists
  <2>2. /\ Members(f + 1, r) \cap Members(q, qs) = {}
        /\ DOMAIN next' = Members(f + 1, r) \cup Members(q, qs) \cup Hands'
    BY <1>2, <1>3, <1>4, <1>6 DEF Lists
  <2>3. packet' = [x \in DOMAIN next' |-> packet'[x]] /\ next' = [x \in DOMAIN next' |-> next'[x]]
    BY <1>1, <1>4 DEF Lists
  <2>4. receivedPacketsQueueEnd' = IF q = 0 THEN NONE ELSE qs[q]
    BY <1>1 DEF Lists
  <2>5. /\ reader'.pc \notin {"free", "lock", "read", "remove"}
        /\ reader'.entry \in DOMAIN next' \cup {NONE} /\ reader'.after \in DOMAIN next' \cup {NONE}
    BY <1>1
  <2>6. IsChain(next', receivedPacketsBufferListStart', f + 1, r)
    BY <1>1, <1>6
  <2>7. /\ Hands' \cap (Members(f + 1, r) \cup Members(q, qs)) = {}
        /\ DOMAIN next' = 1 .. f + 1 + q + (IF reader'.pc = "free" THEN 1 ELSE 0)
    BY <1>2, <2>1, <2>5
  <2>8. /\ reader'.pc \in {"lock", "read", "remove"} => q > 0
        /\ reader'.pc = "remove" => reader'.entry = qs[1] /\ reader'.after = next'[qs[1]]
    BY <2>5
  <2> QED
    BY <1>7, <2>2, <2>3, <2>4, <2>5, <2>6, <2>7, <2>8, Zenon DEF Lists
<1> QED
  BY <1>3, <1>9 DEF e

\* The handler puts a packet into the first free buffer or, if there is none,
\* into a new one, and appends it to the queue.
LEMMA EnqueueLists ==
  ASSUME NEW f, NEW fs, NEW q, NEW qs, Lists(f, fs, q, qs), Enqueue, reader' = reader,
         reader.pc \in {"idle", "lock"}
  PROVE  q \in Nat /\ \E f2, fs2, x :
           /\ Lists(f2, fs2, q + 1, [i \in 1 .. q + 1 |-> IF i = q + 1 THEN x ELSE qs[i]])'
           /\ x \notin Members(q, qs) /\ packet'[x] = rxDesc[newRxTail].pkt
           /\ \A y \in Members(q, qs) : packet'[y] = packet[y]
<1>x. PICK x : x = NewEntry
  OBVIOUS
<1> DEFINE n == f + q
           r == [i \in 1 .. q + 1 |-> IF i = q + 1 THEN x ELSE qs[i]]
           End == receivedPacketsQueueEnd
<1>1. /\ f \in Nat /\ q \in Nat /\ n \in Nat
      /\ IsChain(next, receivedPacketsBufferListStart, f, fs)
      /\ IsChain(next, receivedPacketsQueueStart, q, qs)
  <2>1. /\ IsChain(next, receivedPacketsBufferListStart, f, fs)
        /\ IsChain(next, receivedPacketsQueueStart, q, qs)
    BY DEF Lists
  <2>2. f \in Nat /\ q \in Nat
    BY <2>1 DEF IsChain
  <2> QED
    BY <2>1, <2>2
<1>2. Hands = {} /\ Hands' = {}
  BY DEF Hands
<1>3. /\ DOMAIN next = 1 .. n /\ DOMAIN next = Members(f, fs) \cup Members(q, qs)
      /\ Members(f, fs) \cap Members(q, qs) = {} /\ \A y \in DOMAIN next : y # NONE
  <2>1. f + q + 0 = n
    BY <1>1
  <2>2. DOMAIN next = 1 .. n
    BY <2>1 DEF Lists
  <2> QED
    BY <1>1, <1>2, <2>2 DEF Lists, NONE
<1>4. Len(next) = n
  <2>1. next = [y \in 1 .. n |-> next[y]]
    BY <1>3, Zenon DEF Lists
  <2> HIDE DEF n
  <2> QED
    BY <1>1, <2>1, FunctionIsSeq
<1> HIDE DEF n
<1>5. /\ receivedPacketsBufferListStart # NONE <=> f > 0
      /\ receivedPacketsQueueStart # NONE <=> q > 0
      /\ End # NONE <=> q > 0
      /\ q > 0 => End = qs[q] /\ End \in Members(q, qs)
  <2>1. f > 0 => 1 \in 1 .. f /\ fs[1] \in DOMAIN next
    <3>1. f > 0 => 1 \in 1 .. f
      BY <1>1
    <3> QED
      BY <1>1, <3>1, Zenon DEF IsChain
  <2>2. q > 0 => 1 \in 1 .. q /\ q \in 1 .. q /\ qs[1] \in DOMAIN next /\ qs[q] \in DOMAIN next
    BY <1>1, SMTT(30) DEF IsChain
  <2>3. /\ receivedPacketsBufferListStart = IF f = 0 THEN NONE ELSE fs[1]
        /\ receivedPacketsQueueStart = IF q = 0 THEN NONE ELSE qs[1]
        /\ End = IF q = 0 THEN NONE ELSE qs[q]
    BY <1>1 DEF Lists, IsChain
  <2>4. q > 0 => qs[q] \in Members(q, qs)
    BY <2>2 DEF Members
  <2> QED
    BY <1>1, <1>3, <2>1, <2>2, <2>3, <2>4
<1>6. x = (IF f > 0 THEN receivedPacketsBufferListStart ELSE n + 1) /\ x \notin Members(q, qs)
  <2>1. CASE f > 0
    <3>1. receivedPacketsBufferListStart \in Members(f, fs)
      BY <1>1, <2>1, ChainRest, Zenon
    <3> QED
      BY <1>x, <1>3, <1>5, <2>1, <3>1 DEF NewEntry
  <2>2. CASE ~(f > 0)
    <3>1. x = n + 1
      BY <1>x, <1>4, <1>5, <2>2 DEF NewEntry
    <3>2. n + 1 \notin 1 .. n
      BY <1>1
    <3> QED
      BY <1>3, <2>2, <3>1, <3>2, Zenon
  <2> QED
    BY <2>1, <2>2
<1>7. /\ DOMAIN next' = DOMAIN next \cup {x} /\ next'[x] = NONE
      /\ next' = [y \in DOMAIN next' |-> next'[y]]
      /\ q > 0 => next'[End] = x
      /\ \A y \in DOMAIN next \ {x} : (q > 0 => y # End) => next'[y] = next[y]
  <2>p. PICK linked : linked = IF End = NONE THEN next ELSE Put(next, End, x)
    BY SMTT(30)
  <2>1. next' = Put(linked, x, NONE)
    BY <1>x, <2>p, SMTT(30) DEF Enqueue
  <2>2. CASE q > 0
    <3>1. End \in DOMAIN next /\ End # x
      BY <1>3, <1>5, <1>6, <2>2, Zenon
    <3>2. /\ DOMAIN linked = DOMAIN next /\ linked[End] = x
          /\ \A y \in DOMAIN next \ {End} : linked[y] = next[y]
      BY <1>5, <2>p, <2>2, <3>1, SMTT(30) DEF Put
    <3> QED
      BY <2>1, <2>2, <3>1, <3>2 DEF Put
  <2>3. CASE ~(q > 0)
    <3>1. linked = next
      BY <1>5, <2>p, <2>3
    <3> QED
      BY <2>1, <2>3, <3>1 DEF Put
  <2> QED
    BY <2>2, <2>3
<1>8. /\ DOMAIN packet = DOMAIN next /\ packet' = [y \in DOMAIN next' |-> packet'[y]]
      /\ packet'[x] = rxDesc[newRxTail].pkt
      /\ \A y \in DOMAIN next \ {x} : packet'[y] = packet[y]
  <2>1. DOMAIN packet = DOMAIN next
    BY SMTT(30) DEF Lists
  <2>2. packet' = Put(packet, x, rxDesc[newRxTail].pkt)
    BY <1>x DEF Enqueue
  <2> QED
    BY <1>7, <2>1, <2>2 DEF Put
<1>9. /\ IsChain(next', IF q = 0 THEN x ELSE receivedPacketsQueueStart, q + 1, r)
      /\ Members(q + 1, r) = Members(q, qs) \cup {x}
  <2>1. \A y \in Members(q, qs) : y \in DOMAIN next' /\ (y # qs[q] => next'[y] = next[y])
    BY <1>3, <1>5, <1>6, <1>7
  <2>2. x \in DOMAIN next' /\ (q > 0 => next'[qs[q]] = x)
    BY <1>5, <1>7
  <2>3. next'[x] = NONE /\ x \notin Members(q, qs)
    BY <1>6, <1>7
  <2>4. IsChain(next, receivedPacketsQueueStart, q, qs)
    BY <1>1
  <2>5. Linked(next, next', receivedPacketsQueueStart, q, qs, x)
    BY <2>1, <2>2, <2>3, <2>4, ZenonT(40) DEF Linked
  <2> QED
    BY <2>5, ChainAppend
<1>10. /\ receivedPacketsQueueStart' = (IF q = 0 THEN x ELSE receivedPacketsQueueStart)
       /\ receivedPacketsQueueEnd' = x
       /\ receivedPacketsBufferListStart' =
            IF receivedPacketsBufferListStart = NONE THEN NONE ELSE next[x]
  BY <1>x, <1>1, <1>5 DEF Enqueue
<1>11. \E f2, fs2 :
         /\ IsChain(next', receivedPacketsBufferListStart', f2, fs2)
         /\ Members(f2, fs2) \cap (Members(q, qs) \cup {x}) = {}
         /\ DOMAIN next' = Members(f2, fs2) \cup Members(q, qs) \cup {x}
         /\ DOMAIN next' = 1 .. f2 + (q + 1)
  <2>1. CASE f > 0
    <3> DEFINE g == [i \in 1 .. f - 1 |-> fs[i + 1]]
    <3>1. /\ IsChain(next, next[x], f - 1, g) /\ x \in Members(f, fs)
          /\ Members(f - 1, g) = Members(f, fs) \ {x}
      BY <1>1, <1>6, <2>1, ChainRest
    <3> HIDE DEF g
    <3>2. \A y \in Members(f - 1, g) : y \in DOMAIN next' /\ next'[y] = next[y]
      <4>1. ASSUME NEW y \in Members(f - 1, g) PROVE y \in DOMAIN next \ {x} /\ (q > 0 => y # End)
        BY <1>3, <1>5, <3>1, Zenon
      <4> QED
        BY <1>7, <4>1
    <3>3. IsChain(next', receivedPacketsBufferListStart', f - 1, g)
      <4>1. receivedPacketsBufferListStart' = next[x]
        BY <1>5, <1>10, <2>1
      <4> QED
        BY <3>1, <3>2, <4>1, ChainKept, SMTT(30)
    <3>4. f - 1 + (q + 1) = f + q
      BY <1>1
    <3>5. DOMAIN next' = DOMAIN next
      BY <1>3, <1>7, <3>1, Zenon
    <3> QED
      <4>1. /\ Members(f - 1, g) \cap (Members(q, qs) \cup {x}) = {}
            /\ DOMAIN next' = Members(f - 1, g) \cup Members(q, qs) \cup {x}
        BY <1>3, <1>6, <3>1, <3>5
      <4>2. DOMAIN next' = 1 .. f - 1 + (q + 1)
        BY <1>3, <3>4, <3>5, Zenon DEF n
      <4> QED
        BY <3>3, <4>1, <4>2, Zenon
  <2>2. CASE ~(f > 0)
    <3>1. f = 0 /\ receivedPacketsBufferListStart' = NONE /\ x = n + 1
      BY <1>1, <1>5, <1>6, <1>10, <2>2, SMTT(30)
    <3>2. Members(f, fs) = {} /\ IsChain(next', NONE, f, fs)
      BY <1>1, <3>1, SMTT(30) DEF Members, IsChain
    <3>3. DOMAIN next' = 1 .. n + 1 /\ n + 1 = f + (q + 1)
      BY <1>1, <1>3, <1>7, <3>1, SMTT(30) DEF n
    <3> QED
      BY <1>3, <1>7, <3>1, <3>2, <3>3
  <2> QED
    BY <2>1, <2>2, Zenon
<1>12. PICK f2, fs2 :
         /\ IsChain(next', receivedPacketsBufferListStart', f2, fs2)
         /\ Members(f2, fs2) \cap (Members(q, qs) \cup {x}) = {}
         /\ DOMAIN next' = Members(f2, fs2) \cup Members(q, qs) \cup {x}
         /\ DOMAIN next' = 1 .. f2 + (q + 1)
  BY <1>11
<1> DEFINE k == q + 1
<1>13. k \in Nat /\ k > 0 /\ k # 0 /\ r[k] = x
  BY <1>1
<1> HIDE DEF r, k
<1>14. Lists(f2, fs2, k, r)'
  <2>1. IsChain(next', receivedPacketsQueueStart', k, r)
    BY <1>9, <1>10, SMTT(30) DEF k
  <2>2. receivedPacketsQueueEnd' = IF k = 0 THEN NONE ELSE r[k]
    BY <1>10, <1>13, SMTT(30)
  <2>3. /\ Members(k, r) = Members(q, qs) \cup {x}
        /\ DOMAIN next' = Members(f2, fs2) \cup Members(k, r) \cup Hands'
        /\ Hands' \cap (Members(f2, fs2) \cup Members(k, r)) = {}
    BY <1>2, <1>9, <1>12 DEF k
  <2>4. DOMAIN next' = 1 .. f2 + k + (IF reader'.pc = "free" THEN 1 ELSE 0)
    <3>1. f2 + k + 0 = f2 + (q + 1) /\ ~(reader'.pc = "free")
      BY <1>1, <1>12, SMTT(30) DEF IsChain, k
    <3> QED
      BY <1>12, <3>1, SMTT(30)
  <2>5. /\ reader'.entry \in DOMAIN next' \cup {NONE} /\ reader'.after \in DOMAIN next' \cup {NONE}
    BY <1>7, SMTT(30) DEF Lists
  <2>6. /\ reader'.pc \in {"lock", "read", "remove"} => k > 0
        /\ reader'.pc = "remove" => reader'.entry = r[1] /\ reader'.after = next'[r[1]]
    BY <1>13, SMTT(30)
  <2>7. Members(f2, fs2) \cap Members(k, r) = {}
    BY <1>12, <2>3
  <2> QED
    BY <1>7, <1>8, <1>12, <2>1, <2>2, <2>3, <2>4, <2>5, <2>6, <2>7, Zenon DEF Lists
<1>15. \A y \in Members(q, qs) : packet'[y] = packet[y]
  BY <1>3, <1>6, <1>8, ZenonT(40)
<1> QED
  BY <1>1, <1>6, <1>8, <1>14, <1>15, Zenon DEF k, r

\* The reader looks at the first buffer of the queue and its successor.
LEMMA ReadLists ==
  ASSUME NEW f, NEW fs, NEW q, NEW qs, Lists(f, fs, q, qs), RxRecords, reader_read
  PROVE  Lists(f, fs, q, qs)'
<1> DEFINE e == receivedPacketsQueueStart
<1>1. /\ reader.pc = "read" /\ reader'.pc = "remove" /\ UNCHANGED queueVars
      /\ reader'.entry = e /\ reader'.after = next[e]
  BY DEF reader_read, RxRecords
<1>2. q > 0 /\ q \in Nat /\ IsChain(next, e, q, qs)
  BY <1>1, Zenon DEF Lists, IsChain
<1>3. e = qs[1] /\ 1 \in 1 .. q
  BY <1>2 DEF IsChain
<1>4. e \in DOMAIN next /\ next[e] \in DOMAIN next \cup {NONE}
  <2>1. qs[1] \in DOMAIN next /\ next[qs[1]] = IF 1 = q THEN NONE ELSE qs[1 + 1]
    BY <1>2, <1>3, Zenon DEF IsChain
  <2>2. 1 # q => 1 + 1 \in 1 .. q
    BY <1>2
  <2>3. 1 # q => qs[1 + 1] \in DOMAIN next
    BY <1>2, <2>2, Zenon DEF IsChain
  <2> QED
    BY <1>3, <2>1, <2>3
<1> QED
  BY <1>1, <1>2, <1>3, <1>4, ReaderLists

\* The handler is at the queue only while the reader is not.
LEMMA HandlerAlone ==
  ASSUME RxInv, DriverTypes, irq.pc = "loop"
  PROVE  reader.pc \in {"idle", "lock"}
BY DEF RxInv, DriverTypes, IrqInSection, ReaderInSection

\* No step loses a buffer or uses one twice.
LEMMA NextBuffers == ASSUME ReaderBound PROVE BufferInv /\ [Next]_vars => BufferInv'
<1> SUFFICES ASSUME BufferInv, [Next]_vars PROVE BufferInv'
  OBVIOUS
<1>1. RxInv' /\ DriverTypes' /\ RxInv /\ DriverTypes /\ RxRecords
  BY NextRx, NextDriver DEF BufferInv, RxInv
<1>2. PICK f, fs, q, qs : Lists(f, fs, q, qs)
  BY DEF BufferInv
<1> DEFINE Kept == \E g, gs, p, ps : Lists(g, gs, p, ps)'
<1> SUFFICES Kept
  BY <1>1 DEF BufferInv
<1>3. CASE UNCHANGED <<queueVars, reader>>
  BY <1>2, <1>3, QuietLists
<1>4. CASE receive_copy
  <2>1. CASE Enqueue
    <3>1. reader' = reader /\ reader.pc \in {"idle", "lock"}
      BY <1>1, <1>4, HandlerAlone DEF receive_copy
    <3> QED
      BY <1>2, <2>1, <3>1, EnqueueLists, Zenon
  <2>2. CASE UNCHANGED queueVars
    BY <1>2, <1>4, <2>2, QuietLists DEF receive_copy
  <2> QED
    BY <1>4, <2>1, <2>2 DEF receive_copy
<1>5. ASSUME NEW cpu \in {0, 1}, next_received_packet(cpu) PROVE Kept
  <2>1. /\ reader.pc = "idle" /\ reader'.pc = "lock" /\ UNCHANGED queueVars
        /\ reader'.entry = reader.entry /\ reader'.after = reader.after
        /\ receivedPacketsQueueStart # NONE
    BY <1>1, <1>5, SMTT(30) DEF next_received_packet, RxRecords
  <2>2. q \in Nat /\ q # 0
    BY <1>2, <2>1, Zenon DEF Lists, IsChain
  <2>3. q > 0
    BY <2>2
  <2>4. Lists(f, fs, q, qs)'
    BY <1>2, <2>1, <2>3, ReaderLists, Zenon DEF Lists
  <2> QED
    BY <2>4
<1>6. CASE reader_lock \/ reader_unlock
  <2>1. /\ \/ reader.pc = "lock" /\ reader'.pc = "read"
           \/ reader.pc = "unlock" /\ reader'.pc = "idle"
        /\ UNCHANGED queueVars /\ reader'.entry = reader.entry /\ reader'.after = reader.after
    BY <1>1, <1>6, Zenon DEF reader_lock, reader_unlock, RxRecords
  <2>2. Lists(f, fs, q, qs)'
    BY <1>2, <2>1, ReaderLists, Zenon DEF Lists
  <2> QED
    BY <2>2
<1>7. CASE reader_read
  BY <1>1, <1>2, <1>7, ReadLists
<1>8. CASE reader_remove
  BY <1>1, <1>2, <1>8, RemoveLists, ZenonT(40)
<1>9. CASE reader_free
  BY <1>1, <1>2, <1>9, FreeLists, Zenon
<1>10. \/ UNCHANGED <<queueVars, reader>> \/ receive_copy \/ reader_read \/ reader_remove
       \/ reader_free \/ reader_lock \/ reader_unlock
       \/ \E cpu \in {0, 1} : next_received_packet(cpu)
  BY Zenon DEF Next, Device, Irq, Reader, Send, DeviceReceive, DeviceOverrun, DeviceTransmit,
         handle_interrupt, receive_lock, receive_status, receive_tail, receive_unlock,
         send, send_fill, send_tail, rxVars, vars
<1> QED
  BY <1>3, <1>4, <1>5, <1>6, <1>7, <1>8, <1>9, <1>10, SMTT(30)

Elements(s) == {s[i] : i \in DOMAIN s}

\* The elements of two sequences one after the other.
LEMMA RangeConcat ==
  ASSUME NEW S, NEW a \in Seq(S), NEW b \in Seq(S)
  PROVE  /\ a \o b \in Seq(S) /\ Len(a \o b) = Len(a) + Len(b)
         /\ Elements(a \o b) = Elements(a) \cup Elements(b)
<1> DEFINE c == a \o b
<1>1. /\ c \in Seq(S) /\ Len(c) = Len(a) + Len(b) /\ Len(a) \in Nat /\ Len(b) \in Nat
      /\ DOMAIN c = 1 .. Len(a) + Len(b) /\ DOMAIN a = 1 .. Len(a) /\ DOMAIN b = 1 .. Len(b)
      /\ \A i \in 1 .. Len(a) + Len(b) : c[i] = IF i <= Len(a) THEN a[i] ELSE b[i - Len(a)]
  OBVIOUS
<1> HIDE DEF c
<1>2. ASSUME NEW i \in DOMAIN c
      PROVE  c[i] \in {a[j] : j \in DOMAIN a} \cup {b[j] : j \in DOMAIN b}
  <2>1. CASE i <= Len(a)
    BY <1>1, <2>1
  <2>2. CASE ~(i <= Len(a))
    <3>1. i - Len(a) \in DOMAIN b /\ c[i] = b[i - Len(a)]
      BY <1>1, <2>2
    <3> QED
      BY <3>1
  <2> QED
    BY <2>1, <2>2
<1>3. ASSUME NEW j \in DOMAIN a PROVE a[j] \in {c[i] : i \in DOMAIN c}
  <2>1. j \in DOMAIN c /\ c[j] = a[j]
    BY <1>1
  <2> QED
    BY <2>1
<1>4. ASSUME NEW j \in DOMAIN b PROVE b[j] \in {c[i] : i \in DOMAIN c}
  <2>1. Len(a) + j \in DOMAIN c /\ Len(a) + j - Len(a) = j /\ ~(Len(a) + j <= Len(a))
    BY <1>1
  <2>2. c[Len(a) + j] = b[j]
    BY <1>1, <2>1
  <2> QED
    BY <2>1, <2>2
<1>5. Elements(c) = Elements(a) \cup Elements(b)
  BY <1>2, <1>3, <1>4 DEF Elements
<1> QED
  BY <1>1, <1>5 DEF c

\* The two lists are what following the next fields yields.
LEMMA ListsAreChains ==
  ASSUME NEW f, NEW fs, NEW q, NEW qs, Lists(f, fs, q, qs)
  PROVE  /\ f \in Nat /\ q \in Nat /\ Free = fs /\ Queue = qs
         /\ Len(next) = f + q + (IF reader.pc = "free" THEN 1 ELSE 0)
<1> DEFINE n == f + q + (IF reader.pc = "free" THEN 1 ELSE 0)
<1>1. /\ IsChain(next, receivedPacketsBufferListStart, f, fs)
      /\ IsChain(next, receivedPacketsQueueStart, q, qs)
  BY DEF Lists
<1>2. f \in Nat /\ q \in Nat
  BY <1>1 DEF IsChain
<1>3. n \in Nat
  BY <1>2
<1>4. next = [x \in 1 .. n |-> next[x]]
  BY DEF Lists
<1> HIDE DEF n
<1>5. Len(next) = n
  BY <1>3, <1>4, FunctionIsSeq
<1>6. Free = fs /\ Queue = qs
  BY <1>1, <1>3, <1>4, ChainIs DEF Free, Queue
<1> QED
  BY <1>2, <1>5, <1>6 DEF n

\* The invariant is what BuffersConserved asks for.
LEMMA BufferInvEnough == BufferInv /\ SenderTypes => BuffersConserved
<1> SUFFICES ASSUME BufferInv, SenderTypes PROVE BuffersConserved
  OBVIOUS
<1>1. PICK f, fs, q, qs : Lists(f, fs, q, qs)
  BY DEF BufferInv
<1> DEFINE h == IF reader.pc = "free" THEN 1 ELSE 0
           n == f + q + h
           fh == Free \o InHand
           all == Free \o InHand \o Queue
           S == DOMAIN next
<1>2. f \in Nat /\ q \in Nat /\ Free = fs /\ Queue = qs /\ Len(next) = n /\ S = 1 .. n
  BY <1>1, ListsAreChains, Zenon DEF Lists
<1>3. fs = [i \in 1 .. f |-> fs[i]] /\ qs = [i \in 1 .. q |-> qs[i]]
  BY <1>1 DEF Lists, IsChain
<1>4. /\ fs \in Seq(S) /\ Len(fs) = f /\ DOMAIN fs = 1 .. f
      /\ qs \in Seq(S) /\ Len(qs) = q /\ DOMAIN qs = 1 .. q
  <2>1. \A i \in 1 .. f : fs[i] \in S
    BY <1>1, Zenon DEF Lists, IsChain
  <2>2. \A i \in 1 .. q : qs[i] \in S
    BY <1>1, Zenon DEF Lists, IsChain
  <2>3. fs \in Seq(S) /\ qs \in Seq(S)
    <3> HIDE DEF S
    <3>1. fs \in [1 .. f -> S] /\ qs \in [1 .. q -> S]
      BY <1>3, <2>1, <2>2, Zenon
    <3> QED
      BY <1>2, <3>1
  <2> QED
    BY <1>2, <1>3, <2>3, FunctionIsSeq
<1>5. InHand \in Seq(S) /\ Len(InHand) = h /\ Elements(InHand) = Hands
  <2>1. CASE reader.pc = "free"
    <3>1. reader.entry \in S /\ InHand = <<reader.entry>> /\ Hands = {reader.entry} /\ h = 1
      BY <1>1, <2>1 DEF Lists, Hands, InHand
    <3> HIDE DEF S, h
    <3>2. DOMAIN InHand = {1} /\ InHand[1] = reader.entry
      BY <3>1
    <3> QED
      BY <3>1, <3>2 DEF Elements
  <2>2. CASE reader.pc # "free"
    <3>1. InHand = <<>> /\ Hands = {} /\ h = 0
      BY <2>2 DEF Hands, InHand
    <3> QED
      BY <3>1 DEF Elements
  <2> QED
    BY <2>1, <2>2
<1>6. /\ fh \in Seq(S) /\ Len(fh) = f + h
      /\ Elements(fh) = Members(f, fs) \cup Hands
  <2> HIDE DEF S, h
  <2>1. /\ fs \o InHand \in Seq(S) /\ Len(fs \o InHand) = Len(fs) + Len(InHand)
        /\ Elements(fs \o InHand) = Elements(fs) \cup Elements(InHand)
    BY <1>4, <1>5, RangeConcat, Zenon
  <2>2. fh = fs \o InHand /\ Elements(fs) = Members(f, fs)
    BY <1>2, <1>4, Zenon DEF Members, Elements
  <2> HIDE DEF fh
  <2> QED
    BY <1>4, <1>5, <2>1, <2>2, Zenon
<1>7. Len(all) = f + h + q /\ Elements(all) = Members(f, fs) \cup Hands \cup Members(q, qs)
  <2> HIDE DEF S, h, fh
  <2>1. all = fh \o Queue
    BY DEF fh
  <2> HIDE DEF all
  <2>2. /\ Len(fh \o qs) = Len(fh) + Len(qs)
        /\ Elements(fh \o qs) = Elements(fh) \cup Elements(qs)
    BY <1>4, <1>6, RangeConcat, Zenon
  <2>3. all = fh \o qs /\ Elements(qs) = Members(q, qs)
    BY <1>2, <1>4, <2>1, Zenon DEF Members, Elements
  <2> QED
    BY <1>4, <1>6, <2>2, <2>3, Zenon
<1>8. Len(all) = Len(next) /\ Elements(all) = S
  <2>1. f + h + q = n /\ S = Members(f, fs) \cup Members(q, qs) \cup Hands
    BY <1>1, <1>2 DEF Lists
  <2> HIDE DEF S, h, all, n
  <2> QED
    BY <1>2, <1>7, <2>1, SMTT(30)
<1>9. receivedPacketsQueueEnd = IF Queue = <<>> THEN NONE ELSE Queue[Len(Queue)]
  <2>1. receivedPacketsQueueEnd = IF q = 0 THEN NONE ELSE qs[q]
    BY <1>1 DEF Lists
  <2>2. qs = <<>> <=> q = 0
    BY <1>2, <1>3, <1>4, SMTT(30)
  <2> QED
    BY <1>2, <1>4, <2>1, <2>2, SMTT(30)
<1>10. TypeOK
  <2>1. reader.entry \in 0 .. Len(next) /\ reader.after \in 0 .. Len(next)
    <3>1. \A x \in S \cup {NONE} : x \in 0 .. n
      BY <1>2 DEF NONE
    <3> QED
      BY <1>1, <1>2, <3>1 DEF Lists
  <2> QED
    BY <2>1, SMTT(30) DEF BufferInv, DriverTypes, SenderTypes, TypeOK
<1> QED
  BY <1>8, <1>9, <1>10, Zenon DEF BuffersConserved, Elements

\* No driver ever loses a receive buffer or uses one twice, for rings of any
\* size and any traffic: all buffers allocated are free, queued or with the
\* reader, and the end pointer of the queue is its last buffer.
THEOREM BuffersAreConserved ==
  ASSUME ReaderBound PROVE Spec => []BuffersConserved
<1>1. Init => BufferInv /\ SenderTypes
  BY InitRx, InitDriver, InitSender, InitLists DEF BufferInv
<1>2. BufferInv /\ SenderTypes /\ [Next]_vars => BufferInv' /\ SenderTypes'
  BY NextBuffers, NextSender
<1> QED
  BY <1>1, <1>2, BufferInvEnough, PTL DEF Spec
=============================================================================
