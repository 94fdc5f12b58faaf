-------------------------------- MODULE Nic --------------------------------
(***************************************************************************)
(* The network drivers net/e1000.c, net/e1000e.c and net/igb.c between the *)
(* device and the system calls of proc/syscalls/network.c.                 *)
(*                                                                         *)
(* Receiving: the device writes packets into the descriptors between its   *)
(* head RDH and the tail RDT and raises a cause in ICR; the interrupt      *)
(* handler on CPU 0 moves them into a linked queue of buffers, from which  *)
(* the polling thread of the network stack takes them.  The three drivers  *)
(* differ in one respect: e1000e and igb hold receiveLock while they touch *)
(* the queue, e1000 has no lock and relies on the reader running on CPU 0  *)
(* with interrupts masked.  setup is the driver in use and the CPUs the    *)
(* reader may run on.  The callers of sys_receive_network_packet hold      *)
(* lwipMutex, so there is one reader at a time.                            *)
(*                                                                         *)
(* Sending: send() waits for the descriptor at txTail, fills it and moves  *)
(* the device's tail TDT; the device sends from TDH up to TDT.             *)
(***************************************************************************)
EXTENDS Integers, Sequences, FiniteSets

CONSTANTS RX_DESC_COUNT, TX_DESC_COUNT,
          Setups,       \* the drivers and readers, with bounds on the traffic
          Senders,      \* threads that send packets
          MaxReceived,  \* largest bound on the packets that arrive
          MaxSent       \* largest bound on the packets that are sent

ASSUME NicConstants ==
  /\ RX_DESC_COUNT \in Nat \ {0, 1} /\ TX_DESC_COUNT \in Nat \ {0, 1}
  /\ MaxReceived \in Nat /\ MaxSent \in Nat
  /\ Setups \subseteq [locked : BOOLEAN, cpus : SUBSET {0, 1},
                       received : 0 .. MaxReceived, sent : 0 .. MaxSent]

RxRing == 0 .. RX_DESC_COUNT - 1
TxRing == 0 .. TX_DESC_COUNT - 1
NONE == 0               \* the zero pointer; also "no packet"
BAD == -1               \* a packet received with its error bits set

VARIABLES
  setup,        \* the driver, constant after initialisation
  rxDesc,       \* rxDescriptors with rxBufferMem: [dd : status & 1, pkt]
  RDH, RDT,     \* the device's head and tail of the receive ring
  icr,          \* interrupt causes not yet read
  rxTail,       \* the driver's copy of the tail
  receiveLock,  \* "free", "irq" or "reader"
  next, packet, \* fields of the buffer entries, entry 0 is no entry
  receivedPacketsQueueStart, receivedPacketsQueueEnd,
  receivedPacketsBufferListStart,
  irq,          \* interrupt handler on CPU 0: [pc, p : packets of this call]
  reader,       \* next_received_packet: [pc, cpu, entry, after]
  arrived,      \* number of packets the device has received
  delivered,    \* the packets handed to the reader, in order
  txDesc,       \* txDescriptors with txBufferMem: [length, done, pkt]
  TDH, TDT,     \* the device's head and tail of the transmit ring
  txTail,       \* the driver's copy of the tail
  sender,       \* send: [pc, desc, pkt] of each sender
  sent,         \* number of packets given to send
  wire          \* the packets on the wire, in order

queueVars == <<next, packet, receivedPacketsQueueStart,
               receivedPacketsQueueEnd, receivedPacketsBufferListStart>>
rxVars == <<rxDesc, RDH, RDT, icr, rxTail, receiveLock, queueVars, irq,
            reader, arrived, delivered>>
txVars == <<txDesc, TDH, TDT, txTail, sender, sent, wire>>
vars == <<setup, rxVars, txVars>>

\* init: empty rings with one receive descriptor held back, and a list of
\* RX_DESC_COUNT pre-allocated buffers.
Init ==
  /\ setup \in Setups
  /\ rxDesc = [i \in RxRing |-> [dd |-> FALSE, pkt |-> NONE]]
  /\ RDH = 0 /\ RDT = RX_DESC_COUNT - 1 /\ rxTail = RX_DESC_COUNT - 1
  /\ icr = {} /\ receiveLock = "free"
  /\ next = [e \in 1 .. RX_DESC_COUNT |-> e - 1]
  /\ packet = [e \in 1 .. RX_DESC_COUNT |-> NONE]
  /\ receivedPacketsQueueStart = NONE /\ receivedPacketsQueueEnd = NONE
  /\ receivedPacketsBufferListStart = RX_DESC_COUNT
  /\ irq = [pc |-> "idle", p |-> 0]
  /\ reader = [pc |-> "idle", cpu |-> 0, entry |-> NONE, after |-> NONE]
  /\ arrived = 0 /\ delivered = <<>>
  /\ txDesc = [i \in TxRing |-> [length |-> 0, done |-> FALSE, pkt |-> NONE]]
  /\ TDH = 0 /\ TDT = 0 /\ txTail = 0
  /\ sender = [s \in Senders |-> [pc |-> "idle", desc |-> 0, pkt |-> NONE]]
  /\ sent = 0 /\ wire = <<>>
-----------------------------------------------------------------------------
\* The device.

\* A packet arrives, without or with errors, and is stored in the descriptor
\* at the head; the receive timer cause is raised.
DeviceReceive ==
  /\ RDH # RDT /\ arrived < setup.received
  /\ arrived' = arrived + 1
  /\ \E pkt \in {arrived + 1, BAD} :
       rxDesc' = [rxDesc EXCEPT ![RDH] = [dd |-> TRUE, pkt |-> pkt]]
  /\ RDH' = (RDH + 1) % RX_DESC_COUNT
  /\ icr' = icr \cup {"RXT0"}
  /\ UNCHANGED <<setup, RDT, rxTail, receiveLock, queueVars, irq, reader,
                 delivered, txVars>>

\* A packet arrives while no descriptor is available and is dropped.
DeviceOverrun ==
  /\ RDH = RDT /\ arrived < setup.received /\ "RXO" \notin icr
  /\ icr' = icr \cup {"RXO"}
  /\ UNCHANGED <<setup, rxDesc, RDH, RDT, rxTail, receiveLock, queueVars, irq,
                 reader, arrived, delivered, txVars>>

\* The device sends the packet of the descriptor at its head and reports it
\* done.
DeviceTransmit ==
  /\ TDH # TDT
  /\ wire' = Append(wire, txDesc[TDH].pkt)
  /\ txDesc' = [txDesc EXCEPT ![TDH].done = TRUE]
  /\ TDH' = (TDH + 1) % TX_DESC_COUNT
  /\ UNCHANGED <<setup, rxVars, TDT, txTail, sender, sent>>
-----------------------------------------------------------------------------
\* Receiving: the interrupt handler and the reader.

\* Mutated form of Lock: no driver takes the lock.
NoLock(who) == UNCHANGED receiveLock

\* raw_spinlock_lock and raw_spinlock_unlock of the drivers that have a lock.
Lock(who) ==
  IF setup.locked THEN receiveLock = "free" /\ receiveLock' = who
                  ELSE UNCHANGED receiveLock
Unlock == receiveLock' = IF setup.locked THEN "free" ELSE receiveLock

\* handle_interrupt: reading ICR clears it.  A system call on CPU 0 runs with
\* interrupts masked and delays it.
handle_interrupt ==
  /\ icr # {} /\ irq.pc = "idle"
  /\ reader.pc = "idle" \/ reader.cpu # 0
  /\ icr' = {}
  /\ irq' = IF "RXT0" \in icr THEN [pc |-> "lock", p |-> 0] ELSE irq
  /\ UNCHANGED <<setup, rxDesc, RDH, RDT, rxTail, receiveLock, queueVars,
                 reader, arrived, delivered, txVars>>

receive_lock ==
  /\ irq.pc = "lock" /\ Lock("irq")
  /\ irq' = [irq EXCEPT !.pc = "loop"]
  /\ UNCHANGED <<setup, rxDesc, RDH, RDT, icr, rxTail, queueVars, reader,
                 arrived, delivered, txVars>>

newRxTail == (rxTail + 1) % RX_DESC_COUNT

\* The buffer the handler uses: the first free one, otherwise a new one.
NewEntry == IF receivedPacketsBufferListStart # NONE
            THEN receivedPacketsBufferListStart ELSE Len(next) + 1

\* f with f[i] = v, where i may be one past its end.
Put(f, i, v) == [j \in DOMAIN f \cup {i} |-> IF j = i THEN v ELSE f[j]]

\* The packet of descriptor newRxTail is copied into a buffer that becomes
\* the last of the queue.
Enqueue ==
  LET e == NewEntry
      linked == IF receivedPacketsQueueEnd = NONE THEN next
                ELSE Put(next, receivedPacketsQueueEnd, e) IN
  /\ receivedPacketsBufferListStart' =
       IF receivedPacketsBufferListStart = NONE THEN NONE ELSE next[e]
  /\ packet' = Put(packet, e, rxDesc[newRxTail].pkt)
  /\ receivedPacketsQueueStart' =
       IF receivedPacketsQueueStart = NONE THEN e ELSE receivedPacketsQueueStart
  /\ receivedPacketsQueueEnd' = e
  /\ next' = Put(linked, e, NONE)

\* Mutated form of receive_copy: one packet per interrupt.
CopyOne ==
  /\ irq.pc = "loop"
  /\ IF irq.p < 1 /\ rxDesc[newRxTail].dd
     THEN /\ IF rxDesc[newRxTail].pkt = BAD THEN UNCHANGED queueVars ELSE Enqueue
          /\ irq' = [irq EXCEPT !.pc = "status"]
     ELSE UNCHANGED queueVars /\ irq' = [irq EXCEPT !.pc = "unlock"]
  /\ UNCHANGED <<setup, rxDesc, RDH, RDT, icr, rxTail, receiveLock, reader,
                 arrived, delivered, txVars>>

\* One round of the loop of receive(): the packet after the tail, if there is
\* one, is copied unless it has errors.
receive_copy ==
  /\ irq.pc = "loop"
  /\ IF irq.p < RX_DESC_COUNT /\ rxDesc[newRxTail].dd
     THEN /\ IF rxDesc[newRxTail].pkt = BAD THEN UNCHANGED queueVars ELSE Enqueue
          /\ irq' = [irq EXCEPT !.pc = "status"]
     ELSE UNCHANGED queueVars /\ irq' = [irq EXCEPT !.pc = "unlock"]
  /\ UNCHANGED <<setup, rxDesc, RDH, RDT, icr, rxTail, receiveLock, reader,
                 arrived, delivered, txVars>>

receive_status ==
  /\ irq.pc = "status"
  /\ rxDesc' = [rxDesc EXCEPT ![newRxTail].dd = FALSE]
  /\ irq' = [irq EXCEPT !.pc = "tail"]
  /\ UNCHANGED <<setup, RDH, RDT, icr, rxTail, receiveLock, queueVars, reader,
                 arrived, delivered, txVars>>

\* The descriptor is given back to the device.
receive_tail ==
  /\ irq.pc = "tail"
  /\ rxTail' = newRxTail /\ RDT' = newRxTail
  /\ irq' = [pc |-> "loop", p |-> irq.p + 1]
  /\ UNCHANGED <<setup, rxDesc, RDH, icr, receiveLock, queueVars, reader,
                 arrived, delivered, txVars>>

receive_unlock ==
  /\ irq.pc = "unlock" /\ Unlock
  /\ irq' = [pc |-> "idle", p |-> 0]
  /\ UNCHANGED <<setup, rxDesc, RDH, RDT, icr, rxTail, queueVars, reader,
                 arrived, delivered, txVars>>

\* next_received_packet: the queue is tested before the lock is taken.
next_received_packet(cpu) ==
  /\ reader.pc = "idle" /\ cpu \in setup.cpus
  /\ cpu = 0 => irq.pc = "idle"
  /\ receivedPacketsQueueStart # NONE
  /\ reader' = [reader EXCEPT !.pc = "lock", !.cpu = cpu]
  /\ UNCHANGED <<setup, rxDesc, RDH, RDT, icr, rxTail, receiveLock, queueVars,
                 irq, arrived, delivered, txVars>>

reader_lock ==
  /\ reader.pc = "lock" /\ Lock("reader")
  /\ reader' = [reader EXCEPT !.pc = "read"]
  /\ UNCHANGED <<setup, rxDesc, RDH, RDT, icr, rxTail, queueVars, irq, arrived,
                 delivered, txVars>>

\* The first buffer and its successor are read ...
reader_read ==
  /\ reader.pc = "read"
  /\ reader' = [reader EXCEPT !.pc = "remove",
                              !.entry = receivedPacketsQueueStart,
                              !.after = next[receivedPacketsQueueStart]]
  /\ UNCHANGED <<setup, rxDesc, RDH, RDT, icr, rxTail, receiveLock, queueVars,
                 irq, arrived, delivered, txVars>>

\* Mutated form of reader_remove: the end pointer keeps the last buffer.
RemoveKeepsEnd ==
  /\ reader.pc = "remove"
  /\ receivedPacketsQueueStart' = reader.after
  /\ reader' = [reader EXCEPT !.pc = "free"]
  /\ UNCHANGED <<setup, rxDesc, RDH, RDT, icr, rxTail, receiveLock, next, packet,
                 receivedPacketsQueueEnd, receivedPacketsBufferListStart, irq,
                 arrived, delivered, txVars>>

\* ... the successor becomes the first ...
reader_remove ==
  /\ reader.pc = "remove"
  /\ receivedPacketsQueueStart' = reader.after
  /\ receivedPacketsQueueEnd' =
       IF reader.after = NONE THEN NONE ELSE receivedPacketsQueueEnd
  /\ reader' = [reader EXCEPT !.pc = "free"]
  /\ UNCHANGED <<setup, rxDesc, RDH, RDT, icr, rxTail, receiveLock, next, packet,
                 receivedPacketsBufferListStart, irq, arrived, delivered, txVars>>

\* ... and the buffer is copied out and goes to the free list.
reader_free ==
  /\ reader.pc = "free"
  /\ delivered' = Append(delivered, packet[reader.entry])
  /\ next' = [next EXCEPT ![reader.entry] = receivedPacketsBufferListStart]
  /\ receivedPacketsBufferListStart' = reader.entry
  /\ reader' = [reader EXCEPT !.pc = "unlock", !.entry = NONE, !.after = NONE]
  /\ UNCHANGED <<setup, rxDesc, RDH, RDT, icr, rxTail, receiveLock, packet,
                 receivedPacketsQueueStart, receivedPacketsQueueEnd, irq,
                 arrived, txVars>>

reader_unlock ==
  /\ reader.pc = "unlock" /\ Unlock
  /\ reader' = [reader EXCEPT !.pc = "idle", !.cpu = 0]
  /\ UNCHANGED <<setup, rxDesc, RDH, RDT, icr, rxTail, queueVars, irq, arrived,
                 delivered, txVars>>
-----------------------------------------------------------------------------
\* Sending.

\* The descriptor at the tail is chosen.
send(s) ==
  /\ sender[s].pc = "idle" /\ sent < setup.sent
  /\ sent' = sent + 1
  /\ sender' = [sender EXCEPT ![s] = [pc |-> "wait", desc |-> txTail, pkt |-> sent']]
  /\ UNCHANGED <<setup, rxVars, txDesc, TDH, TDT, txTail, wire>>

\* Mutated form of Unused: a descriptor that has been used is taken for free.
AnyDescriptor(d) == TRUE

\* The test of the wait loop: never used, or reported done.
Unused(d) == d.length = 0 \/ d.done

\* The wait loop ends; the packet is copied into the buffer of the tail and
\* the descriptor is filled.
send_fill(s) ==
  LET d == sender[s].desc IN
  /\ sender[s].pc = "wait" /\ Unused(txDesc[d])
  /\ txDesc' = [[txDesc EXCEPT ![txTail].pkt = sender[s].pkt]
                   EXCEPT ![d].length = 1, ![d].done = FALSE]
  /\ sender' = [sender EXCEPT ![s].pc = "tail"]
  /\ UNCHANGED <<setup, rxVars, TDH, TDT, txTail, sent, wire>>

send_tail(s) ==
  /\ sender[s].pc = "tail"
  /\ txTail' = (txTail + 1) % TX_DESC_COUNT
  /\ TDT' = txTail'
  /\ sender' = [sender EXCEPT ![s] = [pc |-> "idle", desc |-> 0, pkt |-> NONE]]
  /\ UNCHANGED <<setup, rxVars, txDesc, TDH, sent, wire>>
-----------------------------------------------------------------------------
Device == DeviceReceive \/ DeviceOverrun \/ DeviceTransmit

Irq == \/ handle_interrupt \/ receive_lock \/ receive_copy \/ receive_status
       \/ receive_tail \/ receive_unlock

Reader == \/ \E cpu \in {0, 1} : next_received_packet(cpu)
          \/ reader_lock \/ reader_read \/ reader_remove \/ reader_free
          \/ reader_unlock

Send(s) == send(s) \/ send_fill(s) \/ send_tail(s)

Next == Device \/ Irq \/ Reader \/ \E s \in Senders : Send(s)

Spec == Init /\ [][Next]_vars

\* The handler runs when a cause is raised and the CPU accepts interrupts, the
\* network stack polls forever, a call runs to its end and the device sends
\* what it is given.
FairSpec == /\ Spec
            /\ WF_vars(Irq) /\ WF_vars(Reader) /\ WF_vars(DeviceTransmit)
            /\ \A s \in Senders : WF_vars(send_fill(s) \/ send_tail(s))
-----------------------------------------------------------------------------
\* The entries met from e along the next fields (the first ones of a cycle).
Chain(e) ==
  LET at[i \in 1 .. Len(next) + 1] ==
        IF i = 1 THEN e
        ELSE IF at[i - 1] = NONE THEN NONE ELSE next[at[i - 1]]
  IN [i \in 1 .. Cardinality({i \in DOMAIN at : at[i] # NONE}) |-> at[i]]

Queue == Chain(receivedPacketsQueueStart)
Free  == Chain(receivedPacketsBufferListStart)

\* The entry the reader has taken out of the queue.
InHand == IF reader.pc = "free" THEN <<reader.entry>> ELSE <<>>

\* The descriptors the device has filled and the handler has not copied yet.
Filled ==
  LET first == (IF irq.pc \in {"status", "tail"} THEN newRxTail + 1 ELSE newRxTail)
                 % RX_DESC_COUNT
  IN [i \in 1 .. (RDH - first) % RX_DESC_COUNT |-> (first + i - 1) % RX_DESC_COUNT]

\* The packets of s without the ones that have errors.
WithoutErrors(s) ==
  LET upTo[i \in 0 .. Len(s)] ==
        IF i = 0 THEN <<>>
        ELSE IF s[i] = BAD THEN upTo[i - 1] ELSE Append(upTo[i - 1], s[i])
  IN upTo[Len(s)]

\* The packets that have arrived without errors and are not delivered.
Underway ==
  LET entries == InHand \o Queue
  IN [i \in DOMAIN entries |-> packet[entries[i]]]
       \o WithoutErrors([i \in DOMAIN Filled |-> rxDesc[Filled[i]].pkt])

\* The descriptors in use that the device has not reported done, and their
\* packets from the device's head on.
Pending == {i \in TxRing : txDesc[i].length # 0 /\ ~txDesc[i].done}
Outstanding ==
  [i \in 1 .. Cardinality(Pending) |-> txDesc[(TDH + i - 1) % TX_DESC_COUNT].pkt]

Received == INSTANCE PacketFifo WITH
              Packets <- 1 .. MaxReceived, q <- Underway, out <- delivered
Sent     == INSTANCE PacketFifo WITH
              Packets <- 1 .. MaxSent, q <- Outstanding, out <- wire
-----------------------------------------------------------------------------
\* Types; the driver's copies of the tails agree with the device's registers.
TypeOK ==
  /\ setup \in Setups
  /\ rxDesc \in [RxRing -> [dd : BOOLEAN, pkt : BAD .. MaxReceived]]
  /\ RDH \in RxRing /\ RDT \in RxRing /\ rxTail = RDT
  /\ icr \subseteq {"RXT0", "RXO"} /\ receiveLock \in {"free", "irq", "reader"}
  /\ irq.pc \in {"idle", "lock", "loop", "status", "tail", "unlock"}
  /\ irq.p \in 0 .. RX_DESC_COUNT
  /\ reader.pc \in {"idle", "lock", "read", "remove", "free", "unlock"}
  /\ reader.entry \in 0 .. Len(next) /\ reader.after \in 0 .. Len(next)
  /\ txDesc \in [TxRing -> [length : {0, 1}, done : BOOLEAN, pkt : 0 .. MaxSent]]
  /\ TDH \in TxRing /\ TDT = txTail /\ txTail \in TxRing

IrqInSection == irq.pc \in {"loop", "status", "tail", "unlock"}
ReaderInSection == reader.pc \in {"read", "remove", "free", "unlock"}

\* The interrupt handler and the reader are never both at the packet queue:
\* receiveLock keeps them apart in e1000e and igb, and in e1000, which has no
\* lock, the reader on CPU 0 with interrupts masked.
QueueSectionsExclude == ~(IrqInSection /\ ReaderInSection)

\* No buffer is lost and none is used twice: every buffer ever allocated is
\* free, queued or in the reader's hands, and the end pointer of the queue is
\* the last buffer (receive and next_received_packet of the drivers).
BuffersConserved ==
  LET all == Free \o InHand \o Queue IN
  /\ TypeOK
  /\ Len(all) = Len(next)
  /\ {all[i] : i \in DOMAIN all} = DOMAIN next
  /\ receivedPacketsQueueEnd = IF Queue = <<>> THEN NONE ELSE Queue[Len(Queue)]

\* In the receiving direction every driver is a lossless FIFO, whatever the
\* device, the interrupt handler and the reader do in between: packets without
\* errors come out of next_received_packet once each, in order.
RxImplementsFifo == Received!Spec

\* In the sending direction too: the device puts the packets on the wire as
\* they were given to send(), and send() overwrites none it has not sent.
TxImplementsFifo == Sent!Spec

\* Every packet that arrives without errors is delivered to the polling reader,
\* although ICR is cleared before the ring is read and one call of receive()
\* handles a bounded number of packets.
ReceivedIsDelivered ==
  \A n \in 1 .. MaxReceived :
    (\E i \in DOMAIN Underway : Underway[i] = n)
      ~> (\E i \in DOMAIN delivered : delivered[i] = n)

\* A packet in a descriptor that the device has not reported done is left alone
\* by send(), which reuses the ring without ever reading the device's head.
PendingIsKept ==
  [][\A i \in Pending : txDesc'[i].pkt = txDesc[i].pkt]_vars

\* What net.h promises of net_send, "Sends the given packet.": a packet given
\* to send() is on the wire in the end.
SentIsTransmitted ==
  \A n \in 1 .. MaxSent :
    (sent >= n) ~> (\E i \in DOMAIN wire : wire[i] = n)
=============================================================================
