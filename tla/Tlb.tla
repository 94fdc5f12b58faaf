-------------------------------- MODULE Tlb --------------------------------
(***************************************************************************)
(* TLB shootdown: the per-CPU operation queues of mm/tlb.c, the            *)
(* transactions that mm/vmm.c wraps around every change of a page table,   *)
(* and the part of smp/init.c that decides when a CPU can be reached by    *)
(* the TLB interrupt.                                                      *)
(*                                                                         *)
(* A TLB is modelled by the pages whose old translation it still holds.    *)
(* What else it holds is up to the processor, so any CPU may or may not    *)
(* have cached a page when its mapping changes.                            *)
(***************************************************************************)
EXTENDS Integers, Sequences, FiniteSets

CONSTANTS CPUs,         \* cpu_list
          BSP,          \* the boot processor
          Pages,        \* virtual pages whose mapping changes
          FLUSH,        \* TLB_OP_FLUSH; an INVLPG operation is its page
          QueueSize,    \* TLB_OP_QUEUE_SIZE
          NONE

ASSUME TlbConstants ==
  /\ BSP \in CPUs
  /\ FLUSH \notin Pages
  /\ QueueSize \in Nat \ {0}
  /\ NONE \notin CPUs \cup Pages

VARIABLES
  mode,     \* smp_mode
  phase,    \* how far each CPU has come in smp_boot / smp_ap_init
  stale,    \* pages of which a CPU's TLB holds an old translation
  queue,    \* cpu->tlbOperationQueue, up to tlbOperationQueueLength
  lock,     \* the CPU that holds tlbQueueLock
  pc,       \* where each CPU is in the functions of tlb.c
  page,     \* the page a transaction changed and has not queued yet
  ipi       \* IPI_TLB is pending at the CPU's local APIC

boot == <<mode, phase>>
tlbVars == <<mode, phase, stale, queue, lock, pc, page, ipi>>

\* acpi_scan has found the CPUs and apic_init has run on the BSP.
TlbInit ==
  /\ mode = "MODE_SMP_STARTING"
  /\ phase = [c \in CPUs |-> IF c = BSP THEN "ready" ELSE "off"]
  /\ stale = [c \in CPUs |-> {}]
  /\ queue = [c \in CPUs |-> <<>>]
  /\ lock = NONE
  /\ pc = [c \in CPUs |-> "idle"]
  /\ page = [c \in CPUs |-> NONE]
  /\ ipi = [c \in CPUs |-> FALSE]

Goto(c, label) == pc' = [pc EXCEPT ![c] = label]
-----------------------------------------------------------------------------
\* smp_boot: the BSP starts the AP, which from now on uses the page tables.
smp_boot(a) ==
  /\ phase[a] = "off"
  /\ pc[BSP] = "idle"
  /\ phase' = [phase EXCEPT ![a] = "booting"]
  /\ UNCHANGED <<mode, stale, queue, lock, pc, page, ipi>>

\* smp_ap_init: "flush the TLB" and count the AP as ready.
smp_ap_init(a) ==
  /\ phase[a] = "booting"
  /\ phase' = [phase EXCEPT ![a] = "ready"]
  /\ stale' = [stale EXCEPT ![a] = {}]
  /\ UNCHANGED <<mode, queue, lock, pc, page, ipi>>

\* smp_init: all CPUs are ready, "switch to SMP mode".
smp_init ==
  /\ mode = "MODE_SMP_STARTING"
  /\ \A c \in CPUs : phase[c] = "ready"
  /\ pc[BSP] = "idle"
  /\ mode' = "MODE_SMP"
  /\ UNCHANGED <<phase, stale, queue, lock, pc, page, ipi>>
-----------------------------------------------------------------------------
\* The BSP changes mappings all the time, an AP only once it has seen the
\* switch to SMP mode (until then it allocates no memory).
tlb_transaction_init(c) ==
  /\ pc[c] = "idle"
  /\ c = BSP \/ mode = "MODE_SMP"
  /\ lock = NONE
  /\ lock' = c
  /\ Goto(c, "transaction")
  /\ UNCHANGED <<boot, stale, queue, page, ipi>>

\* _vmm_maps, _vmm_unmaps, _vmm_touch, _vmm_untouch write a page table entry.
\* The CPUs in S had cached the old one.
WriteEntry(c, p, S) ==
  /\ pc[c] = "transaction"
  /\ \A d \in S : phase[d] # "off"
  /\ stale' = [d \in CPUs |-> IF d \in S THEN stale[d] \cup {p} ELSE stale[d]]
  /\ page' = [page EXCEPT ![c] = p]
  /\ Goto(c, "written")
  /\ UNCHANGED <<boot, queue, lock, ipi>>

\* Mutated form of Enqueue: a full queue is left as it is.
EnqueueDropsWhenFull(q, p) == IF Len(q) = QueueSize THEN q ELSE Append(q, p)

\* Mutated form of Enqueue: the test for a full queue comes too late.
EnqueueOverruns(q, p) ==
  IF Len(q) > QueueSize THEN <<FLUSH>> ELSE Append(q, p)

\* "Queue full? => Just replace everything with a flush operation".
Enqueue(q, p) ==
  IF Len(q) = QueueSize THEN <<FLUSH>>
  ELSE IF Len(q) = 1 /\ q[1] = FLUSH THEN q
  ELSE Append(q, p)

tlb_transaction_queue_invlpg(c) ==
  /\ pc[c] = "written"
  /\ queue' = [d \in CPUs |-> Enqueue(queue[d], page[c])]
  /\ page' = [page EXCEPT ![c] = NONE]
  /\ Goto(c, "transaction")
  /\ UNCHANGED <<boot, stale, lock, ipi>>

\* tlb_transaction_commit, up to the call of tlb_handle_ops.
tlb_transaction_commit(c) ==
  /\ pc[c] = "transaction"
  /\ lock' = NONE
  /\ Goto(c, "own")
  /\ UNCHANGED <<boot, stale, queue, page, ipi>>

\* The IPI interrupts a CPU that has its interrupts enabled: vmm_lock and
\* tlbQueueLock mask them from the start of a transaction to its end.
tlb_handle_ipi(c) ==
  /\ pc[c] = "idle"
  /\ ipi[c]
  /\ ipi' = [ipi EXCEPT ![c] = FALSE]
  /\ Goto(c, "ipi")
  /\ UNCHANGED <<boot, stale, queue, lock, page>>

\* What a TLB still holds after the operations of q.
AfterOps(S, q) == {p \in S : \A i \in 1 .. Len(q) : q[i] # p /\ q[i] # FLUSH}

\* Mutated form of HandleOps: tlbQueueLock is not taken.
HandleOpsUnlocked(c) ==
  /\ pc[c] \in {"own", "ipi"}
  /\ stale' = [stale EXCEPT ![c] = AfterOps(@, queue[c])]
  /\ Goto(c, IF pc[c] = "own" THEN "own done" ELSE "ipi done")
  /\ UNCHANGED <<boot, queue, lock, page, ipi>>

\* tlb_handle_ops: take the lock and carry out all operations ...
HandleOps(c) ==
  /\ pc[c] \in {"own", "ipi"}
  /\ lock = NONE
  /\ lock' = c
  /\ stale' = [stale EXCEPT ![c] = AfterOps(@, queue[c])]
  /\ Goto(c, IF pc[c] = "own" THEN "own done" ELSE "ipi done")
  /\ UNCHANGED <<boot, queue, page, ipi>>

\* ... then empty the queue and release the lock.
ResetQueue(c) ==
  /\ pc[c] \in {"own done", "ipi done"}
  /\ queue' = [queue EXCEPT ![c] = <<>>]
  /\ lock' = NONE
  /\ Goto(c, IF pc[c] = "own done" THEN "notify" ELSE "idle")
  /\ UNCHANGED <<boot, stale, page, ipi>>

\* Mutated form of Notify: the IPI goes to the CPU itself only.
NotifySelf(c) ==
  /\ pc[c] = "notify"
  /\ ipi' = IF mode = "MODE_SMP" THEN [ipi EXCEPT ![c] = TRUE] ELSE ipi
  /\ Goto(c, "idle")
  /\ UNCHANGED <<boot, stale, queue, lock, page>>

\* The end of tlb_transaction_commit: apic_ipi_all_exc_self, in SMP mode only.
Notify(c) ==
  /\ pc[c] = "notify"
  /\ ipi' = IF mode = "MODE_SMP" THEN [d \in CPUs |-> d # c \/ ipi[d]] ELSE ipi
  /\ Goto(c, "idle")
  /\ UNCHANGED <<boot, stale, queue, lock, page>>
-----------------------------------------------------------------------------
Boot == smp_init \/ \E a \in CPUs : smp_boot(a) \/ smp_ap_init(a)

\* A transaction that has begun, and an interrupt that is pending, run on.
Proceed(c) ==
  \/ tlb_transaction_queue_invlpg(c)
  \/ tlb_handle_ipi(c)
  \/ HandleOps(c)
  \/ ResetQueue(c)
  \/ Notify(c)

Change(c) ==
  \/ tlb_transaction_init(c)
  \/ \E p \in Pages, S \in SUBSET CPUs : WriteEntry(c, p, S)
  \/ tlb_transaction_commit(c)

TlbNext == Boot \/ \E c \in CPUs : Proceed(c) \/ Change(c)
TlbSpec == TlbInit /\ [][TlbNext]_tlbVars

\* Kernel code runs on, a transaction touches finitely many entries, a pending
\* IPI is delivered once interrupts are enabled, and a CPU that spins on
\* tlbQueueLock gets it in the end.
TlbFairSpec ==
  /\ TlbSpec
  /\ \A c \in CPUs : /\ SF_tlbVars(tlb_handle_ipi(c))
                     /\ SF_tlbVars(HandleOps(c))
                     /\ SF_tlbVars(tlb_transaction_commit(c))
                     /\ WF_tlbVars(tlb_transaction_queue_invlpg(c))
                     /\ WF_tlbVars(ResetQueue(c))
                     /\ WF_tlbVars(Notify(c))
-----------------------------------------------------------------------------
TlbTypeOK ==
  /\ mode \in {"MODE_SMP_STARTING", "MODE_SMP"}
  /\ phase \in [CPUs -> {"off", "booting", "ready"}]
  /\ stale \in [CPUs -> SUBSET Pages]
  /\ queue \in [CPUs -> Seq(Pages \cup {FLUSH})]
  /\ \A c \in CPUs : Len(queue[c]) <= QueueSize
  /\ lock \in CPUs \cup {NONE}
  /\ pc \in [CPUs -> {"idle", "transaction", "written", "own", "own done",
                      "notify", "ipi", "ipi done"}]
  /\ page \in [CPUs -> Pages \cup {NONE}]
  /\ ipi \in [CPUs -> BOOLEAN]

Covers(q, p) == \E i \in 1 .. Len(q) : q[i] = p \/ q[i] = FLUSH

\* No shootdown is lost: whenever a TLB holds an old translation, the CPU's
\* queue holds an operation that removes it, or the transaction that changed
\* the entry is just about to queue one.  Overflow of the queue, its reset
\* after the operations and APs that do not run yet make no exception.
StaleEntriesAreQueued ==
  \A c \in CPUs : \A p \in stale[c] :
    Covers(queue[c], p) \/ \E d \in CPUs : page[d] = p

\* A CPU that empties its queue has nothing stale left at that moment, so no
\* operation is thrown away undone.
ResetsOnlyWhenClean ==
  [][\A c \in CPUs : queue[c] # <<>> /\ queue'[c] = <<>> => stale[c] = {}]_tlbVars

\* A commit in SMP mode reaches every CPU: each one empties its queue at some
\* time after the IPI was sent.
CommitDrainsEveryQueue ==
  \A c, d \in CPUs :
    pc[c] = "notify" /\ mode = "MODE_SMP" ~> queue[d] = <<>>

\* CPU c is about to work off its queue: the IPI is pending or being handled,
\* or a transaction is in progress whose commit does it.
Summoned(c) ==
  \/ ipi[c]
  \/ pc[c] # "idle"
  \/ \E d \in CPUs : pc[d] # "idle"

\* "flush the TLB (as up until this point we won't have received TLB
\* shootdowns)" (smp/init.c:165): from that flush on an AP does receive them,
\* so it never keeps an old translation without being told.
ReadyCpusReceiveShootdowns ==
  \A c \in CPUs : phase[c] = "ready" /\ stale[c] # {} => Summoned(c)
=============================================================================
