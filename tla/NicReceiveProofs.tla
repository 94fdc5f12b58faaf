-------------------------- MODULE NicReceiveProofs --------------------------
(***************************************************************************)
(* Packets come out of the receive path once each and in order, for rings  *)
(* of any size and any traffic.                                            *)
(*                                                                         *)
(* A packet is in the ring (Arriving), in a buffer of the list (Stored) or *)
(* delivered.  The invariant ReceiveInv adds to BufferInv where the filled *)
(* descriptors are: from the one after the tail to the device's head.  The *)
(* handler copies a packet before it moves the tail, so that for two of    *)
(* its steps the first descriptor counts no more (Skip).                   *)
(*                                                                         *)
(* What WithoutErrors computes comes first.                                *)
(***************************************************************************)
EXTENDS NicProofs

\* What WithoutErrors computes.  f is its recursive function on the first n
\* packets of s; that there is one, that there is no other, and what it does on
\* a longer sequence is shown by the least argument for which it would fail.
Filters(s, n, f) ==
  /\ f = [i \in 0 .. n |-> f[i]] /\ f[0] = <<>>
  /\ \A i \in 1 .. n : f[i] = IF s[i] = BAD THEN f[i - 1] ELSE Append(f[i - 1], s[i])

\* One step of it.
LEMMA FilterStep ==
  ASSUME NEW s, NEW n, NEW f, Filters(s, n, f), NEW i \in 1 .. n, NEW j, j = i - 1
  PROVE  f[i] = IF s[i] = BAD THEN f[j] ELSE Append(f[j], s[i])
BY Zenon DEF Filters

\* There is such a function.
LEMMA FilterExists ==
  ASSUME NEW s, NEW n \in Nat
  PROVE  \E f : Filters(s, n, f)
<1> SUFFICES ASSUME ~ \E f : Filters(s, n, f) PROVE FALSE
  OBVIOUS
<1> DEFINE T == {k \in Nat : ~ \E f : Filters(s, k, f)}
<1>1. T \in SUBSET Nat /\ T # {}
  OBVIOUS
<1>2. PICK k \in T : \A j \in T : k <= j
  BY <1>1, LeastElement, Zenon
<1>3. k # 0
  <2> DEFINE f == [i \in 0 .. 0 |-> <<>>]
  <2>1. Filters(s, 0, f)
    BY DEF Filters
  <2> QED
    BY <2>1
<1>4. k - 1 \in Nat /\ ~(k <= k - 1)
  BY <1>3
<1>5. PICK g : Filters(s, k - 1, g)
  BY <1>2, <1>4
<1> DEFINE last == IF s[k] = BAD THEN g[k - 1] ELSE Append(g[k - 1], s[k])
           f == [i \in 0 .. k |-> IF i = k THEN last ELSE g[i]]
<1>6. Filters(s, k, f)
  <2> HIDE DEF last
  <2>1. f = [i \in 0 .. k |-> f[i]] /\ f[k] = last /\ \A i \in 0 .. k - 1 : f[i] = g[i]
    OBVIOUS
  <2> HIDE DEF f
  <2>2. f[0] = <<>>
    <3>1. 0 \in 0 .. k - 1 /\ g[0] = <<>>
      BY <1>4, <1>5, SMTT(30) DEF Filters
    <3> QED
      BY <2>1, <3>1, Zenon
  <2>3. ASSUME NEW i \in 1 .. k
        PROVE  f[i] = IF s[i] = BAD THEN f[i - 1] ELSE Append(f[i - 1], s[i])
    <3>1. CASE i = k
      <4>1. f[k - 1] = g[k - 1]
        <5>1. k - 1 \in 0 .. k - 1
          BY <1>4
        <5> QED
          BY <2>1, <5>1, Zenon
      <4> QED
        BY <2>1, <3>1, <4>1, SMTT(30) DEF last
    <3>2. CASE i # k
      <4>1. i \in 1 .. k - 1 /\ i \in 0 .. k - 1 /\ i - 1 \in 0 .. k - 1
        BY <3>2
      <4>2. g[i] = IF s[i] = BAD THEN g[i - 1] ELSE Append(g[i - 1], s[i])
        BY <1>5, <4>1, Zenon DEF Filters
      <4> QED
        BY <2>1, <4>1, <4>2, Zenon
    <3> QED
      BY <3>1, <3>2
  <2> QED
    BY <2>1, <2>2, <2>3, Zenon DEF Filters
<1> QED
  BY <1>6

\* On what two sequences have in common their functions agree.
LEMMA FilterAgrees ==
  ASSUME NEW s, NEW t, NEW n \in Nat, NEW m \in Nat, NEW f, NEW g,
         Filters(s, n, f), Filters(t, m, g), NEW k \in Nat, k <= n, k <= m,
         \A i \in 1 .. k : s[i] = t[i]
  PROVE  f[k] = g[k]
<1> SUFFICES ASSUME f[k] # g[k] PROVE FALSE
  OBVIOUS
<1> DEFINE T == {j \in 0 .. k : f[j] # g[j]}
<1>1. T \in SUBSET Nat /\ T # {}
  OBVIOUS
<1>2. PICK j \in T : \A i \in T : j <= i
  BY <1>1, LeastElement, Zenon
<1>3. j # 0
  BY DEF Filters
<1>4. j \in 1 .. n /\ j \in 1 .. m /\ j \in 1 .. k /\ j - 1 \in 0 .. k /\ ~(j <= j - 1)
  BY <1>3
<1>5. f[j - 1] = g[j - 1]
  BY <1>2, <1>4
<1>6. /\ f[j] = IF s[j] = BAD THEN f[j - 1] ELSE Append(f[j - 1], s[j])
      /\ g[j] = IF t[j] = BAD THEN g[j - 1] ELSE Append(g[j - 1], t[j])
  BY <1>4, Zenon DEF Filters
<1>7. s[j] = t[j]
  BY <1>4
<1> QED
  BY <1>2, <1>5, <1>6, <1>7

\* WithoutErrors is the value of that function at the end.
LEMMA WithoutErrorsIs ==
  ASSUME NEW s, Len(s) \in Nat
  PROVE  \E f : Filters(s, Len(s), f) /\ WithoutErrors(s) = f[Len(s)]
<1> DEFINE n == Len(s)
           Step(h) == [i \in 0 .. n |-> IF i = 0 THEN <<>>
                         ELSE IF s[i] = BAD THEN h[i - 1] ELSE Append(h[i - 1], s[i])]
           upTo == CHOOSE h : h = Step(h)
<1>1. WithoutErrors(s) = upTo[n]
  BY DEF WithoutErrors
<1>2. PICK f : Filters(s, n, f)
  BY FilterExists
<1> HIDE DEF n
<1>3. f = Step(f)
  <2>1. ASSUME NEW i \in 0 .. n PROVE f[i] = Step(f)[i]
    <3>1. CASE i = 0
      BY <1>2, <3>1, SMTT(30) DEF Filters
    <3>2. CASE i # 0
      <4>1. i \in 1 .. n
        BY <3>2
      <4>2. f[i] = IF s[i] = BAD THEN f[i - 1] ELSE Append(f[i - 1], s[i])
        BY <1>2, <4>1, Zenon DEF Filters
      <4> QED
        BY <3>2, <4>2
    <3> QED
      BY <3>1, <3>2
  <2>2. f = [i \in 0 .. n |-> f[i]]
    BY <1>2 DEF Filters
  <2> QED
    BY <2>1, <2>2, Zenon
<1>4. upTo = Step(upTo)
  BY <1>3, Zenon
<1> HIDE DEF upTo
<1>5. Filters(s, n, upTo)
  <2>1. /\ upTo = [i \in 0 .. n |-> upTo[i]]
        /\ \A i \in 0 .. n : upTo[i] = IF i = 0 THEN <<>>
             ELSE IF s[i] = BAD THEN upTo[i - 1] ELSE Append(upTo[i - 1], s[i])
    BY <1>4, Zenon
  <2>2. n \in Nat /\ 0 \in 0 .. n /\ \A i \in 1 .. n : i \in 0 .. n /\ i # 0
    BY DEF n
  <2>3. upTo[0] = <<>>
    BY <2>1, <2>2, Zenon
  <2>4. \A i \in 1 .. n : upTo[i] = IF s[i] = BAD THEN upTo[i - 1] ELSE Append(upTo[i - 1], s[i])
    BY <2>1, <2>2, Zenon
  <2> QED
    BY <2>1, <2>3, <2>4, Zenon DEF Filters
<1> QED
  BY <1>1, <1>5 DEF n

\* Its values are sequences.
LEMMA FilterType ==
  ASSUME NEW S, NEW s, NEW n \in Nat, \A i \in 1 .. n : s[i] \in S,
         NEW f, Filters(s, n, f), NEW k \in 0 .. n
  PROVE  f[k] \in Seq(S)
<1> SUFFICES ASSUME f[k] \notin Seq(S) PROVE FALSE
  OBVIOUS
<1> DEFINE T == {j \in 0 .. n : f[j] \notin Seq(S)}
<1>1. T \in SUBSET Nat /\ T # {}
  OBVIOUS
<1>2. PICK j \in T : \A i \in T : j <= i
  BY <1>1, LeastElement, Zenon
<1>3. j # 0
  <2>1. <<>> \in Seq(S)
    OBVIOUS
  <2> QED
    BY <2>1 DEF Filters
<1>4. j \in 1 .. n /\ j - 1 \in 0 .. n /\ ~(j <= j - 1)
  BY <1>3
<1>5. f[j - 1] \in Seq(S)
  BY <1>2, <1>4
<1>6. f[j] = IF s[j] = BAD THEN f[j - 1] ELSE Append(f[j - 1], s[j])
  BY <1>4, Zenon DEF Filters
<1>7. s[j] \in S
  BY <1>4
<1>8. Append(f[j - 1], s[j]) \in Seq(S)
  BY <1>5, <1>7
<1> QED
  BY <1>2, <1>5, <1>6, <1>8, Zenon

\* A packet that comes last is dropped if it has errors.
LEMMA WithoutErrorsAppend ==
  ASSUME NEW S, NEW s \in Seq(S), NEW x \in S
  PROVE  WithoutErrors(Append(s, x)) =
           IF x = BAD THEN WithoutErrors(s) ELSE Append(WithoutErrors(s), x)
<1> DEFINE t == Append(s, x)
           n == Len(s)
<1>1. /\ n \in Nat /\ Len(t) = n + 1 /\ t[n + 1] = x /\ \A i \in 1 .. n : t[i] = s[i]
  OBVIOUS
<1> HIDE DEF t
<1>2. PICK f : Filters(s, n, f) /\ WithoutErrors(s) = f[n]
  BY <1>1, WithoutErrorsIs
<1> HIDE DEF n
<1>3. PICK g : Filters(t, n + 1, g) /\ WithoutErrors(t) = g[n + 1]
  <2>1. Len(t) \in Nat
    BY <1>1
  <2> QED
    BY <1>1, <2>1, WithoutErrorsIs
<1>4. f[n] = g[n]
  <2>1. n + 1 \in Nat /\ n <= n /\ n <= n + 1 /\ \A i \in 1 .. n : s[i] = t[i]
    BY <1>1
  <2> QED
    BY <1>1, <1>2, <1>3, <2>1, FilterAgrees, SMTT(30)
<1>5. g[n + 1] = IF t[n + 1] = BAD THEN g[n] ELSE Append(g[n], t[n + 1])
  <2>1. PICK l : l = n + 1
    OBVIOUS
  <2>2. l \in 1 .. l /\ n = l - 1 /\ Filters(t, l, g)
    BY <1>1, <1>3, <2>1, SMTT(30)
  <2>3. g[l] = IF t[l] = BAD THEN g[n] ELSE Append(g[n], t[l])
    BY <2>2, FilterStep, SMTT(30)
  <2> QED
    BY <2>1, <2>3
<1>6. g[n + 1] = IF x = BAD THEN f[n] ELSE Append(f[n], x)
  BY <1>1, <1>4, <1>5
<1> QED
  BY <1>2, <1>3, <1>6, Zenon DEF t

\* Moving an element from the second to the first of two sequences.
LEMMA ConcatMove ==
  ASSUME NEW S, NEW a \in Seq(S), NEW b \in Seq(S), NEW x \in S
  PROVE  Append(a, x) \o b = a \o (<<x>> \o b)
BY SMTT(30)

\* A packet that comes first is dropped if it has errors.
LEMMA WithoutErrorsTail ==
  ASSUME NEW S, NEW s \in Seq(S), Len(s) > 0
  PROVE  WithoutErrors(s) = IF s[1] = BAD THEN WithoutErrors(Tail(s))
                            ELSE <<s[1]>> \o WithoutErrors(Tail(s))
<1> DEFINE t == Tail(s)
           n == Len(s)
           m == Len(s) - 1
           pre == IF s[1] = BAD THEN <<>> ELSE <<s[1]>>
<1>1. /\ n \in Nat /\ m \in Nat /\ n = m + 1 /\ t \in Seq(S) /\ Len(t) = m
      /\ \A i \in 1 .. m : t[i] = s[i + 1]
      /\ \A i \in 1 .. n : s[i] \in S
  OBVIOUS
<1> HIDE DEF t
<1>2. PICK f : Filters(s, n, f) /\ WithoutErrors(s) = f[n]
  BY <1>1, WithoutErrorsIs, SMTT(30)
<1> HIDE DEF n
<1>3. PICK g : Filters(t, m, g) /\ WithoutErrors(t) = g[m]
  BY <1>1, WithoutErrorsIs, SMTT(30)
<1> HIDE DEF m
<1>4. pre \in Seq(S) /\ 1 \in 1 .. n /\ s[1] \in S
  BY <1>1
<1>5. \A i \in 0 .. m : g[i] \in Seq(S)
  <2>1. \A i \in 1 .. m : t[i] \in S
    BY <1>1
  <2> QED
    BY <1>1, <1>3, <2>1, FilterType, ZenonT(40)
<1>6. f[1] = pre
  <2>1. f[1] = IF s[1] = BAD THEN f[1 - 1] ELSE Append(f[1 - 1], s[1])
    BY <1>2, <1>4, Zenon DEF Filters
  <2>2. f[0] = <<>> /\ 1 - 1 = 0 /\ Append(<<>>, s[1]) = <<s[1]>>
    BY <1>2 DEF Filters
  <2> QED
    BY <2>1, <2>2, Zenon
<1> HIDE DEF pre
<1>7. ASSUME NEW k \in 0 .. m, f[k + 1] # pre \o g[k] PROVE FALSE
  <2> DEFINE T == {j \in 0 .. m : f[j + 1] # pre \o g[j]}
  <2>1. T \in SUBSET Nat /\ T # {}
    <3>1. k \in T
      BY <1>7, Zenon
    <3>2. T \subseteq 0 .. m /\ 0 .. m \subseteq Nat
      BY <1>1
    <3> QED
      BY <3>1, <3>2, Zenon
  <2> HIDE DEF T
  <2>2. PICK j \in T : \A i \in T : j <= i
    BY <2>1, LeastElement, Zenon
  <2>3. j # 0
    <3>1. g[0] = <<>> /\ pre \o <<>> = pre /\ 0 + 1 = 1
      BY <1>3, <1>4 DEF Filters
    <3> QED
      BY <1>6, <2>2, <3>1, Zenon DEF T
  <2>4. j \in 1 .. m /\ j + 1 \in 1 .. n /\ j - 1 \in 0 .. m /\ ~(j <= j - 1)
        /\ j = j + 1 - 1 /\ j - 1 + 1 = j
    BY <1>1, <2>3 DEF T
  <2>5. f[j - 1 + 1] = pre \o g[j - 1]
    BY <2>2, <2>4 DEF T
  <2>6. /\ f[j + 1] = IF s[j + 1] = BAD THEN f[j] ELSE Append(f[j], s[j + 1])
        /\ g[j] = IF t[j] = BAD THEN g[j - 1] ELSE Append(g[j - 1], t[j])
    BY <1>2, <1>3, <2>4, FilterStep, SMTT(30)
  <2>7. t[j] = s[j + 1] /\ s[j + 1] \in S
    BY <1>1, <2>4
  <2>8. Append(pre \o g[j - 1], t[j]) = pre \o Append(g[j - 1], t[j])
    <3>1. pre \in Seq(S) /\ g[j - 1] \in Seq(S) /\ t[j] \in S
      BY <1>4, <1>5, <2>4, <2>7
    <3>2. ASSUME NEW p \in Seq(S), NEW u \in Seq(S), NEW v \in S
          PROVE  Append(p \o u, v) = p \o Append(u, v)
      BY SMTT(30)
    <3> QED
      BY <3>1, <3>2, Zenon
  <2>9. f[j + 1] = pre \o g[j]
    BY <2>4, <2>5, <2>6, <2>7, <2>8, Zenon
  <2> QED
    BY <2>2, <2>9 DEF T
<1>8. f[n] = pre \o g[m]
  <2>1. m \in 0 .. m
    BY <1>1
  <2> QED
    BY <1>1, <1>7, <2>1, SMTT(30)
<1>9. g[m] \in Seq(S) /\ <<>> \o g[m] = g[m]
  <2>1. g[m] \in Seq(S)
    BY <1>1, <1>5
  <2> QED
    BY <2>1
<1> QED
  BY <1>2, <1>3, <1>8, <1>9, Zenon DEF t, pre

\* What is left are packets.
LEMMA WithoutErrorsType ==
  ASSUME NEW S, NEW s \in Seq(S)
  PROVE  WithoutErrors(s) \in Seq(S)
<1> DEFINE n == Len(s)
<1>1. n \in Nat /\ \A i \in 1 .. n : s[i] \in S
  OBVIOUS
<1>2. PICK f : Filters(s, n, f) /\ WithoutErrors(s) = f[n]
  BY <1>1, WithoutErrorsIs
<1> HIDE DEF n
<1>3. n \in 0 .. n
  BY <1>1
<1> QED
  BY <1>1, <1>2, <1>3, FilterType
-----------------------------------------------------------------------------
\* The receive ring as a queue: from the descriptor after the tail on lie the
\* ones the device has filled, up to its head.  The handler copies a packet
\* before it moves the tail, and in between the first one counts no more.

\* How far a descriptor is from the first one, and a position of the ring.
Back(t, i) == IF i >= t THEN i - t ELSE i - t + RX_DESC_COUNT
Turn(x) == IF x < RX_DESC_COUNT THEN x ELSE x - RX_DESC_COUNT

Skip == IF irq.pc \in {"status", "tail"} THEN 1 ELSE 0

\* The packets in the ring d from descriptor t on to the head h, without the
\* first k.
InRing(d, t, h, k) == [i \in 1 .. Back(t, h) - k |-> d[Turn(t + k + i - 1)].pkt]

RxTypes(d) == d \in [RxRing -> [dd : BOOLEAN, pkt : BAD .. MaxReceived]]

\* Only descriptors before the head are reported done.
DoneBefore(d, t, h) == \A i \in RxRing : d[i].dd => Back(t, i) < Back(t, h)

Ring(d, t, h, k) ==
  /\ RxTypes(d) /\ t \in RxRing /\ h \in RxRing /\ k \in {0, 1} /\ k <= Back(t, h)
  /\ DoneBefore(d, t, h)

\* Descriptor h has been filled with packet x.
FilledAt(d, e, h, x) == e[h].pkt = x /\ \A i \in RxRing \ {h} : e[i] = d[i]

ReceiveInv ==
  /\ BufferInv
  /\ \A e \in DOMAIN packet : packet[e] \in Int
  /\ DoneBefore(rxDesc, newRxTail, RDH) /\ Skip <= Back(newRxTail, RDH)
  /\ irq.pc = "tail" => ~rxDesc[newRxTail].dd

\* The descriptor after the last one is the first.
LEMMA TurnOne ==
  ASSUME NEW t \in RxRing
  PROVE  (t + 1) % RX_DESC_COUNT = Turn(t + 1) /\ Turn(t + 1) \in RxRing
<1>1. t + 1 \in 0 .. 2 * RX_DESC_COUNT - 1 /\ RX_DESC_COUNT \in Nat \ {0}
  BY NicConstants DEF RxRing
<1>2. (t + 1) % RX_DESC_COUNT = Turn(t + 1)
  BY <1>1, OneRound DEF Turn
<1> QED
  BY <1>2, NicConstants DEF Turn, RxRing

\* Distances in the ring.
LEMMA BackType ==
  ASSUME NEW t \in RxRing, NEW i \in RxRing
  PROVE  /\ Back(t, i) \in Nat /\ Back(t, i) < RX_DESC_COUNT
         /\ (Back(t, i) = 0 <=> i = t) /\ Turn(t + Back(t, i)) = i
BY NicConstants DEF Back, RxRing, Turn

\* The positions up to the head are descriptors of the ring.
LEMMA TurnType ==
  ASSUME NEW t \in RxRing, NEW x \in Nat, x < RX_DESC_COUNT
  PROVE  Turn(t + x) \in RxRing /\ Back(t, Turn(t + x)) = x
BY NicConstants DEF Back, RxRing, Turn

IntSeq(n, a) == n \in Nat /\ a \in Seq(Int) /\ a = [i \in 1 .. n |-> a[i]]

\* The packets of the ring are numbers.
LEMMA InRingType ==
  ASSUME NEW d, RxTypes(d), NEW t \in RxRing, NEW h \in RxRing, NEW k \in {0, 1}, k <= Back(t, h)
  PROVE  IntSeq(Back(t, h) - k, InRing(d, t, h, k))
<1> DEFINE n == Back(t, h) - k
           a == InRing(d, t, h, k)
<1>1. /\ n \in Nat
      /\ \A i \in 1 .. n : /\ k + i - 1 \in Nat /\ k + i - 1 < RX_DESC_COUNT
                          /\ t + (k + i - 1) = t + k + i - 1
  <2>b. PICK b : b = Back(t, h)
    OBVIOUS
  <2>1. b \in Nat /\ b < RX_DESC_COUNT /\ k <= b /\ k \in Nat /\ RX_DESC_COUNT \in Nat /\ t \in Nat
    BY <2>b, BackType, NicConstants DEF RxRing
  <2>2. /\ b - k \in Nat
        /\ \A i \in 1 .. b - k : /\ k + i - 1 \in Nat /\ k + i - 1 < RX_DESC_COUNT
                                /\ t + (k + i - 1) = t + k + i - 1
    BY <2>1
  <2> QED
    BY <2>b, <2>2
<1>2. ASSUME NEW i \in 1 .. n PROVE d[Turn(t + k + i - 1)].pkt \in Int
  <2>1. Turn(t + (k + i - 1)) \in RxRing
    BY <1>1, TurnType
  <2>2. Turn(t + k + i - 1) \in RxRing
    BY <1>1, <2>1
  <2>3. d[Turn(t + k + i - 1)].pkt \in BAD .. MaxReceived
    BY <2>2 DEF RxTypes
  <2> QED
    BY <2>3, NicConstants DEF BAD
<1> HIDE DEF n
<1>3. a = [i \in 1 .. n |-> d[Turn(t + k + i - 1)].pkt]
  BY DEF InRing, n
<1>4. a \in [1 .. n -> Int]
  BY <1>2, <1>3
<1>5. a \in Seq(Int) /\ a = [i \in 1 .. n |-> a[i]]
  BY <1>1, <1>4
<1> HIDE DEF a
<1>6. IntSeq(n, a)
  BY <1>1, <1>5, Zenon DEF IntSeq
<1> QED
  BY <1>6, Zenon DEF n, a

\* A packet the device stores at its head comes last.
LEMMA RingPut ==
  ASSUME NEW d, NEW t, NEW h, NEW k, Ring(d, t, h, k), NEW r \in RxRing, t = Turn(r + 1), h # r,
         NEW x, NEW e, FilledAt(d, e, h, x)
  PROVE  /\ Back(t, Turn(h + 1)) = Back(t, h) + 1
         /\ DoneBefore(e, t, Turn(h + 1))
         /\ InRing(e, t, Turn(h + 1), k) = Append(InRing(d, t, h, k), x)
<1>t. /\ RxTypes(d) /\ t \in RxRing /\ h \in RxRing /\ k \in {0, 1} /\ k <= Back(t, h)
      /\ DoneBefore(d, t, h) /\ t = Turn(r + 1)
  BY DEF Ring
<1>h. PICK g : g = Turn(h + 1)
  OBVIOUS
<1>1. t \in RxRing /\ g \in RxRing
  BY <1>t, <1>h, TurnOne, SMTT(30)
<1>2. Back(t, g) = Back(t, h) + 1
  BY <1>t, <1>h, NicConstants, SMTT(30) DEF Turn, Back, RxRing
<1>3. /\ \A i \in RxRing \ {h} : e[i] = d[i]
      /\ e[h].pkt = x
  BY DEF FilledAt
<1>4. DoneBefore(e, t, g)
  <2>1. \A i \in RxRing : Back(t, i) \in Nat
    BY <1>1, BackType
  <2>2. ASSUME NEW i \in RxRing, e[i].dd PROVE Back(t, i) < Back(t, g)
    <3>1. CASE i = h
      BY <1>2, <2>1, <3>1
    <3>2. CASE i # h
      <4>1. Back(t, i) < Back(t, h)
        BY <1>t, <1>3, <2>2, <3>2 DEF DoneBefore
      <4> QED
        BY <1>t, <1>2, <2>1, <4>1, SMTT(30)
    <3> QED
      BY <3>1, <3>2
  <2> QED
    BY <2>2 DEF DoneBefore
<1>5. InRing(e, t, g, k) = Append(InRing(d, t, h, k), x)
  <2>n. PICK n : n = Back(t, h) - k
    OBVIOUS
  <2>a. PICK a : a = InRing(d, t, h, k)
    OBVIOUS
  <2>1. n \in Nat /\ a = [i \in 1 .. n |-> a[i]]
    <3>1. k <= Back(t, h)
      BY <1>t
    <3>2. IntSeq(Back(t, h) - k, InRing(d, t, h, k))
      BY <1>t, <1>1, <3>1, InRingType, Zenon
    <3> QED
      BY <2>n, <2>a, <3>2, Zenon DEF IntSeq
  <2>2. Append(a, x) = [i \in 1 .. n + 1 |-> IF i = n + 1 THEN x ELSE a[i]]
    BY <2>1, AppendTo
  <2>3. Back(t, h) \in Nat /\ Back(t, g) - k = n + 1 /\ Turn(t + Back(t, h)) = h
        /\ n < RX_DESC_COUNT
    <3>b. PICK b : b = Back(t, h)
      OBVIOUS
    <3>1. b \in Nat /\ b < RX_DESC_COUNT /\ Turn(t + b) = h /\ k \in Nat /\ RX_DESC_COUNT \in Nat
      BY <1>t, <1>1, <3>b, BackType, NicConstants
    <3>2. n = b - k /\ Back(t, g) = b + 1
      BY <1>2, <2>n, <3>b
    <3> QED
      BY <3>b, <3>1, <3>2
  <2>4. InRing(e, t, g, k) = [i \in 1 .. n + 1 |-> e[Turn(t + k + i - 1)].pkt]
    BY <2>3, SMTT(30) DEF InRing
  <2>5. ASSUME NEW i \in 1 .. n + 1
        PROVE  e[Turn(t + k + i - 1)].pkt = IF i = n + 1 THEN x ELSE a[i]
    <3>1. CASE i = n + 1
      <4>1. t + k + i - 1 = t + Back(t, h)
        BY <1>t, <1>1, <2>n, <2>3, <3>1 DEF RxRing
      <4> QED
        BY <1>3, <2>3, <3>1, <4>1, SMTT(30)
    <3>2. CASE i # n + 1
      <4>1. /\ i \in 1 .. n /\ k + i - 1 \in Nat /\ k + i - 1 < Back(t, h)
            /\ k + i - 1 < RX_DESC_COUNT /\ t + (k + i - 1) = t + k + i - 1
        <5>b. PICK b : b = Back(t, h)
          OBVIOUS
        <5>1. b \in Nat /\ b < RX_DESC_COUNT /\ k \in Nat /\ RX_DESC_COUNT \in Nat /\ t \in Nat
              /\ n = b - k /\ n \in Nat
          <6>1. b \in Nat /\ b < RX_DESC_COUNT
            BY <1>t, <1>1, <5>b, BackType, Zenon
          <6>2. k \in Nat /\ RX_DESC_COUNT \in Nat /\ t \in Nat
            BY <1>t, <1>1, NicConstants DEF RxRing
          <6> QED
            BY <2>n, <2>1, <5>b, <6>1, <6>2, Zenon
        <5>2. /\ i \in 1 .. n /\ k + i - 1 \in Nat /\ k + i - 1 < b
              /\ k + i - 1 < RX_DESC_COUNT /\ t + (k + i - 1) = t + k + i - 1
          BY <3>2, <5>1
        <5> QED
          BY <5>b, <5>2
      <4>2. Turn(t + (k + i - 1)) \in RxRing /\ Back(t, Turn(t + (k + i - 1))) = k + i - 1
        BY <1>1, <4>1, TurnType, SMTT(30)
      <4>3. Turn(t + k + i - 1) \in RxRing \ {h}
        BY <2>3, <4>1, <4>2, SMTT(30)
      <4>4. a[i] = d[Turn(t + k + i - 1)].pkt
        BY <2>n, <2>a, <4>1, SMTT(30) DEF InRing
      <4> QED
        BY <1>3, <3>2, <4>3, <4>4, Zenon
    <3> QED
      BY <3>1, <3>2, SMTT(30)
  <2> QED
    BY <2>a, <2>2, <2>4, <2>5, Zenon
<1> QED
  BY <1>t, <1>h, <1>2, <1>4, <1>5

\* The handler copies the packet that comes first.
LEMMA RingTake ==
  ASSUME NEW d, RxTypes(d), NEW t \in RxRing, NEW h \in RxRing, h # t
  PROVE  /\ 1 <= Back(t, h) /\ InRing(d, t, h, 0) # <<>>
         /\ InRing(d, t, h, 0)[1] = d[t].pkt
         /\ InRing(d, t, h, 1) = Tail(InRing(d, t, h, 0))
<1>n. PICK n : n = Back(t, h)
  OBVIOUS
<1>1. n \in Nat \ {0} /\ 0 <= n /\ 1 <= n
  <2>1. n \in Nat /\ n # 0
    BY <1>n, BackType
  <2> QED
    BY <2>1
<1>a. PICK a : a = InRing(d, t, h, 0)
  OBVIOUS
<1>2. a = [i \in 1 .. n - 0 |-> a[i]]
  <2>1. IntSeq(Back(t, h) - 0, InRing(d, t, h, 0))
    <3>1. 0 <= Back(t, h) /\ 0 \in {0, 1}
      BY <1>n, <1>1
    <3> QED
      BY <3>1, InRingType, Zenon
  <2> QED
    BY <1>n, <1>a, <2>1, Zenon DEF IntSeq
<1>3. a = [i \in 1 .. n |-> a[i]]
  BY <1>1, <1>2
<1>4. a # <<>> /\ Tail(a) = [i \in 1 .. n - 1 |-> a[i + 1]]
  BY <1>1, <1>3, TailOf
<1>5. \A i \in 1 .. n : a[i] = d[Turn(t + 0 + i - 1)].pkt
  <2>1. n - 0 = n
    BY <1>1
  <2> QED
    BY <1>n, <1>a, <2>1 DEF InRing
<1>6. a[1] = d[t].pkt
  <2>1. 1 \in 1 .. n /\ t + 0 + 1 - 1 = t /\ Turn(t) = t
    BY <1>1, NicConstants DEF RxRing, Turn
  <2> QED
    BY <1>5, <2>1
<1>7. \A i \in 1 .. n - 1 : a[i + 1] = d[Turn(t + 1 + i - 1)].pkt
  <2>1. \A i \in 1 .. n - 1 : i + 1 \in 1 .. n /\ t + 0 + (i + 1) - 1 = t + 1 + i - 1
    <3>1. t \in Nat
      BY NicConstants DEF RxRing
    <3> QED
      BY <1>1, <3>1
  <2> QED
    BY <1>5, <2>1
<1>8. InRing(d, t, h, 1) = [i \in 1 .. n - 1 |-> d[Turn(t + 1 + i - 1)].pkt]
  BY <1>n DEF InRing
<1> QED
  BY <1>n, <1>a, <1>1, <1>4, <1>6, <1>7, <1>8, SMTT(30)

\* The handler moves the tail over the descriptor it has copied.
LEMMA RingTurn ==
  ASSUME NEW d, RxTypes(d), NEW t \in RxRing, NEW h \in RxRing, 1 <= Back(t, h),
         DoneBefore(d, t, h), ~d[t].dd
  PROVE  /\ 0 <= Back(Turn(t + 1), h) /\ DoneBefore(d, Turn(t + 1), h)
         /\ InRing(d, Turn(t + 1), h, 0) = InRing(d, t, h, 1)
<1>g. PICK g : g = Turn(t + 1)
  OBVIOUS
<1>1. g \in RxRing
  BY <1>g, TurnOne
<1>2. \A i \in RxRing \ {t} : Back(g, i) = Back(t, i) - 1
  BY <1>g, NicConstants DEF Back, Turn, RxRing
<1>3. h # t /\ Back(t, h) \in Nat
  <2>1. Back(t, h) \in Nat /\ Back(t, h) # 0
    BY BackType
  <2> QED
    BY <2>1, BackType
<1>4. DoneBefore(d, g, h)
  <2>1. ASSUME NEW i \in RxRing, d[i].dd PROVE Back(g, i) < Back(g, h)
    <3>1. i # t /\ Back(t, i) < Back(t, h)
      BY <2>1 DEF DoneBefore
    <3>2. Back(t, i) \in Nat
      BY BackType
    <3>3. Back(g, i) = Back(t, i) - 1 /\ Back(g, h) = Back(t, h) - 1
      BY <1>2, <1>3, <3>1
    <3> QED
      BY <1>3, <3>1, <3>2, <3>3
  <2> QED
    BY <2>1 DEF DoneBefore
<1>n. PICK n : n = Back(t, h) - 1
  OBVIOUS
<1>5. n \in Nat /\ Back(g, h) - 0 = n /\ n < RX_DESC_COUNT - 1
  <2>b. PICK b : b = Back(t, h)
    OBVIOUS
  <2>1. b \in Nat /\ 1 <= b /\ b < RX_DESC_COUNT /\ RX_DESC_COUNT \in Nat
    BY <2>b, BackType, NicConstants
  <2>2. Back(g, h) = b - 1 /\ n = b - 1
    BY <1>2, <1>3, <1>n, <2>b, SMTT(30)
  <2> QED
    BY <2>1, <2>2
<1>6. \A i \in 1 .. n : Turn(g + 0 + i - 1) = Turn(t + 1 + i - 1)
  BY <1>g, <1>5, NicConstants DEF Turn, RxRing
<1>7. InRing(d, g, h, 0) = [i \in 1 .. n |-> d[Turn(g + 0 + i - 1)].pkt]
  BY <1>5 DEF InRing
<1>8. InRing(d, t, h, 1) = [i \in 1 .. n |-> d[Turn(t + 1 + i - 1)].pkt]
  BY <1>n DEF InRing
<1>9. InRing(d, g, h, 0) = InRing(d, t, h, 1)
  BY <1>6, <1>7, <1>8, Zenon
<1>10. 0 <= Back(g, h)
  <2>1. Back(g, h) \in Nat
    BY <1>1, BackType
  <2> QED
    BY <2>1
<1> QED
  BY <1>g, <1>4, <1>9, <1>10, Zenon

\* The packets of the filled descriptors, with and without errors.
Arriving == [i \in DOMAIN Filled |-> rxDesc[Filled[i]].pkt]

\* The packets the handler has still to copy, as the ring holds them.
LEMMA ArrivingIs ==
  ASSUME newRxTail \in RxRing, RDH \in RxRing, Skip <= Back(newRxTail, RDH)
  PROVE  Arriving = InRing(rxDesc, newRxTail, RDH, Skip)
<1>t. PICK t, h, k, b, N : t = newRxTail /\ h = RDH /\ k = Skip /\ b = Back(newRxTail, RDH)
                           /\ N = RX_DESC_COUNT
  OBVIOUS
<1> DEFINE first == Turn(t + k)
           n == b - k
<1>1. /\ t \in 0 .. N - 1 /\ h \in 0 .. N - 1 /\ k \in {0, 1} /\ b \in Nat /\ k <= b /\ b < N
      /\ N \in Nat \ {0, 1} /\ b = Back(t, h) /\ n \in Nat
  <2>1. b \in Nat /\ b < N
    BY <1>t, BackType
  <2>2. k \in {0, 1} /\ k <= b
    BY <1>t DEF Skip
  <2> QED
    BY <1>t, <2>1, <2>2, NicConstants DEF RxRing
<1>2. (IF irq.pc \in {"status", "tail"} THEN newRxTail + 1 ELSE newRxTail) = t + k
  BY <1>t, <1>1 DEF Skip
<1>3. (t + k) % RX_DESC_COUNT = first
  <2>1. t + k \in 0 .. 2 * N - 1 /\ N \in Nat \ {0}
    BY <1>1
  <2> QED
    BY <1>t, <2>1, OneRound DEF Turn
<1>4. first \in 0 .. N - 1
  BY <1>t, <1>1 DEF Turn
<1>5. (h - first) % N = n
  <2>1. h - first = n \/ h - first = n - N
    BY <1>t, <1>1 DEF Turn, Back
  <2>2. n \in 0 .. N - 1
    BY <1>1, SMTT(30)
  <2> QED
    BY <1>1, <2>1, <2>2
<1>6. \A i \in 1 .. n : (first + i - 1) % N = Turn(t + k + i - 1)
  <2>1. \A i \in 1 .. n : first + i - 1 \in 0 .. 2 * N - 1
    BY <1>1, <1>4
  <2>2. \A i \in 1 .. n : (first + i - 1) % N = IF first + i - 1 < N THEN first + i - 1
                                                ELSE first + i - 1 - N
    <3> HIDE DEF first, n
    <3>1. ASSUME NEW x \in 0 .. 2 * N - 1 PROVE x % N = IF x < N THEN x ELSE x - N
      BY <1>1, OneRound, Zenon
    <3> TAKE i \in 1 .. n
    <3>2. PICK x : x = first + i - 1
      OBVIOUS
    <3>3. x \in 0 .. 2 * N - 1
      BY <2>1, <3>2, Zenon
    <3>4. x % N = IF x < N THEN x ELSE x - N
      BY <3>1, <3>3
    <3> QED
      BY <1>1, <1>4, <3>2, <3>4
  <2> QED
    BY <1>t, <1>1, <2>2 DEF Turn
<1>7. Filled = [i \in 1 .. (h - first) % N |-> (first + i - 1) % N]
  BY <1>t, <1>2, <1>3 DEF Filled
<1> HIDE DEF first, n
<1>8. Filled = [i \in 1 .. n |-> Turn(t + k + i - 1)]
  BY <1>5, <1>6, <1>7
<1>9. Arriving = [i \in 1 .. n |-> rxDesc[Turn(t + k + i - 1)].pkt]
  BY <1>8 DEF Arriving
<1>10. InRing(rxDesc, t, h, k) = [i \in 1 .. n |-> rxDesc[Turn(t + k + i - 1)].pkt]
  BY <1>1 DEF InRing, n
<1> QED
  BY <1>t, <1>9, <1>10

\* This holds in every state, and so in the next one.
ArrivingInRing ==
  newRxTail \in RxRing /\ RDH \in RxRing /\ Skip <= Back(newRxTail, RDH)
    => Arriving = InRing(rxDesc, newRxTail, RDH, Skip)

\* The same after a step.
LEMMA ArrivingNext == ArrivingInRing'
<1>1. ArrivingInRing
  BY ArrivingIs DEF ArrivingInRing
<1> QED
  BY <1>1, PTL
-----------------------------------------------------------------------------
\* The packets the handler has copied: the one of the buffer in the reader's
\* hands, if there is one, and the queued ones.
Stored == LET entries == InHand \o Queue
          IN [i \in DOMAIN entries |-> packet[entries[i]]]

Held == IF reader.pc = "free" THEN 1 ELSE 0

\* The packets p of h buffers that are in hands, which is e, and of q in the queue.
Copied(p, e, h, q, qs) == [i \in 1 .. q + h |-> p[IF i <= h THEN e ELSE qs[i - h]]]

\* The buffer in hands comes before the queue.
LEMMA InFront ==
  ASSUME NEW q \in Nat, NEW qs, qs = [i \in 1 .. q |-> qs[i]], NEW e
  PROVE  /\ <<e>> \o qs = [i \in 1 .. q + 1 |-> IF i <= 1 THEN e ELSE qs[i - 1]]
         /\ <<>> \o qs = qs
<1> DEFINE S == {qs[i] : i \in 1 .. q} \cup {e}
<1>1. qs \in Seq({qs[i] : i \in 1 .. q}) /\ Len(qs) = q
  BY FunctionIsSeq
<1>2. qs \in Seq(S) /\ Len(qs) = q /\ <<e>> \in Seq(S) /\ <<>> \in Seq(S)
  BY <1>1
<1> HIDE DEF S
<1>3. <<e>> \o qs = [i \in 1 .. q + 1 |-> IF i <= 1 THEN e ELSE qs[i - 1]]
  BY <1>2
<1>4. <<>> \o qs = qs
  BY <1>2
<1> QED
  BY <1>3, <1>4

\* The stored packets in terms of the lists.
LEMMA StoredIs ==
  ASSUME NEW f, NEW fs, NEW q, NEW qs, Lists(f, fs, q, qs)
  PROVE  Stored = Copied(packet, reader.entry, Held, q, qs)
<1>1. q \in Nat /\ Queue = qs /\ qs = [i \in 1 .. q |-> qs[i]]
  <2>1. q \in Nat /\ Queue = qs
    BY ListsAreChains
  <2> QED
    BY <2>1 DEF Lists, IsChain
<1>e. PICK e : e = reader.entry
  OBVIOUS
<1>2. /\ <<e>> \o qs = [i \in 1 .. q + 1 |-> IF i <= 1 THEN e ELSE qs[i - 1]]
      /\ <<>> \o qs = qs
  BY <1>1, InFront
<1>3. CASE reader.pc = "free"
  <2>1. InHand \o Queue = [i \in 1 .. q + 1 |-> IF i <= 1 THEN e ELSE qs[i - 1]]
    BY <1>1, <1>e, <1>2, <1>3, SMTT(30) DEF InHand
  <2>2. Stored = [i \in 1 .. q + 1 |-> packet[IF i <= 1 THEN e ELSE qs[i - 1]]]
    BY <2>1, SMTT(30) DEF Stored
  <2> QED
    BY <1>3, <1>e, <2>2 DEF Copied, Held
<1>4. CASE reader.pc # "free"
  <2>1. InHand \o Queue = qs /\ DOMAIN qs = 1 .. q
    BY <1>1, <1>2, <1>4, SMTT(30) DEF InHand
  <2>2. Stored = [i \in 1 .. q |-> packet[qs[i]]]
    BY <2>1 DEF Stored
  <2>3. q + 0 = q /\ \A i \in 1 .. q : ~(i <= 0) /\ i - 0 = i
    BY <1>1
  <2>4. Held = 0
    BY <1>4 DEF Held
  <2>5. Copied(packet, e, 0, q, qs) = [i \in 1 .. q |-> packet[qs[i]]]
    BY <2>3 DEF Copied
  <2> QED
    BY <1>e, <2>2, <2>4, <2>5
<1> QED
  BY <1>3, <1>4, SMTT(30)

\* This holds in every state, and so in the next one.
StoredInLists ==
  \A f, fs, q, qs :
    Lists(f, fs, q, qs) => Stored = Copied(packet, reader.entry, Held, q, qs)

\* The same after a step.
LEMMA StoredNext == StoredInLists'
<1>1. StoredInLists
  BY StoredIs DEF StoredInLists
<1> QED
  BY <1>1, PTL

\* They are numbers.
LEMMA StoredType ==
  ASSUME NEW f, NEW fs, NEW q, NEW qs, Lists(f, fs, q, qs), \A e \in DOMAIN packet : packet[e] \in Int
  PROVE  IntSeq(q + Held, Stored)
<1>1. q \in Nat /\ Held \in {0, 1} /\ q + Held \in Nat
  BY ListsAreChains DEF Held
<1>2. ASSUME NEW i \in 1 .. q + Held
      PROVE  (IF i <= Held THEN reader.entry ELSE qs[i - Held]) \in DOMAIN packet
  <2>1. DOMAIN packet = DOMAIN next
    BY DEF Lists
  <2>2. CASE i <= Held
    <3>1. reader.pc = "free"
      BY <1>1, <2>2, SMTT(30) DEF Held
    <3>2. reader.entry \in DOMAIN next
      BY <3>1 DEF Lists, Hands
    <3> QED
      BY <2>1, <2>2, <3>2
  <2>3. CASE ~(i <= Held)
    <3>1. i - Held \in 1 .. q
      BY <1>1, <2>3, SMTT(30)
    <3>2. IsChain(next, receivedPacketsQueueStart, q, qs)
      BY DEF Lists
    <3>3. qs[i - Held] \in DOMAIN next
      BY <3>1, <3>2, Zenon DEF IsChain
    <3> QED
      BY <2>1, <2>3, <3>3
  <2> QED
    BY <2>2, <2>3, SMTT(30)
<1>a. PICK a : a = Stored
  OBVIOUS
<1>3. a = [i \in 1 .. q + Held |-> packet[IF i <= Held THEN reader.entry ELSE qs[i - Held]]]
  BY <1>a, StoredIs DEF Copied
<1>n. PICK n : n = q + Held
  OBVIOUS
<1>4. a \in [1 .. n -> Int]
  BY <1>n, <1>2, <1>3
<1>5. n \in Nat
  BY <1>1, <1>n
<1>6. a \in Seq(Int) /\ a = [i \in 1 .. n |-> a[i]]
  BY <1>4, <1>5
<1> QED
  BY <1>a, <1>n, <1>5, <1>6, Zenon DEF IntSeq

\* The reader has the first buffer in hands: nothing is stored or lost.
LEMMA RemoveStored ==
  ASSUME NEW f, NEW fs, NEW q, NEW qs, Lists(f, fs, q, qs), RxRecords, reader_remove
  PROVE  Stored' = Stored
<1>r. PICK r : r = [i \in 1 .. q - 1 |-> qs[i + 1]]
  BY Zenon
<1>1. q \in Nat \ {0} /\ reader.entry = qs[1] /\ Lists(f, fs, q - 1, r)'
  BY <1>r, RemoveLists
<1>2. packet' = packet /\ reader'.entry = reader.entry /\ Held = 0 /\ Held' = 1
  BY DEF reader_remove, RxRecords, Held
<1>3. Stored = Copied(packet, reader.entry, 0, q, qs)
  BY <1>2, StoredIs, Zenon
<1>4. Stored' = Copied(packet', reader'.entry, 1, q - 1, r)
  <2>1. Stored' = Copied(packet', reader'.entry, Held', q - 1, r)
    BY <1>1, StoredNext, Zenon DEF StoredInLists
  <2> QED
    BY <1>2, <2>1, Zenon
<1>5. Copied(packet, qs[1], 1, q - 1, r) = Copied(packet, qs[1], 0, q, qs)
  <2>1. q - 1 + 1 = q /\ q + 0 = q
    BY <1>1, SMTT(30)
  <2>2. \A i \in 1 .. q : (IF i <= 1 THEN qs[1] ELSE r[i - 1]) = (IF i <= 0 THEN qs[1] ELSE qs[i - 0])
    <3> TAKE i \in 1 .. q
    <3>1. CASE i = 1
      BY <3>1
    <3>2. CASE i # 1
      <4>1. i - 1 \in 1 .. q - 1 /\ ~(i <= 1) /\ ~(i <= 0) /\ i - 1 + 1 = i /\ i - 0 = i
        BY <1>1, <3>2, SMTT(30)
      <4> QED
        BY <1>r, <4>1
    <3> QED
      BY <3>1, <3>2, Zenon
  <2> QED
    BY <2>1, <2>2, SMTT(30) DEF Copied
<1> QED
  BY <1>1, <1>2, <1>3, <1>4, <1>5, Zenon

\* The reader copies the packet in its hands, the first of the stored ones.
LEMMA FreeStored ==
  ASSUME NEW f, NEW fs, NEW q, NEW qs, Lists(f, fs, q, qs), RxRecords, reader_free
  PROVE  Stored # <<>> /\ Head(Stored) = packet[reader.entry] /\ Stored' = Tail(Stored)
<1>1. PICK fs2 : Lists(f + 1, fs2, q, qs)'
  BY FreeLists, Zenon
<1>2. q \in Nat
  BY ListsAreChains
<1>3. packet' = packet /\ Held = 1 /\ Held' = 0
  BY DEF reader_free, RxRecords, Held
<1>a. PICK a : a = Stored
  BY SMTT(30)
<1>4. a = [i \in 1 .. q + 1 |-> packet[IF i <= 1 THEN reader.entry ELSE qs[i - 1]]]
  BY <1>a, <1>3, StoredIs, SMTT(30) DEF Copied
<1>5. Stored' = [i \in 1 .. q + 0 |-> packet[IF i <= 0 THEN reader'.entry ELSE qs[i - 0]]]
  <2>1. Stored' = Copied(packet', reader'.entry, Held', q, qs)
    BY <1>1, StoredNext DEF StoredInLists
  <2> QED
    BY <1>3, <2>1 DEF Copied
<1>n. PICK n : n = q + 1
  OBVIOUS
<1>6. n \in Nat \ {0} /\ n - 1 = q + 0
  BY <1>2, <1>n
<1>7. a = [i \in 1 .. n |-> a[i]]
  BY <1>4, <1>n
<1>8. a # <<>> /\ Head(a) = a[1] /\ Tail(a) = [i \in 1 .. n - 1 |-> a[i + 1]]
  BY <1>6, <1>7, TailOf, SMTT(30)
<1>9. a[1] = packet[reader.entry]
  <2>1. 1 \in 1 .. q + 1 /\ 1 <= 1
    BY <1>2
  <2> QED
    BY <1>4, <2>1
<1>10. \A i \in 1 .. q + 0 : a[i + 1] = packet[IF i <= 0 THEN reader'.entry ELSE qs[i - 0]]
  <2>1. \A i \in 1 .. q + 0 : /\ i + 1 \in 1 .. q + 1 /\ ~(i + 1 <= 1) /\ ~(i <= 0)
                              /\ i + 1 - 1 = i - 0
    BY <1>2, SMTT(30)
  <2> QED
    BY <1>4, <2>1
<1> QED
  BY <1>a, <1>5, <1>6, <1>8, <1>9, <1>10, SMTT(30)

\* The handler appends the packet of the first filled descriptor.
LEMMA EnqueueStored ==
  ASSUME NEW f, NEW fs, NEW q, NEW qs, Lists(f, fs, q, qs), Enqueue, reader' = reader,
         reader.pc \in {"idle", "lock"}
  PROVE  Stored' = Append(Stored, rxDesc[newRxTail].pkt)
<1>1. PICK f2, fs2, x :
        /\ Lists(f2, fs2, q + 1, [i \in 1 .. q + 1 |-> IF i = q + 1 THEN x ELSE qs[i]])'
        /\ x \notin Members(q, qs) /\ packet'[x] = rxDesc[newRxTail].pkt
        /\ \A y \in Members(q, qs) : packet'[y] = packet[y]
  BY EnqueueLists, Zenon
<1>2. q \in Nat /\ Held = 0 /\ Held' = 0
  BY ListsAreChains DEF Held
<1>r. PICK r : r = [i \in 1 .. q + 1 |-> IF i = q + 1 THEN x ELSE qs[i]]
  BY Zenon
<1>p. PICK p : p = rxDesc[newRxTail].pkt
  OBVIOUS
<1>a. PICK a : a = Stored
  OBVIOUS
<1>3. Lists(f2, fs2, q + 1, r)'
  BY <1>1, <1>r, Zenon
<1>4. a = [i \in 1 .. q |-> packet[qs[i]]]
  <2>1. a = [i \in 1 .. q + 0 |-> packet[IF i <= 0 THEN reader.entry ELSE qs[i - 0]]]
    BY <1>a, <1>2, StoredIs DEF Copied
  <2>2. q + 0 = q /\ \A i \in 1 .. q : ~(i <= 0) /\ i - 0 = i
    BY <1>2
  <2> QED
    BY <2>1, <2>2, SMTT(30)
<1>5. Stored' = [i \in 1 .. q + 1 |-> packet'[r[i]]]
  <2>1. Stored' = [i \in 1 .. q + 1 + 0 |-> packet'[IF i <= 0 THEN reader'.entry ELSE r[i - 0]]]
    BY <1>2, <1>3, StoredNext DEF Copied, StoredInLists
  <2>2. q + 1 + 0 = q + 1 /\ \A i \in 1 .. q + 1 : ~(i <= 0) /\ i - 0 = i
    BY <1>2
  <2> QED
    BY <2>1, <2>2, SMTT(30)
<1>6. Append(a, p) = [i \in 1 .. q + 1 |-> IF i = q + 1 THEN p ELSE a[i]]
  <2>1. a = [i \in 1 .. q |-> a[i]]
    BY <1>4, SMTT(30)
  <2> QED
    BY <1>2, <2>1, AppendTo, SMTT(30)
<1>7. \A i \in 1 .. q + 1 : packet'[r[i]] = IF i = q + 1 THEN p ELSE a[i]
  <2> TAKE i \in 1 .. q + 1
  <2>1. CASE i = q + 1
    BY <1>1, <1>r, <1>p, <2>1, Zenon
  <2>2. CASE i # q + 1
    <3>1. i \in 1 .. q
      BY <1>2, <2>2
    <3>2. qs[i] \in Members(q, qs)
      BY <3>1, SMTT(30) DEF Members
    <3> QED
      BY <1>1, <1>r, <1>4, <2>2, <3>1, <3>2, Zenon
  <2> QED
    BY <2>1, <2>2
<1> QED
  BY <1>a, <1>p, <1>5, <1>6, <1>7

\* Steps away from the queue leave the stored packets alone.
LEMMA QuietStored ==
  ASSUME UNCHANGED queueVars, reader' = reader \/ (reader.pc # "free" /\ reader'.pc # "free")
  PROVE  Stored' = Stored
<1>1. /\ next' = next /\ packet' = packet
      /\ receivedPacketsQueueStart' = receivedPacketsQueueStart
  BY DEF queueVars
<1>2. Queue' = Queue
  BY <1>1 DEF Queue, Chain
<1>3. InHand' = InHand
  BY DEF InHand
<1> QED
  BY <1>1, <1>2, <1>3 DEF Stored
-----------------------------------------------------------------------------
\* A packet that arrives is the last of all if it has no errors.
LEMMA FifoPut ==
  ASSUME NEW S, NEW a \in Seq(S), NEW s \in Seq(S), NEW x \in S
  PROVE  /\ x = BAD => a \o WithoutErrors(Append(s, x)) = a \o WithoutErrors(s)
         /\ x # BAD => a \o WithoutErrors(Append(s, x)) = Append(a \o WithoutErrors(s), x)
<1>1. WithoutErrors(Append(s, x)) = IF x = BAD THEN WithoutErrors(s) ELSE Append(WithoutErrors(s), x)
  BY WithoutErrorsAppend
<1>w. PICK w : w = WithoutErrors(s)
  OBVIOUS
<1>2. w \in Seq(S)
  BY <1>w, WithoutErrorsType
<1>3. Append(a \o w, x) = a \o Append(w, x)
  <2>1. ASSUME NEW p \in Seq(S), NEW u \in Seq(S), NEW v \in S
        PROVE  Append(p \o u, v) = p \o Append(u, v)
    OBVIOUS
  <2> QED
    BY <1>2, <2>1, Zenon
<1> QED
  BY <1>w, <1>1, <1>3, Zenon

\* Copying a packet changes nothing about what is under way.
LEMMA FifoMove ==
  ASSUME NEW S, NEW a \in Seq(S), NEW s \in Seq(S), s # <<>>
  PROVE  /\ s[1] = BAD => a \o WithoutErrors(Tail(s)) = a \o WithoutErrors(s)
         /\ s[1] # BAD => Append(a, s[1]) \o WithoutErrors(Tail(s)) = a \o WithoutErrors(s)
<1>1. Len(s) > 0 /\ s[1] \in S /\ Tail(s) \in Seq(S)
  OBVIOUS
<1>2. WithoutErrors(s) = IF s[1] = BAD THEN WithoutErrors(Tail(s))
                         ELSE <<s[1]>> \o WithoutErrors(Tail(s))
  BY <1>1, WithoutErrorsTail
<1>w. PICK w : w = WithoutErrors(Tail(s))
  OBVIOUS
<1>x. PICK x : x = s[1]
  OBVIOUS
<1>3. w \in Seq(S)
  BY <1>w, <1>1, WithoutErrorsType, Zenon
<1>4. Append(a, x) \o w = a \o (<<x>> \o w)
  <2>1. x \in S
    BY <1>x, <1>1
  <2> QED
    BY <1>3, <2>1, ConcatMove, ZenonT(40)
<1> QED
  BY <1>w, <1>x, <1>2, <1>4

\* The first of the stored packets is the first of all.
LEMMA FifoGet ==
  ASSUME NEW S, NEW a \in Seq(S), NEW b \in Seq(S), a # <<>>
  PROVE  a \o b # <<>> /\ Head(a \o b) = Head(a) /\ Tail(a \o b) = Tail(a) \o b
OBVIOUS
-----------------------------------------------------------------------------
\* What the invariant says of the packets under way.
LEMMA ReceiveFacts ==
  ASSUME ReceiveInv
  PROVE  /\ rxTail \in RxRing /\ newRxTail = Turn(rxTail + 1) /\ newRxTail \in RxRing
         /\ RDH \in RxRing /\ RxTypes(rxDesc) /\ Skip \in {0, 1}
         /\ Skip <= Back(newRxTail, RDH)
         /\ Arriving = InRing(rxDesc, newRxTail, RDH, Skip)
         /\ Arriving \in Seq(Int) /\ Stored \in Seq(Int)
         /\ Underway = Stored \o WithoutErrors(Arriving)
<1>1. rxTail \in RxRing /\ RDH \in RxRing /\ RxTypes(rxDesc)
  BY DEF ReceiveInv, BufferInv, DriverTypes, RxTypes
<1>2. newRxTail = Turn(rxTail + 1) /\ newRxTail \in RxRing
  BY <1>1, TurnOne DEF newRxTail
<1>3. Skip \in {0, 1} /\ Skip <= Back(newRxTail, RDH)
  BY DEF Skip, ReceiveInv
<1>4. Arriving = InRing(rxDesc, newRxTail, RDH, Skip)
  BY <1>1, <1>2, <1>3, ArrivingIs
<1>5. Arriving \in Seq(Int)
  <2>1. IntSeq(Back(newRxTail, RDH) - Skip, InRing(rxDesc, newRxTail, RDH, Skip))
    BY <1>1, <1>2, <1>3, InRingType, Zenon
  <2> QED
    BY <1>4, <2>1 DEF IntSeq
<1>6. Stored \in Seq(Int)
  <2>1. PICK f, fs, q, qs : Lists(f, fs, q, qs)
    BY DEF ReceiveInv, BufferInv
  <2>2. IntSeq(q + Held, Stored)
    BY <2>1, StoredType DEF ReceiveInv
  <2> QED
    BY <2>2 DEF IntSeq
<1>7. Underway = Stored \o WithoutErrors(Arriving)
  BY DEF Underway, Stored, Arriving
<1> QED
  BY <1>1, <1>2, <1>3, <1>4, <1>5, <1>6, <1>7

\* The packets under way after a step, from the ring and the lists after it.
LEMMA UnderwayNext ==
  ASSUME newRxTail' \in RxRing, RDH' \in RxRing, Skip' <= Back(newRxTail', RDH')
  PROVE  Underway' = Stored' \o WithoutErrors(InRing(rxDesc', newRxTail', RDH', Skip'))
<1>1. Arriving' = InRing(rxDesc', newRxTail', RDH', Skip')
  BY ArrivingNext DEF ArrivingInRing, Back, InRing, Turn
<1>2. Underway' = Stored' \o WithoutErrors(Arriving')
  BY DEF Underway, Stored, Arriving
<1> QED
  BY <1>1, <1>2, SMTT(30)

\* Steps that leave the ring and the stored packets alone.
LEMMA QuietReceive ==
  ASSUME ReceiveInv, BufferInv', UNCHANGED <<rxDesc, RDH, rxTail, packet, delivered>>,
         Stored' = Stored, Skip' = Skip, irq'.pc = "tail" => irq.pc = "tail"
  PROVE  ReceiveInv' /\ UNCHANGED <<Underway, delivered>>
<1>1. newRxTail' = newRxTail
  BY SMTT(30) DEF newRxTail
<1>2. ReceiveInv'
  BY <1>1, SMTT(30) DEF ReceiveInv, DoneBefore, Back
<1>3. Underway' = Stored' \o WithoutErrors(InRing(rxDesc', newRxTail', RDH', Skip'))
  BY <1>1, ReceiveFacts, UnderwayNext, SMTT(30)
<1>4. InRing(rxDesc', newRxTail', RDH', Skip') = Arriving
  BY <1>1, ReceiveFacts
<1>5. Underway = Stored \o WithoutErrors(Arriving)
  BY ReceiveFacts
<1>6. Underway' = Underway
  BY <1>3, <1>4, <1>5
<1> QED
  BY <1>2, <1>6

\* A packet arrives.
LEMMA DeviceReceiveStep ==
  ASSUME ReceiveInv, BufferInv', DeviceReceive
  PROVE  ReceiveInv' /\ [Received!Next]_<<Underway, delivered>>
<1>1. PICK x \in {arrived + 1, BAD} :
        rxDesc' = [rxDesc EXCEPT ![RDH] = [dd |-> TRUE, pkt |-> x]]
  BY Zenon DEF DeviceReceive
<1>2. /\ RDH # rxTail /\ RDH' = (RDH + 1) % RX_DESC_COUNT /\ rxTail' = rxTail
      /\ delivered' = delivered /\ irq' = irq /\ reader' = reader /\ UNCHANGED queueVars
      /\ packet' = packet
  BY Zenon DEF DeviceReceive, ReceiveInv, BufferInv, DriverTypes, queueVars
<1>3. x \in Int /\ (x # BAD => x \in 1 .. MaxReceived)
  <2>1. setup.received \in 0 .. MaxReceived /\ arrived \in 0 .. MaxReceived
        /\ arrived < setup.received
    BY NicConstants, Zenon DEF ReceiveInv, BufferInv, DriverTypes, DeviceReceive
  <2> QED
    BY <1>1, <2>1, NicConstants DEF BAD
<1>t. PICK t, h, k, d : t = newRxTail /\ h = RDH /\ k = Skip /\ d = rxDesc
  BY SMTT(30)
<1>4. /\ rxTail \in RxRing /\ t = Turn(rxTail + 1) /\ t \in RxRing /\ h \in RxRing /\ RxTypes(d)
      /\ k \in {0, 1} /\ k <= Back(t, h) /\ DoneBefore(d, t, h)
      /\ Arriving = InRing(d, t, h, k) /\ Arriving \in Seq(Int) /\ Stored \in Seq(Int)
      /\ Underway = Stored \o WithoutErrors(Arriving)
  BY <1>t, ReceiveFacts, SMTT(30) DEF ReceiveInv
<1>5. newRxTail' = t /\ RDH' = Turn(h + 1) /\ Turn(h + 1) \in RxRing /\ Skip' = k
      /\ Stored' = Stored
  BY <1>t, <1>2, <1>4, TurnOne, QuietStored, SMTT(30) DEF newRxTail, Skip
<1>e. PICK e : e = [d EXCEPT ![h] = [dd |-> TRUE, pkt |-> x]]
  BY Zenon
<1>6. /\ Back(t, Turn(h + 1)) = Back(t, h) + 1
      /\ DoneBefore(e, t, Turn(h + 1))
      /\ InRing(e, t, Turn(h + 1), k) = Append(Arriving, x)
  <2>1. h # rxTail
    BY <1>t, <1>2, SMTT(30)
  <2>2. Ring(d, t, h, k)
    BY <1>4, SMTT(30) DEF Ring
  <2>3. FilledAt(d, e, h, x)
    BY <1>e, <1>4, SMTT(30) DEF FilledAt, RxTypes
  <2>4. InRing(d, t, h, k) = Arriving /\ t = Turn(rxTail + 1) /\ rxTail \in RxRing
    BY <1>4
  <2> QED
    BY <2>1, <2>2, <2>3, <2>4, RingPut, SMTT(30)
<1>7. k <= Back(t, h) + 1
  BY <1>4, BackType, SMTT(30)
<1>8. irq.pc = "tail" => ~e[t].dd
  <2>1. irq.pc = "tail" => k = 1 /\ ~d[t].dd
    BY <1>t DEF Skip, ReceiveInv
  <2>2. k = 1 => h # t
    BY <1>4, BackType, SMTT(30)
  <2> QED
    BY <1>e, <1>4, <2>1, <2>2, SMTT(30) DEF RxTypes
<1>9. rxDesc' = e
  BY <1>t, <1>e, <1>1, SMTT(30)
<1>10. ReceiveInv'
  <2>1. DoneBefore(rxDesc', newRxTail', RDH') /\ Skip' <= Back(newRxTail', RDH')
    BY <1>5, <1>6, <1>7, <1>9, SMTT(30)
  <2>2. (\A y \in DOMAIN packet' : packet'[y] \in Int) /\ (irq'.pc = "tail" => ~rxDesc'[newRxTail'].dd)
    BY <1>2, <1>5, <1>8, <1>9 DEF ReceiveInv
  <2> QED
    BY <2>1, <2>2, SMTT(30) DEF ReceiveInv, DoneBefore, Back
<1>11. Underway' = Stored \o WithoutErrors(Append(Arriving, x))
  <2>1. newRxTail' \in RxRing /\ RDH' \in RxRing /\ Skip' <= Back(newRxTail', RDH')
    BY <1>4, <1>5, <1>6, <1>7, SMTT(30)
  <2>2. Underway' = Stored' \o WithoutErrors(InRing(rxDesc', newRxTail', RDH', Skip'))
    BY <2>1, UnderwayNext
  <2> QED
    BY <1>5, <1>6, <1>9, <2>2, ZenonT(40)
<1>12. Underway' = IF x = BAD THEN Underway ELSE Append(Underway, x)
  <2>a. PICK a, s : a = Stored /\ s = Arriving
    BY SMTT(30)
  <2>1. a \in Seq(Int) /\ s \in Seq(Int) /\ x \in Int
    BY <2>a, <1>3, <1>4
  <2>2. /\ x = BAD => a \o WithoutErrors(Append(s, x)) = a \o WithoutErrors(s)
        /\ x # BAD => a \o WithoutErrors(Append(s, x)) = Append(a \o WithoutErrors(s), x)
    BY <2>1, FifoPut, ZenonT(40)
  <2> QED
    BY <1>4, <1>11, <2>a, <2>2, Zenon
<1>13. [Received!Next]_<<Underway, delivered>>
  <2>1. CASE x = BAD
    BY <1>2, <1>12, <2>1, SMTT(30)
  <2>2. CASE x # BAD
    BY <1>2, <1>3, <1>12, <2>2, SMTT(30) DEF Received!Next, Received!Put
  <2> QED
    BY <2>1, <2>2
<1> QED
  BY <1>10, <1>13

\* The handler copies the packet after the tail, or drops it if it has errors.
LEMMA CopyStep ==
  ASSUME ReceiveInv, BufferInv', receive_copy
  PROVE  ReceiveInv' /\ UNCHANGED <<Underway, delivered>>
<1>1. /\ irq.pc = "loop" /\ UNCHANGED <<rxDesc, RDH, rxTail, reader, delivered>>
      /\ irq = [pc |-> irq.pc, p |-> irq.p]
  BY DEF receive_copy, ReceiveInv, BufferInv, RxInv, RxRecords
<1>2. CASE ~(irq.p < RX_DESC_COUNT /\ rxDesc[newRxTail].dd)
  <2>1. UNCHANGED queueVars /\ irq'.pc = "unlock"
    BY <1>1, <1>2 DEF receive_copy
  <2>2. Stored' = Stored /\ packet' = packet
    BY <1>1, <2>1, QuietStored, SMTT(30) DEF queueVars
  <2>3. Skip' = Skip
    BY <1>1, <2>1 DEF Skip
  <2> QED
    BY <1>1, <2>1, <2>2, <2>3, QuietReceive
<1>3. CASE irq.p < RX_DESC_COUNT /\ rxDesc[newRxTail].dd
  <2>t. PICK t, h, d, s, a : t = newRxTail /\ h = RDH /\ d = rxDesc /\ s = Arriving /\ a = Stored
    OBVIOUS
  <2>1. irq'.pc = "status" /\ Skip = 0 /\ Skip' = 1
    BY <1>1, <1>3, SMTT(30) DEF receive_copy, Skip
  <2>2. /\ RxTypes(d) /\ t \in RxRing /\ h \in RxRing /\ DoneBefore(d, t, h)
        /\ s = InRing(d, t, h, 0) /\ s \in Seq(Int) /\ a \in Seq(Int)
        /\ Underway = a \o WithoutErrors(s)
    BY <2>t, <2>1, ReceiveFacts DEF ReceiveInv
  <2>3. h # t
    <3>1. Back(t, t) < Back(t, h) /\ Back(t, t) \in Nat
      BY <1>3, <2>t, <2>2, BackType, SMTT(30) DEF DoneBefore
    <3> QED
      BY <3>1, SMTT(30)
  <2>4. /\ 1 <= Back(t, h) /\ s # <<>> /\ s[1] = d[t].pkt /\ InRing(d, t, h, 1) = Tail(s)
    BY <2>2, <2>3, RingTake, SMTT(30)
  <2>5. newRxTail' = t /\ RDH' = h /\ rxDesc' = d
    BY <1>1, <2>t DEF newRxTail
  <2>6. Underway' = Stored' \o WithoutErrors(Tail(s))
    <3>1. newRxTail' \in RxRing /\ RDH' \in RxRing /\ Skip' <= Back(newRxTail', RDH')
      BY <2>1, <2>2, <2>4, <2>5
    <3>2. Underway' = Stored' \o WithoutErrors(InRing(rxDesc', newRxTail', RDH', Skip'))
      BY <3>1, UnderwayNext
    <3> QED
      BY <2>1, <2>4, <2>5, <3>2, Zenon
  <2>7. /\ s[1] = BAD => a \o WithoutErrors(Tail(s)) = a \o WithoutErrors(s)
        /\ s[1] # BAD => Append(a, s[1]) \o WithoutErrors(Tail(s)) = a \o WithoutErrors(s)
    BY <2>2, <2>4, FifoMove, ZenonT(40)
  <2>8. ASSUME \A y \in DOMAIN packet' : packet'[y] \in Int PROVE ReceiveInv'
    <3>1. DoneBefore(rxDesc', newRxTail', RDH') /\ Skip' <= Back(newRxTail', RDH')
      BY <2>1, <2>2, <2>4, <2>5, SMTT(30)
    <3>2. irq'.pc # "tail"
      BY <2>1
    <3> QED
      BY <2>8, <3>1, <3>2, SMTT(30) DEF ReceiveInv, DoneBefore, Back
  <2>9. CASE rxDesc[newRxTail].pkt = BAD
    <3>1. UNCHANGED queueVars
      BY <1>3, <2>9, SMTT(30) DEF receive_copy
    <3>2. Stored' = Stored /\ packet' = packet
      BY <1>1, <3>1, QuietStored, SMTT(30) DEF queueVars
    <3>3. ReceiveInv'
      BY <2>8, <3>2, SMTT(30) DEF ReceiveInv
    <3>4. Underway' = Underway
      BY <2>t, <2>2, <2>4, <2>6, <2>7, <2>9, <3>2, SMTT(30)
    <3> QED
      BY <1>1, <3>3, <3>4
  <2>10. CASE rxDesc[newRxTail].pkt # BAD
    <3>1. Enqueue
      BY <1>3, <2>10 DEF receive_copy
    <3>2. PICK f, fs, q, qs : Lists(f, fs, q, qs)
      BY SMTT(30) DEF ReceiveInv, BufferInv
    <3>3. reader.pc \in {"idle", "lock"}
      BY <1>1, HandlerAlone, SMTT(30) DEF ReceiveInv, BufferInv
    <3>4. Stored' = Append(Stored, rxDesc[newRxTail].pkt)
      BY <1>1, <3>1, <3>2, <3>3, EnqueueStored, SMTT(30)
    <3>5. \A y \in DOMAIN packet' : packet'[y] \in Int
      <4>1. packet' = Put(packet, NewEntry, rxDesc[newRxTail].pkt)
        BY <3>1 DEF Enqueue
      <4>2. rxDesc[newRxTail].pkt \in Int
        <5>1. rxDesc[newRxTail].pkt \in BAD .. MaxReceived
          BY <2>t, <2>2 DEF RxTypes
        <5> QED
          BY <5>1, NicConstants DEF BAD
      <4> QED
        BY <4>1, <4>2, SMTT(30) DEF Put, ReceiveInv
    <3>6. ReceiveInv'
      BY <2>8, <3>5
    <3>7. Underway' = Underway
      BY <2>t, <2>2, <2>4, <2>6, <2>7, <2>10, <3>4, Zenon
    <3> QED
      BY <1>1, <3>6, <3>7
  <2> QED
    BY <2>9, <2>10
<1> QED
  BY <1>2, <1>3

\* The handler resets the status of the descriptor it has copied.
LEMMA StatusStep ==
  ASSUME ReceiveInv, BufferInv', receive_status
  PROVE  ReceiveInv' /\ UNCHANGED <<Underway, delivered>>
<1>t. PICK t, h, d : t = newRxTail /\ h = RDH /\ d = rxDesc
  OBVIOUS
<1>1. /\ UNCHANGED <<RDH, rxTail, queueVars, packet, reader, delivered>>
      /\ rxDesc' = [d EXCEPT ![t].dd = FALSE] /\ irq'.pc = "tail" /\ Skip = 1 /\ Skip' = 1
      /\ newRxTail' = t /\ RDH' = h
  BY <1>t DEF receive_status, ReceiveInv, BufferInv, RxInv, RxRecords, Skip, newRxTail, queueVars
<1>2. /\ RxTypes(d) /\ t \in RxRing /\ h \in RxRing /\ DoneBefore(d, t, h) /\ 1 <= Back(t, h)
      /\ Arriving = InRing(d, t, h, 1) /\ Underway = Stored \o WithoutErrors(Arriving)
  BY <1>t, <1>1, ReceiveFacts DEF ReceiveInv
<1>3. /\ \A i \in RxRing : rxDesc'[i].pkt = d[i].pkt /\ (rxDesc'[i].dd => d[i].dd)
      /\ ~rxDesc'[t].dd
  BY <1>1, <1>2 DEF RxTypes
<1>4. DoneBefore(rxDesc', t, h)
  BY <1>2, <1>3, Zenon DEF DoneBefore
<1>5. ReceiveInv'
  <2>1. DoneBefore(rxDesc', newRxTail', RDH') /\ Skip' <= Back(newRxTail', RDH')
    BY <1>1, <1>2, <1>4
  <2>2. (\A y \in DOMAIN packet' : packet'[y] \in Int) /\ ~rxDesc'[newRxTail'].dd
    BY <1>1, <1>3, SMTT(30) DEF ReceiveInv
  <2> QED
    BY <2>1, <2>2 DEF ReceiveInv, DoneBefore, Back
<1>6. InRing(rxDesc', t, h, 1) = InRing(d, t, h, 1)
  <2>b. PICK b : b = Back(t, h)
    OBVIOUS
  <2>1. b \in Nat /\ b < RX_DESC_COUNT /\ RX_DESC_COUNT \in Nat /\ t \in Nat
    <3>1. b \in Nat /\ b < RX_DESC_COUNT
      BY <1>2, <2>b, BackType
    <3> QED
      BY <1>2, <3>1, NicConstants, SMTT(30) DEF RxRing
  <2>2. \A i \in 1 .. b - 1 : i \in Nat /\ i < RX_DESC_COUNT /\ t + i = t + 1 + i - 1
    BY <2>1
  <2>3. \A i \in 1 .. b - 1 : Turn(t + 1 + i - 1) \in RxRing
    <3> TAKE i \in 1 .. b - 1
    <3>1. Turn(t + i) \in RxRing
      BY <1>2, <2>2, TurnType
    <3> QED
      BY <2>2, <3>1
  <2> QED
    BY <1>3, <2>b, <2>3 DEF InRing
<1>7. Stored' = Stored
  BY <1>1, QuietStored
<1>8. Underway' = Stored' \o WithoutErrors(InRing(rxDesc', t, h, 1))
  <2>1. newRxTail' \in RxRing /\ RDH' \in RxRing /\ Skip' <= Back(newRxTail', RDH')
    BY <1>1, <1>2
  <2>2. Underway' = Stored' \o WithoutErrors(InRing(rxDesc', newRxTail', RDH', Skip'))
    BY <2>1, UnderwayNext
  <2> QED
    BY <1>1, <2>2
<1> QED
  BY <1>1, <1>2, <1>5, <1>6, <1>7, <1>8, Zenon

\* The handler gives the descriptor back to the device.
LEMMA TailStep ==
  ASSUME ReceiveInv, BufferInv', receive_tail
  PROVE  ReceiveInv' /\ UNCHANGED <<Underway, delivered>>
<1>t. PICK t, h, d : t = newRxTail /\ h = RDH /\ d = rxDesc
  OBVIOUS
<1>1. /\ UNCHANGED <<RDH, queueVars, packet, reader, delivered>> /\ rxDesc' = d
      /\ irq.pc = "tail" /\ irq'.pc = "loop" /\ Skip = 1 /\ Skip' = 0 /\ RDH' = h /\ rxTail' = t
  BY <1>t, SMTT(30) DEF receive_tail, Skip, queueVars
<1>2. /\ RxTypes(d) /\ t \in RxRing /\ h \in RxRing /\ DoneBefore(d, t, h) /\ 1 <= Back(t, h)
      /\ ~d[t].dd
      /\ Arriving = InRing(d, t, h, 1) /\ Underway = Stored \o WithoutErrors(Arriving)
  BY <1>t, <1>1, ReceiveFacts DEF ReceiveInv
<1>g. PICK g : g = Turn(t + 1)
  OBVIOUS
<1>3. newRxTail' = g /\ g \in RxRing
  BY <1>g, <1>1, <1>2, TurnOne, SMTT(30) DEF newRxTail
<1>4. 0 <= Back(g, h) /\ DoneBefore(d, g, h) /\ InRing(d, g, h, 0) = InRing(d, t, h, 1)
  BY <1>g, <1>2, RingTurn, SMTT(30)
<1>5. ReceiveInv'
  <2>1. DoneBefore(rxDesc', newRxTail', RDH') /\ Skip' <= Back(newRxTail', RDH')
    BY <1>1, <1>3, <1>4, SMTT(30)
  <2>2. (\A y \in DOMAIN packet' : packet'[y] \in Int) /\ irq'.pc # "tail"
    BY <1>1 DEF ReceiveInv
  <2> QED
    BY <2>1, <2>2, SMTT(30) DEF ReceiveInv, DoneBefore, Back
<1>6. Stored' = Stored
  BY <1>1, QuietStored
<1>7. Underway' = Stored' \o WithoutErrors(InRing(d, g, h, 0))
  <2>1. newRxTail' \in RxRing /\ RDH' \in RxRing /\ Skip' <= Back(newRxTail', RDH')
    BY <1>1, <1>2, <1>3, <1>4, SMTT(30)
  <2>2. Underway' = Stored' \o WithoutErrors(InRing(rxDesc', newRxTail', RDH', Skip'))
    BY <2>1, UnderwayNext
  <2> QED
    BY <1>1, <1>3, <2>2, SMTT(30)
<1> QED
  BY <1>1, <1>2, <1>4, <1>5, <1>6, <1>7, ZenonT(40)

\* The reader copies a packet out.
LEMMA FreeStep ==
  ASSUME ReceiveInv, BufferInv', reader_free
  PROVE  ReceiveInv' /\ Received!Get
<1>1. /\ UNCHANGED <<rxDesc, RDH, rxTail, packet, irq>>
      /\ delivered' = Append(delivered, packet[reader.entry])
  BY DEF reader_free
<1>2. PICK f, fs, q, qs : Lists(f, fs, q, qs)
  BY DEF ReceiveInv, BufferInv
<1>a. PICK a, b : a = Stored /\ b = WithoutErrors(Arriving)
  OBVIOUS
<1>3. a # <<>> /\ Head(a) = packet[reader.entry] /\ Stored' = Tail(a)
  BY <1>a, <1>2, FreeStored, Zenon DEF ReceiveInv, BufferInv, RxInv
<1>4. newRxTail' = newRxTail /\ Skip' = Skip
  BY <1>1, SMTT(30) DEF newRxTail, Skip
<1>5. ReceiveInv'
  BY <1>1, <1>4, SMTT(30) DEF ReceiveInv, DoneBefore, Back
<1>6. Underway' = Tail(a) \o b
  <2>1. newRxTail' \in RxRing /\ RDH' \in RxRing /\ Skip' <= Back(newRxTail', RDH')
    BY <1>1, <1>4, ReceiveFacts, SMTT(30)
  <2>2. Underway' = Stored' \o WithoutErrors(InRing(rxDesc', newRxTail', RDH', Skip'))
    BY <2>1, UnderwayNext
  <2>3. InRing(rxDesc', newRxTail', RDH', Skip') = Arriving
    BY <1>1, <1>4, ReceiveFacts
  <2> QED
    BY <1>a, <1>3, <2>2, <2>3, SMTT(30)
<1>7. a \in Seq(Int) /\ b \in Seq(Int) /\ Underway = a \o b
  <2>1. a \in Seq(Int) /\ Arriving \in Seq(Int) /\ Underway = a \o b
    BY <1>a, ReceiveFacts, SMTT(30)
  <2>2. b \in Seq(Int)
    BY <1>a, <2>1, WithoutErrorsType, Zenon
  <2> QED
    BY <2>1, <2>2
<1>8. a \o b # <<>> /\ Head(a \o b) = Head(a) /\ Tail(a \o b) = Tail(a) \o b
  BY <1>3, <1>7, FifoGet, Zenon
<1> QED
  BY <1>1, <1>3, <1>5, <1>6, <1>7, <1>8, SMTT(30) DEF Received!Get

\* Every step delivers the first packet, adds one at the end, or changes nothing
\* about what is under way.
LEMMA NextReceive ==
  ASSUME ReceiveInv, BufferInv', [Next]_vars
  PROVE  ReceiveInv' /\ [Received!Next]_<<Underway, delivered>>
<1> DEFINE Kept == ReceiveInv' /\ UNCHANGED <<Underway, delivered>>
           Step == ReceiveInv' /\ [Received!Next]_<<Underway, delivered>>
<1>1. Kept => Step
  OBVIOUS
<1>2. RxRecords
  BY DEF ReceiveInv, BufferInv, RxInv
<1>3. CASE /\ UNCHANGED <<rxDesc, RDH, rxTail, queueVars, reader, delivered>>
           /\ irq' = irq \/ (irq.pc \notin {"status", "tail"} /\ irq'.pc \notin {"status", "tail"})
  <2>1. packet' = packet /\ Stored' = Stored
    BY <1>3, QuietStored DEF queueVars
  <2>2. Skip' = Skip /\ (irq'.pc = "tail" => irq.pc = "tail")
    BY <1>3 DEF Skip
  <2>3. Kept
    BY <1>3, <2>1, <2>2, QuietReceive, SMTT(30)
  <2> QED
    BY <1>1, <2>3
<1>4. CASE /\ UNCHANGED <<rxDesc, RDH, rxTail, queueVars, irq, delivered>>
           /\ reader.pc # "free" /\ reader'.pc # "free"
  <2>1. packet' = packet /\ Stored' = Stored
    BY <1>4, QuietStored DEF queueVars
  <2>2. Skip' = Skip /\ (irq'.pc = "tail" => irq.pc = "tail")
    BY <1>4 DEF Skip
  <2>3. Kept
    BY <1>4, <2>1, <2>2, QuietReceive, SMTT(30)
  <2> QED
    BY <1>1, <2>3
<1>5. CASE DeviceReceive
  BY <1>5, DeviceReceiveStep
<1>6. CASE receive_copy
  BY <1>1, <1>6, CopyStep, SMTT(30)
<1>7. CASE receive_status
  BY <1>1, <1>7, StatusStep, SMTT(30)
<1>8. CASE receive_tail
  BY <1>1, <1>8, TailStep
<1>9. CASE reader_remove
  <2>1. PICK f, fs, q, qs : Lists(f, fs, q, qs)
    BY DEF ReceiveInv, BufferInv
  <2>2. Stored' = Stored
    BY <1>2, <1>9, <2>1, RemoveStored, SMTT(30)
  <2>3. UNCHANGED <<rxDesc, RDH, rxTail, packet, delivered, irq>>
    BY <1>9 DEF reader_remove
  <2>4. Skip' = Skip /\ (irq'.pc = "tail" => irq.pc = "tail")
    BY <2>3 DEF Skip
  <2>5. Kept
    BY <2>2, <2>3, <2>4, QuietReceive, SMTT(30)
  <2> QED
    BY <1>1, <2>5
<1>10. CASE reader_free
  BY <1>10, FreeStep, SMTT(30) DEF Received!Next
<1>11. CASE handle_interrupt \/ receive_lock \/ receive_unlock
  <2>1. UNCHANGED <<rxDesc, RDH, rxTail, queueVars, reader, delivered>>
    BY <1>11 DEF handle_interrupt, receive_lock, receive_unlock
  <2>2. irq' = irq \/ (irq.pc \notin {"status", "tail"} /\ irq'.pc \notin {"status", "tail"})
    BY <1>2, <1>11 DEF handle_interrupt, receive_lock, receive_unlock, RxRecords
  <2> QED
    BY <1>3, <2>1, <2>2
<1>12. CASE reader_lock \/ reader_read \/ reader_unlock
            \/ \E cpu \in {0, 1} : next_received_packet(cpu)
  <2>1. UNCHANGED <<rxDesc, RDH, rxTail, queueVars, irq, delivered>>
    BY <1>12 DEF reader_lock, reader_read, reader_unlock, next_received_packet
  <2>2. reader.pc # "free" /\ reader'.pc # "free"
    BY <1>2, <1>12, Zenon DEF reader_lock, reader_read, reader_unlock, next_received_packet, RxRecords
  <2> QED
    BY <1>4, <2>1, <2>2
<1>13. CASE DeviceOverrun \/ DeviceTransmit \/ (\E s \in Senders : Send(s)) \/ UNCHANGED vars
  <2>1. UNCHANGED <<rxDesc, RDH, rxTail, queueVars, irq, reader, delivered>>
    BY <1>13, Zenon DEF DeviceOverrun, DeviceTransmit, Send, send, send_fill, send_tail, vars, rxVars
  <2> QED
    BY <1>3, <2>1
<1> QED
  BY <1>5, <1>6, <1>7, <1>8, <1>9, <1>10, <1>11, <1>12, <1>13, SMTT(30) DEF Next, Device, Irq, Reader

\* An empty ring and an empty queue.
LEMMA InitReceive == Init => ReceiveInv /\ Received!Init
<1> SUFFICES ASSUME Init PROVE ReceiveInv /\ Underway = <<>> /\ delivered = <<>>
  BY DEF Received!Init
<1>1. BufferInv
  BY InitRx, InitDriver, InitLists DEF BufferInv
<1>2. newRxTail = 0 /\ RDH = 0 /\ Skip = 0 /\ Back(0, 0) = 0 /\ delivered = <<>>
  <2>0. rxTail = RX_DESC_COUNT - 1 /\ RDH = 0 /\ delivered = <<>> /\ irq.pc = "idle"
    BY Zenon DEF Init
  <2>1. rxTail = RX_DESC_COUNT - 1 /\ rxTail \in RxRing
    BY <2>0, NicConstants DEF RxRing
  <2>2. newRxTail = Turn(rxTail + 1)
    BY <2>1, TurnOne DEF newRxTail
  <2>3. Turn(rxTail + 1) = 0
    BY <2>1, NicConstants DEF Turn
  <2> QED
    BY <2>0, <2>2, <2>3 DEF Skip, Back
<1>3. ReceiveInv
  <2>1. \A i \in RxRing : ~rxDesc[i].dd
    BY Zenon DEF Init
  <2>2. \A e \in DOMAIN packet : packet[e] \in Int
    <3>1. packet = [e \in 1 .. RX_DESC_COUNT |-> NONE]
      BY Zenon DEF Init
    <3> QED
      BY <3>1 DEF NONE
  <2>3. irq.pc # "tail"
    BY Zenon DEF Init
  <2> QED
    BY <1>1, <1>2, <2>1, <2>2, <2>3, SMTT(30) DEF ReceiveInv, DoneBefore
<1>4. Arriving = <<>>
  <2>1. Arriving = InRing(rxDesc, 0, 0, 0)
    BY <1>2, <1>3, ReceiveFacts
  <2>2. 1 .. 0 - 0 = {}
    OBVIOUS
  <2> QED
    BY <1>2, <2>1, <2>2, SMTT(30) DEF InRing
<1>5. Stored = <<>>
  <2>1. PICK f, fs, q, qs : Lists(f, fs, q, qs)
    BY <1>1 DEF BufferInv
  <2>2. q \in Nat /\ IsChain(next, receivedPacketsQueueStart, q, qs) /\ Held = 0
    BY <2>1, ListsAreChains, Zenon DEF Lists, Held, Init
  <2>3. q = 0
    <3> SUFFICES ASSUME q # 0 PROVE FALSE
      OBVIOUS
    <3>1. 1 \in 1 .. q
      BY <2>2
    <3>2. qs[1] \in DOMAIN next /\ receivedPacketsQueueStart = qs[1]
      BY <2>2, <3>1, Zenon DEF IsChain
    <3>3. receivedPacketsQueueStart = NONE /\ next = [e \in 1 .. RX_DESC_COUNT |-> e - 1]
      BY Zenon DEF Init
    <3> QED
      BY <3>2, <3>3, NicConstants DEF NONE
  <2>4. Stored = Copied(packet, reader.entry, 0, 0, qs)
    BY <2>1, <2>2, <2>3, StoredIs
  <2>5. 1 .. 0 + 0 = {}
    OBVIOUS
  <2> QED
    BY <2>4, <2>5 DEF Copied
<1>6. WithoutErrors(<<>>) = <<>>
  <2>1. Len(<<>>) = 0
    OBVIOUS
  <2>2. PICK s : s = <<>>
    OBVIOUS
  <2>3. PICK f : Filters(s, Len(s), f) /\ WithoutErrors(s) = f[Len(s)]
    <3>1. Len(s) \in Nat
      BY <2>1, <2>2
    <3> QED
      BY <3>1, WithoutErrorsIs
  <2> QED
    BY <2>1, <2>2, <2>3 DEF Filters
<1>7. Underway = Stored \o WithoutErrors(Arriving)
  BY <1>3, ReceiveFacts
<1>8. Underway = <<>>
  BY <1>4, <1>5, <1>6, <1>7
<1> QED
  BY <1>2, <1>3, <1>8

\* In the receiving direction every driver is a lossless FIFO, for a ring of any
\* size and any traffic, whatever the device, the interrupt handler and the
\* reader do in between: the packets without errors come out of
\* next_received_packet once each, in the order in which they arrived.
THEOREM ReceivingIsFifo ==
  ASSUME ReaderBound PROVE Spec => RxImplementsFifo
<1>1. ReceiveInv /\ [Next]_vars => ReceiveInv' /\ [Received!Next]_<<Underway, delivered>>
  BY NextBuffers, NextReceive DEF ReceiveInv
<1> QED
  BY <1>1, InitReceive, PTL DEF Spec, RxImplementsFifo, Received!Spec
=============================================================================
