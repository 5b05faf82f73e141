-------------------------- MODULE OperatorLinkProofs --------------------------
(***************************************************************************)
(* Proofs for OperatorLink, for any rings and any frames: what is accepted  *)
(* for sending is waiting, given up or sent, once and in its order, however *)
(* the thread and the interrupts share the ring of slots.                   *)
(***************************************************************************)
EXTENDS OperatorLink, FiniteSetTheorems, SequenceTheorems, TLAPS

-----------------------------------------------------------------------------
(* The ring of slots.                                                        *)

\* The slot n places after t, and how many places h is after t.
At(t, n) == (t + n) % Depth

Between(t, h) == (h - t + Depth) % Depth

LEMMA AtValue ==
    ASSUME NEW t \in Slots, NEW n \in 0..Depth
    PROVE  At(t, n) = IF t + n < Depth THEN t + n ELSE t + n - Depth
  BY LinkAssumption DEF At, Slots

LEMMA BetweenValue ==
    ASSUME NEW t \in Slots, NEW h \in Slots
    PROVE  Between(t, h) = IF h >= t THEN h - t ELSE h - t + Depth
  BY LinkAssumption DEF Between, Slots

LEMMA RingFacts ==
    /\ \A t \in Slots, n \in 0..Depth : At(t, n) \in Slots
    /\ \A t \in Slots, n \in 0..Depth - 1 : Between(t, At(t, n)) = n
    /\ \A t \in Slots, h \in Slots : Between(t, h) \in 0..Depth - 1 /\ At(t, Between(t, h)) = h
    /\ \A t \in Slots, n, m \in 0..Depth - 1 : At(t, n) = At(t, m) => n = m
    /\ \A t \in Slots, n, m \in 0..Depth : n + m <= Depth => At(At(t, n), m) = At(t, n + m)
  <1>1. Depth \in Nat /\ Depth >= 2
    BY LinkAssumption
  <1>2. ASSUME NEW t \in Slots, NEW n \in 0..Depth
        PROVE  At(t, n) \in Slots
    <2>1. At(t, n) = IF t + n < Depth THEN t + n ELSE t + n - Depth
      BY AtValue
    <2> QED
      BY <1>1, <2>1 DEF Slots
  <1>3. ASSUME NEW t \in Slots, NEW n \in 0..Depth - 1
        PROVE  Between(t, At(t, n)) = n
    <2>1. n \in 0..Depth
      BY <1>1
    <2>2. PICK h \in Slots : h = At(t, n)
      BY <1>2, <2>1
    <2>3. h = IF t + n < Depth THEN t + n ELSE t + n - Depth
      BY <2>1, <2>2, AtValue
    <2>4. Between(t, h) = IF h >= t THEN h - t ELSE h - t + Depth
      BY BetweenValue
    <2>5. Between(t, h) = n
      BY <1>1, <2>3, <2>4 DEF Slots
    <2> QED
      BY <2>2, <2>5
  <1>4. ASSUME NEW t \in Slots, NEW h \in Slots
        PROVE  Between(t, h) \in 0..Depth - 1 /\ At(t, Between(t, h)) = h
    <2>1. Between(t, h) = IF h >= t THEN h - t ELSE h - t + Depth
      BY BetweenValue
    <2>2. PICK n \in 0..Depth - 1 : n = Between(t, h)
      BY <1>1, <2>1 DEF Slots
    <2>3. n \in 0..Depth
      BY <1>1
    <2>4. At(t, n) = IF t + n < Depth THEN t + n ELSE t + n - Depth
      BY <2>3, AtValue
    <2>5. At(t, n) = h
      BY <1>1, <2>1, <2>2, <2>4 DEF Slots
    <2> QED
      BY <2>2, <2>5
  <1>5. ASSUME NEW t \in Slots, NEW n \in 0..Depth - 1, NEW m \in 0..Depth - 1, At(t, n) = At(t, m)
        PROVE  n = m
    <2>1. Between(t, At(t, n)) = n /\ Between(t, At(t, m)) = m
      BY <1>3
    <2> QED
      BY <1>5, <2>1
  <1>6. ASSUME NEW t \in Slots, NEW n \in 0..Depth, NEW m \in 0..Depth, n + m <= Depth
        PROVE  At(At(t, n), m) = At(t, n + m)
    <2>1. PICK h \in Slots : h = At(t, n)
      BY <1>2
    <2>2. h = IF t + n < Depth THEN t + n ELSE t + n - Depth
      BY <2>1, AtValue
    <2>3. n + m \in 0..Depth
      BY <1>1, <1>6
    <2>4. At(t, n + m) = IF t + (n + m) < Depth THEN t + (n + m) ELSE t + (n + m) - Depth
      BY <2>3, AtValue
    <2>5. At(h, m) = IF h + m < Depth THEN h + m ELSE h + m - Depth
      BY AtValue
    <2>6. At(h, m) = At(t, n + m)
      BY <1>1, <1>6, <2>2, <2>4, <2>5 DEF Slots
    <2> QED
      BY <2>1, <2>6
  <1> QED
    BY <1>2, <1>3, <1>4, <1>5, <1>6

-----------------------------------------------------------------------------
(* The frames that are settled: sent or given up.                            *)

\* The first k numbers are each in w or in d, and w is in their order.
Accounted(w, d, k) ==
    /\ w \in Seq(Nat) /\ k \in Nat /\ d \subseteq 1..k
    /\ \A i \in 1..Len(w) : w[i] \in 1..k
    /\ \A i, j \in 1..Len(w) : i < j => w[i] < w[j]
    /\ \A n \in 1..k : n \in d <=> \A i \in 1..Len(w) : w[i] # n

LEMMA AccountSent ==
    ASSUME NEW w, NEW d, NEW k, Accounted(w, d, k)
    PROVE  Accounted(Append(w, k + 1), d, k + 1)
  <1>1. /\ w \in Seq(Nat) /\ k \in Nat /\ k + 1 \in Nat /\ Len(w) \in Nat
        /\ d \subseteq 1..k
    BY LenProperties DEF Accounted
  <1>2. PICK w2 : w2 = Append(w, k + 1)
    OBVIOUS
  <1>3. /\ w2 \in Seq(Nat) /\ Len(w2) = Len(w) + 1 /\ w2[Len(w) + 1] = k + 1
        /\ \A i \in 1..Len(w) : w2[i] = w[i]
    BY <1>1, <1>2, AppendProperties
  <1>4. \A i \in 1..Len(w) : w[i] \in 1..k
    BY DEF Accounted
  <1>5. \A i \in 1..Len(w2) : w2[i] \in 1..k + 1
    <2> TAKE i \in 1..Len(w2)
    <2>1. i \in 1..Len(w) \/ i = Len(w) + 1
      BY <1>1, <1>3
    <2>2. 1..k \subseteq 1..k + 1 /\ k + 1 \in 1..k + 1
      BY <1>1
    <2>3. CASE i \in 1..Len(w)
      <3>1. w2[i] = w[i] /\ w[i] \in 1..k
        BY <1>3, <1>4, <2>3
      <3> QED
        BY <2>2, <3>1
    <2> QED
      BY <1>3, <2>1, <2>2, <2>3
  <1>6. ASSUME NEW i \in 1..Len(w2), NEW j \in 1..Len(w2), i < j
        PROVE  w2[i] < w2[j]
    <2>1. i \in 1..Len(w)
      BY <1>1, <1>3, <1>6
    <2>2. CASE j \in 1..Len(w)
      BY <1>3, <1>6, <2>1, <2>2 DEF Accounted
    <2>3. CASE j \notin 1..Len(w)
      <3>1. j = Len(w) + 1
        BY <1>1, <1>3, <2>3
      <3> QED
        BY <1>1, <1>3, <1>4, <2>1, <3>1
    <2> QED
      BY <2>2, <2>3
  <1>7. ASSUME NEW n \in 1..k + 1
        PROVE  n \in d <=> \A i \in 1..Len(w2) : w2[i] # n
    <2>1. CASE n = k + 1
      BY <1>1, <1>3, <2>1
    <2>2. CASE n # k + 1
      <3>1. n \in 1..k
        BY <1>1, <2>2
      <3>2. n \in d <=> \A i \in 1..Len(w) : w[i] # n
        BY <3>1 DEF Accounted
      <3>3. \A i \in 1..Len(w2) : i \in 1..Len(w) \/ w2[i] = k + 1
        BY <1>1, <1>3
      <3>4. \A i \in 1..Len(w) : i \in 1..Len(w2) /\ w2[i] = w[i]
        BY <1>1, <1>3
      <3> QED
        BY <2>2, <3>2, <3>3, <3>4
    <2> QED
      BY <2>1, <2>2
  <1> QED
    BY <1>1, <1>2, <1>3, <1>5, <1>6, <1>7 DEF Accounted

LEMMA AccountDropped ==
    ASSUME NEW w, NEW d, NEW k, Accounted(w, d, k), NEW m \in Nat
    PROVE  Accounted(w, d \cup (k + 1..k + m), k + m)
  <1>1. /\ w \in Seq(Nat) /\ k \in Nat /\ k + m \in Nat /\ Len(w) \in Nat
        /\ d \subseteq 1..k
    BY LenProperties DEF Accounted
  <1>2. d \cup (k + 1..k + m) \subseteq 1..k + m
    BY <1>1
  <1>3. \A i \in 1..Len(w) : w[i] \in 1..k /\ w[i] \in 1..k + m
    BY <1>1 DEF Accounted
  <1>4. ASSUME NEW n \in 1..k + m
        PROVE  n \in d \cup (k + 1..k + m) <=> \A i \in 1..Len(w) : w[i] # n
    <2>1. CASE n \in 1..k
      BY <1>1, <2>1 DEF Accounted
    <2>2. CASE n \notin 1..k
      BY <1>1, <1>3, <2>2
    <2> QED
      BY <2>1, <2>2
  <1> QED
    BY <1>1, <1>2, <1>3, <1>4 DEF Accounted

-----------------------------------------------------------------------------
(* The invariant.                                                            *)

Length == Queued(tail)

\* The frames that wait are the last ones accepted, in their order.
Numbered ==
    \A n \in 0..Length - 1 : slots[At(tail, n)] = accepted - Length + 1 + n

\* What is in flight is the first of them.
KickSound ==
    /\ kick = "transmit" => busy /\ uart = NoSlot /\ head # tail
    /\ uart # NoSlot => head # tail

IInv ==
    /\ TypeOK
    /\ accepted \in 0..MaxSends
    /\ Numbered
    /\ Accounted(wire, dropped, accepted - Length)
    /\ KickSound

RxTyped ==
    /\ sent \in 0..FrameBytes * MaxFrames
    /\ ring \in [Cells -> Bytes \cup {NoByte}] /\ dma \in Cells /\ lastPos \in Cells
    /\ rx \in {"on", "aborting", "off"}

PollTyped ==
    /\ poll \in [pc : {"idle", "begin", "chunk"}, pos : Cells, at : Cells, left : 0..Ring]
    /\ decoder \in SeqOf(Bytes \cup {NoByte}, DecoderMax)

TxTyped ==
    /\ slots \in [Slots -> 0..MaxSends] /\ head \in Slots /\ tail \in Slots
    /\ busy \in BOOLEAN /\ uart \in Slots \cup {NoSlot}
    /\ kick \in {"idle", "check", "transmit"}
    /\ uart # NoSlot => busy /\ uart = tail

\* What is known of the ring of slots.
Queueing ==
    /\ TxTyped
    /\ accepted \in 0..MaxSends
    /\ Numbered
    /\ Accounted(wire, dropped, accepted - Length)
    /\ KickSound

LEMMA Parts == IInv <=> RxTyped /\ PollTyped /\ Queueing
  BY DEF IInv, TypeOK, RxTyped, PollTyped, TxTyped, Queueing

LEMMA LengthFacts ==
    ASSUME TxTyped
    PROVE  /\ Length = Between(tail, head) /\ Length \in 0..Depth - 1
           /\ At(tail, Length) = head
           /\ Length = 0 <=> head = tail
  <1>1. Depth \in Nat /\ Depth >= 2 /\ tail \in Slots /\ head \in Slots
    BY LinkAssumption DEF TxTyped
  <1>2. Length = Between(tail, head)
    BY DEF Length, Queued, Between
  <1>3. Between(tail, head) = IF head >= tail THEN head - tail ELSE head - tail + Depth
    BY <1>1, BetweenValue
  <1>4. Length \in 0..Depth - 1 /\ At(tail, Length) = head
    BY <1>1, <1>2, RingFacts
  <1> QED
    BY <1>1, <1>2, <1>3, <1>4 DEF Slots

\* The first m frames leave the ring.
LEMMA TakeFacts ==
    ASSUME Queueing, NEW m \in 0..Length, tail' = At(tail, m),
           UNCHANGED <<slots, head, accepted>>
    PROVE  /\ tail' \in Slots /\ Length' = Length - m /\ Numbered'
           /\ accepted' - Length' = accepted - Length + m
           /\ \A n \in 0..m - 1 : slots[At(tail, n)] = accepted - Length + 1 + n
  <1>1. Depth \in Nat /\ Depth >= 2 /\ tail \in Slots /\ head \in Slots /\ accepted \in Nat
    BY LinkAssumption DEF Queueing, TxTyped
  <1>2. PICK l \in 0..Depth - 1 : l = Length
    BY LengthFacts DEF Queueing
  <1>3. At(tail, l) = head /\ m \in 0..l /\ m \in 0..Depth /\ l - m \in 0..Depth - 1 /\ l - m \in 0..Depth
    BY <1>1, <1>2, LengthFacts DEF Queueing
  <1>4. PICK t \in Slots : t = tail'
    BY <1>1, <1>3, RingFacts
  <1>5. ASSUME NEW n \in 0..l - m
        PROVE  At(t, n) = At(tail, m + n)
    <2>1. n \in 0..Depth /\ m + n <= Depth
      BY <1>1, <1>3
    <2> QED
      BY <1>1, <1>3, <1>4, <2>1, RingFacts
  <1>6. At(t, l - m) = head
    <2>1. l - m \in 0..l - m /\ m + (l - m) = l
      BY <1>3
    <2> QED
      BY <1>3, <1>5, <2>1
  <1>7. Between(t, head) = l - m
    BY <1>3, <1>6, RingFacts
  <1>8. Length' = l - m
    <2>1. Length' = Between(t, head)
      BY <1>4 DEF Length, Queued, Between
    <2> QED
      BY <1>7, <2>1
  <1>9. ASSUME NEW n \in 0..(l - m) - 1
        PROVE  slots'[At(t, n)] = accepted' - (l - m) + 1 + n
    <2>1. m + n \in 0..l - 1 /\ n \in 0..l - m
      BY <1>3
    <2>2. slots[At(tail, m + n)] = accepted - l + 1 + (m + n)
      BY <1>2, <2>1 DEF Queueing, Numbered
    <2> QED
      BY <1>1, <1>3, <1>5, <2>1, <2>2
  <1>10. Numbered'
    BY <1>4, <1>8, <1>9 DEF Numbered, At
  <1>11. \A n \in 0..m - 1 : slots[At(tail, n)] = accepted - l + 1 + n
    BY <1>2, <1>3 DEF Queueing, Numbered
  <1> QED
    BY <1>1, <1>2, <1>3, <1>4, <1>8, <1>10, <1>11

\* One more frame comes to the ring, unless it is full.
LEMMA EnqueueFacts ==
    ASSUME Queueing, Enqueue, accepted < MaxSends
    PROVE  Queueing'
  <1>1. CASE Full
    BY <1>1 DEF Enqueue, txVars, Queueing, TxTyped, Numbered, Length, Queued, At, KickSound
  <1>2. CASE ~Full
    <2>1. /\ slots' = [slots EXCEPT ![head] = accepted + 1]
          /\ head' = At(head, 1) /\ At(head, 1) # tail
          /\ accepted' = accepted + 1 /\ kick' = "check"
          /\ UNCHANGED <<tail, busy, uart, wire, dropped>>
      BY <1>2 DEF Enqueue, Full, At
    <2>2. /\ Depth \in Nat /\ Depth >= 2 /\ tail \in Slots /\ head \in Slots
          /\ accepted \in Nat /\ MaxSends \in Nat /\ slots \in [Slots -> 0..MaxSends]
      BY LinkAssumption DEF Queueing, TxTyped
    <2>3. PICK l \in 0..Depth - 1 : l = Length /\ At(tail, l) = head
      BY LengthFacts DEF Queueing
    <2>4. 1 \in 0..Depth /\ l \in 0..Depth /\ l + 1 \in 0..Depth
      BY <2>2
    <2>5. At(head, 1) \in Slots /\ At(head, 1) = At(tail, l + 1)
      <3>1. l + 1 <= Depth
        BY <2>4
      <3>2. At(At(tail, l), 1) = At(tail, l + 1)
        BY <2>2, <2>4, <3>1, RingFacts
      <3>3. At(head, 1) \in Slots
        BY <2>2, <2>4, RingFacts
      <3> QED
        BY <2>3, <3>2, <3>3
    <2>6. l + 1 \in 0..Depth - 1
      <3>1. At(tail, l + 1) = IF tail + (l + 1) < Depth THEN tail + (l + 1)
                                                       ELSE tail + (l + 1) - Depth
        BY <2>2, <2>4, AtValue
      <3>2. l + 1 # Depth
        BY <2>1, <2>2, <2>5, <3>1 DEF Slots
      <3> QED
        BY <2>2, <2>4, <3>2
    <2>7. Length' = l + 1
      <3>1. Length' = Between(tail, At(head, 1))
        BY <2>1 DEF Length, Queued, Between
      <3> QED
        BY <2>2, <2>5, <2>6, <3>1, RingFacts
    <2>8. ASSUME NEW n \in 0..l
          PROVE  slots'[At(tail, n)] = accepted' - (l + 1) + 1 + n
      <3>1. CASE n = l
        <4>1. slots'[head] = accepted + 1
          BY <2>1, <2>2
        <4> QED
          BY <2>1, <2>2, <2>3, <3>1, <4>1
      <3>2. CASE n # l
        <4>1. n \in 0..l - 1 /\ n \in 0..Depth - 1 /\ n \in 0..Depth
          BY <2>2, <3>2
        <4>2. At(tail, n) \in Slots /\ At(tail, n) # head
          <5>1. At(tail, n) \in Slots
            BY <2>2, <4>1, RingFacts
          <5>2. At(tail, n) = At(tail, l) => n = l
            BY <2>2, <4>1, RingFacts
          <5> QED
            BY <2>3, <3>2, <5>1, <5>2
        <4>3. slots[At(tail, n)] = accepted - l + 1 + n
          BY <2>3, <4>1 DEF Queueing, Numbered
        <4> QED
          BY <2>1, <2>2, <4>2, <4>3
      <3> QED
        BY <3>1, <3>2
    <2>9. Numbered'
      <3>1. \A n \in 0..(l + 1) - 1 : n \in 0..l
        BY <2>2
      <3> QED
        BY <2>1, <2>7, <2>8, <3>1 DEF Numbered, At
    <2>10. Accounted(wire, dropped, accepted - Length)'
      <3>1. accepted' - Length' = accepted - l
        BY <2>1, <2>2, <2>7
      <3> QED
        BY <2>1, <2>3, <3>1 DEF Queueing, Accounted
    <2>11. TxTyped' /\ accepted' \in 0..MaxSends
      BY <2>1, <2>2, <2>5 DEF Queueing, TxTyped
    <2>12. KickSound'
      BY <2>1 DEF KickSound
    <2> QED
      BY <2>9, <2>10, <2>11, <2>12 DEF Queueing
  <1> QED
    BY <1>1, <1>2

LEMMA QueueKept ==
    ASSUME Queueing, UNCHANGED <<slots, head, tail, accepted, wire, dropped>>
    PROVE  /\ Length' = Length /\ Numbered' /\ Accounted(wire, dropped, accepted - Length)'
           /\ accepted' \in 0..MaxSends
           /\ slots' \in [Slots -> 0..MaxSends] /\ head' \in Slots /\ tail' \in Slots
  <1>1. Length' = Length
    BY DEF Length, Queued
  <1> QED
    BY <1>1 DEF Queueing, TxTyped, Numbered, At, Accounted

LEMMA CheckKickInv ==
    ASSUME Queueing, CheckKick
    PROVE  Queueing'
  <1>1. /\ UNCHANGED <<slots, head, tail, accepted, wire, dropped, uart>>
        /\ \/ kick' = "idle" /\ busy' = busy
           \/ kick' = "transmit" /\ busy' = TRUE /\ ~busy /\ head # tail
    BY DEF CheckKick
  <1>2. TxTyped' /\ KickSound'
    BY <1>1 DEF Queueing, TxTyped, KickSound
  <1> QED
    BY <1>1, <1>2, QueueKept DEF Queueing

LEMMA TransmitInv ==
    ASSUME Queueing, NEW started \in BOOLEAN, Transmit(started)
    PROVE  Queueing'
  <1>1. /\ uart = NoSlot /\ busy /\ head # tail
        /\ UNCHANGED <<slots, head, accepted, wire>>
    BY DEF Transmit, Queueing, KickSound
  <1>2. CASE started
    <2>1. /\ uart' = tail /\ kick' = "idle" /\ UNCHANGED <<tail, busy, dropped>>
      BY <1>1, <1>2 DEF Transmit
    <2>2. TxTyped' /\ KickSound'
      BY <1>1, <2>1 DEF Queueing, TxTyped, KickSound
    <2> QED
      BY <1>1, <2>1, <2>2, QueueKept DEF Queueing
  <1>3. CASE ~started
    <2>1. /\ busy' = FALSE /\ kick' = "check" /\ uart' = uart
          /\ tail' = At(tail, 1) /\ dropped' = dropped \cup {slots[tail]}
      BY <1>1, <1>3 DEF Transmit, At
    <2>2. Length \in Nat /\ Length # 0 /\ 1 \in 0..Length /\ accepted \in Nat
      BY <1>1, LengthFacts, LinkAssumption DEF Queueing
    <2>3. /\ tail' \in Slots /\ Length' = Length - 1 /\ Numbered'
          /\ accepted' - Length' = accepted - Length + 1
          /\ \A n \in 0..1 - 1 : slots[At(tail, n)] = accepted - Length + 1 + n
      BY <1>1, <2>1, <2>2, TakeFacts
    <2>4. slots[tail] = accepted - Length + 1
      <3>1. At(tail, 0) = tail
        BY AtValue, LinkAssumption DEF Queueing, TxTyped, Slots
      <3> QED
        BY <2>2, <2>3, <3>1
    <2>5. Accounted(wire, dropped \cup {slots[tail]}, accepted - Length + 1)
      <3>1. PICK k \in Nat : k = accepted - Length /\ Accounted(wire, dropped, k)
        BY DEF Queueing, Accounted
      <3>2. {slots[tail]} = k + 1..k + 1
        BY <2>4, <3>1
      <3>3. Accounted(wire, dropped \cup (k + 1..k + 1), k + 1)
        BY <3>1, AccountDropped
      <3> QED
        BY <3>1, <3>2, <3>3
    <2>6. Accounted(wire, dropped, accepted - Length)'
      BY <1>1, <2>1, <2>3, <2>5 DEF Accounted
    <2>7. TxTyped' /\ KickSound' /\ accepted' \in 0..MaxSends
      BY <1>1, <2>1, <2>3 DEF Queueing, TxTyped, KickSound
    <2> QED
      BY <2>3, <2>6, <2>7 DEF Queueing
  <1> QED
    BY <1>2, <1>3

\* The frame that has been sent leaves the ring, and those the interrupt could
\* not start.
LEMMA TxCompleteInv ==
    ASSUME Queueing, TxComplete
    PROVE  Queueing'
  <1>1. /\ uart = tail /\ uart # NoSlot /\ busy /\ head # tail /\ kick # "transmit"
        /\ UNCHANGED <<slots, head, accepted, kick>> /\ wire' = Append(wire, slots[tail])
    BY DEF TxComplete, Queueing, TxTyped, KickSound
  <1>2. Depth \in Nat /\ Depth >= 2 /\ tail \in Slots /\ head \in Slots /\ accepted \in Nat
    BY LinkAssumption DEF Queueing, TxTyped
  <1>3. PICK l \in 0..Depth - 1 : l = Length /\ At(tail, l) = head /\ l # 0
    BY <1>1, LengthFacts DEF Queueing
  <1>4. PICK from \in Slots : from = At(tail, 1)
    <2>1. 1 \in 0..Depth
      BY <1>2
    <2> QED
      BY <1>2, <2>1, RingFacts
  <1>5. PICK k \in Kicked(from) :
            /\ tail' = k.tail /\ busy' = k.busy /\ uart' = k.uart
            /\ dropped' = dropped \cup {slots[At(from, n)] : n \in 0..Between(from, k.tail) - 1}
    BY <1>4 DEF TxComplete, At, Between
  <1>6. ASSUME NEW n \in 0..l - 1
        PROVE  At(from, n) = At(tail, n + 1)
    <2>1. n \in 0..Depth /\ 1 \in 0..Depth /\ 1 + n <= Depth /\ 1 + n = n + 1
      BY <1>2, <1>3
    <2>2. At(At(tail, 1), n) = At(tail, 1 + n)
      BY <1>2, <2>1, RingFacts
    <2> QED
      BY <1>4, <2>1, <2>2
  <1>7. Queued(from) = l - 1
    <2>1. l - 1 \in 0..l - 1 /\ l - 1 \in 0..Depth - 1 /\ l - 1 + 1 = l
      BY <1>2, <1>3
    <2>2. At(from, l - 1) = head
      BY <1>3, <1>6, <2>1
    <2>3. Between(from, head) = l - 1
      BY <2>1, <2>2, RingFacts
    <2> QED
      BY <2>3 DEF Queued, Between
  <1>8. PICK n \in 0..l - 1 :
            k = IF n = l - 1
                THEN [tail |-> At(from, n), busy |-> FALSE, uart |-> NoSlot]
                ELSE [tail |-> At(from, n), busy |-> TRUE, uart |-> At(from, n)]
    BY <1>5, <1>7 DEF Kicked, At
  <1>9. /\ n + 1 \in 0..l /\ n \in 0..Depth - 1 /\ n \in Nat /\ n + 1 \in 1..l
    BY <1>2, <1>3
  <1>10. /\ tail' = At(from, n) /\ tail' = At(tail, n + 1)
         /\ n = l - 1 => busy' = FALSE /\ uart' = NoSlot
         /\ n # l - 1 => busy' = TRUE /\ uart' = tail'
    BY <1>5, <1>6, <1>8
  <1>11. /\ tail' \in Slots /\ Length' = l - (n + 1) /\ Numbered'
         /\ accepted' - Length' = accepted - l + (n + 1)
         /\ \A i \in 0..(n + 1) - 1 : slots[At(tail, i)] = accepted - l + 1 + i
    BY <1>1, <1>3, <1>9, <1>10, TakeFacts
  <1>12. slots[tail] = accepted - l + 1
    <2>1. At(tail, 0) = tail
      BY <1>2, AtValue DEF Slots
    <2> QED
      BY <1>2, <1>9, <1>11, <2>1
  <1>13. PICK settled \in Nat : settled = accepted - l /\ Accounted(wire, dropped, settled)
    BY <1>3 DEF Queueing, Accounted
  <1>14. dropped' = dropped \cup (settled + 2..settled + 1 + n)
    <2>1. Between(from, k.tail) = n
      <3>1. k.tail = At(from, n)
        BY <1>5, <1>10
      <3>2. Between(from, At(from, n)) = n
        BY <1>9, RingFacts
      <3> QED
        BY <3>1, <3>2
    <2>2. ASSUME NEW i \in 0..n - 1
          PROVE  slots[At(from, i)] = settled + 2 + i
      <3>1. i \in 0..l - 1 /\ i + 1 \in 0..(n + 1) - 1
        BY <1>3, <1>9
      <3>2. slots[At(tail, i + 1)] = accepted - l + 1 + (i + 1)
        BY <1>11, <3>1
      <3> QED
        BY <1>2, <1>3, <1>6, <1>13, <3>1, <3>2
    <2>3. {slots[At(from, i)] : i \in 0..n - 1} = settled + 2..settled + 1 + n
      <3>1. \A x \in settled + 2..settled + 1 + n :
                x - settled - 2 \in 0..n - 1 /\ x = settled + 2 + (x - settled - 2)
        BY <1>9
      <3>2. \A i \in 0..n - 1 : settled + 2 + i \in settled + 2..settled + 1 + n
        BY <1>9
      <3>3. ASSUME NEW x \in settled + 2..settled + 1 + n
            PROVE  \E i \in 0..n - 1 : x = slots[At(from, i)]
        <4>1. PICK i \in 0..n - 1 : i = x - settled - 2 /\ x = settled + 2 + i
          BY <3>1
        <4> QED
          BY <2>2, <4>1
      <3>4. \A i \in 0..n - 1 : slots[At(from, i)] \in settled + 2..settled + 1 + n
        BY <2>2, <3>2
      <3> QED
        BY <3>3, <3>4
    <2> QED
      BY <1>5, <2>1, <2>3
  <1>15. Accounted(wire', dropped', settled + 1 + n)
    <2>1. wire' = Append(wire, settled + 1)
      BY <1>1, <1>12, <1>13
    <2>2. Accounted(wire', dropped, settled + 1)
      BY <1>13, <2>1, AccountSent
    <2>3. Accounted(wire', dropped \cup (settled + 1 + 1..settled + 1 + n), settled + 1 + n)
      BY <1>9, <2>2, AccountDropped
    <2>4. settled + 1 + 1 = settled + 2
      OBVIOUS
    <2> QED
      BY <1>14, <2>3, <2>4
  <1>16. Accounted(wire, dropped, accepted - Length)'
    <2>1. accepted' - Length' = settled + 1 + n
      BY <1>2, <1>3, <1>9, <1>11, <1>13
    <2> QED
      BY <1>15, <2>1 DEF Accounted
  <1>17. TxTyped'
    BY <1>1, <1>10, <1>11 DEF Queueing, TxTyped
  <1>18. KickSound'
    <2>1. n # l - 1 => Length' # 0
      BY <1>3, <1>9, <1>11
    <2>2. head' = tail' => Length' = 0
      <3>1. Length' = Between(tail', head')
        BY DEF Length, Queued, Between
      <3>2. Between(tail', tail') = 0
        BY <1>2, <1>11, BetweenValue DEF Slots
      <3> QED
        BY <3>1, <3>2
    <2> QED
      BY <1>1, <1>10, <2>1, <2>2 DEF KickSound
  <1> QED
    BY <1>1, <1>11, <1>16, <1>17, <1>18 DEF Queueing

\* Steps that leave the transmit side alone.
LEMMA TxUnchanged ==
    ASSUME Queueing, UNCHANGED <<txVars, kick>>
    PROVE  Queueing'
  <1>1. UNCHANGED <<slots, head, tail, busy, uart, accepted, wire, dropped, kick>>
    BY DEF txVars
  <1>2. TxTyped' /\ KickSound'
    BY <1>1 DEF Queueing, TxTyped, KickSound
  <1> QED
    BY <1>1, <1>2, QueueKept DEF Queueing

\* A step of the receiver, and what it keeps.
LEMMA ReceiverInv ==
    ASSUME IInv, \/ Receive \/ LineError \/ \E ok \in BOOLEAN : ErrorCallback(ok)
    PROVE  IInv'
  <1>1. RxTyped /\ PollTyped /\ Queueing
    BY Parts
  <1>2. /\ Ring \in Nat \ {0} /\ Cells = 0..Ring - 1
        /\ \A c \in Cells : (c + 1) % Ring \in Cells
        /\ FrameBytes * MaxFrames \in Nat /\ Bytes = 0..FrameBytes * MaxFrames - 1
    BY LinkAssumption DEF Cells, Bytes
  <1>3. 0 \in Cells /\ \A b \in Bytes : b + 1 \in 0..FrameBytes * MaxFrames
    BY <1>2
  <1>4. UNCHANGED <<poll, decoder>> /\ UNCHANGED <<txVars, kick>>
    BY DEF Receive, LineError, ErrorCallback, pollVars
  <1>5. RxTyped'
    <2>1. CASE Receive
      <3>1. sent' \in 0..FrameBytes * MaxFrames
        BY <1>3, <2>1 DEF Receive
      <3>2. /\ ring' \in [Cells -> Bytes \cup {NoByte}] /\ dma' \in Cells
            /\ lastPos' = lastPos /\ rx' = rx
        BY <1>1, <1>2, <2>1 DEF Receive, RxTyped
      <3> QED
        BY <1>1, <3>1, <3>2 DEF RxTyped
    <2>2. CASE LineError
      <3>1. sent' \in 0..FrameBytes * MaxFrames
        BY <1>3, <2>2 DEF LineError
      <3> QED
        BY <1>1, <2>2, <3>1 DEF LineError, RxTyped
    <2>3. CASE \E ok \in BOOLEAN : ErrorCallback(ok)
      BY <1>1, <1>3, <2>3 DEF ErrorCallback, Restart, RxTyped
    <2> QED
      BY <2>1, <2>2, <2>3
  <1>6. PollTyped'
    BY <1>1, <1>4 DEF PollTyped
  <1>7. Queueing'
    BY <1>1, <1>4, TxUnchanged
  <1>8. RxTyped' /\ PollTyped' /\ Queueing'
    BY <1>5, <1>6, <1>7
  <1> QED
    BY <1>8 DEF IInv, TypeOK, RxTyped, PollTyped, TxTyped, Queueing

LEMMA SeqOfFacts ==
    ASSUME NEW S, NEW n \in Nat
    PROVE  /\ <<>> \in SeqOf(S, n)
           /\ \A s \in SeqOf(S, n), e \in S : Len(s) < n => Append(s, e) \in SeqOf(S, n)
  <1>1. <<>> \in SeqOf(S, n)
    <2>1. <<>> \in [1..0 -> S]
      OBVIOUS
    <2> QED
      BY <2>1 DEF SeqOf
  <1>2. ASSUME NEW s \in SeqOf(S, n), NEW e \in S, Len(s) < n
        PROVE  Append(s, e) \in SeqOf(S, n)
    <2>1. PICK m \in 0..n : s \in [1..m -> S]
      BY DEF SeqOf
    <2>2. s \in Seq(S) /\ Len(s) = m
      BY <2>1, SeqDef, LenProperties
    <2>3. m + 1 \in 0..n
      BY <1>2, <2>2
    <2>4. Append(s, e) \in Seq(S) /\ Len(Append(s, e)) = m + 1
      BY <2>2, AppendProperties
    <2>5. Append(s, e) \in [1..m + 1 -> S]
      BY <2>4, LenProperties
    <2> QED
      BY <2>3, <2>5 DEF SeqOf
  <1> QED
    BY <1>1, <1>2

\* The poll, up to the acknowledgement of a frame.
LEMMA PollTypes ==
    ASSUME RxTyped, PollTyped, Poll
    PROVE  RxTyped' /\ PollTyped'
  <1>1. /\ Ring \in Nat \ {0} /\ Cells = 0..Ring - 1 /\ DecoderMax \in Nat
        /\ \A c \in Cells : (c + 1) % Ring \in Cells
        /\ \A c, d \in Cells : Pending(c, d) \in 0..Ring
    BY LinkAssumption DEF Cells, Pending
  <1>2. 0 \in Cells /\ 0 \in 0..Ring
    BY <1>1
  <1>3. /\ poll.pc \in {"idle", "begin", "chunk"} /\ poll.pos \in Cells /\ poll.at \in Cells
        /\ poll.left \in 0..Ring /\ lastPos \in Cells /\ dma \in Cells
    BY DEF PollTyped, RxTyped
  <1>4. /\ <<>> \in SeqOf(Bytes \cup {NoByte}, DecoderMax)
        /\ \A b \in Bytes \cup {NoByte} : Stored(b) \in SeqOf(Bytes \cup {NoByte}, DecoderMax)
    BY <1>1, SeqOfFacts DEF PollTyped, Stored
  <1>5. CASE ReadCounter
    <2>1. UNCHANGED <<sent, ring, dma, lastPos, rx, decoder>>
      BY <1>5 DEF ReadCounter, rxVars
    <2>2. poll' = [pc |-> "begin", pos |-> dma, at |-> 0, left |-> 0]
      BY <1>5 DEF ReadCounter, IdlePoll
    <2>3. PollTyped'
      BY <1>2, <1>3, <2>1, <2>2 DEF PollTyped
    <2> QED
      BY <2>1, <2>3 DEF RxTyped
  <1>6. CASE Begin
    <2>1. UNCHANGED <<sent, ring, dma, lastPos, rx, decoder>>
      BY <1>6 DEF Begin, rxVars
    <2>2. Pending(poll.pos, lastPos) \in 0..Ring
      BY <1>1, <1>3
    <2>3. poll' \in [pc : {"idle", "begin", "chunk"}, pos : Cells, at : Cells, left : 0..Ring]
      BY <1>2, <1>3, <1>6, <2>2 DEF Begin, IdlePoll, PollTyped
    <2> QED
      BY <2>1, <2>3 DEF PollTyped, RxTyped
  <1>7. CASE Byte \/ \E ack \in BOOLEAN : Frame(ack)
    <2>1. PICK b \in Bytes \cup {NoByte} :
              /\ AtByte(b) /\ decoder' \in {Stored(b), <<>>}
      BY <1>7 DEF Byte, Frame
    <2>2. UNCHANGED <<sent, ring, dma, lastPos, rx>>
      BY <2>1 DEF AtByte
    <2>3. poll.left - 1 \in 0..Ring
      <3>1. PICK left \in 0..Ring : left = poll.left
        BY <1>3
      <3>2. left > 0
        BY <2>1, <3>1 DEF AtByte
      <3>3. left - 1 \in 0..Ring
        BY <1>1, <3>2
      <3> QED
        BY <3>1, <3>3
    <2>4. (poll.at + 1) % Ring \in Cells
      BY <1>1, <1>3
    <2>5. poll' \in [pc : {"idle", "begin", "chunk"}, pos : Cells, at : Cells, left : 0..Ring]
      BY <2>1, <2>3, <2>4 DEF AtByte, Advanced, PollTyped
    <2>6. decoder' \in SeqOf(Bytes \cup {NoByte}, DecoderMax)
      BY <1>4, <2>1
    <2> QED
      BY <2>2, <2>5, <2>6 DEF PollTyped, RxTyped
  <1>8. CASE EndPoll
    <2>1. UNCHANGED <<sent, ring, dma, rx, decoder>> /\ lastPos' = poll.pos
      BY <1>8 DEF EndPoll
    <2>2. poll' = [pc |-> "idle", pos |-> 0, at |-> 0, left |-> 0]
      BY <1>8 DEF EndPoll, IdlePoll
    <2>3. PollTyped'
      BY <1>2, <2>1, <2>2 DEF PollTyped
    <2> QED
      BY <1>3, <2>1, <2>3 DEF RxTyped
  <1> QED
    BY <1>5, <1>6, <1>7, <1>8 DEF Poll

LEMMA PollInv ==
    ASSUME IInv, Poll
    PROVE  IInv'
  <1>1. RxTyped /\ PollTyped /\ Queueing
    BY Parts
  <1>2. RxTyped' /\ PollTyped'
    BY <1>1, PollTypes
  <1>3. (UNCHANGED <<txVars, kick>>) \/ (Enqueue /\ accepted < MaxSends)
    BY DEF Poll, ReadCounter, Begin, Byte, Frame, EndPoll
  <1>4. Queueing'
    BY <1>1, <1>3, TxUnchanged, EnqueueFacts
  <1> QED
    BY <1>2, <1>4 DEF IInv, TypeOK, RxTyped, PollTyped, TxTyped, Queueing

\* Sending, in the thread and in the interrupts.
LEMMA SendingInv ==
    ASSUME IInv, Send \/ Kick \/ TxComplete
    PROVE  IInv'
  <1>1. RxTyped /\ PollTyped /\ Queueing
    BY Parts
  <1>2. UNCHANGED <<sent, ring, dma, lastPos, rx, poll, decoder>>
    BY DEF Send, Kick, CheckKick, Transmit, TxComplete, rxVars, pollVars
  <1>3. RxTyped' /\ PollTyped'
    BY <1>1, <1>2 DEF RxTyped, PollTyped
  <1>4. Queueing'
    <2>1. CASE Send
      BY <1>1, <2>1, EnqueueFacts DEF Send
    <2>2. CASE Kick
      BY <1>1, <2>2, CheckKickInv, TransmitInv DEF Kick
    <2>3. CASE TxComplete
      BY <1>1, <2>3, TxCompleteInv
    <2> QED
      BY <2>1, <2>2, <2>3
  <1> QED
    BY <1>3, <1>4 DEF IInv, TypeOK, RxTyped, PollTyped, TxTyped, Queueing

\* A failed transmission stays first in the ring.
LEMMA TxErrorInv ==
    ASSUME IInv, NEW ok \in BOOLEAN, TxError(ok)
    PROVE  IInv'
  <1>1. RxTyped /\ PollTyped /\ Queueing
    BY Parts
  <1>2. 0 \in Cells
    BY LinkAssumption DEF Cells
  <1>3. RxTyped'
    BY <1>1, <1>2 DEF TxError, Restart, RxTyped
  <1>4. PollTyped'
    BY <1>1 DEF TxError, pollVars, PollTyped
  <1>5. /\ uart' = NoSlot /\ uart # NoSlot
        /\ UNCHANGED <<slots, head, tail, busy, accepted, wire, dropped, kick>>
    BY DEF TxError
  <1>6. TxTyped' /\ KickSound'
    BY <1>1, <1>5 DEF Queueing, TxTyped, KickSound
  <1>7. Queueing'
    BY <1>1, <1>5, <1>6, QueueKept DEF Queueing
  <1> QED
    BY <1>3, <1>4, <1>7 DEF IInv, TypeOK, RxTyped, PollTyped, TxTyped, Queueing

LEMMA InitInv ==
    ASSUME Init
    PROVE  IInv
  <1>1. /\ 0 \in Cells /\ 0 \in 0..Ring /\ 0 \in Slots /\ 0 \in 0..MaxSends
        /\ DecoderMax \in Nat /\ 0 \in 0..FrameBytes * MaxFrames
    BY LinkAssumption DEF Cells, Slots
  <1>2. RxTyped
    BY <1>1 DEF Init, RxTyped
  <1>3. PollTyped
    BY <1>1, SeqOfFacts DEF Init, PollTyped, IdlePoll
  <1>4. TxTyped /\ KickSound
    BY <1>1 DEF Init, TxTyped, KickSound, NoSlot
  <1>5. Length = 0 /\ accepted = 0
    BY <1>4, LengthFacts DEF Init
  <1>6. Numbered
    BY <1>5 DEF Numbered
  <1>7. Accounted(<<>>, {}, 0)
    BY EmptySeq, LenProperties DEF Accounted
  <1>8. Accounted(wire, dropped, accepted - Length)
    <2>1. wire = <<>> /\ dropped = {} /\ accepted - Length = 0
      BY <1>5 DEF Init
    <2> QED
      BY <1>7, <2>1
  <1> QED
    BY <1>1, <1>2, <1>3, <1>4, <1>5, <1>6, <1>8, Parts DEF Queueing

LEMMA NextInv ==
    ASSUME IInv, [Next]_vars
    PROVE  IInv'
  <1>1. CASE UNCHANGED vars
    <2>1. RxTyped /\ PollTyped /\ Queueing
      BY Parts
    <2>2. UNCHANGED <<sent, ring, dma, lastPos, rx, poll, decoder>> /\ UNCHANGED <<txVars, kick>>
      BY <1>1 DEF vars, rxVars, pollVars
    <2>3. Queueing'
      BY <2>1, <2>2, TxUnchanged
    <2>4. RxTyped' /\ PollTyped'
      BY <2>1, <2>2 DEF RxTyped, PollTyped
    <2> QED
      BY <2>3, <2>4 DEF IInv, TypeOK, RxTyped, PollTyped, TxTyped, Queueing
  <1> QED
    BY <1>1, ReceiverInv, PollInv, SendingInv, TxErrorInv DEF Next

(* The positions and the types of the link, and the account of its frames.   *)
THEOREM Invariance == Spec => []IInv
  <1>1. Init => IInv
    BY InitInv
  <1>2. IInv /\ [Next]_vars => IInv'
    BY NextInv
  <1> QED
    BY <1>1, <1>2, PTL DEF Spec

\* The receive ring, the decoder's buffer and the slots keep their bounds.
THEOREM TypeCorrect == Spec => []TypeOK
  <1>1. IInv => TypeOK
    BY DEF IInv
  <1> QED
    BY <1>1, Invariance, PTL

LEMMA WaitingFacts ==
    ASSUME Queueing
    PROVE  Waiting = accepted - Length + 1..accepted
  <1>1. PICK l \in 0..Depth - 1 : l = Length
    BY LengthFacts DEF Queueing
  <1>2. accepted \in Nat /\ Depth \in Nat /\ l \in Nat /\ accepted - l \in Nat
    BY <1>1, LinkAssumption DEF Queueing, Accounted
  <1>3. Waiting = {slots[At(tail, n)] : n \in 0..l - 1}
    BY <1>1 DEF Waiting, At, Length
  <1>4. \A n \in 0..l - 1 : slots[At(tail, n)] = accepted - l + 1 + n
    BY <1>1 DEF Queueing, Numbered
  <1>5. \A n \in 0..l - 1 : slots[At(tail, n)] \in accepted - l + 1..accepted
    BY <1>2, <1>4
  <1>6. ASSUME NEW x \in accepted - l + 1..accepted
        PROVE  \E n \in 0..l - 1 : x = slots[At(tail, n)]
    <2>1. PICK n \in 0..l - 1 : x = accepted - l + 1 + n
      <3>1. x - (accepted - l + 1) \in 0..l - 1
        BY <1>2
      <3> QED
        BY <1>2, <3>1
    <2> QED
      BY <1>4, <2>1
  <1> QED
    BY <1>1, <1>3, <1>5, <1>6

(* Every frame accepted is waiting, given up or sent once, as it was         *)
(* accepted and in that order: no slot is written over while the DMA may     *)
(* read it (app_link_enqueue_encoded), and no end of a transmission counts   *)
(* for another (HAL_UART_TxCpltCallback), for any depth of the ring.         *)
THEOREM EachSentOnce == Spec => []SentOnce
  <1>1. ASSUME IInv
        PROVE  SentOnce
    <2>1. Queueing
      BY <1>1, Parts
    <2>2. PICK k \in Nat : k = accepted - Length /\ Accounted(wire, dropped, k)
      BY <2>1 DEF Queueing, Accounted
    <2>3. Waiting = k + 1..accepted /\ accepted \in Nat
      BY <2>1, <2>2, WaitingFacts, LinkAssumption DEF Queueing
    <2>4. wire \in Seq(Nat) /\ DOMAIN wire = 1..Len(wire)
      BY <2>2, LenProperties DEF Accounted
    <2>5. \A i, j \in DOMAIN wire : i < j => wire[i] < wire[j]
      BY <2>2, <2>4 DEF Accounted
    <2>6. ASSUME NEW n \in 1..accepted
          PROVE  Cardinality({x \in {"waiting"} : n \in Waiting}
                             \cup {x \in {"dropped"} : n \in dropped}
                             \cup {x \in {"sent"} : n \in ToSet(wire)}) = 1
      <3>1. n \in ToSet(wire) <=> \E i \in 1..Len(wire) : wire[i] = n
        BY <2>4 DEF ToSet
      <3>2. n \in Waiting <=> n \notin 1..k
        BY <2>3
      <3>3. n \in 1..k => (n \in dropped <=> n \notin ToSet(wire))
        BY <2>2, <3>1 DEF Accounted
      <3>4. n \notin 1..k => n \notin dropped /\ n \notin ToSet(wire)
        BY <2>2, <3>1 DEF Accounted
      <3>5. \E only : {x \in {"waiting"} : n \in Waiting}
                      \cup {x \in {"dropped"} : n \in dropped}
                      \cup {x \in {"sent"} : n \in ToSet(wire)} = {only}
        <4>1. CASE n \in Waiting
          <5>1. n \notin dropped /\ n \notin ToSet(wire)
            BY <3>2, <3>4, <4>1
          <5> WITNESS "waiting"
          <5> QED
            BY <4>1, <5>1
        <4>2. CASE n \in dropped
          <5>1. n \notin Waiting /\ n \notin ToSet(wire)
            BY <3>2, <3>3, <3>4, <4>2
          <5> WITNESS "dropped"
          <5> QED
            BY <4>2, <5>1
        <4>3. CASE n \notin Waiting /\ n \notin dropped
          <5>1. n \in ToSet(wire)
            BY <3>2, <3>3, <4>3
          <5> WITNESS "sent"
          <5> QED
            BY <4>3, <5>1
        <4> QED
          BY <4>1, <4>2, <4>3
      <3> QED
        BY <3>5, FS_Singleton
    <2> QED
      BY <2>5, <2>6 DEF SentOnce
  <1> QED
    BY <1>1, Invariance, PTL

-----------------------------------------------------------------------------
(* Receiving: no frame is handled twice.                                     *)

\* The cell n places after c in the receive ring.
Cell(c, n) == (c + n) % Ring

\* The cell that is read next.
ReadAt == IF poll.pc = "chunk" THEN poll.at ELSE lastPos

\* u bytes wait in the ring, from first on; the poll looks at some of them.
Held(u, first) ==
    /\ dma = Cell(ReadAt, u)
    /\ \A k \in 0..u - 1 : ring[Cell(ReadAt, k)] = first + k
    /\ first + u <= sent /\ (rx = "on" => first + u = sent)
    /\ rx # "off" => unread = {Cell(ReadAt, k) : k \in 0..u - 1}
    /\ poll.pc = "begin" => \E p \in 0..u : poll.pos = Cell(lastPos, p)
    /\ poll.pc = "chunk" => poll.left <= u /\ poll.pos = Cell(poll.at, poll.left)

\* What was decoded and handled came before that byte, the frames in order.
Seen(first) ==
    /\ \A j \in DOMAIN handled : (handled[j] + 1) * FrameBytes <= first
    /\ \A i \in DOMAIN decoder :
        /\ decoder[i] \in Nat /\ decoder[i] < first
        /\ \A j \in DOMAIN handled : (handled[j] + 1) * FrameBytes <= decoder[i]
    /\ \A i, j \in DOMAIN handled : i < j => handled[i] < handled[j]

\* Without errors the decoder holds the frame after those handled, so far.
InStep(first) ==
    errors = 0 =>
        /\ rx = "on"
        /\ first = Len(handled) * FrameBytes + Len(decoder) /\ Len(decoder) <= FrameBytes - 1
        /\ \A i \in DOMAIN decoder : decoder[i] = Len(handled) * FrameBytes + i - 1
        /\ \A i \in DOMAIN handled : handled[i] = i - 1

Received == \E u \in 0..Ring, first \in Nat : Held(u, first) /\ Seen(first) /\ InStep(first)

FramesInv ==
    /\ handled \in Seq(Frames) /\ errors \in Nat
    /\ raced \in BOOLEAN /\ lapped \in BOOLEAN
    /\ ~raced /\ ~lapped => Received

LEMMA CellValue ==
    ASSUME NEW c \in Cells, NEW n \in 0..Ring
    PROVE  Cell(c, n) = IF c + n < Ring THEN c + n ELSE c + n - Ring
  BY LinkAssumption DEF Cell, Cells

LEMMA CellFacts ==
    /\ Ring \in Nat /\ Ring >= 1 /\ 0 \in Cells
    /\ \A c \in Cells, n \in 0..Ring : Cell(c, n) \in Cells
    /\ \A c \in Cells : Cell(c, 0) = c /\ Cell(c, Ring) = c
    /\ \A c \in Cells, n \in 0..Ring - 1 : Cell(Cell(c, 1), n) = Cell(c, n + 1)
    /\ \A c \in Cells, n \in 0..Ring - 1 : Cell(Cell(c, n), 1) = Cell(c, n + 1)
    /\ \A c \in Cells, n, m \in 0..Ring - 1 : Cell(c, n) = Cell(c, m) => n = m
    /\ \A c \in Cells, n \in 1..Ring - 1 : Cell(c, n) # c /\ Pending(Cell(c, n), c) = n
  <1>1. Ring \in Nat /\ Ring >= 1 /\ Cells = 0..Ring - 1
    BY LinkAssumption DEF Cells
  <1>2. ASSUME NEW c \in Cells, NEW n \in 0..Ring
        PROVE  Cell(c, n) \in Cells
    BY <1>1, CellValue
  <1>3. ASSUME NEW c \in Cells
        PROVE  Cell(c, 0) = c /\ Cell(c, Ring) = c
    <2>1. 0 \in 0..Ring /\ Ring \in 0..Ring
      BY <1>1
    <2> QED
      BY <1>1, <2>1, CellValue
  <1>4. ASSUME NEW c \in Cells, NEW n \in 0..Ring - 1
        PROVE  Cell(Cell(c, 1), n) = Cell(c, n + 1) /\ Cell(Cell(c, n), 1) = Cell(c, n + 1)
    <2>1. 1 \in 0..Ring /\ n \in 0..Ring /\ n + 1 \in 0..Ring
      BY <1>1
    <2>2. PICK d \in Cells : d = Cell(c, 1)
      BY <1>2, <2>1
    <2>3. PICK e \in Cells : e = Cell(c, n)
      BY <1>2, <2>1
    <2>4. /\ d = IF c + 1 < Ring THEN c + 1 ELSE c + 1 - Ring
          /\ e = IF c + n < Ring THEN c + n ELSE c + n - Ring
      BY <2>1, <2>2, <2>3, CellValue
    <2>5. Cell(c, n + 1) = IF c + (n + 1) < Ring THEN c + (n + 1) ELSE c + (n + 1) - Ring
      BY <2>1, CellValue
    <2>6. /\ Cell(d, n) = IF d + n < Ring THEN d + n ELSE d + n - Ring
          /\ Cell(e, 1) = IF e + 1 < Ring THEN e + 1 ELSE e + 1 - Ring
      BY <2>1, CellValue
    <2>7. Cell(d, n) = Cell(c, n + 1)
      BY <1>1, <2>4, <2>5, <2>6
    <2>8. Cell(e, 1) = Cell(c, n + 1)
      BY <1>1, <2>4, <2>5, <2>6
    <2> QED
      BY <2>2, <2>3, <2>7, <2>8
  <1>5. ASSUME NEW c \in Cells, NEW n \in 0..Ring - 1, NEW m \in 0..Ring - 1,
               Cell(c, n) = Cell(c, m)
        PROVE  n = m
    <2>1. n \in 0..Ring /\ m \in 0..Ring
      BY <1>1
    <2>2. (IF c + n < Ring THEN c + n ELSE c + n - Ring)
             = (IF c + m < Ring THEN c + m ELSE c + m - Ring)
      BY <1>5, <2>1, CellValue
    <2> QED
      BY <1>1, <2>2
  <1>6. ASSUME NEW c \in Cells, NEW n \in 1..Ring - 1
        PROVE  Cell(c, n) # c /\ Pending(Cell(c, n), c) = n
    <2>1. n \in 0..Ring
      BY <1>1
    <2>2. PICK d \in Cells : d = Cell(c, n)
      BY <1>2, <2>1
    <2>3. d = IF c + n < Ring THEN c + n ELSE c + n - Ring
      BY <2>1, <2>2, CellValue
    <2>4. d # c /\ Pending(d, c) = n
      BY <1>1, <2>3 DEF Pending
    <2> QED
      BY <2>2, <2>4
  <1>7. 0 \in Cells
    BY <1>1
  <1>8. \A c \in Cells, n \in 0..Ring - 1, m \in 0..Ring - 1 : Cell(c, n) = Cell(c, m) => n = m
    BY <1>5
  <1>9. /\ \A c \in Cells, n \in 0..Ring - 1 : Cell(Cell(c, 1), n) = Cell(c, n + 1)
        /\ \A c \in Cells, n \in 0..Ring - 1 : Cell(Cell(c, n), 1) = Cell(c, n + 1)
    BY <1>4
  <1>10. \A c \in Cells, n \in 1..Ring - 1 : Cell(c, n) # c /\ Pending(Cell(c, n), c) = n
    BY <1>6
  <1> QED
    BY <1>1, <1>2, <1>3, <1>7, <1>8, <1>9, <1>10

(* The bytes of a frame, whatever its length.                                *)
LEMMA FrameFacts ==
    /\ FrameBytes \in Nat /\ FrameBytes >= 2
    /\ \A f \in Nat : f * FrameBytes \in Nat /\ (f + 1) * FrameBytes = f * FrameBytes + FrameBytes
    /\ \A f, h \in Nat : f * FrameBytes < h * FrameBytes => f < h
    /\ \A f \in Nat, d \in 0..FrameBytes - 1 : (f * FrameBytes + d) % FrameBytes = d
  <1>1. FrameBytes \in Nat /\ FrameBytes >= 2
    BY LinkAssumption
  <1>2. ASSUME NEW n \in Nat, NEW f \in Nat
        PROVE  f * n \in Nat /\ (f + 1) * n = f * n + n
    OBVIOUS
  <1>3. ASSUME NEW n \in Nat, NEW f \in Nat, NEW h \in Nat, f * n < h * n
        PROVE  f < h
    <2>1. CASE h <= f
      <3>1. PICK k \in Nat : f = h + k
        BY <2>1
      <3>2. f * n = h * n + k * n /\ k * n \in Nat
        BY <3>1
      <3> QED
        BY <1>2, <1>3, <3>2
    <2> QED
      BY <2>1
  <1>4. ASSUME NEW n \in Nat, n >= 2, NEW f \in Nat, NEW d \in 0..n - 1
        PROVE  (f * n + d) % n = d
    OBVIOUS
  <1>5. \A f \in Nat : f * FrameBytes \in Nat /\ (f + 1) * FrameBytes = f * FrameBytes + FrameBytes
    BY <1>1, <1>2
  <1>6. \A f, h \in Nat : f * FrameBytes < h * FrameBytes => f < h
    BY <1>1, <1>3
  <1>7. \A f \in Nat, d \in 0..FrameBytes - 1 : (f * FrameBytes + d) % FrameBytes = d
    BY <1>1, <1>4
  <1> QED
    BY <1>1, <1>5, <1>6, <1>7
LEMMA ReceiverTypes ==
    ASSUME RxTyped, PollTyped
    PROVE  /\ ReadAt \in Cells /\ lastPos \in Cells /\ dma \in Cells /\ sent \in Nat
           /\ ring \in [Cells -> Bytes \cup {NoByte}]
           /\ poll.pc \in {"idle", "begin", "chunk"} /\ poll.pos \in Cells /\ poll.at \in Cells
           /\ poll.left \in 0..Ring
           /\ poll = [pc |-> poll.pc, pos |-> poll.pos, at |-> poll.at, left |-> poll.left]
           /\ decoder \in Seq(Bytes \cup {NoByte}) /\ Len(decoder) \in Nat
           /\ DOMAIN decoder = 1..Len(decoder)
  <1>1. /\ lastPos \in Cells /\ dma \in Cells /\ ring \in [Cells -> Bytes \cup {NoByte}]
        /\ sent \in Nat
    BY LinkAssumption DEF RxTyped
  <1>2. /\ poll.pc \in {"idle", "begin", "chunk"} /\ poll.pos \in Cells /\ poll.at \in Cells
        /\ poll.left \in 0..Ring
        /\ poll = [pc |-> poll.pc, pos |-> poll.pos, at |-> poll.at, left |-> poll.left]
    BY DEF PollTyped
  <1>3. decoder \in Seq(Bytes \cup {NoByte})
    <2>1. PICK m \in 0..DecoderMax : decoder \in [1..m -> Bytes \cup {NoByte}]
      BY DEF PollTyped, SeqOf
    <2> QED
      BY <2>1, SeqDef, LinkAssumption
  <1> QED
    BY <1>1, <1>2, <1>3, LenProperties DEF ReadAt

\* A byte comes; it overwrites none that waits.
LEMMA ReceiveHeld ==
    ASSUME RxTyped, PollTyped, NEW u \in 0..Ring, NEW first \in Nat, Held(u, first),
           Receive, ~lapped'
    PROVE  \E v \in 0..Ring : Held(v, first)'
  <1> USE CellFacts, ReceiverTypes
  <1>1. UNCHANGED <<poll, lastPos, rx>> /\ sent' = sent + 1 /\ ReadAt' = ReadAt
    BY DEF Receive, pollVars, ReadAt
  <1>2. CASE rx = "on"
    <2>1. /\ ring' = [ring EXCEPT ![dma] = sent] /\ dma' = Cell(dma, 1)
          /\ unread' = unread \cup {dma} /\ dma \notin unread
      BY <1>2 DEF Receive, Cell
    <2>2. /\ dma = Cell(ReadAt, u) /\ unread = {Cell(ReadAt, k) : k \in 0..u - 1}
          /\ first + u = sent /\ \A k \in 0..u - 1 : ring[Cell(ReadAt, k)] = first + k
      BY <1>2 DEF Held
    <2>3. u \in 0..Ring - 1 /\ u + 1 \in 0..Ring
      <3>1. u # Ring
        <4>1. ASSUME u = Ring
              PROVE  FALSE
          <5>1. 0 \in 0..u - 1 /\ Cell(ReadAt, 0) = dma
            BY <2>2, <4>1
          <5> QED
            BY <2>1, <2>2, <5>1
        <4> QED
          BY <4>1
      <3> QED
        BY <3>1
    <2>4. dma' = Cell(ReadAt, u + 1)
      BY <2>1, <2>2, <2>3
    <2>5. ASSUME NEW k \in 0..u
          PROVE  ring'[Cell(ReadAt, k)] = first + k
      <3>1. CASE k = u
        BY <2>1, <2>2, <3>1
      <3>2. CASE k # u
        <4>1. k \in 0..u - 1 /\ k \in 0..Ring - 1
          BY <2>3, <3>2
        <4>2. Cell(ReadAt, k) # dma /\ Cell(ReadAt, k) \in Cells
          BY <2>2, <2>3, <3>2, <4>1
        <4> QED
          BY <2>1, <2>2, <4>1, <4>2
      <3> QED
        BY <3>1, <3>2
    <2>6. unread' = {Cell(ReadAt, k) : k \in 0..u}
      <3>1. 0..u = 0..u - 1 \cup {u}
        OBVIOUS
      <3> QED
        BY <2>1, <2>2, <3>1
    <2>7. 0..(u + 1) - 1 = 0..u /\ first + (u + 1) = sent'
      BY <1>1, <2>2
    <2>8. poll.pc = "begin" => \E p \in 0..u + 1 : poll.pos = Cell(lastPos, p)
      BY DEF Held
    <2>9. poll.pc = "chunk" => poll.left <= u + 1 /\ poll.pos = Cell(poll.at, poll.left)
      BY DEF Held
    <2>10. Held(u + 1, first)'
      BY <1>1, <2>4, <2>5, <2>6, <2>7, <2>8, <2>9 DEF Held
    <2> QED
      BY <2>3, <2>10
  <1>3. CASE rx # "on"
    <2>1. UNCHANGED <<ring, dma, unread>>
      BY <1>3 DEF Receive
    <2>2. Held(u, first)'
      BY <1>1, <1>3, <2>1 DEF Held
    <2> QED
      BY <2>2
  <1> QED
    BY <1>2, <1>3

\* A restart of the receiver between two polls.
LEMMA RestartHeld ==
    ASSUME RxTyped, PollTyped, NEW u \in 0..Ring, NEW first \in Nat, Held(u, first),
           NEW ok \in BOOLEAN, Restart(ok), ~raced', UNCHANGED <<sent, ring, poll>>
    PROVE  \E v \in 0..Ring, f \in Nat : first <= f /\ Held(v, f)'
  <1> USE CellFacts, ReceiverTypes
  <1>1. poll.pc = "idle" /\ unread' = {}
    BY DEF Restart
  <1>2. CASE ok
    <2>1. dma' = 0 /\ lastPos' = 0 /\ ReadAt' = 0
      BY <1>1, <1>2 DEF Restart, ReadAt
    <2>2. 0..0 - 1 = {} /\ Cell(0, 0) = 0 /\ sent + 0 = sent
      OBVIOUS
    <2>3. Held(0, sent)'
      BY <1>1, <2>1, <2>2 DEF Held
    <2>4. first <= sent /\ 0 \in 0..Ring
      BY DEF Held
    <2> QED
      BY <2>3, <2>4
  <1>3. CASE ~ok
    <2>1. UNCHANGED <<dma, lastPos>> /\ rx' = "off" /\ ReadAt' = ReadAt
      BY <1>3 DEF Restart, ReadAt
    <2>2. Held(u, first)'
      BY <1>1, <2>1 DEF Held
    <2> QED
      BY <2>2
  <1> QED
    BY <1>2, <1>3

\* The poll, between bytes.
LEMMA PollHeld ==
    ASSUME RxTyped, PollTyped, NEW u \in 0..Ring, NEW first \in Nat, Held(u, first),
           ReadCounter \/ Begin \/ EndPoll
    PROVE  Held(u, first)'
  <1> USE CellFacts, ReceiverTypes
  <1>1. UNCHANGED <<sent, ring, dma, rx, unread>>
    BY DEF ReadCounter, Begin, EndPoll, rxVars
  <1>2. CASE ReadCounter
    <2>1. /\ poll'.pc = "begin" /\ poll'.pos = dma /\ lastPos' = lastPos /\ poll.pc = "idle"
      BY <1>2 DEF ReadCounter, IdlePoll, rxVars
    <2>2. ReadAt' = lastPos /\ ReadAt = lastPos
      BY <2>1 DEF ReadAt
    <2>3. u \in 0..u /\ poll'.pos = Cell(lastPos', u)
      BY <2>1, <2>2 DEF Held
    <2> QED
      BY <1>1, <2>1, <2>2, <2>3 DEF Held
  <1>3. CASE Begin
    <2>1. lastPos' = lastPos /\ poll.pc = "begin" /\ ReadAt = lastPos
      BY <1>3 DEF Begin, rxVars, ReadAt
    <2>2. PICK p \in 0..u : poll.pos = Cell(lastPos, p)
      BY <2>1 DEF Held
    <2>3. CASE poll.pos = lastPos
      <3>1. poll'.pc = "idle"
        BY <1>3, <2>3 DEF Begin, IdlePoll
      <3>2. ReadAt' = lastPos
        BY <2>1, <3>1 DEF ReadAt
      <3> QED
        BY <1>1, <2>1, <3>1, <3>2 DEF Held
    <2>4. CASE poll.pos # lastPos
      <3>1. p \in 1..Ring - 1
        BY <2>2, <2>4
      <3>2. Pending(poll.pos, lastPos) = p
        BY <2>2, <3>1
      <3>3. poll' = [pc |-> "chunk", pos |-> poll.pos, at |-> lastPos, left |-> p]
        BY <1>3, <2>4, <3>2 DEF Begin
      <3>4. ReadAt' = lastPos
        BY <3>3 DEF ReadAt
      <3> QED
        BY <1>1, <2>1, <2>2, <3>3, <3>4 DEF Held
    <2> QED
      BY <2>3, <2>4
  <1>4. CASE EndPoll
    <2>1. /\ poll.pc = "chunk" /\ poll.left = 0 /\ lastPos' = poll.pos /\ poll'.pc = "idle"
      BY <1>4 DEF EndPoll, IdlePoll
    <2>2. poll.pos = poll.at
      BY <2>1 DEF Held
    <2>3. ReadAt' = ReadAt
      BY <2>1, <2>2 DEF ReadAt
    <2> QED
      BY <1>1, <2>1, <2>3 DEF Held
  <1> QED
    BY <1>2, <1>3, <1>4

\* The poll reads the byte that has waited longest.
LEMMA ByteHeld ==
    ASSUME RxTyped, PollTyped, NEW u \in 0..Ring, NEW first \in Nat, Held(u, first),
           NEW b, AtByte(b)
    PROVE  b = first /\ first + 1 <= sent /\ u - 1 \in 0..Ring /\ Held(u - 1, first + 1)'
  <1> USE CellFacts, ReceiverTypes
  <1>1. /\ poll.pc = "chunk" /\ poll.left > 0 /\ b = ring[poll.at] /\ poll' = Advanced
        /\ unread' = unread \ {poll.at} /\ UNCHANGED <<sent, ring, dma, rx, lastPos>>
    BY DEF AtByte
  <1>2. /\ ReadAt = poll.at /\ poll.left <= u /\ u >= 1 /\ u - 1 \in 0..Ring - 1
        /\ first + u <= sent /\ poll.pos = Cell(poll.at, poll.left)
    BY <1>1 DEF ReadAt, Held
  <1>3. b = first
    <2>1. 0 \in 0..u - 1 /\ first + 0 = first
      BY <1>2
    <2> QED
      BY <1>1, <1>2, <2>1 DEF Held
  <1>4. poll' = [pc |-> "chunk", pos |-> poll.pos, at |-> Cell(poll.at, 1), left |-> poll.left - 1]
    BY <1>1 DEF Advanced, Cell
  <1>5. ReadAt' = Cell(ReadAt, 1)
    BY <1>2, <1>4 DEF ReadAt
  <1>6. \A k \in 0..Ring - 1 : Cell(Cell(ReadAt, 1), k) = Cell(ReadAt, k + 1)
    OBVIOUS
  <1>7. dma' = Cell(ReadAt', u - 1)
    <2>1. Cell(Cell(ReadAt, 1), u - 1) = Cell(ReadAt, u)
      BY <1>2, <1>6
    <2> QED
      BY <1>1, <1>5, <2>1 DEF Held
  <1>8. ASSUME NEW k \in 0..(u - 1) - 1
        PROVE  ring'[Cell(ReadAt', k)] = (first + 1) + k
    <2>1. k + 1 \in 0..u - 1 /\ k \in 0..Ring - 1 /\ first + (k + 1) = (first + 1) + k
      BY <1>2
    <2>2. Cell(ReadAt', k) = Cell(ReadAt, k + 1)
      BY <1>5, <1>6, <2>1
    <2> QED
      BY <1>1, <2>1, <2>2 DEF Held
  <1>9. ASSUME rx # "off"
        PROVE  unread' = {Cell(ReadAt', k) : k \in 0..(u - 1) - 1}
    <2>1. unread = {Cell(ReadAt, k) : k \in 0..u - 1} /\ unread' = unread \ {Cell(ReadAt, 0)}
      BY <1>1, <1>2, <1>9 DEF Held
    <2>2. ASSUME NEW k \in 0..(u - 1) - 1
          PROVE  Cell(ReadAt', k) \in unread'
      <3>1. k + 1 \in 0..u - 1 /\ k \in 0..Ring - 1 /\ k + 1 \in 0..Ring - 1 /\ k + 1 # 0
            /\ 0 \in 0..Ring - 1
        BY <1>2
      <3>2. Cell(ReadAt', k) = Cell(ReadAt, k + 1) /\ Cell(ReadAt, k + 1) # Cell(ReadAt, 0)
        BY <1>5, <1>6, <3>1
      <3> QED
        BY <2>1, <3>1, <3>2
    <2>3. ASSUME NEW c \in unread'
          PROVE  \E k \in 0..(u - 1) - 1 : c = Cell(ReadAt', k)
      <3>1. PICK k \in 0..u - 1 : c = Cell(ReadAt, k) /\ k # 0
        BY <2>1
      <3>2. k - 1 \in 0..(u - 1) - 1 /\ k - 1 \in 0..Ring - 1 /\ (k - 1) + 1 = k
        BY <1>2, <3>1
      <3>3. Cell(ReadAt', k - 1) = c
        BY <1>5, <1>6, <3>1, <3>2
      <3> QED
        BY <3>2, <3>3
    <2> QED
      BY <2>2, <2>3
  <1>10. poll.left - 1 <= u - 1 /\ poll.pos = Cell(Cell(poll.at, 1), poll.left - 1)
    <2>1. poll.left - 1 \in 0..Ring - 1 /\ (poll.left - 1) + 1 = poll.left
      BY <1>1
    <2> QED
      BY <1>2, <1>6, <2>1
  <1>11. /\ (first + 1) + (u - 1) <= sent
         /\ rx = "on" => (first + 1) + (u - 1) = sent
    BY <1>2 DEF Held
  <1>12. Held(u - 1, first + 1)'
    BY <1>1, <1>4, <1>7, <1>8, <1>9, <1>10, <1>11 DEF Held
  <1> QED
    BY <1>2, <1>3, <1>12
LEMMA SeenTypes ==
    ASSUME RxTyped, PollTyped, handled \in Seq(Frames)
    PROVE  /\ Len(handled) \in Nat /\ DOMAIN handled = 1..Len(handled)
           /\ \A j \in DOMAIN handled : handled[j] \in Nat /\ (handled[j] + 1) * FrameBytes \in Nat
           /\ Len(handled) * FrameBytes \in Nat
           /\ decoder \in Seq(Bytes \cup {NoByte}) /\ Len(decoder) \in Nat
           /\ DOMAIN decoder = 1..Len(decoder)
           /\ Bytes \subseteq Nat /\ Frames \subseteq Nat
  <1>1. FrameBytes * MaxFrames \in Nat
    BY LinkAssumption
  <1>2. Bytes \subseteq Nat /\ Frames \subseteq Nat
    BY <1>1, LinkAssumption DEF Bytes, Frames
  <1>3. Len(handled) \in Nat /\ DOMAIN handled = 1..Len(handled)
    BY LenProperties
  <1>4. \A j \in DOMAIN handled : handled[j] \in Frames
    BY <1>3, ElementOfSeq
  <1>5. \A f \in Nat : f + 1 \in Nat
    OBVIOUS
  <1> QED
    BY <1>2, <1>3, <1>4, <1>5, FrameFacts, ReceiverTypes

(* What was seen before one byte was seen before any later one.              *)
LEMMA SeenLater ==
    ASSUME RxTyped, PollTyped, handled \in Seq(Frames), NEW first \in Nat, Seen(first),
           NEW later \in Nat, first <= later, UNCHANGED <<handled, decoder>>
    PROVE  Seen(later)'
  <1> USE SeenTypes
  <1>1. \A j \in DOMAIN handled : (handled[j] + 1) * FrameBytes <= later
    BY DEF Seen
  <1>2. \A i \in DOMAIN decoder : decoder[i] \in Nat /\ decoder[i] < later
    BY DEF Seen
  <1> QED
    BY <1>1, <1>2 DEF Seen

\* The decoder stores a byte, or drops what it has.
LEMMA ByteSeen ==
    ASSUME RxTyped, PollTyped, handled \in Seq(Frames), NEW first \in Nat,
           Seen(first), InStep(first), Byte, \A b : AtByte(b) => b = first
    PROVE  Seen(first + 1)' /\ InStep(first + 1)'
  <1> USE SeenTypes
  <1>1. PICK b \in Bytes \cup {NoByte} :
            /\ AtByte(b) /\ UNCHANGED handled
            /\ \/ /\ b = NoByte \/ ~IsDelimiter(b)
                  /\ decoder' = Stored(b)
               \/ /\ MayDelimit(b)
                  /\ ~ \E f \in Frames : Decodes(decoder, f)
                  /\ decoder' = <<>>
    BY DEF Byte
  <1>2. /\ b = first /\ b # NoByte /\ b \in Bytes /\ UNCHANGED <<handled, errors, rx>>
    BY <1>1 DEF AtByte, NoByte
  <1>3. /\ Append(decoder, b) \in Seq(Bytes \cup {NoByte})
        /\ Len(Append(decoder, b)) = Len(decoder) + 1
        /\ DOMAIN Append(decoder, b) = 1..Len(decoder) + 1
        /\ \A i \in 1..Len(decoder) : Append(decoder, b)[i] = decoder[i]
        /\ Append(decoder, b)[Len(decoder) + 1] = first
    BY <1>2, AppendProperties, LenProperties
  <1>4. decoder' = Append(decoder, b) \/ decoder' = <<>>
    BY <1>1 DEF Stored
  <1>5. \A j \in DOMAIN handled : (handled[j] + 1) * FrameBytes <= first
    BY DEF Seen
  <1>6. \A i \in DOMAIN decoder' :
            /\ decoder'[i] \in Nat /\ decoder'[i] < first + 1
            /\ \A j \in DOMAIN handled : (handled[j] + 1) * FrameBytes <= decoder'[i]
    <2>1. CASE decoder' = Append(decoder, b)
      <3> SUFFICES ASSUME NEW i \in 1..Len(decoder) + 1
                   PROVE  /\ decoder'[i] \in Nat /\ decoder'[i] < first + 1
                          /\ \A j \in DOMAIN handled :
                                (handled[j] + 1) * FrameBytes <= decoder'[i]
        BY <1>3, <2>1
      <3>1. CASE i = Len(decoder) + 1
        <4>1. decoder'[i] = first
          BY <1>3, <2>1, <3>1
        <4> QED
          BY <1>5, <4>1
      <3>2. CASE i # Len(decoder) + 1
        <4>1. i \in DOMAIN decoder
          BY <3>2
        <4>2. decoder'[i] = decoder[i]
          BY <1>3, <2>1, <4>1
        <4>3. decoder[i] \in Nat /\ decoder[i] < first
          BY <4>1 DEF Seen
        <4>4. decoder'[i] \in Nat /\ decoder'[i] < first + 1
          BY <4>2, <4>3
        <4> QED
          BY <4>1, <4>2, <4>4 DEF Seen
      <3> QED
        BY <3>1, <3>2
    <2>2. CASE decoder' = <<>>
      BY <2>2
    <2> QED
      BY <1>4, <2>1, <2>2
  <1>7. \A j \in DOMAIN handled : (handled[j] + 1) * FrameBytes <= first + 1
    BY <1>5
  <1>8. Seen(first + 1)'
    BY <1>2, <1>6, <1>7 DEF Seen
  <1>9. ASSUME errors = 0
        PROVE  /\ rx = "on" /\ decoder' = Append(decoder, b)
               /\ first = Len(handled) * FrameBytes + Len(decoder)
               /\ Len(decoder) + 1 <= FrameBytes - 1
               /\ \A i \in DOMAIN decoder : decoder[i] = Len(handled) * FrameBytes + i - 1
               /\ \A i \in DOMAIN handled : handled[i] = i - 1
    <2>1. /\ rx = "on"
          /\ first = Len(handled) * FrameBytes + Len(decoder) /\ Len(decoder) <= FrameBytes - 1
          /\ \A i \in DOMAIN decoder : decoder[i] = Len(handled) * FrameBytes + i - 1
          /\ \A i \in DOMAIN handled : handled[i] = i - 1
      BY <1>9 DEF InStep
    <2>2. first % FrameBytes = Len(decoder)
      <3>1. Len(decoder) \in 0..FrameBytes - 1
        BY <2>1, FrameFacts
      <3> QED
        BY <2>1, <3>1, FrameFacts
    <2>3. Len(decoder) # FrameBytes - 1
      <3>1. ASSUME Len(decoder) = FrameBytes - 1
            PROVE  FALSE
        <4>1. Decodes(decoder, Len(handled))
          BY <2>1, <3>1 DEF Decodes
        <4>2. Len(handled) \in Frames
          <5>1. Len(handled) * FrameBytes < MaxFrames * FrameBytes
            <6>1. first < FrameBytes * MaxFrames
              BY <1>2, LinkAssumption DEF Bytes
            <6>2. FrameBytes * MaxFrames = MaxFrames * FrameBytes
              BY LinkAssumption
            <6> QED
              BY <2>1, <6>1, <6>2, LinkAssumption
          <5>2. Len(handled) < MaxFrames
            BY <5>1, FrameFacts, LinkAssumption
          <5> QED
            BY <5>2, LinkAssumption DEF Frames
        <4>3. ~ (b = NoByte \/ ~IsDelimiter(b))
          BY <1>2, <2>2, <3>1 DEF IsDelimiter
        <4> QED
          BY <1>1, <4>1, <4>2, <4>3
      <3> QED
        BY <3>1
    <2>4. Len(decoder) + 1 <= FrameBytes - 1 /\ Len(decoder) < DecoderMax
      BY <2>1, <2>3, FrameFacts, LinkAssumption
    <2>5. decoder' = Append(decoder, b)
      <3>1. ~IsDelimiter(b)
        BY <1>2, <2>2, <2>3 DEF IsDelimiter
      <3> QED
        BY <1>1, <1>2, <2>4, <3>1 DEF MayDelimit, Stored
    <2> QED
      BY <2>1, <2>4, <2>5
  <1>10. InStep(first + 1)'
    <2> SUFFICES ASSUME errors = 0
                 PROVE  /\ rx' = "on"
                        /\ first + 1 = Len(handled') * FrameBytes + Len(decoder')
                        /\ Len(decoder') <= FrameBytes - 1
                        /\ \A i \in DOMAIN decoder' :
                               decoder'[i] = Len(handled') * FrameBytes + i - 1
                        /\ \A i \in DOMAIN handled' : handled'[i] = i - 1
      BY <1>2 DEF InStep
    <2>1. Len(decoder') = Len(decoder) + 1 /\ DOMAIN decoder' = 1..Len(decoder) + 1
      BY <1>3, <1>9
    <2>2. first + 1 = Len(handled) * FrameBytes + Len(decoder')
      BY <1>9, <2>1
    <2>3. \A i \in 1..Len(decoder) + 1 : decoder'[i] = Len(handled) * FrameBytes + i - 1
      <3> TAKE i \in 1..Len(decoder) + 1
      <3>1. CASE i = Len(decoder) + 1
        <4>1. decoder'[i] = first
          BY <1>3, <1>9, <3>1
        <4> QED
          BY <1>9, <3>1, <4>1
      <3>2. CASE i # Len(decoder) + 1
        <4>1. i \in DOMAIN decoder
          BY <3>2
        <4>2. decoder'[i] = decoder[i]
          BY <1>3, <1>9, <4>1
        <4> QED
          BY <1>9, <4>1, <4>2
      <3> QED
        BY <3>1, <3>2
    <2> QED
      BY <1>2, <1>9, <2>1, <2>2, <2>3
  <1> QED
    BY <1>8, <1>10

\* A frame is handled: its bytes all came after those of the earlier ones.
LEMMA FrameSeen ==
    ASSUME RxTyped, PollTyped, handled \in Seq(Frames), NEW first \in Nat,
           Seen(first), InStep(first), NEW ack \in BOOLEAN, Frame(ack),
           \A b : AtByte(b) => b = first
    PROVE  handled' \in Seq(Frames) /\ Seen(first + 1)' /\ InStep(first + 1)'
  <1> USE SeenTypes
  <1>1. PICK b \in Bytes \cup {NoByte}, f \in Frames :
            /\ AtByte(b) /\ Decodes(decoder, f)
            /\ decoder' = <<>> /\ handled' = Append(handled, f)
    BY DEF Frame
  <1>2. UNCHANGED <<errors, rx>> /\ Len(handled) \in Nat /\ DOMAIN handled = 1..Len(handled)
    BY <1>1 DEF AtByte
  <1>3. /\ handled' \in Seq(Frames) /\ Len(handled') = Len(handled) + 1
        /\ DOMAIN handled' = 1..Len(handled) + 1
        /\ \A i \in 1..Len(handled) : handled'[i] = handled[i]
        /\ handled'[Len(handled) + 1] = f
    BY <1>1, AppendProperties, LenProperties
  <1>4. /\ f \in Nat /\ f * FrameBytes \in Nat /\ FrameBytes >= 2 /\ FrameBytes \in Nat
        /\ (f + 1) * FrameBytes = f * FrameBytes + FrameBytes
    BY FrameFacts
  <1>5. /\ Len(decoder) = FrameBytes - 1 /\ 1 \in DOMAIN decoder
        /\ FrameBytes - 1 \in DOMAIN decoder
        /\ \A i \in DOMAIN decoder : decoder[i] = f * FrameBytes + i - 1
    BY <1>1, <1>4 DEF Decodes
  <1>6. decoder[1] = f * FrameBytes /\ decoder[FrameBytes - 1] = f * FrameBytes + FrameBytes - 2
    BY <1>4, <1>5
  <1>7. (f + 1) * FrameBytes <= first + 1
    <2>1. decoder[FrameBytes - 1] < first
      BY <1>5 DEF Seen
    <2> QED
      BY <1>4, <1>6, <2>1
  <1>8. \A j \in DOMAIN handled : handled[j] < f /\ (handled[j] + 1) * FrameBytes <= first + 1
    <2> TAKE j \in DOMAIN handled
    <2>1. (handled[j] + 1) * FrameBytes <= f * FrameBytes
      BY <1>5, <1>6 DEF Seen
    <2>2. /\ handled[j] \in Nat /\ handled[j] * FrameBytes \in Nat
          /\ (handled[j] + 1) * FrameBytes = handled[j] * FrameBytes + FrameBytes
      BY FrameFacts
    <2>3. handled[j] * FrameBytes < f * FrameBytes
      BY <1>4, <2>1, <2>2
    <2>4. handled[j] < f
      BY <1>4, <2>2, <2>3, FrameFacts
    <2>5. (handled[j] + 1) * FrameBytes <= first + 1
      BY <1>4, <1>7, <2>1, <2>2
    <2> QED
      BY <2>4, <2>5
  <1>9. \A j \in 1..Len(handled) + 1 : (handled'[j] + 1) * FrameBytes <= first + 1
    <2> TAKE j \in 1..Len(handled) + 1
    <2>1. CASE j = Len(handled) + 1
      BY <1>3, <1>7, <2>1
    <2>2. CASE j # Len(handled) + 1
      <3>1. j \in DOMAIN handled /\ handled'[j] = handled[j]
        BY <1>3, <2>2
      <3> QED
        BY <1>8, <3>1
    <2> QED
      BY <2>1, <2>2
  <1>10. \A i, j \in 1..Len(handled) + 1 : i < j => handled'[i] < handled'[j]
    <2> SUFFICES ASSUME NEW i \in 1..Len(handled) + 1, NEW j \in 1..Len(handled) + 1, i < j
                 PROVE  handled'[i] < handled'[j]
      OBVIOUS
    <2>1. i \in DOMAIN handled /\ handled'[i] = handled[i]
      BY <1>3
    <2>2. CASE j = Len(handled) + 1
      BY <1>3, <1>8, <2>1, <2>2
    <2>3. CASE j # Len(handled) + 1
      <3>1. j \in 1..Len(handled)
        BY <1>2, <2>3
      <3>2. j \in DOMAIN handled /\ handled'[j] = handled[j]
        BY <1>2, <1>3, <3>1
      <3> QED
        BY <2>1, <3>2 DEF Seen
    <2> QED
      BY <2>2, <2>3
  <1>11. Seen(first + 1)'
    <2>1. DOMAIN decoder' = {}
      BY <1>1
    <2> QED
      BY <1>3, <1>9, <1>10, <2>1 DEF Seen
  <1>12. InStep(first + 1)'
    <2> SUFFICES ASSUME errors = 0
                 PROVE  /\ rx' = "on"
                        /\ first + 1 = Len(handled') * FrameBytes + Len(decoder')
                        /\ Len(decoder') <= FrameBytes - 1
                        /\ \A i \in DOMAIN decoder' :
                               decoder'[i] = Len(handled') * FrameBytes + i - 1
                        /\ \A i \in DOMAIN handled' : handled'[i] = i - 1
      BY <1>2 DEF InStep
    <2>1. /\ rx = "on" /\ first = Len(handled) * FrameBytes + Len(decoder)
          /\ decoder[1] = Len(handled) * FrameBytes
          /\ \A i \in DOMAIN handled : handled[i] = i - 1
      BY <1>5 DEF InStep
    <2>2. f = Len(handled)
      <3>1. /\ Len(handled) + 1 \in Nat /\ f + 1 \in Nat
            /\ f * FrameBytes = Len(handled) * FrameBytes
            /\ (Len(handled) + 1) * FrameBytes = Len(handled) * FrameBytes + FrameBytes
        BY <1>4, <1>6, <2>1, FrameFacts
      <3>2. /\ f * FrameBytes < (Len(handled) + 1) * FrameBytes
            /\ Len(handled) * FrameBytes < (f + 1) * FrameBytes
        BY <1>4, <3>1
      <3>3. f < Len(handled) + 1 /\ Len(handled) < f + 1
        BY <1>4, <3>1, <3>2, FrameFacts
      <3>4. \A n, m \in Nat : n < m + 1 /\ m < n + 1 => n = m
        OBVIOUS
      <3> QED
        BY <1>2, <1>4, <3>3, <3>4
    <2>3. Len(decoder') = 0 /\ DOMAIN decoder' = {}
      BY <1>1
    <2>4. first + 1 = (Len(handled) + 1) * FrameBytes
      BY <1>4, <1>5, <2>1, <2>2
    <2>5. \A i \in 1..Len(handled) + 1 : handled'[i] = i - 1
      <3> TAKE i \in 1..Len(handled) + 1
      <3>1. CASE i = Len(handled) + 1
        BY <1>3, <2>2, <3>1
      <3>2. CASE i # Len(handled) + 1
        <4>1. i \in 1..Len(handled)
          BY <1>2, <3>2
        <4> QED
          BY <1>2, <1>3, <2>1, <4>1
      <3> QED
        BY <3>1, <3>2
    <2> QED
      BY <1>2, <1>3, <1>4, <2>1, <2>3, <2>4, <2>5
  <1> QED
    BY <1>3, <1>11, <1>12

LEMMA FramesNext ==
    ASSUME IInv, FramesInv, [Next]_vars
    PROVE  FramesInv'
  <1>1. RxTyped /\ PollTyped
    BY Parts
  <1>2. /\ handled \in Seq(Frames) /\ errors \in Nat
        /\ raced \in BOOLEAN /\ lapped \in BOOLEAN
    BY DEF FramesInv
  <1>3. CASE Receive
    <2>1. UNCHANGED <<handled, decoder, errors, raced, rx>>
      BY <1>3 DEF Receive, pollVars
    <2>2. lapped' \in BOOLEAN /\ (~lapped' => ~lapped)
      BY <1>2, <1>3 DEF Receive
    <2>3. ASSUME ~raced', ~lapped'
          PROVE  Received'
      <3>1. PICK u \in 0..Ring, first \in Nat : Held(u, first) /\ Seen(first) /\ InStep(first)
        BY <2>1, <2>2, <2>3 DEF FramesInv, Received
      <3>2. PICK v \in 0..Ring : Held(v, first)'
        BY <1>1, <1>3, <2>3, <3>1, ReceiveHeld
      <3>3. Seen(first)'
        BY <1>1, <1>2, <2>1, <3>1, SeenLater
      <3>4. InStep(first)'
        BY <2>1, <3>1 DEF InStep
      <3> QED
        BY <3>2, <3>3, <3>4 DEF Received
    <2> QED
      BY <1>2, <2>1, <2>2, <2>3 DEF FramesInv
  <1>4. CASE LineError
    <2>1. /\ UNCHANGED <<handled, decoder, raced, lapped, ring, dma, lastPos, unread, poll>>
          /\ sent' = sent + 1 /\ errors' = errors + 1 /\ rx = "on" /\ rx' = "aborting"
      BY <1>4 DEF LineError, pollVars
    <2>2. ASSUME ~raced', ~lapped'
          PROVE  Received'
      <3>1. PICK u \in 0..Ring, first \in Nat : Held(u, first) /\ Seen(first) /\ InStep(first)
        BY <2>1, <2>2 DEF FramesInv, Received
      <3>2. Held(u, first)'
        <4>1. first + u <= sent'
          BY <1>1, <2>1, <3>1, ReceiverTypes DEF Held
        <4>2. ReadAt' = ReadAt
          BY <2>1 DEF ReadAt
        <4> QED
          BY <2>1, <3>1, <4>1, <4>2 DEF Held
      <3>3. Seen(first)'
        BY <1>1, <1>2, <2>1, <3>1, SeenLater
      <3>4. InStep(first)'
        BY <1>2, <2>1 DEF InStep
      <3> QED
        BY <3>2, <3>3, <3>4 DEF Received
    <2> QED
      BY <1>2, <2>1, <2>2 DEF FramesInv
  <1>5. ASSUME NEW ok \in BOOLEAN, ErrorCallback(ok) \/ TxError(ok)
        PROVE  FramesInv'
    <2>1. Restart(ok) /\ UNCHANGED <<handled, decoder, lapped, ring, sent, poll>>
      BY <1>5 DEF ErrorCallback, TxError, pollVars
    <2>2. errors' \in Nat /\ (errors' = 0 => errors = 0 /\ rx # "on")
      BY <1>2, <1>5 DEF ErrorCallback, TxError
    <2>3. raced' \in BOOLEAN /\ (~raced' => ~raced)
      BY <1>2, <2>1 DEF Restart
    <2>4. ASSUME ~raced', ~lapped'
          PROVE  Received'
      <3>1. PICK u \in 0..Ring, first \in Nat : Held(u, first) /\ Seen(first) /\ InStep(first)
        BY <2>1, <2>3, <2>4 DEF FramesInv, Received
      <3>2. PICK v \in 0..Ring, later \in Nat : first <= later /\ Held(v, later)'
        BY <1>1, <2>1, <2>4, <3>1, RestartHeld
      <3>3. Seen(later)'
        BY <1>1, <1>2, <2>1, <3>1, <3>2, SeenLater
      <3>4. InStep(later)'
        BY <2>2, <3>1 DEF InStep
      <3> QED
        BY <3>2, <3>3, <3>4 DEF Received
    <2> QED
      BY <1>2, <2>1, <2>2, <2>3, <2>4 DEF FramesInv
  <1>6. CASE ReadCounter \/ Begin \/ EndPoll
    <2>1. UNCHANGED <<handled, decoder, errors, raced, lapped, rx>>
      BY <1>6 DEF ReadCounter, Begin, EndPoll, rxVars
    <2>2. ASSUME ~raced', ~lapped'
          PROVE  Received'
      <3>1. PICK u \in 0..Ring, first \in Nat : Held(u, first) /\ Seen(first) /\ InStep(first)
        BY <2>1, <2>2 DEF FramesInv, Received
      <3>2. Held(u, first)'
        BY <1>1, <1>6, <3>1, PollHeld
      <3>3. Seen(first)'
        BY <1>1, <1>2, <2>1, <3>1, SeenLater
      <3>4. InStep(first)'
        BY <2>1, <3>1 DEF InStep
      <3> QED
        BY <3>2, <3>3, <3>4 DEF Received
    <2> QED
      BY <1>2, <2>1, <2>2 DEF FramesInv
  <1>7. CASE Byte \/ \E ack \in BOOLEAN : Frame(ack)
    <2>1. PICK b : AtByte(b)
      BY <1>7 DEF Byte, Frame
    <2>2. UNCHANGED <<errors, raced, lapped>>
      BY <2>1 DEF AtByte
    <2>3. handled' \in Seq(Frames)
      <3>1. CASE Byte
        BY <1>2, <3>1 DEF Byte
      <3>2. CASE \E ack \in BOOLEAN : Frame(ack)
        BY <1>2, <3>2, AppendProperties DEF Frame
      <3> QED
        BY <1>7, <3>1, <3>2
    <2>4. ASSUME ~raced', ~lapped'
          PROVE  Received'
      <3>1. PICK u \in 0..Ring, first \in Nat : Held(u, first) /\ Seen(first) /\ InStep(first)
        BY <2>2, <2>4 DEF FramesInv, Received
      <3>2. \A c : AtByte(c) => c = first
        BY <1>1, <3>1, ByteHeld
      <3>3. u - 1 \in 0..Ring /\ Held(u - 1, first + 1)'
        BY <1>1, <2>1, <3>1, ByteHeld
      <3>4. Seen(first + 1)' /\ InStep(first + 1)'
        BY <1>1, <1>2, <1>7, <3>1, <3>2, ByteSeen, FrameSeen
      <3>5. first + 1 \in Nat
        OBVIOUS
      <3> QED
        BY <3>3, <3>4, <3>5 DEF Received
    <2> QED
      BY <1>2, <2>2, <2>3, <2>4 DEF FramesInv
  <1>8. CASE Send \/ Kick \/ TxComplete \/ UNCHANGED vars
    <2>1. UNCHANGED <<sent, ring, dma, rx, lastPos, unread, errors, raced, lapped,
                      poll, decoder, handled>>
      BY <1>8 DEF Send, Kick, CheckKick, Transmit, TxComplete, vars, rxVars, pollVars
    <2>2. Received => Received'
      <3> SUFFICES ASSUME NEW u \in 0..Ring, NEW first \in Nat,
                          Held(u, first), Seen(first), InStep(first)
                   PROVE  Held(u, first)' /\ Seen(first)' /\ InStep(first)'
        BY DEF Received
      <3>1. ReadAt' = ReadAt
        BY <2>1 DEF ReadAt
      <3>2. Held(u, first)'
        BY <2>1, <3>1 DEF Held
      <3> QED
        BY <2>1, <3>2 DEF Seen, InStep
    <2> QED
      BY <2>1, <2>2 DEF FramesInv
  <1> QED
    BY <1>3, <1>4, <1>5, <1>6, <1>7, <1>8 DEF Next, Poll

(* A frame is dispatched once and in its order (app_link_poll), and without  *)
(* errors none is left out, for any ring and any length of frames: while no  *)
(* error interrupt comes in the middle of a poll and no byte is overwritten  *)
(* before it is read.                                                        *)
THEOREM EachHandledOnce == Spec => []FramesOnce
  <1>1. Init => FramesInv
    <2> SUFFICES ASSUME Init
                 PROVE  FramesInv
      OBVIOUS
    <2>1. /\ handled = <<>> /\ decoder = <<>> /\ sent = 0 /\ dma = 0 /\ lastPos = 0 /\ rx = "on"
          /\ unread = {} /\ errors = 0 /\ raced = FALSE /\ lapped = FALSE /\ poll.pc = "idle"
      BY DEF Init, IdlePoll
    <2>2. 0..0 - 1 = {} /\ 0 + 0 = 0 /\ Cell(0, 0) = 0 /\ 0 \in 0..Ring /\ 0 \in Nat
      BY CellFacts
    <2>3. Held(0, 0)
      BY <2>1, <2>2 DEF Held, ReadAt
    <2>4. /\ DOMAIN handled = {} /\ DOMAIN decoder = {} /\ Len(handled) = 0 /\ Len(decoder) = 0
          /\ handled \in Seq(Frames)
      BY <2>1
    <2>5. Seen(0)
      BY <2>4 DEF Seen
    <2>6. InStep(0)
      BY <2>1, <2>4, FrameFacts DEF InStep
    <2> QED
      BY <2>1, <2>2, <2>3, <2>4, <2>5, <2>6 DEF FramesInv, Received
  <1>2. IInv /\ FramesInv /\ [Next]_vars => FramesInv'
    BY FramesNext
  <1>3. FramesInv => FramesOnce
    BY DEF FramesInv, Received, Seen, InStep, FramesOnce
  <1> QED
    BY <1>1, <1>2, <1>3, Invariance, PTL DEF Spec
=============================================================================
