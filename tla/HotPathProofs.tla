--------------------------- MODULE HotPathProofs ---------------------------
(***************************************************************************)
(* The ring buffer, the snapshots and the alerts of the hot path.  The     *)
(* circular array implements the deque, for every capacity and every set   *)
(* of events: the inductive invariant is TypeOK (head and size agree, and  *)
(* the initialised slots are those behind the head), the rest is modular   *)
(* arithmetic (a write at slot head % Capacity leaves the other slots in   *)
(* the order read_all() walks them).  An alert is settled truly, for every *)
(* set of subscribers, number of retries and calibration whose scores are  *)
(* whole hundredths.                                                       *)
(*                                                                         *)
(* The second half is about the values of the tensor stage.  A window is a *)
(* run of the chain's events, so it is enough to reason about the graph    *)
(* and the matrices of an arbitrary non-empty window.  What they sum is    *)
(* reached by SetLemmas: a sum split by a key is the sum of its parts, and *)
(* a renaming of what is summed changes nothing.  From these two the books *)
(* of the graph balance, the order of the window is immaterial, and the    *)
(* compressed matrix is the dense one.                                     *)
(***************************************************************************)
EXTENDS HotPath, SetLemmas, SequenceTheorems

(* Division with remainder, and the uniqueness of the remainder.            *)
LEMMA ModDiv ==
  ASSUME NEW n \in Nat \ {0}, NEW a \in Int
  PROVE  /\ (a % n) \in 0 .. n-1
         /\ (a \div n) \in Int
         /\ a = (n * (a \div n)) + (a % n)
OBVIOUS

LEMMA ModUnique ==
  ASSUME NEW n \in Nat \ {0}, NEW q \in Int, NEW r \in 0 .. n-1
  PROVE  ((n * q) + r) % n = r
OBVIOUS

LEMMA ModSmall ==
  ASSUME NEW n \in Nat \ {0}, NEW a \in 0 .. n-1
  PROVE  a % n = a
OBVIOUS

(* Walking once around the array comes back to the same slot ...            *)
LEMMA ModAddN ==
  ASSUME NEW n \in Nat \ {0}, NEW a \in Nat
  PROVE  (a + n) % n = a % n
<1> DEFINE q == a \div n
           r == a % n
<1>1. r \in 0 .. n-1 /\ q \in Int /\ a = (n * q) + r
  BY ModDiv
<1> HIDE DEF q, r
<1>2. a + n = (n * (q + 1)) + r
  BY <1>1
<1>3. ((n * (q + 1)) + r) % n = r
  BY <1>1, ModUnique
<1> QED BY <1>1, <1>2, <1>3 DEF r

(* ... and walking less than once around it does not.                       *)
LEMMA ModAddSmall ==
  ASSUME NEW n \in Nat \ {0}, NEW a \in Nat, NEW k \in 1 .. n-1
  PROVE  (a + k) % n # a % n
<1> DEFINE q == a \div n
           r == a % n
<1>1. r \in 0 .. n-1 /\ q \in Int /\ a = (n * q) + r
  BY ModDiv
<1> HIDE DEF q, r
<1>2. CASE r + k < n
  <2>1. a + k = (n * q) + (r + k)
    BY <1>1
  <2>2. ((n * q) + (r + k)) % n = r + k
    BY <1>1, <1>2, ModUnique
  <2> QED BY <1>1, <2>1, <2>2 DEF r
<1>3. CASE r + k >= n
  <2>1. r + k - n \in 0 .. n-1 /\ q + 1 \in Int
    BY <1>1, <1>3
  <2>2. a + k = (n * (q + 1)) + (r + k - n)
    BY <1>1
  <2>3. ((n * (q + 1)) + (r + k - n)) % n = r + k - n
    BY <2>1, ModUnique
  <2> QED BY <1>1, <2>2, <2>3 DEF r
<1> QED BY <1>1, <1>2, <1>3

-----------------------------------------------------------------------------
(* A slot holds an event exactly when the head has passed it: no read of     *)
(* read_all() returns a slot np.empty left unset.                            *)
THEOREM NumpyTypeOK == Spec => []TypeOK
<1> USE CapacityAssumption, MaxWritesAssumption
<1>1. Init => TypeOK
  BY UnsetAssumption DEF Init, TypeOK, Slots
<1>2. TypeOK /\ [Next]_vars => TypeOK'
  <2> SUFFICES ASSUME TypeOK, [Next]_vars PROVE TypeOK'
    OBVIOUS
  <2>1. CASE UNCHANGED vars
    BY <2>1 DEF TypeOK, vars
  <2>2. ASSUME NEW e \in Event, Write(e) PROVE TypeOK'
    <3>1. head \in Nat /\ head < MaxWrites /\ (head % Capacity) \in Slots
      BY <2>2, ModDiv DEF TypeOK, Write, Slots
    <3>2. buf' \in [Slots -> Event \cup {Unset}]
      BY <2>2, <3>1 DEF TypeOK, Write
    <3>3. head' \in 0 .. MaxWrites /\ size' = IF head' < Capacity THEN head' ELSE Capacity
      BY <2>2, <3>1 DEF TypeOK, Write
    <3>4. ASSUME NEW s \in Slots PROVE buf'[s] \in Event <=> s < size'
      <4>1. CASE head < Capacity
        <5>1. head % Capacity = head
          BY <3>1, <4>1, ModSmall
        <5> QED BY <2>2, <3>1, <4>1, <5>1 DEF TypeOK, Write, Slots
      <4>2. CASE head >= Capacity
        BY <2>2, <3>1, <4>2 DEF TypeOK, Write, Slots
      <4> QED BY <3>1, <4>1, <4>2
    <3> QED BY <3>2, <3>3, <3>4 DEF TypeOK
  <2> QED BY <2>1, <2>2 DEF Next
<1> QED BY <1>1, <1>2, PTL DEF Spec

-----------------------------------------------------------------------------
(* What read_all() returns is a sequence of events, as long as size says.    *)
LEMMA ReadAllSeq ==
  ASSUME TypeOK
  PROVE  /\ ReadAll \in Seq(Event)
         /\ Len(ReadAll) = size
         /\ size \in 0 .. Capacity
         /\ head \in Nat
<1> USE CapacityAssumption, MaxWritesAssumption
<1>1. size \in 0 .. Capacity /\ head \in Nat
  BY DEF TypeOK
<1>2. CASE size < Capacity
  <2>1. ReadAll = [i \in 1 .. size |-> buf[i - 1]]
    BY <1>2 DEF ReadAll
  <2>2. \A i \in 1 .. size : buf[i - 1] \in Event
    BY <1>1 DEF TypeOK, Slots
  <2> QED BY <1>1, <2>1, <2>2
<1>3. CASE size = Capacity
  <2>1. ReadAll = [i \in 1 .. Capacity |-> buf[(head + (i - 1)) % Capacity]]
    BY <1>3 DEF ReadAll
  <2>2. \A i \in 1 .. Capacity : ((head + (i - 1)) % Capacity) \in Slots
    BY <1>1, ModDiv DEF Slots
  <2>3. \A i \in 1 .. Capacity : buf[(head + (i - 1)) % Capacity] \in Event
    BY <1>3, <2>2 DEF TypeOK, Slots
  <2> QED BY <1>1, <1>3, <2>1, <2>3
<1> QED BY <1>1, <1>2, <1>3

(* One write of the array is one append of the deque.                        *)
LEMMA WriteRefines ==
  ASSUME TypeOK, TypeOK', NEW e \in Event, Write(e)
  PROVE  Deque!DequeWrite(e)
<1> USE CapacityAssumption, MaxWritesAssumption
<1>1. /\ ReadAll \in Seq(Event) /\ Len(ReadAll) = size
      /\ size \in 0 .. Capacity /\ head \in Nat
  BY ReadAllSeq
<1>2. head < MaxWrites /\ head' = head + 1
  BY DEF Write
<1>3. (ReadAll)' = Deque!AppendBounded(ReadAll, e)
  <2>1. CASE head < Capacity
    <3>1. size = head /\ head % Capacity = head /\ size' = size + 1
      <4>1. size = head /\ size' = size + 1
        BY <1>1, <2>1 DEF TypeOK, Write
      <4>2. head \in 0 .. Capacity - 1
        BY <1>1, <2>1
      <4> QED BY <4>1, <4>2, ModSmall
    <3>2. buf' = [buf EXCEPT ![head] = e]
      BY <3>1 DEF Write
    <3>3. ReadAll = [i \in 1 .. head |-> buf[i - 1]]
      BY <3>1, <2>1 DEF ReadAll
    <3>4. (ReadAll)' = [i \in 1 .. head + 1 |-> buf'[i - 1]]
      <4>1. CASE head + 1 < Capacity
        BY <3>1, <4>1 DEF ReadAll
      <4>2. CASE head + 1 = Capacity
        <5>1. (ReadAll)' = [i \in 1 .. Capacity |-> buf'[(head' + (i - 1)) % Capacity]]
          BY <3>1, <4>2 DEF ReadAll
        <5>2. ASSUME NEW i \in 1 .. Capacity
              PROVE  (head' + (i - 1)) % Capacity = i - 1
          <6>1. (i - 1) \in Nat /\ (i - 1) \in 0 .. Capacity - 1
            OBVIOUS
          <6>2. head' + (i - 1) = (i - 1) + Capacity
            BY <1>1, <1>2, <4>2
          <6>3. ((i - 1) + Capacity) % Capacity = (i - 1) % Capacity
            BY <6>1, ModAddN
          <6>4. (i - 1) % Capacity = i - 1
            BY <6>1, ModSmall
          <6> QED BY <6>2, <6>3, <6>4
        <5> QED BY <4>2, <5>1, <5>2
      <4> QED BY <1>1, <2>1, <4>1, <4>2
    <3>5. buf \in [Slots -> Event \cup {Unset}] /\ head \in Slots
      BY <1>1, <2>1 DEF TypeOK, Slots
    <3>6. \A i \in 1 .. head + 1 : buf'[i - 1] = IF i = head + 1 THEN e ELSE buf[i - 1]
      BY <1>1, <3>2, <3>5, <2>1 DEF Slots
    <3>7. (ReadAll)' = Append(ReadAll, e)
      BY <1>1, <3>1, <3>3, <3>4, <3>6
    <3> QED BY <1>1, <3>1, <2>1, <3>7 DEF Deque!AppendBounded, Deque!Evict
  <2>2. CASE head >= Capacity
    <3>1. size = Capacity /\ size' = Capacity
      BY <1>1, <2>2 DEF TypeOK, Write
    <3>2. ReadAll = [i \in 1 .. Capacity |-> buf[(head + (i - 1)) % Capacity]]
      BY <3>1 DEF ReadAll
    <3>3. (ReadAll)' = [i \in 1 .. Capacity |-> buf'[(head' + (i - 1)) % Capacity]]
      BY <3>1 DEF ReadAll
    <3>4. (head % Capacity) \in Slots
      BY <1>1, ModDiv DEF Slots
    <3>5. ASSUME NEW i \in 1 .. Capacity - 1
          PROVE  buf'[(head' + (i - 1)) % Capacity] = ReadAll[i + 1]
      <4>1. head' + (i - 1) = head + i
        BY <1>1, <1>2
      <4>2. (head + i) % Capacity # head % Capacity
        BY <1>1, ModAddSmall
      <4>3. ((head + i) % Capacity) \in Slots
        BY <1>1, ModDiv DEF Slots
      <4>4. buf'[(head + i) % Capacity] = buf[(head + i) % Capacity]
        BY <3>4, <4>2, <4>3 DEF TypeOK, Write
      <4>5. ReadAll[i + 1] = buf[(head + i) % Capacity]
        <5>1. (i + 1) \in 1 .. Capacity /\ head + ((i + 1) - 1) = head + i
          BY <1>1
        <5> QED BY <3>2, <5>1
      <4> QED BY <4>1, <4>4, <4>5
    <3>6. buf'[(head' + (Capacity - 1)) % Capacity] = e
      <4>1. head' + (Capacity - 1) = head + Capacity
        BY <1>1, <1>2
      <4>2. (head + Capacity) % Capacity = head % Capacity
        BY <1>1, ModAddN
      <4> QED BY <3>4, <4>1, <4>2 DEF TypeOK, Write
    <3>7. /\ (ReadAll)' \in Seq(Event)
          /\ Len((ReadAll)') = Capacity
          /\ \A i \in 1 .. Capacity - 1 : (ReadAll)'[i] = ReadAll[i + 1]
          /\ (ReadAll)'[Capacity] = e
      <4>1. \A i \in 1 .. Capacity : (ReadAll)'[i] = buf'[(head' + (i - 1)) % Capacity]
        BY <3>3
      <4>2. (ReadAll)' \in Seq(Event) /\ Len((ReadAll)') = Capacity
        <5>1. \A i \in 1 .. Capacity - 1 : ReadAll[i + 1] \in Event
          BY <1>1, <3>1
        <5>2. \A i \in 1 .. Capacity : buf'[(head' + (i - 1)) % Capacity] \in Event
          BY <3>5, <3>6, <5>1
        <5> QED BY <3>3, <5>2
      <4> QED BY <3>5, <3>6, <4>1, <4>2
    <3>8. Append(Tail(ReadAll), e) = (ReadAll)'
      BY <1>1, <3>1, <3>7
    <3> QED BY <1>1, <3>1, <3>8 DEF Deque!AppendBounded, Deque!Evict
  <2> QED BY <1>1, <2>1, <2>2
<1> QED BY <1>2, <1>3 DEF Deque!DequeWrite

(* The missing guard of n >= Len in the deque's slice is harmless: -n        *)
(* clamps at the front.                                                      *)
LEMMA ReadLatestSame == TypeOK => ReadLatestAgrees
<1> SUFFICES ASSUME TypeOK, NEW n \in -1 .. Capacity + 1
             PROVE  ReadLatest(n) = Deque!ReadLatest(n)
  BY DEF ReadLatestAgrees
<1> USE CapacityAssumption
<1>1. ReadAll \in Seq(Event) /\ Len(ReadAll) \in Nat /\ n \in Int
  BY ReadAllSeq
<1>2. CASE n <= 0
  BY <1>2 DEF ReadLatest, Deque!ReadLatest
<1>3. CASE n > 0 /\ n < Len(ReadAll)
  BY <1>1, <1>3 DEF ReadLatest, Deque!ReadLatest
<1>4. CASE n > 0 /\ ~(n < Len(ReadAll))
  <2>1. Deque!ReadLatest(n) = SubSeq(ReadAll, 1, Len(ReadAll))
    <3>1. ASSUME NEW s, Len(s) \in Nat, ~(n < Len(s))
          PROVE  Deque!SliceFrom(s, -n) = SubSeq(s, 1, Len(s))
      <4>1. ~(-n >= 0) /\ ~(Len(s) + -n > 0)
        BY <1>1, <1>4, <3>1
      <4>2. Deque!SliceFrom(s, -n) = SubSeq(s, 0 + 1, Len(s))
        BY <4>1 DEF Deque!SliceFrom
      <4> QED BY <4>2
    <3>2. Deque!ReadLatest(n) = Deque!SliceFrom(ReadAll, -n)
      BY <1>1, <1>4 DEF Deque!ReadLatest
    <3> QED BY <1>1, <1>4, <3>1, <3>2
  <2>2. SubSeq(ReadAll, 1, Len(ReadAll)) = ReadAll
    BY <1>1
  <2> QED BY <1>1, <1>4, <2>1, <2>2 DEF ReadLatest
<1> QED BY <1>1, <1>2, <1>3, <1>4

(* NumpyRingBuffer is the "behavioral equivalent to DequeRingBuffer" its     *)
(* docstring promises: every behaviour of the array is one of the deque, and *)
(* both read_latest() return the same.                                       *)
THEOREM NumpyImplementsDeque == Spec => ImplementsDeque
<1> USE CapacityAssumption, MaxWritesAssumption
<1>1. Init => Deque!DequeInit
  BY DEF Init, Deque!DequeInit, ReadAll
<1>2. TypeOK /\ TypeOK' /\ [Next]_vars => [Deque!DequeNext]_(Deque!dequeVars)
  <2> SUFFICES ASSUME TypeOK, TypeOK', [Next]_vars
               PROVE  [Deque!DequeNext]_(Deque!dequeVars)
    OBVIOUS
  <2>1. CASE UNCHANGED vars
    BY <2>1 DEF vars, Deque!dequeVars, ReadAll
  <2>2. ASSUME NEW e \in Event, Write(e) PROVE Deque!DequeNext
    BY <2>2, WriteRefines DEF Deque!DequeNext
  <2> QED BY <2>1, <2>2 DEF Next
<1> QED BY <1>1, <1>2, NumpyTypeOK, ReadLatestSame, PTL DEF Spec, Deque!DequeSpec, ImplementsDeque

(* The path as a whole only adds reads to the writes of the ring ...         *)
LEMMA HotPathIsRing == HotSpec => Spec
<1>1. HotInit => Init
  BY DEF HotInit
<1>2. [HotNext]_hotVars => [Next]_vars
  BY DEF HotNext, hotVars, Next, vars
<1> QED BY <1>1, <1>2, PTL DEF HotSpec, Spec

(* ... so the ring of the hot path implements the deque, whatever is         *)
(* evaluated and delivered meanwhile (ring_buffer.py:142-196).               *)
THEOREM HotPathImplementsDeque == HotSpec => ImplementsDeque
BY HotPathIsRing, NumpyImplementsDeque, PTL

-----------------------------------------------------------------------------
(* Every score of a whole borrow count has its hundredths whole: true of the *)
(* calibrated range, 32 - 16 (baseline.py:61-62).                            *)
WholeHundredths == 10000 % (High - Low) = 0

Width == High - Low
Scores == {[num |-> 10000 * k, den |-> Width] : k \in 0 .. Width}
          \cup {[num |-> 0, den |-> 1]}

(* What a call holds is what it was evaluated to, and each of its deliveries *)
(* has failed as often as its request says.                                  *)
AlertHeld == \E s \in Scores : alert = FormatAlert(s)
DeliveryOK(u) ==
  /\ post[u] \in {"sent", "taken", "ok"} => tries[u] <= Retries
  /\ post[u] \in {"taken", "ok"} => u \in received
  /\ post[u] = "failed" => tries[u] = Retries + 1
Deliveries ==
  /\ post \in [DOMAIN post -> {"sent", "taken", "ok", "failed"}]
  /\ tries \in [DOMAIN post -> Nat]
  /\ \A u \in DOMAIN post : DeliveryOK(u)
  /\ phase = "returned" => \A u \in DOMAIN post : post[u] \in {"ok", "failed"}

AlertsInv == AlertHeld /\ Deliveries

(* A fraction d * x over d is x exactly, and is compared as x is.            *)
LEMMA WholeFraction ==
  ASSUME NEW d \in Nat \ {0}, NEW x \in Nat, NEW c \in Nat
  PROVE  /\ (d * x) \div d = x /\ (d * x) % d = 0
         /\ d * x >= c * d <=> x >= c
<1>1. (d * x) % d = 0
  <2>1. 0 \in 0 .. d - 1 /\ d * x + 0 = d * x /\ d * x \in Int
    OBVIOUS
  <2>2. ((d * x) + 0) % d = 0
    BY <2>1, ModUnique
  <2> QED BY <2>1, <2>2
<1>2. (d * x) \div d = x
  <2>1. PICK a \in Int : a = d * x
    OBVIOUS
  <2> DEFINE q == a \div d
  <2>2. q \in Int /\ a = (d * q) + (a % d)
    BY ModDiv
  <2>3. a % d = 0
    BY <1>1, <2>1
  <2> HIDE DEF q
  <2>4. d * q = d * x
    BY <2>1, <2>2, <2>3
  <2>5. q = x
    BY <2>2, <2>4
  <2> QED BY <2>1, <2>5 DEF q
<1>3. d * x >= c * d <=> x >= c
  <2>1. ASSUME x >= c PROVE d * x >= c * d
    BY <2>1
  <2>2. ASSUME x < c PROVE d * x < c * d
    BY <2>2
  <2> QED BY <2>1, <2>2
<1> QED BY <1>1, <1>2, <1>3

(* The level of the score is the level of its rounding, and in its band.     *)
LEMMA AlertOfScore ==
  ASSUME WholeHundredths, NEW s \in Scores, FormatAlert(s).level # "NONE"
  PROVE  /\ ValidAlert(FormatAlert(s).payload)
         /\ FormatAlert(s).payload.alert_level = FormatAlert(s).level
<1> DEFINE d == Width
<1>1. d \in Nat \ {0}
  BY ScoreAssumption DEF Width
<1>2. CASE s = [num |-> 0, den |-> 1]
  BY <1>2 DEF FormatAlert, AlertLevel
<1>3. CASE \E k \in 0 .. d : s = [num |-> 10000 * k, den |-> d]
  <2> HIDE DEF d
  <2>1. PICK k \in 0 .. d : s = [num |-> 10000 * k, den |-> d]
    BY <1>3
  <2>2. PICK m \in Nat : 10000 = d * m
    <3> DEFINE m == 10000 \div d
    <3>1. m \in Int /\ 10000 = (d * m) + (10000 % d)
      BY <1>1, ModDiv
    <3>2. 10000 % d = 0
      BY DEF WholeHundredths, Width, d
    <3> HIDE DEF m
    <3>3. 10000 = d * m /\ m >= 0
      BY <1>1, <3>1, <3>2
    <3> QED BY <3>1, <3>3
  <2> DEFINE x == m * k
  <2>3. k \in Nat /\ k <= d
    BY <1>1, <2>1
  <2>4. x \in Nat /\ 10000 * k = d * x
    BY <1>1, <2>2, <2>3
  <2>5. x <= 10000
    <3>1. m * k <= m * d
      BY <1>1, <2>2, <2>3
    <3> QED BY <1>1, <2>2, <3>1
  <2> HIDE DEF x
  <2>6. s.num = d * x /\ s.den = d
    BY <2>1, <2>4
  <2>7. /\ (d * x) \div d = x /\ (d * x) % d = 0
        /\ (d * x >= 9000 * d <=> x >= 9000) /\ (d * x >= 7000 * d <=> x >= 7000)
    <3>1. x \in Nat
      BY <2>4
    <3> QED BY <1>1, <3>1, WholeFraction
  <2>8. Rounded(s) = [num |-> x, den |-> 1]
    BY <1>1, <2>6, <2>7 DEF Rounded
  <2>9. AlertLevel(s) = IF x >= 9000 THEN "RED" ELSE IF x >= 7000 THEN "YELLOW" ELSE "NONE"
    BY <2>6, <2>7 DEF AlertLevel
  <2>10. AlertLevel(Rounded(s)) = AlertLevel(s)
    BY <2>4, <2>8, <2>9 DEF AlertLevel
  <2>11. FormatAlert(s).payload = [fragility_score |-> [num |-> x, den |-> 1],
                                   alert_level |-> AlertLevel(s)]
         /\ FormatAlert(s).level = AlertLevel(s)
    BY <2>8, <2>10 DEF FormatAlert
  <2>12. ValidAlert(FormatAlert(s).payload)
    <3>1. /\ FormatAlert(s).payload.fragility_score.num = x
          /\ FormatAlert(s).payload.alert_level = AlertLevel(s)
      BY <2>11
    <3>2. /\ AlertLevel(s) = "RED" => x \in 9000 .. 10000
          /\ AlertLevel(s) = "YELLOW" => x \in 7000 .. 8999
          /\ AlertLevel(s) \in {"RED", "YELLOW"}
      BY <2>4, <2>5, <2>9, <2>11
    <3> QED BY <3>1, <3>2 DEF ValidAlert
  <2> QED BY <2>11, <2>12
<1> QED BY <1>2, <1>3 DEF Scores

LEMMA EvaluateKeeps ==
  ASSUME TypeOK, NEW subscribers \in SUBSET Subscriber, Evaluate(ReadAll, subscribers)
  PROVE  AlertHeld' /\ Deliveries'
<1> DEFINE rate == BorrowActivity(ReadAll)
           score == FragilityScore(rate)
<1>1. rate \in Nat
  <2>1. ReadAll \in Seq(Event)
    BY ReadAllSeq
  <2>2. Len(ReadAll) \in Nat /\ DOMAIN ReadAll = 1 .. Len(ReadAll)
    BY <2>1, LenProperties
  <2> DEFINE D == {i \in DOMAIN ReadAll : ReadAll[i].type = "borrow"}
  <2>3. D \in SUBSET (1 .. Len(ReadAll))
    BY <2>2
  <2>4. \A n \in Nat : IsFiniteSet(1 .. n)
    BY FS_Interval
  <2> HIDE DEF D
  <2>5. IsFiniteSet(D)
    BY <2>2, <2>3, <2>4, FS_Subset
  <2>6. Cardinality(D) \in Nat
    BY <2>5, FS_CardinalityType
  <2> QED BY <2>6 DEF BorrowActivity, D
<1> HIDE DEF rate
<1>2. score \in Scores
  <2>1. \E k \in 0 .. Width : score = [num |-> 10000 * k, den |-> Width]
    <3> DEFINE up == IF rate < Low THEN 0 ELSE rate - Low
               k == IF up > High - Low THEN High - Low ELSE up
    <3>1. k \in 0 .. Width
      BY <1>1, ScoreAssumption DEF Width
    <3>2. score = [num |-> 10000 * k, den |-> Width]
      BY DEF FragilityScore, Width
    <3> QED BY <3>1, <3>2
  <2> QED BY <2>1 DEF Scores
<1>3. AlertHeld'
  <2>1. alert' = FormatAlert(score)
    BY DEF Evaluate, rate
  <2> HIDE DEF score
  <2> QED BY <1>2, <2>1 DEF AlertHeld
<1>4. Deliveries'
  <2>1. PICK D : post' = [u \in D |-> "sent"] /\ (phase' = "returned" => D = {})
    BY DEF Evaluate
  <2>2. DOMAIN post' = D /\ tries' = [u \in D |-> 0]
    BY <2>1 DEF Evaluate
  <2> QED BY <2>1, <2>2, RetriesAssumption DEF Deliveries, DeliveryOK
<1> QED BY <1>3, <1>4

LEMMA DeliverKeeps ==
  ASSUME Deliveries, Deliver
  PROVE  alert' = alert /\ Deliveries'
<1>1. ASSUME NEW u \in Subscriber, Take(u) \/ Answered(u) \/ AttemptFails(u)
      PROVE  alert' = alert /\ Deliveries'
  <2>1. /\ u \in DOMAIN post /\ phase' = phase /\ alert' = alert /\ phase = "sending"
        /\ received \subseteq received'
        /\ \E x \in {"sent", "taken", "ok", "failed"} : post' = [post EXCEPT ![u] = x]
        /\ tries' = tries \/ tries' = [tries EXCEPT ![u] = @ + 1]
    BY <1>1 DEF Take, Answered, AttemptFails
  <2>2. /\ DOMAIN post' = DOMAIN post
        /\ post' \in [DOMAIN post -> {"sent", "taken", "ok", "failed"}]
        /\ tries' \in [DOMAIN post -> Nat]
    BY <2>1 DEF Deliveries
  <2>3. ASSUME NEW v \in DOMAIN post PROVE DeliveryOK(v)'
    <3>0. DeliveryOK(v) /\ tries[v] \in Nat
      BY DEF Deliveries
    <3>1. CASE v # u
      <4>1. post'[v] = post[v] /\ tries'[v] = tries[v]
        BY <2>1, <3>1 DEF Deliveries
      <4> QED BY <2>1, <3>0, <4>1 DEF DeliveryOK
    <3>2. CASE v = u
      <4>1. CASE Take(u)
        BY <3>0, <3>2, <4>1 DEF Take, DeliveryOK, Deliveries
      <4>2. CASE Answered(u)
        BY <3>0, <3>2, <4>2 DEF Answered, DeliveryOK, Deliveries
      <4>3. CASE AttemptFails(u)
        <5>1. /\ tries'[u] = tries[u] + 1
              /\ post'[u] = IF tries[u] < Retries THEN "sent" ELSE "failed"
              /\ tries[u] <= Retries
          BY <3>0, <3>2, <4>3 DEF AttemptFails, DeliveryOK, Deliveries
        <5> QED BY <3>0, <3>2, <5>1, RetriesAssumption DEF DeliveryOK
      <4> QED BY <1>1, <4>1, <4>2, <4>3
    <3> QED BY <3>1, <3>2
  <2>4. \A v \in DOMAIN post' : DeliveryOK(v)'
    BY <2>2, <2>3
  <2> QED BY <2>1, <2>2, <2>4 DEF Deliveries
<1>2. CASE Finish \/ Cancel
  BY <1>2 DEF Finish, Cancel, Deliveries, DeliveryOK
<1> QED BY <1>1, <1>2 DEF Deliver

(* The ring has its type and the alert its invariant, over writes,           *)
(* evaluations and deliveries in any order.                                  *)
THEOREM HotPathInvariant == HotSpec => [](TypeOK /\ AlertsInv)
<1>1. HotSpec => []TypeOK
  BY HotPathIsRing, NumpyTypeOK, PTL
<1>2. HotInit => AlertsInv
  <2> SUFFICES ASSUME HotInit PROVE AlertsInv
    OBVIOUS
  <2>1. AlertHeld
    BY DEF HotInit, AlertsInit, AlertHeld, Scores
  <2>2. Deliveries
    BY DEF HotInit, AlertsInit, Deliveries
  <2> QED BY <2>1, <2>2 DEF AlertsInv
<1>3. TypeOK /\ AlertsInv /\ [HotNext]_hotVars => AlertsInv'
  <2> SUFFICES ASSUME TypeOK, AlertsInv, [HotNext]_hotVars PROVE AlertsInv'
    OBVIOUS
  <2>1. CASE UNCHANGED alertVars
    BY <2>1 DEF AlertsInv, AlertHeld, Deliveries, DeliveryOK, alertVars
  <2>2. CASE \E subscribers \in SUBSET Subscriber : Evaluate(ReadAll, subscribers)
    BY <2>2, EvaluateKeeps DEF AlertsInv
  <2>3. CASE Deliver
    <3>1. alert' = alert /\ Deliveries'
      BY <2>3, DeliverKeeps DEF AlertsInv
    <3> QED BY <3>1 DEF AlertsInv, AlertHeld
  <2> QED BY <2>1, <2>2, <2>3 DEF HotNext, hotVars
<1> QED BY <1>1, <1>2, <1>3, PTL DEF HotSpec

(* Every alert passes its schema with the level the caller is told, and the  *)
(* outcome reported for each subscriber is what happened to it (payload.py,  *)
(* webhook.py:25-34), in a calibration like the program's.                   *)
THEOREM AlertsAreTrue == ASSUME WholeHundredths PROVE HotSpec => []AlertsSettled
<1>1. AlertsInv => AlertsSettled
  <2> SUFFICES ASSUME AlertsInv PROVE AlertsSettled
    OBVIOUS
  <2>1. PICK s \in Scores : alert = FormatAlert(s)
    BY DEF AlertsInv, AlertHeld
  <2>2. alert.level # "NONE" => /\ ValidAlert(alert.payload)
                                /\ alert.payload.alert_level = alert.level
    BY <2>1, AlertOfScore
  <2>3. ASSUME phase = "returned", NEW u \in DOMAIN post
        PROVE  \/ post[u] = "ok" /\ u \in received /\ tries[u] <= Retries
               \/ post[u] = "failed" /\ tries[u] = Retries + 1
    BY <2>3 DEF AlertsInv, Deliveries, DeliveryOK
  <2> QED BY <2>2, <2>3 DEF AlertsSettled
<1> QED BY <1>1, HotPathInvariant, PTL

-----------------------------------------------------------------------------
Window == {w \in Seq(Event) : w # << >>}

(* The places and the fields of a window.                                  *)
LEMMA WindowFacts ==
  ASSUME NEW w \in Window
  PROVE  /\ IsFiniteSet(DOMAIN w) /\ DOMAIN w # {} /\ DOMAIN w \subseteq Int
         /\ \A i \in DOMAIN w : /\ w[i] \in Event
                                /\ w[i].pool \in Int /\ w[i].block \in Int
                                /\ w[i].ts \in 0 .. Span /\ w[i].ts \in Int
                                /\ w[i].token \in [1 .. 2 -> Int]
                                /\ w[i].amount \in [1 .. 2 -> Int]
<1>1. w \in Seq(Event) /\ w # << >>
  BY DEF Window
<1>2. DOMAIN w = 1 .. Len(w) /\ Len(w) \in Nat /\ Len(w) # 0
  BY <1>1, LenProperties, EmptySeq
<1>3. IsFiniteSet(DOMAIN w)
  BY <1>2, FS_Interval
<1>4. \A i \in DOMAIN w : w[i] \in Event
  BY <1>1, <1>2, ElementOfSeq
<1>5. DOMAIN w # {} /\ DOMAIN w \subseteq Int
  BY <1>2
<1>6. \A e \in Event : e.ts \in Int
  BY WindowAssumption, DecayAssumption
<1> QED BY <1>3, <1>4, <1>5, <1>6, WindowAssumption

(* A window has finitely many sides, each moves a natural amount.          *)
LEMMA SidesFacts ==
  ASSUME NEW w \in Window
  PROVE  /\ IsFiniteSet(Sides(w))
         /\ \A s \in Sides(w) : /\ s[1] \in DOMAIN w /\ s[2] \in 1 .. 2 /\ s = <<s[1], s[2]>>
                                /\ Pool(w, s) \in Int /\ Token(w, s) \in Int
                                /\ Moved(w)[s] \in Nat
<1>1. IsFiniteSet(Sides(w))
  <2>1. IsFiniteSet({1, 2})
    <3>1. IsFiniteSet({1})
      BY FS_Singleton
    <3>2. IsFiniteSet({1} \cup {2})
      BY <3>1, FS_AddElement
    <3>3. {1} \cup {2} = {1, 2}
      OBVIOUS
    <3> QED BY <3>2, <3>3
  <2>2. IsFiniteSet((DOMAIN w) \X {1, 2})
    BY <2>1, WindowFacts, FS_Product
  <2>3. Sides(w) \in SUBSET ((DOMAIN w) \X {1, 2})
    BY DEF Sides
  <2> QED BY <2>2, <2>3, FS_Subset
<1>2. ASSUME NEW s \in Sides(w)
      PROVE  /\ s[1] \in DOMAIN w /\ s[2] \in 1 .. 2 /\ s = <<s[1], s[2]>>
             /\ Pool(w, s) \in Int /\ Token(w, s) \in Int
             /\ Moved(w)[s] \in Nat
  <2>1. s[1] \in DOMAIN w /\ s[2] \in 1 .. 2 /\ s = <<s[1], s[2]>>
    BY DEF Sides
  <2>2. Pool(w, s) \in Int /\ Token(w, s) \in Int
    BY <2>1, WindowFacts DEF Pool, Token
  <2>3. w[s[1]].amount[s[2]] \in Int
    BY <2>1, WindowFacts
  <2>4. Moved(w)[s] = Abs(w[s[1]].amount[s[2]])
    BY DEF Moved
  <2>5. Moved(w)[s] \in Nat
    BY <2>3, <2>4 DEF Abs
  <2> QED BY <2>1, <2>2, <2>5
<1> QED BY <1>1, <1>2

(* So the volume of a (pool, token) is a natural number.                   *)
LEMMA SidesOfFacts ==
  ASSUME NEW w \in Window, NEW p, NEW t
  PROVE  /\ IsFiniteSet(SidesOf(w, p, t)) /\ SidesOf(w, p, t) \subseteq Sides(w)
         /\ Volume(w, p, t) \in Nat
<1>1. SidesOf(w, p, t) \in SUBSET Sides(w)
  BY DEF SidesOf
<1>2. IsFiniteSet(SidesOf(w, p, t))
  BY <1>1, SidesFacts, FS_Subset
<1>3. Sum(Moved(w), SidesOf(w, p, t)) \in Nat
  BY <1>1, <1>2, SidesFacts, SumNat
<1> QED BY <1>1, <1>2, <1>3 DEF Volume, Sum

(* Pools, tokens and keys are finite sets.                                 *)
LEMMA NamesFinite ==
  ASSUME NEW w \in Window
  PROVE  /\ IsFiniteSet(Pools(w)) /\ Pools(w) # {} /\ Pools(w) \subseteq Int
         /\ IsFiniteSet(Tokens(w)) /\ Tokens(w) \subseteq Int
         /\ IsFiniteSet(Keys(w))
         /\ \A p : PoolTokens(w, p) \subseteq Tokens(w) /\ IsFiniteSet(PoolTokens(w, p))
         /\ \A t : TokenPools(w, t) \subseteq Pools(w) /\ IsFiniteSet(TokenPools(w, t))
<1>1. IsFiniteSet(Pools(w))
  <2> DEFINE f == [i \in DOMAIN w |-> w[i].pool]
  <2>1. Pools(w) = ImageOf(f, DOMAIN w)
    BY DEF Pools, ImageOf
  <2> HIDE DEF f
  <2> QED BY <2>1, WindowFacts, ImageFinite
<1>2. IsFiniteSet(Tokens(w))
  <2> DEFINE f == [s \in Sides(w) |-> Token(w, s)]
  <2>1. Tokens(w) = ImageOf(f, Sides(w))
    BY DEF Tokens, ImageOf
  <2> HIDE DEF f
  <2> QED BY <2>1, SidesFacts, ImageFinite
<1>3. IsFiniteSet(Keys(w))
  <2> DEFINE f == [s \in Sides(w) |-> <<Pool(w, s), Token(w, s)>>]
  <2>1. Keys(w) = ImageOf(f, Sides(w))
    BY DEF Keys, ImageOf
  <2> HIDE DEF f
  <2> QED BY <2>1, SidesFacts, ImageFinite
<1>4. Pools(w) # {} /\ Pools(w) \subseteq Int
  BY WindowFacts DEF Pools
<1>5. Tokens(w) \subseteq Int
  BY SidesFacts DEF Tokens
<1>6. \A p : PoolTokens(w, p) \in SUBSET Tokens(w)
  BY DEF PoolTokens
<1>7. \A t : TokenPools(w, t) \in SUBSET Pools(w)
  BY DEF TokenPools
<1> QED BY <1>1, <1>2, <1>3, <1>4, <1>5, <1>6, <1>7, FS_Subset

(* The times of a window and of its parts, as build_graph takes them.      *)
LEMMA Times ==
  ASSUME NEW w \in Window
  PROVE  /\ Now(w) \in 0 .. Span /\ \A i \in DOMAIN w : w[i].ts <= Now(w)
         /\ \A p, t : SidesOf(w, p, t) # {} => Latest(w, p, t) \in 0 .. Now(w)
<1>0. Span \in Nat
  BY DecayAssumption
<1>1. Now(w) \in 0 .. Span /\ \A i \in DOMAIN w : w[i].ts <= Now(w)
  <2> DEFINE f == [i \in DOMAIN w |-> w[i].ts]
             T == ImageOf(f, DOMAIN w)
  <2>1. T = {w[i].ts : i \in DOMAIN w}
    BY DEF ImageOf
  <2>2. IsFiniteSet(T)
    BY WindowFacts, ImageFinite
  <2>3. T \in SUBSET Int /\ T # {} /\ \A x \in T : x \in 0 .. Span
    <3>1. DOMAIN w # {} /\ \A i \in DOMAIN w : w[i].ts \in 0 .. Span /\ w[i].ts \in Int
      BY WindowFacts
    <3> HIDE DEF T
    <3> QED BY <2>1, <3>1
  <2>4. \A i \in DOMAIN w : w[i].ts \in T
    BY <2>1
  <2> HIDE DEF T
  <2>5. Max(T) \in T /\ \A x \in T : x <= Max(T)
    BY <2>2, <2>3, MaxIs
  <2>6. Now(w) = Max(T)
    BY <2>1 DEF Now
  <2> QED BY <2>3, <2>4, <2>5, <2>6
<1>2. ASSUME NEW p, NEW t, SidesOf(w, p, t) # {}
      PROVE  Latest(w, p, t) \in 0 .. Now(w)
  <2> DEFINE f == [s \in SidesOf(w, p, t) |-> w[s[1]].ts]
             T == ImageOf(f, SidesOf(w, p, t))
  <2>1. T = {w[s[1]].ts : s \in SidesOf(w, p, t)}
    BY DEF ImageOf
  <2>2. IsFiniteSet(T)
    BY SidesOfFacts, ImageFinite
  <2>3. \A s \in SidesOf(w, p, t) : w[s[1]].ts \in 0 .. Now(w)
    <3>1. \A s \in SidesOf(w, p, t) : s[1] \in DOMAIN w
      BY SidesOfFacts, SidesFacts
    <3> QED BY <1>0, <1>1, <3>1, WindowFacts
  <2>4. T \in SUBSET Int /\ T # {} /\ \A x \in T : x \in 0 .. Now(w)
    <3>1. T \subseteq 0 .. Now(w) /\ T # {}
      BY <1>2, <2>1, <2>3
    <3>2. 0 .. Now(w) \subseteq Int
      BY <1>0, <1>1
    <3> QED BY <3>1, <3>2
  <2> HIDE DEF T
  <2>5. Max(T) \in T
    BY <2>2, <2>4, MaxIs
  <2>6. Latest(w, p, t) = Max(T)
    BY <2>1 DEF Latest
  <2> QED BY <2>4, <2>5, <2>6
<1> QED BY <1>1, <1>2

-----------------------------------------------------------------------------
LEMMA MaxOfTwo == \A a, b \in Int : Max({a, b}) \in {a, b} /\ Min({a, b}) \in {a, b}
<1> SUFFICES ASSUME NEW a \in Int, NEW b \in Int
             PROVE  Max({a, b}) \in {a, b} /\ Min({a, b}) \in {a, b}
  OBVIOUS
<1>1. (\A y \in {a, b} : a >= y) \/ (\A y \in {a, b} : b >= y)
  OBVIOUS
<1>2. (\A y \in {a, b} : a <= y) \/ (\A y \in {a, b} : b <= y)
  OBVIOUS
<1>3. Max({a, b}) \in {a, b}
  BY <1>1 DEF Max
<1>4. Min({a, b}) \in {a, b}
  BY <1>2 DEF Min
<1> QED BY <1>3, <1>4

(* A raw weight is a natural number: no edge is newer than the window.     *)
LEMMA EdgeRaw ==
  ASSUME NEW w \in Window, NEW vol \in Nat, NEW ts \in 0 .. Now(w),
         NEW kind \in {"liquidity_flow", "borrow_position", "shared_collateral"},
         NEW src, NEW dst, NEW via
  PROVE  /\ Edge(w, src, dst, kind, via, vol, ts).raw \in Nat
         /\ Edge(w, src, dst, kind, via, vol, ts).src = src
         /\ Edge(w, src, dst, kind, via, vol, ts).dst = dst
<1>1. Corr[kind] \in Nat
  BY DEF Corr
<1>2. Decay[Now(w) - ts] \in Nat
  <2>1. Now(w) \in 0 .. Span /\ Span \in Nat /\ Decay \in [0 .. Span -> Nat]
    BY Times, DecayAssumption
  <2>2. Now(w) - ts \in 0 .. Span
    BY <2>1
  <2> QED BY <2>1, <2>2
<1>3. \A a, b \in Nat : a * b \in Nat
  OBVIOUS
<1>4. vol * Corr[kind] \in Nat
  BY <1>1, <1>3
<1>5. vol * Corr[kind] * Decay[Now(w) - ts] \in Nat
  BY <1>2, <1>3, <1>4
<1> QED BY <1>5 DEF Edge

(* What pool_token_vol and pool_token_ts hold for a token of a pool.       *)
LEMMA PoolTokensFacts ==
  ASSUME NEW w \in Window, NEW p, NEW t \in PoolTokens(w, p)
  PROVE  t \in Tokens(w) /\ Volume(w, p, t) \in Nat /\ Latest(w, p, t) \in 0 .. Now(w)
<1>1. t \in Tokens(w) /\ SidesOf(w, p, t) # {}
  BY DEF PoolTokens
<1> QED BY <1>1, SidesOfFacts, Times

TokenKind(w, p) == IF PoolProtocol(w, p) = "uniswap_v3" THEN "liquidity_flow"
                                                        ELSE "borrow_position"
WholeVolume(w, p) == SumFunction([t \in PoolTokens(w, p) |-> Volume(w, p, t)])

LEMMA PoolVolume ==
  ASSUME NEW w \in Window, NEW p
  PROVE  WholeVolume(w, p) \in Nat
<1> DEFINE f == [t \in PoolTokens(w, p) |-> Volume(w, p, t)]
<1>1. DOMAIN f = PoolTokens(w, p) /\ \A t \in PoolTokens(w, p) : f[t] \in Nat
  BY PoolTokensFacts
<1> HIDE DEF f
<1>2. Sum(f, PoolTokens(w, p)) \in Nat
  BY <1>1, NamesFinite, SumNat
<1>3. SumFunction(f) \in Nat
  BY <1>1, <1>2, SumFunctionIs
<1> QED BY <1>3 DEF f, WholeVolume

PoolTimes(w, p) == {Latest(w, p, t) : t \in PoolTokens(w, p)}
                   \cup (IF PoolTokens(w, p) = {} THEN {Now(w)} ELSE {})

(* The time of a protocol edge lies in the window, with tokens and         *)
(* without.                                                                *)
LEMMA PoolTime ==
  ASSUME NEW w \in Window, NEW p
  PROVE  Max(PoolTimes(w, p)) \in 0 .. Now(w)
<1> DEFINE f == [t \in PoolTokens(w, p) |-> Latest(w, p, t)]
<1>0. Now(w) \in 0 .. Now(w) /\ 0 .. Now(w) \subseteq Int
  BY Times, DecayAssumption
<1>1. ImageOf(f, PoolTokens(w, p)) = {Latest(w, p, t) : t \in PoolTokens(w, p)}
  BY DEF ImageOf
<1>2. IsFiniteSet(ImageOf(f, PoolTokens(w, p)))
  <2> HIDE DEF f
  <2> QED BY NamesFinite, ImageFinite
<1>3. CASE PoolTokens(w, p) = {}
  <2>1. PoolTimes(w, p) = {Now(w)}
    BY <1>3 DEF PoolTimes
  <2>2. Max({Now(w)}) = Now(w)
    BY <1>0 DEF Max
  <2> QED BY <1>0, <2>1, <2>2
<1>4. CASE PoolTokens(w, p) # {}
  <2>1. PoolTimes(w, p) = ImageOf(f, PoolTokens(w, p))
    BY <1>1, <1>4 DEF PoolTimes
  <2>2. PoolTimes(w, p) \subseteq 0 .. Now(w)
    BY <1>4, PoolTokensFacts DEF PoolTimes
  <2>3. PoolTimes(w, p) # {}
    BY <1>4 DEF PoolTimes
  <2>4. IsFiniteSet(PoolTimes(w, p)) /\ PoolTimes(w, p) \in SUBSET Int
    BY <1>0, <1>2, <2>1, <2>2
  <2>5. Max(PoolTimes(w, p)) \in PoolTimes(w, p)
    BY <2>3, <2>4, MaxIs
  <2> QED BY <2>2, <2>5
<1> QED BY <1>3, <1>4

(* The three kinds of node names never collide.                            *)
LEMMA IdsDiffer ==
  /\ \A w, p, q : ProtocolNode(w, p) # PoolNode(w, q)
  /\ \A w, p, t : PoolNode(w, p) # TokenNode(t)
  /\ \A w, p, t : ProtocolNode(w, p) # TokenNode(t)
  /\ \A w, p, q : PoolNode(w, p) = PoolNode(w, q) => p = q
  /\ \A w, p, q : p = q => PoolNode(w, p) = PoolNode(w, q)
BY DEF ProtocolNode, PoolNode, TokenNode

(* Every edge joins two different nodes with a weight of at least 0.       *)
LEMMA EdgeFacts ==
  ASSUME NEW w \in Window, NEW e \in Edges(w)
  PROVE  /\ e.src \in NodeIds(w) /\ e.dst \in NodeIds(w)
         /\ e.src # e.dst /\ e.raw \in Nat
<1>1. CASE e \in TokenEdges(w)
  <2>1. PICK p \in Pools(w) : \E t \in PoolTokens(w, p) :
           e = Edge(w, PoolNode(w, p), TokenNode(t), TokenKind(w, p), t,
                    Volume(w, p, t), Latest(w, p, t))
    BY <1>1 DEF TokenEdges, TokenKind
  <2>2. PICK t \in PoolTokens(w, p) :
           e = Edge(w, PoolNode(w, p), TokenNode(t), TokenKind(w, p), t,
                    Volume(w, p, t), Latest(w, p, t))
    BY <2>1
  <2>3. TokenKind(w, p) \in {"liquidity_flow", "borrow_position", "shared_collateral"}
    BY DEF TokenKind
  <2>4. t \in Tokens(w) /\ Volume(w, p, t) \in Nat /\ Latest(w, p, t) \in 0 .. Now(w)
    BY PoolTokensFacts
  <2>5. e.src = PoolNode(w, p) /\ e.dst = TokenNode(t) /\ e.raw \in Nat
    BY <2>2, <2>3, <2>4, EdgeRaw
  <2> QED BY <2>4, <2>5, IdsDiffer DEF NodeIds
<1>2. CASE e \in PoolEdges(w)
  <2>1. PICK p \in Pools(w) :
           e = Edge(w, ProtocolNode(w, p), PoolNode(w, p), "liquidity_flow", p,
                    WholeVolume(w, p), Max(PoolTimes(w, p)))
    BY <1>2 DEF PoolEdges, PoolTimes, WholeVolume
  <2>2. WholeVolume(w, p) \in Nat
    BY PoolVolume
  <2>3. e.src = ProtocolNode(w, p) /\ e.dst = PoolNode(w, p) /\ e.raw \in Nat
    BY <2>1, <2>2, EdgeRaw, PoolTime
  <2> QED BY <2>3, IdsDiffer DEF NodeIds
<1>3. CASE e \in SharedEdges(w)
  <2>13. PICK t \in Tokens(w) : \E pq \in SharedPairs(w, t) :
           e = Edge(w, PoolNode(w, pq[1]), PoolNode(w, pq[2]), "shared_collateral", t,
                    Min({Volume(w, pq[1], t), Volume(w, pq[2], t)}),
                    Max({Latest(w, pq[1], t), Latest(w, pq[2], t)}))
    BY <1>3 DEF SharedEdges
  <2>1. PICK pq \in SharedPairs(w, t) :
           e = Edge(w, PoolNode(w, pq[1]), PoolNode(w, pq[2]), "shared_collateral", t,
                    Min({Volume(w, pq[1], t), Volume(w, pq[2], t)}),
                    Max({Latest(w, pq[1], t), Latest(w, pq[2], t)}))
    BY <2>13
  <2>0. PICK p, q : p = pq[1] /\ q = pq[2]
    OBVIOUS
  <2> DEFINE vol == Min({Volume(w, p, t), Volume(w, q, t)})
             ts == Max({Latest(w, p, t), Latest(w, q, t)})
  <2>2. p \in TokenPools(w, t) /\ q \in TokenPools(w, t) /\ p < q
    BY <2>0 DEF SharedPairs
  <2>3. p \in Pools(w) /\ q \in Pools(w) /\ SidesOf(w, p, t) # {} /\ SidesOf(w, q, t) # {}
    BY <2>2 DEF TokenPools
  <2>4. p \in Int /\ q \in Int
    BY <2>3, NamesFinite
  <2>5. Volume(w, p, t) \in Nat /\ Volume(w, q, t) \in Nat
    BY SidesOfFacts
  <2>6. Latest(w, p, t) \in 0 .. Now(w) /\ Latest(w, q, t) \in 0 .. Now(w) /\ Now(w) \in Nat
    BY <2>3, Times, DecayAssumption
  <2>7. vol \in Nat
    <3>1. Volume(w, p, t) \in Int /\ Volume(w, q, t) \in Int
      BY <2>5
    <3>2. vol \in {Volume(w, p, t), Volume(w, q, t)}
      BY <3>1, MaxOfTwo
    <3> QED BY <2>5, <3>2
  <2>8. ts \in 0 .. Now(w)
    <3>1. Latest(w, p, t) \in Int /\ Latest(w, q, t) \in Int
      BY <2>6
    <3> QED BY <2>6, <3>1, MaxOfTwo
  <2>9. e = Edge(w, PoolNode(w, p), PoolNode(w, q), "shared_collateral", t, vol, ts)
    BY <2>0, <2>1
  <2>10. p # q
    BY <2>2, <2>4
  <2> HIDE DEF vol, ts
  <2>11. e.src = PoolNode(w, p) /\ e.dst = PoolNode(w, q) /\ e.raw \in Nat
    BY <2>7, <2>8, <2>9, EdgeRaw
  <2>12. PoolNode(w, p) # PoolNode(w, q)
    BY <2>10, IdsDiffer
  <2> QED BY <2>3, <2>11, <2>12 DEF NodeIds
<1> QED BY <1>1, <1>2, <1>3 DEF Edges

LEMMA IdsFinite ==
  ASSUME NEW w \in Window
  PROVE  IsFiniteSet(NodeIds(w)) /\ Cardinality(NodeIds(w)) \in Nat
<1> DEFINE f == [p \in Pools(w) |-> ProtocolNode(w, p)]
           g == [p \in Pools(w) |-> PoolNode(w, p)]
           h == [t \in Tokens(w) |-> TokenNode(t)]
<1>1. NodeIds(w) = (ImageOf(f, Pools(w)) \cup ImageOf(g, Pools(w))) \cup ImageOf(h, Tokens(w))
  BY DEF NodeIds, ImageOf
<1> HIDE DEF f, g, h
<1>2. /\ IsFiniteSet(ImageOf(f, Pools(w))) /\ IsFiniteSet(ImageOf(g, Pools(w)))
      /\ IsFiniteSet(ImageOf(h, Tokens(w)))
  BY NamesFinite, ImageFinite
<1>3. IsFiniteSet(ImageOf(f, Pools(w)) \cup ImageOf(g, Pools(w)))
  BY <1>2, FS_Union
<1>4. IsFiniteSet((ImageOf(f, Pools(w)) \cup ImageOf(g, Pools(w))) \cup ImageOf(h, Tokens(w)))
  BY <1>2, <1>3, FS_Union
<1>5. IsFiniteSet(NodeIds(w))
  BY <1>1, <1>4
<1> QED BY <1>5, FS_CardinalityType

(* The degree of a node is at most the denominator of its connectivity.    *)
LEMMA DegreeBound ==
  ASSUME NEW w \in Window, NEW id \in NodeIds(w)
  PROVE  Degree(Edges(w), id)
           \in 0 .. (IF Cardinality(NodeIds(w)) > 1 THEN Cardinality(NodeIds(w)) - 1 ELSE 1)
<1> DEFINE touching == {e \in Edges(w) : id \in {e.src, e.dst}}
           ends == {e.src : e \in touching} \cup {e.dst : e \in touching}
<1>1. \A e \in touching : e.src \in NodeIds(w) /\ e.dst \in NodeIds(w) /\ e.src # e.dst
                          /\ id \in {e.src, e.dst}
  BY EdgeFacts
<1>2. Degree(Edges(w), id) = Cardinality(ends) - (IF touching = {} THEN 0 ELSE 1)
                             + (IF \E e \in touching : e.src = e.dst THEN 2 ELSE 0)
  BY DEF Degree
<1>3. ends \in SUBSET NodeIds(w)
  BY <1>1
<1>4. touching = {} => ends = {}
  OBVIOUS
<1>5. touching # {} => id \in ends
  BY <1>1
<1> HIDE DEF ends, touching
<1>6. /\ IsFiniteSet(ends) /\ Cardinality(ends) \in Nat
      /\ Cardinality(ends) <= Cardinality(NodeIds(w)) /\ Cardinality(NodeIds(w)) \in Nat
  <2>1. IsFiniteSet(ends) /\ Cardinality(ends) <= Cardinality(NodeIds(w))
    BY <1>3, IdsFinite, FS_Subset
  <2> QED BY <2>1, IdsFinite, FS_CardinalityType
<1>7. CASE touching = {}
  <2>1. Cardinality(ends) = 0
    BY <1>4, <1>7, FS_EmptySet
  <2> QED BY <1>1, <1>2, <1>6, <1>7, <2>1
<1>8. CASE touching # {}
  <2>1. Cardinality(ends) # 0
    BY <1>5, <1>6, <1>8, FS_EmptySet
  <2> QED BY <1>1, <1>2, <1>6, <1>8, <2>1
<1> QED BY <1>7, <1>8

-----------------------------------------------------------------------------
SideKey(w) == [s \in Sides(w) |-> <<Pool(w, s), Token(w, s)>>]

(* A key collects the sides with its pool and token ...                    *)
LEMMA KeyFacts ==
  ASSUME NEW w \in Window
  PROVE  /\ \A k \in Keys(w) : /\ KeyVolume(w)[k] \in Nat
                               /\ k[1] \in Pools(w) /\ k[2] \in Tokens(w)
                               /\ KeyVolume(w)[k] = Sum(Moved(w), Fiber(Sides(w), SideKey(w), k))
         /\ \A s \in Sides(w) : SideKey(w)[s] \in Keys(w)
<1>1. \A s \in Sides(w) : SideKey(w)[s] \in Keys(w)
  BY DEF SideKey, Keys
<1>2. ASSUME NEW k \in Keys(w)
      PROVE  /\ KeyVolume(w)[k] \in Nat
             /\ k[1] \in Pools(w) /\ k[2] \in Tokens(w)
             /\ KeyVolume(w)[k] = Sum(Moved(w), Fiber(Sides(w), SideKey(w), k))
  <2>1. PICK s \in Sides(w) : k = <<Pool(w, s), Token(w, s)>>
    BY DEF Keys
  <2>2. k[1] \in Pools(w)
    <3>1. s[1] \in DOMAIN w /\ k[1] = w[s[1]].pool
      BY <2>1, SidesFacts DEF Pool
    <3> QED BY <3>1 DEF Pools
  <2>3. k[2] \in Tokens(w)
    BY <2>1 DEF Tokens
  <2>4. KeyVolume(w)[k] = Volume(w, k[1], k[2])
    BY DEF KeyVolume
  <2>5. Fiber(Sides(w), SideKey(w), k) = SidesOf(w, k[1], k[2])
    BY <2>1 DEF Fiber, SideKey, SidesOf
  <2>6. Volume(w, k[1], k[2]) = Sum(Moved(w), SidesOf(w, k[1], k[2]))
    BY DEF Volume, Sum
  <2>7. Volume(w, k[1], k[2]) \in Nat
    BY SidesOfFacts
  <2> QED BY <2>2, <2>3, <2>4, <2>5, <2>6, <2>7
<1> QED BY <1>1, <1>2

(* ... so all the keys together hold what all the sides move.              *)
LEMMA KeysBalance ==
  ASSUME NEW w \in Window
  PROVE  Sum(KeyVolume(w), Keys(w)) = SumFunction(Moved(w))
<1>1. Sum(KeyVolume(w), Keys(w)) = Sum(Moved(w), Sides(w))
  <2>1. \A s \in Sides(w) : Moved(w)[s] \in Int
    BY SidesFacts
  <2>2. /\ \A s \in Sides(w) : SideKey(w)[s] \in Keys(w)
        /\ \A k \in Keys(w) : KeyVolume(w)[k] = Sum(Moved(w), Fiber(Sides(w), SideKey(w), k))
    BY KeyFacts
  <2>3. IsFiniteSet(Sides(w)) /\ IsFiniteSet(Keys(w))
    BY SidesFacts, NamesFinite
  <2> QED BY <2>1, <2>2, <2>3, SumFibers
<1>2. DOMAIN Moved(w) = Sides(w)
  BY DEF Moved
<1> QED BY <1>1, <1>2, SumFunctionIs

-----------------------------------------------------------------------------
NodeOf(w, x) ==
    [id |-> x, volume |-> NodeVolume(w, x), degree |-> Degree(Edges(w), x)]
NodesOf(w) == {NodeOf(w, x) : x \in NodeIds(w)}

(* The nodes of the snapshot are one for each name.                        *)
LEMMA GraphNodes ==
  ASSUME NEW w
  PROVE  /\ BuildGraph(w).nodes = NodesOf(w)
         /\ BuildGraph(w).edges = Edges(w)
         /\ \A n \in NodesOf(w) : n.id \in NodeIds(w) /\ n = NodeOf(w, n.id)
         /\ \A x \in NodeIds(w) : NodeOf(w, x) \in NodesOf(w) /\ NodeOf(w, x).id = x
         /\ {n.id : n \in NodesOf(w)} = NodeIds(w)
<1>1. BuildGraph(w).nodes = NodesOf(w) /\ BuildGraph(w).edges = Edges(w)
  BY DEF BuildGraph, NodesOf, NodeOf
<1>2. \A x : NodeOf(w, x).id = x
  BY DEF NodeOf
<1>3. \A n \in NodesOf(w) : n.id \in NodeIds(w) /\ n = NodeOf(w, n.id)
  BY <1>2 DEF NodesOf
<1>4. \A x \in NodeIds(w) : NodeOf(w, x) \in NodesOf(w)
  BY DEF NodesOf
<1>5. {n.id : n \in NodesOf(w)} = NodeIds(w)
  BY <1>2, <1>3, <1>4
<1> QED BY <1>1, <1>2, <1>3, <1>4, <1>5

LEMMA NodesFinite ==
  ASSUME NEW w \in Window
  PROVE  IsFiniteSet(NodesOf(w)) /\ Cardinality(NodesOf(w)) = Cardinality(NodeIds(w))
<1> DEFINE f == [x \in NodeIds(w) |-> NodeOf(w, x)]
<1>1. f \in Bijection(NodeIds(w), NodesOf(w))
  <2>1. \A x \in NodeIds(w) : f[x] \in NodesOf(w) /\ f[x].id = x
    BY GraphNodes
  <2>2. \A n \in NodesOf(w) : n.id \in NodeIds(w) /\ f[n.id] = n
    BY GraphNodes
  <2>3. f \in [NodeIds(w) -> NodesOf(w)]
    BY <2>1
  <2> HIDE DEF f
  <2>4. f \in Injection(NodeIds(w), NodesOf(w))
    BY <2>1, <2>3 DEF Injection, IsInjective
  <2>5. f \in Surjection(NodeIds(w), NodesOf(w))
    BY <2>2, <2>3 DEF Surjection
  <2> QED BY <2>4, <2>5 DEF Bijection
<1>2. ExistsBijection(NodeIds(w), NodesOf(w))
  BY <1>1 DEF ExistsBijection
<1> QED BY <1>2, IdsFinite, FS_Bijection

NodeKeys(w, id) == {k \in Keys(w) :
    id \in {TokenNode(k[2]), PoolNode(w, k[1]), ProtocolNode(w, k[1])}}

(* The volume of a node sums the keys that count for it.                   *)
LEMMA NodeVolumeIs ==
  ASSUME NEW w \in Window, NEW id
  PROVE  NodeVolume(w, id) = Sum(KeyVolume(w), NodeKeys(w, id)) /\ NodeVolume(w, id) \in Nat
<1>1. NodeVolume(w, id) = Sum(KeyVolume(w), NodeKeys(w, id))
  BY DEF NodeVolume, NodeKeys, Sum
<1>2. NodeKeys(w, id) \in SUBSET Keys(w)
  BY DEF NodeKeys
<1>3. IsFiniteSet(NodeKeys(w, id)) /\ \A k \in NodeKeys(w, id) : KeyVolume(w)[k] \in Nat
  BY <1>2, NamesFinite, KeyFacts, FS_Subset
<1> QED BY <1>1, <1>3, SumNat

(* The nodes of one kind share out the keys: each key counts for the node    *)
(* that at gives it.                                                         *)
LEMMA KindBalances ==
  ASSUME NEW w \in Window, NEW kind, NEW volume, NEW at,
         \A n \in NodesOf(w) : volume[n] = n.volume,
         \A k \in Keys(w) : at[k] \in NodeIds(w) /\ at[k][1] = kind,
         \A k \in Keys(w) : \A x \in NodeIds(w) :
            x[1] = kind => (k \in NodeKeys(w, x) <=> at[k] = x)
  PROVE  Sum(volume, {n \in NodesOf(w) : n.id[1] = kind}) = SumFunction(Moved(w))
<1> DEFINE Y == {n \in NodesOf(w) : n.id[1] = kind}
           h == [k \in Keys(w) |-> NodeOf(w, at[k])]
<1>1. \A k \in Keys(w) : h[k] \in Y
  BY GraphNodes
<1>2. ASSUME NEW n \in Y
      PROVE  volume[n] = Sum(KeyVolume(w), Fiber(Keys(w), h, n))
  <2>1. n \in NodesOf(w) /\ n.id \in NodeIds(w) /\ n = NodeOf(w, n.id) /\ n.id[1] = kind
    BY GraphNodes
  <2>2. \A k \in Keys(w) : h[k] = n <=> at[k] = n.id
    BY <2>1, GraphNodes
  <2>3. \A k \in Keys(w) : h[k] = n <=> k \in NodeKeys(w, n.id)
    BY <2>1, <2>2
  <2> HIDE DEF h, Y
  <2>4. NodeKeys(w, n.id) = Fiber(Keys(w), h, n)
    BY <2>3 DEF Fiber, NodeKeys
  <2>5. n.volume = NodeVolume(w, n.id)
    BY <2>1 DEF NodeOf
  <2> QED BY <2>1, <2>4, <2>5, NodeVolumeIs
<1>3. IsFiniteSet(Y)
  <2>1. Y \in SUBSET NodesOf(w)
    OBVIOUS
  <2> QED BY <2>1, NodesFinite, FS_Subset
<1>4. \A k \in Keys(w) : KeyVolume(w)[k] \in Int
  BY KeyFacts
<1> HIDE DEF Y, h
<1>5. Sum(volume, Y) = Sum(KeyVolume(w), Keys(w))
  BY <1>1, <1>2, <1>3, <1>4, NamesFinite, SumFibers
<1> QED BY <1>5, KeysBalance DEF Y

(* Each kind of node accounts for everything the window moves.             *)
LEMMA Balance ==
  ASSUME NEW w \in Window, NEW volume,
         \A n \in NodesOf(w) : volume[n] = n.volume,
         NEW kind \in {"token", "pool", "protocol"}
  PROVE  Sum(volume, {n \in NodesOf(w) : n.id[1] = kind}) = SumFunction(Moved(w))
<1>1. \A k \in Keys(w) : /\ TokenNode(k[2]) \in NodeIds(w)
                         /\ PoolNode(w, k[1]) \in NodeIds(w)
                         /\ ProtocolNode(w, k[1]) \in NodeIds(w)
  BY KeyFacts DEF NodeIds
<1>2. /\ \A t : TokenNode(t)[1] = "token"
      /\ \A p : PoolNode(w, p)[1] = "pool"
      /\ \A p : ProtocolNode(w, p)[1] = "protocol"
  BY DEF TokenNode, PoolNode, ProtocolNode
<1>3. CASE kind = "token"
  <2> DEFINE at == [k \in Keys(w) |-> TokenNode(k[2])]
  <2>1. \A k \in Keys(w) : at[k] \in NodeIds(w) /\ at[k][1] = kind
    BY <1>1, <1>2, <1>3
  <2>2. \A k \in Keys(w) : \A x \in NodeIds(w) :
           x[1] = kind => (k \in NodeKeys(w, x) <=> at[k] = x)
    BY <1>2, <1>3 DEF NodeKeys
  <2> HIDE DEF at
  <2> QED BY <2>1, <2>2, KindBalances
<1>4. CASE kind = "pool"
  <2> DEFINE at == [k \in Keys(w) |-> PoolNode(w, k[1])]
  <2>1. \A k \in Keys(w) : at[k] \in NodeIds(w) /\ at[k][1] = kind
    BY <1>1, <1>2, <1>4
  <2>2. \A k \in Keys(w) : \A x \in NodeIds(w) :
           x[1] = kind => (k \in NodeKeys(w, x) <=> at[k] = x)
    BY <1>2, <1>4 DEF NodeKeys
  <2> HIDE DEF at
  <2> QED BY <2>1, <2>2, KindBalances
<1>5. CASE kind = "protocol"
  <2> DEFINE at == [k \in Keys(w) |-> ProtocolNode(w, k[1])]
  <2>1. \A k \in Keys(w) : at[k] \in NodeIds(w) /\ at[k][1] = kind
    BY <1>1, <1>2, <1>5
  <2>2. \A k \in Keys(w) : \A x \in NodeIds(w) :
           x[1] = kind => (k \in NodeKeys(w, x) <=> at[k] = x)
    BY <1>2, <1>5 DEF NodeKeys
  <2> HIDE DEF at
  <2> QED BY <2>1, <2>2, KindBalances
<1> QED BY <1>3, <1>4, <1>5

-----------------------------------------------------------------------------
(* There are finitely many edges ...                                       *)
LEMMA EdgesFinite ==
  ASSUME NEW w \in Window
  PROVE  IsFiniteSet(Edges(w))
<1>1. IsFiniteSet(TokenEdges(w))
  <2> DEFINE f(p) == [t \in PoolTokens(w, p) |->
                        Edge(w, PoolNode(w, p), TokenNode(t), TokenKind(w, p), t,
                             Volume(w, p, t), Latest(w, p, t))]
             g == [p \in Pools(w) |-> ImageOf(f(p), PoolTokens(w, p))]
  <2>1. TokenEdges(w) = UNION ImageOf(g, Pools(w))
    BY DEF TokenEdges, TokenKind, ImageOf
  <2>2. \A p \in Pools(w) : IsFiniteSet(g[p])
    <3> SUFFICES ASSUME NEW p \in Pools(w) PROVE IsFiniteSet(ImageOf(f(p), PoolTokens(w, p)))
      OBVIOUS
    <3> HIDE DEF f
    <3> QED BY NamesFinite, ImageFinite
  <2> HIDE DEF f, g
  <2>3. IsFiniteSet(ImageOf(g, Pools(w))) /\ \A S \in ImageOf(g, Pools(w)) : IsFiniteSet(S)
    <3>1. IsFiniteSet(ImageOf(g, Pools(w)))
      BY NamesFinite, ImageFinite
    <3> QED BY <2>2, <3>1 DEF ImageOf
  <2> QED BY <2>1, <2>3, FS_UNION
<1>2. IsFiniteSet(PoolEdges(w))
  <2> DEFINE f == [p \in Pools(w) |->
                      Edge(w, ProtocolNode(w, p), PoolNode(w, p), "liquidity_flow", p,
                           WholeVolume(w, p), Max(PoolTimes(w, p)))]
  <2>1. PoolEdges(w) = ImageOf(f, Pools(w))
    BY DEF PoolEdges, PoolTimes, WholeVolume, ImageOf
  <2> HIDE DEF f
  <2> QED BY <2>1, NamesFinite, ImageFinite
<1>3. IsFiniteSet(SharedEdges(w))
  <2> DEFINE f(t) == [pq \in SharedPairs(w, t) |->
                        Edge(w, PoolNode(w, pq[1]), PoolNode(w, pq[2]), "shared_collateral", t,
                             Min({Volume(w, pq[1], t), Volume(w, pq[2], t)}),
                             Max({Latest(w, pq[1], t), Latest(w, pq[2], t)}))]
             g == [t \in Tokens(w) |-> ImageOf(f(t), SharedPairs(w, t))]
  <2>1. SharedEdges(w) = UNION ImageOf(g, Tokens(w))
    BY DEF SharedEdges, ImageOf
  <2>2. \A t \in Tokens(w) : IsFiniteSet(g[t])
    <3> SUFFICES ASSUME NEW t \in Tokens(w) PROVE IsFiniteSet(ImageOf(f(t), SharedPairs(w, t)))
      OBVIOUS
    <3> HIDE DEF f
    <3>1. IsFiniteSet(TokenPools(w, t) \X TokenPools(w, t))
      BY NamesFinite, FS_Product
    <3>2. SharedPairs(w, t) \in SUBSET (TokenPools(w, t) \X TokenPools(w, t))
      BY DEF SharedPairs
    <3>3. IsFiniteSet(SharedPairs(w, t))
      BY <3>1, <3>2, FS_Subset
    <3> QED BY <3>3, ImageFinite
  <2> HIDE DEF f, g
  <2>3. IsFiniteSet(ImageOf(g, Tokens(w))) /\ \A S \in ImageOf(g, Tokens(w)) : IsFiniteSet(S)
    <3>1. IsFiniteSet(ImageOf(g, Tokens(w)))
      BY NamesFinite, ImageFinite
    <3> QED BY <2>2, <3>1 DEF ImageOf
  <2> QED BY <2>1, <2>3, FS_UNION
<1>4. IsFiniteSet(TokenEdges(w) \cup PoolEdges(w))
  BY <1>1, <1>2, FS_Union
<1>5. IsFiniteSet((TokenEdges(w) \cup PoolEdges(w)) \cup SharedEdges(w))
  BY <1>3, <1>4, FS_Union
<1> QED BY <1>5 DEF Edges

(* ... and none outweighs max_raw.                                         *)
LEMMA MaxRaw ==
  ASSUME NEW w \in Window
  PROVE  \A e \in Edges(w) : e.raw \in 0 .. BuildGraph(w).max_raw
<1> DEFINE raws == {e.raw : e \in Edges(w)}
<1>1. BuildGraph(w).max_raw = Max({0} \cup raws)
  BY DEF BuildGraph
<1>2. raws \subseteq Nat
  BY EdgeFacts
<1>3. IsFiniteSet(Edges(w))
  BY EdgesFinite
<1>4. IsFiniteSet(raws)
  <2> DEFINE f == [e \in Edges(w) |-> e.raw]
  <2>1. raws = ImageOf(f, Edges(w))
    BY DEF ImageOf
  <2> HIDE DEF f
  <2> QED BY <1>3, <2>1, ImageFinite
<1>5. \A e \in Edges(w) : e.raw \in raws
  OBVIOUS
<1> HIDE DEF raws
<1>6. IsFiniteSet({0} \cup raws)
  BY <1>4, FS_Singleton, FS_Union
<1>7. {0} \cup raws \in SUBSET Int /\ {0} \cup raws # {} /\ 0 \in {0} \cup raws
  BY <1>2
<1>8. /\ Max({0} \cup raws) \in {0} \cup raws
      /\ \A x \in {0} \cup raws : x <= Max({0} \cup raws)
  BY <1>6, <1>7, MaxIs
<1>9. ASSUME NEW e \in Edges(w) PROVE e.raw \in 0 .. Max({0} \cup raws)
  <2>1. e.raw \in Nat /\ e.raw \in {0} \cup raws
    BY <1>2, <1>5
  <2>2. e.raw <= Max({0} \cup raws) /\ Max({0} \cup raws) \in Int
    BY <1>7, <1>8, <2>1
  <2> QED BY <2>1, <2>2
<1> QED BY <1>1, <1>9

(* The block range is not empty.                                           *)
LEMMA BlockRange ==
  ASSUME NEW w \in Window
  PROVE  BuildGraph(w).block_range.end >= BuildGraph(w).block_range.start
<1> DEFINE f == [i \in DOMAIN w |-> w[i].block]
           blocks == ImageOf(f, DOMAIN w)
<1>1. blocks = {w[i].block : i \in DOMAIN w}
  BY DEF ImageOf
<1>2. IsFiniteSet(blocks)
  <2> HIDE DEF f
  <2> QED BY WindowFacts, ImageFinite
<1>3. blocks \in SUBSET Int /\ blocks # {}
  <2>1. PICK i \in DOMAIN w : TRUE
    BY WindowFacts
  <2>2. w[i].block \in blocks
    BY <1>1
  <2>3. \A j \in DOMAIN w : w[j].block \in Int
    BY WindowFacts
  <2> HIDE DEF f, blocks
  <2> QED BY <1>1, <2>2, <2>3
<1>4. BuildGraph(w).block_range.end = Max(blocks) /\ BuildGraph(w).block_range.start = Min(blocks)
  BY <1>1 DEF BuildGraph
<1> HIDE DEF blocks
<1>5. Max(blocks) \in blocks /\ \A x \in blocks : Min(blocks) <= x
  BY <1>2, <1>3, MaxIs, MinIs
<1>6. Min(blocks) \in Int
  BY <1>2, <1>3, MinIs
<1> QED BY <1>3, <1>4, <1>5, <1>6

(* Every window builds a snapshot that passes its validation and balances. *)
LEMMA WindowSound == ASSUME NEW w \in Window PROVE GraphSound(w)
<1> DEFINE g == BuildGraph(w)
           volume == [n \in g.nodes |-> n.volume]
<1>1. ValidSnapshot(g)
  <2>1. g.block_range.end >= g.block_range.start
    BY BlockRange
  <2>2. Cardinality({n.id : n \in g.nodes}) = Cardinality(g.nodes)
    BY GraphNodes, NodesFinite
  <2>3. ASSUME NEW e \in g.edges
        PROVE  /\ {e.src, e.dst} \subseteq {n.id : n \in g.nodes}
               /\ e.src # e.dst /\ e.raw \in 0 .. g.max_raw
    BY GraphNodes, EdgeFacts, MaxRaw
  <2>4. ASSUME NEW n \in g.nodes PROVE n.volume >= 0
    <3>1. n = NodeOf(w, n.id)
      BY GraphNodes
    <3>2. n.volume = NodeVolume(w, n.id)
      BY <3>1 DEF NodeOf
    <3> QED BY <3>2, NodeVolumeIs
  <2> QED BY <2>1, <2>2, <2>3, <2>4 DEF ValidSnapshot
<1>2. ASSUME NEW n \in g.nodes PROVE n.degree <= g.denom
  <2>1. n = NodeOf(w, n.id) /\ n.id \in NodeIds(w)
    BY GraphNodes
  <2>2. n.degree = Degree(Edges(w), n.id)
    BY <2>1 DEF NodeOf
  <2>3. g.denom = IF Cardinality(NodeIds(w)) > 1 THEN Cardinality(NodeIds(w)) - 1 ELSE 1
    BY DEF BuildGraph
  <2> QED BY <2>1, <2>2, <2>3, IdsFinite, DegreeBound
<1>3. ASSUME NEW kind \in {"token", "pool", "protocol"}
      PROVE  SumFunctionOnSet(volume, {n \in g.nodes : n.id[1] = kind}) = SumFunction(Moved(w))
  <2>1. g.nodes = NodesOf(w) /\ \A n \in NodesOf(w) : volume[n] = n.volume
    BY GraphNodes
  <2> HIDE DEF g, volume
  <2>2. Sum(volume, {n \in NodesOf(w) : n.id[1] = kind}) = SumFunction(Moved(w))
    BY <2>1, Balance
  <2> QED BY <2>1, <2>2 DEF Sum
<1> QED BY <1>1, <1>2, <1>3 DEF GraphSound

-----------------------------------------------------------------------------
(* v hands over the events of w in the order of the places b.                *)
Rearranged(v, w, b) ==
    /\ DOMAIN v = DOMAIN w
    /\ \A i \in DOMAIN w : b[i] \in DOMAIN w /\ v[i] = w[b[i]]
    /\ \A i, j \in DOMAIN w : b[i] = b[j] => i = j
    /\ \A j \in DOMAIN w : \E i \in DOMAIN w : b[i] = j

SameNames(v, w) ==
    /\ Pools(v) = Pools(w) /\ Tokens(v) = Tokens(w) /\ Keys(v) = Keys(w)
    /\ Now(v) = Now(w)
    /\ {v[i].block : i \in DOMAIN v} = {w[i].block : i \in DOMAIN w}
    /\ \A p \in Pools(w) : PoolProtocol(v, p) = PoolProtocol(w, p)
    /\ \A p, t : /\ Volume(v, p, t) = Volume(w, p, t)
                 /\ Latest(v, p, t) = Latest(w, p, t)
                 /\ SidesOf(v, p, t) # {} <=> SidesOf(w, p, t) # {}

(* Every event of a pool names the pool's protocol: which one is the last  *)
(* does not matter.                                                        *)
LEMMA ProtocolOfPool ==
  ASSUME NEW w \in Window, NEW i \in DOMAIN w
  PROVE  PoolProtocol(w, w[i].pool) = w[i].protocol
<1> DEFINE places == {j \in DOMAIN w : w[j].pool = w[i].pool}
<1>1. places \in SUBSET DOMAIN w /\ places # {}
  OBVIOUS
<1>2. places \in SUBSET Int /\ IsFiniteSet(places)
  BY <1>1, WindowFacts, FS_Subset
<1> HIDE DEF places
<1>3. Max(places) \in places
  BY <1>1, <1>2, MaxIs
<1>4. Max(places) \in DOMAIN w /\ w[Max(places)].pool = w[i].pool
  BY <1>3 DEF places
<1>5. w[Max(places)] \in Event /\ w[i] \in Event
  BY <1>4, WindowFacts
<1>6. w[Max(places)].protocol = w[i].protocol
  BY <1>4, <1>5, WindowAssumption
<1> QED BY <1>6 DEF PoolProtocol, places

(* A rearrangement names the same things, with the same sums and latest    *)
(* times ...                                                               *)
LEMMA RearrangedNames ==
  ASSUME NEW v \in Window, NEW w \in Window, NEW b, Rearranged(v, w, b)
  PROVE  SameNames(v, w)
<1> DEFINE c == [s \in Sides(v) |-> <<b[s[1]], s[2]>>]
<1>1. /\ DOMAIN v = DOMAIN w
      /\ \A i \in DOMAIN w : b[i] \in DOMAIN w /\ v[i] = w[b[i]]
      /\ \A i, j \in DOMAIN w : b[i] = b[j] => i = j
      /\ \A j \in DOMAIN w : \E i \in DOMAIN w : b[i] = j
  BY DEF Rearranged
<1>2. ASSUME NEW s \in Sides(v)
      PROVE  /\ c[s] \in Sides(w) /\ c[s][1] = b[s[1]] /\ c[s][2] = s[2]
             /\ v[s[1]] = w[c[s][1]] /\ s[1] \in DOMAIN w
             /\ Pool(v, s) = Pool(w, c[s]) /\ Token(v, s) = Token(w, c[s])
             /\ Moved(v)[s] = Moved(w)[c[s]]
  <2>1. s[1] \in DOMAIN w /\ s[2] \in {1, 2} /\ v[s[1]].token[s[2]] # ZeroAddress
    BY <1>1 DEF Sides
  <2>2. c[s] = <<b[s[1]], s[2]>> /\ c[s][1] = b[s[1]] /\ c[s][2] = s[2]
    OBVIOUS
  <2>3. c[s] \in Sides(w)
    BY <1>1, <2>1, <2>2 DEF Sides
  <2>4. v[s[1]] = w[c[s][1]]
    BY <1>1, <2>1, <2>2
  <2> HIDE DEF c
  <2> QED BY <2>1, <2>2, <2>3, <2>4 DEF Pool, Token, Moved
<1>3. ASSUME NEW r \in Sides(w)
      PROVE  \E s \in Sides(v) : c[s] = r
  <2>1. r[1] \in DOMAIN w /\ r[2] \in {1, 2} /\ r = <<r[1], r[2]>>
        /\ w[r[1]].token[r[2]] # ZeroAddress
    BY DEF Sides
  <2>2. PICK i \in DOMAIN w : b[i] = r[1]
    BY <1>1, <2>1
  <2>3. v[i] = w[r[1]]
    <3> HIDE DEF c
    <3>1. v[i] = w[b[i]]
      BY <1>1
    <3> QED BY <2>2, <3>1
  <2>4. <<i, r[2]>> \in Sides(v)
    BY <1>1, <2>1, <2>2, <2>3 DEF Sides
  <2>5. c[<<i, r[2]>>] = r
    BY <2>1, <2>2, <2>4
  <2> QED BY <2>4, <2>5
<1>4. ASSUME NEW s \in Sides(v), NEW r \in Sides(v), c[s] = c[r]
      PROVE  s = r
  <2>1. s[1] \in DOMAIN w /\ r[1] \in DOMAIN w /\ b[s[1]] = b[r[1]] /\ s[2] = r[2]
    BY <1>2, <1>4
  <2>2. s = <<s[1], s[2]>> /\ r = <<r[1], r[2]>>
    BY DEF Sides
  <2> QED BY <1>1, <2>1, <2>2
<1> HIDE DEF c
<1>12. /\ \A i \in DOMAIN v : b[i] \in DOMAIN w /\ v[i] = w[b[i]]
       /\ \A j \in DOMAIN w : \E i \in DOMAIN v : w[j] = v[i]
  <2>1. ASSUME NEW j \in DOMAIN w PROVE \E i \in DOMAIN v : w[j] = v[i]
    <3>1. PICK i \in DOMAIN w : b[i] = j
      BY <1>1
    <3>2. i \in DOMAIN v /\ v[i] = w[j]
      BY <1>1, <3>1
    <3> QED BY <3>2
  <2> QED BY <1>1, <2>1
<1>5. Pools(v) = Pools(w)
  BY <1>12 DEF Pools
<1>6. Tokens(v) = Tokens(w)
  BY <1>2, <1>3 DEF Tokens
<1>7. Keys(v) = Keys(w)
  BY <1>2, <1>3 DEF Keys
<1>8. Now(v) = Now(w)
  <2>1. {v[i].ts : i \in DOMAIN v} = {w[i].ts : i \in DOMAIN w}
    BY <1>12
  <2> QED BY <2>1 DEF Now
<1>9. {v[i].block : i \in DOMAIN v} = {w[i].block : i \in DOMAIN w}
  BY <1>12
<1>10. ASSUME NEW p \in Pools(w) PROVE PoolProtocol(v, p) = PoolProtocol(w, p)
  <2>1. PICK i \in DOMAIN w : p = w[i].pool
    BY DEF Pools
  <2>2. PICK j \in DOMAIN w : b[j] = i
    BY <1>1
  <2>3. v[j] = w[i] /\ j \in DOMAIN v
    BY <1>1, <2>2
  <2>4. PoolProtocol(v, v[j].pool) = v[j].protocol
    BY <2>3, ProtocolOfPool
  <2>5. PoolProtocol(w, w[i].pool) = w[i].protocol
    BY ProtocolOfPool
  <2> QED BY <2>1, <2>3, <2>4, <2>5
<1>11. ASSUME NEW p, NEW t
       PROVE  /\ Volume(v, p, t) = Volume(w, p, t)
              /\ Latest(v, p, t) = Latest(w, p, t)
              /\ SidesOf(v, p, t) # {} <=> SidesOf(w, p, t) # {}
  <2>1. \A s \in SidesOf(v, p, t) : /\ s \in Sides(v) /\ c[s] \in SidesOf(w, p, t)
                                    /\ Moved(w)[c[s]] = Moved(v)[s]
                                    /\ w[c[s][1]].ts = v[s[1]].ts
    BY <1>2 DEF SidesOf
  <2>2. \A r \in SidesOf(w, p, t) : \E s \in SidesOf(v, p, t) : c[s] = r
    <3> SUFFICES ASSUME NEW r \in SidesOf(w, p, t)
                 PROVE  \E s \in SidesOf(v, p, t) : c[s] = r
      OBVIOUS
    <3>1. r \in Sides(w) /\ Pool(w, r) = p /\ Token(w, r) = t
      BY DEF SidesOf
    <3>2. PICK s \in Sides(v) : c[s] = r
      BY <1>3, <3>1
    <3>3. s \in SidesOf(v, p, t)
      BY <1>2, <3>1, <3>2 DEF SidesOf
    <3> QED BY <3>2, <3>3
  <2>3. Sum(Moved(w), SidesOf(w, p, t)) = Sum(Moved(v), SidesOf(v, p, t))
    <3>1. IsFiniteSet(SidesOf(v, p, t)) /\ IsFiniteSet(SidesOf(w, p, t))
      BY SidesOfFacts
    <3>2. \A s \in SidesOf(v, p, t) : Moved(v)[s] \in Int
      BY <2>1, SidesFacts
    <3>3. \A s, r \in SidesOf(v, p, t) : c[s] = c[r] => s = r
      BY <1>4, <2>1
    <3> QED BY <2>1, <2>2, <3>1, <3>2, <3>3, SumRenamed
  <2>4. Volume(v, p, t) = Volume(w, p, t)
    BY <2>3 DEF Volume, Sum
  <2>5. {v[s[1]].ts : s \in SidesOf(v, p, t)} = {w[s[1]].ts : s \in SidesOf(w, p, t)}
    BY <2>1, <2>2
  <2>6. Latest(v, p, t) = Latest(w, p, t)
    BY <2>5 DEF Latest
  <2>7. SidesOf(v, p, t) # {} <=> SidesOf(w, p, t) # {}
    BY <2>1, <2>2
  <2> QED BY <2>4, <2>6, <2>7
<1> QED BY <1>5, <1>6, <1>7, <1>8, <1>9, <1>10, <1>11 DEF SameNames

(* ... and that is all build_graph reads.                                  *)
LEMMA SameGraph ==
  ASSUME NEW v \in Window, NEW w \in Window, SameNames(v, w)
  PROVE  BuildGraph(v) = BuildGraph(w)
<1>1. /\ Pools(v) = Pools(w) /\ Tokens(v) = Tokens(w) /\ Keys(v) = Keys(w)
      /\ Now(v) = Now(w)
      /\ {v[i].block : i \in DOMAIN v} = {w[i].block : i \in DOMAIN w}
      /\ \A p \in Pools(w) : PoolProtocol(v, p) = PoolProtocol(w, p)
      /\ \A p, t : /\ Volume(v, p, t) = Volume(w, p, t)
                   /\ Latest(v, p, t) = Latest(w, p, t)
                   /\ SidesOf(v, p, t) # {} <=> SidesOf(w, p, t) # {}
  BY DEF SameNames
<1>2. \A p \in Pools(w) : PoolNode(v, p) = PoolNode(w, p) /\ ProtocolNode(v, p) = ProtocolNode(w, p)
                          /\ TokenKind(v, p) = TokenKind(w, p)
  BY <1>1 DEF PoolNode, ProtocolNode, TokenKind
<1>3. \A p : PoolTokens(v, p) = PoolTokens(w, p)
  BY <1>1 DEF PoolTokens
<1>4. \A t : TokenPools(v, t) = TokenPools(w, t) /\ TokenPools(w, t) \subseteq Pools(w)
  BY <1>1 DEF TokenPools
<1>5. \A src, dst, kind, via, vol, ts :
         Edge(v, src, dst, kind, via, vol, ts) = Edge(w, src, dst, kind, via, vol, ts)
  BY <1>1 DEF Edge
<1>6. \A p \in Pools(w) : \A t \in PoolTokens(w, p) :
         Edge(v, PoolNode(v, p), TokenNode(t), TokenKind(v, p), t, Volume(v, p, t), Latest(v, p, t))
         = Edge(w, PoolNode(w, p), TokenNode(t), TokenKind(w, p), t,
                Volume(w, p, t), Latest(w, p, t))
  BY <1>1, <1>2, <1>5
<1>7. TokenEdges(v) = TokenEdges(w)
  <2> DEFINE A(x, p) == {Edge(x, PoolNode(x, p), TokenNode(t), TokenKind(x, p), t,
                              Volume(x, p, t), Latest(x, p, t)) : t \in PoolTokens(x, p)}
  <2>1. /\ TokenEdges(v) = UNION {A(v, p) : p \in Pools(v)}
        /\ TokenEdges(w) = UNION {A(w, p) : p \in Pools(w)}
    BY DEF TokenEdges, TokenKind
  <2>2. \A p \in Pools(w) : A(v, p) = A(w, p)
    BY <1>3, <1>6
  <2> HIDE DEF A
  <2> QED BY <1>1, <2>1, <2>2
<1>8. \A p : PoolTimes(v, p) = PoolTimes(w, p) /\ WholeVolume(v, p) = WholeVolume(w, p)
  <2> SUFFICES ASSUME NEW p
               PROVE  PoolTimes(v, p) = PoolTimes(w, p) /\ WholeVolume(v, p) = WholeVolume(w, p)
    OBVIOUS
  <2>1. PoolTimes(v, p) = PoolTimes(w, p)
    BY <1>1, <1>3 DEF PoolTimes
  <2>2. [t \in PoolTokens(v, p) |-> Volume(v, p, t)] = [t \in PoolTokens(w, p) |-> Volume(w, p, t)]
    BY <1>1, <1>3
  <2> QED BY <2>1, <2>2 DEF WholeVolume
<1>9. PoolEdges(v) = PoolEdges(w)
  <2> DEFINE A(x, p) == Edge(x, ProtocolNode(x, p), PoolNode(x, p), "liquidity_flow", p,
                             WholeVolume(x, p), Max(PoolTimes(x, p)))
  <2>1. PoolEdges(v) = {A(v, p) : p \in Pools(v)} /\ PoolEdges(w) = {A(w, p) : p \in Pools(w)}
    BY DEF PoolEdges, PoolTimes, WholeVolume
  <2>2. \A p \in Pools(w) : A(v, p) = A(w, p)
    BY <1>2, <1>5, <1>8
  <2> HIDE DEF A
  <2> QED BY <1>1, <2>1, <2>2
<1>10. SharedEdges(v) = SharedEdges(w)
  <2> DEFINE A(x, t, pq) == Edge(x, PoolNode(x, pq[1]), PoolNode(x, pq[2]), "shared_collateral", t,
                                 Min({Volume(x, pq[1], t), Volume(x, pq[2], t)}),
                                 Max({Latest(x, pq[1], t), Latest(x, pq[2], t)}))
             B(x, t) == {A(x, t, pq) : pq \in SharedPairs(x, t)}
  <2>1. /\ SharedEdges(v) = UNION {B(v, t) : t \in Tokens(v)}
        /\ SharedEdges(w) = UNION {B(w, t) : t \in Tokens(w)}
    BY DEF SharedEdges
  <2>2. ASSUME NEW t \in Tokens(w) PROVE B(v, t) = B(w, t)
    <3>1. SharedPairs(v, t) = SharedPairs(w, t)
      BY <1>4 DEF SharedPairs
    <3>2. \A pq \in SharedPairs(w, t) : pq[1] \in Pools(w) /\ pq[2] \in Pools(w)
      BY <1>4 DEF SharedPairs
    <3>3. ASSUME NEW pq \in SharedPairs(w, t) PROVE A(v, t, pq) = A(w, t, pq)
      <4>1. PoolNode(v, pq[1]) = PoolNode(w, pq[1]) /\ PoolNode(v, pq[2]) = PoolNode(w, pq[2])
        BY <1>2, <3>2
      <4>2. /\ Volume(v, pq[1], t) = Volume(w, pq[1], t) /\ Volume(v, pq[2], t) = Volume(w, pq[2], t)
            /\ Latest(v, pq[1], t) = Latest(w, pq[1], t) /\ Latest(v, pq[2], t) = Latest(w, pq[2], t)
        BY <1>1
      <4> QED BY <1>5, <4>1, <4>2
    <3> HIDE DEF A
    <3> QED BY <3>1, <3>3
  <2> HIDE DEF A, B
  <2> QED BY <1>1, <2>1, <2>2
<1>11. Edges(v) = Edges(w)
  BY <1>7, <1>9, <1>10 DEF Edges
<1>12. NodeIds(v) = NodeIds(w)
  BY <1>1, <1>2 DEF NodeIds
<1>13. ASSUME NEW x PROVE NodeVolume(v, x) = NodeVolume(w, x)
  <2>1. \A k \in Keys(w) : k[1] \in Pools(w)
    BY KeyFacts
  <2>2. NodeKeys(v, x) = NodeKeys(w, x)
    BY <1>1, <1>2, <2>1 DEF NodeKeys
  <2>3. KeyVolume(v) = KeyVolume(w)
    BY <1>1 DEF KeyVolume
  <2> QED BY <2>2, <2>3, NodeVolumeIs
<1> QED BY <1>1, <1>11, <1>12, <1>13 DEF BuildGraph

(* The swap and the rotation are rearrangements.                           *)
LEMMA WindowOrderFree == ASSUME NEW w \in Window PROVE OrderFree(w)
<1> SUFFICES ASSUME Len(w) > 1
             PROVE  /\ BuildGraph(<<w[2], w[1]>> \o SubSeq(w, 3, Len(w))) = BuildGraph(w)
                    /\ BuildGraph(Append(Tail(w), w[1])) = BuildGraph(w)
  BY DEF OrderFree
<1>1. w \in Seq(Event) /\ DOMAIN w = 1 .. Len(w) /\ Len(w) \in Nat
  BY LenProperties DEF Window
<1>2. BuildGraph(<<w[2], w[1]>> \o SubSeq(w, 3, Len(w))) = BuildGraph(w)
  <2> DEFINE v == <<w[2], w[1]>> \o SubSeq(w, 3, Len(w))
             b == [i \in 1 .. Len(w) |-> IF i = 1 THEN 2 ELSE IF i = 2 THEN 1 ELSE i]
  <2>1. v \in Seq(Event) /\ Len(v) = Len(w)
        /\ \A i \in 1 .. Len(w) : v[i] = w[b[i]]
    BY <1>1
  <2>2. v \in Window /\ DOMAIN v = DOMAIN w
    BY <1>1, <2>1, EmptySeq, LenProperties DEF Window
  <2>3. Rearranged(v, w, b)
    <3>1. \A i \in 1 .. Len(w) : b[i] \in 1 .. Len(w)
      BY <1>1
    <3>2. \A i, j \in 1 .. Len(w) : b[i] = b[j] => i = j
      BY <1>1
    <3>3. \A j \in 1 .. Len(w) : b[j] \in 1 .. Len(w) /\ b[b[j]] = j
      BY <1>1
    <3> HIDE DEF v, b
    <3> QED BY <1>1, <2>1, <2>2, <3>1, <3>2, <3>3 DEF Rearranged
  <2> HIDE DEF v, b
  <2>4. BuildGraph(v) = BuildGraph(w)
    BY <2>2, <2>3, RearrangedNames, SameGraph
  <2> QED BY <2>4 DEF v
<1>3. BuildGraph(Append(Tail(w), w[1])) = BuildGraph(w)
  <2>1. PICK n : n = Len(w) /\ n \in Nat /\ n > 1 /\ DOMAIN w = 1 .. n
    BY <1>1
  <2> DEFINE v == Append(Tail(w), w[1])
             b == [i \in 1 .. n |-> IF i = n THEN 1 ELSE i + 1]
  <2>2. v \in Seq(Event) /\ Len(v) = n /\ v[n] = w[1]
        /\ \A i \in 1 .. n - 1 : v[i] = w[i + 1]
    <3>1. Tail(w) \in Seq(Event) /\ Len(Tail(w)) = n - 1
          /\ \A i \in 1 .. n - 1 : Tail(w)[i] = w[i + 1]
      BY <1>1, <2>1
    <3>2. w[1] \in Event
      BY <1>1
    <3>3. v \in Seq(Event) /\ Len(v) = n /\ v[n] = w[1]
          /\ \A i \in 1 .. n - 1 : v[i] = Tail(w)[i]
      BY <2>1, <3>1, <3>2
    <3> QED BY <3>1, <3>3
  <2> HIDE DEF v
  <2>3. v \in Window /\ DOMAIN v = 1 .. n
    BY <2>1, <2>2, EmptySeq, LenProperties DEF Window
  <2>4. \A i \in 1 .. n : /\ b[i] \in 1 .. n
                          /\ i = n => b[i] = 1
                          /\ i # n => b[i] = i + 1 /\ i \in 1 .. n - 1
    BY <2>1
  <2> HIDE DEF b
  <2>5. \A i \in 1 .. n : v[i] = w[b[i]]
    BY <2>2, <2>4
  <2>6. \A i, j \in 1 .. n : b[i] = b[j] => i = j
    BY <2>1, <2>4
  <2>7. ASSUME NEW j \in 1 .. n PROVE \E i \in 1 .. n : b[i] = j
    <3>1. CASE j = 1
      <4>1. n \in 1 .. n /\ b[n] = 1
        BY <2>1, <2>4
      <4> QED BY <3>1, <4>1
    <3>2. CASE j # 1
      <4>1. j - 1 \in 1 .. n /\ j - 1 # n
        BY <2>1, <3>2
      <4>2. b[j - 1] = j
        BY <2>4, <4>1
      <4> QED BY <4>1, <4>2
    <3> QED BY <3>1, <3>2
  <2>8. Rearranged(v, w, b)
    BY <2>1, <2>3, <2>4, <2>5, <2>6, <2>7 DEF Rearranged
  <2>9. BuildGraph(v) = BuildGraph(w)
    BY <2>3, <2>8, RearrangedNames, SameGraph
  <2> QED BY <2>9 DEF v
<1> QED BY <1>2, <1>3

-----------------------------------------------------------------------------
(* The list of a finite set that FoldSet with Append makes.                  *)
IsListing(it, T) ==
  it = [s \in SUBSET T |-> IF s = {} THEN << >>
                           ELSE Append(it[s \ {Chosen(s)}], Chosen(s))]
TheListing(T) == CHOOSE it : IsListing(it, T)

(* Expanding FoldSet: the list of the nodes is the last value of such a    *)
(* recursion ...                                                           *)
LEMMA FoldIsListing ==
  ASSUME NEW T
  PROVE  FoldSet(LAMBDA n, s : Append(s, n), << >>, T) = TheListing(T)[T]
BY DEF FoldSet, MapThenFoldSet, TheListing, IsListing, Chosen

LEMMA ListingExists ==
  ASSUME NEW T, IsFiniteSet(T)
  PROVE  \E it : IsListing(it, T)
<1> DEFINE G == [z \in T \X Seq(T) |-> Append(z[2], z[1])]
<1>1. G \in [T \X Seq(T) -> Seq(T)]
  <2>1. \A z \in T \X Seq(T) : Append(z[2], z[1]) \in Seq(T)
    BY AppendProperties
  <2> QED BY <2>1
<1>2. \A x \in T : \A v \in Seq(T) : G[<<x, v>>] = Append(v, x)
  OBVIOUS
<1> HIDE DEF G
<1>3. << >> \in Seq(T)
  OBVIOUS
<1>4. PICK it \in [SUBSET T -> Seq(T)] : Recursion(it, T, << >>, G)
  BY <1>1, <1>3, FoldExists
<1>5. ASSUME NEW s \in SUBSET T
      PROVE  it[s] = IF s = {} THEN << >> ELSE Append(it[s \ {Chosen(s)}], Chosen(s))
  <2>1. s # {} => Chosen(s) \in T /\ it[s \ {Chosen(s)}] \in Seq(T)
    <3>1. s \ {Chosen(s)} \in SUBSET T
      OBVIOUS
    <3> QED BY <3>1, ChosenIn
  <2> QED BY <1>2, <1>4, <2>1 DEF Recursion
<1> QED BY <1>4, <1>5 DEF IsListing

Lists(l, s) ==
  /\ l \in Seq(s)
  /\ \A x \in s : \E i \in DOMAIN l : l[i] = x
  /\ \A i, j \in DOMAIN l : l[i] = l[j] => i = j

(* A list and one element more.                                            *)
LEMMA ListOneMore ==
  ASSUME NEW s, NEW x, x \notin s, NEW l, Lists(l, s)
  PROVE  Lists(Append(l, x), s \cup {x})
<1>1. l \in Seq(s) /\ DOMAIN l = 1 .. Len(l) /\ Len(l) \in Nat
  BY LenProperties DEF Lists
<1>2. \A i \in DOMAIN l : l[i] \in s
  BY <1>1, ElementOfSeq
<1> DEFINE m == Append(l, x)
           n == Len(l)
<1>3. /\ m \in Seq(s \cup {x}) /\ DOMAIN m = 1 .. n + 1
      /\ m[n + 1] = x /\ \A i \in 1 .. n : m[i] = l[i]
  <2>1. l \in Seq(s \cup {x})
    BY <1>1, <1>2
  <2>2. m \in Seq(s \cup {x}) /\ Len(m) = n + 1
    BY <2>1, AppendProperties
  <2> QED BY <1>1, <2>1, <2>2, AppendProperties, LenProperties
<1> HIDE DEF m, n
<1>4. n \in Nat /\ DOMAIN l = 1 .. n
  BY <1>1 DEF n
<1>5. \A y \in s \cup {x} : \E i \in 1 .. n + 1 : m[i] = y
  <2> SUFFICES ASSUME NEW y \in s \cup {x} PROVE \E i \in 1 .. n + 1 : m[i] = y
    OBVIOUS
  <2>1. CASE y = x
    <3>1. n + 1 \in 1 .. n + 1
      BY <1>4
    <3> QED BY <1>3, <2>1, <3>1
  <2>2. CASE y \in s
    <3>1. PICK i \in 1 .. n : l[i] = y
      BY <1>4, <2>2 DEF Lists
    <3>2. i \in 1 .. n + 1
      BY <1>4
    <3> QED BY <1>3, <3>1, <3>2
  <2> QED BY <2>1, <2>2
<1>6. \A i, j \in 1 .. n + 1 : m[i] = m[j] => i = j
  <2> SUFFICES ASSUME NEW i \in 1 .. n + 1, NEW j \in 1 .. n + 1, m[i] = m[j]
               PROVE  i = j
    OBVIOUS
  <2>1. (i \in 1 .. n \/ i = n + 1) /\ (j \in 1 .. n \/ j = n + 1)
    BY <1>4
  <2>2. CASE i \in 1 .. n /\ j \in 1 .. n
    BY <1>3, <1>4, <2>2 DEF Lists
  <2>3. CASE i \in 1 .. n /\ j = n + 1
    BY <1>2, <1>3, <1>4, <2>3
  <2>4. CASE i = n + 1 /\ j \in 1 .. n
    BY <1>2, <1>3, <1>4, <2>4
  <2> QED BY <2>1, <2>2, <2>3, <2>4
<1>7. Lists(m, s \cup {x})
  BY <1>3, <1>5, <1>6 DEF Lists
<1> QED BY <1>7 DEF m

(* ... and it lists every node once.                                       *)
LEMMA ListingLists ==
  ASSUME NEW T, IsFiniteSet(T)
  PROVE  Lists(FoldSet(LAMBDA n, s : Append(s, n), << >>, T), T)
<1> DEFINE it == TheListing(T)
           Sizes == {n \in Nat : \E s \in SUBSET T : Cardinality(s) = n /\ ~Lists(it[s], s)}
<1>1. \A s \in SUBSET T :
         it[s] = IF s = {} THEN << >> ELSE Append(it[s \ {Chosen(s)}], Chosen(s))
  <2>1. IsListing(it, T)
    BY ListingExists DEF TheListing
  <2> HIDE DEF it
  <2> QED BY <2>1 DEF IsListing
<1> HIDE DEF it
<1>2. \A s \in SUBSET T : IsFiniteSet(s) /\ Cardinality(s) \in Nat
  BY FS_Subset, FS_CardinalityType
<1>3. ASSUME Sizes # {} PROVE FALSE
  <2>1. Sizes \in SUBSET Nat
    OBVIOUS
  <2> HIDE DEF Sizes
  <2>2. PICK n \in Sizes : \A m \in Sizes : n <= m
    BY <1>3, <2>1, LeastOf
  <2>3. PICK s \in SUBSET T : Cardinality(s) = n /\ ~Lists(it[s], s)
    BY <2>2 DEF Sizes
  <2>4. s # {}
    <3>1. Lists(<< >>, {})
      <4>1. << >> \in Seq({}) /\ DOMAIN << >> = {}
        OBVIOUS
      <4> QED BY <4>1 DEF Lists
    <3> QED BY <1>1, <2>3, <3>1
  <2> DEFINE c == Chosen(s)
             r == s \ {c}
  <2>5. c \in s /\ it[s] = Append(it[r], c)
    BY <1>1, <2>4, ChosenIn
  <2> HIDE DEF c
  <2>6. Cardinality(r) = Cardinality(s) - 1 /\ Cardinality(s) \in Nat /\ r \in SUBSET T
        /\ Cardinality(r) \in Nat
    BY <1>2, <2>5, FS_RemoveElement
  <2>7. c \notin r /\ r \cup {c} = s
    BY <2>5
  <2> HIDE DEF r
  <2>8. Lists(it[r], r)
    <3>1. Cardinality(r) \notin Sizes
      BY <2>2, <2>3, <2>6
    <3> QED BY <2>6, <3>1 DEF Sizes
  <2>9. Lists(Append(it[r], c), r \cup {c})
    BY <2>7, <2>8, ListOneMore
  <2> QED BY <2>3, <2>5, <2>7, <2>9
<1>4. T \in SUBSET T /\ Cardinality(T) \in Nat
  BY <1>2
<1>5. Lists(it[T], T)
  BY <1>3, <1>4
<1> QED BY <1>5, FoldIsListing DEF it

-----------------------------------------------------------------------------
(* The cells of a matrix of n rows, and what coalesce() makes of them.       *)
Cells(cells, n) == IsFiniteSet(cells) /\ cells \subseteq (1 .. n) \X (1 .. n)
RowCells(cells, i) == {c \in cells : c[1] = i}
RowPrefix(cells, c) == {d \in cells : d[1] = c[1] /\ d[2] <= c[2]}

(* crow[i + 1] - crow[i] counts the cells of row i.                        *)
LEMMA RowStartNext ==
  ASSUME NEW n \in Nat, NEW cells, Cells(cells, n), NEW i \in Int
  PROVE  /\ RowStart(cells, i) \in Nat /\ Cardinality(RowCells(cells, i)) \in Nat
         /\ RowStart(cells, i + 1) = RowStart(cells, i) + Cardinality(RowCells(cells, i))
<1> DEFINE before(j) == {c \in cells : c[1] < j}
<1>1. IsFiniteSet(cells) /\ \A c \in cells : c[1] \in Int
  BY DEF Cells
<1>2. before(i) \in SUBSET cells /\ RowCells(cells, i) \in SUBSET cells
  BY DEF RowCells
<1>3. before(i + 1) = before(i) \cup RowCells(cells, i)
  BY <1>1 DEF RowCells
<1>4. before(i) \cap RowCells(cells, i) = {}
  BY <1>1 DEF RowCells
<1>5. RowStart(cells, i) = Cardinality(before(i)) /\ RowStart(cells, i + 1) = Cardinality(before(i + 1))
  BY DEF RowStart
<1> HIDE DEF before
<1>6. IsFiniteSet(before(i)) /\ IsFiniteSet(RowCells(cells, i))
  BY <1>1, <1>2, FS_Subset
<1>7. Cardinality(before(i) \cup RowCells(cells, i))
        = Cardinality(before(i)) + Cardinality(RowCells(cells, i)) - Cardinality({})
  BY <1>4, <1>6, FS_Union
<1>8. Cardinality(before(i)) \in Nat /\ Cardinality(RowCells(cells, i)) \in Nat /\ Cardinality({}) = 0
  BY <1>6, FS_CardinalityType, FS_EmptySet
<1>9. Cardinality(before(i) \cup RowCells(cells, i))
        = Cardinality(before(i)) + Cardinality(RowCells(cells, i))
  BY <1>7, <1>8
<1> QED BY <1>3, <1>5, <1>8, <1>9

(* crow never falls, and ends at the number of cells.                      *)
LEMMA RowStartGrows ==
  ASSUME NEW n \in Nat, NEW cells, Cells(cells, n), NEW i \in Int, NEW j \in Int, i <= j
  PROVE  /\ RowStart(cells, i) <= RowStart(cells, j)
         /\ RowStart(cells, j) <= Cardinality(cells)
         /\ RowStart(cells, i) \in Nat /\ RowStart(cells, j) \in Nat
<1>1. IsFiniteSet(cells) /\ \A c \in cells : c[1] \in Int
  BY DEF Cells
<1> DEFINE before(k) == {c \in cells : c[1] < k}
<1>2. before(i) \in SUBSET before(j) /\ before(j) \in SUBSET cells
  BY <1>1
<1>3. RowStart(cells, i) = Cardinality(before(i)) /\ RowStart(cells, j) = Cardinality(before(j))
  BY DEF RowStart
<1> HIDE DEF before
<1>4. IsFiniteSet(before(j)) /\ Cardinality(before(j)) <= Cardinality(cells)
  BY <1>1, <1>2, FS_Subset
<1>5. Cardinality(before(i)) <= Cardinality(before(j))
  BY <1>2, <1>4, FS_Subset
<1> QED BY <1>3, <1>4, <1>5, RowStartNext

(* The place of a cell lies within its row.                                *)
LEMMA PlaceInRow ==
  ASSUME NEW n \in Nat, NEW cells, Cells(cells, n), NEW c \in cells
  PROVE  /\ PlaceOf(cells, c) \in Int /\ c[1] \in 1 .. n /\ c[2] \in 1 .. n
         /\ RowStart(cells, c[1]) < PlaceOf(cells, c)
         /\ PlaceOf(cells, c) <= RowStart(cells, c[1] + 1)
<1>1. IsFiniteSet(cells) /\ c[1] \in 1 .. n /\ c[2] \in 1 .. n
  BY DEF Cells
<1>2. PlaceOf(cells, c) = RowStart(cells, c[1]) + Cardinality(RowPrefix(cells, c))
  BY DEF PlaceOf, RowPrefix
<1>3. RowPrefix(cells, c) \in SUBSET RowCells(cells, c[1]) /\ RowCells(cells, c[1]) \in SUBSET cells
      /\ c \in RowPrefix(cells, c)
  BY <1>1 DEF RowPrefix, RowCells
<1>4. IsFiniteSet(RowCells(cells, c[1]))
  BY <1>1, <1>3, FS_Subset
<1>5. IsFiniteSet(RowPrefix(cells, c))
      /\ Cardinality(RowPrefix(cells, c)) <= Cardinality(RowCells(cells, c[1]))
  BY <1>3, <1>4, FS_Subset
<1>6. Cardinality(RowPrefix(cells, c)) \in Nat /\ Cardinality(RowPrefix(cells, c)) # 0
  BY <1>3, <1>5, FS_CardinalityType, FS_EmptySet
<1>7. c[1] \in Int
  BY <1>1
<1>8. /\ RowStart(cells, c[1]) \in Nat /\ Cardinality(RowCells(cells, c[1])) \in Nat
      /\ RowStart(cells, c[1] + 1) = RowStart(cells, c[1]) + Cardinality(RowCells(cells, c[1]))
  BY <1>7, RowStartNext
<1> QED BY <1>1, <1>2, <1>5, <1>6, <1>8

(* No two cells have the same place.                                       *)
LEMMA PlacesDiffer ==
  ASSUME NEW n \in Nat, NEW cells, Cells(cells, n), NEW c \in cells, NEW d \in cells, c # d
  PROVE  PlaceOf(cells, c) # PlaceOf(cells, d)
<1>1. /\ c[1] \in Int /\ c[2] \in Int /\ c = <<c[1], c[2]>>
      /\ d[1] \in Int /\ d[2] \in Int /\ d = <<d[1], d[2]>>
  BY DEF Cells
<1>2. \A a, b \in cells : a[1] < b[1] => PlaceOf(cells, a) < PlaceOf(cells, b)
  <2> SUFFICES ASSUME NEW a \in cells, NEW b \in cells, a[1] < b[1]
               PROVE  PlaceOf(cells, a) < PlaceOf(cells, b)
    OBVIOUS
  <2>1. /\ PlaceOf(cells, a) \in Int /\ PlaceOf(cells, a) <= RowStart(cells, a[1] + 1)
        /\ PlaceOf(cells, b) \in Int /\ RowStart(cells, b[1]) < PlaceOf(cells, b)
        /\ a[1] + 1 \in Int /\ b[1] \in Int /\ a[1] + 1 <= b[1]
    BY PlaceInRow
  <2>2. /\ RowStart(cells, a[1] + 1) <= RowStart(cells, b[1])
        /\ RowStart(cells, a[1] + 1) \in Nat /\ RowStart(cells, b[1]) \in Nat
    BY <2>1, RowStartGrows
  <2> QED BY <2>1, <2>2
<1>3. \A a, b \in cells : a[1] = b[1] /\ a[2] < b[2] => PlaceOf(cells, a) < PlaceOf(cells, b)
  <2> SUFFICES ASSUME NEW a \in cells, NEW b \in cells, a[1] = b[1], a[2] < b[2]
               PROVE  PlaceOf(cells, a) < PlaceOf(cells, b)
    OBVIOUS
  <2>1. IsFiniteSet(cells) /\ a[1] \in Int /\ a[2] \in Int /\ b[2] \in Int
        /\ \A e \in cells : e[2] \in Int
    BY DEF Cells
  <2>2. RowPrefix(cells, a) \in SUBSET (RowPrefix(cells, b) \ {b})
        /\ RowPrefix(cells, b) \in SUBSET cells /\ b \in RowPrefix(cells, b)
    BY <2>1 DEF RowPrefix
  <2>3. IsFiniteSet(RowPrefix(cells, b))
    BY <2>1, <2>2, FS_Subset
  <2>4. IsFiniteSet(RowPrefix(cells, b) \ {b})
        /\ Cardinality(RowPrefix(cells, b) \ {b}) = Cardinality(RowPrefix(cells, b)) - 1
    BY <2>2, <2>3, FS_RemoveElement
  <2>5. IsFiniteSet(RowPrefix(cells, a))
        /\ Cardinality(RowPrefix(cells, a)) <= Cardinality(RowPrefix(cells, b) \ {b})
    BY <2>2, <2>4, FS_Subset
  <2>6. Cardinality(RowPrefix(cells, a)) \in Nat /\ Cardinality(RowPrefix(cells, b)) \in Nat
    BY <2>3, <2>5, FS_CardinalityType
  <2>7. RowStart(cells, a[1]) \in Nat
    BY <2>1, RowStartNext
  <2>8. /\ PlaceOf(cells, a) = RowStart(cells, a[1]) + Cardinality(RowPrefix(cells, a))
        /\ PlaceOf(cells, b) = RowStart(cells, a[1]) + Cardinality(RowPrefix(cells, b))
    BY DEF PlaceOf, RowPrefix
  <2> QED BY <2>4, <2>5, <2>6, <2>7, <2>8
<1>4. PlaceOf(cells, c) \in Int /\ PlaceOf(cells, d) \in Int
  BY PlaceInRow
<1>5. c[1] < d[1] \/ d[1] < c[1] \/ (c[1] = d[1] /\ c[2] < d[2]) \/ (c[1] = d[1] /\ d[2] < c[2])
  BY <1>1
<1> QED BY <1>2, <1>3, <1>4, <1>5

(* The places are 1 .. Cardinality(cells), one for each cell ...             *)
LEMMA PlacesFill ==
  ASSUME NEW n \in Nat, NEW cells, Cells(cells, n)
  PROVE  /\ Cardinality(cells) \in Nat
         /\ \A c \in cells : PlaceOf(cells, c) \in 1 .. Cardinality(cells)
         /\ \A k \in 1 .. Cardinality(cells) : \E c \in cells : PlaceOf(cells, c) = k
<1> DEFINE C == Cardinality(cells)
           f == [c \in cells |-> PlaceOf(cells, c)]
<1>1. IsFiniteSet(cells) /\ C \in Nat
  BY FS_CardinalityType DEF Cells
<1> HIDE DEF C
<1>2. \A c \in cells : PlaceOf(cells, c) \in 1 .. C
  <2> SUFFICES ASSUME NEW c \in cells PROVE PlaceOf(cells, c) \in 1 .. C
    OBVIOUS
  <2>1. /\ PlaceOf(cells, c) \in Int /\ c[1] \in Int /\ c[1] + 1 \in Int
        /\ RowStart(cells, c[1]) < PlaceOf(cells, c)
        /\ PlaceOf(cells, c) <= RowStart(cells, c[1] + 1)
    BY PlaceInRow
  <2>2. /\ RowStart(cells, c[1]) \in Nat /\ RowStart(cells, c[1] + 1) \in Nat
        /\ RowStart(cells, c[1] + 1) <= C
    BY <2>1, RowStartGrows DEF C
  <2> QED BY <1>1, <2>1, <2>2
<1>3. f \in Injection(cells, 1 .. C)
  <2>1. f \in [cells -> 1 .. C]
    BY <1>2
  <2>2. \A c, d \in cells : f[c] = f[d] => c = d
    BY PlacesDiffer
  <2> HIDE DEF f
  <2> QED BY <2>1, <2>2 DEF Injection, IsInjective
<1>4. IsFiniteSet(1 .. C) /\ Cardinality(1 .. C) = C
  BY <1>1, FS_Interval
<1>5. f \in Surjection(cells, 1 .. C)
  <2> HIDE DEF f
  <2> QED BY <1>3, <1>4, FS_Injection DEF C
<1>6. \A k \in 1 .. C : \E c \in cells : f[c] = k
  <2> HIDE DEF f
  <2> QED BY <1>5 DEF Surjection
<1> QED BY <1>1, <1>2, <1>6 DEF C

(* ... and those of row i are the ones crow keeps for it.                    *)
LEMMA PlaceTellsRow ==
  ASSUME NEW n \in Nat, NEW cells, Cells(cells, n), NEW c \in cells, NEW i \in 1 .. n
  PROVE  PlaceOf(cells, c) \in RowStart(cells, i) + 1 .. RowStart(cells, i + 1) <=> c[1] = i
<1>1. /\ PlaceOf(cells, c) \in Int /\ c[1] \in Int /\ c[1] + 1 \in Int /\ i \in Int /\ i + 1 \in Int
      /\ RowStart(cells, c[1]) < PlaceOf(cells, c)
      /\ PlaceOf(cells, c) <= RowStart(cells, c[1] + 1)
  BY PlaceInRow
<1>2. \A j \in Int : RowStart(cells, j) \in Nat
  BY RowStartNext
<1>3. CASE c[1] = i
  BY <1>1, <1>2, <1>3
<1>4. CASE c[1] < i
  <2>1. c[1] + 1 <= i
    BY <1>1, <1>4
  <2>2. RowStart(cells, c[1] + 1) <= RowStart(cells, i)
    BY <1>1, <2>1, RowStartGrows
  <2> QED BY <1>1, <1>2, <1>4, <2>2
<1>5. CASE i < c[1]
  <2>1. i + 1 <= c[1]
    BY <1>1, <1>5
  <2>2. RowStart(cells, i + 1) <= RowStart(cells, c[1])
    BY <1>1, <2>1, RowStartGrows
  <2> QED BY <1>1, <1>2, <1>5, <2>2
<1> QED BY <1>1, <1>3, <1>4, <1>5

-----------------------------------------------------------------------------
(* Every edge joins two of the nodes ids lists.                              *)
Indexed(ids, edges) ==
  /\ Len(ids) \in Nat /\ DOMAIN ids = 1 .. Len(ids) /\ IsFiniteSet(edges)
  /\ \A e \in edges : /\ Index(ids, e.src) \in 1 .. Len(ids)
                      /\ Index(ids, e.dst) \in 1 .. Len(ids)
                      /\ e.raw \in Int

Forward(ids, e) ==
    [row |-> Index(ids, e.src), col |-> Index(ids, e.dst), edge |-> e, back |-> FALSE]
Backward(ids, e) ==
    [row |-> Index(ids, e.dst), col |-> Index(ids, e.src), edge |-> e, back |-> TRUE]
Crossing(ids, edges) == {e \in edges : Index(ids, e.src) # Index(ids, e.dst)}
CellsOf(halves) == {<<h.row, h.col>> : h \in halves}
RawOf(halves) == [h \in halves |-> h.edge.raw]
HalvesAt(halves, c) == {h \in halves : <<h.row, h.col>> = c}

(* A half edge stands for one of the edges, one way or the other.          *)
LEMMA HalfFacts ==
  ASSUME NEW ids, NEW edges, Indexed(ids, edges), NEW h \in HalfEdges(ids, edges)
  PROVE  /\ h.edge \in edges /\ h.row \in 1 .. Len(ids) /\ h.col \in 1 .. Len(ids)
         /\ \/ h = Forward(ids, h.edge)
            \/ h = Backward(ids, h.edge) /\ h.edge \in Crossing(ids, edges)
<1>1. \/ \E e \in edges : h = Forward(ids, e)
      \/ \E e \in Crossing(ids, edges) : h = Backward(ids, e)
  BY DEF HalfEdges, Forward, Backward, Crossing
<1>2. CASE \E e \in edges : h = Forward(ids, e)
  <2>1. PICK e \in edges : h = Forward(ids, e)
    BY <1>2
  <2>2. h.edge = e /\ h.row = Index(ids, e.src) /\ h.col = Index(ids, e.dst)
    BY <2>1 DEF Forward
  <2> QED BY <2>1, <2>2 DEF Indexed
<1>3. CASE \E e \in Crossing(ids, edges) : h = Backward(ids, e)
  <2>1. PICK e \in Crossing(ids, edges) : h = Backward(ids, e)
    BY <1>3
  <2>2. h.edge = e /\ h.row = Index(ids, e.dst) /\ h.col = Index(ids, e.src) /\ e \in edges
    BY <2>1 DEF Backward, Crossing
  <2> QED BY <2>1, <2>2 DEF Indexed
<1> QED BY <1>1, <1>2, <1>3

(* There are finitely many of them, in cells of the matrix.                *)
LEMMA HalvesFinite ==
  ASSUME NEW ids, NEW edges, Indexed(ids, edges)
  PROVE  /\ IsFiniteSet(HalfEdges(ids, edges))
         /\ Cells(CellsOf(HalfEdges(ids, edges)), Len(ids))
<1> DEFINE halves == HalfEdges(ids, edges)
           f == [e \in edges |-> Forward(ids, e)]
           g == [e \in Crossing(ids, edges) |-> Backward(ids, e)]
           cell == [h \in halves |-> <<h.row, h.col>>]
<1>1. halves = ImageOf(f, edges) \cup ImageOf(g, Crossing(ids, edges))
  BY DEF HalfEdges, Forward, Backward, Crossing, ImageOf
<1>2. IsFiniteSet(edges) /\ IsFiniteSet(Crossing(ids, edges))
  <2>1. Crossing(ids, edges) \in SUBSET edges
    BY DEF Crossing
  <2> QED BY <2>1, FS_Subset DEF Indexed
<1>3. CellsOf(halves) = ImageOf(cell, halves)
  BY DEF CellsOf, ImageOf
<1>4. CellsOf(halves) \subseteq (1 .. Len(ids)) \X (1 .. Len(ids))
  BY HalfFacts DEF CellsOf
<1> HIDE DEF halves, f, g, cell
<1>5. IsFiniteSet(ImageOf(f, edges)) /\ IsFiniteSet(ImageOf(g, Crossing(ids, edges)))
  BY <1>2, ImageFinite
<1>6. IsFiniteSet(ImageOf(f, edges) \cup ImageOf(g, Crossing(ids, edges)))
  BY <1>5, FS_Union
<1>7. IsFiniteSet(halves)
  BY <1>1, <1>6
<1>8. IsFiniteSet(CellsOf(halves))
  BY <1>3, <1>7, ImageFinite
<1> QED BY <1>4, <1>7, <1>8 DEF Cells, halves

(* What the compressed rows hold at the place of a cell.                     *)
LEMMA SparseEntries ==
  ASSUME NEW ids, NEW edges, Indexed(ids, edges),
         NEW c \in CellsOf(HalfEdges(ids, edges))
  PROVE  LET halves == HalfEdges(ids, edges)
             cells == CellsOf(halves)
             csr == SparseAdjacencyTensor(ids, edges)
         IN  /\ csr.col[PlaceOf(cells, c)] = c[2]
             /\ csr.val[PlaceOf(cells, c)] = Sum(RawOf(halves), HalvesAt(halves, c))
<1> DEFINE halves == HalfEdges(ids, edges)
           cells == CellsOf(halves)
           EntryOf(d) == [place |-> PlaceOf(cells, d), col |-> d[2],
                          val |-> Sum(RawOf(halves), HalvesAt(halves, d))]
           entries == {EntryOf(d) : d \in cells}
           Entry(k) == CHOOSE e \in entries : e.place = k
           csr == SparseAdjacencyTensor(ids, edges)
           C == Cardinality(cells)
<1>1. /\ csr.col = [k \in 1 .. C |-> Entry(k).col]
      /\ csr.val = [k \in 1 .. C |-> Entry(k).val]
  BY DEF SparseAdjacencyTensor, CellsOf, RawOf, HalvesAt, Sum
<1>2. Cells(cells, Len(ids)) /\ Len(ids) \in Nat
  BY HalvesFinite DEF Indexed
<1>3. c \in cells
  OBVIOUS
<1> HIDE DEF halves, cells, csr
<1>4. PlaceOf(cells, c) \in 1 .. C
  BY <1>2, <1>3, PlacesFill
<1>5. Entry(PlaceOf(cells, c)) = EntryOf(c)
  <2>1. EntryOf(c) \in entries /\ EntryOf(c).place = PlaceOf(cells, c)
    BY <1>3
  <2>2. \A e \in entries : e.place = PlaceOf(cells, c) => e = EntryOf(c)
    <3> SUFFICES ASSUME NEW d \in cells, EntryOf(d).place = PlaceOf(cells, c)
                 PROVE  EntryOf(d) = EntryOf(c)
      OBVIOUS
    <3>1. PlaceOf(cells, d) = PlaceOf(cells, c)
      OBVIOUS
    <3>2. d = c
      BY <1>2, <1>3, <3>1, PlacesDiffer
    <3> QED BY <3>2
  <2> HIDE DEF entries, EntryOf
  <2> QED BY <2>1, <2>2
<1>6. EntryOf(c).col = c[2] /\ EntryOf(c).val = Sum(RawOf(halves), HalvesAt(halves, c))
  OBVIOUS
<1> HIDE DEF Entry, EntryOf, C
<1>7. csr.col[PlaceOf(cells, c)] = c[2]
      /\ csr.val[PlaceOf(cells, c)] = Sum(RawOf(halves), HalvesAt(halves, c))
  BY <1>1, <1>4, <1>5, <1>6
<1> QED BY <1>7 DEF csr, cells, halves

(* A cell of the dense matrix sums the edges whose halves the sparse one     *)
(* coalesces there.                                                          *)
EdgesAt(ids, edges, i, j) ==
  {e \in edges : {Index(ids, e.src), Index(ids, e.dst)} = {i, j}}

LEMMA CellSum ==
  ASSUME NEW ids, NEW edges, Indexed(ids, edges),
         NEW i \in 1 .. Len(ids), NEW j \in 1 .. Len(ids)
  PROVE  Sum(RawOf(HalfEdges(ids, edges)), HalvesAt(HalfEdges(ids, edges), <<i, j>>))
           = Sum([e \in edges |-> e.raw], EdgesAt(ids, edges, i, j))
<1> DEFINE halves == HalfEdges(ids, edges)
           S == HalvesAt(halves, <<i, j>>)
           R == EdgesAt(ids, edges, i, j)
           b == [h \in halves |-> h.edge]
           g == [e \in edges |-> e.raw]
<1>1. IsFiniteSet(S) /\ IsFiniteSet(R)
  <2>1. S \in SUBSET halves /\ R \in SUBSET edges
    BY DEF HalvesAt, EdgesAt
  <2>2. IsFiniteSet(halves) /\ IsFiniteSet(edges)
    BY HalvesFinite DEF Indexed
  <2> HIDE DEF S, R, halves
  <2> QED BY <2>1, <2>2, FS_Subset
<1>2. \A h \in S : /\ h \in halves /\ h.row = i /\ h.col = j
                   /\ b[h] = h.edge /\ h.edge \in edges
                   /\ RawOf(halves)[h] = h.edge.raw /\ g[h.edge] = h.edge.raw
                   /\ h.edge.raw \in Int
  BY HalfFacts DEF HalvesAt, RawOf, Indexed
<1>3. \A e : /\ Forward(ids, e).row = Index(ids, e.src) /\ Forward(ids, e).col = Index(ids, e.dst)
             /\ Backward(ids, e).row = Index(ids, e.dst) /\ Backward(ids, e).col = Index(ids, e.src)
             /\ Forward(ids, e).edge = e /\ Backward(ids, e).edge = e
  BY DEF Forward, Backward
<1>4. ASSUME NEW h \in S PROVE b[h] \in R
  <2>1. h.row = i /\ h.col = j /\ h \in halves
    BY <1>2
  <2>2. PICK e : e = h.edge
    OBVIOUS
  <2>3. h = Forward(ids, e) \/ h = Backward(ids, e)
    BY <2>1, <2>2, HalfFacts
  <2>4. CASE h = Forward(ids, e)
    <3>1. Index(ids, e.src) = i /\ Index(ids, e.dst) = j
      BY <1>3, <2>1, <2>4
    <3> QED BY <1>2, <2>2, <3>1 DEF EdgesAt
  <2>5. CASE h = Backward(ids, e)
    <3>1. Index(ids, e.dst) = i /\ Index(ids, e.src) = j
      BY <1>3, <2>1, <2>5
    <3>2. {Index(ids, e.src), Index(ids, e.dst)} = {i, j}
      BY <3>1
    <3> QED BY <1>2, <2>2, <3>2 DEF EdgesAt
  <2> QED BY <2>3, <2>4, <2>5
<1>5. ASSUME NEW h \in S, NEW k \in S, b[h] = b[k] PROVE h = k
  <2>1. PICK e : e = h.edge /\ e = k.edge
    BY <1>2, <1>5
  <2>2. /\ \/ h = Forward(ids, h.edge)
           \/ h = Backward(ids, h.edge) /\ h.edge \in Crossing(ids, edges)
        /\ \/ k = Forward(ids, k.edge)
           \/ k = Backward(ids, k.edge) /\ k.edge \in Crossing(ids, edges)
    BY <1>2, HalfFacts
  <2>3. h.row = i /\ h.col = j /\ k.row = i /\ k.col = j
    BY <1>2
  <2>4. /\ e \in Crossing(ids, edges) => Index(ids, e.src) # Index(ids, e.dst)
        /\ Backward(ids, e).row = Index(ids, e.dst) /\ Backward(ids, e).col = Index(ids, e.src)
    BY <1>3 DEF Crossing
  <2>5. CASE h = Forward(ids, e)
    <3>1. Index(ids, e.src) = i /\ Index(ids, e.dst) = j
      BY <1>3, <2>3, <2>5
    <3>2. ASSUME k = Backward(ids, e), e \in Crossing(ids, edges) PROVE FALSE
      <4>1. Index(ids, e.dst) = i /\ Index(ids, e.src) = j
        BY <2>3, <2>4, <3>2
      <4> QED BY <2>4, <3>1, <3>2, <4>1
    <3> QED BY <2>1, <2>2, <2>5, <3>2
  <2>6. CASE h = Backward(ids, e) /\ e \in Crossing(ids, edges)
    <3>1. Index(ids, e.dst) = i /\ Index(ids, e.src) = j /\ i # j
      <4>1. Index(ids, e.dst) = i /\ Index(ids, e.src) = j
        BY <2>3, <2>4, <2>6
      <4> QED BY <2>4, <2>6, <4>1
    <3>2. k # Forward(ids, e)
      BY <1>3, <2>3, <3>1
    <3> QED BY <2>1, <2>2, <2>6, <3>2
  <2> QED BY <2>1, <2>2, <2>5, <2>6
<1>6. ASSUME NEW e \in R PROVE \E h \in S : b[h] = e
  <2>1. e \in edges /\ {Index(ids, e.src), Index(ids, e.dst)} = {i, j}
    BY DEF EdgesAt
  <2>2. CASE Index(ids, e.src) = i /\ Index(ids, e.dst) = j
    <3>1. Forward(ids, e) \in halves
      BY <2>1 DEF HalfEdges, Forward
    <3>2. Forward(ids, e) \in S
      BY <1>3, <2>2, <3>1 DEF HalvesAt
    <3> QED BY <1>2, <1>3, <3>2
  <2>3. CASE ~(Index(ids, e.src) = i /\ Index(ids, e.dst) = j)
    <3>1. Index(ids, e.src) = j /\ Index(ids, e.dst) = i /\ Index(ids, e.src) # Index(ids, e.dst)
      BY <2>1, <2>3
    <3>2. Backward(ids, e) \in halves
      BY <2>1, <3>1 DEF HalfEdges, Backward
    <3>3. Backward(ids, e) \in S
      BY <1>3, <3>1, <3>2 DEF HalvesAt
    <3> QED BY <1>2, <1>3, <3>3
  <2> QED BY <2>2, <2>3
<1>7. \A h \in S : RawOf(halves)[h] \in Int /\ b[h] \in R /\ g[b[h]] = RawOf(halves)[h]
  BY <1>2, <1>4
<1> HIDE DEF S, R, b, g, halves
<1>8. Sum(g, R) = Sum(RawOf(halves), S)
  BY <1>1, <1>5, <1>6, <1>7, SumRenamed
<1> QED BY <1>8 DEF S, R, g, halves

-----------------------------------------------------------------------------
(* The compressed matrix, expanded, is the dense one.                      *)
LEMMA SparseIsDense ==
  ASSUME NEW ids, NEW edges, Indexed(ids, edges)
  PROVE  ToDense(SparseAdjacencyTensor(ids, edges), Len(ids)) = AdjacencyTensor(ids, edges)
<1> DEFINE n == Len(ids)
           halves == HalfEdges(ids, edges)
           cells == CellsOf(halves)
           csr == SparseAdjacencyTensor(ids, edges)
           At(i, j) == {k \in csr.crow[i] + 1 .. csr.crow[i + 1] : csr.col[k] = j}
<1>1. n \in Nat /\ DOMAIN ids = 1 .. n /\ Cells(cells, n) /\ IsFiniteSet(halves)
  BY HalvesFinite DEF Indexed
<1>2. csr.crow = [i \in 1 .. n + 1 |-> RowStart(cells, i)]
  BY DEF SparseAdjacencyTensor, CellsOf
<1>3. /\ \A c \in cells : /\ csr.col[PlaceOf(cells, c)] = c[2]
                          /\ csr.val[PlaceOf(cells, c)] = Sum(RawOf(halves), HalvesAt(halves, c))
  BY SparseEntries
<1>4. \A h \in halves : RawOf(halves)[h] \in Int
  BY HalfFacts DEF RawOf, Indexed
<1>5. \A c : c \notin cells => HalvesAt(halves, c) = {}
  BY DEF HalvesAt, CellsOf
<1> HIDE DEF halves, cells, csr
<1>6. ASSUME NEW i \in 1 .. n, NEW j \in 1 .. n
      PROVE  SumFunctionOnSet(csr.val, At(i, j)) = Sum(RawOf(halves), HalvesAt(halves, <<i, j>>))
  <2>1. csr.crow[i] = RowStart(cells, i) /\ csr.crow[i + 1] = RowStart(cells, i + 1)
        /\ RowStart(cells, i) \in Nat /\ RowStart(cells, i + 1) \in Nat
        /\ RowStart(cells, i + 1) <= Cardinality(cells)
        /\ Cardinality(cells) \in Nat
    <3>1. i \in Int /\ i + 1 \in Int /\ i <= i + 1 /\ i \in 1 .. n + 1 /\ i + 1 \in 1 .. n + 1
      BY <1>1
    <3>2. Cardinality(cells) \in Nat
      BY <1>1, PlacesFill
    <3> QED BY <1>1, <1>2, <3>1, <3>2, RowStartGrows
  <2>2. \A k \in At(i, j) : \E c \in cells : PlaceOf(cells, c) = k /\ c = <<i, j>>
    <3> SUFFICES ASSUME NEW k \in At(i, j)
                 PROVE  \E c \in cells : PlaceOf(cells, c) = k /\ c = <<i, j>>
      OBVIOUS
    <3>1. k \in RowStart(cells, i) + 1 .. RowStart(cells, i + 1) /\ csr.col[k] = j
      BY <2>1
    <3>2. k \in 1 .. Cardinality(cells)
      BY <2>1, <3>1
    <3>3. PICK c \in cells : PlaceOf(cells, c) = k
      BY <1>1, <3>2, PlacesFill
    <3>4. c[1] = i
      BY <1>1, <3>1, <3>3, PlaceTellsRow
    <3>5. c[2] = j
      BY <1>3, <3>1, <3>3
    <3>6. c = <<c[1], c[2]>>
      BY <1>1 DEF Cells
    <3> QED BY <3>3, <3>4, <3>5, <3>6
  <2>3. CASE <<i, j>> \in cells
    <3> DEFINE c == <<i, j>>
    <3>1. PlaceOf(cells, c) \in RowStart(cells, i) + 1 .. RowStart(cells, i + 1)
      BY <1>1, <2>3, PlaceTellsRow
    <3>2. PlaceOf(cells, c) \in At(i, j)
      BY <1>3, <2>1, <2>3, <3>1
    <3>3. At(i, j) = {PlaceOf(cells, c)}
      <4> HIDE DEF At
      <4> QED BY <2>2, <3>2
    <3>4. csr.val[PlaceOf(cells, c)] = Sum(RawOf(halves), HalvesAt(halves, c))
      BY <1>3, <2>3
    <3>5. Sum(RawOf(halves), HalvesAt(halves, c)) \in Int
      <4>1. HalvesAt(halves, c) \in SUBSET halves
        BY DEF HalvesAt
      <4>2. IsFiniteSet(HalvesAt(halves, c)) /\ \A h \in HalvesAt(halves, c) : RawOf(halves)[h] \in Int
        BY <1>1, <1>4, <4>1, FS_Subset
      <4> QED BY <4>2, SumType
    <3> HIDE DEF At, c
    <3>6. Sum(csr.val, {PlaceOf(cells, c)}) = csr.val[PlaceOf(cells, c)]
      BY <3>4, <3>5, SumOne
    <3>7. SumFunctionOnSet(csr.val, At(i, j)) = Sum(RawOf(halves), HalvesAt(halves, c))
      BY <3>3, <3>4, <3>6 DEF Sum
    <3> QED BY <3>7 DEF c
  <2>4. CASE <<i, j>> \notin cells
    <3> HIDE DEF At
    <3>1. At(i, j) = {}
      BY <2>2, <2>4
    <3>2. HalvesAt(halves, <<i, j>>) = {}
      BY <1>5, <2>4
    <3>3. Sum(csr.val, {}) = 0 /\ Sum(RawOf(halves), {}) = 0
      BY SumEmpty
    <3> QED BY <3>1, <3>2, <3>3 DEF Sum
  <2> QED BY <2>3, <2>4
<1>7. ASSUME NEW i \in 1 .. n, NEW j \in 1 .. n
      PROVE  SumFunctionOnSet(csr.val, At(i, j))
               = SumFunctionOnSet([e \in edges |-> e.raw], EdgesAt(ids, edges, i, j))
  <2>1. Sum(RawOf(halves), HalvesAt(halves, <<i, j>>))
           = Sum([e \in edges |-> e.raw], EdgesAt(ids, edges, i, j))
    BY CellSum DEF halves
  <2> HIDE DEF At
  <2> QED BY <1>6, <2>1 DEF Sum
<1>8. ToDense(csr, n) = [c \in (1 .. n) \X (1 .. n) |-> SumFunctionOnSet(csr.val, At(c[1], c[2]))]
  BY DEF ToDense
<1>9. AdjacencyTensor(ids, edges)
        = [c \in (1 .. n) \X (1 .. n) |->
             SumFunctionOnSet([e \in edges |-> e.raw], EdgesAt(ids, edges, c[1], c[2]))]
  BY <1>1 DEF AdjacencyTensor, EdgesAt
<1> HIDE DEF At, n
<1>10. \A c \in (1 .. n) \X (1 .. n) :
          SumFunctionOnSet(csr.val, At(c[1], c[2]))
            = SumFunctionOnSet([e \in edges |-> e.raw], EdgesAt(ids, edges, c[1], c[2]))
  BY <1>7
<1>11. ToDense(csr, n) = AdjacencyTensor(ids, edges)
  BY <1>8, <1>9, <1>10
<1> QED BY <1>11 DEF csr, n

(* The dense matrix is symmetric.                                          *)
LEMMA DenseSymmetric ==
  ASSUME NEW ids, NEW edges
  PROVE  \A i, j \in DOMAIN ids :
            AdjacencyTensor(ids, edges)[<<i, j>>] = AdjacencyTensor(ids, edges)[<<j, i>>]
<1> SUFFICES ASSUME NEW i \in DOMAIN ids, NEW j \in DOMAIN ids
             PROVE  AdjacencyTensor(ids, edges)[<<i, j>>] = AdjacencyTensor(ids, edges)[<<j, i>>]
  OBVIOUS
<1>1. EdgesAt(ids, edges, i, j) = EdgesAt(ids, edges, j, i)
  BY DEF EdgesAt
<1>2. \A k, l \in DOMAIN ids :
         AdjacencyTensor(ids, edges)[<<k, l>>]
           = SumFunctionOnSet([e \in edges |-> e.raw], EdgesAt(ids, edges, k, l))
  BY DEF AdjacencyTensor, EdgesAt
<1> QED BY <1>1, <1>2

-----------------------------------------------------------------------------
(* Min-max normalisation stays within [0, 1] and blanks a constant column. *)
LEMMA Normalised ==
  ASSUME NEW x, IsFiniteSet(DOMAIN x), NEW c, \A i \in DOMAIN x : x[i][c] \in Int,
         NEW i \in DOMAIN x
  PROVE  LET y == Apply(Fit(x, c), x[i][c])
         IN  /\ y.den > 0 /\ y.num \in 0 .. y.den
             /\ (\A k \in DOMAIN x : x[k][c] = x[1][c]) => y.num = 0
<1> DEFINE f == [k \in DOMAIN x |-> x[k][c]]
           column == ImageOf(f, DOMAIN x)
<1>1. column = {x[k][c] : k \in DOMAIN x}
  BY DEF ImageOf
<1>2. IsFiniteSet(column)
  <2> HIDE DEF f
  <2> QED BY ImageFinite
<1>3. column \in SUBSET Int /\ x[i][c] \in column
  BY <1>1
<1>4. (\A k \in DOMAIN x : x[k][c] = x[1][c]) => \A u, v \in column : u = v
  BY <1>1
<1> DEFINE high == Max(column)
           low == Min(column)
<1>5. Fit(x, c) = [offset |-> low, scale |-> IF high - low = 0 THEN 1 ELSE high - low,
                   zero |-> high - low = 0]
  BY <1>1 DEF Fit
<1> HIDE DEF column
<1>6. /\ high \in column /\ \A v \in column : v <= high
      /\ low \in column /\ \A v \in column : low <= v
  BY <1>2, <1>3, MaxIs, MinIs
<1> HIDE DEF high, low
<1> DEFINE state == Fit(x, c)
<1>10. /\ state.offset = low
       /\ high - low = 0 => state.scale = 1 /\ state.zero
       /\ high - low # 0 => state.scale = high - low /\ ~state.zero
  <2>1. CASE high - low = 0
    <3>1. state = [offset |-> low, scale |-> 1, zero |-> TRUE]
      BY <1>5, <2>1
    <3> HIDE DEF state
    <3> QED BY <2>1, <3>1
  <2>2. CASE high - low # 0
    <3>1. state = [offset |-> low, scale |-> high - low, zero |-> FALSE]
      BY <1>5, <2>2
    <3> HIDE DEF state
    <3> QED BY <2>2, <3>1
  <2> QED BY <2>1, <2>2
<1> HIDE DEF state
<1>7. high \in Int /\ low \in Int /\ low <= x[i][c] /\ x[i][c] <= high /\ x[i][c] \in Int
  BY <1>3, <1>6
<1>8. CASE high - low = 0
  <2>1. Apply(state, x[i][c]) = [num |-> 0, den |-> 1]
    BY <1>8, <1>10 DEF Apply
  <2> QED BY <2>1 DEF state
<1>9. CASE high - low # 0
  <2>1. Apply(state, x[i][c]) = [num |-> x[i][c] - low, den |-> high - low]
    BY <1>9, <1>10 DEF Apply
  <2>2. ~\A k \in DOMAIN x : x[k][c] = x[1][c]
    BY <1>4, <1>6, <1>7, <1>9
  <2>3. high - low > 0 /\ x[i][c] - low \in 0 .. high - low
    BY <1>7, <1>9
  <2> QED BY <2>1, <2>2, <2>3 DEF state
<1> QED BY <1>8, <1>9

-----------------------------------------------------------------------------
(* The tensors of every window agree.                                      *)
LEMMA WindowTensors == ASSUME NEW w \in Window PROVE TensorsAgree(BuildGraph(w))
<1> DEFINE g == BuildGraph(w)
           nodes == FoldSet(LAMBDA n, s : Append(s, n), << >>, g.nodes)
           ids == [i \in DOMAIN nodes |-> nodes[i].id]
           loop == [src |-> ids[1], dst |-> ids[1], raw |-> 1]
           x == FeatureTensor(nodes)
<1>1. g.nodes = NodesOf(w) /\ g.edges = Edges(w)
  BY GraphNodes
<1> HIDE DEF g
<1>2. Lists(nodes, NodesOf(w))
  BY <1>1, NodesFinite, ListingLists
<1> HIDE DEF nodes
<1>3. PICK n : n = Len(nodes) /\ n \in Nat /\ DOMAIN nodes = 1 .. n
               /\ \A i \in 1 .. n : nodes[i] \in NodesOf(w)
  <2>1. nodes \in Seq(NodesOf(w))
    BY <1>2 DEF Lists
  <2>2. Len(nodes) \in Nat /\ DOMAIN nodes = 1 .. Len(nodes)
    BY <2>1, LenProperties
  <2> QED BY <2>1, <2>2, ElementOfSeq
<1>4. DOMAIN ids = 1 .. n /\ Len(ids) = n
  BY <1>3
<1>5. \A i \in 1 .. n : ids[i] = nodes[i].id /\ ids[i] \in NodeIds(w)
  BY <1>3, GraphNodes
<1>6. \A id \in NodeIds(w) : \E i \in 1 .. n : ids[i] = id
  <2> SUFFICES ASSUME NEW id \in NodeIds(w) PROVE \E i \in 1 .. n : ids[i] = id
    OBVIOUS
  <2>1. NodeOf(w, id) \in NodesOf(w) /\ NodeOf(w, id).id = id
    BY GraphNodes
  <2>2. PICK i \in 1 .. n : nodes[i] = NodeOf(w, id)
    BY <1>2, <1>3, <2>1 DEF Lists
  <2> QED BY <1>5, <2>1, <2>2
<1> HIDE DEF ids
<1>7. ASSUME NEW id \in NodeIds(w) PROVE Index(ids, id) \in 1 .. n
  <2> DEFINE places == {i \in DOMAIN ids : ids[i] = id}
  <2>1. places \in SUBSET (1 .. n) /\ places # {}
    BY <1>4, <1>6
  <2>2. IsFiniteSet(1 .. n)
    BY <1>3, FS_Interval
  <2>3. IsFiniteSet(places) /\ places \in SUBSET Int
    <3>1. IsFiniteSet(places)
      BY <2>1, <2>2, FS_Subset
    <3>2. 1 .. n \subseteq Int
      BY <1>3
    <3> QED BY <2>1, <3>1, <3>2
  <2> HIDE DEF places
  <2>4. Max(places) \in places
    BY <2>1, <2>3, MaxIs
  <2> QED BY <2>1, <2>4 DEF Index, places
<1>8. ids[1] \in NodeIds(w)
  <2>1. NodeIds(w) # {}
    BY NamesFinite DEF NodeIds
  <2>2. 1 \in 1 .. n
    BY <1>3, <1>6, <2>1
  <2> QED BY <1>5, <2>2
<1>9. IsFiniteSet(Edges(w)) /\ \A e \in Edges(w) : /\ e.src \in NodeIds(w) /\ e.dst \in NodeIds(w)
                                                   /\ e.raw \in Int
  BY EdgesFinite, EdgeFacts
<1>10. Indexed(ids, Edges(w))
  BY <1>3, <1>4, <1>7, <1>9 DEF Indexed
<1>11. Indexed(ids, Edges(w) \cup {loop})
  <2>1. loop.src = ids[1] /\ loop.dst = ids[1] /\ loop.raw \in Int
    OBVIOUS
  <2> HIDE DEF loop
  <2>2. IsFiniteSet(Edges(w) \cup {loop})
    BY <1>9, FS_AddElement
  <2>3. \A e \in Edges(w) \cup {loop} : /\ e.src \in NodeIds(w) /\ e.dst \in NodeIds(w)
                                        /\ e.raw \in Int
    BY <1>8, <1>9, <2>1
  <2> QED BY <1>3, <1>4, <1>7, <2>2, <2>3 DEF Indexed
<1>12. ~Dangling(ids, g.edges)
  <2>1. \A id \in NodeIds(w) : id \in {ids[i] : i \in DOMAIN ids}
    BY <1>4, <1>6
  <2> QED BY <1>1, <1>9, <2>1 DEF Dangling
<1>13. ASSUME NEW edges \in {g.edges, g.edges \cup {loop}}
       PROVE  LET dense == AdjacencyTensor(ids, edges)
              IN  /\ ToDense(SparseAdjacencyTensor(ids, edges), Len(ids)) = dense
                  /\ \A i, j \in DOMAIN ids : dense[<<i, j>>] = dense[<<j, i>>]
  <2>1. Indexed(ids, edges)
    BY <1>1, <1>10, <1>11
  <2> QED BY <2>1, SparseIsDense, DenseSymmetric
<1>14. ASSUME NEW c \in 1 .. 5, NEW i \in DOMAIN x
       PROVE  LET y == Apply(Fit(x, c), x[i][c])
              IN  /\ y.den > 0 /\ y.num \in 0 .. y.den
                  /\ (\A k \in DOMAIN x : x[k][c] = x[1][c]) => y.num = 0
  <2>1. DOMAIN x = 1 .. n /\ IsFiniteSet(1 .. n)
    BY <1>3, FS_Interval DEF FeatureTensor
  <2>2. ASSUME NEW k \in 1 .. n PROVE x[k][c] \in Int
    <3>1. x[k] = FeatureRow(nodes[k]) /\ nodes[k] \in NodesOf(w)
      BY <1>3 DEF FeatureTensor
    <3>2. nodes[k] = NodeOf(w, nodes[k].id) /\ nodes[k].id \in NodeIds(w)
      BY <3>1, GraphNodes
    <3>3. nodes[k].volume = NodeVolume(w, nodes[k].id)
          /\ nodes[k].degree = Degree(Edges(w), nodes[k].id)
      BY <3>2 DEF NodeOf
    <3>4. nodes[k].volume \in Int /\ nodes[k].degree \in Int
      BY <3>2, <3>3, NodeVolumeIs, DegreeBound, IdsFinite
    <3>5. x[k] = <<0, nodes[k].volume, 0, 0, nodes[k].degree>>
      BY <3>1 DEF FeatureRow
    <3>6. c = 1 \/ c = 2 \/ c = 3 \/ c = 4 \/ c = 5
      OBVIOUS
    <3> HIDE DEF x
    <3> QED BY <3>4, <3>5, <3>6
  <2> HIDE DEF x
  <2> QED BY <2>1, <2>2, Normalised
<1> QED BY <1>12, <1>13, <1>14 DEF TensorsAgree, g, nodes, ids

-----------------------------------------------------------------------------
(* Between the runs of the ring and of the alerts, read_all() is a window.   *)
LEMMA RingIsWindow == TypeOK /\ Fresh => ReadAll \in Window
<1> SUFFICES ASSUME TypeOK, Fresh PROVE ReadAll \in Window
  OBVIOUS
<1>1. ReadAll \in Seq(Event) /\ Len(ReadAll) = size /\ size > 0
  BY ReadAllSeq DEF Fresh
<1> HIDE DEF ReadAll
<1>2. ReadAll # << >>
  BY <1>1, EmptySeq
<1> QED BY <1>1, <1>2 DEF Window

(* Whatever the ring has evicted and wherever its head stands, read_all()    *)
(* builds a snapshot that passes its validation (builder.py:217), whose      *)
(* volumes balance and which the order of the events does not change, for    *)
(* every capacity, every set of events and every decay.                      *)
THEOREM SnapshotsAreSound == HotSpec => []SnapshotSound
<1>1. TypeOK => SnapshotSound
  <2> SUFFICES ASSUME TypeOK, Fresh PROVE GraphSound(ReadAll) /\ OrderFree(ReadAll)
    BY DEF SnapshotSound
  <2> QED BY RingIsWindow, WindowSound, WindowOrderFree
<1> QED BY <1>1, HotPathIsRing, NumpyTypeOK, PTL

(* The two adjacency builders of engine/tensor agree on the graph of every   *)
(* window, with a self-loop too, the matrix is symmetric and no normalised   *)
(* feature leaves [0, 1].                                                    *)
THEOREM TensorsAreConsistent == HotSpec => []TensorsConsistent
<1>1. TypeOK => TensorsConsistent
  <2> SUFFICES ASSUME TypeOK, Fresh PROVE TensorsAgree(BuildGraph(ReadAll))
    BY DEF TensorsConsistent
  <2> QED BY RingIsWindow, WindowTensors
<1> QED BY <1>1, HotPathIsRing, NumpyTypeOK, PTL

=============================================================================
