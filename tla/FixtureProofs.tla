---------------------------- MODULE FixtureProofs ----------------------------
(***************************************************************************)
(* What a fixture file goes through, proved for every chain, file and      *)
(* bound: the extractor writes every log of its period once and in order,  *)
(* the verifier and the reconciliation judge it rightly, the mock node     *)
(* replays it as the events the router makes of the chain's logs, and a    *)
(* backtest accounts for each of its rows in time.                         *)
(***************************************************************************)
EXTENDS FixtureTools, Backtest, SetLemmas, SequenceTheorems

(* Rows with places of their own.                                            *)
Placed(E) == /\ IsFiniteSet(E)
             /\ \A e \in E : e.block \in Nat /\ e.index \in Nat
             /\ \A e, d \in E : e.block = d.block /\ e.index = d.index => e = d
OrderOf(E) == {p \in E \X E : ByPosition(p[1], p[2])}

LEMMA OrderFacts ==
  ASSUME NEW E, Placed(E)
  PROVE  /\ Orders(OrderOf(E), E)
         /\ \A e, d \in E : <<e, d>> \in OrderOf(E) <=> ByPosition(e, d)
         /\ \A e \in E : Place(e, E) = Cardinality(UpTo(OrderOf(E), E, e))
<1>1. \A e, d \in E : <<e, d>> \in OrderOf(E) <=> ByPosition(e, d)
  BY DEF OrderOf
<1>2. ASSUME NEW x \in E, NEW y \in E, NEW z \in E
      PROVE  /\ ByPosition(x, y) /\ ByPosition(y, z) => ByPosition(x, z)
             /\ x = y \/ ByPosition(x, y) \/ ByPosition(y, x)
             /\ ~ByPosition(x, x)
  BY DEF Placed, ByPosition
<1>3. Orders(OrderOf(E), E)
  BY <1>1, <1>2 DEF Orders
<1>4. ASSUME NEW e \in E
      PROVE  Place(e, E) = Cardinality(UpTo(OrderOf(E), E, e))
  <2>1. {d \in E : d = e \/ ByPosition(d, e)} = UpTo(OrderOf(E), E, e)
    BY <1>1 DEF UpTo
  <2> QED BY <2>1 DEF Place
<1> QED BY <1>1, <1>3, <1>4

(* Places are counted from one and grow with the position.                   *)
LEMMA PlaceFacts ==
  ASSUME NEW E, Placed(E)
  PROVE  /\ Cardinality(E) \in Nat
         /\ \A e \in E : Place(e, E) \in 1 .. Cardinality(E)
         /\ \A e, d \in E : ByPosition(e, d) => Place(e, E) < Place(d, E)
         /\ \A e, d \in E : Place(e, E) = Place(d, E) => e = d
         /\ \A k \in 1 .. Cardinality(E) : \E e \in E : Place(e, E) = k
<1> DEFINE B == OrderOf(E)
<1>1. /\ Orders(B, E) /\ IsFiniteSet(E)
      /\ \A e, d \in E : <<e, d>> \in B <=> ByPosition(e, d)
      /\ \A e \in E : Place(e, E) = Cardinality(UpTo(B, E, e))
  BY OrderFacts DEF Placed
<1> HIDE DEF B
<1>2. Cardinality(E) \in Nat
  BY <1>1, FS_CardinalityType
<1>3. ASSUME NEW e \in E
      PROVE  /\ Place(e, E) \in 1 .. Cardinality(E)
             /\ \A d \in E : ByPosition(e, d) => Place(e, E) < Place(d, E)
  BY <1>1, PlaceInOrder
<1>4. \A e, d \in E : Place(e, E) = Place(d, E) => e = d
  BY <1>1, PlacesApart
<1>5. \A k \in 1 .. Cardinality(E) : \E e \in E : Place(e, E) = k
  BY <1>1, PlacesTaken
<1> QED BY <1>2, <1>3, <1>4, <1>5

(* A listing of a set: each member once.                                     *)
Listing(s, E) == /\ s \in Seq(E)
                 /\ \A e \in E : \E k \in 1 .. Len(s) : s[k] = e
                 /\ \A k, l \in 1 .. Len(s) : s[k] = s[l] => k = l

(* InOrder lists its set, a member at its place.                             *)
LEMMA InOrderFacts ==
  ASSUME NEW E, Placed(E)
  PROVE  /\ Listing(InOrder(E), E) /\ Len(InOrder(E)) = Cardinality(E)
         /\ \A k \in 1 .. Len(InOrder(E)) : Place(InOrder(E)[k], E) = k
         /\ \A k, l \in 1 .. Len(InOrder(E)) :
               k < l => ByPosition(InOrder(E)[k], InOrder(E)[l])
<1> DEFINE n == Cardinality(E)
           s == InOrder(E)
<1>1. \A k \in 1 .. n : s[k] \in E /\ Place(s[k], E) = k
  BY PlaceFacts DEF InOrder
<1>2. n \in Nat /\ s \in Seq(E) /\ Len(s) = n
  <2>1. n \in Nat
    BY PlaceFacts
  <2>2. s = [k \in 1 .. n |-> CHOOSE e \in E : Place(e, E) = k]
    BY DEF InOrder
  <2>3. s \in [1 .. n -> E]
    BY <1>1, <2>2
  <2>4. s \in Seq(E)
    BY <2>1, <2>3, SeqDef
  <2>5. DOMAIN s = 1 .. n
    BY <2>3
  <2> QED BY <2>1, <2>4, <2>5, LenProperties
<1> HIDE DEF s
<1>3. \A e \in E : s[Place(e, E)] = e
  BY <1>1, PlaceFacts
<1>4. Listing(s, E)
  <2>1. \A e \in E : \E k \in 1 .. Len(s) : s[k] = e
    BY <1>2, <1>3, PlaceFacts
  <2>2. \A k, l \in 1 .. Len(s) : s[k] = s[l] => k = l
    BY <1>1, <1>2
  <2> QED BY <1>2, <2>1, <2>2 DEF Listing
<1>5. ASSUME NEW k \in 1 .. n, NEW l \in 1 .. n, k < l
      PROVE  ByPosition(s[k], s[l])
  <2>1. s[k] \in E /\ s[l] \in E /\ Place(s[k], E) = k /\ Place(s[l], E) = l
    BY <1>1
  <2>2. ~ByPosition(s[l], s[k]) /\ s[k] # s[l]
    BY <1>2, <1>5, <2>1, PlaceFacts
  <2> QED BY <2>1, <2>2 DEF ByPosition, Placed
<1> QED BY <1>1, <1>2, <1>4, <1>5 DEF s

LEMMA ListingConcat ==
  ASSUME NEW E, NEW F, E \cap F = {}, NEW s, Listing(s, E), NEW t, Listing(t, F)
  PROVE  Listing(s \o t, E \cup F)
<1> DEFINE u == s \o t
<1>1. s \in Seq(E \cup F) /\ t \in Seq(E \cup F)
  BY SeqMonotonic DEF Listing
<1>2. Len(s) \in Nat /\ Len(t) \in Nat
  BY <1>1, LenProperties
<1>3. /\ u \in Seq(E \cup F) /\ Len(u) = Len(s) + Len(t)
      /\ \A i \in 1 .. Len(s) + Len(t) : u[i] = IF i <= Len(s) THEN s[i] ELSE t[i - Len(s)]
  BY <1>1, ConcatProperties
<1> HIDE DEF u
<1>4. /\ \A i \in 1 .. Len(s) : i \in 1 .. Len(u) /\ u[i] = s[i] /\ s[i] \in E
      /\ \A i \in 1 .. Len(t) : Len(s) + i \in 1 .. Len(u) /\ u[Len(s) + i] = t[i] /\ t[i] \in F
  <2>1. /\ \A i \in 1 .. Len(s) : s[i] \in E
        /\ \A i \in 1 .. Len(t) : t[i] \in F
    BY ElementOfSeq DEF Listing
  <2>2. \A i \in 1 .. Len(s) : i \in 1 .. Len(u) /\ u[i] = s[i]
    BY <1>2, <1>3
  <2>3. ASSUME NEW i \in 1 .. Len(t)
        PROVE  Len(s) + i \in 1 .. Len(u) /\ u[Len(s) + i] = t[i]
    <3>1. Len(s) + i \in 1 .. Len(s) + Len(t) /\ ~(Len(s) + i <= Len(s)) /\ Len(s) + i - Len(s) = i
      BY <1>2
    <3> QED BY <1>3, <3>1
  <2> QED BY <2>1, <2>2, <2>3
<1>5. \A e \in E \cup F : \E k \in 1 .. Len(u) : u[k] = e
  <2>1. \A e \in E : \E k \in 1 .. Len(u) : u[k] = e
    BY <1>4 DEF Listing
  <2>2. \A e \in F : \E k \in 1 .. Len(u) : u[k] = e
    <3> SUFFICES ASSUME NEW e \in F PROVE \E k \in 1 .. Len(u) : u[k] = e
      OBVIOUS
    <3>1. PICK i \in 1 .. Len(t) : t[i] = e
      BY DEF Listing
    <3>2. Len(s) + i \in 1 .. Len(u) /\ u[Len(s) + i] = e
      BY <1>4, <3>1
    <3> QED BY <3>2
  <2> QED BY <2>1, <2>2
<1>6. ASSUME NEW k \in 1 .. Len(u), NEW l \in 1 .. Len(u), u[k] = u[l]
      PROVE  k = l
  <2>1. CASE k <= Len(s) /\ l <= Len(s)
    <3>1. k \in 1 .. Len(s) /\ l \in 1 .. Len(s)
      BY <1>2, <1>3, <2>1
    <3>2. s[k] = s[l]
      BY <1>4, <1>6, <3>1
    <3> QED BY <3>1, <3>2 DEF Listing
  <2>2. CASE k > Len(s) /\ l > Len(s)
    <3>1. k - Len(s) \in 1 .. Len(t) /\ l - Len(s) \in 1 .. Len(t)
      BY <1>2, <1>3, <2>2
    <3>2. t[k - Len(s)] = t[l - Len(s)]
      BY <1>2, <1>3, <1>6, <2>2
    <3>3. k - Len(s) = l - Len(s)
      BY <3>1, <3>2 DEF Listing
    <3> QED BY <1>2, <3>3
  <2>3. CASE k <= Len(s) /\ l > Len(s)
    <3>1. l - Len(s) \in 1 .. Len(t) /\ k \in 1 .. Len(s)
      BY <1>2, <1>3, <2>3
    <3>2. u[k] = s[k] /\ u[l] = t[l - Len(s)] /\ s[k] \in E /\ t[l - Len(s)] \in F
      BY <1>2, <1>3, <1>4, <2>3, <3>1
    <3> QED BY <1>6, <3>2
  <2>4. CASE k > Len(s) /\ l <= Len(s)
    <3>1. k - Len(s) \in 1 .. Len(t) /\ l \in 1 .. Len(s)
      BY <1>2, <1>3, <2>4
    <3>2. u[l] = s[l] /\ u[k] = t[k - Len(s)] /\ s[l] \in E /\ t[k - Len(s)] \in F
      BY <1>2, <1>3, <1>4, <2>4, <3>1
    <3> QED BY <1>6, <3>2
  <2> QED BY <1>2, <1>3, <2>1, <2>2, <2>3, <2>4
<1> QED BY <1>3, <1>5, <1>6 DEF Listing, u

(* Sorting a listing gives the set in order, however it was collected.       *)
LEMMA SortedListing ==
  ASSUME NEW E, Placed(E), NEW s, Listing(s, E)
  PROVE  Sorted(s) = InOrder(E)
<1>1. s \in Seq(E) /\ Len(s) \in Nat /\ DOMAIN s = 1 .. Len(s) /\ \A i \in 1 .. Len(s) : s[i] \in E
  BY LenProperties, ElementOfSeq DEF Listing
<1> DEFINE Behind(i) == {j \in DOMAIN s : ByPosition(s[j], s[i])
                                          \/ (~ByPosition(s[i], s[j]) /\ j <= i)}
<1>2. IsFiniteSet(DOMAIN s) /\ Cardinality(DOMAIN s) = Len(s)
  <2>1. IsFiniteSet(1 .. Len(s)) /\ Cardinality(1 .. Len(s)) = Len(s)
    <3>1. 1 \in Int /\ Len(s) \in Int /\ Len(s) - 1 + 1 = Len(s) /\ (1 > Len(s) <=> Len(s) = 0)
      BY <1>1
    <3>2. /\ IsFiniteSet(1 .. Len(s))
          /\ Cardinality(1 .. Len(s)) = IF 1 > Len(s) THEN 0 ELSE Len(s) - 1 + 1
      BY <3>1, FS_Interval
    <3> QED BY <3>1, <3>2
  <2> QED BY <1>1, <2>1
<1>3. ASSUME NEW i \in DOMAIN s
      PROVE  Turn(s, i) = Place(s[i], E)
  <2>1. ImageOf(s, Behind(i)) = {d \in E : d = s[i] \/ ByPosition(d, s[i])}
    <3>1. ASSUME NEW j \in DOMAIN s
          PROVE  j \in Behind(i) <=> s[j] = s[i] \/ ByPosition(s[j], s[i])
      <4>1. s[i] \in E /\ s[j] \in E /\ (s[i] = s[j] => i = j)
        BY <1>1 DEF Listing
      <4>2. ~ByPosition(s[i], s[j]) /\ ~ByPosition(s[j], s[i]) <=> s[i] = s[j]
        BY <4>1 DEF ByPosition, Placed
      <4>3. j <= j
        BY <1>1
      <4> QED BY <4>1, <4>2, <4>3
    <3>2. Behind(i) \subseteq DOMAIN s
      OBVIOUS
    <3> HIDE DEF Behind
    <3>3. ASSUME NEW d \in E, d = s[i] \/ ByPosition(d, s[i]) PROVE d \in ImageOf(s, Behind(i))
      <4>1. PICK j \in DOMAIN s : s[j] = d
        BY <1>1 DEF Listing
      <4> QED BY <3>1, <3>3, <4>1 DEF ImageOf
    <3>4. ASSUME NEW d \in ImageOf(s, Behind(i)) PROVE d \in E /\ (d = s[i] \/ ByPosition(d, s[i]))
      BY <1>1, <3>1, <3>2 DEF ImageOf
    <3> QED BY <3>3, <3>4
  <2>2. IsFiniteSet(Behind(i))
    BY <1>2, FS_Subset
  <2>3. \A j, k \in Behind(i) : s[j] = s[k] => j = k
    BY <1>1 DEF Listing
  <2>4. Cardinality(ImageOf(s, Behind(i))) = Cardinality(Behind(i))
    <3> HIDE DEF Behind
    <3> QED BY <2>2, <2>3, ImageCardinality
  <2> QED BY <2>1, <2>4 DEF Turn, Place
<1>4. Len(s) = Cardinality(E)
  <2>1. ImageOf(s, DOMAIN s) = E
    BY <1>1 DEF ImageOf, Listing
  <2>2. \A j, k \in DOMAIN s : s[j] = s[k] => j = k
    BY <1>1 DEF Listing
  <2> QED BY <1>2, <2>1, <2>2, ImageCardinality
<1>5. ASSUME NEW k \in DOMAIN s
      PROVE  s[CHOOSE i \in DOMAIN s : Turn(s, i) = k] = CHOOSE e \in E : Place(e, E) = k
  <2>1. k \in 1 .. Cardinality(E)
    BY <1>1, <1>4
  <2>2. PICK e \in E : Place(e, E) = k
    BY <2>1, PlaceFacts
  <2>3. PICK i \in DOMAIN s : s[i] = e
    BY <1>1 DEF Listing
  <2>4. (CHOOSE d \in E : Place(d, E) = k) = e
    BY <2>2, PlaceFacts
  <2>5. \A j \in DOMAIN s : Turn(s, j) = k <=> j = i
    <3> SUFFICES ASSUME NEW j \in DOMAIN s PROVE Turn(s, j) = k <=> j = i
      OBVIOUS
    <3>1. s[j] \in E /\ (s[j] = s[i] => j = i)
      BY <1>1 DEF Listing
    <3>2. Turn(s, j) = Place(s[j], E)
      BY <1>3
    <3> QED BY <2>2, <2>3, <3>1, <3>2, PlaceFacts
  <2>6. (CHOOSE j \in DOMAIN s : Turn(s, j) = k) = i
    BY <2>5
  <2> QED BY <2>3, <2>4, <2>6
<1>6. DOMAIN s = 1 .. Cardinality(E)
  BY <1>1, <1>4
<1> QED BY <1>5, <1>6 DEF Sorted, InOrder

-----------------------------------------------------------------------------
(* The rows of query k from the logs of some blocks, and of all queries.     *)
Window(k, lo, hi) == {Decoded(k, log) : log \in Served(lo, hi, Queries[k])}
All == UNION {Due(k) : k \in DOMAIN Queries}

(* No log is served to two queries, and a row keeps its log's place.         *)
LEMMA QueryFacts ==
  /\ DOMAIN Queries = 1 .. 4 /\ Len(Queries) = 4
  /\ \A k, l \in 1 .. 4 : Queries[k].topic = Queries[l].topic => k = l
  /\ \A k \in 1 .. 4 : \A log \in Log :
        /\ Decoded(k, log).block = log.block /\ Decoded(k, log).index = log.index
        /\ Decoded(k, log).tx = log.tx /\ Decoded(k, log).ts = log.ts
        /\ {"block", "index", "tx", "ts"} \subseteq DOMAIN Decoded(k, log)
<1>1. DOMAIN Queries = 1 .. 4 /\ Len(Queries) = 4
  BY DEF Queries
<1>2. ASSUME NEW k \in 1 .. 4, NEW l \in 1 .. 4, Queries[k].topic = Queries[l].topic
      PROVE  k = l
  <2>1. /\ Queries[1].topic = "Swap"
        /\ Queries[2].topic = IF Version = "aave_v2" THEN "BorrowV2" ELSE "Borrow"
        /\ Queries[3].topic = IF Version = "aave_v2" THEN "DepositV2" ELSE "Supply"
        /\ Queries[4].topic = "LiquidationCall"
    BY DEF Queries
  <2>2. k \in {1, 2, 3, 4} /\ l \in {1, 2, 3, 4}
    OBVIOUS
  <2> QED BY <1>2, <2>1, <2>2
<1>3. ASSUME NEW k \in 1 .. 4, NEW log \in Log
      PROVE  /\ Decoded(k, log).block = log.block /\ Decoded(k, log).index = log.index
             /\ Decoded(k, log).tx = log.tx /\ Decoded(k, log).ts = log.ts
             /\ {"block", "index", "tx", "ts"} \subseteq DOMAIN Decoded(k, log)
  <2>1. k \in {1, 2, 3, 4}
    OBVIOUS
  <2> QED BY <2>1 DEF Decoded, DecodeUniv3Swap, DecodeAaveBorrow, DecodeAaveSupply,
                     DecodeAaveLiquidation, Event
<1> QED BY <1>1, <1>2, <1>3

LEMMA AllFacts ==
  ASSUME chain \subseteq Log
  PROVE  /\ \A e \in All : \E k \in 1 .. 4 :
               \E log \in Served(FromBlock, ToBlock, Queries[k]) : e = Decoded(k, log)
         /\ \A k \in 1 .. 4 : \A log \in Served(FromBlock, ToBlock, Queries[k]) :
               Decoded(k, log) \in All
         /\ \A k \in 1 .. 4 : \A lo, hi \in Nat : \A log \in Served(lo, hi, Queries[k]) : log \in Log
BY QueryFacts DEF All, Due, Served

(* The rows of the period have places of their own.                          *)
LEMMA RowsPlaced ==
  ASSUME chain \subseteq Log
  PROVE  Placed(All)
<1> USE FixtureAssumption
<1>1. IsFiniteSet(All)
  <2>1. ASSUME NEW k \in 1 .. 4 PROVE IsFiniteSet(Due(k))
    <3> DEFINE S == Served(FromBlock, ToBlock, Queries[k])
               f == [log \in S |-> Decoded(k, log)]
    <3>1. S \subseteq Log
      BY DEF Served
    <3>2. IsFiniteSet(S)
      BY <3>1, ChainAssumption, FS_Subset
    <3>3. Due(k) = ImageOf(f, S)
      BY DEF Due, ImageOf
    <3> HIDE DEF S, f
    <3> QED BY <3>2, <3>3, ImageFinite
  <2>2. All = ((Due(1) \cup Due(2)) \cup Due(3)) \cup Due(4)
    <3>1. DOMAIN Queries = {1, 2, 3, 4}
      BY QueryFacts
    <3>2. All = UNION {Due(k) : k \in {1, 2, 3, 4}}
      BY <3>1 DEF All
    <3>3. UNION {Due(k) : k \in {1, 2, 3, 4}}
             = ((Due(1) \cup Due(2)) \cup Due(3)) \cup Due(4)
      OBVIOUS
    <3> QED BY <3>2, <3>3
  <2>3. \A A, B : IsFiniteSet(A) /\ IsFiniteSet(B) => IsFiniteSet(A \cup B)
    BY FS_Union
  <2>4. IsFiniteSet(Due(1) \cup Due(2))
    BY <2>1, <2>3
  <2>5. IsFiniteSet((Due(1) \cup Due(2)) \cup Due(3))
    BY <2>1, <2>3, <2>4
  <2> QED BY <2>1, <2>2, <2>3, <2>5
<1>2. ASSUME NEW e \in All
      PROVE  e.block \in Nat /\ e.index \in Nat
  <2>1. PICK k \in 1 .. 4 :
           \E log \in Served(FromBlock, ToBlock, Queries[k]) : e = Decoded(k, log)
    BY AllFacts
  <2>2. PICK log \in Served(FromBlock, ToBlock, Queries[k]) : e = Decoded(k, log)
    BY <2>1
  <2>3. log \in Log
    BY DEF Served
  <2> QED BY <2>2, <2>3, QueryFacts, ChainAssumption
<1>3. ASSUME NEW e \in All, NEW d \in All, e.block = d.block, e.index = d.index
      PROVE  e = d
  <2>1. PICK k \in 1 .. 4 :
           \E log \in Served(FromBlock, ToBlock, Queries[k]) : e = Decoded(k, log)
    BY AllFacts
  <2>2. PICK a \in Served(FromBlock, ToBlock, Queries[k]) : e = Decoded(k, a)
    BY <2>1
  <2>3. PICK l \in 1 .. 4 :
           \E log \in Served(FromBlock, ToBlock, Queries[l]) : d = Decoded(l, log)
    BY AllFacts
  <2>4. PICK b \in Served(FromBlock, ToBlock, Queries[l]) : d = Decoded(l, b)
    BY <2>3
  <2>5. a \in Log /\ b \in Log /\ a.topics[1] = Queries[k].topic /\ b.topics[1] = Queries[l].topic
    BY <2>2, <2>4 DEF Served
  <2>6. a = b
    BY <1>3, <2>2, <2>4, <2>5, QueryFacts, ChainAssumption
  <2> QED BY <2>2, <2>4, <2>5, <2>6, QueryFacts
<1> QED BY <1>1, <1>2, <1>3 DEF Placed

LEMMA PartPlaced ==
  ASSUME NEW E, Placed(E), NEW F \in SUBSET E
  PROVE  Placed(F)
BY FS_Subset DEF Placed

-----------------------------------------------------------------------------
(* The rows due before query n has come to block c.                          *)
Soon(n, c) == (UNION {Due(k) : k \in 1 .. n - 1}) \cup Window(n, FromBlock, c - 1)

LEMMA SoonMembers ==
  ASSUME chain \subseteq Log, NEW n \in 1 .. 4, NEW c \in FromBlock .. ToBlock + 1, NEW e
  PROVE  e \in Soon(n, c) <=>
            \E k \in 1 .. n : \E log \in Served(FromBlock, ToBlock, Queries[k]) :
               e = Decoded(k, log) /\ (k = n => log.block < c)
<1> USE FixtureAssumption
<1>1. ASSUME NEW k \in 1 .. 4, NEW log \in Log
      PROVE  log.block \in Nat
  BY ChainAssumption
<1>2. \A log : log \in Served(FromBlock, c - 1, Queries[n]) <=>
                  log \in Served(FromBlock, ToBlock, Queries[n]) /\ log.block < c
  <2> SUFFICES ASSUME NEW log \in Log
               PROVE  log \in Served(FromBlock, c - 1, Queries[n]) <=>
                         log \in Served(FromBlock, ToBlock, Queries[n]) /\ log.block < c
    BY DEF Served
  <2>1. log.block \in FromBlock .. c - 1 <=> log.block \in FromBlock .. ToBlock /\ log.block < c
    BY <1>1
  <2> QED BY <2>1 DEF Served
<1>3. e \in Window(n, FromBlock, c - 1) <=>
         \E log \in Served(FromBlock, ToBlock, Queries[n]) : e = Decoded(n, log) /\ log.block < c
  BY <1>2 DEF Window
<1>4. \A k \in 1 .. n : k # n <=> k \in 1 .. n - 1
  OBVIOUS
<1>5. e \in UNION {Due(k) : k \in 1 .. n - 1} <=>
         \E k \in 1 .. n - 1 : \E log \in Served(FromBlock, ToBlock, Queries[k]) : e = Decoded(k, log)
  BY DEF Due
<1>6. n \in 1 .. n /\ \A k \in 1 .. n - 1 : k \in 1 .. n
  OBVIOUS
<1>7. e \in Soon(n, c) <=> \/ e \in UNION {Due(k) : k \in 1 .. n - 1}
                           \/ e \in Window(n, FromBlock, c - 1)
  BY DEF Soon
<1> QED BY <1>3, <1>4, <1>5, <1>6, <1>7

(* They grow with the blocks and the queries until nothing is missing; no    *)
(* page repeats a row.                                                       *)
LEMMA SoonFacts ==
  ASSUME chain \subseteq Log, NEW n \in 1 .. 4, NEW c \in FromBlock .. ToBlock + 1
  PROVE  /\ Soon(n, c) \subseteq All
         /\ \A hi \in c .. ToBlock : /\ Soon(n, hi + 1) = Soon(n, c) \cup Window(n, c, hi)
                                     /\ Soon(n, c) \cap Window(n, c, hi) = {}
                                     /\ Window(n, c, hi) \subseteq All
         /\ Soon(1, FromBlock) = {}
         /\ n < 4 => Soon(n + 1, FromBlock) = Soon(n, ToBlock + 1)
         /\ Soon(4, ToBlock + 1) = All
<1> USE FixtureAssumption
<1>1. \A log \in Log : log.block \in Nat
  BY ChainAssumption
<1>2. \A k, lo, hi : Served(lo, hi, Queries[k]) \subseteq Log
  BY DEF Served
<1>3. \A k : \A log \in Served(FromBlock, ToBlock, Queries[k]) :
         log.block \in FromBlock .. ToBlock
  BY DEF Served
<1>4. Soon(n, c) \subseteq All
  <2> SUFFICES ASSUME NEW e \in Soon(n, c) PROVE e \in All
    OBVIOUS
  <2>1. PICK k \in 1 .. n : \E log \in Served(FromBlock, ToBlock, Queries[k]) : e = Decoded(k, log)
    BY SoonMembers
  <2>2. k \in 1 .. 4
    OBVIOUS
  <2> QED BY <2>1, <2>2, AllFacts
<1>5. ASSUME NEW hi \in c .. ToBlock
      PROVE  /\ Soon(n, hi + 1) = Soon(n, c) \cup Window(n, c, hi)
             /\ Soon(n, c) \cap Window(n, c, hi) = {}
             /\ Window(n, c, hi) \subseteq All
  <2>1. ASSUME NEW log \in Log
        PROVE  log \in Served(c, hi, Queries[n]) <=>
                  /\ log \in Served(FromBlock, ToBlock, Queries[n])
                  /\ ~(log.block < c) /\ log.block < hi + 1
    <3>1. log.block \in c .. hi <=>
             log.block \in FromBlock .. ToBlock /\ ~(log.block < c) /\ log.block < hi + 1
      BY <1>1
    <3> QED BY <3>1 DEF Served
  <2>2. \A e : e \in Window(n, c, hi) <=>
               \E log \in Served(FromBlock, ToBlock, Queries[n]) :
                  e = Decoded(n, log) /\ ~(log.block < c) /\ log.block < hi + 1
    BY <1>2, <2>1 DEF Window
  <2>3. hi + 1 \in FromBlock .. ToBlock + 1
    OBVIOUS
  <2>4. \A e : e \in Soon(n, hi + 1) <=>
                  \E k \in 1 .. n : \E log \in Served(FromBlock, ToBlock, Queries[k]) :
                     e = Decoded(k, log) /\ (k = n => log.block < hi + 1)
    BY <2>3, SoonMembers
  <2>5. \A e : e \in Soon(n, c) <=>
                  \E k \in 1 .. n : \E log \in Served(FromBlock, ToBlock, Queries[k]) :
                     e = Decoded(k, log) /\ (k = n => log.block < c)
    BY SoonMembers
  <2>6. \A log \in Log : log.block < c => log.block < hi + 1
    BY <1>1
  <2>7. n \in 1 .. n
    OBVIOUS
  <2>8. ASSUME NEW e
        PROVE  e \in Soon(n, hi + 1) <=> e \in Soon(n, c) \/ e \in Window(n, c, hi)
    BY <1>2, <2>2, <2>4, <2>5, <2>6, <2>7
  <2>9. ASSUME NEW e, e \in Soon(n, c), e \in Window(n, c, hi)
        PROVE  FALSE
    <3>1. PICK a \in Served(FromBlock, ToBlock, Queries[n]) : e = Decoded(n, a) /\ ~(a.block < c)
      BY <2>2, <2>9
    <3>2. PICK k \in 1 .. n : \E log \in Served(FromBlock, ToBlock, Queries[k]) :
                                 e = Decoded(k, log) /\ (k = n => log.block < c)
      BY <2>5, <2>9
    <3>3. PICK b \in Served(FromBlock, ToBlock, Queries[k]) :
             e = Decoded(k, b) /\ (k = n => b.block < c)
      BY <3>2
    <3>4. k \in 1 .. 4 /\ a \in Log /\ b \in Log
      <4>1. k \in 1 .. 4
        OBVIOUS
      <4>2. \A l \in 1 .. 4 : \A log \in Served(FromBlock, ToBlock, Queries[l]) : log \in Log
        BY <1>2
      <4> HIDE FixtureAssumption
      <4> QED BY <3>1, <3>3, <4>1, <4>2
    <3>5. a.block = b.block /\ a.index = b.index
      <4>1. e.block = a.block /\ e.index = a.index
        BY <3>1, <3>4, QueryFacts
      <4>2. e.block = b.block /\ e.index = b.index
        BY <3>3, <3>4, QueryFacts
      <4> QED BY <4>1, <4>2
    <3>6. a = b
      BY <3>4, <3>5, ChainAssumption
    <3>7. k = n
      BY <3>4, <3>6, QueryFacts DEF Served
    <3> QED BY <3>1, <3>3, <3>6, <3>7
  <2>10. Window(n, c, hi) \subseteq All
    <3> SUFFICES ASSUME NEW e \in Window(n, c, hi) PROVE e \in All
      OBVIOUS
    <3> QED BY <2>2, AllFacts
  <2> QED BY <2>8, <2>9, <2>10
<1>6. Soon(1, FromBlock) = {}
  <2> SUFFICES ASSUME NEW e \in Soon(1, FromBlock) PROVE FALSE
    OBVIOUS
  <2>1. FromBlock \in FromBlock .. ToBlock + 1 /\ 1 \in 1 .. 4
    OBVIOUS
  <2>2. PICK k \in 1 .. 1 : \E log \in Served(FromBlock, ToBlock, Queries[k]) :
                               k = 1 => log.block < FromBlock
    BY <2>1, SoonMembers
  <2> QED BY <1>3, <2>2
<1>7. ASSUME n < 4 PROVE Soon(n + 1, FromBlock) = Soon(n, ToBlock + 1)
  <2>1. /\ FromBlock \in FromBlock .. ToBlock + 1 /\ ToBlock + 1 \in FromBlock .. ToBlock + 1
        /\ n + 1 \in 1 .. 4
    BY <1>7
  <2>2. \A e : e \in Soon(n + 1, FromBlock) <=>
                  \E k \in 1 .. n + 1 : \E log \in Served(FromBlock, ToBlock, Queries[k]) :
                     e = Decoded(k, log) /\ (k = n + 1 => log.block < FromBlock)
    BY <2>1, SoonMembers
  <2>3. \A e : e \in Soon(n, ToBlock + 1) <=>
                  \E k \in 1 .. n : \E log \in Served(FromBlock, ToBlock, Queries[k]) :
                     e = Decoded(k, log) /\ (k = n => log.block < ToBlock + 1)
    BY <2>1, SoonMembers
  <2>4. \A k : \A log \in Served(FromBlock, ToBlock, Queries[k]) :
           ~(log.block < FromBlock) /\ log.block < ToBlock + 1
    BY <1>3
  <2>5. \A k \in 1 .. n + 1 : k \in 1 .. n <=> k # n + 1
    OBVIOUS
  <2>6. \A k \in 1 .. n : k \in 1 .. n + 1
    OBVIOUS
  <2>7. ASSUME NEW e PROVE e \in Soon(n + 1, FromBlock) <=> e \in Soon(n, ToBlock + 1)
    BY <2>2, <2>3, <2>4, <2>5, <2>6
  <2> QED BY <2>7
<1>8. Soon(4, ToBlock + 1) = All
  <2>1. ToBlock + 1 \in FromBlock .. ToBlock + 1 /\ 4 \in 1 .. 4
    OBVIOUS
  <2>2. \A e : e \in Soon(4, ToBlock + 1) <=>
                  \E k \in 1 .. 4 : \E log \in Served(FromBlock, ToBlock, Queries[k]) :
                     e = Decoded(k, log) /\ (k = 4 => log.block < ToBlock + 1)
    BY <2>1, SoonMembers
  <2>3. \A k : \A log \in Served(FromBlock, ToBlock, Queries[k]) : log.block < ToBlock + 1
    BY <1>3
  <2>4. ASSUME NEW e PROVE e \in Soon(4, ToBlock + 1) <=> e \in All
    BY <2>2, <2>3, AllFacts
  <2> QED BY <2>4
<1> QED BY <1>4, <1>5, <1>6, <1>7, <1>8

-----------------------------------------------------------------------------
(* The ranges still to ask for tile the blocks from the cursor on.           *)
Cursor(r) == IF r = << >> THEN ToBlock + 1 ELSE r[1][1]
Tiled(r) ==
  /\ r \in Seq(Nat \X Nat)
  /\ \A i \in 1 .. Len(r) : FromBlock <= r[i][1] /\ r[i][1] <= r[i][2] /\ r[i][2] <= ToBlock
  /\ \A i \in 1 .. Len(r) - 1 : r[i + 1][1] = r[i][2] + 1
  /\ r # << >> => r[Len(r)][2] = ToBlock

(* What the extractor has fetched is what is due so far, each row once; the  *)
(* file is always a prefix of what is expected.                              *)
Collected ==
  /\ chain \subseteq Log /\ query \in 1 .. 4
  /\ phase \in {"fetch", "write", "done", "failed", "crashed"}
  /\ fetched \in Seq(All)
  /\ phase = "fetch" => Tiled(ranges) /\ Listing(fetched, Soon(query, Cursor(ranges)))
  /\ phase = "write" => fetched = Expected
OnFile ==
  /\ file \in Seq(All) /\ Len(file) <= Len(Expected)
  /\ \A i \in 1 .. Len(file) : file[i] = Expected[i]
  /\ phase = "done" => Len(file) = Len(Expected)

(* A line cut within its last column reads as the row due there with another *)
(* log_index; only an interrupted extraction leaves one.                     *)
CutLine ==
  /\ phase \in {"write", "done"} => cut = << >>
  /\ cut # << >> =>
        /\ Len(file) < Len(Expected)
        /\ \E n : cut = <<[Expected[Len(file) + 1] EXCEPT !.index = n]>>

(* A verdict is on the lines as they are.                                    *)
Judged ==
  /\ phase \in {"fetch", "write"} => verdict = "none"
  /\ verdict = "asking" => asked \subseteq {Lines[i] : i \in DOMAIN Lines}

ToolsInv == Collected /\ OnFile /\ CutLine /\ Judged /\ VerifierFair

LEMMA ExpectedFacts ==
  ASSUME chain \subseteq Log
  PROVE  /\ Listing(Expected, All) /\ Expected \in Seq(All) /\ Len(Expected) \in Nat
         /\ \A k, l \in 1 .. Len(Expected) :
               k < l => ByPosition(Expected[k], Expected[l])
<1>1. Expected = InOrder(All)
  BY DEF Expected, All
<1> QED BY <1>1, RowsPlaced, InOrderFacts, LenProperties DEF Listing

(* Nothing due changes: the chain does not.                                  *)
LEMMA Frame ==
  ASSUME chain' = chain
  PROVE  /\ All' = All /\ Expected' = Expected
         /\ Soon(query, Cursor(ranges))' = Soon(query', Cursor(ranges'))
BY DEF All, Expected, Due, Soon, Window, Served, Cursor

LEMMA InitCollected ==
  ASSUME ToolsInit
  PROVE  ToolsInv
<1> USE FixtureAssumption
<1>1. chain \subseteq Log
  BY DEF ToolsInit
<1>2. Tiled(ranges) /\ Cursor(ranges) = FromBlock
  <2>1. ranges = << <<FromBlock, ToBlock>> >>
    BY DEF ToolsInit
  <2> QED BY <2>1 DEF Tiled, Cursor
<1>3. Listing(fetched, Soon(query, Cursor(ranges)))
  <2>1. Soon(1, FromBlock) = {}
    <3>1. 1 \in 1 .. 4 /\ FromBlock \in FromBlock .. ToBlock + 1
      OBVIOUS
    <3> QED BY <1>1, <3>1, SoonFacts
  <2> QED BY <1>2, <2>1 DEF ToolsInit, Listing
<1>4. Collected
  BY <1>1, <1>2, <1>3 DEF ToolsInit, Collected
<1>5. OnFile /\ CutLine /\ Judged /\ VerifierFair
  BY <1>1, ExpectedFacts DEF ToolsInit, OnFile, CutLine, Judged, VerifierFair
<1> QED BY <1>4, <1>5 DEF ToolsInv

LEMMA StartTiled ==
  Tiled(<< <<FromBlock, ToBlock>> >>) /\ Cursor(<< <<FromBlock, ToBlock>> >>) = FromBlock
BY FixtureAssumption DEF Tiled, Cursor

(* The cursor is a block of the period, and the first range begins there.    *)
LEMMA CursorFacts ==
  ASSUME NEW r, Tiled(r)
  PROVE  /\ Cursor(r) \in FromBlock .. ToBlock + 1
         /\ r # << >> => /\ r[1][1] = Cursor(r) /\ r[1][2] \in Cursor(r) .. ToBlock
                         /\ Tiled(Tail(r)) /\ Cursor(Tail(r)) = r[1][2] + 1
<1> USE FixtureAssumption
<1>1. CASE r = << >>
  BY <1>1 DEF Cursor
<1>2. CASE r # << >>
  <2>1. Len(r) \in Nat \ {0} /\ r \in Seq(Nat \X Nat)
    BY <1>2, EmptySeq DEF Tiled
  <2>2. 1 \in 1 .. Len(r)
    BY <2>1
  <2>3. r[1] \in Nat \X Nat
    BY <2>1, <2>2, ElementOfSeq
  <2>4. /\ r[1][1] = Cursor(r) /\ r[1][2] \in Cursor(r) .. ToBlock
        /\ Cursor(r) \in FromBlock .. ToBlock + 1
    BY <1>2, <2>2, <2>3 DEF Tiled, Cursor
  <2> DEFINE t == Tail(r)
  <2>5. t \in Seq(Nat \X Nat) /\ Len(t) = Len(r) - 1 /\ \A i \in 1 .. Len(t) : t[i] = r[i + 1]
    BY <1>2, <2>1, HeadTailProperties
  <2>8. Len(r) \in Nat \ {0} /\ Len(t) = Len(r) - 1
    BY <2>1, <2>5
  <2> HIDE DEF t
  <2>6. Tiled(t)
    <3>1. \A i \in 1 .. Len(t) : FromBlock <= t[i][1] /\ t[i][1] <= t[i][2] /\ t[i][2] <= ToBlock
      <4> SUFFICES ASSUME NEW i \in 1 .. Len(t)
                   PROVE  FromBlock <= t[i][1] /\ t[i][1] <= t[i][2] /\ t[i][2] <= ToBlock
        OBVIOUS
      <4>1. i + 1 \in 1 .. Len(r)
        BY <2>8
      <4> QED BY <2>5, <4>1 DEF Tiled
    <3>2. \A i \in 1 .. Len(t) - 1 : t[i + 1][1] = t[i][2] + 1
      <4> SUFFICES ASSUME NEW i \in 1 .. Len(t) - 1 PROVE t[i + 1][1] = t[i][2] + 1
        OBVIOUS
      <4>1. /\ i + 1 \in 1 .. Len(r) - 1 /\ i \in 1 .. Len(t) /\ i + 1 \in 1 .. Len(t)
        BY <2>8
      <4>2. t[i] = r[i + 1] /\ t[i + 1] = r[(i + 1) + 1]
        BY <2>5, <4>1
      <4> QED BY <4>1, <4>2 DEF Tiled
    <3>3. t # << >> => t[Len(t)][2] = ToBlock
      <4> SUFFICES ASSUME t # << >> PROVE t[Len(t)][2] = ToBlock
        OBVIOUS
      <4>1. Len(t) \in 1 .. Len(t) /\ Len(t) + 1 = Len(r)
        BY <2>1, <2>5, EmptySeq
      <4>2. t[Len(t)] = r[Len(r)]
        BY <2>5, <4>1
      <4> QED BY <1>2, <4>2 DEF Tiled
    <3> QED BY <2>5, <3>1, <3>2, <3>3 DEF Tiled
  <2>7. Cursor(t) = r[1][2] + 1
    <3>1. CASE t = << >>
      <4>1. Len(r) = 1
        BY <2>8, <3>1
      <4>2. r[1][2] = ToBlock
        BY <1>2, <4>1 DEF Tiled
      <4> QED BY <3>1, <4>2 DEF Cursor
    <3>2. CASE t # << >>
      <4>1. 1 \in 1 .. Len(t) /\ 1 \in 1 .. Len(r) - 1
        BY <2>1, <2>5, <3>2, EmptySeq
      <4>2. t[1] = r[1 + 1]
        BY <2>5, <4>1
      <4> QED BY <3>2, <4>1, <4>2 DEF Cursor, Tiled
    <3> QED BY <3>1, <3>2
  <2> QED BY <2>4, <2>6, <2>7 DEF t
<1> QED BY <1>1, <1>2

(* A range asked for in halves is tiled by them.                             *)
LEMMA HalvesTile ==
  ASSUME NEW r, Tiled(r), r # << >>, r[1][1] < r[1][2]
  PROVE  /\ Tiled(Halves(r[1][1], r[1][2]) \o Tail(r))
         /\ Cursor(Halves(r[1][1], r[1][2]) \o Tail(r)) = Cursor(r)
<1> DEFINE lo == r[1][1]
           hi == r[1][2]
           mid == (lo + hi) \div 2
           h == << <<lo, mid>>, <<mid + 1, hi>> >>
           t == Tail(r)
           u == h \o t
<1> USE FixtureAssumption
<1>1. Len(r) \in Nat \ {0} /\ r \in Seq(Nat \X Nat) /\ 1 \in 1 .. Len(r)
  BY EmptySeq DEF Tiled
<1>2. lo \in Nat /\ hi \in Nat /\ FromBlock <= lo /\ lo < hi /\ hi <= ToBlock
  <2>1. r[1] \in Nat \X Nat
    BY <1>1, ElementOfSeq
  <2> QED BY <1>1, <2>1 DEF Tiled
<1>3. Tiled(t) /\ Cursor(t) = hi + 1 /\ lo = Cursor(r)
  BY CursorFacts
<1> HIDE DEF lo, hi, t
<1>4. mid \in Nat /\ lo <= mid /\ mid < hi
  BY <1>2
<1> HIDE DEF mid
<1>5. h \in Seq(Nat \X Nat) /\ Len(h) = 2 /\ h[1] = <<lo, mid>> /\ h[2] = <<mid + 1, hi>>
  BY <1>2, <1>4
<1>6. t \in Seq(Nat \X Nat) /\ Len(t) \in Nat
  BY <1>3, LenProperties DEF Tiled
<1> HIDE DEF h
<1>7. /\ u \in Seq(Nat \X Nat) /\ Len(u) = 2 + Len(t)
      /\ \A i \in 1 .. 2 + Len(t) : u[i] = IF i <= 2 THEN h[i] ELSE t[i - 2]
  <2>1. /\ h \o t \in Seq(Nat \X Nat) /\ Len(h \o t) = Len(h) + Len(t)
        /\ \A i \in 1 .. Len(h) + Len(t) : (h \o t)[i] = IF i <= Len(h) THEN h[i] ELSE t[i - Len(h)]
    BY <1>5, <1>6, ConcatProperties
  <2> QED BY <1>5, <2>1
<1> HIDE DEF u
<1>8. u[1] = <<lo, mid>> /\ u[2] = <<mid + 1, hi>> /\ \A i \in 1 .. Len(t) : u[i + 2] = t[i]
  <2>1. 1 \in 1 .. 2 + Len(t) /\ 2 \in 1 .. 2 + Len(t)
    BY <1>6
  <2>2. ASSUME NEW i \in 1 .. Len(t) PROVE u[i + 2] = t[i]
    <3>1. i + 2 \in 1 .. 2 + Len(t) /\ ~(i + 2 <= 2) /\ (i + 2) - 2 = i
      BY <1>6
    <3>2. u[i + 2] = t[(i + 2) - 2]
      BY <1>7, <3>1
    <3> QED BY <3>1, <3>2
  <2> QED BY <1>5, <1>7, <2>1, <2>2
<1>9. \A i \in 1 .. Len(u) : i = 1 \/ i = 2 \/ (i - 2 \in 1 .. Len(t) /\ u[i] = t[i - 2])
  <2> SUFFICES ASSUME NEW i \in 1 .. Len(u), i # 1, i # 2
               PROVE  i - 2 \in 1 .. Len(t) /\ u[i] = t[i - 2]
    OBVIOUS
  <2>2. Len(t) \in Nat /\ Len(u) = 2 + Len(t)
    BY <1>6, <1>7
  <2>1. i \in 1 .. 2 + Len(t) /\ ~(i <= 2) /\ i - 2 \in 1 .. Len(t)
    BY <2>2
  <2> QED BY <1>7, <2>1
<1>10. u # << >> /\ Cursor(u) = lo
  BY <1>6, <1>7, <1>8 DEF Cursor
<1>11. \A i \in 1 .. Len(u) : FromBlock <= u[i][1] /\ u[i][1] <= u[i][2] /\ u[i][2] <= ToBlock
  <2> SUFFICES ASSUME NEW i \in 1 .. Len(u)
               PROVE  FromBlock <= u[i][1] /\ u[i][1] <= u[i][2] /\ u[i][2] <= ToBlock
    OBVIOUS
  <2>1. CASE i = 1
    BY <1>2, <1>4, <1>8, <2>1
  <2>2. CASE i = 2
    BY <1>2, <1>4, <1>8, <2>2
  <2>3. CASE i - 2 \in 1 .. Len(t) /\ u[i] = t[i - 2]
    BY <1>3, <2>3 DEF Tiled
  <2> QED BY <1>9, <2>1, <2>2, <2>3
<1>12. \A i \in 1 .. Len(u) - 1 : u[i + 1][1] = u[i][2] + 1
  <2> SUFFICES ASSUME NEW i \in 1 .. Len(u) - 1 PROVE u[i + 1][1] = u[i][2] + 1
    OBVIOUS
  <2>1. CASE i = 1
    BY <1>8, <2>1
  <2>2. CASE i = 2
    <3>1. 1 \in 1 .. Len(t) /\ t # << >>
      BY <1>6, <1>7, <2>2
    <3>2. u[i + 1] = t[1]
      BY <1>8, <2>2, <3>1
    <3>3. t[1][1] = hi + 1
      BY <1>3, <3>1 DEF Cursor
    <3> QED BY <1>8, <2>2, <3>2, <3>3
  <2>3. CASE i # 1 /\ i # 2
    <3>1. i - 2 \in 1 .. Len(t) - 1 /\ i - 2 \in 1 .. Len(t) /\ i - 1 \in 1 .. Len(t)
      BY <1>6, <1>7, <2>3
    <3>2. i - 2 + 2 = i /\ i - 1 + 2 = i + 1 /\ i - 2 + 1 = i - 1
      BY <1>7
    <3>3. u[i] = t[i - 2] /\ u[i + 1] = t[i - 1]
      BY <1>8, <3>1, <3>2
    <3>4. t[i - 2 + 1][1] = t[i - 2][2] + 1
      BY <1>3, <3>1 DEF Tiled
    <3> QED BY <3>2, <3>3, <3>4
  <2> QED BY <2>1, <2>2, <2>3
<1>13. u[Len(u)][2] = ToBlock
  <2>1. CASE t = << >>
    <3>1. hi = ToBlock /\ Len(u) = 2
      BY <1>2, <1>3, <1>7, <2>1 DEF Cursor
    <3> QED BY <1>8, <3>1
  <2>2. CASE t # << >>
    <3>1. Len(t) \in 1 .. Len(t) /\ Len(u) = Len(t) + 2
      BY <1>6, <1>7, <2>2, EmptySeq
    <3>2. u[Len(u)] = t[Len(t)]
      BY <1>8, <3>1
    <3> QED BY <1>3, <2>2, <3>2 DEF Tiled
  <2> QED BY <2>1, <2>2
<1>14. Tiled(u)
  BY <1>7, <1>11, <1>12, <1>13 DEF Tiled
<1>15. u = Halves(r[1][1], r[1][2]) \o Tail(r)
  BY DEF u, h, t, mid, lo, hi, Halves
<1> QED BY <1>3, <1>10, <1>14, <1>15

LEMMA CollectedNext ==
  ASSUME chain' = chain, chain \subseteq Log, query' \in 1 .. 4,
         phase' \in {"fetch", "write", "done", "failed", "crashed"},
         fetched' \in Seq(All),
         phase' = "fetch" =>
            Tiled(ranges') /\ Listing(fetched', Soon(query', Cursor(ranges'))),
         phase' = "write" => fetched' = Expected
  PROVE  Collected'
<1>1. /\ All' = All /\ Expected' = Expected
      /\ Soon(query, Cursor(ranges))' = Soon(query', Cursor(ranges'))
  BY Frame
<1>2. Tiled(ranges') => Tiled(ranges)'
  BY DEF Tiled
<1>3. ASSUME Listing(fetched', Soon(query', Cursor(ranges')))
      PROVE  Listing(fetched, Soon(query, Cursor(ranges)))'
  <2> DEFINE E == Soon(query', Cursor(ranges'))
  <2>1. Soon(query, Cursor(ranges))' = E
    BY <1>1
  <2> HIDE DEF E
  <2>2. Listing(fetched', E)
    BY <1>3 DEF E
  <2> QED BY <2>1, <2>2 DEF Listing
<1> QED BY <1>1, <1>2, <1>3 DEF Collected

(* A page either adds its rows, or gives way to its halves.                  *)
LEMMA PageKeeps ==
  ASSUME Collected, PageArrives
  PROVE  Collected'
<1> USE FixtureAssumption
<1> DEFINE lo == ranges[1][1]
           hi == ranges[1][2]
           full == Cardinality(Served(lo, hi, Queries[query])) >= PageCap
           page == InOrder(Window(query, lo, hi))
<1>1. /\ phase = "fetch" /\ ranges # << >>
      /\ phase' = IF full /\ lo >= hi THEN "failed" ELSE phase
      /\ ranges' = (IF full THEN Halves(lo, hi) ELSE << >>) \o Tail(ranges)
      /\ fetched' = fetched \o (IF full THEN << >> ELSE page)
      /\ chain' = chain /\ query' = query
  BY DEF PageArrives, Fetching, Window
<1>2. /\ chain \subseteq Log /\ query \in 1 .. 4 /\ Tiled(ranges)
      /\ fetched \in Seq(All) /\ Listing(fetched, Soon(query, Cursor(ranges)))
  BY <1>1 DEF Collected
<1>3. /\ lo = Cursor(ranges) /\ hi \in lo .. ToBlock /\ lo \in FromBlock .. ToBlock + 1
      /\ Tiled(Tail(ranges)) /\ Cursor(Tail(ranges)) = hi + 1
  BY <1>1, <1>2, CursorFacts
<1> HIDE DEF lo, hi, full
<1>5. CASE full
  <2>1. fetched' = fetched
    BY <1>1, <1>2, <1>5, ConcatEmptySeq
  <2>2. CASE lo >= hi
    <3>1. phase' = "failed"
      BY <1>1, <1>5, <2>2
    <3> QED BY <1>1, <1>2, <2>1, <3>1, CollectedNext
  <2>3. CASE ~(lo >= hi)
    <3>1. phase' = "fetch"
      BY <1>1, <2>3
    <3>2. ranges' = Halves(lo, hi) \o Tail(ranges) /\ ranges[1][1] < ranges[1][2]
      <4>1. ranges[1][1] < ranges[1][2]
        BY <1>3, <2>3 DEF lo, hi
      <4> QED BY <1>1, <1>5, <4>1
    <3>3. Tiled(ranges') /\ Cursor(ranges') = Cursor(ranges)
      BY <1>1, <1>2, <3>2, HalvesTile DEF lo, hi
    <3> QED BY <1>1, <1>2, <2>1, <3>1, <3>3, CollectedNext
  <2> QED BY <2>2, <2>3
<1>6. CASE ~full
  <2>1. phase' = "fetch" /\ fetched' = fetched \o page /\ ranges' = << >> \o Tail(ranges)
    BY <1>1, <1>6
  <2>2. ranges' = Tail(ranges)
    BY <1>3, <2>1, ConcatEmptySeq DEF Tiled
  <2>3. /\ Soon(query, hi + 1) = Soon(query, lo) \cup Window(query, lo, hi)
        /\ Soon(query, lo) \cap Window(query, lo, hi) = {}
        /\ Window(query, lo, hi) \subseteq All /\ Soon(query, hi + 1) \subseteq All
    <3>1. hi + 1 \in FromBlock .. ToBlock + 1
      BY <1>3
    <3> QED BY <1>2, <1>3, <3>1, SoonFacts
  <2>4. Listing(page, Window(query, lo, hi))
    BY <1>2, <2>3, RowsPlaced, PartPlaced, InOrderFacts
  <2>5. Listing(fetched', Soon(query, Cursor(ranges')))
    <3> HIDE DEF page
    <3> QED BY <1>2, <1>3, <2>1, <2>2, <2>3, <2>4, ListingConcat
  <2>6. fetched' \in Seq(All)
    BY <1>3, <2>2, <2>3, <2>5, SeqMonotonic DEF Listing
  <2> QED BY <1>1, <1>2, <1>3, <2>1, <2>2, <2>5, <2>6, CollectedNext
<1> QED BY <1>5, <1>6

LEMMA QueryKeeps ==
  ASSUME Collected, QueryDone
  PROVE  Collected'
<1> USE FixtureAssumption
<1>1. /\ phase = "fetch" /\ ranges = << >> /\ chain' = chain
      /\ chain \subseteq Log /\ query \in 1 .. 4 /\ Cursor(ranges) = ToBlock + 1
      /\ fetched \in Seq(All) /\ Listing(fetched, Soon(query, ToBlock + 1))
  BY DEF QueryDone, Collected, Cursor
<1>3. ToBlock + 1 \in FromBlock .. ToBlock + 1 /\ Len(Queries) = 4
  BY QueryFacts
<1>4. CASE query < 4
  <2>1. /\ query' = query + 1 /\ ranges' = << <<FromBlock, ToBlock>> >>
        /\ phase' = phase /\ fetched' = fetched
    BY <1>3, <1>4 DEF QueryDone
  <2>2. Tiled(ranges') /\ Cursor(ranges') = FromBlock
    BY <2>1, StartTiled
  <2>3. Soon(query + 1, FromBlock) = Soon(query, ToBlock + 1)
    BY <1>1, <1>3, <1>4, SoonFacts
  <2>4. query' \in 1 .. 4
    BY <1>1, <1>4, <2>1
  <2> QED BY <1>1, <2>1, <2>2, <2>3, <2>4, CollectedNext
<1>5. CASE ~(query < 4)
  <2>1. phase' = "write" /\ fetched' = Sorted(fetched) /\ query' = query
    BY <1>3, <1>5 DEF QueryDone
  <2>2. query = 4
    BY <1>1, <1>5
  <2>3. Listing(fetched, All)
    BY <1>1, <1>3, <2>2, SoonFacts
  <2>4. Sorted(fetched) = Expected
    BY <1>1, <2>3, RowsPlaced, SortedListing DEF Expected, All
  <2> QED BY <1>1, <2>1, <2>4, ExpectedFacts, CollectedNext
<1> QED BY <1>4, <1>5

LEMMA CollectedKeeps ==
  ASSUME Collected, OnFile, [ToolsNext]_toolsVars
  PROVE  Collected'
<1>1. CASE PageArrives
  BY <1>1, PageKeeps
<1>2. CASE QueryDone
  BY <1>2, QueryKeeps
<1>3. CASE Rerun
  <2>1. /\ chain' = chain /\ phase' = "fetch" /\ query' = 1 /\ fetched' = << >>
        /\ ranges' = << <<FromBlock, ToBlock>> >> /\ chain \subseteq Log
    BY <1>3 DEF Rerun, Collected
  <2>3. Tiled(ranges') /\ Cursor(ranges') = FromBlock
    BY <2>1, StartTiled
  <2>4. Soon(1, FromBlock) = {}
    <3>1. 1 \in 1 .. 4 /\ FromBlock \in FromBlock .. ToBlock + 1
      BY FixtureAssumption
    <3> QED BY <2>1, <3>1, SoonFacts
  <2>5. Listing(fetched', Soon(query', Cursor(ranges')))
    BY <2>1, <2>3, <2>4 DEF Listing
  <2> QED BY <2>1, <2>3, <2>5, CollectedNext
<1>4. CASE RequestFails \/ ErrorAnswer \/ WriteLine \/ Crash
  <2>1. /\ chain' = chain /\ query' = query /\ ranges' = ranges /\ fetched' = fetched
        /\ phase' \in {phase, "failed", "done", "crashed"}
    BY <1>4 DEF RequestFails, ErrorAnswer, WriteLine, Crash
  <2> QED BY <2>1, CollectedNext DEF Collected
<1>5. CASE VerifyFile \/ CrossCheck \/ CrossCheckFails \/ UNCHANGED toolsVars
  <2>1. /\ chain' = chain /\ query' = query /\ ranges' = ranges /\ fetched' = fetched
        /\ phase' = phase
    BY <1>5 DEF VerifyFile, CrossCheck, CrossCheckFails, extractVars, toolsVars
  <2> QED BY <2>1, CollectedNext DEF Collected
<1> QED BY <1>1, <1>2, <1>3, <1>4, <1>5 DEF ToolsNext, Extract

LEMMA WrittenKeeps ==
  ASSUME Collected, OnFile, [ToolsNext]_toolsVars
  PROVE  OnFile'
<1>1. chain' = chain /\ chain \subseteq Log
  BY DEF Collected, ToolsNext, Extract, RequestFails, ErrorAnswer, PageArrives, QueryDone,
         WriteLine, Crash, Rerun, VerifyFile, CrossCheck, CrossCheckFails, extractVars, toolsVars
<1>2. All' = All /\ Expected' = Expected
  BY <1>1, Frame
<1>3. Len(file) \in Nat /\ Len(Expected) \in Nat /\ Expected \in Seq(All)
  BY <1>1, ExpectedFacts, LenProperties DEF OnFile
<1>4. CASE WriteLine
  <2>1. phase = "write" /\ fetched = Expected
    BY <1>4 DEF WriteLine, Collected
  <2>2. CASE Len(file) < Len(fetched)
    <3>1. file' = Append(file, Expected[Len(file) + 1]) /\ phase' = phase
      BY <1>4, <2>1, <2>2 DEF WriteLine
    <3>2. Len(file) + 1 \in 1 .. Len(Expected)
      BY <1>3, <2>1, <2>2
    <3>3. Expected[Len(file) + 1] \in All
      BY <1>3, <3>2, ElementOfSeq
    <3>4. /\ file' \in Seq(All) /\ Len(file') = Len(file) + 1
          /\ \A i \in 1 .. Len(file) : file'[i] = file[i]
          /\ file'[Len(file) + 1] = Expected[Len(file) + 1]
      BY <3>1, <3>3, AppendProperties DEF OnFile
    <3>5. \A i \in 1 .. Len(file') : file'[i] = Expected[i]
      BY <1>3, <3>4 DEF OnFile
    <3> QED BY <1>2, <1>3, <2>1, <3>1, <3>2, <3>4, <3>5 DEF OnFile
  <2>3. CASE ~(Len(file) < Len(fetched))
    <3>1. file' = file
      BY <1>4, <2>3 DEF WriteLine
    <3>2. Len(file) = Len(Expected)
      BY <1>3, <2>1, <2>3 DEF OnFile
    <3> QED BY <1>2, <3>1, <3>2 DEF OnFile
  <2> QED BY <2>2, <2>3
<1>5. CASE QueryDone
  <2>1. CASE file' = << >>
    <3>1. phase' # "done"
      BY <1>5 DEF QueryDone
    <3>2. << >> \in Seq(All) /\ Len(<< >>) = 0
      BY EmptySeq
    <3> QED BY <1>2, <1>3, <2>1, <3>1, <3>2 DEF OnFile
  <2>2. CASE file' # << >>
    <3>1. file' = file /\ phase' = phase /\ phase # "done"
      BY <1>5, <2>2 DEF QueryDone
    <3> QED BY <1>2, <3>1 DEF OnFile
  <2> QED BY <2>1, <2>2
<1>6. CASE RequestFails \/ ErrorAnswer \/ PageArrives \/ Crash \/ Rerun
  <2>1. file' = file /\ phase' # "done"
    BY <1>6 DEF RequestFails, ErrorAnswer, PageArrives, Crash, Rerun, Fetching
  <2> QED BY <1>2, <2>1 DEF OnFile
<1>7. CASE VerifyFile \/ CrossCheck \/ CrossCheckFails \/ UNCHANGED toolsVars
  <2>1. file' = file /\ phase' = phase
    BY <1>7 DEF VerifyFile, CrossCheck, CrossCheckFails, extractVars, toolsVars
  <2> QED BY <1>2, <2>1 DEF OnFile
<1> QED BY <1>4, <1>5, <1>6, <1>7 DEF ToolsNext, Extract

LEMMA CutKeeps ==
  ASSUME Collected, OnFile, CutLine, [ToolsNext]_toolsVars
  PROVE  CutLine'
<1>1. chain' = chain /\ chain \subseteq Log
  BY DEF Collected, ToolsNext, Extract, RequestFails, ErrorAnswer, PageArrives, QueryDone,
         WriteLine, Crash, Rerun, VerifyFile, CrossCheck, CrossCheckFails, extractVars, toolsVars
<1>2. Expected' = Expected
  BY <1>1, Frame
<1>3. CASE Crash
  <2>1. phase' = "crashed" /\ file' = file
    BY <1>3 DEF Crash
  <2>2. CASE cut' = cut
    BY <1>2, <2>1, <2>2 DEF CutLine
  <2>3. CASE cut' # cut
    <3>1. /\ phase = "write" /\ Len(file) < Len(fetched)
          /\ \E n : cut' = <<[fetched[Len(file) + 1] EXCEPT !.index = n]>>
      BY <1>3, <2>3 DEF Crash
    <3>2. fetched = Expected
      BY <3>1 DEF Collected
    <3> QED BY <1>2, <2>1, <3>1, <3>2 DEF CutLine
  <2> QED BY <2>2, <2>3
<1>4. CASE WriteLine
  <2>1. cut' = << >>
    BY <1>4 DEF WriteLine, CutLine
  <2> QED BY <2>1 DEF CutLine
<1>5. CASE QueryDone
  <2>1. CASE cut' = << >>
    BY <2>1 DEF CutLine
  <2>2. CASE cut' # << >>
    <3>1. cut' = cut /\ file' = file /\ phase' = "fetch"
      BY <1>5, <2>2 DEF QueryDone
    <3> QED BY <1>2, <3>1 DEF CutLine
  <2> QED BY <2>1, <2>2
<1>6. CASE RequestFails \/ ErrorAnswer \/ PageArrives \/ Rerun
  <2>1. cut' = cut /\ file' = file /\ phase' \in {"fetch", "failed"}
    BY <1>6 DEF RequestFails, ErrorAnswer, PageArrives, Rerun, Fetching
  <2> QED BY <1>2, <2>1 DEF CutLine
<1>7. CASE VerifyFile \/ CrossCheck \/ CrossCheckFails \/ UNCHANGED toolsVars
  <2>1. cut' = cut /\ file' = file /\ phase' = phase
    BY <1>7 DEF VerifyFile, CrossCheck, CrossCheckFails, extractVars, toolsVars
  <2> QED BY <1>2, <2>1 DEF CutLine
<1> QED BY <1>3, <1>4, <1>5, <1>6, <1>7 DEF ToolsNext, Extract

-----------------------------------------------------------------------------
(* A row is the decoding of a log of the chain, with its transaction.        *)
LEMMA RowOf ==
  ASSUME chain \subseteq Log, NEW e \in All
  PROVE  \E log \in chain : /\ log \in Log /\ e.block = log.block /\ e.index = log.index
                            /\ e.tx = log.tx /\ e.ts = log.ts
                            /\ {"block", "index", "tx", "ts"} \subseteq DOMAIN e
<1>1. PICK k \in 1 .. 4 :
         \E log \in Served(FromBlock, ToBlock, Queries[k]) : e = Decoded(k, log)
  BY AllFacts
<1>2. PICK log \in Served(FromBlock, ToBlock, Queries[k]) : e = Decoded(k, log)
  BY <1>1
<1>3. log \in chain /\ log \in Log
  BY DEF Served
<1> QED BY <1>2, <1>3, QueryFacts

(* The file's rows are in chain order, and no two are of one log.            *)
LEMMA FileOrdered ==
  ASSUME Collected, OnFile
  PROVE  /\ \A i, j \in 1 .. Len(file) : i < j => ByPosition(file[i], file[j])
         /\ \A i \in 1 .. Len(file) : file[i] \in All
         /\ Len(file) \in Nat /\ DOMAIN file = 1 .. Len(file)
<1>1. chain \subseteq Log /\ file \in Seq(All)
  BY DEF Collected, OnFile
<1>2. Len(file) \in Nat /\ Len(Expected) \in Nat /\ DOMAIN file = 1 .. Len(file)
  BY <1>1, ExpectedFacts, LenProperties
<1>3. \A i \in 1 .. Len(file) : i \in 1 .. Len(Expected) /\ file[i] = Expected[i]
  BY <1>2 DEF OnFile
<1>4. \A i \in 1 .. Len(file) : file[i] \in All
  BY <1>1, ElementOfSeq
<1> QED BY <1>1, <1>2, <1>3, <1>4, ExpectedFacts

(* The lines read are rows due, in order: with the cut one last.             *)
LEMMA LineFacts ==
  ASSUME Collected, OnFile, CutLine
  PROVE  /\ Len(Lines) \in Nat /\ DOMAIN Lines = 1 .. Len(Lines) /\ Len(Lines) <= Len(Expected)
         /\ \A i \in 1 .. Len(Lines) :
               /\ Lines[i].tx = Expected[i].tx /\ Lines[i].block = Expected[i].block
               /\ i \in 1 .. Len(file) => Lines[i] = file[i] /\ file[i] = Expected[i]
               /\ i \notin 1 .. Len(file) =>
                     i = Len(file) + 1 /\ cut # << >> /\ Lines[i] = cut[1]
         /\ cut # << >> => /\ Len(file) + 1 \in 1 .. Len(Lines)
                           /\ cut[1] = [Expected[Len(file) + 1] EXCEPT !.index = cut[1].index]
<1>1. /\ chain \subseteq Log /\ file \in Seq(All) /\ Len(file) <= Len(Expected)
      /\ \A i \in 1 .. Len(file) : file[i] = Expected[i]
  BY DEF Collected, OnFile
<1>2. Expected \in Seq(All) /\ Len(Expected) \in Nat /\ Len(file) \in Nat
  BY <1>1, ExpectedFacts, LenProperties
<1>3. CASE cut = << >>
  <2>1. Lines = file
    BY <1>1, <1>3, ConcatEmptySeq DEF Lines
  <2>2. DOMAIN file = 1 .. Len(file)
    BY <1>1, LenProperties
  <2> QED BY <1>1, <1>2, <1>3, <2>1, <2>2
<1>4. CASE cut # << >>
  <2> DEFINE e == Expected[Len(file) + 1]
  <2>1. Len(file) < Len(Expected) /\ \E n : cut = <<[e EXCEPT !.index = n]>>
    BY <1>4 DEF CutLine
  <2>2. Len(file) + 1 \in 1 .. Len(Expected)
    BY <1>2, <2>1
  <2>3. e \in All
    BY <1>2, <2>2, ElementOfSeq
  <2>4. {"block", "index", "tx", "ts"} \subseteq DOMAIN e
    BY <1>1, <2>3, RowOf
  <2> HIDE DEF e
  <2>5. PICK n : cut = <<[e EXCEPT !.index = n]>>
    BY <2>1
  <2> DEFINE c == [e EXCEPT !.index = n]
  <2>6. /\ c.tx = e.tx /\ c.block = e.block
        /\ c = [e EXCEPT !.index = c.index]
    BY <2>4
  <2> HIDE DEF c
  <2>7. cut = <<c>> /\ cut[1] = c /\ Len(cut) = 1 /\ cut \in Seq(All \cup {c})
    BY <2>5 DEF c
  <2>8. file \in Seq(All \cup {c})
    BY <1>1, SeqMonotonic
  <2>9. /\ Lines \in Seq(All \cup {c}) /\ Len(Lines) = Len(file) + 1
        /\ \A i \in 1 .. Len(file) + 1 :
              Lines[i] = IF i <= Len(file) THEN file[i] ELSE cut[i - Len(file)]
    BY <2>7, <2>8, ConcatProperties DEF Lines
  <2>10. DOMAIN Lines = 1 .. Len(Lines)
    BY <2>9, LenProperties
  <2>11. \A i \in 1 .. Len(file) : Lines[i] = file[i]
    BY <1>2, <2>9
  <2>12. Lines[Len(file) + 1] = c
    BY <1>2, <2>7, <2>9
  <2>13. ASSUME NEW i \in 1 .. Len(Lines)
         PROVE  /\ Lines[i].tx = Expected[i].tx /\ Lines[i].block = Expected[i].block
                /\ i \in 1 .. Len(file) => Lines[i] = file[i] /\ file[i] = Expected[i]
                /\ i \notin 1 .. Len(file) =>
                      i = Len(file) + 1 /\ cut # << >> /\ Lines[i] = cut[1]
    <3>1. CASE i \in 1 .. Len(file)
      BY <1>1, <2>11, <3>1
    <3>2. CASE i \notin 1 .. Len(file)
      <4>1. i = Len(file) + 1
        BY <1>2, <2>9, <3>2
      <4> QED BY <1>4, <2>6, <2>7, <2>12, <3>2, <4>1 DEF e
    <3> QED BY <3>1, <3>2
  <2> QED BY <1>2, <2>2, <2>6, <2>7, <2>9, <2>10, <2>13 DEF e
<1> QED BY <1>3, <1>4

(* They are in order, and of different logs unless the cut one repeats one.  *)
LEMMA LinesAreSound ==
  ASSUME Collected, OnFile, CutLine
  PROVE  /\ FileSound(Lines) => ~(cut # << >> /\ Repeated)
         /\ \/ FileSound(Lines) \/ (cut # << >> /\ Repeated)
            \/ ~(Len(Lines) >= MinRows)
            \/ ~(Cardinality({Lines[i].type : i \in DOMAIN Lines}) >= MinTypes)
<1>1. /\ Len(Lines) \in Nat /\ DOMAIN Lines = 1 .. Len(Lines) /\ Len(Lines) <= Len(Expected)
      /\ \A i \in 1 .. Len(Lines) :
            /\ Lines[i].tx = Expected[i].tx /\ Lines[i].block = Expected[i].block
            /\ i \in 1 .. Len(file) => Lines[i] = file[i] /\ file[i] = Expected[i]
            /\ i \notin 1 .. Len(file) =>
                  i = Len(file) + 1 /\ cut # << >> /\ Lines[i] = cut[1]
      /\ cut # << >> => Len(file) + 1 \in 1 .. Len(Lines)
  BY LineFacts
<1>2. /\ chain \subseteq Log /\ Expected \in Seq(All) /\ Len(Expected) \in Nat
      /\ \A k, l \in 1 .. Len(Expected) : k < l => ByPosition(Expected[k], Expected[l])
  BY ExpectedFacts DEF Collected
<1>3. \A i \in 1 .. Len(Lines) : i \in 1 .. Len(Expected) /\ Expected[i] \in All
  <2> SUFFICES ASSUME NEW i \in 1 .. Len(Lines)
               PROVE  i \in 1 .. Len(Expected) /\ Expected[i] \in All
    OBVIOUS
  <2>1. i \in 1 .. Len(Expected)
    BY <1>1, <1>2
  <2> QED BY <1>2, <2>1, ElementOfSeq
<1>4. \A e \in All : e.block \in Nat /\ e.index \in Nat
  BY <1>2, RowsPlaced DEF Placed
<1>5. Len(file) \in Nat /\ DOMAIN file = 1 .. Len(file)
  BY FileOrdered
<1>6. ASSUME NEW i \in 1 .. Len(Lines) - 1
      PROVE  Lines[i].block <= Lines[i + 1].block
  <2>1. i \in 1 .. Len(Lines) /\ i + 1 \in 1 .. Len(Lines) /\ i < i + 1
    BY <1>1
  <2>2. ByPosition(Expected[i], Expected[i + 1])
    BY <1>2, <1>3, <2>1
  <2>3. /\ Expected[i].block \in Nat /\ Expected[i + 1].block \in Nat
        /\ Expected[i].block <= Expected[i + 1].block
    BY <1>3, <1>4, <2>1, <2>2 DEF ByPosition
  <2> QED BY <1>1, <2>1, <2>3
<1>7. ASSUME ~(cut # << >> /\ Repeated), NEW i \in 1 .. Len(Lines), NEW j \in 1 .. Len(Lines), i < j
      PROVE  <<Lines[i].tx, Lines[i].index>> # <<Lines[j].tx, Lines[j].index>>
  <2>1. i \in 1 .. Len(file) /\ Lines[i] = file[i] /\ file[i] = Expected[i]
    <3>1. i \in 1 .. Len(file) \/ i = Len(file) + 1
      BY <1>1
    <3>2. j \in 1 .. Len(file) \/ j = Len(file) + 1
      BY <1>1
    <3>3. i \in 1 .. Len(file)
      BY <1>5, <1>7, <3>1, <3>2
    <3> QED BY <1>1, <3>3
  <2>2. CASE j \in 1 .. Len(file)
    <3>1. Lines[j] = Expected[j] /\ ByPosition(Expected[i], Expected[j])
      BY <1>1, <1>2, <1>3, <1>7, <2>2
    <3>2. Expected[i] \in All /\ Expected[j] \in All
      BY <1>3
    <3>3. Expected[i].tx = Expected[j].tx => Expected[i].block = Expected[j].block
      BY <1>2, <3>2, RowOf, ChainAssumption
    <3> QED BY <1>4, <2>1, <3>1, <3>2, <3>3 DEF ByPosition
  <2>3. CASE j \notin 1 .. Len(file)
    <3>1. cut # << >> /\ Lines[j] = cut[1]
      BY <1>1, <2>3
    <3>2. Key(file[i]) # Key(cut[1])
      BY <1>5, <1>7, <2>1, <3>1 DEF Repeated
    <3> QED BY <2>1, <3>1, <3>2 DEF Key
  <2> QED BY <2>2, <2>3
<1>8. ASSUME ~(cut # << >> /\ Repeated), NEW i \in DOMAIN Lines, NEW j \in DOMAIN Lines, i # j
      PROVE  <<Lines[i].tx, Lines[i].index>> # <<Lines[j].tx, Lines[j].index>>
  <2>1. i \in 1 .. Len(Lines) /\ j \in 1 .. Len(Lines) /\ (i < j \/ j < i)
    BY <1>1, <1>8
  <2> QED BY <1>7, <1>8, <2>1
<1>9. ASSUME FileSound(Lines), cut # << >>, Repeated
      PROVE  FALSE
  <2>1. PICK i \in 1 .. Len(file) : Key(file[i]) = Key(cut[1])
    BY <1>5, <1>9 DEF Repeated
  <2>2. /\ Len(file) + 1 \in 1 .. Len(Lines) /\ Len(file) + 1 # i /\ i \in 1 .. Len(Lines)
        /\ Len(file) + 1 \notin 1 .. Len(file)
    BY <1>1, <1>5, <1>9
  <2>3. Lines[i] = file[i] /\ Lines[Len(file) + 1] = cut[1]
    BY <1>1, <2>2
  <2>4. <<Lines[i].tx, Lines[i].index>>
           # <<Lines[Len(file) + 1].tx, Lines[Len(file) + 1].index>>
    BY <1>1, <1>9, <2>2 DEF FileSound
  <2> QED BY <2>1, <2>3, <2>4 DEF Key
<1> QED BY <1>6, <1>8, <1>9 DEF FileSound

(* A verdict stands as long as the lines and it do.                          *)
LEMMA VerdictStands ==
  ASSUME chain' = chain, file' = file, cut' = cut, torn' = torn, VerifierFair,
         verdict' = "assertion" => verdict = "assertion",
         verdict' \in {"ok", "asking"} => verdict \in {"ok", "asking"}
  PROVE  VerifierFair'
<1>1. Expected' = Expected /\ Lines' = Lines /\ (Repeated' <=> Repeated)
  BY Frame DEF Lines, Repeated
<1> QED BY <1>1 DEF VerifierFair

LEMMA JudgedKeeps ==
  ASSUME ToolsInv, [ToolsNext]_toolsVars
  PROVE  Judged' /\ VerifierFair'
<1> USE DEF ToolsInv
<1>1. chain \subseteq Log /\ chain' = chain
  BY DEF Collected, ToolsNext, Extract, RequestFails, ErrorAnswer, PageArrives, QueryDone,
         WriteLine, Crash, Rerun, VerifyFile, CrossCheck, CrossCheckFails, extractVars, toolsVars
<1>2. CASE Extract \/ ErrorAnswer \/ Crash
  <2>1. /\ phase \in {"fetch", "write"} /\ verdict' = verdict
    BY <1>2 DEF Extract, RequestFails, PageArrives, QueryDone, WriteLine, ErrorAnswer, Crash,
                Fetching, verifyVars
  <2>2. verdict' = "none"
    BY <2>1 DEF Judged
  <2> QED BY <2>2 DEF Judged, VerifierFair
<1>3. CASE Rerun
  BY <1>3 DEF Rerun, Judged, VerifierFair
<1>4. CASE VerifyFile
  <2>1. /\ phase \in {"done", "failed", "crashed"} /\ phase' = phase /\ file' = file
        /\ torn' = torn /\ cut' = cut
    BY <1>4 DEF VerifyFile, extractVars
  <2>2. Expected' = Expected /\ Lines' = Lines /\ (Repeated' <=> Repeated)
    BY <1>1, <2>1, Frame DEF Lines, Repeated
  <2>3. verdict' = "asking" => asked' \subseteq {Lines[i] : i \in DOMAIN Lines}
    BY <1>4 DEF VerifyFile, kSubset
  <2>4. Judged'
    BY <2>1, <2>2, <2>3 DEF Judged
  <2>5. ASSUME verdict' = "assertion"
        PROVE  \/ Len(Lines) < MinRows
               \/ Cardinality({Lines[i].type : i \in DOMAIN Lines}) < MinTypes
               \/ cut # << >> /\ Repeated
    <3> DEFINE type == [i \in DOMAIN Lines |-> Lines[i].type]
               types == {Lines[i].type : i \in DOMAIN Lines}
    <3>1. Len(Lines) \in Nat /\ IsFiniteSet(DOMAIN Lines)
      <4>1. Len(Lines) \in Nat /\ DOMAIN Lines = 1 .. Len(Lines)
        BY LineFacts
      <4>2. 1 \in Int /\ Len(Lines) \in Int
        BY <4>1
      <4>3. IsFiniteSet(1 .. Len(Lines))
        BY <4>2, FS_Interval
      <4> QED BY <4>1, <4>3
    <3>2. Cardinality(types) \in Nat
      <4>1. ImageOf(type, DOMAIN Lines) = types
        BY DEF ImageOf
      <4> HIDE DEF type, types
      <4>2. Cardinality(ImageOf(type, DOMAIN Lines)) \in Nat
        BY <3>1, ImageFinite, FS_CardinalityType
      <4> QED BY <4>1, <4>2
    <3>3. ~FileSound(Lines)
      BY <1>4, <2>5 DEF VerifyFile
    <3>4. Len(Lines) < MinRows <=> ~(Len(Lines) >= MinRows)
      BY <3>1, FixtureAssumption
    <3>5. Cardinality(types) < MinTypes <=> ~(Cardinality(types) >= MinTypes)
      <4> HIDE DEF types
      <4> QED BY <3>2, FixtureAssumption
    <3> QED BY <3>3, <3>4, <3>5, LinesAreSound
  <2>6. ASSUME verdict' \in {"ok", "asking"}
        PROVE  /\ ~torn
               /\ cut # << >> =>
                     /\ Len(file) < Len(Expected) /\ ~Repeated
                     /\ cut[1] = [Expected[Len(file) + 1] EXCEPT !.index = cut[1].index]
    <3>1. ~torn /\ FileSound(Lines)
      BY <1>4, <2>6 DEF VerifyFile
    <3> QED BY <3>1, LinesAreSound, LineFacts DEF CutLine
  <2>7. VerifierFair'
    BY <2>1, <2>2, <2>5, <2>6 DEF VerifierFair
  <2> QED BY <2>4, <2>7
<1>5. CASE CrossCheck
  <2>1. /\ verdict = "asking" /\ phase' = phase /\ file' = file /\ torn' = torn /\ cut' = cut
    BY <1>5 DEF CrossCheck, extractVars
  <2>2. verdict' # "assertion" /\ asked' \subseteq asked /\ verdict' \in {"ok", "asking"}
    <3>1. PICK row \in asked : \E log \in {x \in chain : x.tx = row.tx} :
             IF log.block = row.block
             THEN /\ asked' = asked \ {row}
                  /\ verdict' = IF asked' = {} THEN "ok" ELSE "asking"
             ELSE verdict' = "assertion" /\ asked' = {}
      BY <1>5 DEF CrossCheck
    <3>2. PICK log \in {x \in chain : x.tx = row.tx} :
             IF log.block = row.block
             THEN /\ asked' = asked \ {row}
                  /\ verdict' = IF asked' = {} THEN "ok" ELSE "asking"
             ELSE verdict' = "assertion" /\ asked' = {}
      BY <3>1
    <3>3. PICK i \in DOMAIN Lines : row = Lines[i]
      BY <2>1 DEF Judged
    <3>4. i \in 1 .. Len(Expected) /\ row.tx = Expected[i].tx /\ row.block = Expected[i].block
      <4>1. /\ Len(Lines) \in Nat /\ DOMAIN Lines = 1 .. Len(Lines)
            /\ Len(Lines) <= Len(Expected) /\ Len(Expected) \in Nat
        BY <1>1, LineFacts, ExpectedFacts
      <4>2. i \in 1 .. Len(Lines) /\ i \in 1 .. Len(Expected)
        BY <4>1
      <4> QED BY <3>3, <4>2, LineFacts
    <3>5. Expected[i] \in All
      BY <1>1, <3>4, ExpectedFacts, ElementOfSeq
    <3>6. log.block = row.block
      BY <1>1, <3>2, <3>4, <3>5, RowOf, ChainAssumption
    <3> QED BY <3>2, <3>6
  <2>3. Lines' = Lines
    BY <2>1 DEF Lines
  <2>4. Judged'
    BY <2>1, <2>2, <2>3 DEF Judged
  <2>5. VerifierFair'
    BY <1>1, <2>1, <2>2, VerdictStands
  <2> QED BY <2>4, <2>5
<1>6. CASE CrossCheckFails
  BY <1>6 DEF CrossCheckFails, extractVars, Judged, VerifierFair
<1>7. CASE UNCHANGED toolsVars
  <2>1. UNCHANGED <<chain, phase, file, torn, cut, verdict, asked>>
    BY <1>7 DEF toolsVars, extractVars, verifyVars
  <2>2. Lines' = Lines
    BY <2>1 DEF Lines
  <2> QED BY <2>1, <2>2, VerdictStands DEF Judged
<1> QED BY <1>2, <1>3, <1>4, <1>5, <1>6, <1>7 DEF ToolsNext

(* The invariant holds in every state of every run.                          *)
LEMMA ToolsInvariant == ToolsSpec => []ToolsInv
<1>1. ToolsInit => ToolsInv
  BY InitCollected
<1>2. ToolsInv /\ [ToolsNext]_toolsVars => ToolsInv'
  <2> SUFFICES ASSUME ToolsInv, [ToolsNext]_toolsVars PROVE ToolsInv'
    OBVIOUS
  <2>1. Collected' /\ OnFile' /\ CutLine'
    BY CollectedKeeps, WrittenKeeps, CutKeeps DEF ToolsInv
  <2> QED BY <2>1, JudgedKeeps DEF ToolsInv
<1> QED BY <1>1, <1>2, PTL DEF ToolsSpec

(* However requests fail, pages overflow and the process dies, a finished    *)
(* extraction wrote every log of the period once, in chain order, and an     *)
(* unfinished one a prefix of that, for every chain, period and page cap     *)
(* (extract_fixtures.py:166-238, 364-430).                                   *)
THEOREM ExtractionIsComplete == ToolsSpec => []ExtractionComplete
<1>1. ToolsInv => ExtractionComplete
  <2> SUFFICES ASSUME ToolsInv PROVE ExtractionComplete
    OBVIOUS
  <2>1. /\ chain \subseteq Log /\ file \in Seq(All) /\ Len(file) \in Nat
        /\ Len(file) <= Len(Expected)
        /\ \A i \in 1 .. Len(file) : file[i] = Expected[i]
    BY LenProperties DEF ToolsInv, Collected, OnFile
  <2>2. Expected \in Seq(All) /\ Len(Expected) \in Nat
    BY <2>1, ExpectedFacts
  <2>3. file = SubSeq(Expected, 1, Len(file))
    <3>1. \A i \in 1 .. Len(file) : Expected[i] \in All
      BY <2>1, ElementOfSeq
    <3>2. 1 \in Int /\ Len(file) \in Int
      BY <2>1
    <3>3. /\ SubSeq(Expected, 1, Len(file)) \in Seq(All)
          /\ Len(SubSeq(Expected, 1, Len(file))) = IF 1 <= Len(file) THEN Len(file) - 1 + 1 ELSE 0
          /\ \A i \in 1 .. Len(file) - 1 + 1 : SubSeq(Expected, 1, Len(file))[i] = Expected[1 + i - 1]
      BY <3>1, <3>2, SubSeqProperties
    <3>4. Len(SubSeq(Expected, 1, Len(file))) = Len(file)
      BY <2>1, <3>3
    <3>5. \A i \in 1 .. Len(file) : file[i] = SubSeq(Expected, 1, Len(file))[i]
      BY <2>1, <3>3
    <3> QED BY <2>1, <3>3, <3>4, <3>5, SeqEqual
  <2>4. phase = "done" => file = Expected
    <3>1. phase = "done" => Len(file) = Len(Expected)
      BY DEF ToolsInv, OnFile
    <3> QED BY <2>1, <2>2, <3>1, SeqEqual
  <2> QED BY <2>3, <2>4 DEF ExtractionComplete
<1> QED BY <1>1, ToolsInvariant, PTL

-----------------------------------------------------------------------------
(* What the router makes of a log it can decode.                             *)
UniEvent(log, ts) ==
  Event(log, ts, "uniswap_v3", UniswapAbi[log.topics[1]].type, log.address,
        Whitelist[log.address].token, Amounts(log, UniswapAbi[log.topics[1]]))
AaveEvent(log, ts) ==
  Event(log, ts, "aave_v3", AaveAbi[log.topics[1]].type, log.address,
        <<log.topics[2],
          IF AaveAbi[log.topics[1]].type = "liquidation" THEN log.topics[3] ELSE Zero>>,
        Amounts(log, AaveAbi[log.topics[1]]))
UniLog(log) == /\ log.address \in DOMAIN Whitelist
               /\ Whitelist[log.address].protocol = "uniswap_v3" /\ Decodes(log, UniswapAbi)
AaveLog(log) == /\ log.address \in DOMAIN Whitelist
                /\ Whitelist[log.address].protocol # "uniswap_v3" /\ Decodes(log, AaveAbi)

LEMMA RouteIs ==
  ASSUME NEW log, NEW ts
  PROVE  /\ UniLog(log) => Route(log, ts) = {UniEvent(log, ts)}
         /\ AaveLog(log) => Route(log, ts) = {AaveEvent(log, ts)}
         /\ ~UniLog(log) /\ ~AaveLog(log) => Route(log, ts) = {}
<1> DEFINE topic == log.topics[1]
<1>1. ASSUME UniLog(log) PROVE Route(log, ts) = {UniEvent(log, ts)}
  <2>1. topic \in DOMAIN UniswapAbi
    BY <1>1 DEF UniLog, Decodes
  <2>2. Route(log, ts) = UniswapDecode(log, Whitelist[log.address].token, ts)
    BY <1>1 DEF UniLog, Route
  <2>3. {UniswapAbi[t] : t \in {topic} \cap DOMAIN UniswapAbi} = {UniswapAbi[topic]}
    BY <2>1
  <2>4. UniswapDecode(log, Whitelist[log.address].token, ts) = {UniEvent(log, ts)}
    BY <2>3 DEF UniswapDecode, UniEvent
  <2> QED BY <2>2, <2>4
<1>2. ASSUME AaveLog(log) PROVE Route(log, ts) = {AaveEvent(log, ts)}
  <2>1. topic \in DOMAIN AaveAbi
    BY <1>2 DEF AaveLog, Decodes
  <2>2. Route(log, ts) = AaveDecode(log, ts)
    BY <1>2 DEF AaveLog, Route
  <2>3. {AaveAbi[t] : t \in {topic} \cap DOMAIN AaveAbi} = {AaveAbi[topic]}
    BY <2>1
  <2>4. AaveDecode(log, ts) = {AaveEvent(log, ts)}
    BY <2>3 DEF AaveDecode, AaveEvent
  <2> QED BY <2>2, <2>4
<1>3. ASSUME ~UniLog(log), ~AaveLog(log) PROVE Route(log, ts) = {}
  BY <1>3 DEF Route, UniLog, AaveLog
<1> QED BY <1>1, <1>2, <1>3

(* At most one event, with the log's place, and only of a whitelisted        *)
(* contract's log with one of the topics that the reconciliation asks for.   *)
LEMMA RouteFacts ==
  ASSUME NEW log, NEW ts
  PROVE  /\ \A e \in Route(log, ts) :
               /\ e.block = log.block /\ e.index = log.index /\ e.tx = log.tx /\ e.ts = ts
               /\ DOMAIN e = {"block", "ts", "protocol", "type", "pool", "token", "amount",
                               "tx", "index"}
               /\ log.address \in DOMAIN Whitelist
               /\ log.topics[1] \in Topics(Whitelist[log.address].protocol)
         /\ \E x : Route(log, ts) \subseteq {x}
<1>1. CASE UniLog(log)
  <2>1. Route(log, ts) = {UniEvent(log, ts)}
    BY <1>1, RouteIs
  <2>2. log.topics[1] \in Topics(Whitelist[log.address].protocol)
    BY <1>1 DEF UniLog, Decodes, Topics, UniswapAbi
  <2> DEFINE x == UniEvent(log, ts)
  <2>3. /\ x.block = log.block /\ x.index = log.index /\ x.tx = log.tx /\ x.ts = ts
        /\ DOMAIN x = {"block", "ts", "protocol", "type", "pool", "token", "amount",
                        "tx", "index"}
    BY DEF UniEvent, Event
  <2> HIDE DEF x
  <2>4. Route(log, ts) = {x} /\ log.address \in DOMAIN Whitelist
    BY <1>1, <2>1 DEF UniLog, x
  <2> QED BY <2>2, <2>3, <2>4
<1>2. CASE AaveLog(log)
  <2>1. Route(log, ts) = {AaveEvent(log, ts)}
    BY <1>2, RouteIs
  <2>2. log.topics[1] \in Topics(Whitelist[log.address].protocol)
    BY <1>2 DEF AaveLog, Decodes, Topics, AaveAbi
  <2> DEFINE x == AaveEvent(log, ts)
  <2>3. /\ x.block = log.block /\ x.index = log.index /\ x.tx = log.tx /\ x.ts = ts
        /\ DOMAIN x = {"block", "ts", "protocol", "type", "pool", "token", "amount",
                        "tx", "index"}
    BY DEF AaveEvent, Event
  <2> HIDE DEF x
  <2>4. Route(log, ts) = {x} /\ log.address \in DOMAIN Whitelist
    BY <1>2, <2>1 DEF AaveLog, x
  <2> QED BY <2>2, <2>3, <2>4
<1>3. CASE ~UniLog(log) /\ ~AaveLog(log)
  <2>1. Route(log, ts) = {}
    BY <1>3, RouteIs
  <2> QED BY <2>1
<1> QED BY <1>1, <1>2, <1>3

(* The events the router makes of the chain.                                 *)
Own == UNION {Route(log, log.ts) : log \in chain}

LEMMA OwnFinite ==
  ASSUME chain \subseteq Log
  PROVE  IsFiniteSet(Own)
<1> DEFINE f == [log \in chain |-> CHOOSE x : Route(log, log.ts) \subseteq {x}]
<1>1. IsFiniteSet(chain)
  BY ChainAssumption, FS_Subset
<1>2. \A log \in chain : Route(log, log.ts) \subseteq {f[log]}
  BY RouteFacts
<1> HIDE DEF f
<1>3. Own \in SUBSET ImageOf(f, chain)
  <2> SUFFICES ASSUME NEW e \in Own PROVE e \in ImageOf(f, chain)
    OBVIOUS
  <2>1. PICK log \in chain : e \in Route(log, log.ts)
    BY DEF Own
  <2>2. e = f[log]
    BY <1>2, <2>1
  <2> QED BY <2>2 DEF ImageOf
<1>4. IsFiniteSet(ImageOf(f, chain))
  BY <1>1, ImageFinite
<1> QED BY <1>3, <1>4, FS_Subset

(* At most one event of the chain at each place.                             *)
LEMMA OwnPlaced ==
  ASSUME chain \subseteq Log
  PROVE  Placed(Own)
<1>1. ASSUME NEW e \in Own
      PROVE  \E log \in chain : /\ log \in Log /\ e \in Route(log, log.ts)
                                /\ e.block = log.block /\ e.index = log.index
  BY RouteFacts DEF Own
<1>2. ASSUME NEW e \in Own
      PROVE  e.block \in Nat /\ e.index \in Nat
  BY <1>1, ChainAssumption
<1>3. ASSUME NEW e \in Own, NEW d \in Own, e.block = d.block, e.index = d.index
      PROVE  e = d
  <2>1. PICK a \in Log : /\ e \in Route(a, a.ts) /\ e.block = a.block /\ e.index = a.index
    BY <1>1
  <2>2. PICK b \in Log : /\ d \in Route(b, b.ts) /\ d.block = b.block /\ d.index = b.index
    BY <1>1
  <2>3. a = b
    <3>1. \A l, m \in Log : l.block = m.block /\ l.index = m.index => l = m
      BY ChainAssumption
    <3> QED BY <1>3, <2>1, <2>2, <3>1
  <2>4. PICK x : Route(a, a.ts) \subseteq {x}
    BY RouteFacts
  <2> QED BY <2>1, <2>2, <2>3, <2>4
<1> QED BY <1>2, <1>3, OwnFinite DEF Placed

(* An entry of a buffer has the transaction and block of an event of the     *)
(* chain, and there is one.                                                  *)
LEMMA BufferFacts ==
  ASSUME chain \subseteq Log, NEW events \in Buffers
  PROVE  /\ IsFiniteSet(DOMAIN events) /\ DOMAIN events # {}
         /\ \A i \in DOMAIN events : \E e \in Own : events[i].tx = e.tx /\ events[i].block = e.block
<1> DEFINE Altered(e) == {e, [e EXCEPT !.ts = @ - 1],
                          [e EXCEPT !.amount = <<@[1] + 1, @[2]>>]}
           Ingested(list, i, x) == {[list EXCEPT ![i] = x], Append([list EXCEPT ![i] = x], x)}
<1>1. PICK kept \in SUBSET Own :
         events \in UNION {UNION {Ingested(InOrder(kept), i, x) : x \in Altered(InOrder(kept)[i])} :
                           i \in DOMAIN InOrder(kept)}
  BY DEF Buffers, Own
<1> HIDE DEF Altered, Ingested
<1> DEFINE list == InOrder(kept)
<1>2. list \in Seq(kept) /\ Len(list) \in Nat /\ DOMAIN list = 1 .. Len(list)
  <2>1. Placed(kept)
    BY OwnPlaced, PartPlaced
  <2>2. InOrder(kept) \in Seq(kept)
    BY <2>1, InOrderFacts DEF Listing
  <2> QED BY <2>2, LenProperties
<1> HIDE DEF list
<1>3. PICK i \in DOMAIN list :
         events \in UNION {Ingested(list, i, x) : x \in Altered(list[i])}
  BY <1>1 DEF list
<1>4. PICK x \in Altered(list[i]) : events \in Ingested(list, i, x)
  BY <1>3
<1>5. \A k \in 1 .. Len(list) : list[k] \in Own
  BY <1>2, ElementOfSeq
<1>6. x.tx = list[i].tx /\ x.block = list[i].block
  <2>1. PICK log \in chain : list[i] \in Route(log, log.ts)
    BY <1>2, <1>5 DEF Own
  <2>2. \/ x = list[i] \/ x = [list[i] EXCEPT !.ts = @ - 1]
        \/ x = [list[i] EXCEPT !.amount = <<@[1] + 1, @[2]>>]
    BY DEF Altered
  <2>3. "tx" \in DOMAIN list[i] /\ "block" \in DOMAIN list[i]
    BY <2>1, RouteFacts
  <2> QED BY <2>2, <2>3
<1> DEFINE new == [list EXCEPT ![i] = x]
           T == kept \cup {x}
<1>7. new \in Seq(T) /\ Len(new) = Len(list) /\ \A k \in 1 .. Len(list) : new[k] \in {list[k], x}
  <2>1. list \in Seq(T)
    BY <1>2, SeqMonotonic
  <2>2. /\ new \in Seq(T) /\ Len(new) = Len(list)
    BY <1>2, <2>1, ExceptSeq
  <2> QED BY <1>2, <2>2
<1>8. /\ \A k \in 1 .. Len(list) : k = i => new[k] = x
      /\ \A k \in 1 .. Len(list) : k # i => new[k] = list[k]
  BY <1>2
<1> HIDE DEF new
<1>9. ASSUME NEW k \in 1 .. Len(list)
      PROVE  \E e \in Own : new[k].tx = e.tx /\ new[k].block = e.block
  BY <1>2, <1>5, <1>6, <1>8
<1>10. /\ Append(new, x) \in Seq(T) /\ Len(Append(new, x)) = Len(list) + 1
       /\ \A k \in 1 .. Len(list) : Append(new, x)[k] = new[k]
       /\ Append(new, x)[Len(list) + 1] = x
  BY <1>7, AppendProperties
<1>11. \A n \in Nat : IsFiniteSet(1 .. n)
  BY FS_Interval
<1>12. i \in 1 .. Len(list) /\ Len(list) + 1 \in Nat /\ Len(list) >= 1
  BY <1>2
<1>13. CASE events = new
  <2>1. DOMAIN events = 1 .. Len(list)
    BY <1>7, <1>13, LenProperties
  <2> QED BY <1>2, <1>9, <1>11, <1>12, <1>13, <2>1
<1>14. CASE events = Append(new, x)
  <2>1. DOMAIN events = 1 .. Len(list) + 1
    BY <1>10, <1>14, LenProperties
  <2>2. \A k \in 1 .. Len(list) + 1 : k \in 1 .. Len(list) \/ k = Len(list) + 1
    BY <1>2
  <2>3. ASSUME NEW k \in 1 .. Len(list) + 1
        PROVE  \E e \in Own : events[k].tx = e.tx /\ events[k].block = e.block
    <3>1. CASE k \in 1 .. Len(list)
      BY <1>9, <1>10, <1>14, <3>1
    <3>2. CASE k = Len(list) + 1
      <4>1. events[k] = x /\ list[i] \in Own
        BY <1>5, <1>10, <1>12, <1>14, <3>2
      <4> QED BY <1>6, <4>1
    <3> QED BY <2>2, <3>1, <3>2
  <2>4. 1 \in 1 .. Len(list) + 1
    BY <1>12
  <2> QED BY <1>11, <1>12, <2>1, <2>3, <2>4
<1>15. events = new \/ events = Append(new, x)
  BY <1>4 DEF Ingested, new
<1> QED BY <1>13, <1>14, <1>15

(* A sample of a nonempty buffer has a block, and one of its entries.        *)
LEMMA SampleFacts ==
  ASSUME NEW events, IsFiniteSet(DOMAIN events), DOMAIN events # {},
         NEW sample \in SampleBlocks(events)
  PROVE  \E i \in DOMAIN events : events[i].block \in sample
<1> DEFINE f == [i \in DOMAIN events |-> events[i].block]
           blocks == {events[i].block : i \in DOMAIN events}
<1>1. ImageOf(f, DOMAIN events) = blocks
  BY DEF ImageOf
<1> HIDE DEF f
<1>2. IsFiniteSet(blocks) /\ blocks # {}
  <2>1. IsFiniteSet(ImageOf(f, DOMAIN events))
    BY ImageFinite
  <2> QED BY <1>1, <2>1
<1>3. sample \in SUBSET blocks /\ Cardinality(sample) = Min({SampleSize, Cardinality(blocks)})
  BY DEF SampleBlocks, kSubset
<1> HIDE DEF blocks
<1>4. Cardinality(blocks) \in Nat \ {0} /\ SampleSize \in Nat \ {0}
  <2>1. Cardinality(blocks) \in Nat /\ Cardinality(blocks) # 0
    BY <1>2, FS_CardinalityType, FS_EmptySet
  <2> QED BY <2>1, FixtureAssumption
<1>5. Cardinality(sample) # 0
  <2> DEFINE two == {SampleSize, Cardinality(blocks)}
  <2>1. two \in SUBSET Int /\ two # {}
    BY <1>4
  <2>2. IsFiniteSet(two)
    <3>1. IsFiniteSet({SampleSize})
      BY FS_Singleton
    <3>2. two = {SampleSize} \cup {Cardinality(blocks)}
      OBVIOUS
    <3> HIDE DEF two
    <3>3. IsFiniteSet({SampleSize} \cup {Cardinality(blocks)})
      BY <3>1, FS_AddElement
    <3> QED BY <3>2, <3>3
  <2>3. Min(two) \in two
    <3> HIDE DEF two
    <3> QED BY <2>1, <2>2, MinIs
  <2> QED BY <1>3, <1>4, <2>3
<1>6. sample # {}
  BY <1>5, FS_EmptySet
<1>7. PICK b \in sample : b \in blocks
  BY <1>3, <1>6
<1> QED BY <1>7 DEF blocks

LEMMA ReconcileHolds ==
  ASSUME chain \subseteq Log, NEW events \in Buffers, NEW sample \in SampleBlocks(events)
  PROVE  LET buf == {i \in DOMAIN events : events[i].block \in sample}
             untrue == {i \in buf : ~\E o \in Own : /\ Key(o) = Key(events[i])
                                                    /\ Norm(o) = Norm(events[i])}
         IN  Reconcile(events, sample).ok <=> Gate * Cardinality(untrue) <= Cardinality(buf)
<1> DEFINE buf == {i \in DOMAIN events : events[i].block \in sample}
           untrue == {i \in buf : ~\E o \in Own : /\ Key(o) = Key(events[i])
                                                  /\ Norm(o) = Norm(events[i])}
           onchain == UNION {FetchBlock(b) : b \in sample}
           matched == {i \in buf : \E o \in onchain : /\ Key(o) = Key(events[i])
                                                      /\ Norm(o) = Norm(events[i])}
<1>1. /\ IsFiniteSet(DOMAIN events) /\ DOMAIN events # {}
      /\ \A i \in DOMAIN events : \E e \in Own : events[i].tx = e.tx /\ events[i].block = e.block
  BY BufferFacts
<1>2. buf # {} /\ IsFiniteSet(buf)
  <2>1. buf # {}
    BY <1>1, SampleFacts
  <2>2. buf \subseteq DOMAIN events
    OBVIOUS
  <2> QED BY <1>1, <2>1, <2>2, FS_Subset
<1>3. Reconcile(events, sample).ok
         <=> Gate * Cardinality(matched) >= (Gate - 1) * Cardinality(buf)
  <2> DEFINE enough == Gate * Cardinality(matched) >= (Gate - 1) * Cardinality(buf)
             gate == buf # {} /\ enough
  <2>1. Reconcile(events, sample)
           = [total |-> Cardinality(buf), matched |-> Cardinality(matched), ok |-> gate]
    BY DEF Reconcile
  <2>2. gate \in BOOLEAN /\ (gate <=> enough)
    BY <1>2
  <2> HIDE DEF gate, enough
  <2>3. Reconcile(events, sample).ok = gate
    BY <2>1
  <2> QED BY <2>2, <2>3 DEF enough
<1>4. onchain \subseteq Own
  BY DEF FetchBlock, Own
<1>5. \A log \in chain : \A o \in Route(log, log.ts) : log.block \in sample => o \in onchain
  <2> SUFFICES ASSUME NEW log \in chain, NEW o \in Route(log, log.ts), log.block \in sample
               PROVE  o \in FetchBlock(log.block)
    OBVIOUS
  <2>1. /\ log.address \in DOMAIN Whitelist
        /\ log.topics[1] \in Topics(Whitelist[log.address].protocol)
    BY RouteFacts
  <2> QED BY <2>1 DEF FetchBlock
<1> HIDE DEF onchain
<1>6. ASSUME NEW i \in buf
      PROVE  i \in matched <=> i \notin untrue
  <2> DEFINE e == events[i]
  <2>1. i \in DOMAIN events /\ e.block \in sample
    OBVIOUS
  <2>2. ASSUME NEW o \in Own, Key(o) = Key(e) PROVE o \in onchain
    <3>1. PICK log \in chain : o \in Route(log, log.ts)
      BY DEF Own
    <3>2. PICK d \in Own : e.tx = d.tx /\ e.block = d.block
      BY <1>1, <2>1
    <3>3. PICK l \in chain : d \in Route(l, l.ts)
      BY DEF Own
    <3>4. log \in Log /\ l \in Log /\ o.tx = log.tx /\ d.tx = l.tx /\ d.block = l.block
      BY <3>1, <3>3, RouteFacts
    <3>5. o.tx = e.tx
      BY <2>2 DEF Key
    <3>7. log.tx = l.tx
      BY <3>2, <3>4, <3>5
    <3>8. log.block = l.block
      BY <3>4, <3>7, ChainAssumption
    <3>6. log.block = e.block
      BY <3>2, <3>4, <3>8
    <3> QED BY <1>5, <2>1, <3>1, <3>6
  <2> QED BY <1>4, <2>2
<1>7. matched \subseteq buf /\ untrue \subseteq buf /\ matched = buf \ untrue
  BY <1>6
<1> HIDE DEF matched, untrue, buf
<1>8. Cardinality(buf) = Cardinality(matched) + Cardinality(untrue)
  <2>1. IsFiniteSet(matched) /\ IsFiniteSet(untrue)
    BY <1>2, <1>7, FS_Subset
  <2>2. matched \cup untrue = buf /\ matched \cap untrue = {}
    BY <1>7
  <2>3. /\ Cardinality(matched \cup untrue)
             = Cardinality(matched) + Cardinality(untrue) - Cardinality(matched \cap untrue)
        /\ Cardinality(matched) \in Nat /\ Cardinality(untrue) \in Nat
    BY <2>1, FS_Union, FS_CardinalityType
  <2>4. Cardinality(matched \cap untrue) = 0
    BY <2>2, FS_EmptySet
  <2>5. Cardinality(buf) = Cardinality(matched) + Cardinality(untrue) - 0
    BY <2>2, <2>3, <2>4, Zenon
  <2> QED BY <2>3, <2>5
<1>9. Cardinality(matched) \in Nat /\ Cardinality(untrue) \in Nat
  BY <1>2, <1>7, FS_Subset, FS_CardinalityType
<1>10. Reconcile(events, sample).ok <=> Gate * Cardinality(untrue) <= Cardinality(buf)
  <2>1. \A g \in Nat \ {0} : \A m, u \in Nat :
           g * m >= (g - 1) * (m + u) <=> g * u <= m + u
    OBVIOUS
  <2>2. Gate \in Nat \ {0}
    BY FixtureAssumption
  <2> QED BY <1>3, <1>8, <1>9, <2>1, <2>2
<1> QED BY <1>10 DEF untrue, buf

(* What the checking tools say is so: a file is refused for its data only    *)
(* for too few rows or kinds, or for a last log_index that a crash cut to    *)
(* that of another row of the transaction; what the verifier accepts are the *)
(* first rows of the period, but for the log_index of the last, which may be *)
(* cut; and the reconciliation passes exactly when one in Gate of the        *)
(* sampled entries, or fewer, is not the chain's; for every chain, file,     *)
(* buffer and sample (verify_fixtures.py:78-136, 207-255,                    *)
(* reconcile_etherscan.py:86-135).                                           *)
THEOREM VerdictsAreTrue == ToolsSpec => []VerdictsHold
<1>1. ToolsInv => VerdictsHold
  <2> SUFFICES ASSUME ToolsInv PROVE VerdictsHold
    OBVIOUS
  <2>1. chain \subseteq Log
    BY DEF ToolsInv, Collected
  <2>2. ReconcileExact
    BY <2>1, ReconcileHolds DEF ReconcileExact, Own
  <2> QED BY <2>2 DEF VerdictsHold, ToolsInv
<1> QED BY <1>1, ToolsInvariant, PTL

-----------------------------------------------------------------------------
(* Two's complement: a number that fits is read back from its word.          *)
LEMMA WordFacts ==
  /\ \A w \in 0 .. 2 * Half - 1 : FitsInt(Signed(w)) /\ FitsUint(w)
  /\ \A n : FitsInt(n) => Signed(ToWord(n)) = n
<1> USE WordAssumption
<1>1. \A w \in 0 .. 2 * Half - 1 : FitsInt(Signed(w)) /\ FitsUint(w)
  BY DEF FitsInt, FitsUint, Signed
<1>2. ASSUME NEW n, FitsInt(n) PROVE Signed(ToWord(n)) = n
  <2> DEFINE m == 2 * Half
  <2>1. m \in Nat \ {0} /\ m = 2 * Half /\ n \in Int /\ -Half <= n /\ n < Half
    BY <1>2 DEF FitsInt
  <2> HIDE DEF m
  <2>2. CASE n >= 0
    <3>1. n \in 0 .. m - 1
      BY <2>1, <2>2
    <3>2. ((m * 0) + n) % m = n
      BY <2>1, <3>1
    <3>3. n % m = n
      BY <2>1, <3>2
    <3> QED BY <2>1, <2>2, <3>3 DEF Signed, ToWord
  <2>3. CASE n < 0
    <3>1. n + m \in 0 .. m - 1 /\ (m * (-1)) + (n + m) = n
      BY <2>1, <2>3
    <3> DEFINE r == n + m
    <3>2. r \in 0 .. m - 1 /\ (m * (-1)) + r = n
      BY <3>1
    <3> HIDE DEF r
    <3>3. \A q \in Int : ((m * q) + r) % m = r
      BY <2>1, <3>2
    <3>4. n % m = r
      BY <3>2, <3>3
    <3>5. r >= Half
      BY <2>1, <3>2
    <3>6. r - m = n
      BY <2>1 DEF r
    <3> QED BY <2>1, <3>4, <3>5, <3>6 DEF Signed, ToWord
  <2> QED BY <2>1, <2>2, <2>3
<1> QED BY <1>1, <1>2

Row(block, ts, protocol, type, pool, token, amount, tx, index) ==
    [block |-> block, ts |-> ts, protocol |-> protocol, type |-> type,
     pool |-> pool, token |-> token, amount |-> amount, tx |-> tx, index |-> index]
IsRow(e) == /\ e = Row(e.block, e.ts, e.protocol, e.type, e.pool, e.token, e.amount, e.tx, e.index)
            /\ e.amount = <<e.amount[1], e.amount[2]>>
RawLog(row, topics, data) ==
    [address |-> row.pool, topics |-> topics, data |-> data,
     block |-> row.block, tx |-> row.tx, index |-> row.index]

LEMMA RawLogIs ==
  ASSUME NEW row, NEW topics, NEW data,
         EncodeEvent(row.type, row.amount, row.token)
            = [topics |-> topics, fits |-> TRUE, data |-> data]
  PROVE  BuildRawLog(row) = {RawLog(row, topics, data)}
<1> DEFINE x == [topics |-> topics, fits |-> TRUE, data |-> data]
<1>1. {y \in {EncodeEvent(row.type, row.amount, row.token)} : y.fits} = {x}
  OBVIOUS
<1> QED BY <1>1 DEF BuildRawLog, RawLog

(* The mock node's log of an event of a pool is routed to the event again.   *)
LEMMA UniRoundTrip ==
  ASSUME NEW row, IsRow(row), row.protocol = "uniswap_v3", row.pool \in DOMAIN Whitelist,
         Whitelist[row.pool].protocol = "uniswap_v3", row.token = Whitelist[row.pool].token,
         \/ row.type = "swap" /\ FitsInt(row.amount[1]) /\ FitsInt(row.amount[2])
         \/ /\ row.type \in {"mint", "burn"}
            /\ FitsUint(row.amount[1]) /\ FitsUint(row.amount[2])
  PROVE  \E raw : BuildRawLog(row) = {raw} /\ Route(raw, row.ts) = {row}
<1> DEFINE p == row.pool
           b == row.block
           t == row.ts
           type == row.type
           x == row.amount[1]
           y == row.amount[2]
           tx == row.tx
           ix == row.index
<1>1. /\ row.block = b /\ row.ts = t /\ row.type = type /\ row.pool = p /\ row.tx = tx
      /\ row.index = ix /\ row.token = Whitelist[p].token /\ row.amount = <<x, y>>
      /\ row.amount[1] = x /\ row.amount[2] = y
      /\ row = Row(b, t, "uniswap_v3", type, p, Whitelist[p].token, <<x, y>>, tx, ix)
      /\ p \in DOMAIN Whitelist /\ Whitelist[p].protocol = "uniswap_v3"
      /\ \/ type = "swap" /\ FitsInt(x) /\ FitsInt(y)
         \/ type \in {"mint", "burn"} /\ FitsUint(x) /\ FitsUint(y)
  BY DEF IsRow
<1> HIDE DEF p, b, t, type, x, y, tx, ix
<1>2. ASSUME NEW topics, NEW data, topics[1] \in DOMAIN UniswapAbi,
             Len(data) >= UniswapAbi[topics[1]].words,
             EncodeEvent(row.type, row.amount, row.token)
                = [topics |-> topics, fits |-> TRUE, data |-> data],
             UniswapAbi[topics[1]].type = type,
             Amounts(RawLog(row, topics, data), UniswapAbi[topics[1]]) = <<x, y>>
      PROVE  \E raw : BuildRawLog(row) = {raw} /\ Route(raw, row.ts) = {row}
  <2> DEFINE raw == RawLog(row, topics, data)
  <2>1. /\ raw.address = p /\ raw.topics = topics /\ raw.data = data /\ raw.block = b
        /\ raw.tx = tx /\ raw.index = ix
    BY <1>1 DEF RawLog
  <2>2. BuildRawLog(row) = {raw}
    BY <1>2, RawLogIs
  <2>3. Amounts(raw, UniswapAbi[topics[1]]) = <<x, y>>
    BY <1>2
  <2> HIDE DEF raw
  <2>4. UniLog(raw)
    BY <1>1, <1>2, <2>1 DEF UniLog, Decodes
  <2>5. UniEvent(raw, t) = row
    BY <1>1, <1>2, <2>1, <2>3 DEF UniEvent, Event, Row
  <2> QED BY <1>1, <2>2, <2>4, <2>5, RouteIs
<1>3. CASE type = "swap"
  <2> DEFINE topics == <<"Swap", Zero, Zero>>
             data == <<ToWord(x), ToWord(y), 0, 0, 0>>
  <2>1. FitsInt(x) /\ FitsInt(y)
    BY <1>1, <1>3
  <2>2. EncodeEvent(row.type, row.amount, row.token)
           = [topics |-> topics, fits |-> TRUE, data |-> data]
    BY <1>1, <1>3, <2>1 DEF EncodeEvent
  <2>3. /\ topics[1] = "Swap" /\ Len(data) = 5
        /\ UniswapAbi["Swap"] = [type |-> "swap", words |-> 5, at |-> <<1, 2>>, signed |-> TRUE]
        /\ "Swap" \in DOMAIN UniswapAbi
    BY DEF UniswapAbi
  <2>4. Amounts(RawLog(row, topics, data), UniswapAbi["Swap"]) = <<x, y>>
    BY <2>1, <2>3, WordFacts DEF Amounts, Amount, RawLog
  <2> HIDE DEF topics, data
  <2>5. /\ topics[1] \in DOMAIN UniswapAbi /\ Len(data) >= UniswapAbi[topics[1]].words
        /\ UniswapAbi[topics[1]].type = type
        /\ Amounts(RawLog(row, topics, data), UniswapAbi[topics[1]]) = <<x, y>>
    BY <1>3, <2>3, <2>4
  <2> QED BY <1>2, <2>2, <2>5
<1>4. CASE type = "mint"
  <2> DEFINE topics == <<"Mint", Zero, Zero, Zero>>
             data == <<0, 0, x, y>>
  <2>1. FitsUint(x) /\ FitsUint(y)
    BY <1>1, <1>4
  <2>2. EncodeEvent(row.type, row.amount, row.token)
           = [topics |-> topics, fits |-> TRUE, data |-> data]
    BY <1>1, <1>4, <2>1 DEF EncodeEvent
  <2>3. /\ topics[1] = "Mint" /\ Len(data) = 4
        /\ UniswapAbi["Mint"] = [type |-> "mint", words |-> 4, at |-> <<3, 4>>, signed |-> FALSE]
        /\ "Mint" \in DOMAIN UniswapAbi
    BY DEF UniswapAbi
  <2>4. Amounts(RawLog(row, topics, data), UniswapAbi["Mint"]) = <<x, y>>
    BY <2>3 DEF Amounts, Amount, RawLog
  <2> HIDE DEF topics, data
  <2>5. /\ topics[1] \in DOMAIN UniswapAbi /\ Len(data) >= UniswapAbi[topics[1]].words
        /\ UniswapAbi[topics[1]].type = type
        /\ Amounts(RawLog(row, topics, data), UniswapAbi[topics[1]]) = <<x, y>>
    BY <1>4, <2>3, <2>4
  <2> QED BY <1>2, <2>2, <2>5
<1>5. CASE type = "burn"
  <2> DEFINE topics == <<"Burn", Zero, Zero, Zero>>
             data == <<0, x, y>>
  <2>1. FitsUint(x) /\ FitsUint(y)
    BY <1>1, <1>5
  <2>2. EncodeEvent(row.type, row.amount, row.token)
           = [topics |-> topics, fits |-> TRUE, data |-> data]
    BY <1>1, <1>5, <2>1 DEF EncodeEvent
  <2>3. /\ topics[1] = "Burn" /\ Len(data) = 3
        /\ UniswapAbi["Burn"] = [type |-> "burn", words |-> 3, at |-> <<2, 3>>, signed |-> FALSE]
        /\ "Burn" \in DOMAIN UniswapAbi
    BY DEF UniswapAbi
  <2>4. Amounts(RawLog(row, topics, data), UniswapAbi["Burn"]) = <<x, y>>
    BY <2>3 DEF Amounts, Amount, RawLog
  <2> HIDE DEF topics, data
  <2>5. /\ topics[1] \in DOMAIN UniswapAbi /\ Len(data) >= UniswapAbi[topics[1]].words
        /\ UniswapAbi[topics[1]].type = type
        /\ Amounts(RawLog(row, topics, data), UniswapAbi[topics[1]]) = <<x, y>>
    BY <1>5, <2>3, <2>4
  <2> QED BY <1>2, <2>2, <2>5
<1> QED BY <1>1, <1>3, <1>4, <1>5

(* ... and of an event of a lending pool, but for the name of its version.   *)
LEMMA AaveRoundTrip ==
  ASSUME NEW row, IsRow(row), row.pool \in DOMAIN Whitelist,
         Whitelist[row.pool].protocol # "uniswap_v3",
         row.token = <<row.token[1], row.token[2]>>,
         \/ /\ row.type \in {"supply", "borrow", "withdraw"} /\ FitsUint(row.amount[1])
            /\ row.amount[2] = 0 /\ row.token[2] = Zero
         \/ row.type = "liquidation" /\ FitsUint(row.amount[1]) /\ FitsUint(row.amount[2])
  PROVE  \E raw : /\ BuildRawLog(row) = {raw}
                  /\ Route(raw, row.ts) = {[row EXCEPT !.protocol = "aave_v3"]}
<1> DEFINE p == row.pool
           b == row.block
           t == row.ts
           type == row.type
           r == row.token[1]
           s == row.token[2]
           x == row.amount[1]
           y == row.amount[2]
           tx == row.tx
           ix == row.index
<1>1. /\ row.block = b /\ row.ts = t /\ row.type = type /\ row.pool = p /\ row.tx = tx
      /\ row.index = ix /\ row.token = <<r, s>> /\ row.amount = <<x, y>>
      /\ row.amount[1] = x /\ row.amount[2] = y /\ row.token[1] = r /\ row.token[2] = s
      /\ row = Row(b, t, row.protocol, type, p, <<r, s>>, <<x, y>>, tx, ix)
      /\ p \in DOMAIN Whitelist /\ Whitelist[p].protocol # "uniswap_v3"
      /\ \/ type \in {"supply", "borrow", "withdraw"} /\ FitsUint(x) /\ y = 0 /\ s = Zero
         \/ type = "liquidation" /\ FitsUint(x) /\ FitsUint(y)
  BY DEF IsRow
<1> HIDE DEF p, b, t, type, r, s, x, y, tx, ix
<1>2. ASSUME NEW topics, NEW data, topics[1] \in DOMAIN AaveAbi,
             Len(data) >= AaveAbi[topics[1]].words,
             EncodeEvent(row.type, row.amount, row.token)
                = [topics |-> topics, fits |-> TRUE, data |-> data],
             AaveAbi[topics[1]].type = type, topics[2] = r,
             type = "liquidation" => topics[3] = s, type # "liquidation" => s = Zero,
             Amounts(RawLog(row, topics, data), AaveAbi[topics[1]]) = <<x, y>>
      PROVE  \E raw : /\ BuildRawLog(row) = {raw}
                      /\ Route(raw, row.ts) = {[row EXCEPT !.protocol = "aave_v3"]}
  <2> DEFINE raw == RawLog(row, topics, data)
  <2>1. /\ raw.address = p /\ raw.topics = topics /\ raw.data = data /\ raw.block = b
        /\ raw.tx = tx /\ raw.index = ix
    BY <1>1 DEF RawLog
  <2>2. BuildRawLog(row) = {raw}
    BY <1>2, RawLogIs
  <2>3. Amounts(raw, AaveAbi[topics[1]]) = <<x, y>>
    BY <1>2
  <2> HIDE DEF raw
  <2>4. AaveLog(raw)
    BY <1>1, <1>2, <2>1 DEF AaveLog, Decodes
  <2>5. AaveEvent(raw, t) = Row(b, t, "aave_v3", type, p, <<r, s>>, <<x, y>>, tx, ix)
    BY <1>1, <1>2, <2>1, <2>3 DEF AaveEvent, Event, Row
  <2>6. Row(b, t, "aave_v3", type, p, <<r, s>>, <<x, y>>, tx, ix)
           = [row EXCEPT !.protocol = "aave_v3"]
    BY <1>1 DEF Row
  <2> QED BY <1>1, <2>2, <2>4, <2>5, <2>6, RouteIs
<1>3. CASE type = "supply"
  <2> DEFINE topics == <<"Supply", r, Zero, Zero>>
             data == <<0, x>>
  <2>1. FitsUint(x) /\ y = 0 /\ s = Zero
    BY <1>1, <1>3
  <2>2. EncodeEvent(row.type, row.amount, row.token)
           = [topics |-> topics, fits |-> TRUE, data |-> data]
    BY <1>1, <1>3, <2>1 DEF EncodeEvent
  <2>3. /\ topics[1] = "Supply" /\ topics[2] = r /\ Len(data) = 2
        /\ AaveAbi["Supply"] = [type |-> "supply", words |-> 2, at |-> <<2, 0>>, signed |-> FALSE]
        /\ "Supply" \in DOMAIN AaveAbi
    BY DEF AaveAbi
  <2>4. Amounts(RawLog(row, topics, data), AaveAbi["Supply"]) = <<x, y>>
    BY <2>1, <2>3 DEF Amounts, Amount, RawLog
  <2> HIDE DEF topics, data
  <2>5. /\ topics[1] \in DOMAIN AaveAbi /\ Len(data) >= AaveAbi[topics[1]].words
        /\ AaveAbi[topics[1]].type = type /\ topics[2] = r
        /\ (type = "liquidation" => topics[3] = s) /\ (type # "liquidation" => s = Zero)
        /\ Amounts(RawLog(row, topics, data), AaveAbi[topics[1]]) = <<x, y>>
    BY <1>3, <2>1, <2>3, <2>4
  <2> QED BY <1>2, <2>2, <2>5
<1>4. CASE type = "borrow"
  <2> DEFINE topics == <<"Borrow", r, Zero, Zero>>
             data == <<0, x, 0, 0>>
  <2>1. FitsUint(x) /\ y = 0 /\ s = Zero
    BY <1>1, <1>4
  <2>2. EncodeEvent(row.type, row.amount, row.token)
           = [topics |-> topics, fits |-> TRUE, data |-> data]
    BY <1>1, <1>4, <2>1 DEF EncodeEvent
  <2>3. /\ topics[1] = "Borrow" /\ topics[2] = r /\ Len(data) = 4
        /\ AaveAbi["Borrow"] = [type |-> "borrow", words |-> 4, at |-> <<2, 0>>, signed |-> FALSE]
        /\ "Borrow" \in DOMAIN AaveAbi
    BY DEF AaveAbi
  <2>4. Amounts(RawLog(row, topics, data), AaveAbi["Borrow"]) = <<x, y>>
    BY <2>1, <2>3 DEF Amounts, Amount, RawLog
  <2> HIDE DEF topics, data
  <2>5. /\ topics[1] \in DOMAIN AaveAbi /\ Len(data) >= AaveAbi[topics[1]].words
        /\ AaveAbi[topics[1]].type = type /\ topics[2] = r
        /\ (type = "liquidation" => topics[3] = s) /\ (type # "liquidation" => s = Zero)
        /\ Amounts(RawLog(row, topics, data), AaveAbi[topics[1]]) = <<x, y>>
    BY <1>4, <2>1, <2>3, <2>4
  <2> QED BY <1>2, <2>2, <2>5
<1>5. CASE type = "withdraw"
  <2> DEFINE topics == <<"Withdraw", r, Zero, Zero>>
             data == <<x>>
  <2>1. FitsUint(x) /\ y = 0 /\ s = Zero
    BY <1>1, <1>5
  <2>2. EncodeEvent(row.type, row.amount, row.token)
           = [topics |-> topics, fits |-> TRUE, data |-> data]
    BY <1>1, <1>5, <2>1 DEF EncodeEvent
  <2>3. /\ topics[1] = "Withdraw" /\ topics[2] = r /\ Len(data) = 1
        /\ AaveAbi["Withdraw"] = [type |-> "withdraw", words |-> 1, at |-> <<1, 0>>, signed |-> FALSE]
        /\ "Withdraw" \in DOMAIN AaveAbi
    BY DEF AaveAbi
  <2>4. Amounts(RawLog(row, topics, data), AaveAbi["Withdraw"]) = <<x, y>>
    BY <2>1, <2>3 DEF Amounts, Amount, RawLog
  <2> HIDE DEF topics, data
  <2>5. /\ topics[1] \in DOMAIN AaveAbi /\ Len(data) >= AaveAbi[topics[1]].words
        /\ AaveAbi[topics[1]].type = type /\ topics[2] = r
        /\ (type = "liquidation" => topics[3] = s) /\ (type # "liquidation" => s = Zero)
        /\ Amounts(RawLog(row, topics, data), AaveAbi[topics[1]]) = <<x, y>>
    BY <1>5, <2>1, <2>3, <2>4
  <2> QED BY <1>2, <2>2, <2>5
<1>6. CASE type = "liquidation"
  <2> DEFINE topics == <<"LiquidationCall", r, s, Zero>>
             data == <<y, x, 0, 0>>
  <2>1. FitsUint(x) /\ FitsUint(y)
    BY <1>1, <1>6
  <2>2. EncodeEvent(row.type, row.amount, row.token)
           = [topics |-> topics, fits |-> TRUE, data |-> data]
    BY <1>1, <1>6, <2>1 DEF EncodeEvent
  <2>3. /\ topics[1] = "LiquidationCall" /\ topics[2] = r /\ topics[3] = s /\ Len(data) = 4
        /\ AaveAbi["LiquidationCall"]
              = [type |-> "liquidation", words |-> 4, at |-> <<2, 1>>, signed |-> FALSE]
        /\ "LiquidationCall" \in DOMAIN AaveAbi
    BY DEF AaveAbi
  <2>4. Amounts(RawLog(row, topics, data), AaveAbi["LiquidationCall"]) = <<x, y>>
    BY <2>1, <2>3 DEF Amounts, Amount, RawLog
  <2> HIDE DEF topics, data
  <2>5. /\ topics[1] \in DOMAIN AaveAbi /\ Len(data) >= AaveAbi[topics[1]].words
        /\ AaveAbi[topics[1]].type = type /\ topics[2] = r
        /\ (type = "liquidation" => topics[3] = s) /\ (type # "liquidation" => s = Zero)
        /\ Amounts(RawLog(row, topics, data), AaveAbi[topics[1]]) = <<x, y>>
    BY <1>6, <2>1, <2>3, <2>4
  <2> QED BY <1>2, <2>2, <2>5
<1> QED BY <1>1, <1>3, <1>4, <1>5, <1>6

LEMMA WordsOf ==
  ASSUME NEW log \in Log, log.topics[1] \in DOMAIN AbiWords,
         NEW i \in 1 .. AbiWords[log.topics[1]]
  PROVE  log.data[i] \in 0 .. 2 * Half - 1
<1>1. log.data \in Seq(0 .. 2 * Half - 1) /\ Len(log.data) >= AbiWords[log.topics[1]]
  BY LogAssumption
<1>2. AbiWords[log.topics[1]] \in Nat /\ Len(log.data) \in Nat
  BY <1>1, LenProperties DEF AbiWords
<1>3. i \in 1 .. Len(log.data)
  BY <1>1, <1>2
<1> QED BY <1>1, <1>3, ElementOfSeq

Pools == /\ UniPool \in DOMAIN Whitelist /\ Whitelist[UniPool].protocol = "uniswap_v3"
         /\ Whitelist[UniPool].token = <<Usdc, Weth>>
         /\ AavePool(Version) \in DOMAIN Whitelist
         /\ Whitelist[AavePool(Version)].protocol # "uniswap_v3"

LEMMA PoolFacts == Pools
BY WhitelistAssumption DEF Pools, AavePool

(* What the extractor makes of a log, query by query.                        *)
LEMMA DecodedIs ==
  ASSUME chain \subseteq Log, NEW k \in 1 .. 4, NEW log \in Served(FromBlock, ToBlock, Queries[k])
  PROVE  /\ log \in Log /\ log.address = IF k = 1 THEN UniPool ELSE AavePool(Version)
         /\ k = 1 => /\ log.topics[1] = "Swap"
                     /\ Decoded(k, log)
                           = Row(log.block, log.ts, "uniswap_v3", "swap", UniPool, <<Usdc, Weth>>,
                                 <<Signed(log.data[1]), Signed(log.data[2])>>, log.tx, log.index)
                     /\ \A i \in {1, 2} : log.data[i] \in 0 .. 2 * Half - 1
         /\ k \in {2, 3} =>
               /\ log.topics[1] \in {"Borrow", "BorrowV2", "Supply", "DepositV2"}
               /\ log.topics[1] \in {"Borrow", "Supply"} =>
                     k = IF log.topics[1] = "Borrow" THEN 2 ELSE 3
               /\ Decoded(k, log)
                     = Row(log.block, log.ts, Version, IF k = 2 THEN "borrow" ELSE "supply",
                           AavePool(Version), <<log.topics[2], Zero>>, <<log.data[2], 0>>,
                           log.tx, log.index)
               /\ log.data[2] \in 0 .. 2 * Half - 1
         /\ k = 4 => /\ log.topics[1] = "LiquidationCall"
                     /\ Decoded(k, log)
                           = Row(log.block, log.ts, Version, "liquidation", AavePool(Version),
                                 <<log.topics[2], log.topics[3]>>, <<log.data[2], log.data[1]>>,
                                 log.tx, log.index)
                     /\ \A i \in {1, 2} : log.data[i] \in 0 .. 2 * Half - 1
<1>1. log \in Log /\ log.topics[1] = Queries[k].topic /\ log.address = Queries[k].address
  BY DEF Served
<1>2. /\ Queries[1] = [address |-> UniPool, topic |-> "Swap"]
      /\ Queries[2] = [address |-> AavePool(Version),
                       topic |-> IF Version = "aave_v2" THEN "BorrowV2" ELSE "Borrow"]
      /\ Queries[3] = [address |-> AavePool(Version),
                       topic |-> IF Version = "aave_v2" THEN "DepositV2" ELSE "Supply"]
      /\ Queries[4] = [address |-> AavePool(Version), topic |-> "LiquidationCall"]
  BY DEF Queries
<1>3. k = 1 \/ k = 2 \/ k = 3 \/ k = 4
  OBVIOUS
<1>4. log.address = IF k = 1 THEN UniPool ELSE AavePool(Version)
  BY <1>1, <1>2, <1>3
<1>5. CASE k = 1
  <2>1. log.topics[1] = "Swap"
    BY <1>1, <1>2, <1>5
  <2>2. AbiWords["Swap"] = 5 /\ "Swap" \in DOMAIN AbiWords
    BY DEF AbiWords
  <2>3. \A i \in {1, 2} : log.data[i] \in 0 .. 2 * Half - 1
    BY <1>1, <2>1, <2>2, WordsOf
  <2> QED BY <1>1, <1>4, <1>5, <2>1, <2>3 DEF Decoded, DecodeUniv3Swap, Event, Row
<1>6. CASE k = 2
  <2>1. log.topics[1] = IF Version = "aave_v2" THEN "BorrowV2" ELSE "Borrow"
    BY <1>1, <1>2, <1>6
  <2>2. /\ AbiWords["Borrow"] = 4 /\ "Borrow" \in DOMAIN AbiWords
        /\ AbiWords["BorrowV2"] = 4 /\ "BorrowV2" \in DOMAIN AbiWords
    BY DEF AbiWords
  <2>3. log.data[2] \in 0 .. 2 * Half - 1
    BY <1>1, <2>1, <2>2, WordsOf
  <2> QED BY <1>1, <1>4, <1>6, <2>1, <2>3 DEF Decoded, DecodeAaveBorrow, Event, Row
<1>7. CASE k = 3
  <2>1. log.topics[1] = IF Version = "aave_v2" THEN "DepositV2" ELSE "Supply"
    BY <1>1, <1>2, <1>7
  <2>2. /\ AbiWords["Supply"] = 2 /\ "Supply" \in DOMAIN AbiWords
        /\ AbiWords["DepositV2"] = 2 /\ "DepositV2" \in DOMAIN AbiWords
    BY DEF AbiWords
  <2>3. log.data[2] \in 0 .. 2 * Half - 1
    BY <1>1, <2>1, <2>2, WordsOf
  <2> QED BY <1>1, <1>4, <1>7, <2>1, <2>3 DEF Decoded, DecodeAaveSupply, Event, Row
<1>8. CASE k = 4
  <2>1. log.topics[1] = "LiquidationCall"
    BY <1>1, <1>2, <1>8
  <2>2. AbiWords["LiquidationCall"] = 4 /\ "LiquidationCall" \in DOMAIN AbiWords
    BY DEF AbiWords
  <2>3. \A i \in {1, 2} : log.data[i] \in 0 .. 2 * Half - 1
    BY <1>1, <2>1, <2>2, WordsOf
  <2> QED BY <1>1, <1>4, <1>8, <2>1, <2>3 DEF Decoded, DecodeAaveLiquidation, Event, Row
<1> QED BY <1>3, <1>5, <1>6, <1>7, <1>8

(* The mock node's log of an extracted row is routed to the row, but for the *)
(* protocol of a V2 period.                                                  *)
LEMMA RowRoundTrip ==
  ASSUME chain \subseteq Log, NEW row \in All, NEW raw \in BuildRawLog(row)
  PROVE  Route(raw, row.ts)
            = {[row EXCEPT !.protocol = IF @ = "aave_v2" THEN "aave_v3" ELSE @]}
<1>1. PICK k \in 1 .. 4 :
         \E log \in Served(FromBlock, ToBlock, Queries[k]) : row = Decoded(k, log)
  BY AllFacts
<1>2. PICK log \in Served(FromBlock, ToBlock, Queries[k]) : row = Decoded(k, log)
  BY <1>1
<1>3. k = 1 \/ k \in {2, 3} \/ k = 4
  OBVIOUS
<1>4. CASE k = 1
  <2> DEFINE x == Signed(log.data[1])
             y == Signed(log.data[2])
  <2>1. /\ row = Row(log.block, log.ts, "uniswap_v3", "swap", UniPool, Whitelist[UniPool].token,
                     <<x, y>>, log.tx, log.index)
        /\ FitsInt(x) /\ FitsInt(y)
    BY <1>2, <1>4, DecodedIs, PoolFacts, WordFacts DEF Pools
  <2> HIDE DEF x, y
  <2>5. /\ IsRow(row) /\ row.ts = log.ts /\ row.pool = UniPool /\ row.type = "swap"
        /\ row.amount[1] = x /\ row.amount[2] = y /\ row.token = Whitelist[UniPool].token
        /\ row.protocol = "uniswap_v3"
    BY <2>1, PoolFacts DEF Row, IsRow, Pools
  <2>2. PICK r : BuildRawLog(row) = {r} /\ Route(r, log.ts) = {row}
    BY <2>1, <2>5, PoolFacts, UniRoundTrip DEF Pools
  <2>3. row.ts = log.ts /\ raw = r
    BY <2>1, <2>2 DEF Row
  <2>4. [row EXCEPT !.protocol = IF @ = "aave_v2" THEN "aave_v3" ELSE @] = row
    BY <2>1 DEF Row
  <2> QED BY <2>2, <2>3, <2>4
<1>5. ASSUME NEW type, NEW u, NEW v, NEW x, NEW y,
             row = Row(log.block, log.ts, Version, type, AavePool(Version), <<u, v>>, <<x, y>>,
                       log.tx, log.index),
             \/ type \in {"supply", "borrow", "withdraw"} /\ FitsUint(x) /\ y = 0 /\ v = Zero
             \/ type = "liquidation" /\ FitsUint(x) /\ FitsUint(y)
      PROVE  Route(raw, row.ts)
                = {[row EXCEPT !.protocol = IF @ = "aave_v2" THEN "aave_v3" ELSE @]}
  <2>1. /\ IsRow(row) /\ row.pool = AavePool(Version) /\ row.type = type
        /\ row.amount[1] = x /\ row.amount[2] = y /\ row.token[2] = v /\ row.protocol = Version
        /\ row.token = <<row.token[1], row.token[2]>>
    BY <1>5 DEF Row, IsRow
  <2>2. PICK r : /\ BuildRawLog(row) = {r}
                 /\ Route(r, row.ts) = {[row EXCEPT !.protocol = "aave_v3"]}
    BY <1>5, <2>1, PoolFacts, AaveRoundTrip DEF Pools
  <2>3. raw = r
    BY <2>2
  <2>4. [row EXCEPT !.protocol = IF @ = "aave_v2" THEN "aave_v3" ELSE @]
           = [row EXCEPT !.protocol = "aave_v3"]
    BY <1>5, <2>1, FixtureAssumption DEF Row
  <2> QED BY <2>2, <2>3, <2>4
<1>6. CASE k \in {2, 3}
  <2>1. /\ row = Row(log.block, log.ts, Version, IF k = 2 THEN "borrow" ELSE "supply",
                     AavePool(Version), <<log.topics[2], Zero>>, <<log.data[2], 0>>,
                     log.tx, log.index)
        /\ FitsUint(log.data[2])
    BY <1>2, <1>6, DecodedIs, WordFacts
  <2> QED BY <1>5, <2>1
<1>7. CASE k = 4
  <2>1. /\ row = Row(log.block, log.ts, Version, "liquidation", AavePool(Version),
                     <<log.topics[2], log.topics[3]>>, <<log.data[2], log.data[1]>>,
                     log.tx, log.index)
        /\ FitsUint(log.data[2]) /\ FitsUint(log.data[1])
    BY <1>2, <1>7, DecodedIs, WordFacts
  <2> QED BY <1>5, <2>1
<1> QED BY <1>3, <1>4, <1>6, <1>7

(* What the router makes of a log of the chain, topic by topic.              *)
UniForm(log, e, topic, type, x, y) ==
  /\ log.topics[1] = topic /\ e.type = type /\ e.amount = <<x, y>>
AaveForm(log, e, topic, type, v, x, y) ==
  /\ log.topics[1] = topic /\ e.type = type /\ e.token = <<log.topics[2], v>> /\ e.amount = <<x, y>>

LEMMA UniForms ==
  ASSUME NEW log \in Log, UniLog(log), NEW e, e = UniEvent(log, log.ts)
  PROVE  /\ IsRow(e) /\ e.protocol = "uniswap_v3" /\ e.pool = log.address
         /\ e.token = Whitelist[log.address].token
         /\ \/ /\ UniForm(log, e, "Swap", "swap", Signed(log.data[1]), Signed(log.data[2]))
               /\ FitsInt(Signed(log.data[1])) /\ FitsInt(Signed(log.data[2]))
            \/ /\ UniForm(log, e, "Mint", "mint", log.data[3], log.data[4])
               /\ FitsUint(log.data[3]) /\ FitsUint(log.data[4])
            \/ /\ UniForm(log, e, "Burn", "burn", log.data[2], log.data[3])
               /\ FitsUint(log.data[2]) /\ FitsUint(log.data[3])
<1>1. log.topics[1] \in {"Swap", "Mint", "Burn"}
  BY DEF UniLog, Decodes, UniswapAbi
<1> DEFINE kind == UniswapAbi[log.topics[1]]
<1>2. /\ e.type = kind.type /\ e.amount = Amounts(log, kind) /\ e.protocol = "uniswap_v3"
      /\ e.pool = log.address /\ e.token = Whitelist[log.address].token
      /\ e = Row(e.block, e.ts, e.protocol, e.type, e.pool, e.token, e.amount, e.tx, e.index)
  BY DEF UniEvent, Event, Row
<1>3. e.amount = <<Amount(log, kind, 1), Amount(log, kind, 2)>>
  BY <1>2 DEF Amounts
<1>4. IsRow(e)
  BY <1>2, <1>3 DEF IsRow
<1>5. CASE log.topics[1] = "Swap"
  <2>1. kind = [type |-> "swap", words |-> 5, at |-> <<1, 2>>, signed |-> TRUE]
    BY <1>5 DEF UniswapAbi
  <2>2. Amount(log, kind, 1) = Signed(log.data[1]) /\ Amount(log, kind, 2) = Signed(log.data[2])
    BY <2>1 DEF Amount
  <2>3. AbiWords["Swap"] = 5 /\ "Swap" \in DOMAIN AbiWords
    BY DEF AbiWords
  <2>4. log.data[1] \in 0 .. 2 * Half - 1 /\ log.data[2] \in 0 .. 2 * Half - 1
    BY <1>5, <2>3, WordsOf
  <2>5. kind.type = "swap"
    BY <2>1
  <2> HIDE DEF kind
  <2>6. FitsInt(Signed(log.data[1])) /\ FitsInt(Signed(log.data[2]))
    BY <2>4, WordFacts
  <2>7. UniForm(log, e, "Swap", "swap", Signed(log.data[1]), Signed(log.data[2]))
    BY <1>2, <1>3, <1>5, <2>2, <2>5 DEF UniForm
  <2> QED BY <1>2, <1>4, <2>6, <2>7
<1>6. CASE log.topics[1] = "Mint"
  <2>1. kind = [type |-> "mint", words |-> 4, at |-> <<3, 4>>, signed |-> FALSE]
    BY <1>6 DEF UniswapAbi
  <2>2. Amount(log, kind, 1) = log.data[3] /\ Amount(log, kind, 2) = log.data[4]
    BY <2>1 DEF Amount
  <2>3. AbiWords["Mint"] = 4 /\ "Mint" \in DOMAIN AbiWords
    BY DEF AbiWords
  <2>4. log.data[3] \in 0 .. 2 * Half - 1 /\ log.data[4] \in 0 .. 2 * Half - 1
    BY <1>6, <2>3, WordsOf
  <2>5. kind.type = "mint"
    BY <2>1
  <2> HIDE DEF kind
  <2>6. FitsUint(log.data[3]) /\ FitsUint(log.data[4])
    BY <2>4, WordFacts
  <2>7. UniForm(log, e, "Mint", "mint", log.data[3], log.data[4])
    BY <1>2, <1>3, <1>6, <2>2, <2>5 DEF UniForm
  <2> QED BY <1>2, <1>4, <2>6, <2>7
<1>7. CASE log.topics[1] = "Burn"
  <2>1. kind = [type |-> "burn", words |-> 3, at |-> <<2, 3>>, signed |-> FALSE]
    BY <1>7 DEF UniswapAbi
  <2>2. Amount(log, kind, 1) = log.data[2] /\ Amount(log, kind, 2) = log.data[3]
    BY <2>1 DEF Amount
  <2>3. AbiWords["Burn"] = 3 /\ "Burn" \in DOMAIN AbiWords
    BY DEF AbiWords
  <2>4. log.data[2] \in 0 .. 2 * Half - 1 /\ log.data[3] \in 0 .. 2 * Half - 1
    BY <1>7, <2>3, WordsOf
  <2>5. kind.type = "burn"
    BY <2>1
  <2> HIDE DEF kind
  <2>6. FitsUint(log.data[2]) /\ FitsUint(log.data[3])
    BY <2>4, WordFacts
  <2>7. UniForm(log, e, "Burn", "burn", log.data[2], log.data[3])
    BY <1>2, <1>3, <1>7, <2>2, <2>5 DEF UniForm
  <2> QED BY <1>2, <1>4, <2>6, <2>7
<1> QED BY <1>1, <1>5, <1>6, <1>7

LEMMA AaveForms ==
  ASSUME NEW log \in Log, AaveLog(log), NEW e, e = AaveEvent(log, log.ts)
  PROVE  /\ IsRow(e) /\ e.protocol = "aave_v3" /\ e.pool = log.address
         /\ e.token = <<e.token[1], e.token[2]>>
         /\ \/ /\ AaveForm(log, e, "Supply", "supply", Zero, log.data[2], 0)
               /\ FitsUint(log.data[2])
            \/ /\ AaveForm(log, e, "Borrow", "borrow", Zero, log.data[2], 0)
               /\ FitsUint(log.data[2])
            \/ /\ AaveForm(log, e, "Withdraw", "withdraw", Zero, log.data[1], 0)
               /\ FitsUint(log.data[1])
            \/ /\ AaveForm(log, e, "LiquidationCall", "liquidation", log.topics[3],
                           log.data[2], log.data[1])
               /\ FitsUint(log.data[2]) /\ FitsUint(log.data[1])
<1>1. log.topics[1] \in {"Supply", "Borrow", "Withdraw", "LiquidationCall"}
  BY DEF AaveLog, Decodes, AaveAbi
<1> DEFINE kind == AaveAbi[log.topics[1]]
<1>2. /\ e.type = kind.type /\ e.amount = Amounts(log, kind) /\ e.protocol = "aave_v3"
      /\ e.pool = log.address
      /\ e.token = <<log.topics[2], IF kind.type = "liquidation" THEN log.topics[3] ELSE Zero>>
      /\ e = Row(e.block, e.ts, e.protocol, e.type, e.pool, e.token, e.amount, e.tx, e.index)
  BY DEF AaveEvent, Event, Row
<1>3. e.amount = <<Amount(log, kind, 1), Amount(log, kind, 2)>>
  BY <1>2 DEF Amounts
<1>4. IsRow(e) /\ e.token = <<e.token[1], e.token[2]>>
  BY <1>2, <1>3 DEF IsRow
<1>5. CASE log.topics[1] = "Supply"
  <2>1. kind = [type |-> "supply", words |-> 2, at |-> <<2, 0>>, signed |-> FALSE]
    BY <1>5 DEF AaveAbi
  <2>2. Amount(log, kind, 1) = log.data[2] /\ Amount(log, kind, 2) = 0
    BY <2>1 DEF Amount
  <2>3. AbiWords["Supply"] = 2 /\ "Supply" \in DOMAIN AbiWords
    BY DEF AbiWords
  <2>4. log.data[2] \in 0 .. 2 * Half - 1
    BY <1>5, <2>3, WordsOf
  <2>5. kind.type = "supply"
    BY <2>1
  <2> HIDE DEF kind
  <2>6. FitsUint(log.data[2])
    BY <2>4, WordFacts
  <2>7. AaveForm(log, e, "Supply", "supply", Zero, log.data[2], 0)
    BY <1>2, <1>3, <1>5, <2>2, <2>5 DEF AaveForm
  <2> QED BY <1>2, <1>4, <2>6, <2>7
<1>6. CASE log.topics[1] = "Borrow"
  <2>1. kind = [type |-> "borrow", words |-> 4, at |-> <<2, 0>>, signed |-> FALSE]
    BY <1>6 DEF AaveAbi
  <2>2. Amount(log, kind, 1) = log.data[2] /\ Amount(log, kind, 2) = 0
    BY <2>1 DEF Amount
  <2>3. AbiWords["Borrow"] = 4 /\ "Borrow" \in DOMAIN AbiWords
    BY DEF AbiWords
  <2>4. log.data[2] \in 0 .. 2 * Half - 1
    BY <1>6, <2>3, WordsOf
  <2>5. kind.type = "borrow"
    BY <2>1
  <2> HIDE DEF kind
  <2>6. FitsUint(log.data[2])
    BY <2>4, WordFacts
  <2>7. AaveForm(log, e, "Borrow", "borrow", Zero, log.data[2], 0)
    BY <1>2, <1>3, <1>6, <2>2, <2>5 DEF AaveForm
  <2> QED BY <1>2, <1>4, <2>6, <2>7
<1>7. CASE log.topics[1] = "Withdraw"
  <2>1. kind = [type |-> "withdraw", words |-> 1, at |-> <<1, 0>>, signed |-> FALSE]
    BY <1>7 DEF AaveAbi
  <2>2. Amount(log, kind, 1) = log.data[1] /\ Amount(log, kind, 2) = 0
    BY <2>1 DEF Amount
  <2>3. AbiWords["Withdraw"] = 1 /\ "Withdraw" \in DOMAIN AbiWords
    BY DEF AbiWords
  <2>4. log.data[1] \in 0 .. 2 * Half - 1
    BY <1>7, <2>3, WordsOf
  <2>5. kind.type = "withdraw"
    BY <2>1
  <2> HIDE DEF kind
  <2>6. FitsUint(log.data[1])
    BY <2>4, WordFacts
  <2>7. AaveForm(log, e, "Withdraw", "withdraw", Zero, log.data[1], 0)
    BY <1>2, <1>3, <1>7, <2>2, <2>5 DEF AaveForm
  <2> QED BY <1>2, <1>4, <2>6, <2>7
<1>8. CASE log.topics[1] = "LiquidationCall"
  <2>1. kind = [type |-> "liquidation", words |-> 4, at |-> <<2, 1>>, signed |-> FALSE]
    BY <1>8 DEF AaveAbi
  <2>2. Amount(log, kind, 1) = log.data[2] /\ Amount(log, kind, 2) = log.data[1]
    BY <2>1 DEF Amount
  <2>3. AbiWords["LiquidationCall"] = 4 /\ "LiquidationCall" \in DOMAIN AbiWords
    BY DEF AbiWords
  <2>4. log.data[1] \in 0 .. 2 * Half - 1 /\ log.data[2] \in 0 .. 2 * Half - 1
    BY <1>8, <2>3, WordsOf
  <2>5. kind.type = "liquidation"
    BY <2>1
  <2> HIDE DEF kind
  <2>6. FitsUint(log.data[2]) /\ FitsUint(log.data[1])
    BY <2>4, WordFacts
  <2>7. AaveForm(log, e, "LiquidationCall", "liquidation", log.topics[3],
                 log.data[2], log.data[1])
    BY <1>2, <1>3, <1>8, <2>2, <2>5 DEF AaveForm
  <2> QED BY <1>2, <1>4, <2>6, <2>7
<1> QED BY <1>1, <1>5, <1>6, <1>7, <1>8

(* The mock node's log of an event of the chain is routed to it again.       *)
LEMMA EventRoundTrip ==
  ASSUME NEW log \in Log, NEW e \in Route(log, log.ts)
  PROVE  \E raw : BuildRawLog(e) = {raw} /\ Route(raw, e.ts) = {e}
<1>1. CASE UniLog(log)
  <2>1. e = UniEvent(log, log.ts)
    BY <1>1, RouteIs
  <2>2. log.address \in DOMAIN Whitelist /\ Whitelist[log.address].protocol = "uniswap_v3"
    BY <1>1 DEF UniLog
  <2>3. /\ IsRow(e) /\ e.protocol = "uniswap_v3" /\ e.pool = log.address
        /\ e.token = Whitelist[log.address].token
        /\ \/ e.type = "swap" /\ FitsInt(e.amount[1]) /\ FitsInt(e.amount[2])
           \/ /\ e.type \in {"mint", "burn"}
              /\ FitsUint(e.amount[1]) /\ FitsUint(e.amount[2])
    <3>1. /\ IsRow(e) /\ e.protocol = "uniswap_v3" /\ e.pool = log.address
          /\ e.token = Whitelist[log.address].token
          /\ \/ /\ UniForm(log, e, "Swap", "swap", Signed(log.data[1]), Signed(log.data[2]))
                /\ FitsInt(Signed(log.data[1])) /\ FitsInt(Signed(log.data[2]))
             \/ /\ UniForm(log, e, "Mint", "mint", log.data[3], log.data[4])
                /\ FitsUint(log.data[3]) /\ FitsUint(log.data[4])
             \/ /\ UniForm(log, e, "Burn", "burn", log.data[2], log.data[3])
                /\ FitsUint(log.data[2]) /\ FitsUint(log.data[3])
      BY <1>1, <2>1, UniForms
    <3>2. \A topic, type, x, y : UniForm(log, e, topic, type, x, y) =>
             e.type = type /\ e.amount[1] = x /\ e.amount[2] = y
      BY DEF UniForm
    <3> QED BY <3>1, <3>2
  <2> QED BY <2>2, <2>3, UniRoundTrip
<1>2. CASE AaveLog(log)
  <2>1. e = AaveEvent(log, log.ts)
    BY <1>2, RouteIs
  <2>2. log.address \in DOMAIN Whitelist /\ Whitelist[log.address].protocol # "uniswap_v3"
    BY <1>2 DEF AaveLog
  <2>3. \E raw : BuildRawLog(e) = {raw} /\ Route(raw, e.ts) = {[e EXCEPT !.protocol = "aave_v3"]}
    <3>1. /\ IsRow(e) /\ e.pool = log.address /\ e.token = <<e.token[1], e.token[2]>>
          /\ \/ /\ e.type \in {"supply", "borrow", "withdraw"} /\ FitsUint(e.amount[1])
                /\ e.amount[2] = 0 /\ e.token[2] = Zero
             \/ e.type = "liquidation" /\ FitsUint(e.amount[1]) /\ FitsUint(e.amount[2])
      <4>1. /\ IsRow(e) /\ e.pool = log.address /\ e.token = <<e.token[1], e.token[2]>>
            /\ \/ /\ AaveForm(log, e, "Supply", "supply", Zero, log.data[2], 0)
                  /\ FitsUint(log.data[2])
               \/ /\ AaveForm(log, e, "Borrow", "borrow", Zero, log.data[2], 0)
                  /\ FitsUint(log.data[2])
               \/ /\ AaveForm(log, e, "Withdraw", "withdraw", Zero, log.data[1], 0)
                  /\ FitsUint(log.data[1])
               \/ /\ AaveForm(log, e, "LiquidationCall", "liquidation", log.topics[3],
                              log.data[2], log.data[1])
                  /\ FitsUint(log.data[2]) /\ FitsUint(log.data[1])
        BY <1>2, <2>1, AaveForms
      <4>2. \A topic, type, v, x, y : AaveForm(log, e, topic, type, v, x, y) =>
               e.type = type /\ e.amount[1] = x /\ e.amount[2] = y /\ e.token[2] = v
        BY DEF AaveForm
      <4> QED BY <4>1, <4>2
    <3> QED BY <2>2, <3>1, AaveRoundTrip
  <2>4. [e EXCEPT !.protocol = "aave_v3"] = e
    <3>1. IsRow(e) /\ e.protocol = "aave_v3"
      BY <1>2, <2>1, AaveForms
    <3> QED BY <3>1 DEF IsRow, Row
  <2> QED BY <2>3, <2>4
<1>3. CASE ~UniLog(log) /\ ~AaveLog(log)
  BY <1>3, RouteIs
<1> QED BY <1>1, <1>2, <1>3

(* An extracted row is the event the router makes of the same log.           *)
LEMMA RowIsEvent ==
  ASSUME chain \subseteq Log, NEW row \in All, NEW log \in chain, NEW e \in Route(log, log.ts),
         Key(row) = Key(e)
  PROVE  Norm(row) = Norm(e)
<1>1. PICK k \in 1 .. 4 :
         \E l \in Served(FromBlock, ToBlock, Queries[k]) : row = Decoded(k, l)
  BY AllFacts
<1>2. PICK l \in Served(FromBlock, ToBlock, Queries[k]) : row = Decoded(k, l)
  BY <1>1
<1>3. l = log
  <2>1. l \in Log /\ log \in Log
    BY DEF Served
  <2>2. row.tx = l.tx /\ row.index = l.index
    BY <1>2, <2>1, QueryFacts
  <2>3. e.tx = log.tx /\ e.index = log.index
    BY RouteFacts
  <2>4. row.tx = e.tx /\ row.index = e.index
    BY DEF Key
  <2>5. l.tx = log.tx /\ l.index = log.index
    BY <2>2, <2>3, <2>4
  <2>6. l.block = log.block
    BY <2>1, <2>5, ChainAssumption
  <2> QED BY <2>1, <2>5, <2>6, ChainAssumption
<1>4. log \in Served(FromBlock, ToBlock, Queries[k]) /\ row = Decoded(k, log) /\ log \in Log
  BY <1>2, <1>3
<1>5. k = 1 \/ k \in {2, 3} \/ k = 4
  OBVIOUS
<1>6. \A b, ts, protocol, type, pool, token, amount, tx, index :
         Norm(Row(b, ts, protocol, type, pool, token, amount, tx, index))
            = <<type, pool, token, amount>>
  BY DEF Norm, Row
<1>7. Norm(e) = <<e.type, e.pool, e.token, e.amount>>
  BY DEF Norm
<1>8. CASE k = 1
  <2>1. /\ log.address = UniPool /\ log.topics[1] = "Swap"
        /\ row = Row(log.block, log.ts, "uniswap_v3", "swap", UniPool, <<Usdc, Weth>>,
                     <<Signed(log.data[1]), Signed(log.data[2])>>, log.tx, log.index)
    BY <1>4, <1>8, DecodedIs
  <2>2. UniLog(log) /\ e = UniEvent(log, log.ts)
    <3>1. ~AaveLog(log)
      BY <2>1, PoolFacts DEF Pools, AaveLog
    <3> QED BY <3>1, RouteIs
  <2>3. /\ e.pool = UniPool /\ e.token = <<Usdc, Weth>>
        /\ \/ UniForm(log, e, "Swap", "swap", Signed(log.data[1]), Signed(log.data[2]))
           \/ UniForm(log, e, "Mint", "mint", log.data[3], log.data[4])
           \/ UniForm(log, e, "Burn", "burn", log.data[2], log.data[3])
    BY <1>4, <2>1, <2>2, UniForms, PoolFacts DEF Pools
  <2>4. e.type = "swap" /\ e.amount = <<Signed(log.data[1]), Signed(log.data[2])>>
    <3>1. \A topic, type, x, y : UniForm(log, e, topic, type, x, y) =>
             topic = "Swap" /\ e.type = type /\ e.amount = <<x, y>>
      BY <2>1 DEF UniForm
    <3> QED BY <2>3, <3>1
  <2>5. Norm(row) = <<"swap", UniPool, <<Usdc, Weth>>,
                      <<Signed(log.data[1]), Signed(log.data[2])>> >>
    BY <1>6, <2>1
  <2> QED BY <1>7, <2>3, <2>4, <2>5
<1>9. ASSUME k # 1
      PROVE  /\ AaveLog(log) /\ e.pool = AavePool(Version)
             /\ \/ AaveForm(log, e, "Supply", "supply", Zero, log.data[2], 0)
                \/ AaveForm(log, e, "Borrow", "borrow", Zero, log.data[2], 0)
                \/ AaveForm(log, e, "Withdraw", "withdraw", Zero, log.data[1], 0)
                \/ AaveForm(log, e, "LiquidationCall", "liquidation", log.topics[3],
                            log.data[2], log.data[1])
  <2>1. log.address = AavePool(Version)
    BY <1>4, <1>9, DecodedIs
  <2>2. AaveLog(log) /\ e = AaveEvent(log, log.ts)
    <3>1. ~UniLog(log)
      BY <2>1, PoolFacts DEF Pools, UniLog
    <3> QED BY <3>1, RouteIs
  <2> QED BY <1>4, <2>1, <2>2, AaveForms
<1>10. \A topic, type, v, x, y : AaveForm(log, e, topic, type, v, x, y) =>
          /\ log.topics[1] = topic /\ e.type = type /\ e.token = <<log.topics[2], v>>
          /\ e.amount = <<x, y>>
  BY DEF AaveForm
<1>11. CASE k \in {2, 3}
  <2>1. /\ log.topics[1] \in {"Borrow", "BorrowV2", "Supply", "DepositV2"}
        /\ log.topics[1] \in {"Borrow", "Supply"} =>
              k = IF log.topics[1] = "Borrow" THEN 2 ELSE 3
        /\ row = Row(log.block, log.ts, Version, IF k = 2 THEN "borrow" ELSE "supply",
                     AavePool(Version), <<log.topics[2], Zero>>, <<log.data[2], 0>>,
                     log.tx, log.index)
    BY <1>4, <1>11, DecodedIs
  <2>2. /\ e.type = IF k = 2 THEN "borrow" ELSE "supply"
        /\ e.token = <<log.topics[2], Zero>> /\ e.amount = <<log.data[2], 0>>
        /\ e.pool = AavePool(Version)
    BY <1>9, <1>10, <1>11, <2>1
  <2>3. Norm(row) = <<IF k = 2 THEN "borrow" ELSE "supply", AavePool(Version),
                      <<log.topics[2], Zero>>, <<log.data[2], 0>> >>
    BY <1>6, <2>1
  <2> QED BY <1>7, <2>2, <2>3
<1>12. CASE k = 4
  <2>1. /\ log.topics[1] = "LiquidationCall"
        /\ row = Row(log.block, log.ts, Version, "liquidation", AavePool(Version),
                     <<log.topics[2], log.topics[3]>>, <<log.data[2], log.data[1]>>,
                     log.tx, log.index)
    BY <1>4, <1>12, DecodedIs
  <2>2. /\ e.type = "liquidation" /\ e.pool = AavePool(Version)
        /\ e.token = <<log.topics[2], log.topics[3]>> /\ e.amount = <<log.data[2], log.data[1]>>
    BY <1>9, <1>10, <1>12, <2>1
  <2>3. Norm(row) = <<"liquidation", AavePool(Version), <<log.topics[2], log.topics[3]>>,
                      <<log.data[2], log.data[1]>> >>
    BY <1>6, <2>1
  <2> QED BY <1>7, <2>2, <2>3
<1> QED BY <1>5, <1>8, <1>11, <1>12

-----------------------------------------------------------------------------
(* A list of rows in chain order, stamped with their blocks' times.          *)
Ascending(s) ==
  /\ s = [i \in 1 .. Len(s) |-> s[i]] /\ Len(s) \in Nat
  /\ \A i \in 1 .. Len(s) : s[i].block \in Nat /\ s[i].index \in Nat /\ s[i].ts \in Nat
  /\ \A i, j \in 1 .. Len(s) : i < j => ByPosition(s[i], s[j])
  /\ \A i, j \in 1 .. Len(s) : s[i].block = s[j].block => s[i].ts = s[j].ts
  /\ \A i, j \in 1 .. Len(s) : s[i].block < s[j].block => s[i].ts <= s[j].ts

LEMMA FileAscends ==
  ASSUME Collected, OnFile
  PROVE  Ascending(file)
<1>1. chain \subseteq Log /\ file \in Seq(All)
  BY DEF Collected, OnFile
<1>2. /\ \A i, j \in 1 .. Len(file) : i < j => ByPosition(file[i], file[j])
      /\ \A i \in 1 .. Len(file) : file[i] \in All
      /\ Len(file) \in Nat /\ DOMAIN file = 1 .. Len(file)
  BY FileOrdered
<1>3. file = [i \in 1 .. Len(file) |-> file[i]]
  BY <1>1, <1>2
<1>4. ASSUME NEW i \in 1 .. Len(file)
      PROVE  \E log \in Log : /\ file[i].block = log.block /\ file[i].index = log.index
                              /\ file[i].ts = log.ts
  BY <1>1, <1>2, RowOf
<1>5. ASSUME NEW i \in 1 .. Len(file)
      PROVE  file[i].block \in Nat /\ file[i].index \in Nat /\ file[i].ts \in Nat
  BY <1>4, ChainAssumption
<1>6. ASSUME NEW i \in 1 .. Len(file), NEW j \in 1 .. Len(file)
      PROVE  /\ file[i].block = file[j].block => file[i].ts = file[j].ts
             /\ file[i].block < file[j].block => file[i].ts <= file[j].ts
  <2>1. PICK a \in Log : file[i].block = a.block /\ file[i].ts = a.ts
    BY <1>4
  <2>2. PICK b \in Log : file[j].block = b.block /\ file[j].ts = b.ts
    BY <1>4
  <2>3. /\ a.block = b.block => a.ts = b.ts
        /\ a.block < b.block => a.ts <= b.ts
    BY ChainAssumption
  <2> QED BY <2>1, <2>2, <2>3
<1> QED BY <1>2, <1>3, <1>5, <1>6 DEF Ascending

(* Such a list is its own sorted form: load_events changes nothing.          *)
LEMMA SortedAscending ==
  ASSUME NEW s, Ascending(s)
  PROVE  Sorted(s) = s
<1> DEFINE n == Len(s)
<1>1. DOMAIN s = 1 .. n /\ n \in Nat
  BY DEF Ascending
<1>2. ASSUME NEW i \in 1 .. n
      PROVE  Turn(s, i) = i
  <2>1. ASSUME NEW j \in 1 .. n
        PROVE  (ByPosition(s[j], s[i]) \/ (~ByPosition(s[i], s[j]) /\ j <= i)) <=> j <= i
    <3>1. /\ j < i => ByPosition(s[j], s[i])
          /\ i < j => ByPosition(s[i], s[j])
      BY DEF Ascending
    <3>2. /\ s[i].block \in Nat /\ s[i].index \in Nat
          /\ s[j].block \in Nat /\ s[j].index \in Nat
      BY DEF Ascending
    <3>3. /\ ~(ByPosition(s[j], s[i]) /\ ByPosition(s[i], s[j]))
          /\ i = j => ~ByPosition(s[i], s[j])
      BY <3>2 DEF ByPosition
    <3>4. i \in Int /\ j \in Int
      BY <1>1
    <3>5. j < i \/ i = j \/ i < j
      BY <3>4
    <3> QED BY <3>1, <3>3, <3>4, <3>5
  <2>2. {j \in DOMAIN s : ByPosition(s[j], s[i]) \/ (~ByPosition(s[i], s[j]) /\ j <= i)}
           = 1 .. i
    BY <1>1, <2>1
  <2>3. 1 \in Int /\ i \in Int
    BY <1>1
  <2>4. Cardinality(1 .. i) = IF 1 > i THEN 0 ELSE i - 1 + 1
    BY <2>3, FS_Interval
  <2>5. Turn(s, i) = Cardinality(1 .. i)
    BY <2>2 DEF Turn
  <2> QED BY <1>1, <2>4, <2>5
<1>3. ASSUME NEW k \in 1 .. n
      PROVE  (CHOOSE i \in 1 .. n : Turn(s, i) = k) = k
  <2>1. \A i \in 1 .. n : Turn(s, i) = k <=> i = k
    BY <1>2
  <2> QED BY <2>1
<1> DEFINE from(k) == CHOOSE i \in 1 .. n : Turn(s, i) = k
<1>4. Sorted(s) = [k \in 1 .. n |-> s[from(k)]]
  BY <1>1 DEF Sorted
<1>5. \A k \in 1 .. n : from(k) = k
  BY <1>3
<1> HIDE DEF from
<1>6. [k \in 1 .. n |-> s[from(k)]] = [k \in 1 .. n |-> s[k]]
  BY <1>5
<1> QED BY <1>4, <1>6 DEF Ascending

(* Each block's rows are one run, and start at one place.                    *)
LEMMA RunFacts ==
  ASSUME NEW s, Ascending(s)
  PROVE  /\ RunStarts(s) \subseteq 1 .. Len(s)
         /\ \A i \in 1 .. Len(s) : \E b \in RunStarts(s) : s[b].block = s[i].block
         /\ \A b, c \in RunStarts(s) : s[b].block = s[c].block => b = c
         /\ \A b \in RunStarts(s) :
               Run(s, b) = {s[k] : k \in {j \in 1 .. Len(s) : s[j].block = s[b].block}}
<1> DEFINE n == Len(s)
<1>1. DOMAIN s = 1 .. n /\ n \in Nat
  BY DEF Ascending
<1>2. \A i \in 1 .. n : i \in Nat /\ i - 1 \in Int /\ s[i].block \in Nat
  BY <1>1 DEF Ascending
<1>3. \A i, j \in 1 .. n : i <= j => s[i].block <= s[j].block
  <2> SUFFICES ASSUME NEW i \in 1 .. n, NEW j \in 1 .. n, i <= j PROVE s[i].block <= s[j].block
    OBVIOUS
  <2>1. i < j => ByPosition(s[i], s[j])
    BY DEF Ascending
  <2>2. i = j \/ i < j
    BY <1>2
  <2>3. s[i].block \in Nat /\ s[j].block \in Nat
    BY <1>2
  <2> QED BY <2>1, <2>2, <2>3 DEF ByPosition
<1>4. RunStarts(s) = {i \in 1 .. n : i > 1 => s[i - 1].block # s[i].block}
  BY <1>1 DEF RunStarts
<1>5. ASSUME NEW i \in 1 .. n
      PROVE  \E b \in RunStarts(s) : s[b].block = s[i].block
  <2> DEFINE T == {j \in 1 .. n : s[j].block = s[i].block}
  <2>1. T \in SUBSET Nat /\ T # {}
    BY <1>2
  <2> HIDE DEF T
  <2>2. PICK b \in T : \A y \in T : b <= y
    BY <2>1, LeastOf
  <2>3. b \in 1 .. n /\ s[b].block = s[i].block
    BY DEF T
  <2>4. ASSUME b > 1 PROVE s[b - 1].block # s[b].block
    <3>1. b - 1 \in 1 .. n /\ ~(b <= b - 1)
      BY <2>3, <2>4, <1>1
    <3>2. b - 1 \notin T
      BY <2>2, <3>1
    <3> QED BY <2>3, <3>1, <3>2 DEF T
  <2> QED BY <1>4, <2>3, <2>4
<1>6. ASSUME NEW b \in RunStarts(s), NEW k \in 1 .. n, k < b
      PROVE  s[k].block < s[b].block
  <2>1. b \in 1 .. n
    BY <1>4
  <2>2. b > 1 /\ b - 1 \in 1 .. n /\ k <= b - 1 /\ b - 1 <= b
    BY <1>1, <1>6, <2>1
  <2>3. s[b - 1].block # s[b].block
    BY <1>4, <2>2
  <2>4. s[k].block <= s[b - 1].block /\ s[b - 1].block <= s[b].block
    BY <1>3, <2>1, <2>2
  <2>5. s[k].block \in Nat /\ s[b - 1].block \in Nat /\ s[b].block \in Nat
    BY <1>2, <2>1, <2>2
  <2> QED BY <2>3, <2>4, <2>5
<1>7. ASSUME NEW b \in RunStarts(s), NEW c \in RunStarts(s), s[b].block = s[c].block
      PROVE  b = c
  <2>1. b \in 1 .. n /\ c \in 1 .. n
    BY <1>4
  <2>2. b < c => s[b].block < s[c].block
    BY <1>6, <2>1
  <2>3. c < b => s[c].block < s[b].block
    BY <1>6, <2>1
  <2>4. b \in Nat /\ c \in Nat /\ s[b].block \in Nat /\ s[c].block \in Nat
    BY <1>2, <2>1
  <2> QED BY <1>7, <2>2, <2>3, <2>4
<1>8. ASSUME NEW b \in RunStarts(s)
      PROVE  Run(s, b) = {s[k] : k \in {j \in 1 .. n : s[j].block = s[b].block}}
  <2>1. b \in 1 .. n /\ b \in Nat /\ s[b].block \in Nat
    BY <1>2, <1>4
  <2>2. ASSUME NEW j \in 1 .. n, s[j].block = s[b].block
        PROVE  j \in b .. n /\ \A m \in b .. j : s[m].block = s[b].block
    <3>1. j \in Nat /\ s[j].block \in Nat
      BY <1>2
    <3>2. ~(j < b)
      BY <1>6, <2>1, <2>2, <3>1
    <3>3. ASSUME NEW m \in b .. j PROVE s[m].block = s[b].block
      <4>1. m \in 1 .. n /\ b <= m /\ m <= j
        BY <1>1, <2>1, <3>1
      <4>2. s[b].block <= s[m].block /\ s[m].block <= s[j].block /\ s[m].block \in Nat
        BY <1>2, <1>3, <2>1, <4>1
      <4> QED BY <2>1, <2>2, <4>2
    <3> QED BY <1>1, <2>1, <3>1, <3>2, <3>3
  <2>3. ASSUME NEW j \in b .. n, \A m \in b .. j : s[m].block = s[b].block
        PROVE  j \in 1 .. n /\ s[j].block = s[b].block
    <3>1. j \in 1 .. n /\ j \in b .. j
      BY <1>1, <2>1
    <3> QED BY <2>3, <3>1
  <2>4. {j \in b .. n : \A m \in b .. j : s[m].block = s[b].block}
           = {j \in 1 .. n : s[j].block = s[b].block}
    BY <2>2, <2>3
  <2> QED BY <2>4 DEF Run
<1> QED BY <1>4, <1>5, <1>7, <1>8

-----------------------------------------------------------------------------
(* Heads with their times: no two of one number, none earlier than one       *)
(* before it.                                                                *)
Numbered(H) ==
  /\ IsFiniteSet(H) /\ H # {}
  /\ \A h \in H : h.number \in Nat /\ h.timestamp \in Nat
  /\ \A g, h \in H : g.number = h.number => g = h
  /\ \A g, h \in H : g.number < h.number => g.timestamp <= h.timestamp
Low(H, h) == {x \in H : x.number <= h.number}
Pauses(H) == [h \in H |-> Pause(Previous(H, h), h)]
Numbers(H) == {h.number : h \in H}

(* A set of heads has one that is the last, and one that is the first.       *)
LEMMA EndHeads ==
  ASSUME NEW H, IsFiniteSet(H), H # {}, \A h \in H : h.number \in Nat
  PROVE  /\ \E l \in H : \A h \in H : h.number <= l.number
         /\ \E f \in H : \A h \in H : f.number <= h.number
<1> DEFINE f == [h \in H |-> h.number]
<1>1. Numbers(H) = ImageOf(f, H)
  BY DEF Numbers, ImageOf
<1>2. IsFiniteSet(Numbers(H))
  BY <1>1, ImageFinite
<1>3. Numbers(H) \in SUBSET Int /\ Numbers(H) \in SUBSET Nat /\ Numbers(H) # {}
  BY DEF Numbers
<1>4. Max(Numbers(H)) \in Numbers(H) /\ \A n \in Numbers(H) : n <= Max(Numbers(H))
  BY <1>2, <1>3, MaxIs
<1>5. PICK m \in Numbers(H) : \A n \in Numbers(H) : m <= n
  BY <1>3, LeastOf
<1> QED BY <1>4, <1>5 DEF Numbers

(* The head before h, and the pause it is followed by.                       *)
LEMMA PreviousFacts ==
  ASSUME NEW H, Numbered(H), NEW h \in H
  PROVE  \/ /\ Low(H, h) = {h} /\ Pauses(H)[h] = 0
            /\ \A x \in H : h.number <= x.number
         \/ \E p \in H : /\ p.number < h.number /\ h \notin Low(H, p)
                         /\ Low(H, h) = Low(H, p) \cup {h}
                         /\ Pauses(H)[h] = h.timestamp - p.timestamp
<1> DEFINE earlier == {x \in H : x.number < h.number}
<1>1. \A x \in H : x.number \in Nat /\ x.timestamp \in Nat
  BY DEF Numbered
<1>2. Pauses(H)[h] = Pause(Previous(H, h), h)
  BY DEF Pauses
<1>3. CASE earlier = {}
  <2>1. Previous(H, h) = h
    BY <1>3 DEF Previous
  <2>2. Pauses(H)[h] = 0
    BY <1>1, <1>2, <2>1 DEF Pause
  <2>3. \A x \in H : h.number <= x.number
    BY <1>1, <1>3
  <2>4. \A x \in H : x.number <= h.number => x = h
    BY <1>1, <2>3 DEF Numbered
  <2>5. Low(H, h) = {h}
    BY <1>1, <2>4 DEF Low
  <2> QED BY <2>2, <2>3, <2>5
<1>4. CASE earlier # {}
  <2>1. Previous(H, h) = CHOOSE p \in earlier : \A x \in earlier : x.number <= p.number
    BY <1>4 DEF Previous
  <2>2. IsFiniteSet(earlier) /\ \A x \in earlier : x.number \in Nat
    BY <1>1, FS_Subset DEF Numbered
  <2>3. \E p \in earlier : \A x \in earlier : x.number <= p.number
    <3> HIDE DEF earlier
    <3> QED BY <1>4, <2>2, EndHeads
  <2>4. PICK p \in earlier : p = Previous(H, h) /\ \A x \in earlier : x.number <= p.number
    <3> HIDE DEF earlier
    <3> QED BY <2>1, <2>3
  <2>5. p \in H /\ p.number < h.number
    OBVIOUS
  <2>6. \A x \in H : x.number <= h.number <=> (x.number <= p.number \/ x = h)
    <3> SUFFICES ASSUME NEW x \in H
                 PROVE  x.number <= h.number <=> (x.number <= p.number \/ x = h)
      OBVIOUS
    <3>1. x.number < h.number => x.number <= p.number
      BY <2>4
    <3>2. x.number = h.number => x = h
      BY DEF Numbered
    <3> QED BY <1>1, <2>5, <3>1, <3>2
  <2>7. Low(H, h) = Low(H, p) \cup {h} /\ h \notin Low(H, p)
    BY <1>1, <2>5, <2>6 DEF Low
  <2>8. p.timestamp <= h.timestamp
    BY <2>5 DEF Numbered
  <2>9. Pauses(H)[h] = h.timestamp - p.timestamp
    BY <1>1, <1>2, <2>4, <2>5, <2>8 DEF Pause
  <2> QED BY <2>5, <2>7, <2>9
<1> QED BY <1>3, <1>4

(* The pauses up to a head add up to its time since the first head.          *)
LEMMA PausesAdd ==
  ASSUME NEW H, Numbered(H), NEW f \in H, \A x \in H : f.number <= x.number, NEW h \in H
  PROVE  Sum(Pauses(H), Low(H, h)) = h.timestamp - f.timestamp
<1> DEFINE Holds(x) == Sum(Pauses(H), Low(H, x)) = x.timestamp - f.timestamp
           Off == {x \in H : ~Holds(x)}
<1>1. \A x \in H : x.number \in Nat /\ x.timestamp \in Nat
  BY DEF Numbered
<1>2. \A x \in H : Pauses(H)[x] \in Int
  BY <1>1, PreviousFacts
<1>3. \A x \in H : IsFiniteSet(Low(H, x)) /\ Low(H, x) \subseteq H
  BY FS_Subset DEF Low, Numbered
<1>4. ASSUME NEW x \in Off, \A y \in Off : x.number <= y.number
      PROVE  FALSE
  <2>1. x \in H
    OBVIOUS
  <2>2. CASE /\ Low(H, x) = {x} /\ Pauses(H)[x] = 0
             /\ \A y \in H : x.number <= y.number
    <3>1. x = f
      BY <1>1, <2>1, <2>2 DEF Numbered
    <3>2. Sum(Pauses(H), {x}) = 0
      BY <1>2, <2>1, <2>2, SumOne
    <3>3. Holds(x)
      BY <1>1, <2>2, <3>1, <3>2
    <3> QED BY <3>3
  <2>3. CASE \E p \in H : /\ p.number < x.number /\ x \notin Low(H, p)
                          /\ Low(H, x) = Low(H, p) \cup {x}
                          /\ Pauses(H)[x] = x.timestamp - p.timestamp
    <3>1. PICK p \in H : /\ p.number < x.number /\ x \notin Low(H, p)
                         /\ Low(H, x) = Low(H, p) \cup {x}
                         /\ Pauses(H)[x] = x.timestamp - p.timestamp
      BY <2>3
    <3>2. p \notin Off
      BY <1>1, <1>4, <2>1, <3>1
    <3>3. Sum(Pauses(H), Low(H, p)) = p.timestamp - f.timestamp
      BY <3>2
    <3>4. \A y \in Low(H, p) \cup {x} : Pauses(H)[y] \in Int
      BY <1>2, <1>3, <2>1
    <3>5. Sum(Pauses(H), Low(H, p) \cup {x}) = Pauses(H)[x] + Sum(Pauses(H), Low(H, p))
      <4> DEFINE S == Low(H, p)
                 g == Pauses(H)
      <4>1. IsFiniteSet(S) /\ x \notin S /\ \A y \in S \cup {x} : g[y] \in Int
        BY <1>3, <3>1, <3>4
      <4> HIDE DEF S, g
      <4>2. Sum(g, S \cup {x}) = g[x] + Sum(g, S)
        BY <4>1, SumAdd
      <4> QED BY <4>2 DEF S, g
    <3>6. Sum(Pauses(H), Low(H, x)) = (x.timestamp - p.timestamp) + (p.timestamp - f.timestamp)
      BY <3>1, <3>3, <3>5
    <3>7. x.timestamp \in Nat /\ p.timestamp \in Nat /\ f.timestamp \in Nat
      BY <1>1, <2>1
    <3>8. Holds(x)
      BY <3>6, <3>7
    <3> QED BY <3>8
  <2> QED BY <2>1, <2>2, <2>3, PreviousFacts
<1>5. Off = {}
  <2> SUFFICES ASSUME Off # {} PROVE FALSE
    OBVIOUS
  <2>1. IsFiniteSet(Off) /\ \A x \in Off : x.number \in Nat
    BY <1>1, FS_Subset DEF Numbered
  <2> HIDE DEF Off
  <2>2. \E x \in Off : \A y \in Off : x.number <= y.number
    BY <2>1, EndHeads
  <2> QED BY <1>4, <2>2
<1> QED BY <1>5

HeadTimes(H) == {h.timestamp : h \in H}

(* All the pauses add up to the time the heads span.                         *)
LEMMA PausesSpan ==
  ASSUME NEW H, Numbered(H)
  PROVE  Sum(Pauses(H), H) = Max(HeadTimes(H)) - Min(HeadTimes(H))
<1>1. \A x \in H : x.number \in Nat /\ x.timestamp \in Nat
  BY DEF Numbered
<1>2. PICK l \in H : \A h \in H : h.number <= l.number
  BY EndHeads DEF Numbered
<1>3. PICK f \in H : \A h \in H : f.number <= h.number
  BY EndHeads DEF Numbered
<1>4. Low(H, l) = H
  BY <1>2 DEF Low
<1>5. Sum(Pauses(H), H) = l.timestamp - f.timestamp
  BY <1>3, <1>4, PausesAdd
<1>6. \A h \in H : h.timestamp <= l.timestamp /\ f.timestamp <= h.timestamp
  <2> SUFFICES ASSUME NEW h \in H PROVE h.timestamp <= l.timestamp /\ f.timestamp <= h.timestamp
    OBVIOUS
  <2>1. /\ h.number < l.number => h.timestamp <= l.timestamp
        /\ h.number = l.number => h = l
        /\ f.number < h.number => f.timestamp <= h.timestamp
        /\ f.number = h.number => f = h
    BY DEF Numbered
  <2> QED BY <1>1, <1>2, <1>3, <2>1
<1> DEFINE g == [h \in H |-> h.timestamp]
<1>7. HeadTimes(H) = ImageOf(g, H)
  BY DEF HeadTimes, ImageOf
<1>8. IsFiniteSet(HeadTimes(H))
  BY <1>7, ImageFinite DEF Numbered
<1>9. HeadTimes(H) \in SUBSET Int /\ HeadTimes(H) # {}
  BY <1>1 DEF HeadTimes, Numbered
<1>10. /\ Max(HeadTimes(H)) \in HeadTimes(H) /\ \A t \in HeadTimes(H) : t <= Max(HeadTimes(H))
       /\ Min(HeadTimes(H)) \in HeadTimes(H) /\ \A t \in HeadTimes(H) : Min(HeadTimes(H)) <= t
  BY <1>8, <1>9, MaxIs, MinIs
<1>11. /\ \A t \in HeadTimes(H) : t \in Nat /\ t <= l.timestamp /\ f.timestamp <= t
       /\ l.timestamp \in HeadTimes(H) /\ f.timestamp \in HeadTimes(H)
  BY <1>1, <1>6 DEF HeadTimes
<1>12. Max(HeadTimes(H)) = l.timestamp
  BY <1>10, <1>11
<1>13. Min(HeadTimes(H)) = f.timestamp
  BY <1>10, <1>11
<1> QED BY <1>5, <1>12, <1>13

(* The replay of a list in chain order sends each of its rows once, under    *)
(* the row's own block and time, and spans the time the rows do.             *)
Group(s, i) == [block |-> s[i].block, ts |-> s[i].ts, rows |-> Run(s, i)]
Heads(s) == {Header(g) : g \in BlockGroups(s)}

LEMMA GroupFacts ==
  ASSUME NEW s, Ascending(s)
  PROVE  /\ BlockGroups(s) = {Group(s, i) : i \in RunStarts(s)}
         /\ \A i \in 1 .. Len(s) : \E g \in BlockGroups(s) :
               {x \in BlockGroups(s) : s[i] \in x.rows} = {g}
         /\ \A g \in BlockGroups(s) : \A row \in g.rows :
               Header(g).number = row.block /\ Header(g).timestamp = row.ts
<1>1. BlockGroups(s) = {Group(s, i) : i \in RunStarts(s)}
  BY DEF BlockGroups, Group
<1>2. ASSUME NEW i \in RunStarts(s)
      PROVE  /\ Header(Group(s, i)).number = s[i].block
             /\ Header(Group(s, i)).timestamp = s[i].ts
             /\ Group(s, i).rows = Run(s, i)
  BY DEF Header, Group
<1>3. ASSUME NEW b \in RunStarts(s), NEW i \in 1 .. Len(s)
      PROVE  s[i] \in Run(s, b) <=> s[i].block = s[b].block
  <2>1. Run(s, b) = {s[k] : k \in {j \in 1 .. Len(s) : s[j].block = s[b].block}}
    BY RunFacts
  <2> QED BY <2>1
<1>4. ASSUME NEW i \in 1 .. Len(s)
      PROVE  \E g \in BlockGroups(s) : {x \in BlockGroups(s) : s[i] \in x.rows} = {g}
  <2>1. PICK b \in RunStarts(s) : s[b].block = s[i].block
    BY RunFacts
  <2>2. ASSUME NEW x \in BlockGroups(s), s[i] \in x.rows PROVE x = Group(s, b)
    <3>1. PICK c \in RunStarts(s) : x = Group(s, c)
      BY <1>1
    <3>2. s[c].block = s[b].block
      BY <1>2, <1>3, <2>1, <2>2, <3>1
    <3>3. c = b
      BY <3>2, RunFacts
    <3> QED BY <3>1, <3>3
  <2>3. Group(s, b) \in BlockGroups(s) /\ s[i] \in Group(s, b).rows
    BY <1>1, <1>2, <1>3, <2>1
  <2> QED BY <2>2, <2>3
<1>5. ASSUME NEW g \in BlockGroups(s), NEW row \in g.rows
      PROVE  Header(g).number = row.block /\ Header(g).timestamp = row.ts
  <2>1. PICK b \in RunStarts(s) : g = Group(s, b)
    BY <1>1
  <2>2. Run(s, b) = {s[k] : k \in {j \in 1 .. Len(s) : s[j].block = s[b].block}}
    BY RunFacts
  <2>3. row \in Run(s, b)
    BY <1>2, <2>1
  <2>4. PICK k \in 1 .. Len(s) : row = s[k] /\ s[k].block = s[b].block
    BY <2>2, <2>3
  <2>5. b \in 1 .. Len(s)
    BY RunFacts
  <2>6. s[k].ts = s[b].ts
    BY <2>4, <2>5 DEF Ascending
  <2> QED BY <1>2, <2>1, <2>4, <2>6
<1> QED BY <1>1, <1>4, <1>5

LEMMA HeadsNumbered ==
  ASSUME NEW s, Ascending(s), Heads(s) # {}
  PROVE  Numbered(Heads(s))
<1> DEFINE f == [i \in RunStarts(s) |-> Header(Group(s, i))]
<1>1. BlockGroups(s) = {Group(s, i) : i \in RunStarts(s)}
  BY GroupFacts
<1>2. RunStarts(s) \subseteq 1 .. Len(s) /\ Len(s) \in Nat
  BY RunFacts DEF Ascending
<1>3. Heads(s) = ImageOf(f, RunStarts(s))
  BY <1>1 DEF Heads, ImageOf
<1>4. \A i \in RunStarts(s) : f[i].number = s[i].block /\ f[i].timestamp = s[i].ts
  BY DEF Header, Group
<1>5. \A h \in Heads(s) : \E i \in RunStarts(s) : h = f[i]
  BY <1>3 DEF ImageOf
<1>6. IsFiniteSet(RunStarts(s))
  <2>1. 1 \in Int /\ Len(s) \in Int
    BY <1>2
  <2>2. IsFiniteSet(1 .. Len(s))
    BY <2>1, FS_Interval
  <2> QED BY <1>2, <2>2, FS_Subset
<1>7. IsFiniteSet(Heads(s))
  BY <1>3, <1>6, ImageFinite
<1> HIDE DEF f
<1>8. ASSUME NEW h \in Heads(s)
      PROVE  h.number \in Nat /\ h.timestamp \in Nat
  <2>1. PICK i \in RunStarts(s) : h = f[i]
    BY <1>5
  <2>2. i \in 1 .. Len(s)
    BY <1>2
  <2>3. s[i].block \in Nat /\ s[i].ts \in Nat
    BY <2>2 DEF Ascending
  <2> QED BY <1>4, <2>1, <2>3
<1>9. ASSUME NEW g \in Heads(s), NEW h \in Heads(s)
      PROVE  /\ g.number = h.number => g = h
             /\ g.number < h.number => g.timestamp <= h.timestamp
  <2>1. PICK i \in RunStarts(s) : g = f[i]
    BY <1>5
  <2>2. PICK j \in RunStarts(s) : h = f[j]
    BY <1>5
  <2>3. i \in 1 .. Len(s) /\ j \in 1 .. Len(s)
    BY <1>2
  <2>4. s[i].block = s[j].block => i = j
    BY RunFacts
  <2>5. s[i].block < s[j].block => s[i].ts <= s[j].ts
    BY <2>3 DEF Ascending
  <2> QED BY <1>4, <2>1, <2>2, <2>4, <2>5
<1> QED BY <1>7, <1>8, <1>9 DEF Numbered

LEMMA ReplayIsFaithful ==
  ASSUME Collected, OnFile
  PROVE  ReplayFaithful
<1> DEFINE groups == BlockGroups(LoadEvents(file))
           heads == {Header(g) : g \in groups}
           times == {h.timestamp : h \in heads}
           pause == [h \in heads |-> Pause(Previous(heads, h), h)]
<1>1. Ascending(file) /\ LoadEvents(file) = file
  BY FileAscends, SortedAscending DEF LoadEvents
<1>2. DOMAIN file = 1 .. Len(file)
  BY FileOrdered
<1>3. groups = BlockGroups(file) /\ heads = Heads(file)
  BY <1>1 DEF Heads
<1>4. ASSUME NEW i \in DOMAIN file
      PROVE  Cardinality({g \in groups : file[i] \in g.rows}) = 1
  <2>1. i \in 1 .. Len(file)
    BY <1>2
  <2>2. PICK g \in BlockGroups(file) : {x \in BlockGroups(file) : file[i] \in x.rows} = {g}
    BY <1>1, <2>1, GroupFacts
  <2>3. Cardinality({g}) = 1
    BY FS_Singleton
  <2> QED BY <1>3, <2>2, <2>3
<1>5. \A g \in groups : \A row \in g.rows :
         Header(g).number = row.block /\ Header(g).timestamp = row.ts
  BY <1>1, <1>3, GroupFacts
<1>6. ASSUME heads # {}
      PROVE  SumFunctionOnSet(pause, heads) = Max(times) - Min(times)
  <2>1. Numbered(heads)
    BY <1>1, <1>3, <1>6, HeadsNumbered
  <2>2. pause = Pauses(heads) /\ times = HeadTimes(heads)
    BY DEF Pauses, HeadTimes
  <2> HIDE DEF heads, pause, times
  <2> QED BY <2>1, <2>2, PausesSpan DEF Sum
<1> QED BY <1>4, <1>5, <1>6 DEF ReplayFaithful

(* Live routing, offline extraction and the mock node's replay make the same *)
(* events of the same logs, for every chain whose data are ABI words and     *)
(* every word width; and a file is replayed row for row under heads of the   *)
(* rows' own blocks and times (extract_fixtures.py:241-361,                  *)
(* replay.py:69-202, 231-330, router.py and the decoders).                   *)
THEOREM SourcesAreOne == ToolsSpec => []SourcesAgree
<1>1. ToolsInv => SourcesAgree
  <2> SUFFICES ASSUME ToolsInv PROVE SourcesAgree
    OBVIOUS
  <2>1. Collected /\ OnFile /\ chain \subseteq Log /\ fetched \in Seq(All)
    BY DEF ToolsInv, Collected
  <2>2. \A i \in DOMAIN fetched : fetched[i] \in All
    BY <2>1, ElementOfSeq, LenProperties
  <2>3. RowsAgree
    BY <2>1, <2>2, RowRoundTrip DEF RowsAgree
  <2>4. ASSUME NEW log \in chain, NEW e \in Route(log, log.ts)
        PROVE  /\ \A i \in DOMAIN fetched : Key(fetched[i]) = Key(e) => Norm(fetched[i]) = Norm(e)
               /\ BuildRawLog(e) # {}
               /\ \A raw \in BuildRawLog(e) : Route(raw, e.ts) = {e}
    <3>1. log \in Log
      BY <2>1
    <3>2. PICK raw : BuildRawLog(e) = {raw} /\ Route(raw, e.ts) = {e}
      BY <3>1, EventRoundTrip
    <3>3. \A i \in DOMAIN fetched : Key(fetched[i]) = Key(e) => Norm(fetched[i]) = Norm(e)
      BY <2>1, <2>2, RowIsEvent
    <3> QED BY <3>2, <3>3
  <2>5. EventsAgree
    BY <2>4 DEF EventsAgree
  <2> QED BY <2>1, <2>3, <2>5, ReplayIsFaithful DEF SourcesAgree
<1> QED BY <1>1, ToolsInvariant, PTL

-----------------------------------------------------------------------------
(* The backtest.                                                             *)
Rows == Times \cup {Bad, Broken}

Types ==
    /\ rows \in Seq(Rows) /\ pos \in 0 .. Len(rows)
    /\ asap \in BOOLEAN
    /\ clock \in Nat /\ wake \in Nat /\ written \in Nat
    /\ buffer \in Seq(Nat \X Nat)
    /\ \A k \in DOMAIN buffer : buffer[k][1] \in 1 .. pos
    /\ errorLog \in Seq(Nat)
    /\ work # "returned" => ingested = 0

(* The clock runs at least as fast as the timestamps from the first event i: *)
(* to the last one written, and to the next one when its sleep ends.         *)
First(i) == rows[i] \in Times /\ \A j \in 1 .. i - 1 : rows[j] \notin Times
Paced ==
    /\ prev = None \/ prev \in Times
    /\ prev = None <=> Events(pos) = {}
    /\ work = "sleeping" => pos < Len(rows) /\ rows[pos + 1] \in Times
    /\ asap = FALSE =>
          \A i \in 1 .. pos : First(i) =>
              /\ clock >= prev - rows[i]
              /\ work = "sleeping" => wake >= rows[pos + 1] - rows[i]

IInv == Types /\ Paced /\ RowsAccounted /\ NeverEarly

-----------------------------------------------------------------------------
LEMMA RowSetsFinite ==
    ASSUME NEW n \in Nat
    PROVE  /\ IsFiniteSet(Events(n)) /\ Events(n) \subseteq 1 .. n
           /\ IsFiniteSet(Rejected(n)) /\ Rejected(n) \subseteq 1 .. n
<1>1. IsFiniteSet(1 .. n)
    BY FS_Interval
<1>2. Events(n) \subseteq 1 .. n /\ Rejected(n) \subseteq 1 .. n
    BY DEF Events, Rejected
<1>3. QED
    BY <1>1, <1>2, FS_Subset

LEMMA RankFacts ==
    ASSUME NEW n \in Nat
    PROVE  /\ Cardinality(Events(n)) \in Nat /\ Cardinality(Rejected(n)) \in Nat
           /\ \A i \in 1 .. n : /\ Cardinality(Events(i)) \in Nat
                               /\ Cardinality(Events(i)) <= Cardinality(Events(n))
           /\ \A i \in 1 .. n : /\ Cardinality(Rejected(i)) \in Nat
                               /\ Cardinality(Rejected(i)) <= Cardinality(Rejected(n))
<1>1. IsFiniteSet(Events(n)) /\ IsFiniteSet(Rejected(n))
    BY RowSetsFinite
<1>2. /\ \A i \in 1 .. n : Events(i) \subseteq Events(n)
      /\ \A i \in 1 .. n : Rejected(i) \subseteq Rejected(n)
    BY DEF Events, Rejected
<1>3. QED
    BY <1>1, <1>2, FS_Subset, FS_CardinalityType

(* The next row is an event, or rejected: one more of its kind.              *)
LEMMA OneMoreRow ==
    ASSUME NEW n \in Nat, BacktestAssumption
    PROVE  /\ rows[n + 1] \in Times =>
                 /\ Events(n + 1) = Events(n) \cup {n + 1}
                 /\ Rejected(n + 1) = Rejected(n)
                 /\ Cardinality(Events(n + 1)) = Cardinality(Events(n)) + 1
           /\ rows[n + 1] = Bad =>
                 /\ Rejected(n + 1) = Rejected(n) \cup {n + 1}
                 /\ Events(n + 1) = Events(n)
                 /\ Cardinality(Rejected(n + 1)) = Cardinality(Rejected(n)) + 1
<1>1. Bad \notin Times
    BY DEF BacktestAssumption
<1>2. /\ rows[n + 1] \in Times => Events(n + 1) = Events(n) \cup {n + 1}
      /\ rows[n + 1] = Bad => Events(n + 1) = Events(n)
    BY <1>1 DEF Events
<1>3. /\ rows[n + 1] \in Times => Rejected(n + 1) = Rejected(n)
      /\ rows[n + 1] = Bad => Rejected(n + 1) = Rejected(n) \cup {n + 1}
    BY <1>1 DEF Rejected
<1>4. /\ IsFiniteSet(Events(n)) /\ Events(n) \subseteq 1 .. n
      /\ IsFiniteSet(Rejected(n)) /\ Rejected(n) \subseteq 1 .. n
    BY RowSetsFinite
<1>5. n + 1 \notin Events(n) /\ n + 1 \notin Rejected(n)
    BY <1>4
<1>6. /\ Cardinality(Events(n) \cup {n + 1}) = Cardinality(Events(n)) + 1
      /\ Cardinality(Rejected(n) \cup {n + 1}) = Cardinality(Rejected(n)) + 1
    BY <1>4, <1>5, FS_AddElement
<1>7. QED
    BY <1>2, <1>3, <1>6

(* The ring t that a write of e leaves of s.                                 *)
Written(s, e) == LET b == Append(s, e) IN IF Len(b) > Capacity THEN Tail(b) ELSE b
Pushed(s, e, t, gone) ==
    /\ Len(t) = Len(s) + 1 - gone
    /\ Len(t) = IF Len(s) < Capacity THEN Len(s) + 1 ELSE Capacity
    /\ t[Len(t)] = e
    /\ \A i \in 1 .. Len(s) : i > gone => t[i - gone] = s[i]
    /\ \A k \in 1 .. Len(t) : t[k] = e \/ \E i \in 1 .. Len(s) : t[k] = s[i]

LEMMA TailFacts ==
    ASSUME NEW S, NEW s \in Seq(S), s # << >>
    PROVE  /\ Tail(s) \in Seq(S) /\ Len(Tail(s)) = Len(s) - 1
           /\ \A i \in 1 .. Len(s) - 1 : Tail(s)[i] = s[i + 1]
<1>1. Tail(s) \in Seq(S) /\ Len(Tail(s)) = Len(s) - 1
    OBVIOUS
<1>2. \A i \in 1 .. Len(s) - 1 : Tail(s)[i] = s[i + 1]
    OBVIOUS
<1>3. QED
    BY <1>1, <1>2

LEMMA RingPush ==
    ASSUME NEW S, NEW s \in Seq(S), NEW e \in S, Len(s) <= Capacity
    PROVE  /\ Written(s, e) \in Seq(S)
           /\ \E gone \in {0, 1} : Pushed(s, e, Written(s, e), gone)
<1>1. PICK t : t = Written(s, e)
    OBVIOUS
<1>2. PICK size \in Nat : size = Len(s) /\ size <= Capacity
    OBVIOUS
<1>3. PICK b \in Seq(S) : b = Append(s, e)
    <2>1. Append(s, e) \in Seq(S)
        OBVIOUS
    <2>2. QED
        BY <2>1
<1>4. Len(b) = size + 1 /\ b[size + 1] = e /\ \A i \in 1 .. size : b[i] = s[i]
    BY <1>2, <1>3
<1>5. Capacity \in Nat \ {0}
    BY BacktestAssumption DEF BacktestAssumption
<1>6. CASE size = Capacity
    <2>1. t = Tail(b)
        BY <1>1, <1>2, <1>3, <1>4, <1>5, <1>6 DEF Written
    <2>2. b # << >>
        BY <1>2, <1>4
    <2>3. t \in Seq(S) /\ Len(t) = size /\ \A i \in 1 .. size : t[i] = b[i + 1]
        <3>1. /\ Tail(b) \in Seq(S) /\ Len(Tail(b)) = Len(b) - 1
              /\ \A i \in 1 .. Len(b) - 1 : Tail(b)[i] = b[i + 1]
            BY <2>2, TailFacts
        <3>2. Len(b) - 1 = size
            BY <1>2, <1>4
        <3>3. QED
            BY <2>1, <3>1, <3>2
    <2>4. t[size] = e
        BY <1>4, <1>5, <1>6, <2>3
    <2>5. ASSUME NEW i \in 1 .. size, i > 1
          PROVE  t[i - 1] = s[i]
        <3>1. i - 1 \in 1 .. size /\ i - 1 + 1 = i
            BY <2>5
        <3>2. QED
            BY <1>4, <2>3, <3>1
    <2>6. ASSUME NEW k \in 1 .. size, k # size
          PROVE  t[k] = s[k + 1] /\ k + 1 \in 1 .. size
        <3>1. k + 1 \in 1 .. size
            BY <2>6
        <3>2. QED
            BY <1>4, <2>3, <3>1
    <2>7. Pushed(s, e, t, 1)
        <3>1. \A k \in 1 .. size : t[k] = e \/ \E i \in 1 .. size : t[k] = s[i]
            BY <2>4, <2>6
        <3>2. /\ Len(t) = size + 1 - 1
              /\ Len(t) = IF size < Capacity THEN size + 1 ELSE Capacity
            BY <1>2, <1>5, <1>6, <2>3
        <3>3. QED
            BY <1>2, <2>3, <2>4, <2>5, <3>1, <3>2 DEF Pushed
    <2>8. QED
        BY <1>1, <2>3, <2>7
<1>7. CASE size < Capacity
    <2>1. t = b
        BY <1>1, <1>2, <1>3, <1>4, <1>5, <1>7 DEF Written
    <2>2. Pushed(s, e, t, 0)
        BY <1>2, <1>4, <1>7, <2>1 DEF Pushed
    <2>3. QED
        BY <1>1, <2>1, <2>2
<1>8. QED
    BY <1>2, <1>5, <1>6, <1>7

-----------------------------------------------------------------------------
(* The fixture does not change, and what is said of its rows stands.         *)
LEMMA SameRows ==
    ASSUME rows' = rows, NEW n, pos' = n
    PROVE  /\ Events(pos)' = Events(n) /\ Rejected(pos)' = Rejected(n)
           /\ \A i : Events(i)' = Events(i) /\ Rejected(i)' = Rejected(i)
           /\ \A i : First(i)' <=> First(i)
    BY DEF Events, Rejected, First

LEMMA ClockFacts ==
    ASSUME Types, NEW ts \in Times
    PROVE  clock >= ts - ts
<1>1. ts \in Nat /\ clock \in Nat
    BY BacktestAssumption DEF Types, BacktestAssumption
<1>2. QED
    BY <1>1

LEMMA TimesFacts == Times \subseteq Nat /\ None \in Int /\ None \notin Times
<1>1. Times \subseteq Nat
    BY BacktestAssumption DEF BacktestAssumption
<1>2. QED
    BY <1>1 DEF None

(* The entry e of the ring is not early.                                     *)
InTime(e) == asap \/ \A i \in 1 .. e[1] : First(i) => e[2] >= rows[e[1]] - rows[i]

LEMMA NeverEarlyMeans == NeverEarly <=> \A k \in DOMAIN buffer : InTime(buffer[k])
    BY DEF NeverEarly, InTime, First

LEMMA StaysInTime ==
    ASSUME NeverEarly, UNCHANGED <<rows, asap, buffer>>
    PROVE  NeverEarly'
    BY DEF NeverEarly

(* No row is read: the accounts stand, and a sleep that begins ends in time. *)
LEMMA NoRowKeeps ==
    ASSUME IInv, UNCHANGED <<rows, asap, pos, prev, buffer, written, errorLog>>,
           clock' \in Nat, clock <= clock', wake' \in Nat,
           IF work' = "returned" THEN pos = Len(rows) /\ ingested' = written
                                 ELSE ingested' = 0,
           work' = "sleeping" =>
              /\ pos < Len(rows) /\ rows[pos + 1] \in Times
              /\ asap = FALSE =>
                    \A i \in 1 .. pos : First(i) => wake' >= rows[pos + 1] - rows[i]
    PROVE  IInv'
<1>1. Types /\ Paced /\ RowsAccounted /\ NeverEarly
    BY DEF IInv
<1>2. Types'
    BY <1>1 DEF Types
<1>3. /\ Events(pos)' = Events(pos) /\ Rejected(pos)' = Rejected(pos)
      /\ \A i : Events(i)' = Events(i) /\ Rejected(i)' = Rejected(i)
      /\ \A i : First(i)' <=> First(i)
    BY DEF Events, Rejected, First
<1>4. Paced'
    <2>1. asap = FALSE => \A i \in 1 .. pos : First(i) => clock' >= prev - rows[i]
        <3>1. ASSUME asap = FALSE, NEW i \in 1 .. pos, First(i)
              PROVE  clock' >= prev - rows[i]
            <4>1. clock >= prev - rows[i] /\ clock \in Nat
                BY <1>1, <3>1 DEF Paced, Types
            <4>2. rows[i] \in Nat /\ prev \in Int
                <5>1. rows[i] \in Times /\ (prev = None \/ prev \in Times)
                    BY <1>1, <3>1 DEF Paced, First
                <5>2. CASE prev = None
                    BY <5>1, <5>2, TimesFacts
                <5>3. CASE prev \in Times
                    <6>1. rows[i] \in Nat /\ prev \in Nat
                        BY <5>1, <5>3, TimesFacts
                    <6>2. QED
                        BY <6>1
                <5>4. QED
                    BY <5>1, <5>2, <5>3
            <4>3. QED
                BY <4>1, <4>2
        <3>2. QED
            BY <3>1
    <2>2. QED
        BY <1>1, <1>3, <2>1 DEF Paced
<1>5. RowsAccounted'
    BY <1>1, <1>3 DEF RowsAccounted, Line
<1>6. NeverEarly'
    BY <1>1, StaysInTime
<1>7. QED
    BY <1>2, <1>4, <1>5, <1>6 DEF IInv

(* A rejected row is one more line of the log.                               *)
LEMMA SkipBadKeeps == ASSUME IInv, SkipBad PROVE IInv'
<1>1. Types /\ Paced /\ RowsAccounted /\ NeverEarly
    BY DEF IInv
<1>2. PICK n \in Nat : n = pos /\ n + 1 \in 1 .. Len(rows)
    BY <1>1 DEF Types, SkipBad
<1>3. /\ rows[n + 1] = Bad /\ pos' = n + 1 /\ errorLog' = Append(errorLog, Line(n + 1))
      /\ work = "running" /\ work' = work
      /\ rows' = rows /\ asap' = asap /\ prev' = prev /\ wake' = wake /\ buffer' = buffer
      /\ written' = written /\ ingested' = ingested /\ clock' = clock
    BY <1>2 DEF SkipBad, fixture
<1>4. /\ Events(pos)' = Events(n + 1) /\ Rejected(pos)' = Rejected(n + 1)
      /\ \A i : Events(i)' = Events(i) /\ Rejected(i)' = Rejected(i)
      /\ \A i : First(i)' <=> First(i)
    BY <1>3, SameRows
<1>5. /\ Rejected(n + 1) = Rejected(n) \cup {n + 1} /\ Events(n + 1) = Events(n)
      /\ Cardinality(Rejected(n + 1)) = Cardinality(Rejected(n)) + 1
    BY <1>3, OneMoreRow, BacktestAssumption
<1>6. /\ errorLog \in Seq(Nat) /\ Len(errorLog) = Cardinality(Rejected(n))
      /\ \A i \in Rejected(n) : errorLog[Cardinality(Rejected(i))] = Line(i)
    BY <1>1, <1>2 DEF Types, RowsAccounted
<1>7. /\ errorLog' \in Seq(Nat) /\ Len(errorLog') = Len(errorLog) + 1
      /\ errorLog'[Len(errorLog) + 1] = Line(n + 1)
      /\ \A k \in 1 .. Len(errorLog) : errorLog'[k] = errorLog[k]
    <2>1. Line(n + 1) \in Nat
        BY DEF Line
    <2>2. QED
        BY <1>3, <1>6, <2>1
<1>8. Types'
    <2>1. pos' \in 0 .. Len(rows) /\ \A k \in DOMAIN buffer : buffer[k][1] \in 1 .. pos'
        <3>1. \A k \in DOMAIN buffer : buffer[k][1] \in 1 .. n
            BY <1>1, <1>2 DEF Types
        <3>2. 1 .. n \subseteq 1 .. n + 1 /\ n + 1 \in 0 .. Len(rows)
            BY <1>2
        <3>3. QED
            BY <1>3, <3>1, <3>2
    <2>2. QED
        BY <1>1, <1>3, <1>7, <2>1 DEF Types
<1>9. Paced'
    <2>1. ASSUME asap = FALSE, NEW i \in 1 .. n + 1, First(i)
          PROVE  clock >= prev - rows[i]
        <3>1. i # n + 1
            BY <1>3, <2>1, BacktestAssumption DEF First, BacktestAssumption
        <3>2. i \in 1 .. n
            BY <3>1
        <3>3. QED
            BY <1>1, <1>2, <2>1, <3>2 DEF Paced
    <2>2. prev = None <=> Events(pos)' = {}
        BY <1>1, <1>2, <1>4, <1>5 DEF Paced
    <2>3. QED
        BY <1>1, <1>3, <1>4, <2>1, <2>2 DEF Paced
<1>10. RowsAccounted'
    <2>1. ASSUME NEW i \in Rejected(n + 1)
          PROVE  errorLog'[Cardinality(Rejected(i))] = Line(i)
        <3>1. CASE i = n + 1
            BY <1>5, <1>6, <1>7, <3>1
        <3>2. CASE i \in Rejected(n)
            <4>1. i \in 1 .. n /\ i \in Rejected(i) /\ i \in Nat
                BY <3>2 DEF Rejected
            <4>2. /\ Cardinality(Rejected(i)) \in Nat
                  /\ Cardinality(Rejected(i)) <= Len(errorLog)
                BY <1>6, <4>1, RankFacts
            <4>3. Cardinality(Rejected(i)) # 0
                BY <4>1, RowSetsFinite, FS_EmptySet
            <4>4. QED
                BY <1>6, <1>7, <3>2, <4>2, <4>3
        <3>3. QED
            BY <1>5, <3>1, <3>2
    <2>2. /\ written' = Cardinality(Events(pos)')
          /\ Len(buffer') = IF written' < Capacity THEN written' ELSE Capacity
          /\ \A i \in Events(pos)' :
                Cardinality(Events(i)) > written - Len(buffer) =>
                    buffer[Cardinality(Events(i)) - (written - Len(buffer))][1] = i
        BY <1>1, <1>2, <1>3, <1>4, <1>5 DEF RowsAccounted
    <2>3. Len(errorLog') = Cardinality(Rejected(pos)')
        BY <1>4, <1>5, <1>6, <1>7
    <2>4. \A i \in Rejected(pos)' : errorLog'[Cardinality(Rejected(i)')] = Line(i)
        BY <1>4, <2>1
    <2>5. QED
        BY <1>3, <1>4, <2>2, <2>3, <2>4 DEF RowsAccounted, Line
<1>11. NeverEarly'
    BY <1>1, <1>3, StaysInTime
<1>12. QED
    BY <1>8, <1>9, <1>10, <1>11 DEF IInv

(* An event goes to the end of the ring, and is not early.                   *)
LEMMA WriteKeeps ==
    ASSUME IInv, WriteRow(pos + 1), pos < Len(rows), rows[pos + 1] \in Times,
           UNCHANGED <<rows, asap, clock>>, work # "returned",
           asap = FALSE =>
              \A i \in 1 .. pos : First(i) => clock >= rows[pos + 1] - rows[i]
    PROVE  IInv'
<1>1. Types /\ Paced /\ RowsAccounted /\ NeverEarly
    BY DEF IInv
<1>2. PICK n \in Nat : n = pos /\ n + 1 \in 1 .. Len(rows)
    BY <1>1 DEF Types
<1>3. PICK e \in Nat \X Nat : e = <<n + 1, clock>>
    <2>1. <<n + 1, clock>> \in Nat \X Nat
        BY <1>1 DEF Types
    <2>2. QED
        BY <2>1
<1>4. /\ rows[n + 1] \in Times /\ pos' = n + 1 /\ prev' = rows[n + 1]
      /\ work' \in {"yielding", "running"}
      /\ written' = written + 1 /\ wake' = wake /\ errorLog' = errorLog
      /\ ingested' = ingested
    BY <1>2 DEF WriteRow
<1>5. /\ Events(pos)' = Events(n + 1) /\ Rejected(pos)' = Rejected(n + 1)
      /\ \A i : Events(i)' = Events(i) /\ Rejected(i)' = Rejected(i)
      /\ \A i : First(i)' <=> First(i)
    BY <1>4, SameRows
<1>6. /\ Events(n + 1) = Events(n) \cup {n + 1} /\ Rejected(n + 1) = Rejected(n)
      /\ Cardinality(Events(n + 1)) = Cardinality(Events(n)) + 1
    BY <1>4, OneMoreRow, BacktestAssumption
<1>7. /\ written = Cardinality(Events(n)) /\ written \in Nat
      /\ Len(buffer) = IF written < Capacity THEN written ELSE Capacity
      /\ Capacity \in Nat \ {0}
    BY <1>1, <1>2, BacktestAssumption DEF Types, RowsAccounted, BacktestAssumption
<1>8. \A i \in Events(n) : Cardinality(Events(i)) > written - Len(buffer) =>
          buffer[Cardinality(Events(i)) - (written - Len(buffer))][1] = i
    BY <1>1, <1>2 DEF RowsAccounted
<1>9. PICK size \in Nat : size = Len(buffer) /\ size <= Capacity /\ size <= written
    BY <1>7
<1>10. buffer \in Seq(Nat \X Nat) /\ DOMAIN buffer = 1 .. size
    BY <1>1, <1>9 DEF Types
<1>11. /\ buffer' \in Seq(Nat \X Nat)
       /\ \E gone \in {0, 1} : Pushed(buffer, e, buffer', gone)
    <2>1. buffer' = Written(buffer, e)
        BY <1>2, <1>3 DEF WriteRow, Written
    <2>2. Len(buffer) <= Capacity
        BY <1>9
    <2>3. QED
        BY <1>10, <2>1, <2>2, RingPush
<1>12. PICK gone \in {0, 1} :
          /\ Len(buffer') = size + 1 - gone
          /\ Len(buffer') = IF size < Capacity THEN size + 1 ELSE Capacity
          /\ buffer'[Len(buffer')] = e
          /\ \A i \in 1 .. size : i > gone => buffer'[i - gone] = buffer[i]
          /\ \A k \in 1 .. Len(buffer') :
                buffer'[k] = e \/ \E i \in 1 .. size : buffer'[k] = buffer[i]
    BY <1>9, <1>11 DEF Pushed
<1>13. DOMAIN buffer' = 1 .. Len(buffer')
    BY <1>11
<1>14. Types'
    <2>1. \A k \in DOMAIN buffer' : buffer'[k][1] \in 1 .. n + 1
        <3>1. \A i \in 1 .. size : buffer[i][1] \in 1 .. n + 1
            <4>1. \A i \in 1 .. size : buffer[i][1] \in 1 .. n
                BY <1>1, <1>2, <1>10 DEF Types
            <4>2. 1 .. n \subseteq 1 .. n + 1
                OBVIOUS
            <4>3. QED
                BY <4>1, <4>2
        <3>2. e[1] \in 1 .. n + 1
            BY <1>3
        <3>3. QED
            BY <1>12, <1>13, <3>1, <3>2
    <2>2. n + 1 \in 0 .. Len(rows)
        BY <1>2
    <2>3. QED
        BY <1>1, <1>4, <1>11, <2>1, <2>2 DEF Types
<1>15. Paced'
    <2>1. ASSUME asap = FALSE, NEW i \in 1 .. n + 1, First(i)
          PROVE  clock >= rows[n + 1] - rows[i]
        <3>1. CASE i = n + 1
            BY <1>4, <3>1, <1>1, ClockFacts
        <3>2. CASE i \in 1 .. n
            BY <1>2, <2>1, <3>2
        <3>3. QED
            BY <3>1, <3>2
    <2>2. n + 1 \in Events(n + 1)
        BY <1>6
    <2>3. prev' # None
        BY <1>4, TimesFacts
    <2>4. QED
        BY <1>4, <1>5, <2>1, <2>2, <2>3 DEF Paced
<1>16. RowsAccounted'
    <2>1. PICK evicted \in Nat : evicted = written - size
        BY <1>7, <1>9
    <2>2. written' - Len(buffer') = evicted + gone
        <3>1. written' = written + 1 /\ Len(buffer') = size + 1 - gone /\ written \in Nat
            BY <1>4, <1>7, <1>12
        <3>2. QED
            BY <2>1, <3>1
    <2>3. ASSUME NEW i \in Events(n + 1), Cardinality(Events(i)) > evicted + gone
          PROVE  buffer'[Cardinality(Events(i)) - (evicted + gone)][1] = i
        <3>1. CASE i = n + 1
            <4>1. Cardinality(Events(i)) = written + 1
                BY <1>6, <1>7, <3>1
            <4>2. Cardinality(Events(i)) - (evicted + gone) = Len(buffer')
                <5>1. Len(buffer') = size + 1 - gone /\ written \in Nat
                    BY <1>7, <1>12
                <5>2. QED
                    BY <2>1, <4>1, <5>1
            <4>3. QED
                BY <1>3, <1>12, <3>1, <4>2
        <3>2. CASE i \in Events(n)
            <4>1. i \in 1 .. n
                BY <3>2 DEF Events
            <4>2. PICK rank \in Nat : rank = Cardinality(Events(i)) /\ rank <= written
                BY <1>7, <4>1, RankFacts
            <4>3. rank - evicted \in 1 .. size /\ rank - evicted > gone
                <5>1. rank > evicted + gone /\ written \in Nat
                    BY <1>7, <2>3, <4>2
                <5>2. QED
                    BY <2>1, <4>2, <5>1
            <4>4. buffer[rank - evicted][1] = i
                <5>1. evicted = written - Len(buffer) /\ rank > evicted
                    BY <1>9, <2>1, <4>3
                <5>2. QED
                    BY <1>8, <3>2, <4>2, <5>1
            <4>5. rank - evicted - gone = rank - (evicted + gone)
                OBVIOUS
            <4>6. buffer'[rank - evicted - gone] = buffer[rank - evicted]
                BY <1>12, <4>3
            <4>7. QED
                BY <4>2, <4>4, <4>5, <4>6
        <3>3. QED
            BY <1>6, <3>1, <3>2
    <2>4. /\ Len(errorLog') = Cardinality(Rejected(pos)')
          /\ \A i \in Rejected(pos)' : errorLog'[Cardinality(Rejected(i)')] = Line(i)
        BY <1>1, <1>2, <1>4, <1>5, <1>6 DEF RowsAccounted
    <2>5. written' = Cardinality(Events(pos)')
        BY <1>4, <1>5, <1>6, <1>7
    <2>6. Len(buffer') = IF written' < Capacity THEN written' ELSE Capacity
        BY <1>4, <1>7, <1>9, <1>12
    <2>7. \A i \in Events(pos)' :
             Cardinality(Events(i)') > written' - Len(buffer') =>
                 buffer'[Cardinality(Events(i)') - (written' - Len(buffer'))][1] = i
        BY <1>5, <2>2, <2>3
    <2>8. QED
        BY <1>4, <2>4, <2>5, <2>6, <2>7 DEF RowsAccounted, Line
<1>17. NeverEarly'
    <2>1. InTime(e)
        <3>1. ASSUME asap = FALSE, NEW i \in 1 .. n + 1, First(i)
              PROVE  clock >= rows[n + 1] - rows[i]
            <4>1. CASE i = n + 1
                BY <1>4, <4>1, <1>1, ClockFacts
            <4>2. CASE i \in 1 .. n
                BY <1>2, <3>1, <4>2
            <4>3. QED
                BY <4>1, <4>2
        <3>2. e[1] = n + 1 /\ e[2] = clock /\ asap \in BOOLEAN
            BY <1>1, <1>3 DEF Types
        <3>3. QED
            BY <3>1, <3>2 DEF InTime
    <2>2. \A k \in 1 .. size : InTime(buffer[k])
        BY <1>1, <1>10, NeverEarlyMeans
    <2>3. \A k \in DOMAIN buffer' : InTime(buffer'[k])
        BY <1>12, <1>13, <2>1, <2>2
    <2>4. \A k \in DOMAIN buffer' : asap \/ \A i \in 1 .. buffer'[k][1] :
             First(i) => buffer'[k][2] >= rows[buffer'[k][1]] - rows[i]
        BY <2>3 DEF InTime
    <2>5. QED
        BY <2>4 DEF NeverEarly, First
<1>18. QED
    BY <1>14, <1>15, <1>16, <1>17 DEF IInv

-----------------------------------------------------------------------------
LEMMA InitInv == Init => IInv
<1> SUFFICES ASSUME Init
             PROVE  IInv
    OBVIOUS
<1>1. /\ pos = 0 /\ work = "running" /\ prev = None /\ wake = 0 /\ written = 0
      /\ ingested = 0 /\ clock = 0 /\ asap \in BOOLEAN
    BY DEF Init
<1>2. rows \in Seq(Rows)
    <2>1. rows \in BoundedSeq(Rows, MaxRows) /\ MaxRows \in Nat
        BY BacktestAssumption DEF Init, Rows, BacktestAssumption
    <2>2. PICK m \in 0 .. MaxRows : rows \in [1 .. m -> Rows]
        BY <2>1 DEF BoundedSeq, SeqOf
    <2>3. m \in Nat
        BY <2>1
    <2>4. QED
        BY <2>2, <2>3
<1>3. buffer = << >> /\ errorLog = << >>
    BY DEF Init
<1>4. /\ buffer \in Seq(Nat \X Nat) /\ Len(buffer) = 0
      /\ errorLog \in Seq(Nat) /\ Len(errorLog) = 0
    BY <1>3
<1>5. Len(rows) \in Nat
    BY <1>2
<1>6. Types
    BY <1>1, <1>2, <1>4, <1>5 DEF Types
<1>7. Events(pos) = {} /\ Rejected(pos) = {}
    BY <1>1 DEF Events, Rejected
<1>8. Paced
    BY <1>1, <1>7 DEF Paced
<1>9. RowsAccounted
    <2>1. Cardinality({}) = 0 /\ Capacity \in Nat \ {0}
        BY FS_EmptySet, BacktestAssumption DEF BacktestAssumption
    <2>2. /\ written = Cardinality(Events(pos))
          /\ Len(buffer) = IF written < Capacity THEN written ELSE Capacity
          /\ Len(errorLog) = Cardinality(Rejected(pos))
        <3>1. Cardinality(Events(pos)) = 0 /\ Cardinality(Rejected(pos)) = 0
            BY <1>7, <2>1
        <3>2. 0 < Capacity
            BY <2>1
        <3>3. QED
            BY <1>1, <1>4, <3>1, <3>2
    <2>3. QED
        BY <1>1, <1>7, <2>2 DEF RowsAccounted
<1>10. NeverEarly
    BY <1>4 DEF NeverEarly
<1>11. QED
    BY <1>6, <1>8, <1>9, <1>10 DEF IInv

(* What a delay says of the clock.                                           *)
LEMMA PaceKeeps == ASSUME IInv, Pace PROVE IInv'
<1>1. Types /\ Paced /\ pos < Len(rows) /\ rows[pos + 1] \in Times
    BY DEF IInv, Pace
<1>2. prev # None /\ asap = FALSE /\ wake' = clock + (rows[pos + 1] - prev)
      /\ rows[pos + 1] - prev > 0
    BY <1>1 DEF Pace, Delay, Types
<1>3. prev \in Nat /\ rows[pos + 1] \in Nat /\ clock \in Nat
    BY <1>1, <1>2, TimesFacts DEF Paced, Types
<1>4. wake' \in Nat
    BY <1>2, <1>3
<1>5. ASSUME NEW i \in 1 .. pos, First(i)
      PROVE  wake' >= rows[pos + 1] - rows[i]
    <2>1. rows[i] \in Nat
        BY <1>5, TimesFacts DEF First
    <2>2. clock >= prev - rows[i]
        BY <1>1, <1>2, <1>5 DEF Paced
    <2>3. QED
        BY <1>2, <1>3, <2>1, <2>2
<1>6. /\ UNCHANGED <<rows, asap, pos, prev, buffer, written, errorLog>> /\ clock' = clock
      /\ work' = "sleeping" /\ ingested' = 0
    BY <1>1 DEF Pace, fixture, Types
<1>7. clock' \in Nat /\ clock <= clock'
    BY <1>3, <1>6
<1>8. /\ work' = "sleeping" =>
            /\ pos < Len(rows) /\ rows[pos + 1] \in Times
            /\ asap = FALSE =>
                  \A i \in 1 .. pos : First(i) => wake' >= rows[pos + 1] - rows[i]
      /\ IF work' = "returned" THEN pos = Len(rows) /\ ingested' = written
                               ELSE ingested' = 0
    BY <1>1, <1>5, <1>6
<1>9. QED
    BY <1>4, <1>6, <1>7, <1>8, NoRowKeeps

LEMMA WriteAtOnceKeeps == ASSUME IInv, WriteAtOnce PROVE IInv'
<1>1. /\ Types /\ Paced /\ pos < Len(rows) /\ rows[pos + 1] \in Times
      /\ work # "returned" /\ Delay(rows[pos + 1]) <= 0
    BY DEF IInv, WriteAtOnce
<1>2. WriteRow(pos + 1) /\ UNCHANGED <<rows, asap, clock>>
    BY DEF WriteAtOnce, fixture
<1>3. ASSUME asap = FALSE, NEW i \in 1 .. pos, First(i)
      PROVE  clock >= rows[pos + 1] - rows[i]
    <2>1. i \in Events(pos)
        BY <1>3 DEF First, Events
    <2>2. prev # None
        BY <1>1, <2>1 DEF Paced
    <2>3. rows[pos + 1] - prev <= 0
        BY <1>1, <1>3, <2>2 DEF Delay
    <2>4. clock >= prev - rows[i]
        BY <1>1, <1>3 DEF Paced
    <2>5. rows[i] \in Nat /\ prev \in Nat /\ rows[pos + 1] \in Nat /\ clock \in Nat
        BY <1>1, <1>3, <2>2, TimesFacts DEF First, Paced, Types
    <2>6. QED
        BY <2>3, <2>4, <2>5
<1>4. QED
    BY <1>1, <1>2, <1>3, WriteKeeps

LEMMA WakeAndWriteKeeps == ASSUME IInv, WakeAndWrite PROVE IInv'
<1>1. /\ Types /\ Paced /\ work = "sleeping" /\ clock = wake
      /\ WriteRow(pos + 1) /\ UNCHANGED <<rows, asap, clock>>
    BY DEF IInv, WakeAndWrite, fixture
<1>2. QED
    BY <1>1, WriteKeeps DEF Paced

LEMMA StepInv == IInv /\ [Next]_vars => IInv'
<1> SUFFICES ASSUME IInv, [Next]_vars
             PROVE  IInv'
    OBVIOUS
<1>1. /\ clock \in Nat /\ wake \in Nat /\ clock <= clock
      /\ work # "returned" => ingested = 0
      /\ work = "returned" => pos = Len(rows) /\ ingested = written
      /\ work = "sleeping" =>
            /\ pos < Len(rows) /\ rows[pos + 1] \in Times
            /\ asap = FALSE =>
                  \A i \in 1 .. pos : First(i) => wake >= rows[pos + 1] - rows[i]
    BY DEF IInv, Types, Paced, RowsAccounted
<1>2. CASE Reject \/ ReadBroken \/ Resume
    BY <1>1, <1>2, NoRowKeeps DEF Reject, ReadBroken, Resume, fixture, replay
<1>3. CASE SkipBad
    BY <1>3, SkipBadKeeps
<1>4. CASE WriteAtOnce
    BY <1>4, WriteAtOnceKeeps
<1>5. CASE Pace
    BY <1>5, PaceKeeps
<1>6. CASE WakeAndWrite
    BY <1>6, WakeAndWriteKeeps
<1>7. CASE Finish
    <2>1. ingested' = written
        BY <1>1, <1>7 DEF Finish, IInv, Types
    <2>2. QED
        BY <1>1, <1>7, <2>1, NoRowKeeps DEF Finish, fixture
<1>8. CASE Signal \/ Shutdown \/ Check \/ UNCHANGED vars
    BY <1>1, <1>8, NoRowKeeps DEF Signal, Shutdown, Check, vars, fixture, replay
<1>9. CASE CancelPending
    BY <1>1, <1>9, NoRowKeeps DEF CancelPending, fixture, replay, Ended
<1>10. CASE Tick
    <2>1. clock' = clock + 1 /\ clock' \in Nat /\ clock <= clock'
        BY <1>1, <1>10 DEF Tick
    <2>2. QED
        BY <1>1, <1>10, <2>1, NoRowKeeps DEF Tick, fixture, replay
<1>11. QED
    BY <1>2, <1>3, <1>4, <1>5, <1>6, <1>7, <1>8, <1>9, <1>10 DEF Next, Replay, Main

(* The accounts of the rows and of the clock, in every state of a backtest   *)
(* (csv_loader.py:92-121, 186-204).                                          *)
THEOREM BacktestInvariant == FairSpec => []IInv
    BY InitInv, StepInv, PTL DEF FairSpec

(* Every row read so far went to one place, in file order: the events to the *)
(* ring, which keeps the newest, the rejected rows to the error log under    *)
(* their line numbers (csv_loader.py:92-121, 186-204).                       *)
THEOREM EveryRowAccounted == FairSpec => []RowsAccounted
<1>1. IInv => RowsAccounted
    BY DEF IInv
<1>2. QED
    BY <1>1, BacktestInvariant, PTL

(* A paced replay writes no event earlier, after the first one, than its     *)
(* timestamp says (csv_loader.py:195-203).                                   *)
THEOREM NoEventEarly == FairSpec => []NeverEarly
<1>1. IInv => NeverEarly
    BY DEF IInv
<1>2. QED
    BY <1>1, BacktestInvariant, PTL
=============================================================================
