--------------------------- MODULE IngestionProofs ---------------------------
(***************************************************************************)
(* The two ends of the stream, each for itself.                            *)
(*                                                                         *)
(* The mock node for every set of clients, every chain, filter, size of    *)
(* the queues and number of requests: the order and completeness of the    *)
(* streams, and the drain.  An enqueue takes a run of messages out of the  *)
(* middle of what a client gets and puts new ones behind it, so an order   *)
(* that holds of every two messages survives; the new ones are in the      *)
(* replay's order (InTurn), are of later blocks than every earlier one     *)
(* (Known), and are for no subscription that was answered away (Known).    *)
(*                                                                         *)
(* run_realtime for every chain, log, capacity and number of messages:     *)
(* whatever the node sends, in whatever order, the ring buffer holds the   *)
(* newest events that the messages call for, the counters count them, and  *)
(* no log ends the ingestion.                                              *)
(***************************************************************************)
EXTENDS MockWss, RealtimePipeline, SequenceTheorems, FunctionTheorems, SetLemmas

Notice == [type : {"note"}, sub : 1 .. MaxRequests, block : 1 .. Len(Blocks), row : Nat]
Answer == [type : {"subscribed", "unsubscribed", "error"}, sub : 0 .. MaxRequests]
Message == Notice \cup Answer

Types ==
    /\ TypeOK
    /\ queue \in [Client -> Seq(Message)] /\ sent \in [Client -> Seq(Message)]
    /\ replay \in [pc : {"waiting", "sleeping", "done"}, next : 1 .. Len(Blocks) + 1]

(* Where the replay is before its first and after its last block, and that   *)
(* it is over when the drain begins.                                         *)
ReplayOK ==
    /\ replay.pc = "waiting" => replay.next = 1
    /\ replay.pc = "sleeping" => replay.next <= Len(Blocks)
    /\ server # "serving" => replay.pc = "done"

(* The subscriptions of a client: told apart by their ids, which are among   *)
(* the requests made, and not older than the replay.                         *)
SubsOK(c) ==
    /\ IsFiniteSet(subs[c])
    /\ \A s \in subs[c] : s.id <= requests /\ s.since <= replay.next
    /\ \A s, t \in subs[c] : s.id = t.id => s = t

(* Nothing a client gets is ahead of the requests or of the replay, and what *)
(* is answered away is gone.                                                 *)
Known(c) ==
    \A i \in DOMAIN Out(c) :
        LET m == Out(c)[i]
        IN  /\ m.sub <= requests
            /\ IsNote(m) => m.block < replay.next
            /\ m.type = "unsubscribed" => \A s \in subs[c] : s.id # m.sub

Unconnected(c) == conn[c] = "new" => queue[c] = << >> /\ subs[c] = {}

(* Two messages of a stream in the right order.                              *)
InLine(m, n) ==
    /\ IsNote(m) /\ IsNote(n) => Earlier(m, n)
    /\ m.sub = n.sub /\ m.sub # 0 =>
           /\ n.type # "subscribed"
           /\ IsNote(n) => m.type # "unsubscribed"
AllInLine(s) == \A i, j \in DOMAIN s : i < j => InLine(s[i], s[j])

Got(s, id) == {<<s[i].block, s[i].row>> : i \in {k \in DOMAIN s : IsNote(s[k]) /\ s[k].sub = id}}
Owed(s, B) == {<<x.block, x.row>> : x \in {y \in ItemsOf(B) : Matches(s, y)}}
Complete(c) ==
    conn[c] = "open" /\ drops[c] = 0 =>
        \A s \in subs[c] : Got(Out(c), s.id) = Owed(s, s.since .. replay.next - 1)

(* A client the drain is done with, or that came after it began.             *)
Drained(c) ==
    server = "draining" /\ ~timedOut /\ c \notin toDrain /\ conn[c] = "open" =>
        \A i \in DOMAIN queue[c] : ~IsNote(queue[c][i])

StreamOK(c) == /\ SubsOK(c) /\ Known(c) /\ Unconnected(c)
               /\ AllInLine(Out(c)) /\ Complete(c)
ClientOK(c) == StreamOK(c) /\ Drained(c)

IInv == Types /\ ReplayOK /\ \A c \in Client : ClientOK(c)

-----------------------------------------------------------------------------
(* The replay's order on notices, and the turn of each in a set of them.     *)
LEMMA NoticeFields ==
    ASSUME NEW m \in Notice
    PROVE  /\ m.type = "note" /\ m.sub \in Nat /\ m.sub \in 1 .. MaxRequests
           /\ m.block \in Nat /\ m.block \in 1 .. Len(Blocks) /\ m.row \in Nat
           /\ IsNote(m) /\ m \in Message
BY BoundsAssumption, BlocksAssumption DEF Notice, Message, IsNote

LEMMA NoticeEqual ==
    ASSUME NEW m \in Notice, NEW n \in Notice, m.sub = n.sub, m.block = n.block, m.row = n.row
    PROVE  m = n
BY DEF Notice

LEMMA EarlierIsTotal ==
    ASSUME NEW m \in Notice, NEW n \in Notice
    PROVE  /\ m = n \/ Earlier(m, n) \/ Earlier(n, m)
           /\ ~(Earlier(m, n) /\ Earlier(n, m)) /\ ~Earlier(m, m)
<1>1. /\ m.sub \in Nat /\ m.block \in Nat /\ m.row \in Nat
      /\ n.sub \in Nat /\ n.block \in Nat /\ n.row \in Nat
    BY NoticeFields
<1>2. m = n \/ m.sub # n.sub \/ m.block # n.block \/ m.row # n.row
    BY NoticeEqual
<1> QED BY <1>1, <1>2 DEF Earlier

LEMMA EarlierIsTransitive ==
    ASSUME NEW m \in Notice, NEW n \in Notice, NEW o \in Notice, Earlier(m, n), Earlier(n, o)
    PROVE  Earlier(m, o)
<1>1. /\ m.sub \in Nat /\ m.block \in Nat /\ m.row \in Nat
      /\ n.sub \in Nat /\ n.block \in Nat /\ n.row \in Nat
      /\ o.sub \in Nat /\ o.block \in Nat /\ o.row \in Nat
    BY NoticeFields
<1> QED BY <1>1 DEF Earlier

LEMMA PlaceGrows ==
    ASSUME NEW S \in SUBSET Notice, IsFiniteSet(S), NEW m \in S
    PROVE  /\ Place(m, S) \in 1 .. Cardinality(S)
           /\ \A n \in S : Earlier(m, n) => Place(m, S) < Place(n, S)
<1> DEFINE before(x) == {n \in S : n = x \/ Earlier(n, x)}
<1>1. \A x \in S : IsFiniteSet(before(x)) /\ Cardinality(before(x)) \in Nat
                     /\ Cardinality(before(x)) <= Cardinality(S)
    <2> SUFFICES ASSUME NEW x \in S
                 PROVE  /\ IsFiniteSet(before(x)) /\ Cardinality(before(x)) \in Nat
                        /\ Cardinality(before(x)) <= Cardinality(S)
        OBVIOUS
    <2>1. before(x) \in SUBSET S
        OBVIOUS
    <2> HIDE DEF before
    <2> QED BY <2>1, FS_Subset, FS_CardinalityType
<1>2. Cardinality(before(m)) >= 1
    <2>1. m \in before(m)
        OBVIOUS
    <2>2. Cardinality(before(m)) # 0
        <3> HIDE DEF before
        <3> QED BY <1>1, <2>1, FS_EmptySet
    <2> HIDE DEF before
    <2> QED BY <1>1, <2>2
<1>3. ASSUME NEW n \in S, Earlier(m, n)
      PROVE  Cardinality(before(m)) < Cardinality(before(n))
    <2>1. before(m) \in SUBSET before(n)
        <3> SUFFICES ASSUME NEW o \in S, o = m \/ Earlier(o, m) PROVE Earlier(o, n)
            OBVIOUS
        <3> QED BY <1>3, EarlierIsTransitive
    <2>2. n \in before(n) /\ n \notin before(m)
        BY <1>3, EarlierIsTotal
    <2>3. before(m) # before(n)
        BY <2>2
    <2> HIDE DEF before
    <2>4. /\ Cardinality(before(m)) <= Cardinality(before(n))
          /\ Cardinality(before(n)) = Cardinality(before(m)) => before(n) = before(m)
        BY <1>1, <2>1, FS_Subset
    <2> QED BY <1>1, <2>3, <2>4
<1>4. Cardinality(S) \in Nat
    BY FS_CardinalityType
<1>5. \A x \in S : Place(x, S) = Cardinality(before(x))
    BY DEF Place
<1> HIDE DEF before
<1> QED BY <1>1, <1>2, <1>3, <1>4, <1>5

(* Every place is taken.                                                     *)
LEMMA PlaceTaken ==
    ASSUME NEW S \in SUBSET Notice, IsFiniteSet(S), NEW k \in 1 .. Cardinality(S)
    PROVE  \E m \in S : Place(m, S) = k
<1> DEFINE n == Cardinality(S)
          f == [m \in S |-> Place(m, S)]
<1>1. n \in Nat
    BY FS_CardinalityType
<1>2. f \in [S -> 1 .. n]
    BY PlaceGrows
<1>3. \A a, b \in S : f[a] = f[b] => a = b
    <2> SUFFICES ASSUME NEW a \in S, NEW b \in S, Place(a, S) = Place(b, S) PROVE a = b
        OBVIOUS
    <2>1. Place(a, S) \in Int /\ Place(b, S) \in Int
        BY <1>1, PlaceGrows
    <2>2. ~Earlier(a, b) /\ ~Earlier(b, a)
        BY <2>1, PlaceGrows
    <2> QED BY <2>2, EarlierIsTotal
<1>4. IsFiniteSet(1 .. n) /\ Cardinality(1 .. n) = n
    BY <1>1, FS_Interval
<1> HIDE DEF f
<1>5. f \in Injection(S, 1 .. n)
    BY <1>2, <1>3, Fun_IsInj
<1>6. f \in Surjection(S, 1 .. n)
    BY <1>4, <1>5, FS_Injection
<1>7. \A t \in 1 .. n : \E m \in S : f[m] = t
    BY <1>6 DEF Surjection
<1>8. PICK m \in S : f[m] = k
    BY <1>7
<1> QED BY <1>8 DEF f

LEMMA InTurnFacts ==
    ASSUME NEW S \in SUBSET Notice, IsFiniteSet(S)
    PROVE  /\ InTurn(S) \in Seq(S) /\ InTurn(S) \in Seq(Message)
           /\ \A i, j \in DOMAIN InTurn(S) : i < j => Earlier(InTurn(S)[i], InTurn(S)[j])
           /\ \A m \in S : \E i \in DOMAIN InTurn(S) : InTurn(S)[i] = m
<1> DEFINE n == Cardinality(S)
          s == InTurn(S)
<1>1. n \in Nat
    BY FS_CardinalityType
<1>2. s = [k \in 1 .. n |-> CHOOSE m \in S : Place(m, S) = k]
    BY DEF InTurn
<1>3. \A k \in 1 .. n : s[k] \in S /\ Place(s[k], S) = k
    BY <1>2, PlaceTaken
<1>4. DOMAIN s = 1 .. n
    BY <1>2
<1> HIDE DEF s
<1>5. s \in Seq(S)
    <2>1. s \in [1 .. n -> S]
        <3> DEFINE g == [k \in 1 .. n |-> CHOOSE m \in S : Place(m, S) = k]
        <3>1. \A k \in 1 .. n : g[k] \in S
            BY <1>2, <1>3
        <3>2. g \in [1 .. n -> S]
            BY <3>1
        <3> QED BY <1>2, <3>2
    <2> QED BY <1>1, <2>1
<1>6. \A i, j \in DOMAIN s : i < j => Earlier(s[i], s[j])
    <2> SUFFICES ASSUME NEW i \in 1 .. n, NEW j \in 1 .. n, i < j PROVE Earlier(s[i], s[j])
        BY <1>4
    <2>1. s[i] \in S /\ s[j] \in S /\ Place(s[i], S) = i /\ Place(s[j], S) = j
        BY <1>3
    <2>2. i \in Int /\ j \in Int
        OBVIOUS
    <2>3. s[i] # s[j]
        BY <2>1, <2>2
    <2>4. ~Earlier(s[j], s[i])
        <3>1. Earlier(s[j], s[i]) => Place(s[j], S) < Place(s[i], S)
            BY <2>1, PlaceGrows
        <3> QED BY <2>1, <2>2, <3>1
    <2>5. s[i] \in Notice /\ s[j] \in Notice
        BY <2>1
    <2> QED BY <2>3, <2>4, <2>5, EarlierIsTotal
<1>7. ASSUME NEW m \in S PROVE \E i \in DOMAIN s : s[i] = m
    <2> DEFINE k == Place(m, S)
    <2>1. k \in 1 .. n
        BY PlaceGrows
    <2>2. s[k] \in S /\ Place(s[k], S) = k /\ k \in Int
        BY <1>3, <2>1
    <2>3. ~Earlier(s[k], m) /\ ~Earlier(m, s[k])
        BY <2>2, PlaceGrows
    <2>4. s[k] = m
        BY <2>2, <2>3, EarlierIsTotal
    <2> QED BY <1>4, <2>1, <2>4
<1>8. s \in Seq(Message)
    <2>1. S \subseteq Message
        BY DEF Message
    <2> QED BY <1>5, <2>1, SeqMonotonic
<1> QED BY <1>5, <1>6, <1>7, <1>8 DEF s

-----------------------------------------------------------------------------
(* The items of some blocks, and the notices of them that a client gets.     *)
LEMMA BlockFacts ==
    ASSUME NEW b \in 1 .. Len(Blocks)
    PROVE  /\ Blocks[b].rows \in Seq([address : Address, ok : BOOLEAN])
           /\ Rendered(b) \subseteq Nat /\ IsFiniteSet(Rendered(b))
<1>1. Blocks[b] \in [delay : BOOLEAN, header : BOOLEAN,
                     rows : Seq([address : Address, ok : BOOLEAN])]
    BY BlocksAssumption, ElementOfSeq
<1>2. Blocks[b].rows \in Seq([address : Address, ok : BOOLEAN])
    BY <1>1
<1>3. Len(Blocks[b].rows) \in Nat /\ DOMAIN Blocks[b].rows = 1 .. Len(Blocks[b].rows)
    BY <1>2, LenProperties
<1>4. Rendered(b) \in SUBSET (0 .. Len(Blocks[b].rows))
    BY <1>3 DEF Rendered
<1>5. IsFiniteSet(0 .. Len(Blocks[b].rows))
    <2>1. \A n \in Nat : IsFiniteSet(0 .. n)
        BY FS_Interval
    <2> QED BY <1>3, <2>1
<1>6. IsFiniteSet(Rendered(b))
    BY <1>4, <1>5, FS_Subset
<1> QED BY <1>2, <1>3, <1>4, <1>6

LEMMA ItemsMeans ==
    ASSUME NEW B, NEW x
    PROVE  x \in ItemsOf(B) <=> \E b \in B : \E r \in Rendered(b) : x = [block |-> b, row |-> r]
BY DEF ItemsOf

LEMMA ItemFacts ==
    ASSUME NEW B \in SUBSET (1 .. Len(Blocks))
    PROVE  /\ IsFiniteSet(ItemsOf(B))
           /\ \A x \in ItemsOf(B) : x.block \in B /\ x.block \in 1 .. Len(Blocks) /\ x.row \in Nat
<1>1. \A x \in ItemsOf(B) : x.block \in B /\ x.block \in 1 .. Len(Blocks) /\ x.row \in Nat
    <2> SUFFICES ASSUME NEW x \in ItemsOf(B)
                 PROVE  x.block \in B /\ x.row \in Nat
        OBVIOUS
    <2>1. PICK b \in B : \E r \in Rendered(b) : x = [block |-> b, row |-> r]
        BY ItemsMeans
    <2>2. b \in 1 .. Len(Blocks)
        OBVIOUS
    <2>3. Rendered(b) \subseteq Nat
        BY <2>2, BlockFacts
    <2> QED BY <2>1, <2>3
<1>2. IsFiniteSet(ItemsOf(B))
    <2> DEFINE of(b) == {[block |-> b, row |-> r] : r \in Rendered(b)}
              F == {of(b) : b \in B}
    <2>1. ASSUME NEW b \in B PROVE IsFiniteSet(of(b))
        <3> DEFINE g == [r \in Rendered(b) |-> [block |-> b, row |-> r]]
        <3>1. g \in [Rendered(b) -> of(b)] /\ \A t \in of(b) : \E r \in Rendered(b) : g[r] = t
            OBVIOUS
        <3>2. IsFiniteSet(Rendered(b))
            BY BlockFacts
        <3> HIDE DEF g, of
        <3>3. g \in Surjection(Rendered(b), of(b))
            BY <3>1, Fun_IsSurj
        <3> QED BY <3>2, <3>3, FS_Surjection
    <2>2. IsFiniteSet(B)
        <3>1. IsFiniteSet(1 .. Len(Blocks))
            BY BlocksAssumption, LenProperties, FS_Interval
        <3> QED BY <3>1, FS_Subset
    <2>3. IsFiniteSet(F)
        <3> DEFINE h == [b \in B |-> of(b)]
        <3>1. h \in [B -> F] /\ \A t \in F : \E b \in B : h[b] = t
            OBVIOUS
        <3> HIDE DEF h, F, of
        <3>2. h \in Surjection(B, F)
            BY <3>1, Fun_IsSurj
        <3> QED BY <2>2, <3>2, FS_Surjection
    <2>4. \A T \in F : IsFiniteSet(T)
        BY <2>1
    <2>5. ItemsOf(B) = UNION F
        BY DEF ItemsOf
    <2> HIDE DEF F
    <2> QED BY <2>3, <2>4, <2>5, FS_UNION
<1> QED BY <1>1, <1>2

LEMMA ItemsUnion ==
    ASSUME NEW B, NEW C
    PROVE  ItemsOf(B \cup C) = ItemsOf(B) \cup ItemsOf(C)
<1>1. \A x : x \in ItemsOf(B \cup C) <=> x \in ItemsOf(B) \/ x \in ItemsOf(C)
    BY ItemsMeans
<1> QED BY <1>1

Due(c, B) == UNION {NotesFor(s, ItemsOf(B)) : s \in subs[c]}

LEMMA DueMeans ==
    ASSUME NEW c, NEW B, NEW m
    PROVE  m \in Due(c, B) <=>
             \E s \in subs[c] : \E x \in ItemsOf(B) : Matches(s, x) /\ m = Note(s.id, x)
BY DEF Due, NotesFor

LEMMA SubTypes ==
    ASSUME Types, NEW c \in Client, NEW s \in subs[c]
    PROVE  /\ s \in Subscription /\ s.id \in 1 .. MaxRequests /\ s.since \in 1 .. Len(Blocks) + 1
           /\ s.id \in Nat /\ s.since \in Nat
<1>1. s \in Subscription
    BY DEF Types, TypeOK
<1>2. Len(Blocks) \in Nat
    BY BlocksAssumption
<1> QED BY <1>1, <1>2, BoundsAssumption DEF Subscription

LEMMA DueFacts ==
    ASSUME Types, NEW c \in Client, SubsOK(c), NEW B \in SUBSET (1 .. Len(Blocks))
    PROVE  /\ Due(c, B) \in SUBSET Notice /\ IsFiniteSet(Due(c, B))
           /\ \A m \in Due(c, B) : m.block \in B /\ \E s \in subs[c] : m.sub = s.id
<1> DEFINE F == {NotesFor(s, ItemsOf(B)) : s \in subs[c]}
<1>1. ASSUME NEW m \in Due(c, B)
      PROVE  m \in Notice /\ m.block \in B /\ \E s \in subs[c] : m.sub = s.id
    <2>1. PICK s \in subs[c] : \E x \in ItemsOf(B) : Matches(s, x) /\ m = Note(s.id, x)
        BY DueMeans
    <2>2. PICK x \in ItemsOf(B) : m = Note(s.id, x)
        BY <2>1
    <2>3. s.id \in 1 .. MaxRequests
        BY SubTypes
    <2>4. x.block \in B /\ x.block \in 1 .. Len(Blocks) /\ x.row \in Nat
        BY ItemFacts
    <2> QED BY <2>2, <2>3, <2>4 DEF Note, Notice
<1>2. ASSUME NEW s \in subs[c] PROVE IsFiniteSet(NotesFor(s, ItemsOf(B)))
    <2> DEFINE X == {y \in ItemsOf(B) : Matches(s, y)}
              g == [x \in X |-> Note(s.id, x)]
              T == {Note(s.id, x) : x \in X}
    <2>1. g \in [X -> T] /\ \A t \in T : \E x \in X : g[x] = t
        OBVIOUS
    <2>2. IsFiniteSet(X)
        <3>1. X \in SUBSET ItemsOf(B)
            OBVIOUS
        <3> HIDE DEF X
        <3> QED BY <3>1, ItemFacts, FS_Subset
    <2>3. NotesFor(s, ItemsOf(B)) = T
        BY DEF NotesFor
    <2> HIDE DEF g, T, X
    <2>4. g \in Surjection(X, T)
        BY <2>1, Fun_IsSurj
    <2> QED BY <2>2, <2>3, <2>4, FS_Surjection
<1>3. IsFiniteSet(F)
    <2> DEFINE h == [s \in subs[c] |-> NotesFor(s, ItemsOf(B))]
    <2>1. h \in [subs[c] -> F] /\ \A t \in F : \E s \in subs[c] : h[s] = t
        OBVIOUS
    <2>2. IsFiniteSet(subs[c])
        BY DEF SubsOK
    <2> HIDE DEF h, F
    <2>3. h \in Surjection(subs[c], F)
        BY <2>1, Fun_IsSurj
    <2> QED BY <2>2, <2>3, FS_Surjection
<1>4. \A T \in F : IsFiniteSet(T)
    BY <1>2
<1>5. Due(c, B) = UNION F
    BY DEF Due
<1>6. IsFiniteSet(Due(c, B))
    <2> HIDE DEF F
    <2> QED BY <1>3, <1>4, <1>5, FS_UNION
<1> QED BY <1>1, <1>6

(* What a burst makes for a client: in line, of the burst's blocks, for its  *)
(* subscriptions, and for each of them all that it is owed.                  *)
LEMMA NotesFacts ==
    ASSUME Types, NEW c \in Client, SubsOK(c), NEW B \in SUBSET (1 .. Len(Blocks))
    PROVE  /\ Notes(c, ItemsOf(B)) \in Seq(Message)
           /\ \A i \in DOMAIN Notes(c, ItemsOf(B)) :
                 LET m == Notes(c, ItemsOf(B))[i]
                 IN  m \in Notice /\ m.block \in B /\ \E s \in subs[c] : m.sub = s.id
           /\ AllInLine(Notes(c, ItemsOf(B)))
           /\ \A s \in subs[c] : Got(Notes(c, ItemsOf(B)), s.id) = Owed(s, B)
<1> DEFINE S == Due(c, B)
          q == Notes(c, ItemsOf(B))
<1>0. q = InTurn(S)
    BY DEF Notes, Due
<1>1. S \in SUBSET Notice /\ IsFiniteSet(S)
      /\ \A m \in S : m.block \in B /\ \E s \in subs[c] : m.sub = s.id
    BY DueFacts
<1> HIDE DEF S, q
<1>2. /\ q \in Seq(S) /\ q \in Seq(Message)
      /\ \A i, j \in DOMAIN q : i < j => Earlier(q[i], q[j])
      /\ \A m \in S : \E i \in DOMAIN q : q[i] = m
    BY <1>0, <1>1, InTurnFacts
<1>3. \A i \in DOMAIN q : q[i] \in S
    BY <1>2, ElementOfSeq, LenProperties
<1>4. \A i \in DOMAIN q :
         q[i] \in Notice /\ q[i].block \in B /\ \E s \in subs[c] : q[i].sub = s.id
    BY <1>1, <1>3
<1>5. AllInLine(q)
    <2> SUFFICES ASSUME NEW i \in DOMAIN q, NEW j \in DOMAIN q, i < j
                 PROVE  InLine(q[i], q[j])
        BY DEF AllInLine
    <2>1. Earlier(q[i], q[j])
        BY <1>2
    <2>2. q[i].type = "note" /\ q[j].type = "note" /\ q[i].sub \in Nat /\ q[j].sub \in Nat
        BY <1>4, NoticeFields
    <2> QED BY <2>1, <2>2 DEF InLine
<1>6. ASSUME NEW s \in subs[c] PROVE Got(q, s.id) = Owed(s, B)
    <2>1. ASSUME NEW p \in Got(q, s.id) PROVE p \in Owed(s, B)
        <3>1. PICK i \in DOMAIN q : q[i].sub = s.id /\ p = <<q[i].block, q[i].row>>
            BY <2>1 DEF Got
        <3>2. PICK t \in subs[c] : \E x \in ItemsOf(B) : Matches(t, x) /\ q[i] = Note(t.id, x)
            BY <1>3, DueMeans DEF S
        <3>3. PICK x \in ItemsOf(B) : Matches(t, x) /\ q[i] = Note(t.id, x)
            BY <3>2
        <3>4. t = s
            BY <3>1, <3>3 DEF SubsOK, Note
        <3> QED BY <3>1, <3>3, <3>4 DEF Owed, Note
    <2>2. ASSUME NEW p \in Owed(s, B) PROVE p \in Got(q, s.id)
        <3>1. PICK x \in ItemsOf(B) : Matches(s, x) /\ p = <<x.block, x.row>>
            BY <2>2 DEF Owed
        <3>2. Note(s.id, x) \in S
            BY <3>1, DueMeans DEF S
        <3>3. PICK i \in DOMAIN q : q[i] = Note(s.id, x)
            BY <1>2, <3>2
        <3> QED BY <3>1, <3>3 DEF Got, Note, IsNote
    <2> QED BY <2>1, <2>2
<1> QED BY <1>2, <1>4, <1>5, <1>6 DEF q

-----------------------------------------------------------------------------
(* A burst ends at a block of the chain, not before it began: with the last  *)
(* block, under a stop, or at the first positive delay.                      *)
LEMMA BurstEndFacts ==
    ASSUME NEW b \in 1 .. Len(Blocks)
    PROVE  BurstEnd(b) \in b .. Len(Blocks)
<1> DEFINE ends(e) == e = Len(Blocks) \/ nodeStop \/ Blocks[e + 1].delay
           T == {e \in b .. Len(Blocks) : ends(e)}
<1>1. PICK n \in Nat : n = Len(Blocks)
    BY BlocksAssumption
<1>2. T \in SUBSET Nat /\ n \in T
    BY <1>1
<1>3. PICK e \in T : \A y \in T : e <= y
    BY <1>2, LeastOf
<1>4. e \in b .. Len(Blocks) /\ ends(e)
    BY <1>3
<1>5. ASSUME NEW x \in b .. e - 1 PROVE ~nodeStop /\ ~Blocks[x + 1].delay
    <2>1. x \in b .. Len(Blocks) /\ ~(e <= x)
        BY <1>1, <1>4
    <2>2. x \notin T
        BY <1>3, <2>1
    <2> QED BY <2>1, <2>2
<1> QED BY <1>4, <1>5 DEF BurstEnd

LEMMA LastBlockOf ==
    ASSUME NEW X, X # {}, \A x \in X : x.block \in 1 .. Len(Blocks)
    PROVE  Max({x.block : x \in X}) \in 1 .. Len(Blocks)
<1> DEFINE T == {x.block : x \in X}
           U == {Len(Blocks) - y : y \in T}
<1>1. PICK n \in Nat : n = Len(Blocks)
    BY BlocksAssumption
<1>2. T \in SUBSET (1 .. n) /\ T # {}
    BY <1>1
<1> HIDE DEF T
<1>3. U \in SUBSET Nat /\ U # {}
    <2>1. \A y \in T : Len(Blocks) - y \in Nat
        <3>1. \A y \in T : y \in 1 .. n
            BY <1>2
        <3> QED BY <1>1, <3>1
    <2> QED BY <1>2, <2>1
<1>4. PICK u \in U : \A v \in U : u <= v
    BY <1>3, LeastOf
<1>5. PICK t \in T : u = Len(Blocks) - t
    BY <1>4
<1>6. ASSUME NEW y \in T PROVE y <= t
    <2>1. Len(Blocks) - y \in U
        OBVIOUS
    <2>2. Len(Blocks) - t <= Len(Blocks) - y
        BY <1>4, <1>5, <2>1
    <2>3. y \in Int /\ t \in Int
        BY <1>2
    <2> QED BY <1>1, <2>2, <2>3
<1>7. \E z \in T : \A y \in T : z >= y
    <2>1. \A y \in T : y \in Int
        BY <1>2
    <2> QED BY <1>6, <2>1
<1>8. Max(T) \in T
    BY <1>7 DEF Max
<1> QED BY <1>1, <1>2, <1>8 DEF T

-----------------------------------------------------------------------------
(* What a client gets after a put is what it got and the new messages, less  *)
(* the ones evicted: all in the same order.                                  *)
Thins(w, v) ==
    \E f \in [DOMAIN w -> DOMAIN v] :
        /\ \A i \in DOMAIN w : w[i] = v[f[i]]
        /\ \A i, j \in DOMAIN w : i < j => f[i] < f[j]

LEMMA ThinInLine ==
    ASSUME NEW w, NEW v, Thins(w, v), AllInLine(v)
    PROVE  AllInLine(w)
BY DEF Thins, AllInLine

LEMMA ThinMember ==
    ASSUME NEW w, NEW v, Thins(w, v), NEW i \in DOMAIN w
    PROVE  \E k \in DOMAIN v : w[i] = v[k]
BY DEF Thins

LEMMA JoinAt ==
    ASSUME NEW o \in Seq(Message), NEW m \in Seq(Message)
    PROVE  /\ o \o m \in Seq(Message) /\ Len(o \o m) = Len(o) + Len(m)
           /\ DOMAIN (o \o m) = 1 .. Len(o) + Len(m)
           /\ DOMAIN o = 1 .. Len(o) /\ DOMAIN m = 1 .. Len(m)
           /\ Len(o) \in Nat /\ Len(m) \in Nat
           /\ \A k \in 1 .. Len(o) : (o \o m)[k] = o[k]
           /\ \A k \in 1 .. Len(m) : (o \o m)[Len(o) + k] = m[k]
           /\ \A k \in DOMAIN (o \o m) :
                 k \in DOMAIN o \/ (k > Len(o) /\ k - Len(o) \in DOMAIN m)
<1>1. o \o m \in Seq(Message) /\ Len(o \o m) = Len(o) + Len(m)
    BY ConcatProperties
<1>2. Len(o) \in Nat /\ Len(m) \in Nat
      /\ DOMAIN o = 1 .. Len(o) /\ DOMAIN m = 1 .. Len(m)
      /\ DOMAIN (o \o m) = 1 .. Len(o \o m)
    BY <1>1, LenProperties
<1>3. \A k \in 1 .. Len(o) + Len(m) :
         (o \o m)[k] = IF k <= Len(o) THEN o[k] ELSE m[k - Len(o)]
    BY ConcatProperties
<1>4. \A k \in 1 .. Len(o) : k \in 1 .. Len(o) + Len(m) /\ k <= Len(o)
    BY <1>2
<1>5. \A k \in 1 .. Len(m) : /\ Len(o) + k \in 1 .. Len(o) + Len(m)
                             /\ ~(Len(o) + k <= Len(o)) /\ Len(o) + k - Len(o) = k
    BY <1>2
<1>6. \A k \in 1 .. Len(o) + Len(m) :
         k \in 1 .. Len(o) \/ (k > Len(o) /\ k - Len(o) \in 1 .. Len(m))
    BY <1>2
<1>7. \A k \in 1 .. Len(m) : (o \o m)[Len(o) + k] = m[k]
    BY <1>3, <1>5
<1>8. \A k \in 1 .. Len(o) : (o \o m)[k] = o[k]
    BY <1>3, <1>4
<1> HIDE <1>3, <1>4, <1>5
<1> QED BY <1>1, <1>2, <1>6, <1>7, <1>8

(* New messages keep the line if each is in line with all that went before.  *)
LEMMA JoinInLine ==
    ASSUME NEW o \in Seq(Message), NEW m \in Seq(Message), AllInLine(o), AllInLine(m),
           \A i \in DOMAIN o : \A j \in DOMAIN m : InLine(o[i], m[j])
    PROVE  AllInLine(o \o m)
<1> SUFFICES ASSUME NEW i \in DOMAIN (o \o m), NEW j \in DOMAIN (o \o m), i < j
             PROVE  InLine((o \o m)[i], (o \o m)[j])
    BY DEF AllInLine
<1> DEFINE v == o \o m
<1>1. /\ DOMAIN v = 1 .. Len(o) + Len(m) /\ Len(o) \in Nat /\ Len(m) \in Nat
      /\ \A k \in DOMAIN o : v[k] = o[k]
      /\ \A k \in DOMAIN m : v[Len(o) + k] = m[k]
      /\ \A k \in DOMAIN v : k \in DOMAIN o \/ (k > Len(o) /\ k - Len(o) \in DOMAIN m)
      /\ DOMAIN o = 1 .. Len(o) /\ DOMAIN m = 1 .. Len(m)
    BY JoinAt
<1> HIDE DEF v
<1>2. i \in DOMAIN v /\ j \in DOMAIN v /\ i \in Int /\ j \in Int
    BY <1>1 DEF v
<1>3. CASE j \in DOMAIN o
    <2>1. i \in DOMAIN o
        BY <1>1, <1>2, <1>3
    <2> QED BY <1>1, <1>3, <2>1 DEF AllInLine, v
<1>4. CASE j > Len(o) /\ j - Len(o) \in DOMAIN m
    <2>1. v[j] = m[j - Len(o)]
        <3>1. Len(o) + (j - Len(o)) = j
            BY <1>1, <1>2
        <3> QED BY <1>1, <1>4, <3>1
    <2>2. CASE i \in DOMAIN o
        <3>1. v[i] = o[i]
            BY <1>1, <2>2
        <3> QED BY <1>4, <2>1, <2>2, <3>1 DEF v
    <2>3. CASE i > Len(o) /\ i - Len(o) \in DOMAIN m
        <3>1. v[i] = m[i - Len(o)]
            <4>1. Len(o) + (i - Len(o)) = i
                BY <1>1, <1>2
            <4> QED BY <1>1, <2>3, <4>1
        <3>2. i - Len(o) < j - Len(o)
            BY <1>1, <1>2
        <3>3. InLine(m[i - Len(o)], m[j - Len(o)])
            BY <1>4, <2>3, <3>2 DEF AllInLine
        <3> QED BY <2>1, <3>1, <3>3 DEF v
    <2> QED BY <1>1, <1>2, <2>2, <2>3
<1> QED BY <1>1, <1>2, <1>3, <1>4

LEMMA GotJoin ==
    ASSUME NEW o \in Seq(Message), NEW m \in Seq(Message), NEW id
    PROVE  Got(o \o m, id) = Got(o, id) \cup Got(m, id)
<1> DEFINE v == o \o m
           is(s, k, p) == IsNote(s[k]) /\ s[k].sub = id /\ p = <<s[k].block, s[k].row>>
<1>1. /\ DOMAIN v = 1 .. Len(o) + Len(m) /\ Len(o) \in Nat /\ Len(m) \in Nat
      /\ \A k \in DOMAIN o : v[k] = o[k]
      /\ \A k \in DOMAIN m : v[Len(o) + k] = m[k]
      /\ \A k \in DOMAIN v : k \in DOMAIN o \/ (k > Len(o) /\ k - Len(o) \in DOMAIN m)
      /\ DOMAIN o = 1 .. Len(o) /\ DOMAIN m = 1 .. Len(m)
    BY JoinAt
<1>2. \A p : /\ p \in Got(v, id) <=> \E k \in DOMAIN v : is(v, k, p)
             /\ p \in Got(o, id) <=> \E k \in DOMAIN o : is(o, k, p)
             /\ p \in Got(m, id) <=> \E k \in DOMAIN m : is(m, k, p)
    BY DEF Got
<1> HIDE DEF v
<1>3. ASSUME NEW p, NEW k \in DOMAIN o, is(o, k, p) PROVE p \in Got(v, id)
    <2>1. k \in DOMAIN v /\ v[k] = o[k]
        BY <1>1
    <2> QED BY <1>2, <1>3, <2>1
<1>4. ASSUME NEW p, NEW k \in DOMAIN m, is(m, k, p) PROVE p \in Got(v, id)
    <2>1. Len(o) + k \in DOMAIN v /\ v[Len(o) + k] = m[k]
        BY <1>1
    <2> QED BY <1>2, <1>4, <2>1
<1>5. ASSUME NEW p, NEW k \in DOMAIN v, is(v, k, p)
      PROVE  p \in Got(o, id) \/ p \in Got(m, id)
    <2>1. CASE k \in DOMAIN o
        BY <1>1, <1>2, <1>5, <2>1
    <2>2. CASE k > Len(o) /\ k - Len(o) \in DOMAIN m
        <3>1. Len(o) + (k - Len(o)) = k
            BY <1>1
        <3>2. v[k] = m[k - Len(o)]
            BY <1>1, <2>2, <3>1
        <3> QED BY <1>2, <1>5, <2>2, <3>2
    <2> QED BY <1>1, <2>1, <2>2
<1>6. \A p : p \in Got(v, id) <=> p \in Got(o, id) \/ p \in Got(m, id)
    BY <1>2, <1>3, <1>4, <1>5
<1> QED BY <1>6 DEF v

(* _Client.enqueue.                                                          *)
LEMMA CutAt ==
    ASSUME NEW v \in Seq(Message), NEW over \in Nat, over <= Len(v)
    PROVE  /\ SubSeq(v, over + 1, Len(v)) \in Seq(Message)
           /\ Len(SubSeq(v, over + 1, Len(v))) = Len(v) - over
           /\ DOMAIN SubSeq(v, over + 1, Len(v)) = 1 .. Len(v) - over
           /\ \A k \in 1 .. Len(v) - over : /\ SubSeq(v, over + 1, Len(v))[k] = v[over + k]
                                            /\ over + k \in DOMAIN v
<1> DEFINE w == SubSeq(v, over + 1, Len(v))
<1>1. PICK n \in Nat : n = Len(v) /\ DOMAIN v = 1 .. n
    BY LenProperties
<1>2. \A k \in over + 1 .. n : k \in 1 .. n
    BY <1>1
<1>3. \A k \in over + 1 .. Len(v) : v[k] \in Message
    BY <1>1, <1>2, ElementOfSeq
<1>4. over + 1 \in Int /\ Len(v) \in Int
    BY <1>1
<1>5. /\ w \in Seq(Message)
      /\ Len(w) = IF over + 1 <= Len(v) THEN Len(v) - (over + 1) + 1 ELSE 0
      /\ \A k \in 1 .. Len(v) - (over + 1) + 1 : w[k] = v[over + 1 + k - 1]
    BY <1>3, <1>4, SubSeqProperties
<1> HIDE DEF w
<1>6. Len(w) = Len(v) - over /\ Len(v) - (over + 1) + 1 = Len(v) - over
    BY <1>1, <1>5
<1>7. \A k \in 1 .. Len(v) - over : over + 1 + k - 1 = over + k /\ over + k \in 1 .. n
    BY <1>1
<1>8. DOMAIN w = 1 .. Len(w)
    BY <1>5, LenProperties
<1>9. \A k \in 1 .. Len(v) - over : w[k] = v[over + k]
    BY <1>5, <1>6, <1>7
<1> QED BY <1>1, <1>5, <1>6, <1>7, <1>8, <1>9 DEF w

LEMMA Regroup ==
    ASSUME NEW s \in Seq(Message), NEW t \in Seq(Message), NEW u \in Seq(Message)
    PROVE  (s \o t) \o u = s \o (t \o u)
BY ConcatAssociative

LEMMA EnqueueFacts ==
    ASSUME Types, NEW c \in Client, NEW m \in Seq(Message)
    PROVE  /\ Enqueue(c, m).queue \in Seq(Message)
           /\ Len(Enqueue(c, m).queue) <= MaxQueue
           /\ Enqueue(c, m).drops \in Nat
           /\ Enqueue(c, m).drops = 0 =>
                 drops[c] = 0 /\ sent[c] \o Enqueue(c, m).queue = Out(c) \o m
           /\ Thins(sent[c] \o Enqueue(c, m).queue, Out(c) \o m)
<1> DEFINE all == queue[c] \o m
           over == IF Len(all) > MaxQueue THEN Len(all) - MaxQueue ELSE 0
           w == SubSeq(all, over + 1, Len(all))
           s == sent[c]
           v == Out(c) \o m
<1>0. Enqueue(c, m) = [queue |-> w, drops |-> drops[c] + over]
    BY DEF Enqueue
<1>1. /\ s \in Seq(Message) /\ queue[c] \in Seq(Message)
      /\ drops[c] \in Nat /\ MaxQueue \in Nat
    BY BoundsAssumption DEF Types, TypeOK
<1>2. all \in Seq(Message) /\ Out(c) \in Seq(Message)
    BY <1>1, JoinAt DEF Out
<1>3. v = s \o all
    <2>1. Out(c) = s \o queue[c]
        BY DEF Out
    <2>2. (s \o queue[c]) \o m = s \o (queue[c] \o m)
        BY <1>1, Regroup, Zenon
    <2> QED BY <2>1, <2>2, Zenon
<1>4. Len(all) \in Nat /\ over \in Nat /\ over <= Len(all) /\ Len(all) - over <= MaxQueue
    <2>1. Len(all) \in Nat
        BY <1>2, LenProperties
    <2> HIDE DEF all
    <2> QED BY <1>1, <2>1
<1> HIDE DEF all, over, v
<1>5. /\ w \in Seq(Message) /\ Len(w) = Len(all) - over
      /\ DOMAIN w = 1 .. Len(all) - over
      /\ \A k \in 1 .. Len(all) - over : w[k] = all[over + k] /\ over + k \in DOMAIN all
    BY <1>2, <1>4, CutAt
<1>6. drops[c] + over = 0 => drops[c] = 0 /\ w = all
    <2>1. SubSeq(all, 1, Len(all)) = all
        BY <1>2, SubSeqFull
    <2>2. drops[c] + over = 0 => drops[c] = 0 /\ over = 0
        BY <1>1, <1>4
    <2> QED BY <2>1, <2>2
<1> HIDE DEF w
<1>7. Thins(s \o w, v)
    <2> DEFINE o == s \o w
               f == [i \in DOMAIN o |-> IF i \in DOMAIN s THEN i ELSE i + over]
    <2>1. /\ DOMAIN o = 1 .. Len(s) + Len(w) /\ DOMAIN s = 1 .. Len(s)
          /\ Len(s) \in Nat /\ Len(w) \in Nat
          /\ \A k \in DOMAIN s : o[k] = s[k]
          /\ \A k \in DOMAIN w : o[Len(s) + k] = w[k]
          /\ \A k \in DOMAIN o : k \in DOMAIN s \/ (k > Len(s) /\ k - Len(s) \in DOMAIN w)
        <3>1. s \in Seq(Message) /\ w \in Seq(Message)
            BY <1>1, <1>5
        <3> HIDE DEF s
        <3> QED BY <3>1, JoinAt
    <2>2. /\ DOMAIN v = 1 .. Len(s) + Len(all) /\ DOMAIN all = 1 .. Len(all)
          /\ \A k \in DOMAIN s : v[k] = s[k]
          /\ \A k \in DOMAIN all : v[Len(s) + k] = all[k]
        <3> HIDE DEF s
        <3>1. s \in Seq(Message)
            BY <1>1 DEF s
        <3> QED BY <1>2, <1>3, <3>1, JoinAt
    <2> HIDE DEF o
    <2>3. ASSUME NEW i \in DOMAIN o
          PROVE  f[i] \in DOMAIN v /\ o[i] = v[f[i]]
        <3>1. CASE i \in DOMAIN s
            BY <1>4, <2>1, <2>2, <3>1
        <3>2. CASE i > Len(s) /\ i - Len(s) \in DOMAIN w
            <4>1. PICK k \in DOMAIN w : i = Len(s) + k /\ k \in Int
                <5>1. i = Len(s) + (i - Len(s))
                    BY <2>1
                <5>2. i - Len(s) \in Int
                    BY <2>1
                <5> QED BY <3>2, <5>1, <5>2
            <4>2. o[i] = all[over + k] /\ over + k \in DOMAIN all
                BY <1>5, <2>1, <4>1
            <4>3. v[Len(s) + (over + k)] = all[over + k]
                BY <2>2, <4>2
            <4>4. f[i] = Len(s) + (over + k)
                <5>1. i \notin DOMAIN s
                    BY <2>1, <3>2
                <5>2. i + over = Len(s) + (over + k)
                    BY <1>4, <2>1, <4>1
                <5> QED BY <5>1, <5>2
            <4>5. Len(s) + (over + k) \in 1 .. Len(s) + Len(all)
                <5>1. over + k \in 1 .. Len(all)
                    BY <4>2, <2>2, Zenon
                <5>2. Len(s) \in Nat /\ Len(all) \in Nat
                    BY <1>4, <2>1
                <5> QED BY <5>1, <5>2
            <4> QED BY <2>2, <4>2, <4>3, <4>4, <4>5
        <3> QED BY <2>1, <3>1, <3>2
    <2>4. ASSUME NEW i \in DOMAIN o, NEW j \in DOMAIN o, i < j PROVE f[i] < f[j]
        BY <1>4, <2>1, <2>4
    <2>5. f \in [DOMAIN o -> DOMAIN v]
        BY <2>3
    <2> HIDE DEF f
    <2> QED BY <2>3, <2>4, <2>5 DEF Thins, o
<1>8. Len(w) <= MaxQueue
    BY <1>4, <1>5
<1>9. drops[c] + over \in Nat
    BY <1>1, <1>4
<1>10. Enqueue(c, m).queue = w /\ Enqueue(c, m).drops = drops[c] + over
    BY <1>0
<1>11. drops[c] + over = 0 => drops[c] = 0 /\ s \o w = v
    BY <1>3, <1>6, Zenon
<1> QED BY <1>5, <1>7, <1>8, <1>9, <1>10, <1>11, Zenon DEF v

LEMMA OutIs ==
    ASSUME Types, NEW c \in Client
    PROVE  /\ sent[c] \in Seq(Message) /\ queue[c] \in Seq(Message) /\ Out(c) \in Seq(Message)
           /\ drops[c] \in Nat /\ requests \in Nat /\ replay.next \in Nat
           /\ replay.next \in 1 .. Len(Blocks) + 1 /\ Len(Blocks) \in Nat
<1>1. sent[c] \in Seq(Message) /\ queue[c] \in Seq(Message)
    BY DEF Types
<1>2. Out(c) \in Seq(Message)
    BY <1>1, JoinAt DEF Out
<1>3. /\ drops[c] \in Nat /\ requests \in 0 .. MaxRequests
      /\ replay.next \in 1 .. Len(Blocks) + 1
    BY DEF Types, TypeOK
<1>4. Len(Blocks) \in Nat /\ MaxRequests \in Nat
    BY BlocksAssumption, BoundsAssumption
<1>5. requests \in Nat /\ replay.next \in Nat
    BY <1>3, <1>4
<1> QED BY <1>1, <1>2, <1>3, <1>4, <1>5

LEMMA PutKeeps ==
    ASSUME Types, NEW c \in Client, AllInLine(Out(c)), NEW m \in Seq(Message), AllInLine(m),
           \A i \in DOMAIN Out(c) : \A j \in DOMAIN m : InLine(Out(c)[i], m[j])
    PROVE  LET w == sent[c] \o Enqueue(c, m).queue
           IN  /\ AllInLine(w)
               /\ \A i \in DOMAIN w : \/ \E k \in DOMAIN Out(c) : w[i] = Out(c)[k]
                                      \/ \E k \in DOMAIN m : w[i] = m[k]
               /\ Enqueue(c, m).drops = 0 =>
                     /\ drops[c] = 0
                     /\ \A id : Got(w, id) = Got(Out(c), id) \cup Got(m, id)
<1> DEFINE w == sent[c] \o Enqueue(c, m).queue
           v == Out(c) \o m
<1>1. /\ Enqueue(c, m).drops = 0 => drops[c] = 0 /\ w = v
      /\ Thins(w, v)
    BY EnqueueFacts
<1>2. Out(c) \in Seq(Message)
    BY OutIs
<1>3. AllInLine(v)
    BY <1>2, JoinInLine
<1>4. \A id : Got(v, id) = Got(Out(c), id) \cup Got(m, id)
    BY <1>2, GotJoin
<1>5. \A k \in DOMAIN v : \/ \E i \in DOMAIN Out(c) : v[k] = Out(c)[i]
                          \/ \E i \in DOMAIN m : v[k] = m[i]
    <2> DEFINE o == Out(c)
    <2>1. /\ DOMAIN v = 1 .. Len(o) + Len(m) /\ Len(o) \in Nat /\ Len(m) \in Nat
          /\ \A k \in DOMAIN o : v[k] = o[k]
          /\ \A k \in DOMAIN m : v[Len(o) + k] = m[k]
          /\ \A k \in DOMAIN v : k \in DOMAIN o \/ (k > Len(o) /\ k - Len(o) \in DOMAIN m)
          /\ DOMAIN o = 1 .. Len(o) /\ DOMAIN m = 1 .. Len(m)
        <3> HIDE DEF o
        <3> QED BY <1>2, JoinAt DEF o
    <2> HIDE DEF o, v
    <2>2. ASSUME NEW k \in DOMAIN v
          PROVE  (\E i \in DOMAIN o : v[k] = o[i]) \/ (\E i \in DOMAIN m : v[k] = m[i])
        <3>1. CASE k \in DOMAIN o
            BY <2>1, <3>1
        <3>2. CASE k > Len(o) /\ k - Len(o) \in DOMAIN m
            <4>1. Len(o) + (k - Len(o)) = k
                BY <2>1
            <4> QED BY <2>1, <3>2, <4>1
        <3> QED BY <2>1, <3>1, <3>2
    <2> QED BY <2>2 DEF o
<1> HIDE DEF w, v
<1>6. AllInLine(w)
    BY <1>1, <1>3, ThinInLine
<1>7. \A i \in DOMAIN w : \E k \in DOMAIN v : w[i] = v[k]
    BY <1>1, ThinMember
<1>8. \A i \in DOMAIN w : \/ \E k \in DOMAIN Out(c) : w[i] = Out(c)[k]
                          \/ \E k \in DOMAIN m : w[i] = m[k]
    BY <1>5, <1>7
<1>9. Enqueue(c, m).drops = 0 =>
         drops[c] = 0 /\ \A id : Got(w, id) = Got(Out(c), id) \cup Got(m, id)
    BY <1>1, <1>4
<1> QED BY <1>6, <1>8, <1>9 DEF w

LEMMA QueueMembers ==
    ASSUME Types, NEW c \in Client, NEW m \in Seq(Message),
           NEW i \in DOMAIN Enqueue(c, m).queue
    PROVE  \/ \E k \in DOMAIN queue[c] : Enqueue(c, m).queue[i] = queue[c][k]
           \/ \E k \in DOMAIN m : Enqueue(c, m).queue[i] = m[k]
<1> DEFINE q == queue[c]
           all == q \o m
           over == IF Len(all) > MaxQueue THEN Len(all) - MaxQueue ELSE 0
           w == SubSeq(all, over + 1, Len(all))
<1>0. Enqueue(c, m).queue = w
    BY DEF Enqueue
<1>1. q \in Seq(Message) /\ MaxQueue \in Nat
    BY OutIs, BoundsAssumption
<1> HIDE DEF q
<1>2. /\ all \in Seq(Message) /\ DOMAIN all = 1 .. Len(q) + Len(m)
      /\ Len(q) \in Nat /\ Len(m) \in Nat /\ Len(all) = Len(q) + Len(m)
      /\ \A k \in DOMAIN q : all[k] = q[k]
      /\ \A k \in DOMAIN m : all[Len(q) + k] = m[k]
      /\ \A k \in DOMAIN all : k \in DOMAIN q \/ (k > Len(q) /\ k - Len(q) \in DOMAIN m)
    BY <1>1, JoinAt
<1> HIDE DEF all
<1>3. over \in Nat /\ over <= Len(all)
    BY <1>1, <1>2
<1> HIDE DEF over
<1>4. /\ DOMAIN w = 1 .. Len(all) - over
      /\ \A k \in 1 .. Len(all) - over : w[k] = all[over + k] /\ over + k \in DOMAIN all
    BY <1>2, <1>3, CutAt
<1> HIDE DEF w
<1>5. i \in DOMAIN w
    BY <1>0
<1>6. PICK k \in DOMAIN all : w[i] = all[k]
    BY <1>4, <1>5
<1>7. CASE k \in DOMAIN q
    BY <1>0, <1>2, <1>6, <1>7 DEF q
<1>8. CASE k > Len(q) /\ k - Len(q) \in DOMAIN m
    <2>1. Len(q) + (k - Len(q)) = k
        BY <1>2
    <2>2. w[i] = m[k - Len(q)]
        BY <1>2, <1>6, <1>8, <2>1
    <2> QED BY <1>0, <1>8, <2>2
<1> QED BY <1>2, <1>7, <1>8

-----------------------------------------------------------------------------
(* A step that leaves a client its messages and subscriptions.               *)
LEMMA Untouched ==
    ASSUME Types, NEW c \in Client, StreamOK(c),
           subs'[c] = subs[c], Out(c)' = Out(c), drops'[c] = drops[c],
           conn'[c] = "new" => conn[c] = "new" /\ queue'[c] = queue[c],
           conn'[c] = "open" => conn[c] = "open" \/ conn[c] = "new",
           requests' \in Nat, requests <= requests', replay'.next = replay.next
    PROVE  StreamOK(c)'
<1>1. requests \in Nat /\ Out(c) \in Seq(Message)
    BY OutIs
<1>2. \A s \in subs[c] : s.id \in Nat
    BY SubTypes
<1>3. \A i \in DOMAIN Out(c) : Out(c)[i].sub \in Nat
    <2> SUFFICES ASSUME NEW i \in DOMAIN Out(c) PROVE Out(c)[i].sub \in Nat
        OBVIOUS
    <2>1. Out(c)[i] \in Message
        BY <1>1, ElementOfSeq, LenProperties
    <2>2. Out(c)[i].sub \in 0 .. MaxRequests
        BY <2>1, BoundsAssumption DEF Message, Notice, Answer
    <2> QED BY <2>2, BoundsAssumption
<1>4. SubsOK(c)'
    BY <1>1, <1>2 DEF StreamOK, SubsOK
<1>5. Known(c)'
    <2> SUFFICES ASSUME NEW i \in DOMAIN Out(c)
                 PROVE  /\ Out(c)[i].sub <= requests'
                        /\ IsNote(Out(c)[i]) => Out(c)[i].block < replay'.next
                        /\ Out(c)[i].type = "unsubscribed" =>
                              \A s \in subs'[c] : s.id # Out(c)[i].sub
        BY DEF Known, IsNote
    <2>1. /\ Out(c)[i].sub <= requests
          /\ IsNote(Out(c)[i]) => Out(c)[i].block < replay.next
          /\ Out(c)[i].type = "unsubscribed" => \A s \in subs[c] : s.id # Out(c)[i].sub
        BY DEF StreamOK, Known
    <2>2. Out(c)[i].sub \in Nat
        BY <1>3
    <2>3. Out(c)[i].sub <= requests'
        BY <1>1, <2>1, <2>2
    <2> QED BY <2>1, <2>3
<1>6. Unconnected(c)'
    BY DEF StreamOK, Unconnected
<1>7. AllInLine(Out(c))'
    BY DEF StreamOK, AllInLine, InLine, IsNote, Earlier
<1>8. Complete(c)'
    <2> SUFFICES ASSUME conn'[c] = "open", drops'[c] = 0, NEW s \in subs'[c]
                 PROVE  Got(Out(c)', s.id) = Owed(s, s.since .. replay'.next - 1)
        BY DEF Complete, Got, Owed, IsNote, ItemsOf, Matches, Rendered
    <2>1. conn[c] = "open"
        BY DEF StreamOK, Unconnected
    <2> QED BY <2>1 DEF StreamOK, Complete
<1> QED BY <1>4, <1>5, <1>6, <1>7, <1>8 DEF StreamOK

(* A put of the messages m to a client, which makes its subscriptions T and  *)
(* the requests and the replay n and next: nothing is ahead of those, and    *)
(* each new message is in line with every earlier one.                       *)
LEMMA PutTo ==
    ASSUME Types, NEW c \in Client, StreamOK(c), NEW m \in Seq(Message), AllInLine(m),
           \A i \in DOMAIN Out(c) : \A j \in DOMAIN m : InLine(Out(c)[i], m[j]),
           sent'[c] = sent[c], queue'[c] = Enqueue(c, m).queue,
           drops'[c] = Enqueue(c, m).drops,
           conn'[c] = conn[c], conn[c] # "new",
           requests' \in Nat, requests <= requests',
           replay'.next \in Nat, replay.next <= replay'.next,
           SubsOK(c)',
           \A i \in DOMAIN Out(c) : Out(c)[i].type = "unsubscribed" =>
              \A s \in subs'[c] : s.id # Out(c)[i].sub,
           \A j \in DOMAIN m :
              /\ m[j].sub <= requests'
              /\ IsNote(m[j]) => m[j].block < replay'.next
              /\ m[j].type = "unsubscribed" => \A s \in subs'[c] : s.id # m[j].sub,
           conn[c] = "open" /\ drops[c] = 0 =>
              \A s \in subs'[c] : Got(Out(c), s.id) \cup Got(m, s.id)
                                    = Owed(s, s.since .. replay'.next - 1)
    PROVE  StreamOK(c)'
<1> DEFINE w == sent[c] \o Enqueue(c, m).queue
<1>1. AllInLine(Out(c)) /\ Known(c)
    BY DEF StreamOK
<1>2. /\ AllInLine(w)
      /\ \A i \in DOMAIN w : \/ \E k \in DOMAIN Out(c) : w[i] = Out(c)[k]
                             \/ \E k \in DOMAIN m : w[i] = m[k]
      /\ Enqueue(c, m).drops = 0 =>
            drops[c] = 0 /\ \A id : Got(w, id) = Got(Out(c), id) \cup Got(m, id)
    BY <1>1, PutKeeps
<1>3. Out(c)' = w
    BY DEF Out
<1> HIDE DEF w
<1>4. requests \in Nat /\ replay.next \in Nat /\ Out(c) \in Seq(Message)
    BY OutIs
<1>5. ASSUME NEW k \in DOMAIN Out(c)
      PROVE  /\ Out(c)[k].sub <= requests'
             /\ IsNote(Out(c)[k]) => Out(c)[k].block < replay'.next
    <2>1. /\ Out(c)[k].sub <= requests
          /\ IsNote(Out(c)[k]) => Out(c)[k].block < replay.next
        BY <1>1 DEF Known
    <2>2. Out(c)[k] \in Message
        BY <1>4, ElementOfSeq, LenProperties
    <2>3. Out(c)[k].sub \in 0 .. MaxRequests
        BY <2>2, BoundsAssumption DEF Message, Notice, Answer
    <2>4. Out(c)[k].sub \in Nat
        BY <2>3, BoundsAssumption
    <2>5. IsNote(Out(c)[k]) => Out(c)[k].block \in Nat
        <3>1. Out(c)[k].type = "note" => Out(c)[k] \in Notice
            BY <2>2 DEF Message, Answer
        <3> QED BY <3>1, NoticeFields DEF IsNote
    <2> QED BY <1>4, <2>1, <2>4, <2>5
<1>6. Known(c)'
    <2> SUFFICES ASSUME NEW i \in DOMAIN w
                 PROVE  /\ w[i].sub <= requests'
                        /\ IsNote(w[i]) => w[i].block < replay'.next
                        /\ w[i].type = "unsubscribed" => \A s \in subs'[c] : s.id # w[i].sub
        BY <1>3 DEF Known, IsNote
    <2>1. CASE \E k \in DOMAIN Out(c) : w[i] = Out(c)[k]
        BY <1>5, <2>1
    <2>2. CASE \E k \in DOMAIN m : w[i] = m[k]
        BY <2>2
    <2> QED BY <1>2, <2>1, <2>2
<1>7. Unconnected(c)'
    BY DEF Unconnected
<1>8. AllInLine(Out(c))'
    BY <1>2, <1>3 DEF AllInLine, InLine, IsNote, Earlier
<1>9. Complete(c)'
    <2> SUFFICES ASSUME conn'[c] = "open", drops'[c] = 0, NEW s \in subs'[c]
                 PROVE  Got(w, s.id) = Owed(s, s.since .. replay'.next - 1)
        BY <1>3 DEF Complete, Got, Owed, IsNote, ItemsOf, Matches, Rendered
    <2>1. drops[c] = 0 /\ Got(w, s.id) = Got(Out(c), s.id) \cup Got(m, s.id)
        BY <1>2
    <2> QED BY <2>1
<1> QED BY <1>6, <1>7, <1>8, <1>9 DEF StreamOK

(* _reply: an answer, for the id it names.                                   *)
LEMMA AnswerTo ==
    ASSUME IInv, NEW c \in Client, Request(c), NEW a \in Answer, PutReply(c, a),
           NEW T \in SUBSET Subscription, subs' = [subs EXCEPT ![c] = T], IsFiniteSet(T),
           \A s \in T : s \in subs[c] \/ (s.id = requests + 1 /\ s.since = replay.next),
           \A s, t \in T : s.id = requests + 1 /\ t.id = requests + 1 => s = t,
           a.sub <= requests + 1, a.type = "subscribed" => a.sub = requests + 1,
           a.type = "unsubscribed" => \A s \in T : s.id # a.sub
    PROVE  IInv'
<1> DEFINE m == <<a>>
<1>1. Types /\ ReplayOK /\ \A d \in Client : StreamOK(d) /\ Drained(d)
    BY DEF IInv, ClientOK
<1>2. /\ conn[c] = "open" /\ requests < MaxRequests /\ requests' = requests + 1
      /\ UNCHANGED <<conn, sending, sent, currentBlock, eventsSent, droppedTotal, nodeStop, replay,
                     server, toDrain, timedOut>>
    BY DEF Request, stateVars, stopVars
<1>3. /\ queue' = [queue EXCEPT ![c] = Enqueue(c, m).queue]
      /\ drops' = [drops EXCEPT ![c] = Enqueue(c, m).drops]
    BY DEF PutReply
<1>4. m \in Seq(Message) /\ Len(m) = 1 /\ DOMAIN m = {1} /\ m[1] = a
    BY DEF Message
<1>5. /\ Enqueue(c, m).queue \in Seq(Message) /\ Len(Enqueue(c, m).queue) <= MaxQueue
      /\ Enqueue(c, m).drops \in Nat
    BY <1>1, <1>4, EnqueueFacts
<1>6. requests \in Nat /\ requests' \in Nat /\ replay.next \in Nat /\ MaxRequests \in Nat
    BY <1>1, <1>2, OutIs, BoundsAssumption
<1>7. Types'
    <2>1. TypeOK'
        <3>1. subs' \in [Client -> SUBSET Subscription] /\ drops' \in [Client -> Nat]
            BY <1>1, <1>3, <1>5 DEF Types, TypeOK
        <3>2. \A d \in Client : Len(queue'[d]) <= MaxQueue
            <4> SUFFICES ASSUME NEW d \in Client PROVE Len(queue'[d]) <= MaxQueue
                OBVIOUS
            <4>1. CASE d = c
                BY <1>1, <1>3, <1>5, <4>1 DEF Types, TypeOK
            <4>2. CASE d # c
                <5>1. queue'[d] = queue[d]
                    BY <1>1, <1>3, <4>2 DEF Types
                <5> QED BY <1>1, <5>1 DEF Types, TypeOK
            <4> QED BY <4>1, <4>2
        <3>3. requests' \in 0 .. MaxRequests
            BY <1>2, <1>6
        <3> QED BY <1>1, <1>2, <3>1, <3>2, <3>3 DEF Types, TypeOK
    <2>2. queue' \in [Client -> Seq(Message)]
        BY <1>1, <1>3, <1>5 DEF Types
    <2> QED BY <1>1, <1>2, <2>1, <2>2 DEF Types
<1>8. ReplayOK'
    BY <1>1, <1>2 DEF ReplayOK
<1>9. ASSUME NEW d \in Client, d # c PROVE StreamOK(d)'
    <2>1. /\ subs'[d] = subs[d] /\ queue'[d] = queue[d] /\ sent'[d] = sent[d]
          /\ drops'[d] = drops[d] /\ conn'[d] = conn[d] /\ replay' = replay
        BY <1>1, <1>2, <1>3, <1>9 DEF Types, TypeOK
    <2>2. Out(d)' = Out(d)
        BY <2>1 DEF Out
    <2>3. requests <= requests'
        BY <1>2, <1>6
    <2>4. StreamOK(d)
        BY <1>1
    <2> QED BY <1>1, <1>6, <2>1, <2>2, <2>3, <2>4, Untouched
<1>10. StreamOK(c)'
    <2>0. StreamOK(c) /\ SubsOK(c) /\ Known(c)
        BY <1>1 DEF StreamOK
    <2>1. /\ subs'[c] = T /\ sent'[c] = sent[c] /\ queue'[c] = Enqueue(c, m).queue
          /\ drops'[c] = Enqueue(c, m).drops /\ conn'[c] = conn[c] /\ conn[c] # "new"
          /\ replay' = replay
        BY <1>1, <1>2, <1>3 DEF Types, TypeOK
    <2>2. AllInLine(m)
        BY <1>4 DEF AllInLine
    <2>3. \A s \in T : s.id \in Nat
        BY <1>6 DEF Subscription
    <2>4. \A s \in T : s \in subs[c] => s.id <= requests /\ s.since <= replay.next
        BY <2>0 DEF SubsOK
    <2>5. SubsOK(c)'
        <3>1. \A s \in T : s.id <= requests' /\ s.since <= replay'.next
            BY <1>2, <1>6, <2>1, <2>3, <2>4
        <3>2. ASSUME NEW s \in T, NEW t \in T, s.id = t.id PROVE s = t
            <4>1. s.id # requests + 1 => s \in subs[c] /\ t \in subs[c]
                BY <3>2
            <4> QED BY <2>0, <3>2, <4>1 DEF SubsOK
        <3> QED BY <2>1, <3>1, <3>2 DEF SubsOK
    <2>6. \A i \in DOMAIN Out(c) : Out(c)[i].sub <= requests /\ Out(c)[i].sub \in Nat
        <3> SUFFICES ASSUME NEW i \in DOMAIN Out(c)
                     PROVE  Out(c)[i].sub <= requests /\ Out(c)[i].sub \in Nat
            OBVIOUS
        <3>1. Out(c)[i] \in Message
            BY <1>1, OutIs, ElementOfSeq, LenProperties
        <3>2. Out(c)[i].sub \in 0 .. MaxRequests
            BY <3>1, BoundsAssumption DEF Message, Notice, Answer
        <3> QED BY <1>6, <2>0, <3>2 DEF Known
    <2>7. a.type # "note" /\ ~IsNote(a) /\ a.sub \in Nat
        BY <1>6 DEF Answer, IsNote
    <2>8. \A i \in DOMAIN Out(c) : \A j \in DOMAIN m : InLine(Out(c)[i], m[j])
        <3> SUFFICES ASSUME NEW i \in DOMAIN Out(c) PROVE InLine(Out(c)[i], a)
            BY <1>4
        <3>1. a.type = "subscribed" => Out(c)[i].sub # a.sub
            BY <1>6, <2>6
        <3> QED BY <2>7, <3>1 DEF InLine
    <2>9. \A i \in DOMAIN Out(c) : Out(c)[i].type = "unsubscribed" =>
             \A s \in T : s.id # Out(c)[i].sub
        <3> SUFFICES ASSUME NEW i \in DOMAIN Out(c), Out(c)[i].type = "unsubscribed", NEW s \in T
                     PROVE  s.id # Out(c)[i].sub
            OBVIOUS
        <3>1. CASE s \in subs[c]
            BY <2>0, <3>1 DEF Known
        <3>2. CASE s.id = requests + 1
            BY <1>6, <2>6, <3>2
        <3> QED BY <3>1, <3>2
    <2>10. \A id : Got(m, id) = {}
        BY <1>4, <2>7 DEF Got
    <2>11. ASSUME conn[c] = "open", drops[c] = 0, NEW s \in T
           PROVE  Got(Out(c), s.id) \cup Got(m, s.id) = Owed(s, s.since .. replay.next - 1)
        <3>1. CASE s \in subs[c]
            BY <2>0, <2>10, <2>11, <3>1 DEF StreamOK, Complete
        <3>2. CASE s.id = requests + 1 /\ s.since = replay.next
            <4>1. s.since .. replay.next - 1 = {}
                BY <1>6, <3>2
            <4>2. Owed(s, {}) = {}
                BY DEF Owed, ItemsOf
            <4>3. Got(Out(c), s.id) = {}
                <5>1. \A i \in DOMAIN Out(c) : Out(c)[i].sub # s.id
                    BY <1>6, <2>6, <3>2
                <5> QED BY <5>1 DEF Got
            <4> QED BY <2>10, <4>1, <4>2, <4>3
        <3> QED BY <3>1, <3>2
    <2>12. \A j \in DOMAIN m :
              /\ m[j].sub <= requests'
              /\ IsNote(m[j]) => m[j].block < replay'.next
              /\ m[j].type = "unsubscribed" => \A s \in subs'[c] : s.id # m[j].sub
        BY <1>2, <1>4, <2>1, <2>7
    <2>13. requests <= requests' /\ replay'.next \in Nat /\ replay.next <= replay'.next
        BY <1>2, <1>6, <2>1
    <2> HIDE DEF m
    <2> QED BY <1>1, <1>4, <1>6, <2>0, <2>1, <2>2, <2>5, <2>8, <2>9, <2>11, <2>12, <2>13, PutTo
<1>11. ASSUME NEW d \in Client PROVE Drained(d)'
    <2> SUFFICES ASSUME server = "draining", ~timedOut, d \notin toDrain, conn[d] = "open",
                        NEW i \in DOMAIN queue'[d]
                 PROVE  ~IsNote(queue'[d][i])
        BY <1>2 DEF Drained, IsNote
    <2>1. \A k \in DOMAIN queue[d] : ~IsNote(queue[d][k])
        BY <1>1 DEF Drained
    <2>2. CASE d # c
        <3>1. queue'[d] = queue[d]
            BY <1>1, <1>3, <2>2 DEF Types
        <3> QED BY <2>1, <3>1
    <2>3. CASE d = c
        <3>1. queue'[c] = Enqueue(c, m).queue
            BY <1>1, <1>3 DEF Types
        <3>2. \/ \E k \in DOMAIN queue[c] : queue'[c][i] = queue[c][k]
              \/ \E k \in DOMAIN m : queue'[c][i] = m[k]
            <4> HIDE DEF m
            <4>1. \A j \in DOMAIN Enqueue(c, m).queue :
                     \/ \E k \in DOMAIN queue[c] : Enqueue(c, m).queue[j] = queue[c][k]
                     \/ \E k \in DOMAIN m : Enqueue(c, m).queue[j] = m[k]
                BY <1>1, <1>4, QueueMembers
            <4>2. i \in DOMAIN Enqueue(c, m).queue
                BY <2>3, <3>1
            <4> QED BY <3>1, <4>1, <4>2
        <3>3. ~IsNote(a)
            BY DEF Answer, IsNote
        <3> QED BY <1>4, <2>1, <2>3, <3>2, <3>3
    <2> QED BY <2>2, <2>3
<1> QED BY <1>7, <1>8, <1>9, <1>10, <1>11 DEF IInv, ClientOK

LEMMA SubscribeStep ==
    ASSUME IInv, NEW c \in Client, NEW kind \in {"newHeads", "logs"}, NEW f \in SUBSET Address,
           Subscribe(c, kind, f)
    PROVE  IInv'
<1> DEFINE s == [id |-> requests + 1, kind |-> kind,
                 addresses |-> IF f = {} THEN Address ELSE f, since |-> replay.next]
           T == subs[c] \cup {s}
           a == Reply("subscribed", requests + 1)
<1>1. Types /\ SubsOK(c) /\ subs[c] \in SUBSET Subscription
    BY DEF IInv, ClientOK, StreamOK, Types, TypeOK
<1>2. requests + 1 \in 1 .. MaxRequests
    <2>1. requests < MaxRequests
        BY DEF Subscribe, Request
    <2> QED BY <1>1, <2>1, OutIs, BoundsAssumption
<1>3. replay.next \in 1 .. Len(Blocks) + 1 /\ requests \in Nat
    BY <1>1, OutIs
<1>4. s \in Subscription
    BY <1>2, <1>3 DEF Subscription
<1>5. s.id = requests + 1 /\ s.since = replay.next
    OBVIOUS
<1> HIDE DEF s
<1>6. T \in SUBSET Subscription
    BY <1>1, <1>4
<1>7. IsFiniteSet(T)
    BY <1>1, FS_AddElement, Zenon DEF SubsOK
<1>8. \A x \in T : x \in subs[c] \/ x = s
    OBVIOUS
<1>9. \A x \in subs[c] : x.id # requests + 1
    <2>1. \A x \in subs[c] : x.id \in Nat /\ x.id <= requests
        BY <1>1, SubTypes DEF SubsOK
    <2> QED BY <1>3, <2>1
<1>10. a \in Answer /\ a.type = "subscribed" /\ a.sub = requests + 1
    BY <1>2, BoundsAssumption DEF Reply, Answer
<1>11. Request(c) /\ PutReply(c, a)
    BY DEF Subscribe
<1>12. subs' = [subs EXCEPT ![c] = T]
    BY DEF Subscribe, s
<1> HIDE DEF T, a
<1>13. /\ \A x \in T : x \in subs[c] \/ (x.id = requests + 1 /\ x.since = replay.next)
       /\ \A x, y \in T : x.id = requests + 1 /\ y.id = requests + 1 => x = y
    BY <1>5, <1>8, <1>9
<1>14. a.sub <= requests + 1
    BY <1>3, <1>10
<1> QED BY <1>6, <1>7, <1>10, <1>11, <1>12, <1>13, <1>14, AnswerTo

LEMMA UnsubscribeStep ==
    ASSUME IInv, NEW c \in Client, NEW id \in OwnIds(c) \cup {0}, Unsubscribe(c, id)
    PROVE  IInv'
<1> DEFINE T == {s \in subs[c] : s.id # id}
           a == Reply("unsubscribed", id)
<1>1. Types /\ SubsOK(c) /\ subs[c] \in SUBSET Subscription
    BY DEF IInv, ClientOK, StreamOK, Types, TypeOK
<1>2. requests \in Nat /\ MaxRequests \in Nat
    BY <1>1, OutIs, BoundsAssumption
<1>3. \A x \in subs[c] : x.id \in 1 .. MaxRequests /\ x.id <= requests
    BY <1>1, SubTypes DEF SubsOK
<1>4. id \in 0 .. MaxRequests /\ id <= requests + 1
    <2>1. CASE id = 0
        BY <1>2, <2>1
    <2>2. CASE id \in OwnIds(c)
        <3>1. PICK x \in subs[c] : id = x.id
            BY <2>2 DEF OwnIds
        <3>2. id \in 1 .. MaxRequests /\ id <= requests
            BY <1>3, <3>1
        <3> QED BY <1>2, <3>2
    <2> QED BY <2>1, <2>2
<1>5. a \in Answer /\ a.type = "unsubscribed" /\ a.sub = id
    BY <1>4 DEF Reply, Answer
<1>6. T \in SUBSET subs[c] /\ \A s \in T : s.id # id
    OBVIOUS
<1>7. Request(c) /\ PutReply(c, a)
    BY DEF Unsubscribe
<1>8. subs' = [subs EXCEPT ![c] = T]
    BY DEF Unsubscribe
<1> HIDE DEF T, a
<1>9. IsFiniteSet(T)
    BY <1>1, <1>6, FS_Subset DEF SubsOK
<1>10. \A s, t \in T : s.id = requests + 1 /\ t.id = requests + 1 => s = t
    BY <1>1, <1>6 DEF SubsOK
<1>11. T \in SUBSET Subscription
    BY <1>1, <1>6
<1> QED BY <1>4, <1>5, <1>6, <1>7, <1>8, <1>9, <1>10, <1>11, AnswerTo

LEMMA UnknownStep ==
    ASSUME IInv, NEW c \in Client, UnknownMethod(c)
    PROVE  IInv'
<1> DEFINE a == Reply("error", 0)
<1>1. Types /\ SubsOK(c) /\ subs[c] \in SUBSET Subscription /\ DOMAIN subs = Client
    BY DEF IInv, ClientOK, StreamOK, Types, TypeOK
<1>2. requests \in Nat /\ MaxRequests \in Nat
    BY <1>1, OutIs, BoundsAssumption
<1>3. a \in Answer /\ a.type = "error" /\ a.sub = 0
    BY <1>2 DEF Reply, Answer
<1>4. Request(c) /\ PutReply(c, a) /\ subs' = subs
    BY DEF UnknownMethod
<1> DEFINE T == subs[c]
<1>5. subs' = [subs EXCEPT ![c] = T]
    <2>1. subs \in [Client -> SUBSET Subscription]
        BY <1>1 DEF Types, TypeOK
    <2> QED BY <1>4, <2>1
<1> HIDE DEF a, T
<1>6. /\ T \in SUBSET Subscription /\ IsFiniteSet(T)
      /\ \A s \in T : s \in subs[c] \/ (s.id = requests + 1 /\ s.since = replay.next)
      /\ \A s, t \in T : s.id = requests + 1 /\ t.id = requests + 1 => s = t
    BY <1>1 DEF T, SubsOK
<1>7. /\ a.sub <= requests + 1
      /\ a.type = "subscribed" => a.sub = requests + 1
      /\ a.type = "unsubscribed" => \A s \in T : s.id # a.sub
    BY <1>2, <1>3
<1> QED BY <1>3, <1>4, <1>5, <1>6, <1>7, AnswerTo

(* _replay_loop: a burst of the blocks from the next one on.                 *)
LEMMA EmitStep ==
    ASSUME IInv, server = "serving", replay.next \in 1 .. Len(Blocks), Emit(replay.next)
    PROVE  IInv'
<1> DEFINE b == replay.next
           e == BurstEnd(b)
           B == b .. e
           burst == ItemsOf(B)
<1>1. Types /\ ReplayOK /\ \A d \in Client : StreamOK(d) /\ Drained(d)
    BY DEF IInv, ClientOK
<1>2. /\ b \in Nat /\ e \in Nat /\ b <= e /\ e <= Len(Blocks) /\ Len(Blocks) \in Nat
      /\ B \in SUBSET (1 .. Len(Blocks))
    <2>1. Len(Blocks) \in Nat
        BY BlocksAssumption
    <2>2. e \in b .. Len(Blocks)
        BY BurstEndFacts
    <2> HIDE DEF e
    <2> QED BY <2>1, <2>2
<1> DEFINE box == [d \in InServer |-> Enqueue(d, Notes(d, burst))]
<1>3. /\ queue' = [d \in Client |-> IF d \in InServer THEN box[d].queue ELSE queue[d]]
      /\ drops' = [d \in Client |-> IF d \in InServer THEN box[d].drops ELSE drops[d]]
      /\ currentBlock' = IF burst = {} THEN currentBlock ELSE Max({x.block : x \in burst})
      /\ replay' = AfterBurst(e)
      /\ UNCHANGED <<conn, subs, sending, sent, nodeStop, server, toDrain, timedOut, requests>>
    BY DEF Emit, stopVars
<1> HIDE DEF e, B
<1>4. /\ replay'.next = e + 1 /\ replay'.pc \in {"sleeping", "done"}
      /\ replay'.pc = "sleeping" => e # Len(Blocks)
      /\ replay' = [pc |-> replay'.pc, next |-> replay'.next]
    BY <1>3 DEF AfterBurst
<1>5. ASSUME NEW d \in Client
      PROVE  /\ d \in InServer => /\ queue'[d] = Enqueue(d, Notes(d, burst)).queue
                                  /\ drops'[d] = Enqueue(d, Notes(d, burst)).drops
             /\ d \notin InServer => queue'[d] = queue[d] /\ drops'[d] = drops[d]
             /\ conn'[d] = conn[d] /\ subs'[d] = subs[d] /\ sent'[d] = sent[d]
    BY <1>3
<1> HIDE DEF burst, box
<1>6. ASSUME NEW d \in Client
      PROVE  /\ Notes(d, burst) \in Seq(Message)
             /\ \A i \in DOMAIN Notes(d, burst) :
                   /\ Notes(d, burst)[i] \in Notice /\ Notes(d, burst)[i].block \in B
                   /\ \E s \in subs[d] : Notes(d, burst)[i].sub = s.id
             /\ AllInLine(Notes(d, burst))
             /\ \A s \in subs[d] : Got(Notes(d, burst), s.id) = Owed(s, B)
    BY <1>1, <1>2, NotesFacts DEF burst, StreamOK
<1>7. Types'
    <2>1. \A d \in Client : /\ queue'[d] \in Seq(Message) /\ Len(queue'[d]) <= MaxQueue
                            /\ drops'[d] \in Nat
        <3> SUFFICES ASSUME NEW d \in Client
                     PROVE  /\ queue'[d] \in Seq(Message) /\ Len(queue'[d]) <= MaxQueue
                            /\ drops'[d] \in Nat
            OBVIOUS
        <3>1. CASE d \in InServer
            BY <1>1, <1>5, <1>6, <3>1, EnqueueFacts
        <3>2. CASE d \notin InServer
            BY <1>1, <1>5, <3>2 DEF Types, TypeOK
        <3> QED BY <3>1, <3>2
    <2>2. currentBlock' \in 0 .. Len(Blocks)
        <3>1. \A x \in burst : x.block \in 1 .. Len(Blocks)
            BY <1>2, ItemFacts DEF burst
        <3>2. CASE burst = {}
            BY <1>1, <1>3, <3>2 DEF Types, TypeOK
        <3>3. CASE burst # {}
            <4>1. Max({x.block : x \in burst}) \in 1 .. Len(Blocks)
                BY <3>1, <3>3, LastBlockOf
            <4> QED BY <1>2, <1>3, <3>3, <4>1
        <3> QED BY <3>2, <3>3
    <2>3. replay'.next \in 1 .. Len(Blocks) + 1
        BY <1>2, <1>4
    <2>4. DOMAIN queue' = Client /\ DOMAIN drops' = Client
        BY <1>3
    <2>5. queue' \in [Client -> Seq(Message)] /\ drops' \in [Client -> Nat]
        BY <1>3, <2>1
    <2>6. replay' \in [pc : {"waiting", "sleeping", "done"}, next : 1 .. Len(Blocks) + 1]
        BY <1>4, <2>3
    <2>7. TypeOK'
        BY <1>1, <1>3, <1>4, <2>1, <2>2, <2>3, <2>5 DEF Types, TypeOK
    <2> QED BY <1>1, <1>3, <2>5, <2>6, <2>7 DEF Types
<1>8. ReplayOK'
    BY <1>2, <1>3, <1>4 DEF ReplayOK
<1>9. ASSUME NEW d \in Client, d \notin InServer PROVE StreamOK(d)'
    <2>1. Out(d)' = Out(d)
        BY <1>5, <1>9 DEF Out
    <2>2. conn'[d] # "open" /\ conn[d] # "open"
        BY <1>5, <1>9 DEF InServer
    <2>3. StreamOK(d)
        BY <1>1
    <2>4. SubsOK(d)'
        <3>1. \A s \in subs[d] : s.since \in Nat /\ s.since <= b
            BY <1>1, <2>3, SubTypes DEF StreamOK, SubsOK
        <3>2. \A s \in subs[d] : s.since <= e + 1
            BY <1>2, <3>1
        <3> QED BY <1>3, <1>4, <1>5, <2>3, <3>2 DEF StreamOK, SubsOK
    <2>5. Known(d)'
        <3>1. ASSUME NEW i \in DOMAIN Out(d), IsNote(Out(d)[i]) PROVE Out(d)[i].block < e + 1
            <4>1. Out(d)[i] \in Message
                BY <1>1, OutIs, ElementOfSeq, LenProperties
            <4>2. Out(d)[i] \in Notice
                BY <3>1, <4>1 DEF Message, Answer, IsNote
            <4>3. Out(d)[i].block \in Nat
                BY <4>2, NoticeFields
            <4>4. Out(d)[i].block < b
                BY <2>3, <3>1 DEF StreamOK, Known
            <4> QED BY <1>2, <4>3, <4>4
        <3> QED BY <1>3, <1>4, <1>5, <2>1, <2>3, <3>1 DEF StreamOK, Known, IsNote
    <2>6. Unconnected(d)'
        BY <1>5, <1>9, <2>3 DEF StreamOK, Unconnected
    <2>7. AllInLine(Out(d))'
        BY <2>1, <2>3 DEF StreamOK, AllInLine, InLine, IsNote, Earlier
    <2>8. Complete(d)'
        BY <2>2 DEF Complete
    <2> QED BY <2>4, <2>5, <2>6, <2>7, <2>8 DEF StreamOK
<1>10. ASSUME NEW d \in Client, d \in InServer PROVE StreamOK(d)'
    <2> DEFINE m == Notes(d, burst)
    <2>0. StreamOK(d) /\ SubsOK(d) /\ Known(d)
        BY <1>1 DEF StreamOK
    <2>1. /\ m \in Seq(Message) /\ AllInLine(m)
          /\ \A j \in DOMAIN m : /\ m[j] \in Notice /\ m[j].block \in B
                                 /\ \E s \in subs[d] : m[j].sub = s.id
          /\ \A s \in subs[d] : Got(m, s.id) = Owed(s, B)
        BY <1>6
    <2>2. /\ sent'[d] = sent[d] /\ queue'[d] = Enqueue(d, m).queue
          /\ drops'[d] = Enqueue(d, m).drops /\ conn'[d] = conn[d] /\ conn[d] # "new"
          /\ subs'[d] = subs[d] /\ requests' = requests
        BY <1>3, <1>5, <1>10 DEF InServer
    <2> HIDE DEF m
    <2>3. requests' \in Nat /\ requests <= requests'
        BY <1>1, <2>2, OutIs
    <2>4. replay'.next \in Nat /\ replay.next <= replay'.next
        BY <1>2, <1>4
    <2>5. \A s \in subs[d] : /\ s.since \in Nat /\ s.since <= b /\ s.id <= requests
                             /\ s.since \in 1 .. Len(Blocks) + 1
        BY <1>1, <2>0, SubTypes DEF SubsOK
    <2>6. SubsOK(d)'
        <3>1. \A s \in subs[d] : s.since <= e + 1
            BY <1>2, <2>5
        <3> QED BY <1>4, <2>0, <2>2, <3>1 DEF SubsOK
    <2>7. ASSUME NEW i \in DOMAIN Out(d), NEW j \in DOMAIN m PROVE InLine(Out(d)[i], m[j])
        <3>1. Out(d)[i] \in Message
            BY <1>1, OutIs, ElementOfSeq, LenProperties
        <3>2. m[j].type = "note" /\ m[j].block \in Nat /\ m[j].block >= b
            <4>1. m[j].block \in B /\ m[j] \in Notice
                BY <2>1
            <4>2. m[j].block >= b
                BY <1>2, <4>1 DEF B
            <4> QED BY <4>1, <4>2, NoticeFields
        <3>3. Out(d)[i].sub = m[j].sub => Out(d)[i].type # "unsubscribed"
            BY <2>0, <2>1 DEF Known
        <3>4. IsNote(Out(d)[i]) => Out(d)[i].block < m[j].block
            <4> SUFFICES ASSUME IsNote(Out(d)[i]) PROVE Out(d)[i].block < m[j].block
                OBVIOUS
            <4>1. Out(d)[i] \in Notice
                BY <3>1 DEF Message, Answer, IsNote
            <4>2. Out(d)[i].block \in Nat
                BY <4>1, NoticeFields
            <4>3. Out(d)[i].block < b
                BY <2>0 DEF Known
            <4> QED BY <1>2, <3>2, <4>2, <4>3
        <3> QED BY <3>2, <3>3, <3>4 DEF InLine, Earlier
    <2>8. \A i \in DOMAIN Out(d) : Out(d)[i].type = "unsubscribed" =>
             \A s \in subs'[d] : s.id # Out(d)[i].sub
        BY <2>0, <2>2 DEF Known
    <2>9. ASSUME NEW j \in DOMAIN m
          PROVE  /\ m[j].sub <= requests'
                 /\ IsNote(m[j]) => m[j].block < replay'.next
                 /\ m[j].type = "unsubscribed" => \A s \in subs'[d] : s.id # m[j].sub
        <3>1. m[j].sub <= requests'
            BY <2>1, <2>2, <2>5
        <3>2. m[j].type = "note" /\ m[j].block \in B
            BY <2>1, NoticeFields
        <3>3. m[j].block < e + 1
            BY <1>2, <3>2 DEF B
        <3> QED BY <1>4, <3>1, <3>2, <3>3
    <2>10. ASSUME conn[d] = "open", drops[d] = 0, NEW s \in subs'[d]
           PROVE  Got(Out(d), s.id) \cup Got(m, s.id) = Owed(s, s.since .. replay'.next - 1)
        <3>1. s \in subs[d]
            BY <2>2, <2>10
        <3>2. Got(Out(d), s.id) = Owed(s, s.since .. b - 1) /\ Got(m, s.id) = Owed(s, B)
            BY <2>0, <2>1, <2>10, <3>1 DEF StreamOK, Complete
        <3>3. s.since .. replay'.next - 1 = (s.since .. b - 1) \cup B
            <4>1. s.since \in Nat /\ s.since <= b /\ replay'.next - 1 = e
                BY <1>2, <1>4, <2>5, <3>1
            <4> QED BY <1>2, <4>1 DEF B
        <3>4. ItemsOf((s.since .. b - 1) \cup B) = ItemsOf(s.since .. b - 1) \cup ItemsOf(B)
            BY ItemsUnion
        <3> QED BY <3>2, <3>3, <3>4 DEF Owed
    <2> QED BY <1>1, <2>0, <2>1, <2>2, <2>3, <2>4, <2>6, <2>7, <2>8, <2>9, <2>10, PutTo
<1>11. \A d \in Client : Drained(d)'
    BY <1>3 DEF Drained
<1> QED BY <1>7, <1>8, <1>9, <1>10, <1>11 DEF IInv, ClientOK

-----------------------------------------------------------------------------
(* The steps that put nothing into a queue.                                  *)
LEMMA QuietStep ==
    ASSUME IInv, UNCHANGED <<subs, drops, requests>>, replay'.next = replay.next,
           \A d \in Client : Out(d)' = Out(d),
           \A d \in Client : conn'[d] = "new" => conn[d] = "new" /\ queue'[d] = queue[d],
           \A d \in Client : conn'[d] = "open" => conn[d] = "open" \/ conn[d] = "new"
    PROVE  \A d \in Client : StreamOK(d)'
<1> SUFFICES ASSUME NEW d \in Client PROVE StreamOK(d)'
    OBVIOUS
<1>1. Types /\ StreamOK(d)
    BY DEF IInv, ClientOK
<1>2. requests' \in Nat /\ requests <= requests'
    BY <1>1, OutIs
<1>3. subs'[d] = subs[d] /\ drops'[d] = drops[d]
    OBVIOUS
<1> QED BY <1>1, <1>2, <1>3, Untouched

LEMMA ConnectionStep ==
    ASSUME IInv, NEW c \in Client, Connect(c) \/ Disconnect(c) \/ Discard(c)
    PROVE  IInv'
<1>1. Types /\ ReplayOK /\ \A d \in Client : Drained(d) /\ Unconnected(d)
    BY DEF IInv, ClientOK, StreamOK
<1>2. /\ UNCHANGED <<subs, queue, sent, drops, currentBlock, eventsSent, droppedTotal, nodeStop,
                     firstSub, replay, server, toDrain, timedOut, requests>>
      /\ sending' \in [Client -> BOOLEAN]
      /\ \E x \in {"open", "closing", "gone"} : conn' = [conn EXCEPT ![c] = x]
      /\ conn'[c] = "open" => conn[c] = "new"
    BY <1>1 DEF Connect, Disconnect, Discard, stateVars, stopVars, Types, TypeOK
<1>3. PICK x \in {"open", "closing", "gone"} : conn' = [conn EXCEPT ![c] = x]
    BY <1>2
<1>4. conn' \in [Client -> {"new", "open", "closing", "gone"}]
    BY <1>1, <1>3 DEF Types, TypeOK
<1>5. \A d \in Client : /\ conn'[d] = "new" => conn[d] = "new"
                        /\ conn'[d] = "open" => conn[d] = "open" \/ conn[d] = "new"
    BY <1>1, <1>2, <1>3 DEF Types, TypeOK
<1>6. \A d \in Client : StreamOK(d)'
    <2>1. \A d \in Client : Out(d)' = Out(d)
        BY <1>2 DEF Out
    <2> QED BY <1>2, <1>5, <2>1, QuietStep
<1>7. \A d \in Client : Drained(d)'
    <2>1. \A d \in Client : conn[d] = "new" => queue[d] = << >>
        BY <1>1 DEF Unconnected
    <2> QED BY <1>1, <1>2, <1>5, <2>1 DEF Drained, IsNote
<1>8. Types' /\ ReplayOK'
    BY <1>1, <1>2, <1>4 DEF Types, TypeOK, ReplayOK
<1> QED BY <1>6, <1>7, <1>8 DEF IInv, ClientOK

(* A send moves the head of the queue behind what was sent.                  *)
LEMMA WriterMoves ==
    ASSUME Types, NEW c \in Client, WriterSend(c)
    PROVE  /\ queue[c] # << >> /\ conn[c] = "open"
           /\ sent' = [sent EXCEPT ![c] = Append(sent[c], Head(queue[c]))]
           /\ queue' = [queue EXCEPT ![c] = Tail(queue[c])]
           /\ Append(sent[c], Head(queue[c])) \in Seq(Message)
           /\ \A d \in Client : Out(d)' = Out(d)
<1> DEFINE q == queue[c]
<1>1. /\ q # << >> /\ conn[c] = "open"
      /\ sent' = [sent EXCEPT ![c] = Append(sent[c], Head(q))]
      /\ queue' = [queue EXCEPT ![c] = Tail(q)]
    BY DEF WriterSend
<1>2. q \in Seq(Message) /\ sent[c] \in Seq(Message)
    BY OutIs
<1> HIDE DEF q
<1>3. /\ Head(q) \in Message /\ Tail(q) \in Seq(Message) /\ Len(Tail(q)) = Len(q) - 1
      /\ \A i \in 1 .. Len(Tail(q)) : Tail(q)[i] = q[i + 1]
    BY <1>1, <1>2, HeadTailProperties
<1>4. Append(sent[c], Head(q)) \in Seq(Message)
    BY <1>2, <1>3, AppendProperties
<1>5. /\ sent'[c] = Append(sent[c], Head(q)) /\ queue'[c] = Tail(q)
      /\ \A d \in Client : d # c => sent'[d] = sent[d] /\ queue'[d] = queue[d]
    BY <1>1 DEF Types
<1>6. Append(sent[c], Head(q)) \o Tail(q) = sent[c] \o q
    <2>1. <<Head(q)>> \in Seq(Message)
        BY <1>3
    <2>2. Append(sent[c], Head(q)) = sent[c] \o <<Head(q)>>
        BY <1>2, <1>3, AppendIsConcat
    <2>3. q = <<Head(q)>> \o Tail(q)
        BY <1>1, <1>2
    <2>4. (sent[c] \o <<Head(q)>>) \o Tail(q) = sent[c] \o (<<Head(q)>> \o Tail(q))
        BY <1>2, <1>3, <2>1, Regroup, Zenon
    <2> QED BY <2>2, <2>3, <2>4, Zenon
<1>7. \A d \in Client : Out(d)' = Out(d)
    <2> SUFFICES ASSUME NEW d \in Client PROVE sent'[d] \o queue'[d] = sent[d] \o queue[d]
        BY DEF Out
    <2>1. CASE d = c
        BY <1>5, <1>6, <2>1, Zenon DEF q
    <2>2. CASE d # c
        BY <1>5, <2>2, Zenon
    <2> QED BY <2>1, <2>2
<1> QED BY <1>1, <1>4, <1>7 DEF q

LEMMA WriterStep ==
    ASSUME IInv, NEW c \in Client, WriterSend(c) \/ WriterResume(c)
    PROVE  IInv'
<1>1. Types /\ ReplayOK /\ \A d \in Client : Drained(d)
    BY DEF IInv, ClientOK
<1>2. /\ UNCHANGED <<conn, subs, drops, currentBlock, eventsSent, droppedTotal, nodeStop,
                     firstSub, replay, server, toDrain, timedOut, requests>>
      /\ sending' \in [Client -> BOOLEAN]
    BY <1>1 DEF WriterSend, WriterResume, stateVars, stopVars, Types, TypeOK
<1>3. CASE WriterResume(c)
    <2>1. UNCHANGED <<queue, sent>>
        BY <1>3 DEF WriterResume
    <2>2. \A d \in Client : Out(d)' = Out(d)
        BY <2>1 DEF Out
    <2>3. \A d \in Client : StreamOK(d)'
        BY <1>2, <2>1, <2>2, QuietStep
    <2>4. \A d \in Client : Drained(d)'
        BY <1>1, <1>2, <2>1 DEF Drained
    <2>5. Types' /\ ReplayOK'
        BY <1>1, <1>2, <2>1 DEF Types, TypeOK, ReplayOK
    <2> QED BY <2>3, <2>4, <2>5 DEF IInv, ClientOK
<1>4. CASE WriterSend(c)
    <2> DEFINE q == queue[c]
    <2>1. /\ q # << >> /\ conn[c] = "open"
          /\ sent' = [sent EXCEPT ![c] = Append(sent[c], Head(q))]
          /\ queue' = [queue EXCEPT ![c] = Tail(q)]
          /\ Append(sent[c], Head(q)) \in Seq(Message)
          /\ \A d \in Client : Out(d)' = Out(d)
        BY <1>1, <1>4, WriterMoves
    <2>2. q \in Seq(Message) /\ sent[c] \in Seq(Message)
        BY <1>1, OutIs
    <2> HIDE DEF q
    <2>3. /\ Tail(q) \in Seq(Message) /\ Len(Tail(q)) = Len(q) - 1
          /\ \A i \in 1 .. Len(Tail(q)) : Tail(q)[i] = q[i + 1]
        BY <2>1, <2>2, HeadTailProperties
    <2>5. /\ sent'[c] = Append(sent[c], Head(q)) /\ queue'[c] = Tail(q)
          /\ \A d \in Client : d # c => sent'[d] = sent[d] /\ queue'[d] = queue[d]
        BY <1>1, <2>1 DEF Types
    <2>8. \A d \in Client : StreamOK(d)'
        <3>1. \A d \in Client : conn'[d] = "new" => conn[d] = "new" /\ queue'[d] = queue[d]
            BY <1>2, <2>1, <2>5
        <3>2. \A d \in Client : conn'[d] = "open" => conn[d] = "open"
            BY <1>2
        <3> QED BY <1>2, <2>1, <3>1, <3>2, QuietStep
    <2>9. ASSUME NEW d \in Client PROVE Drained(d)'
        <3>1. CASE d # c
            BY <1>1, <1>2, <2>5, <3>1 DEF Drained, IsNote
        <3>2. CASE d = c
            <4> SUFFICES ASSUME server = "draining", ~timedOut, c \notin toDrain,
                                NEW i \in DOMAIN Tail(q)
                         PROVE  ~IsNote(Tail(q)[i])
                BY <1>2, <2>5, <3>2 DEF Drained, IsNote
            <4>1. \A k \in DOMAIN q : ~IsNote(q[k])
                BY <1>1, <2>1 DEF Drained, q
            <4>2. DOMAIN q = 1 .. Len(q) /\ DOMAIN Tail(q) = 1 .. Len(Tail(q)) /\ Len(q) \in Nat
                BY <2>2, <2>3, LenProperties
            <4>3. i + 1 \in DOMAIN q /\ Tail(q)[i] = q[i + 1]
                BY <2>3, <4>2
            <4> QED BY <4>1, <4>3
        <3> QED BY <3>1, <3>2
    <2>10. Types'
        <3>1. sent' \in [Client -> Seq(Message)] /\ queue' \in [Client -> Seq(Message)]
            BY <1>1, <2>1, <2>3 DEF Types
        <3>2. \A d \in Client : Len(queue'[d]) <= MaxQueue
            <4>1. Len(Tail(q)) <= MaxQueue
                <5>1. Len(q) \in Nat /\ Len(q) <= MaxQueue
                    BY <1>1, <2>2, LenProperties DEF Types, TypeOK, q
                <5> QED BY <2>3, <5>1, BoundsAssumption
            <4>2. \A d \in Client : Len(queue[d]) <= MaxQueue
                BY <1>1 DEF Types, TypeOK
            <4> QED BY <2>5, <4>1, <4>2
        <3>3. TypeOK'
            BY <1>1, <1>2, <3>2 DEF Types, TypeOK
        <3> QED BY <1>1, <1>2, <3>1, <3>3 DEF Types
    <2>11. ReplayOK'
        BY <1>1, <1>2 DEF ReplayOK
    <2> QED BY <2>8, <2>9, <2>10, <2>11 DEF IInv, ClientOK
<1> QED BY <1>3, <1>4

(* The replay goes on with the next block of the chain, while it is served.  *)
LEMMA Replays ==
    ASSUME IInv, ReplayStart \/ ReplayWake
    PROVE  server = "serving" /\ replay.next \in 1 .. Len(Blocks) /\ Emit(replay.next)
<1>1. Types /\ ReplayOK
    BY DEF IInv
<1>2. CASE ReplayStart
    <2>1. replay.next = 1 /\ server = "serving" /\ Emit(1)
        BY <1>1, <1>2 DEF ReplayStart, ReplayOK
    <2>2. Len(Blocks) \in Nat /\ Len(Blocks) # 0
        <3>1. Blocks # << >>
            BY <1>2 DEF ReplayStart
        <3> QED BY <3>1, BlocksAssumption
    <2> QED BY <2>1, <2>2
<1>3. CASE ReplayWake
    <2>1. replay.next \in 1 .. Len(Blocks) + 1 /\ Len(Blocks) \in Nat
        BY <1>1, BlocksAssumption DEF Types, TypeOK
    <2>2. server = "serving" /\ replay.next <= Len(Blocks) /\ Emit(replay.next)
        BY <1>1, <1>3 DEF ReplayWake, ReplayOK
    <2> QED BY <2>1, <2>2
<1> QED BY <1>2, <1>3

LEMMA ReplayStepKeeps ==
    ASSUME IInv, ReplayStep
    PROVE  IInv'
<1>1. Types /\ ReplayOK /\ \A d \in Client : Drained(d)
    BY DEF IInv, ClientOK
<1>2. CASE ReplayStart \/ ReplayWake
    BY <1>2, Replays, EmitStep
<1>4. CASE ReplayEndsEarly
    <2>1. /\ UNCHANGED <<conn, subs, queue, sending, sent, drops, currentBlock, eventsSent,
                         droppedTotal, nodeStop, firstSub, server, toDrain, timedOut, requests>>
          /\ replay' = [replay EXCEPT !.pc = "done"]
        BY <1>4 DEF ReplayEndsEarly, clientVars, stateVars, stopVars
    <2>2. replay'.pc = "done" /\ replay'.next = replay.next /\ Types'
        BY <1>1, <2>1 DEF Types, TypeOK
    <2>3. \A d \in Client : StreamOK(d)'
        <3>1. \A d \in Client : Out(d)' = Out(d)
            BY <2>1 DEF Out
        <3> QED BY <2>1, <2>2, <3>1, QuietStep
    <2>4. ReplayOK'
        BY <2>2 DEF ReplayOK
    <2>5. \A d \in Client : Drained(d)'
        BY <1>1, <2>1 DEF Drained
    <2> QED BY <2>2, <2>3, <2>4, <2>5 DEF IInv, ClientOK
<1> QED BY <1>2, <1>4 DEF ReplayStep

(* request_stop, run and _drain_and_close: a client leaves toDrain when its  *)
(* queue is empty, and no replay is left to fill it again.                   *)
LEMMA StopStepKeeps ==
    ASSUME IInv, RequestStop \/ StopStep
    PROVE  IInv'
<1>1. Types /\ ReplayOK /\ \A d \in Client : Drained(d) /\ Unconnected(d)
    BY DEF IInv, ClientOK, StreamOK
<1>2. /\ UNCHANGED <<subs, queue, sent, drops, currentBlock, eventsSent, droppedTotal,
                     firstSub, requests>>
      /\ replay' = replay \/ replay' = [replay EXCEPT !.pc = "done"]
      /\ server' # "serving" => server # "serving" \/ replay'.pc = "done"
      /\ toDrain' \in SUBSET Client /\ server' \in {"serving", "draining", "closed"}
      /\ sending' \in [Client -> BOOLEAN]
      /\ \/ conn' = conn
         \/ conn' = [c \in Client |-> IF c \in InServer THEN "gone" ELSE conn[c]]
    BY <1>1 DEF RequestStop, StopStep, RunStop, DrainNext, DrainDeadline, CloseAll, clientVars,
                stateVars, stopVars, Types, TypeOK, InServer
<1>3. replay'.next = replay.next /\ replay'.pc \in {replay.pc, "done"}
    BY <1>1, <1>2 DEF Types
<1>4. /\ conn' \in [Client -> {"new", "open", "closing", "gone"}]
      /\ \A d \in Client : (conn'[d] = "new" => conn[d] = "new")
                           /\ (conn'[d] = "open" => conn[d] = "open")
    BY <1>1, <1>2 DEF Types, TypeOK
<1>5. \A d \in Client : StreamOK(d)'
    <2>1. \A d \in Client : Out(d)' = Out(d)
        BY <1>2 DEF Out
    <2> QED BY <1>2, <1>3, <1>4, <2>1, QuietStep
<1>6. Types' /\ ReplayOK'
    <2>1. replay' \in [pc : {"waiting", "sleeping", "done"}, next : 1 .. Len(Blocks) + 1]
        BY <1>1, <1>2 DEF Types
    <2>2. Types'
        BY <1>1, <1>2, <1>4, <2>1 DEF Types, TypeOK
    <2>3. ReplayOK'
        BY <1>1, <1>2, <1>3 DEF ReplayOK
    <2> QED BY <2>2, <2>3
<1>7. ASSUME NEW d \in Client PROVE Drained(d)'
    <2> SUFFICES ASSUME server' = "draining", ~timedOut', d \notin toDrain', conn'[d] = "open"
                 PROVE  \A i \in DOMAIN queue[d] : ~IsNote(queue[d][i])
        BY <1>2 DEF Drained, IsNote
    <2>1. conn[d] = "open"
        BY <1>4
    <2>2. CASE RequestStop
        BY <1>1, <2>1, <2>2 DEF RequestStop, stopVars, Drained
    <2>3. CASE RunStop
        BY <2>1, <2>3 DEF RunStop, InServer
    <2>4. CASE \E c \in Client : DrainNext(c)
        BY <1>1, <2>1, <2>4 DEF DrainNext, Drained
    <2>5. CASE DrainDeadline
        BY <2>5 DEF DrainDeadline
    <2>6. CASE CloseAll
        BY <2>6 DEF CloseAll
    <2> QED BY <2>2, <2>3, <2>4, <2>5, <2>6 DEF StopStep
<1> QED BY <1>5, <1>6, <1>7 DEF IInv, ClientOK

-----------------------------------------------------------------------------
LEMMA InitHolds == Init => IInv
<1> SUFFICES ASSUME Init PROVE IInv
    OBVIOUS
<1>1. /\ conn = [c \in Client |-> "new"] /\ subs = [c \in Client |-> {}]
      /\ queue = [c \in Client |-> << >>] /\ sent = [c \in Client |-> << >>]
      /\ sending = [c \in Client |-> FALSE] /\ drops = [c \in Client |-> 0]
      /\ currentBlock = 0 /\ replay = [pc |-> "waiting", next |-> 1] /\ server = "serving"
      /\ toDrain = {} /\ requests = 0
    BY DEF Init
<1>2. Len(Blocks) \in Nat /\ MaxRequests \in Nat /\ MaxQueue \in Nat
    BY BlocksAssumption, BoundsAssumption
<1>3. << >> \in Seq(Message) /\ Len(<< >>) = 0 /\ DOMAIN << >> = {}
    OBVIOUS
<1>4. Types
    <2>1. 1 \in 1 .. Len(Blocks) + 1 /\ 0 \in 0 .. Len(Blocks) /\ 0 \in 0 .. MaxRequests
        BY <1>2
    <2>2. \A c \in Client : Len(queue[c]) <= MaxQueue
        BY <1>1, <1>2, <1>3
    <2> QED BY <1>1, <1>3, <2>1, <2>2 DEF Types, TypeOK
<1>5. ReplayOK
    BY <1>1 DEF ReplayOK
<1>6. ASSUME NEW c \in Client PROVE ClientOK(c)
    <2>1. subs[c] = {} /\ queue[c] = << >> /\ sent[c] = << >> /\ conn[c] = "new"
        BY <1>1
    <2>2. Out(c) = << >>
        BY <2>1 DEF Out
    <2>3. SubsOK(c)
        BY <2>1, FS_EmptySet DEF SubsOK
    <2>4. Known(c) /\ AllInLine(Out(c))
        BY <1>3, <2>2 DEF Known, AllInLine
    <2>5. Unconnected(c) /\ Complete(c) /\ Drained(c)
        BY <1>1, <2>1 DEF Unconnected, Complete, Drained
    <2> QED BY <2>3, <2>4, <2>5 DEF ClientOK, StreamOK
<1> QED BY <1>4, <1>5, <1>6 DEF IInv

LEMMA NextKeeps == IInv /\ [Next]_vars => IInv'
<1> SUFFICES ASSUME IInv, [Next]_vars PROVE IInv'
    OBVIOUS
<1>1. CASE \E c \in Client : Connect(c) \/ Disconnect(c) \/ Discard(c)
    BY <1>1, ConnectionStep
<1>2. CASE \E c \in Client : Subscribe(c, "newHeads", {})
    BY <1>2, SubscribeStep
<1>3. CASE \E c \in Client : \E f \in Filters : Subscribe(c, "logs", f)
    BY <1>3, SubscribeStep, FiltersAssumption
<1>4. CASE \E c \in Client : \E id \in OwnIds(c) \cup {0} : Unsubscribe(c, id)
    BY <1>4, UnsubscribeStep
<1>5. CASE \E c \in Client : UnknownMethod(c)
    BY <1>5, UnknownStep
<1>6. CASE \E c \in Client : WriterSend(c) \/ WriterResume(c)
    BY <1>6, WriterStep
<1>7. CASE ReplayStep
    BY <1>7, ReplayStepKeeps
<1>8. CASE RequestStop \/ StopStep
    BY <1>8, StopStepKeeps
<1>9. CASE UNCHANGED vars
    <2>1. UNCHANGED <<conn, subs, queue, sending, sent, drops, currentBlock, replay, server,
                      toDrain, timedOut, requests>>
        BY <1>9 DEF vars, clientVars, stateVars, stopVars
    <2>2. Types /\ ReplayOK /\ \A d \in Client : Drained(d)
        BY DEF IInv, ClientOK
    <2>3. \A d \in Client : StreamOK(d)'
        <3>1. \A d \in Client : Out(d)' = Out(d)
            BY <2>1 DEF Out
        <3> QED BY <2>1, <3>1, QuietStep
    <2>4. Types' /\ ReplayOK' /\ \A d \in Client : Drained(d)'
        BY <2>1, <2>2 DEF Types, TypeOK, ReplayOK, Drained
    <2> QED BY <2>3, <2>4 DEF IInv, ClientOK
<1> QED BY <1>1, <1>2, <1>3, <1>4, <1>5, <1>6, <1>7, <1>8, <1>9 DEF Next

(* The inductive invariant: it holds in every state the node can reach.      *)
THEOREM MockInvariant == Spec => []IInv
<1>1. Init => IInv
    BY InitHolds
<1>2. IInv /\ [Next]_vars => IInv'
    BY NextKeeps
<1> QED BY <1>1, <1>2, PTL DEF Spec

-----------------------------------------------------------------------------
(* The ids of the streams.  The ids that a list o of messages misses, of     *)
(* the subscriptions I and of the notifications in it.                       *)
Missing(I, o) ==
    {id \in I \cup {o[i].sub : i \in {j \in DOMAIN o : IsNote(o[j])}} :
        \A i \in DOMAIN o : o[i] # Reply("subscribed", id)}

AnnouncedTo(c) ==
    /\ IsFiniteSet(Unannounced(c)) /\ Cardinality(Unannounced(c)) <= drops[c]
    /\ Unannounced(c) # {} => Len(Out(c)) >= MaxQueue

(* What an enqueue takes out of what a client gets: the first over messages  *)
(* of the queue with the new ones, which then is full, and counted.          *)
LEMMA EnqueueEvicts ==
    ASSUME Types, NEW c \in Client, NEW m \in Seq(Message)
    PROVE  \E over \in Nat :
              /\ Enqueue(c, m).drops = drops[c] + over
              /\ over > 0 => Len(Enqueue(c, m).queue) = MaxQueue
              /\ Len(Enqueue(c, m).queue) = Len(queue[c]) + Len(m) - over
              /\ \A k \in DOMAIN (Out(c) \o m) :
                    \/ \E i \in DOMAIN (sent[c] \o Enqueue(c, m).queue) :
                          (sent[c] \o Enqueue(c, m).queue)[i] = (Out(c) \o m)[k]
                    \/ \E i \in 1 .. over : (queue[c] \o m)[i] = (Out(c) \o m)[k]
<1> DEFINE all == queue[c] \o m
           over == IF Len(all) > MaxQueue THEN Len(all) - MaxQueue ELSE 0
           w == SubSeq(all, over + 1, Len(all))
           s == sent[c]
           v == Out(c) \o m
           o == s \o w
<1>0. Enqueue(c, m).queue = w /\ Enqueue(c, m).drops = drops[c] + over
    BY DEF Enqueue
<1>1. s \in Seq(Message) /\ queue[c] \in Seq(Message) /\ MaxQueue \in Nat
    BY OutIs, BoundsAssumption
<1>2. all \in Seq(Message) /\ Len(all) = Len(queue[c]) + Len(m)
    BY <1>1, JoinAt
<1>3. v = s \o all
    <2>1. Out(c) = s \o queue[c]
        BY DEF Out
    <2>2. (s \o queue[c]) \o m = s \o (queue[c] \o m)
        BY <1>1, Regroup, Zenon
    <2> QED BY <2>1, <2>2, Zenon
<1> HIDE DEF all, v
<1>4. /\ Len(all) \in Nat /\ over \in Nat /\ over <= Len(all)
      /\ over > 0 => Len(all) - over = MaxQueue
    BY <1>1, <1>2, LenProperties
<1> HIDE DEF over
<1>5. /\ w \in Seq(Message) /\ Len(w) = Len(all) - over
      /\ DOMAIN w = 1 .. Len(all) - over
      /\ \A k \in 1 .. Len(all) - over : w[k] = all[over + k]
    BY <1>2, <1>4, CutAt
<1> HIDE DEF w, s
<1>6. /\ DOMAIN o = 1 .. Len(s) + Len(w) /\ DOMAIN s = 1 .. Len(s)
      /\ Len(s) \in Nat /\ Len(w) \in Nat
      /\ \A k \in 1 .. Len(s) : o[k] = s[k]
      /\ \A k \in 1 .. Len(w) : o[Len(s) + k] = w[k]
    BY <1>1, <1>5, JoinAt DEF s
<1>7. /\ DOMAIN v = 1 .. Len(s) + Len(all)
      /\ \A k \in 1 .. Len(s) : v[k] = s[k]
      /\ \A k \in 1 .. Len(all) : v[Len(s) + k] = all[k]
    BY <1>1, <1>2, <1>3, JoinAt DEF s
<1> HIDE DEF o
<1>8. ASSUME NEW k \in DOMAIN v
      PROVE  (\E i \in DOMAIN o : o[i] = v[k]) \/ (\E i \in 1 .. over : all[i] = v[k])
    <2>1. CASE k <= Len(s)
        <3>1. k \in 1 .. Len(s) /\ k \in DOMAIN o
            BY <1>6, <1>7, <2>1
        <3> QED BY <1>6, <1>7, <3>1
    <2>2. CASE ~(k <= Len(s))
        <3>1. PICK x \in 1 .. Len(all) : k = Len(s) + x
            <4>1. k - Len(s) \in 1 .. Len(all) /\ k = Len(s) + (k - Len(s))
                BY <1>4, <1>6, <1>7, <2>2
            <4> QED BY <4>1
        <3>2. v[k] = all[x]
            BY <1>7, <3>1
        <3>3. CASE x <= over
            <4>1. x \in 1 .. over
                BY <3>3, <1>4
            <4> QED BY <3>2, <4>1
        <3>4. CASE ~(x <= over)
            <4>1. x - over \in 1 .. Len(all) - over /\ over + (x - over) = x
                BY <1>4, <3>4
            <4>2. w[x - over] = all[x]
                BY <1>5, <4>1
            <4>3. Len(s) + (x - over) \in DOMAIN o /\ o[Len(s) + (x - over)] = w[x - over]
                <5>1. x - over \in 1 .. Len(w)
                    BY <1>5, <4>1
                <5>2. Len(s) + (x - over) \in 1 .. Len(s) + Len(w)
                    BY <1>6, <5>1
                <5> QED BY <1>6, <5>1, <5>2
            <4> QED BY <3>2, <4>2, <4>3
        <3> QED BY <3>3, <3>4
    <2> QED BY <2>1, <2>2
<1>9. over > 0 => Len(w) = MaxQueue
    BY <1>4, <1>5
<1>10. Len(w) = Len(queue[c]) + Len(m) - over
    <2>1. Len(queue[c]) \in Nat /\ Len(m) \in Nat
        BY <1>1, JoinAt
    <2> QED BY <1>2, <1>4, <1>5, <2>1
<1> QED BY <1>0, <1>4, <1>8, <1>9, <1>10 DEF o, v, all, s

(* An eviction takes at most the ids of the messages that it evicts.         *)
LEMMA PutAnnounces ==
    ASSUME Types, NEW c \in Client, AnnouncedTo(c), NEW m \in Seq(Message),
           sent'[c] = sent[c], queue'[c] = Enqueue(c, m).queue,
           drops'[c] = Enqueue(c, m).drops,
           \A s \in subs'[c] : \/ s.id \in OwnIds(c)
                               \/ \E j \in DOMAIN m : m[j] = Reply("subscribed", s.id),
           \A j \in DOMAIN m : IsNote(m[j]) => m[j].sub \in OwnIds(c)
    PROVE  AnnouncedTo(c)'
<1> DEFINE all == queue[c] \o m
           v == Out(c) \o m
           w == sent[c] \o Enqueue(c, m).queue
           I == OwnIds(c)
           J == {s.id : s \in subs'[c]}
<1>1. PICK over \in Nat :
         /\ Enqueue(c, m).drops = drops[c] + over
         /\ over > 0 => Len(Enqueue(c, m).queue) = MaxQueue
         /\ Len(Enqueue(c, m).queue) = Len(queue[c]) + Len(m) - over
         /\ \A k \in DOMAIN v : \/ \E i \in DOMAIN w : w[i] = v[k]
                                \/ \E i \in 1 .. over : all[i] = v[k]
    BY EnqueueEvicts
<1> DEFINE f == [k \in 1 .. over |-> all[k].sub]
           E == {f[k] : k \in 1 .. over}
<1>2. /\ Out(c) \in Seq(Message) /\ sent[c] \in Seq(Message) /\ queue[c] \in Seq(Message)
      /\ drops[c] \in Nat /\ MaxQueue \in Nat /\ Len(m) \in Nat
      /\ Enqueue(c, m).queue \in Seq(Message)
    BY OutIs, EnqueueFacts, BoundsAssumption, LenProperties
<1>3. Out(c)' = w /\ Unannounced(c)' = Missing(J, w) /\ Unannounced(c) = Missing(I, Out(c))
    <2>1. Out(c)' = w
        BY DEF Out
    <2>2. OwnIds(c)' = J
        BY DEF OwnIds
    <2> QED BY <2>1, <2>2 DEF Unannounced, Missing, IsNote, Reply
<1>4. IsFiniteSet(E) /\ Cardinality(E) <= over /\ Cardinality(E) \in Nat
    <2>1. f \in Surjection(1 .. over, E)
        BY DEF Surjection
    <2>2. IsFiniteSet(1 .. over) /\ Cardinality(1 .. over) = over
        BY FS_Interval
    <2> HIDE DEF f, E
    <2> QED BY <2>1, <2>2, FS_Surjection, FS_CardinalityType
<1>5. /\ \A k \in DOMAIN v : (\E i \in DOMAIN Out(c) : v[k] = Out(c)[i])
                             \/ (\E i \in DOMAIN m : v[k] = m[i])
      /\ \A i \in DOMAIN Out(c) : \E k \in DOMAIN v : v[k] = Out(c)[i]
      /\ \A i \in DOMAIN m : \E k \in DOMAIN v : v[k] = m[i]
    <2> DEFINE o == Out(c)
    <2>1. /\ DOMAIN v = 1 .. Len(o) + Len(m) /\ Len(o) \in Nat /\ Len(m) \in Nat
          /\ \A k \in 1 .. Len(o) : v[k] = o[k]
          /\ \A k \in 1 .. Len(m) : v[Len(o) + k] = m[k]
          /\ \A k \in DOMAIN v : k \in DOMAIN o \/ (k > Len(o) /\ k - Len(o) \in DOMAIN m)
          /\ DOMAIN o = 1 .. Len(o) /\ DOMAIN m = 1 .. Len(m)
        <3> HIDE DEF o
        <3> QED BY <1>2, JoinAt DEF o
    <2> HIDE DEF o, v
    <2>2. ASSUME NEW k \in DOMAIN v
          PROVE  (\E i \in DOMAIN o : v[k] = o[i]) \/ (\E i \in DOMAIN m : v[k] = m[i])
        <3>1. CASE k \in DOMAIN o
            BY <2>1, <3>1
        <3>2. CASE k > Len(o) /\ k - Len(o) \in DOMAIN m
            <4>1. Len(o) + (k - Len(o)) = k
                BY <2>1
            <4> QED BY <2>1, <3>2, <4>1
        <3> QED BY <2>1, <3>1, <3>2
    <2>3. \A i \in DOMAIN o : i \in DOMAIN v /\ v[i] = o[i]
        BY <2>1
    <2>4. \A i \in DOMAIN m : Len(o) + i \in DOMAIN v /\ v[Len(o) + i] = m[i]
        BY <2>1
    <2> QED BY <2>2, <2>3, <2>4 DEF o
<1>6. \A i \in DOMAIN w : \E k \in DOMAIN v : w[i] = v[k]
    <2>1. Thins(w, v)
        BY EnqueueFacts
    <2> HIDE DEF w, v
    <2> QED BY <2>1, ThinMember
<1>7. \A s \in subs'[c] : s.id \in I \/ \E j \in DOMAIN m : m[j] = Reply("subscribed", s.id)
    OBVIOUS
<1>8. \A j \in DOMAIN m : IsNote(m[j]) => m[j].sub \in I
    OBVIOUS
<1>9. \A id : Reply("subscribed", id).sub = id
    BY DEF Reply
<1>10. \A k \in DOMAIN v : (\E i \in DOMAIN w : w[i] = v[k]) \/ v[k].sub \in E
    BY <1>1
<1> HIDE DEF E, f, I
<1>11. Missing(J, w) \subseteq Missing(I, Out(c)) \cup E
    <2> SUFFICES ASSUME NEW id \in Missing(J, w), id \notin E
                 PROVE  id \in Missing(I, Out(c))
        OBVIOUS
    <2> HIDE DEF w, v
    <2>1. \A k \in DOMAIN v : v[k] # Reply("subscribed", id)
        <3> SUFFICES ASSUME NEW k \in DOMAIN v, v[k] = Reply("subscribed", id) PROVE FALSE
            OBVIOUS
        <3>1. v[k].sub \notin E
            BY <1>9
        <3>2. PICK i \in DOMAIN w : w[i] = Reply("subscribed", id)
            BY <1>10, <3>1
        <3> QED BY <3>2 DEF Missing
    <2>2. /\ \A i \in DOMAIN Out(c) : Out(c)[i] # Reply("subscribed", id)
          /\ \A i \in DOMAIN m : m[i] # Reply("subscribed", id)
        BY <1>5, <2>1
    <2>3. CASE id \in J
        BY <1>7, <2>2, <2>3 DEF Missing
    <2>4. CASE id \notin J
        <3>1. PICK i \in DOMAIN w : IsNote(w[i]) /\ w[i].sub = id
            BY <2>4 DEF Missing
        <3>2. PICK k \in DOMAIN v : w[i] = v[k]
            BY <1>6
        <3>3. CASE \E j \in DOMAIN Out(c) : v[k] = Out(c)[j]
            BY <2>2, <3>1, <3>2, <3>3 DEF Missing
        <3>4. CASE \E j \in DOMAIN m : v[k] = m[j]
            BY <1>8, <2>2, <3>1, <3>2, <3>4 DEF Missing
        <3> QED BY <1>5, <3>3, <3>4
    <2> QED BY <2>3, <2>4
<1>12. /\ IsFiniteSet(Missing(I, Out(c))) /\ Cardinality(Missing(I, Out(c))) <= drops[c]
       /\ Missing(I, Out(c)) # {} => Len(Out(c)) >= MaxQueue
    BY <1>3 DEF AnnouncedTo
<1>13. IsFiniteSet(Missing(J, w)) /\ Cardinality(Missing(J, w)) <= drops[c] + over
    <2> DEFINE A == Missing(I, Out(c))
               D == A \cup E
    <2>1. /\ IsFiniteSet(D) /\ Cardinality(D) = Cardinality(A) + Cardinality(E) - Cardinality(A \cap E)
          /\ Cardinality(A) \in Nat /\ Cardinality(A \cap E) \in Nat
        <3>1. IsFiniteSet(A) /\ IsFiniteSet(E) /\ A \cap E \in SUBSET E
            BY <1>4, <1>12
        <3> HIDE DEF A
        <3> QED BY <3>1, FS_Union, FS_CardinalityType, FS_Subset
    <2>2. Missing(J, w) \in SUBSET D
        BY <1>11
    <2>3. Cardinality(A) <= drops[c]
        BY <1>12
    <2> HIDE DEF A, D, J, w
    <2>4. /\ IsFiniteSet(Missing(J, w)) /\ Cardinality(Missing(J, w)) <= Cardinality(D)
          /\ Cardinality(Missing(J, w)) \in Nat
        BY <2>1, <2>2, FS_Subset, FS_CardinalityType
    <2> QED BY <1>2, <1>4, <2>1, <2>3, <2>4
<1>14. Missing(J, w) # {} => Len(w) >= MaxQueue
    <2> DEFINE q == Enqueue(c, m).queue
               o == queue[c]
               s == sent[c]
    <2>1. /\ Len(w) = Len(s) + Len(q) /\ Len(Out(c)) = Len(s) + Len(o)
          /\ Len(s) \in Nat /\ Len(o) \in Nat /\ Len(q) \in Nat /\ Len(m) \in Nat
        BY <1>2, JoinAt DEF Out
    <2>2. (over > 0 => Len(q) = MaxQueue) /\ Len(q) = Len(o) + Len(m) - over
        BY <1>1
    <2> HIDE DEF q, o, s, w, J
    <2>3. CASE over > 0
        BY <1>2, <2>1, <2>2, <2>3
    <2>4. CASE over = 0
        <3>1. E = {}
            BY <2>4 DEF E
        <3>2. Len(w) = Len(Out(c)) + Len(m)
            BY <2>1, <2>2, <2>4
        <3>3. Missing(J, w) # {} => Len(Out(c)) >= MaxQueue
            BY <1>11, <1>12, <3>1
        <3>4. Len(Out(c)) \in Nat
            BY <1>2, LenProperties
        <3> QED BY <1>2, <3>2, <3>3, <3>4
    <2> QED BY <2>3, <2>4
<1>15. drops'[c] = drops[c] + over
    BY <1>1
<1> QED BY <1>3, <1>13, <1>14, <1>15 DEF AnnouncedTo

(* A client whose messages, subscriptions and count stay.                    *)
LEMMA StaysAnnounced ==
    ASSUME NEW c \in Client, AnnouncedTo(c),
           subs'[c] = subs[c], Out(c)' = Out(c), drops'[c] = drops[c]
    PROVE  AnnouncedTo(c)'
<1>1. OwnIds(c)' = OwnIds(c)
    BY DEF OwnIds
<1>2. Unannounced(c)' = Unannounced(c)
    BY <1>1 DEF Unannounced, IsNote, Reply
<1> QED BY <1>2 DEF AnnouncedTo

LEMMA AnswerAnnounces ==
    ASSUME IInv, \A d \in Client : AnnouncedTo(d), NEW c \in Client, Request(c),
           NEW a \in Answer, PutReply(c, a), \A d \in Client : d # c => subs'[d] = subs[d],
           \A s \in subs'[c] : s.id \in OwnIds(c) \/ a = Reply("subscribed", s.id)
    PROVE  \A d \in Client : AnnouncedTo(d)'
<1> DEFINE m == <<a>>
<1>1. Types /\ sent' = sent
    BY DEF IInv, Request
<1>2. /\ queue' = [queue EXCEPT ![c] = Enqueue(c, m).queue]
      /\ drops' = [drops EXCEPT ![c] = Enqueue(c, m).drops]
    BY DEF PutReply
<1>3. m \in Seq(Message) /\ DOMAIN m = {1} /\ m[1] = a /\ ~IsNote(a)
    BY DEF Message, Answer, IsNote
<1>4. \A d \in Client : d # c => queue'[d] = queue[d] /\ drops'[d] = drops[d]
    BY <1>1, <1>2 DEF Types, TypeOK
<1>5. queue'[c] = Enqueue(c, m).queue /\ drops'[c] = Enqueue(c, m).drops
    BY <1>1, <1>2 DEF Types, TypeOK
<1> HIDE DEF m
<1>6. AnnouncedTo(c)'
    BY <1>1, <1>3, <1>5, PutAnnounces
<1>7. \A d \in Client : d # c => AnnouncedTo(d)'
    BY <1>1, <1>4, StaysAnnounced DEF Out
<1> QED BY <1>6, <1>7

LEMMA EmitAnnounces ==
    ASSUME IInv, \A d \in Client : AnnouncedTo(d),
           replay.next \in 1 .. Len(Blocks), Emit(replay.next)
    PROVE  \A d \in Client : AnnouncedTo(d)'
<1> DEFINE B == replay.next .. BurstEnd(replay.next)
           burst == ItemsOf(B)
           box == [d \in InServer |-> Enqueue(d, Notes(d, burst))]
<1>1. Types /\ \A d \in Client : SubsOK(d)
    BY DEF IInv, ClientOK, StreamOK
<1>2. B \in SUBSET (1 .. Len(Blocks))
    <2>1. Len(Blocks) \in Nat
        BY BlocksAssumption
    <2>2. BurstEnd(replay.next) \in replay.next .. Len(Blocks)
        BY BurstEndFacts
    <2> QED BY <2>1, <2>2
<1>3. /\ queue' = [d \in Client |-> IF d \in InServer THEN box[d].queue ELSE queue[d]]
      /\ drops' = [d \in Client |-> IF d \in InServer THEN box[d].drops ELSE drops[d]]
      /\ UNCHANGED <<subs, sent>>
    BY DEF Emit
<1> HIDE DEF B
<1>4. ASSUME NEW d \in Client PROVE AnnouncedTo(d)'
    <2>1. CASE d \in InServer
        <3>1. /\ Notes(d, burst) \in Seq(Message)
              /\ \A i \in DOMAIN Notes(d, burst) :
                    \E s \in subs[d] : Notes(d, burst)[i].sub = s.id
            BY <1>1, <1>2, NotesFacts
        <3>2. queue'[d] = Enqueue(d, Notes(d, burst)).queue
              /\ drops'[d] = Enqueue(d, Notes(d, burst)).drops
            BY <1>3, <2>1
        <3> HIDE DEF burst
        <3>3. \A s \in subs'[d] : s.id \in OwnIds(d)
            BY <1>3 DEF OwnIds
        <3>4. \A i \in DOMAIN Notes(d, burst) : Notes(d, burst)[i].sub \in OwnIds(d)
            BY <3>1 DEF OwnIds
        <3> QED BY <1>1, <1>3, <3>1, <3>2, <3>3, <3>4, PutAnnounces
    <2>2. CASE d \notin InServer
        <3>1. queue'[d] = queue[d] /\ drops'[d] = drops[d]
            BY <1>3, <2>2
        <3> QED BY <1>3, <3>1, StaysAnnounced DEF Out
    <2> QED BY <2>1, <2>2
<1> QED BY <1>4

LEMMA NextAnnounces ==
    ASSUME IInv, \A d \in Client : AnnouncedTo(d), [Next]_vars
    PROVE  \A d \in Client : AnnouncedTo(d)'
<1>1. Types
    BY DEF IInv
<1>2. ASSUME NEW c \in Client, NEW kind \in {"newHeads", "logs"}, NEW f, Subscribe(c, kind, f)
      PROVE  \A d \in Client : AnnouncedTo(d)'
    <2> DEFINE a == Reply("subscribed", requests + 1)
               s == [id |-> requests + 1, kind |-> kind,
                     addresses |-> IF f = {} THEN Address ELSE f, since |-> replay.next]
    <2>1. Request(c) /\ PutReply(c, a) /\ subs' = [subs EXCEPT ![c] = @ \cup {s}]
        BY <1>2 DEF Subscribe
    <2>2. requests \in Nat /\ requests < MaxRequests /\ MaxRequests \in Nat
        BY <1>1, <1>2, OutIs, BoundsAssumption DEF Subscribe, Request
    <2>3. a \in Answer
        BY <2>2 DEF Answer, Reply
    <2>4. /\ \A d \in Client : d # c => subs'[d] = subs[d]
          /\ subs'[c] = subs[c] \cup {s}
        BY <1>1, <2>1 DEF Types, TypeOK
    <2>5. \A x \in subs'[c] : x.id \in OwnIds(c) \/ a = Reply("subscribed", x.id)
        BY <2>4 DEF OwnIds
    <2> QED BY <2>1, <2>3, <2>4, <2>5, AnswerAnnounces
<1>3. ASSUME NEW c \in Client, NEW id \in OwnIds(c) \cup {0}, Unsubscribe(c, id)
      PROVE  \A d \in Client : AnnouncedTo(d)'
    <2> DEFINE a == Reply("unsubscribed", id)
    <2>1. /\ Request(c) /\ PutReply(c, a)
          /\ subs' = [subs EXCEPT ![c] = {s \in @ : s.id # id}]
        BY <1>3 DEF Unsubscribe
    <2>2. a \in Answer
        <3>1. \A s \in subs[c] : s.id \in 1 .. MaxRequests
            BY <1>1, SubTypes
        <3>2. id \in 0 .. MaxRequests
            BY <1>3, <3>1, BoundsAssumption DEF OwnIds
        <3> QED BY <3>2 DEF Answer, Reply
    <2>3. /\ \A d \in Client : d # c => subs'[d] = subs[d]
          /\ subs'[c] \subseteq subs[c]
        BY <1>1, <2>1 DEF Types, TypeOK
    <2>4. \A x \in subs'[c] : x.id \in OwnIds(c)
        BY <2>3 DEF OwnIds
    <2> QED BY <2>1, <2>2, <2>3, <2>4, AnswerAnnounces
<1>4. ASSUME NEW c \in Client, UnknownMethod(c)
      PROVE  \A d \in Client : AnnouncedTo(d)'
    <2> DEFINE a == Reply("error", 0)
    <2>1. Request(c) /\ PutReply(c, a) /\ subs' = subs
        BY <1>4 DEF UnknownMethod
    <2>2. a \in Answer
        BY BoundsAssumption DEF Answer, Reply
    <2>3. \A x \in subs'[c] : x.id \in OwnIds(c)
        BY <2>1 DEF OwnIds
    <2> QED BY <2>1, <2>2, <2>3, AnswerAnnounces
<1>5. CASE ReplayStart \/ ReplayWake
    BY <1>5, Replays, EmitAnnounces
<1>6. ASSUME UNCHANGED <<subs, drops>>, \A d \in Client : Out(d)' = Out(d)
      PROVE  \A d \in Client : AnnouncedTo(d)'
    BY <1>6, StaysAnnounced
<1>7. CASE \E c \in Client : WriterSend(c)
    <2>1. UNCHANGED <<subs, drops>>
        BY <1>7 DEF WriterSend
    <2>2. \A d \in Client : Out(d)' = Out(d)
        BY <1>1, <1>7, WriterMoves
    <2> QED BY <1>6, <2>1, <2>2
<1>8. CASE \/ \E c \in Client : Connect(c) \/ Disconnect(c) \/ Discard(c) \/ WriterResume(c)
           \/ ReplayEndsEarly \/ RequestStop \/ StopStep \/ UNCHANGED vars
    <2>1. UNCHANGED <<subs, drops, sent, queue>>
        BY <1>8 DEF Connect, Disconnect, Discard, WriterResume, ReplayEndsEarly, RequestStop,
                    StopStep, RunStop, DrainNext, DrainDeadline, CloseAll, vars, clientVars
    <2>2. \A d \in Client : Out(d)' = Out(d)
        BY <2>1 DEF Out
    <2> QED BY <1>6, <2>1, <2>2
<1> QED BY <1>2, <1>3, <1>4, <1>5, <1>7, <1>8 DEF Next, ReplayStep

(* Every stream is in the replay's order, with nothing before its id or      *)
(* after its end; and its id was told, unless an eviction that is counted    *)
(* for the client took it, of a queue that was full: no client misses more   *)
(* ids than its count (_Client.enqueue, _reply, _fanout_head/_fanout_log).   *)
THEOREM StreamsInOrder == Spec => []StreamsSound
<1>1. IInv => TypeOK /\ StreamOrder
    <2> SUFFICES ASSUME IInv PROVE TypeOK /\ StreamOrder
        OBVIOUS
    <2>1. TypeOK /\ \A c \in Client : AllInLine(Out(c))
        BY DEF IInv, Types, ClientOK, StreamOK
    <2>2. ASSUME NEW c \in Client, NEW i \in DOMAIN Out(c), NEW j \in DOMAIN Out(c), i < j
          PROVE  LET m == Out(c)[i]
                     n == Out(c)[j]
                 IN  /\ IsNote(m) /\ IsNote(n) =>
                            \/ m.block < n.block
                            \/ m.block = n.block /\ m.row < n.row
                            \/ m.block = n.block /\ m.row = n.row /\ m.sub # n.sub
                     /\ m.sub = n.sub /\ m.sub # 0 =>
                            /\ n.type # "subscribed"
                            /\ IsNote(n) => m.type # "unsubscribed"
        <3>1. InLine(Out(c)[i], Out(c)[j])
            BY <2>1, <2>2 DEF AllInLine
        <3>2. Out(c)[i] \in Message /\ Out(c)[j] \in Message
            BY OutIs, ElementOfSeq, LenProperties DEF IInv
        <3>3. IsNote(Out(c)[i]) => Out(c)[i].sub \in Nat
            BY <3>2, NoticeFields DEF Message, Answer, IsNote
        <3> QED BY <3>1, <3>3 DEF InLine, Earlier
    <2>3. StreamOrder
        BY <2>2 DEF StreamOrder
    <2> QED BY <2>1, <2>3
<1> DEFINE Told == \A c \in Client : AnnouncedTo(c)
<1>2. Init => Told
    <2> SUFFICES ASSUME Init, NEW c \in Client PROVE AnnouncedTo(c)
        OBVIOUS
    <2>1. /\ subs[c] = {} /\ sent[c] = << >> /\ queue[c] = << >> /\ drops[c] = 0
        BY DEF Init
    <2>2. Out(c) = << >> /\ OwnIds(c) = {}
        BY <2>1 DEF Out, OwnIds
    <2>3. Unannounced(c) = {}
        BY <2>2 DEF Unannounced
    <2>4. IsFiniteSet({}) /\ Cardinality({}) = 0
        BY FS_EmptySet
    <2> QED BY <2>1, <2>3, <2>4 DEF AnnouncedTo
<1>3. IInv /\ Told /\ [Next]_vars => Told'
    BY NextAnnounces
<1>4. Told => Announced
    BY DEF Announced, AnnouncedTo
<1>5. (TypeOK /\ StreamOrder) /\ Announced => StreamsSound
    BY DEF StreamsSound
<1> HIDE DEF Told
<1> QED BY <1>1, <1>2, <1>3, <1>4, <1>5, MockInvariant, PTL DEF Spec

(* A client whose queue never overflowed has exactly the notifications of    *)
(* the blocks replayed since each of its subscriptions was made              *)
(* (_replay_loop, _fanout_head, _fanout_log).                                *)
THEOREM CompleteWithoutDrop == Spec => []NoGapWithoutDrop
<1>1. IInv => NoGapWithoutDrop
    <2> SUFFICES ASSUME IInv, NEW c \in Client, conn[c] = "open", drops[c] = 0, NEW s \in subs[c]
                 PROVE  {<<Out(c)[i].block, Out(c)[i].row>> : i \in NotesOf(c, s.id)}
                          = Owed(s, s.since .. replay.next - 1)
        BY DEF NoGapWithoutDrop, Owed
    <2>1. Got(Out(c), s.id) = Owed(s, s.since .. replay.next - 1)
        BY DEF IInv, ClientOK, StreamOK, Complete
    <2> QED BY <2>1 DEF Got, NotesOf
<1> QED BY <1>1, MockInvariant, PTL

(* A drain within its deadline leaves no event of a connected client         *)
(* unsent: one found empty stays without events while the others drain       *)
(* (run, _drain_and_close).                                                  *)
THEOREM DrainKeepsEvents == Spec => DrainLosesNoEvent
<1>1. IInv /\ [Next]_vars =>
         [server' = "closed" /\ server # "closed" /\ ~timedOut =>
              \A c \in Client : conn[c] = "open" =>
                  \A i \in DOMAIN queue[c] : ~IsNote(queue[c][i])]_vars
    <2> SUFFICES ASSUME IInv, Next, server' = "closed", server # "closed", ~timedOut,
                        NEW c \in Client, conn[c] = "open"
                 PROVE  \A i \in DOMAIN queue[c] : ~IsNote(queue[c][i])
        OBVIOUS
    <2>1. Drained(c)
        BY DEF IInv, ClientOK
    <2>2. server = "draining" /\ toDrain = {}
        BY DEF Next, Connect, Disconnect, Discard, Subscribe, Unsubscribe, UnknownMethod,
               Request, WriterSend, WriterResume, ReplayStep, ReplayStart, ReplayEndsEarly,
               ReplayWake, Emit, RequestStop, StopStep, RunStop, DrainNext, DrainDeadline,
               CloseAll, stopVars
    <2> QED BY <2>1, <2>2 DEF Drained
<1> QED BY <1>1, MockInvariant, PTL DEF Spec, DrainLosesNoEvent

-----------------------------------------------------------------------------
(* The pipeline.                                                             *)
(* The time of the last head read is the one the next log is stamped with.   *)
Stamped ==
    LET heads == HeadsBefore(Len(consumed) + 1)
    IN  IF heads = {} THEN currentTs = 0
        ELSE currentTs = consumed[Max(heads)].block

PipeInv == PipeTypeOK /\ writes = ingested /\ Stamped /\ IngestedExactly

-----------------------------------------------------------------------------
(* A set of positions has a last one, which is what Max chooses.             *)
LEMMA MaxOf ==
    ASSUME NEW S \in SUBSET Int, NEW x \in S, \A y \in S : y <= x
    PROVE  Max(S) = x
<1>1. Max(S) \in S /\ \A y \in S : Max(S) >= y
    BY DEF Max
<1>2. Max(S) \in Int /\ x \in Int
    BY <1>1
<1>3. QED
    BY <1>1, <1>2

LEMMA MaxIsMember ==
    ASSUME NEW n \in Nat, NEW S \in SUBSET (1 .. n), S # {}
    PROVE  Max(S) \in S /\ \A y \in S : y <= Max(S)
<1>1. 1 \in Int /\ n \in Int
    OBVIOUS
<1>2. IsFiniteSet(1 .. n)
    BY <1>1, FS_Interval
<1>3. IsFiniteSet(S)
    BY <1>2, FS_Subset
<1>4. S \in SUBSET Int
    OBVIOUS
<1>5. QED
    BY <1>3, <1>4, MaxIs

LEMMA MessageKinds ==
    ASSUME NEW m \in Messages
    PROVE  /\ m.kind \in {"head", "badHead", "log", "other"}
           /\ m.kind = "head" => m.block \in Block
           /\ m.kind = "badHead" => m = MalformedHead
           /\ m.kind = "log" => m.log \in Log
    BY DEF Messages, HeadMessages, LogMessages, HeadOf, LogOf, MalformedHead,
           OtherSubscription

(* The deque t that a write of e leaves of s: one longer until it is full,   *)
(* and shifted by one when it was.                                           *)
Pushed(s, e, t, gone) ==
    /\ Len(t) = Len(s) + 1 - gone
    /\ Len(t) = IF Len(s) < Capacity THEN Len(s) + 1 ELSE Capacity
    /\ t[Len(t)] = e
    /\ \A i \in 1 .. Len(s) : i > gone => t[i - gone] = s[i]

LEMMA AppendBoundedFacts ==
    ASSUME NEW S, NEW s \in Seq(S), NEW e \in S, Len(s) <= Capacity
    PROVE  /\ AppendBounded(s, e) \in Seq(S)
           /\ \E gone \in {0, 1} : Pushed(s, e, AppendBounded(s, e), gone)
<1>1. CASE Len(s) = Capacity
    <2>1. s # << >> /\ Len(s) \in Nat
        BY <1>1, CapacityAssumption
    <2>2. Tail(s) \in Seq(S) /\ Len(Tail(s)) = Len(s) - 1
        BY <2>1
    <2>3. \A i \in 1 .. Len(s) - 1 : Tail(s)[i] = s[i + 1]
        BY <2>1
    <2>4. PICK t \in Seq(S) : /\ t = Append(Tail(s), e) /\ Len(t) = Len(s)
                              /\ t[Len(s)] = e
                              /\ \A i \in 1 .. Len(s) - 1 : t[i] = Tail(s)[i]
        <3>1. PICK tail \in Seq(S) : tail = Tail(s) /\ Len(tail) = Len(s) - 1
            BY <2>2
        <3>2. /\ Append(tail, e) \in Seq(S) /\ Len(Append(tail, e)) = Len(s)
              /\ Append(tail, e)[Len(s)] = e
              /\ \A i \in 1 .. Len(s) - 1 : Append(tail, e)[i] = tail[i]
            BY <2>1, <3>1
        <3>3. QED
            BY <3>1, <3>2
    <2>5. AppendBounded(s, e) = t
        BY <1>1, <2>4 DEF AppendBounded, Evict
    <2>6. \A i \in 1 .. Len(s) : i > 1 => t[i - 1] = s[i]
        BY <2>1, <2>3, <2>4
    <2>7. Pushed(s, e, t, 1)
        BY <1>1, <2>1, <2>4, <2>6 DEF Pushed
    <2>8. QED
        BY <2>5, <2>7
<1>2. CASE Len(s) # Capacity
    <2>1. PICK t \in Seq(S) : /\ t = Append(s, e) /\ Len(t) = Len(s) + 1
                              /\ t[Len(s) + 1] = e
                              /\ \A i \in 1 .. Len(s) : t[i] = s[i]
        <3>1. /\ Append(s, e) \in Seq(S) /\ Len(Append(s, e)) = Len(s) + 1
              /\ Append(s, e)[Len(s) + 1] = e
              /\ \A i \in 1 .. Len(s) : Append(s, e)[i] = s[i]
            OBVIOUS
        <3>2. QED
            BY <3>1
    <2>2. AppendBounded(s, e) = t
        BY <1>2, <2>1 DEF AppendBounded, Evict
    <2>3. Len(s) < Capacity /\ Len(s) \in Nat
        BY <1>2, CapacityAssumption
    <2>4. Pushed(s, e, t, 0)
        BY <2>1, <2>3 DEF Pushed
    <2>5. QED
        BY <2>2, <2>4
<1>3. QED
    BY <1>1, <1>2

-----------------------------------------------------------------------------
LEMMA PositionsFinite ==
    ASSUME NEW n \in Nat
    PROVE  /\ IsFiniteSet(HeadsBefore(n + 1)) /\ HeadsBefore(n + 1) \subseteq 1 .. n
           /\ IsFiniteSet(Routables(n)) /\ Routables(n) \subseteq 1 .. n
<1>1. IsFiniteSet(1 .. n)
    BY FS_Interval
<1>2. HeadsBefore(n + 1) \subseteq 1 .. n /\ Routables(n) \subseteq 1 .. n
    BY DEF HeadsBefore, Routables
<1>3. QED
    BY <1>1, <1>2, FS_Subset

(* What one more message changes: the positions before it call for what they *)
(* did, and the message for an event if it is a routable log behind a head.  *)
LEMMA OneMore ==
    ASSUME NEW n \in Nat, consumed \in Seq(Messages), Len(consumed) = n,
           NEW m \in Messages, consumed' = Append(consumed, m)
    PROVE  /\ \A i \in 1 .. n + 1 : HeadsBefore(i)' = HeadsBefore(i)
           /\ HeadsBefore(n + 2)' = IF m.kind = "head" THEN HeadsBefore(n + 1) \cup {n + 1}
                                    ELSE HeadsBefore(n + 1)
           /\ \A i \in 1 .. n : Routables(i)' = Routables(i)
           /\ Routables(n + 1)' =
                 IF /\ m.kind = "log" /\ m.log.outcome = "event"
                    /\ HeadsBefore(n + 1) # {}
                 THEN Routables(n) \cup {n + 1} ELSE Routables(n)
           /\ \A i \in Routables(n) : DueAt(i)' = DueAt(i)
<1>1. /\ consumed' \in Seq(Messages) /\ Len(consumed') = n + 1
      /\ \A i \in 1 .. n : consumed'[i] = consumed[i]
      /\ consumed'[n + 1] = m
    OBVIOUS
<1>2. \A i \in 1 .. n + 1 : HeadsBefore(i)' = HeadsBefore(i)
    BY <1>1 DEF HeadsBefore
<1>3. HeadsBefore(n + 2)' = IF m.kind = "head" THEN HeadsBefore(n + 1) \cup {n + 1}
                           ELSE HeadsBefore(n + 1)
    BY <1>1 DEF HeadsBefore
<1>4. \A i \in 1 .. n : Routable(i)' <=> Routable(i)
    BY <1>1, <1>2 DEF Routable
<1>5. Routable(n + 1)' <=> (/\ m.kind = "log" /\ m.log.outcome = "event"
                           /\ HeadsBefore(n + 1) # {})
    <2>1. HeadsBefore(n + 1)' = HeadsBefore(n + 1)
        BY <1>2
    <2>2. QED
        BY <1>1, <2>1 DEF Routable
<1>6. \A i \in 1 .. n : Routables(i)' = Routables(i)
    BY <1>4 DEF Routables
<1>7. Routables(n + 1)' = IF /\ m.kind = "log" /\ m.log.outcome = "event"
                            /\ HeadsBefore(n + 1) # {}
                         THEN Routables(n) \cup {n + 1} ELSE Routables(n)
    <2>1. CASE Routable(n + 1)'
        <3>1. Routables(n + 1)' = Routables(n) \cup {n + 1}
            BY <1>4, <2>1 DEF Routables
        <3>2. QED
            BY <1>5, <2>1, <3>1
    <2>2. CASE ~Routable(n + 1)'
        <3>1. Routables(n + 1)' = Routables(n)
            BY <1>4, <2>2 DEF Routables
        <3>2. QED
            BY <1>5, <2>2, <3>1
    <2>3. QED
        BY <2>1, <2>2
<1>8. ASSUME NEW i \in Routables(n)
      PROVE  DueAt(i)' = DueAt(i)
    <2>1. i \in 1 .. n /\ HeadsBefore(i) # {}
        BY DEF Routables, Routable
    <2>2. HeadsBefore(i) \in SUBSET (1 .. i - 1)
        BY DEF HeadsBefore
    <2>3. Max(HeadsBefore(i)) \in 1 .. n
        <3>1. i - 1 \in Nat
            BY <2>1
        <3>2. Max(HeadsBefore(i)) \in 1 .. i - 1
            BY <2>1, <2>2, <3>1, MaxIsMember
        <3>3. QED
            BY <2>1, <3>2
    <2>4. HeadsBefore(i)' = HeadsBefore(i)
        BY <1>2, <2>1
    <2>5. QED
        BY <1>1, <2>1, <2>3, <2>4 DEF DueAt
<1>9. QED
    BY <1>2, <1>3, <1>6, <1>7, <1>8

(* The last head stays the last until another is read.                       *)
LEMMA StampedStep ==
    ASSUME PipeTypeOK, Stamped, NEW m \in Messages, consumed' = Append(consumed, m),
           currentTs' = IF m.kind = "head" THEN m.block ELSE currentTs
    PROVE  Stamped'
<1>1. PICK n \in Nat : n = Len(consumed) /\ consumed \in Seq(Messages)
    BY DEF PipeTypeOK
<1>2. /\ Len(consumed') = n + 1 /\ consumed'[n + 1] = m
      /\ \A i \in 1 .. n : consumed'[i] = consumed[i]
    BY <1>1
<1>3. HeadsBefore(n + 2)' = IF m.kind = "head" THEN HeadsBefore(n + 1) \cup {n + 1}
                           ELSE HeadsBefore(n + 1)
    BY <1>1, OneMore
<1>4. HeadsBefore(n + 1) \in SUBSET (1 .. n)
    BY <1>1, PositionsFinite
<1>5. LET heads == HeadsBefore(n + 2)'
      IN  IF heads = {} THEN currentTs' = 0 ELSE currentTs' = consumed'[Max(heads)].block
    <2>1. CASE m.kind = "head"
        <3>1. Max(HeadsBefore(n + 1) \cup {n + 1}) = n + 1
            <4>1. /\ HeadsBefore(n + 1) \cup {n + 1} \in SUBSET Int
                  /\ \A i \in HeadsBefore(n + 1) \cup {n + 1} : i <= n + 1
                BY <1>4
            <4>2. QED
                BY <4>1, MaxOf
        <3>2. QED
            BY <1>2, <1>3, <2>1, <3>1
    <2>2. CASE m.kind # "head" /\ HeadsBefore(n + 1) = {}
        BY <1>1, <1>3, <2>2 DEF Stamped
    <2>3. CASE m.kind # "head" /\ HeadsBefore(n + 1) # {}
        <3>1. Max(HeadsBefore(n + 1)) \in 1 .. n
            BY <1>1, <1>4, <2>3, MaxIsMember
        <3>2. currentTs = consumed[Max(HeadsBefore(n + 1))].block
            BY <1>1, <2>3 DEF Stamped
        <3>3. QED
            BY <1>2, <1>3, <2>3, <3>1, <3>2
    <2>4. QED
        BY <2>1, <2>2, <2>3
<1>6. HeadsBefore(Len(consumed) + 1)' = HeadsBefore(n + 2)'
    BY <1>1, <1>2 DEF HeadsBefore
<1>7. QED
    BY <1>5, <1>6 DEF Stamped

LEMMA RankFacts ==
    ASSUME NEW n \in Nat
    PROVE  /\ Rank(n) \in Nat
           /\ \A i \in 1 .. n : Rank(i) \in Nat /\ Rank(i) <= Rank(n)
<1>1. IsFiniteSet(Routables(n))
    BY PositionsFinite
<1>2. \A i \in 1 .. n : Routables(i) \subseteq Routables(n)
    BY DEF Routables
<1>3. QED
    BY <1>1, <1>2, FS_Subset, FS_CardinalityType DEF Rank

(* The account over n messages.                                              *)
LEMMA ExactFor ==
    ASSUME NEW n \in Nat, Len(consumed') = n,
           ingested' = Rank(n)',
           Len(deque') = IF ingested' < Capacity THEN ingested' ELSE Capacity,
           NEW evicted, evicted = ingested' - Len(deque'),
           \A i \in Routables(n)' :
              Rank(i)' > evicted => deque'[Rank(i)' - evicted] = DueAt(i)',
           blocks' = Cardinality(HeadsBefore(n + 1)')
    PROVE  IngestedExactly'
<1>1. Routables(Len(consumed))' = Routables(n)'
    BY DEF Routables
<1>2. Rank(Len(consumed))' = Rank(n)'
    BY <1>1 DEF Rank
<1>3. HeadsBefore(Len(consumed) + 1)' = HeadsBefore(n + 1)'
    BY DEF HeadsBefore
<1>4. QED
    BY <1>1, <1>2, <1>3 DEF IngestedExactly

(* A message that calls for no event leaves the account, but for the head it *)
(* is.                                                                       *)
LEMMA ExactWithout ==
    ASSUME PipeTypeOK, IngestedExactly, NEW m \in Messages, consumed' = Append(consumed, m),
           HeadsBefore(Len(consumed) + 1) = {} \/ m.kind # "log" \/ m.log.outcome # "event",
           deque' = deque, ingested' = ingested,
           blocks' = IF m.kind = "head" THEN blocks + 1 ELSE blocks
    PROVE  IngestedExactly'
<1>1. PICK n \in Nat : n = Len(consumed) /\ consumed \in Seq(Messages)
    BY DEF PipeTypeOK
<1>2. Len(consumed') = n + 1
    BY <1>1
<1>3. Routables(n + 1)' = Routables(n) /\ \A i \in 1 .. n : Routables(i)' = Routables(i)
    BY <1>1, OneMore
<1>4. \A i \in Routables(n) : DueAt(i)' = DueAt(i)
    BY <1>1, OneMore
<1>5. Routables(n) \subseteq 1 .. n
    BY PositionsFinite
<1>6. Rank(n + 1)' = Rank(n) /\ \A i \in Routables(n) : Rank(i)' = Rank(i)
    BY <1>3, <1>5 DEF Rank
<1>7. blocks' = Cardinality(HeadsBefore(n + 2)')
    <2>1. IsFiniteSet(HeadsBefore(n + 1)) /\ n + 1 \notin HeadsBefore(n + 1)
        <3>1. IsFiniteSet(HeadsBefore(n + 1)) /\ HeadsBefore(n + 1) \subseteq 1 .. n
            BY PositionsFinite
        <3>2. QED
            BY <3>1
    <2>2. HeadsBefore(n + 2)' = IF m.kind = "head" THEN HeadsBefore(n + 1) \cup {n + 1}
                               ELSE HeadsBefore(n + 1)
        BY <1>1, OneMore
    <2>3. blocks = Cardinality(HeadsBefore(n + 1))
        BY <1>1 DEF IngestedExactly
    <2>4. QED
        BY <2>1, <2>2, <2>3, FS_AddElement
<1>8. /\ ingested = Rank(n)
      /\ Len(deque) = IF ingested < Capacity THEN ingested ELSE Capacity
      /\ \A i \in Routables(n) : Rank(i) > ingested - Len(deque) =>
            deque[Rank(i) - (ingested - Len(deque))] = DueAt(i)
    BY <1>1 DEF IngestedExactly
<1>9. /\ ingested' = Rank(n + 1)'
      /\ \A i \in Routables(n + 1)' :
            Rank(i)' > ingested' - Len(deque') =>
                deque'[Rank(i)' - (ingested' - Len(deque'))] = DueAt(i)'
    BY <1>3, <1>4, <1>6, <1>8
<1>10. n + 1 + 1 = n + 2 /\ n + 1 \in Nat
    OBVIOUS
<1>11. QED
    BY <1>2, <1>7, <1>8, <1>9, <1>10, ExactFor

(* A routable log is one more event, at the end of the buffer.               *)
LEMMA ExactWith ==
    ASSUME PipeTypeOK, Stamped, IngestedExactly,
           NEW m \in Messages, consumed' = Append(consumed, m),
           m.kind = "log", m.log.outcome = "event", currentTs # 0,
           EventOf(m.log, currentTs) \in Event,
           deque' = AppendBounded(deque, EventOf(m.log, currentTs)),
           ingested' = ingested + 1, blocks' = blocks
    PROVE  IngestedExactly'
<1>1. PICK n \in Nat : n = Len(consumed) /\ consumed \in Seq(Messages)
    BY DEF PipeTypeOK
<1>2. /\ Len(consumed') = n + 1 /\ consumed'[n + 1] = m
      /\ \A i \in 1 .. n : consumed'[i] = consumed[i]
    BY <1>1
<1>3. /\ HeadsBefore(n + 1) # {} /\ HeadsBefore(n + 1) \in SUBSET (1 .. n)
      /\ currentTs = consumed[Max(HeadsBefore(n + 1))].block
    BY <1>1, PositionsFinite DEF Stamped
<1>4. /\ Routables(n + 1)' = Routables(n) \cup {n + 1}
      /\ \A i \in 1 .. n : Routables(i)' = Routables(i)
    BY <1>1, <1>3, OneMore
<1>5. /\ \A i \in Routables(n) : DueAt(i)' = DueAt(i)
      /\ HeadsBefore(n + 1)' = HeadsBefore(n + 1)
      /\ HeadsBefore(n + 2)' = HeadsBefore(n + 1)
    <2>1. \A i \in Routables(n) : DueAt(i)' = DueAt(i)
        BY <1>1, OneMore
    <2>2. /\ \A i \in 1 .. n + 1 : HeadsBefore(i)' = HeadsBefore(i)
          /\ HeadsBefore(n + 2)' = HeadsBefore(n + 1)
        BY <1>1, OneMore
    <2>3. QED
        BY <2>1, <2>2
<1>6. DueAt(n + 1)' = EventOf(m.log, currentTs)
    <2>1. Max(HeadsBefore(n + 1)) \in 1 .. n
        BY <1>3, MaxIsMember
    <2>2. QED
        BY <1>2, <1>3, <1>5, <2>1 DEF DueAt
<1>7. IsFiniteSet(Routables(n)) /\ Routables(n) \subseteq 1 .. n
    BY PositionsFinite
<1>8. Rank(n + 1)' = Rank(n) + 1 /\ \A i \in Routables(n) : Rank(i)' = Rank(i)
    <2>1. n + 1 \notin Routables(n)
        BY <1>7
    <2>2. Cardinality(Routables(n) \cup {n + 1}) = Cardinality(Routables(n)) + 1
        BY <1>7, <2>1, FS_AddElement
    <2>3. \A i \in Routables(n) : Routables(i)' = Routables(i)
        BY <1>4, <1>7
    <2>4. QED
        BY <1>4, <2>2, <2>3 DEF Rank
<1>9. Rank(n) \in Nat /\ \A i \in Routables(n) : Rank(i) \in Nat /\ Rank(i) <= Rank(n)
    BY <1>7, RankFacts
<1>10. /\ ingested = Rank(n)
       /\ Len(deque) = IF ingested < Capacity THEN ingested ELSE Capacity
       /\ blocks = Cardinality(HeadsBefore(n + 1))
    BY <1>1 DEF IngestedExactly
<1>11. \A i \in Routables(n) : Rank(i) > ingested - Len(deque) =>
            deque[Rank(i) - (ingested - Len(deque))] = DueAt(i)
    BY <1>1 DEF IngestedExactly
<1>12. /\ deque \in Seq(Event) /\ Len(deque) \in Nat
       /\ Len(deque) <= Capacity /\ Capacity \in Nat
    BY <1>9, <1>10, CapacityAssumption DEF PipeTypeOK, DequeTypeOK
<1>13. PICK gone \in {0, 1} :
          /\ Len(deque') = Len(deque) + 1 - gone
          /\ Len(deque') = IF Len(deque) < Capacity THEN Len(deque) + 1 ELSE Capacity
          /\ deque'[Len(deque')] = EventOf(m.log, currentTs)
          /\ \A i \in 1 .. Len(deque) : i > gone => deque'[i - gone] = deque[i]
    <2>1. PICK e \in Event : e = EventOf(m.log, currentTs)
        OBVIOUS
    <2>2. deque \in Seq(Event) /\ Len(deque) <= Capacity
        BY <1>12
    <2>3. \E gone \in {0, 1} : Pushed(deque, e, AppendBounded(deque, e), gone)
        BY <2>2, AppendBoundedFacts
    <2>4. \E gone \in {0, 1} : Pushed(deque, e, deque', gone)
        BY <2>1, <2>3
    <2>5. QED
        BY <2>1, <2>4 DEF Pushed
<1>14. PICK evicted : evicted = ingested' - Len(deque')
    OBVIOUS
<1>15. evicted = ingested - Len(deque) + gone /\ evicted \in Nat
    <2>1. ingested \in Nat /\ Len(deque) <= ingested
        BY <1>9, <1>10, <1>12
    <2>2. Len(deque') = Len(deque) + 1 - gone /\ ingested' = ingested + 1
        BY <1>13
    <2>3. QED
        BY <1>12, <1>14, <2>1, <2>2
<1>16. ASSUME NEW i \in Routables(n + 1)', Rank(i)' > evicted
       PROVE  deque'[Rank(i)' - evicted] = DueAt(i)'
    <2>1. CASE i = n + 1
        <3>1. Rank(i)' - evicted = Len(deque')
            <4>1. Rank(n + 1)' = ingested + 1
                BY <1>8, <1>10
            <4>2. ingested \in Nat /\ evicted = ingested + 1 - Len(deque')
                BY <1>9, <1>10, <1>14
            <4>3. Len(deque') = Len(deque) + 1 - gone
                BY <1>13
            <4>4. Len(deque') \in Nat
                BY <1>12, <4>3
            <4>5. Rank(i)' = ingested + 1
                BY <2>1, <4>1
            <4>6. QED
                BY <4>2, <4>4, <4>5
        <3>2. QED
            BY <1>6, <1>13, <2>1, <3>1
    <2>2. CASE i \in Routables(n)
        <3>1. Rank(i)' = Rank(i) /\ Rank(i) \in Nat /\ Rank(i) <= ingested
            BY <1>8, <1>9, <1>10, <2>2
        <3>2. PICK k \in Int : k = Rank(i) - (ingested - Len(deque))
            BY <1>9, <1>10, <1>12, <3>1
        <3>3. k \in 1 .. Len(deque) /\ k > gone /\ Rank(i)' - evicted = k - gone
            <4>1. ingested \in Nat /\ Len(deque) <= ingested
                BY <1>9, <1>10, <1>12
            <4>2. Rank(i) > evicted
                BY <1>16, <3>1
            <4>3. evicted = ingested - Len(deque) + gone /\ Len(deque) \in Nat
                BY <1>12, <1>15
            <4>4. k > gone
                BY <3>1, <3>2, <4>1, <4>2, <4>3
            <4>5. k <= Len(deque)
                BY <3>1, <3>2, <4>1, <4>3
            <4>6. Rank(i)' - evicted = k - gone
                BY <3>1, <3>2, <4>1, <4>3
            <4>7. QED
                BY <4>3, <4>4, <4>5, <4>6
        <3>4. Rank(i) > ingested - Len(deque)
            BY <1>9, <1>10, <1>12, <3>1, <3>2, <3>3
        <3>5. deque[k] = DueAt(i)
            BY <1>11, <2>2, <3>2, <3>4
        <3>6. QED
            BY <1>5, <1>13, <2>2, <3>3, <3>5
    <2>3. QED
        BY <1>4, <1>16, <2>1, <2>2
<1>17. Len(deque') = IF ingested' < Capacity THEN ingested' ELSE Capacity
    BY <1>9, <1>10, <1>12, <1>13
<1>18. /\ ingested' = Rank(n + 1)' /\ n + 1 \in Nat /\ n + 1 + 1 = n + 2
       /\ blocks' = Cardinality(HeadsBefore(n + 2)')
    BY <1>5, <1>8, <1>10
<1>19. QED
    BY <1>2, <1>14, <1>16, <1>17, <1>18, ExactFor

-----------------------------------------------------------------------------
LEMMA PipeInitInv == PipeInit => PipeInv
<1> SUFFICES ASSUME PipeInit
             PROVE  PipeInv
    OBVIOUS
<1>1. /\ deque = << >> /\ writes = 0 /\ consumed = << >> /\ inbox = << >>
      /\ currentTs = 0 /\ blocks = 0 /\ ingested = 0
    BY DEF PipeInit, DequeInit
<1>2. PipeTypeOK
    <2>1. DequeTypeOK
        BY <1>1, CapacityAssumption, MaxWritesAssumption DEF DequeTypeOK
    <2>2. inbox \in Seq(Messages) /\ consumed \in Seq(Messages)
        BY <1>1
    <2>3. phase = "connecting" /\ stop = FALSE /\ connected = "no" /\ failure = "none"
        BY DEF PipeInit
    <2>4. QED
        BY <1>1, <2>1, <2>2, <2>3 DEF PipeTypeOK, Phases
<1>3. /\ Len(consumed) = 0
      /\ HeadsBefore(Len(consumed) + 1) = {} /\ Routables(Len(consumed)) = {}
    BY <1>1 DEF HeadsBefore, Routables
<1>4. Stamped
    BY <1>1, <1>3 DEF Stamped
<1>5. Rank(Len(consumed)) = 0 /\ Cardinality(HeadsBefore(Len(consumed) + 1)) = 0
    BY <1>3, FS_EmptySet DEF Rank
<1>6. IngestedExactly
    BY <1>1, <1>3, <1>5, CapacityAssumption DEF IngestedExactly
<1>7. QED
    BY <1>1, <1>2, <1>4, <1>6 DEF PipeInv

(* Nothing else disturbs the account.                                        *)
LEMMA UntouchedKeeps ==
    ASSUME Stamped, IngestedExactly, UNCHANGED <<dequeVars, consumed, counterVars>>
    PROVE  Stamped' /\ IngestedExactly'
<1>1. /\ deque' = deque /\ consumed' = consumed /\ currentTs' = currentTs
      /\ blocks' = blocks /\ ingested' = ingested
    BY DEF dequeVars, counterVars
<1>2. Stamped'
    BY <1>1 DEF Stamped, HeadsBefore
<1>3. IngestedExactly'
    <2>1. \A i : HeadsBefore(i)' = HeadsBefore(i)
        BY <1>1 DEF HeadsBefore
    <2>2. \A i : Routable(i)' <=> Routable(i)
        BY <1>1, <2>1 DEF Routable
    <2>3. \A i : Routables(i)' = Routables(i) /\ Rank(i)' = Rank(i) /\ DueAt(i)' = DueAt(i)
        BY <1>1, <2>1, <2>2 DEF Routables, Rank, DueAt
    <2>4. PICK n : n = Len(consumed)
        OBVIOUS
    <2>5. /\ Routables(Len(consumed))' = Routables(n)' /\ Rank(Len(consumed))' = Rank(n)'
          /\ HeadsBefore(Len(consumed) + 1)' = HeadsBefore(n + 1)'
        BY <1>1, <2>4 DEF Routables, Rank, HeadsBefore
    <2>6. QED
        BY <1>1, <2>1, <2>3, <2>4, <2>5 DEF IngestedExactly
<1>4. QED
    BY <1>2, <1>3

LEMMA TakeFacts ==
    ASSUME PipeTypeOK, NEW m \in Messages, Take(m)
    PROVE  /\ inbox' \in Seq(Messages) /\ consumed' \in Seq(Messages)
           /\ consumed' = Append(consumed, m) /\ Last(consumed') = m
           /\ stop' = stop /\ connected' = connected
    BY DEF PipeTypeOK, Take, Last, nodeVars

(* The loop's actions.                                                       *)
LEMMA ConsumeKeeps ==
    ASSUME PipeInv, NEW m \in Messages,
           OnHead(m) \/ OnMalformedHead(m) \/ OnSkippedLog(m) \/ OnEvent(m)
    PROVE  PipeInv'
<1>1. Take(m)
    BY DEF OnHead, OnMalformedHead, OnSkippedLog, OnEvent
<1>2. PipeTypeOK /\ Stamped /\ IngestedExactly /\ writes = ingested
    BY DEF PipeInv
<1>3. /\ inbox' \in Seq(Messages) /\ consumed' \in Seq(Messages)
      /\ consumed' = Append(consumed, m)
      /\ stop' \in BOOLEAN /\ connected' \in {"no", "up", "closed", "lost"}
    BY <1>1, <1>2, TakeFacts DEF PipeTypeOK
<1>4. NextRound \in Phases
    BY DEF NextRound, Phases
<1>5. CASE OnHead(m)
    <2>1. /\ UNCHANGED dequeVars /\ ingested' = ingested /\ failure' = failure
          /\ currentTs' = m.block /\ blocks' = blocks + 1 /\ phase' \in Phases
          /\ m.kind = "head"
        BY <1>4, <1>5 DEF OnHead
    <2>2. deque' = deque /\ writes' = writes
        BY <2>1 DEF dequeVars
    <2>3. PipeTypeOK'
        BY <1>2, <1>3, <2>1, <2>2, MessageKinds DEF PipeTypeOK, DequeTypeOK
    <2>4. Stamped'
        BY <1>2, <1>3, <2>1, StampedStep
    <2>5. IngestedExactly'
        BY <1>2, <1>3, <2>1, <2>2, ExactWithout
    <2>6. QED
        BY <1>2, <2>1, <2>2, <2>3, <2>4, <2>5 DEF PipeInv
<1>6. CASE OnMalformedHead(m) \/ OnSkippedLog(m)
    <2>1. /\ deque' = deque /\ writes' = writes /\ ingested' = ingested
          /\ currentTs' = currentTs /\ blocks' = blocks /\ phase' \in Phases
          /\ failure' \in {failure, "head"}
        BY <1>4, <1>6 DEF OnMalformedHead, OnSkippedLog, dequeVars, counterVars, Phases
    <2>2. /\ m.kind # "head"
          /\ m.kind # "log" \/ currentTs = 0 \/ m.log.outcome # "event"
        BY <1>6 DEF OnMalformedHead, OnSkippedLog
    <2>3. PipeTypeOK'
        BY <1>2, <1>3, <2>1 DEF PipeTypeOK, DequeTypeOK
    <2>4. Stamped'
        BY <1>2, <1>3, <2>1, <2>2, StampedStep
    <2>5. currentTs = 0 => HeadsBefore(Len(consumed) + 1) = {}
        <3>1. PICK n \in Nat : n = Len(consumed) /\ consumed \in Seq(Messages)
            BY <1>2 DEF PipeTypeOK
        <3>2. ASSUME HeadsBefore(n + 1) # {}
              PROVE  currentTs # 0
            <4>1. /\ HeadsBefore(n + 1) \in SUBSET (1 .. n)
                  /\ \A j \in HeadsBefore(n + 1) : consumed[j].kind = "head"
                BY PositionsFinite DEF HeadsBefore
            <4>2. PICK j \in 1 .. n : /\ j = Max(HeadsBefore(n + 1))
                                      /\ consumed[j].kind = "head"
                BY <3>2, <4>1, MaxIsMember
            <4>3. consumed[j] \in Messages
                BY <3>1, <4>2
            <4>4. consumed[j].block \in Block
                BY <4>2, <4>3, MessageKinds
            <4>5. QED
                BY <1>2, <3>1, <3>2, <4>2, <4>4, BlockAssumption DEF Stamped
        <3>3. QED
            BY <3>1, <3>2
    <2>6. IngestedExactly'
        BY <1>2, <1>3, <2>1, <2>2, <2>5, ExactWithout
    <2>7. QED
        BY <1>2, <2>1, <2>3, <2>4, <2>6 DEF PipeInv
<1>7. CASE OnEvent(m)
    <2>1. /\ m.kind = "log" /\ currentTs # 0 /\ m.log.outcome = "event"
          /\ deque' = AppendBounded(deque, EventOf(m.log, currentTs))
          /\ writes < MaxWrites /\ writes' = writes + 1 /\ ingested' = ingested + 1
          /\ currentTs' = currentTs /\ blocks' = blocks /\ failure' = failure
          /\ phase' \in Phases
        BY <1>4, <1>7 DEF OnEvent, DequeWrite
    <2>2. EventOf(m.log, currentTs) \in Event
        <3>1. m.log \in Log /\ currentTs \in Block
            BY <1>2, <2>1, MessageKinds DEF PipeTypeOK
        <3>2. QED
            BY <3>1, EventAssumption
    <2>3. IngestedExactly'
        BY <1>2, <1>3, <2>1, <2>2, ExactWith
    <2>4. Stamped'
        BY <1>2, <1>3, <2>1, StampedStep
    <2>5. deque' \in Seq(Event)
        <3>1. deque \in Seq(Event) /\ Len(deque) <= Capacity
            BY <1>2, CapacityAssumption DEF PipeTypeOK, DequeTypeOK
        <3>2. QED
            BY <2>1, <2>2, <3>1, AppendBoundedFacts
    <2>6. Len(deque') = IF writes' < Capacity THEN writes' ELSE Capacity
        BY <1>2, <2>1, <2>3 DEF IngestedExactly
    <2>7. writes' \in 0 .. MaxWrites /\ ingested' \in Nat
        BY <1>2, <2>1, MaxWritesAssumption DEF PipeTypeOK, DequeTypeOK
    <2>8. PipeTypeOK'
        BY <1>2, <1>3, <2>1, <2>5, <2>6, <2>7 DEF PipeTypeOK, DequeTypeOK
    <2>9. QED
        BY <1>2, <2>1, <2>3, <2>4, <2>8 DEF PipeInv
<1>8. QED
    BY <1>5, <1>6, <1>7

LEMMA PipeStepInv == PipeInv /\ [PipeNext]_pipeVars => PipeInv'
<1> SUFFICES ASSUME PipeInv, [PipeNext]_pipeVars
             PROVE  PipeInv'
    OBVIOUS
<1>1. CASE Consume
    BY <1>1, ConsumeKeeps DEF Consume
<1>2. ASSUME UNCHANGED <<dequeVars, consumed, counterVars>>, PipeTypeOK'
      PROVE  PipeInv'
    <2>1. writes' = writes /\ ingested' = ingested
        BY <1>2 DEF dequeVars, counterVars
    <2>2. QED
        BY <1>2, <2>1, UntouchedKeeps DEF PipeInv
<1>3. ASSUME \/ Setup \/ Idle \/ StreamEnds \/ Close
             \/ \E m \in Messages : NodeSends(m)
             \/ NodeLeaves \/ SetStop
      PROVE  UNCHANGED <<dequeVars, consumed, counterVars>>
    BY <1>3 DEF Setup, ConnectSucceeds, ConnectFails, HeadsSubscribed, LogsSubscribed,
       SubscribeFails, Idle, StreamEnds, Close, NodeSends, NodeLeaves, SetStop
<1>4. ASSUME UNCHANGED <<dequeVars, consumed, counterVars>>,
             inbox' \in Seq(Messages), phase' \in Phases, stop' \in BOOLEAN,
             connected' \in {"no", "up", "closed", "lost"},
             failure' \in {"none", "connect", "request", "connection", "head"}
      PROVE  PipeTypeOK'
    BY <1>4 DEF PipeInv, PipeTypeOK, DequeTypeOK, dequeVars, counterVars
<1>5. PipeTypeOK
    BY DEF PipeInv
<1>6. CASE Setup
    BY <1>2, <1>3, <1>4, <1>5, <1>6 DEF Setup, ConnectSucceeds, ConnectFails, HeadsSubscribed,
       LogsSubscribed, SubscribeFails, NextRound, PipeTypeOK, Phases, nodeVars
<1>7. CASE Idle \/ StreamEnds \/ Close
    BY <1>2, <1>3, <1>4, <1>5, <1>7 DEF Idle, StreamEnds, Close, PipeTypeOK, Phases,
       nodeVars
<1>8. CASE \E m \in Messages : NodeSends(m)
    BY <1>2, <1>3, <1>4, <1>5, <1>8 DEF NodeSends, PipeTypeOK, nodeVars
<1>9. CASE NodeLeaves \/ SetStop
    BY <1>2, <1>3, <1>4, <1>5, <1>9 DEF NodeLeaves, SetStop, PipeTypeOK
<1>10. CASE UNCHANGED pipeVars
    BY <1>2, <1>4, <1>5, <1>10 DEF pipeVars, PipeTypeOK, nodeVars
<1>11. QED
    BY <1>1, <1>6, <1>7, <1>8, <1>9, <1>10 DEF PipeNext, Step, Loop

(* The account is exact, and the time of the last head is the one kept, in   *)
(* every state of run_realtime (pipeline.py:74-99).                          *)
THEOREM PipelineInvariant == PipeSpec => []PipeInv
    BY PipeInitInv, PipeStepInv, PTL DEF PipeSpec

(* The ring buffer is exactly the newest Capacity of the events the messages *)
(* call for, in order, and the counters say how many events and heads there  *)
(* were, whatever the node sends (pipeline.py:80-99).                        *)
THEOREM IngestionExact == PipeSpec => []IngestionSound
<1>1. PipeInv => IngestionSound
    BY DEF PipeInv, IngestionSound
<1>2. QED
    BY <1>1, PipelineInvariant, PTL

(* No log ends the loop: it is left only for a stop, the end of the stream   *)
(* or a bad head ("One malformed log ... must not kill ingestion",           *)
(* pipeline.py:91).                                                          *)
THEOREM LogsKeepIngestion == PipeSpec => LogsNeverEndIngestion
<1>1. ASSUME PipeInv, PipeNext, phase = "waiting", phase' # "waiting"
      PROVE  \/ stop \/ connected # "up"
             \/ (failure' = "head" /\ Last(consumed') = MalformedHead)
    <2>1. ASSUME NEW m \in Messages,
                 OnHead(m) \/ OnMalformedHead(m) \/ OnSkippedLog(m) \/ OnEvent(m)
          PROVE  stop \/ (failure' = "head" /\ Last(consumed') = MalformedHead)
        <3>1. CASE OnMalformedHead(m)
            <4>1. Take(m) /\ m.kind = "badHead" /\ failure' = "head"
                BY <3>1 DEF OnMalformedHead
            <4>2. QED
                BY <1>1, <4>1, MessageKinds, TakeFacts DEF PipeInv
        <3>2. CASE OnHead(m) \/ OnSkippedLog(m) \/ OnEvent(m)
            BY <1>1, <3>2 DEF OnHead, OnSkippedLog, OnEvent, NextRound
        <3>3. QED
            BY <2>1, <3>1, <3>2
    <2>2. CASE Setup \/ Close
        BY <1>1, <2>2 DEF Setup, ConnectSucceeds, ConnectFails, HeadsSubscribed, LogsSubscribed,
           SubscribeFails, Close
    <2>3. CASE Idle \/ StreamEnds
        BY <1>1, <2>3 DEF Idle, StreamEnds
    <2>4. CASE (\E m \in Messages : NodeSends(m)) \/ NodeLeaves \/ SetStop
        BY <1>1, <2>4 DEF NodeSends, NodeLeaves, SetStop
    <2>5. QED
        BY <1>1, <2>1, <2>2, <2>3, <2>4 DEF PipeNext, Step, Loop, Consume
<1>2. PipeInv /\ [PipeNext]_pipeVars =>
          [phase = "waiting" /\ phase' # "waiting" =>
              \/ stop
              \/ connected # "up"
              \/ failure' = "head" /\ Last(consumed') = MalformedHead]_pipeVars
    BY <1>1
<1>3. QED
    BY <1>2, PipelineInvariant, PTL DEF PipeSpec, LogsNeverEndIngestion
=============================================================================
