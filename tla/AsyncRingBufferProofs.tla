---------------------- MODULE AsyncRingBufferProofs ----------------------
(***************************************************************************)
(* The invariants of AsyncRingBuffer for every set of tasks, every         *)
(* capacity and every number of calls.                                     *)
(*                                                                         *)
(* The inductive invariant says who may own the lock: at most one waiter   *)
(* is woken, it is the first and the lock is free; at most one task is     *)
(* inside a snapshot and then the lock is taken.  So the body of a locked  *)
(* section always starts with nobody woken, and BodyStep proves once, for  *)
(* a call that finds the lock free and for a waiter that is resumed, what  *)
(* it leaves behind.  The numbers of the calls carry the order: a waiter   *)
(* that can still get the lock was called after every write that returned. *)
(***************************************************************************)
EXTENDS AsyncRingBuffer, FiniteSetTheorems, SequenceTheorems, TLAPS

LockTypeOK ==
    /\ deque \in Seq(Event) /\ locked \in BOOLEAN
    /\ waiters \in Seq(Task) /\ woken \subseteq Task /\ cancelling \subseteq Task
    /\ call \in [Task -> [kind : Kinds, num : Event] \cup {NoCall}]
    /\ calls \in 0 .. MaxWrites
    /\ view \in [Task -> Seq(Event)]
    /\ completed \subseteq 1 .. calls

(* One woken task at most, the first of the queue, and only for a free lock. *)
QueueOK ==
    /\ \A i, j \in 1 .. Len(waiters) : i < j => waiters[i] # waiters[j]
    /\ \A i \in 1 .. Len(waiters) : call[waiters[i]] # NoCall
    /\ \A t \in woken \cup cancelling : Waiting(t)
    /\ \A t \in woken : t = waiters[1] /\ ~locked

OneSnapshot ==
    /\ SnapshotStable
    /\ \A t, u \in Task : InSnapshot(t) /\ InSnapshot(u) => t = u

(* The numbers of the waiting calls, and of those that can still get in.     *)
NumbersOK ==
    /\ \A t \in Task : call[t] # NoCall => call[t].num \in 1 .. calls
    /\ \A i, j \in 1 .. Len(waiters) :
          i < j => call[waiters[i]].num < call[waiters[j]].num
    /\ \A i \in 1 .. Len(waiters) : waiters[i] \notin cancelling =>
          \A n \in completed : n < call[waiters[i]].num

(* Each write that returned made one write of the backend.                   *)
CountOK == /\ writes = Cardinality(completed)
           /\ Len(deque) = IF writes < Capacity THEN writes ELSE Capacity

IInv == /\ LockTypeOK /\ QueueOK /\ OneSnapshot /\ NumbersOK /\ CountOK
        /\ WritesInCallOrder /\ NoWriteLost /\ NoLostWakeup

-----------------------------------------------------------------------------
(* Removing the p-th waiter keeps the others in their order.                 *)
LEMMA WithoutSeq ==
  ASSUME waiters \in Seq(Task),
         \A i, j \in 1 .. Len(waiters) : i < j => waiters[i] # waiters[j],
         NEW p \in 1 .. Len(waiters)
  PROVE  /\ Without(waiters[p]) \in Seq(Task)
         /\ Len(Without(waiters[p])) = Len(waiters) - 1
         /\ \A i \in 1 .. Len(waiters) - 1 :
               Without(waiters[p])[i] = IF i < p THEN waiters[i] ELSE waiters[i + 1]
<1>1. Position(waiters[p]) = p
  <2>1. \A i \in 1 .. Len(waiters) : waiters[i] = waiters[p] => i = p
    OBVIOUS
  <2>2. DOMAIN waiters = 1 .. Len(waiters)
    OBVIOUS
  <2> QED BY <2>1, <2>2 DEF Position
<1> DEFINE front == SubSeq(waiters, 1, p - 1)
           back == SubSeq(waiters, p + 1, Len(waiters))
<1>2. Without(waiters[p]) = front \o back
  BY <1>1 DEF Without, RemoveAt
<1>3. /\ front \in Seq(Task) /\ Len(front) = p - 1
      /\ \A i \in 1 .. p - 1 : front[i] = waiters[i]
  OBVIOUS
<1>4. /\ back \in Seq(Task) /\ Len(back) = Len(waiters) - p
      /\ \A i \in 1 .. Len(waiters) - p : back[i] = waiters[p + i]
  OBVIOUS
<1> HIDE DEF front, back
<1>5. /\ front \o back \in Seq(Task)
      /\ Len(front \o back) = Len(waiters) - 1
      /\ \A i \in 1 .. Len(waiters) - 1 :
            (front \o back)[i] = IF i < p THEN front[i] ELSE back[i - (p - 1)]
  <2>1. Len(waiters) \in Nat /\ Len(front) + Len(back) = Len(waiters) - 1
    BY <1>3, <1>4
  <2>2. front \o back \in Seq(Task) /\ Len(front \o back) = Len(front) + Len(back)
    BY <1>3, <1>4, ConcatProperties
  <2>3. \A i \in 1 .. Len(front) + Len(back) :
           (front \o back)[i] = IF i <= Len(front) THEN front[i] ELSE back[i - Len(front)]
    BY <1>3, <1>4, ConcatProperties
  <2> QED BY <1>3, <2>1, <2>2, <2>3
<1>6. ASSUME NEW i \in 1 .. Len(waiters) - 1, ~(i < p)
      PROVE  back[i - (p - 1)] = waiters[i + 1]
  <2>1. i - (p - 1) \in 1 .. Len(waiters) - p /\ p + (i - (p - 1)) = i + 1
    BY <1>6
  <2> QED BY <1>4, <2>1
<1>7. ASSUME NEW i \in 1 .. Len(waiters) - 1
      PROVE  (front \o back)[i] = IF i < p THEN waiters[i] ELSE waiters[i + 1]
  <2>1. CASE i < p
    BY <1>3, <1>5, <2>1
  <2>2. CASE ~(i < p)
    BY <1>5, <1>6, <2>2
  <2> QED BY <2>1, <2>2
<1> QED BY <1>2, <1>5, <1>7

(* What an append leaves in the bounded deque.                               *)
LEMMA AppendBoundedSeq ==
  ASSUME deque \in Seq(Event), Len(deque) <= Capacity, NEW e \in Event,
         NEW d, d = AppendBounded(deque, e)
  PROVE  /\ d \in Seq(Event)
         /\ Len(deque) < Capacity =>
               /\ Len(d) = Len(deque) + 1 /\ d[Len(d)] = e
               /\ \A i \in 1 .. Len(deque) : d[i] = deque[i]
         /\ Len(deque) = Capacity =>
               /\ Len(d) = Capacity /\ d[Len(d)] = e
               /\ \A i \in 1 .. Capacity - 1 : d[i] = deque[i + 1]
<1>1. CASE Len(deque) < Capacity
  <2>1. d = Append(deque, e)
    BY <1>1, CapacityAssumption DEF AppendBounded, Evict
  <2> QED BY <1>1, <2>1
<1>2. CASE Len(deque) = Capacity
  <2>1. d = Append(Tail(deque), e)
    BY <1>2 DEF AppendBounded, Evict
  <2>2. /\ Tail(deque) \in Seq(Event) /\ Len(Tail(deque)) = Capacity - 1
        /\ \A i \in 1 .. Capacity - 1 : Tail(deque)[i] = deque[i + 1]
    BY <1>2, CapacityAssumption
  <2> QED BY <1>2, <2>1, <2>2, CapacityAssumption
<1> QED BY <1>1, <1>2, CapacityAssumption

-----------------------------------------------------------------------------
(* When task t may start the body of call c with a free lock: queue is the   *)
(* queue of waiters without t, nobody is woken, and c comes after every      *)
(* write that returned and before every waiter that can still get in.        *)
MayEnter(t, c, queue) ==
    /\ ~locked
    /\ queue \in Seq(Task)
    /\ \A i \in 1 .. Len(queue) : queue[i] # t /\ Waiting(queue[i])
    /\ \A u \in Task \ {t} : Waiting(u) => \E i \in 1 .. Len(queue) : queue[i] = u
    /\ \A u \in cancelling : u # t
    /\ \A i, j \in 1 .. Len(queue) : i < j =>
          queue[i] # queue[j] /\ call[queue[i]].num < call[queue[j]].num
    /\ \A i \in 1 .. Len(queue) :
          queue[i] \notin cancelling => c.num < call[queue[i]].num
    /\ \A n \in completed : n < c.num

(* What a body does besides the backend: the lock and the queue.             *)
LEMMA BodyQueue ==
  ASSUME IInv, NEW t \in Task, NEW c, NEW queue, MayEnter(t, c, queue),
         calls' \in 0 .. MaxWrites, calls <= calls',
         c \in [kind : Kinds, num : 1 .. calls'],
         waiters' = queue, cancelling' = cancelling, WithLock(t, c, queue, {})
  PROVE  /\ QueueOK' /\ NoLostWakeup'
         /\ waiters' \in Seq(Task) /\ woken' \subseteq Task /\ cancelling' \subseteq Task
         /\ call' \in [Task -> [kind : Kinds, num : Event] \cup {NoCall}]
         /\ locked' \in BOOLEAN
         /\ \A u \in Task \ {t} : call'[u] = call[u]
<1> DEFINE U == IF queue # << >> /\ queue[1] \notin cancelling THEN {queue[1]} ELSE {}
<1>1. queue \in Seq(Task) /\ Len(queue) \in Nat /\ (queue # << >> => Len(queue) > 0 /\ queue[1] \in Task)
  BY DEF MayEnter
<1>2. \/ /\ call' = [call EXCEPT ![t] = NoCall] /\ locked' = FALSE
         /\ woken' = WakeFirst(queue, {})
      \/ /\ call' = [call EXCEPT ![t] = c] /\ locked' = TRUE /\ woken' = {}
  BY DEF WithLock, Write, Read, EnterSnapshot
<1>3. WakeFirst(queue, {}) = U
  BY <1>1 DEF WakeFirst
<1> HIDE DEF U
<1>4. (woken' = U /\ ~locked') \/ (woken' = {} /\ locked')
  BY <1>2, <1>3
<1>5. call \in [Task -> [kind : Kinds, num : Event] \cup {NoCall}] /\ cancelling \subseteq Task
  BY DEF IInv, LockTypeOK
<1>6. c \in [kind : Kinds, num : Event]
  BY EventAssumption, MaxWritesAssumption
<1>7. /\ call' \in [Task -> [kind : Kinds, num : Event] \cup {NoCall}]
      /\ \A u \in Task \ {t} : call'[u] = call[u]
  BY <1>2, <1>5, <1>6
<1>8. \A i \in 1 .. Len(queue) : queue[i] \in Task \ {t} /\ call'[queue[i]] # NoCall
  <2>1. \A i \in 1 .. Len(queue) : queue[i] \in Task \ {t} /\ Waiting(queue[i])
    BY <1>1 DEF MayEnter
  <2>2. \A u \in Task : Waiting(u) => call[u] # NoCall
    BY DEF IInv, QueueOK, Waiting, Contains
  <2> QED BY <1>7, <2>1, <2>2
<1>9. \A u \in U : u = queue[1] /\ \E i \in 1 .. Len(queue) : queue[i] = u
  BY <1>1 DEF U
<1>10. \A u \in cancelling : \E i \in 1 .. Len(queue) : queue[i] = u
  BY <1>5 DEF IInv, QueueOK, MayEnter
<1>11. QueueOK'
  <2>1. \A u \in woken' : u \in U /\ ~locked'
    BY <1>4
  <2>2. \A u \in woken' \cup cancelling : \E i \in 1 .. Len(queue) : queue[i] = u
    BY <1>9, <1>10, <2>1
  <2>3. \A i, j \in 1 .. Len(queue) : i < j => queue[i] # queue[j]
    BY DEF MayEnter
  <2> QED BY <1>8, <1>9, <2>1, <2>2, <2>3 DEF QueueOK, Waiting, Contains
<1>12. NoLostWakeup'
  BY <1>1, <1>4 DEF NoLostWakeup, U
<1> QED BY <1>1, <1>2, <1>4, <1>5, <1>7, <1>9, <1>11, <1>12 DEF U

(* What a body leaves of the order of the writes and of the snapshots.       *)
LEMMA BodyBackend ==
  ASSUME IInv, NEW t \in Task, NEW c, NEW queue, MayEnter(t, c, queue),
         calls' \in 0 .. MaxWrites, calls <= calls',
         c \in [kind : Kinds, num : 1 .. calls'],
         WithLock(t, c, queue, {})
  PROVE  /\ deque' \in Seq(Event) /\ completed' \subseteq 1 .. calls'
         /\ view' \in [Task -> Seq(Event)]
         /\ CountOK' /\ WritesInCallOrder' /\ NoWriteLost'
         /\ completed' \subseteq completed \cup {c.num}
<1>1. /\ deque \in Seq(Event) /\ completed \subseteq 1 .. calls /\ calls \in Nat
      /\ view \in [Task -> Seq(Event)]
      /\ CountOK /\ WritesInCallOrder /\ NoWriteLost
  BY MaxWritesAssumption DEF IInv, LockTypeOK
<1>2. c.num \in Event /\ c.num \in 1 .. calls' /\ \A n \in completed : n < c.num
  BY EventAssumption, MaxWritesAssumption DEF MayEnter
<1>0. calls' \in Nat /\ completed \subseteq 1 .. calls'
  BY <1>1, MaxWritesAssumption
<1>3. CASE Read(t, c, queue, {}) \/ EnterSnapshot(t, c, queue, {})
  <2>1. deque' = deque /\ writes' = writes /\ completed' = completed
    BY <1>3 DEF Read, EnterSnapshot, dequeVars
  <2>2. view' \in [Task -> Seq(Event)]
    BY <1>1, <1>3 DEF Read, EnterSnapshot, ReadAll
  <2>3. completed' \subseteq 1 .. calls'
    BY <1>0, <2>1
  <2> QED BY <1>1, <2>1, <2>2, <2>3 DEF CountOK, WritesInCallOrder, NoWriteLost
<1>4. CASE Write(t, c, queue, {})
  <2>1. /\ deque' = AppendBounded(deque, c.num) /\ writes' = writes + 1
        /\ completed' = completed \cup {c.num} /\ view' = view
    BY <1>4 DEF Write
  <2>2. Len(deque) \in Nat /\ Len(deque) <= Capacity /\ writes = Cardinality(completed)
        /\ IsFiniteSet(completed) /\ writes \in Nat
    <3>1. IsFiniteSet(completed)
      <4>1. IsFiniteSet(1 .. calls)
        BY <1>1, FS_Interval
      <4> QED BY <1>1, <4>1, FS_Subset
    <3>2. Cardinality(completed) \in Nat
      BY <3>1, FS_CardinalityType
    <3> QED BY <1>1, <3>1, <3>2, CapacityAssumption DEF CountOK
  <2>3. /\ deque' \in Seq(Event)
        /\ Len(deque) < Capacity =>
              /\ Len(deque') = Len(deque) + 1 /\ deque'[Len(deque')] = c.num
              /\ \A i \in 1 .. Len(deque) : deque'[i] = deque[i]
        /\ Len(deque) = Capacity =>
              /\ Len(deque') = Capacity /\ deque'[Len(deque')] = c.num
              /\ \A i \in 1 .. Capacity - 1 : deque'[i] = deque[i + 1]
    <3> DEFINE d == AppendBounded(deque, c.num)
    <3>1. /\ d \in Seq(Event)
          /\ Len(deque) < Capacity =>
                /\ Len(d) = Len(deque) + 1 /\ d[Len(d)] = c.num
                /\ \A i \in 1 .. Len(deque) : d[i] = deque[i]
          /\ Len(deque) = Capacity =>
                /\ Len(d) = Capacity /\ d[Len(d)] = c.num
                /\ \A i \in 1 .. Capacity - 1 : d[i] = deque[i + 1]
      BY <1>1, <1>2, <2>2, AppendBoundedSeq
    <3> QED BY <2>1, <3>1
  <2>4. completed' \subseteq 1 .. calls'
    BY <1>0, <1>2, <2>1
  <2>5. CountOK'
    <3>1. c.num \notin completed
      BY <1>1, <1>2
    <3>2. Cardinality(completed') = Cardinality(completed) + 1
      BY <2>1, <2>2, <3>1, FS_AddElement
    <3>3. Len(deque) = IF writes < Capacity THEN writes ELSE Capacity
      BY <1>1 DEF CountOK
    <3>4. Len(deque') = IF writes' < Capacity THEN writes' ELSE Capacity
      BY <2>1, <2>2, <2>3, <3>3, CapacityAssumption
    <3> QED BY <2>1, <2>2, <3>2, <3>4 DEF CountOK
  <2>6. /\ \A i \in 1 .. Len(deque) : deque[i] \in completed
        /\ \A i, j \in 1 .. Len(deque) : i < j => deque[i] < deque[j]
        /\ \A i \in 1 .. Len(deque) : deque[i] \in Nat /\ deque[i] < c.num
    <3>1. DOMAIN deque = 1 .. Len(deque)
      BY <1>1
    <3>2. /\ \A i \in 1 .. Len(deque) : deque[i] \in completed
          /\ \A i, j \in 1 .. Len(deque) : i < j => deque[i] < deque[j]
      BY <1>1, <3>1 DEF WritesInCallOrder
    <3>3. \A n \in completed : n \in Nat
      BY <1>1
    <3> QED BY <1>2, <3>2, <3>3
  <2>7. Len(deque') \in Nat /\ DOMAIN deque' = 1 .. Len(deque') /\ DOMAIN deque = 1 .. Len(deque)
    BY <1>1, <2>3
  <2>8. WritesInCallOrder'
    <3>1. CASE Len(deque) < Capacity
      <4> DEFINE m == Len(deque)
      <4>1. m \in Nat /\ Len(deque') = m + 1 /\ deque'[m + 1] = c.num
        BY <2>2, <2>3, <3>1
      <4>2. \A i \in 1 .. m : deque'[i] = deque[i]
        BY <2>3, <3>1
      <4> HIDE DEF m
      <4>3. \A i \in 1 .. m : deque'[i] \in completed /\ deque'[i] < c.num
        BY <2>6, <4>2 DEF m
      <4>4. \A i, j \in 1 .. m : i < j => deque'[i] < deque'[j]
        BY <2>6, <4>2 DEF m
      <4>5. \A i \in 1 .. m + 1 : i \in 1 .. m \/ i = m + 1
        BY <4>1
      <4>6. \A i, j \in 1 .. m + 1 : i < j => deque'[i] < deque'[j]
        <5> SUFFICES ASSUME NEW i \in 1 .. m + 1, NEW j \in 1 .. m + 1, i < j
                     PROVE  deque'[i] < deque'[j]
          OBVIOUS
        <5>1. i \in 1 .. m
          BY <4>1
        <5> QED BY <4>1, <4>3, <4>4, <4>5, <5>1
      <4>7. \A i \in 1 .. m + 1 : deque'[i] \in completed'
        BY <2>1, <4>1, <4>3, <4>5
      <4> QED BY <2>7, <4>1, <4>6, <4>7 DEF WritesInCallOrder
    <3>2. CASE Len(deque) = Capacity
      <4>1. Len(deque') = Capacity /\ deque'[Capacity] = c.num
        BY <2>3, <3>2
      <4>2. ASSUME NEW i \in 1 .. Capacity - 1
            PROVE  deque'[i] \in completed /\ deque'[i] < c.num
        <5>1. (i + 1) \in 1 .. Len(deque) /\ deque'[i] = deque[i + 1]
          BY <2>3, <3>2, CapacityAssumption
        <5> QED BY <2>6, <5>1
      <4>3. ASSUME NEW i \in 1 .. Capacity - 1, NEW j \in 1 .. Capacity - 1, i < j
            PROVE  deque'[i] < deque'[j]
        <5>1. /\ (i + 1) \in 1 .. Len(deque) /\ deque'[i] = deque[i + 1]
              /\ (j + 1) \in 1 .. Len(deque) /\ deque'[j] = deque[j + 1]
              /\ i + 1 < j + 1
          BY <2>3, <3>2, <4>3, CapacityAssumption
        <5> QED BY <2>6, <5>1
      <4>4. \A i \in 1 .. Capacity : i \in 1 .. Capacity - 1 \/ i = Capacity
        BY CapacityAssumption
      <4>5. \A i, j \in DOMAIN deque' : i < j => deque'[i] < deque'[j]
        <5> SUFFICES ASSUME NEW i \in 1 .. Capacity, NEW j \in 1 .. Capacity, i < j
                     PROVE  deque'[i] < deque'[j]
          BY <2>7, <4>1
        <5>1. i \in 1 .. Capacity - 1
          BY CapacityAssumption
        <5> QED BY <4>1, <4>2, <4>3, <4>4, <5>1
      <4>6. \A i \in DOMAIN deque' : deque'[i] \in completed'
        BY <2>1, <2>7, <4>1, <4>2, <4>4
      <4> QED BY <4>5, <4>6 DEF WritesInCallOrder
    <3> QED BY <2>2, <3>1, <3>2, CapacityAssumption
  <2>9. NoWriteLost'
    <3> SUFFICES ASSUME NEW n \in completed'
                 PROVE  \/ \E i \in 1 .. Len(deque') : deque'[i] = n
                        \/ Len(deque') = Capacity /\ \A i \in 1 .. Len(deque') : n < deque'[i]
      BY <2>7 DEF NoWriteLost
    <3>1. CASE n = c.num
      <4>1. Len(deque') \in 1 .. Len(deque')
        BY <2>2, <2>3, CapacityAssumption
      <4>2. deque'[Len(deque')] = n
        BY <2>2, <2>3, <3>1, CapacityAssumption
      <4> QED BY <4>1, <4>2
    <3>2. CASE n \in completed
      <4>1. \/ \E i \in 1 .. Len(deque) : deque[i] = n
            \/ Len(deque) = Capacity /\ \A i \in 1 .. Len(deque) : n < deque[i]
        BY <1>1, <2>7, <3>2 DEF NoWriteLost
      <4>2. CASE Len(deque) < Capacity
        BY <2>2, <2>3, <4>1, <4>2
      <4>3. CASE Len(deque) = Capacity
        <5>0. Len(deque') = Capacity /\ deque'[Capacity] = c.num /\ n < c.num /\ n \in Nat
          BY <1>1, <1>2, <2>3, <3>2, <4>3
        <5>1. \A i \in 1 .. Capacity - 1 : (i + 1) \in 1 .. Len(deque) /\ deque'[i] = deque[i + 1]
          BY <2>3, <4>3, CapacityAssumption
        <5>2. CASE \E i \in 2 .. Len(deque) : deque[i] = n
          <6>1. PICK k \in 2 .. Len(deque) : deque[k] = n
            BY <5>2
          <6>2. k - 1 \in 1 .. Capacity - 1 /\ k - 1 \in 1 .. Capacity /\ (k - 1) + 1 = k
            BY <4>3, CapacityAssumption
          <6>3. deque'[k - 1] = n
            BY <5>1, <6>1, <6>2
          <6> QED BY <5>0, <6>2, <6>3
        <5>3. CASE ~\E i \in 2 .. Len(deque) : deque[i] = n
          <6>1. \A i \in 2 .. Len(deque) : n < deque[i]
            <7>1. CASE deque[1] = n
              <8>1. \A i \in 2 .. Len(deque) : 1 \in 1 .. Len(deque) /\ i \in 1 .. Len(deque) /\ 1 < i
                BY <4>3, CapacityAssumption
              <8> QED BY <2>6, <7>1, <8>1
            <7>2. CASE deque[1] # n
              <8>1. ~\E i \in 1 .. Len(deque) : deque[i] = n
                <9>1. \A i \in 1 .. Len(deque) : i = 1 \/ i \in 2 .. Len(deque)
                  BY <2>2
                <9> QED BY <5>3, <7>2, <9>1
              <8> QED BY <2>2, <4>1, <8>1
            <7> QED BY <7>1, <7>2
          <6>2. \A i \in 1 .. Capacity - 1 : n < deque'[i]
            BY <4>3, <5>1, <6>1, CapacityAssumption
          <6>3. \A i \in 1 .. Capacity : i \in 1 .. Capacity - 1 \/ i = Capacity
            BY CapacityAssumption
          <6> QED BY <5>0, <6>2, <6>3
        <5> QED BY <5>2, <5>3
      <4> QED BY <2>2, <4>2, <4>3, CapacityAssumption
    <3> QED BY <2>1, <3>1, <3>2
  <2> QED BY <1>1, <2>1, <2>3, <2>4, <2>5, <2>8, <2>9
<1> QED BY <1>3, <1>4 DEF WithLock

(* A body preserves the invariant.                                           *)
LEMMA BodyStep ==
  ASSUME IInv, NEW t \in Task, NEW c, NEW queue, MayEnter(t, c, queue),
         calls' \in 0 .. MaxWrites, calls <= calls',
         c \in [kind : Kinds, num : 1 .. calls'],
         waiters' = queue, cancelling' = cancelling, WithLock(t, c, queue, {})
  PROVE  IInv'
<1>1. /\ QueueOK' /\ NoLostWakeup'
      /\ waiters' \in Seq(Task) /\ woken' \subseteq Task /\ cancelling' \subseteq Task
      /\ call' \in [Task -> [kind : Kinds, num : Event] \cup {NoCall}]
      /\ locked' \in BOOLEAN
      /\ \A u \in Task \ {t} : call'[u] = call[u]
  BY BodyQueue
<1>2. /\ deque' \in Seq(Event) /\ completed' \subseteq 1 .. calls'
      /\ view' \in [Task -> Seq(Event)]
      /\ CountOK' /\ WritesInCallOrder' /\ NoWriteLost'
      /\ completed' \subseteq completed \cup {c.num}
  BY BodyBackend
<1>3. LockTypeOK'
  BY <1>1, <1>2 DEF LockTypeOK
<1>4. OneSnapshot'
  <2>1. \A u \in Task : ~InSnapshot(u)
    BY DEF IInv, OneSnapshot, SnapshotStable, MayEnter
  <2>2. ASSUME NEW u \in Task \ {t} PROVE ~InSnapshot(u)'
    <3>1. Waiting(u) => Waiting(u)'
      BY DEF MayEnter, Waiting, Contains
    <3> QED BY <1>1, <2>1, <3>1 DEF InSnapshot
  <2>3. CASE Write(t, c, queue, {}) \/ Read(t, c, queue, {})
    <3>1. call'[t] = NoCall
      BY <2>3 DEF Write, Read, IInv, LockTypeOK
    <3>2. ~InSnapshot(t)'
      BY <3>1 DEF InSnapshot, NoCall
    <3> QED BY <2>2, <3>2 DEF OneSnapshot, SnapshotStable
  <2>4. CASE EnterSnapshot(t, c, queue, {})
    <3>1. locked' = TRUE /\ view'[t] = deque'
      BY <2>4 DEF EnterSnapshot, ReadAll, dequeVars, IInv, LockTypeOK
    <3> QED BY <2>2, <3>1 DEF OneSnapshot, SnapshotStable
  <2> QED BY <2>3, <2>4 DEF WithLock
<1>5. NumbersOK'
  <2>1. ASSUME NEW u \in Task, call'[u] # NoCall PROVE call'[u].num \in 1 .. calls'
    <3>1. CASE u = t
      <4>1. call'[t] = c
        BY <2>1, <3>1 DEF WithLock, Write, Read, EnterSnapshot, IInv, LockTypeOK
      <4> QED BY <3>1, <4>1
    <3>2. CASE u # t
      <4>1. call[u].num \in 1 .. calls /\ calls \in Nat /\ calls' \in Nat
        BY <1>1, <2>1, <3>2, MaxWritesAssumption DEF IInv, NumbersOK, LockTypeOK
      <4> QED BY <1>1, <3>2, <4>1
    <3> QED BY <3>1, <3>2
  <2>2. \A i \in 1 .. Len(queue) : queue[i] \in Task \ {t} /\ call'[queue[i]] = call[queue[i]]
    <3>1. \A i \in 1 .. Len(queue) : queue[i] \in Task \ {t}
      BY DEF MayEnter
    <3> QED BY <1>1, <3>1
  <2>3. \A i, j \in 1 .. Len(queue) : i < j => call'[queue[i]].num < call'[queue[j]].num
    BY <2>2 DEF MayEnter
  <2>4. ASSUME NEW i \in 1 .. Len(queue), queue[i] \notin cancelling, NEW n \in completed'
        PROVE  n < call'[queue[i]].num
    <3>1. c.num < call[queue[i]].num
      BY <2>4 DEF MayEnter
    <3>2. n \in completed => n < c.num
      BY DEF MayEnter
    <3>3. n \in Int /\ c.num \in Int /\ call[queue[i]].num \in Int
      <4>1. call[queue[i]] # NoCall
        BY <2>2 DEF MayEnter, Waiting, Contains, IInv, QueueOK
      <4>2. call[queue[i]].num \in 1 .. calls
        BY <2>2, <4>1 DEF IInv, NumbersOK
      <4> QED BY <1>2, <2>4, <4>2
    <3> QED BY <1>2, <2>2, <2>4, <3>1, <3>2, <3>3
  <2> QED BY <2>1, <2>3, <2>4 DEF NumbersOK
<1> QED BY <1>1, <1>2, <1>3, <1>4, <1>5 DEF IInv

-----------------------------------------------------------------------------
(* One lemma per action of the event loop: first a call that finds the lock  *)
(* free, where nobody who waits can still get in before it.                  *)
LEMMA CallAtOnceStep ==
  ASSUME IInv, NEW t \in Task, NEW k \in Kinds, CallAtOnce(t, k)
  PROVE  IInv'
<1> DEFINE c == [kind |-> k, num |-> calls + 1]
<1>1. calls \in Nat /\ calls' = calls + 1 /\ calls' \in 0 .. MaxWrites /\ calls <= calls'
  BY MaxWritesAssumption DEF IInv, LockTypeOK, CallAtOnce
<1>2. c \in [kind : Kinds, num : 1 .. calls']
  BY <1>1
<1>3. woken = {}
  BY DEF IInv, QueueOK, CallAtOnce, MayJumpQueue, FutureCancelled, Waiting, Contains
<1>4. MayEnter(t, c, waiters)
  <2>1. ~locked /\ waiters \in Seq(Task) /\ cancelling \subseteq Task
    BY DEF CallAtOnce, MayJumpQueue, IInv, LockTypeOK
  <2>2. \A i \in 1 .. Len(waiters) : waiters[i] # t /\ Waiting(waiters[i])
    BY DEF CallAtOnce, IInv, QueueOK, Waiting, Contains
  <2>3. \A u \in Task \ {t} : Waiting(u) => \E i \in 1 .. Len(waiters) : waiters[i] = u
    BY DEF Waiting, Contains
  <2>4. \A u \in cancelling : u # t
    BY <2>2 DEF IInv, QueueOK, Waiting, Contains
  <2>5. \A i, j \in 1 .. Len(waiters) : i < j =>
           waiters[i] # waiters[j] /\ call[waiters[i]].num < call[waiters[j]].num
    BY DEF IInv, QueueOK, NumbersOK
  <2>6. \A i \in 1 .. Len(waiters) : waiters[i] \in cancelling
    BY <2>1 DEF CallAtOnce, MayJumpQueue, FutureCancelled
  <2>7. \A n \in completed : n < c.num
    BY <1>1 DEF IInv, LockTypeOK
  <2> QED BY <2>1, <2>2, <2>3, <2>4, <2>5, <2>6, <2>7 DEF MayEnter
<1>5. waiters' = waiters /\ cancelling' = cancelling /\ WithLock(t, c, waiters, {})
  BY <1>3 DEF CallAtOnce
<1> HIDE DEF c
<1> QED BY <1>1, <1>2, <1>4, <1>5, BodyStep

(* A resumed waiter was first, and everything behind it was called later.    *)
LEMMA ResumeStep ==
  ASSUME IInv, NEW t \in Task, Resume(t)
  PROVE  IInv'
<1> DEFINE c == call[t]
           queue == Without(t)
           n == Len(waiters)
<1>1. /\ waiters \in Seq(Task) /\ n \in Nat /\ cancelling \subseteq Task
      /\ \A i, j \in 1 .. n : i < j => waiters[i] # waiters[j]
  BY DEF IInv, LockTypeOK, QueueOK
<1>2. t \in woken /\ t \notin cancelling /\ Waiting(t) /\ t = waiters[1] /\ ~locked
  BY DEF IInv, QueueOK, Resume
<1>3. 1 \in 1 .. n
  BY <1>1, <1>2 DEF Waiting, Contains
<1>4. /\ queue \in Seq(Task) /\ Len(queue) = n - 1
      /\ \A i \in 1 .. n - 1 : queue[i] = waiters[i + 1] /\ (i + 1) \in 1 .. n
  BY <1>1, <1>2, <1>3, WithoutSeq
<1>5. woken \ {t} = {}
  BY <1>2 DEF IInv, QueueOK
<1>6. call[t] # NoCall
  BY <1>2, <1>3 DEF IInv, QueueOK
<1>7. /\ calls \in Nat /\ calls' = calls /\ calls' \in 0 .. MaxWrites /\ calls <= calls'
      /\ c \in [kind : Kinds, num : 1 .. calls']
  <2>1. calls \in Nat /\ calls' = calls /\ calls \in 0 .. MaxWrites
    BY MaxWritesAssumption DEF IInv, LockTypeOK, Resume
  <2>2. c \in [kind : Kinds, num : Event] /\ c.num \in 1 .. calls
    BY <1>6 DEF IInv, LockTypeOK, NumbersOK
  <2> QED BY <2>1, <2>2
<1> HIDE DEF queue, c, n
<1>8. MayEnter(t, c, queue)
  <2>1. \A i, j \in 1 .. n : i < j =>
           waiters[i] # waiters[j] /\ call[waiters[i]].num < call[waiters[j]].num
    BY DEF IInv, QueueOK, NumbersOK, n
  <2>2. \A i \in 1 .. n : Waiting(waiters[i])
    BY DEF Waiting, Contains, n
  <2>3. \A i \in 1 .. n - 1 : queue[i] # t /\ Waiting(queue[i])
    BY <1>1, <1>2, <1>3, <1>4, <2>1, <2>2
  <2>4. ASSUME NEW u \in Task \ {t}, Waiting(u)
        PROVE  \E i \in 1 .. n - 1 : queue[i] = u
    <3>1. PICK k \in 1 .. n : waiters[k] = u
      BY <2>4 DEF Waiting, Contains, n
    <3>2. k # 1 /\ k - 1 \in 1 .. n - 1 /\ (k - 1) + 1 = k
      BY <1>1, <1>2, <3>1
    <3>3. queue[k - 1] = u
      BY <1>4, <3>1, <3>2
    <3> QED BY <3>2, <3>3
  <2>5. ASSUME NEW i \in 1 .. n - 1, NEW j \in 1 .. n - 1, i < j
        PROVE  queue[i] # queue[j] /\ call[queue[i]].num < call[queue[j]].num
    <3>1. i + 1 < j + 1
      BY <1>1, <2>5
    <3> QED BY <1>4, <2>1, <2>5, <3>1
  <2>6. \A i \in 1 .. n - 1 : c.num < call[queue[i]].num
    <3>1. \A i \in 1 .. n - 1 : 1 < i + 1
      BY <1>1
    <3> QED BY <1>2, <1>3, <1>4, <2>1, <3>1 DEF c
  <2>7. \A m \in completed : m < c.num
    BY <1>2, <1>3 DEF IInv, NumbersOK, n, c
  <2> QED BY <1>1, <1>2, <1>4, <2>3, <2>4, <2>5, <2>6, <2>7 DEF MayEnter
<1>9. waiters' = queue /\ cancelling' = cancelling /\ WithLock(t, c, queue, {})
  BY <1>5 DEF Resume, queue, c
<1> QED BY <1>7, <1>8, <1>9, BodyStep

(* A call that queues goes to the end with the highest number.               *)
LEMMA CallAndWaitStep ==
  ASSUME IInv, NEW t \in Task, NEW k \in Kinds, CallAndWait(t, k)
  PROVE  IInv'
<1> DEFINE n == Len(waiters)
           c == [kind |-> k, num |-> calls + 1]
<1>1. /\ waiters \in Seq(Task) /\ n \in Nat /\ call[t] = NoCall
      /\ calls \in Nat /\ calls + 1 \in 1 .. MaxWrites /\ calls' = calls + 1
  BY MaxWritesAssumption DEF IInv, LockTypeOK, CallAndWait
<1>2. /\ waiters' = Append(waiters, t) /\ call' = [call EXCEPT ![t] = c]
      /\ UNCHANGED <<dequeVars, locked, woken, cancelling, view, completed>>
  BY DEF CallAndWait
<1>3. /\ waiters' \in Seq(Task) /\ Len(waiters') = n + 1 /\ waiters'[n + 1] = t
      /\ \A i \in 1 .. n : waiters'[i] = waiters[i]
  BY <1>1, <1>2
<1>4. /\ c \in [kind : Kinds, num : Event] /\ c # NoCall
      /\ call \in [Task -> [kind : Kinds, num : Event] \cup {NoCall}]
  BY <1>1, EventAssumption DEF IInv, LockTypeOK, Kinds, NoCall
<1>5. /\ call'[t] = c /\ call' \in [Task -> [kind : Kinds, num : Event] \cup {NoCall}]
      /\ \A u \in Task \ {t} : call'[u] = call[u]
  BY <1>2, <1>4
<1> HIDE DEF n, c
<1>6. \A i \in 1 .. n : waiters[i] \in Task \ {t} /\ call[waiters[i]] # NoCall
  BY <1>1 DEF IInv, QueueOK, n
<1>7. \A i \in 1 .. n + 1 : i \in 1 .. n \/ i = n + 1
  BY <1>1
<1>8. \A u \in Task \ {t} : Waiting(u) <=> Waiting(u)'
  BY <1>1, <1>3, <1>7 DEF Waiting, Contains, n
<1>9. Waiting(t)' /\ ~Waiting(t)
  <2>1. n + 1 \in 1 .. n + 1
    BY <1>1
  <2> QED BY <1>3, <1>6, <2>1 DEF Waiting, Contains, n
<1>10. LockTypeOK'
  <2>1. completed' \subseteq 1 .. calls'
    BY <1>1, <1>2 DEF IInv, LockTypeOK
  <2>2. calls' \in 0 .. MaxWrites
    BY <1>1
  <2> QED BY <1>2, <1>3, <1>5, <2>1, <2>2 DEF IInv, LockTypeOK, dequeVars
<1>11. QueueOK'
  <2>1. \A i, j \in 1 .. n : i < j => waiters[i] # waiters[j]
    BY DEF IInv, QueueOK, n
  <2>2. ASSUME NEW i \in 1 .. n + 1, NEW j \in 1 .. n + 1, i < j
        PROVE  waiters'[i] # waiters'[j]
    <3>1. i \in 1 .. n
      BY <1>1, <2>2
    <3> QED BY <1>3, <1>6, <1>7, <2>1, <2>2, <3>1
  <2>3. \A i \in 1 .. n + 1 : call'[waiters'[i]] # NoCall
    BY <1>3, <1>4, <1>5, <1>6, <1>7
  <2>4. \A u \in woken \cup cancelling : Waiting(u)'
    BY <1>8, <1>9 DEF IInv, QueueOK, LockTypeOK
  <2>5. \A u \in woken : u = waiters'[1] /\ ~locked
    <3>1. ASSUME NEW u \in woken PROVE u = waiters[1] /\ ~locked /\ 1 \in 1 .. n
      BY <1>1 DEF IInv, QueueOK, Waiting, Contains, n
    <3> QED BY <1>3, <3>1
  <2> QED BY <1>2, <1>3, <2>2, <2>3, <2>4, <2>5 DEF QueueOK
<1>12. OneSnapshot'
  <2>1. \A u \in Task : InSnapshot(u)' => InSnapshot(u)
    BY <1>5, <1>8, <1>9 DEF InSnapshot
  <2> QED BY <1>2, <2>1 DEF IInv, OneSnapshot, SnapshotStable, dequeVars
<1>13. NumbersOK'
  <2>1. \A u \in Task : call[u] # NoCall => call[u].num \in 1 .. calls
    BY DEF IInv, NumbersOK
  <2>2. \A i, j \in 1 .. n : i < j => call[waiters[i]].num < call[waiters[j]].num
    BY DEF IInv, NumbersOK, n
  <2>3. \A i \in 1 .. n : waiters[i] \notin cancelling =>
           \A m \in completed : m < call[waiters[i]].num
    BY DEF IInv, NumbersOK, n
  <2>4. c.num = calls + 1
    BY DEF c
  <2>5. ASSUME NEW u \in Task, call'[u] # NoCall PROVE call'[u].num \in 1 .. calls'
    BY <1>1, <1>5, <2>1, <2>4, <2>5
  <2>6. \A i \in 1 .. n : /\ waiters'[i] = waiters[i] /\ call'[waiters'[i]] = call[waiters[i]]
                          /\ call[waiters[i]].num \in 1 .. calls
    BY <1>3, <1>5, <1>6, <2>1
  <2>7. ASSUME NEW i \in 1 .. n + 1, NEW j \in 1 .. n + 1, i < j
        PROVE  call'[waiters'[i]].num < call'[waiters'[j]].num
    <3>1. i \in 1 .. n
      BY <1>1, <2>7
    <3>2. CASE j \in 1 .. n
      BY <2>2, <2>6, <2>7, <3>1, <3>2
    <3>3. CASE j = n + 1
      <4>1. call'[waiters'[j]].num = calls + 1
        BY <1>3, <1>5, <2>4, <3>3
      <4> QED BY <1>1, <2>6, <3>1, <4>1
    <3> QED BY <1>7, <3>2, <3>3
  <2>8. ASSUME NEW i \in 1 .. n + 1, waiters'[i] \notin cancelling', NEW m \in completed'
        PROVE  m < call'[waiters'[i]].num
    <3>1. CASE i \in 1 .. n
      BY <1>2, <2>3, <2>6, <2>8, <3>1
    <3>2. CASE i = n + 1
      <4>1. m \in 1 .. calls
        BY <1>2, <2>8 DEF IInv, LockTypeOK
      <4>2. call'[waiters'[i]].num = calls + 1
        BY <1>3, <1>5, <2>4, <3>2
      <4> QED BY <1>1, <4>1, <4>2
    <3> QED BY <1>7, <3>1, <3>2
  <2> QED BY <1>3, <2>5, <2>7, <2>8 DEF NumbersOK
<1>14. NoLostWakeup'
  <2>1. ~locked => \E i \in 1 .. n : ~FutureCancelled(waiters[i])
    BY <1>1 DEF CallAndWait, MayJumpQueue, n
  <2>2. ~locked => waiters # << >> /\ 1 \in 1 .. n
    BY <1>1, <2>1 DEF n
  <2>3. ~locked => waiters[1] \in woken \cup cancelling
    BY <1>1, <2>2 DEF IInv, NoLostWakeup
  <2> QED BY <1>2, <1>3, <2>2, <2>3 DEF NoLostWakeup
<1> QED BY <1>2, <1>10, <1>11, <1>12, <1>13, <1>14
     DEF IInv, CountOK, WritesInCallOrder, NoWriteLost, dequeVars

(* Cancelling marks a waiter; it stays in the queue until it runs.           *)
LEMMA CancelStep ==
  ASSUME IInv, NEW t \in Task, Cancel(t)
  PROVE  IInv'
<1>1. /\ cancelling' = cancelling \cup {t} /\ Waiting(t)
      /\ UNCHANGED <<dequeVars, locked, waiters, woken, call, calls, view, completed>>
  BY DEF Cancel
<1>2. LockTypeOK' /\ CountOK' /\ WritesInCallOrder' /\ NoWriteLost'
  BY <1>1 DEF IInv, LockTypeOK, CountOK, WritesInCallOrder, NoWriteLost, dequeVars
<1>3. QueueOK' /\ NoLostWakeup'
  BY <1>1 DEF IInv, QueueOK, NoLostWakeup, Waiting, Contains
<1>4. OneSnapshot' /\ NumbersOK'
  BY <1>1 DEF IInv, OneSnapshot, SnapshotStable, NumbersOK, InSnapshot, Waiting, Contains, dequeVars
<1> QED BY <1>2, <1>3, <1>4 DEF IInv

(* Leaving a snapshot frees the lock and wakes the first waiter.             *)
LEMMA ExitSnapshotStep ==
  ASSUME IInv, NEW t \in Task, ExitSnapshot(t)
  PROVE  IInv'
<1>1. /\ InSnapshot(t) /\ call' = [call EXCEPT ![t] = NoCall] /\ locked' = FALSE
      /\ view' = [view EXCEPT ![t] = << >>] /\ woken' = WakeFirst(waiters, woken)
      /\ UNCHANGED <<dequeVars, waiters, cancelling, calls, completed>>
  BY DEF ExitSnapshot
<1>2. /\ locked /\ woken = {} /\ waiters \in Seq(Task)
      /\ (waiters # << >> => 1 \in 1 .. Len(waiters))
  BY <1>1 DEF IInv, LockTypeOK, OneSnapshot, SnapshotStable, QueueOK
<1>3. woken' = IF waiters # << >> /\ waiters[1] \notin cancelling THEN {waiters[1]} ELSE {}
  BY <1>1, <1>2 DEF WakeFirst
<1>4. /\ call' \in [Task -> [kind : Kinds, num : Event] \cup {NoCall}] /\ call'[t] = NoCall
      /\ \A u \in Task \ {t} : call'[u] = call[u]
  BY <1>1 DEF IInv, LockTypeOK
<1>5. \A i \in 1 .. Len(waiters) : waiters[i] \in Task \ {t}
  BY <1>1, <1>2 DEF InSnapshot, Waiting, Contains
<1>6. LockTypeOK'
  <2>1. woken' \subseteq Task
    BY <1>2, <1>3, <1>5
  <2>2. view' \in [Task -> Seq(Event)]
    BY <1>1 DEF IInv, LockTypeOK
  <2> QED BY <1>1, <1>4, <2>1, <2>2 DEF IInv, LockTypeOK, dequeVars
<1>7. QueueOK'
  BY <1>1, <1>2, <1>3, <1>4, <1>5 DEF IInv, QueueOK, Waiting, Contains
<1>8. NoLostWakeup'
  BY <1>1, <1>2, <1>3 DEF NoLostWakeup
<1>9. OneSnapshot'
  <2>1. \A u \in Task : ~InSnapshot(u)'
    <3>1. \A u \in Task \ {t} : ~InSnapshot(u)
      BY <1>1 DEF IInv, OneSnapshot
    <3> QED BY <1>1, <1>4, <3>1 DEF InSnapshot, Waiting, Contains, NoCall
  <2> QED BY <2>1 DEF OneSnapshot, SnapshotStable
<1>10. NumbersOK'
  BY <1>1, <1>4, <1>5 DEF IInv, NumbersOK
<1> QED BY <1>1, <1>6, <1>7, <1>8, <1>9, <1>10
     DEF IInv, CountOK, WritesInCallOrder, NoWriteLost, dequeVars

(* A cancelled waiter leaves from anywhere and passes its wake-up on.        *)
LEMMA ResumeCancelledStep ==
  ASSUME IInv, NEW t \in Task, ResumeCancelled(t)
  PROVE  IInv'
<1> DEFINE n == Len(waiters)
<1>1. /\ waiters \in Seq(Task) /\ n \in Nat /\ cancelling \subseteq Task /\ woken \subseteq Task
      /\ \A i, j \in 1 .. n : i < j => waiters[i] # waiters[j]
  BY DEF IInv, LockTypeOK, QueueOK
<1>2. PICK p \in 1 .. n : waiters[p] = t
  BY DEF IInv, QueueOK, Waiting, Contains, ResumeCancelled
<1> DEFINE queue == Without(t)
<1>3. /\ queue \in Seq(Task) /\ Len(queue) = n - 1
      /\ \A i \in 1 .. n - 1 : queue[i] = IF i < p THEN waiters[i] ELSE waiters[i + 1]
  BY <1>1, <1>2, WithoutSeq
<1>4. /\ waiters' = queue /\ cancelling' = cancelling \ {t}
      /\ woken' = IF locked THEN woken \ {t} ELSE WakeFirst(queue, woken \ {t})
      /\ call' = [call EXCEPT ![t] = NoCall] /\ t \in cancelling
      /\ UNCHANGED <<dequeVars, locked, calls, view, completed>>
  BY DEF ResumeCancelled
<1> HIDE DEF queue, n
<1>5. /\ call' \in [Task -> [kind : Kinds, num : Event] \cup {NoCall}] /\ call'[t] = NoCall
      /\ \A u \in Task \ {t} : call'[u] = call[u]
  BY <1>4 DEF IInv, LockTypeOK
(* Where the i-th of the shorter queue stood before.                         *)
<1> DEFINE at(i) == IF i < p THEN i ELSE i + 1
<1>6. \A i \in 1 .. n - 1 : /\ at(i) \in 1 .. n /\ queue[i] = waiters[at(i)]
                            /\ queue[i] \in Task \ {t}
  <2>1. \A i \in 1 .. n - 1 : at(i) \in 1 .. n /\ at(i) # p /\ queue[i] = waiters[at(i)]
    BY <1>1, <1>3
  <2>2. \A i \in 1 .. n : i # p => waiters[i] \in Task \ {t}
    BY <1>1, <1>2 DEF n
  <2> HIDE DEF at
  <2> QED BY <2>1, <2>2
<1>7. \A i, j \in 1 .. n - 1 : i < j => at(i) < at(j)
  BY <1>1
<1>8. \A u \in Task \ {t} : (\E i \in 1 .. n - 1 : queue[i] = u) <=> Waiting(u)
  <2> SUFFICES ASSUME NEW u \in Task \ {t}
               PROVE  (\E i \in 1 .. n - 1 : queue[i] = u) <=> (\E i \in 1 .. n : waiters[i] = u)
    BY DEF Waiting, Contains, n
  <2>1. ASSUME NEW k \in 1 .. n, waiters[k] = u
        PROVE  \E i \in 1 .. n - 1 : queue[i] = u
    <3>1. k # p
      BY <1>2, <2>1
    <3>2. CASE k < p
      <4>1. k \in 1 .. n - 1 /\ at(k) = k
        BY <1>1, <3>2
      <4> QED BY <1>3, <2>1, <3>2, <4>1
    <3>3. CASE k > p
      <4>1. k - 1 \in 1 .. n - 1 /\ ~(k - 1 < p) /\ (k - 1) + 1 = k
        BY <1>1, <3>3
      <4>2. queue[k - 1] = waiters[k]
        BY <1>3, <4>1
      <4> QED BY <2>1, <4>1, <4>2
    <3> QED BY <1>1, <3>1, <3>2, <3>3
  <2> HIDE DEF at
  <2> QED BY <1>6, <2>1
<1> HIDE DEF at
<1>9. woken' \subseteq Task /\ \A u \in woken' :
         u = queue[1] /\ ~locked /\ u \in Task \ {t} /\ \E i \in 1 .. n - 1 : queue[i] = u
  <2>1. ASSUME NEW u \in woken \ {t}
        PROVE  /\ u = queue[1] /\ ~locked /\ u \in Task \ {t}
               /\ \E i \in 1 .. n - 1 : queue[i] = u
    <3>1. u = waiters[1] /\ ~locked /\ u \in Task \ {t} /\ Waiting(u)
      BY <1>1, <2>1 DEF IInv, QueueOK
    <3>2. 1 < p
      BY <1>1, <1>2, <3>1
    <3>3. 1 \in 1 .. n - 1
      BY <1>1, <3>2
    <3> QED BY <1>3, <3>1, <3>2, <3>3
  <2>2. queue # << >> => 1 \in 1 .. n - 1 /\ queue[1] \in Task \ {t} /\ Head(queue) = queue[1]
    <3>1. queue # << >> => 1 \in 1 .. n - 1
      BY <1>1, <1>3
    <3> QED BY <1>3, <1>6, <3>1
  <2> QED BY <1>4, <2>1, <2>2 DEF WakeFirst
<1>10. LockTypeOK'
  BY <1>3, <1>4, <1>5, <1>9 DEF IInv, LockTypeOK, dequeVars
<1>11. QueueOK'
  <2>1. \A i, j \in 1 .. n - 1 : i < j => queue[i] # queue[j]
    BY <1>1, <1>6, <1>7
  <2>2. \A i \in 1 .. n - 1 : call'[queue[i]] # NoCall
    BY <1>5, <1>6 DEF IInv, QueueOK, n
  <2>3. \A u \in cancelling \ {t} : \E i \in 1 .. n - 1 : queue[i] = u
    BY <1>1, <1>8 DEF IInv, QueueOK
  <2>4. \A u \in woken' \cup cancelling' : Waiting(u)'
    BY <1>3, <1>4, <1>9, <2>3 DEF Waiting, Contains
  <2>5. /\ \A i, j \in 1 .. Len(waiters') : i < j => waiters'[i] # waiters'[j]
        /\ \A i \in 1 .. Len(waiters') : call'[waiters'[i]] # NoCall
    BY <1>3, <1>4, <2>1, <2>2
  <2>6. \A u \in woken' : u = waiters'[1] /\ ~locked'
    BY <1>4, <1>9
  <2> QED BY <2>4, <2>5, <2>6 DEF QueueOK
<1>12. OneSnapshot'
  <2>1. \A u \in Task : InSnapshot(u)' => InSnapshot(u)
    <3>1. \A u \in Task \ {t} : Waiting(u)' <=> Waiting(u)
      BY <1>3, <1>4, <1>8 DEF Waiting, Contains
    <3> QED BY <1>5, <3>1 DEF InSnapshot, NoCall
  <2> QED BY <1>4, <2>1 DEF IInv, OneSnapshot, SnapshotStable, dequeVars
<1>13. NumbersOK'
  <2>1. \A i \in 1 .. n - 1 : call'[queue[i]] = call[waiters[at(i)]]
    BY <1>5, <1>6
  <2>2. \A i, j \in 1 .. n : i < j => call[waiters[i]].num < call[waiters[j]].num
    BY DEF IInv, NumbersOK, n
  <2>3. \A i, j \in 1 .. n - 1 : i < j => call'[queue[i]].num < call'[queue[j]].num
    BY <1>6, <1>7, <2>1, <2>2
  <2>4. \A u \in Task : call'[u] # NoCall => call'[u].num \in 1 .. calls
    BY <1>5 DEF IInv, NumbersOK
  <2>5. \A i \in 1 .. n - 1 : queue[i] \notin cancelling' =>
           \A m \in completed : m < call'[queue[i]].num
    BY <1>4, <1>6, <2>1 DEF IInv, NumbersOK, n
  <2> QED BY <1>3, <1>4, <2>3, <2>4, <2>5 DEF NumbersOK
<1>14. NoLostWakeup'
  <2> SUFFICES ASSUME ~locked, queue # << >>
               PROVE  Head(queue) \in woken' \cup cancelling'
    BY <1>4 DEF NoLostWakeup
  <2>1. 1 \in 1 .. n - 1 /\ Head(queue) = queue[1] /\ queue[1] # t
    <3>1. 1 \in 1 .. n - 1 /\ Head(queue) = queue[1]
      BY <1>1, <1>3
    <3> QED BY <1>6, <3>1
  <2> QED BY <1>4, <2>1 DEF WakeFirst
<1> QED BY <1>4, <1>10, <1>11, <1>12, <1>13, <1>14
     DEF IInv, CountOK, WritesInCallOrder, NoWriteLost, dequeVars

-----------------------------------------------------------------------------
(* No task, no interleaving and no cancellation breaks the invariant.        *)
THEOREM AsyncInvariant == Spec => []IInv
<1>1. Init => IInv
  <2> SUFFICES ASSUME Init PROVE IInv
    OBVIOUS
  <2>1. LockTypeOK
    <3>1. /\ deque = << >> /\ waiters = << >> /\ locked = FALSE /\ calls = 0
          /\ woken = {} /\ cancelling = {} /\ completed = {}
      BY DEF Init, DequeInit
    <3>2. << >> \in Seq(Event) /\ << >> \in Seq(Task)
      OBVIOUS
    <3>3. call \in [Task -> [kind : Kinds, num : Event] \cup {NoCall}]
      BY DEF Init
    <3>4. view \in [Task -> Seq(Event)]
      BY <3>2 DEF Init
    <3>5. calls \in 0 .. MaxWrites /\ completed \subseteq 1 .. calls
      BY <3>1, MaxWritesAssumption
    <3> QED BY <3>1, <3>2, <3>3, <3>4, <3>5 DEF LockTypeOK
  <2>2. QueueOK /\ NoLostWakeup
    BY DEF Init, QueueOK, NoLostWakeup
  <2>3. OneSnapshot /\ NumbersOK
    BY DEF Init, OneSnapshot, SnapshotStable, NumbersOK, InSnapshot, NoCall
  <2>4. CountOK
    BY FS_EmptySet, CapacityAssumption DEF Init, DequeInit, CountOK
  <2>5. WritesInCallOrder /\ NoWriteLost
    BY DEF Init, DequeInit, WritesInCallOrder, NoWriteLost
  <2> QED BY <2>1, <2>2, <2>3, <2>4, <2>5 DEF IInv
<1>2. IInv /\ [Next]_vars => IInv'
  <2> SUFFICES ASSUME IInv, [Next]_vars PROVE IInv'
    OBVIOUS
  <2>1. CASE UNCHANGED vars
    <3>1. UNCHANGED <<deque, writes, locked, waiters, woken, cancelling, call, calls, view, completed>>
      BY <2>1 DEF vars, dequeVars, lockVars
    <3>2. LockTypeOK' /\ CountOK' /\ WritesInCallOrder' /\ NoWriteLost'
      BY <3>1 DEF IInv, LockTypeOK, CountOK, WritesInCallOrder, NoWriteLost
    <3>3. QueueOK' /\ NoLostWakeup'
      BY <3>1 DEF IInv, QueueOK, NoLostWakeup, Waiting, Contains
    <3>4. OneSnapshot' /\ NumbersOK'
      BY <3>1 DEF IInv, OneSnapshot, SnapshotStable, NumbersOK, InSnapshot, Waiting, Contains
    <3> QED BY <3>2, <3>3, <3>4 DEF IInv
  <2>2. CASE Next
    <3> PICK t \in Task : \/ \E k \in Kinds : CallAtOnce(t, k) \/ CallAndWait(t, k)
                          \/ Cancel(t)
                          \/ Step(t)
      BY <2>2 DEF Next
    <3>1. CASE \E k \in Kinds : CallAtOnce(t, k) \/ CallAndWait(t, k)
      BY <3>1, CallAtOnceStep, CallAndWaitStep
    <3>2. CASE Cancel(t)
      BY <3>2, CancelStep
    <3>3. CASE Step(t)
      BY <3>3, ResumeStep, ResumeCancelledStep, ExitSnapshotStep DEF Step
    <3> QED BY <3>1, <3>2, <3>3
  <2> QED BY <2>1, <2>2
<1> QED BY <1>1, <1>2, PTL DEF Spec

(* The types, and the deque's length: one write per completed call.          *)
THEOREM AsyncTypeOK == Spec => []TypeOK
<1>1. IInv => TypeOK
  <2> SUFFICES ASSUME IInv PROVE TypeOK
    OBVIOUS
  <2>1. IsFiniteSet(1 .. MaxWrites) /\ Cardinality(1 .. MaxWrites) = MaxWrites
    BY MaxWritesAssumption, FS_Interval
  <2>2. completed \subseteq 1 .. MaxWrites
    BY MaxWritesAssumption DEF IInv, LockTypeOK
  <2>3. Cardinality(completed) \in 0 .. MaxWrites
    <3>1. IsFiniteSet(completed) /\ Cardinality(completed) <= Cardinality(1 .. MaxWrites)
      BY <2>1, <2>2, FS_Subset
    <3>2. Cardinality(completed) \in Nat
      BY <3>1, FS_CardinalityType
    <3> QED BY <2>1, <3>1, <3>2, MaxWritesAssumption
  <2>4. completed \subseteq Event
    BY <2>2, EventAssumption
  <2> QED BY <2>3, <2>4 DEF IInv, LockTypeOK, CountOK, TypeOK, DequeTypeOK
<1> QED BY <1>1, AsyncInvariant, PTL

(* "Prevents writes from interleaving while the caller processes events"     *)
(* (ring_buffer.py:256), for any number of tasks.                            *)
THEOREM AsyncSnapshotStable == Spec => []SnapshotStable
<1>1. IInv => SnapshotStable
  BY DEF IInv, OneSnapshot
<1> QED BY <1>1, AsyncInvariant, PTL

(* Writes land in call order and none that returned is lost, whatever was    *)
(* queued, cancelled or evicted.                                             *)
THEOREM AsyncWritesKept == Spec => []WritesKept
<1>1. IInv => WritesKept
  BY DEF IInv, WritesKept
<1> QED BY <1>1, AsyncInvariant, PTL

(* A free lock with waiters always has a waiter about to run.                *)
THEOREM AsyncNoLostWakeup == Spec => []NoLostWakeup
<1>1. IInv => NoLostWakeup
  BY DEF IInv
<1> QED BY <1>1, AsyncInvariant, PTL

(* The lock is sound: every variable keeps its type and no wake-up is lost.  *)
THEOREM AsyncLockSound == Spec => []LockSound
<1>1. TypeOK /\ NoLostWakeup => LockSound
  BY DEF LockSound
<1> QED BY <1>1, AsyncTypeOK, AsyncNoLostWakeup, PTL
=============================================================================
