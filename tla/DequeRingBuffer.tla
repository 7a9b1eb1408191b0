------------------------- MODULE DequeRingBuffer -------------------------
(***************************************************************************)
(* The synchronous ring buffer of src/core/ring_buffer.py: the structural  *)
(* contract RingBufferProtocol and its reference implementation            *)
(* DequeRingBuffer, a collections.deque with maxlen.  Every other ring     *)
(* buffer of the repository is compared with this one.                     *)
(***************************************************************************)
EXTENDS Integers, Sequences

CONSTANTS Capacity,   \* the constructor's argument, rejected unless > 0
          Event,      \* the events (dicts, stored by reference)
          MaxWrites   \* bound on the number of writes of a behaviour

ASSUME CapacityAssumption == Capacity \in Nat \ {0}
ASSUME MaxWritesAssumption == MaxWrites \in Nat

VARIABLES deque,      \* self._buf
          writes      \* how many writes were made (the bound's counter)

dequeVars == <<deque, writes>>

-----------------------------------------------------------------------------
(* Python's  s[start:]  : a negative start counts from the end and is       *)
(* clamped at the front; -0 is 0, the whole list.                            *)
SliceFrom(s, start) ==
    LET from == IF start >= 0 THEN start
                ELSE IF Len(s) + start > 0 THEN Len(s) + start ELSE 0
    IN  SubSeq(s, from + 1, Len(s))

(* deque(maxlen=Capacity).append: the oldest element leaves a full deque.    *)
Evict(s) == IF Len(s) = Capacity THEN Tail(s) ELSE s
AppendBounded(s, e) == Append(Evict(s), e)

ReadAll == deque

ReadLatest(n) == IF n <= 0 THEN << >> ELSE SliceFrom(deque, -n)

-----------------------------------------------------------------------------
DequeInit ==
    /\ deque = << >>
    /\ writes = 0

DequeWrite(e) ==
    /\ writes < MaxWrites
    /\ deque' = AppendBounded(deque, e)
    /\ writes' = writes + 1

DequeNext == \E e \in Event : DequeWrite(e)

DequeSpec == DequeInit /\ [][DequeNext]_dequeVars

-----------------------------------------------------------------------------
(* The buffer never holds more than its capacity, and holds every event      *)
(* written until it is full (DequeRingBuffer.write, ring_buffer.py:120).     *)
DequeTypeOK ==
    /\ deque \in Seq(Event)
    /\ writes \in 0 .. MaxWrites
    /\ Len(deque) = IF writes < Capacity THEN writes ELSE Capacity
=============================================================================
