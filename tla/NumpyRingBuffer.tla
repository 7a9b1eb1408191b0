------------------------- MODULE NumpyRingBuffer -------------------------
(***************************************************************************)
(* NumpyRingBuffer of src/core/ring_buffer.py: a pre-allocated circular    *)
(* array with an absolute write head.  The class promises to be the        *)
(* "behavioral equivalent to DequeRingBuffer"; the module states that as a *)
(* refinement: the list read_all() returns evolves as the deque does.      *)
(***************************************************************************)
EXTENDS Integers, Sequences

CONSTANTS Capacity,   \* the constructor's argument, rejected unless > 0
          Event,      \* the events (dicts, stored by reference)
          Unset,      \* what a slot of np.empty(dtype=object) holds: None
          MaxWrites   \* bound on the number of writes of a behaviour

ASSUME CapacityAssumption == Capacity \in Nat \ {0}
ASSUME MaxWritesAssumption == MaxWrites \in Nat
ASSUME UnsetAssumption == Unset \notin Event

VARIABLES buf,        \* self._buf, slots 0 .. Capacity-1
          head,       \* self._head, next write position (absolute)
          size        \* self._size, number of valid events

vars == <<buf, head, size>>

Slots == 0 .. Capacity - 1

-----------------------------------------------------------------------------
(* Mutant: a full buffer is returned in slot order, not rotated to its head. *)
ReadAllUnrotated == [i \in 1 .. size |-> buf[i - 1]]

(* Not yet wrapped: slots 0 .. size-1 in order; full: walk forward from the  *)
(* slot the next write would overwrite.                                      *)
ReadAll ==
    IF size < Capacity
    THEN [i \in 1 .. size |-> buf[i - 1]]
    ELSE [i \in 1 .. Capacity |-> buf[(head + (i - 1)) % Capacity]]


(* The deque that holds what read_all() returns. *)
Deque == INSTANCE DequeRingBuffer WITH deque <- ReadAll, writes <- head

(* Mutant: without the guard, -0 slices nothing off.                         *)
ReadLatestUnguarded(n) ==
    IF n < Len(ReadAll) THEN Deque!SliceFrom(ReadAll, -n) ELSE ReadAll

ReadLatest(n) ==
    IF n <= 0 THEN << >>
    ELSE IF n < Len(ReadAll) THEN Deque!SliceFrom(ReadAll, -n)
    ELSE ReadAll

-----------------------------------------------------------------------------
Init == /\ buf = [s \in Slots |-> Unset]
        /\ head = 0
        /\ size = 0

Write(e) == /\ head < MaxWrites
            /\ buf' = [buf EXCEPT ![head % Capacity] = e]
            /\ head' = head + 1
            /\ size' = IF size < Capacity THEN size + 1 ELSE size

Next == \E e \in Event : Write(e)

Spec == Init /\ [][Next]_vars

-----------------------------------------------------------------------------
(* Head and size agree (the size saturates where the head goes on), and      *)
(* exactly the slots behind the head are initialised: no read returns a slot *)
(* np.empty left unset (ring_buffer.py:166-182).                             *)
TypeOK == /\ buf \in [Slots -> Event \cup {Unset}]
          /\ head \in 0 .. MaxWrites
          /\ size = (IF head < Capacity THEN head ELSE Capacity)
          /\ \A s \in Slots : buf[s] \in Event <=> s < size

(* read_latest(n) returns what the deque's read_latest(n) returns, for every *)
(* n including 0, negative ones and ones above the current size, although    *)
(* the two methods guard their slices differently (lines 128-136, 184-193).  *)
ReadLatestAgrees ==
    \A n \in -1 .. Capacity + 1 : ReadLatest(n) = Deque!ReadLatest(n)

(* read_all() of the circular array changes exactly as the deque does, write *)
(* for write: eviction of the oldest, order and wrap-around included; and    *)
(* read_latest() never tells the two apart.                                  *)
ImplementsDeque == Deque!DequeSpec /\ []ReadLatestAgrees
=============================================================================
