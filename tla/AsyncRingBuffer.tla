------------------------- MODULE AsyncRingBuffer -------------------------
(***************************************************************************)
(* AsyncRingBuffer of src/core/ring_buffer.py: one asyncio.Lock around a   *)
(* synchronous backend, shared by the tasks of one event loop.  An action  *)
(* is what a task does between two suspension points.  write and read run  *)
(* without suspending once the lock is theirs, so acquire, backend call    *)
(* and release are one action; snapshot keeps the lock while its caller    *)
(* processes the events.  A waiting task may be cancelled at any time, as  *)
(* asyncio.wait_for and a shutdown do.                                     *)
(*                                                                         *)
(* Calls are numbered in the order they are made, and a write writes its   *)
(* own number: the backend then shows which calls landed, and in what      *)
(* order.                                                                  *)
(***************************************************************************)
EXTENDS DequeRingBuffer, SequencesExt

CONSTANT Task                    \* the coroutines that share the buffer

ASSUME EventAssumption == Event = 1 .. MaxWrites

VARIABLES locked,     \* Lock._locked
          waiters,    \* Lock._waiters: the tasks whose futures are queued
          woken,      \* tasks whose future has a result, not yet resumed
          cancelling, \* tasks with a CancelledError on its way
          call,       \* call[t]: the call t is inside, or NoCall
          calls,      \* how many calls were made
          view,       \* view[t]: the list a snapshot yielded to t
          completed   \* the numbers of the writes that returned normally

lockVars == <<locked, waiters, woken, cancelling>>
vars == <<dequeVars, lockVars, call, calls, view, completed>>

Kinds == {"write", "read", "snapshot"}
NoCall == [kind |-> "none", num |-> 0]
Waiting(t) == Contains(waiters, t)
InSnapshot(t) == call[t].kind = "snapshot" /\ ~Waiting(t)

(* self._waiters.remove(fut): a task waits at most once.                     *)
Position(t) == CHOOSE i \in DOMAIN waiters : waiters[i] = t
Without(t) == RemoveAt(waiters, Position(t))

-----------------------------------------------------------------------------
(* asyncio.Lock.  A future is done once it has a result or was cancelled;    *)
(* _wake_up_first gives the head future its result unless it is done.        *)
FutureCancelled(t) == t \in cancelling /\ t \notin woken
MayJumpQueue == ~locked /\ \A i \in DOMAIN waiters : FutureCancelled(waiters[i])

WakeFirst(queue, up) ==
    IF queue # << >> /\ Head(queue) \notin up \cup cancelling
    THEN up \cup {Head(queue)}
    ELSE up

-----------------------------------------------------------------------------
Init == /\ DequeInit
        /\ locked = FALSE
        /\ waiters = << >>
        /\ woken = {}
        /\ cancelling = {}
        /\ call = [t \in Task |-> NoCall]
        /\ calls = 0
        /\ view = [t \in Task |-> << >>]
        /\ completed = {}

(* Mutant: the backend's write is a coroutine nobody awaits.                 *)
WriteUnawaited(t, c, queue, up) ==
    /\ c.kind = "write"
    /\ completed' = completed \cup {c.num}
    /\ call' = [call EXCEPT ![t] = NoCall]
    /\ locked' = FALSE
    /\ woken' = WakeFirst(queue, up)
    /\ UNCHANGED <<dequeVars, view>>

(* Mutant: the snapshot is read under the lock but processed outside it.     *)
EnterSnapshotUnlocked(t, c, queue, up) ==
    /\ c.kind = "snapshot"
    /\ view' = [view EXCEPT ![t] = ReadAll]
    /\ call' = [call EXCEPT ![t] = c]
    /\ locked' = FALSE
    /\ woken' = WakeFirst(queue, up)
    /\ UNCHANGED <<dequeVars, completed>>

(* The body of  async with self._lock  once t owns the lock, for call c,     *)
(* with the queue and the woken tasks as the acquisition left them.          *)
Write(t, c, queue, up) ==
    /\ c.kind = "write"
    /\ deque' = AppendBounded(deque, c.num)
    /\ writes' = writes + 1
    /\ completed' = completed \cup {c.num}
    /\ call' = [call EXCEPT ![t] = NoCall]
    /\ locked' = FALSE
    /\ woken' = WakeFirst(queue, up)
    /\ UNCHANGED view

Read(t, c, queue, up) ==
    /\ c.kind = "read"
    /\ call' = [call EXCEPT ![t] = NoCall]
    /\ locked' = FALSE
    /\ woken' = WakeFirst(queue, up)
    /\ UNCHANGED <<dequeVars, view, completed>>

EnterSnapshot(t, c, queue, up) ==
    /\ c.kind = "snapshot"
    /\ view' = [view EXCEPT ![t] = ReadAll]
    /\ call' = [call EXCEPT ![t] = c]
    /\ locked' = TRUE
    /\ woken' = up
    /\ UNCHANGED <<dequeVars, completed>>

WithLock(t, c, queue, up) ==
    \/ Write(t, c, queue, up)
    \/ Read(t, c, queue, up)
    \/ EnterSnapshot(t, c, queue, up)

-----------------------------------------------------------------------------
(* Mutant: the call does not take the lock.                                  *)
CallUnlocked(t, k) ==
    /\ call[t] = NoCall
    /\ calls < MaxWrites
    /\ calls' = calls + 1
    /\ ~locked
    /\ WithLock(t, [kind |-> k, num |-> calls + 1], waiters, woken)
    /\ UNCHANGED <<waiters, cancelling>>

(* An idle task calls the buffer and finds the lock free ...                 *)
CallAtOnce(t, k) ==
    /\ call[t] = NoCall
    /\ calls < MaxWrites
    /\ calls' = calls + 1
    /\ MayJumpQueue
    /\ WithLock(t, [kind |-> k, num |-> calls + 1], waiters, woken)
    /\ UNCHANGED <<waiters, cancelling>>

(* ... or queues behind the others.                                          *)
CallAndWait(t, k) ==
    /\ call[t] = NoCall
    /\ calls < MaxWrites
    /\ calls' = calls + 1
    /\ ~MayJumpQueue
    /\ call' = [call EXCEPT ![t] = [kind |-> k, num |-> calls + 1]]
    /\ waiters' = Append(waiters, t)
    /\ UNCHANGED <<dequeVars, locked, woken, cancelling, view, completed>>

(* The loop resumes a woken waiter, which takes the lock.                    *)
Resume(t) ==
    /\ t \in woken \ cancelling
    /\ waiters' = Without(t)
    /\ WithLock(t, call[t], Without(t), woken \ {t})
    /\ UNCHANGED <<cancelling, calls>>

(* Mutant: a cancelled waiter leaves without passing its wake-up on.         *)
ResumeCancelledSilently(t) ==
    /\ t \in cancelling
    /\ waiters' = Without(t)
    /\ cancelling' = cancelling \ {t}
    /\ woken' = woken \ {t}
    /\ call' = [call EXCEPT ![t] = NoCall]
    /\ UNCHANGED <<dequeVars, locked, calls, view, completed>>

(* Someone cancels a waiting task; the task sees it when the loop resumes    *)
(* it, and passes the wake-up on if the lock is free.                        *)
Cancel(t) ==
    /\ Waiting(t)
    /\ t \notin cancelling
    /\ cancelling' = cancelling \cup {t}
    /\ UNCHANGED <<dequeVars, locked, waiters, woken, call, calls, view, completed>>

ResumeCancelled(t) ==
    /\ t \in cancelling
    /\ waiters' = Without(t)
    /\ cancelling' = cancelling \ {t}
    /\ woken' = IF locked THEN woken \ {t} ELSE WakeFirst(Without(t), woken \ {t})
    /\ call' = [call EXCEPT ![t] = NoCall]
    /\ UNCHANGED <<dequeVars, locked, calls, view, completed>>

(* Mutant: an exception in the caller's block leaves the lock taken.         *)
ExitSnapshotKeepsLock(t) ==
    /\ InSnapshot(t)
    /\ call' = [call EXCEPT ![t] = NoCall]
    /\ view' = [view EXCEPT ![t] = << >>]
    /\ UNCHANGED <<dequeVars, lockVars, calls, completed>>

(* The caller leaves  async with buf.snapshot() , normally or by an          *)
(* exception (cancellation included): the lock is released either way.       *)
ExitSnapshot(t) ==
    /\ InSnapshot(t)
    /\ call' = [call EXCEPT ![t] = NoCall]
    /\ view' = [view EXCEPT ![t] = << >>]
    /\ locked' = FALSE
    /\ woken' = WakeFirst(waiters, woken)
    /\ UNCHANGED <<dequeVars, waiters, cancelling, calls, completed>>

Step(t) == Resume(t) \/ ResumeCancelled(t) \/ ExitSnapshot(t)

Next == \E t \in Task :
           \/ \E k \in Kinds : CallAtOnce(t, k) \/ CallAndWait(t, k)
           \/ Cancel(t)
           \/ Step(t)

(* The loop runs every ready callback, and a caller's processing inside a    *)
(* snapshot ends.                                                            *)
Fairness == \A t \in Task : WF_vars(Step(t))

Spec == Init /\ [][Next]_vars
FairSpec == Spec /\ Fairness

-----------------------------------------------------------------------------
TypeOK == /\ DequeTypeOK
          /\ locked \in BOOLEAN
          /\ waiters \in Seq(Task)
          /\ woken \subseteq Task
          /\ cancelling \subseteq Task
          /\ call \in [Task -> [kind : Kinds, num : Event] \cup {NoCall}]
          /\ calls \in 0 .. MaxWrites
          /\ view \in [Task -> Seq(Event)]
          /\ completed \subseteq Event

(* While a caller processes a snapshot nothing it was given goes stale: the  *)
(* backend still holds exactly the yielded list ("Prevents writes from       *)
(* interleaving while the caller processes events", ring_buffer.py:256).     *)
SnapshotStable ==
    \A t \in Task : InSnapshot(t) => locked /\ view[t] = deque

(* Writes land in the order they were called, each at most once, and a       *)
(* cancelled write never lands: whatever the queue of waiters went through,  *)
(* the backend's numbers increase and belong to writes that returned.        *)
WritesInCallOrder ==
    /\ \A i, j \in DOMAIN deque : i < j => deque[i] < deque[j]
    /\ \A i \in DOMAIN deque : deque[i] \in completed

(* No write is lost: one that returned is in the buffer, unless the buffer   *)
(* is full of later ones (test_concurrent_writes_evict_at_capacity).         *)
NoWriteLost ==
    \A n \in completed :
        \/ \E i \in DOMAIN deque : deque[i] = n
        \/ Len(deque) = Capacity /\ \A i \in DOMAIN deque : n < deque[i]

(* No wake-up is lost: while the lock is free and somebody waits for it, the *)
(* first waiter is about to run, with the lock or to pass the wake-up on.    *)
NoLostWakeup ==
    ~locked /\ waiters # << >> => Head(waiters) \in woken \cup cancelling

(* The buffer's content, and the lock that guards it.                        *)
WritesKept == WritesInCallOrder /\ NoWriteLost
LockSound == TypeOK /\ NoLostWakeup

(* Every call made is answered: it gets the lock or it is cancelled.         *)
EveryCallEnds == \A t \in Task : Waiting(t) ~> ~Waiting(t)
=============================================================================
