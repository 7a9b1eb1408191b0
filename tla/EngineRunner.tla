-------------------------- MODULE EngineRunner --------------------------
(***************************************************************************)
(* EngineProcess of src/engine/runner.py: a detector in a child process,   *)
(* fed over a bounded multiprocessing.Queue with drop-oldest backpressure. *)
(*                                                                         *)
(* Four actors interleave: the caller (submit, poll_results, start, stop,  *)
(* split at every queue call), the feeder thread of self._in, the worker   *)
(* process, and the feeder thread of self._out inside the worker.          *)
(*                                                                         *)
(* multiprocessing.Queue is modelled as this code meets it: put_nowait     *)
(* takes a slot of a semaphore and appends to a buffer of the putting      *)
(* process, a feeder thread moves the buffer into the pipe, get holds the  *)
(* reader lock while it waits for the pipe and frees the slot afterwards,  *)
(* and get_nowait raises Empty when the reader lock is taken or the pipe   *)
(* is empty, whatever the semaphore says.                                  *)
(***************************************************************************)
EXTENDS Integers, SequencesExt

CONSTANTS MaxQueue,     \* max_queue, rejected unless >= 1
          MaxFrames,    \* bound: frames submitted in a behaviour
          MaxStarts,    \* bound: calls of start()
          OutPipeSize,  \* results the pipe of self._out takes before it blocks
          BadFrames     \* the frames the detector raises on

ASSUME MaxQueueAssumption == MaxQueue \in Nat \ {0}
ASSUME BoundsAssumption == MaxFrames \in Nat /\ MaxStarts \in Nat
ASSUME OutPipeAssumption == OutPipeSize \in Nat \ {0}
ASSUME BadFramesAssumption == BadFrames \subseteq 1 .. MaxFrames

Frame == 1 .. MaxFrames   \* frames are numbered as they are submitted
Stop == 0                 \* (_STOP, None); frame n is (_FRAME, n)
Message == Frame \cup {Stop}
Nothing == -1

VARIABLES slots,      \* free slots of self._in (its BoundedSemaphore)
          inBuffer,   \* self._in: put, not yet fed to the pipe
          inPipe,     \* self._in: in the pipe
          readLock,   \* self._in._rlock: "free", "worker", "orphaned"
          worker,     \* where the worker is; "off" when there is none
          hand,       \* the message the worker has taken
          outBuffer,  \* self._out inside the worker
          outPipe,    \* self._out: results ready to be polled
          caller,     \* where the caller is
          proc,       \* self._proc is not None
          submitted,  \* frames submitted so far; the newest frame
          dropped,    \* engine_frames_dropped_total
          polled,     \* the results poll_results has returned
          lost,       \* frames a submit threw away (old or new)
          discarded,  \* frames a stop threw away
          starts,     \* start() calls made
          killed      \* some stop() had to terminate the worker

queueVars == <<slots, inBuffer, inPipe, readLock>>
workerVars == <<worker, hand, outBuffer>>
counterVars == <<submitted, dropped, lost, discarded>>
vars == <<queueVars, workerVars, outPipe, caller, proc, counterVars, polled,
          starts, killed>>

WorkerStates == {"off", "get", "recv", "release", "detect", "exiting"}
CallerStates == {"idle", "evict", "retry", "stop_evict", "stop_retry", "join"}

-----------------------------------------------------------------------------
Init == /\ slots = MaxQueue
        /\ inBuffer = << >>
        /\ inPipe = << >>
        /\ readLock = "free"
        /\ worker = "off"
        /\ hand = Nothing
        /\ outBuffer = << >>
        /\ outPipe = << >>
        /\ caller = "idle"
        /\ proc = FALSE
        /\ submitted = 0
        /\ dropped = 0
        /\ polled = << >>
        /\ lost = {}
        /\ discarded = {}
        /\ starts = 0
        /\ killed = FALSE

-----------------------------------------------------------------------------
(* self._in.put_nowait(m) / its queue.Full, self._in.get_nowait() / Empty.   *)
Put(m) == /\ slots > 0
          /\ slots' = slots - 1
          /\ inBuffer' = Append(inBuffer, m)
          /\ UNCHANGED <<inPipe, readLock>>

Full == /\ slots = 0
        /\ UNCHANGED queueVars

Take == /\ readLock = "free"
        /\ inPipe # << >>
        /\ inPipe' = Tail(inPipe)
        /\ slots' = slots + 1
        /\ UNCHANGED <<inBuffer, readLock>>

Empty == /\ readLock # "free" \/ inPipe = << >>
         /\ UNCHANGED queueVars

-----------------------------------------------------------------------------
(* start(): the child begins in _worker, on the queues as they are.  A       *)
(* second start() while a process is known would leave two workers; no       *)
(* caller does that.                                                         *)
Start == /\ caller = "idle"
         /\ ~proc
         /\ starts < MaxStarts
         /\ starts' = starts + 1
         /\ proc' = TRUE
         /\ worker' = "get"
         /\ UNCHANGED <<queueVars, hand, outBuffer, outPipe, caller,
                        counterVars, polled, killed>>

(* Mutant: no return after the first put_nowait succeeded.                   *)
SubmitTwice == /\ caller = "idle"
               /\ submitted < MaxFrames
               /\ submitted' = submitted + 1
               /\ Put(submitted + 1) \/ Full
               /\ caller' = "evict"
               /\ UNCHANGED <<workerVars, outPipe, proc, dropped, lost,
                              discarded, polled, starts, killed>>

(* submit(frame): the first put_nowait ...                                   *)
Submit == /\ caller = "idle"
          /\ submitted < MaxFrames
          /\ submitted' = submitted + 1
          /\ \/ Put(submitted + 1) /\ caller' = "idle"
             \/ Full /\ caller' = "evict"
          /\ UNCHANGED <<workerVars, outPipe, proc, dropped, lost, discarded,
                         polled, starts, killed>>

(* ... the queue was full: evict the oldest, and count whether or not one    *)
(* was there ...                                                             *)
SubmitEvict == /\ caller = "evict"
               /\ \/ Take /\ lost' = lost \cup ({Head(inPipe)} \ {Stop})
                  \/ Empty /\ UNCHANGED lost
               /\ dropped' = dropped + 1
               /\ caller' = "retry"
               /\ UNCHANGED <<workerVars, outPipe, proc, submitted, discarded,
                              polled, starts, killed>>

(* Mutant: a frame that does not fit the second time just disappears.        *)
SubmitRetrySilently ==
    /\ caller = "retry"
    /\ Put(submitted) \/ Full
    /\ caller' = "idle"
    /\ UNCHANGED <<workerVars, outPipe, proc, counterVars, polled, starts, killed>>

(* ... and try again; still full: the new frame goes and is counted.         *)
SubmitRetry == /\ caller = "retry"
               /\ \/ Put(submitted) /\ UNCHANGED <<dropped, lost>>
                  \/ /\ Full
                     /\ dropped' = dropped + 1
                     /\ lost' = lost \cup {submitted}
               /\ caller' = "idle"
               /\ UNCHANGED <<workerVars, outPipe, proc, submitted, discarded,
                              polled, starts, killed>>

(* poll_results(): drain what the pipe holds.                                *)
PollResults == /\ caller = "idle"
               /\ outPipe # << >>
               /\ polled' = polled \o outPipe
               /\ outPipe' = << >>
               /\ UNCHANGED <<queueVars, workerVars, caller, proc, counterVars,
                              starts, killed>>

(* stop(): like submit for the stop message, but what it evicts is not       *)
(* counted and a stop message that does not fit is given up ...              *)
StopSignal == /\ caller = "idle"
              /\ proc
              /\ \/ Put(Stop) /\ caller' = "join"
                 \/ Full /\ caller' = "stop_evict"
              /\ UNCHANGED <<workerVars, outPipe, proc, counterVars, polled,
                             starts, killed>>

StopEvict == /\ caller = "stop_evict"
             /\ \/ Take /\ discarded' = discarded \cup ({Head(inPipe)} \ {Stop})
                \/ Empty /\ UNCHANGED discarded
             /\ caller' = "stop_retry"
             /\ UNCHANGED <<workerVars, outPipe, proc, submitted, dropped,
                            lost, polled, starts, killed>>

StopRetry == /\ caller = "stop_retry"
             /\ Put(Stop) \/ Full
             /\ caller' = "join"
             /\ UNCHANGED <<workerVars, outPipe, proc, counterVars, polled,
                            starts, killed>>

(* Mutant: join() without a timeout.                                         *)
StopNeverTerminates == FALSE

(* ... then join: the worker is gone ...                                     *)
StopJoined == /\ caller = "join"
              /\ worker = "off"
              /\ proc' = FALSE
              /\ caller' = "idle"
              /\ UNCHANGED <<queueVars, workerVars, outPipe, counterVars,
                             polled, starts, killed>>

(* ... or the timeout passes and SIGTERM kills it wherever it is: what it    *)
(* held is gone, and the reader lock stays taken if it held that.            *)
StopTerminate == /\ caller = "join"
                 /\ worker # "off"
                 /\ worker' = "off"
                 /\ hand' = Nothing
                 /\ outBuffer' = << >>
                 /\ readLock' = IF worker = "recv" THEN "orphaned" ELSE readLock
                 /\ discarded' = discarded \cup ({hand} \ {Stop, Nothing})
                                  \cup Range(outBuffer)
                 /\ killed' = TRUE
                 /\ proc' = FALSE
                 /\ caller' = "idle"
                 /\ UNCHANGED <<slots, inBuffer, inPipe, outPipe, submitted,
                                dropped, lost, polled, starts>>

-----------------------------------------------------------------------------
(* The feeder thread of self._in in the caller's process.                    *)
Feed == /\ inBuffer # << >>
        /\ inPipe' = Append(inPipe, Head(inBuffer))
        /\ inBuffer' = Tail(inBuffer)
        /\ UNCHANGED <<slots, readLock, workerVars, outPipe, caller, proc,
                       counterVars, polled, starts, killed>>

(* _worker: in_q.get() takes the reader lock, waits for the pipe, lets the   *)
(* lock go, and frees the slot.                                              *)
WorkerLock == /\ worker = "get"
              /\ readLock = "free"
              /\ readLock' = "worker"
              /\ worker' = "recv"
              /\ UNCHANGED <<slots, inBuffer, inPipe, hand, outBuffer, outPipe,
                             caller, proc, counterVars, polled, starts, killed>>

WorkerRecv == /\ worker = "recv"
              /\ inPipe # << >>
              /\ hand' = Head(inPipe)
              /\ inPipe' = Tail(inPipe)
              /\ readLock' = "free"
              /\ worker' = "release"
              /\ UNCHANGED <<slots, inBuffer, outBuffer, outPipe, caller, proc,
                             counterVars, polled, starts, killed>>

(* Mutant: the slot of a bad frame is not given back.                        *)
WorkerReleaseLeaky ==
    /\ worker = "release"
    /\ slots' = IF hand \in BadFrames THEN slots ELSE slots + 1
    /\ worker' = IF hand = Stop THEN "exiting" ELSE "detect"
    /\ hand' = IF hand = Stop THEN Nothing ELSE hand
    /\ UNCHANGED <<inBuffer, inPipe, readLock, outBuffer, outPipe, caller,
                   proc, counterVars, polled, starts, killed>>

WorkerRelease == /\ worker = "release"
                 /\ slots' = slots + 1
                 /\ worker' = IF hand = Stop THEN "exiting" ELSE "detect"
                 /\ hand' = IF hand = Stop THEN Nothing ELSE hand
                 /\ UNCHANGED <<inBuffer, inPipe, readLock, outBuffer, outPipe,
                                caller, proc, counterVars, polled, starts, killed>>

(* Mutant: without the try, an exception ends the worker.                    *)
WorkerDetectUnguarded ==
    /\ worker = "detect"
    /\ outBuffer' = IF hand \in BadFrames THEN outBuffer ELSE Append(outBuffer, hand)
    /\ hand' = Nothing
    /\ worker' = IF hand \in BadFrames THEN "exiting" ELSE "get"
    /\ UNCHANGED <<queueVars, outPipe, caller, proc, counterVars, polled,
                   starts, killed>>

(* out_q.put(detector(payload)); a frame the detector raises on is skipped.  *)
WorkerDetect == /\ worker = "detect"
                /\ outBuffer' = IF hand \in BadFrames THEN outBuffer
                                ELSE Append(outBuffer, hand)
                /\ hand' = Nothing
                /\ worker' = "get"
                /\ UNCHANGED <<queueVars, outPipe, caller, proc, counterVars,
                               polled, starts, killed>>

(* The feeder thread of self._out; the process ends once it has flushed.     *)
FeedOut == /\ outBuffer # << >>
           /\ Len(outPipe) < OutPipeSize
           /\ outPipe' = Append(outPipe, Head(outBuffer))
           /\ outBuffer' = Tail(outBuffer)
           /\ UNCHANGED <<queueVars, worker, hand, caller, proc, counterVars,
                          polled, starts, killed>>

(* Mutant: the process ends without flushing its results.                    *)
WorkerExitUnflushed ==
    /\ worker = "exiting"
    /\ worker' = "off"
    /\ UNCHANGED <<queueVars, hand, outBuffer, outPipe, caller, proc,
                   counterVars, polled, starts, killed>>

WorkerExit == /\ worker = "exiting"
              /\ outBuffer = << >>
              /\ worker' = "off"
              /\ UNCHANGED <<queueVars, hand, outBuffer, outPipe, caller, proc,
                             counterVars, polled, starts, killed>>

-----------------------------------------------------------------------------
SubmitStep == SubmitEvict \/ SubmitRetry
StopStep == StopEvict \/ StopRetry \/ StopJoined \/ StopTerminate
WorkerStep == WorkerLock \/ WorkerRecv \/ WorkerRelease \/ WorkerDetect \/ WorkerExit

Next == \/ Start \/ Submit \/ SubmitStep \/ PollResults
        \/ StopSignal \/ StopStep
        \/ Feed \/ WorkerStep \/ FeedOut

(* A call begun is finished, the threads and the worker run; nobody has to   *)
(* submit, poll or stop.                                                     *)
Fairness == /\ WF_vars(SubmitStep) /\ WF_vars(StopStep)
            /\ WF_vars(Feed) /\ WF_vars(WorkerStep) /\ WF_vars(FeedOut)

Spec == Init /\ [][Next]_vars
FairSpec == Spec /\ Fairness

-----------------------------------------------------------------------------
InSubmit == caller \in {"evict", "retry"}
InStop == caller \in {"stop_evict", "stop_retry", "join"}
(* Every message still on its way or answered, oldest first.                 *)
InHand == IF hand \in Frame THEN <<hand>> ELSE << >>
Newest == IF InSubmit THEN <<submitted>> ELSE << >>
InFlight == polled \o outPipe \o outBuffer \o InHand \o inPipe \o inBuffer \o Newest

QueueLength == Len(inBuffer) + Len(inPipe)

TypeOK == /\ slots \in 0 .. MaxQueue
          /\ inBuffer \in Seq(Message) /\ inPipe \in Seq(Message)
          /\ readLock \in {"free", "worker", "orphaned"}
          /\ worker \in WorkerStates /\ caller \in CallerStates
          /\ hand \in Message \cup {Nothing}
          /\ outBuffer \in Seq(Frame) /\ outPipe \in Seq(Frame)
          /\ polled \in Seq(Frame)
          /\ proc \in BOOLEAN /\ killed \in BOOLEAN
          /\ submitted \in 0 .. MaxFrames
          /\ dropped \in 0 .. 2 * submitted
          /\ lost \subseteq Frame /\ discarded \subseteq Frame
          /\ starts \in 0 .. MaxStarts

(* Backpressure: the queue never holds more than max_queue messages ("so     *)
(* end-to-end latency stays bounded", runner.py:5-7), and unless a worker    *)
(* was killed no slot is ever leaked: the capacity stays max_queue.          *)
SlotsAccounted ==
    LET used == QueueLength + (IF worker = "release" THEN 1 ELSE 0)
    IN  /\ slots + used <= MaxQueue
        /\ ~killed => slots + used = MaxQueue

(* Results come back in the order of submission and no frame is processed    *)
(* twice, across evictions, rejections, stops and restarts.                  *)
ResultsInOrder ==
    \A i, j \in DOMAIN InFlight :
        i < j /\ Stop \notin {InFlight[i], InFlight[j]} => InFlight[i] < InFlight[j]

(* A frame is on its way, answered, skipped by a raising detector, thrown    *)
(* away by a stop, or thrown away by a submit; and every one a submit threw  *)
(* away is in engine_frames_dropped_total (runner.py:28, 93, 99).            *)
NoSilentLoss ==
    /\ 1 .. submitted \subseteq
           Range(InFlight) \cup BadFrames \cup discarded \cup lost
    /\ Cardinality(lost) <= dropped

(* The state is well typed, and what was submitted accounted for in order.   *)
FramesAccounted == TypeOK /\ ResultsInOrder /\ NoSilentLoss

(* The engine lives from start() until stop() and not longer: no frame kills *)
(* it ("A single bad frame must never kill the engine", runner.py:42), a     *)
(* stop message of an earlier stop() never reaches it, and no zombie stays.  *)
(* (After a stop() that had to kill the worker, a stale stop message can.)   *)
AliveUntilStopped ==
    /\ ~proc => worker = "off"
    /\ proc /\ ~InStop /\ ~killed => worker \notin {"off", "exiting"}

(* A stop() that joins the worker leaves nothing behind: every frame         *)
(* accepted before it went through the detector, every result to the pipe.   *)
DrainedByCleanStop ==
    [][caller = "join" /\ caller' = "idle" /\ ~killed'
          => QueueLength = 0 /\ outBuffer = << >>]_vars

(* engine_frames_dropped_total says how many frames were dropped by          *)
(* backpressure (its help text, runner.py:28-31).                            *)
DropCounterExact == caller = "idle" => dropped = Cardinality(lost)

(* While the engine runs, every frame accepted leaves the queue.             *)
QueueDrains ==
    \A n \in Frame :
        proc /\ n \in Range(inBuffer \o inPipe)
            ~> ~proc \/ killed \/ n \notin Range(inBuffer \o inPipe)

(* submit() and stop() return, whatever the worker does.                     *)
CallsReturn == caller # "idle" ~> caller = "idle"
=============================================================================
