----------------------- MODULE EngineRunnerProofs -----------------------
(***************************************************************************)
(* The bookkeeping of EngineProcess for every queue size, every number of  *)
(* frames, lifetimes and pipe size: slots, the life of the worker and the  *)
(* clean stop.                                                             *)
(*                                                                         *)
(* The slots are an equation over the four places a message can be.  The   *)
(* worker's life hangs on where a stop message can be: as long as no       *)
(* worker was killed, there is one only while its stop() joins, it is the  *)
(* last message of the queue, and once the worker has it the queue is      *)
(* empty (StopLast); so no later worker meets it and nothing is left       *)
(* behind.                                                                 *)
(***************************************************************************)
EXTENDS EngineRunner, HeadStream, SequenceTheorems, FiniteSetTheorems, TLAPS

MyType ==
    /\ slots \in 0 .. MaxQueue
    /\ inBuffer \in Seq(Message) /\ inPipe \in Seq(Message)
    /\ readLock \in {"free", "worker", "orphaned"}
    /\ worker \in WorkerStates /\ caller \in CallerStates
    /\ hand \in Message \cup {Nothing}
    /\ outBuffer \in Seq(Frame) /\ outPipe \in Seq(Frame) /\ polled \in Seq(Frame)
    /\ proc \in BOOLEAN /\ killed \in BOOLEAN
    /\ submitted \in 0 .. MaxFrames /\ dropped \in Nat
    /\ lost \subseteq Frame /\ discarded \subseteq Frame
    /\ starts \in 0 .. MaxStarts

(* A submit counts at most two drops, one per attempt to make room.          *)
DropsOK ==
    /\ InSubmit => submitted \in Frame
    /\ dropped + (IF caller = "evict" THEN 2 ELSE IF caller = "retry" THEN 1 ELSE 0)
          <= 2 * submitted

(* What the worker holds, and when it has nothing left to flush.             *)
HandOK ==
    /\ worker = "release" => hand \in Message
    /\ worker = "detect" => hand \in Frame
    /\ worker \notin {"release", "detect"} => hand = Nothing
    /\ worker = "off" => outBuffer = << >>

(* Where stop messages are.                                                  *)
StopLast ==
    /\ InStop => proc
    /\ caller # "join" =>
          /\ proc => worker \notin {"off", "exiting"}
          /\ \A i \in 1 .. Len(inBuffer) : inBuffer[i] # Stop
          /\ \A i \in 1 .. Len(inPipe) : inPipe[i] # Stop
          /\ hand # Stop
    /\ \A i \in 1 .. Len(inBuffer) : inBuffer[i] = Stop => i = Len(inBuffer)
    /\ \A i \in 1 .. Len(inPipe) : inPipe[i] = Stop => i = Len(inPipe) /\ inBuffer = << >>
    /\ caller = "join" /\ (hand = Stop \/ worker \in {"exiting", "off"}) =>
          inBuffer = << >> /\ inPipe = << >>

IInv == /\ MyType /\ DropsOK /\ HandOK /\ SlotsAccounted
        /\ ~killed => StopLast
        /\ AliveUntilStopped

-----------------------------------------------------------------------------
(* Kinds of messages, and what two sequence operations keep.                 *)
LEMMA Messages ==
  /\ Stop \in Message /\ Stop \notin Frame /\ Nothing \notin Message /\ Frame \subseteq Message
  /\ Nothing # Stop /\ \A m \in Message : m # Stop => m \in Frame
  /\ \A n \in 0 .. MaxFrames - 1 : n + 1 \in Frame
  /\ MaxFrames \in Nat /\ Frame \subseteq Nat
BY BoundsAssumption DEF Message, Frame, Stop, Nothing

LEMMA AppendFacts ==
  ASSUME NEW S, NEW s \in Seq(S), NEW e \in S
  PROVE  /\ Append(s, e) \in Seq(S) /\ Len(Append(s, e)) = Len(s) + 1
         /\ Append(s, e) # << >> /\ Len(s) \in Nat
         /\ Append(s, e)[Len(s) + 1] = e
         /\ \A i \in 1 .. Len(s) : Append(s, e)[i] = s[i]
OBVIOUS

LEMMA TailFacts ==
  ASSUME NEW S, NEW s \in Seq(S), s # << >>
  PROVE  /\ Head(s) \in S /\ Head(s) = s[1] /\ 1 \in 1 .. Len(s)
         /\ Tail(s) \in Seq(S) /\ Len(Tail(s)) = Len(s) - 1 /\ Len(s) \in Nat \ {0}
         /\ \A i \in 1 .. Len(s) - 1 : Tail(s)[i] = s[i + 1] /\ (i + 1) \in 1 .. Len(s)
         /\ (Len(s) = 1 => Tail(s) = << >>)
<1>1. Len(s) \in Nat \ {0} /\ 1 \in 1 .. Len(s)
  OBVIOUS
<1>2. Head(s) = s[1] /\ s[1] \in S
  BY <1>1
<1>3. Tail(s) \in Seq(S) /\ Len(Tail(s)) = Len(s) - 1
  BY <1>1
<1>4. \A i \in 1 .. Len(s) - 1 : Tail(s)[i] = s[i + 1] /\ (i + 1) \in 1 .. Len(s)
  BY <1>1
<1>5. Len(s) = 1 => Tail(s) = << >>
  <2> SUFFICES ASSUME Len(s) = 1 PROVE Tail(s) = << >>
    OBVIOUS
  <2>1. Len(Tail(s)) = 0 /\ Tail(s) \in Seq(S)
    BY <1>3
  <2> QED BY <2>1, EmptySeq
<1> QED BY <1>1, <1>2, <1>3, <1>4, <1>5

(* put_nowait and get_nowait on the queue of frames.                         *)
LEMMA PutFacts ==
  ASSUME MyType, NEW m \in Message, Put(m)
  PROVE  /\ slots > 0 /\ slots' = slots - 1 /\ slots' \in 0 .. MaxQueue /\ slots \in Nat
         /\ inBuffer' \in Seq(Message) /\ Len(inBuffer') = Len(inBuffer) + 1
         /\ Len(inBuffer) \in Nat
         /\ inBuffer'[Len(inBuffer) + 1] = m
         /\ \A i \in 1 .. Len(inBuffer) : inBuffer'[i] = inBuffer[i]
         /\ inPipe' = inPipe /\ readLock' = readLock
BY AppendFacts, MaxQueueAssumption DEF MyType, Put

LEMMA TakeFacts ==
  ASSUME MyType, SlotsAccounted, Take
  PROVE  /\ Len(inPipe) \in Nat \ {0} /\ slots' = slots + 1 /\ slots \in Nat
         /\ slots' \in 0 .. MaxQueue
         /\ inPipe' \in Seq(Message) /\ Len(inPipe') = Len(inPipe) - 1
         /\ Head(inPipe) = inPipe[1] /\ inPipe[1] \in Message /\ 1 \in 1 .. Len(inPipe)
         /\ \A i \in 1 .. Len(inPipe) - 1 :
               inPipe'[i] = inPipe[i + 1] /\ (i + 1) \in 1 .. Len(inPipe)
         /\ inBuffer' = inBuffer /\ readLock' = readLock
<1>1. inPipe \in Seq(Message) /\ inPipe # << >> /\ inPipe' = Tail(inPipe)
  BY DEF MyType, Take
<1>2. slots \in 0 .. MaxQueue /\ slots' = slots + 1 /\ inBuffer' = inBuffer /\ readLock' = readLock
  BY DEF MyType, Take
<1>3. Len(inBuffer) \in Nat
  BY DEF MyType
<1>4. slots + 1 <= MaxQueue
  BY <1>1, <1>2, <1>3, TailFacts, MaxQueueAssumption DEF SlotsAccounted, QueueLength
<1> QED BY <1>1, <1>2, <1>4, TailFacts, MaxQueueAssumption

(* A step that moves a message between the places leaves the sum alone.      *)
LEMMA SlotsKept ==
  ASSUME SlotsAccounted, killed' = killed, MaxQueue \in Nat,
         worker' = worker \/ (worker # "release" /\ worker' # "release"),
         slots \in Nat, slots' \in Nat,
         Len(inBuffer) \in Nat, Len(inPipe) \in Nat, Len(inBuffer') \in Nat, Len(inPipe') \in Nat,
         slots' + Len(inBuffer') + Len(inPipe') = slots + Len(inBuffer) + Len(inPipe)
  PROVE  SlotsAccounted'
<1>2. CASE worker = "release" /\ worker' = "release"
  BY <1>2 DEF SlotsAccounted, QueueLength
<1>3. CASE worker # "release" /\ worker' # "release"
  BY <1>3 DEF SlotsAccounted, QueueLength
<1> QED BY <1>2, <1>3

(* What a call on the queue does to the places of stop messages: a stop puts *)
(* its own last, nobody else puts one, and nobody does while stop() joins.   *)
LEMMA StopLastPut ==
  ASSUME MyType, StopLast, NEW m \in Message, Put(m),
         UNCHANGED <<worker, hand, proc>>, caller # "join",
         \/ m \in Frame /\ caller' \in {"idle", "evict", "retry"}
         \/ m = Stop /\ caller' = "join" /\ proc
  PROVE  StopLast'
<1>0. /\ inPipe' = inPipe /\ Len(inBuffer') = Len(inBuffer) + 1 /\ Len(inBuffer) \in Nat
      /\ inBuffer'[Len(inBuffer) + 1] = m
      /\ \A i \in 1 .. Len(inBuffer) : inBuffer'[i] = inBuffer[i]
  BY PutFacts
<1>1. \A i \in 1 .. Len(inBuffer') : i \in 1 .. Len(inBuffer) \/ i = Len(inBuffer) + 1
  BY <1>0
<1>2. InStop' => proc'
  BY DEF InStop
<1>3. caller' # "join" =>
        /\ proc' => worker' \notin {"off", "exiting"}
        /\ \A i \in 1 .. Len(inBuffer') : inBuffer'[i] # Stop
        /\ \A i \in 1 .. Len(inPipe') : inPipe'[i] # Stop
        /\ hand' # Stop
  BY <1>0, <1>1, Messages DEF StopLast
<1>4. \A i \in 1 .. Len(inBuffer') : inBuffer'[i] = Stop => i = Len(inBuffer')
  BY <1>0, <1>1 DEF StopLast
<1>5. \A i \in 1 .. Len(inPipe') :
          inPipe'[i] = Stop => i = Len(inPipe') /\ inBuffer' = << >>
  BY <1>0 DEF StopLast
<1>6. caller' = "join" /\ (hand' = Stop \/ worker' \in {"exiting", "off"}) =>
        inBuffer' = << >> /\ inPipe' = << >>
  BY DEF StopLast
<1> QED BY <1>2, <1>3, <1>4, <1>5, <1>6 DEF StopLast

LEMMA StopLastTake ==
  ASSUME MyType, SlotsAccounted, StopLast, Take \/ UNCHANGED <<inBuffer, inPipe>>,
         UNCHANGED <<worker, hand, proc>>, caller # "join", InStop' => proc'
  PROVE  StopLast'
<1>0. /\ inBuffer' = inBuffer /\ Len(inPipe') \in Nat
      /\ \A i \in 1 .. Len(inPipe') : \E j \in 1 .. Len(inPipe) : inPipe'[i] = inPipe[j]
  <2>1. CASE Take
    <3>1. /\ Len(inPipe) \in Nat \ {0} /\ Len(inPipe') = Len(inPipe) - 1 /\ inBuffer' = inBuffer
          /\ \A i \in 1 .. Len(inPipe) - 1 :
                inPipe'[i] = inPipe[i + 1] /\ (i + 1) \in 1 .. Len(inPipe)
      BY <2>1, TakeFacts
    <3> QED BY <3>1
  <2>2. CASE UNCHANGED <<inBuffer, inPipe>>
    BY <2>2 DEF MyType
  <2> QED BY <2>1, <2>2
<1>1. /\ proc => worker \notin {"off", "exiting"}
      /\ \A i \in 1 .. Len(inBuffer) : inBuffer[i] # Stop
      /\ \A i \in 1 .. Len(inPipe) : inPipe[i] # Stop
      /\ hand # Stop
  BY DEF StopLast
<1>2. /\ proc' => worker' \notin {"off", "exiting"}
      /\ \A i \in 1 .. Len(inBuffer') : inBuffer'[i] # Stop
      /\ \A i \in 1 .. Len(inPipe') : inPipe'[i] # Stop
      /\ hand' # Stop
  BY <1>0, <1>1
<1> QED BY <1>2 DEF StopLast, InStop

LEMMA StartKeeps == IInv /\ Start => IInv'
<1> SUFFICES ASSUME IInv, Start PROVE IInv'
  OBVIOUS
<1>0. /\ MyType /\ DropsOK /\ HandOK /\ SlotsAccounted /\ (~killed => StopLast) /\ AliveUntilStopped
      /\ Len(inBuffer) \in Nat /\ Len(inPipe) \in Nat
  BY DEF IInv, MyType
<1>1. MyType'
  BY <1>0, Messages, MaxQueueAssumption, BoundsAssumption DEF MyType, HandOK,
     AliveUntilStopped, Start, queueVars, workerVars, counterVars, WorkerStates,
     CallerStates
<1>2. DropsOK' /\ HandOK'
  BY <1>0, Messages DEF MyType, DropsOK, HandOK, AliveUntilStopped, InSubmit, Start,
     queueVars, workerVars, counterVars
<1>3. SlotsAccounted'
  BY <1>0, MaxQueueAssumption DEF MyType, SlotsAccounted, AliveUntilStopped,
     QueueLength, Start, queueVars, workerVars, counterVars
<1>4. (~killed => StopLast)'
  BY <1>0, Messages DEF MyType, HandOK, StopLast, AliveUntilStopped, InStop, Start,
     queueVars, workerVars, counterVars
<1>5. AliveUntilStopped'
  BY <1>0, Messages DEF MyType, HandOK, StopLast, AliveUntilStopped, InStop, Start,
     queueVars, workerVars, counterVars
<1> QED BY <1>1, <1>2, <1>3, <1>4, <1>5 DEF IInv

LEMMA SubmitKeeps == IInv /\ Submit => IInv'
<1> SUFFICES ASSUME IInv, Submit PROVE IInv'
  OBVIOUS
<1>0. /\ MyType /\ DropsOK /\ HandOK /\ SlotsAccounted /\ (~killed => StopLast) /\ AliveUntilStopped
      /\ Len(inBuffer) \in Nat /\ Len(inPipe) \in Nat
  BY DEF IInv, MyType
<1>a. submitted + 1 \in Message /\ submitted + 1 \in Frame
  BY Messages DEF IInv, MyType, Submit
<1>f. /\ UNCHANGED <<worker, hand, outBuffer, outPipe, proc, killed, polled, starts>>
      /\ caller = "idle"
  BY DEF Submit, workerVars, counterVars
<1>b. CASE Put(submitted + 1)
  <2>0. /\ slots > 0 /\ slots' = slots - 1 /\ slots' \in 0 .. MaxQueue /\ slots \in Nat
        /\ inBuffer' \in Seq(Message) /\ Len(inBuffer') = Len(inBuffer) + 1
        /\ inBuffer'[Len(inBuffer) + 1] = submitted + 1
        /\ \A i \in 1 .. Len(inBuffer) : inBuffer'[i] = inBuffer[i]
        /\ inPipe' = inPipe /\ readLock' = readLock
    BY <1>0, <1>b, <1>a, PutFacts
  <2>c. caller' = "idle" /\ submitted' = submitted + 1 /\ submitted < MaxFrames /\ UNCHANGED <<dropped, lost, discarded>>
    BY <1>0, <1>b, <2>0 DEF Submit, Put, Full, MyType, counterVars
  <2>1. MyType'
    BY <1>0, <1>f, <1>a, <2>0, <2>c, Messages, MaxQueueAssumption,
       BoundsAssumption DEF MyType, DropsOK, InSubmit, CallerStates
  <2>2. DropsOK' /\ HandOK'
    BY <1>0, <1>f, <2>0, <2>c, Messages DEF MyType, DropsOK, HandOK, InSubmit
  <2>3. SlotsAccounted'
    <3>1. /\ Len(inBuffer') \in Nat /\ Len(inPipe') \in Nat
          /\ slots \in Nat /\ slots' \in Nat /\ MaxQueue \in Nat
      BY <1>0, <2>0, MaxQueueAssumption DEF MyType
    <3>2. slots' + Len(inBuffer') + Len(inPipe') = slots + Len(inBuffer) + Len(inPipe)
      BY <1>0, <2>0, <3>1
    <3>3. worker' = worker /\ killed' = killed
      BY <1>f
    <3> QED BY <1>0, <3>1, <3>2, <3>3, SlotsKept
  <2>4. (~killed => StopLast)'
    BY <1>0, <1>f, <1>a, <1>b, <2>0, <2>c, Messages, StopLastPut DEF InStop
  <2>5. AliveUntilStopped'
    BY <1>0, <1>f, <2>0, <2>c DEF AliveUntilStopped, InStop, StopLast
  <2> QED BY <2>1, <2>2, <2>3, <2>4, <2>5 DEF IInv
<1>c. CASE Full
  <2>0. UNCHANGED <<slots, inBuffer, inPipe, readLock>> /\ slots = 0
    BY <1>c DEF Full, queueVars
  <2>c. caller' = "evict" /\ submitted' = submitted + 1 /\ submitted < MaxFrames /\ UNCHANGED <<dropped, lost, discarded>>
    BY <1>0, <1>c, <2>0 DEF Submit, Full, Put, MyType, counterVars
  <2>1. MyType'
    BY <1>0, <1>f, <1>a, <2>0, <2>c, Messages, MaxQueueAssumption,
       BoundsAssumption DEF MyType, DropsOK, InSubmit, CallerStates
  <2>2. DropsOK' /\ HandOK'
    BY <1>0, <1>f, <2>0, <2>c, Messages DEF MyType, DropsOK, HandOK, InSubmit
  <2>3. SlotsAccounted'
    <3>1. /\ Len(inBuffer') \in Nat /\ Len(inPipe') \in Nat
          /\ slots \in Nat /\ slots' \in Nat /\ MaxQueue \in Nat
      BY <1>0, <2>0, MaxQueueAssumption DEF MyType
    <3>2. slots' + Len(inBuffer') + Len(inPipe') = slots + Len(inBuffer) + Len(inPipe)
      BY <1>0, <2>0, <3>1
    <3>3. worker' = worker /\ killed' = killed
      BY <1>f
    <3> QED BY <1>0, <3>1, <3>2, <3>3, SlotsKept
  <2>4. (~killed => StopLast)'
    BY <1>0, <1>f, <1>a, <1>c, <2>0, <2>c, Messages, StopLastTake DEF InStop
  <2>5. AliveUntilStopped'
    BY <1>0, <1>f, <2>0, <2>c DEF AliveUntilStopped, InStop, StopLast
  <2> QED BY <2>1, <2>2, <2>3, <2>4, <2>5 DEF IInv
<1> QED BY <1>b, <1>c DEF Submit

LEMMA SubmitEvictKeeps == IInv /\ SubmitEvict => IInv'
<1> SUFFICES ASSUME IInv, SubmitEvict PROVE IInv'
  OBVIOUS
<1>0. /\ MyType /\ DropsOK /\ HandOK /\ SlotsAccounted /\ (~killed => StopLast) /\ AliveUntilStopped
      /\ Len(inBuffer) \in Nat /\ Len(inPipe) \in Nat
  BY DEF IInv, MyType
<1>f. /\ UNCHANGED <<worker, hand, outBuffer, outPipe, proc, killed, polled, starts>>
      /\ caller = "evict"
  BY DEF SubmitEvict, workerVars, counterVars
<1>b. CASE Take
  <2>0. /\ slots' = slots + 1 /\ slots \in Nat /\ slots' \in 0 .. MaxQueue
        /\ inPipe' \in Seq(Message) /\ Len(inPipe') = Len(inPipe) - 1 /\ Len(inPipe) \in Nat \ {0}
        /\ Head(inPipe) = inPipe[1] /\ inPipe[1] \in Message /\ 1 \in 1 .. Len(inPipe)
        /\ \A i \in 1 .. Len(inPipe) - 1 :
              inPipe'[i] = inPipe[i + 1] /\ (i + 1) \in 1 .. Len(inPipe)
        /\ inBuffer' = inBuffer /\ readLock' = readLock
    BY <1>0, <1>b, TakeFacts
  <2>c. caller' = "retry" /\ dropped' = dropped + 1 /\ lost' = lost \cup ({Head(inPipe)} \ {Stop}) /\ UNCHANGED <<submitted, discarded>>
    BY <1>0, <1>b, <2>0 DEF SubmitEvict, Take, Empty, MyType, counterVars
  <2>d. {Head(inPipe)} \ {Stop} \subseteq Frame
    BY <2>0, Messages
  <2>1. MyType'
    <3>1. lost' \subseteq Frame /\ discarded' \subseteq Frame
      BY <1>0, <2>c, <2>d DEF MyType
    <3>2. dropped' \in Nat /\ submitted' \in 0 .. MaxFrames
      BY <1>0, <2>c DEF MyType
    <3> QED BY <1>0, <1>f, <2>0, <2>c, <3>1, <3>2 DEF MyType, CallerStates
  <2>2. DropsOK' /\ HandOK'
    BY <1>0, <1>f, <2>0, <2>c, Messages DEF MyType, DropsOK, HandOK, InSubmit
  <2>3. SlotsAccounted'
    <3>1. /\ Len(inBuffer') \in Nat /\ Len(inPipe') \in Nat
          /\ slots \in Nat /\ slots' \in Nat /\ MaxQueue \in Nat
      BY <1>0, <2>0, MaxQueueAssumption DEF MyType
    <3>2. slots' + Len(inBuffer') + Len(inPipe') = slots + Len(inBuffer) + Len(inPipe)
      BY <1>0, <2>0, <3>1
    <3>3. worker' = worker /\ killed' = killed
      BY <1>f
    <3> QED BY <1>0, <3>1, <3>2, <3>3, SlotsKept
  <2>4. (~killed => StopLast)'
    BY <1>0, <1>f, <1>b, <2>0, <2>c, Messages, StopLastTake DEF InStop
  <2>5. AliveUntilStopped'
    BY <1>0, <1>f, <2>0, <2>c DEF AliveUntilStopped, InStop, StopLast
  <2> QED BY <2>1, <2>2, <2>3, <2>4, <2>5 DEF IInv
<1>c. CASE Empty
  <2>0. UNCHANGED <<slots, inBuffer, inPipe, readLock>> /\ (readLock # "free" \/ inPipe = << >>)
    BY <1>c DEF Empty, queueVars
  <2>c. caller' = "retry" /\ dropped' = dropped + 1 /\ UNCHANGED <<submitted, lost, discarded>>
    BY <1>0, <1>c, <2>0 DEF SubmitEvict, Empty, Take, MyType, counterVars
  <2>1. MyType'
    BY <1>0, <1>f, <2>0, <2>c, Messages, MaxQueueAssumption, BoundsAssumption
       DEF MyType, DropsOK, InSubmit, CallerStates
  <2>2. DropsOK' /\ HandOK'
    BY <1>0, <1>f, <2>0, <2>c, Messages DEF MyType, DropsOK, HandOK, InSubmit
  <2>3. SlotsAccounted'
    <3>1. /\ Len(inBuffer') \in Nat /\ Len(inPipe') \in Nat
          /\ slots \in Nat /\ slots' \in Nat /\ MaxQueue \in Nat
      BY <1>0, <2>0, MaxQueueAssumption DEF MyType
    <3>2. slots' + Len(inBuffer') + Len(inPipe') = slots + Len(inBuffer) + Len(inPipe)
      BY <1>0, <2>0, <3>1
    <3>3. worker' = worker /\ killed' = killed
      BY <1>f
    <3> QED BY <1>0, <3>1, <3>2, <3>3, SlotsKept
  <2>4. (~killed => StopLast)'
    BY <1>0, <1>f, <1>c, <2>0, <2>c, Messages, StopLastTake DEF InStop
  <2>5. AliveUntilStopped'
    BY <1>0, <1>f, <2>0, <2>c DEF AliveUntilStopped, InStop, StopLast
  <2> QED BY <2>1, <2>2, <2>3, <2>4, <2>5 DEF IInv
<1> QED BY <1>b, <1>c DEF SubmitEvict

LEMMA SubmitRetryKeeps == IInv /\ SubmitRetry => IInv'
<1> SUFFICES ASSUME IInv, SubmitRetry PROVE IInv'
  OBVIOUS
<1>0. /\ MyType /\ DropsOK /\ HandOK /\ SlotsAccounted /\ (~killed => StopLast) /\ AliveUntilStopped
      /\ Len(inBuffer) \in Nat /\ Len(inPipe) \in Nat
  BY DEF IInv, MyType
<1>a. submitted \in Message /\ submitted \in Frame
  BY Messages DEF IInv, DropsOK, InSubmit, SubmitRetry
<1>f. /\ UNCHANGED <<worker, hand, outBuffer, outPipe, proc, killed, polled, starts>>
      /\ caller = "retry"
  BY DEF SubmitRetry, workerVars, counterVars
<1>b. CASE Put(submitted)
  <2>0. /\ slots > 0 /\ slots' = slots - 1 /\ slots' \in 0 .. MaxQueue /\ slots \in Nat
        /\ inBuffer' \in Seq(Message) /\ Len(inBuffer') = Len(inBuffer) + 1
        /\ inBuffer'[Len(inBuffer) + 1] = submitted
        /\ \A i \in 1 .. Len(inBuffer) : inBuffer'[i] = inBuffer[i]
        /\ inPipe' = inPipe /\ readLock' = readLock
    BY <1>0, <1>b, <1>a, PutFacts
  <2>c. caller' = "idle" /\ UNCHANGED <<submitted, dropped, lost, discarded>>
    BY <1>0, <1>b, <2>0 DEF SubmitRetry, Put, Full, MyType, counterVars
  <2>1. MyType'
    BY <1>0, <1>f, <1>a, <2>0, <2>c, Messages, MaxQueueAssumption,
       BoundsAssumption DEF MyType, DropsOK, InSubmit, CallerStates
  <2>2. DropsOK' /\ HandOK'
    BY <1>0, <1>f, <2>0, <2>c, Messages DEF MyType, DropsOK, HandOK, InSubmit
  <2>3. SlotsAccounted'
    <3>1. /\ Len(inBuffer') \in Nat /\ Len(inPipe') \in Nat
          /\ slots \in Nat /\ slots' \in Nat /\ MaxQueue \in Nat
      BY <1>0, <2>0, MaxQueueAssumption DEF MyType
    <3>2. slots' + Len(inBuffer') + Len(inPipe') = slots + Len(inBuffer) + Len(inPipe)
      BY <1>0, <2>0, <3>1
    <3>3. worker' = worker /\ killed' = killed
      BY <1>f
    <3> QED BY <1>0, <3>1, <3>2, <3>3, SlotsKept
  <2>4. (~killed => StopLast)'
    BY <1>0, <1>f, <1>a, <1>b, <2>0, <2>c, Messages, StopLastPut DEF InStop
  <2>5. AliveUntilStopped'
    BY <1>0, <1>f, <2>0, <2>c DEF AliveUntilStopped, InStop, StopLast
  <2> QED BY <2>1, <2>2, <2>3, <2>4, <2>5 DEF IInv
<1>c. CASE Full
  <2>0. UNCHANGED <<slots, inBuffer, inPipe, readLock>> /\ slots = 0
    BY <1>c DEF Full, queueVars
  <2>c. caller' = "idle" /\ dropped' = dropped + 1 /\ lost' = lost \cup {submitted} /\ UNCHANGED <<submitted, discarded>>
    BY <1>0, <1>c, <2>0 DEF SubmitRetry, Full, Put, MyType, counterVars
  <2>1. MyType'
    BY <1>0, <1>f, <1>a, <2>0, <2>c, Messages, MaxQueueAssumption,
       BoundsAssumption DEF MyType, DropsOK, InSubmit, CallerStates
  <2>2. DropsOK' /\ HandOK'
    BY <1>0, <1>f, <2>0, <2>c, Messages DEF MyType, DropsOK, HandOK, InSubmit
  <2>3. SlotsAccounted'
    <3>1. /\ Len(inBuffer') \in Nat /\ Len(inPipe') \in Nat
          /\ slots \in Nat /\ slots' \in Nat /\ MaxQueue \in Nat
      BY <1>0, <2>0, MaxQueueAssumption DEF MyType
    <3>2. slots' + Len(inBuffer') + Len(inPipe') = slots + Len(inBuffer) + Len(inPipe)
      BY <1>0, <2>0, <3>1
    <3>3. worker' = worker /\ killed' = killed
      BY <1>f
    <3> QED BY <1>0, <3>1, <3>2, <3>3, SlotsKept
  <2>4. (~killed => StopLast)'
    BY <1>0, <1>f, <1>a, <1>c, <2>0, <2>c, Messages, StopLastTake DEF InStop
  <2>5. AliveUntilStopped'
    BY <1>0, <1>f, <2>0, <2>c DEF AliveUntilStopped, InStop, StopLast
  <2> QED BY <2>1, <2>2, <2>3, <2>4, <2>5 DEF IInv
<1> QED BY <1>b, <1>c DEF SubmitRetry

LEMMA PollResultsKeeps == IInv /\ PollResults => IInv'
<1> SUFFICES ASSUME IInv, PollResults PROVE IInv'
  OBVIOUS
<1>0. /\ MyType /\ DropsOK /\ HandOK /\ SlotsAccounted /\ (~killed => StopLast) /\ AliveUntilStopped
      /\ Len(inBuffer) \in Nat /\ Len(inPipe) \in Nat
  BY DEF IInv, MyType
<1>1. MyType'
  BY <1>0, Messages, MaxQueueAssumption, BoundsAssumption DEF MyType, HandOK,
     AliveUntilStopped, PollResults, queueVars, workerVars, counterVars,
     WorkerStates, CallerStates
<1>2. DropsOK' /\ HandOK'
  BY <1>0, Messages DEF MyType, DropsOK, HandOK, AliveUntilStopped, InSubmit,
     PollResults, queueVars, workerVars, counterVars
<1>3. SlotsAccounted'
  BY <1>0, MaxQueueAssumption DEF MyType, SlotsAccounted, AliveUntilStopped,
     QueueLength, PollResults, queueVars, workerVars, counterVars
<1>4. (~killed => StopLast)'
  BY <1>0, Messages DEF MyType, HandOK, StopLast, AliveUntilStopped, InStop,
     PollResults, queueVars, workerVars, counterVars
<1>5. AliveUntilStopped'
  BY <1>0, Messages DEF MyType, HandOK, StopLast, AliveUntilStopped, InStop,
     PollResults, queueVars, workerVars, counterVars
<1> QED BY <1>1, <1>2, <1>3, <1>4, <1>5 DEF IInv

LEMMA StopSignalKeeps == IInv /\ StopSignal => IInv'
<1> SUFFICES ASSUME IInv, StopSignal PROVE IInv'
  OBVIOUS
<1>0. /\ MyType /\ DropsOK /\ HandOK /\ SlotsAccounted /\ (~killed => StopLast) /\ AliveUntilStopped
      /\ Len(inBuffer) \in Nat /\ Len(inPipe) \in Nat
  BY DEF IInv, MyType
<1>a. Stop \in Message
  BY Messages DEF MyType
<1>f. /\ UNCHANGED <<worker, hand, outBuffer, outPipe, proc, killed, polled, starts>>
      /\ caller = "idle" /\ proc
  BY DEF StopSignal, workerVars, counterVars
<1>b. CASE Put(Stop)
  <2>0. /\ slots > 0 /\ slots' = slots - 1 /\ slots' \in 0 .. MaxQueue /\ slots \in Nat
        /\ inBuffer' \in Seq(Message) /\ Len(inBuffer') = Len(inBuffer) + 1
        /\ inBuffer'[Len(inBuffer) + 1] = Stop
        /\ \A i \in 1 .. Len(inBuffer) : inBuffer'[i] = inBuffer[i]
        /\ inPipe' = inPipe /\ readLock' = readLock
    BY <1>0, <1>b, <1>a, PutFacts
  <2>c. caller' = "join" /\ UNCHANGED <<submitted, dropped, lost, discarded>>
    BY <1>0, <1>b, <2>0 DEF StopSignal, Put, Full, MyType, counterVars
  <2>1. MyType'
    BY <1>0, <1>f, <1>a, <2>0, <2>c, Messages, MaxQueueAssumption,
       BoundsAssumption DEF MyType, DropsOK, InSubmit, CallerStates
  <2>2. DropsOK' /\ HandOK'
    BY <1>0, <1>f, <2>0, <2>c, Messages DEF MyType, DropsOK, HandOK, InSubmit
  <2>3. SlotsAccounted'
    <3>1. /\ Len(inBuffer') \in Nat /\ Len(inPipe') \in Nat
          /\ slots \in Nat /\ slots' \in Nat /\ MaxQueue \in Nat
      BY <1>0, <2>0, MaxQueueAssumption DEF MyType
    <3>2. slots' + Len(inBuffer') + Len(inPipe') = slots + Len(inBuffer) + Len(inPipe)
      BY <1>0, <2>0, <3>1
    <3>3. worker' = worker /\ killed' = killed
      BY <1>f
    <3> QED BY <1>0, <3>1, <3>2, <3>3, SlotsKept
  <2>4. (~killed => StopLast)'
    BY <1>0, <1>f, <1>a, <1>b, <2>0, <2>c, Messages, StopLastPut DEF InStop
  <2>5. AliveUntilStopped'
    BY <1>0, <1>f, <2>0, <2>c DEF AliveUntilStopped, InStop, StopLast
  <2> QED BY <2>1, <2>2, <2>3, <2>4, <2>5 DEF IInv
<1>c. CASE Full
  <2>0. UNCHANGED <<slots, inBuffer, inPipe, readLock>> /\ slots = 0
    BY <1>c DEF Full, queueVars
  <2>c. caller' = "stop_evict" /\ UNCHANGED <<submitted, dropped, lost, discarded>>
    BY <1>0, <1>c, <2>0 DEF StopSignal, Full, Put, MyType, counterVars
  <2>1. MyType'
    BY <1>0, <1>f, <1>a, <2>0, <2>c, Messages, MaxQueueAssumption,
       BoundsAssumption DEF MyType, DropsOK, InSubmit, CallerStates
  <2>2. DropsOK' /\ HandOK'
    BY <1>0, <1>f, <2>0, <2>c, Messages DEF MyType, DropsOK, HandOK, InSubmit
  <2>3. SlotsAccounted'
    <3>1. /\ Len(inBuffer') \in Nat /\ Len(inPipe') \in Nat
          /\ slots \in Nat /\ slots' \in Nat /\ MaxQueue \in Nat
      BY <1>0, <2>0, MaxQueueAssumption DEF MyType
    <3>2. slots' + Len(inBuffer') + Len(inPipe') = slots + Len(inBuffer) + Len(inPipe)
      BY <1>0, <2>0, <3>1
    <3>3. worker' = worker /\ killed' = killed
      BY <1>f
    <3> QED BY <1>0, <3>1, <3>2, <3>3, SlotsKept
  <2>4. (~killed => StopLast)'
    BY <1>0, <1>f, <1>a, <1>c, <2>0, <2>c, Messages, StopLastTake DEF InStop
  <2>5. AliveUntilStopped'
    BY <1>0, <1>f, <2>0, <2>c DEF AliveUntilStopped, InStop, StopLast
  <2> QED BY <2>1, <2>2, <2>3, <2>4, <2>5 DEF IInv
<1> QED BY <1>b, <1>c DEF StopSignal

LEMMA StopEvictKeeps == IInv /\ StopEvict => IInv'
<1> SUFFICES ASSUME IInv, StopEvict PROVE IInv'
  OBVIOUS
<1>0. /\ MyType /\ DropsOK /\ HandOK /\ SlotsAccounted /\ (~killed => StopLast) /\ AliveUntilStopped
      /\ Len(inBuffer) \in Nat /\ Len(inPipe) \in Nat
  BY DEF IInv, MyType
<1>f. /\ UNCHANGED <<worker, hand, outBuffer, outPipe, proc, killed, polled, starts>>
      /\ caller = "stop_evict"
  BY DEF StopEvict, workerVars, counterVars
<1>b. CASE Take
  <2>0. /\ slots' = slots + 1 /\ slots \in Nat /\ slots' \in 0 .. MaxQueue
        /\ inPipe' \in Seq(Message) /\ Len(inPipe') = Len(inPipe) - 1 /\ Len(inPipe) \in Nat \ {0}
        /\ Head(inPipe) = inPipe[1] /\ inPipe[1] \in Message /\ 1 \in 1 .. Len(inPipe)
        /\ \A i \in 1 .. Len(inPipe) - 1 :
              inPipe'[i] = inPipe[i + 1] /\ (i + 1) \in 1 .. Len(inPipe)
        /\ inBuffer' = inBuffer /\ readLock' = readLock
    BY <1>0, <1>b, TakeFacts
  <2>c. caller' = "stop_retry" /\ discarded' = discarded \cup ({Head(inPipe)} \ {Stop}) /\ UNCHANGED <<submitted, dropped, lost>>
    BY <1>0, <1>b, <2>0 DEF StopEvict, Take, Empty, MyType, counterVars
  <2>d. {Head(inPipe)} \ {Stop} \subseteq Frame
    BY <2>0, Messages
  <2>1. MyType'
    <3>1. lost' \subseteq Frame /\ discarded' \subseteq Frame
      BY <1>0, <2>c, <2>d DEF MyType
    <3>2. dropped' \in Nat /\ submitted' \in 0 .. MaxFrames
      BY <1>0, <2>c DEF MyType
    <3> QED BY <1>0, <1>f, <2>0, <2>c, <3>1, <3>2 DEF MyType, CallerStates
  <2>2. DropsOK' /\ HandOK'
    BY <1>0, <1>f, <2>0, <2>c, Messages DEF MyType, DropsOK, HandOK, InSubmit
  <2>3. SlotsAccounted'
    <3>1. /\ Len(inBuffer') \in Nat /\ Len(inPipe') \in Nat
          /\ slots \in Nat /\ slots' \in Nat /\ MaxQueue \in Nat
      BY <1>0, <2>0, MaxQueueAssumption DEF MyType
    <3>2. slots' + Len(inBuffer') + Len(inPipe') = slots + Len(inBuffer) + Len(inPipe)
      BY <1>0, <2>0, <3>1
    <3>3. worker' = worker /\ killed' = killed
      BY <1>f
    <3> QED BY <1>0, <3>1, <3>2, <3>3, SlotsKept
  <2>4. (~killed => StopLast)'
    <3>1. ~killed => proc
      BY <1>0, <1>f DEF StopLast, InStop
    <3> QED BY <1>0, <1>f, <1>b, <2>0, <2>c, <3>1, StopLastTake DEF InStop
  <2>5. AliveUntilStopped'
    BY <1>0, <1>f, <2>0, <2>c DEF AliveUntilStopped, InStop, StopLast
  <2> QED BY <2>1, <2>2, <2>3, <2>4, <2>5 DEF IInv
<1>c. CASE Empty
  <2>0. UNCHANGED <<slots, inBuffer, inPipe, readLock>> /\ (readLock # "free" \/ inPipe = << >>)
    BY <1>c DEF Empty, queueVars
  <2>c. caller' = "stop_retry" /\ UNCHANGED <<submitted, dropped, lost, discarded>>
    BY <1>0, <1>c, <2>0 DEF StopEvict, Empty, Take, MyType, counterVars
  <2>1. MyType'
    BY <1>0, <1>f, <2>0, <2>c, Messages, MaxQueueAssumption, BoundsAssumption
       DEF MyType, DropsOK, InSubmit, CallerStates
  <2>2. DropsOK' /\ HandOK'
    BY <1>0, <1>f, <2>0, <2>c, Messages DEF MyType, DropsOK, HandOK, InSubmit
  <2>3. SlotsAccounted'
    <3>1. /\ Len(inBuffer') \in Nat /\ Len(inPipe') \in Nat
          /\ slots \in Nat /\ slots' \in Nat /\ MaxQueue \in Nat
      BY <1>0, <2>0, MaxQueueAssumption DEF MyType
    <3>2. slots' + Len(inBuffer') + Len(inPipe') = slots + Len(inBuffer) + Len(inPipe)
      BY <1>0, <2>0, <3>1
    <3>3. worker' = worker /\ killed' = killed
      BY <1>f
    <3> QED BY <1>0, <3>1, <3>2, <3>3, SlotsKept
  <2>4. (~killed => StopLast)'
    <3>1. ~killed => proc
      BY <1>0, <1>f DEF StopLast, InStop
    <3> QED BY <1>0, <1>f, <1>c, <2>0, <2>c, <3>1, StopLastTake DEF InStop
  <2>5. AliveUntilStopped'
    BY <1>0, <1>f, <2>0, <2>c DEF AliveUntilStopped, InStop, StopLast
  <2> QED BY <2>1, <2>2, <2>3, <2>4, <2>5 DEF IInv
<1> QED BY <1>b, <1>c DEF StopEvict

LEMMA StopRetryKeeps == IInv /\ StopRetry => IInv'
<1> SUFFICES ASSUME IInv, StopRetry PROVE IInv'
  OBVIOUS
<1>0. /\ MyType /\ DropsOK /\ HandOK /\ SlotsAccounted /\ (~killed => StopLast) /\ AliveUntilStopped
      /\ Len(inBuffer) \in Nat /\ Len(inPipe) \in Nat
  BY DEF IInv, MyType
<1>a. Stop \in Message
  BY Messages DEF MyType
<1>f. /\ UNCHANGED <<worker, hand, outBuffer, outPipe, proc, killed, polled, starts>>
      /\ caller = "stop_retry"
  BY DEF StopRetry, workerVars, counterVars
<1>b. CASE Put(Stop)
  <2>0. /\ slots > 0 /\ slots' = slots - 1 /\ slots' \in 0 .. MaxQueue /\ slots \in Nat
        /\ inBuffer' \in Seq(Message) /\ Len(inBuffer') = Len(inBuffer) + 1
        /\ inBuffer'[Len(inBuffer) + 1] = Stop
        /\ \A i \in 1 .. Len(inBuffer) : inBuffer'[i] = inBuffer[i]
        /\ inPipe' = inPipe /\ readLock' = readLock
    BY <1>0, <1>b, <1>a, PutFacts
  <2>c. caller' = "join" /\ UNCHANGED <<submitted, dropped, lost, discarded>>
    BY <1>0, <1>b, <2>0 DEF StopRetry, Put, Full, MyType, counterVars
  <2>1. MyType'
    BY <1>0, <1>f, <1>a, <2>0, <2>c, Messages, MaxQueueAssumption,
       BoundsAssumption DEF MyType, DropsOK, InSubmit, CallerStates
  <2>2. DropsOK' /\ HandOK'
    BY <1>0, <1>f, <2>0, <2>c, Messages DEF MyType, DropsOK, HandOK, InSubmit
  <2>3. SlotsAccounted'
    <3>1. /\ Len(inBuffer') \in Nat /\ Len(inPipe') \in Nat
          /\ slots \in Nat /\ slots' \in Nat /\ MaxQueue \in Nat
      BY <1>0, <2>0, MaxQueueAssumption DEF MyType
    <3>2. slots' + Len(inBuffer') + Len(inPipe') = slots + Len(inBuffer) + Len(inPipe)
      BY <1>0, <2>0, <3>1
    <3>3. worker' = worker /\ killed' = killed
      BY <1>f
    <3> QED BY <1>0, <3>1, <3>2, <3>3, SlotsKept
  <2>4. (~killed => StopLast)'
    <3>1. ~killed => proc
      BY <1>0, <1>f DEF StopLast, InStop
    <3> QED BY <1>0, <1>f, <1>a, <1>b, <2>0, <2>c, <3>1, StopLastPut DEF InStop
  <2>5. AliveUntilStopped'
    BY <1>0, <1>f, <2>0, <2>c DEF AliveUntilStopped, InStop, StopLast
  <2> QED BY <2>1, <2>2, <2>3, <2>4, <2>5 DEF IInv
<1>c. CASE Full
  <2>0. UNCHANGED <<slots, inBuffer, inPipe, readLock>> /\ slots = 0
    BY <1>c DEF Full, queueVars
  <2>c. caller' = "join" /\ UNCHANGED <<submitted, dropped, lost, discarded>>
    BY <1>0, <1>c, <2>0 DEF StopRetry, Full, Put, MyType, counterVars
  <2>1. MyType'
    BY <1>0, <1>f, <1>a, <2>0, <2>c, Messages, MaxQueueAssumption,
       BoundsAssumption DEF MyType, DropsOK, InSubmit, CallerStates
  <2>2. DropsOK' /\ HandOK'
    BY <1>0, <1>f, <2>0, <2>c, Messages DEF MyType, DropsOK, HandOK, InSubmit
  <2>3. SlotsAccounted'
    <3>1. /\ Len(inBuffer') \in Nat /\ Len(inPipe') \in Nat
          /\ slots \in Nat /\ slots' \in Nat /\ MaxQueue \in Nat
      BY <1>0, <2>0, MaxQueueAssumption DEF MyType
    <3>2. slots' + Len(inBuffer') + Len(inPipe') = slots + Len(inBuffer) + Len(inPipe)
      BY <1>0, <2>0, <3>1
    <3>3. worker' = worker /\ killed' = killed
      BY <1>f
    <3> QED BY <1>0, <3>1, <3>2, <3>3, SlotsKept
  <2>4. (~killed => StopLast)'
    <3>1. ~killed => proc
      BY <1>0, <1>f DEF StopLast, InStop
    <3> QED BY <1>0, <1>f, <1>a, <1>c, <2>0, <2>c, <3>1, StopLastTake DEF InStop
  <2>5. AliveUntilStopped'
    BY <1>0, <1>f, <2>0, <2>c DEF AliveUntilStopped, InStop, StopLast
  <2> QED BY <2>1, <2>2, <2>3, <2>4, <2>5 DEF IInv
<1> QED BY <1>b, <1>c DEF StopRetry

LEMMA StopJoinedKeeps == IInv /\ StopJoined => IInv'
<1> SUFFICES ASSUME IInv, StopJoined PROVE IInv'
  OBVIOUS
<1>0. /\ MyType /\ DropsOK /\ HandOK /\ SlotsAccounted /\ (~killed => StopLast) /\ AliveUntilStopped
      /\ Len(inBuffer) \in Nat /\ Len(inPipe) \in Nat
  BY DEF IInv, MyType
<1>1. MyType'
  BY <1>0, Messages, MaxQueueAssumption, BoundsAssumption DEF MyType, HandOK,
     AliveUntilStopped, StopJoined, queueVars, workerVars, counterVars, WorkerStates,
     CallerStates
<1>2. DropsOK' /\ HandOK'
  BY <1>0, Messages DEF MyType, DropsOK, HandOK, AliveUntilStopped, InSubmit,
     StopJoined, queueVars, workerVars, counterVars
<1>3. SlotsAccounted'
  BY <1>0, MaxQueueAssumption DEF MyType, SlotsAccounted, AliveUntilStopped,
     QueueLength, StopJoined, queueVars, workerVars, counterVars
<1>4. (~killed => StopLast)'
  BY <1>0, Messages DEF MyType, HandOK, StopLast, AliveUntilStopped, InStop,
     StopJoined, queueVars, workerVars, counterVars
<1>5. AliveUntilStopped'
  BY <1>0, Messages DEF MyType, HandOK, StopLast, AliveUntilStopped, InStop,
     StopJoined, queueVars, workerVars, counterVars
<1> QED BY <1>1, <1>2, <1>3, <1>4, <1>5 DEF IInv

LEMMA StopTerminateKeeps == IInv /\ StopTerminate => IInv'
<1> SUFFICES ASSUME IInv, StopTerminate PROVE IInv'
  OBVIOUS
<1>0. /\ MyType /\ DropsOK /\ HandOK /\ SlotsAccounted /\ (~killed => StopLast) /\ AliveUntilStopped
      /\ Len(inBuffer) \in Nat /\ Len(inPipe) \in Nat
  BY DEF IInv, MyType
<1>1. MyType'
  <2>1. Range(outBuffer) \subseteq Frame
    BY <1>0 DEF MyType, Range
  <2>2. discarded' \subseteq Frame
    BY <1>0, <2>1, Messages DEF MyType, StopTerminate
  <2>3. readLock' \in {"free", "worker", "orphaned"} /\ worker' \in WorkerStates /\ caller' \in CallerStates
    BY <1>0 DEF MyType, StopTerminate, WorkerStates, CallerStates
  <2>4. outBuffer' \in Seq(Frame) /\ hand' \in Message \cup {Nothing} /\ proc' \in BOOLEAN /\ killed' \in BOOLEAN
    BY EmptySeq DEF StopTerminate
  <2> QED BY <1>0, <2>2, <2>3, <2>4 DEF MyType, StopTerminate
<1>2. DropsOK' /\ HandOK'
  BY <1>0, Messages DEF MyType, DropsOK, HandOK, AliveUntilStopped, InSubmit,
     StopTerminate, queueVars, workerVars, counterVars
<1>3. SlotsAccounted'
  BY <1>0, MaxQueueAssumption DEF MyType, SlotsAccounted, AliveUntilStopped,
     QueueLength, StopTerminate, queueVars, workerVars, counterVars
<1>4. (~killed => StopLast)'
  BY <1>0, Messages DEF MyType, HandOK, StopLast, AliveUntilStopped, InStop,
     StopTerminate, queueVars, workerVars, counterVars
<1>5. AliveUntilStopped'
  BY <1>0, Messages DEF MyType, HandOK, StopLast, AliveUntilStopped, InStop,
     StopTerminate, queueVars, workerVars, counterVars
<1> QED BY <1>1, <1>2, <1>3, <1>4, <1>5 DEF IInv

LEMMA FeedKeeps == IInv /\ Feed => IInv'
<1> SUFFICES ASSUME IInv, Feed PROVE IInv'
  OBVIOUS
<1>0. /\ MyType /\ DropsOK /\ HandOK /\ SlotsAccounted /\ (~killed => StopLast) /\ AliveUntilStopped
      /\ Len(inBuffer) \in Nat /\ Len(inPipe) \in Nat
  BY DEF IInv, MyType
<1>f. UNCHANGED <<slots, readLock, worker, hand, outBuffer, outPipe, caller, proc, killed>>
  BY DEF Feed, workerVars
<1>t. /\ Len(inBuffer) \in Nat \ {0} /\ inBuffer' \in Seq(Message) /\ Len(inBuffer') = Len(inBuffer) - 1
      /\ inPipe' \in Seq(Message) /\ Len(inPipe') = Len(inPipe) + 1 /\ Len(inPipe') \in Nat
      /\ \A i \in 1 .. Len(inPipe) : inPipe'[i] = inPipe[i]
      /\ inPipe'[Len(inPipe) + 1] = inBuffer[1] /\ 1 \in 1 .. Len(inBuffer)
      /\ \A i \in 1 .. Len(inBuffer) - 1 :
            inBuffer'[i] = inBuffer[i + 1] /\ (i + 1) \in 1 .. Len(inBuffer)
      /\ (Len(inBuffer) = 1 => inBuffer' = << >>)
      /\ inBuffer # << >> /\ inPipe' # << >>
  <2>1. inBuffer \in Seq(Message) /\ inPipe \in Seq(Message) /\ inBuffer # << >>
        /\ inBuffer' = Tail(inBuffer) /\ inPipe' = Append(inPipe, Head(inBuffer))
    BY <1>0 DEF MyType, Feed
  <2>2. Head(inBuffer) \in Message /\ Head(inBuffer) = inBuffer[1]
    BY <2>1, TailFacts
  <2> QED BY <2>1, <2>2, TailFacts, AppendFacts
<1>1. MyType'
  BY <1>0, Messages, MaxQueueAssumption, BoundsAssumption DEF MyType, HandOK,
     AliveUntilStopped, Feed, queueVars, workerVars, counterVars, WorkerStates,
     CallerStates
<1>2. DropsOK' /\ HandOK'
  BY <1>0, Messages DEF MyType, DropsOK, HandOK, AliveUntilStopped, InSubmit, Feed,
     queueVars, workerVars, counterVars
<1>3. SlotsAccounted'
  BY <1>0, <1>t, <1>f, SlotsKept, MaxQueueAssumption DEF MyType
<1>4. (~killed => StopLast)'
  <2> SUFFICES ASSUME ~killed' PROVE StopLast'
    OBVIOUS
  <2>0. StopLast
    BY <1>0, <1>f
  <2>1. \A i \in 1 .. Len(inPipe') : i \in 1 .. Len(inPipe) \/ i = Len(inPipe) + 1
    BY <1>0, <1>t
  <2>2. InStop' => proc'
    BY <1>f, <2>0 DEF StopLast, InStop
  <2>3. caller' # "join" =>
          /\ proc' => worker' \notin {"off", "exiting"}
          /\ \A i \in 1 .. Len(inBuffer') : inBuffer'[i] # Stop
          /\ \A i \in 1 .. Len(inPipe') : inPipe'[i] # Stop
          /\ hand' # Stop
    BY <1>0, <1>f, <1>t, <2>0, <2>1 DEF StopLast
  <2>4. \A i \in 1 .. Len(inBuffer') : inBuffer'[i] = Stop => i = Len(inBuffer')
    BY <1>0, <1>f, <1>t, <2>0 DEF StopLast
  <2>5. \A i \in 1 .. Len(inPipe') : inPipe'[i] = Stop => i = Len(inPipe') /\ inBuffer' = << >>
    BY <1>0, <1>f, <1>t, <2>0, <2>1 DEF StopLast
  <2>6. caller' = "join" /\ (hand' = Stop \/ worker' \in {"exiting", "off"}) =>
          inBuffer' = << >> /\ inPipe' = << >>
    BY <1>f, <1>t, <2>0 DEF StopLast
  <2> QED BY <2>2, <2>3, <2>4, <2>5, <2>6 DEF StopLast
<1>5. AliveUntilStopped'
  BY <1>0, Messages DEF MyType, HandOK, StopLast, AliveUntilStopped, InStop, Feed,
     queueVars, workerVars, counterVars
<1> QED BY <1>1, <1>2, <1>3, <1>4, <1>5 DEF IInv

LEMMA WorkerLockKeeps == IInv /\ WorkerLock => IInv'
<1> SUFFICES ASSUME IInv, WorkerLock PROVE IInv'
  OBVIOUS
<1>0. /\ MyType /\ DropsOK /\ HandOK /\ SlotsAccounted /\ (~killed => StopLast) /\ AliveUntilStopped
      /\ Len(inBuffer) \in Nat /\ Len(inPipe) \in Nat
  BY DEF IInv, MyType
<1>1. MyType'
  BY <1>0, Messages, MaxQueueAssumption, BoundsAssumption DEF MyType, HandOK,
     AliveUntilStopped, WorkerLock, queueVars, workerVars, counterVars, WorkerStates,
     CallerStates
<1>2. DropsOK' /\ HandOK'
  BY <1>0, Messages DEF MyType, DropsOK, HandOK, AliveUntilStopped, InSubmit,
     WorkerLock, queueVars, workerVars, counterVars
<1>3. SlotsAccounted'
  BY <1>0, MaxQueueAssumption DEF MyType, SlotsAccounted, AliveUntilStopped,
     QueueLength, WorkerLock, queueVars, workerVars, counterVars
<1>4. (~killed => StopLast)'
  BY <1>0, Messages DEF MyType, HandOK, StopLast, AliveUntilStopped, InStop,
     WorkerLock, queueVars, workerVars, counterVars
<1>5. AliveUntilStopped'
  BY <1>0, Messages DEF MyType, HandOK, StopLast, AliveUntilStopped, InStop,
     WorkerLock, queueVars, workerVars, counterVars
<1> QED BY <1>1, <1>2, <1>3, <1>4, <1>5 DEF IInv

LEMMA WorkerRecvKeeps == IInv /\ WorkerRecv => IInv'
<1> SUFFICES ASSUME IInv, WorkerRecv PROVE IInv'
  OBVIOUS
<1>0. /\ MyType /\ DropsOK /\ HandOK /\ SlotsAccounted /\ (~killed => StopLast) /\ AliveUntilStopped
      /\ Len(inBuffer) \in Nat /\ Len(inPipe) \in Nat
  BY DEF IInv, MyType
<1>1. MyType'
  BY <1>0, Messages, MaxQueueAssumption, BoundsAssumption DEF MyType, HandOK,
     AliveUntilStopped, WorkerRecv, queueVars, workerVars, counterVars, WorkerStates,
     CallerStates
<1>2. DropsOK' /\ HandOK'
  BY <1>0, Messages DEF MyType, DropsOK, HandOK, AliveUntilStopped, InSubmit,
     WorkerRecv, queueVars, workerVars, counterVars
<1>3. SlotsAccounted'
  BY <1>0, MaxQueueAssumption DEF MyType, SlotsAccounted, AliveUntilStopped,
     QueueLength, WorkerRecv, queueVars, workerVars, counterVars
<1>4. (~killed => StopLast)'
  BY <1>0, Messages DEF MyType, HandOK, StopLast, AliveUntilStopped, InStop,
     WorkerRecv, queueVars, workerVars, counterVars
<1>5. AliveUntilStopped'
  BY <1>0, Messages DEF MyType, HandOK, StopLast, AliveUntilStopped, InStop,
     WorkerRecv, queueVars, workerVars, counterVars
<1> QED BY <1>1, <1>2, <1>3, <1>4, <1>5 DEF IInv

LEMMA WorkerReleaseKeeps == IInv /\ WorkerRelease => IInv'
<1> SUFFICES ASSUME IInv, WorkerRelease PROVE IInv'
  OBVIOUS
<1>0. /\ MyType /\ DropsOK /\ HandOK /\ SlotsAccounted /\ (~killed => StopLast) /\ AliveUntilStopped
      /\ Len(inBuffer) \in Nat /\ Len(inPipe) \in Nat
  BY DEF IInv, MyType
<1>1. MyType'
  <2>1. slots' \in 0 .. MaxQueue
    BY <1>0, MaxQueueAssumption DEF MyType, SlotsAccounted, QueueLength, WorkerRelease
  <2>2. hand' \in Message \cup {Nothing} /\ worker' \in WorkerStates
    BY <1>0 DEF MyType, WorkerRelease, WorkerStates
  <2> QED BY <1>0, <2>1, <2>2 DEF MyType, WorkerRelease, counterVars
<1>2. DropsOK' /\ HandOK'
  BY <1>0, Messages DEF MyType, DropsOK, HandOK, AliveUntilStopped, InSubmit,
     WorkerRelease, queueVars, workerVars, counterVars
<1>3. SlotsAccounted'
  BY <1>0, MaxQueueAssumption DEF MyType, SlotsAccounted, AliveUntilStopped,
     QueueLength, WorkerRelease, queueVars, workerVars, counterVars
<1>4. (~killed => StopLast)'
  BY <1>0, Messages DEF MyType, HandOK, StopLast, AliveUntilStopped, InStop,
     WorkerRelease, queueVars, workerVars, counterVars
<1>5. AliveUntilStopped'
  BY <1>0, Messages DEF MyType, HandOK, StopLast, AliveUntilStopped, InStop,
     WorkerRelease, queueVars, workerVars, counterVars
<1> QED BY <1>1, <1>2, <1>3, <1>4, <1>5 DEF IInv

LEMMA WorkerDetectKeeps == IInv /\ WorkerDetect => IInv'
<1> SUFFICES ASSUME IInv, WorkerDetect PROVE IInv'
  OBVIOUS
<1>0. /\ MyType /\ DropsOK /\ HandOK /\ SlotsAccounted /\ (~killed => StopLast) /\ AliveUntilStopped
      /\ Len(inBuffer) \in Nat /\ Len(inPipe) \in Nat
  BY DEF IInv, MyType
<1>1. MyType'
  BY <1>0, Messages, MaxQueueAssumption, BoundsAssumption DEF MyType, HandOK,
     AliveUntilStopped, WorkerDetect, queueVars, workerVars, counterVars,
     WorkerStates, CallerStates
<1>2. DropsOK' /\ HandOK'
  BY <1>0, Messages DEF MyType, DropsOK, HandOK, AliveUntilStopped, InSubmit,
     WorkerDetect, queueVars, workerVars, counterVars
<1>3. SlotsAccounted'
  BY <1>0, MaxQueueAssumption DEF MyType, SlotsAccounted, AliveUntilStopped,
     QueueLength, WorkerDetect, queueVars, workerVars, counterVars
<1>4. (~killed => StopLast)'
  BY <1>0, Messages DEF MyType, HandOK, StopLast, AliveUntilStopped, InStop,
     WorkerDetect, queueVars, workerVars, counterVars
<1>5. AliveUntilStopped'
  BY <1>0, Messages DEF MyType, HandOK, StopLast, AliveUntilStopped, InStop,
     WorkerDetect, queueVars, workerVars, counterVars
<1> QED BY <1>1, <1>2, <1>3, <1>4, <1>5 DEF IInv

LEMMA FeedOutKeeps == IInv /\ FeedOut => IInv'
<1> SUFFICES ASSUME IInv, FeedOut PROVE IInv'
  OBVIOUS
<1>0. /\ MyType /\ DropsOK /\ HandOK /\ SlotsAccounted /\ (~killed => StopLast) /\ AliveUntilStopped
      /\ Len(inBuffer) \in Nat /\ Len(inPipe) \in Nat
  BY DEF IInv, MyType
<1>1. MyType'
  BY <1>0, Messages, MaxQueueAssumption, BoundsAssumption DEF MyType, HandOK,
     AliveUntilStopped, FeedOut, queueVars, workerVars, counterVars, WorkerStates,
     CallerStates
<1>2. DropsOK' /\ HandOK'
  BY <1>0, Messages DEF MyType, DropsOK, HandOK, AliveUntilStopped, InSubmit,
     FeedOut, queueVars, workerVars, counterVars
<1>3. SlotsAccounted'
  BY <1>0, MaxQueueAssumption DEF MyType, SlotsAccounted, AliveUntilStopped,
     QueueLength, FeedOut, queueVars, workerVars, counterVars
<1>4. (~killed => StopLast)'
  BY <1>0, Messages DEF MyType, HandOK, StopLast, AliveUntilStopped, InStop, FeedOut,
     queueVars, workerVars, counterVars
<1>5. AliveUntilStopped'
  BY <1>0, Messages DEF MyType, HandOK, StopLast, AliveUntilStopped, InStop, FeedOut,
     queueVars, workerVars, counterVars
<1> QED BY <1>1, <1>2, <1>3, <1>4, <1>5 DEF IInv

LEMMA WorkerExitKeeps == IInv /\ WorkerExit => IInv'
<1> SUFFICES ASSUME IInv, WorkerExit PROVE IInv'
  OBVIOUS
<1>0. /\ MyType /\ DropsOK /\ HandOK /\ SlotsAccounted /\ (~killed => StopLast) /\ AliveUntilStopped
      /\ Len(inBuffer) \in Nat /\ Len(inPipe) \in Nat
  BY DEF IInv, MyType
<1>1. MyType'
  BY <1>0, Messages, MaxQueueAssumption, BoundsAssumption DEF MyType, HandOK,
     AliveUntilStopped, WorkerExit, queueVars, workerVars, counterVars, WorkerStates,
     CallerStates
<1>2. DropsOK' /\ HandOK'
  BY <1>0, Messages DEF MyType, DropsOK, HandOK, AliveUntilStopped, InSubmit,
     WorkerExit, queueVars, workerVars, counterVars
<1>3. SlotsAccounted'
  BY <1>0, MaxQueueAssumption DEF MyType, SlotsAccounted, AliveUntilStopped,
     QueueLength, WorkerExit, queueVars, workerVars, counterVars
<1>4. (~killed => StopLast)'
  BY <1>0, Messages DEF MyType, HandOK, StopLast, AliveUntilStopped, InStop,
     WorkerExit, queueVars, workerVars, counterVars
<1>5. AliveUntilStopped'
  BY <1>0, Messages DEF MyType, HandOK, StopLast, AliveUntilStopped, InStop,
     WorkerExit, queueVars, workerVars, counterVars
<1> QED BY <1>1, <1>2, <1>3, <1>4, <1>5 DEF IInv

-----------------------------------------------------------------------------
LEMMA InitIInv == Init => IInv
<1> SUFFICES ASSUME Init PROVE IInv
  OBVIOUS
<1>1. MyType
  <2>1. << >> \in Seq(Message) /\ << >> \in Seq(Frame)
    BY EmptySeq
  <2>2. MaxQueue \in 0 .. MaxQueue /\ 0 \in 0 .. MaxFrames /\ 0 \in 0 .. MaxStarts
    BY MaxQueueAssumption, BoundsAssumption
  <2> QED BY <2>1, <2>2 DEF Init, MyType, WorkerStates, CallerStates
<1>2. DropsOK /\ HandOK /\ AliveUntilStopped
  BY DEF Init, DropsOK, HandOK, AliveUntilStopped, InSubmit, InStop
<1>3. SlotsAccounted
  BY MaxQueueAssumption, EmptySeq DEF Init, SlotsAccounted, QueueLength
<1>4. StopLast
  BY EmptySeq, Messages DEF Init, StopLast, InStop
<1> QED BY <1>1, <1>2, <1>3, <1>4 DEF IInv

LEMMA NextKeeps == IInv /\ [Next]_vars => IInv'
<1> SUFFICES ASSUME IInv, [Next]_vars PROVE IInv'
  OBVIOUS
<1>1. CASE UNCHANGED vars
  BY <1>1 DEF vars, queueVars, workerVars, counterVars, IInv, MyType, DropsOK, HandOK,
              SlotsAccounted, QueueLength, StopLast, AliveUntilStopped, InSubmit, InStop
<1>2. CASE Start \/ Submit \/ SubmitStep \/ PollResults
  BY <1>2, StartKeeps, SubmitKeeps, SubmitEvictKeeps, SubmitRetryKeeps, PollResultsKeeps
     DEF SubmitStep
<1>3. CASE StopSignal \/ StopStep
  BY <1>3, StopSignalKeeps, StopEvictKeeps, StopRetryKeeps, StopJoinedKeeps,
     StopTerminateKeeps
     DEF StopStep
<1>4. CASE Feed \/ WorkerStep \/ FeedOut
  BY <1>4, FeedKeeps, WorkerLockKeeps, WorkerRecvKeeps, WorkerReleaseKeeps,
     WorkerDetectKeeps,
     WorkerExitKeeps, FeedOutKeeps DEF WorkerStep
<1> QED BY <1>1, <1>2, <1>3, <1>4 DEF Next

(* The inductive invariant.                                                  *)
THEOREM EngineInvariant == Spec => []IInv
BY InitIInv, NextKeeps, PTL DEF Spec

(* Every variable keeps its type; submit() counts at most two drops.         *)
THEOREM EngineTypeOK == Spec => []TypeOK
<1>1. IInv => TypeOK
  <2> SUFFICES ASSUME IInv PROVE TypeOK
    OBVIOUS
  <2>1. dropped \in 0 .. 2 * submitted
    BY DEF IInv, MyType, DropsOK
  <2> QED BY <2>1 DEF IInv, MyType, TypeOK
<1> QED BY <1>1, EngineInvariant, PTL

(* The backpressure bound of runner.py:5-7, 88-99: the queue never holds     *)
(* more than max_queue messages, and no slot leaks until a worker is killed. *)
THEOREM EngineSlotsAccounted == Spec => []SlotsAccounted
<1>1. IInv => SlotsAccounted
  BY DEF IInv
<1> QED BY <1>1, EngineInvariant, PTL

(* No frame and no stale stop message ends the worker (runner.py:42), and    *)
(* none outlives its stop().                                                 *)
THEOREM EngineAliveUntilStopped == Spec => []AliveUntilStopped
<1>1. IInv => AliveUntilStopped
  BY DEF IInv
<1> QED BY <1>1, EngineInvariant, PTL

(* stop() that joins (runner.py:111-130) leaves no frame in the queue and no *)
(* result unflushed.                                                         *)
THEOREM EngineDrainedByCleanStop == Spec => DrainedByCleanStop
<1> DEFINE Drained == caller = "join" /\ caller' = "idle" /\ ~killed'
                        => QueueLength = 0 /\ outBuffer = << >>
<1>1. IInv /\ [Next]_vars => [Drained]_vars
  <2> SUFFICES ASSUME IInv, Next, caller = "join", caller' = "idle", ~killed'
               PROVE  QueueLength = 0 /\ outBuffer = << >>
    OBVIOUS
  <2>1. StopJoined \/ StopTerminate
    BY DEF Next, Start, Submit, SubmitStep, SubmitEvict, SubmitRetry, PollResults,
       StopSignal,
           StopStep, StopEvict, StopRetry, Feed, WorkerStep, WorkerLock, WorkerRecv,
           WorkerRelease, WorkerDetect, WorkerExit, FeedOut
  <2>2. worker = "off" /\ ~killed
    BY <2>1 DEF StopJoined, StopTerminate
  <2>3. inBuffer = << >> /\ inPipe = << >> /\ outBuffer = << >>
    BY <2>2 DEF IInv, StopLast, HandOK
  <2> QED BY <2>3, EmptySeq DEF QueueLength
<1> QED BY <1>1, EngineInvariant, PTL DEF Spec, DrainedByCleanStop
-----------------------------------------------------------------------------
(* The messages in one line, oldest first, and what a step can do to it:     *)
(* move one along, throw some out of the middle, put one at the end.         *)
InOrder(s) ==
    \A i, j \in DOMAIN s : i < j /\ Stop \notin {s[i], s[j]} => s[i] < s[j]
UpTo(s, n) == \A i \in DOMAIN s : s[i] <= n
In(x, s) == \E i \in DOMAIN s : s[i] = x

(* Concatenation, for proofs that only need its laws.                        *)
Cat(s, t) == s \o t

(* What FramesAccounted says beyond the types, and that no number is ahead   *)
(* of the count.                                                             *)
Line == /\ InOrder(InFlight) /\ UpTo(InFlight, submitted)
        /\ \A n \in 1 .. submitted :
              In(n, InFlight) \/ n \in BadFrames \cup discarded \cup lost
        /\ Cardinality(lost) <= dropped

LEMMA MessagesAreNumbers == Message \subseteq Nat
BY BoundsAssumption DEF Message, Frame, Stop

LEMMA ConcatFacts ==
  ASSUME NEW s \in Seq(Message), NEW t \in Seq(Message)
  PROVE  /\ s \o t \in Seq(Message) /\ DOMAIN (s \o t) = 1 .. Len(s) + Len(t)
         /\ Len(s) \in Nat /\ Len(t) \in Nat /\ Len(s \o t) = Len(s) + Len(t)
         /\ DOMAIN s = 1 .. Len(s) /\ DOMAIN t = 1 .. Len(t)
         /\ \A i \in 1 .. Len(s) : (s \o t)[i] = s[i]
         /\ \A i \in 1 .. Len(t) : (s \o t)[Len(s) + i] = t[i]
<1>1. /\ s \o t \in Seq(Message) /\ Len(s \o t) = Len(s) + Len(t)
      /\ \A i \in 1 .. Len(s) + Len(t) :
            (s \o t)[i] = IF i <= Len(s) THEN s[i] ELSE t[i - Len(s)]
  BY ConcatProperties
<1>2. Len(s) \in Nat /\ Len(t) \in Nat /\ DOMAIN s = 1 .. Len(s) /\ DOMAIN t = 1 .. Len(t)
      /\ DOMAIN (s \o t) = 1 .. Len(s \o t)
  BY <1>1, LenProperties
<1>3. \A i \in 1 .. Len(s) : (s \o t)[i] = s[i]
  BY <1>1, <1>2
<1>4. ASSUME NEW i \in 1 .. Len(t)
      PROVE  (s \o t)[Len(s) + i] = t[i]
  <2>1. Len(s) + i \in 1 .. Len(s) + Len(t) /\ ~(Len(s) + i <= Len(s)) /\ (Len(s) + i) - Len(s) = i
    BY <1>2
  <2> QED BY <1>1, <2>1
<1> QED BY <1>1, <1>2, <1>3, <1>4

LEMMA OrderMeans ==
  ASSUME NEW s \in Seq(Message), NEW t \in Seq(Message)
  PROVE  InOrder(s \o t) <=>
            /\ InOrder(s) /\ InOrder(t)
            /\ \A i \in DOMAIN s, j \in DOMAIN t :
                  Stop \notin {s[i], t[j]} => s[i] < t[j]
<1> DEFINE u == s \o t
<1>0. /\ DOMAIN u = 1 .. Len(s) + Len(t)
      /\ Len(s) \in Nat /\ Len(t) \in Nat
      /\ DOMAIN s = 1 .. Len(s) /\ DOMAIN t = 1 .. Len(t)
      /\ \A i \in 1 .. Len(s) : u[i] = s[i] /\ i \in DOMAIN u
      /\ \A i \in 1 .. Len(t) : u[Len(s) + i] = t[i] /\ Len(s) + i \in DOMAIN u
  BY ConcatFacts
<1> HIDE DEF u
<1>1. ASSUME InOrder(u)
      PROVE  /\ InOrder(s) /\ InOrder(t)
             /\ \A i \in DOMAIN s, j \in DOMAIN t :
                   Stop \notin {s[i], t[j]} => s[i] < t[j]
  <2>1. InOrder(s)
    BY <1>0, <1>1 DEF InOrder
  <2>2. InOrder(t)
    <3> SUFFICES ASSUME NEW i \in DOMAIN t, NEW j \in DOMAIN t, i < j, Stop \notin {t[i], t[j]}
                 PROVE  t[i] < t[j]
      BY DEF InOrder
    <3>1. Len(s) + i < Len(s) + j
      BY <1>0
    <3> QED BY <1>0, <1>1, <3>1 DEF InOrder
  <2>3. ASSUME NEW i \in DOMAIN s, NEW j \in DOMAIN t, Stop \notin {s[i], t[j]}
        PROVE  s[i] < t[j]
    <3>1. i < Len(s) + j
      BY <1>0
    <3> QED BY <1>0, <1>1, <2>3, <3>1 DEF InOrder
  <2> QED BY <2>1, <2>2, <2>3
<1>2. ASSUME InOrder(s), InOrder(t),
             \A i \in DOMAIN s, j \in DOMAIN t : Stop \notin {s[i], t[j]} => s[i] < t[j]
      PROVE  InOrder(u)
  <2> SUFFICES ASSUME NEW i \in DOMAIN u, NEW j \in DOMAIN u, i < j, Stop \notin {u[i], u[j]}
               PROVE  u[i] < u[j]
    BY DEF InOrder
  <2>1. CASE j <= Len(s)
    <3>1. i \in DOMAIN s /\ j \in DOMAIN s /\ u[i] = s[i] /\ u[j] = s[j]
      BY <1>0, <2>1
    <3> QED BY <1>2, <3>1 DEF InOrder
  <2>2. CASE i > Len(s)
    <3> DEFINE a == i - Len(s) b == j - Len(s)
    <3>0. /\ i \in 1 .. Len(s) + Len(t) /\ j \in 1 .. Len(s) + Len(t)
          /\ Len(s) \in Nat /\ Len(t) \in Nat
      BY <1>0
    <3> DEFINE m == Len(s) n == Len(t)
    <3> HIDE DEF m, n
    <3>3. i \in Int /\ j \in Int /\ m \in Int /\ n \in Int /\ i > m /\ i < j /\ j <= m + n
      BY <2>2, <3>0 DEF m, n
    <3>4. i - m \in 1 .. n /\ j - m \in 1 .. n /\ i - m < j - m
      BY <3>3
    <3>5. i = m + (i - m) /\ j = m + (j - m)
      BY <3>3
    <3>1. /\ a \in 1 .. Len(t) /\ b \in 1 .. Len(t) /\ a < b
          /\ i = Len(s) + a /\ j = Len(s) + b
      BY <3>4, <3>5 DEF m, n
    <3>2. u[i] = t[a] /\ u[j] = t[b]
      BY <1>0, <3>1
    <3> QED BY <1>0, <1>2, <3>1, <3>2 DEF InOrder
  <2>3. CASE i <= Len(s) /\ j > Len(s)
    <3> DEFINE b == j - Len(s)
    <3>1. i \in DOMAIN s /\ b \in DOMAIN t /\ j = Len(s) + b
      BY <1>0, <2>3
    <3>2. u[i] = s[i] /\ u[j] = t[b]
      BY <1>0, <3>1
    <3> QED BY <1>2, <3>1, <3>2
  <2> QED BY <1>0, <2>1, <2>2, <2>3
<1> QED BY <1>1, <1>2 DEF u

LEMMA InMeans ==
  ASSUME NEW s \in Seq(Message), NEW t \in Seq(Message), NEW x
  PROVE  In(x, s \o t) <=> In(x, s) \/ In(x, t)
<1> DEFINE u == s \o t
<1>0. /\ DOMAIN u = 1 .. Len(s) + Len(t)
      /\ Len(s) \in Nat /\ Len(t) \in Nat
      /\ DOMAIN s = 1 .. Len(s) /\ DOMAIN t = 1 .. Len(t)
      /\ \A i \in 1 .. Len(s) : u[i] = s[i] /\ i \in DOMAIN u
      /\ \A i \in 1 .. Len(t) : u[Len(s) + i] = t[i] /\ Len(s) + i \in DOMAIN u
  BY ConcatFacts
<1> HIDE DEF u
<1>1. In(x, s) \/ In(x, t) => In(x, u)
  BY <1>0 DEF In
<1>2. ASSUME NEW i \in DOMAIN u, u[i] = x PROVE In(x, s) \/ In(x, t)
  <2>1. CASE i <= Len(s)
    BY <1>0, <1>2, <2>1 DEF In
  <2>2. CASE i > Len(s)
    <3> DEFINE a == i - Len(s)
    <3>1. a \in DOMAIN t /\ i = Len(s) + a
      BY <1>0, <2>2
    <3> QED BY <1>0, <1>2, <3>1 DEF In
  <2> QED BY <1>0, <2>1, <2>2
<1> QED BY <1>1, <1>2 DEF In, u

LEMMA UpToMeans ==
  ASSUME NEW s \in Seq(Message), NEW n
  PROVE  UpTo(s, n) <=> \A x : In(x, s) => x <= n
BY DEF UpTo, In

(* What is thrown out of the middle leaves the order of the rest alone.      *)
LEMMA DropMiddle ==
  ASSUME NEW a \in Seq(Message), NEW b \in Seq(Message), NEW c \in Seq(Message)
  PROVE  /\ (a \o b) \o c \in Seq(Message) /\ a \o c \in Seq(Message)
         /\ InOrder((a \o b) \o c) => InOrder(a \o c)
         /\ \A x : In(x, (a \o b) \o c) <=> In(x, a \o c) \/ In(x, b)
<1>1. a \o b \in Seq(Message) /\ (a \o b) \o c \in Seq(Message) /\ a \o c \in Seq(Message)
  BY ConcatFacts
<1>2. \A x : In(x, (a \o b) \o c) <=> In(x, a \o c) \/ In(x, b)
  BY <1>1, InMeans
<1>3. ASSUME InOrder((a \o b) \o c) PROVE InOrder(a \o c)
  <2>1. /\ InOrder(a \o b) /\ InOrder(c)
        /\ \A i \in DOMAIN (a \o b), j \in DOMAIN c :
              Stop \notin {(a \o b)[i], c[j]} => (a \o b)[i] < c[j]
    BY <1>1, <1>3, OrderMeans
  <2>2. InOrder(a)
    BY <2>1, OrderMeans
  <2>3. \A i \in DOMAIN a : i \in DOMAIN (a \o b) /\ (a \o b)[i] = a[i]
    <3>1. /\ DOMAIN (a \o b) = 1 .. Len(a) + Len(b) /\ DOMAIN a = 1 .. Len(a)
          /\ Len(a) \in Nat /\ Len(b) \in Nat
          /\ \A i \in 1 .. Len(a) : (a \o b)[i] = a[i]
      BY ConcatFacts
    <3> QED BY <3>1
  <2>4. \A i \in DOMAIN a, j \in DOMAIN c : Stop \notin {a[i], c[j]} => a[i] < c[j]
    BY <2>1, <2>3
  <2> QED BY <2>1, <2>2, <2>4, OrderMeans
<1> QED BY <1>1, <1>2, <1>3

(* A stop message, or a frame with the next number, joins the end.           *)
LEMMA JoinEnd ==
  ASSUME NEW s \in Seq(Message), NEW m \in Message, NEW n \in Nat,
         InOrder(s), UpTo(s, n), m = Stop \/ m = n + 1
  PROVE  /\ s \o <<m>> \in Seq(Message) /\ InOrder(s \o <<m>>)
         /\ \A x : In(x, s \o <<m>>) <=> In(x, s) \/ x = m
<1>1. <<m>> \in Seq(Message) /\ DOMAIN <<m>> = {1} /\ <<m>>[1] = m
  OBVIOUS
<1>2. s \o <<m>> \in Seq(Message)
  BY <1>1, ConcatFacts
<1>3. \A x : In(x, s \o <<m>>) <=> In(x, s) \/ x = m
  <2>1. \A x : In(x, <<m>>) <=> x = m
    BY <1>1 DEF In
  <2> QED BY <1>1, <2>1, InMeans
<1>4. InOrder(<<m>>)
  BY <1>1 DEF InOrder
<1>5. ASSUME NEW i \in DOMAIN s, NEW j \in DOMAIN <<m>>, Stop \notin {s[i], <<m>>[j]}
      PROVE  s[i] < <<m>>[j]
  <2>1. <<m>>[j] = n + 1
    BY <1>1, <1>5
  <2>2. s[i] <= n /\ s[i] \in Message
    BY ElementOfSeq, LenProperties DEF UpTo
  <2>3. s[i] \in Nat
    BY <2>2, MessagesAreNumbers
  <2> QED BY <2>1, <2>2, <2>3
<1> QED BY <1>1, <1>2, <1>3, <1>4, <1>5, OrderMeans

(* The three kinds of steps.                                                 *)
LEMMA LineMoved ==
  ASSUME Line, InFlight' = InFlight,
         UNCHANGED <<submitted, discarded, lost, dropped>>
  PROVE  Line'
BY DEF Line, InOrder, UpTo, In

LEMMA LineDropped ==
  ASSUME Line, IInv, IInv',
         NEW a \in Seq(Message), NEW b \in Seq(Message), NEW c \in Seq(Message),
         InFlight = Cat(Cat(a, b), c), InFlight' = Cat(a, c), submitted' = submitted,
         \A n \in Frame : In(n, b) => n \in BadFrames \cup discarded' \cup lost',
         discarded \subseteq discarded', lost \subseteq lost',
         \/ lost' = lost /\ dropped' = dropped
         \/ dropped' = dropped + 1 /\ \E x : lost' \subseteq lost \cup {x}
  PROVE  Line'
<1> DEFINE s == InFlight t == a \o c
<1>0. InOrder(s) /\ UpTo(s, submitted) /\ s = (a \o b) \o c /\ InFlight' = t
  BY DEF Line, Cat
<1>t. s \in Seq(Message) /\ t \in Seq(Message)
  BY <1>0, DropMiddle
<1>x. \A x : In(x, s) <=> In(x, t) \/ In(x, b)
  BY <1>0, DropMiddle
<1>n. submitted \in 0 .. MaxFrames /\ MaxFrames \in Nat
  BY BoundsAssumption DEF IInv, MyType
<1>1. InOrder(t)
  BY <1>0, DropMiddle
<1>2. UpTo(t, submitted)
  BY <1>0, <1>t, <1>x, UpToMeans
<1>3. ASSUME NEW n \in 1 .. submitted
      PROVE  In(n, t) \/ n \in BadFrames \cup discarded' \cup lost'
  <2>1. In(n, s) \/ n \in BadFrames \cup discarded \cup lost
    BY DEF Line
  <2>2. n \in Frame
    BY <1>n DEF Frame
  <2> QED BY <1>x, <2>1, <2>2
<1>4. Cardinality(lost') <= dropped'
  <2>0. /\ dropped \in Nat /\ dropped' \in Nat /\ Cardinality(lost) <= dropped
        /\ lost \subseteq Frame
    BY DEF IInv, MyType, Line
  <2>1. IsFiniteSet(lost) /\ Cardinality(lost) \in Nat
    <3>1. IsFiniteSet(Frame)
      BY <1>n, FS_Interval DEF Frame
    <3> QED BY <2>0, <3>1, FS_Subset, FS_CardinalityType
  <2>2. CASE lost' = lost /\ dropped' = dropped
    BY <2>0, <2>2
  <2>3. CASE dropped' = dropped + 1 /\ \E x : lost' \subseteq lost \cup {x}
    <3>1. PICK x : lost' \subseteq lost \cup {x}
      BY <2>3
    <3>2. IsFiniteSet(lost \cup {x}) /\ Cardinality(lost \cup {x}) <= Cardinality(lost) + 1
      <4>1. /\ IsFiniteSet(lost \cup {x})
            /\ Cardinality(lost \cup {x}) =
                  IF x \in lost THEN Cardinality(lost) ELSE Cardinality(lost) + 1
        BY <2>1, FS_AddElement, Zenon
      <4> QED BY <2>1, <4>1
    <3>3. Cardinality(lost') <= Cardinality(lost \cup {x}) /\ IsFiniteSet(lost')
      BY <3>1, <3>2, FS_Subset
    <3>4. Cardinality(lost') \in Nat /\ Cardinality(lost \cup {x}) \in Nat
      BY <3>2, <3>3, FS_CardinalityType
    <3> QED BY <2>0, <2>1, <2>3, <3>2, <3>3, <3>4
  <2> QED BY <2>2, <2>3
<1>5. InOrder(InFlight') /\ UpTo(InFlight', submitted')
  BY <1>0, <1>1, <1>2
<1>6. \A n \in 1 .. submitted' :
         In(n, InFlight') \/ n \in BadFrames \cup discarded' \cup lost'
  BY <1>0, <1>3
<1>7. (InOrder(InFlight) /\ UpTo(InFlight, submitted))'
  BY <1>5 DEF InOrder, UpTo
<1>8. (\A n \in 1 .. submitted :
         In(n, InFlight) \/ n \in BadFrames \cup discarded \cup lost)'
  BY <1>6 DEF In
<1> QED BY <1>4, <1>7, <1>8 DEF Line

LEMMA LineGrown ==
  ASSUME Line, IInv, IInv', InFlight \in Seq(Message), NEW m \in Message,
         InFlight' = Cat(InFlight, <<m>>),
         UNCHANGED <<discarded, lost, dropped>>,
         \/ m = Stop /\ submitted' = submitted
         \/ m = submitted + 1 /\ submitted' = submitted + 1
  PROVE  Line'
<1> DEFINE s == InFlight t == s \o <<m>>
<1>0. InOrder(s) /\ UpTo(s, submitted) /\ InFlight' = t
  BY DEF Line, Cat
<1>n. submitted \in Nat /\ submitted' \in Nat
  BY BoundsAssumption DEF IInv, MyType
<1>1. t \in Seq(Message) /\ InOrder(t) /\ \A x : In(x, t) <=> In(x, s) \/ x = m
  BY <1>0, <1>n, JoinEnd
<1>2. UpTo(t, submitted')
  <2>1. \A x : In(x, s) => x <= submitted
    BY <1>0, UpToMeans
  <2>2. \A x : In(x, s) => x \in Message
    BY ElementOfSeq, LenProperties DEF In
  <2>3. ASSUME NEW x, In(x, t) PROVE x <= submitted'
    <3>1. CASE In(x, s)
      <4>1. x <= submitted /\ x \in Nat
        BY <2>1, <2>2, <3>1, MessagesAreNumbers, Zenon
      <4> QED BY <1>n, <4>1
    <3>2. CASE x = m
      BY <1>n, <3>2 DEF Stop
    <3> QED BY <1>1, <2>3, <3>1, <3>2
  <2> QED BY <1>1, <2>3, UpToMeans
<1>3. \A n \in 1 .. submitted' : In(n, t) \/ n \in BadFrames \cup discarded \cup lost
  <2> SUFFICES ASSUME NEW n \in 1 .. submitted'
               PROVE  In(n, t) \/ n \in BadFrames \cup discarded \cup lost
    OBVIOUS
  <2>1. n \in 1 .. submitted \/ n = m
    BY <1>n
  <2> QED BY <1>1, <2>1 DEF Line
<1>4. Cardinality(lost) <= dropped
  BY DEF Line
<1>7. (InOrder(InFlight) /\ UpTo(InFlight, submitted))'
  BY <1>0, <1>1, <1>2 DEF InOrder, UpTo
<1>8. (\A n \in 1 .. submitted :
         In(n, InFlight) \/ n \in BadFrames \cup discarded \cup lost)'
  BY <1>0, <1>3 DEF In
<1>9. (Cardinality(lost) <= dropped)'
  BY <1>4
<1> QED BY <1>7, <1>8, <1>9 DEF Line

(* The laws of concatenation, and equations between lines.                   *)
LEMMA Laws ==
  /\ << >> \in Seq(Message) /\ \A m \in Message : <<m>> \in Seq(Message)
  /\ \A a \in Seq(Message) : Cat(a, << >>) = a /\ Cat(<< >>, a) = a
  /\ \A a, b \in Seq(Message) : Cat(a, b) \in Seq(Message)
  /\ \A a \in Seq(Message), m \in Message : Append(a, m) = Cat(a, <<m>>)
<1>1. << >> \in Seq(Message) /\ \A m \in Message : <<m>> \in Seq(Message)
  OBVIOUS
<1>2. \A a \in Seq(Message) : Cat(a, << >>) = a /\ Cat(<< >>, a) = a
  BY ConcatEmptySeq DEF Cat
<1>3. \A a, b \in Seq(Message) : Cat(a, b) \in Seq(Message)
  BY ConcatProperties DEF Cat
<1>4. \A a \in Seq(Message), m \in Message : Append(a, m) = Cat(a, <<m>>)
  BY AppendIsConcat DEF Cat
<1> QED BY <1>1, <1>2, <1>3, <1>4

LEMMA Assoc ==
  ASSUME NEW a \in Seq(Message), NEW b \in Seq(Message), NEW c \in Seq(Message)
  PROVE  Cat(Cat(a, b), c) = Cat(a, Cat(b, c))
BY ConcatAssociative DEF Cat

LEMMA PutLast ==
  ASSUME NEW a \in Seq(Message), NEW s \in Seq(Message), NEW m \in Message
  PROVE  Cat(Cat(a, Append(s, m)), << >>) = Cat(Cat(a, s), <<m>>)
<1>1. <<m>> \in Seq(Message) /\ Append(s, m) = Cat(s, <<m>>)
  BY Laws
<1>2. Cat(a, Cat(s, <<m>>)) \in Seq(Message)
  BY <1>1, Laws
<1>3. Cat(Cat(a, Cat(s, <<m>>)), << >>) = Cat(a, Cat(s, <<m>>))
  BY <1>2, Laws
<1>4. Cat(Cat(a, s), <<m>>) = Cat(a, Cat(s, <<m>>))
  BY <1>1, Assoc
<1> QED BY <1>1, <1>3, <1>4

LEMMA HeadFirst ==
  ASSUME NEW t \in Seq(Message), t # << >>
  PROVE  /\ Head(t) \in Message /\ Tail(t) \in Seq(Message)
         /\ <<Head(t)>> \in Seq(Message) /\ t = Cat(<<Head(t)>>, Tail(t))
<1>1. Head(t) \in Message /\ Tail(t) \in Seq(Message)
  BY HeadTailProperties
<1>2. t = <<Head(t)>> \o Tail(t)
  <2> DEFINE u == <<Head(t)>> \o Tail(t)
  <2>1. /\ Len(t) \in Nat \ {0} /\ Len(Tail(t)) = Len(t) - 1 /\ Head(t) = t[1]
        /\ \A i \in 1 .. Len(t) - 1 : Tail(t)[i] = t[i + 1]
    BY TailFacts
  <2>2. /\ <<Head(t)>> \in Seq(Message) /\ Len(<<Head(t)>>) = 1 /\ <<Head(t)>>[1] = Head(t)
    BY <1>1
  <2>3. /\ u \in Seq(Message) /\ Len(u) = 1 + Len(Tail(t))
        /\ \A i \in 1 .. 1 + Len(Tail(t)) :
              u[i] = IF i <= 1 THEN <<Head(t)>>[i] ELSE Tail(t)[i - 1]
    BY <1>1, <2>2, ConcatProperties
  <2>4. \A i \in 1 .. Len(t) : t[i] = u[i]
    <3> SUFFICES ASSUME NEW i \in 1 .. Len(t) PROVE t[i] = u[i]
      OBVIOUS
    <3>1. CASE i = 1
      BY <2>1, <2>2, <2>3, <3>1
    <3>2. CASE i # 1
      <4>1. /\ i - 1 \in 1 .. Len(t) - 1 /\ ~(i <= 1) /\ i \in 1 .. 1 + Len(Tail(t))
            /\ (i - 1) + 1 = i
        BY <2>1, <3>2
      <4> QED BY <2>1, <2>3, <4>1
    <3> QED BY <3>1, <3>2
  <2>5. Len(t) = Len(u)
    BY <2>1, <2>3
  <2> HIDE DEF u
  <2>6. t = u
    BY <2>3, <2>4, <2>5, SeqEqual
  <2> QED BY <2>6 DEF u
<1> QED BY <1>1, <1>2, Laws DEF Cat

LEMMA Slide ==
  ASSUME NEW a \in Seq(Message), NEW s \in Seq(Message), NEW t \in Seq(Message), t # << >>
  PROVE  Cat(Cat(a, Append(s, Head(t))), Tail(t)) = Cat(Cat(a, s), t)
<1> DEFINE h == <<Head(t)>> r == Tail(t)
<1>1. /\ h \in Seq(Message) /\ r \in Seq(Message) /\ t = Cat(h, r)
      /\ Append(s, Head(t)) = Cat(s, h)
  BY HeadFirst, Laws
<1> HIDE DEF h, r
<1>2. Cat(Cat(a, Cat(s, h)), r) = Cat(Cat(a, s), Cat(h, r))
  BY <1>1, Laws, Assoc
<1> QED BY <1>1, <1>2 DEF r

LEMMA Regroup ==
  ASSUME NEW a \in Seq(Message), NEW b \in Seq(Message), NEW c \in Seq(Message),
         NEW d \in Seq(Message)
  PROVE  /\ Cat(Cat(Cat(a, b), c), d) = Cat(a, Cat(b, Cat(c, d)))
         /\ Cat(Cat(Cat(a, b), c), d) = Cat(Cat(a, b), Cat(c, d))
         /\ Cat(b, Cat(c, d)) \in Seq(Message) /\ Cat(c, d) \in Seq(Message)
<1>1. Cat(a, b) \in Seq(Message) /\ Cat(c, d) \in Seq(Message) /\ Cat(b, Cat(c, d)) \in Seq(Message)
  BY Laws
<1>2. Cat(Cat(Cat(a, b), c), d) = Cat(Cat(a, b), Cat(c, d))
  BY <1>1, Assoc
<1>3. Cat(Cat(a, b), Cat(c, d)) = Cat(a, Cat(b, Cat(c, d)))
  BY <1>1, Assoc
<1> QED BY <1>1, <1>2, <1>3

LEMMA HeadOut ==
  ASSUME NEW a \in Seq(Message), NEW b \in Seq(Message), NEW c \in Seq(Message),
         NEW d \in Seq(Message), b # << >>
  PROVE  /\ Cat(Cat(Cat(a, b), c), d) = Cat(Cat(a, <<Head(b)>>), Cat(Tail(b), Cat(c, d)))
         /\ Cat(Cat(Cat(a, Tail(b)), c), d) = Cat(a, Cat(Tail(b), Cat(c, d)))
         /\ Cat(Tail(b), Cat(c, d)) \in Seq(Message)
         /\ <<Head(b)>> \in Seq(Message) /\ Head(b) \in Message
<1> DEFINE h == <<Head(b)>> r == Tail(b) e == Cat(c, d)
<1>1. h \in Seq(Message) /\ r \in Seq(Message) /\ b = Cat(h, r) /\ Head(b) \in Message
  BY HeadFirst
<1>2. Cat(Cat(Cat(a, b), c), d) = Cat(a, Cat(b, e)) /\ e \in Seq(Message)
  BY Regroup
<1> HIDE DEF h, r
<1>3. Cat(Cat(Cat(a, r), c), d) = Cat(a, Cat(r, e)) /\ Cat(r, e) \in Seq(Message)
  BY <1>1, Regroup
<1> HIDE DEF e
<1>4. Cat(Cat(h, r), e) = Cat(h, Cat(r, e)) /\ Cat(a, Cat(h, Cat(r, e))) = Cat(Cat(a, h), Cat(r, e))
  BY <1>1, <1>2, <1>3, Assoc
<1>5. Cat(Cat(Cat(a, b), c), d) = Cat(Cat(a, h), Cat(r, e))
  BY <1>1, <1>2, <1>4
<1> QED BY <1>1, <1>3, <1>5 DEF h, r, e

(* The line, in the order of the places.                                     *)
Results == Cat(Cat(polled, outPipe), outBuffer)
Answered == Cat(Results, InHand)

LEMMA LineIs ==
  InFlight = Cat(Cat(Cat(Answered, inPipe), inBuffer), Newest)
BY DEF InFlight, Answered, Results, Cat

LEMMA Parts ==
  ASSUME MyType
  PROVE  /\ polled \in Seq(Message) /\ outPipe \in Seq(Message) /\ outBuffer \in Seq(Message)
         /\ InHand \in Seq(Message) /\ inPipe \in Seq(Message) /\ inBuffer \in Seq(Message)
         /\ Newest \in Seq(Message)
         /\ Cat(polled, outPipe) \in Seq(Message)
         /\ Results \in Seq(Message) /\ Answered \in Seq(Message)
         /\ Cat(Answered, inPipe) \in Seq(Message)
         /\ Cat(Cat(Answered, inPipe), inBuffer) \in Seq(Message)
         /\ InFlight \in Seq(Message)
<1>1. polled \in Seq(Message) /\ outPipe \in Seq(Message) /\ outBuffer \in Seq(Message)
  <2>1. Seq(Frame) \subseteq Seq(Message)
    BY Messages, SeqMonotonic
  <2> QED BY <2>1 DEF MyType
<1>2. inPipe \in Seq(Message) /\ inBuffer \in Seq(Message)
  BY DEF MyType
<1>3. InHand \in Seq(Message)
  BY Messages, Laws DEF InHand
<1>4. Newest \in Seq(Message)
  <2>1. submitted \in Message
    BY BoundsAssumption DEF MyType, Message, Frame, Stop
  <2> QED BY <2>1, Laws DEF Newest
<1>5. Cat(polled, outPipe) \in Seq(Message) /\ Results \in Seq(Message)
  BY <1>1, Laws DEF Results
<1>6. Answered \in Seq(Message)
  BY <1>3, <1>5, Laws DEF Answered
<1>7. Cat(Answered, inPipe) \in Seq(Message)
  BY <1>2, <1>6, Laws
<1>8. Cat(Cat(Answered, inPipe), inBuffer) \in Seq(Message)
  BY <1>2, <1>7, Laws
<1>9. InFlight \in Seq(Message)
  BY <1>4, <1>8, Laws, LineIs
<1> QED BY <1>1, <1>2, <1>3, <1>4, <1>5, <1>6, <1>7, <1>8, <1>9

LEMMA LineIsNext ==
  /\ InFlight' = Cat(Cat(Cat(Answered', inPipe'), inBuffer'), Newest')
  /\ Answered' = Cat(Results', InHand') /\ Results' = Cat(Cat(polled', outPipe'), outBuffer')
BY DEF InFlight, Answered, Results, Cat

(* Most steps leave the results, or the results and the frame in hand alone. *)
LEMMA SameAnswered ==
  ASSUME UNCHANGED <<polled, outPipe, outBuffer, hand>>
  PROVE  Answered' = Answered /\ Results' = Results /\ InHand' = InHand
BY DEF Answered, Results, InHand

LEMMA StartLine == Line /\ IInv /\ IInv' /\ Start => Line'
<1> SUFFICES ASSUME Line, Start PROVE Line'
  OBVIOUS
<1>1. UNCHANGED <<polled, outPipe, outBuffer, hand, inPipe, inBuffer, caller>>
  BY DEF Start, queueVars
<1>2. InFlight' = InFlight
  BY <1>1 DEF Start, InFlight, InHand, Newest, InSubmit, counterVars
<1> QED BY <1>2, LineMoved DEF Start, counterVars

LEMMA IdleLine ==
  Line /\ IInv /\ IInv' /\ (StopJoined \/ WorkerLock \/ WorkerRelease \/ WorkerExit) => Line'
<1> SUFFICES ASSUME Line, IInv, StopJoined \/ WorkerLock \/ WorkerRelease \/ WorkerExit
             PROVE  Line'
  OBVIOUS
<1>1. /\ UNCHANGED <<polled, outPipe, outBuffer, inPipe, inBuffer>>
      /\ UNCHANGED <<submitted, dropped, lost, discarded>>
  BY DEF StopJoined, WorkerLock, WorkerRelease, WorkerExit, queueVars, workerVars, counterVars
<1>2. InHand' = InHand
  BY Messages DEF StopJoined, WorkerLock, WorkerRelease, WorkerExit, workerVars, InHand
<1>3. Newest' = Newest
  BY <1>1 DEF StopJoined, WorkerLock, WorkerRelease, WorkerExit, InSubmit, Newest
<1>4. InFlight' = InFlight
  BY <1>1, <1>2, <1>3 DEF InFlight
<1> QED BY <1>1, <1>4, LineMoved

LEMMA SubmitLine == Line /\ IInv /\ IInv' /\ Submit => Line'
<1> SUFFICES ASSUME Line, IInv, IInv', Submit PROVE Line'
  OBVIOUS
<1> DEFINE m == submitted + 1 a == Cat(Answered, inPipe)
<1>0. MyType /\ m \in Message
  BY Messages DEF IInv, MyType, Submit
<1>1. /\ UNCHANGED <<polled, outPipe, outBuffer, hand, discarded, lost, dropped>>
      /\ submitted' = submitted + 1
  BY DEF Submit, workerVars
<1>2. Answered' = Answered
  BY <1>1, SameAnswered
<1>3. a \in Seq(Message) /\ inBuffer \in Seq(Message) /\ Cat(a, inBuffer) \in Seq(Message)
      /\ InFlight \in Seq(Message)
  BY <1>0, Parts
<1>4. Newest = << >>
  BY DEF Submit, Newest, InSubmit
<1>5. InFlight = Cat(a, inBuffer)
  BY <1>3, <1>4, LineIs, Laws
<1>6. InFlight' = Cat(InFlight, <<m>>)
  <2>1. CASE Put(m) /\ caller' = "idle"
    <3>1. inPipe' = inPipe /\ inBuffer' = Append(inBuffer, m) /\ Newest' = << >>
      BY <2>1 DEF Put, Newest, InSubmit
    <3>2. InFlight' = Cat(Cat(a, Append(inBuffer, m)), << >>)
      BY <1>2, <3>1, LineIsNext
    <3> QED BY <1>0, <1>3, <1>5, <3>2, PutLast
  <2>2. CASE Full /\ caller' = "evict"
    <3>1. inPipe' = inPipe /\ inBuffer' = inBuffer /\ Newest' = <<m>>
      BY <1>1, <2>2 DEF Full, queueVars, Newest, InSubmit
    <3> QED BY <1>2, <1>5, <3>1, LineIsNext
  <2> QED BY <2>1, <2>2 DEF Submit
<1> QED BY <1>0, <1>1, <1>3, <1>6, LineGrown

(* Nothing is thrown out, but something may be counted.                      *)
LEMMA LineCounted ==
  ASSUME Line, IInv, IInv', InFlight' = InFlight, UNCHANGED <<submitted, discarded, lost>>,
         dropped' \in {dropped, dropped + 1}
  PROVE  Line'
<1>1. dropped \in Nat /\ lost \subseteq Frame /\ Cardinality(lost) <= dropped
  BY DEF IInv, MyType, Line
<1>2. Cardinality(lost) \in Nat
  <2>1. IsFiniteSet(Frame)
    BY BoundsAssumption, FS_Interval DEF Frame
  <2> QED BY <1>1, <2>1, FS_Subset, FS_CardinalityType
<1>3. Cardinality(lost) <= dropped'
  BY <1>1, <1>2
<1>4. (Cardinality(lost) <= dropped)'
  BY <1>3
<1> QED BY <1>4 DEF Line, InOrder, UpTo, In

(* What get_nowait takes is thrown out.                                      *)
LEMMA LineTaken ==
  ASSUME Line, IInv, IInv', Take, UNCHANGED <<polled, outPipe, outBuffer, hand, submitted>>,
         Newest' = Newest, Head(inPipe) # Stop => Head(inPipe) \in discarded' \cup lost',
         discarded \subseteq discarded', lost \subseteq lost',
         \/ lost' = lost /\ dropped' = dropped
         \/ dropped' = dropped + 1 /\ \E x : lost' \subseteq lost \cup {x}
  PROVE  Line'
<1> DEFINE b == <<Head(inPipe)>> c == Cat(Tail(inPipe), Cat(inBuffer, Newest))
<1>0. MyType /\ inPipe # << >>
  BY DEF IInv, Take
<1>1. inPipe' = Tail(inPipe) /\ inBuffer' = inBuffer /\ Answered' = Answered
  BY SameAnswered DEF Take
<1>2. /\ Answered \in Seq(Message) /\ inPipe \in Seq(Message) /\ inBuffer \in Seq(Message)
      /\ Newest \in Seq(Message)
  BY <1>0, Parts
<1>3. /\ InFlight = Cat(Cat(Answered, b), c) /\ c \in Seq(Message) /\ b \in Seq(Message)
      /\ Cat(Cat(Cat(Answered, Tail(inPipe)), inBuffer), Newest) = Cat(Answered, c)
  BY <1>0, <1>2, HeadOut, LineIs
<1>4. InFlight' = Cat(Answered, c)
  BY <1>1, <1>3, LineIsNext
<1>5. \A n \in Frame : In(n, b) => n \in BadFrames \cup discarded' \cup lost'
  <2>1. \A n : In(n, b) => n = Head(inPipe)
    BY DEF In
  <2> QED BY <2>1, Messages
<1> HIDE DEF b, c
<1> QED BY <1>2, <1>3, <1>4, <1>5, LineDropped

LEMMA SubmitEvictLine == Line /\ IInv /\ IInv' /\ SubmitEvict => Line'
<1> SUFFICES ASSUME Line, IInv, IInv', SubmitEvict PROVE Line'
  OBVIOUS
<1>1. /\ UNCHANGED <<polled, outPipe, outBuffer, hand, submitted, discarded>>
      /\ dropped' = dropped + 1
  BY DEF SubmitEvict, workerVars
<1>2. Newest' = Newest
  BY <1>1 DEF SubmitEvict, Newest, InSubmit
<1>3. CASE Take /\ lost' = lost \cup ({Head(inPipe)} \ {Stop})
  <2>1. lost' \subseteq lost \cup {Head(inPipe)} /\ lost \subseteq lost'
    BY <1>3
  <2>2. Head(inPipe) # Stop => Head(inPipe) \in discarded' \cup lost'
    BY <1>3
  <2> QED BY <1>1, <1>2, <1>3, <2>1, <2>2, LineTaken
<1>4. CASE Empty /\ UNCHANGED lost
  <2>1. InFlight' = InFlight
    BY <1>1, <1>2, <1>4 DEF Empty, queueVars, InFlight, InHand
  <2> QED BY <1>1, <1>4, <2>1, LineCounted
<1> QED BY <1>3, <1>4 DEF SubmitEvict

LEMMA SubmitRetryLine == Line /\ IInv /\ IInv' /\ SubmitRetry => Line'
<1> SUFFICES ASSUME Line, IInv, IInv', SubmitRetry PROVE Line'
  OBVIOUS
<1> DEFINE m == submitted a == Cat(Answered, inPipe)
<1>0. MyType /\ m \in Message
  BY Messages DEF IInv, DropsOK, InSubmit, SubmitRetry
<1>1. UNCHANGED <<polled, outPipe, outBuffer, hand, submitted, discarded>>
  BY DEF SubmitRetry, workerVars
<1>2. Answered' = Answered
  BY <1>1, SameAnswered
<1>3. a \in Seq(Message) /\ inBuffer \in Seq(Message) /\ Cat(a, inBuffer) \in Seq(Message)
  BY <1>0, Parts
<1>4. Newest = <<m>> /\ Newest' = << >>
  BY DEF SubmitRetry, Newest, InSubmit
<1>5. InFlight = Cat(Cat(a, inBuffer), <<m>>)
  BY <1>4, LineIs
<1>6. CASE Put(m) /\ UNCHANGED <<dropped, lost>>
  <2>1. inPipe' = inPipe /\ inBuffer' = Append(inBuffer, m)
    BY <1>6 DEF Put
  <2>2. InFlight' = Cat(Cat(a, Append(inBuffer, m)), << >>)
    BY <1>2, <1>4, <2>1, LineIsNext
  <2>3. InFlight' = InFlight
    BY <1>0, <1>3, <1>5, <2>2, PutLast
  <2> QED BY <1>1, <1>6, <2>3, LineMoved
<1>7. CASE Full /\ dropped' = dropped + 1 /\ lost' = lost \cup {m}
  <2> DEFINE p == Cat(a, inBuffer) b == <<m>> c == << >>
  <2>1. inPipe' = inPipe /\ inBuffer' = inBuffer
    BY <1>7 DEF Full, queueVars
  <2>2. p \in Seq(Message) /\ b \in Seq(Message) /\ c \in Seq(Message)
    BY <1>0, <1>3, Laws
  <2>3. InFlight' = Cat(p, c)
    BY <1>2, <1>4, <2>1, LineIsNext
  <2>4. InFlight = Cat(Cat(p, b), c)
    <3>1. Cat(p, b) \in Seq(Message)
      BY <2>2, Laws
    <3> QED BY <1>5, <3>1, Laws
  <2>5. \A n \in Frame : In(n, b) => n \in BadFrames \cup discarded' \cup lost'
    BY <1>7 DEF In
  <2>6. discarded \subseteq discarded' /\ lost \subseteq lost' /\ lost' \subseteq lost \cup {m}
    BY <1>1, <1>7
  <2> HIDE DEF p, b, c
  <2> QED BY <1>1, <1>7, <2>2, <2>3, <2>4, <2>5, <2>6, LineDropped
<1> QED BY <1>6, <1>7 DEF SubmitRetry

LEMMA PollResultsLine == Line /\ IInv /\ IInv' /\ PollResults => Line'
<1> SUFFICES ASSUME Line, IInv, PollResults PROVE Line'
  OBVIOUS
<1>1. /\ UNCHANGED <<outBuffer, hand, inPipe, inBuffer, submitted, discarded, lost, dropped>>
      /\ UNCHANGED caller /\ outPipe' = << >> /\ polled' = Cat(polled, outPipe)
  BY DEF PollResults, queueVars, workerVars, counterVars, Cat
<1>2. Cat(polled, outPipe) \in Seq(Message)
  BY Parts DEF IInv
<1>3. Cat(polled', outPipe') = Cat(polled, outPipe)
  BY <1>1, <1>2, Laws
<1>4. Newest' = Newest /\ InHand' = InHand
  BY <1>1 DEF Newest, InHand, InSubmit
<1>5. InFlight' = InFlight
  BY <1>1, <1>3, <1>4, LineIs, LineIsNext DEF Answered, Results
<1> QED BY <1>1, <1>5, LineMoved

(* stop() puts its message at the end, or nothing.                           *)
LEMMA LineStop ==
  ASSUME Line, IInv, IInv', Put(Stop) \/ Full,
         UNCHANGED <<workerVars, outPipe, polled, counterVars>>,
         ~InSubmit, ~InSubmit'
  PROVE  Line'
<1> DEFINE a == Cat(Answered, inPipe)
<1>0. MyType /\ Stop \in Message
  BY Messages DEF IInv
<1>1. /\ UNCHANGED <<polled, outPipe, outBuffer, hand, submitted, discarded, lost, dropped>>
      /\ Newest = << >> /\ Newest' = << >>
  BY DEF workerVars, counterVars, Newest
<1>2. Answered' = Answered
  BY <1>1, SameAnswered
<1>3. a \in Seq(Message) /\ inBuffer \in Seq(Message) /\ Cat(a, inBuffer) \in Seq(Message)
      /\ InFlight \in Seq(Message)
  BY <1>0, Parts
<1>4. InFlight = Cat(a, inBuffer)
  BY <1>1, <1>3, LineIs, Laws
<1>5. CASE Put(Stop)
  <2>1. inPipe' = inPipe /\ inBuffer' = Append(inBuffer, Stop)
    BY <1>5 DEF Put
  <2>2. InFlight' = Cat(Cat(a, Append(inBuffer, Stop)), << >>)
    BY <1>1, <1>2, <2>1, LineIsNext
  <2>3. InFlight' = Cat(InFlight, <<Stop>>)
    BY <1>0, <1>3, <1>4, <2>2, PutLast
  <2> QED BY <1>0, <1>1, <1>3, <2>3, LineGrown
<1>6. CASE Full
  <2>1. InFlight' = InFlight
    BY <1>1, <1>6 DEF Full, queueVars, InFlight, InHand
  <2> QED BY <1>1, <2>1, LineMoved
<1> QED BY <1>5, <1>6

LEMMA StopSignalLine == Line /\ IInv /\ IInv' /\ StopSignal => Line'
BY LineStop DEF StopSignal, InSubmit

LEMMA StopRetryLine == Line /\ IInv /\ IInv' /\ StopRetry => Line'
BY LineStop DEF StopRetry, InSubmit

LEMMA StopEvictLine == Line /\ IInv /\ IInv' /\ StopEvict => Line'
<1> SUFFICES ASSUME Line, IInv, IInv', StopEvict PROVE Line'
  OBVIOUS
<1>1. UNCHANGED <<polled, outPipe, outBuffer, hand, submitted, lost, dropped>>
  BY DEF StopEvict, workerVars
<1>2. Newest' = Newest
  BY <1>1 DEF StopEvict, Newest, InSubmit
<1>3. CASE Take /\ discarded' = discarded \cup ({Head(inPipe)} \ {Stop})
  <2>1. discarded \subseteq discarded' /\ lost \subseteq lost'
    BY <1>1, <1>3
  <2>2. Head(inPipe) # Stop => Head(inPipe) \in discarded' \cup lost'
    BY <1>3
  <2> QED BY <1>1, <1>2, <1>3, <2>1, <2>2, LineTaken
<1>4. CASE Empty /\ UNCHANGED discarded
  <2>1. InFlight' = InFlight
    BY <1>1, <1>2, <1>4 DEF Empty, queueVars, InFlight, InHand
  <2> QED BY <1>1, <1>4, <2>1, LineMoved
<1> QED BY <1>3, <1>4 DEF StopEvict

(* A killed worker takes its results and its frame with it.                  *)
LEMMA StopTerminateLine == Line /\ IInv /\ IInv' /\ StopTerminate => Line'
<1> SUFFICES ASSUME Line, IInv, IInv', StopTerminate PROVE Line'
  OBVIOUS
<1> DEFINE a == Cat(polled, outPipe) b == Cat(outBuffer, InHand)
           rest == Cat(inPipe, Cat(inBuffer, Newest))
<1>0. MyType
  BY DEF IInv
<1>1. /\ UNCHANGED <<polled, outPipe, inBuffer, inPipe, submitted, lost, dropped>>
      /\ discarded' = discarded \cup ({hand} \ {Stop, Nothing}) \cup Range(outBuffer)
      /\ outBuffer' = << >> /\ InHand' = << >>
  BY Messages DEF StopTerminate, InHand
<1>2. Newest' = Newest
  BY <1>1 DEF StopTerminate, Newest, InSubmit
<1>3. /\ polled \in Seq(Message) /\ outPipe \in Seq(Message) /\ outBuffer \in Seq(Message)
      /\ InHand \in Seq(Message) /\ inPipe \in Seq(Message) /\ inBuffer \in Seq(Message)
      /\ Newest \in Seq(Message) /\ a \in Seq(Message) /\ Answered \in Seq(Message)
  BY <1>0, Parts
<1>4. b \in Seq(Message)
  BY <1>3, Laws
<1>5. InFlight = Cat(Cat(a, b), rest) /\ rest \in Seq(Message)
  <2>1. InFlight = Cat(Answered, rest) /\ rest \in Seq(Message)
    BY <1>3, Regroup, LineIs
  <2>2. Answered = Cat(a, b)
    BY <1>3, Assoc DEF Answered, Results
  <2> QED BY <2>1, <2>2
<1>6. InFlight' = Cat(a, rest)
  <2>1. Answered' = a
    <3>1. Cat(a, << >>) = a
      BY <1>3, Laws
    <3> QED BY <1>1, <3>1, LineIsNext
  <2>2. InFlight' = Cat(Cat(Cat(a, inPipe), inBuffer), Newest)
    BY <1>1, <1>2, <2>1, LineIsNext
  <2> QED BY <1>3, <2>2, Regroup
<1>7. ASSUME NEW n \in Frame, In(n, b)
      PROVE  n \in BadFrames \cup discarded' \cup lost'
  <2>1. In(n, outBuffer) \/ In(n, InHand)
    BY <1>3, <1>7, InMeans DEF Cat
  <2>2. CASE In(n, outBuffer)
    BY <1>1, <2>2 DEF In, Range
  <2>3. CASE In(n, InHand)
    <3>1. n = hand
      BY <2>3 DEF In, InHand
    <3>2. n # Stop /\ n # Nothing
      BY Messages
    <3> QED BY <1>1, <3>1, <3>2
  <2> QED BY <2>1, <2>2, <2>3
<1>8. discarded \subseteq discarded' /\ lost \subseteq lost'
  BY <1>1
<1> HIDE DEF a, b, rest
<1> QED BY <1>1, <1>3, <1>4, <1>5, <1>6, <1>7, <1>8, LineDropped

LEMMA FeedLine == Line /\ IInv /\ IInv' /\ Feed => Line'
<1> SUFFICES ASSUME Line, IInv, Feed PROVE Line'
  OBVIOUS
<1>1. /\ UNCHANGED <<polled, outPipe, outBuffer, hand, caller>>
      /\ UNCHANGED <<submitted, discarded, lost, dropped>>
      /\ inBuffer # << >> /\ inPipe' = Append(inPipe, Head(inBuffer)) /\ inBuffer' = Tail(inBuffer)
  BY DEF Feed, workerVars, counterVars
<1>2. Answered' = Answered /\ Newest' = Newest
  BY <1>1, SameAnswered DEF Newest, InSubmit
<1>3. Answered \in Seq(Message) /\ inPipe \in Seq(Message) /\ inBuffer \in Seq(Message)
  BY Parts DEF IInv
<1>4. Cat(Cat(Answered', inPipe'), inBuffer') = Cat(Cat(Answered, inPipe), inBuffer)
  BY <1>1, <1>2, <1>3, Slide
<1>5. InFlight' = InFlight
  BY <1>2, <1>4, LineIs, LineIsNext
<1> QED BY <1>1, <1>5, LineMoved

LEMMA FeedOutLine == Line /\ IInv /\ IInv' /\ FeedOut => Line'
<1> SUFFICES ASSUME Line, IInv, FeedOut PROVE Line'
  OBVIOUS
<1>1. /\ UNCHANGED <<polled, hand, inBuffer, inPipe, caller>>
      /\ UNCHANGED <<submitted, discarded, lost, dropped>>
      /\ outBuffer # << >> /\ outPipe' = Append(outPipe, Head(outBuffer))
      /\ outBuffer' = Tail(outBuffer)
  BY DEF FeedOut, queueVars, counterVars
<1>2. InHand' = InHand /\ Newest' = Newest
  BY <1>1 DEF InHand, Newest, InSubmit
<1>3. polled \in Seq(Message) /\ outPipe \in Seq(Message) /\ outBuffer \in Seq(Message)
  BY Parts DEF IInv
<1>4. Cat(Cat(polled', outPipe'), outBuffer') = Cat(Cat(polled, outPipe), outBuffer)
  BY <1>1, <1>3, Slide
<1>5. InFlight' = InFlight
  BY <1>1, <1>2, <1>4, LineIs, LineIsNext DEF Answered, Results
<1> QED BY <1>1, <1>5, LineMoved

(* The worker takes a frame in hand; a stop message it takes leaves the line.*)
LEMMA WorkerRecvLine == Line /\ IInv /\ IInv' /\ WorkerRecv => Line'
<1> SUFFICES ASSUME Line, IInv, IInv', WorkerRecv PROVE Line'
  OBVIOUS
<1> DEFINE h == Head(inPipe)
<1>1. /\ UNCHANGED <<polled, outPipe, outBuffer, inBuffer, caller>>
      /\ UNCHANGED <<submitted, discarded, lost, dropped>>
      /\ inPipe # << >> /\ hand' = h /\ inPipe' = Tail(inPipe)
  BY DEF WorkerRecv, counterVars
<1>2. InHand = << >>
  BY Messages DEF IInv, HandOK, WorkerRecv, InHand
<1>3. Newest' = Newest /\ Results' = Results
  BY <1>1 DEF Newest, InSubmit, Results
<1>4. /\ Results \in Seq(Message) /\ inPipe \in Seq(Message) /\ inBuffer \in Seq(Message)
      /\ Newest \in Seq(Message) /\ h \in Message
  BY <1>1, Parts, HeadFirst DEF IInv
<1>5. Answered = Results /\ Answered = Cat(Results, << >>)
  BY <1>2, <1>4, Laws DEF Answered
<1>6. CASE h \in Frame
  <2>1. InHand' = <<h>>
    BY <1>1, <1>6 DEF InHand
  <2>2. Cat(Cat(Results, <<h>>), Tail(inPipe)) = Cat(Results, inPipe)
    <3>1. <<h>> \in Seq(Message) /\ Tail(inPipe) \in Seq(Message) /\ inPipe = Cat(<<h>>, Tail(inPipe))
      BY <1>1, <1>4, HeadFirst
    <3>2. \A x, y \in Seq(Message) : Cat(Cat(Results, x), y) = Cat(Results, Cat(x, y))
      BY <1>4, Assoc
    <3>3. Cat(Cat(Results, <<h>>), Tail(inPipe)) = Cat(Results, Cat(<<h>>, Tail(inPipe)))
      BY <3>1, <3>2
    <3> QED BY <3>1, <3>3
  <2>3. Cat(Answered', inPipe') = Cat(Answered, inPipe)
    BY <1>1, <1>3, <1>5, <2>1, <2>2, LineIsNext
  <2>4. InFlight' = InFlight
    BY <1>1, <1>3, <2>3, LineIs, LineIsNext
  <2> QED BY <1>1, <2>4, LineMoved
<1>7. CASE h = Stop
  <2> DEFINE b == <<h>> c == Cat(Tail(inPipe), Cat(inBuffer, Newest))
  <2>1. InHand' = << >>
    BY <1>1, <1>7, Messages DEF InHand
  <2>2. Answered' = Results
    BY <1>3, <1>4, <2>1, Laws, LineIsNext
  <2>3. /\ InFlight = Cat(Cat(Results, b), c) /\ c \in Seq(Message) /\ b \in Seq(Message)
        /\ Cat(Cat(Cat(Results, Tail(inPipe)), inBuffer), Newest) = Cat(Results, c)
    BY <1>1, <1>4, <1>5, HeadOut, LineIs
  <2>4. InFlight' = Cat(Results, c)
    BY <1>1, <1>3, <2>2, <2>3, LineIsNext
  <2>5. \A n \in Frame : ~In(n, b)
    BY <1>7, Messages DEF In
  <2>6. discarded \subseteq discarded' /\ lost \subseteq lost'
    BY <1>1
  <2> HIDE DEF b, c
  <2> QED BY <1>1, <1>4, <2>3, <2>4, <2>5, <2>6, LineDropped
<1> QED BY <1>4, <1>6, <1>7, Messages

(* A frame in hand becomes a result, or was a bad one.                       *)
LEMMA WorkerDetectLine == Line /\ IInv /\ IInv' /\ WorkerDetect => Line'
<1> SUFFICES ASSUME Line, IInv, IInv', WorkerDetect PROVE Line'
  OBVIOUS
<1> DEFINE a == Cat(polled, outPipe) b == <<hand>> c == Cat(inPipe, Cat(inBuffer, Newest))
<1>1. /\ UNCHANGED <<polled, outPipe, inBuffer, inPipe, caller>>
      /\ UNCHANGED <<submitted, discarded, lost, dropped>>
      /\ outBuffer' = IF hand \in BadFrames THEN outBuffer ELSE Append(outBuffer, hand)
      /\ InHand' = << >>
  BY Messages DEF WorkerDetect, queueVars, counterVars, InHand
<1>2. hand \in Frame /\ hand \in Message /\ InHand = <<hand>>
  BY Messages DEF IInv, HandOK, WorkerDetect, InHand
<1>3. /\ a \in Seq(Message) /\ outBuffer \in Seq(Message) /\ Results \in Seq(Message)
      /\ inPipe \in Seq(Message) /\ inBuffer \in Seq(Message) /\ Newest \in Seq(Message)
      /\ Answered \in Seq(Message)
  BY Parts DEF IInv
<1>4. Newest' = Newest
  BY <1>1 DEF Newest, InSubmit
<1>5. CASE hand \notin BadFrames
  <2>1. Answered' = Cat(Cat(a, Append(outBuffer, hand)), << >>)
    BY <1>1, <1>5, LineIsNext
  <2>2. Answered' = Answered
    BY <1>2, <1>3, <2>1, PutLast DEF Answered, Results
  <2>3. InFlight' = InFlight
    BY <1>1, <1>4, <2>2, LineIs, LineIsNext
  <2> QED BY <1>1, <2>3, LineMoved
<1>6. CASE hand \in BadFrames
  <2>1. Answered' = Results
    <3>1. Results' = Results
      BY <1>1, <1>6 DEF Results
    <3> QED BY <1>1, <1>3, <3>1, Laws, LineIsNext
  <2>2. InFlight = Cat(Cat(Results, b), c) /\ c \in Seq(Message)
    BY <1>2, <1>3, Regroup, LineIs DEF Answered
  <2>3. InFlight' = Cat(Results, c)
    <3>1. InFlight' = Cat(Cat(Cat(Results, inPipe), inBuffer), Newest)
      BY <1>1, <1>4, <2>1, LineIsNext
    <3> QED BY <1>3, <3>1, Regroup
  <2>4. b \in Seq(Message)
    BY <1>2, Laws
  <2>5. \A n \in Frame : In(n, b) => n \in BadFrames \cup discarded' \cup lost'
    BY <1>6 DEF In
  <2>6. discarded \subseteq discarded' /\ lost \subseteq lost'
    BY <1>1
  <2> HIDE DEF b, c
  <2> QED BY <1>1, <1>3, <2>2, <2>3, <2>4, <2>5, <2>6, LineDropped
<1> QED BY <1>5, <1>6

LEMMA InitLine == Init => Line
<1> SUFFICES ASSUME Init PROVE Line
  OBVIOUS
<1>1. /\ polled = << >> /\ outPipe = << >> /\ outBuffer = << >> /\ inPipe = << >>
      /\ inBuffer = << >> /\ submitted = 0 /\ lost = {} /\ dropped = 0
  BY DEF Init
<1>2. InHand = << >> /\ Newest = << >>
  BY Messages DEF Init, InHand, Newest, InSubmit
<1>3. Cat(<< >>, << >>) = << >>
  BY Laws
<1>4. InFlight = << >>
  BY <1>1, <1>2, <1>3, LineIs DEF Answered, Results
<1>5. DOMAIN << >> = {}
  OBVIOUS
<1> QED BY <1>1, <1>4, <1>5, FS_EmptySet DEF Line, InOrder, UpTo

LEMMA NextLine == Line /\ IInv /\ IInv' /\ [Next]_vars => Line'
<1> SUFFICES ASSUME Line, IInv, IInv', [Next]_vars PROVE Line'
  OBVIOUS
<1>1. CASE UNCHANGED vars
  <2>1. InFlight' = InFlight /\ UNCHANGED <<submitted, discarded, lost, dropped>>
    BY <1>1 DEF vars, queueVars, workerVars, counterVars, InFlight, InHand, Newest, InSubmit
  <2> QED BY <2>1, LineMoved
<1>2. CASE Start \/ Submit \/ SubmitStep \/ PollResults
  BY <1>2, StartLine, SubmitLine, SubmitEvictLine, SubmitRetryLine, PollResultsLine
     DEF SubmitStep
<1>3. CASE StopSignal \/ StopStep
  BY <1>3, StopSignalLine, StopEvictLine, StopRetryLine, IdleLine, StopTerminateLine
     DEF StopStep
<1>4. CASE Feed \/ WorkerStep \/ FeedOut
  BY <1>4, FeedLine, FeedOutLine, IdleLine, WorkerRecvLine, WorkerDetectLine DEF WorkerStep
<1> QED BY <1>1, <1>2, <1>3, <1>4 DEF Next

(* Every frame submitted is on its way, answered, or known to be lost to a   *)
(* bad detector call, a stop or a counted drop, and results come back once   *)
(* and in the order of submission (runner.py:40-130).                        *)
THEOREM EngineFramesAccounted == Spec => []FramesAccounted
<1>1. Spec => []Line
  BY EngineInvariant, InitLine, NextLine, PTL DEF Spec
<1>2. IInv /\ Line => FramesAccounted
  <2> SUFFICES ASSUME IInv, Line PROVE FramesAccounted
    OBVIOUS
  <2>1. TypeOK
    <3>1. dropped \in 0 .. 2 * submitted
      BY DEF IInv, MyType, DropsOK
    <3> QED BY <3>1 DEF IInv, MyType, TypeOK
  <2>2. ResultsInOrder
    BY DEF Line, InOrder, ResultsInOrder
  <2>3. NoSilentLoss
    BY DEF Line, NoSilentLoss, In, Range
  <2> QED BY <2>1, <2>2, <2>3 DEF FramesAccounted
<1> QED BY <1>1, <1>2, EngineInvariant, PTL

-----------------------------------------------------------------------------
(* The head stream.                                                          *)
Delays == {Smaller(Base * 2 ^ n, Cap) : n \in Nat}

(* The delays slept are one for each attempt, and one more while the call    *)
(* backs off or when it was cancelled there.                                 *)
RetryOK ==
    /\ attempt \in 0 .. MaxRetries
    /\ slept \in Seq(Delays)
    /\ \A k \in DOMAIN slept : slept[k] = Smaller(Base * 2 ^ (k - 1), Cap)
    /\ \/ Len(slept) = attempt /\ call # "backoff"
       \/ /\ Len(slept) = attempt + 1 /\ attempt < MaxRetries
          /\ call \in {"backoff", "cancelled"}
    /\ call = "raised" /\ exc = "retryable" => attempt = MaxRetries

(* Nothing is open before the client connects either, and a disconnect that  *)
(* was cut short is the last thing a call does.                              *)
Released == socket = FALSE /\ w3 = FALSE /\ subs = {}
ReleaseOK == /\ cut \in BOOLEAN
             /\ call \in Over \cup {"backoff", "connecting"} /\ cut = FALSE => Released
             /\ cut = TRUE => call = "cancelled"

CallInv == RetryOK /\ ReleaseOK

-----------------------------------------------------------------------------
(* What auto_reconnect does with the exception e of a session keeps the      *)
(* account of the delays.                                                    *)
LEMMA AfterKeeps ==
    ASSUME HeadStreamAssumption, RetryOK, NEW e, After(e),
           call \notin {"backoff", "cancelled"},
           attempt' = attempt, e = exc'
    PROVE  RetryOK'
<1>1. attempt \in Nat /\ MaxRetries \in Nat /\ Len(slept) = attempt
    BY DEF RetryOK, HeadStreamAssumption
<1>2. CASE e = "retryable" /\ attempt < MaxRetries
    <2>1. /\ call' = "backoff"
          /\ slept' = Append(slept, Smaller(Base * 2 ^ attempt, Cap))
        BY <1>2 DEF After
    <2>2. Smaller(Base * 2 ^ attempt, Cap) \in Delays
        BY <1>1 DEF Delays
    <2>3. /\ slept' \in Seq(Delays) /\ Len(slept') = attempt + 1
          /\ slept'[attempt + 1] = Smaller(Base * 2 ^ attempt, Cap)
          /\ \A k \in 1 .. attempt : slept'[k] = slept[k]
        BY <1>1, <2>1, <2>2 DEF RetryOK
    <2>4. ASSUME NEW k \in DOMAIN slept'
          PROVE  slept'[k] = Smaller(Base * 2 ^ (k - 1), Cap)
        <3>1. k \in 1 .. attempt + 1
            BY <2>3
        <3>2. CASE k = attempt + 1
            <4>1. k - 1 = attempt
                BY <1>1, <3>2
            <4>2. QED
                BY <2>3, <3>2, <4>1
        <3>3. CASE k \in 1 .. attempt
            <4>1. k \in DOMAIN slept
                BY <1>1, <3>3 DEF RetryOK
            <4>2. QED
                BY <2>3, <3>3, <4>1 DEF RetryOK
        <3>4. QED
            BY <1>1, <3>1, <3>2, <3>3
    <2>5. QED
        BY <1>1, <1>2, <2>1, <2>3, <2>4 DEF RetryOK
<1>3. CASE ~(e = "retryable" /\ attempt < MaxRetries)
    <2>1. /\ slept' = slept
          /\ call' \in {"returned", "cancelled", "raised"}
        BY <1>3 DEF After
    <2>2. call' = "raised" /\ exc' = "retryable" => attempt = MaxRetries
        BY <1>1, <1>3, <2>1 DEF After, RetryOK
    <2>3. QED
        BY <1>1, <2>1, <2>2 DEF RetryOK
<1>4. QED
    BY <1>2, <1>3

(* A step that leaves the account alone and does not move the call into the  *)
(* back-off or out of it keeps it.                                           *)
LEMMA RetrySame ==
    ASSUME RetryOK, UNCHANGED retry,
           \/ call' = call /\ exc' = exc
           \/ /\ call \notin {"backoff", "cancelled"}
              /\ call' \notin {"backoff", "raised"}
    PROVE  RetryOK'
BY DEF RetryOK, retry

LEMMA RetryStep ==
    ASSUME HeadStreamAssumption, RetryOK, [StreamNext]_streamVars PROVE RetryOK'
<1>1. CASE Retry
    <2>1. /\ call = "backoff" /\ call' = "connecting"
          /\ attempt' = attempt + 1 /\ slept' = slept
        BY <1>1 DEF Retry
    <2>2. MaxRetries \in Nat
        BY DEF HeadStreamAssumption
    <2>3. QED
        BY <2>1, <2>2 DEF RetryOK
<1>2. CASE Enter \/ Subscribe \/ SessionFails \/ Unsubscribe \/ Break
           \/ SessionRaises \/ ReadMalformed
    BY <1>2, RetrySame DEF Enter, Subscribe, SessionFails, Unsubscribe, Break, SessionRaises,
       ReadMalformed, retry
<1>3. CASE Read \/ Finalizer \/ NewHead \/ Drop \/ UNCHANGED streamVars
    <2>1. call' = call /\ exc' = exc /\ retry' = retry
        <3>1. CASE Read \/ NewHead \/ Drop
            BY <3>1 DEF Read, NewHead, Drop, retry
        <3>2. CASE Finalizer
            BY <3>2 DEF Finalizer, Finalize, retry
        <3>3. CASE UNCHANGED streamVars
            BY <3>3 DEF streamVars, retry
        <3>4. QED
            BY <1>3, <3>1, <3>2, <3>3
    <2>2. QED
        BY <2>1, RetrySame DEF retry
<1>4. CASE EnterFails
    BY <1>4, AfterKeeps DEF EnterFails
<1>5. CASE Disconnect
    BY <1>5, AfterKeeps DEF Disconnect
<1>6. CASE Cancel
    <2>1. UNCHANGED retry /\ call \notin Over /\ exc' = "cancel"
        BY <1>6 DEF Cancel
    <2>2. call' \in {"unsubscribing", "disconnecting", "cancelled"}
        BY <1>6 DEF Cancel
    <2>3. call = "backoff" => call' = "cancelled"
        BY <1>6 DEF Cancel
    <2>4. QED
        BY <2>1, <2>2, <2>3 DEF RetryOK, retry, Over
<1>7. QED
    BY <1>1, <1>2, <1>3, <1>4, <1>5, <1>6 DEF StreamNext, Session

-----------------------------------------------------------------------------
(* The end of a session, and a connection that failed, leave nothing open.   *)
LEMMA ReleaseStep ==
    ASSUME ReleaseOK, [StreamNext]_streamVars PROVE ReleaseOK'
<1>1. CASE Retry
    BY <1>1 DEF Retry, ReleaseOK, Released, Over, conn
<1>2. CASE Enter \/ Subscribe \/ SessionFails \/ Unsubscribe \/ Break
           \/ SessionRaises \/ ReadMalformed
    BY <1>2 DEF Enter, Subscribe, SessionFails, Unsubscribe, Break, SessionRaises,
       ReadMalformed, ReleaseOK, Over
<1>3. CASE Read
    BY <1>3 DEF Read, ReleaseOK, Released, Over
<1>4. CASE EnterFails
    BY <1>4 DEF EnterFails, After, ReleaseOK, Released, Over, conn
<1>5. CASE Disconnect
    BY <1>5 DEF Disconnect, After, ReleaseOK, Released, Over
<1>6. CASE Cancel
    <2>1. CASE call = "disconnecting"
        BY <1>6, <2>1 DEF Cancel, ReleaseOK
    <2>2. CASE call \in {"connecting", "backoff"}
        BY <1>6, <2>2 DEF Cancel, ReleaseOK, Released, Over, conn
    <2>3. CASE call \notin {"disconnecting", "connecting", "backoff"}
        BY <1>6, <2>3 DEF Cancel, ReleaseOK, Over
    <2>4. QED
        BY <2>1, <2>2, <2>3
<1>7. CASE Finalizer \/ NewHead \/ Drop \/ UNCHANGED streamVars
    BY <1>7 DEF Finalizer, Finalize, NewHead, Drop, streamVars, conn, ReleaseOK, Released
<1>8. QED
    BY <1>1, <1>2, <1>3, <1>4, <1>5, <1>6, <1>7 DEF StreamNext, Session

-----------------------------------------------------------------------------
(* The inductive invariant of a retried session.                             *)
THEOREM HeadStreamInvariant == StreamSpec => []CallInv
<1>1. StreamInit => CallInv
    <2>1. << >> \in Seq(Delays) /\ Len(<< >>) = 0 /\ DOMAIN << >> = {}
        OBVIOUS
    <2>2. 0 \in 0 .. MaxRetries
        BY HeadStreamAssumption DEF HeadStreamAssumption
    <2>3. StreamInit => RetryOK
        BY <2>1, <2>2 DEF StreamInit, RetryOK
    <2>4. StreamInit => ReleaseOK
        BY DEF StreamInit, ReleaseOK, Released
    <2>5. QED
        BY <2>3, <2>4 DEF CallInv
<1>2. CallInv /\ [StreamNext]_streamVars => CallInv'
    BY HeadStreamAssumption, RetryStep, ReleaseStep DEF CallInv
<1>3. QED
    BY <1>1, <1>2, PTL DEF StreamSpec

(* A call that is over or backs off has closed its socket and unset w3,      *)
(* unless it was cancelled inside its disconnect, and has slept at most      *)
(* MaxRetries delays, each twice the last up to the cap (client.py:34-47,    *)
(* reconnect.py:36-57).                                                      *)
THEOREM HeadStreamCallsEndClean == StreamSpec => []CallsEndClean
<1>1. CallInv => SocketReleased
    BY DEF CallInv, ReleaseOK, Released, SocketReleased
<1>2. CallInv => RetriesBounded
    <2>1. ASSUME RetryOK PROVE Len(slept) <= MaxRetries
        BY <2>1, HeadStreamAssumption DEF RetryOK, HeadStreamAssumption
    <2>2. QED
        BY <2>1 DEF CallInv, RetryOK, RetriesBounded
<1>3. QED
    BY <1>1, <1>2, HeadStreamInvariant, PTL DEF CallsEndClean

-----------------------------------------------------------------------------
(* The heads of the stream being read: those that are on the socket come in  *)
(* order, follow the last one yielded, and lack none of the node's.          *)
Mine(i) == arrived[i][1] = sub
ToCome(h) == \E j \in DOMAIN arrived : arrived[j] = <<sub, h>>

StreamTypes ==
    /\ nextId \in Nat \ {0} /\ head \in Nat
    /\ subs \subseteq 1 .. nextId - 1 /\ closing \subseteq 1 .. nextId - 1
    /\ got \in Seq(Nat) /\ arrived \in Seq(Nat \X Nat)
    /\ \A i \in DOMAIN arrived : arrived[i][1] < nextId /\ arrived[i][2] <= head

Ordered ==
    \A i, j \in DOMAIN arrived : i < j /\ Mine(i) /\ Mine(j) => arrived[i][2] < arrived[j][2]
Unbroken ==
    \A i \in DOMAIN arrived : Mine(i) => \A h \in arrived[i][2] + 1 .. head : ToCome(h)
Yielded(last) == got # << >> /\ got[Len(got)] = last
Follows(last) ==
    /\ last <= head
    /\ \A i \in DOMAIN arrived : Mine(i) => last < arrived[i][2]
    /\ sub \in subs => \A h \in last + 1 .. head : ToCome(h)

(* The subscription is up, or nothing of it is left on the socket.           *)
StreamOK ==
    /\ sub \in 1 .. nextId - 1 /\ sub \notin closing
    /\ sub \in subs \/ \A i \in DOMAIN arrived : ~Mine(i)
    /\ Ordered /\ Unbroken
    /\ \A last \in Nat : Yielded(last) => Follows(last)

StreamInv == StreamTypes /\ (call = "reading" => StreamOK) /\ HeadsOnceInOrder

(* Read takes the first message off the socket.                              *)
LEMMA InboxTail ==
    ASSUME arrived \in Seq(Nat \X Nat), arrived # << >>, arrived' = Tail(arrived), sub' = sub
    PROVE  /\ arrived' \in Seq(Nat \X Nat)
           /\ Len(arrived) \in Nat /\ Len(arrived') = Len(arrived) - 1
           /\ DOMAIN arrived = 1 .. Len(arrived) /\ DOMAIN arrived' = 1 .. Len(arrived')
           /\ \A i \in DOMAIN arrived' : i + 1 \in DOMAIN arrived /\ arrived'[i] = arrived[i + 1]
           /\ \A j \in DOMAIN arrived :
                 j # 1 => j - 1 \in DOMAIN arrived' /\ arrived'[j - 1] = arrived[j]
           /\ \A i \in DOMAIN arrived : arrived[i][1] \in Nat /\ arrived[i][2] \in Nat
           /\ 1 \in DOMAIN arrived
<1>1. PICK size \in Nat \ {0} : size = Len(arrived)
    OBVIOUS
<1>2. arrived' \in Seq(Nat \X Nat) /\ Len(arrived') = size - 1
    BY <1>1
<1>3. DOMAIN arrived = 1 .. size /\ DOMAIN arrived' = 1 .. size - 1
    BY <1>1, <1>2
<1>4. ASSUME NEW i \in 1 .. size - 1
      PROVE  i + 1 \in 1 .. size /\ arrived'[i] = arrived[i + 1]
    <2>1. i + 1 \in 1 .. size
        OBVIOUS
    <2>2. arrived'[i] = arrived[i + 1]
        BY <1>1
    <2>3. QED
        BY <2>1, <2>2
<1>5. ASSUME NEW j \in 1 .. size, j # 1
      PROVE  j - 1 \in 1 .. size - 1 /\ arrived'[j - 1] = arrived[j]
    <2>1. j - 1 \in 1 .. size - 1 /\ j - 1 + 1 = j
        BY <1>5
    <2>2. QED
        BY <1>4, <2>1
<1>6. \A i \in 1 .. size : arrived[i] \in Nat \X Nat
    BY <1>1
<1>7. 1 \in 1 .. size
    OBVIOUS
<1>8. QED
    BY <1>1, <1>2, <1>3, <1>4, <1>5, <1>6, <1>7

LEMMA ReadKeeps == ASSUME StreamInv, Read PROVE StreamInv'
<1>1. /\ call = "reading" /\ call' = "reading" /\ arrived # << >> /\ arrived' = Tail(arrived)
      /\ got' = IF arrived[1][1] = sub THEN Append(got, arrived[1][2]) ELSE got
      /\ subs' = subs /\ sub' = sub /\ closing' = closing /\ head' = head
      /\ nextId' = nextId
    BY DEF Read
<1>2. StreamTypes /\ StreamOK /\ HeadsOnceInOrder
    BY <1>1 DEF StreamInv
<1>3. arrived \in Seq(Nat \X Nat) /\ got \in Seq(Nat) /\ head \in Nat /\ nextId \in Nat
    BY <1>2 DEF StreamTypes
<1>4. /\ arrived' \in Seq(Nat \X Nat)
      /\ \A i \in DOMAIN arrived' : i + 1 \in DOMAIN arrived /\ arrived'[i] = arrived[i + 1]
      /\ \A j \in DOMAIN arrived :
            j # 1 => j - 1 \in DOMAIN arrived' /\ arrived'[j - 1] = arrived[j]
      /\ \A i \in DOMAIN arrived : arrived[i][1] \in Nat /\ arrived[i][2] \in Nat
      /\ 1 \in DOMAIN arrived
    BY <1>1, <1>3, InboxTail
<1>5. DOMAIN arrived \subseteq Nat /\ \A j \in DOMAIN arrived : 1 <= j
    BY <1>3
<1>6. Ordered /\ Unbroken /\ \A last \in Nat : Yielded(last) => Follows(last)
    BY <1>2 DEF StreamOK
<1>7. \A i \in DOMAIN arrived' : Mine(i)' <=> Mine(i + 1)
    BY <1>1, <1>4 DEF Mine
<1>8. Ordered'
    <2>1. ASSUME NEW i \in DOMAIN arrived', NEW j \in DOMAIN arrived', i < j,
                 Mine(i)', Mine(j)'
          PROVE  arrived'[i][2] < arrived'[j][2]
        <3>1. i + 1 < j + 1
            BY <1>3, <1>4, <2>1
        <3>2. arrived[i + 1][2] < arrived[j + 1][2]
            BY <1>4, <1>6, <1>7, <2>1, <3>1 DEF Ordered
        <3>3. QED
            BY <1>4, <3>2
    <2>2. QED
        BY <2>1 DEF Ordered
<1>9. ASSUME NEW h, ToCome(h), arrived[1] # <<sub, h>>
      PROVE  ToCome(h)'
    <2>1. PICK j \in DOMAIN arrived : arrived[j] = <<sub, h>>
        BY <1>9 DEF ToCome
    <2>2. j - 1 \in DOMAIN arrived' /\ arrived'[j - 1] = arrived[j]
        BY <1>4, <1>9, <2>1
    <2>3. QED
        BY <1>1, <2>1, <2>2 DEF ToCome
<1>10. Unbroken'
    <2>1. ASSUME NEW i \in DOMAIN arrived', Mine(i)', NEW h \in arrived'[i][2] + 1 .. head'
          PROVE  ToCome(h)'
        <3>1. i + 1 \in DOMAIN arrived /\ Mine(i + 1) /\ h \in arrived[i + 1][2] + 1 .. head
            BY <1>1, <1>4, <1>7, <2>1
        <3>2. ToCome(h)
            BY <1>6, <3>1 DEF Unbroken
        <3>3. ASSUME arrived[1] = <<sub, h>>
              PROVE  FALSE
            <4>1. Mine(1) /\ arrived[1][2] = h /\ 1 < i + 1
                BY <1>4, <1>5, <3>3 DEF Mine
            <4>2. h < arrived[i + 1][2]
                BY <1>4, <1>6, <3>1, <4>1 DEF Ordered
            <4>3. QED
                BY <1>4, <3>1, <4>2
        <3>4. QED
            BY <1>9, <3>2, <3>3
    <2>2. QED
        BY <2>1 DEF Unbroken
<1>11. sub \in subs \/ \A i \in DOMAIN arrived' : ~Mine(i)'
    BY <1>2, <1>4, <1>7 DEF StreamOK
<1>12. /\ got' \in Seq(Nat) /\ HeadsOnceInOrder'
       /\ \A last \in Nat : Yielded(last)' => Follows(last)'
    <2>1. CASE ~Mine(1)
        <3>1. got' = got
            BY <1>1, <2>1 DEF Mine
        <3>2. ASSUME NEW last \in Nat, Follows(last)
              PROVE  Follows(last)'
            <4>1. \A i \in DOMAIN arrived' : Mine(i)' => last < arrived'[i][2]
                BY <1>4, <1>7, <3>2 DEF Follows
            <4>2. \A h : arrived[1] # <<sub, h>>
                BY <2>1 DEF Mine
            <4>3. QED
                BY <1>1, <1>9, <3>2, <4>1, <4>2 DEF Follows
        <3>3. HeadsOnceInOrder'
            BY <1>2, <3>1 DEF HeadsOnceInOrder
        <3>4. \A last \in Nat : Yielded(last)' => Yielded(last)
            BY <3>1 DEF Yielded
        <3>5. QED
            BY <1>3, <1>6, <3>1, <3>2, <3>3, <3>4
    <2>2. CASE Mine(1)
        <3>1. PICK last \in Nat : last = arrived[1][2]
            BY <1>4
        <3>2. got' = Append(got, last)
            BY <1>1, <2>2, <3>1 DEF Mine
        <3>3. /\ got' \in Seq(Nat) /\ Len(got) \in Nat /\ Len(got') = Len(got) + 1
              /\ got'[Len(got) + 1] = last
              /\ \A i \in 1 .. Len(got) : got'[i] = got[i] /\ got[i] \in Nat
            BY <1>3, <3>2
        <3>4. last <= head /\ sub \in subs
            BY <1>2, <1>4, <2>2, <3>1 DEF StreamTypes, StreamOK
        <3>5. got # << >> => last = got[Len(got)] + 1
            <4>1. SUFFICES ASSUME got # << >>
                           PROVE  last = got[Len(got)] + 1
                OBVIOUS
            <4>2. PICK g \in Nat : g = got[Len(got)] /\ Yielded(g)
                BY <1>3, <4>1 DEF Yielded
            <4>3. g < last /\ \A h \in g + 1 .. head : ToCome(h)
                BY <1>4, <1>6, <2>2, <3>1, <3>4, <4>1, <4>2 DEF Follows
            <4>4. ToCome(g + 1)
                BY <1>3, <3>4, <4>3
            <4>5. PICK j \in DOMAIN arrived : arrived[j] = <<sub, g + 1>>
                BY <4>4 DEF ToCome
            <4>6. CASE j = 1
                BY <3>1, <4>2, <4>5, <4>6
            <4>7. CASE j # 1
                <5>1. 1 < j /\ Mine(j) /\ arrived[j][2] = g + 1
                    BY <1>5, <4>5, <4>7 DEF Mine
                <5>2. last < g + 1
                    BY <1>4, <1>6, <2>2, <3>1, <5>1 DEF Ordered
                <5>3. QED
                    BY <4>3, <5>2
            <4>8. QED
                BY <4>6, <4>7
        <3>6. HeadsOnceInOrder'
            <4>1. ASSUME NEW i \in 1 .. Len(got') - 1
                  PROVE  got'[i + 1] = got'[i] + 1
                <5>1. CASE i = Len(got)
                    <6>1. got # << >>
                        BY <5>1
                    <6>2. QED
                        BY <3>3, <3>5, <5>1, <6>1
                <5>2. CASE i # Len(got)
                    <6>1. i \in 1 .. Len(got) - 1 /\ i + 1 \in 1 .. Len(got)
                        BY <3>3, <5>2
                    <6>2. got[i + 1] = got[i] + 1
                        BY <1>2, <6>1 DEF HeadsOnceInOrder
                    <6>3. QED
                        BY <3>3, <6>1, <6>2
                <5>3. QED
                    BY <5>1, <5>2
            <4>2. QED
                BY <4>1 DEF HeadsOnceInOrder
        <3>7. Follows(last)'
            <4>1. ASSUME NEW i \in DOMAIN arrived', Mine(i)'
                  PROVE  last < arrived'[i][2]
                <5>1. i + 1 \in DOMAIN arrived /\ Mine(i + 1) /\ 1 < i + 1
                    BY <1>4, <1>7, <4>1
                <5>2. QED
                    BY <1>4, <1>6, <2>2, <3>1, <5>1 DEF Ordered
            <4>2. ASSUME NEW h \in last + 1 .. head
                  PROVE  ToCome(h)'
                <5>1. ToCome(h)
                    BY <1>4, <1>6, <2>2, <3>1 DEF Unbroken
                <5>2. arrived[1] # <<sub, h>>
                    BY <3>1
                <5>3. QED
                    BY <1>9, <5>1, <5>2
            <4>3. QED
                BY <1>1, <3>4, <4>1, <4>2 DEF Follows
        <3>8. \A g \in Nat : Yielded(g)' => g = last
            BY <3>3 DEF Yielded
        <3>9. QED
            BY <3>3, <3>6, <3>7, <3>8
    <2>3. QED
        BY <2>1, <2>2
<1>13. StreamTypes'
    BY <1>1, <1>2, <1>4, <1>12 DEF StreamTypes
<1>14. QED
    <2>1. /\ sub' \in 1 .. nextId' - 1 /\ sub' \notin closing'
          /\ sub' \in subs' \/ \A i \in DOMAIN arrived' : ~Mine(i)'
        BY <1>1, <1>2, <1>11 DEF StreamOK
    <2>2. StreamOK'
        BY <1>8, <1>10, <1>12, <2>1 DEF StreamOK
    <2>3. QED
        BY <1>12, <1>13, <2>2 DEF StreamInv

(* The node sends the new head to every subscription: the injective order is *)
(* also onto.                                                                *)
LEMMA EverySubscription ==
    ASSUME NEW S, IsFiniteSet(S), NEW order \in [1 .. Cardinality(S) -> S],
           \A i, j \in DOMAIN order : order[i] = order[j] => i = j
    PROVE  /\ Cardinality(S) \in Nat
           /\ \A s \in S : \E k \in 1 .. Cardinality(S) : order[k] = s
<1>1. Cardinality(S) \in Nat
    BY FS_CardinalityType
<1>2. Cardinality(1 .. Cardinality(S)) = Cardinality(S)
    BY <1>1, FS_Interval
<1>3. order \in Injection(1 .. Cardinality(S), S)
    BY DEF Injection, IsInjective
<1>4. order \in Surjection(1 .. Cardinality(S), S)
    BY <1>2, <1>3, FS_Injection
<1>5. QED
    BY <1>1, <1>4 DEF Surjection

LEMMA NewHeadKeeps == ASSUME StreamInv, NewHead PROVE StreamInv'
<1>1. /\ call' = call /\ head' = head + 1 /\ subs' = subs /\ sub' = sub
      /\ closing' = closing /\ got' = got /\ nextId' = nextId
    BY DEF NewHead
<1>2. StreamTypes
    BY DEF StreamInv
<1>3. /\ arrived \in Seq(Nat \X Nat) /\ got \in Seq(Nat)
      /\ head \in Nat /\ nextId \in Nat
    BY <1>2 DEF StreamTypes
<1>4. IsFiniteSet(subs)
    <2>1. IsFiniteSet(1 .. nextId - 1)
        BY <1>3, FS_Interval
    <2>2. QED
        BY <1>2, <2>1, FS_Subset DEF StreamTypes
<1>5. PICK order \in [1 .. Cardinality(subs) -> subs] :
         /\ \A i, j \in DOMAIN order : order[i] = order[j] => i = j
         /\ arrived' = arrived \o [i \in DOMAIN order |-> <<order[i], head + 1>>]
    BY DEF NewHead
<1>6. PICK count \in Nat : count = Cardinality(subs)
    BY <1>4, FS_CardinalityType
<1>7. /\ \A i, j \in 1 .. count : order[i] = order[j] => i = j
      /\ \A s \in subs : \E k \in 1 .. count : order[k] = s
      /\ \A i \in 1 .. count : order[i] \in subs
    <2>1. \A s \in subs : \E k \in 1 .. Cardinality(subs) : order[k] = s
        BY <1>4, <1>5, EverySubscription
    <2>2. DOMAIN order = 1 .. count /\ \A i \in 1 .. count : order[i] \in subs
        BY <1>6
    <2>3. QED
        BY <1>5, <1>6, <2>1, <2>2
<1>8. PICK news : news = [i \in 1 .. count |-> <<order[i], head + 1>>]
    OBVIOUS
<1>9. /\ news \in Seq(Nat \X Nat) /\ Len(news) = count
      /\ \A i \in 1 .. count : news[i] = <<order[i], head + 1>>
    <2>1. subs \subseteq Nat /\ head + 1 \in Nat
        BY <1>2, <1>3 DEF StreamTypes
    <2>2. \A i \in 1 .. count : <<order[i], head + 1>> \in Nat \X Nat
        BY <1>7, <2>1
    <2>3. QED
        BY <1>8, <2>2
<1>10. arrived' = arrived \o news
    BY <1>5, <1>6, <1>8
<1>11. PICK size \in Nat : size = Len(arrived) /\ DOMAIN arrived = 1 .. size
    BY <1>3
<1>12. /\ arrived' \in Seq(Nat \X Nat) /\ DOMAIN arrived' = 1 .. size + count
       /\ \A i \in 1 .. size : arrived'[i] = arrived[i]
       /\ \A i \in size + 1 .. size + count : arrived'[i] = news[i - size]
    <2>1. arrived' \in Seq(Nat \X Nat) /\ Len(arrived') = size + count
        <3>1. arrived \in Seq(Nat \X Nat) /\ news \in Seq(Nat \X Nat)
            BY <1>3, <1>9
        <3>2. arrived \o news \in Seq(Nat \X Nat)
            BY <3>1
        <3>3. Len(arrived \o news) = Len(arrived) + Len(news)
            BY <3>1
        <3>4. QED
            BY <1>9, <1>10, <1>11, <3>2, <3>3
    <2>2. \A i \in 1 .. size : arrived'[i] = arrived[i]
        BY <1>3, <1>9, <1>10, <1>11
    <2>3. ASSUME NEW i \in size + 1 .. size + count
          PROVE  arrived'[i] = news[i - size]
        <3>1. i > Len(arrived) /\ i <= Len(arrived) + Len(news)
            BY <1>9, <1>11
        <3>2. QED
            BY <1>3, <1>9, <1>10, <1>11, <3>1
    <2>4. DOMAIN arrived' = 1 .. size + count
        BY <2>1
    <2>5. QED
        BY <2>1, <2>2, <2>3, <2>4
<1>13. \A i \in size + 1 .. size + count :
          i - size \in 1 .. count /\ arrived'[i] = <<order[i - size], head + 1>>
    <2>1. \A i \in size + 1 .. size + count : i - size \in 1 .. count
        OBVIOUS
    <2>2. QED
        BY <1>9, <1>12, <2>1
<1>14. \A i \in 1 .. size :
          arrived[i][1] < nextId /\ arrived[i][2] <= head /\ arrived[i][2] \in Nat
    <2>1. \A i \in 1 .. size : arrived[i] \in Nat \X Nat
        BY <1>3, <1>11
    <2>2. \A i \in 1 .. size : arrived[i][1] < nextId /\ arrived[i][2] <= head
        BY <1>2, <1>11 DEF StreamTypes
    <2>3. QED
        BY <2>1, <2>2
<1>15. StreamTypes'
    <2>1. ASSUME NEW i \in DOMAIN arrived'
          PROVE  arrived'[i][1] < nextId' /\ arrived'[i][2] <= head'
        <3>1. CASE i \in 1 .. size
            <4>1. arrived'[i] = arrived[i] /\ arrived[i][1] < nextId /\ arrived[i][2] <= head
                BY <1>12, <1>14, <3>1
            <4>2. arrived[i][2] <= head + 1
                BY <1>3, <1>14, <3>1
            <4>3. QED
                BY <1>1, <4>1, <4>2
        <3>2. CASE i \in size + 1 .. size + count
            <4>1. order[i - size] \in subs /\ arrived'[i] = <<order[i - size], head + 1>>
                BY <1>7, <1>13, <3>2
            <4>2. order[i - size] < nextId
                <5>1. \A s \in 1 .. nextId - 1 : s < nextId
                    BY <1>3
                <5>2. QED
                    BY <1>2, <4>1, <5>1 DEF StreamTypes
            <4>3. QED
                BY <1>1, <1>3, <4>1, <4>2
        <3>3. QED
            BY <1>12, <3>1, <3>2
    <2>2. QED
        BY <1>1, <1>2, <1>3, <1>12, <2>1 DEF StreamTypes
<1>16. HeadsOnceInOrder'
    BY <1>1 DEF StreamInv, HeadsOnceInOrder
<1>17. ASSUME call = "reading"
       PROVE  StreamOK'
    <2>1. /\ StreamOK /\ Ordered /\ Unbroken
          /\ \A last \in Nat : Yielded(last) => Follows(last)
        BY <1>17 DEF StreamInv, StreamOK
    <2>2. \A i \in 1 .. size : Mine(i)' <=> Mine(i)
        BY <1>1, <1>12 DEF Mine
    <2>3. \A i \in size + 1 .. size + count :
             Mine(i)' => sub \in subs /\ sub = order[i - size]
        BY <1>1, <1>7, <1>13 DEF Mine
    <2>4. \A i \in 1 .. size : Mine(i) => sub \in subs
        BY <1>11, <2>1 DEF StreamOK
    <2>5. sub' \in subs' \/ \A i \in DOMAIN arrived' : ~Mine(i)'
        BY <1>1, <1>12, <2>2, <2>3, <2>4
    <2>6. ASSUME sub \in subs, NEW h, h = head + 1
          PROVE  ToCome(h)'
        <3>1. PICK k \in 1 .. count : order[k] = sub
            BY <1>7, <2>6
        <3>2. size + k \in size + 1 .. size + count /\ size + k - size = k
            OBVIOUS
        <3>3. size + k \in DOMAIN arrived'
            BY <1>12, <3>2
        <3>4. arrived'[size + k] = <<sub, h>>
            BY <1>13, <2>6, <3>1, <3>2
        <3>5. QED
            BY <1>1, <3>3, <3>4 DEF ToCome
    <2>7. ASSUME NEW h, ToCome(h)
          PROVE  ToCome(h)'
        <3>1. PICK j \in 1 .. size : arrived[j] = <<sub, h>>
            BY <1>11, <2>7 DEF ToCome
        <3>2. j \in DOMAIN arrived' /\ arrived'[j] = <<sub, h>>
            BY <1>12, <3>1
        <3>3. QED
            BY <1>1, <3>2 DEF ToCome
    <2>8. Ordered'
        <3>1. ASSUME NEW i \in DOMAIN arrived', NEW j \in DOMAIN arrived', i < j,
                     Mine(i)', Mine(j)'
              PROVE  arrived'[i][2] < arrived'[j][2]
            <4>1. CASE j \in 1 .. size
                <5>1. i \in 1 .. size
                    BY <1>12, <3>1, <4>1
                <5>2. QED
                    BY <1>11, <1>12, <2>1, <2>2, <3>1, <4>1, <5>1 DEF Ordered
            <4>2. CASE j \in size + 1 .. size + count /\ i \in 1 .. size
                <5>1. arrived'[i] = arrived[i] /\ arrived[i][2] <= head /\ arrived[i][2] \in Nat
                    BY <1>12, <1>14, <4>2
                <5>2. arrived'[j][2] = head + 1
                    BY <1>13, <4>2
                <5>3. QED
                    BY <1>3, <5>1, <5>2
            <4>3. CASE j \in size + 1 .. size + count /\ i \in size + 1 .. size + count
                <5>1. order[i - size] = order[j - size]
                    BY <2>3, <3>1, <4>3
                <5>2. i - size = j - size
                    BY <1>7, <1>13, <4>3, <5>1
                <5>3. QED
                    BY <3>1, <4>3, <5>2
            <4>4. \A k \in DOMAIN arrived' : k \in 1 .. size \/ k \in size + 1 .. size + count
                BY <1>12
            <4>5. i \in size + 1 .. size + count => j \notin 1 .. size
                BY <3>1
            <4>6. QED
                BY <3>1, <4>1, <4>2, <4>3, <4>4, <4>5
        <3>2. QED
            BY <3>1 DEF Ordered
    <2>9. Unbroken'
        <3>1. ASSUME NEW i \in DOMAIN arrived', Mine(i)', NEW h \in arrived'[i][2] + 1 .. head'
              PROVE  ToCome(h)'
            <4>1. CASE i \in 1 .. size
                <5>1. CASE h = head + 1
                    <6>1. sub \in subs
                        BY <2>2, <2>4, <3>1, <4>1
                    <6>2. QED
                        BY <2>6, <5>1, <6>1
                <5>2. CASE h # head + 1
                    <6>1. h \in arrived[i][2] + 1 .. head
                        <7>1. arrived'[i] = arrived[i] /\ arrived[i][2] \in Nat
                            BY <1>12, <1>14, <4>1
                        <7>2. h \in arrived[i][2] + 1 .. head + 1
                            BY <1>1, <3>1, <7>1
                        <7>3. QED
                            BY <1>3, <5>2, <7>1, <7>2
                    <6>2. ToCome(h)
                        BY <1>11, <2>1, <2>2, <3>1, <4>1, <6>1 DEF Unbroken
                    <6>3. QED
                        BY <2>7, <6>2
                <5>3. QED
                    BY <5>1, <5>2
            <4>2. CASE i \in size + 1 .. size + count
                <5>1. arrived'[i][2] = head + 1
                    BY <1>13, <4>2
                <5>2. QED
                    BY <1>1, <1>3, <3>1, <5>1
            <4>3. QED
                BY <1>12, <3>1, <4>1, <4>2
        <3>2. QED
            BY <3>1 DEF Unbroken
    <2>10. ASSUME NEW last \in Nat, Yielded(last)'
           PROVE  Follows(last)'
        <3>1. Follows(last)
            BY <1>1, <2>1, <2>10 DEF Yielded
        <3>2. last <= head'
            BY <1>1, <1>3, <3>1 DEF Follows
        <3>3. ASSUME NEW i \in DOMAIN arrived', Mine(i)'
              PROVE  last < arrived'[i][2]
            <4>1. CASE i \in 1 .. size
                BY <1>11, <1>12, <2>2, <3>1, <3>3, <4>1 DEF Follows
            <4>2. CASE i \in size + 1 .. size + count
                BY <1>3, <1>13, <3>1, <4>2 DEF Follows
            <4>3. QED
                BY <1>12, <3>3, <4>1, <4>2
        <3>4. ASSUME sub \in subs, NEW h \in last + 1 .. head'
              PROVE  ToCome(h)'
            <4>1. CASE h = head + 1
                BY <2>6, <3>4, <4>1
            <4>2. CASE h # head + 1
                <5>1. h \in last + 1 .. head
                    BY <1>1, <1>3, <3>4, <4>2
                <5>2. QED
                    BY <2>7, <3>1, <3>4, <5>1 DEF Follows
            <4>3. QED
                BY <4>1, <4>2
        <3>5. QED
            BY <1>1, <3>2, <3>3, <3>4 DEF Follows
    <2>11. sub' \in 1 .. nextId' - 1 /\ sub' \notin closing'
        BY <1>1, <2>1 DEF StreamOK
    <2>12. QED
        BY <2>5, <2>8, <2>9, <2>10, <2>11 DEF StreamOK
<1>18. QED
    BY <1>1, <1>15, <1>16, <1>17 DEF StreamInv

(* A stream starts with nothing of its own on the socket.                    *)
LEMMA SubscribeKeeps == ASSUME StreamInv, Subscribe PROVE StreamInv'
<1>1. /\ sub' = nextId /\ nextId' = nextId + 1 /\ subs' = subs \cup {nextId}
      /\ got' = << >> /\ arrived' = arrived /\ closing' = closing /\ head' = head
    BY DEF Subscribe
<1>2. StreamTypes
    BY DEF StreamInv
<1>3. StreamTypes'
    <2>1. nextId \in Nat /\ 1 .. nextId - 1 \subseteq 1 .. nextId /\ nextId \in 1 .. nextId
        BY <1>2 DEF StreamTypes
    <2>2. subs' \subseteq 1 .. nextId' - 1 /\ closing' \subseteq 1 .. nextId' - 1
        <3>1. nextId' - 1 = nextId
            BY <1>1, <2>1
        <3>2. subs \subseteq 1 .. nextId - 1 /\ closing \subseteq 1 .. nextId - 1
            BY <1>2 DEF StreamTypes
        <3>3. QED
            BY <1>1, <2>1, <3>1, <3>2
    <2>3. \A i \in DOMAIN arrived' : arrived'[i][1] < nextId' /\ arrived'[i][2] <= head'
        BY <1>1, <1>2, <2>1 DEF StreamTypes
    <2>4. QED
        BY <1>1, <1>2, <2>1, <2>2, <2>3 DEF StreamTypes
<1>4. HeadsOnceInOrder'
    BY <1>1 DEF HeadsOnceInOrder
<1>5. \A i \in DOMAIN arrived : arrived[i][1] # nextId
    BY <1>2 DEF StreamTypes
<1>6. \A i \in DOMAIN arrived' : ~Mine(i)'
    BY <1>1, <1>5 DEF Mine
<1>7. nextId \notin closing /\ nextId \in 1 .. nextId' - 1
    BY <1>1, <1>2 DEF StreamTypes
<1>8. StreamOK'
    BY <1>1, <1>6, <1>7 DEF StreamOK, Ordered, Unbroken, Yielded
<1>9. QED
    BY <1>3, <1>4, <1>8 DEF StreamInv

(* The connection is closed, or lost: nothing is on the socket.              *)
LEMMA SocketDownKeeps ==
    ASSUME StreamInv, subs' = {}, arrived' = << >>,
           UNCHANGED <<sub, closing, head, got, nextId>>,
           call' = "reading" => call = "reading"
    PROVE  StreamInv'
<1>1. StreamTypes'
    BY DEF StreamInv, StreamTypes
<1>2. HeadsOnceInOrder'
    BY DEF StreamInv, HeadsOnceInOrder
<1>3. DOMAIN arrived' = {}
    OBVIOUS
<1>4. ASSUME call = "reading"
      PROVE  StreamOK'
    <2>1. StreamOK /\ StreamTypes
        BY <1>4 DEF StreamInv
    <2>2. ASSUME NEW last \in Nat, Yielded(last)'
          PROVE  Follows(last)'
        <3>1. Yielded(last)
            BY <2>2 DEF Yielded
        <3>2. Follows(last)
            BY <2>1, <3>1 DEF StreamOK
        <3>3. QED
            BY <1>3, <3>2 DEF Follows
    <2>3. QED
        BY <1>3, <2>1, <2>2 DEF StreamOK, Ordered, Unbroken
<1>5. QED
    BY <1>1, <1>2, <1>4 DEF StreamInv

(* What does not touch the stream that is read, or leaves it.                *)
LEMMA AsideKeeps ==
    ASSUME StreamInv, UNCHANGED <<arrived, sub, head, got, nextId>>,
           closing' \in SUBSET (1 .. nextId - 1), subs' \subseteq subs,
           \/ call' # "reading"
           \/ /\ call = "reading" /\ closing' \subseteq closing
              /\ sub \in subs => sub \in subs'
    PROVE  StreamInv'
<1>1. StreamTypes'
    BY DEF StreamInv, StreamTypes
<1>2. HeadsOnceInOrder'
    BY DEF StreamInv, HeadsOnceInOrder
<1>3. ASSUME call' = "reading"
      PROVE  StreamOK'
    <2>1. StreamOK
        BY <1>3 DEF StreamInv
    <2>2. \A i \in DOMAIN arrived : Mine(i)' <=> Mine(i)
        BY DEF Mine
    <2>3. \A h : ToCome(h)' <=> ToCome(h)
        BY DEF ToCome
    <2>4. Ordered' /\ Unbroken'
        BY <2>1, <2>2, <2>3 DEF StreamOK, Ordered, Unbroken
    <2>5. ASSUME NEW last \in Nat, Yielded(last)'
          PROVE  Follows(last)'
        <3>1. Follows(last)
            BY <2>1, <2>5 DEF StreamOK, Yielded
        <3>2. QED
            BY <2>2, <2>3, <3>1 DEF Follows
    <2>6. QED
        BY <1>3, <2>1, <2>2, <2>4, <2>5 DEF StreamOK
<1>4. QED
    BY <1>1, <1>2, <1>3 DEF StreamInv

LEMMA StreamStep == ASSUME StreamInv, [StreamNext]_streamVars PROVE StreamInv'
<1>1. closing \subseteq 1 .. nextId - 1
    BY DEF StreamInv, StreamTypes
<1>2. CASE Read
    BY <1>2, ReadKeeps
<1>3. CASE NewHead
    BY <1>3, NewHeadKeeps
<1>4. CASE Subscribe
    BY <1>4, SubscribeKeeps
<1>5. CASE Disconnect \/ Drop
    BY <1>5, SocketDownKeeps DEF Disconnect, Drop, After
<1>6. CASE Retry \/ Enter \/ EnterFails \/ SessionFails
    BY <1>1, <1>6, AsideKeeps DEF Retry, Enter, EnterFails, SessionFails, After,
       conn
<1>7. CASE Unsubscribe
    BY <1>1, <1>7, AsideKeeps DEF Unsubscribe
<1>8. CASE Break \/ Cancel \/ SessionRaises
    <2>1. call = "reading" => sub \in 1 .. nextId - 1
        BY DEF StreamInv, StreamOK, StreamTypes
    <2>2. QED
        BY <1>1, <1>8, <2>1, AsideKeeps DEF Break, Cancel, SessionRaises, conn
<1>9. CASE Finalizer
    BY <1>1, <1>9, AsideKeeps DEF Finalizer, Finalize, StreamInv, StreamOK
<1>10. CASE UNCHANGED streamVars
    BY <1>1, <1>10, AsideKeeps DEF streamVars, conn
<1>11. CASE ReadMalformed
    <2>1. /\ call' # "reading" /\ arrived # << >> /\ arrived' = Tail(arrived)
          /\ UNCHANGED <<subs, sub, closing, head, got, nextId>>
        BY <1>11 DEF ReadMalformed
    <2>2. StreamTypes
        BY DEF StreamInv
    <2>3. StreamTypes'
        <3>1. arrived \in Seq(Nat \X Nat)
            BY <2>2 DEF StreamTypes
        <3>2. /\ arrived' \in Seq(Nat \X Nat)
              /\ \A i \in DOMAIN arrived' : i + 1 \in DOMAIN arrived /\ arrived'[i] = arrived[i + 1]
            BY <2>1, <3>1, InboxTail
        <3>3. QED
            BY <2>1, <2>2, <3>2 DEF StreamTypes
    <2>4. QED
        BY <2>1, <2>3 DEF StreamInv, HeadsOnceInOrder
<1>12. QED
    BY <1>2, <1>3, <1>4, <1>5, <1>6, <1>7, <1>8, <1>9, <1>10, <1>11 DEF StreamNext, Session

(* A stream yields consecutive heads, none twice, while an abandoned stream  *)
(* of the same connection is still subscribed and its copies arrive on the   *)
(* same socket (streams.py:48-53).                                           *)
THEOREM StreamYieldsHeadsOnce == StreamSpec => []HeadsOnceInOrder
<1>1. StreamInit => StreamInv
    <2>1. SUFFICES ASSUME StreamInit
                   PROVE  StreamInv
        OBVIOUS
    <2>2. << >> \in Seq(Nat) /\ << >> \in Seq(Nat \X Nat) /\ DOMAIN << >> = {}
        OBVIOUS
    <2>3. /\ nextId = 1 /\ head = 0 /\ subs = {} /\ closing = {}
          /\ got = << >> /\ arrived = << >> /\ call = "connecting"
        BY <2>1, Zenon DEF StreamInit
    <2>4. got \in Seq(Nat) /\ arrived \in Seq(Nat \X Nat) /\ DOMAIN arrived = {}
        BY <2>2, <2>3
    <2>5. StreamTypes
        BY <2>3, <2>4 DEF StreamTypes
    <2>6. HeadsOnceInOrder
        BY <2>3 DEF HeadsOnceInOrder
    <2>7. QED
        BY <2>3, <2>5, <2>6 DEF StreamInv
<1>2. StreamInv /\ [StreamNext]_streamVars => StreamInv'
    BY StreamStep
<1>3. StreamInv => HeadsOnceInOrder
    BY DEF StreamInv
<1>4. QED
    BY <1>1, <1>2, <1>3, PTL DEF StreamSpec
=============================================================================
