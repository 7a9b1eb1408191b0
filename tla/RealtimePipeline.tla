------------------------- MODULE RealtimePipeline -------------------------
(***************************************************************************)
(* run_realtime of src/ingestion/pipeline.py: one loop over the heads and  *)
(* the logs of a WebSocket node, which stamps every log with the time of   *)
(* the last head it read, routes it, and writes the event to the ring      *)
(* buffer.  The node is any node: it sends heads and logs in any order,    *)
(* repeats them, sends malformed ones, falls silent or goes away.          *)
(* MockIngestion puts the mock node in its place.                          *)
(***************************************************************************)
EXTENDS DequeRingBuffer, SequencesExt

CONSTANTS Block,         \* the blocks of the chain; a block is its own time
          Log,           \* the logs in them: [block, row, outcome]
          MaxMessages    \* bound: messages the node sends

(* The outcomes of route_validated: an event, None, or an exception.         *)
Outcomes == {"event", "none", "error"}

(* The event made of log l, stamped with time s.                             *)
EventOf(l, s) == [block |-> l.block, row |-> l.row, stamp |-> s]

ASSUME BlockAssumption == Block \subseteq Nat \ {0}
ASSUME LogAssumption == Log \subseteq [block : Block, row : Nat, outcome : Outcomes]
ASSUME MessagesAssumption == MaxMessages \in Nat /\ MaxMessages <= MaxWrites
ASSUME EventAssumption == \A l \in Log, s \in Block : EventOf(l, s) \in Event

VARIABLES phase,      \* where run_realtime is
          inbox,      \* notifications web3 has queued for process_subscriptions
          consumed,   \* the notifications the loop has read
          currentTs,  \* current_ts; 0 until the first head
          blocks,     \* blocks_processed_total
          ingested,   \* events_ingested_total
          stop,       \* the stop event, set by SIGTERM or SIGINT
          connected,  \* the connection: "no", "up", "closed" (cleanly), "lost"
          failure     \* the exception run_realtime ends with

counterVars == <<currentTs, blocks, ingested>>
nodeVars == <<stop, connected>>
pipeVars == <<dequeVars, phase, inbox, consumed, counterVars, nodeVars, failure>>

Phases == {"connecting", "subHeads", "subLogs", "waiting", "closing", "done"}

HeadOf(b) == [kind |-> "head", block |-> b]
MalformedHead == [kind |-> "badHead"]
LogOf(l) == [kind |-> "log", log |-> l]
OtherSubscription == [kind |-> "other"]

HeadMessages == {HeadOf(b) : b \in Block} \cup {MalformedHead}
LogMessages == {LogOf(l) : l \in Log} \cup {OtherSubscription}
Messages == HeadMessages \cup LogMessages

-----------------------------------------------------------------------------
PipeInit == /\ DequeInit
            /\ phase = "connecting"
            /\ inbox = << >>
            /\ consumed = << >>
            /\ currentTs = 0 /\ blocks = 0 /\ ingested = 0
            /\ stop = FALSE
            /\ connected = "no"
            /\ failure = "none"

(* The loop's condition, read again after every message and every time-out.  *)
NextRound == IF stop THEN "closing" ELSE "waiting"

(* EthereumClient.__aenter__ connects, or raises within its time-out.        *)
ConnectSucceeds == /\ phase = "connecting"
                   /\ phase' = "subHeads"
                   /\ connected' = "up"
                   /\ UNCHANGED <<dequeVars, inbox, consumed, counterVars, stop, failure>>

ConnectFails == /\ phase = "connecting"
                /\ phase' = "done"
                /\ failure' = "connect"
                /\ UNCHANGED <<dequeVars, inbox, consumed, counterVars, nodeVars>>

(* eth.subscribe("newHeads"), then eth.subscribe("logs", ...), are answered  *)
(* one after the other; stop is not looked at in between.                    *)
HeadsSubscribed ==
    /\ phase = "subHeads"
    /\ connected = "up"
    /\ phase' = "subLogs"
    /\ UNCHANGED <<dequeVars, inbox, consumed, counterVars, nodeVars, failure>>

LogsSubscribed ==
    /\ phase = "subLogs"
    /\ connected = "up"
    /\ phase' = NextRound
    /\ UNCHANGED <<dequeVars, inbox, consumed, counterVars, nodeVars, failure>>

(* A subscription the node does not answer, or a connection that goes away   *)
(* meanwhile, raises before the try: nothing to unsubscribe, and __aexit__    *)
(* disconnects.                                                              *)
SubscribeFails ==
    /\ phase \in {"subHeads", "subLogs"}
    /\ phase' = "done"
    /\ failure' = IF connected = "up" THEN "request" ELSE "connection"
    /\ connected' = "no"
    /\ UNCHANGED <<dequeVars, inbox, consumed, counterVars, stop>>

-----------------------------------------------------------------------------
(* The next message, read by the loop.                                       *)
Take(m) == /\ phase = "waiting"
           /\ inbox # << >>
           /\ m = Head(inbox)
           /\ inbox' = Tail(inbox)
           /\ consumed' = Append(consumed, m)
           /\ UNCHANGED nodeVars

(* Mutant: a head that repeats or precedes the last one does not set the     *)
(* time.                                                                     *)
OnHeadMonotone(m) ==
    /\ Take(m)
    /\ m.kind = "head"
    /\ currentTs' = IF m.block > currentTs THEN m.block ELSE currentTs
    /\ blocks' = blocks + 1
    /\ phase' = NextRound
    /\ UNCHANGED <<dequeVars, ingested, failure>>

OnHead(m) == /\ Take(m)
             /\ m.kind = "head"
             /\ currentTs' = m.block
             /\ blocks' = blocks + 1
             /\ phase' = NextRound
             /\ UNCHANGED <<dequeVars, ingested, failure>>

(* A head without a readable timestamp is not guarded: the exception leaves  *)
(* the loop.                                                                 *)
OnMalformedHead(m) == /\ Take(m)
                      /\ m.kind = "badHead"
                      /\ phase' = "closing"
                      /\ failure' = "head"
                      /\ UNCHANGED <<dequeVars, counterVars>>

(* Mutant: without the try around route_validated.                           *)
OnSkippedLogUnguarded(m) ==
    /\ Take(m)
    /\ \/ m.kind = "other"
       \/ m.kind = "log" /\ (currentTs = 0 \/ m.log.outcome # "event")
    /\ IF m.kind = "log" /\ currentTs # 0 /\ m.log.outcome = "error"
       THEN phase' = "closing" /\ failure' = "log"
       ELSE phase' = NextRound /\ UNCHANGED failure
    /\ UNCHANGED <<dequeVars, counterVars>>

(* A log is skipped before the first head, when the router raises, and when  *)
(* it returns None ...                                                       *)
OnSkippedLog(m) == /\ Take(m)
                   /\ \/ m.kind = "other"
                      \/ m.kind = "log" /\ (currentTs = 0 \/ m.log.outcome # "event")
                   /\ phase' = NextRound
                   /\ UNCHANGED <<dequeVars, counterVars, failure>>

(* ... else its event goes into the buffer with the time of the last head.   *)
OnEvent(m) == /\ Take(m)
              /\ m.kind = "log" /\ currentTs # 0 /\ m.log.outcome = "event"
              /\ DequeWrite(EventOf(m.log, currentTs))
              /\ ingested' = ingested + 1
              /\ phase' = NextRound
              /\ UNCHANGED <<currentTs, blocks, failure>>

Consume == \E m \in Messages :
              OnHead(m) \/ OnMalformedHead(m) \/ OnSkippedLog(m) \/ OnEvent(m)

(* Mutant: the loop waits for the next message without a time-out.           *)
IdleForever == FALSE

(* The wait for a message times out: only then is stop seen by an idle loop. *)
Idle == /\ phase = "waiting"
        /\ inbox = << >>
        /\ stop
        /\ phase' = "closing"
        /\ UNCHANGED <<dequeVars, inbox, consumed, counterVars, nodeVars, failure>>

(* The iterator ends when the node closed the connection, and raises when it *)
(* was lost.                                                                 *)
StreamEnds == /\ phase = "waiting"
              /\ connected # "up"
              /\ phase' = "closing"
              /\ failure' = IF connected = "lost" THEN "connection" ELSE failure
              /\ UNCHANGED <<dequeVars, inbox, consumed, counterVars, nodeVars>>

(* finally: unsubscribe within two seconds or not, then disconnect.          *)
Close == /\ phase = "closing"
         /\ phase' = "done"
         /\ connected' = "no"
         /\ UNCHANGED <<dequeVars, inbox, consumed, counterVars, stop, failure>>

-----------------------------------------------------------------------------
(* The environment: the node and the signal handlers.                        *)
NodeSends(m) ==
    /\ connected = "up"
    /\ phase # "connecting"
    /\ m \in LogMessages => phase # "subHeads"
    /\ Len(consumed) + Len(inbox) < MaxMessages
    /\ inbox' = Append(inbox, m)
    /\ UNCHANGED <<dequeVars, phase, consumed, counterVars, nodeVars, failure>>

NodeLeaves == /\ connected = "up"
              /\ connected' \in {"closed", "lost"}
              /\ UNCHANGED <<dequeVars, phase, inbox, consumed, counterVars, stop,
                             failure>>

SetStop == /\ ~stop
           /\ stop' = TRUE
           /\ UNCHANGED <<dequeVars, phase, inbox, consumed, counterVars,
                          connected, failure>>

-----------------------------------------------------------------------------
Setup == ConnectSucceeds \/ ConnectFails \/ HeadsSubscribed \/ LogsSubscribed \/ SubscribeFails
Loop == Consume \/ Idle \/ StreamEnds
Step == Setup \/ Loop \/ Close

PipeNext == \/ Step
            \/ \E m \in Messages : NodeSends(m)
            \/ NodeLeaves \/ SetStop

(* The event loop runs the coroutine, and every await in it has a time-out   *)
(* of its own; nothing is asked of the node.                                 *)
PipeFairness == WF_pipeVars(Step)

PipeSpec == PipeInit /\ [][PipeNext]_pipeVars
PipeFairSpec == PipeSpec /\ PipeFairness

-----------------------------------------------------------------------------
PipeTypeOK == /\ DequeTypeOK
              /\ phase \in Phases
              /\ inbox \in Seq(Messages)
              /\ consumed \in Seq(Messages)
              /\ currentTs \in Block \cup {0}
              /\ blocks \in Nat /\ ingested \in Nat
              /\ stop \in BOOLEAN
              /\ connected \in {"no", "up", "closed", "lost"}
              /\ failure \in {"none", "connect", "request", "connection", "head"}

(* What the notifications read so far call for: an event for every routable  *)
(* log behind the first head, with the time of the last head before it.  The *)
(* log at position i is for the Rank(i)-th event due.                        *)
HeadsBefore(i) == {j \in 1 .. i - 1 : consumed[j].kind = "head"}
Routable(i) == /\ consumed[i].kind = "log"
               /\ consumed[i].log.outcome = "event"
               /\ HeadsBefore(i) # {}
Routables(n) == {i \in 1 .. n : Routable(i)}
Rank(i) == Cardinality(Routables(i))
DueAt(i) == EventOf(consumed[i].log, consumed[Max(HeadsBefore(i))].block)

(* Whatever the node sends, in whatever order: the ring buffer is exactly    *)
(* the newest Capacity of the events due, in order, and the two Prometheus   *)
(* counters say how many events and heads there were (pipeline.py:80-99).    *)
IngestedExactly ==
    /\ ingested = Rank(Len(consumed))
    /\ Len(deque) = IF ingested < Capacity THEN ingested ELSE Capacity
    /\ \A i \in Routables(Len(consumed)) :
          LET evicted == ingested - Len(deque)
          IN  Rank(i) > evicted => deque[Rank(i) - evicted] = DueAt(i)
    /\ blocks = Cardinality(HeadsBefore(Len(consumed) + 1))

(* Every variable has its type, and the ingestion is exact.                  *)
IngestionSound == PipeTypeOK /\ IngestedExactly

(* "One malformed log ... must not kill ingestion" (pipeline.py:91): the     *)
(* loop is left only for a stop, the end of the stream or a bad head, and    *)
(* the last of them is the exception the program ends with.                  *)
LogsNeverEndIngestion ==
    [][phase = "waiting" /\ phase' # "waiting" =>
          \/ stop
          \/ connected # "up"
          \/ failure' = "head" /\ Last(consumed') = MalformedHead]_pipeVars

(* After SIGTERM the coroutine ends, wherever it was, whatever the node does *)
(* ("SIGTERM/SIGINT trigger a clean shutdown", pipeline.py:11-12).           *)
StopEnds == stop ~> phase = "done"
=============================================================================
