-------------------------- MODULE MockIngestion --------------------------
(***************************************************************************)
(* run_realtime against the mock node, as tests/integration/               *)
(* test_pipeline.py runs them: MockWss with one client, RealtimePipeline   *)
(* with the mock for its node, and between them a connection that keeps    *)
(* the order and applies backpressure, and web3's listener, which answers  *)
(* requests and queues notifications.                                      *)
(***************************************************************************)
EXTENDS MockWss, RealtimePipeline

CONSTANTS Whitelist,   \* router.whitelist.addresses()
          Undecoded,   \* addresses whose logs make the decoder raise
          InboxSize,   \* bound of web3's queue of notifications
          WireSize     \* frames the connection takes before send() waits

VARIABLES asked,       \* requests on their way to the node
          taken        \* how many of the sent frames the listener has read

wire == <<asked, taken>>
runVars == <<vars, pipeVars, wire>>

Me == "pipeline"

(* What the router makes of a log of the mock: None for a foreign contract.   *)
LogAt(b, r) ==
    LET address == Blocks[b].rows[r].address
    IN  [block |-> b, row |-> r,
         outcome |-> IF address \notin Whitelist THEN "none"
                     ELSE IF address \in Undecoded THEN "error" ELSE "event"]
AllLogs == UNION {{LogAt(b, r) : r \in DOMAIN Blocks[b].rows} : b \in DOMAIN Blocks}

(* One client, with one filter, at a node whose chain the pipeline reads.    *)
ASSUME CompositionAssumption ==
    /\ Client = {Me} /\ Filters = {Whitelist}
    /\ Block = DOMAIN Blocks /\ Log = AllLogs
ASSUME WireAssumption == InboxSize \in Nat \ {0} /\ WireSize \in Nat \ {0}

RunInit == /\ Init
           /\ PipeInit
           /\ asked = << >>
           /\ taken = 0

Unread == Len(sent[Me]) - taken
NextFrame == sent[Me][taken + 1]

-----------------------------------------------------------------------------
(* The client connects and asks for its subscriptions.                       *)
ClientConnects ==
    /\ ConnectSucceeds
    /\ Connect(Me)
    /\ asked' = <<"newHeads">>
    /\ UNCHANGED taken

ClientCannotConnect ==
    /\ ConnectFails
    /\ UNCHANGED <<vars, wire>>

(* The node handles one request.                                             *)
NodeAnswers ==
    /\ asked # << >>
    /\ asked' = Tail(asked)
    /\ CASE Head(asked) = "newHeads" -> Subscribe(Me, "newHeads", {})
         [] Head(asked) = "logs"     -> Subscribe(Me, "logs", Whitelist)
         [] OTHER                    -> Unsubscribe(Me, Min(OwnIds(Me)))
    /\ UNCHANGED <<pipeVars, taken>>

(* Leaving the loop over a live connection, the client asks for both         *)
(* subscriptions to be ended, also when it did not enter it at all.          *)
Unsubscribes ==
    asked' = IF phase' = "closing" /\ connected = "up"
             THEN <<"unsubscribe", "unsubscribe">> ELSE asked

(* web3's listener reads one frame: a notification, for which it waits while *)
(* its queue is full ...                                                     *)
ToMessage(m) == IF m.row = 0 THEN HeadOf(m.block)
                ELSE LogOf(LogAt(m.block, m.row))

ListenNote ==
    /\ Unread > 0
    /\ IsNote(NextFrame)
    /\ Len(inbox) < InboxSize
    /\ NodeSends(ToMessage(NextFrame))
    /\ taken' = taken + 1
    /\ UNCHANGED <<vars, asked>>

(* ... or the answer to the request the coroutine waits for.                 *)
ListenReply ==
    /\ Unread > 0
    /\ ~IsNote(NextFrame)
    /\ taken' = taken + 1
    /\ \/ HeadsSubscribed /\ asked' = <<"logs">>
       \/ LogsSubscribed /\ Unsubscribes
       \/ phase = "closing" /\ UNCHANGED <<pipeVars, asked>>
    /\ UNCHANGED vars

(* The client disconnects: at the end of a run, and when a subscription is   *)
(* not answered.                                                             *)
HangUp == IF conn[Me] = "open" THEN Disconnect(Me) ELSE UNCHANGED vars

ClientGivesUp ==
    /\ SubscribeFails
    /\ HangUp
    /\ asked' = << >>
    /\ UNCHANGED taken

ClientCloses ==
    /\ Close
    /\ HangUp
    /\ asked' = << >>
    /\ UNCHANGED taken

(* One round of the loop.                                                    *)
ClientLoop ==
    /\ Loop
    /\ Unsubscribes
    /\ UNCHANGED <<vars, taken>>

Signal == SetStop /\ UNCHANGED <<vars, wire>>

-----------------------------------------------------------------------------
(* The node's own steps.  Its send() waits for a connection that is full.    *)
NodeSend == WriterSend(Me) /\ UNCHANGED <<pipeVars, wire>>

NodeSendReturns == /\ Unread < WireSize
                   /\ WriterResume(Me)
                   /\ UNCHANGED <<pipeVars, wire>>

NodeReplays == ReplayStep /\ UNCHANGED <<pipeVars, wire>>

NodeShutsDown == /\ StopStep \/ Discard(Me)
                 /\ UNCHANGED <<pipeVars, wire>>

NodeSignal == RequestStop /\ UNCHANGED <<pipeVars, wire>>

(* The client learns that the node closed the connection behind the last     *)
(* frame; or the connection is lost, and with it what was on its way.        *)
SeesClose == /\ conn[Me] = "gone"
             /\ Unread = 0
             /\ connected = "up" /\ connected' = "closed"
             /\ UNCHANGED <<dequeVars, phase, inbox, consumed, counterVars,
                            stop, failure, vars, wire>>

ConnectionLost == /\ connected = "up" /\ connected' = "lost"
                  /\ Disconnect(Me)
                  /\ asked' = << >>
                  /\ UNCHANGED <<dequeVars, phase, inbox, consumed, counterVars,
                                 stop, failure, taken>>

-----------------------------------------------------------------------------
ClientStep == \/ ClientConnects \/ ClientCannotConnect \/ ClientGivesUp
              \/ ClientLoop \/ ClientCloses \/ ListenNote \/ ListenReply
              \/ SeesClose

RunNext == \/ ClientStep \/ Signal \/ ConnectionLost
           \/ NodeAnswers \/ NodeSend \/ NodeSendReturns
           \/ NodeReplays \/ NodeShutsDown \/ NodeSignal

(* The client's loop runs, and the node's when it has something to shut      *)
(* down; nothing makes the node answer, replay or send.                      *)
RunFairness == WF_runVars(ClientStep) /\ WF_runVars(NodeShutsDown)

RunSpec == RunInit /\ [][RunNext]_runVars
RunFairSpec == RunSpec /\ RunFairness

-----------------------------------------------------------------------------
(* What the client's queue did not evict is stamped with the time of its own *)
(* block; after an eviction a stamp may be an earlier block's, never a later *)
(* one's: the mock sends a head before its logs.                             *)
StampsFromChain ==
    \A i \in DOMAIN deque :
        /\ deque[i].stamp <= deque[i].block
        /\ drops[Me] = 0 => deque[i].stamp = deque[i].block

(* Events reach the ring buffer in chain order, each once, across queues,    *)
(* connection and listener, whatever was evicted on the way.                 *)
EventsInChainOrder ==
    \A i, j \in DOMAIN deque : i < j =>
        \/ deque[i].block < deque[j].block
        \/ deque[i].block = deque[j].block /\ deque[i].row < deque[j].row

(* What the ring holds came from the chain, in its order, with its times.    *)
EventsFromChain == StampsFromChain /\ EventsInChainOrder

(* Once nothing is on its way, a run without evictions has ingested every    *)
(* decodable log of the blocks replayed since the logs subscription, and     *)
(* counted every head since the first.                                       *)
Settled == phase = "waiting" /\ inbox = << >> /\ Unread = 0 /\ queue[Me] = << >>
           /\ conn[Me] = "open" /\ connected = "up"
ItemsSince(kind) ==
    ItemsOf((CHOOSE s \in subs[Me] : s.kind = kind).since .. replay.next - 1)

IngestsWholeReplay ==
    Settled /\ drops[Me] = 0 =>
        /\ blocks = Cardinality({x \in ItemsSince("newHeads") : x.row = 0})
        /\ ingested = Cardinality({x \in ItemsSince("logs") :
               /\ x.row # 0
               /\ Blocks[x.block].rows[x.row].address \in Whitelist \ Undecoded})

(* A stop of either side ends the other's part: a stopped node closes the    *)
(* stream and the pipeline ends; a stopped pipeline leaves the node.         *)
NodeStopEndsPipeline == nodeStop ~> phase = "done"
PipelineStopLeavesNode == stop ~> phase = "done" /\ conn[Me] \in {"new", "gone"}
StopsPropagate == NodeStopEndsPipeline /\ PipelineStopLeavesNode
=============================================================================
