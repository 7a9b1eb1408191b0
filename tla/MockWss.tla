----------------------------- MODULE MockWss -----------------------------
(***************************************************************************)
(* The mock WebSocket node of src/tools/mock_wss/server.py: it replays the *)
(* blocks of a fixture to the clients subscribed to heads or logs, each    *)
(* behind a bounded queue that evicts its oldest message, and drains the   *)
(* queues when it is stopped.                                              *)
(*                                                                         *)
(* One event loop runs everything, so an action is what a task does        *)
(* between two awaits that suspend: a request with its reply; a burst of   *)
(* blocks up to the next positive delay; one send of a writer.             *)
(***************************************************************************)
EXTENDS Integers, SequencesExt, FiniteSetsExt

CONSTANTS Client,       \* the connections
          Address,      \* contract addresses
          Filters,      \* the address lists clients filter logs by; {} is []
          Blocks,       \* iter_block_groups(events): [delay, header, rows]
          MaxQueue,     \* MAX_QUEUE_PER_CLIENT
          MaxRequests   \* bound: requests of all clients together

ASSUME BlocksAssumption ==
    Blocks \in Seq([delay : BOOLEAN, header : BOOLEAN,
                    rows : Seq([address : Address, ok : BOOLEAN])])
ASSUME FiltersAssumption == Filters \subseteq SUBSET Address
ASSUME BoundsAssumption == MaxQueue \in Nat \ {0} /\ MaxRequests \in Nat

VARIABLES conn,         \* "new", "open", "closing" (handler unwinding), "gone"
          subs,         \* client.subs; a later one has a greater id
          queue,        \* client.queue
          sending,      \* the writer is suspended in ws.send
          sent,         \* what the writer has handed to the connection
          drops,        \* client.dropped
          currentBlock, eventsSent, droppedTotal,       \* ServerState
          nodeStop,     \* self._stop
          firstSub,     \* self._first_sub
          replay,       \* [pc, next]: the replay task, the next block
          server,       \* "serving", "draining", "closed"
          toDrain,      \* the clients _drain_and_close has still to wait for
          timedOut,     \* the drain deadline passed
          requests      \* requests so far; also names the subscriptions

clientVars == <<conn, subs, queue, sending, sent, drops>>
stateVars == <<currentBlock, eventsSent, droppedTotal>>
stopVars == <<server, toDrain, timedOut>>
vars == <<clientVars, stateVars, nodeStop, firstSub, replay, stopVars, requests>>

Reply(kind, id) == [type |-> kind, sub |-> id]
Note(id, x) == [type |-> "note", sub |-> id, block |-> x.block, row |-> x.row]

InServer == {c \in Client : conn[c] \in {"open", "closing"}}   \* self._clients

-----------------------------------------------------------------------------
(* Mutants: no eviction; an eviction nobody counts.                          *)
EnqueueUnbounded(c, messages) ==
    [queue |-> queue[c] \o messages, drops |-> drops[c]]

EnqueueUncounted(c, messages) ==
    LET all == queue[c] \o messages
        over == IF Len(all) > MaxQueue THEN Len(all) - MaxQueue ELSE 0
    IN  [queue |-> SubSeq(all, over + 1, Len(all)), drops |-> drops[c]]

(* _Client.enqueue, for one message or several in a row: always placed, the  *)
(* oldest leave a full queue and are counted.                                *)
Enqueue(c, messages) ==
    LET all == queue[c] \o messages
        over == IF Len(all) > MaxQueue THEN Len(all) - MaxQueue ELSE 0
    IN  [queue |-> SubSeq(all, over + 1, Len(all)), drops |-> drops[c] + over]

(* Mutant: a full queue drops the reply.                                     *)
PutReplySkips(c, m) ==
    /\ queue' = [queue EXCEPT ![c] = IF Len(@) < MaxQueue THEN Append(@, m) ELSE @]
    /\ UNCHANGED drops

(* _reply places the message; what it evicts is counted for the client only. *)
PutReply(c, m) ==
    LET box == Enqueue(c, <<m>>)
    IN  /\ queue' = [queue EXCEPT ![c] = box.queue]
        /\ drops' = [drops EXCEPT ![c] = box.drops]

-----------------------------------------------------------------------------
(* What a block renders to: nothing if its header cannot be built, else its  *)
(* head (row 0) and every well-formed row.                                   *)
Rendered(b) ==
    IF Blocks[b].header
    THEN {0} \cup {r \in DOMAIN Blocks[b].rows : Blocks[b].rows[r].ok}
    ELSE {}

ItemsOf(blocks) ==
    UNION {{[block |-> b, row |-> r] : r \in Rendered(b)} : b \in blocks}

(* Mutant: the head goes out behind the logs of its block.                   *)
EarlierHeadLast(m, n) ==
    \/ m.block < n.block
    \/ m.block = n.block /\ m.row # 0 /\ (n.row = 0 \/ m.row < n.row)
    \/ m.block = n.block /\ m.row = n.row /\ m.sub < n.sub

(* The replay's order: block by block, the head before its logs, and one     *)
(* item to the subscriptions of a client as they were made.                  *)
Earlier(m, n) ==
    \/ m.block < n.block
    \/ m.block = n.block /\ m.row < n.row
    \/ m.block = n.block /\ m.row = n.row /\ m.sub < n.sub

Place(m, notes) == Cardinality({n \in notes : n = m \/ Earlier(n, m)})
InTurn(notes) ==
    [k \in 1 .. Cardinality(notes) |-> CHOOSE m \in notes : Place(m, notes) = k]

(* The items a subscription is for, and the notifications _fanout_head and   *)
(* _fanout_log make of items for a client, item by item.                     *)
Matches(s, x) ==
    IF x.row = 0 THEN s.kind = "newHeads"
    ELSE s.kind = "logs" /\ Blocks[x.block].rows[x.row].address \in s.addresses

NotesFor(s, items) == {Note(s.id, x) : x \in {y \in items : Matches(s, y)}}
Notes(c, items) == InTurn(UNION {NotesFor(s, items) : s \in subs[c]})

(* The loop runs on without suspending to the next positive delay, unless    *)
(* the stop flag is up when it comes round.                                  *)
BurstEnd(b) ==
    CHOOSE e \in b .. Len(Blocks) :
        /\ e = Len(Blocks) \/ nodeStop \/ Blocks[e + 1].delay
        /\ \A x \in b .. e - 1 : ~nodeStop /\ ~Blocks[x + 1].delay

-----------------------------------------------------------------------------
(* Mutant: a malformed header ends the replay.                               *)
AfterBurstFatal(e) ==
    [pc |-> IF e = Len(Blocks) \/ nodeStop \/ \E b \in 1 .. e : ~Blocks[b].header
            THEN "done" ELSE "sleeping",
     next |-> e + 1]

(* Mutant: the last block of a burst is sent again.                          *)
AfterBurstRepeats(e) ==
    [pc |-> IF e = Len(Blocks) \/ nodeStop THEN "done" ELSE "sleeping", next |-> e]

(* Where the replay task stands after the burst that ends with block e.      *)
AfterBurst(e) ==
    [pc |-> IF e = Len(Blocks) \/ nodeStop THEN "done" ELSE "sleeping", next |-> e + 1]

-----------------------------------------------------------------------------
Init == /\ conn = [c \in Client |-> "new"]
        /\ subs = [c \in Client |-> {}]
        /\ queue = [c \in Client |-> << >>]
        /\ sending = [c \in Client |-> FALSE]
        /\ sent = [c \in Client |-> << >>]
        /\ drops = [c \in Client |-> 0]
        /\ currentBlock = 0 /\ eventsSent = 0 /\ droppedTotal = 0
        /\ nodeStop = FALSE
        /\ firstSub = FALSE
        /\ replay = [pc |-> "waiting", next |-> 1]
        /\ server = "serving"
        /\ toDrain = {}
        /\ timedOut = FALSE
        /\ requests = 0

(* _handle_client: a connection opens; it closes, and once its writer is     *)
(* cancelled the handler discards it (the fan-out still sees it meanwhile).  *)
Connect(c) ==
    /\ server # "closed"
    /\ conn[c] = "new"
    /\ conn' = [conn EXCEPT ![c] = "open"]
    /\ UNCHANGED <<subs, queue, sending, sent, drops, stateVars, nodeStop, firstSub,
                   replay, stopVars, requests>>

Disconnect(c) ==
    /\ conn[c] = "open"
    /\ conn' = [conn EXCEPT ![c] = "closing"]
    /\ sending' = [sending EXCEPT ![c] = FALSE]
    /\ UNCHANGED <<subs, queue, sent, drops, stateVars, nodeStop, firstSub, replay,
                   stopVars, requests>>

Discard(c) ==
    /\ conn[c] = "closing"
    /\ conn' = [conn EXCEPT ![c] = "gone"]
    /\ UNCHANGED <<subs, queue, sending, sent, drops, stateVars, nodeStop, firstSub,
                   replay, stopVars, requests>>

(* _on_message.                                                              *)
Request(c) ==
    /\ conn[c] = "open"
    /\ requests < MaxRequests
    /\ requests' = requests + 1
    /\ UNCHANGED <<conn, sending, sent, stateVars, nodeStop, replay, stopVars>>

Subscribe(c, kind, filter) ==
    /\ Request(c)
    /\ subs' = [subs EXCEPT ![c] = @ \cup
                   {[id |-> requests + 1, kind |-> kind,
                     addresses |-> IF filter = {} THEN Address ELSE filter,
                     since |-> replay.next]}]
    /\ firstSub' = TRUE
    /\ PutReply(c, Reply("subscribed", requests + 1))

(* Mutant: the answer goes out but the subscription stays.                   *)
UnsubscribeKeeps(c, id) ==
    /\ Request(c)
    /\ PutReply(c, Reply("unsubscribed", id))
    /\ UNCHANGED <<subs, firstSub>>

Unsubscribe(c, id) ==
    /\ Request(c)
    /\ subs' = [subs EXCEPT ![c] = {s \in @ : s.id # id}]
    /\ PutReply(c, Reply("unsubscribed", id))
    /\ UNCHANGED firstSub

UnknownMethod(c) ==
    /\ Request(c)
    /\ PutReply(c, Reply("error", 0))
    /\ UNCHANGED <<subs, firstSub>>

(* _writer: send writes the frame at once and then waits until the           *)
(* connection has drained.                                                   *)
WriterSend(c) ==
    /\ conn[c] = "open"
    /\ ~sending[c]
    /\ queue[c] # << >>
    /\ sent' = [sent EXCEPT ![c] = Append(@, Head(queue[c]))]
    /\ queue' = [queue EXCEPT ![c] = Tail(@)]
    /\ sending' = [sending EXCEPT ![c] = TRUE]
    /\ UNCHANGED <<conn, subs, drops, stateVars, nodeStop, firstSub, replay,
                   stopVars, requests>>

WriterResume(c) ==
    /\ sending[c]
    /\ sending' = [sending EXCEPT ![c] = FALSE]
    /\ UNCHANGED <<conn, subs, queue, sent, drops, stateVars, nodeStop, firstSub,
                   replay, stopVars, requests>>

-----------------------------------------------------------------------------
(* _replay_loop emits blocks b .. BurstEnd(b) to every client at once, and   *)
(* counts what the queues evicted.                                           *)
Evictions(box) ==
    LET evicted(c) == box[c].drops - drops[c]
    IN  MapThenSumSet(evicted, InServer)

Emit(b) ==
    LET burst == ItemsOf(b .. BurstEnd(b))
        box == [c \in InServer |-> Enqueue(c, Notes(c, burst))]
    IN  /\ queue' = [c \in Client |-> IF c \in InServer THEN box[c].queue ELSE queue[c]]
        /\ drops' = [c \in Client |-> IF c \in InServer THEN box[c].drops ELSE drops[c]]
        /\ droppedTotal' = droppedTotal + Evictions(box)
        /\ eventsSent' = eventsSent + Cardinality(burst)
        /\ currentBlock' = IF burst = {} THEN currentBlock
                           ELSE Max({x.block : x \in burst})
        /\ replay' = AfterBurst(BurstEnd(b))
        /\ UNCHANGED <<conn, subs, sending, sent, nodeStop, firstSub, stopVars, requests>>

(* _await_first_subscription: the first subscriber releases the replay, a    *)
(* stop request ends it.  The writer, woken by the put of the reply, runs    *)
(* before the three tasks the event has to wake up: the first reply is out.  *)
ReplayStart ==
    /\ replay.pc = "waiting"
    /\ server = "serving"
    /\ firstSub
    /\ ~nodeStop
    /\ Blocks # << >>
    /\ \A c \in Client : conn[c] = "open" /\ ~sending[c] => queue[c] = << >>
    /\ Emit(1)

ReplayEndsEarly ==
    /\ replay.pc = "waiting"
    /\ server = "serving"
    /\ nodeStop \/ (firstSub /\ Blocks = << >>)
    /\ replay' = [replay EXCEPT !.pc = "done"]
    /\ UNCHANGED <<clientVars, stateVars, nodeStop, firstSub, stopVars, requests>>

(* The sleep between two blocks ends; the stop flag is not read again before *)
(* the block goes out.                                                       *)
ReplayWake ==
    /\ replay.pc = "sleeping"
    /\ Emit(replay.next)

-----------------------------------------------------------------------------
(* request_stop, and run: cancel the replay, wait for it, drain.             *)
RequestStop ==
    /\ ~nodeStop
    /\ nodeStop' = TRUE
    /\ UNCHANGED <<clientVars, stateVars, firstSub, replay, stopVars, requests>>

(* Mutant: the drain begins while the replay still runs.                     *)
RunStopReplayRuns ==
    /\ nodeStop
    /\ server = "serving"
    /\ server' = "draining"
    /\ toDrain' = InServer
    /\ UNCHANGED <<clientVars, stateVars, nodeStop, firstSub, replay, timedOut, requests>>

RunStop ==
    /\ nodeStop
    /\ server = "serving"
    /\ server' = "draining"
    /\ replay' = [replay EXCEPT !.pc = "done"]
    /\ toDrain' = InServer
    /\ UNCHANGED <<clientVars, stateVars, nodeStop, firstSub, timedOut, requests>>

(* _drain_and_close: one client after the other until its queue is empty,    *)
(* all within one deadline; then every connection is closed.                 *)
DrainNext(c) ==
    /\ c \in toDrain
    /\ queue[c] = << >>
    /\ toDrain' = toDrain \ {c}
    /\ UNCHANGED <<clientVars, stateVars, nodeStop, firstSub, replay, server,
                   timedOut, requests>>

(* Mutant: the drain waits for every queue, however long it takes.           *)
DrainForever == FALSE

DrainDeadline ==
    /\ toDrain # {}
    /\ toDrain' = {}
    /\ timedOut' = TRUE
    /\ UNCHANGED <<clientVars, stateVars, nodeStop, firstSub, replay, server, requests>>

CloseAll ==
    /\ server = "draining"
    /\ toDrain = {}
    /\ server' = "closed"
    /\ conn' = [c \in Client |-> IF c \in InServer THEN "gone" ELSE conn[c]]
    /\ sending' = [c \in Client |-> FALSE]
    /\ UNCHANGED <<subs, queue, sent, drops, stateVars, nodeStop, firstSub, replay,
                   toDrain, timedOut, requests>>

-----------------------------------------------------------------------------
ReplayStep == ReplayStart \/ ReplayEndsEarly \/ ReplayWake
StopStep == RunStop \/ (\E c \in Client : DrainNext(c)) \/ DrainDeadline \/ CloseAll
OwnIds(c) == {s.id : s \in subs[c]}

Next == \/ \E c \in Client :
              \/ Connect(c) \/ Disconnect(c) \/ Discard(c)
              \/ Subscribe(c, "newHeads", {})
              \/ \E f \in Filters : Subscribe(c, "logs", f)
              \/ \E id \in OwnIds(c) \cup {0} : Unsubscribe(c, id)
              \/ UnknownMethod(c)
              \/ WriterSend(c) \/ WriterResume(c)
        \/ ReplayStep \/ RequestStop \/ StopStep

(* When the replay task can go on (ENABLED ReplayStep, written out).         *)
ReplayReady ==
    \/ replay.pc = "sleeping"
    \/ /\ replay.pc = "waiting"
       /\ server = "serving"
       /\ \/ nodeStop \/ (firstSub /\ Blocks = << >>)
          \/ /\ firstSub
             /\ \A c \in Client : conn[c] = "open" /\ ~sending[c] => queue[c] = << >>

(* The server's own tasks run, and a writer with a message and a connection  *)
(* that is not blocked sends it.  Clients may do nothing and read nothing:   *)
(* no fairness for WriterResume.                                             *)
Fairness == /\ []<>~ReplayReady \/ []<><<ReplayStep>>_vars
            /\ WF_vars(StopStep)
            /\ \A c \in Client : WF_vars(WriterSend(c))

Spec == Init /\ [][Next]_vars
FairSpec == Spec /\ Fairness

-----------------------------------------------------------------------------
Subscription == [id : 1 .. MaxRequests, kind : {"newHeads", "logs"},
                 addresses : SUBSET Address, since : 1 .. Len(Blocks) + 1]

TypeOK == /\ conn \in [Client -> {"new", "open", "closing", "gone"}]
          /\ subs \in [Client -> SUBSET Subscription]
          /\ \A c \in Client : Len(queue[c]) <= MaxQueue
          /\ sending \in [Client -> BOOLEAN]
          /\ drops \in [Client -> Nat]
          /\ currentBlock \in 0 .. Len(Blocks)
          /\ replay.next \in 1 .. Len(Blocks) + 1
          /\ replay.pc \in {"waiting", "sleeping", "done"}
          /\ server \in {"serving", "draining", "closed"}
          /\ toDrain \subseteq Client
          /\ requests \in 0 .. MaxRequests

(* What a client gets, and what is still queued for it.                      *)
Out(c) == sent[c] \o queue[c]
IsNote(m) == m.type = "note"
NotesOf(c, id) == {i \in DOMAIN Out(c) : IsNote(Out(c)[i]) /\ Out(c)[i].sub = id}

(* What a client gets follows the replay's order across its subscriptions:   *)
(* block by block, the head before the logs, each item in one subscription   *)
(* once.  Nothing of a subscription comes before its id or after the answer  *)
(* to its eth_unsubscribe (server.py:183-229, 254-316).                      *)
StreamOrder ==
    \A c \in Client : \A i, j \in DOMAIN Out(c) :
        LET m == Out(c)[i]
            n == Out(c)[j]
        IN  i < j =>
               /\ IsNote(m) /\ IsNote(n) =>
                      \/ m.block < n.block
                      \/ m.block = n.block /\ m.row < n.row
                      \/ m.block = n.block /\ m.row = n.row /\ m.sub # n.sub
               /\ m.sub = n.sub /\ m.sub # 0 =>
                      /\ n.type # "subscribed"
                      /\ IsNote(n) => m.type # "unsubscribed"

(* Nothing is missing or invented for a client that never overflowed: each   *)
(* of its subscriptions got exactly the matching notifications of the blocks *)
(* replayed since it was made.                                               *)
NoGapWithoutDrop ==
    \A c \in Client : conn[c] = "open" /\ drops[c] = 0 =>
        \A s \in subs[c] :
            {<<Out(c)[i].block, Out(c)[i].row>> : i \in NotesOf(c, s.id)}
            = {<<x.block, x.row>> : x \in
                  {y \in ItemsOf(s.since .. replay.next - 1) : Matches(s, y)}}

(* A subscription that a client has, or is sent notifications of, was told   *)
(* to it, unless the queue evicted the id later, which takes a full queue:   *)
(* every missing id is an eviction counted for the client, and MaxQueue      *)
(* messages went out or wait after it (server.py:78-103, 231-240).           *)
Unannounced(c) ==
    {id \in OwnIds(c) \cup {Out(c)[i].sub : i \in {j \in DOMAIN Out(c) : IsNote(Out(c)[j])}} :
        \A i \in DOMAIN Out(c) : Out(c)[i] # Reply("subscribed", id)}

Announced ==
    \A c \in Client : /\ Cardinality(Unannounced(c)) <= drops[c]
                      /\ Unannounced(c) # {} => Len(Out(c)) >= MaxQueue

(* Every variable has its type, and every stream its id and its order.       *)
StreamsSound == TypeOK /\ StreamOrder /\ Announced

(* A drain that meets its deadline loses no event of a connected client: the *)
(* replay has really stopped and every queue was seen empty after it.        *)
DrainLosesNoEvent ==
    [][server' = "closed" /\ server # "closed" /\ ~timedOut =>
          \A c \in Client : conn[c] = "open" =>
              \A i \in DOMAIN queue[c] : ~IsNote(queue[c][i])]_vars

(* A stop request is always obeyed, even if a client never reads or leaves   *)
(* in the middle of the drain.                                               *)
StopCloses == nodeStop ~> server = "closed"

(* A fixture is replayed to its end unless the server is stopped: malformed  *)
(* headers and rows do not end the replay task (server.py:294-313).          *)
ReplayCompletes == firstSub ~> nodeStop \/ (replay.pc = "done" /\ replay.next = Len(Blocks) + 1)
=============================================================================
