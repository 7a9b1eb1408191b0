------------------------ MODULE MockIngestionProofs ------------------------
(***************************************************************************)
(* The pipeline behind the mock node, for every chain, whitelist, set of   *)
(* undecodable contracts, queue, listener and connection.                  *)
(*                                                                         *)
(* Every step of the whole is a step of the node's specification and a     *)
(* step of the pipeline's, or leaves them alone (NodePart, PipePart), so   *)
(* the invariants of both hold.  What joins them is proved on top: the     *)
(* conversation of the two (SubsInv, AskInv), the frames it puts on the    *)
(* connection (FrameInv), and that what the loop has read and has still to *)
(* read is what the listener took from it, in order (Linked).              *)
(***************************************************************************)
EXTENDS MockIngestion, IngestionProofs

(* Request n makes subscription n, request n + 2 ends it.                    *)
Held(n) == {id \in {1, 2} : id <= n /\ n <= id + 1}
LogFilter == IF Whitelist = {} THEN Address ELSE Whitelist

SubsInv ==
    /\ requests \in 0 .. 4
    /\ OwnIds(Me) = Held(requests)
    /\ \A s \in subs[Me] : \/ s.id = 1 /\ s.kind = "newHeads"
                           \/ s.id = 2 /\ s.kind = "logs" /\ s.addresses = LogFilter
    /\ \A s, t \in subs[Me] : s.id <= t.id => s.since <= t.since

(* Where the coroutine and the node are in their conversation.               *)
AskInv ==
    /\ asked \in {<< >>, <<"newHeads">>, <<"logs">>,
                  <<"unsubscribe", "unsubscribe">>, <<"unsubscribe">>}
    /\ asked = <<"newHeads">> => phase = "subHeads" /\ requests = 0
    /\ asked = <<"logs">> => phase = "subLogs" /\ requests = 1
    /\ asked = <<"unsubscribe", "unsubscribe">> => phase = "closing" /\ requests = 2
    /\ asked = <<"unsubscribe">> => phase = "closing" /\ requests = 3
    /\ phase = "connecting" => requests = 0 /\ conn[Me] = "new" /\ asked = << >>
    /\ conn[Me] = "new" => phase \in {"connecting", "done"} /\ connected = "no"
    /\ phase = "subHeads" => requests <= 1
    /\ phase = "subLogs" =>
          requests \in 1 .. 2 /\ \E i \in 1 .. taken : sent[Me][i] = Reply("subscribed", 1)
    /\ phase = "waiting" => requests = 2

(* What travels: heads and logs of well-formed blocks and rows, under their  *)
(* subscription, and the answers.                                            *)
HeadNote(m) == IsNote(m) /\ m.sub = 1 /\ m.row = 0
LogNote(m) == /\ IsNote(m) /\ m.sub = 2 /\ m.row # 0
              /\ Blocks[m.block].rows[m.row].address \in LogFilter
FrameOK(m, n) ==
    \/ (HeadNote(m) \/ LogNote(m)) /\ m.row \in Rendered(m.block)
    \/ m.type = "subscribed" /\ m.sub \in {1, 2}
    \/ m.type = "unsubscribed" /\ n > 2

FrameInv ==
    /\ taken \in 0 .. Len(sent[Me])
    /\ requests = 0 => Out(Me) = << >>
    /\ \A i \in DOMAIN Out(Me) : FrameOK(Out(Me)[i], requests)

(* The messages the listener has put in its queue, read or not, are the      *)
(* notifications among the frames it took, in their order.                   *)
Stream == consumed \o inbox
Follows(at) ==
    /\ at \in [1 .. Len(Stream) -> 1 .. taken]
    /\ \A p \in 1 .. Len(Stream) :
          IsNote(sent[Me][at[p]]) /\ Stream[p] = ToMessage(sent[Me][at[p]])
    /\ \A p, q \in 1 .. Len(Stream) : p < q => at[p] < at[q]
    /\ \A i \in 1 .. taken : IsNote(sent[Me][i]) => \E p \in 1 .. Len(Stream) : at[p] = i
Linked == \E at : Follows(at)

(* Without an eviction the head of a log's block is sent before it, until    *)
(* the heads are unsubscribed, and was read before it.                       *)
HeadSent ==
    drops[Me] = 0 /\ requests <= 2 =>
        \A j \in DOMAIN Out(Me) : LogNote(Out(Me)[j]) =>
            \E i \in 1 .. j - 1 : HeadNote(Out(Me)[i]) /\ Out(Me)[i].block = Out(Me)[j].block
HeadRead ==
    drops[Me] = 0 =>
        \A q \in DOMAIN consumed : consumed[q].kind = "log" =>
            \E p \in 1 .. q - 1 : consumed[p] = HeadOf(consumed[q].log.block)

RunInv == /\ IInv /\ PipeInv
          /\ SubsInv /\ AskInv /\ FrameInv /\ Linked /\ HeadSent /\ HeadRead

-----------------------------------------------------------------------------
LEMMA Alone ==
    /\ Me \in Client /\ \A c \in Client : c = Me
    /\ Whitelist \in Filters /\ Whitelist \in SUBSET Address
    /\ LogFilter \in SUBSET Address
BY CompositionAssumption, FiltersAssumption DEF LogFilter

(* Which request the node answers, and how.                                  *)
LEMMA Answers ==
    ASSUME SubsInv, AskInv, NodeAnswers
    PROVE  /\ UNCHANGED <<pipeVars, taken>>
           /\ \/ /\ asked = <<"newHeads">> /\ requests = 0 /\ asked' = << >>
                 /\ Subscribe(Me, "newHeads", {})
              \/ /\ asked = <<"logs">> /\ requests = 1 /\ asked' = << >>
                 /\ Subscribe(Me, "logs", Whitelist)
              \/ /\ asked = <<"unsubscribe", "unsubscribe">> /\ requests = 2
                 /\ asked' = <<"unsubscribe">> /\ 1 \in OwnIds(Me) /\ Unsubscribe(Me, 1)
              \/ /\ asked = <<"unsubscribe">> /\ requests = 3 /\ asked' = << >>
                 /\ 2 \in OwnIds(Me) /\ Unsubscribe(Me, 2)
<1>1. asked # << >> /\ asked' = Tail(asked) /\ UNCHANGED <<pipeVars, taken>>
    BY DEF NodeAnswers
<1>2. CASE asked = <<"newHeads">>
    <2>1. Head(asked) = "newHeads" /\ asked' = << >>
        BY <1>1, <1>2
    <2>2. Subscribe(Me, "newHeads", {})
        BY <2>1 DEF NodeAnswers
    <2> QED BY <1>1, <1>2, <2>1, <2>2 DEF AskInv
<1>3. CASE asked = <<"logs">>
    <2>1. Head(asked) = "logs" /\ asked' = << >>
        BY <1>1, <1>3
    <2>2. Subscribe(Me, "logs", Whitelist)
        BY <2>1 DEF NodeAnswers
    <2> QED BY <1>1, <1>3, <2>1, <2>2 DEF AskInv
<1>4. CASE asked = <<"unsubscribe", "unsubscribe">>
    <2>1. Head(asked) = "unsubscribe" /\ asked' = <<"unsubscribe">> /\ requests = 2
        BY <1>1, <1>4 DEF AskInv
    <2>2. OwnIds(Me) = {1, 2}
        BY <2>1 DEF SubsInv, Held
    <2>3. Min(OwnIds(Me)) = 1
        <3>1. {1, 2} \in SUBSET Int /\ {1, 2} # {} /\ IsFiniteSet({1, 2})
            <4>1. 1 \in Int /\ 2 \in Int /\ {1, 2} = 1 .. 2
                OBVIOUS
            <4>2. IsFiniteSet(1 .. 2)
                BY <4>1, FS_Interval
            <4> QED BY <4>1, <4>2
        <3>2. Min({1, 2}) \in {1, 2} /\ \A y \in {1, 2} : Min({1, 2}) <= y
            BY <3>1, MinIs
        <3> QED BY <2>2, <3>2
    <2>4. Unsubscribe(Me, Min(OwnIds(Me)))
        BY <2>1 DEF NodeAnswers
    <2> QED BY <1>1, <1>4, <2>1, <2>2, <2>3, <2>4
<1>5. CASE asked = <<"unsubscribe">>
    <2>1. Head(asked) = "unsubscribe" /\ asked' = << >> /\ requests = 3
        BY <1>1, <1>5 DEF AskInv
    <2>2. OwnIds(Me) = {2}
        BY <2>1 DEF SubsInv, Held
    <2>3. Min(OwnIds(Me)) = 2
        <3>1. {2} \in SUBSET Int /\ {2} # {} /\ IsFiniteSet({2})
            <4>1. 2 \in Int /\ {2} = 2 .. 2
                OBVIOUS
            <4>2. IsFiniteSet(2 .. 2)
                BY <4>1, FS_Interval
            <4> QED BY <4>1, <4>2
        <3>2. Min({2}) \in {2}
            BY <3>1, MinIs
        <3> QED BY <2>2, <3>2
    <2>4. Unsubscribe(Me, Min(OwnIds(Me)))
        BY <2>1 DEF NodeAnswers
    <2> QED BY <1>1, <1>5, <2>1, <2>2, <2>3, <2>4
<1> QED BY <1>1, <1>2, <1>3, <1>4, <1>5 DEF AskInv

(* What a step does at the node ...                                          *)
LEMMA NodePart ==
    ASSUME SubsInv, AskInv, [RunNext]_runVars
    PROVE  [Next]_vars
<1>1. CASE NodeAnswers
    <2>1. \/ Subscribe(Me, "newHeads", {}) \/ Subscribe(Me, "logs", Whitelist)
          \/ \E id \in OwnIds(Me) : Unsubscribe(Me, id)
        BY <1>1, Answers
    <2> QED BY <2>1, Alone DEF Next
<1>2. CASE Connect(Me) \/ Disconnect(Me) \/ Discard(Me) \/ WriterSend(Me) \/ WriterResume(Me)
    BY <1>2, Alone DEF Next
<1>3. CASE ReplayStep \/ RequestStop \/ StopStep
    BY <1>3 DEF Next
<1>4. CASE HangUp
    BY <1>2, <1>4 DEF HangUp
<1>5. CASE UNCHANGED vars
    BY <1>5
<1>6. CASE RunNext
    BY <1>1, <1>2, <1>3, <1>4, <1>5, <1>6
       DEF RunNext, ClientStep, ClientConnects, ClientCannotConnect, ClientGivesUp, ClientLoop,
           ClientCloses, ListenNote, ListenReply, SeesClose, Signal, ConnectionLost, NodeSend,
           NodeSendReturns, NodeReplays, NodeShutsDown, NodeSignal
<1> QED BY <1>5, <1>6 DEF runVars

LEMMA MessageOf ==
    ASSUME NEW m \in Notice, m.row \in Rendered(m.block)
    PROVE  /\ ToMessage(m) \in Messages
           /\ m.row = 0 => ToMessage(m) = HeadOf(m.block) /\ ToMessage(m).kind = "head"
           /\ m.row # 0 => /\ ToMessage(m) = LogOf(LogAt(m.block, m.row))
                           /\ ToMessage(m).kind = "log"
                           /\ ToMessage(m).log = LogAt(m.block, m.row)
<1>1. m.block \in DOMAIN Blocks
    BY NoticeFields, BlocksAssumption, LenProperties
<1>2. m.row # 0 => m.row \in DOMAIN Blocks[m.block].rows
    BY DEF Rendered
<1>3. m.row # 0 => LogAt(m.block, m.row) \in Log
    BY <1>1, <1>2, CompositionAssumption DEF AllLogs
<1>4. m.block \in Block
    BY <1>1, CompositionAssumption
<1> QED BY <1>3, <1>4 DEF ToMessage, HeadOf, LogOf, Messages, HeadMessages, LogMessages

(* A note of the stream, as the listener meets it.                           *)
LEMMA FrameIs ==
    ASSUME IInv, FrameInv, NEW i \in 1 .. Len(sent[Me])
    PROVE  /\ i \in DOMAIN Out(Me) /\ Out(Me)[i] = sent[Me][i] /\ sent[Me][i] \in Message
           /\ FrameOK(sent[Me][i], requests)
           /\ IsNote(sent[Me][i]) =>
                 /\ sent[Me][i] \in Notice /\ sent[Me][i].row \in Rendered(sent[Me][i].block)
                 /\ HeadNote(sent[Me][i]) \/ LogNote(sent[Me][i])
                 /\ ToMessage(sent[Me][i]) \in Messages
<1>1. /\ sent[Me] \in Seq(Message) /\ queue[Me] \in Seq(Message)
    BY Alone, OutIs DEF IInv
<1>2. i \in DOMAIN Out(Me) /\ Out(Me)[i] = sent[Me][i] /\ sent[Me][i] \in Message
    <2>1. /\ DOMAIN (sent[Me] \o queue[Me]) = 1 .. Len(sent[Me]) + Len(queue[Me])
          /\ Len(sent[Me]) \in Nat /\ Len(queue[Me]) \in Nat
          /\ (sent[Me] \o queue[Me])[i] = sent[Me][i]
        BY <1>1, JoinAt
    <2>2. i \in 1 .. Len(sent[Me]) + Len(queue[Me])
        <3>1. \A n, k \in Nat : \A j \in 1 .. n : j \in 1 .. n + k
            OBVIOUS
        <3> QED BY <2>1, <3>1, Zenon
    <2>3. i \in DOMAIN Out(Me) /\ Out(Me)[i] = sent[Me][i]
        BY <2>1, <2>2, Zenon DEF Out
    <2> QED BY <1>1, <2>3, ElementOfSeq
<1>3. FrameOK(sent[Me][i], requests)
    BY <1>2 DEF FrameInv
<1>4. ASSUME IsNote(sent[Me][i])
      PROVE  /\ sent[Me][i] \in Notice /\ sent[Me][i].row \in Rendered(sent[Me][i].block)
             /\ HeadNote(sent[Me][i]) \/ LogNote(sent[Me][i])
    BY <1>2, <1>3, <1>4 DEF Message, Answer, IsNote, FrameOK
<1> QED BY <1>2, <1>3, <1>4, MessageOf

(* ... and in the pipeline.                                                  *)
LEMMA PipePart ==
    ASSUME IInv, SubsInv, AskInv, FrameInv, [RunNext]_runVars
    PROVE  [PipeNext]_pipeVars
<1>1. CASE ListenNote
    <2>1. taken + 1 \in 1 .. Len(sent[Me]) /\ IsNote(sent[Me][taken + 1])
        <3>1. Len(sent[Me]) \in Nat
            BY Alone, OutIs, LenProperties DEF IInv
        <3> QED BY <1>1, <3>1 DEF ListenNote, Unread, NextFrame, FrameInv
    <2>2. ToMessage(NextFrame) \in Messages
        BY <2>1, FrameIs DEF NextFrame
    <2> QED BY <1>1, <2>2 DEF ListenNote, PipeNext
<1>2. CASE NodeLeaves \/ SetStop \/ Step
    BY <1>2 DEF PipeNext
<1>3. CASE SeesClose \/ ConnectionLost
    BY <1>2, <1>3 DEF SeesClose, ConnectionLost, NodeLeaves
<1>4. CASE UNCHANGED pipeVars
    BY <1>4
<1>5. CASE NodeAnswers
    BY <1>5, <1>4, Answers
<1>6. CASE RunNext
    BY <1>1, <1>2, <1>3, <1>4, <1>5, <1>6
       DEF RunNext, ClientStep, ClientConnects, ClientCannotConnect, ClientGivesUp, ClientLoop,
           ClientCloses, ListenReply, Signal, NodeSend, NodeSendReturns, NodeReplays,
           NodeShutsDown, NodeSignal, Step, Setup
<1> QED BY <1>4, <1>6 DEF runVars

-----------------------------------------------------------------------------
(* What a step does to what the client gets: nothing, or messages go in      *)
(* behind the rest, and whatever an eviction left is in its old order.       *)
Quiet == /\ Out(Me)' = Out(Me) /\ drops'[Me] = drops[Me]
         /\ requests' = requests /\ subs'[Me] = subs[Me]
Gets(ms) ==
    /\ Out(Me)' \in Seq(Message)
    /\ \A i \in DOMAIN Out(Me)' : \/ \E k \in DOMAIN Out(Me) : Out(Me)'[i] = Out(Me)[k]
                                  \/ \E k \in DOMAIN ms : Out(Me)'[i] = ms[k]
    /\ drops'[Me] = 0 => drops[Me] = 0 /\ Out(Me)' = Out(Me) \o ms
Burst == UNCHANGED <<pipeVars, wire, requests, subs>>
         /\ \E B \in SUBSET (1 .. Len(Blocks)) : Gets(Notes(Me, ItemsOf(B)))
AnswersWith(a) ==
    /\ NodeAnswers /\ Gets(<<a>>)
    /\ a \in Answer
    /\ \/ a.type = "subscribed" /\ a.sub \in {1, 2}
       \/ a.type = "unsubscribed" /\ requests' > 2

LEMMA PutMeans ==
    ASSUME Types, NEW ms \in Seq(Message),
           sent'[Me] = sent[Me], queue'[Me] = Enqueue(Me, ms).queue,
           drops'[Me] = Enqueue(Me, ms).drops
    PROVE  Gets(ms)
<1>0. Me \in Client
    BY Alone
<1> DEFINE w == sent[Me] \o Enqueue(Me, ms).queue
<1>1. Out(Me)' = w
    BY DEF Out
<1>2. /\ Enqueue(Me, ms).queue \in Seq(Message)
      /\ Enqueue(Me, ms).drops = 0 => drops[Me] = 0 /\ w = Out(Me) \o ms
      /\ Thins(w, Out(Me) \o ms)
    BY <1>0, EnqueueFacts
<1>3. sent[Me] \in Seq(Message) /\ Out(Me) \in Seq(Message)
    BY <1>0, OutIs
<1>4. w \in Seq(Message)
    BY <1>2, <1>3
<1> HIDE DEF w
<1>5. ASSUME NEW i \in DOMAIN w
      PROVE  \/ \E k \in DOMAIN Out(Me) : w[i] = Out(Me)[k]
             \/ \E k \in DOMAIN ms : w[i] = ms[k]
    <2>1. PICK k \in DOMAIN (Out(Me) \o ms) : w[i] = (Out(Me) \o ms)[k]
        <3>1. PICK f \in [DOMAIN w -> DOMAIN (Out(Me) \o ms)] :
                 \A j \in DOMAIN w : w[j] = (Out(Me) \o ms)[f[j]]
            BY <1>2 DEF Thins
        <3>2. f[i] \in DOMAIN (Out(Me) \o ms) /\ w[i] = (Out(Me) \o ms)[f[i]]
            BY <1>5, <3>1, Zenon
        <3> QED BY <3>2
    <2>2. /\ DOMAIN Out(Me) = 1 .. Len(Out(Me)) /\ Len(Out(Me)) \in Nat
          /\ DOMAIN (Out(Me) \o ms) = 1 .. Len(Out(Me)) + Len(ms) /\ Len(ms) \in Nat
          /\ \A j \in 1 .. Len(Out(Me)) : (Out(Me) \o ms)[j] = Out(Me)[j]
          /\ \A j \in 1 .. Len(ms) : (Out(Me) \o ms)[Len(Out(Me)) + j] = ms[j]
          /\ DOMAIN ms = 1 .. Len(ms)
          /\ k \in DOMAIN Out(Me) \/ (k > Len(Out(Me)) /\ k - Len(Out(Me)) \in DOMAIN ms)
        BY <1>3, JoinAt
    <2>3. CASE k \in DOMAIN Out(Me)
        BY <2>1, <2>2, <2>3
    <2>4. CASE k > Len(Out(Me)) /\ k - Len(Out(Me)) \in DOMAIN ms
        <3>1. k = Len(Out(Me)) + (k - Len(Out(Me)))
            BY <2>2
        <3> QED BY <2>1, <2>2, <2>4, <3>1
    <2> QED BY <2>2, <2>3, <2>4
<1> QED BY <1>1, <1>2, <1>4, <1>5 DEF Gets

LEMMA AnswerMoves ==
    ASSUME SubsInv, AskInv, NodeAnswers
    PROVE  /\ requests \in 0 .. 3 /\ requests' = requests + 1 /\ requests < MaxRequests
           /\ conn[Me] = "open" /\ UNCHANGED <<conn, sent>>
<1>1. CASE Request(Me)
    BY <1>1, Answers DEF Request, SubsInv
<1> QED BY <1>1, Answers DEF Subscribe, Unsubscribe

(* The connection: nothing but the client opens it.                          *)
LEMMA ConnMoves ==
    ASSUME Types, AskInv, SubsInv, [RunNext]_runVars
    PROVE  /\ conn'[Me] = "new" => conn[Me] = "new" /\ ~ClientConnects
           /\ conn[Me] = "new" => conn'[Me] = "new" \/ ClientConnects
<1>0. Me \in Client /\ conn \in [Client -> {"new", "open", "closing", "gone"}]
    BY Alone DEF Types, TypeOK
<1>1. CASE UNCHANGED conn /\ ~ClientConnects
    BY <1>1
<1>2. CASE Disconnect(Me) \/ Discard(Me)
    <2>1. conn[Me] # "new" /\ conn'[Me] # "new" /\ conn' # conn
        BY <1>0, <1>2 DEF Disconnect, Discard
    <2>2. ~ClientConnects
        BY <2>1 DEF ClientConnects, Connect
    <2> QED BY <2>1, <2>2
<1>3. CASE ClientConnects
    <2>1. conn'[Me] = "open"
        BY <1>0, <1>3 DEF ClientConnects, Connect
    <2> QED BY <1>3, <2>1
<1>4. CASE CloseAll
    <2>1. conn[Me] = "new" <=> conn'[Me] = "new"
        BY <1>0, <1>4 DEF CloseAll, InServer
    <2> QED BY <2>1, <1>3
<1>5. CASE HangUp
    BY <1>1, <1>2, <1>3, <1>5 DEF HangUp, vars, clientVars
<1>6. CASE NodeAnswers
    <2>1. UNCHANGED conn
        BY <1>6, AnswerMoves
    <2> QED BY <1>1, <1>3, <2>1
<1>7. CASE ReplayStep \/ RequestStop
    <2>1. UNCHANGED conn
        BY <1>7 DEF ReplayStep, ReplayStart, ReplayWake, ReplayEndsEarly, Emit, RequestStop, clientVars
    <2> QED BY <1>1, <1>3, <2>1
<1>8. CASE StopStep
    <2>1. UNCHANGED conn \/ CloseAll
        BY <1>8 DEF StopStep, RunStop, DrainNext, DrainDeadline, clientVars
    <2> QED BY <1>1, <1>3, <1>4, <2>1
<1>9. CASE UNCHANGED vars
    BY <1>1, <1>3, <1>9 DEF vars, clientVars
<1>10. CASE WriterSend(Me) \/ WriterResume(Me)
    <2>1. UNCHANGED conn
        BY <1>10 DEF WriterSend, WriterResume
    <2> QED BY <1>1, <1>3, <2>1
<1>11. CASE RunNext
    BY <1>2, <1>3, <1>5, <1>6, <1>7, <1>8, <1>9, <1>10, <1>11
       DEF RunNext, ClientStep, ClientCannotConnect, ClientGivesUp, ClientLoop,
           ClientCloses, ListenNote, ListenReply, SeesClose, Signal, ConnectionLost, NodeSend,
           NodeSendReturns, NodeReplays, NodeShutsDown, NodeSignal
<1> QED BY <1>9, <1>11 DEF runVars

(* What was sent stays.                                                      *)
LEMMA SentGrows ==
    ASSUME Types, AskInv, SubsInv, [RunNext]_runVars
    PROVE  /\ Len(sent[Me]) \in Nat /\ Len(sent'[Me]) \in Nat /\ Len(sent[Me]) <= Len(sent'[Me])
           /\ \A i \in 1 .. Len(sent[Me]) : sent'[Me][i] = sent[Me][i]
<1>0. Me \in Client /\ sent[Me] \in Seq(Message) /\ Len(sent[Me]) \in Nat
    BY Alone, OutIs, LenProperties
<1>1. CASE UNCHANGED sent
    BY <1>0, <1>1
<1>2. CASE WriterSend(Me)
    <2>1. /\ sent' = [sent EXCEPT ![Me] = Append(sent[Me], Head(queue[Me]))]
          /\ queue[Me] # << >>
        BY <1>0, <1>2, WriterMoves
    <2>2. sent'[Me] = Append(sent[Me], Head(queue[Me]))
        BY <1>0, <2>1 DEF Types
    <2>3. queue[Me] \in Seq(Message) /\ Head(queue[Me]) \in Message
        BY <1>0, <2>1, OutIs, HeadTailProperties
    <2> QED BY <1>0, <2>2, <2>3, AppendProperties
<1>3. CASE NodeAnswers
    BY <1>1, <1>3, AnswerMoves
<1>4. CASE ReplayStep \/ RequestStop \/ StopStep
    BY <1>1, <1>4 DEF ReplayStep, ReplayStart, ReplayWake, ReplayEndsEarly, Emit, RequestStop,
                      StopStep, RunStop, DrainNext, DrainDeadline, CloseAll, clientVars
<1>5. CASE UNCHANGED vars
    BY <1>1, <1>5 DEF vars, clientVars
<1>6. CASE HangUp
    BY <1>1, <1>5, <1>6 DEF HangUp, Disconnect
<1>7. CASE RunNext
    BY <1>1, <1>2, <1>3, <1>4, <1>5, <1>6, <1>7
       DEF RunNext, ClientStep, ClientConnects, Connect, ClientCannotConnect, ClientGivesUp, ClientLoop,
           ClientCloses, ListenNote, ListenReply, SeesClose, Signal, ConnectionLost, Disconnect, NodeSend,
           NodeSendReturns, WriterResume, NodeReplays, NodeShutsDown, Discard, NodeSignal
<1> QED BY <1>5, <1>7 DEF runVars

LEMMA NodeEffect ==
    ASSUME IInv, AskInv, SubsInv, [RunNext]_runVars
    PROVE  \/ Quiet /\ ~NodeAnswers
           \/ Burst
           \/ \E a \in Answer : AnswersWith(a)
<1>0. Me \in Client /\ Types /\ requests \in Nat /\ queue[Me] \in Seq(Message) /\ SubsOK(Me)
    BY Alone, OutIs DEF IInv, ClientOK, StreamOK
<1>1. CASE UNCHANGED <<subs, queue, sent, drops, requests>>
    <2>1. ~NodeAnswers
        BY <1>0, <1>1, AnswerMoves
    <2> QED BY <1>1, <2>1 DEF Quiet, Out
<1>2. CASE WriterSend(Me)
    <2>1. Out(Me)' = Out(Me)
        BY <1>0, <1>2, WriterMoves
    <2>2. UNCHANGED <<subs, drops, requests>>
        BY <1>2 DEF WriterSend
    <2>3. ~NodeAnswers
        BY <1>0, <2>2, AnswerMoves
    <2> QED BY <2>1, <2>2, <2>3 DEF Quiet
<1>3. CASE NodeAnswers
    <2>1. PICK a \in Answer :
             /\ PutReply(Me, a)
             /\ \/ a.type = "subscribed" /\ a.sub \in {1, 2}
                \/ a.type = "unsubscribed" /\ requests' > 2
        <3>1. CASE Subscribe(Me, "newHeads", {}) /\ requests = 0
            <4>1. PutReply(Me, Reply("subscribed", 1)) /\ 1 <= MaxRequests
                BY <3>1, BoundsAssumption DEF Subscribe, Request
            <4>2. Reply("subscribed", 1) \in Answer
                BY <4>1, BoundsAssumption DEF Answer, Reply
            <4> QED BY <4>1, <4>2 DEF Reply
        <3>2. CASE Subscribe(Me, "logs", Whitelist) /\ requests = 1
            <4>1. PutReply(Me, Reply("subscribed", 2)) /\ 2 <= MaxRequests
                BY <3>2, BoundsAssumption DEF Subscribe, Request
            <4>2. Reply("subscribed", 2) \in Answer
                BY <4>1, BoundsAssumption DEF Answer, Reply
            <4> QED BY <4>1, <4>2 DEF Reply
        <3>3. ASSUME NEW n \in {1, 2}, requests = n + 1, Unsubscribe(Me, n)
              PROVE  \E a \in Answer :
                        /\ PutReply(Me, a)
                        /\ a.type = "unsubscribed" /\ requests' > 2
            <4>1. PutReply(Me, Reply("unsubscribed", n)) /\ n <= MaxRequests /\ requests' > 2
                BY <3>3, BoundsAssumption DEF Unsubscribe, Request
            <4>2. Reply("unsubscribed", n) \in Answer
                BY <4>1, BoundsAssumption DEF Answer, Reply
            <4> QED BY <4>1, <4>2 DEF Reply
        <3> QED BY <1>3, <3>1, <3>2, <3>3, Answers
    <2>2. <<a>> \in Seq(Message) /\ sent' = sent
        BY <1>3, AnswerMoves DEF Message
    <2>3. queue'[Me] = Enqueue(Me, <<a>>).queue /\ drops'[Me] = Enqueue(Me, <<a>>).drops
        BY <1>0, <2>1 DEF PutReply, Types, TypeOK
    <2>4. Gets(<<a>>)
        BY <1>0, <2>2, <2>3, PutMeans
    <2> QED BY <1>3, <2>1, <2>4 DEF AnswersWith
<1>4. CASE NodeReplays /\ (ReplayStart \/ ReplayWake)
    <2> DEFINE b == replay.next
               B == b .. BurstEnd(b)
               ms == Notes(Me, ItemsOf(B))
    <2>1. b \in 1 .. Len(Blocks) /\ Emit(b)
        BY <1>4, Replays
    <2>2. BurstEnd(b) \in b .. Len(Blocks)
        BY <2>1, BurstEndFacts
    <2>3. B \in SUBSET (1 .. Len(Blocks))
        <3>1. \A n, x \in Nat : \A k \in 1 .. n : x \in k .. n => k .. x \subseteq 1 .. n
            OBVIOUS
        <3>2. Len(Blocks) \in Nat
            BY BlocksAssumption
        <3>3. BurstEnd(b) \in Nat
            BY <2>1, <2>2, <3>2
        <3> QED BY <2>1, <2>2, <3>1, <3>2, <3>3
    <2>4. /\ UNCHANGED <<subs, sent, requests>>
          /\ Me \in InServer => /\ queue'[Me] = Enqueue(Me, ms).queue
                                /\ drops'[Me] = Enqueue(Me, ms).drops
          /\ Me \notin InServer => queue'[Me] = queue[Me] /\ drops'[Me] = drops[Me]
        BY <1>0, <2>1 DEF Emit
    <2>5. UNCHANGED <<pipeVars, wire>>
        BY <1>4 DEF NodeReplays
    <2> HIDE DEF b, B
    <2>6. ms \in Seq(Message)
        BY <1>0, <2>3, NotesFacts
    <2>7. CASE Me \in InServer
        <3>1. Gets(ms)
            <4> HIDE DEF ms
            <4> QED BY <1>0, <2>4, <2>6, <2>7, PutMeans
        <3> QED BY <2>3, <2>4, <2>5, <3>1 DEF Burst
    <2>8. CASE Me \notin InServer
        <3>1. ~NodeAnswers
            BY <1>0, <2>4, AnswerMoves
        <3> QED BY <2>4, <2>8, <3>1 DEF Quiet, Out
    <2> QED BY <2>7, <2>8
<1>5. CASE ReplayEndsEarly \/ RequestStop \/ StopStep
    BY <1>1, <1>5 DEF ReplayEndsEarly, RequestStop, StopStep, RunStop, DrainNext, DrainDeadline,
                      CloseAll, clientVars
<1>6. CASE UNCHANGED vars
    BY <1>1, <1>6 DEF vars, clientVars
<1>7. CASE HangUp
    BY <1>1, <1>6, <1>7 DEF HangUp, Disconnect
<1>8. CASE RunNext
    BY <1>1, <1>2, <1>3, <1>4, <1>5, <1>6, <1>7, <1>8
       DEF RunNext, ClientStep, ClientConnects, Connect, ClientCannotConnect, ClientGivesUp, ClientLoop,
           ClientCloses, ListenNote, ListenReply, SeesClose, Signal, ConnectionLost, Disconnect, NodeSend,
           NodeSendReturns, WriterResume, NodeReplays, ReplayStep, NodeShutsDown, Discard, NodeSignal
<1> QED BY <1>6, <1>8 DEF runVars

-----------------------------------------------------------------------------
(* One step keeps each part.  The subscriptions follow the requests.         *)
LEMMA HeldIs ==
    /\ Held(0) = {} /\ Held(1) = {1} /\ Held(2) = {1, 2} /\ Held(3) = {2} /\ Held(4) = {}
BY DEF Held

LEMMA SubsStep ==
    ASSUME IInv, SubsInv, AskInv, [RunNext]_runVars
    PROVE  SubsInv'
<1>0. Me \in Client /\ Types /\ SubsOK(Me) /\ LogFilter \in SUBSET Address
    BY Alone DEF IInv, ClientOK, StreamOK
<1>1. CASE subs'[Me] = subs[Me] /\ requests' = requests
    BY <1>1 DEF SubsInv, OwnIds
<1>2. ASSUME NEW t, subs'[Me] = subs[Me] \cup {t}, t.id = requests + 1, t.since = replay.next,
             requests' = requests + 1,
             \/ requests = 0 /\ t.kind = "newHeads"
             \/ requests = 1 /\ t.kind = "logs" /\ t.addresses = LogFilter
      PROVE  SubsInv'
    <2>1. OwnIds(Me)' = Held(requests) \cup {t.id}
        BY <1>2 DEF SubsInv, OwnIds
    <2>2. OwnIds(Me)' = Held(requests)'
        BY <1>2, <2>1, HeldIs
    <2>3. \A s \in subs[Me] : s.id \in Held(requests) /\ s.id # t.id /\ s.id <= t.id
                              /\ s.since <= t.since /\ s.id \in Nat
        <3>1. \A s \in subs[Me] : s.id \in Held(requests)
            BY DEF SubsInv, OwnIds
        <3>2. \A s \in subs[Me] : s.id = 1 /\ requests = 1
            BY <1>2, <3>1, HeldIs
        <3> QED BY <1>0, <1>2, <3>1, <3>2 DEF SubsOK
    <2>4. \A s \in subs'[Me] :
             \/ s.id = 1 /\ s.kind = "newHeads"
             \/ s.id = 2 /\ s.kind = "logs" /\ s.addresses = LogFilter
        BY <1>2 DEF SubsInv
    <2>5. ASSUME NEW s \in subs'[Me], NEW u \in subs'[Me], s.id <= u.id
          PROVE  s.since <= u.since
        <3>1. t.since \in Nat /\ t.id \in Nat
            BY <1>0, <1>2, OutIs
        <3>2. CASE s \in subs[Me] /\ u \in subs[Me]
            BY <2>5, <3>2 DEF SubsInv
        <3>3. CASE u = t
            BY <1>2, <2>3, <3>1, <3>3
        <3>4. CASE s = t /\ u \in subs[Me]
            BY <2>3, <2>5, <3>1, <3>4
        <3> QED BY <1>2, <3>2, <3>3, <3>4
    <2>6. requests' \in 0 .. 4
        BY <1>2
    <2> QED BY <2>2, <2>4, <2>5, <2>6 DEF SubsInv
<1>3. ASSUME NEW n \in {1, 2}, requests = n + 1, requests' = requests + 1,
             subs'[Me] = {s \in subs[Me] : s.id # n}
      PROVE  SubsInv'
    <2>1. OwnIds(Me)' = Held(requests) \ {n}
        BY <1>3 DEF SubsInv, OwnIds
    <2>2. OwnIds(Me)' = Held(requests)'
        BY <1>3, <2>1, HeldIs
    <2> QED BY <1>3, <2>2 DEF SubsInv
<1>4. CASE NodeAnswers
    <2>1. requests' = requests + 1 /\ subs \in [Client -> SUBSET Subscription]
        BY <1>0, <1>4, AnswerMoves DEF Types, TypeOK
    <2>2. ASSUME NEW kind, NEW f, Subscribe(Me, kind, f)
          PROVE  \E t : /\ subs'[Me] = subs[Me] \cup {t} /\ t.id = requests + 1
                        /\ t.kind = kind /\ t.since = replay.next
                        /\ t.addresses = IF f = {} THEN Address ELSE f
        <3> DEFINE t == [id |-> requests + 1, kind |-> kind,
                         addresses |-> IF f = {} THEN Address ELSE f, since |-> replay.next]
        <3>1. subs'[Me] = subs[Me] \cup {t}
            BY <1>0, <2>1, <2>2 DEF Subscribe
        <3>2. /\ t.id = requests + 1 /\ t.kind = kind /\ t.since = replay.next
              /\ t.addresses = IF f = {} THEN Address ELSE f
            OBVIOUS
        <3> HIDE DEF t
        <3> QED BY <3>1, <3>2
    <2>3. CASE Subscribe(Me, "newHeads", {}) /\ requests = 0
        BY <1>2, <2>1, <2>2, <2>3
    <2>4. CASE Subscribe(Me, "logs", Whitelist) /\ requests = 1
        <3>1. PICK t : /\ subs'[Me] = subs[Me] \cup {t} /\ t.id = requests + 1
                       /\ t.kind = "logs" /\ t.since = replay.next
                       /\ t.addresses = LogFilter
            BY <2>2, <2>4 DEF LogFilter
        <3> QED BY <1>2, <2>1, <2>4, <3>1
    <2>5. ASSUME NEW n \in {1, 2}, requests = n + 1, Unsubscribe(Me, n)
          PROVE  SubsInv'
        <3>1. subs'[Me] = {s \in subs[Me] : s.id # n}
            BY <1>0, <2>1, <2>5 DEF Unsubscribe
        <3> QED BY <1>3, <2>1, <2>5, <3>1
    <2> QED BY <1>4, <2>3, <2>4, <2>5, Answers
<1> QED BY <1>1, <1>4, NodeEffect DEF Quiet, Burst, AnswersWith

(* A message of the node's that is not a notification, as the client reads   *)
(* it: the answer to its first or to its second request.                     *)
LEMMA AnswerRead ==
    ASSUME IInv, SubsInv, AskInv, FrameInv, ListenReply
    PROVE  /\ taken + 1 \in 1 .. Len(sent[Me]) /\ taken' = taken + 1
           /\ phase = "subHeads" => requests = 1 /\ sent[Me][taken + 1] = Reply("subscribed", 1)
           /\ phase = "subLogs" => requests = 2
<1>1. Len(sent[Me]) \in Nat /\ taken \in Nat
    BY Alone, OutIs, LenProperties DEF IInv, FrameInv
<1> DEFINE i == taken + 1
           m == sent[Me][i]
<1>2. i \in 1 .. Len(sent[Me]) /\ ~IsNote(m) /\ taken' = taken + 1
    BY <1>1 DEF ListenReply, Unread, NextFrame, FrameInv
<1> HIDE DEF i
<1>3. i \in DOMAIN Out(Me) /\ Out(Me)[i] = m /\ m \in Message /\ FrameOK(m, requests)
    BY <1>2, FrameIs
<1>4. m.sub <= requests
    <2>1. Known(Me)
        BY Alone DEF IInv, ClientOK, StreamOK
    <2> QED BY <1>3, <2>1 DEF Known
<1>5. requests \in Nat
    BY DEF SubsInv
<1>6. ASSUME requests <= 2
      PROVE  m.sub \in {1, 2} /\ m.sub <= requests /\ m = Reply("subscribed", m.sub)
    <2>1. m.type = "subscribed" /\ m.sub \in {1, 2}
        BY <1>2, <1>3, <1>5, <1>6 DEF FrameOK, HeadNote, LogNote
    <2>2. m = [type |-> "subscribed", sub |-> m.sub]
        <3>1. m \in Answer
            BY <1>3, <2>1 DEF Message, Notice
        <3> QED BY <2>1, <3>1 DEF Answer
    <2> QED BY <1>4, <2>1, <2>2 DEF Reply
<1>7. ASSUME phase = "subHeads" PROVE requests = 1 /\ m = Reply("subscribed", 1)
    <2>1. requests <= 1
        BY <1>7 DEF AskInv
    <2> QED BY <1>5, <1>6, <2>1
<1>8. ASSUME phase = "subLogs" PROVE requests = 2
    <2>1. requests \in 1 .. 2 /\ \E k \in 1 .. taken : sent[Me][k] = Reply("subscribed", 1)
        BY <1>8 DEF AskInv
    <2>2. PICK k \in 1 .. taken : sent[Me][k] = Reply("subscribed", 1)
        BY <2>1
    <2>3. k \in 1 .. Len(sent[Me]) /\ k < i /\ k \in Int /\ i \in Int
        BY <1>1, <1>2 DEF i
    <2>4. k \in DOMAIN Out(Me) /\ Out(Me)[k] = Reply("subscribed", 1)
        BY <2>2, <2>3, FrameIs
    <2>5. InLine(Out(Me)[k], Out(Me)[i])
        <3>1. AllInLine(Out(Me))
            BY Alone DEF IInv, ClientOK, StreamOK
        <3> QED BY <1>3, <2>3, <2>4, <3>1 DEF AllInLine
    <2>6. m.sub # 1
        BY <1>3, <1>6, <2>1, <2>4, <2>5 DEF InLine, Reply
    <2> QED BY <1>6, <2>1, <2>6
<1> QED BY <1>2, <1>7, <1>8 DEF i

LEMMA AskStep ==
    ASSUME IInv, SubsInv, AskInv, FrameInv, [RunNext]_runVars
    PROVE  AskInv'
<1>0. Types /\ Me \in Client /\ Len(sent[Me]) \in Nat /\ taken \in 0 .. Len(sent[Me])
    BY Alone, OutIs, LenProperties DEF IInv, FrameInv
<1>1. ASSUME taken' = taken \/ taken' = taken + 1,
             \E i \in 1 .. taken : sent[Me][i] = Reply("subscribed", 1)
      PROVE  \E i \in 1 .. taken' : sent'[Me][i] = Reply("subscribed", 1)
    <2>1. PICK i \in 1 .. taken : sent[Me][i] = Reply("subscribed", 1)
        BY <1>1
    <2>2. i \in 1 .. taken' /\ i \in 1 .. Len(sent[Me])
        BY <1>0, <1>1
    <2>3. sent'[Me][i] = sent[Me][i]
        BY <1>0, <2>2, SentGrows
    <2> QED BY <2>1, <2>2, <2>3
<1>2. /\ conn'[Me] = "new" => conn[Me] = "new" /\ ~ClientConnects
      /\ conn[Me] = "new" => conn'[Me] = "new" \/ ClientConnects
    BY <1>0, ConnMoves
<1>3. ASSUME UNCHANGED <<asked, phase, requests, connected>>, taken' = taken \/ taken' = taken + 1
      PROVE  AskInv'
    <2>1. ~ClientConnects
        BY <1>3 DEF ClientConnects, ConnectSucceeds
    <2> QED BY <1>1, <1>2, <1>3, <2>1 DEF AskInv
<1>4. ASSUME connected = "up", UNCHANGED <<phase, requests, taken>>,
             asked' = asked \/ asked' = << >>
      PROVE  AskInv'
    <2>1. conn[Me] # "new"
        BY <1>4 DEF AskInv
    <2>2. conn'[Me] # "new" /\ phase # "connecting"
        BY <1>2, <2>1 DEF AskInv
    <2> QED BY <1>1, <1>4, <2>1, <2>2 DEF AskInv
<1>5. ASSUME phase' = "done", asked' = << >>, requests' = requests,
             connected' = "no" \/ (connected' = connected /\ phase = "connecting")
      PROVE  AskInv'
    BY <1>2, <1>5 DEF AskInv
<1>6. ASSUME asked' = << >>, phase \in {"subHeads", "subLogs", "closing"},
             phase = "subHeads" => requests' \in 0 .. 1,
             phase = "subLogs" => requests' \in 1 .. 2,
             UNCHANGED <<phase, connected, taken>>
      PROVE  AskInv'
    <2>1. conn[Me] # "new" /\ conn'[Me] # "new"
        BY <1>2, <1>6 DEF AskInv
    <2> QED BY <1>1, <1>6, <2>1 DEF AskInv
<1>7. CASE ClientConnects
    <2>1. /\ phase' = "subHeads" /\ requests = 0 /\ UNCHANGED <<requests, taken>>
          /\ asked' = <<"newHeads">>
        BY <1>7 DEF ClientConnects, ConnectSucceeds, Connect, AskInv
    <2> QED BY <1>2, <1>7, <2>1 DEF AskInv
<1>9. CASE ClientLoop
    <2>1. phase = "waiting" /\ phase' \in {"waiting", "closing"} /\ UNCHANGED <<requests, taken>>
        BY <1>9 DEF ClientLoop, Loop, Consume, Idle, StreamEnds, OnHead, OnMalformedHead,
                    OnSkippedLog, OnEvent, Take, NextRound, vars
    <2>2. requests = 2 /\ asked = << >> /\ conn[Me] # "new"
        BY <2>1 DEF AskInv
    <2>3. conn'[Me] # "new"
        BY <1>2, <2>2
    <2>4. \/ asked' = <<"unsubscribe", "unsubscribe">> /\ phase' = "closing"
          \/ asked' = << >>
        BY <1>9, <2>2 DEF ClientLoop, Unsubscribes
    <2> QED BY <2>1, <2>2, <2>3, <2>4 DEF AskInv
<1>10. CASE NodeAnswers
    <2>1. requests' = requests + 1 /\ UNCHANGED <<phase, connected, taken>>
        BY <1>10, Answers, AnswerMoves DEF pipeVars, nodeVars
    <2>2. CASE requests = 2
        <3>1. phase = "closing" /\ asked' = <<"unsubscribe">> /\ requests' = 3
            BY <1>10, <2>1, <2>2, Answers DEF AskInv
        <3>2. conn'[Me] # "new"
            BY <1>2, <3>1 DEF AskInv
        <3> QED BY <2>1, <3>1, <3>2 DEF AskInv
    <2>3. CASE requests # 2
        <3>1. /\ asked' = << >> /\ phase \in {"subHeads", "subLogs", "closing"}
              /\ phase = "subHeads" => requests = 0
              /\ phase = "subLogs" => requests = 1
            BY <1>10, <2>3, Answers DEF AskInv
        <3> QED BY <1>6, <2>1, <3>1
    <2> QED BY <2>2, <2>3
<1>11. CASE ListenReply
    <2>1. /\ taken + 1 \in 1 .. Len(sent[Me]) /\ taken' = taken + 1
          /\ phase = "subHeads" => requests = 1 /\ sent[Me][taken + 1] = Reply("subscribed", 1)
          /\ phase = "subLogs" => requests = 2
        BY <1>11, AnswerRead
    <2>2. UNCHANGED <<requests, sent>>
        BY <1>11 DEF ListenReply, vars, clientVars
    <2>3. CASE HeadsSubscribed /\ asked' = <<"logs">>
        <3>1. phase = "subHeads" /\ phase' = "subLogs"
            BY <2>3 DEF HeadsSubscribed
        <3>2. conn'[Me] # "new"
            BY <1>2, <3>1 DEF AskInv
        <3>3. \E i \in 1 .. taken' : sent'[Me][i] = Reply("subscribed", 1)
            <4>1. taken + 1 \in 1 .. taken'
                BY <2>1
            <4> QED BY <2>1, <2>2, <3>1, <4>1
        <3> QED BY <2>1, <2>2, <2>3, <3>1, <3>2, <3>3 DEF AskInv
    <2>4. CASE LogsSubscribed /\ Unsubscribes
        <3>1. phase = "subLogs" /\ phase' \in {"waiting", "closing"} /\ requests = 2
            BY <2>1, <2>4 DEF LogsSubscribed, NextRound
        <3>2. asked = << >>
            BY <3>1 DEF AskInv
        <3>3. \/ asked' = <<"unsubscribe", "unsubscribe">> /\ phase' = "closing"
              \/ asked' = << >>
            BY <2>4, <3>2 DEF Unsubscribes
        <3>4. conn'[Me] # "new"
            BY <1>2, <3>1 DEF AskInv
        <3> QED BY <2>2, <3>1, <3>3, <3>4 DEF AskInv
    <2>5. CASE phase = "closing" /\ UNCHANGED <<pipeVars, asked>>
        BY <1>3, <2>1, <2>2, <2>5 DEF pipeVars, nodeVars
    <2> QED BY <1>11, <2>3, <2>4, <2>5 DEF ListenReply
<1>12. CASE ClientCannotConnect
    <2>1. phase = "connecting" /\ phase' = "done" /\ UNCHANGED <<requests, asked, connected>>
        BY <1>12 DEF ClientCannotConnect, ConnectFails, vars, wire, nodeVars
    <2>2. asked = << >>
        BY <2>1 DEF AskInv
    <2> QED BY <1>5, <2>1, <2>2
<1>13. CASE ClientGivesUp \/ ClientCloses
    <2>1. phase' = "done" /\ connected' = "no" /\ asked' = << >> /\ requests' = requests
        BY <1>13 DEF ClientGivesUp, ClientCloses, SubscribeFails, Close, HangUp, Disconnect, vars
    <2> QED BY <1>5, <2>1
<1>14. CASE SeesClose \/ ConnectionLost
    <2>1. /\ connected = "up" /\ UNCHANGED <<phase, requests, taken>>
          /\ asked' = asked \/ asked' = << >>
        BY <1>14 DEF SeesClose, ConnectionLost, Disconnect, vars, wire
    <2> QED BY <1>4, <2>1
<1>15. CASE ListenNote
    <2>1. UNCHANGED <<asked, phase, requests, connected>> /\ taken' = taken + 1
        BY <1>15 DEF ListenNote, NodeSends, vars, nodeVars
    <2> QED BY <1>3, <2>1
<1>16. CASE Signal
    <2>1. UNCHANGED <<asked, phase, requests, connected, taken>>
        BY <1>16 DEF Signal, SetStop, vars, wire
    <2> QED BY <1>3, <2>1
<1>17. CASE NodeSend \/ NodeSendReturns \/ NodeReplays \/ NodeShutsDown \/ NodeSignal
    <2>1. UNCHANGED <<asked, phase, connected, taken>>
        BY <1>17 DEF NodeSend, NodeSendReturns, NodeReplays, NodeShutsDown, NodeSignal, pipeVars,
                     nodeVars, wire
    <2>2. requests' = requests
        BY <1>17 DEF NodeSend, NodeSendReturns, NodeReplays, NodeShutsDown, NodeSignal, WriterSend,
                     WriterResume, ReplayStep, ReplayStart, ReplayWake, ReplayEndsEarly, Emit,
                     StopStep, RunStop, DrainNext, DrainDeadline, CloseAll, Discard, RequestStop
    <2> QED BY <1>3, <2>1, <2>2
<1>18. CASE UNCHANGED runVars
    <2>1. UNCHANGED <<asked, phase, requests, connected, taken>>
        BY <1>18 DEF runVars, vars, pipeVars, nodeVars, wire
    <2> QED BY <1>3, <2>1
<1> QED BY <1>7, <1>9, <1>10, <1>11, <1>12, <1>13, <1>14, <1>15, <1>16, <1>17, <1>18
        DEF RunNext, ClientStep

-----------------------------------------------------------------------------
(* What a burst makes for the client: heads and logs of well-formed blocks,  *)
(* the head of a block ahead of its logs while both subscriptions are held.  *)
LEMMA BurstNotes ==
    ASSUME IInv, SubsInv, NEW B \in SUBSET (1 .. Len(Blocks)), NEW ms,
           ms = Notes(Me, ItemsOf(B))
    PROVE  /\ ms \in Seq(Message)
           /\ \A k \in DOMAIN ms : /\ ms[k] \in Notice
                                   /\ HeadNote(ms[k]) \/ LogNote(ms[k])
                                   /\ ms[k].row \in Rendered(ms[k].block)
                                   /\ ms[k].sub \in Held(requests)
           /\ requests = 2 => \A k \in DOMAIN ms : LogNote(ms[k]) =>
                 \E i \in 1 .. k - 1 : i \in DOMAIN ms /\ HeadNote(ms[i])
                                       /\ ms[i].block = ms[k].block
<1>0. Me \in Client /\ Types /\ SubsOK(Me) /\ requests \in Nat
    BY Alone, OutIs DEF IInv, ClientOK, StreamOK
<1> DEFINE S == Due(Me, B)
<1>1. ms = InTurn(S)
    BY DEF Notes, Due
<1>2. S \in SUBSET Notice /\ IsFiniteSet(S)
    BY <1>0, DueFacts
<1>3. \A m : m \in S <=> \E s \in subs[Me] : \E x \in ItemsOf(B) : Matches(s, x) /\ m = Note(s.id, x)
    BY DueMeans
<1> HIDE DEF S
<1>4. /\ ms \in Seq(S) /\ ms \in Seq(Message)
      /\ \A i, j \in DOMAIN ms : i < j => Earlier(ms[i], ms[j])
      /\ \A m \in S : \E i \in DOMAIN ms : ms[i] = m
    BY <1>1, <1>2, InTurnFacts
<1>5. \A k \in DOMAIN ms : ms[k] \in S
    BY <1>4, ElementOfSeq, LenProperties
<1>6. ASSUME NEW m \in S
      PROVE  /\ HeadNote(m) \/ LogNote(m)
             /\ m.row \in Rendered(m.block) /\ m.block \in B
             /\ m.sub \in Held(requests)
    <2>1. PICK s \in subs[Me] : \E x \in ItemsOf(B) : Matches(s, x) /\ m = Note(s.id, x)
        BY <1>3
    <2>2. PICK x \in ItemsOf(B) : Matches(s, x) /\ m = Note(s.id, x)
        BY <2>1
    <2>3. PICK b \in B : \E r \in Rendered(b) : x = [block |-> b, row |-> r]
        BY ItemsMeans
    <2>4. x.block \in B /\ x.row \in Rendered(x.block)
        BY <2>3
    <2>5. m.type = "note" /\ m.sub = s.id /\ m.block = x.block /\ m.row = x.row
        BY <2>2 DEF Note
    <2>6. \/ s.id = 1 /\ s.kind = "newHeads"
          \/ s.id = 2 /\ s.kind = "logs" /\ s.addresses = LogFilter
        BY DEF SubsInv
    <2>7. s.id \in Held(requests)
        BY DEF SubsInv, OwnIds
    <2> QED BY <2>2, <2>4, <2>5, <2>6, <2>7 DEF Matches, HeadNote, LogNote, IsNote
<1>7. ASSUME requests = 2, NEW k \in DOMAIN ms, LogNote(ms[k])
      PROVE  \E i \in 1 .. k - 1 : i \in DOMAIN ms /\ HeadNote(ms[i])
                                   /\ ms[i].block = ms[k].block
    <2> DEFINE b == ms[k].block
               x == [block |-> b, row |-> 0]
               h == Note(1, x)
    <2>1. b \in B /\ 0 \in Rendered(b)
        BY <1>5, <1>6 DEF Rendered
    <2>2. x \in ItemsOf(B)
        BY <2>1, ItemsMeans
    <2>3. PICK s \in subs[Me] : s.id = 1 /\ s.kind = "newHeads"
        <3>1. 1 \in OwnIds(Me)
            BY <1>7, HeldIs DEF SubsInv
        <3> QED BY <3>1 DEF SubsInv, OwnIds
    <2>4. h \in S
        <3>1. Matches(s, x) /\ h = Note(s.id, x)
            BY <2>3 DEF Matches
        <3> HIDE DEF h, x
        <3> QED BY <1>3, <2>2, <3>1
    <2>5. h.block = b /\ h.row = 0 /\ HeadNote(h)
        BY DEF Note, HeadNote, IsNote
    <2> HIDE DEF h
    <2>6. PICK i \in DOMAIN ms : ms[i] = h
        BY <1>4, <2>4
    <2>7. ms[k].row \in Nat /\ ms[k].row # 0 /\ b \in Nat
        <3>1. ms[k] \in Notice
            BY <1>2, <1>5
        <3> QED BY <1>7, <3>1, NoticeFields DEF LogNote
    <2>8. i \in Nat /\ k \in Nat /\ i >= 1
        BY <1>4, LenProperties
    <2>9. i < k
        <3>1. i # k
            BY <2>5, <2>6, <2>7
        <3>2. ~(k < i)
            <4>1. ~Earlier(ms[k], h)
                BY <2>5, <2>7 DEF Earlier
            <4> QED BY <1>4, <2>6, <4>1
        <3> QED BY <2>8, <3>1, <3>2
    <2> QED BY <2>5, <2>6, <2>8, <2>9
<1> QED BY <1>2, <1>4, <1>5, <1>6, <1>7

LEMMA FrameStep ==
    ASSUME IInv, SubsInv, AskInv, FrameInv, [RunNext]_runVars
    PROVE  FrameInv'
<1>0. /\ Me \in Client /\ Types /\ Out(Me) \in Seq(Message) /\ requests \in Nat
      /\ Len(sent[Me]) \in Nat /\ taken \in 0 .. Len(sent[Me])
    BY Alone, OutIs, LenProperties DEF IInv, FrameInv
<1>1. taken' \in 0 .. Len(sent'[Me])
    <2>1. Len(sent'[Me]) \in Nat /\ Len(sent[Me]) <= Len(sent'[Me])
        BY <1>0, SentGrows
    <2>2. CASE taken' = taken
        BY <1>0, <2>1, <2>2
    <2>3. CASE ListenNote \/ ListenReply
        <3>1. taken' = taken + 1 /\ taken < Len(sent[Me])
            BY <1>0, <2>3 DEF ListenNote, ListenReply, Unread
        <3> QED BY <1>0, <2>1, <3>1
    <2>4. CASE RunNext
        BY <2>2, <2>3, <2>4
           DEF RunNext, ClientStep, ClientConnects, ClientCannotConnect, ClientGivesUp, ClientLoop,
               ClientCloses, SeesClose, Signal, ConnectionLost, NodeAnswers, NodeSend,
               NodeSendReturns, NodeReplays, NodeShutsDown, NodeSignal, wire
    <2>5. CASE UNCHANGED runVars
        BY <2>2, <2>5 DEF runVars, wire
    <2> QED BY <2>4, <2>5
<1>2. ASSUME NEW n \in Nat, requests <= n, NEW m, FrameOK(m, requests) PROVE FrameOK(m, n)
    BY <1>0, <1>2 DEF FrameOK
<1>3. CASE Quiet
    BY <1>1, <1>3 DEF Quiet, FrameInv
<1>4. CASE Burst
    <2>1. PICK B \in SUBSET (1 .. Len(Blocks)) : Gets(Notes(Me, ItemsOf(B)))
        BY <1>4 DEF Burst
    <2> DEFINE ms == Notes(Me, ItemsOf(B))
    <2>2. \A k \in DOMAIN ms : /\ HeadNote(ms[k]) \/ LogNote(ms[k])
                               /\ ms[k].row \in Rendered(ms[k].block)
                               /\ ms[k].sub \in Held(requests)
        BY BurstNotes
    <2>3. Gets(ms)
        BY <2>1
    <2> HIDE DEF ms
    <2>4. requests' = requests
        BY <1>4 DEF Burst
    <2>5. ASSUME NEW i \in DOMAIN Out(Me)' PROVE FrameOK(Out(Me)'[i], requests')
        <3>1. \/ \E k \in DOMAIN Out(Me) : Out(Me)'[i] = Out(Me)[k]
              \/ \E k \in DOMAIN ms : Out(Me)'[i] = ms[k]
            BY <2>3, <2>5 DEF Gets
        <3> QED BY <2>2, <2>4, <3>1 DEF FrameInv, FrameOK
    <2>6. requests' = 0 => Out(Me)' = << >>
        <3> SUFFICES ASSUME requests = 0 PROVE Out(Me)' = << >>
            BY <2>4
        <3>1. Out(Me) = << >> /\ Held(requests) = {}
            BY HeldIs DEF FrameInv
        <3>2. DOMAIN Out(Me) = {} /\ DOMAIN ms = {}
            BY <2>2, <3>1
        <3>3. DOMAIN Out(Me)' = {} /\ Out(Me)' \in Seq(Message)
            BY <2>3, <3>2 DEF Gets
        <3> QED BY <3>3, LenProperties, EmptySeq
    <2> QED BY <1>1, <2>5, <2>6 DEF FrameInv
<1>5. ASSUME NEW a \in Answer, AnswersWith(a) PROVE FrameInv'
    <2>1. requests' = requests + 1
        BY <1>5, AnswerMoves DEF AnswersWith
    <2>2. FrameOK(a, requests')
        BY <1>5 DEF AnswersWith, FrameOK
    <2>3. ASSUME NEW i \in DOMAIN Out(Me)' PROVE FrameOK(Out(Me)'[i], requests')
        <3>1. \/ \E k \in DOMAIN Out(Me) : Out(Me)'[i] = Out(Me)[k]
              \/ \E k \in DOMAIN <<a>> : Out(Me)'[i] = <<a>>[k]
            BY <1>5, <2>3 DEF AnswersWith, Gets
        <3>2. CASE \E k \in DOMAIN Out(Me) : Out(Me)'[i] = Out(Me)[k]
            BY <1>0, <1>2, <2>1, <3>2 DEF FrameInv
        <3>3. CASE \E k \in DOMAIN <<a>> : Out(Me)'[i] = <<a>>[k]
            BY <2>2, <3>3
        <3> QED BY <3>1, <3>2, <3>3
    <2> QED BY <1>0, <1>1, <2>1, <2>3 DEF FrameInv
<1> QED BY <1>3, <1>4, <1>5, NodeEffect

LEMMA HeadSentStep ==
    ASSUME IInv, SubsInv, AskInv, FrameInv, HeadSent, [RunNext]_runVars
    PROVE  HeadSent'
<1>0. /\ Me \in Client /\ Types /\ Out(Me) \in Seq(Message) /\ requests \in Nat
    BY Alone, OutIs DEF IInv
<1> SUFFICES ASSUME drops'[Me] = 0, requests' <= 2, NEW j \in DOMAIN Out(Me)', LogNote(Out(Me)'[j])
             PROVE  \E i \in 1 .. j - 1 : HeadNote(Out(Me)'[i]) /\ Out(Me)'[i].block = Out(Me)'[j].block
    BY DEF HeadSent
<1>1. CASE Quiet
    BY <1>1 DEF Quiet, HeadSent
<1>2. ASSUME NEW ms \in Seq(Message), Gets(ms), requests <= 2,
             \A k \in DOMAIN ms : LogNote(ms[k]) =>
                 \E i \in 1 .. k - 1 : i \in DOMAIN ms /\ HeadNote(ms[i])
                                       /\ ms[i].block = ms[k].block
      PROVE  \E i \in 1 .. j - 1 : HeadNote(Out(Me)'[i]) /\ Out(Me)'[i].block = Out(Me)'[j].block
    <2> DEFINE o == Out(Me)
               w == o \o ms
    <2>1. drops[Me] = 0 /\ Out(Me)' = w
        BY <1>2 DEF Gets
    <2>2. /\ DOMAIN w = 1 .. Len(o) + Len(ms)
          /\ DOMAIN o = 1 .. Len(o) /\ DOMAIN ms = 1 .. Len(ms)
          /\ Len(o) \in Nat /\ Len(ms) \in Nat
          /\ \A k \in 1 .. Len(o) : w[k] = o[k]
          /\ \A k \in 1 .. Len(ms) : w[Len(o) + k] = ms[k]
          /\ \A k \in DOMAIN w : k \in DOMAIN o \/ (k > Len(o) /\ k - Len(o) \in DOMAIN ms)
        BY <1>0, <1>2, JoinAt
    <2>3. j \in DOMAIN w /\ LogNote(w[j])
        BY <2>1
    <2>4. \A n \in DOMAIN o : LogNote(o[n]) =>
             \E i \in 1 .. n - 1 : HeadNote(o[i]) /\ o[i].block = o[n].block
        BY <1>2, <2>1 DEF HeadSent
    <2> HIDE DEF o, w
    <2>5. CASE j \in DOMAIN o
        <3>1. w[j] = o[j] /\ j \in 1 .. Len(o)
            BY <2>2, <2>5
        <3>2. PICK i \in 1 .. j - 1 : HeadNote(o[i]) /\ o[i].block = o[j].block
            BY <2>3, <2>4, <2>5, <3>1
        <3>3. i \in 1 .. Len(o)
            BY <2>2, <3>1, <3>2
        <3> QED BY <2>1, <2>2, <3>1, <3>2, <3>3
    <2>6. CASE j > Len(o) /\ j - Len(o) \in DOMAIN ms
        <3> DEFINE k == j - Len(o)
        <3>1. w[j] = ms[k] /\ k \in 1 .. Len(ms) /\ j \in Nat
            <4>1. Len(o) + k = j
                BY <2>2, <2>3
            <4> QED BY <2>2, <2>3, <2>6, <4>1
        <3>2. PICK i \in 1 .. k - 1 : HeadNote(ms[i]) /\ ms[i].block = ms[k].block /\ i \in DOMAIN ms
            BY <1>2, <2>2, <2>3, <3>1
        <3>3. Len(o) + i \in 1 .. j - 1 /\ w[Len(o) + i] = ms[i]
            BY <2>2, <3>1, <3>2
        <3> QED BY <2>1, <3>1, <3>2, <3>3
    <2> QED BY <2>2, <2>3, <2>5, <2>6
<1>3. CASE Burst
    <2>1. PICK B \in SUBSET (1 .. Len(Blocks)) : Gets(Notes(Me, ItemsOf(B)))
        BY <1>3 DEF Burst
    <2> DEFINE ms == Notes(Me, ItemsOf(B))
    <2>2. requests' = requests
        BY <1>3 DEF Burst
    <2>3. /\ ms \in Seq(Message)
          /\ \A k \in DOMAIN ms : ms[k].sub \in Held(requests)
          /\ requests = 2 => \A k \in DOMAIN ms : LogNote(ms[k]) =>
                 \E i \in 1 .. k - 1 : i \in DOMAIN ms /\ HeadNote(ms[i])
                                       /\ ms[i].block = ms[k].block
        BY BurstNotes
    <2>4. Gets(ms)
        BY <2>1
    <2> HIDE DEF ms
    <2>5. CASE requests = 2
        BY <1>2, <2>2, <2>3, <2>4, <2>5
    <2>6. CASE requests # 2
        <3>1. requests \in {0, 1}
            BY <1>0, <2>2, <2>6
        <3>2. \A k \in DOMAIN ms : ~LogNote(ms[k])
            BY <2>3, <3>1, HeldIs DEF LogNote
        <3> QED BY <1>2, <2>2, <2>3, <2>4, <3>2
    <2> QED BY <2>5, <2>6
<1>4. ASSUME NEW a \in Answer, AnswersWith(a)
      PROVE  \E i \in 1 .. j - 1 : HeadNote(Out(Me)'[i]) /\ Out(Me)'[i].block = Out(Me)'[j].block
    <2>1. requests <= 2 /\ Gets(<<a>>) /\ <<a>> \in Seq(Message)
        BY <1>0, <1>4, AnswerMoves DEF AnswersWith, Message
    <2>2. ~LogNote(a)
        BY <1>4 DEF AnswersWith, LogNote, IsNote
    <2>3. \A k \in DOMAIN <<a>> : ~LogNote(<<a>>[k])
        BY <2>2
    <2> QED BY <1>2, <2>1, <2>3
<1> QED BY <1>1, <1>3, <1>4, NodeEffect

-----------------------------------------------------------------------------
(* The listener and the loop: one adds to the end of the stream, the other   *)
(* reads on in it.                                                           *)
LEMMA ReadOnward ==
    ASSUME NEW c \in Seq(Messages), NEW n \in Seq(Messages)
    PROVE  /\ c \o n \in Seq(Messages) /\ Len(c \o n) \in Nat /\ Len(c) \in Nat
           /\ Len(c) <= Len(c \o n)
           /\ \A q \in 1 .. Len(c) : (c \o n)[q] = c[q]
           /\ DOMAIN c = 1 .. Len(c)
<1>1. Len(c) \in Nat /\ Len(n) \in Nat /\ DOMAIN c = 1 .. Len(c)
    BY LenProperties
<1>2. /\ c \o n \in Seq(Messages) /\ Len(c \o n) = Len(c) + Len(n)
      /\ \A i \in 1 .. Len(c) + Len(n) : (c \o n)[i] = IF i <= Len(c) THEN c[i] ELSE n[i - Len(c)]
    BY ConcatProperties
<1>3. \A q \in 1 .. Len(c) : (c \o n)[q] = c[q]
    BY <1>1, <1>2
<1> QED BY <1>1, <1>2, <1>3

LEMMA StreamType ==
    ASSUME PipeTypeOK
    PROVE  Stream \in Seq(Messages) /\ Len(Stream) \in Nat
BY ReadOnward DEF PipeTypeOK, Stream

LEMMA TakeMoves ==
    ASSUME PipeTypeOK, NEW m \in Messages, Take(m)
    PROVE  Stream' = Stream
<1>1. /\ consumed \in Seq(Messages) /\ inbox \in Seq(Messages) /\ inbox # << >>
      /\ m = Head(inbox) /\ inbox' = Tail(inbox) /\ consumed' = Append(consumed, m)
    BY DEF PipeTypeOK, Take
<1>2. <<m>> \in Seq(Messages) /\ Tail(inbox) \in Seq(Messages)
    BY <1>1
<1>3. inbox = <<m>> \o Tail(inbox)
    BY <1>1
<1>4. Append(consumed, m) = consumed \o <<m>>
    BY <1>1, AppendIsConcat
<1>5. (consumed \o <<m>>) \o Tail(inbox) = consumed \o (<<m>> \o Tail(inbox))
    BY <1>1, <1>2, ConcatAssociative
<1> QED BY <1>1, <1>3, <1>4, <1>5, Zenon DEF Stream

LEMMA NextFrameIs ==
    ASSUME IInv, FrameInv, ListenNote
    PROVE  /\ taken \in Nat /\ taken + 1 \in 1 .. Len(sent[Me]) /\ IsNote(sent[Me][taken + 1])
           /\ ToMessage(sent[Me][taken + 1]) \in Messages
           /\ taken' = taken + 1 /\ inbox' = Append(inbox, ToMessage(sent[Me][taken + 1]))
           /\ UNCHANGED <<consumed, sent, queue, drops>>
<1>1. Len(sent[Me]) \in Nat
    BY Alone, OutIs, LenProperties DEF IInv
<1>2. taken \in Nat /\ taken + 1 \in 1 .. Len(sent[Me]) /\ IsNote(sent[Me][taken + 1])
    BY <1>1 DEF ListenNote, Unread, NextFrame, FrameInv
<1>3. ToMessage(sent[Me][taken + 1]) \in Messages
    BY <1>2, FrameIs
<1>4. /\ taken' = taken + 1 /\ inbox' = Append(inbox, ToMessage(sent[Me][taken + 1]))
      /\ UNCHANGED <<consumed, sent, queue, drops>>
    BY DEF ListenNote, NodeSends, NextFrame, vars, clientVars
<1> QED BY <1>2, <1>3, <1>4

LEMMA StreamMoves ==
    ASSUME PipeTypeOK, IInv, SubsInv, AskInv, FrameInv, [RunNext]_runVars
    PROVE  \/ /\ ClientLoop /\ phase = "waiting" /\ taken' = taken
              /\ Stream' = Stream /\ drops' = drops
           \/ ListenNote
           \/ /\ UNCHANGED <<consumed, inbox>>
              /\ taken' = taken \/ (taken' = taken + 1 /\ ~IsNote(sent[Me][taken + 1]))
<1>1. CASE ClientLoop
    <2>1. phase = "waiting" /\ taken' = taken /\ drops' = drops
        BY <1>1 DEF ClientLoop, Loop, Consume, Idle, StreamEnds, OnHead, OnMalformedHead,
                    OnSkippedLog, OnEvent, Take, vars, clientVars
    <2>2. CASE Consume
        <3>1. PICK m \in Messages : Take(m)
            BY <2>2 DEF Consume, OnHead, OnMalformedHead, OnSkippedLog, OnEvent
        <3> QED BY <1>1, <2>1, <3>1, TakeMoves
    <2>3. CASE Idle \/ StreamEnds
        BY <1>1, <2>1, <2>3 DEF Idle, StreamEnds, Stream
    <2> QED BY <1>1, <2>2, <2>3 DEF ClientLoop, Loop
<1>2. CASE ListenReply
    <2>1. UNCHANGED <<consumed, inbox>>
        BY <1>2 DEF ListenReply, HeadsSubscribed, LogsSubscribed, pipeVars
    <2>2. taken' = taken + 1 /\ ~IsNote(sent[Me][taken + 1])
        BY <1>2 DEF ListenReply, NextFrame
    <2> QED BY <2>1, <2>2
<1>3. CASE UNCHANGED <<consumed, inbox, taken>>
    BY <1>3
<1>4. CASE UNCHANGED <<pipeVars, taken>>
    BY <1>3, <1>4 DEF pipeVars
<1>5. CASE NodeAnswers
    BY <1>4, <1>5, Answers
<1>6. CASE NodeSend \/ NodeSendReturns \/ NodeReplays \/ NodeShutsDown \/ NodeSignal
    BY <1>4, <1>6 DEF NodeSend, NodeSendReturns, NodeReplays, NodeShutsDown, NodeSignal, wire
<1>7. CASE SeesClose \/ ConnectionLost \/ Signal
    BY <1>3, <1>7 DEF SeesClose, ConnectionLost, Signal, SetStop, wire
<1>8. CASE ClientConnects \/ ClientCannotConnect
    BY <1>3, <1>8 DEF ClientConnects, ConnectSucceeds, ClientCannotConnect, ConnectFails, wire
<1>9. CASE ClientGivesUp \/ ClientCloses
    BY <1>3, <1>9 DEF ClientGivesUp, SubscribeFails, ClientCloses, Close
<1>10. CASE UNCHANGED runVars
    BY <1>4, <1>10 DEF runVars, wire
<1> QED BY <1>1, <1>2, <1>5, <1>6, <1>7, <1>8, <1>9, <1>10 DEF RunNext, ClientStep

LEMMA LinkedStep ==
    ASSUME PipeTypeOK, IInv, SubsInv, AskInv, FrameInv, Linked, [RunNext]_runVars
    PROVE  Linked'
<1>0. /\ Types /\ Stream \in Seq(Messages) /\ Len(Stream) \in Nat
      /\ taken \in Nat /\ taken <= Len(sent[Me]) /\ Len(sent[Me]) \in Nat
    BY Alone, OutIs, LenProperties, StreamType DEF IInv, FrameInv
<1>1. PICK at : Follows(at)
    BY DEF Linked
<1>2. \A i \in 1 .. taken : sent'[Me][i] = sent[Me][i]
    <2>1. \A i \in 1 .. Len(sent[Me]) : sent'[Me][i] = sent[Me][i]
        BY <1>0, SentGrows
    <2> QED BY <1>0, <2>1
<1>3. /\ at \in [1 .. Len(Stream) -> 1 .. taken]
      /\ \A p \in 1 .. Len(Stream) :
            IsNote(sent[Me][at[p]]) /\ Stream[p] = ToMessage(sent[Me][at[p]])
      /\ \A p, q \in 1 .. Len(Stream) : p < q => at[p] < at[q]
      /\ \A i \in 1 .. taken : IsNote(sent[Me][i]) => \E p \in 1 .. Len(Stream) : at[p] = i
    BY <1>1 DEF Follows
<1>4. ASSUME Stream' = Stream, taken' = taken \/ (taken' = taken + 1 /\ ~IsNote(sent[Me][taken + 1])),
             taken' = taken + 1 => taken + 1 <= Len(sent[Me])
      PROVE  Linked'
    <2>1. \A i \in 1 .. taken' : sent'[Me][i] = sent[Me][i]
        <3>1. \A i \in 1 .. Len(sent[Me]) : sent'[Me][i] = sent[Me][i]
            BY <1>0, SentGrows
        <3> QED BY <1>0, <1>4, <3>1
    <2>2. at \in [1 .. Len(Stream) -> 1 .. taken']
        <3>1. 1 .. taken \subseteq 1 .. taken'
            BY <1>0, <1>4
        <3> QED BY <1>3, <3>1
    <2>3. \A p \in 1 .. Len(Stream) :
             IsNote(sent'[Me][at[p]]) /\ Stream[p] = ToMessage(sent'[Me][at[p]])
        <3> SUFFICES ASSUME NEW p \in 1 .. Len(Stream)
                     PROVE  IsNote(sent'[Me][at[p]]) /\ Stream[p] = ToMessage(sent'[Me][at[p]])
            OBVIOUS
        <3>1. at[p] \in 1 .. taken
            BY <1>3
        <3>2. sent'[Me][at[p]] = sent[Me][at[p]]
            BY <1>2, <3>1
        <3> QED BY <1>3, <3>2
    <2>4. ASSUME NEW i \in 1 .. taken', IsNote(sent'[Me][i])
          PROVE  \E p \in 1 .. Len(Stream) : at[p] = i
        <3>1. IsNote(sent[Me][i])
            BY <2>1, <2>4
        <3>2. i \in 1 .. taken
            BY <1>0, <1>4, <3>1
        <3> QED BY <1>3, <3>1, <3>2
    <2>5. Follows(at)'
        BY <1>3, <1>4, <2>2, <2>3, <2>4 DEF Follows
    <2> QED BY <2>5 DEF Linked
<1>5. CASE ListenNote
    <2> DEFINE k == Len(Stream)
               m == ToMessage(sent[Me][taken + 1])
    <2>1. /\ m \in Messages /\ IsNote(sent[Me][taken + 1]) /\ taken' = taken + 1
          /\ inbox' = Append(inbox, m) /\ UNCHANGED <<consumed, sent>>
        BY <1>5, NextFrameIs
    <2> HIDE DEF m
    <2>2. Stream' = Append(Stream, m)
        <3>1. consumed \in Seq(Messages) /\ inbox \in Seq(Messages) /\ <<m>> \in Seq(Messages)
            BY <2>1 DEF PipeTypeOK
        <3>2. Append(inbox, m) = inbox \o <<m>> /\ Append(Stream, m) = Stream \o <<m>>
            BY <1>0, <2>1, <3>1, AppendIsConcat
        <3>3. (consumed \o inbox) \o <<m>> = consumed \o (inbox \o <<m>>)
            BY <3>1, ConcatAssociative
        <3> QED BY <2>1, <3>2, <3>3, Zenon DEF Stream
    <2>3. /\ Len(Stream') = k + 1 /\ Stream'[k + 1] = m
          /\ \A p \in 1 .. k : Stream'[p] = Stream[p]
        BY <1>0, <2>1, <2>2, AppendProperties
    <2>4. k \in Nat /\ \A p \in 1 .. k + 1 : p = k + 1 \/ p \in 1 .. k
        BY <1>0
    <2> HIDE DEF k
    <2>5. PICK bt : bt = [p \in 1 .. k + 1 |-> IF p = k + 1 THEN taken + 1 ELSE at[p]]
        OBVIOUS
    <2>6. \A p \in 1 .. k : bt[p] = at[p] /\ at[p] \in 1 .. taken /\ at[p] \in Int
        BY <1>3, <2>4, <2>5 DEF k
    <2>7. bt[k + 1] = taken + 1 /\ k + 1 \in 1 .. k + 1 /\ DOMAIN bt = 1 .. k + 1
        BY <2>4, <2>5
    <2>8. bt \in [1 .. k + 1 -> 1 .. taken + 1]
        BY <1>0, <1>3, <2>4, <2>5 DEF k
    <2>9. ASSUME NEW p \in 1 .. k + 1
          PROVE  IsNote(sent[Me][bt[p]]) /\ Stream'[p] = ToMessage(sent[Me][bt[p]])
        <3>1. CASE p = k + 1
            BY <2>1, <2>3, <2>7, <3>1 DEF m
        <3>2. CASE p \in 1 .. k
            BY <1>3, <2>3, <2>6, <3>2 DEF k
        <3> QED BY <2>4, <3>1, <3>2
    <2>10. ASSUME NEW p \in 1 .. k + 1, NEW q \in 1 .. k + 1, p < q
          PROVE  bt[p] < bt[q]
        <3>1. p \in 1 .. k
            BY <2>4, <2>10
        <3>2. CASE q = k + 1
            BY <1>0, <2>6, <2>7, <3>1, <3>2
        <3>3. CASE q \in 1 .. k
            BY <1>3, <2>6, <2>10, <3>1, <3>3 DEF k
        <3> QED BY <2>4, <3>2, <3>3
    <2>11. ASSUME NEW i \in 1 .. taken + 1, IsNote(sent[Me][i])
           PROVE  \E p \in 1 .. k + 1 : bt[p] = i
        <3>1. CASE i = taken + 1
            BY <2>7, <3>1
        <3>2. CASE i \in 1 .. taken
            <4>1. PICK p \in 1 .. k : at[p] = i
                BY <1>3, <2>11, <3>2 DEF k
            <4>2. p \in 1 .. k + 1
                BY <2>4
            <4> QED BY <2>6, <4>1, <4>2
        <3> QED BY <1>0, <3>1, <3>2
    <2>12. Follows(bt)'
        BY <2>1, <2>3, <2>8, <2>9, <2>10, <2>11 DEF Follows
    <2> QED BY <2>12 DEF Linked
<1>6. CASE ClientLoop /\ taken' = taken /\ Stream' = Stream
    BY <1>0, <1>4, <1>6
<1>7. CASE UNCHANGED <<consumed, inbox>> /\ (taken' = taken \/ (taken' = taken + 1 /\ ~IsNote(sent[Me][taken + 1])))
    <2>1. Stream' = Stream
        BY <1>7 DEF Stream
    <2>2. taken' \in 0 .. Len(sent'[Me])
        BY FrameStep DEF FrameInv
    <2>3. taken' = taken + 1 => taken + 1 <= Len(sent[Me])
        <3> SUFFICES ASSUME taken' = taken + 1 PROVE taken + 1 <= Len(sent[Me])
            OBVIOUS
        <3>1. ListenReply \/ ListenNote
            BY <1>0
               DEF RunNext, ClientStep, ClientConnects, ClientCannotConnect, ClientGivesUp, ClientLoop,
                   ClientCloses, SeesClose, Signal, ConnectionLost, NodeAnswers, NodeSend,
                   NodeSendReturns, NodeReplays, NodeShutsDown, NodeSignal, wire, runVars
        <3> QED BY <1>0, <3>1 DEF ListenReply, ListenNote, Unread
    <2> QED BY <1>0, <1>4, <1>7, <2>1, <2>3
<1> QED BY <1>5, <1>6, <1>7, StreamMoves

(* In a stream without evictions the head of a log's block is ahead of it.   *)
LEMMA ReadInOrder ==
    ASSUME PipeTypeOK, IInv, FrameInv, Linked, HeadSent, drops[Me] = 0, requests <= 2,
           NEW q \in 1 .. Len(Stream), Stream[q].kind = "log"
    PROVE  \E p \in 1 .. q - 1 : Stream[p] = HeadOf(Stream[q].log.block)
<1>0. /\ Len(Stream) \in Nat /\ taken \in Nat /\ taken <= Len(sent[Me]) /\ Len(sent[Me]) \in Nat
    BY Alone, OutIs, LenProperties, StreamType DEF IInv, FrameInv
<1>1. PICK at : Follows(at)
    BY DEF Linked
<1>2. /\ at \in [1 .. Len(Stream) -> 1 .. taken]
      /\ \A p \in 1 .. Len(Stream) :
            IsNote(sent[Me][at[p]]) /\ Stream[p] = ToMessage(sent[Me][at[p]])
      /\ \A p, r \in 1 .. Len(Stream) : p < r => at[p] < at[r]
      /\ \A i \in 1 .. taken : IsNote(sent[Me][i]) => \E p \in 1 .. Len(Stream) : at[p] = i
    BY <1>1 DEF Follows
<1>3. PICK j \in 1 .. taken : j = at[q]
    BY <1>2
<1>4. j \in 1 .. Len(sent[Me]) /\ IsNote(sent[Me][j]) /\ Stream[q] = ToMessage(sent[Me][j])
    BY <1>0, <1>2, <1>3
<1>5. /\ j \in DOMAIN Out(Me) /\ Out(Me)[j] = sent[Me][j]
      /\ sent[Me][j] \in Notice /\ sent[Me][j].row \in Rendered(sent[Me][j].block)
      /\ HeadNote(sent[Me][j]) \/ LogNote(sent[Me][j])
    BY <1>4, FrameIs
<1>6. sent[Me][j].row # 0 /\ Stream[q].log = LogAt(sent[Me][j].block, sent[Me][j].row)
    <2>1. /\ sent[Me][j].row = 0 => ToMessage(sent[Me][j]).kind = "head"
          /\ sent[Me][j].row # 0 =>
                ToMessage(sent[Me][j]).log = LogAt(sent[Me][j].block, sent[Me][j].row)
        BY <1>5, MessageOf
    <2> QED BY <1>4, <2>1
<1>7. LogNote(Out(Me)[j]) /\ Stream[q].log.block = Out(Me)[j].block
    <2>1. LogNote(Out(Me)[j])
        BY <1>5, <1>6 DEF HeadNote
    <2>2. LogAt(sent[Me][j].block, sent[Me][j].row).block = sent[Me][j].block
        BY DEF LogAt
    <2> QED BY <1>5, <1>6, <2>1, <2>2
<1>8. PICK i \in 1 .. j - 1 : HeadNote(Out(Me)[i]) /\ Out(Me)[i].block = Out(Me)[j].block
    BY <1>5, <1>7 DEF HeadSent
<1>9. i \in 1 .. taken /\ i \in 1 .. Len(sent[Me]) /\ i < j
    BY <1>0, <1>3, <1>8
<1>10. /\ Out(Me)[i] = sent[Me][i]
       /\ IsNote(sent[Me][i]) => sent[Me][i] \in Notice /\ sent[Me][i].row \in Rendered(sent[Me][i].block)
    BY <1>9, FrameIs
<1>11. IsNote(sent[Me][i]) /\ sent[Me][i].row = 0 /\ sent[Me][i].block = Stream[q].log.block
    BY <1>7, <1>8, <1>10 DEF HeadNote
<1>12. ToMessage(sent[Me][i]) = HeadOf(Stream[q].log.block)
    BY <1>10, <1>11, MessageOf
<1>13. PICK p \in 1 .. Len(Stream) : at[p] = i
    BY <1>2, <1>9, <1>11
<1>14. p < q
    <2>1. p # q
        BY <1>3, <1>9, <1>13
    <2>2. ~(q < p)
        BY <1>2, <1>3, <1>9, <1>13
    <2> QED BY <1>0, <2>1, <2>2
<1>15. p \in 1 .. q - 1
    BY <1>0, <1>14
<1> QED BY <1>2, <1>12, <1>13, <1>15

LEMMA HeadReadStep ==
    ASSUME PipeTypeOK, PipeTypeOK', IInv, SubsInv, AskInv, FrameInv, Linked, HeadSent, HeadRead,
           [RunNext]_runVars
    PROVE  HeadRead'
<1>1. drops'[Me] = 0 => drops[Me] = 0
    BY NodeEffect DEF Quiet, Burst, AnswersWith, Gets
<1>2. CASE UNCHANGED consumed
    BY <1>1, <1>2 DEF HeadRead
<1>3. CASE ListenNote
    BY <1>2, <1>3, NextFrameIs
<1>4. CASE phase = "waiting" /\ Stream' = Stream /\ drops' = drops
    <2> SUFFICES ASSUME drops'[Me] = 0, NEW q \in DOMAIN consumed', consumed'[q].kind = "log"
                 PROVE  \E p \in 1 .. q - 1 : consumed'[p] = HeadOf(consumed'[q].log.block)
        BY DEF HeadRead
    <2>1. /\ Len(Stream') \in Nat /\ Len(consumed') \in Nat /\ Len(consumed') <= Len(Stream')
          /\ \A p \in 1 .. Len(consumed') : Stream'[p] = consumed'[p]
          /\ DOMAIN consumed' = 1 .. Len(consumed')
        <3>1. consumed' \in Seq(Messages) /\ inbox' \in Seq(Messages)
            BY DEF PipeTypeOK
        <3>2. Stream' = consumed' \o inbox'
            BY DEF Stream
        <3> HIDE DEF Stream
        <3> QED BY <3>1, <3>2, ReadOnward
    <2>2. q \in 1 .. Len(Stream) /\ Stream[q] = consumed'[q] /\ q \in 1 .. Len(consumed')
        BY <1>4, <2>1
    <2>3. requests <= 2
        BY <1>4 DEF AskInv
    <2>4. PICK p \in 1 .. q - 1 : Stream[p] = HeadOf(Stream[q].log.block)
        BY <1>1, <2>2, <2>3, ReadInOrder
    <2>5. p \in 1 .. Len(consumed')
        BY <2>1, <2>2
    <2> QED BY <1>4, <2>1, <2>2, <2>4, <2>5
<1> QED BY <1>2, <1>3, <1>4, StreamMoves

-----------------------------------------------------------------------------
LEMMA RunStarts == RunInit => RunInv
<1> SUFFICES ASSUME RunInit PROVE RunInv
    OBVIOUS
<1>1. Init /\ PipeInit /\ asked = << >> /\ taken = 0
    BY DEF RunInit
<1>2. IInv /\ PipeInv
    BY <1>1, InitHolds, PipeInitInv
<1>3. /\ requests = 0 /\ subs[Me] = {} /\ sent[Me] = << >> /\ queue[Me] = << >>
      /\ conn[Me] = "new" /\ drops[Me] = 0
    BY <1>1, Alone DEF Init
<1>4. /\ phase = "connecting" /\ inbox = << >> /\ consumed = << >> /\ connected = "no"
    BY <1>1 DEF PipeInit
<1>5. SubsInv
    BY <1>3, HeldIs DEF SubsInv, OwnIds
<1>6. AskInv
    BY <1>1, <1>3, <1>4 DEF AskInv
<1>7. Out(Me) = << >>
    BY <1>3 DEF Out
<1>8. FrameInv
    BY <1>1, <1>3, <1>7 DEF FrameInv
<1>9. Linked
    <2>1. Stream = << >> /\ Len(Stream) = 0
        BY <1>4 DEF Stream
    <2>2. PICK at : at = [p \in 1 .. 0 |-> 0]
        OBVIOUS
    <2>3. at \in [1 .. Len(Stream) -> 1 .. taken]
        BY <1>1, <2>1, <2>2
    <2>4. Follows(at)
        BY <1>1, <2>1, <2>3 DEF Follows
    <2> QED BY <2>4 DEF Linked
<1>10. HeadSent /\ HeadRead
    BY <1>4, <1>7 DEF HeadSent, HeadRead
<1> QED BY <1>2, <1>5, <1>6, <1>8, <1>9, <1>10 DEF RunInv

LEMMA RunKeeps == RunInv /\ [RunNext]_runVars => RunInv'
<1> SUFFICES ASSUME RunInv, [RunNext]_runVars PROVE RunInv'
    OBVIOUS
<1>1. IInv /\ PipeInv /\ SubsInv /\ AskInv /\ FrameInv /\ Linked /\ HeadSent /\ HeadRead
    BY DEF RunInv
<1>2. IInv'
    BY <1>1, NodePart, NextKeeps
<1>3. PipeInv'
    BY <1>1, PipePart, PipeStepInv
<1>4. PipeTypeOK /\ PipeTypeOK'
    BY <1>1, <1>3 DEF PipeInv
<1>5. SubsInv' /\ AskInv' /\ FrameInv'
    BY <1>1, SubsStep, AskStep, FrameStep
<1>6. Linked'
    BY <1>1, <1>4, LinkedStep
<1>7. HeadSent'
    BY <1>1, HeadSentStep
<1>8. HeadRead'
    BY <1>1, <1>4, HeadReadStep
<1> QED BY <1>2, <1>3, <1>5, <1>6, <1>7, <1>8 DEF RunInv

(* The inductive invariant of the two together.                              *)
THEOREM RunInvariant == RunSpec => []RunInv
BY RunStarts, RunKeeps, PTL DEF RunSpec

(* The composition implements both parts: what happens in it is a behaviour  *)
(* of the mock node alone (server.py) and of run_realtime with an arbitrary  *)
(* node (pipeline.py), so every safety theorem of either holds of it.        *)
THEOREM PartsRefine == RunSpec => Spec /\ PipeSpec
<1>1. RunInit => Init /\ PipeInit
    BY DEF RunInit
<1>2. RunInv /\ [RunNext]_runVars => [Next]_vars /\ [PipeNext]_pipeVars
    BY NodePart, PipePart DEF RunInv
<1> QED BY <1>1, <1>2, RunInvariant, PTL DEF RunSpec, Spec, PipeSpec

-----------------------------------------------------------------------------
(* From the stream to the ring buffer.  The Rank-th place is taken by a      *)
(* routable log, and the deque holds the last of them.                       *)
LEMMA RankTaken ==
    ASSUME NEW n \in Nat, NEW k \in 1 .. Rank(n)
    PROVE  \E i \in Routables(n) : Rank(i) = k
<1>1. PICK S : S = Routables(n)
    OBVIOUS
<1>2. PICK B : B = {z \in (1 .. n) \X (1 .. n) : z[1] < z[2]}
    OBVIOUS
<1>3. IsFiniteSet(S) /\ S \subseteq 1 .. n
    BY <1>1, PositionsFinite
<1>4. \A x \in S : x \in Int
    BY <1>3
<1>5. \A x, y \in S : <<x, y>> \in B <=> x < y
    BY <1>2, <1>3
<1>6. ASSUME NEW x \in S PROVE UpTo(B, S, x) = Routables(x)
    <2>1. \A y \in S : y \in UpTo(B, S, x) <=> y <= x
        BY <1>4, <1>5 DEF UpTo
    <2>2. \A y \in UpTo(B, S, x) : y \in S
        BY DEF UpTo
    <2>3. x \in 1 .. n
        BY <1>3
    <2>4. \A y : y \in Routables(x) <=> y \in S /\ y <= x
        BY <1>1, <2>3 DEF Routables
    <2> QED BY <2>1, <2>2, <2>4
<1>7. Orders(B, S)
    BY <1>4, <1>5 DEF Orders
<1>8. k \in 1 .. Cardinality(S)
    BY <1>1 DEF Rank
<1>9. \A j \in 1 .. Cardinality(S) : \E i \in S : Cardinality(UpTo(B, S, i)) = j
    <2>1. IsFiniteSet(S) /\ Orders(B, S)
        BY <1>3, <1>7
    <2> QED BY <2>1, PlacesTaken
<1>10. PICK i \in S : Cardinality(UpTo(B, S, i)) = k
    BY <1>8, <1>9
<1> QED BY <1>1, <1>6, <1>10 DEF Rank

LEMMA DequeEntry ==
    ASSUME PipeInv, NEW k \in DOMAIN deque
    PROVE  \E i \in 1 .. Len(consumed) :
              /\ Routable(i) /\ Rank(i) = ingested - Len(deque) + k
              /\ deque[k] = DueAt(i)
<1>1. /\ PipeTypeOK /\ ingested = Rank(Len(consumed))
      /\ Len(deque) = IF ingested < Capacity THEN ingested ELSE Capacity
      /\ \A i \in Routables(Len(consumed)) :
            LET evicted == ingested - Len(deque)
            IN  Rank(i) > evicted => deque[Rank(i) - evicted] = DueAt(i)
    BY DEF PipeInv, IngestedExactly
<1>2. deque \in Seq(Event) /\ consumed \in Seq(Messages) /\ ingested \in Nat
    BY <1>1 DEF PipeTypeOK, DequeTypeOK
<1>3. Len(deque) \in Nat /\ k \in 1 .. Len(deque) /\ Len(consumed) \in Nat
    BY <1>2, LenProperties
<1>4. Len(deque) <= ingested
    BY <1>1, <1>2, <1>3, CapacityAssumption
<1>5. ingested - Len(deque) + k \in 1 .. ingested
    BY <1>2, <1>3, <1>4
<1>6. PICK i \in Routables(Len(consumed)) : Rank(i) = ingested - Len(deque) + k
    BY <1>1, <1>3, <1>5, RankTaken
<1>7. Rank(i) > ingested - Len(deque) /\ Rank(i) - (ingested - Len(deque)) = k
    BY <1>2, <1>3, <1>6
<1>8. deque[k] = DueAt(i)
    BY <1>1, <1>6, <1>7
<1>9. i \in 1 .. Len(consumed) /\ Routable(i)
    BY DEF Routables
<1> QED BY <1>6, <1>8, <1>9

(* What the loop read, as the node sent it.                                  *)
LEMMA ReadAsSent ==
    ASSUME RunInv
    PROVE  \E at : Follows(at) /\
             /\ \A q \in 1 .. Len(consumed) : \E m \in Notice :
                   /\ m = sent[Me][at[q]] /\ consumed[q] = ToMessage(m)
                   /\ m.row \in Rendered(m.block) /\ (HeadNote(m) \/ LogNote(m))
             /\ \A p, q \in 1 .. Len(consumed) : p < q =>
                   Earlier(sent[Me][at[p]], sent[Me][at[q]])
<1>0. /\ PipeTypeOK /\ IInv /\ FrameInv /\ AllInLine(Out(Me))
      /\ taken \in Nat /\ taken <= Len(sent[Me]) /\ Len(sent[Me]) \in Nat
    BY Alone, OutIs, LenProperties DEF RunInv, PipeInv, FrameInv, IInv, ClientOK, StreamOK
<1>1. PICK at : Follows(at)
    BY DEF RunInv, Linked
<1>2. /\ at \in [1 .. Len(Stream) -> 1 .. taken]
      /\ \A p \in 1 .. Len(Stream) :
            IsNote(sent[Me][at[p]]) /\ Stream[p] = ToMessage(sent[Me][at[p]])
      /\ \A p, q \in 1 .. Len(Stream) : p < q => at[p] < at[q]
    BY <1>1 DEF Follows
<1>3. \A q \in 1 .. Len(consumed) : q \in 1 .. Len(Stream) /\ Stream[q] = consumed[q]
    <2>1. consumed \in Seq(Messages) /\ inbox \in Seq(Messages)
        BY <1>0 DEF PipeTypeOK
    <2> QED BY <2>1, ReadOnward DEF Stream
<1>4. ASSUME NEW q \in 1 .. Len(consumed)
      PROVE  /\ at[q] \in 1 .. Len(sent[Me]) /\ at[q] \in Nat
             /\ sent[Me][at[q]] \in Notice /\ consumed[q] = ToMessage(sent[Me][at[q]])
             /\ sent[Me][at[q]].row \in Rendered(sent[Me][at[q]].block)
             /\ HeadNote(sent[Me][at[q]]) \/ LogNote(sent[Me][at[q]])
             /\ at[q] \in DOMAIN Out(Me) /\ Out(Me)[at[q]] = sent[Me][at[q]]
             /\ IsNote(sent[Me][at[q]])
    <2>1. PICK i \in 1 .. taken : i = at[q]
        BY <1>2, <1>3
    <2>2. i \in 1 .. Len(sent[Me]) /\ IsNote(sent[Me][i]) /\ consumed[q] = ToMessage(sent[Me][i])
        BY <1>0, <1>2, <1>3, <2>1
    <2> QED BY <1>0, <2>1, <2>2, FrameIs
<1>5. ASSUME NEW p \in 1 .. Len(consumed), NEW q \in 1 .. Len(consumed), p < q
      PROVE  Earlier(sent[Me][at[p]], sent[Me][at[q]])
    <2>1. at[p] < at[q]
        BY <1>2, <1>3, <1>5
    <2>2. InLine(Out(Me)[at[p]], Out(Me)[at[q]])
        BY <1>0, <1>4, <2>1 DEF AllInLine
    <2> QED BY <1>4, <2>2 DEF InLine
<1> QED BY <1>1, <1>4, <1>5

(* The order of the heads and logs read is the chain's.                      *)
LEMMA ReadInChainOrder ==
    ASSUME RunInv, NEW p \in 1 .. Len(consumed), NEW q \in 1 .. Len(consumed), p < q
    PROVE  /\ consumed[p].kind = "head" /\ consumed[q].kind = "head" =>
                 consumed[p].block <= consumed[q].block
           /\ consumed[p].kind = "head" /\ consumed[q].kind = "log" =>
                 consumed[p].block <= consumed[q].log.block
           /\ consumed[p].kind = "log" /\ consumed[q].kind = "log" =>
                 \/ consumed[p].log.block < consumed[q].log.block
                 \/ /\ consumed[p].log.block = consumed[q].log.block
                    /\ consumed[p].log.row < consumed[q].log.row
<1>1. PICK at :
         /\ \A k \in 1 .. Len(consumed) : \E m \in Notice :
               /\ m = sent[Me][at[k]] /\ consumed[k] = ToMessage(m)
               /\ m.row \in Rendered(m.block) /\ (HeadNote(m) \/ LogNote(m))
         /\ Earlier(sent[Me][at[p]], sent[Me][at[q]])
    BY ReadAsSent
<1>2. PICK m \in Notice : /\ m = sent[Me][at[p]] /\ consumed[p] = ToMessage(m)
                          /\ m.row \in Rendered(m.block) /\ (HeadNote(m) \/ LogNote(m))
    BY <1>1
<1>3. PICK n \in Notice : /\ n = sent[Me][at[q]] /\ consumed[q] = ToMessage(n)
                          /\ n.row \in Rendered(n.block) /\ (HeadNote(n) \/ LogNote(n))
    BY <1>1
<1>4. Earlier(m, n)
    BY <1>1, <1>2, <1>3
<1>5. m.block \in Nat /\ m.row \in Nat /\ n.block \in Nat /\ n.row \in Nat
    BY NoticeFields
<1>6. /\ m.row = 0 => consumed[p].kind = "head" /\ consumed[p] = HeadOf(m.block)
      /\ m.row # 0 => consumed[p].kind = "log" /\ consumed[p].log = LogAt(m.block, m.row)
    BY <1>2, MessageOf
<1>7. /\ n.row = 0 => consumed[q].kind = "head" /\ consumed[q] = HeadOf(n.block)
      /\ n.row # 0 => consumed[q].kind = "log" /\ consumed[q].log = LogAt(n.block, n.row)
    BY <1>3, MessageOf
<1>8. /\ \A b : HeadOf(b).block = b
      /\ \A b, r : LogAt(b, r).block = b /\ LogAt(b, r).row = r
    BY DEF HeadOf, LogAt
<1>9. m.row # 0 /\ n.row # 0 => m.sub = n.sub /\ m.sub \in Nat
    <2>1. LogNote(m) => m.sub = 2
        BY DEF LogNote
    <2>2. LogNote(n) => n.sub = 2
        BY DEF LogNote
    <2> QED BY <1>2, <1>3, <2>1, <2>2 DEF HeadNote
<1> QED BY <1>4, <1>5, <1>6, <1>7, <1>8, <1>9 DEF Earlier

(* An event in the ring, and the messages it comes from.                     *)
LEMMA EventRead ==
    ASSUME RunInv, NEW k \in DOMAIN deque
    PROVE  \E i \in 1 .. Len(consumed) :
              /\ Rank(i) = ingested - Len(deque) + k
              /\ consumed[i].kind = "log"
              /\ deque[k].block = consumed[i].log.block /\ deque[k].row = consumed[i].log.row
              /\ \E h \in 1 .. i - 1 :
                    /\ consumed[h].kind = "head" /\ deque[k].stamp = consumed[h].block
                    /\ \A p \in 1 .. i - 1 : consumed[p].kind = "head" => p <= h
<1>1. PipeInv
    BY DEF RunInv
<1>2. PICK i \in 1 .. Len(consumed) : /\ Routable(i) /\ Rank(i) = ingested - Len(deque) + k
                                      /\ deque[k] = DueAt(i)
    BY <1>1, DequeEntry
<1>3. consumed[i].kind = "log" /\ HeadsBefore(i) # {}
    BY <1>2 DEF Routable
<1>4. HeadsBefore(i) \in SUBSET (1 .. i - 1) /\ i - 1 \in Nat
    <2>1. i \in Nat /\ i >= 1
        BY <1>1, LenProperties DEF PipeInv, PipeTypeOK
    <2> QED BY <2>1 DEF HeadsBefore
<1>5. PICK h : h = Max(HeadsBefore(i))
    OBVIOUS
<1>6. h \in HeadsBefore(i) /\ \A p \in HeadsBefore(i) : p <= h
    BY <1>3, <1>4, <1>5, MaxIsMember
<1>7. deque[k] = [block |-> consumed[i].log.block, row |-> consumed[i].log.row,
                  stamp |-> consumed[h].block]
    BY <1>2, <1>5 DEF DueAt, EventOf
<1>8. /\ h \in 1 .. i - 1 /\ consumed[h].kind = "head"
      /\ \A p \in 1 .. i - 1 : consumed[p].kind = "head" => p <= h
    BY <1>6 DEF HeadsBefore
<1>9. /\ deque[k].block = consumed[i].log.block /\ deque[k].row = consumed[i].log.row
      /\ deque[k].stamp = consumed[h].block
    BY <1>7
<1> QED BY <1>2, <1>3, <1>8, <1>9

(* What the ring holds came from the chain, in its order, whatever a full    *)
(* queue evicted on the way; its times are those of the chain's blocks       *)
(* unless a head was evicted, and never later (server.py:254-316, 78-103;    *)
(* pipeline.py:72-99).                                                       *)
THEOREM EventsComeFromChain == RunSpec => []EventsFromChain
<1>1. ASSUME RunInv PROVE StampsFromChain
    <2> SUFFICES ASSUME NEW k \in DOMAIN deque
                 PROVE  /\ deque[k].stamp <= deque[k].block
                        /\ drops[Me] = 0 => deque[k].stamp = deque[k].block
        BY DEF StampsFromChain
    <2>0. Len(consumed) \in Nat /\ consumed \in Seq(Messages) /\ DOMAIN consumed = 1 .. Len(consumed)
        BY <1>1, LenProperties DEF RunInv, PipeInv, PipeTypeOK
    <2>1. PICK i \in 1 .. Len(consumed) :
              /\ consumed[i].kind = "log"
              /\ deque[k].block = consumed[i].log.block
              /\ \E h \in 1 .. i - 1 :
                    /\ consumed[h].kind = "head" /\ deque[k].stamp = consumed[h].block
                    /\ \A p \in 1 .. i - 1 : consumed[p].kind = "head" => p <= h
        BY <1>1, EventRead
    <2>2. PICK h \in 1 .. i - 1 :
              /\ consumed[h].kind = "head" /\ deque[k].stamp = consumed[h].block
              /\ \A p \in 1 .. i - 1 : consumed[p].kind = "head" => p <= h
        BY <2>1
    <2>3. h \in 1 .. Len(consumed) /\ h < i
        BY <2>0, <2>1, <2>2
    <2>4. consumed[h].block <= consumed[i].log.block
        BY <1>1, <2>1, <2>2, <2>3, ReadInChainOrder
    <2>5. ASSUME drops[Me] = 0 PROVE consumed[h].block = consumed[i].log.block
        <3>1. PICK p \in 1 .. i - 1 : consumed[p] = HeadOf(consumed[i].log.block)
            BY <1>1, <2>0, <2>1, <2>5 DEF RunInv, HeadRead
        <3>2. consumed[p].kind = "head" /\ consumed[p].block = consumed[i].log.block
            BY <3>1 DEF HeadOf
        <3>3. p <= h /\ p \in 1 .. Len(consumed)
            BY <2>0, <2>1, <2>2, <3>2
        <3>4. consumed[p].block <= consumed[h].block
            <4>1. CASE p = h
                <5>1. consumed[h].block \in Nat
                    <6>1. consumed[h] \in Messages
                        BY <2>0, <2>3, ElementOfSeq
                    <6> QED BY <2>2, <6>1, MessageKinds, BlockAssumption
                <5> QED BY <4>1, <5>1
            <4>2. CASE p < h
                BY <1>1, <2>2, <2>3, <3>2, <3>3, <4>2, ReadInChainOrder
            <4> QED BY <2>3, <3>3, <4>1, <4>2
        <3>5. consumed[h].block \in Nat /\ consumed[p].block \in Nat
            <4>1. consumed[h] \in Messages /\ consumed[p] \in Messages
                BY <2>0, <2>3, <3>3, ElementOfSeq
            <4> QED BY <2>2, <3>2, <4>1, MessageKinds, BlockAssumption
        <3> QED BY <2>4, <3>2, <3>4, <3>5
    <2> QED BY <2>1, <2>2, <2>4, <2>5
<1>2. ASSUME RunInv PROVE EventsInChainOrder
    <2> SUFFICES ASSUME NEW k \in DOMAIN deque, NEW l \in DOMAIN deque, k < l
                 PROVE  \/ deque[k].block < deque[l].block
                        \/ deque[k].block = deque[l].block /\ deque[k].row < deque[l].row
        BY DEF EventsInChainOrder
    <2>0. /\ Len(consumed) \in Nat /\ Len(deque) \in Nat /\ DOMAIN deque = 1 .. Len(deque)
          /\ ingested \in Nat
        BY <1>2, LenProperties DEF RunInv, PipeInv, PipeTypeOK, DequeTypeOK
    <2>1. PICK i \in 1 .. Len(consumed) :
              /\ Rank(i) = ingested - Len(deque) + k /\ consumed[i].kind = "log"
              /\ deque[k].block = consumed[i].log.block /\ deque[k].row = consumed[i].log.row
        BY <1>2, EventRead
    <2>2. PICK j \in 1 .. Len(consumed) :
              /\ Rank(j) = ingested - Len(deque) + l /\ consumed[j].kind = "log"
              /\ deque[l].block = consumed[j].log.block /\ deque[l].row = consumed[j].log.row
        BY <1>2, EventRead
    <2>3. Rank(i) < Rank(j) /\ Rank(i) \in Int /\ Rank(j) \in Int
        BY <2>0, <2>1, <2>2
    <2>4. i < j
        <3>1. i \in Nat /\ j \in Nat /\ (j <= i => j \in 1 .. i)
            BY <2>0
        <3>2. j <= i => Rank(j) <= Rank(i)
            BY <3>1, RankFacts
        <3> QED BY <2>3, <3>1, <3>2
    <2> QED BY <1>2, <2>1, <2>2, <2>4, ReadInChainOrder
<1>3. RunInv => EventsFromChain
    BY <1>1, <1>2 DEF EventsFromChain
<1> QED BY <1>3, RunInvariant, PTL

-----------------------------------------------------------------------------
(* The account of a settled run.  P is a set of positions the loop has read, *)
(* all of one subscription, and X the items at them.                         *)
Enumerates(f, P, X) == /\ \A p, q \in P : p < q => f[p] # f[q]
                       /\ \A p \in P : f[p] \in X
                       /\ \A x \in X : \E p \in P : f[p] = x

LEMMA OneEach ==
    ASSUME NEW n \in Nat, NEW P \in SUBSET (1 .. n), NEW X, NEW f, Enumerates(f, P, X)
    PROVE  Cardinality(P) = Cardinality(X)
<1>1. IsFiniteSet(P)
    <2>1. 1 \in Int /\ n \in Int
        OBVIOUS
    <2>2. IsFiniteSet(1 .. n)
        BY <2>1, FS_Interval
    <2> QED BY <2>2, FS_Subset
<1>2. \A p, q \in P : f[p] = f[q] => p = q
    <2> SUFFICES ASSUME NEW p \in P, NEW q \in P, p # q PROVE f[p] # f[q]
        OBVIOUS
    <2>1. p \in Nat /\ q \in Nat
        OBVIOUS
    <2> QED BY <2>1 DEF Enumerates
<1>3. ImageOf(f, P) = X
    BY DEF ImageOf, Enumerates
<1> QED BY <1>1, <1>2, <1>3, ImageCardinality

LEMMA SettledFacts ==
    ASSUME RunInv, Settled, drops[Me] = 0
    PROVE  /\ Len(consumed) \in Nat /\ DOMAIN consumed = 1 .. Len(consumed)
           /\ \E at :
                 /\ \A q \in 1 .. Len(consumed) : \E m \in Notice :
                       /\ m = sent[Me][at[q]] /\ consumed[q] = ToMessage(m)
                       /\ m.row \in Rendered(m.block) /\ (HeadNote(m) \/ LogNote(m))
                       /\ at[q] \in DOMAIN sent[Me]
                 /\ \A p, q \in 1 .. Len(consumed) : p < q =>
                       Earlier(sent[Me][at[p]], sent[Me][at[q]])
                 /\ \A i \in DOMAIN sent[Me] : IsNote(sent[Me][i]) =>
                       \E p \in 1 .. Len(consumed) : at[p] = i
           /\ \E s \in subs[Me] : /\ s.id = 1 /\ s.kind = "newHeads"
                                  /\ ItemsSince("newHeads") = ItemsOf(s.since .. replay.next - 1)
                                  /\ Got(sent[Me], 1) = Owed(s, s.since .. replay.next - 1)
           /\ \E s \in subs[Me] : /\ s.id = 2 /\ s.kind = "logs" /\ s.addresses = LogFilter
                                  /\ ItemsSince("logs") = ItemsOf(s.since .. replay.next - 1)
                                  /\ Got(sent[Me], 2) = Owed(s, s.since .. replay.next - 1)
<1>0. /\ PipeTypeOK /\ IInv /\ SubsOK(Me) /\ Complete(Me) /\ SubsInv /\ AskInv
      /\ sent[Me] \in Seq(Message) /\ DOMAIN sent[Me] = 1 .. Len(sent[Me]) /\ Len(sent[Me]) \in Nat
      /\ taken \in 0 .. Len(sent[Me])
    BY Alone, OutIs, LenProperties DEF RunInv, PipeInv, FrameInv, IInv, ClientOK, StreamOK
<1>1. taken = Len(sent[Me]) /\ inbox = << >> /\ queue[Me] = << >> /\ conn[Me] = "open" /\ requests = 2
    BY <1>0 DEF Settled, Unread, AskInv
<1>2. Out(Me) = sent[Me]
    BY <1>0, <1>1 DEF Out
<1>3. consumed \in Seq(Messages) /\ Stream = consumed
    BY <1>0, <1>1 DEF PipeTypeOK, Stream
<1>4. Len(consumed) \in Nat /\ DOMAIN consumed = 1 .. Len(consumed)
    BY <1>3, LenProperties
<1>5. PICK at :
         /\ Follows(at)
         /\ \A q \in 1 .. Len(consumed) : \E m \in Notice :
               /\ m = sent[Me][at[q]] /\ consumed[q] = ToMessage(m)
               /\ m.row \in Rendered(m.block) /\ (HeadNote(m) \/ LogNote(m))
         /\ \A p, q \in 1 .. Len(consumed) : p < q =>
               Earlier(sent[Me][at[p]], sent[Me][at[q]])
    BY ReadAsSent
<1>6. /\ \A q \in 1 .. Len(consumed) : at[q] \in DOMAIN sent[Me]
      /\ \A i \in DOMAIN sent[Me] : IsNote(sent[Me][i]) => \E p \in 1 .. Len(consumed) : at[p] = i
    BY <1>0, <1>1, <1>3, <1>5 DEF Follows
<1>7. ASSUME NEW kind, NEW s \in subs[Me], s.kind = kind, kind \in {"newHeads", "logs"}
      PROVE  /\ ItemsSince(kind) = ItemsOf(s.since .. replay.next - 1)
             /\ Got(sent[Me], s.id) = Owed(s, s.since .. replay.next - 1)
    <2>1. \A t \in subs[Me] : t.kind = kind => t = s
        BY <1>0, <1>7 DEF SubsInv, SubsOK
    <2>2. (CHOOSE t \in subs[Me] : t.kind = kind) = s
        BY <1>7, <2>1
    <2>3. Got(sent[Me], s.id) = Owed(s, s.since .. replay.next - 1)
        BY <1>0, <1>1, <1>2 DEF Complete
    <2> QED BY <2>2, <2>3 DEF ItemsSince
<1>8. 1 \in OwnIds(Me) /\ 2 \in OwnIds(Me)
    BY <1>0, <1>1, HeldIs DEF SubsInv
<1>9. PICK s \in subs[Me] : s.id = 1
    BY <1>8 DEF OwnIds
<1>10. PICK t \in subs[Me] : t.id = 2
    BY <1>8 DEF OwnIds
<1>11. s.kind = "newHeads" /\ t.kind = "logs" /\ t.addresses = LogFilter
    BY <1>0, <1>9, <1>10 DEF SubsInv
<1> QED BY <1>4, <1>5, <1>6, <1>7, <1>9, <1>10, <1>11

(* Every head of the blocks replayed since the first subscription is counted *)
(* once, and no other.                                                       *)
LEMMA AllHeadsCounted ==
    ASSUME RunInv, Settled, drops[Me] = 0
    PROVE  blocks = Cardinality({x \in ItemsSince("newHeads") : x.row = 0})
<1> DEFINE n == Len(consumed)
           X == {x \in ItemsSince("newHeads") : x.row = 0}
<1>1. blocks = Cardinality(HeadsBefore(n + 1))
    BY DEF RunInv, PipeInv, IngestedExactly
<1>2. n \in Nat /\ n + 1 - 1 = n
    BY SettledFacts
<1> DEFINE P == {p \in 1 .. n : consumed[p].kind = "head"}
<1>3. HeadsBefore(n + 1) = P
    BY <1>2 DEF HeadsBefore
<1>4. PICK at :
         /\ \A q \in 1 .. n : \E m \in Notice :
               /\ m = sent[Me][at[q]] /\ consumed[q] = ToMessage(m)
               /\ m.row \in Rendered(m.block) /\ (HeadNote(m) \/ LogNote(m))
               /\ at[q] \in DOMAIN sent[Me]
         /\ \A p, q \in 1 .. n : p < q => Earlier(sent[Me][at[p]], sent[Me][at[q]])
         /\ \A i \in DOMAIN sent[Me] : IsNote(sent[Me][i]) => \E p \in 1 .. n : at[p] = i
    BY SettledFacts
<1>5. PICK s \in subs[Me] : /\ s.id = 1 /\ s.kind = "newHeads"
                            /\ ItemsSince("newHeads") = ItemsOf(s.since .. replay.next - 1)
                            /\ Got(sent[Me], 1) = Owed(s, s.since .. replay.next - 1)
    BY SettledFacts
<1> HIDE DEF n
<1>6. PICK f : f = [p \in P |-> [block |-> sent[Me][at[p]].block, row |-> 0]]
    OBVIOUS
<1>7. ASSUME NEW p \in P
      PROVE  /\ sent[Me][at[p]] \in Notice /\ HeadNote(sent[Me][at[p]])
             /\ at[p] \in DOMAIN sent[Me]
    <2>1. PICK m \in Notice : /\ m = sent[Me][at[p]] /\ consumed[p] = ToMessage(m)
                              /\ m.row \in Rendered(m.block) /\ (HeadNote(m) \/ LogNote(m))
                              /\ at[p] \in DOMAIN sent[Me]
        BY <1>4
    <2>2. m.row = 0
        BY <2>1, MessageOf
    <2> QED BY <2>1, <2>2 DEF LogNote
<1>8. ASSUME NEW p \in P, NEW q \in P, p < q PROVE f[p] # f[q]
    <2>1. Earlier(sent[Me][at[p]], sent[Me][at[q]])
        BY <1>4, <1>8
    <2>2. sent[Me][at[p]].block # sent[Me][at[q]].block
        BY <1>7, <2>1, NoticeFields DEF HeadNote, Earlier
    <2>3. f[p].block = sent[Me][at[p]].block /\ f[q].block = sent[Me][at[q]].block
        BY <1>6
    <2> QED BY <2>2, <2>3
<1>9. ASSUME NEW p \in P PROVE f[p] \in X
    <2> DEFINE m == sent[Me][at[p]]
    <2>1. <<m.block, m.row>> \in Got(sent[Me], 1)
        BY <1>7 DEF Got, HeadNote
    <2>2. PICK x \in ItemsOf(s.since .. replay.next - 1) : x.block = m.block /\ x.row = m.row
        BY <1>5, <2>1 DEF Owed
    <2>3. x = [block |-> m.block, row |-> 0] /\ x.row = 0
        <3>1. \E b, r : x = [block |-> b, row |-> r]
            BY <2>2, ItemsMeans
        <3> QED BY <1>7, <2>2, <3>1 DEF HeadNote
    <2>4. f[p] = x
        BY <1>6, <2>3
    <2> QED BY <1>5, <2>3, <2>4
<1>10. ASSUME NEW x \in X PROVE \E p \in P : f[p] = x
    <2>1. x \in ItemsOf(s.since .. replay.next - 1) /\ x.row = 0
        BY <1>5
    <2>2. \E b, r : x = [block |-> b, row |-> r]
        BY <2>1, ItemsMeans
    <2>3. <<x.block, x.row>> \in Got(sent[Me], 1)
        BY <1>5, <2>1 DEF Owed, Matches
    <2>4. PICK i \in DOMAIN sent[Me] : /\ IsNote(sent[Me][i]) /\ sent[Me][i].sub = 1
                                       /\ <<x.block, x.row>> = <<sent[Me][i].block, sent[Me][i].row>>
        BY <2>3 DEF Got
    <2>5. PICK p \in 1 .. n : at[p] = i
        BY <1>4, <2>4
    <2>6. consumed[p].kind = "head"
        <3>1. PICK m \in Notice : /\ m = sent[Me][i] /\ consumed[p] = ToMessage(m)
                                  /\ m.row \in Rendered(m.block)
            BY <1>4, <2>5
        <3>2. m.row = 0
            BY <2>1, <2>4, <3>1
        <3> QED BY <3>1, <3>2, MessageOf
    <2>7. p \in P
        BY <2>6
    <2>8. f[p] = [block |-> x.block, row |-> 0]
        BY <1>6, <2>4, <2>5, <2>7
    <2>9. x = [block |-> x.block, row |-> 0]
        BY <2>1, <2>2
    <2> QED BY <2>7, <2>8, <2>9
<1>11. P \in SUBSET (1 .. n)
    OBVIOUS
<1> HIDE DEF P, X
<1>12. Cardinality(P) = Cardinality(X)
    <2>1. Enumerates(f, P, X)
        BY <1>8, <1>9, <1>10 DEF Enumerates
    <2> QED BY <1>2, <1>11, <2>1, OneEach
<1> QED BY <1>1, <1>3, <1>12 DEF X

(* Every log of the blocks replayed since the second subscription that the   *)
(* router makes an event of is ingested once, and no other.                  *)
LEMMA AllLogsIngested ==
    ASSUME RunInv, Settled, drops[Me] = 0
    PROVE  ingested = Cardinality({x \in ItemsSince("logs") :
               /\ x.row # 0
               /\ Blocks[x.block].rows[x.row].address \in Whitelist \ Undecoded})
<1> DEFINE n == Len(consumed)
           Wanted(x) == Blocks[x.block].rows[x.row].address \in Whitelist \ Undecoded
           X == {x \in ItemsSince("logs") : x.row # 0 /\ Wanted(x)}
           P == Routables(n)
<1>1. ingested = Cardinality(P)
    BY DEF RunInv, PipeInv, IngestedExactly, Rank
<1>2. n \in Nat /\ DOMAIN consumed = 1 .. n
    BY SettledFacts
<1>3. PICK at :
         /\ \A q \in 1 .. n : \E m \in Notice :
               /\ m = sent[Me][at[q]] /\ consumed[q] = ToMessage(m)
               /\ m.row \in Rendered(m.block) /\ (HeadNote(m) \/ LogNote(m))
               /\ at[q] \in DOMAIN sent[Me]
         /\ \A p, q \in 1 .. n : p < q => Earlier(sent[Me][at[p]], sent[Me][at[q]])
         /\ \A i \in DOMAIN sent[Me] : IsNote(sent[Me][i]) => \E p \in 1 .. n : at[p] = i
    BY SettledFacts
<1>4. PICK s \in subs[Me] : /\ s.id = 2 /\ s.kind = "logs" /\ s.addresses = LogFilter
                            /\ ItemsSince("logs") = ItemsOf(s.since .. replay.next - 1)
                            /\ Got(sent[Me], 2) = Owed(s, s.since .. replay.next - 1)
    BY SettledFacts
<1>5. \A q \in 1 .. n : consumed[q].kind = "log" => HeadsBefore(q) # {}
    <2> SUFFICES ASSUME NEW q \in 1 .. n, consumed[q].kind = "log" PROVE HeadsBefore(q) # {}
        OBVIOUS
    <2>1. PICK p \in 1 .. q - 1 : consumed[p] = HeadOf(consumed[q].log.block)
        BY <1>2 DEF RunInv, HeadRead
    <2> QED BY <2>1 DEF HeadsBefore, HeadOf
<1>6. \A b, r : LogAt(b, r).outcome = "event" <=> Blocks[b].rows[r].address \in Whitelist \ Undecoded
    BY DEF LogAt
<1> HIDE DEF n
<1>7. PICK f : f = [p \in P |-> [block |-> sent[Me][at[p]].block, row |-> sent[Me][at[p]].row]]
    OBVIOUS
<1>8. ASSUME NEW p \in P
      PROVE  /\ p \in 1 .. n /\ sent[Me][at[p]] \in Notice /\ LogNote(sent[Me][at[p]])
             /\ at[p] \in DOMAIN sent[Me] /\ Wanted(sent[Me][at[p]])
    <2>1. p \in 1 .. n /\ consumed[p].kind = "log" /\ consumed[p].log.outcome = "event"
        BY DEF Routables, Routable
    <2>2. PICK m \in Notice : /\ m = sent[Me][at[p]] /\ consumed[p] = ToMessage(m)
                              /\ m.row \in Rendered(m.block) /\ (HeadNote(m) \/ LogNote(m))
                              /\ at[p] \in DOMAIN sent[Me]
        BY <1>3, <2>1
    <2>3. m.row # 0 /\ consumed[p].log = LogAt(m.block, m.row)
        BY <2>1, <2>2, MessageOf
    <2> QED BY <1>6, <2>1, <2>2, <2>3 DEF HeadNote
<1>9. ASSUME NEW p \in P, NEW q \in P, p < q PROVE f[p] # f[q]
    <2>1. Earlier(sent[Me][at[p]], sent[Me][at[q]])
        BY <1>3, <1>8, <1>9
    <2>2. ~(sent[Me][at[p]].block = sent[Me][at[q]].block /\ sent[Me][at[p]].row = sent[Me][at[q]].row)
        <3>1. sent[Me][at[p]].sub = 2 /\ sent[Me][at[q]].sub = 2
            BY <1>8 DEF LogNote
        <3>2. /\ sent[Me][at[p]].block \in Nat /\ sent[Me][at[q]].block \in Nat
              /\ sent[Me][at[p]].row \in Nat /\ sent[Me][at[q]].row \in Nat
            BY <1>8, NoticeFields
        <3> QED BY <2>1, <3>1, <3>2 DEF Earlier
    <2>3. /\ f[p].block = sent[Me][at[p]].block /\ f[q].block = sent[Me][at[q]].block
          /\ f[p].row = sent[Me][at[p]].row /\ f[q].row = sent[Me][at[q]].row
        BY <1>7
    <2> QED BY <2>2, <2>3
<1>10. ASSUME NEW p \in P PROVE f[p] \in X
    <2> DEFINE m == sent[Me][at[p]]
    <2>1. <<m.block, m.row>> \in Got(sent[Me], 2)
        BY <1>8 DEF Got, LogNote
    <2>2. PICK x \in ItemsOf(s.since .. replay.next - 1) : x.block = m.block /\ x.row = m.row
        BY <1>4, <2>1 DEF Owed
    <2>3. x = [block |-> m.block, row |-> m.row]
        <3>1. \E b, r : x = [block |-> b, row |-> r]
            BY <2>2, ItemsMeans
        <3> QED BY <2>2, <3>1
    <2>4. f[p] = x /\ x.row # 0 /\ Wanted(x)
        BY <1>7, <1>8, <2>2, <2>3 DEF LogNote
    <2> QED BY <1>4, <2>4
<1>11. ASSUME NEW x \in X PROVE \E p \in P : f[p] = x
    <2>1. x \in ItemsOf(s.since .. replay.next - 1) /\ x.row # 0 /\ Wanted(x)
        BY <1>4
    <2>2. \E b, r : x = [block |-> b, row |-> r]
        BY <2>1, ItemsMeans
    <2>3. Matches(s, x)
        BY <1>4, <2>1 DEF Matches, LogFilter
    <2>4. <<x.block, x.row>> \in Got(sent[Me], 2)
        BY <1>4, <2>1, <2>3 DEF Owed
    <2>5. PICK i \in DOMAIN sent[Me] : /\ IsNote(sent[Me][i]) /\ sent[Me][i].sub = 2
                                       /\ <<x.block, x.row>> = <<sent[Me][i].block, sent[Me][i].row>>
        BY <2>4 DEF Got
    <2>6. PICK p \in 1 .. n : at[p] = i
        BY <1>3, <2>5
    <2>7. consumed[p].kind = "log" /\ consumed[p].log = LogAt(x.block, x.row)
        <3>1. PICK m \in Notice : /\ m = sent[Me][i] /\ consumed[p] = ToMessage(m)
                                  /\ m.row \in Rendered(m.block)
            BY <1>3, <2>6
        <3>2. m.row # 0 /\ m.block = x.block /\ m.row = x.row
            BY <2>1, <2>5, <3>1
        <3> QED BY <3>1, <3>2, MessageOf
    <2>8. p \in P
        BY <1>5, <1>6, <2>1, <2>7 DEF Routables, Routable
    <2>9. f[p] = [block |-> x.block, row |-> x.row]
        BY <1>7, <2>5, <2>6, <2>8
    <2>10. x = [block |-> x.block, row |-> x.row]
        BY <2>2
    <2> QED BY <2>8, <2>9, <2>10
<1>12. P \in SUBSET (1 .. n)
    BY DEF Routables
<1> HIDE DEF P, X
<1>13. Cardinality(P) = Cardinality(X)
    <2>1. Enumerates(f, P, X)
        BY <1>9, <1>10, <1>11 DEF Enumerates
    <2> QED BY <1>2, <1>12, <2>1, OneEach
<1> QED BY <1>1, <1>13 DEF X

(* A run without evictions that has nothing left on its way has ingested     *)
(* every decodable log of the whitelisted contracts, and counted every head, *)
(* of the blocks replayed since it subscribed, once each                     *)
(* (test_pipeline.py; server.py:254-316, pipeline.py:66-99).                 *)
THEOREM WholeReplayIngested == RunSpec => []IngestsWholeReplay
<1>1. RunInv => IngestsWholeReplay
    BY AllHeadsCounted, AllLogsIngested DEF IngestsWholeReplay
<1> QED BY <1>1, RunInvariant, PTL
=============================================================================
