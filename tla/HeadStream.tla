----------------------------- MODULE HeadStream -----------------------------
(***************************************************************************)
(* A consumer of block headers: auto_reconnect (reconnect.py) around       *)
(* "async with EthereumClient" (client.py), inside it stream_new_heads     *)
(* (streams.py) once or several times over the same connection.  An action *)
(* is what happens between two awaits.                                     *)
(*                                                                         *)
(* A generator the consumer breaks out of stays suspended at its yield:    *)
(* its finally block, the unsubscribe, runs in a task of its own that the  *)
(* loop's finalizer hook makes.  Cancelling the consumer at the read runs  *)
(* it in place.  The node numbers its subscriptions and sends every new    *)
(* head to each of them over the one socket.                               *)
(***************************************************************************)
EXTENDS Integers, Sequences, FiniteSets

CONSTANTS MaxRetries, Base, Cap,        \* the decorator's arguments
          MaxHeads, MaxStreams, MaxDrops \* bounds on the environment

ASSUME HeadStreamAssumption ==
    {MaxRetries, Base, Cap, MaxHeads, MaxStreams, MaxDrops} \subseteq Nat

VARIABLES call,     \* where the decorated call is
          attempt,  \* auto_reconnect's counter
          slept,    \* the delays it has slept
          w3,       \* is client.w3 set?
          socket,   \* is the connection up?
          subs,     \* the node's subscriptions on this socket
          sub,      \* subscription_id of the stream being read
          closing,  \* subscriptions whose generator is still to be finalized
          arrived,  \* messages on the socket: <<subscription, head>>
          head,     \* the node's latest head
          got,      \* the heads the current stream has yielded
          exc,      \* the exception on its way out of the session
          cut,      \* was a disconnect interrupted by a cancellation?
          nextId, drops

conn == <<w3, socket, subs, arrived>>
retry == <<attempt, slept>>
streamVars == <<call, retry, conn, sub, closing, head, got, exc, cut, nextId, drops>>

Over == {"returned", "raised", "cancelled"}
Smaller(a, b) == IF a < b THEN a ELSE b

StreamInit == /\ call = "connecting" /\ attempt = 0 /\ slept = << >>
              /\ w3 = FALSE /\ socket = FALSE /\ subs = {} /\ arrived = << >>
              /\ sub = 0 /\ closing = {} /\ head = 0 /\ got = << >>
              /\ exc = "none" /\ cut = FALSE /\ nextId = 1 /\ drops = 0

-----------------------------------------------------------------------------
(* The session ended with e: auto_reconnect returns, raises or backs off.    *)
After(e) ==
    IF e = "retryable" /\ attempt < MaxRetries
    THEN /\ call' = "backoff"
         /\ slept' = Append(slept, Smaller(Base * 2 ^ attempt, Cap))
    ELSE /\ call' = (CASE e = "none" -> "returned" [] e = "cancel" -> "cancelled"
                        [] OTHER -> "raised")
         /\ UNCHANGED slept

Retry == /\ call = "backoff"
         /\ attempt' = attempt + 1
         /\ call' = "connecting"
         /\ UNCHANGED <<slept, conn, sub, closing, head, got, exc, nextId, drops, cut>>

(* __aenter__, connect(): the provider connects in time, and w3 is set.      *)
Enter == /\ call = "connecting"
         /\ w3' = TRUE /\ socket' = TRUE
         /\ call' = "subscribing"
         /\ exc' = "none"
         /\ UNCHANGED <<retry, subs, arrived, sub, closing, head, got, nextId, drops, cut>>

(* A ConnectionError out of __aenter__ when refused or timed out; any other  *)
(* failure of the handshake untranslated.  w3 stays unset.                   *)
EnterFails == /\ call = "connecting" /\ drops < MaxDrops
              /\ drops' = drops + 1
              /\ exc' \in {"retryable", "other"}
              /\ After(exc')
              /\ UNCHANGED <<attempt, conn, sub, closing, head, got, cut, nextId>>

Subscribe == /\ call = "subscribing" /\ socket
             /\ sub' = nextId /\ nextId' = nextId + 1
             /\ subs' = subs \cup {nextId}
             /\ got' = << >>
             /\ call' = "reading"
             /\ UNCHANGED <<retry, w3, socket, arrived, closing, head, exc, drops, cut>>

(* Mutant: every message of the shared socket is yielded.                    *)
ReadUnfiltered ==
    /\ call = "reading" /\ arrived # << >>
    /\ arrived' = Tail(arrived)
    /\ got' = Append(got, arrived[1][2])
    /\ UNCHANGED <<call, retry, w3, socket, subs, sub, closing, head, exc, nextId, drops, cut>>

(* process_subscriptions() yields every subscription's messages; the stream  *)
(* passes over those that are not its own.                                   *)
Read == /\ call = "reading" /\ arrived # << >>
        /\ arrived' = Tail(arrived)
        /\ got' = IF arrived[1][1] = sub THEN Append(got, arrived[1][2]) ELSE got
        /\ UNCHANGED <<call, retry, w3, socket, subs, sub, closing, head, exc, nextId, drops, cut>>

(* The consumer breaks out of the loop, to stream again or to leave.         *)
Break == /\ call = "reading" /\ got # << >>
         /\ closing' = closing \cup {sub}
         /\ \/ call' = "subscribing" /\ nextId <= MaxStreams
            \/ call' = "disconnecting"
         /\ UNCHANGED <<retry, conn, sub, head, got, exc, nextId, drops, cut>>

(* Mutant: a generator without the finally block.                            *)
FinalizeNothing(id) ==
    /\ id \in closing
    /\ closing' = closing \ {id}
    /\ UNCHANGED <<call, retry, conn, sub, head, got, exc, nextId, drops, cut>>

(* The abandoned generator's finally, best effort.                           *)
Finalize(id) == /\ id \in closing
                /\ closing' = closing \ {id}
                /\ subs' = subs \ {id}
                /\ UNCHANGED <<call, retry, w3, socket, arrived, sub, head, got, exc, nextId, drops, cut>>

(* The connection is down under a subscribe or a read.  The client library   *)
(* raises a ConnectionError or an exception of its own; the unsubscribe of   *)
(* the finally block fails on the dead socket, and is ignored.               *)
SessionFails == /\ call \in {"subscribing", "reading"} /\ ~socket
                /\ exc' \in {"retryable", "other"}
                /\ call' = "disconnecting"
                /\ UNCHANGED <<retry, conn, sub, closing, head, got, nextId, drops, cut>>

(* The session raises on a live connection: the node refuses the subscribe,  *)
(* or the body of the consumer's loop fails, which abandons the generator.   *)
SessionRaises == /\ exc' \in {"retryable", "other"}
                 /\ call' = "disconnecting"
                 /\ \/ call = "subscribing" /\ socket /\ UNCHANGED closing
                    \/ call = "reading" /\ got # << >> /\ closing' = closing \cup {sub}
                 /\ UNCHANGED <<retry, conn, sub, head, got, nextId, drops, cut>>

(* A header of the stream's own without number or timestamp: the KeyError    *)
(* leaves the generator through its finally block.                           *)
ReadMalformed == /\ call = "reading" /\ arrived # << >> /\ arrived[1][1] = sub
                 /\ arrived' = Tail(arrived)
                 /\ exc' = "other"
                 /\ call' = "unsubscribing"
                 /\ UNCHANGED <<retry, w3, socket, subs, sub, closing, head, got, nextId, drops, cut>>

Unsubscribe == /\ call = "unsubscribing"
               /\ subs' = subs \ {sub}
               /\ call' = "disconnecting"
               /\ UNCHANGED <<retry, w3, socket, arrived, sub, closing, head, got, exc, nextId, drops, cut>>

(* Mutant: an error of the provider leaves the client connected.             *)
DisconnectRaises ==
    /\ call = "disconnecting"
    /\ socket' = FALSE /\ subs' = {} /\ arrived' = << >>
    /\ w3' = ~socket
    /\ After(exc)
    /\ UNCHANGED <<attempt, sub, closing, head, got, exc, nextId, drops, cut>>

(* __aexit__: the provider disconnects, whatever it raises, and w3 is unset. *)
Disconnect == /\ call = "disconnecting"
              /\ socket' = FALSE /\ subs' = {} /\ arrived' = << >>
              /\ w3' = FALSE
              /\ After(exc)
              /\ UNCHANGED <<attempt, sub, closing, head, got, exc, nextId, drops, cut>>

(* The consumer's task is cancelled: at the read, whose finally block runs;  *)
(* in the body of its loop, which abandons the generator; or at the          *)
(* disconnect itself, where the CancelledError passes the except Exception   *)
(* and w3 keeps a provider whose socket may still be open.                   *)
Cancel == /\ call \notin Over /\ exc # "cancel"
          /\ exc' = "cancel"
          /\ cut' = (call = "disconnecting")
          /\ \/ /\ call = "reading" /\ call' = "unsubscribing"
                /\ UNCHANGED closing
             \/ /\ call = "reading" /\ got # << >> /\ call' = "disconnecting"
                /\ closing' = closing \cup {sub}
             \/ /\ call \in {"subscribing", "unsubscribing"} /\ call' = "disconnecting"
                /\ UNCHANGED closing
             \/ /\ call \in {"connecting", "disconnecting", "backoff"}
                /\ call' = "cancelled"
                /\ UNCHANGED closing
          /\ UNCHANGED <<retry, conn, sub, head, got, nextId, drops>>

-----------------------------------------------------------------------------
(* The node.                                                                 *)
NewHead == /\ head < MaxHeads
           /\ head' = head + 1
           /\ \E order \in [1 .. Cardinality(subs) -> subs] :
                 /\ \A i, j \in DOMAIN order : order[i] = order[j] => i = j
                 /\ arrived' = arrived \o [i \in DOMAIN order |-> <<order[i], head + 1>>]
           /\ UNCHANGED <<call, retry, w3, socket, subs, sub, closing, got, exc, nextId, drops, cut>>

Drop == /\ socket /\ drops < MaxDrops
        /\ drops' = drops + 1
        /\ socket' = FALSE /\ subs' = {} /\ arrived' = << >>
        /\ UNCHANGED <<call, retry, w3, sub, closing, head, got, exc, nextId, cut>>

Session == \/ Retry \/ Enter \/ Subscribe \/ Read \/ SessionFails
           \/ Unsubscribe \/ Disconnect
Finalizer == \E id \in closing : Finalize(id)

StreamNext == \/ Session \/ Finalizer \/ Break \/ Cancel \/ NewHead \/ Drop
              \/ EnterFails \/ SessionRaises \/ ReadMalformed

(* The event loop runs the consumer and the finalizers; nobody has to        *)
(* cancel, break or produce heads.                                           *)
StreamSpec == StreamInit /\ [][StreamNext]_streamVars /\ WF_streamVars(Session) /\ WF_streamVars(Finalizer)

-----------------------------------------------------------------------------
(* A stream yields consecutive heads, none twice, while an abandoned stream  *)
(* of the same connection is still subscribed and its copies arrive on the   *)
(* same socket (streams.py:48-53).                                           *)
HeadsOnceInOrder ==
    \A i \in 1 .. Len(got) - 1 : got[i + 1] = got[i] + 1

(* A call that is over has closed its socket and unset w3, however its       *)
(* session ended, unless the cancellation hit the disconnect itself          *)
(* (client.py:34-47).  While it backs off nothing is open either.            *)
SocketReleased ==
    call \in Over \cup {"backoff"} /\ ~cut => ~socket /\ ~w3 /\ subs = {}

(* auto_reconnect counts the failures of the whole call, sessions that ran   *)
(* well in between included: never more than MaxRetries delays, each twice   *)
(* the last up to the cap (reconnect.py:36-57).                              *)
RetriesBounded ==
    /\ Len(slept) <= MaxRetries
    /\ \A k \in DOMAIN slept : slept[k] = Smaller(Base * 2 ^ (k - 1), Cap)
    /\ call = "raised" /\ exc = "retryable" => attempt = MaxRetries

(* However a call ends, it has retried within bounds and holds nothing.      *)
CallsEndClean == SocketReleased /\ RetriesBounded

(* An abandoned subscription does not stay: the node soon has at most the    *)
(* one being read (streams.py:60-64).                                        *)
SubscriptionsReturned == (Cardinality(subs) > 1) ~> (Cardinality(subs) <= 1)
=============================================================================
