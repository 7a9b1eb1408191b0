------------------------- MODULE SubscriptionApi -------------------------
(***************************************************************************)
(* The subscription API of src/emitter/api.py and its registry of          *)
(* src/emitter/registry.py.  The endpoints are plain functions, which      *)
(* FastAPI runs in a pool of threads: an action is what a thread does      *)
(* between two points where the interpreter may run another one, that is   *)
(* up to the next call that returns.  The process may be restarted at any  *)
(* time and then reads the registry back from its file.                    *)
(***************************************************************************)
EXTENDS Integers, FiniteSets

CONSTANTS Thread,        \* the pool's threads; one of them serves a request
          Key,           \* api_keys; other keys are answered 401 and change nothing
          Url,           \* URLs of equal length
          RateLimit,     \* rate_limit
          MaxRequests, MaxMinute, MaxRestarts   \* bounds

ASSUME RateAssumption == RateLimit \in Nat
ASSUME BoundsAssumption ==
    MaxRequests \in Nat /\ MaxMinute \in Nat /\ MaxRestarts \in Nat

VARIABLES minute,      \* int(time.time() // 60)
          rate,        \* _rate: the window of a key, 0 when it has none
          window,      \* window[n]: [minute, count], the list request n made
          request,     \* request[t]: what thread t is serving
          subs,        \* registry._subs
          file,        \* the registry's file
          requests,    \* requests so far
          restarts,
          asked,       \* asked[k][m]: requests of key k that read minute m
          accepted,    \* accepted[k][m]: those that got past the limit
          answer,      \* answer[u]: the last answered request about u
          overlapped,  \* some request began while another was being served
          torn         \* a restart fell between the truncation and the write

rateVars == <<rate, window, asked, accepted>>
registryVars == <<subs, file, answer, torn>>
vars == <<minute, rateVars, request, registryVars, requests, restarts, overlapped>>

(* Requests by endpoint; GET /subscribers only reads, but counts as one.     *)
Ops == {"subscribe", "unsubscribe", "subscribers"}
NoRequest == [pc |-> "idle"]
Idle(t) == request[t].pc = "idle"
Minutes == 0 .. MaxMinute

(* A file: the URLs it holds, its length, and whether it is valid JSON.      *)
Length(urls) == Cardinality(urls) + 1
NoFile == [urls |-> {}, length |-> 0, valid |-> FALSE]

(* json.loads of the file, or the empty set when it is missing or invalid.   *)
Loaded(f) == IF f.valid THEN f.urls ELSE {}

(* A write at offset 0 leaves the tail of a longer text behind.              *)
Overwritten(f, urls) ==
    [urls |-> urls,
     length |-> IF f.length > Length(urls) THEN f.length ELSE Length(urls),
     valid |-> f.length <= Length(urls)]

-----------------------------------------------------------------------------
Init == /\ minute = 0
        /\ rate = [k \in Key |-> 0]
        /\ window = [n \in 1 .. MaxRequests |-> [minute |-> 0, count |-> 0]]
        /\ request = [t \in Thread |-> NoRequest]
        /\ subs = {}
        /\ file = NoFile
        /\ requests = 0 /\ restarts = 0
        /\ asked = [k \in Key |-> [m \in Minutes |-> 0]]
        /\ accepted = [k \in Key |-> [m \in Minutes |-> 0]]
        /\ answer = [u \in Url |-> "none"]
        /\ overlapped = FALSE /\ torn = FALSE

(* require_api_key: the key is known; read the clock ...                     *)
Begin(t, k, op, u) ==
    /\ Idle(t)
    /\ requests < MaxRequests
    /\ requests' = requests + 1
    /\ request' = [request EXCEPT ![t] =
                      [pc |-> "get", key |-> k, op |-> op, url |-> u,
                       num |-> requests + 1, minute |-> minute]]
    /\ asked' = [asked EXCEPT ![k][minute] = @ + 1]
    /\ overlapped' = (overlapped \/ \E s \in Thread : ~Idle(s))
    /\ UNCHANGED <<minute, rate, window, accepted, registryVars, restarts>>

(* ... look the key's window up ...                                          *)
GetWindow(t) ==
    /\ request[t].pc = "get"
    /\ request' = [request EXCEPT ![t] =
                      [pc |-> "count", found |-> rate[@.key], key |-> @.key, op |-> @.op,
                       url |-> @.url, num |-> @.num, minute |-> @.minute]]
    /\ UNCHANGED <<minute, rateVars, registryVars, requests, restarts, overlapped>>

(* The request needs a window of its own: the key is new, or the minute is.  *)
IsFresh(r) == IF r.found = 0 THEN TRUE ELSE window[r.found].minute # r.minute

(* Count the request in window w as its count-th; answer 429 if it is over   *)
(* the limit.                                                                *)
CountIn(t, w, count, over) ==
    LET r == request[t]
    IN  /\ rate' = IF IsFresh(r) THEN [rate EXCEPT ![r.key] = w] ELSE rate
        /\ window' = [window EXCEPT ![w] = [minute |-> r.minute, count |-> count]]
        /\ IF over
           THEN /\ request' = [request EXCEPT ![t] = NoRequest]
                /\ UNCHANGED accepted
           ELSE /\ request' = [request EXCEPT ![t] =
                       IF r.op = "subscribers" THEN NoRequest
                       ELSE [r EXCEPT !.pc = "change"]]
                /\ accepted' = [accepted EXCEPT ![r.key][r.minute] = @ + 1]
        /\ UNCHANGED <<minute, asked, registryVars, requests, restarts, overlapped>>

(* Mutant: a window is made for a new key only, never for a new minute.      *)
CountForever(t) ==
    LET r == request[t]
    IN  /\ r.pc = "count"
        /\ IF r.found = 0 THEN CountIn(t, r.num, 1, 1 > RateLimit)
           ELSE CountIn(t, r.found, window[r.found].count + 1,
                        window[r.found].count + 1 > RateLimit)

(* Mutant: the limit is compared before the request is counted.              *)
CountLate(t) ==
    LET r == request[t]
    IN  /\ r.pc = "count"
        /\ IF IsFresh(r) THEN CountIn(t, r.num, 1, FALSE)
           ELSE CountIn(t, r.found, window[r.found].count + 1,
                        window[r.found].count > RateLimit)

(* ... take it, or make a new one for a new key or minute.                   *)
Count(t) ==
    LET r == request[t]
    IN  /\ r.pc = "count"
        /\ IF IsFresh(r) THEN CountIn(t, r.num, 1, 1 > RateLimit)
           ELSE CountIn(t, r.found, window[r.found].count + 1,
                        window[r.found].count + 1 > RateLimit)

-----------------------------------------------------------------------------
(* Mutant: remove() does not save.                                           *)
ChangeUnsaved(t) ==
    /\ request[t].pc = "change"
    /\ IF request[t].op = "subscribe"
       THEN /\ subs' = subs \cup {request[t].url}
            /\ answer' = [answer EXCEPT ![request[t].url] = "none"]
            /\ request' = [request EXCEPT ![t].pc = "sort"]
       ELSE /\ subs' = subs \ {request[t].url}
            /\ answer' = [answer EXCEPT ![request[t].url] = "unsubscribe"]
            /\ request' = [request EXCEPT ![t] = NoRequest]
    /\ UNCHANGED <<minute, rateVars, file, torn, requests, restarts, overlapped>>

(* registry.add, registry.remove: change the set in memory ...               *)
Change(t) ==
    /\ request[t].pc = "change"
    /\ subs' = IF request[t].op = "subscribe" THEN subs \cup {request[t].url}
               ELSE subs \ {request[t].url}
    /\ answer' = [answer EXCEPT ![request[t].url] = "none"]
    /\ request' = [request EXCEPT ![t].pc = "sort"]
    /\ UNCHANGED <<minute, rateVars, file, torn, requests, restarts, overlapped>>

(* ... then _save: sort and encode it, open the file, which truncates it,    *)
(* and write.                                                                *)
Sort(t) ==
    /\ request[t].pc = "sort"
    /\ request' = [request EXCEPT ![t] =
                      [pc |-> "open", text |-> subs, op |-> @.op, url |-> @.url]]
    /\ UNCHANGED <<minute, rateVars, registryVars, requests, restarts, overlapped>>

(* Mutant: the file is opened without truncating it.                         *)
OpenKeeps(t) ==
    /\ request[t].pc = "open"
    /\ request' = [request EXCEPT ![t].pc = "write"]
    /\ UNCHANGED <<minute, rateVars, registryVars, requests, restarts, overlapped>>

Open(t) ==
    /\ request[t].pc = "open"
    /\ file' = NoFile
    /\ request' = [request EXCEPT ![t].pc = "write"]
    /\ UNCHANGED <<minute, rateVars, subs, answer, torn, requests, restarts, overlapped>>

Write(t) ==
    /\ request[t].pc = "write"
    /\ file' = Overwritten(file, request[t].text)
    /\ answer' = [answer EXCEPT ![request[t].url] = request[t].op]
    /\ request' = [request EXCEPT ![t] = NoRequest]
    /\ UNCHANGED <<minute, rateVars, subs, torn, requests, restarts, overlapped>>

(* The process ends, in the middle of requests or not, and a new one loads   *)
(* the registry; the rate windows are gone.                                  *)
Restart ==
    /\ restarts < MaxRestarts
    /\ restarts' = restarts + 1
    /\ subs' = Loaded(file)
    /\ torn' = (torn \/ \E t \in Thread : request[t].pc = "write")
    /\ rate' = [k \in Key |-> 0]
    /\ request' = [t \in Thread |-> NoRequest]
    /\ asked' = [k \in Key |-> [m \in Minutes |-> 0]]
    /\ accepted' = [k \in Key |-> [m \in Minutes |-> 0]]
    /\ UNCHANGED <<minute, window, file, requests, answer, overlapped>>

ClockTicks ==
    /\ minute < MaxMinute
    /\ minute' = minute + 1
    /\ UNCHANGED <<rateVars, request, registryVars, requests, restarts, overlapped>>

-----------------------------------------------------------------------------
Serve(t) == GetWindow(t) \/ Count(t) \/ Change(t) \/ Sort(t) \/ Open(t) \/ Write(t)

Next == \/ \E t \in Thread :
              \/ \E k \in Key, op \in Ops, u \in Url : Begin(t, k, op, u)
              \/ Serve(t)
        \/ Restart \/ ClockTicks

Spec == Init /\ [][Next]_vars

-----------------------------------------------------------------------------
TypeOK == /\ minute \in Minutes
          /\ rate \in [Key -> 0 .. MaxRequests]
          /\ window \in [1 .. MaxRequests -> [minute : Minutes, count : Nat]]
          /\ \A t \in Thread :
                request[t].pc \in {"idle", "get", "count", "change", "sort", "open", "write"}
          /\ subs \subseteq Url
          /\ file \in [urls : SUBSET Url, length : Nat, valid : BOOLEAN]
          /\ answer \in [Url -> {"none", "subscribe", "unsubscribe"}]
          /\ torn \in BOOLEAN
          /\ \A k \in Key, m \in Minutes : accepted[k][m] <= asked[k][m]

(* A client within its limit is never turned away, however the threads       *)
(* interleave and the minute changes under them: a 429 means more than       *)
(* RateLimit requests of that key in that minute.                            *)
NoFalseReject ==
    [][\A t \in Thread :
          (/\ request[t].pc = "count" /\ request'[t].pc = "idle"
           /\ restarts' = restarts /\ accepted' = accepted)
             => asked[request[t].key][request[t].minute] > RateLimit]_vars

(* "rate-limited per key (429 when exceeded)" (api.py:10-11): as long as     *)
(* requests are served one at a time, no more than RateLimit of a key get    *)
(* past in a minute, whenever the minute changes.                            *)
RateEnforced ==
    ~overlapped => \A k \in Key, m \in Minutes : accepted[k][m] <= RateLimit

(* When no request is being served, the file says what the registry says: a  *)
(* restart changes nothing.  Of requests served one at a time.               *)
SavedWhenIdle == ~overlapped /\ (\A t \in Thread : Idle(t)) => Loaded(file) = subs

(* Every variable has its type, and an idle server has saved its registry.   *)
RegistrySound == TypeOK /\ SavedWhenIdle

(* Answered requests hold, over restarts in the middle of other requests: a  *)
(* URL that was unsubscribed never comes back, and one that was subscribed   *)
(* goes only if a restart fell into the truncated file.                      *)
AnswersHold ==
    ~overlapped => \A u \in Url :
        /\ answer[u] = "unsubscribe" => u \notin subs
        /\ answer[u] = "subscribe" /\ ~torn => u \in subs

(* "a plain set is sufficient - no locking" (registry.py:4-5): the file says *)
(* what the registry says, however requests overlap.                         *)
SavedWithoutLocking == (\A t \in Thread : Idle(t)) => Loaded(file) = subs
=============================================================================
