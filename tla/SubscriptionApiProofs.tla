----------------------- MODULE SubscriptionApiProofs -----------------------
(***************************************************************************)
(* What the subscription API promises, for every number of threads, keys,  *)
(* URLs, requests and restarts and every limit: no request within the      *)
(* limit is refused, however the threads interleave, and, of requests      *)
(* served one at a time, the limit is kept, the file follows the registry  *)
(* and answers hold.                                                       *)
(***************************************************************************)
EXTENDS SubscriptionApi, FiniteSetTheorems, TLAPS

(* The requests of each point of an endpoint.                                *)
Requests ==
    {NoRequest}
      \cup [pc : {"get"}, key : Key, op : Ops, url : Url,
            num : 1 .. MaxRequests, minute : Minutes]
      \cup [pc : {"count", "change", "sort"}, found : 0 .. MaxRequests,
            key : Key, op : Ops, url : Url,
            num : 1 .. MaxRequests, minute : Minutes]
      \cup [pc : {"open", "write"}, text : SUBSET Url, op : Ops, url : Url]

Changes == {"change", "sort", "open", "write"}

TypeInv ==
    /\ minute \in Minutes /\ requests \in 0 .. MaxRequests /\ restarts \in Nat
    /\ rate \in [Key -> 0 .. MaxRequests]
    /\ window \in [1 .. MaxRequests -> [minute : Minutes, count : Nat]]
    /\ request \in [Thread -> Requests]
    /\ \A t \in Thread : request[t].pc \in Changes => request[t].op # "subscribers"
    /\ subs \in SUBSET Url /\ IsFiniteSet(subs)
    /\ \A t \in Thread : request[t].pc \in {"open", "write"} => IsFiniteSet(request[t].text)
    /\ file \in [urls : SUBSET Url, length : Nat, valid : BOOLEAN] /\ IsFiniteSet(file.urls)
    /\ asked \in [Key -> [Minutes -> Nat]]
    /\ accepted \in [Key -> [Minutes -> Nat]]
    /\ answer \in [Url -> {"none", "subscribe", "unsubscribe"}]
    /\ overlapped \in BOOLEAN /\ torn \in BOOLEAN

-----------------------------------------------------------------------------
(* Thread t serves a request that has read the clock and is not counted.     *)
Pending(t) == request[t].pc \in {"get", "count"}

(* Key k can reach window w: it is the key's window, or a request of the key *)
(* has found it.                                                             *)
Reaches(k, w) ==
    \/ rate[k] = w
    \/ \E t \in Thread : /\ request[t].pc = "count"
                         /\ request[t].key = k /\ request[t].found = w

(* A window is reached by one key only, and none is the one that a request   *)
(* still to be counted, or to come, would make.                              *)
WindowsOwned ==
    /\ \A k, j \in Key, w \in 1 .. MaxRequests :
          Reaches(k, w) => w <= requests /\ (Reaches(j, w) => k = j)
    /\ \A t \in Thread : Pending(t) =>
          /\ request[t].num <= requests
          /\ \A k \in Key, w \in 1 .. MaxRequests : Reaches(k, w) => w # request[t].num
          /\ \A s \in Thread : Pending(s) /\ request[s].num = request[t].num => s = t

(* The threads whose request of key k and minute m is still to be counted.   *)
Uncounted(k, m) ==
    {t \in Thread : Pending(t) /\ request[t].key = k /\ request[t].minute = m}

(* A window that a key reaches counts no more requests than the key has      *)
(* made, the ones still to be counted left out; nor have more got past.      *)
CountsAsked ==
    /\ \A k \in Key, m \in Minutes :
          /\ IsFiniteSet(Uncounted(k, m))
          /\ accepted[k][m] + Cardinality(Uncounted(k, m)) <= asked[k][m]
    /\ \A k \in Key, m \in Minutes, w \in 1 .. MaxRequests :
          Reaches(k, w) /\ window[w].minute = m =>
             window[w].count + Cardinality(Uncounted(k, m)) <= asked[k][m]

RateInv == WindowsOwned /\ CountsAsked

-----------------------------------------------------------------------------
(* Of requests served one at a time: at most one thread is busy, it has      *)
(* found the window its key still has, and a key's window counts at least    *)
(* those that got past in its minute, the last in which any did.             *)
OneAtATime ==
    /\ \A s, t \in Thread : ~Idle(s) /\ ~Idle(t) => s = t
    /\ \A t \in Thread :
          /\ request[t].pc = "count" => request[t].found = rate[request[t].key]
          /\ Pending(t) =>
                /\ request[t].minute <= minute
                /\ LET w == rate[request[t].key]
                   IN  w # 0 => window[w].minute <= request[t].minute

LimitKept ==
    \A k \in Key :
       /\ \A m \in Minutes : accepted[k][m] <= RateLimit
       /\ rate[k] = 0 => \A m \in Minutes : accepted[k][m] = 0
       /\ rate[k] # 0 =>
             LET w == window[rate[k]]
             IN  /\ w.minute <= minute
                 /\ accepted[k][w.minute] <= w.count
                 /\ \A m \in Minutes : m > w.minute => accepted[k][m] = 0

(* The file is the registry until a request changes it, is empty when that   *)
(* request is about to write, and what it writes is the registry.            *)
FileFollows ==
    /\ \A t \in Thread :
          /\ request[t].pc = "write" => file = NoFile
          /\ request[t].pc \in {"open", "write"} => request[t].text = subs
          /\ request[t].pc \in {"sort", "open", "write"} =>
                /\ answer[request[t].url] = "none"
                /\ request[t].op = "subscribe" <=> request[t].url \in subs
    /\ (\A t \in Thread : request[t].pc \notin {"sort", "open", "write"}) => Loaded(file) = subs

(* Answers hold of the registry, and of the file a restart would load.       *)
AnswersKept ==
    \A u \in Url :
       /\ answer[u] = "unsubscribe" => u \notin subs /\ u \notin Loaded(file)
       /\ answer[u] = "subscribe" /\ torn = FALSE =>
             /\ u \in subs
             /\ u \in Loaded(file) \/ \E t \in Thread : request[t].pc = "write"

SerialInv ==
    overlapped = FALSE => OneAtATime /\ LimitKept /\ FileFollows /\ AnswersKept

IInv == TypeInv /\ RateInv /\ SerialInv
-----------------------------------------------------------------------------
(* What a request is at each point of its endpoint.                          *)
LEMMA RequestFields ==
    ASSUME TypeInv, NEW t \in Thread
    PROVE  /\ request[t] \in Requests
           /\ request[t].pc = "get" =>
                 request[t] \in [pc : {"get"}, key : Key, op : Ops, url : Url,
                                 num : 1 .. MaxRequests, minute : Minutes]
           /\ request[t].pc \in {"count", "change", "sort"} =>
                 request[t] \in [pc : {"count", "change", "sort"},
                                 found : 0 .. MaxRequests,
                                 key : Key, op : Ops, url : Url,
                                 num : 1 .. MaxRequests, minute : Minutes]
           /\ request[t].pc \in {"open", "write"} =>
                 request[t] \in [pc : {"open", "write"}, text : SUBSET Url,
                                 op : Ops, url : Url]
           /\ request[t].pc \in {"idle", "get", "count", "change", "sort", "open", "write"}
BY DEF TypeInv, Requests, NoRequest

LEMMA InitType == ASSUME BoundsAssumption, Init PROVE TypeInv
<1>1. /\ minute \in Minutes /\ requests \in 0 .. MaxRequests /\ restarts \in Nat
      /\ rate \in [Key -> 0 .. MaxRequests]
      /\ window \in [1 .. MaxRequests -> [minute : Minutes, count : Nat]]
    BY DEF Init, Minutes, BoundsAssumption
<1>2. /\ request \in [Thread -> Requests]
      /\ \A t \in Thread : request[t].pc = "idle"
    BY DEF Init, Requests, NoRequest
<1>3. /\ subs \in SUBSET Url /\ IsFiniteSet(subs)
      /\ file \in [urls : SUBSET Url, length : Nat, valid : BOOLEAN]
      /\ IsFiniteSet(file.urls)
    BY FS_EmptySet DEF Init, NoFile
<1>4. /\ asked \in [Key -> [Minutes -> Nat]] /\ accepted \in [Key -> [Minutes -> Nat]]
    BY DEF Init
<1>5. /\ answer \in [Url -> {"none", "subscribe", "unsubscribe"}]
      /\ overlapped \in BOOLEAN /\ torn \in BOOLEAN
    BY DEF Init
<1>6. QED
    BY <1>1, <1>2, <1>3, <1>4, <1>5 DEF TypeInv, Changes

(* The file after a write holds the text, and is typed.                      *)
LEMMA OverwrittenType ==
    ASSUME NEW f \in [urls : SUBSET Url, length : Nat, valid : BOOLEAN],
           NEW urls \in SUBSET Url, IsFiniteSet(urls)
    PROVE  /\ Overwritten(f, urls) \in [urls : SUBSET Url, length : Nat, valid : BOOLEAN]
           /\ Overwritten(f, urls).urls = urls
           /\ f.length = 0 => Loaded(Overwritten(f, urls)) = urls
<1>1. Length(urls) \in Nat
    BY FS_CardinalityType DEF Length
<1>2. /\ Overwritten(f, urls).urls = urls
      /\ Overwritten(f, urls).valid = (f.length <= Length(urls))
      /\ Overwritten(f, urls) \in [urls : SUBSET Url, length : Nat, valid : BOOLEAN]
    BY <1>1 DEF Overwritten
<1>3. ASSUME f.length = 0 PROVE Overwritten(f, urls).valid
    BY <1>1, <1>2, <1>3
<1>4. QED
    BY <1>2, <1>3 DEF Loaded

(* How a thread counts its request: in a window of its own when it found     *)
(* none of this minute, else in the one it found.                            *)
Counts(t, w, count) ==
    /\ request[t].pc = "count"
    /\ request[t] \in [pc : {"count"}, found : 0 .. MaxRequests,
                       key : Key, op : Ops, url : Url,
                       num : 1 .. MaxRequests, minute : Minutes]
    /\ window' = [window EXCEPT ![w] = [minute |-> request[t].minute, count |-> count]]
    /\ \/ /\ IsFresh(request[t]) /\ w = request[t].num /\ count = 1
          /\ rate' = [rate EXCEPT ![request[t].key] = w]
       \/ /\ ~IsFresh(request[t]) /\ w = request[t].found
          /\ window[w].minute = request[t].minute /\ count = window[w].count + 1
          /\ rate' = rate
    /\ \/ /\ count > RateLimit /\ accepted' = accepted
          /\ request' = [request EXCEPT ![t] = NoRequest]
       \/ /\ count <= RateLimit
          /\ accepted' = [accepted EXCEPT
                ![request[t].key][request[t].minute] = accepted[request[t].key][request[t].minute] + 1]
          /\ \/ request' = [request EXCEPT ![t] = NoRequest]
             \/ /\ request[t].op # "subscribers"
                /\ request' = [request EXCEPT ![t] = [request[t] EXCEPT !.pc = "change"]]
    /\ minute' = minute /\ asked' = asked /\ requests' = requests
    /\ subs' = subs /\ file' = file /\ answer' = answer /\ torn' = torn
    /\ restarts' = restarts /\ overlapped' = overlapped

LEMMA CountFacts ==
    ASSUME TypeInv, NEW t \in Thread, Count(t)
    PROVE  \E w \in 1 .. MaxRequests, count \in Nat : Counts(t, w, count)
<1> DEFINE r == request[t]
<1>1. /\ r.pc = "count"
      /\ r \in [pc : {"count"}, found : 0 .. MaxRequests, key : Key, op : Ops, url : Url,
                num : 1 .. MaxRequests, minute : Minutes]
    BY RequestFields DEF Count
<1>2. RateLimit \in Nat
    BY RateAssumption
<1>3. ASSUME NEW w, NEW count \in Nat, CountIn(t, w, count, count > RateLimit),
             \/ IsFresh(r) /\ w = r.num /\ count = 1
             \/ /\ ~IsFresh(r) /\ w = r.found /\ window[w].minute = r.minute
                /\ count = window[w].count + 1
      PROVE  Counts(t, w, count)
    <2>1. \/ /\ count > RateLimit /\ accepted' = accepted
             /\ request' = [request EXCEPT ![t] = NoRequest]
          \/ /\ count <= RateLimit
             /\ accepted' = [accepted EXCEPT
                    ![r.key][r.minute] = accepted[r.key][r.minute] + 1]
             /\ \/ request' = [request EXCEPT ![t] = NoRequest]
                \/ /\ r.op # "subscribers"
                   /\ request' = [request EXCEPT ![t] = [r EXCEPT !.pc = "change"]]
        <3>1. CASE count > RateLimit
            BY <1>3, <3>1 DEF CountIn
        <3>2. CASE ~(count > RateLimit)
            <4>1. count <= RateLimit
                BY <1>2, <3>2
            <4>2. QED
                BY <1>3, <3>2, <4>1 DEF CountIn
        <3>3. QED
            BY <3>1, <3>2
    <2>2. /\ IsFresh(r) => rate' = [rate EXCEPT ![r.key] = w]
          /\ ~IsFresh(r) => rate' = rate
        BY <1>3 DEF CountIn
    <2>3. /\ window' = [window EXCEPT ![w] = [minute |-> r.minute, count |-> count]]
          /\ minute' = minute /\ asked' = asked /\ requests' = requests
          /\ subs' = subs /\ file' = file /\ answer' = answer /\ torn' = torn
          /\ restarts' = restarts /\ overlapped' = overlapped
        BY <1>3 DEF CountIn, registryVars
    <2>4. QED
        BY <1>1, <1>3, <2>1, <2>2, <2>3 DEF Counts
<1>4. CASE IsFresh(r)
    <2>1. CountIn(t, r.num, 1, 1 > RateLimit)
        BY <1>4 DEF Count
    <2>2. Counts(t, r.num, 1)
        BY <1>3, <1>4, <2>1
    <2>3. QED
        BY <1>1, <2>2
<1>5. CASE ~IsFresh(r)
    <2>1. CountIn(t, r.found, window[r.found].count + 1, window[r.found].count + 1 > RateLimit)
        BY <1>5 DEF Count
    <2>2. r.found # 0 /\ window[r.found].minute = r.minute
        BY <1>5 DEF IsFresh
    <2>3. r.found \in 1 .. MaxRequests /\ window[r.found].count + 1 \in Nat
        BY <1>1, <2>2, BoundsAssumption DEF TypeInv
    <2>4. Counts(t, r.found, window[r.found].count + 1)
        BY <1>3, <1>5, <2>1, <2>2, <2>3
    <2>5. QED
        BY <2>3, <2>4
<1>6. QED
    BY <1>4, <1>5

(* A counter of a key and a minute, counted up.                              *)
LEMMA AddOne ==
    ASSUME NEW A \in [Key -> [Minutes -> Nat]], NEW k \in Key, NEW m \in Minutes
    PROVE  /\ [A EXCEPT ![k][m] = A[k][m] + 1] \in [Key -> [Minutes -> Nat]]
           /\ \A j \in Key, n \in Minutes :
                 [A EXCEPT ![k][m] = A[k][m] + 1][j][n] =
                     IF j = k /\ n = m THEN A[k][m] + 1 ELSE A[j][n]
<1>1. A[k] \in [Minutes -> Nat] /\ A[k][m] + 1 \in Nat
    OBVIOUS
<1>2. [A[k] EXCEPT ![m] = A[k][m] + 1] \in [Minutes -> Nat]
    BY <1>1
<1>3. [A EXCEPT ![k][m] = A[k][m] + 1] \in [Key -> [Minutes -> Nat]]
    BY <1>1, <1>2
<1>4. ASSUME NEW j \in Key, NEW n \in Minutes
      PROVE  [A EXCEPT ![k][m] = A[k][m] + 1][j][n] =
                 IF j = k /\ n = m THEN A[k][m] + 1 ELSE A[j][n]
    <2>1. CASE j = k
        BY <2>1
    <2>2. CASE j # k
        BY <2>2
    <2>3. QED
        BY <2>1, <2>2
<1>5. QED
    BY <1>3, <1>4

LEMMA BeginBound ==
    ASSUME BoundsAssumption, TypeInv,
           NEW t, NEW k, NEW op, NEW u, Begin(t, k, op, u)
    PROVE  requests \in Nat /\ requests + 1 \in 1 .. MaxRequests
<1>1. requests \in 0 .. MaxRequests /\ requests < MaxRequests /\ MaxRequests \in Nat
    BY DEF Begin, TypeInv, BoundsAssumption
<1>2. QED
    BY <1>1

LEMMA TypeStep ==
    ASSUME BoundsAssumption, TypeInv, [Next]_vars PROVE TypeInv'
<1>1. ASSUME NEW t \in Thread, NEW k \in Key, NEW op \in Ops, NEW u \in Url,
             Begin(t, k, op, u)
      PROVE  TypeInv'
    <2> DEFINE r == [pc |-> "get", key |-> k, op |-> op, url |-> u,
                     num |-> requests + 1, minute |-> minute]
    <2>1. r \in Requests
        <3>1. requests + 1 \in 1 .. MaxRequests /\ minute \in Minutes
            BY <1>1, BeginBound DEF TypeInv
        <3>2. QED
            BY <3>1 DEF Requests
    <2>2. request' = [request EXCEPT ![t] = r]
        BY <1>1 DEF Begin
    <2>3. /\ request' \in [Thread -> Requests]
          /\ \A s \in Thread : s # t => request'[s] = request[s]
          /\ request'[t].pc = "get"
        BY <2>1, <2>2 DEF TypeInv
    <2>4. asked' \in [Key -> [Minutes -> Nat]]
        BY <1>1, AddOne DEF Begin, TypeInv
    <2>5. requests' \in 0 .. MaxRequests
        BY <1>1 DEF Begin, TypeInv, BoundsAssumption
    <2>6. overlapped' \in BOOLEAN
        BY <1>1 DEF Begin
    <2>7. QED
        BY <1>1, <2>3, <2>4, <2>5, <2>6 DEF Begin, TypeInv, registryVars, Changes
<1>2. ASSUME NEW t \in Thread, GetWindow(t) PROVE TypeInv'
    <2> DEFINE r == [pc |-> "count", found |-> rate[request[t].key],
                     key |-> request[t].key, op |-> request[t].op,
                     url |-> request[t].url, num |-> request[t].num,
                     minute |-> request[t].minute]
    <2>1. r \in Requests
        BY <1>2, RequestFields DEF GetWindow, Requests, TypeInv
    <2>2. request' = [request EXCEPT ![t] = r]
        BY <1>2 DEF GetWindow
    <2>3. /\ request' \in [Thread -> Requests]
          /\ \A s \in Thread : s # t => request'[s] = request[s]
          /\ request'[t].pc = "count"
        BY <2>1, <2>2 DEF TypeInv
    <2>4. QED
        BY <1>2, <2>3 DEF GetWindow, TypeInv, registryVars, rateVars, Changes
<1>3. ASSUME NEW t \in Thread, Count(t) PROVE TypeInv'
    <2> DEFINE r == request[t]
               c == [r EXCEPT !.pc = "change"]
    <2>1. PICK w \in 1 .. MaxRequests, count \in Nat : Counts(t, w, count)
        BY <1>3, CountFacts
    <2>2. r \in [pc : {"count"}, found : 0 .. MaxRequests, key : Key, op : Ops, url : Url,
                 num : 1 .. MaxRequests, minute : Minutes]
        BY <2>1 DEF Counts
    <2>3. rate' = rate \/ rate' = [rate EXCEPT ![r.key] = w]
        BY <2>1 DEF Counts
    <2>4. rate' \in [Key -> 0 .. MaxRequests]
        <3>1. w \in 0 .. MaxRequests
            BY BoundsAssumption
        <3>2. rate \in [Key -> 0 .. MaxRequests]
            BY DEF TypeInv
        <3>3. QED
            BY <2>2, <2>3, <3>1, <3>2
    <2>5. window' \in [1 .. MaxRequests -> [minute : Minutes, count : Nat]]
        BY <2>1, <2>2 DEF Counts, TypeInv
    <2>6. accepted' \in [Key -> [Minutes -> Nat]]
        <3>1. \/ accepted' = accepted
              \/ accepted' = [accepted EXCEPT ![r.key][r.minute] = accepted[r.key][r.minute] + 1]
            BY <2>1 DEF Counts
        <3>2. accepted \in [Key -> [Minutes -> Nat]]
            BY DEF TypeInv
        <3>3. r.key \in Key /\ r.minute \in Minutes
            BY <2>2
        <3>4. [accepted EXCEPT ![r.key][r.minute] = accepted[r.key][r.minute] + 1]
                  \in [Key -> [Minutes -> Nat]]
            BY <3>2, <3>3, AddOne
        <3>5. QED
            BY <3>1, <3>2, <3>4
    <2>7. c \in Requests /\ NoRequest \in Requests /\ c.pc = "change" /\ c.op = r.op
        BY <2>2 DEF Requests
    <2>8. \/ request' = [request EXCEPT ![t] = NoRequest]
          \/ request' = [request EXCEPT ![t] = c] /\ r.op # "subscribers"
        BY <2>1 DEF Counts
    <2>9. /\ request' \in [Thread -> Requests]
          /\ \A s \in Thread : s # t => request'[s] = request[s]
          /\ request'[t].pc \in {"idle", "change"}
          /\ request'[t].pc = "change" => request'[t].op # "subscribers"
        <3>1. CASE request' = [request EXCEPT ![t] = NoRequest]
            BY <2>7, <3>1 DEF TypeInv, NoRequest
        <3>2. CASE request' = [request EXCEPT ![t] = c] /\ r.op # "subscribers"
            BY <2>7, <3>2 DEF TypeInv
        <3>3. QED
            BY <2>8, <3>1, <3>2
    <2>10. /\ minute' = minute /\ asked' = asked /\ requests' = requests
           /\ subs' = subs /\ file' = file /\ answer' = answer /\ torn' = torn
           /\ restarts' = restarts /\ overlapped' = overlapped
        BY <2>1 DEF Counts
    <2>11. QED
        BY <2>4, <2>5, <2>6, <2>9, <2>10 DEF TypeInv, Changes
<1>4. ASSUME NEW t \in Thread, Change(t) PROVE TypeInv'
    <2> DEFINE r == [request[t] EXCEPT !.pc = "sort"]
    <2>1. /\ r \in Requests /\ r.pc = "sort" /\ r.op = request[t].op
          /\ request[t].url \in Url
        BY <1>4, RequestFields DEF Change, Requests
    <2>2. /\ request' = [request EXCEPT ![t] = r]
          /\ request[t].op # "subscribers"
        BY <1>4 DEF Change, TypeInv, Changes
    <2>3. /\ request' \in [Thread -> Requests]
          /\ \A s \in Thread : s # t => request'[s] = request[s]
          /\ request'[t].pc = "sort" /\ request'[t].op # "subscribers"
        BY <2>1, <2>2 DEF TypeInv
    <2>4. subs' \in SUBSET Url /\ IsFiniteSet(subs')
        <3>1. subs \in SUBSET Url /\ IsFiniteSet(subs)
            BY DEF TypeInv
        <3>2. CASE subs' = subs \cup {request[t].url}
            BY <2>1, <3>1, <3>2, FS_AddElement
        <3>3. CASE subs' = subs \ {request[t].url}
            BY <2>1, <3>1, <3>3, FS_RemoveElement
        <3>4. QED
            BY <1>4, <3>2, <3>3 DEF Change
    <2>5. answer' \in [Url -> {"none", "subscribe", "unsubscribe"}]
        BY <1>4, <2>1 DEF Change, TypeInv
    <2>6. QED
        BY <1>4, <2>3, <2>4, <2>5 DEF Change, TypeInv, rateVars, Changes
<1>5. ASSUME NEW t \in Thread, Sort(t) PROVE TypeInv'
    <2> DEFINE r == [pc |-> "open", text |-> subs, op |-> request[t].op,
                     url |-> request[t].url]
    <2>1. r \in Requests /\ request[t].op # "subscribers"
        BY <1>5, RequestFields DEF Sort, Requests, TypeInv, Changes
    <2>2. request' = [request EXCEPT ![t] = r]
        BY <1>5 DEF Sort
    <2>3. /\ request' \in [Thread -> Requests]
          /\ \A s \in Thread : s # t => request'[s] = request[s]
          /\ request'[t].pc = "open" /\ request'[t].op # "subscribers"
          /\ request'[t].text = subs
        BY <2>1, <2>2 DEF TypeInv
    <2>4. QED
        BY <1>5, <2>3 DEF Sort, TypeInv, rateVars, registryVars, Changes
<1>6. ASSUME NEW t \in Thread, Open(t) PROVE TypeInv'
    <2> DEFINE r == [request[t] EXCEPT !.pc = "write"]
    <2>1. /\ r \in Requests /\ r.pc = "write" /\ r.op = request[t].op
          /\ r.text = request[t].text
        BY <1>6, RequestFields DEF Open, Requests
    <2>2. /\ request' = [request EXCEPT ![t] = r]
          /\ request[t].op # "subscribers" /\ IsFiniteSet(request[t].text)
        BY <1>6 DEF Open, TypeInv, Changes
    <2>3. /\ request' \in [Thread -> Requests]
          /\ \A s \in Thread : s # t => request'[s] = request[s]
          /\ request'[t].pc = "write" /\ request'[t].op # "subscribers"
          /\ IsFiniteSet(request'[t].text)
        BY <2>1, <2>2 DEF TypeInv
    <2>4. /\ file' \in [urls : SUBSET Url, length : Nat, valid : BOOLEAN]
          /\ IsFiniteSet(file'.urls)
        BY <1>6, FS_EmptySet DEF Open, NoFile
    <2>5. QED
        BY <1>6, <2>3, <2>4 DEF Open, TypeInv, rateVars, Changes
<1>7. ASSUME NEW t \in Thread, Write(t) PROVE TypeInv'
    <2>1. /\ request[t].text \in SUBSET Url /\ IsFiniteSet(request[t].text)
          /\ request[t].op \in {"subscribe", "unsubscribe"} /\ request[t].url \in Url
        BY <1>7, RequestFields DEF Write, TypeInv, Changes, Ops
    <2>2. /\ file' \in [urls : SUBSET Url, length : Nat, valid : BOOLEAN]
          /\ IsFiniteSet(file'.urls)
        BY <1>7, <2>1, OverwrittenType DEF Write, TypeInv
    <2>3. answer' \in [Url -> {"none", "subscribe", "unsubscribe"}]
        BY <1>7, <2>1 DEF Write, TypeInv
    <2>4. /\ request' \in [Thread -> Requests]
          /\ \A s \in Thread : s # t => request'[s] = request[s]
          /\ request'[t].pc = "idle"
        BY <1>7 DEF Write, TypeInv, Requests, NoRequest
    <2>5. QED
        BY <1>7, <2>2, <2>3, <2>4 DEF Write, TypeInv, rateVars, Changes
<1>8. CASE Restart
    <2>1. subs' \in SUBSET Url /\ IsFiniteSet(subs')
        BY <1>8, FS_EmptySet DEF Restart, TypeInv, Loaded
    <2>2. /\ request' \in [Thread -> Requests]
          /\ \A t \in Thread : request'[t].pc = "idle"
        BY <1>8 DEF Restart, Requests, NoRequest
    <2>3. /\ rate' \in [Key -> 0 .. MaxRequests]
          /\ asked' \in [Key -> [Minutes -> Nat]]
          /\ accepted' \in [Key -> [Minutes -> Nat]]
        BY <1>8 DEF Restart, BoundsAssumption
    <2>4. restarts' \in Nat /\ torn' \in BOOLEAN
        BY <1>8 DEF Restart, TypeInv
    <2>5. QED
        BY <1>8, <2>1, <2>2, <2>3, <2>4 DEF Restart, TypeInv, Changes
<1>9. CASE ClockTicks
    <2>1. minute' \in Minutes
        BY <1>9 DEF ClockTicks, TypeInv, Minutes, BoundsAssumption
    <2>2. QED
        BY <1>9, <2>1 DEF ClockTicks, TypeInv, rateVars, registryVars
<1>10. CASE UNCHANGED vars
    BY <1>10 DEF vars, TypeInv, rateVars, registryVars
<1>11. QED
    BY <1>1, <1>2, <1>3, <1>4, <1>5, <1>6, <1>7, <1>8, <1>9, <1>10 DEF Next, Serve

-----------------------------------------------------------------------------
(* A step that lets no key reach another window, and makes no request        *)
(* pending, leaves the windows owned.                                        *)
LEMMA OwnedSame ==
    ASSUME WindowsOwned, requests' = requests,
           \A k \in Key, w \in 1 .. MaxRequests : Reaches(k, w)' => Reaches(k, w),
           \A t \in Thread : Pending(t)' => /\ Pending(t)
                                            /\ request'[t].num = request[t].num
                                            /\ request[t].num \in 1 .. MaxRequests
    PROVE  WindowsOwned'
<1>1. \A k, j \in Key, w \in 1 .. MaxRequests :
          Reaches(k, w)' => w <= requests' /\ (Reaches(j, w)' => k = j)
    BY DEF WindowsOwned
<1>2. ASSUME NEW t \in Thread, Pending(t)'
      PROVE  /\ request'[t].num <= requests'
             /\ \A k \in Key, w \in 1 .. MaxRequests : Reaches(k, w)' => w # request'[t].num
             /\ \A s \in Thread : Pending(s)' /\ request'[s].num = request'[t].num => s = t
    BY <1>2 DEF WindowsOwned
<1>3. QED
    BY <1>1, <1>2 DEF WindowsOwned

LEMMA OwnedBegin ==
    ASSUME BoundsAssumption, TypeInv, WindowsOwned,
           NEW t \in Thread, NEW k \in Key, NEW op \in Ops, NEW u \in Url,
           Begin(t, k, op, u)
    PROVE  WindowsOwned'
<1>1. /\ request[t].pc = "idle" /\ request'[t].pc = "get"
      /\ request'[t].num = requests + 1
      /\ \A s \in Thread : s # t => request'[s] = request[s]
      /\ rate' = rate /\ requests' = requests + 1
    BY DEF Begin, Idle, TypeInv, NoRequest
<1>2. requests \in Nat /\ requests + 1 \in 1 .. MaxRequests
    BY BeginBound
<1>3. ASSUME NEW j, NEW w PROVE Reaches(j, w)' <=> Reaches(j, w)
    BY <1>1 DEF Reaches
<1>4. \A i, j \in Key, w \in 1 .. MaxRequests :
          Reaches(i, w)' => w <= requests' /\ (Reaches(j, w)' => i = j)
    <2>1. ASSUME NEW i \in Key, NEW w \in 1 .. MaxRequests, Reaches(i, w)'
          PROVE  w <= requests'
        <3>1. w <= requests
            BY <1>3, <2>1 DEF WindowsOwned
        <3>2. QED
            BY <1>1, <1>2, <3>1
    <2>2. QED
        BY <1>3, <2>1 DEF WindowsOwned
<1>5. ASSUME NEW s \in Thread, Pending(s)'
      PROVE  /\ request'[s].num <= requests'
             /\ \A j \in Key, w \in 1 .. MaxRequests : Reaches(j, w)' => w # request'[s].num
             /\ \A x \in Thread : Pending(x)' /\ request'[x].num = request'[s].num => x = s
    <2>1. ASSUME NEW x \in Thread, x # t, Pending(x)'
          PROVE  /\ Pending(x) /\ request'[x].num = request[x].num
                 /\ request[x].num \in Nat /\ request[x].num <= requests
                 /\ \A j \in Key, w \in 1 .. MaxRequests : Reaches(j, w) => w # request[x].num
        <3>1. Pending(x) /\ request'[x].num = request[x].num
            BY <1>1, <2>1 DEF Pending
        <3>2. request[x].num \in Nat
            BY <3>1, RequestFields DEF Pending
        <3>3. QED
            BY <3>1, <3>2 DEF WindowsOwned
    <2>2. \A j \in Key, w \in 1 .. MaxRequests : Reaches(j, w) => w # requests + 1
        BY <1>2 DEF WindowsOwned
    <2>3. CASE s = t
        <3>1. ASSUME NEW x \in Thread, Pending(x)', request'[x].num = requests + 1, x # t
              PROVE  FALSE
            <4>1. request[x].num \in Nat /\ request[x].num <= requests
                     /\ request[x].num = requests + 1
                BY <2>1, <3>1
            <4>2. QED
                BY <1>2, <4>1
        <3>2. requests + 1 <= requests + 1
            BY <1>2
        <3>3. QED
            BY <1>1, <1>3, <2>2, <2>3, <3>1, <3>2
    <2>4. CASE s # t
        <3>1. /\ Pending(s) /\ request'[s].num = request[s].num
              /\ request[s].num \in Nat /\ request[s].num <= requests
              /\ \A j \in Key, w \in 1 .. MaxRequests : Reaches(j, w) => w # request[s].num
            BY <1>5, <2>1, <2>4
        <3>2. request[s].num <= requests + 1 /\ request[s].num # requests + 1
            BY <1>2, <3>1
        <3>3. ASSUME NEW x \in Thread, Pending(x)', request'[x].num = request[s].num
              PROVE  x = s
            <4>1. x # t
                BY <1>1, <3>2, <3>3
            <4>2. Pending(x) /\ request[x].num = request[s].num
                BY <2>1, <3>3, <4>1
            <4>3. QED
                BY <3>1, <4>2 DEF WindowsOwned
        <3>4. QED
            BY <1>1, <1>3, <3>1, <3>2, <3>3
    <2>5. QED
        BY <2>3, <2>4
<1>6. QED
    BY <1>4, <1>5 DEF WindowsOwned

(* A counted request is no longer pending, and a window it made is reached   *)
(* by its key alone.                                                         *)
LEMMA CountReaches ==
    ASSUME TypeInv, NEW t \in Thread, NEW w \in 1 .. MaxRequests, NEW count \in Nat,
           Counts(t, w, count)
    PROVE  /\ Pending(t) /\ request'[t].pc \in {"idle", "change"}
           /\ \A s \in Thread : s # t => request'[s] = request[s]
           /\ \A s \in Thread : Pending(s)' <=> Pending(s) /\ s # t
           /\ \A k \in Key, v \in 1 .. MaxRequests :
                 Reaches(k, v)' => \/ Reaches(k, v)
                                   \/ k = request[t].key /\ v = w
           /\ IsFresh(request[t]) \/ Reaches(request[t].key, w)
<1>1. /\ request'[t].pc \in {"idle", "change"} /\ request[t].pc = "count"
      /\ \A s \in Thread : s # t => request'[s] = request[s]
    <2> DEFINE c == [request[t] EXCEPT !.pc = "change"]
    <2>1. request \in [Thread -> Requests] /\ request[t].pc = "count"
        BY DEF Counts, TypeInv
    <2>2. c.pc = "change"
        BY DEF Counts
    <2>3. CASE request' = [request EXCEPT ![t] = NoRequest]
        BY <2>1, <2>3 DEF NoRequest
    <2>4. CASE request' = [request EXCEPT ![t] = c]
        BY <2>1, <2>2, <2>4
    <2>5. QED
        BY <2>3, <2>4 DEF Counts
<1>2. \A s \in Thread : Pending(s)' <=> Pending(s) /\ s # t
    BY <1>1 DEF Pending
<1>3. ASSUME NEW k \in Key, NEW v \in 1 .. MaxRequests, Reaches(k, v)'
      PROVE  Reaches(k, v) \/ (k = request[t].key /\ v = w)
    <2>1. CASE rate'[k] = v
        <3>1. rate' = rate \/ rate' = [rate EXCEPT ![request[t].key] = w]
            BY DEF Counts
        <3>2. rate \in [Key -> 0 .. MaxRequests]
            BY DEF TypeInv
        <3>3. QED
            BY <2>1, <3>1, <3>2 DEF Reaches
    <2>2. CASE \E s \in Thread : request'[s].pc = "count"
                                  /\ request'[s].key = k /\ request'[s].found = v
        BY <1>1, <2>2 DEF Reaches
    <2>3. QED
        BY <1>3, <2>1, <2>2 DEF Reaches
<1>4. IsFresh(request[t]) \/ Reaches(request[t].key, w)
    BY DEF Counts, Reaches
<1>5. QED
    BY <1>1, <1>2, <1>3, <1>4 DEF Pending

LEMMA OwnedCount ==
    ASSUME BoundsAssumption, TypeInv, WindowsOwned, NEW t \in Thread,
           NEW w \in 1 .. MaxRequests, NEW count \in Nat, Counts(t, w, count)
    PROVE  WindowsOwned'
<1> DEFINE key == request[t].key
<1>1. /\ Pending(t)
      /\ \A s \in Thread : s # t => request'[s] = request[s]
      /\ \A s \in Thread : Pending(s)' <=> Pending(s) /\ s # t
      /\ \A k \in Key, v \in 1 .. MaxRequests :
            Reaches(k, v)' => Reaches(k, v) \/ (k = key /\ v = w)
      /\ IsFresh(request[t]) \/ Reaches(key, w)
    BY CountReaches
<1>2. requests' = requests /\ key \in Key
    BY DEF Counts
<1>3. ASSUME NEW s \in Thread, Pending(s)'
      PROVE  /\ Pending(s) /\ s # t /\ request'[s].num = request[s].num
             /\ request[s].num \in 1 .. MaxRequests
    <2>1. Pending(s) /\ s # t /\ request'[s] = request[s]
        BY <1>1, <1>3
    <2>2. request[s].num \in 1 .. MaxRequests
        BY <2>1, RequestFields DEF Pending
    <2>3. QED
        BY <2>1, <2>2
<1>4. CASE IsFresh(request[t])
    <2>1. w = request[t].num
        BY <1>4 DEF Counts
    <2>2. w <= requests /\ \A k \in Key : ~Reaches(k, w)
        BY <1>1, <2>1 DEF WindowsOwned
    <2>3. \A i, j \in Key, v \in 1 .. MaxRequests :
              Reaches(i, v)' => v <= requests' /\ (Reaches(j, v)' => i = j)
        BY <1>1, <1>2, <2>2 DEF WindowsOwned
    <2>4. ASSUME NEW s \in Thread, Pending(s)'
          PROVE  /\ request'[s].num <= requests'
                 /\ \A k \in Key, v \in 1 .. MaxRequests : Reaches(k, v)' => v # request'[s].num
                 /\ \A x \in Thread : Pending(x)' /\ request'[x].num = request'[s].num => x = s
        <3>1. /\ Pending(s) /\ s # t /\ request'[s].num = request[s].num
              /\ request[s].num \in 1 .. MaxRequests
            BY <1>3, <2>4
        <3>2. request[s].num # w
            BY <1>1, <2>1, <3>1 DEF WindowsOwned
        <3>3. /\ request[s].num <= requests
              /\ \A k \in Key, v \in 1 .. MaxRequests : Reaches(k, v) => v # request[s].num
            BY <3>1 DEF WindowsOwned
        <3>4. \A k \in Key, v \in 1 .. MaxRequests : Reaches(k, v)' => v # request'[s].num
            BY <1>1, <3>1, <3>2, <3>3
        <3>5. ASSUME NEW x \in Thread, Pending(x)', request'[x].num = request'[s].num
              PROVE  x = s
            <4>1. Pending(x) /\ request[x].num = request[s].num
                BY <1>3, <3>1, <3>5
            <4>2. QED
                BY <3>1, <4>1 DEF WindowsOwned
        <3>6. QED
            BY <1>2, <3>1, <3>3, <3>4, <3>5
    <2>5. QED
        BY <2>3, <2>4 DEF WindowsOwned
<1>5. CASE Reaches(key, w)
    <2>1. \A k \in Key, v \in 1 .. MaxRequests : Reaches(k, v)' => Reaches(k, v)
        BY <1>1, <1>5
    <2>2. QED
        BY <1>2, <1>3, <2>1, OwnedSame
<1>6. QED
    BY <1>1, <1>4, <1>5

(* What the other steps do to the windows a key reaches and to the requests  *)
(* still to be counted: nothing.                                             *)
LEMMA OthersReach ==
    ASSUME TypeInv, NEW t \in Thread,
           GetWindow(t) \/ Change(t) \/ Sort(t) \/ Open(t) \/ Write(t)
    PROVE  /\ \A k \in Key, w \in 1 .. MaxRequests : Reaches(k, w)' => Reaches(k, w)
           /\ \A s \in Thread : /\ Pending(s)' <=> Pending(s)
                                /\ Pending(s)' => /\ request'[s].num = request[s].num
                                                  /\ request'[s].key = request[s].key
                                                  /\ request'[s].minute = request[s].minute
           /\ requests' = requests /\ rate' = rate /\ window' = window
           /\ asked' = asked /\ accepted' = accepted
<1>1. CASE GetWindow(t)
    <2>1. /\ request[t].pc = "get" /\ request'[t].pc = "count"
          /\ request'[t].found = rate[request[t].key]
          /\ request'[t].key = request[t].key /\ request'[t].num = request[t].num
          /\ request'[t].minute = request[t].minute
          /\ \A s \in Thread : s # t => request'[s] = request[s]
        BY <1>1 DEF GetWindow, TypeInv
    <2>2. requests' = requests /\ rate' = rate /\ window' = window
          /\ asked' = asked /\ accepted' = accepted
        BY <1>1 DEF GetWindow, rateVars
    <2>3. \A s \in Thread : /\ Pending(s)' <=> Pending(s)
                            /\ Pending(s)' => /\ request'[s].num = request[s].num
                                              /\ request'[s].key = request[s].key
                                              /\ request'[s].minute = request[s].minute
        BY <2>1 DEF Pending
    <2>4. ASSUME NEW k \in Key, NEW w \in 1 .. MaxRequests, Reaches(k, w)'
          PROVE  Reaches(k, w)
        BY <2>1, <2>2, <2>4 DEF Reaches
    <2>5. QED
        BY <2>2, <2>3, <2>4
<1>2. CASE Change(t) \/ Sort(t) \/ Open(t) \/ Write(t)
    <2>1. /\ request[t].pc \notin {"get", "count"}
          /\ request'[t].pc \notin {"get", "count"}
          /\ \A s \in Thread : s # t => request'[s] = request[s]
        <3>1. CASE Change(t)
            BY <3>1, RequestFields DEF Change, TypeInv
        <3>2. CASE Sort(t)
            BY <3>2, RequestFields DEF Sort, TypeInv
        <3>3. CASE Open(t)
            BY <3>3, RequestFields DEF Open, TypeInv
        <3>4. CASE Write(t)
            BY <3>4 DEF Write, TypeInv, NoRequest
        <3>5. QED
            BY <1>2, <3>1, <3>2, <3>3, <3>4
    <2>2. requests' = requests /\ rate' = rate /\ window' = window
          /\ asked' = asked /\ accepted' = accepted
        BY <1>2 DEF Change, Sort, Open, Write, rateVars
    <2>3. QED
        BY <2>1, <2>2 DEF Pending, Reaches
<1>3. QED
    BY <1>1, <1>2

LEMMA RestartReaches ==
    ASSUME Restart
    PROVE  /\ \A k \in Key, w \in 1 .. MaxRequests : ~Reaches(k, w)'
           /\ \A t \in Thread : ~Pending(t)'
<1>1. /\ \A k \in Key : rate'[k] = 0
      /\ \A t \in Thread : request'[t].pc = "idle"
    BY DEF Restart, NoRequest
<1>2. ASSUME NEW w \in 1 .. MaxRequests PROVE w # 0
    OBVIOUS
<1>3. QED
    BY <1>1, <1>2 DEF Reaches, Pending

LEMMA OwnedStep ==
    ASSUME BoundsAssumption, TypeInv, WindowsOwned, [Next]_vars PROVE WindowsOwned'
<1> DEFINE Numbered == \A t \in Thread : Pending(t) => request[t].num \in 1 .. MaxRequests
<1>1. Numbered
    BY RequestFields DEF Pending
<1>2. CASE \E t \in Thread : GetWindow(t) \/ Change(t) \/ Sort(t) \/ Open(t) \/ Write(t)
    BY <1>1, <1>2, OthersReach, OwnedSame
<1>3. CASE Restart
    <2>1. requests' = requests
        BY <1>3 DEF Restart
    <2>2. QED
        BY <1>3, <2>1, RestartReaches, OwnedSame
<1>4. CASE ClockTicks \/ UNCHANGED vars
    <2>1. requests' = requests /\ rate' = rate /\ request' = request
        BY <1>4 DEF ClockTicks, vars, rateVars
    <2>2. QED
        BY <1>1, <2>1, OwnedSame DEF Reaches, Pending
<1>5. QED
    BY <1>2, <1>3, <1>4, OwnedBegin, OwnedCount, CountFacts DEF Next, Serve

-----------------------------------------------------------------------------
(* A step that counts no request and begins none keeps the account.          *)
LEMMA AskedSame ==
    ASSUME CountsAsked, window' = window, asked' = asked, accepted' = accepted,
           \A k \in Key, w \in 1 .. MaxRequests : Reaches(k, w)' => Reaches(k, w),
           \A t \in Thread : /\ Pending(t)' <=> Pending(t)
                             /\ Pending(t)' => /\ request'[t].key = request[t].key
                                               /\ request'[t].minute = request[t].minute
    PROVE  CountsAsked'
<1>1. ASSUME NEW k, NEW m PROVE Uncounted(k, m)' = Uncounted(k, m)
    BY DEF Uncounted
<1>2. \A k \in Key, m \in Minutes :
          /\ IsFiniteSet(Uncounted(k, m)')
          /\ accepted'[k][m] + Cardinality(Uncounted(k, m)') <= asked'[k][m]
    BY <1>1 DEF CountsAsked
<1>3. \A k \in Key, m \in Minutes, w \in 1 .. MaxRequests :
          Reaches(k, w)' /\ window'[w].minute = m =>
             window'[w].count + Cardinality(Uncounted(k, m)') <= asked'[k][m]
    BY <1>1 DEF CountsAsked
<1>4. QED
    BY <1>2, <1>3 DEF CountsAsked

(* A thread begins a request of key k: one more is asked for and uncounted.  *)
LEMMA AskedBegin ==
    ASSUME TypeInv, CountsAsked,
           NEW t \in Thread, NEW k \in Key, NEW op \in Ops, NEW u \in Url,
           Begin(t, k, op, u)
    PROVE  CountsAsked'
<1>1. /\ request[t].pc = "idle" /\ request'[t].pc = "get"
      /\ request'[t].key = k /\ request'[t].minute = minute
      /\ \A s \in Thread : s # t => request'[s] = request[s]
      /\ rate' = rate /\ window' = window /\ accepted' = accepted
    BY DEF Begin, Idle, TypeInv
<1>2. \A j, w : Reaches(j, w)' <=> Reaches(j, w)
    BY <1>1 DEF Reaches
<1>3. ASSUME NEW j \in Key, NEW m \in Minutes
      PROVE  /\ asked[j][m] \in Nat /\ accepted[j][m] \in Nat
             /\ IsFiniteSet(Uncounted(j, m)) /\ Cardinality(Uncounted(j, m)) \in Nat
    BY FS_CardinalityType DEF TypeInv, CountsAsked
<1>4. ASSUME NEW j \in Key, NEW m \in Minutes, j # k \/ m # minute
      PROVE  Uncounted(j, m)' = Uncounted(j, m) /\ asked'[j][m] = asked[j][m]
    <2>1. Uncounted(j, m)' = Uncounted(j, m)
        BY <1>1, <1>4 DEF Uncounted, Pending
    <2>2. asked'[j][m] = asked[j][m]
        BY <1>4 DEF Begin, TypeInv
    <2>3. QED
        BY <2>1, <2>2
<1>5. /\ IsFiniteSet(Uncounted(k, minute)')
      /\ Cardinality(Uncounted(k, minute)') = Cardinality(Uncounted(k, minute)) + 1
      /\ asked'[k][minute] = asked[k][minute] + 1
    <2>1. /\ Uncounted(k, minute)' = Uncounted(k, minute) \cup {t}
          /\ t \notin Uncounted(k, minute)
        BY <1>1 DEF Begin, Uncounted, Pending
    <2>2. minute \in Minutes
        BY DEF TypeInv
    <2>3. asked'[k][minute] = asked[k][minute] + 1
        BY <2>2 DEF Begin, TypeInv
    <2>4. QED
        BY <1>3, <2>1, <2>2, <2>3, FS_AddElement
<1>6. ASSUME NEW j \in Key, NEW m \in Minutes
      PROVE  /\ IsFiniteSet(Uncounted(j, m)')
             /\ \/ /\ Cardinality(Uncounted(j, m)') = Cardinality(Uncounted(j, m))
                   /\ asked'[j][m] = asked[j][m]
                \/ /\ Cardinality(Uncounted(j, m)') = Cardinality(Uncounted(j, m)) + 1
                   /\ asked'[j][m] = asked[j][m] + 1
    <2>1. CASE j # k \/ m # minute
        BY <1>3, <1>4, <2>1
    <2>2. CASE j = k /\ m = minute
        <3>1. Uncounted(j, m) = Uncounted(k, minute) /\ Uncounted(j, m)' = Uncounted(k, minute)'
            BY <1>1, <2>2 DEF Begin, Uncounted
        <3>2. QED
            BY <1>5, <2>2, <3>1
    <2>3. QED
        BY <2>1, <2>2
<1>7. \A j \in Key, m \in Minutes :
          /\ IsFiniteSet(Uncounted(j, m)')
          /\ accepted'[j][m] + Cardinality(Uncounted(j, m)') <= asked'[j][m]
    <2>1. ASSUME NEW j \in Key, NEW m \in Minutes
          PROVE  accepted'[j][m] + Cardinality(Uncounted(j, m)') <= asked'[j][m]
        <3>1. accepted[j][m] + Cardinality(Uncounted(j, m)) <= asked[j][m]
            BY DEF CountsAsked
        <3>2. QED
            BY <1>1, <1>3, <1>6, <3>1
    <2>2. QED
        BY <1>6, <2>1
<1>8. ASSUME NEW j \in Key, NEW m \in Minutes, NEW w \in 1 .. MaxRequests,
             Reaches(j, w)', window'[w].minute = m
      PROVE  window'[w].count + Cardinality(Uncounted(j, m)') <= asked'[j][m]
    <2>1. window[w].count + Cardinality(Uncounted(j, m)) <= asked[j][m]
        BY <1>1, <1>2, <1>8 DEF CountsAsked
    <2>2. window[w].count \in Nat /\ window' = window
        BY <1>1 DEF TypeInv
    <2>3. QED
        BY <1>3, <1>6, <2>1, <2>2
<1>9. QED
    BY <1>7, <1>8 DEF CountsAsked

(* A thread counts its request in a window of its key: the window counts one *)
(* more, at most one more gets past, and one fewer is uncounted.             *)
LEMMA AskedCount ==
    ASSUME TypeInv, WindowsOwned, CountsAsked, NEW t \in Thread,
           NEW w \in 1 .. MaxRequests, NEW count \in Nat, Counts(t, w, count)
    PROVE  CountsAsked'
<1> DEFINE key == request[t].key
           min == request[t].minute
<1>1. /\ Pending(t)
      /\ \A s \in Thread : s # t => request'[s] = request[s]
      /\ \A s \in Thread : Pending(s)' <=> Pending(s) /\ s # t
      /\ \A k \in Key, v \in 1 .. MaxRequests :
            Reaches(k, v)' => Reaches(k, v) \/ (k = key /\ v = w)
      /\ IsFresh(request[t]) \/ Reaches(key, w)
    BY CountReaches
<1>2. key \in Key /\ min \in Minutes /\ asked' = asked
    BY DEF Counts
<1>3. ASSUME NEW j \in Key, NEW m \in Minutes
      PROVE  /\ asked[j][m] \in Nat /\ accepted[j][m] \in Nat
             /\ IsFiniteSet(Uncounted(j, m)) /\ Cardinality(Uncounted(j, m)) \in Nat
    BY FS_CardinalityType DEF TypeInv, CountsAsked
<1>4. ASSUME NEW j \in Key, NEW m \in Minutes, j # key \/ m # min
      PROVE  Uncounted(j, m)' = Uncounted(j, m) /\ accepted'[j][m] = accepted[j][m]
    <2>1. Uncounted(j, m)' = Uncounted(j, m)
        BY <1>1, <1>4 DEF Uncounted
    <2>2. \/ accepted' = accepted
          \/ accepted' = [accepted EXCEPT ![key][min] = accepted[key][min] + 1]
        BY DEF Counts
    <2>3. accepted \in [Key -> [Minutes -> Nat]]
        BY DEF TypeInv
    <2>4. accepted'[j][m] = accepted[j][m]
        BY <1>2, <1>4, <2>2, <2>3, AddOne
    <2>5. QED
        BY <2>1, <2>4
<1>5. ASSUME NEW j \in Key, NEW m \in Minutes, j = key, m = min
      PROVE  /\ IsFiniteSet(Uncounted(j, m)')
             /\ Cardinality(Uncounted(j, m)) = Cardinality(Uncounted(j, m)') + 1
             /\ Cardinality(Uncounted(j, m)') \in Nat
             /\ accepted'[j][m] \in {accepted[j][m], accepted[j][m] + 1}
    <2>1. /\ Uncounted(j, m)' = Uncounted(j, m) \ {t}
          /\ t \in Uncounted(j, m)
        BY <1>1, <1>5 DEF Uncounted
    <2>2. /\ IsFiniteSet(Uncounted(j, m)')
          /\ Cardinality(Uncounted(j, m)') = Cardinality(Uncounted(j, m)) - 1
        BY <1>3, <2>1, FS_RemoveElement
    <2>3. Cardinality(Uncounted(j, m)') \in Nat
        BY <2>2, FS_CardinalityType
    <2>4. \/ accepted' = accepted
          \/ accepted' = [accepted EXCEPT ![key][min] = accepted[key][min] + 1]
        BY DEF Counts
    <2>5. accepted \in [Key -> [Minutes -> Nat]]
        BY DEF TypeInv
    <2>6. accepted'[j][m] \in {accepted[j][m], accepted[j][m] + 1}
        BY <1>2, <1>5, <2>4, <2>5, AddOne
    <2>7. QED
        BY <1>3, <2>2, <2>3, <2>6
<1>6. ASSUME NEW j \in Key, NEW m \in Minutes
      PROVE  /\ IsFiniteSet(Uncounted(j, m)')
             /\ accepted'[j][m] + Cardinality(Uncounted(j, m)') <= asked'[j][m]
    <2>1. accepted[j][m] + Cardinality(Uncounted(j, m)) <= asked[j][m]
        BY DEF CountsAsked
    <2>2. CASE j = key /\ m = min
        BY <1>2, <1>3, <1>5, <2>1, <2>2
    <2>3. CASE j # key \/ m # min
        BY <1>2, <1>3, <1>4, <2>1, <2>3
    <2>4. QED
        BY <2>2, <2>3
<1>7. ASSUME NEW j \in Key, NEW m \in Minutes, NEW v \in 1 .. MaxRequests,
             Reaches(j, v)', window'[v].minute = m
      PROVE  window'[v].count + Cardinality(Uncounted(j, m)') <= asked'[j][m]
    <2>1. /\ window'[w] = [minute |-> min, count |-> count]
          /\ v # w => window'[v] = window[v]
        BY DEF Counts, TypeInv
    <2>2. CASE v # w
        <3>1. Reaches(j, v) /\ window'[v] = window[v]
            BY <1>1, <1>7, <2>1, <2>2
        <3>2. window[v].count + Cardinality(Uncounted(j, m)) <= asked[j][m]
            BY <1>7, <3>1 DEF CountsAsked
        <3>3. window[v].count \in Nat
            BY DEF TypeInv
        <3>4. Cardinality(Uncounted(j, m)') \in Nat
                 /\ Cardinality(Uncounted(j, m)') <= Cardinality(Uncounted(j, m))
            BY <1>3, <1>4, <1>5
        <3>5. QED
            BY <1>2, <1>3, <3>1, <3>2, <3>3, <3>4
    <2>3. CASE v = w
        <3>1. m = min /\ window'[v].count = count
            BY <1>7, <2>1, <2>3
        <3>2. j = key
            <4>1. CASE IsFresh(request[t])
                <5>1. w = request[t].num
                    BY <4>1 DEF Counts
                <5>2. ~Reaches(j, w)
                    BY <1>1, <5>1 DEF WindowsOwned
                <5>3. QED
                    BY <1>1, <1>7, <2>3, <5>2
            <4>2. CASE Reaches(key, w)
                BY <1>1, <1>2, <1>7, <2>3, <4>2 DEF WindowsOwned
            <4>3. QED
                BY <1>1, <4>1, <4>2
        <3>3. /\ Cardinality(Uncounted(j, m)') + 1 = Cardinality(Uncounted(j, m))
              /\ Cardinality(Uncounted(j, m)') \in Nat
            BY <1>5, <3>1, <3>2
        <3>4. CASE IsFresh(request[t])
            <4>1. count = 1
                BY <3>4 DEF Counts
            <4>2. accepted[j][m] + Cardinality(Uncounted(j, m)) <= asked[j][m]
                BY DEF CountsAsked
            <4>3. QED
                BY <1>2, <1>3, <3>1, <3>3, <4>1, <4>2
        <3>5. CASE ~IsFresh(request[t])
            <4>1. Reaches(j, w) /\ window[w].minute = m /\ count = window[w].count + 1
                BY <1>1, <3>1, <3>2, <3>5 DEF Counts
            <4>2. window[w].count + Cardinality(Uncounted(j, m)) <= asked[j][m]
                BY <4>1 DEF CountsAsked
            <4>3. window[w].count \in Nat
                BY DEF TypeInv
            <4>4. QED
                BY <1>2, <1>3, <3>1, <3>3, <4>1, <4>2, <4>3
        <3>6. QED
            BY <3>4, <3>5
    <2>4. QED
        BY <2>2, <2>3
<1>8. QED
    BY <1>6, <1>7 DEF CountsAsked

LEMMA AskedRestart == ASSUME Restart PROVE CountsAsked'
<1>1. ASSUME NEW k, NEW m PROVE Uncounted(k, m)' = {}
    BY RestartReaches DEF Uncounted
<1>2. ASSUME NEW k \in Key, NEW m \in Minutes
      PROVE  accepted'[k][m] = 0 /\ asked'[k][m] = 0
    BY DEF Restart
<1>3. ASSUME NEW k \in Key, NEW m \in Minutes
      PROVE  /\ IsFiniteSet(Uncounted(k, m)')
             /\ accepted'[k][m] + Cardinality(Uncounted(k, m)') <= asked'[k][m]
    BY <1>1, <1>2, FS_EmptySet
<1>4. QED
    BY <1>3, RestartReaches DEF CountsAsked

LEMMA AskedStep ==
    ASSUME TypeInv, WindowsOwned, CountsAsked, [Next]_vars PROVE CountsAsked'
<1>1. CASE \E t \in Thread : GetWindow(t) \/ Change(t) \/ Sort(t) \/ Open(t) \/ Write(t)
    BY <1>1, OthersReach, AskedSame
<1>2. CASE ClockTicks \/ UNCHANGED vars
    <2>1. /\ rate' = rate /\ request' = request /\ window' = window
          /\ asked' = asked /\ accepted' = accepted
        BY <1>2 DEF ClockTicks, vars, rateVars
    <2>2. QED
        BY <2>1, AskedSame DEF Reaches, Pending
<1>3. QED
    BY <1>1, <1>2, AskedBegin, AskedCount, AskedRestart, CountFacts DEF Next, Serve

LEMMA InitRate == ASSUME Init PROVE RateInv
<1>1. /\ \A k \in Key : rate[k] = 0
      /\ \A t \in Thread : request[t].pc = "idle"
      /\ \A k \in Key, m \in Minutes : accepted[k][m] = 0 /\ asked[k][m] = 0
    BY DEF Init, NoRequest
<1>2. \A k \in Key, w \in 1 .. MaxRequests : ~Reaches(k, w)
    BY <1>1 DEF Reaches
<1>3. ASSUME NEW k \in Key, NEW m \in Minutes
      PROVE  /\ IsFiniteSet(Uncounted(k, m))
             /\ accepted[k][m] + Cardinality(Uncounted(k, m)) <= asked[k][m]
    <2>1. Uncounted(k, m) = {}
        BY <1>1 DEF Uncounted, Pending
    <2>2. QED
        BY <1>1, <2>1, FS_EmptySet
<1>4. QED
    BY <1>1, <1>2, <1>3 DEF RateInv, WindowsOwned, CountsAsked, Pending

-----------------------------------------------------------------------------
(* While no request overlaps another, the thread that serves one is alone,   *)
(* and so is the one that begins one.                                        *)
LEMMA BeginAlone ==
    ASSUME TypeInv, NEW t \in Thread, NEW k \in Key, NEW op \in Ops, NEW u \in Url,
           Begin(t, k, op, u), overlapped' = FALSE
    PROVE  /\ overlapped = FALSE /\ \A s \in Thread : request[s].pc = "idle"
           /\ request'[t].pc = "get" /\ request'[t].key = k
           /\ request'[t].minute = minute
           /\ \A s \in Thread : s # t => request'[s].pc = "idle"
           /\ minute' = minute /\ rate' = rate /\ window' = window
           /\ accepted' = accepted /\ subs' = subs /\ file' = file
           /\ answer' = answer /\ torn' = torn
<1>1. overlapped = FALSE /\ \A s \in Thread : request[s].pc = "idle"
    BY DEF Begin, TypeInv, Idle
<1>2. request' = [request EXCEPT ![t] = [pc |-> "get", key |-> k, op |-> op, url |-> u,
                                          num |-> requests + 1, minute |-> minute]]
    BY DEF Begin
<1>3. /\ request'[t].pc = "get" /\ request'[t].key = k /\ request'[t].minute = minute
      /\ \A s \in Thread : s # t => request'[s] = request[s]
    BY <1>2 DEF TypeInv
<1>4. QED
    BY <1>1, <1>3 DEF Begin, registryVars

LEMMA ServeAlone ==
    ASSUME TypeInv, OneAtATime, NEW t \in Thread, Serve(t)
    PROVE  /\ request[t].pc # "idle"
           /\ \A s \in Thread : s # t => request[s].pc = "idle" /\ request'[s].pc = "idle"
           /\ overlapped' = overlapped /\ minute' = minute
<1>1. request[t].pc # "idle"
    BY DEF Serve, GetWindow, Count, Change, Sort, Open, Write
<1>2. \A s \in Thread : s # t => request[s].pc = "idle"
    BY <1>1 DEF OneAtATime, Idle
<1>3. \A s \in Thread : s # t => request'[s] = request[s]
    <2>1. CASE Count(t)
        BY <2>1, CountFacts, CountReaches
    <2>2. CASE GetWindow(t) \/ Change(t) \/ Sort(t) \/ Open(t) \/ Write(t)
        BY <2>2 DEF GetWindow, Change, Sort, Open, Write, TypeInv
    <2>3. QED
        BY <2>1, <2>2 DEF Serve
<1>4. overlapped' = overlapped /\ minute' = minute
    <2>1. CASE Count(t)
        BY <2>1, CountFacts DEF Counts
    <2>2. CASE GetWindow(t) \/ Change(t) \/ Sort(t) \/ Open(t) \/ Write(t)
        BY <2>2 DEF GetWindow, Change, Sort, Open, Write
    <2>3. QED
        BY <2>1, <2>2 DEF Serve
<1>5. QED
    BY <1>1, <1>2, <1>3, <1>4

LEMMA OneStep ==
    ASSUME BoundsAssumption, TypeInv, OneAtATime, LimitKept, overlapped' = FALSE, [Next]_vars
    PROVE  OneAtATime'
<1>1. ASSUME NEW t \in Thread, NEW k \in Key, NEW op \in Ops, NEW u \in Url,
             Begin(t, k, op, u)
      PROVE  OneAtATime'
    <2>1. /\ request'[t].pc = "get" /\ request'[t].key = k /\ request'[t].minute = minute
          /\ \A s \in Thread : s # t => request'[s].pc = "idle"
          /\ minute' = minute /\ rate' = rate /\ window' = window
        BY <1>1, BeginAlone
    <2>2. minute <= minute
        BY DEF TypeInv, Minutes
    <2>3. rate[k] # 0 => window[rate[k]].minute <= minute
        BY DEF LimitKept
    <2>4. QED
        BY <2>1, <2>2, <2>3 DEF OneAtATime, Idle, Pending
<1>2. ASSUME NEW t \in Thread, GetWindow(t) PROVE OneAtATime'
    <2>1. /\ \A s \in Thread : s # t => request'[s].pc = "idle"
          /\ minute' = minute
        BY <1>2, ServeAlone DEF Serve
    <2>2. /\ request'[t].pc = "count" /\ request'[t].found = rate[request[t].key]
          /\ request'[t].key = request[t].key /\ request'[t].minute = request[t].minute
          /\ rate' = rate /\ window' = window /\ request[t].pc = "get"
        BY <1>2 DEF GetWindow, TypeInv, rateVars
    <2>3. QED
        BY <2>1, <2>2 DEF OneAtATime, Idle, Pending
<1>3. ASSUME NEW t \in Thread, Count(t) \/ Change(t) \/ Sort(t) \/ Open(t) \/ Write(t)
      PROVE  OneAtATime'
    <2>1. \A s \in Thread : s # t => request'[s].pc = "idle"
        BY <1>3, ServeAlone DEF Serve
    <2>2. request'[t].pc \notin {"get", "count"}
        <3>1. CASE Count(t)
            BY <3>1, CountFacts, CountReaches
        <3>2. CASE Change(t)
            BY <3>2, RequestFields DEF Change, TypeInv
        <3>3. CASE Sort(t)
            BY <3>3 DEF Sort, TypeInv
        <3>4. CASE Open(t)
            BY <3>4, RequestFields DEF Open, TypeInv
        <3>5. CASE Write(t)
            BY <3>5 DEF Write, TypeInv, NoRequest
        <3>6. QED
            BY <1>3, <3>1, <3>2, <3>3, <3>4, <3>5
    <2>3. QED
        BY <2>1, <2>2 DEF OneAtATime, Idle, Pending
<1>4. CASE Restart
    <2>1. \A t \in Thread : request'[t].pc = "idle"
        BY <1>4 DEF Restart, NoRequest
    <2>2. QED
        BY <2>1 DEF OneAtATime, Idle, Pending
<1>5. CASE ClockTicks
    <2>1. /\ minute' = minute + 1 /\ rate' = rate /\ window' = window /\ request' = request
          /\ minute \in Nat
        BY <1>5 DEF ClockTicks, rateVars, TypeInv, Minutes
    <2>2. ASSUME NEW t \in Thread, Pending(t)
          PROVE  request[t].minute <= minute + 1
        <3>1. request[t].minute \in Nat
            BY <2>2, RequestFields DEF Pending, Minutes
        <3>2. request[t].minute <= minute
            BY <2>2 DEF OneAtATime
        <3>3. QED
            BY <2>1, <3>1, <3>2
    <2>3. QED
        BY <2>1, <2>2 DEF OneAtATime, Idle, Pending
<1>6. CASE UNCHANGED vars
    BY <1>6 DEF vars, rateVars, OneAtATime, Idle, Pending
<1>7. QED
    BY <1>1, <1>2, <1>3, <1>4, <1>5, <1>6 DEF Next, Serve

-----------------------------------------------------------------------------
(* Served alone, a request is counted in the window its key has, and gets    *)
(* past only while the window counts no more than the limit.                 *)
LEMMA LimitCount ==
    ASSUME BoundsAssumption, RateAssumption, TypeInv, WindowsOwned, OneAtATime, LimitKept,
           NEW t \in Thread, NEW w \in 1 .. MaxRequests, NEW count \in Nat,
           Counts(t, w, count)
    PROVE  LimitKept'
<1> DEFINE key == request[t].key
           min == request[t].minute
<1>1. /\ key \in Key /\ min \in Minutes /\ minute' = minute
      /\ request[t].found = rate[key] /\ request[t].found \in 0 .. MaxRequests
      /\ min \in Nat /\ minute \in Nat /\ min <= minute
      /\ rate[key] # 0 => window[rate[key]].minute <= min
    <2>1. /\ key \in Key /\ min \in Minutes /\ minute' = minute
          /\ request[t].pc = "count" /\ request[t].found \in 0 .. MaxRequests
        BY DEF Counts
    <2>2. Pending(t)
        BY <2>1 DEF Pending
    <2>3. min \in Nat /\ minute \in Nat
        BY <2>1 DEF TypeInv, Minutes
    <2>4. /\ request[t].found = rate[key] /\ min <= minute
          /\ rate[key] # 0 => window[rate[key]].minute <= min
        BY <2>1, <2>2 DEF OneAtATime
    <2>5. QED
        BY <2>1, <2>3, <2>4
<1>2. /\ accepted \in [Key -> [Minutes -> Nat]]
      /\ \/ count > RateLimit /\ accepted' = accepted
         \/ /\ count <= RateLimit
            /\ accepted' = [accepted EXCEPT ![key][min] = accepted[key][min] + 1]
    BY DEF Counts, TypeInv
<1>3. /\ window'[w] = [minute |-> min, count |-> count]
      /\ \A v \in 1 .. MaxRequests : v # w => window'[v] = window[v]
    BY DEF Counts, TypeInv
<1>4. /\ rate'[key] = w /\ w # 0
      /\ \A k \in Key : k # key => rate'[k] = rate[k]
    <2>1. CASE rate' = [rate EXCEPT ![key] = w]
        <3>1. rate \in [Key -> 0 .. MaxRequests]
            BY DEF TypeInv
        <3>2. QED
            BY <1>1, <2>1, <3>1
    <2>2. CASE ~IsFresh(request[t]) /\ w = request[t].found /\ rate' = rate
        BY <1>1, <2>2
    <2>3. QED
        BY <2>1, <2>2 DEF Counts
<1>5. accepted[key][min] + 1 <= count /\ accepted[key][min] \in Nat
    <2>1. accepted[key][min] \in Nat
        BY <1>1, <1>2
    <2>2. CASE IsFresh(request[t])
        <3>1. count = 1
            BY <2>2 DEF Counts
        <3>2. CASE rate[key] = 0
            BY <1>1, <3>1, <3>2 DEF LimitKept
        <3>3. CASE rate[key] # 0
            <4>1. window[rate[key]].minute # min
                BY <1>1, <2>2, <3>3 DEF IsFresh
            <4>2. rate[key] \in 1 .. MaxRequests
                BY <1>1, <3>3
            <4>3. window[rate[key]].minute \in Nat
                BY <4>2 DEF TypeInv, Minutes
            <4>4. min > window[rate[key]].minute
                BY <1>1, <3>3, <4>1, <4>3
            <4>5. accepted[key][min] = 0
                BY <1>1, <3>3, <4>4 DEF LimitKept
            <4>6. QED
                BY <3>1, <4>5
        <3>4. QED
            BY <3>2, <3>3
    <2>3. CASE ~IsFresh(request[t])
        <3>1. w = rate[key] /\ window[w].minute = min /\ count = window[w].count + 1
            BY <1>1, <2>3 DEF Counts
        <3>2. w # 0 /\ window[w].count \in Nat
            BY DEF TypeInv
        <3>3. accepted[key][min] <= window[w].count
            BY <1>1, <3>1, <3>2 DEF LimitKept
        <3>4. QED
            BY <2>1, <3>1, <3>2, <3>3
    <2>4. QED
        BY <2>1, <2>2, <2>3
<1>6. ASSUME NEW k \in Key, NEW m \in Minutes, k # key \/ m # min
      PROVE  accepted'[k][m] = accepted[k][m]
    BY <1>1, <1>2, <1>6, AddOne
<1>7. accepted'[key][min] <= count /\ accepted'[key][min] <= RateLimit
    <2>1. CASE count > RateLimit /\ accepted' = accepted
        <3>1. accepted[key][min] <= RateLimit
            BY <1>1 DEF LimitKept
        <3>2. QED
            BY <1>5, <2>1, <3>1
    <2>2. CASE count <= RateLimit
                /\ accepted' = [accepted EXCEPT ![key][min] = accepted[key][min] + 1]
        <3>1. accepted'[key][min] = accepted[key][min] + 1
            BY <1>1, <1>2, <2>2, AddOne
        <3>2. QED
            BY <1>5, <2>2, <3>1, RateAssumption
    <2>3. QED
        BY <1>2, <2>1, <2>2
<1>8. ASSUME NEW k \in Key, NEW m \in Minutes PROVE accepted'[k][m] <= RateLimit
    <2>1. CASE k = key /\ m = min
        BY <1>7, <2>1
    <2>2. CASE k # key \/ m # min
        BY <1>6, <2>2 DEF LimitKept
    <2>3. QED
        BY <2>1, <2>2
<1>9. ASSUME NEW m \in Minutes, m > min PROVE accepted'[key][m] = 0
    <2>1. m # min /\ m \in Nat
        BY <1>1, <1>9 DEF Minutes
    <2>2. accepted'[key][m] = accepted[key][m]
        BY <1>1, <1>6, <2>1
    <2>3. CASE rate[key] = 0
        BY <1>1, <2>2, <2>3 DEF LimitKept
    <2>4. CASE rate[key] # 0
        <3>1. rate[key] \in 1 .. MaxRequests
            BY <1>1, <2>4
        <3>2. window[rate[key]].minute \in Nat
            BY <3>1 DEF TypeInv, Minutes
        <3>3. m > window[rate[key]].minute
            BY <1>1, <1>9, <2>1, <2>4, <3>2
        <3>4. QED
            BY <1>1, <2>2, <2>4, <3>3 DEF LimitKept
    <2>5. QED
        BY <2>3, <2>4
<1>10. ASSUME NEW k \in Key, k # key, rate[k] # 0
       PROVE  window'[rate[k]] = window[rate[k]]
    <2>1. rate[k] \in 1 .. MaxRequests /\ Reaches(k, rate[k])
        BY <1>10 DEF TypeInv, Reaches
    <2>2. rate[k] # w
        <3>1. CASE IsFresh(request[t])
            <4>1. w = request[t].num /\ Pending(t)
                BY <3>1 DEF Counts, Pending
            <4>2. QED
                BY <2>1, <4>1 DEF WindowsOwned
        <3>2. CASE ~IsFresh(request[t])
            <4>1. Reaches(key, w)
                BY <3>2 DEF Counts, Reaches
            <4>2. QED
                BY <1>1, <1>10, <2>1, <4>1 DEF WindowsOwned
        <3>3. QED
            BY <3>1, <3>2
    <2>3. QED
        BY <1>3, <2>1, <2>2
<1>11. ASSUME NEW k \in Key
       PROVE  /\ \A m \in Minutes : accepted'[k][m] <= RateLimit
              /\ rate'[k] = 0 => \A m \in Minutes : accepted'[k][m] = 0
              /\ rate'[k] # 0 =>
                    /\ window'[rate'[k]].minute <= minute'
                    /\ accepted'[k][window'[rate'[k]].minute] <= window'[rate'[k]].count
                    /\ \A m \in Minutes : m > window'[rate'[k]].minute => accepted'[k][m] = 0
    <2>1. CASE k = key
        BY <1>1, <1>3, <1>4, <1>7, <1>8, <1>9, <2>1
    <2>2. CASE k # key
        <3>1. rate'[k] = rate[k] /\ \A m \in Minutes : accepted'[k][m] = accepted[k][m]
            BY <1>4, <1>6, <2>2
        <3>2. CASE rate[k] = 0
            BY <1>8, <3>1, <3>2 DEF LimitKept
        <3>3. CASE rate[k] # 0
            <4>1. window'[rate'[k]] = window[rate[k]]
                BY <1>10, <2>2, <3>1, <3>3
            <4>2. rate[k] \in 1 .. MaxRequests
                BY <3>3 DEF TypeInv
            <4>3. window[rate[k]].minute \in Minutes
                BY <4>2 DEF TypeInv
            <4>4. QED
                BY <1>1, <1>8, <3>1, <3>3, <4>1, <4>3 DEF LimitKept
        <3>4. QED
            BY <3>2, <3>3
    <2>3. QED
        BY <2>1, <2>2
<1>12. QED
    BY <1>11 DEF LimitKept

LEMMA LimitStep ==
    ASSUME BoundsAssumption, RateAssumption, TypeInv, WindowsOwned, OneAtATime, LimitKept,
           [Next]_vars
    PROVE  LimitKept'
<1>1. CASE Restart
    <2>1. \A k \in Key : rate'[k] = 0 /\ \A m \in Minutes : accepted'[k][m] = 0
        BY <1>1 DEF Restart
    <2>2. QED
        BY <2>1, RateAssumption DEF LimitKept
<1>2. CASE ClockTicks
    <2>1. /\ minute' = minute + 1 /\ rate' = rate /\ window' = window /\ accepted' = accepted
          /\ minute \in Nat
        BY <1>2 DEF ClockTicks, rateVars, TypeInv, Minutes
    <2>2. ASSUME NEW k \in Key, rate[k] # 0 PROVE window[rate[k]].minute <= minute + 1
        <3>1. rate[k] \in 1 .. MaxRequests
            BY <2>2 DEF TypeInv
        <3>2. window[rate[k]].minute \in Nat
            BY <3>1 DEF TypeInv, Minutes
        <3>3. window[rate[k]].minute <= minute
            BY <2>2 DEF LimitKept
        <3>4. QED
            BY <2>1, <3>2, <3>3
    <2>3. QED
        BY <2>1, <2>2 DEF LimitKept
<1>3. CASE \/ UNCHANGED vars
           \/ \E t \in Thread :
                \/ GetWindow(t) \/ Change(t) \/ Sort(t) \/ Open(t) \/ Write(t)
                \/ \E k \in Key, op \in Ops, u \in Url : Begin(t, k, op, u)
    <2>1. minute' = minute /\ rate' = rate /\ window' = window /\ accepted' = accepted
        BY <1>3 DEF vars, rateVars, GetWindow, Change, Sort, Open, Write, Begin
    <2>2. QED
        BY <2>1 DEF LimitKept
<1>4. QED
    BY <1>1, <1>2, <1>3, LimitCount, CountFacts DEF Next, Serve

-----------------------------------------------------------------------------
(* Served alone, a request that changes the registry saves it before it is   *)
(* answered.                                                                 *)
LEMMA FileStep ==
    ASSUME TypeInv, OneAtATime, FileFollows, overlapped' = FALSE, [Next]_vars
    PROVE  FileFollows'
<1>1. ASSUME NEW t \in Thread, NEW k \in Key, NEW op \in Ops, NEW u \in Url,
             Begin(t, k, op, u)
      PROVE  FileFollows'
    BY <1>1, BeginAlone DEF FileFollows, Loaded
<1>2. ASSUME NEW t \in Thread, GetWindow(t) \/ Count(t) PROVE FileFollows'
    <2>1. \A s \in Thread : s # t => request[s].pc = "idle" /\ request'[s].pc = "idle"
        BY <1>2, ServeAlone DEF Serve
    <2>2. /\ request[t].pc \in {"get", "count"}
          /\ request'[t].pc \notin {"sort", "open", "write"}
          /\ subs' = subs /\ file' = file
        <3>1. CASE GetWindow(t)
            BY <3>1 DEF GetWindow, TypeInv, registryVars
        <3>2. CASE Count(t)
            <4>1. PICK w \in 1 .. MaxRequests, count \in Nat : Counts(t, w, count)
                BY <3>2, CountFacts
            <4>2. request[t].pc = "count" /\ subs' = subs /\ file' = file
                BY <4>1 DEF Counts
            <4>3. request'[t].pc \in {"idle", "change"}
                BY <4>1, CountReaches
            <4>4. QED
                BY <4>2, <4>3
        <3>3. QED
            BY <1>2, <3>1, <3>2
    <2>3. Loaded(file) = subs
        BY <2>1, <2>2 DEF FileFollows
    <2>4. QED
        BY <2>1, <2>2, <2>3 DEF FileFollows, Loaded
<1>3. ASSUME NEW t \in Thread, Change(t) PROVE FileFollows'
    <2>1. \A s \in Thread : s # t => request[s].pc = "idle" /\ request'[s].pc = "idle"
        BY <1>3, ServeAlone DEF Serve
    <2>2. /\ request'[t].pc = "sort" /\ request'[t].url = request[t].url
          /\ answer'[request[t].url] = "none"
          /\ request'[t].op = request[t].op
        BY <1>3, RequestFields DEF Change, TypeInv
    <2>3. request[t].op = "subscribe" <=> request[t].url \in subs'
        BY <1>3 DEF Change
    <2>4. QED
        BY <2>1, <2>2, <2>3 DEF FileFollows
<1>4. ASSUME NEW t \in Thread, Sort(t) PROVE FileFollows'
    <2>1. \A s \in Thread : s # t => request[s].pc = "idle" /\ request'[s].pc = "idle"
        BY <1>4, ServeAlone DEF Serve
    <2>2. /\ request[t].pc = "sort" /\ request'[t].pc = "open"
          /\ request'[t].url = request[t].url /\ request'[t].text = subs
          /\ subs' = subs /\ answer' = answer /\ request'[t].op = request[t].op
        BY <1>4 DEF Sort, TypeInv, registryVars
    <2>3. QED
        BY <2>1, <2>2 DEF FileFollows
<1>5. ASSUME NEW t \in Thread, Open(t) PROVE FileFollows'
    <2>1. \A s \in Thread : s # t => request[s].pc = "idle" /\ request'[s].pc = "idle"
        BY <1>5, ServeAlone DEF Serve
    <2>2. /\ request[t].pc = "open" /\ request'[t].pc = "write"
          /\ request'[t].url = request[t].url /\ request'[t].text = request[t].text
          /\ subs' = subs /\ answer' = answer /\ file' = NoFile
          /\ request'[t].op = request[t].op
        BY <1>5, RequestFields DEF Open, TypeInv
    <2>3. QED
        BY <2>1, <2>2 DEF FileFollows
<1>6. ASSUME NEW t \in Thread, Write(t) PROVE FileFollows'
    <2>1. \A s \in Thread : s # t => request[s].pc = "idle" /\ request'[s].pc = "idle"
        BY <1>6, ServeAlone DEF Serve
    <2>2. /\ request[t].pc = "write" /\ request'[t].pc = "idle"
          /\ subs' = subs /\ file' = Overwritten(file, request[t].text)
        BY <1>6 DEF Write, TypeInv, NoRequest
    <2>3. /\ file = NoFile /\ request[t].text = subs
          /\ subs \in SUBSET Url /\ IsFiniteSet(subs)
          /\ file \in [urls : SUBSET Url, length : Nat, valid : BOOLEAN]
        BY <2>2 DEF FileFollows, TypeInv
    <2>4. file.length = 0
        BY <2>3 DEF NoFile
    <2>5. Loaded(Overwritten(file, subs)) = subs
        BY <2>3, <2>4, OverwrittenType
    <2>6. Loaded(file)' = subs'
        BY <2>2, <2>3, <2>5 DEF Loaded
    <2>7. QED
        BY <2>1, <2>2, <2>6 DEF FileFollows
<1>7. CASE Restart
    <2>1. /\ \A t \in Thread : request'[t].pc = "idle"
          /\ subs' = Loaded(file) /\ file' = file
        BY <1>7 DEF Restart, NoRequest
    <2>2. QED
        BY <2>1 DEF FileFollows, Loaded
<1>8. CASE ClockTicks \/ UNCHANGED vars
    <2>1. request' = request /\ subs' = subs /\ file' = file /\ answer' = answer
        BY <1>8 DEF ClockTicks, vars, registryVars
    <2>2. QED
        BY <2>1 DEF FileFollows, Loaded
<1>9. QED
    BY <1>1, <1>2, <1>3, <1>4, <1>5, <1>6, <1>7, <1>8 DEF Next, Serve

(* A step that touches neither the registry nor the answers keeps them.      *)
LEMMA AnswersSame ==
    ASSUME AnswersKept, subs' = subs, file' = file, answer' = answer, torn' = torn,
           \A t \in Thread : request[t].pc = "write" => request'[t].pc = "write"
    PROVE  AnswersKept'
<1>1. Loaded(file)' = Loaded(file)
    BY DEF Loaded
<1>2. ASSUME NEW u \in Url
      PROVE  /\ answer'[u] = "unsubscribe" => u \notin subs' /\ u \notin Loaded(file)'
             /\ answer'[u] = "subscribe" /\ torn' = FALSE =>
                   /\ u \in subs'
                   /\ u \in Loaded(file)' \/ \E t \in Thread : request'[t].pc = "write"
    BY <1>1 DEF AnswersKept
<1>3. QED
    BY <1>2 DEF AnswersKept

(* An answer stands until the next request that changes the URL, and over a  *)
(* restart, which loads what the last answered request saved unless it falls *)
(* between the truncation and the write.                                     *)
LEMMA AnswersStep ==
    ASSUME TypeInv, OneAtATime, FileFollows, AnswersKept, overlapped' = FALSE, [Next]_vars
    PROVE  AnswersKept'
<1>1. ASSUME NEW t \in Thread, NEW k \in Key, NEW op \in Ops, NEW u \in Url,
             Begin(t, k, op, u)
      PROVE  AnswersKept'
    BY <1>1, BeginAlone, AnswersSame
<1>2. ASSUME NEW t \in Thread, GetWindow(t) \/ Count(t) \/ Sort(t) PROVE AnswersKept'
    <2>1. \A s \in Thread : s # t => request[s].pc = "idle"
        BY <1>2, ServeAlone DEF Serve
    <2>2. /\ request[t].pc # "write"
          /\ subs' = subs /\ file' = file /\ answer' = answer /\ torn' = torn
        <3>1. CASE GetWindow(t) \/ Sort(t)
            BY <3>1 DEF GetWindow, Sort, registryVars
        <3>2. CASE Count(t)
            BY <3>2, CountFacts DEF Counts
        <3>3. QED
            BY <1>2, <3>1, <3>2
    <2>3. QED
        BY <2>1, <2>2, AnswersSame
<1>3. ASSUME NEW t \in Thread, Change(t) PROVE AnswersKept'
    <2>1. /\ \A s \in Thread : request[s].pc # "write"
        BY <1>3, ServeAlone DEF Serve, Change
    <2>2. /\ request[t].url \in Url /\ file' = file /\ torn' = torn
          /\ answer' = [answer EXCEPT ![request[t].url] = "none"]
          /\ subs' = subs \cup {request[t].url} \/ subs' = subs \ {request[t].url}
        BY <1>3, RequestFields DEF Change
    <2>3. Loaded(file)' = Loaded(file)
        BY <2>2 DEF Loaded
    <2>4. ASSUME NEW u \in Url
          PROVE  /\ answer'[u] = "unsubscribe" => u \notin subs' /\ u \notin Loaded(file)'
                 /\ answer'[u] = "subscribe" /\ torn' = FALSE =>
                       u \in subs' /\ u \in Loaded(file)'
        <3>1. CASE u = request[t].url
            <4>1. answer'[u] = "none"
                BY <2>2, <3>1 DEF TypeInv
            <4>2. QED
                BY <4>1
        <3>2. CASE u # request[t].url
            <4>1. answer'[u] = answer[u] /\ (u \in subs' <=> u \in subs)
                BY <2>2, <3>2 DEF TypeInv
            <4>2. QED
                BY <2>1, <2>2, <2>3, <4>1 DEF AnswersKept
        <3>3. QED
            BY <3>1, <3>2
    <2>5. QED
        BY <2>4 DEF AnswersKept
<1>4. ASSUME NEW t \in Thread, Open(t) PROVE AnswersKept'
    <2>1. /\ request'[t].pc = "write" /\ file' = NoFile
          /\ subs' = subs /\ answer' = answer /\ torn' = torn
        BY <1>4, RequestFields DEF Open, TypeInv
    <2>2. Loaded(file)' = {}
        BY <2>1 DEF Loaded, NoFile
    <2>3. QED
        BY <2>1, <2>2 DEF AnswersKept
<1>5. ASSUME NEW t \in Thread, Write(t) PROVE AnswersKept'
    <2>1. /\ request[t].pc = "write" /\ request[t].url \in Url
          /\ request[t].op \in {"subscribe", "unsubscribe"}
          /\ subs' = subs /\ torn' = torn
          /\ answer' = [answer EXCEPT ![request[t].url] = request[t].op]
        BY <1>5, RequestFields DEF Write, TypeInv, Changes, Ops
    <2>2. Loaded(file)' = subs'
        <3>1. FileFollows'
            BY <1>5, FileStep DEF Next, Serve
        <3>2. \A s \in Thread : request'[s].pc = "idle"
            BY <1>5, ServeAlone DEF Serve, Write, TypeInv, NoRequest
        <3>3. QED
            BY <3>1, <3>2 DEF FileFollows
    <2>3. request[t].op = "subscribe" <=> request[t].url \in subs
        BY <2>1 DEF FileFollows
    <2>4. ASSUME NEW u \in Url
          PROVE  /\ answer'[u] = "unsubscribe" => u \notin subs'
                 /\ answer'[u] = "subscribe" /\ torn' = FALSE => u \in subs'
        <3>1. CASE u = request[t].url
            <4>1. answer'[u] = request[t].op
                BY <2>1, <3>1 DEF TypeInv
            <4>2. QED
                BY <2>1, <2>3, <3>1, <4>1
        <3>2. CASE u # request[t].url
            <4>1. answer'[u] = answer[u]
                BY <2>1, <3>2 DEF TypeInv
            <4>2. QED
                BY <2>1, <4>1 DEF AnswersKept
        <3>3. QED
            BY <3>1, <3>2
    <2>5. QED
        BY <2>2, <2>4 DEF AnswersKept
<1>6. CASE Restart
    <2>1. /\ subs' = Loaded(file) /\ file' = file /\ answer' = answer
          /\ torn' = (torn \/ \E t \in Thread : request[t].pc = "write")
        BY <1>6 DEF Restart
    <2>2. Loaded(file)' = Loaded(file)
        BY <2>1 DEF Loaded
    <2>3. torn' = FALSE => torn = FALSE /\ \A t \in Thread : request[t].pc # "write"
        BY <2>1 DEF TypeInv
    <2>4. QED
        BY <2>1, <2>2, <2>3 DEF AnswersKept
<1>7. CASE ClockTicks \/ UNCHANGED vars
    <2>1. /\ request' = request /\ subs' = subs /\ file' = file
          /\ answer' = answer /\ torn' = torn
        BY <1>7 DEF ClockTicks, vars, registryVars
    <2>2. QED
        BY <2>1, AnswersSame
<1>8. QED
    BY <1>1, <1>2, <1>3, <1>4, <1>5, <1>6, <1>7 DEF Next, Serve

-----------------------------------------------------------------------------
LEMMA SerialStep ==
    ASSUME BoundsAssumption, RateAssumption, TypeInv, WindowsOwned, SerialInv, [Next]_vars
    PROVE  SerialInv'
<1> SUFFICES ASSUME overlapped' = FALSE
             PROVE  (OneAtATime /\ LimitKept /\ FileFollows /\ AnswersKept)'
    BY DEF SerialInv
<1>1. overlapped = FALSE
    <2>1. CASE \E t \in Thread : Count(t)
        BY <2>1, CountFacts DEF Counts
    <2>2. CASE \E t \in Thread, k \in Key, op \in Ops, u \in Url : Begin(t, k, op, u)
        BY <2>2, BeginAlone
    <2>3. CASE \/ Restart \/ ClockTicks \/ UNCHANGED vars
               \/ \E t \in Thread : GetWindow(t) \/ Change(t) \/ Sort(t) \/ Open(t) \/ Write(t)
        BY <2>3 DEF Restart, ClockTicks, vars, GetWindow, Change, Sort, Open, Write
    <2>4. QED
        BY <2>1, <2>2, <2>3 DEF Next, Serve
<1>2. OneAtATime /\ LimitKept /\ FileFollows /\ AnswersKept
    BY <1>1 DEF SerialInv
<1>3. QED
    BY <1>2, OneStep, LimitStep, FileStep, AnswersStep

LEMMA InitSerial == ASSUME RateAssumption, Init PROVE SerialInv
<1>1. /\ \A t \in Thread : request[t].pc = "idle"
      /\ \A k \in Key : rate[k] = 0 /\ \A m \in Minutes : accepted[k][m] = 0
      /\ \A u \in Url : answer[u] = "none"
      /\ subs = {} /\ file = NoFile
    BY DEF Init, NoRequest
<1>2. OneAtATime
    BY <1>1 DEF OneAtATime, Idle, Pending
<1>3. LimitKept
    BY <1>1, RateAssumption DEF LimitKept
<1>4. FileFollows
    BY <1>1 DEF FileFollows, Loaded, NoFile
<1>5. AnswersKept
    BY <1>1 DEF AnswersKept
<1>6. QED
    BY <1>2, <1>3, <1>4, <1>5 DEF SerialInv

(* IInv holds of every reachable state.                                      *)
THEOREM ApiInvariant == Spec => []IInv
<1>1. Init => IInv
    BY InitType, InitRate, InitSerial, BoundsAssumption, RateAssumption DEF IInv
<1>2. IInv /\ [Next]_vars => IInv'
    BY TypeStep, OwnedStep, AskedStep, SerialStep, BoundsAssumption, RateAssumption
       DEF IInv, RateInv
<1>3. QED
    BY <1>1, <1>2, PTL DEF Spec

(* "rate-limited per key (429 when exceeded)" (api.py:10-11): of requests    *)
(* served one at a time, no more than RateLimit of a key get past the check  *)
(* in a minute, whenever the minute changes and the process restarts.        *)
THEOREM LimitEnforced == Spec => []RateEnforced
<1>1. IInv => RateEnforced
    BY DEF IInv, TypeInv, SerialInv, LimitKept, RateEnforced
<1>2. QED
    BY <1>1, ApiInvariant, PTL

(* Every variable has its type, and when requests are served one at a time   *)
(* an idle server's file holds its registry (registry.py:41-44): a restart   *)
(* then changes nothing.                                                     *)
THEOREM RegistrySaved == Spec => []RegistrySound
<1>1. IInv => TypeOK
    <2>1. ASSUME IInv, NEW k \in Key, NEW m \in Minutes PROVE accepted[k][m] <= asked[k][m]
        <3>1. /\ IsFiniteSet(Uncounted(k, m))
              /\ accepted[k][m] + Cardinality(Uncounted(k, m)) <= asked[k][m]
              /\ accepted[k][m] \in Nat /\ asked[k][m] \in Nat
            BY <2>1 DEF IInv, RateInv, CountsAsked, TypeInv
        <3>2. Cardinality(Uncounted(k, m)) \in Nat
            BY <3>1, FS_CardinalityType
        <3>3. QED
            BY <3>1, <3>2
    <2>2. QED
        BY <2>1, RequestFields DEF IInv, TypeInv, TypeOK
<1>2. IInv => SavedWhenIdle
    BY DEF IInv, TypeInv, SerialInv, FileFollows, SavedWhenIdle, Idle
<1>3. QED
    BY <1>1, <1>2, ApiInvariant, PTL DEF RegistrySound

(* Of requests served one at a time, what was answered holds over restarts   *)
(* in the middle of other requests: a URL that was unsubscribed never comes  *)
(* back, and one that was subscribed goes only if a restart fell into the    *)
(* truncated file.                                                           *)
THEOREM AnswersStand == Spec => []AnswersHold
<1>1. IInv => AnswersHold
    BY DEF IInv, TypeInv, SerialInv, AnswersKept, AnswersHold
<1>2. QED
    BY <1>1, ApiInvariant, PTL

(* However the threads interleave and the minute changes under them, a 429   *)
(* means that the key made more than RateLimit requests in the minute its    *)
(* request read (api.py:45-51): no client within its limit is turned away.   *)
THEOREM NeverFalselyRejected == Spec => NoFalseReject
<1>1. ASSUME TypeInv, RateInv, [Next]_vars, NEW t \in Thread,
             request[t].pc = "count", request'[t].pc = "idle",
             restarts' = restarts, accepted' = accepted
      PROVE  asked[request[t].key][request[t].minute] > RateLimit
    <2> DEFINE key == request[t].key
               min == request[t].minute
    <2>1. ASSUME NEW s \in Thread, Serve(s) PROVE s = t /\ Count(t)
        <3>1. request'[t] # request[t]
            BY <1>1
        <3>2. CASE Count(s)
            <4>1. \A x \in Thread : x # s => request'[x] = request[x]
                BY <1>1, <3>2, CountFacts, CountReaches
            <4>2. QED
                BY <3>1, <3>2, <4>1
        <3>3. CASE GetWindow(s) \/ Change(s) \/ Sort(s) \/ Open(s) \/ Write(s)
            BY <1>1, <3>1, <3>3 DEF GetWindow, Change, Sort, Open, Write, TypeInv
        <3>4. QED
            BY <2>1, <3>2, <3>3 DEF Serve
    <2>2. ASSUME NEW s \in Thread, NEW k \in Key, NEW op \in Ops, NEW u \in Url,
                 Begin(s, k, op, u)
          PROVE  FALSE
        BY <1>1, <2>2 DEF Begin, Idle, TypeInv
    <2>3. ~Restart
        BY <1>1 DEF Restart, TypeInv
    <2>4. ~ClockTicks /\ ~UNCHANGED vars
        BY <1>1 DEF ClockTicks, vars
    <2>5. PICK w \in 1 .. MaxRequests, count \in Nat : Counts(t, w, count)
        BY <1>1, <2>1, <2>2, <2>3, <2>4, CountFacts DEF Next
    <2>6. key \in Key /\ min \in Minutes
        BY <2>5 DEF Counts
    <2>7. accepted[key][min] \in Nat /\ asked[key][min] \in Nat
        BY <1>1, <2>6 DEF TypeInv
    <2>8. count > RateLimit
        <3>1. CASE accepted' = [accepted EXCEPT ![key][min] = accepted[key][min] + 1]
            <4>1. accepted'[key][min] = accepted[key][min] + 1
                BY <1>1, <2>6, <3>1, AddOne DEF TypeInv
            <4>2. QED
                BY <1>1, <2>7, <4>1
        <3>2. QED
            BY <2>5, <3>1 DEF Counts
    <2>9. IsFiniteSet(Uncounted(key, min)) /\ t \in Uncounted(key, min)
        BY <1>1, <2>6 DEF RateInv, CountsAsked, Uncounted, Pending
    <2>10. Cardinality(Uncounted(key, min)) \in Nat /\ Cardinality(Uncounted(key, min)) # 0
        BY <2>9, FS_CardinalityType, FS_EmptySet
    <2>11. count <= asked[key][min]
        <3>1. CASE IsFresh(request[t])
            <4>1. count = 1
                BY <2>5, <3>1 DEF Counts
            <4>2. accepted[key][min] + Cardinality(Uncounted(key, min)) <= asked[key][min]
                BY <1>1, <2>6 DEF RateInv, CountsAsked
            <4>3. QED
                BY <2>7, <2>10, <4>1, <4>2
        <3>2. CASE ~IsFresh(request[t])
            <4>1. Reaches(key, w) /\ window[w].minute = min /\ count = window[w].count + 1
                BY <2>5, <3>2 DEF Counts, Reaches
            <4>2. window[w].count + Cardinality(Uncounted(key, min)) <= asked[key][min]
                BY <1>1, <2>6, <4>1 DEF RateInv, CountsAsked
            <4>3. window[w].count \in Nat
                BY <1>1 DEF TypeInv
            <4>4. QED
                BY <2>7, <2>10, <4>1, <4>2, <4>3
        <3>3. QED
            BY <3>1, <3>2
    <2>12. QED
        BY <2>7, <2>8, <2>11, RateAssumption
<1>2. IInv /\ [Next]_vars =>
          [\A t \in Thread :
             (/\ request[t].pc = "count" /\ request'[t].pc = "idle"
              /\ restarts' = restarts /\ accepted' = accepted)
                => asked[request[t].key][request[t].minute] > RateLimit]_vars
    BY <1>1 DEF IInv
<1>3. QED
    BY <1>2, ApiInvariant, PTL DEF Spec, NoFalseReject
=============================================================================
