---------------------------- MODULE FixtureTools ----------------------------
(***************************************************************************)
(* The fixture tools against Etherscan: extract_fixtures.py fetches the    *)
(* logs of a period page by page and writes a CSV file, verify_fixtures.py *)
(* checks the file against its rules and the chain, reconcile_etherscan.py *)
(* compares a ring buffer with the chain.                                  *)
(***************************************************************************)
EXTENDS Decoding, FiniteSetsExt, Functions

CONSTANTS Log,          \* the logs the chain may hold
          FromBlock, ToBlock, Version,   \* the Period
          PageCap,      \* rows of a page at most: 1000
          MaxRetries,   \* attempts of the extractor and of the verifier: 5, 3
          MinRows, MinTypes,             \* what verify asks of a file: 1000, 3
          SampleSize,   \* rows and blocks the two checks sample: 10, 3
          Gate          \* one sampled event in so many may be untrue: 200

ASSUME FixtureAssumption == /\ FromBlock \in Nat /\ ToBlock \in Nat /\ FromBlock <= ToBlock
                            /\ Version \in {"aave_v2", "aave_v3"}
                            /\ {PageCap, MaxRetries, SampleSize, Gate} \subseteq Nat \ {0}
                            /\ MinRows \in Nat /\ MinTypes \in Nat

(* The least number of data words of each event.                             *)
AbiWords == [Swap |-> 5, Mint |-> 4, Burn |-> 3, Supply |-> 2, Borrow |-> 4, Withdraw |-> 1,
             LiquidationCall |-> 4, BorrowV2 |-> 4, DepositV2 |-> 2]

(* What every chain grants: a log has its place in its block, a transaction  *)
(* is in one block, and later blocks have no earlier time.                   *)
ASSUME ChainAssumption ==
    /\ IsFiniteSet(Log)
    /\ \A log \in Log : {log.block, log.index, log.ts} \subseteq Nat
    /\ \A a, b \in Log : /\ a.tx = b.tx => a.block = b.block
                         /\ a.block = b.block => a.ts = b.ts
                         /\ a.block = b.block /\ a.index = b.index => a = b
                         /\ a.block < b.block => a.ts <= b.ts

(* What the contracts grant: words of the events' ABI types.                 *)
ASSUME LogAssumption ==
    \A log \in Log :
        /\ log.data \in Seq(0 .. 2 * Half - 1)
        /\ log.topics[1] \in DOMAIN AbiWords => Len(log.data) >= AbiWords[log.topics[1]]

(* whitelist.yaml: the pool the extractor reads, with its two tokens, and    *)
(* the lending pools of both versions, which it calls aave_v3.               *)
ASSUME WhitelistAssumption ==
    /\ {UniPool, AaveV2Pool, AaveV3Pool} \subseteq DOMAIN Whitelist
    /\ Whitelist[UniPool] = [protocol |-> "uniswap_v3", token |-> <<Usdc, Weth>>]
    /\ \A pool \in {AaveV2Pool, AaveV3Pool} : Whitelist[pool].protocol = "aave_v3"

VARIABLES chain,    \* the logs Etherscan serves, fixed
          phase,    \* "fetch", "write", then "done", "failed" or "crashed"
          query,    \* which of the period's four queries is running
          ranges,   \* the block ranges its recursion has yet to ask for
          attempt,  \* of the current request
          fetched,  \* the rows decoded so far; sorted once written
          file,     \* the rows of the CSV file's whole lines
          torn,     \* a crash cut its last line off before the last column
          cut,      \* the row such a line reads as when cut within that column
          verdict,  \* of the last verification: "none", "asking", "ok",
                    \* "assertion", "error"
          asked     \* the sampled rows it has yet to ask Etherscan for

extractVars == <<chain, phase, query, ranges, attempt, fetched, file, torn, cut>>
verifyVars == <<verdict, asked>>
toolsVars == <<extractVars, verifyVars>>

-----------------------------------------------------------------------------
(* etherscan_get_logs and _fetch_period.                                     *)
Queries == LET pool == AavePool(Version)
               v2 == Version = "aave_v2"
           IN  <<[address |-> UniPool, topic |-> "Swap"],
                 [address |-> pool, topic |-> IF v2 THEN "BorrowV2" ELSE "Borrow"],
                 [address |-> pool, topic |-> IF v2 THEN "DepositV2" ELSE "Supply"],
                 [address |-> pool, topic |-> "LiquidationCall"]>>

Decoded(k, log) == CASE k = 1 -> DecodeUniv3Swap(log)
                     [] k = 2 -> DecodeAaveBorrow(log, Version)
                     [] k = 3 -> DecodeAaveSupply(log, Version)
                     [] k = 4 -> DecodeAaveLiquidation(log, Version)

Served(lo, hi, q) == {log \in chain : /\ log.block \in lo .. hi
                                      /\ log.address = q.address
                                      /\ log.topics[1] = q.topic}

(* Mutant: the two halves share their middle block.                          *)
HalvesOverlapping(lo, hi) ==
    IF hi - lo > 1 THEN << <<lo, (lo + hi) \div 2>>, <<(lo + hi) \div 2, hi>> >>
    ELSE << <<lo, lo>>, <<hi, hi>> >>

Halves(lo, hi) == << <<lo, (lo + hi) \div 2>>, <<(lo + hi) \div 2 + 1, hi>> >>

ByPosition(a, b) == a.block < b.block \/ (a.block = b.block /\ a.index < b.index)

(* An answer lists its logs in chain order.                                  *)
Place(e, set) == Cardinality({d \in set : d = e \/ ByPosition(d, e)})
InOrder(set) == [k \in 1 .. Cardinality(set) |-> CHOOSE e \in set : Place(e, set) = k]

Fetching == phase = "fetch" /\ ranges # << >>

(* Mutant: the last failed attempt starts the count over.                    *)
RequestFailsForever ==
    /\ Fetching
    /\ attempt' = IF attempt < MaxRetries THEN attempt + 1 ELSE 1
    /\ UNCHANGED <<chain, phase, query, ranges, fetched, file, torn, cut, verifyVars>>

(* A transport error or a rate-limit answer; the last one raises.            *)
RequestFails ==
    /\ Fetching
    /\ IF attempt < MaxRetries THEN attempt' = attempt + 1 /\ UNCHANGED phase
       ELSE phase' = "failed" /\ UNCHANGED attempt
    /\ UNCHANGED <<chain, query, ranges, fetched, file, torn, cut, verifyVars>>

(* Any other error text, or an answer that is no list.                       *)
ErrorAnswer ==
    /\ Fetching
    /\ phase' = "failed"
    /\ UNCHANGED <<chain, query, ranges, attempt, fetched, file, torn, cut, verifyVars>>

(* A page at the cap is thrown away and its range asked for in halves; a     *)
(* single block at the cap raises rather than lose rows.                     *)
PageArrives ==
    LET lo == ranges[1][1]
        hi == ranges[1][2]
        page == Served(lo, hi, Queries[query])
        full == Cardinality(page) >= PageCap
    IN  /\ Fetching
        /\ attempt' = 1
        /\ phase' = IF full /\ lo >= hi THEN "failed" ELSE phase
        /\ ranges' = (IF full THEN Halves(lo, hi) ELSE << >>) \o Tail(ranges)
        /\ fetched' = fetched \o (IF full THEN << >>
                                  ELSE InOrder({Decoded(query, log) : log \in page}))
        /\ UNCHANGED <<chain, query, file, torn, cut, verifyVars>>

(* Mutant: the rows are sorted by their log index alone.                     *)
TurnByIndex(s, i) ==
    Cardinality({j \in DOMAIN s : s[j].index < s[i].index
                                  \/ (s[j].index = s[i].index /\ j <= i)})

(* list.sort is stable: a row goes behind those before it in chain order and *)
(* the ones ahead of it that have its position.                              *)
Turn(s, i) ==
    Cardinality({j \in DOMAIN s : ByPosition(s[j], s[i])
                                  \/ (~ByPosition(s[i], s[j]) /\ j <= i)})
Sorted(s) == [k \in DOMAIN s |-> s[CHOOSE i \in DOMAIN s : Turn(s, i) = k]]

(* After the last query the rows are sorted and the file opened for writing, *)
(* which truncates it.                                                       *)
QueryDone ==
    /\ phase = "fetch" /\ ranges = << >>
    /\ IF query < Len(Queries)
       THEN /\ query' = query + 1
            /\ ranges' = << <<FromBlock, ToBlock>> >>
            /\ UNCHANGED <<phase, fetched, file, torn, cut>>
       ELSE /\ phase' = "write"
            /\ fetched' = Sorted(fetched)
            /\ file' = << >> /\ torn' = FALSE /\ cut' = << >>
            /\ UNCHANGED <<query, ranges>>
    /\ UNCHANGED <<chain, attempt, verifyVars>>

WriteLine ==
    /\ phase = "write"
    /\ IF Len(file) < Len(fetched)
       THEN file' = Append(file, fetched[Len(file) + 1]) /\ UNCHANGED phase
       ELSE phase' = "done" /\ UNCHANGED file
    /\ UNCHANGED <<chain, query, ranges, attempt, fetched, torn, cut, verifyVars>>

(* The numbers a log_index can be cut down to by losing its last digits.     *)
Shortened(index) ==
    {index \div 10 ^ k : k \in {j \in 1 .. index \div 10 : 10 ^ j <= index}}

(* The process dies; in the middle of a line, or between two.  Of the line,  *)
(* the last column is missing, or some of its digits are.                    *)
Crash ==
    LET row == fetched[Len(file) + 1]
    IN  /\ phase \in {"fetch", "write"}
        /\ phase' = "crashed"
        /\ \/ UNCHANGED <<torn, cut>>
           \/ /\ phase = "write" /\ Len(file) < Len(fetched)
              /\ \/ torn' = TRUE /\ UNCHANGED cut
                 \/ /\ \E n \in Shortened(row.index) : cut' = <<[row EXCEPT !.index = n]>>
                    /\ UNCHANGED torn
        /\ UNCHANGED <<chain, query, ranges, attempt, fetched, file, verifyVars>>

(* main: the extraction is run again.                                        *)
Rerun == /\ phase \in {"failed", "crashed"} /\ verdict # "asking"
         /\ phase' = "fetch" /\ query' = 1 /\ attempt' = 1 /\ fetched' = << >>
         /\ ranges' = << <<FromBlock, ToBlock>> >>
         /\ verdict' = "none"
         /\ UNCHANGED <<chain, file, torn, cut, asked>>

-----------------------------------------------------------------------------
(* verify_fixtures.py.  The schema holds of every row the extractor writes,  *)
(* and of one whose log_index lost digits.  Mutant: it misses a repeated row. *)
FileSoundRepeats(f) ==
    /\ \A i \in 1 .. Len(f) - 1 : f[i].block <= f[i + 1].block
    /\ Len(f) >= MinRows
    /\ Cardinality({f[i].type : i \in DOMAIN f}) >= MinTypes

FileSound(f) ==
    /\ \A i \in 1 .. Len(f) - 1 : f[i].block <= f[i + 1].block
    /\ \A i, j \in DOMAIN f : i # j => <<f[i].tx, f[i].index>> # <<f[j].tx, f[j].index>>
    /\ Len(f) >= MinRows
    /\ Cardinality({f[i].type : i \in DOMAIN f}) >= MinTypes

(* The rows it reads.  No integer can be read from a missing column.         *)
(* Without an API key the rows are not compared with the chain.              *)
Lines == file \o cut

VerifyFile ==
    /\ phase \in {"done", "failed", "crashed"} /\ verdict # "asking"
    /\ \/ /\ torn /\ verdict' = "error" /\ asked' = {}
       \/ /\ ~torn /\ ~FileSound(Lines) /\ verdict' = "assertion" /\ asked' = {}
       \/ /\ ~torn /\ FileSound(Lines)
          /\ \/ verdict' = "ok" /\ asked' = {}
             \/ /\ verdict' = "asking"
                /\ asked' \in kSubset(Min({SampleSize, Len(Lines)}),
                                      {Lines[i] : i \in DOMAIN Lines})
    /\ UNCHANGED extractVars

(* Etherscan names the block of the row's transaction.                       *)
CrossCheck ==
    /\ verdict = "asking"
    /\ \E row \in asked : \E log \in {x \in chain : x.tx = row.tx} :
          IF log.block = row.block
          THEN /\ asked' = asked \ {row}
               /\ verdict' = IF asked' = {} THEN "ok" ELSE "asking"
          ELSE verdict' = "assertion" /\ asked' = {}
    /\ UNCHANGED extractVars

(* Every attempt at one transaction failed, or answered with a text.         *)
CrossCheckFails == /\ verdict = "asking"
                   /\ verdict' = "error" /\ asked' = {}
                   /\ UNCHANGED extractVars

-----------------------------------------------------------------------------
(* The mock node reads the file (replay.py): load_events sorts it again,     *)
(* iter_block_groups makes a group of each run of one block's rows, with the *)
(* time of the first, and build_block_header heads it with that time.        *)
LoadEvents(f) == Sorted(f)

Run(events, i) ==
    {events[k] : k \in {j \in i .. Len(events) :
                           \A m \in i .. j : events[m].block = events[i].block}}
RunStarts(events) == {i \in DOMAIN events : i > 1 => events[i - 1].block # events[i].block}

(* Mutant: a group has the time of the row before it, the last one's.        *)
BlockGroupsStaleTime(events) ==
    {[block |-> events[i].block, ts |-> events[Max({i - 1, 1})].ts, rows |-> Run(events, i)] :
     i \in RunStarts(events)}

BlockGroups(events) ==
    {[block |-> events[i].block, ts |-> events[i].ts, rows |-> Run(events, i)] :
     i \in RunStarts(events)}

Header(group) == [number |-> group.block, hash |-> group.block,
                  parentHash |-> group.block - 1, timestamp |-> group.ts]

(* sleep_seconds at speed 1: a step back in time is no pause.                *)
Pause(prev, cur) == IF cur.timestamp <= prev.timestamp THEN 0
                    ELSE cur.timestamp - prev.timestamp

(* The head sent before h; the first one is not waited for.                  *)
Previous(heads, h) ==
    LET earlier == {x \in heads : x.number < h.number}
    IN  IF earlier = {} THEN h
        ELSE CHOOSE p \in earlier : \A x \in earlier : x.number <= p.number

-----------------------------------------------------------------------------
(* reconcile_etherscan.py.  make_etherscan_fetcher asks for these topics of  *)
(* each whitelisted contract.  Mutant: it forgets one.                       *)
TopicsWithoutBurn(protocol) ==
    IF protocol = "uniswap_v3" THEN {"Swap", "Mint"}
    ELSE {"Supply", "Borrow", "Withdraw", "LiquidationCall"}

Topics(protocol) ==
    IF protocol = "uniswap_v3" THEN {"Swap", "Mint", "Burn"}
    ELSE {"Supply", "Borrow", "Withdraw", "LiquidationCall"}

FetchBlock(b) ==
    UNION {Route(log, log.ts) :
           log \in {x \in chain : /\ x.block = b /\ x.address \in DOMAIN Whitelist
                                  /\ x.topics[1] \in Topics(Whitelist[x.address].protocol)}}

Key(e) == <<e.tx, e.index>>
Norm(e) == <<e.type, e.pool, e.token, e.amount>>

(* The events are a list, and each entry counts.  The gate is 99.5 % of the  *)
(* entries of the sampled blocks.                                            *)
Reconcile(events, sample) ==
    LET buf == {i \in DOMAIN events : events[i].block \in sample}
        onchain == UNION {FetchBlock(b) : b \in sample}
        matched == {i \in buf : \E o \in onchain : /\ Key(o) = Key(events[i])
                                                  /\ Norm(o) = Norm(events[i])}
    IN  [total |-> Cardinality(buf), matched |-> Cardinality(matched),
         ok |-> buf # {} /\ Gate * Cardinality(matched) >= (Gate - 1) * Cardinality(buf)]

(* What _fill_buffer ingests from a node: the chain's events, some missed,   *)
(* one perhaps with the time of an earlier block or another amount, and that *)
(* one perhaps twice.                                                        *)
Buffers ==
    LET routed == UNION {Route(log, log.ts) : log \in chain}
        Altered(e) == {e, [e EXCEPT !.ts = @ - 1],
                       [e EXCEPT !.amount = <<@[1] + 1, @[2]>>]}
        Ingested(list, i, x) == {[list EXCEPT ![i] = x], Append([list EXCEPT ![i] = x], x)}
    IN  UNION {LET list == InOrder(kept)
               IN  UNION {UNION {Ingested(list, i, x) : x \in Altered(list[i])} :
                          i \in DOMAIN list} :
               kept \in SUBSET routed}

(* sample_blocks: distinct blocks of the events.                             *)
SampleBlocks(events) ==
    LET blocks == {events[i].block : i \in DOMAIN events}
    IN  kSubset(Min({SampleSize, Cardinality(blocks)}), blocks)

-----------------------------------------------------------------------------
ToolsInit ==
    /\ chain \in SUBSET Log
    /\ phase = "fetch" /\ query = 1 /\ attempt = 1 /\ fetched = << >>
    /\ ranges = << <<FromBlock, ToBlock>> >>
    /\ file = << >> /\ torn = FALSE /\ cut = << >>
    /\ verdict = "none" /\ asked = {}

Extract == RequestFails \/ PageArrives \/ QueryDone \/ WriteLine

ToolsNext == \/ Extract \/ ErrorAnswer \/ Crash \/ Rerun
             \/ VerifyFile \/ CrossCheck \/ CrossCheckFails

(* The extractor goes on: each request is answered or times out.             *)
ToolsSpec == ToolsInit /\ [][ToolsNext]_toolsVars /\ WF_toolsVars(Extract)

-----------------------------------------------------------------------------
(* The period's rows: every log of the four queries, decoded, in chain order.*)
Due(k) == {Decoded(k, log) : log \in Served(FromBlock, ToBlock, Queries[k])}
Expected == InOrder(UNION {Due(k) : k \in DOMAIN Queries})

(* However often requests were retried and ranges split, a finished          *)
(* extraction wrote every log of the period once, in chain order; an         *)
(* unfinished one left a prefix of that (extract_fixtures.py:166-238,        *)
(* 364-430).                                                                 *)
ExtractionComplete ==
    /\ phase = "done" => file = Expected
    /\ file = SubSeq(Expected, 1, Len(file))

(* The mock node's replay of a file's whole lines: each goes out once, under *)
(* a head with its own block and time, which the pipeline stamps it with,    *)
(* and the pauses between the heads add up to the time the file spans        *)
(* (replay.py:69-92, 150-202).                                               *)
ReplayFaithful ==
    LET groups == BlockGroups(LoadEvents(file))
        heads == {Header(g) : g \in groups}
        times == {h.timestamp : h \in heads}
        pause == [h \in heads |-> Pause(Previous(heads, h), h)]
    IN  /\ \A i \in DOMAIN file : Cardinality({g \in groups : file[i] \in g.rows}) = 1
        /\ \A g \in groups : \A row \in g.rows :
              Header(g).number = row.block /\ Header(g).timestamp = row.ts
        /\ heads # {} => SumFunctionOnSet(pause, heads) = Max(times) - Min(times)

(* The ways to an event agree: an extracted row is the event the router      *)
(* makes of the same log, and of the log the mock node encodes the row into, *)
(* but for the protocol of a V2 period; and the file is replayed faithfully. *)
RowsAgree ==
    \A i \in DOMAIN fetched : \A raw \in BuildRawLog(fetched[i]) :
        Route(raw, fetched[i].ts) = {[fetched[i] EXCEPT !.protocol =
            IF @ = "aave_v2" THEN "aave_v3" ELSE @]}

EventsAgree ==
    \A log \in chain : \A e \in Route(log, log.ts) :
        /\ \A i \in DOMAIN fetched : Key(fetched[i]) = Key(e) => Norm(fetched[i]) = Norm(e)
        /\ BuildRawLog(e) # {}
        /\ \A raw \in BuildRawLog(e) : Route(raw, e.ts) = {e}

SourcesAgree == RowsAgree /\ EventsAgree /\ ReplayFaithful

(* The reconciliation counts as untrue the entries of the sampled blocks     *)
(* that are not the chain's, and passes when they are one in Gate or fewer;  *)
(* a missed event and a wrong time cannot be seen, a repeated one counts     *)
(* again.  It is a function of the chain: the first state of each chain is   *)
(* enough.                                                                   *)
ReconcileExact ==
    LET own == UNION {Route(log, log.ts) : log \in chain}
        True(e) == \E o \in own : Key(o) = Key(e) /\ Norm(o) = Norm(e)
    IN  query = 1 /\ attempt = 1 /\ fetched = << >> /\ file = << >> =>
            \A events \in Buffers : \A sample \in SampleBlocks(events) :
                LET buf == {i \in DOMAIN events : events[i].block \in sample}
                    untrue == {i \in buf : ~True(events[i])}
                IN  Reconcile(events, sample).ok
                        <=> Gate * Cardinality(untrue) <= Cardinality(buf)

(* What the two checking tools say is so.  The verifier refuses a file for   *)
(* its data only if it has too few rows or kinds, or if a crash cut its last *)
(* log_index down to that of another row of the transaction: a finished      *)
(* extraction of enough rows and kinds never, whatever the chain holds.      *)
(* What it accepts are the first rows of the period, but for the log_index   *)
(* of the last, which a crash may have cut unseen (verify_fixtures.py:       *)
(* 78-136, 207-255).  The reconciliation is exact (reconcile_etherscan.py:   *)
(* 86-135).                                                                  *)
Repeated == \E i \in DOMAIN file : Key(file[i]) = Key(cut[1])

VerifierFair ==
    /\ verdict = "assertion" =>
          \/ Len(Lines) < MinRows
          \/ Cardinality({Lines[i].type : i \in DOMAIN Lines}) < MinTypes
          \/ cut # << >> /\ Repeated
    /\ verdict \in {"ok", "asking"} =>
          /\ ~torn
          /\ cut # << >> =>
                /\ Len(file) < Len(Expected) /\ ~Repeated
                /\ cut[1] = [Expected[Len(file) + 1] EXCEPT !.index = cut[1].index]

VerdictsHold == VerifierFair /\ ReconcileExact

(* Every extraction ends, written or refused, unless the process dies.       *)
ExtractionEnds == phase \in {"fetch", "write"} ~> phase \in {"done", "failed", "crashed"}
=============================================================================
