--------------------------- MODULE GraphBuilder ---------------------------
(***************************************************************************)
(* build_graph of src/engine/graph/builder.py and the runtime checks of    *)
(* validate_graph_snapshot in src/core/schemas: the graph a window of      *)
(* events stands for, as a pure function.                                  *)
(*                                                                         *)
(* An event is a record: protocol, pool, the pair token and the pair       *)
(* amount (token0/amount0 first), ts and block.  Addresses are numbers:    *)
(* sorted() of equally long hex strings is their numeric order.  A raw     *)
(* weight is the code's scaled to an integer, by 10 for the correlations   *)
(* and by the scale of Decay for exp(-lambda dt).                          *)
(***************************************************************************)
EXTENDS Integers, Sequences, FiniteSetsExt, Functions

CONSTANTS ZeroAddress,  \* ZERO_ADDRESS: the second token of a one-token event
          Span,         \* bound: the time a window covers at most
          Decay         \* Decay[dt]: what dt leaves of an edge's weight

Abs(x) == IF x < 0 THEN -x ELSE x

(* The (event, side) pairs that name a token: (window index, 1 or 2).        *)
Sides(w) == {s \in (DOMAIN w) \X {1, 2} : w[s[1]].token[s[2]] # ZeroAddress}
Pool(w, s) == w[s[1]].pool
Token(w, s) == w[s[1]].token[s[2]]
Moved(w) == [s \in Sides(w) |-> Abs(w[s[1]].amount[s[2]])]

Pools(w) == {w[i].pool : i \in DOMAIN w}
Tokens(w) == {Token(w, s) : s \in Sides(w)}

(* pool_token_vol, pool_token_ts, token_pools: the dictionaries the loop     *)
(* over the events fills.  pool_protocol keeps the last event's protocol.    *)
SidesOf(w, p, t) == {s \in Sides(w) : Pool(w, s) = p /\ Token(w, s) = t}
PoolTokens(w, p) == {t \in Tokens(w) : SidesOf(w, p, t) # {}}
TokenPools(w, t) == {p \in Pools(w) : SidesOf(w, p, t) # {}}
PoolProtocol(w, p) == w[Max({i \in DOMAIN w : w[i].pool = p})].protocol

(* Mutant: both sides of an event with the same token are counted once.      *)
VolumeOnce(w, p, t) ==
    SumFunctionOnSet(Moved(w), {s \in SidesOf(w, p, t) :
                                   s[2] = 2 => <<s[1], 1>> \notin SidesOf(w, p, t)})

Volume(w, p, t) == SumFunctionOnSet(Moved(w), SidesOf(w, p, t))

(* Mutant: the time of the last event of the window, not the latest time.    *)
LatestInOrder(w, p, t) == w[Max({s[1] : s \in SidesOf(w, p, t)})].ts

Latest(w, p, t) == Max({w[s[1]].ts : s \in SidesOf(w, p, t)})
Now(w) == Max({w[i].ts : i \in DOMAIN w})

-----------------------------------------------------------------------------
ProtocolNode(w, p) == <<"protocol", PoolProtocol(w, p)>>
PoolNode(w, p) == <<"pool", PoolProtocol(w, p), p>>
TokenNode(t) == <<"token", t>>

Corr == [liquidity_flow |-> 10, borrow_position |-> 7, shared_collateral |-> 5]

(* via is not in the code: it keeps two edges of one kind between the same   *)
(* pair of pools apart, which the list raw_edges does by position.           *)
Edge(w, src, dst, kind, via, vol, ts) ==
    [src |-> src, dst |-> dst, edge_type |-> kind, via |-> via,
     raw |-> vol * Corr[kind] * Decay[Now(w) - ts]]

TokenEdges(w) ==
    UNION {{Edge(w, PoolNode(w, p), TokenNode(t),
                 IF PoolProtocol(w, p) = "uniswap_v3" THEN "liquidity_flow"
                                                      ELSE "borrow_position",
                 t, Volume(w, p, t), Latest(w, p, t)) :
            t \in PoolTokens(w, p)} : p \in Pools(w)}

(* A pool none of whose tokens is named has no volume and the window's time. *)
PoolEdges(w) ==
    {Edge(w, ProtocolNode(w, p), PoolNode(w, p), "liquidity_flow", p,
          SumFunction([t \in PoolTokens(w, p) |-> Volume(w, p, t)]),
          Max({Latest(w, p, t) : t \in PoolTokens(w, p)}
              \cup (IF PoolTokens(w, p) = {} THEN {Now(w)} ELSE {}))) :
     p \in Pools(w)}

SharedPairs(w, t) ==
    {pq \in TokenPools(w, t) \X TokenPools(w, t) : pq[1] < pq[2]}

SharedEdges(w) ==
    UNION {{Edge(w, PoolNode(w, pq[1]), PoolNode(w, pq[2]), "shared_collateral", t,
                 Min({Volume(w, pq[1], t), Volume(w, pq[2], t)}),
                 Max({Latest(w, pq[1], t), Latest(w, pq[2], t)})) :
            pq \in SharedPairs(w, t)} : t \in Tokens(w)}

Edges(w) == TokenEdges(w) \cup PoolEdges(w) \cup SharedEdges(w)
NodeIds(w) == {ProtocolNode(w, p) : p \in Pools(w)}
              \cup {PoolNode(w, p) : p \in Pools(w)}
              \cup {TokenNode(t) : t \in Tokens(w)}

(* nx.Graph keeps one edge per pair: the degree counts neighbours, and a     *)
(* self-loop twice.                                                          *)
Degree(edges, id) ==
    LET touching == {e \in edges : id \in {e.src, e.dst}}
    IN  Cardinality({e.src : e \in touching} \cup {e.dst : e \in touching})
        - (IF touching = {} THEN 0 ELSE 1)
        + (IF \E e \in touching : e.src = e.dst THEN 2 ELSE 0)

(* node_volume: each (pool, token) of pool_token_vol counts for its token,   *)
(* its pool and its protocol.                                                *)
Keys(w) == {<<Pool(w, s), Token(w, s)>> : s \in Sides(w)}
KeyVolume(w) == [k \in Keys(w) |-> Volume(w, k[1], k[2])]
NodeVolume(w, id) ==
    SumFunctionOnSet(KeyVolume(w), {k \in Keys(w) :
        id \in {TokenNode(k[2]), PoolNode(w, k[1]), ProtocolNode(w, k[1])}})

(* The snapshot.  A weight is raw / max_raw and a connectivity is degree /   *)
(* (n - 1): exact fractions, kept as numerator and the shared denominator.   *)
BuildGraph(w) ==
    LET edges == Edges(w)
        ids == NodeIds(w)
        blocks == {w[i].block : i \in DOMAIN w}
    IN  [block_range |-> [start |-> Min(blocks), end |-> Max(blocks)],
         nodes |-> {[id |-> x, volume |-> NodeVolume(w, x), degree |-> Degree(edges, x)] :
                    x \in ids},
         edges |-> edges,
         max_raw |-> Max({0} \cup {e.raw : e \in edges}),
         denom |-> IF Cardinality(ids) > 1 THEN Cardinality(ids) - 1 ELSE 1]

(* validate_graph_snapshot and the ranges of the pydantic models: what       *)
(* build_graph would raise on.                                               *)
ValidSnapshot(g) ==
    /\ g.block_range.end >= g.block_range.start
    /\ Cardinality({n.id : n \in g.nodes}) = Cardinality(g.nodes)
    /\ \A e \in g.edges : /\ {e.src, e.dst} \subseteq {n.id : n \in g.nodes}
                          /\ e.src # e.dst
                          /\ e.raw \in 0 .. g.max_raw
    /\ \A n \in g.nodes : n.volume >= 0

-----------------------------------------------------------------------------
(* build_graph never raises on a non-empty window (its own snapshot passes   *)
(* the validation at builder.py:217), no connectivity needs the clamp, and   *)
(* the books balance: the volume of the tokens, of the pools and of the      *)
(* protocols is what the sides of the window's events move.                  *)
GraphSound(w) ==
    LET g == BuildGraph(w)
        volume == [n \in g.nodes |-> n.volume]
    IN  /\ ValidSnapshot(g)
        /\ \A n \in g.nodes : n.degree <= g.denom
        /\ \A kind \in {"token", "pool", "protocol"} :
              SumFunctionOnSet(volume, {n \in g.nodes : n.id[1] = kind})
              = SumFunction(Moved(w))

(* The graph is that of the bag of events: the order in which a window hands *)
(* them over, which a replay and a live chain differ in, does not matter.    *)
(* A swap of the first two and a rotation make every order.                  *)
OrderFree(w) ==
    LET swapped == <<w[2], w[1]>> \o SubSeq(w, 3, Len(w))
        rotated == Append(Tail(w), w[1])
    IN  Len(w) > 1 => {BuildGraph(swapped), BuildGraph(rotated)} = {BuildGraph(w)}
=============================================================================
