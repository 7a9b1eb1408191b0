------------------------------ MODULE Tensors ------------------------------
(***************************************************************************)
(* src/engine/tensor: the adjacency matrix of a GraphSnapshot, dense       *)
(* (adjacency.py) and compressed (sparse.py), its feature columns          *)
(* (features.py) and their min-max normalisation (normalize.py).  The      *)
(* matrices are indexed 1..N where the code's are 0..N-1; a weight is the  *)
(* snapshot's integer numerator, so sums are exact where float32 rounds.   *)
(***************************************************************************)
EXTENDS Integers, Sequences, FiniteSetsExt, Functions

(* index[node["id"]] = i for every node in turn: the last one of an id wins. *)
Index(ids, id) == Max({i \in DOMAIN ids : ids[i] = id})

(* An edge whose end is no node raises ValueError.                           *)
Dangling(ids, edges) ==
    \E e \in edges : ~({e.src, e.dst} \subseteq {ids[i] : i \in DOMAIN ids})

(* Mutant: a self-loop is added from both its ends.                          *)
HalfEdgesTwice(ids, edges) ==
    {[row |-> Index(ids, e.src), col |-> Index(ids, e.dst), edge |-> e, back |-> FALSE] :
        e \in edges}
    \cup {[row |-> Index(ids, e.dst), col |-> Index(ids, e.src), edge |-> e, back |-> TRUE] :
          e \in edges}

(* The (row, col, value) triples of sparse.py: an edge is stored both ways,  *)
(* a self-loop once.                                                         *)
HalfEdges(ids, edges) ==
    {[row |-> Index(ids, e.src), col |-> Index(ids, e.dst), edge |-> e, back |-> FALSE] :
        e \in edges}
    \cup {[row |-> Index(ids, e.dst), col |-> Index(ids, e.src), edge |-> e, back |-> TRUE] :
          e \in {x \in edges : Index(ids, x.src) # Index(ids, x.dst)}}

(* adjacency.py: += on one cell of a self-loop, on two cells otherwise.      *)
AdjacencyTensor(ids, edges) ==
    [c \in (DOMAIN ids) \X (DOMAIN ids) |->
        SumFunctionOnSet([e \in edges |-> e.raw],
            {e \in edges : {Index(ids, e.src), Index(ids, e.dst)} = {c[1], c[2]}})]

(* coalesce(): one entry per cell, by row and column; to_sparse_csr: crow[i] *)
(* counts the entries of the rows before i.                                  *)
RowStart(cells, i) == Cardinality({c \in cells : c[1] < i})
PlaceOf(cells, c) ==
    RowStart(cells, c[1]) + Cardinality({d \in cells : d[1] = c[1] /\ d[2] <= c[2]})

SparseAdjacencyTensor(ids, edges) ==
    LET halves == HalfEdges(ids, edges)
        cells == {<<h.row, h.col>> : h \in halves}
        raw == [h \in halves |-> h.edge.raw]
        entries == {[place |-> PlaceOf(cells, c), col |-> c[2],
                     val |-> SumFunctionOnSet(raw, {h \in halves : <<h.row, h.col>> = c})] :
                    c \in cells}
        Entry(k) == CHOOSE e \in entries : e.place = k
    IN  [crow |-> [i \in 1 .. Len(ids) + 1 |-> RowStart(cells, i)],
         col |-> [k \in 1 .. Cardinality(cells) |-> Entry(k).col],
         val |-> [k \in 1 .. Cardinality(cells) |-> Entry(k).val]]

(* The matrix a CSR tensor stands for.                                       *)
ToDense(csr, n) ==
    [c \in (1 .. n) \X (1 .. n) |->
        SumFunctionOnSet(csr.val,
            {k \in csr.crow[c[1]] + 1 .. csr.crow[c[1] + 1] : csr.col[k] = c[2]})]

-----------------------------------------------------------------------------
(* FEATURE_ORDER: tvl, volume, price, volatility, connectivity.  The builder *)
(* emits 0 for the three it has no data for; NaN and inf never reach it.     *)
FeatureRow(n) == <<0, n.volume, 0, 0, n.degree>>
FeatureTensor(nodes) == [i \in DOMAIN nodes |-> FeatureRow(nodes[i])]

(* normalize(x, "minmax"): one fitted state per column; a scale of 0 becomes *)
(* 1 and masks the column.                                                   *)
Fit(x, c) ==
    LET column == {x[i][c] : i \in DOMAIN x}
        scale == Max(column) - Min(column)
    IN  [offset |-> Min(column), scale |-> IF scale = 0 THEN 1 ELSE scale,
         zero |-> scale = 0]

(* NormalizationState.apply, as the fraction num / den.                      *)
Apply(state, v) ==
    IF state.zero THEN [num |-> 0, den |-> state.scale]
    ELSE [num |-> v - state.offset, den |-> state.scale]

-----------------------------------------------------------------------------
(* The two adjacency builders agree, on a graph with a self-loop too, the    *)
(* matrix is symmetric, and every normalised feature is a number in [0, 1]   *)
(* that is 0 throughout a constant column, as three of the five are.         *)
TensorsAgree(g) ==
    LET nodes == FoldSet(LAMBDA n, s : Append(s, n), << >>, g.nodes)
        ids == [i \in DOMAIN nodes |-> nodes[i].id]
        loop == [src |-> ids[1], dst |-> ids[1], raw |-> 1]
        x == FeatureTensor(nodes)
    IN  /\ ~Dangling(ids, g.edges)
        /\ \A edges \in {g.edges, g.edges \cup {loop}} :
              LET dense == AdjacencyTensor(ids, edges)
              IN  /\ ToDense(SparseAdjacencyTensor(ids, edges), Len(ids)) = dense
                  /\ \A i, j \in DOMAIN ids : dense[<<i, j>>] = dense[<<j, i>>]
        /\ \A c \in 1 .. 5 : \A i \in DOMAIN x :
              LET y == Apply(Fit(x, c), x[i][c])
              IN  /\ y.den > 0 /\ y.num \in 0 .. y.den
                  /\ (\A k \in DOMAIN x : x[k][c] = x[1][c]) => y.num = 0
=============================================================================
