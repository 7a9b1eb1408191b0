------------------------------ MODULE HotPath ------------------------------
(***************************************************************************)
(* The path from the ring buffer to the webhooks: events are written,      *)
(* read_all() is turned into a graph and tensors and evaluated into an     *)
(* alert, and the ring goes on while the alert is delivered.               *)
(***************************************************************************)
EXTENDS NumpyRingBuffer, GraphBuilder, Tensors, Alerts

(* The events of a window.  An address has one protocol: the whitelist's     *)
(* (ingestion/whitelist.py).                                                 *)
ASSUME WindowAssumption ==
    /\ \A e \in Event : /\ e.pool \in Int /\ e.block \in Int /\ e.ts \in 0 .. Span
                        /\ e.token \in [1 .. 2 -> Int] /\ e.amount \in [1 .. 2 -> Int]
    /\ \A d, e \in Event : d.pool = e.pool => d.protocol = e.protocol
ASSUME DecayAssumption == Span \in Nat /\ Decay \in [0 .. Span -> Nat]

hotVars == <<vars, alertVars>>

HotInit == Init /\ AlertsInit

(* The caller passes read_all(), a copy: later writes do not reach it.       *)
HotNext ==
    \/ \E e \in Event : Write(e) /\ UNCHANGED alertVars
    \/ \E subscribers \in SUBSET Subscriber :
          Evaluate(ReadAll, subscribers) /\ UNCHANGED vars
    \/ Deliver /\ UNCHANGED vars

HotSpec == HotInit /\ [][HotNext]_hotVars /\ AlertsFairness

-----------------------------------------------------------------------------
(* The ring reaches each of its states before the first evaluation too: the  *)
(* pure functions of the window are checked there, once for each window.     *)
Fresh == size > 0 /\ phase = "idle"

(* Whatever the ring has evicted and wherever its head stands, the window    *)
(* builds a graph that passes its own validation and whose volumes balance,  *)
(* and the same one in whatever order the events stand: the max of the       *)
(* timestamps, the sums and the sorted pool pairs hide it                    *)
(* (builder.py:74-218).                                                      *)
SnapshotSound == Fresh => GraphSound(ReadAll) /\ OrderFree(ReadAll)

(* The dense and the sparse adjacency of the graph are the same matrix, it   *)
(* is symmetric, and its normalised features lie in [0, 1] (engine/tensor).  *)
TensorsConsistent == Fresh => TensorsAgree(BuildGraph(ReadAll))
=============================================================================
