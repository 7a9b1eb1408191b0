----------------------- MODULE MCRealtimePipeline -----------------------
(* Two blocks, so that heads and logs can be missing, swapped or repeated;   *)
(* routable logs in both, one that is foreign and one that does not decode.  *)
EXTENDS RealtimePipeline

MCBlock == {1, 2}
MCLog == {[block |-> 1, row |-> 1, outcome |-> "event"],
          [block |-> 1, row |-> 2, outcome |-> "error"],
          [block |-> 2, row |-> 1, outcome |-> "event"],
          [block |-> 2, row |-> 2, outcome |-> "none"]}
MCEvent == [block : MCBlock, row : 1 .. 2, stamp : MCBlock]
=============================================================================
