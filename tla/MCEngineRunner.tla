------------------------- MODULE MCEngineRunner -------------------------
(* Four frames, the second a bad one, on queues of one and two: the queue    *)
(* overflows, the worker is restarted, and a result waits behind a full      *)
(* output pipe.                                                              *)
EXTENDS EngineRunner

MCBadFrames == {2}
=============================================================================
