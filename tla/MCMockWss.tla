---------------------------- MODULE MCMockWss ----------------------------
(* Two clients and two addresses; three blocks: a burst of two (the second   *)
(* with a malformed header), a pause, a malformed row between good ones.     *)
EXTENDS MockWss

CONSTANTS c1, c2, a1, a2

Row(a, good) == [address |-> a, ok |-> good]
Block(pause, good, r) == [delay |-> pause, header |-> good, rows |-> r]

MCClient == {c1, c2}
MCAddress == {a1, a2}
MCFilters == {{}, {a1}}
MCBlocks == << Block(FALSE, TRUE, <<Row(a1, TRUE)>>),
               Block(FALSE, FALSE, <<Row(a1, TRUE)>>),
               Block(TRUE, TRUE, <<Row(a2, TRUE), Row(a1, FALSE), Row(a1, TRUE)>>) >>
=============================================================================
