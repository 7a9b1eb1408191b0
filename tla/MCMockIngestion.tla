------------------------- MODULE MCMockIngestion -------------------------
(* Four blocks with pauses between them; one contract outside the whitelist, *)
(* one whose logs do not decode; a malformed row and a malformed header.     *)
EXTENDS MockIngestion

CONSTANTS a1, a2, a3

Row(a, good) == [address |-> a, ok |-> good]
Group(pause, good, r) == [delay |-> pause, header |-> good, rows |-> r]

MCClient == {Me}
MCAddress == {a1, a2, a3}
MCWhitelist == {a1, a2}
MCFilters == {MCWhitelist}
MCUndecoded == {a2}
MCBlocks == << Group(FALSE, TRUE, <<Row(a1, TRUE)>>),
               Group(TRUE, TRUE, <<Row(a3, TRUE), Row(a1, TRUE), Row(a1, FALSE)>>),
               Group(TRUE, FALSE, <<Row(a1, TRUE)>>),
               Group(FALSE, TRUE, <<Row(a2, TRUE), Row(a1, TRUE)>>) >>
MCBlock == 1 .. 4
MCEvent == [block : 1 .. 4, row : 1 .. 3, stamp : 1 .. 4]
=============================================================================
