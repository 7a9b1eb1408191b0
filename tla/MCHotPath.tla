----------------------------- MODULE MCHotPath -----------------------------
(* Two Uniswap pools and a lending pool that share tokens: swaps with their  *)
(* negative sides, a borrow with one token, and a liquidation of a token     *)
(* against itself, whose time lies before that of the others.                *)
EXTENDS HotPath

Ev(protocol, type, pool, t0, a0, t1, a1, ts, block) ==
    [protocol |-> protocol, type |-> type, pool |-> pool, token |-> <<t0, t1>>,
     amount |-> <<a0, a1>>, ts |-> ts, block |-> block]

MCEvent == {Ev("uniswap_v3", "swap", 1, 1, -2, 2, 5, 2, 3),
            Ev("uniswap_v3", "swap", 2, 1, 1, 3, 0, 1, 2),
            Ev("aave_v3", "borrow", 3, 2, 4, 0, 0, 1, 2),
            Ev("aave_v3", "liquidation", 3, 2, 6, 2, 1, 0, 1)}

(* Time counts half-lives.                                                   *)
MCDecay == [dt \in 0 .. 2 |-> 2 ^ (2 - dt)]
=============================================================================
