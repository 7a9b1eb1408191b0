--------------------------- MODULE MCFixtureTools ---------------------------
(* A V2-era chain of three blocks: swaps of the pool the extractor reads,    *)
(* two of them in one block and the smallest int in one, a burn it does not  *)
(* read, a lending pool's borrow and liquidation, the other's withdrawal.    *)
(* The second block is one transaction, whose last index can be cut to that  *)
(* of the row before it.                                                     *)
EXTENDS FixtureTools, TLC

L(block, index, tx, address, topics, data) ==
    [block |-> block, index |-> index, ts |-> 10 * block, tx |-> tx,
     address |-> address, topics |-> topics, data |-> data]

MCLog == {L(1, 0, 10, 11, <<"Swap", 0, 0>>, <<7, 2, 0, 0, 0>>),
          L(1, 1, 11, 11, <<"Burn", 0, 0, 0>>, <<5, 6, 1>>),
          L(2, 0, 20, 12, <<"LiquidationCall", 3, 4, 0>>, <<2, 6, 0, 0>>),
          L(2, 1, 20, 11, <<"Swap", 0, 0>>, <<1, 4, 0, 0, 0>>),
          L(2, 12, 20, 12, <<"BorrowV2", 3, 0, 0>>, <<0, 5, 1, 1>>),
          L(3, 0, 30, 11, <<"Swap", 0, 0>>, <<3, 6, 0, 0, 0>>),
          L(3, 34, 31, 11, <<"Swap", 0, 0>>, <<4, 1, 0, 0, 0>>),
          L(3, 35, 32, 13, <<"Withdraw", 3, 0, 0>>, <<7>>)}

MCWhitelist == (11 :> [protocol |-> "uniswap_v3", token |-> <<1, 2>>])
               @@ (12 :> [protocol |-> "aave_v3", token |-> <<0, 0>>])
               @@ (13 :> [protocol |-> "aave_v3", token |-> <<0, 0>>])
=============================================================================
