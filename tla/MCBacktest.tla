---------------------------- MODULE MCBacktest ----------------------------
(* Fixtures of up to four rows, of three times in any order.                 *)
EXTENDS Backtest
MCTimes == 0 .. 2
=============================================================================
