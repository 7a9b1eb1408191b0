---------------------------- MODULE MCHeadStream ----------------------------
(* The numbers are in the .cfg; two retries with a cap of 3 reach the cap.   *)
EXTENDS HeadStream
=============================================================================
