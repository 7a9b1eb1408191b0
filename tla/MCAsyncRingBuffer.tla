------------------------ MODULE MCAsyncRingBuffer ------------------------
(* Three tasks on a buffer of two events: one holds, one is first in the     *)
(* queue, one is behind it, and any of them can be cancelled.                *)
EXTENDS AsyncRingBuffer

CONSTANTS t1, t2, t3

MCTask == {t1, t2, t3}
MCEvent == 1 .. MaxWrites
=============================================================================
