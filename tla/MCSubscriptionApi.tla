------------------------ MODULE MCSubscriptionApi ------------------------
(* Two threads and two URLs; a limit of one, so that the second request of a *)
(* key in a minute is refused.                                               *)
EXTENDS SubscriptionApi

CONSTANTS t1, t2, k1, u1, u2

MCThread == {t1, t2}
MCKey == {k1}
MCUrl == {u1, u2}
=============================================================================
