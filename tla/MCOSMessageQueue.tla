-------------------------- MODULE MCOSMessageQueue --------------------------
(* A small instance of OSMessageQueue for TLC.                              *)
EXTENDS OSMessageQueue, TLC

CONSTANTS t1, t2, t3, a, b

MCThread  == {t1, t2, t3}
MCMessage == {a, b}

\* Threads are alike, and so are messages.
Alike == Permutations(MCThread) \cup Permutations(MCMessage)
=============================================================================
