----------------------------- MODULE MCSyncLock -----------------------------
(* Small instances of SyncLock. *)
EXTENDS SyncLock
CONSTANTS w1, w2
TwoWorkers == {w1, w2}
OneService == {w1}
NoCrash == {}
Everywhere == Acquiring \cup {"held"} \cup Releasing
=============================================================================
