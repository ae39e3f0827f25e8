----------------------------- MODULE MCPlayback -----------------------------
(* WatchParty for TLC with the queue and the clock: a window each for two. *)
EXTENDS WatchParty, TLC

CONSTANTS g1, u1, u2, a, b

MCOwner == a :> u1 @@ b :> u2
MCPositions == {-1, 2}
=============================================================================
