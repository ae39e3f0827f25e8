---------------------------- MODULE MCWatchParty ----------------------------
(* WatchParty for TLC: three people, the first with two windows.            *)
EXTENDS WatchParty, TLC

CONSTANTS g1, u1, u2, u3, a, b, c, d

MCOwner == a :> u1 @@ b :> u1 @@ c :> u2 @@ d :> u3
MCPositions == {-1, 2}
=============================================================================
