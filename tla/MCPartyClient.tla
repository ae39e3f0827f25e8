---------------------------- MODULE MCPartyClient ----------------------------
(* PartyClient for TLC: one window, a second of the same person, and another person. *)
EXTENDS PartyClient, TLC

CONSTANTS g1, u1, u2, w, w2, c

MCOwner == w :> u1 @@ w2 :> u1 @@ c :> u2
=============================================================================
