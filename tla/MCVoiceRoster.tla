---------------------------- MODULE MCVoiceRoster ----------------------------
(* VoiceRoster for TLC: two people and one voice channel.                   *)
EXTENDS VoiceRoster, TLC

CONSTANTS u1, u2, c1
=============================================================================
