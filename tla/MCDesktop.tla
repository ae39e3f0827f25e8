------------------------------ MODULE MCDesktop ------------------------------
(* Parts of the desktop client, and presence, which share no state, in one  *)
(* model: a behaviour is of one of them, `playing', while the others stay   *)
(* where they began.  Presence, VoiceJoin, Keybinds and Updater are         *)
(* extended rather than instantiated, so that the run checks the very       *)
(* properties that are proved of them.                                      *)
EXTENDS Presence, VoiceJoin, Keybinds, Updater, TLC

CONSTANTS
  Parts,   \* which of them are played
  Seconds, \* how long the player plays
  u1, a, b \* of Presence: who there is, and their windows

VARIABLES
  playing,
  mic, remaking, flaws, turns, mishaps,
  time, offset, room, partyInbox, late, partyUp, partyAsking, state, skew, player, info, commands, due,
  lastCorrection, calm, discovered, partySpare

Mic == INSTANCE Microphone WITH
  MaxRooms <- 2, MaxOpens <- 3, MaxTurns <- 3, MaxTroubles <- 1
Player == INSTANCE PlayerSync WITH
  inbox <- partyInbox, up <- partyUp, asking <- partyAsking, spare <- partySpare,
  Offsets <- {4}, Places <- {7}, MaxTime <- Seconds, MaxEvents <- 2
MCOwner == a :> u1 @@ b :> u1
MCKeyOf == 1 :> "k" @@ 2 :> "l" @@ 3 :> "k"
micVars == <<mic, remaking, flaws, turns, mishaps>>
playerVars == <<time, offset, room, partyInbox, late, partyUp, partyAsking, state, skew, player, info,
                commands, due, lastCorrection, calm, discovered, partySpare>>
presenceVars == vars
partsVars == <<playing, joinVars, micVars, keyVars, updateVars, playerVars, presenceVars>>

ASSUME PartsAreSound ==
  /\ Parts \subseteq {"joining", "microphone", "keybinds", "updater", "player", "presence"}
  /\ Mic!MicrophoneAssumption /\ Player!SyncAssumption

PartsInit ==
  /\ playing \in Parts
  /\ JoinInit /\ Mic!Init /\ KeysInit /\ UpdateInit /\ Player!Init /\ Init
  /\ playing # "player" => room.playing

PartsNext ==
  /\ UNCHANGED playing
  /\ \/ /\ playing = "joining" /\ JoinNext
        /\ UNCHANGED <<micVars, keyVars, updateVars, playerVars, presenceVars>>
     \/ /\ playing = "microphone" /\ Mic!Next
        /\ UNCHANGED <<joinVars, keyVars, updateVars, playerVars, presenceVars>>
     \/ /\ playing = "keybinds" /\ KeysNext
        /\ UNCHANGED <<joinVars, micVars, updateVars, playerVars, presenceVars>>
     \/ /\ playing = "updater" /\ UpdateNext
        /\ UNCHANGED <<joinVars, micVars, keyVars, playerVars, presenceVars>>
     \/ /\ playing = "player" /\ Player!Next
        /\ UNCHANGED <<joinVars, micVars, keyVars, updateVars, presenceVars>>
     \/ /\ playing = "presence" /\ Next
        /\ UNCHANGED <<joinVars, micVars, keyVars, updateVars, playerVars>>

PartsSpec == PartsInit /\ [][PartsNext]_partsVars

\* A part is looked at while it plays: its types, and what it promises.
Of(part, types, promise) == playing = part => types /\ promise

\* The microphone: see Microphone.
MicrophoneIsRight ==
  Of("microphone", Mic!TypeOK, Mic!MicrophoneIsRight /\ Mic!OneMicrophone /\ Mic!HeardSettled)
\* The video of a party and its room: see PlayerSync.
StaysTogether == Of("player", Player!TypeOK, Player!StaysTogether)
\* The same without its excuse, which the code breaks: see PlayerSync.
AlwaysTogether == Of("player", TRUE, Player!AlwaysTogether)
=============================================================================
