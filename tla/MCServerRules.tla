---------------------------- MODULE MCServerRules ----------------------------
(* Six parts of the server that share no state, in one model: a behaviour   *)
(* is one of one of them, `playing', while the others stay where they began. *)
(* Three are extended rather than instantiated, so that the run checks the   *)
(* very properties ServerRulesProofs is about.                               *)
EXTENDS Membership, Conversations, Feeds, TLC

VARIABLES
  playing,
  piles, marker, handling, replies, hearing, drawn, seen, blurred, clicks,
  ticks, hits, attempts, failures, promised,
  payload, setup, sound, tasks, live, saved, staged, recorded, up, app, env, at, turn, moved, inHand,
  reopens, foundLive, foundUp, outcome, blames, left

Mark == INSTANCE Marks WITH
  Readers <- {"ann", "bob"}, Emojis <- {"+1", "-1"}, MaxPiles <- 1, MaxId <- 2, MaxAtOnce <- 2, MaxClicks <- 3
Throttle == INSTANCE LoginThrottle WITH
  Limit <- 2, Window <- 3, MaxOpen <- 2, MaxTicks <- 8
Upd == INSTANCE ServerUpdate WITH
  Order <- <<"dist", "prisma", "livekit", "console">>, Entry <- "dist",
  ServiceOf <- [dist |-> "server", prisma |-> "server", livekit |-> "livekit", console |-> "none"],
  FolderOf <- [dist |-> "server", prisma |-> "server", livekit |-> "livekit", console |-> "console"],
  Folders <- <<"server", "console", "livekit">>, Whole <- {"console"},
  Migrates <- {"prisma"}, NeedsApp <- {"console"}, MaxRuns <- 2, MaxTroubles <- 1, spare <- left

markVars == <<piles, marker, handling, replies, hearing, drawn, seen, blurred, clicks>>
throttleVars == <<ticks, hits, attempts, failures, promised>>
updVars == <<payload, setup, sound, tasks, live, saved, staged, recorded, up, app, env, at, turn, moved,
             inHand, reopens, foundLive, foundUp, outcome, blames, left>>
vars == <<playing, membershipVars, convVars, markVars, throttleVars, feedsVars, updVars>>

ASSUME PartsAreSound ==
  /\ Mark!MarksAssumption /\ Throttle!ThrottleAssumption /\ Upd!UpdateAssumption

Parts == {"membership", "conversations", "marks", "throttle", "feeds", "update"}

PartsInit ==
  /\ playing \in Parts
  /\ Init /\ ConvInit /\ Mark!Init /\ Throttle!Init /\ FeedsInit /\ Upd!Init
  /\ playing # "conversations" => \A c \in Chats : people[c] = {}
  /\ playing # "feeds" => feed["desktop"].manifest = 0
  /\ playing # "update" => /\ payload = live /\ recorded = live
                           /\ ~(setup \/ sound \/ tasks \/ app)

PartsNext ==
  /\ UNCHANGED playing
  /\ \/ playing = "membership" /\ Next /\ UNCHANGED <<convVars, markVars, throttleVars, feedsVars, updVars>>
     \/ playing = "conversations" /\ ConvNext /\ UNCHANGED <<membershipVars, markVars, throttleVars, feedsVars, updVars>>
     \/ playing = "marks" /\ Mark!Next /\ UNCHANGED <<membershipVars, convVars, throttleVars, feedsVars, updVars>>
     \/ playing = "throttle" /\ Throttle!Next /\ UNCHANGED <<membershipVars, convVars, markVars, feedsVars, updVars>>
     \/ playing = "feeds" /\ FeedsNext /\ UNCHANGED <<membershipVars, convVars, markVars, throttleVars, updVars>>
     \/ playing = "update" /\ Upd!Next /\ UNCHANGED <<membershipVars, convVars, markVars, throttleVars, feedsVars>>

PartsSpec == PartsInit /\ [][PartsNext]_vars

Symmetry == Permutations(Users)

\* A part is looked at while it plays: its types, and what it promises.
Of(part, types, promise) == playing = part => types /\ promise

\* Reactions and read markers: see Marks.
MarksSettle == Of("marks", Mark!TypeOK, Mark!MarksSettle)
\* The login throttle: see LoginThrottle.
ThrottleIsFair ==
  Of("throttle", Throttle!TypeOK, Throttle!FailuresAreBounded /\ Throttle!PromiseHolds)
\* Updating the server itself: see ServerUpdate.
InstallIsWhole == Of("update", Upd!TypeOK, Upd!InstallIsWhole)
=============================================================================
