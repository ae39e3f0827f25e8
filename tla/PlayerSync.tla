------------------------------ MODULE PlayerSync ------------------------------
(***************************************************************************)
(* One party window keeping its player where the room is:                   *)
(* watch-party-sync.ts, the player half of PartyWindow.tsx,                 *)
(* youtube-player.ts, and the clock that useWatchParty measures.            *)
(*                                                                          *)
(* The server sends where the video was and when, on its own clock; the     *)
(* window works out where it is now, on another; and the player, which is   *)
(* somebody else's page in a frame, hears what it is told a moment late,    *)
(* reports a moment late, and stalls.  Time is in seconds, the step of the  *)
(* sync loop.                                                               *)
(*                                                                          *)
(* UncorrectedClock is a plausible bug of the definition that follows it.   *)
(***************************************************************************)
EXTENDS Naturals, Integers, Sequences

CONSTANTS
  Offsets,     \* what this machine's clock may be ahead of the server's
  Places,      \* where a host may seek to
  MaxTime,     \* bound on the clock
  MaxEvents    \* bound on what a host does, on lost connections, and on
               \* stalls and refusals of the player, together

SyncAssumption ==
  /\ Offsets \subseteq Int /\ Places \subseteq Nat
  /\ MaxTime \in Nat /\ MaxEvents \in Nat

COOLDOWN == 3
Never == -1
\* The ticks it takes, at most, from the last disturbance: a cooldown under
\* way, a start, another cooldown, a jump, each acted on a second late.
Settled == 9

Room == [video : 1..(MaxEvents + 1), playing : BOOLEAN, position : Nat, at : Int]
Player == [ready : BOOLEAN, state : {"unstarted", "playing", "paused", "buffering"}, pos : Nat]

VARIABLES
  time,        \* the server's clock; the party started at 0
  offset,      \* the window's clock is time + offset
  room,        \* what the server holds
  inbox,       \* states on their way: stamped, or as they are stored
  late,        \* the head of the inbox, or the player, has waited a second
  up,          \* the socket is connected
  asking,      \* discover has not asked yet
  state,       \* live.current.state
  skew,        \* skewMs
  player,
  info,        \* what it reported last
  commands,    \* what it has not heard yet
  due,         \* the sync loop has not run this second
  lastCorrection,
  calm,        \* seconds since anything happened to the room or the window
  discovered,  \* the state at hand is discover's
  spare

net == <<inbox, up, asking>>
window == <<state, skew, discovered>>
vars == <<time, offset, room, net, late, window, player, info, commands, due, lastCorrection, calm, spare>>

TypeOK ==
  /\ time \in 0..MaxTime /\ offset \in Offsets
  /\ room \in Room /\ state \in Room /\ skew \in Int
  /\ inbox \in Seq([room : Room, serverTime : Nat, stored : BOOLEAN])
  /\ late \subseteq {"inbox", "player", "frame"}
  /\ up \in BOOLEAN /\ asking \in BOOLEAN /\ due \in BOOLEAN /\ discovered \in BOOLEAN
  /\ player \in Player /\ info \in [state : {"unstarted", "playing", "paused", "buffering"}, pos : Nat]
  /\ commands \in Seq([do : {"play", "pause", "seek"}, to : Nat])
  /\ lastCorrection \in Int /\ calm \in 0..MaxTime
  /\ spare \in 0..MaxEvents

Fresh == [ready |-> FALSE, state |-> "unstarted", pos |-> 0]

\* The window is on its first video, whose frame is loading.
Init ==
  /\ time = 0 /\ offset \in Offsets
  /\ room \in [video : {1}, playing : BOOLEAN, position : {0}, at : {0}]
  /\ state = room /\ skew = offset /\ discovered = FALSE
  /\ inbox = <<>> /\ late = {} /\ up = TRUE /\ asking = FALSE
  /\ player = Fresh /\ info = [state |-> "unstarted", pos |-> 0] /\ commands = <<>>
  /\ due = FALSE /\ lastCorrection = Never /\ calm = 0
  /\ spare = MaxEvents

Spend == spare > 0 /\ spare' = spare - 1
NotNegative(n) == IF n < 0 THEN 0 ELSE n
Command(do, to) == [do |-> do, to |-> to]
Heard(who, rest) == late' = IF rest = <<>> THEN late \ {who} ELSE late
Tell(those) == commands' = commands \o those

-----------------------------------------------------------------------------
(* The room.                                                                *)

\* positionNow, on the server.
RoomPosition == IF room.playing THEN room.position + time - room.at ELSE room.position

Stamped(r) == [room |-> r, serverTime |-> time, stored |-> FALSE]

\* party:updated, to whoever is connected.
Announce(r) ==
  /\ room' = r
  /\ inbox' = IF up THEN Append(inbox, Stamped(r)) ELSE inbox
  /\ calm' = 0

\* control and ended: play, pause, seek and the next video.
Changed(how, to) ==
  CASE how = "play"  -> [room EXCEPT !.position = RoomPosition, !.at = time, !.playing = TRUE]
    [] how = "pause" -> [room EXCEPT !.position = RoomPosition, !.at = time, !.playing = FALSE]
    [] how = "seek"  -> [room EXCEPT !.position = to, !.at = time]
    [] how = "skip"  -> [room EXCEPT !.video = @ + 1, !.position = 0, !.at = time]

SomebodyDrives ==
  /\ Spend
  /\ \E how \in {"play", "pause", "skip", "seek"}, to \in Places : Announce(Changed(how, to))
  /\ UNCHANGED <<time, offset, late, up, asking, window, player, info, commands, due, lastCorrection>>

\* hostControl: the same, and the window's own player is told at once.
HostDrives ==
  /\ up
  /\ Spend
  /\ \E how \in {"play", "pause", "skip", "seek"}, to \in Places :
       /\ Announce(Changed(how, to))
       /\ IF player.ready
          THEN /\ lastCorrection' = time + offset
               /\ Tell(IF how = "skip" THEN <<>> ELSE <<Command(how, to)>>)
          ELSE UNCHANGED <<lastCorrection, commands>>
  /\ UNCHANGED <<time, offset, late, up, asking, window, player, info, due>>

-----------------------------------------------------------------------------
(* The connection.                                                          *)

Drop ==
  /\ up
  /\ Spend
  /\ up' = FALSE /\ asking' = FALSE /\ inbox' = <<>> /\ calm' = 0
  /\ UNCHANGED <<time, offset, room, late, window, player, info, commands, due, lastCorrection>>

\* onReconnected: party:join, whose answer is stamped; and the effect of the
\* status, which loads the servers before it asks for the party of the first.
Reconnect ==
  /\ ~up
  /\ up' = TRUE /\ asking' = TRUE
  /\ inbox' = <<Stamped(room)>>
  /\ calm' = 0
  /\ UNCHANGED <<time, offset, room, late, window, player, info, commands, due, lastCorrection, spare>>

\* discover: party:current answers with the party as it is stored, and that
\* has been stamped once, when it began.
Discover ==
  /\ up /\ asking
  /\ asking' = FALSE
  /\ inbox' = Append(inbox, [room |-> room, serverTime |-> 0, stored |-> TRUE])
  /\ calm' = 0
  /\ UNCHANGED <<time, offset, room, late, up, window, player, info, commands, due, lastCorrection, spare>>

\* take, onPartyState; another video is another frame, and another player.
Take ==
  /\ inbox # <<>>
  /\ state' = Head(inbox).room
  /\ skew' = time + offset - Head(inbox).serverTime
  /\ discovered' = Head(inbox).stored
  /\ inbox' = Tail(inbox) /\ Heard("inbox", inbox')
  /\ IF Head(inbox).room.video = state.video
     THEN UNCHANGED <<player, info, commands, lastCorrection>>
     ELSE /\ player' = Fresh /\ info' = [state |-> "unstarted", pos |-> 0]
          /\ commands' = <<>> /\ lastCorrection' = Never
  /\ calm' = 0
  /\ UNCHANGED <<time, offset, room, up, asking, due, spare>>

-----------------------------------------------------------------------------
(* Where the player should be.                                              *)

UncorrectedClock ==
  IF state.playing THEN NotNegative(state.position + time + offset - state.at) ELSE state.position
\* positionNow, in the window.
Target ==
  IF state.playing THEN NotNegative(state.position + (time + offset - skew) - state.at)
  ELSE state.position

Cooling == lastCorrection # Never /\ time + offset - lastCorrection < COOLDOWN

\* decideSync: buffering is not drift; more than a second and a half is two.
Decision ==
  IF info.state = "buffering" \/ Cooling THEN <<>>
  ELSE IF state.playing /\ info.state \in {"paused", "unstarted"} THEN <<Command("play", 0)>>
  ELSE IF ~state.playing /\ info.state = "playing" THEN <<Command("pause", 0)>>
  ELSE IF info.state = "unstarted" \/ Target - info.pos \in {-1, 0, 1} THEN <<>>
  ELSE <<Command("seek", Target)>>

\* A pass of the sync loop.
Pass ==
  /\ due
  /\ due' = FALSE
  /\ IF player.ready /\ Decision # <<>>
     THEN lastCorrection' = time + offset /\ Tell(Decision)
     ELSE UNCHANGED <<lastCorrection, commands>>
  /\ UNCHANGED <<time, offset, room, net, late, window, player, info, calm, spare>>

-----------------------------------------------------------------------------
(* The player.                                                              *)

\* onReady: to where the room is now.
Ready ==
  /\ ~player.ready
  /\ player' = [player EXCEPT !.ready = TRUE]
  /\ Tell(<<Command("seek", Target), Command(IF state.playing THEN "play" ELSE "pause", 0)>>)
  /\ late' = late \ {"frame"}
  /\ calm' = 0
  /\ UNCHANGED <<time, offset, room, net, window, info, due, lastCorrection, spare>>

Done(c) ==
  CASE c.do = "seek" -> [player EXCEPT !.pos = c.to]
    [] c.do = "play" -> [player EXCEPT !.state = "playing"]
    [] c.do = "pause" -> [player EXCEPT !.state = IF @ = "unstarted" THEN @ ELSE "paused"]

Obey ==
  /\ commands # <<>>
  /\ player' = Done(Head(commands))
  /\ commands' = Tail(commands) /\ Heard("player", commands')
  /\ UNCHANGED <<time, offset, room, net, window, info, due, lastCorrection, calm, spare>>

\* Autoplay is refused.
Refuse ==
  /\ commands # <<>> /\ Head(commands).do = "play" /\ player.state = "unstarted"
  /\ Spend
  /\ commands' = Tail(commands) /\ Heard("player", commands')
  /\ calm' = 0
  /\ UNCHANGED <<time, offset, room, net, window, player, info, due, lastCorrection>>

Stall ==
  /\ player.state = "playing"
  /\ Spend
  /\ player' = [player EXCEPT !.state = "buffering"]
  /\ info' = [info EXCEPT !.state = "buffering"]
  /\ calm' = 0
  /\ UNCHANGED <<time, offset, room, net, late, window, commands, due, lastCorrection>>

Resume ==
  /\ player.state = "buffering"
  /\ player' = [player EXCEPT !.state = "playing"]
  /\ info' = [info EXCEPT !.state = "playing"]
  /\ calm' = 0
  /\ UNCHANGED <<time, offset, room, net, late, window, commands, due, lastCorrection, spare>>

\* A second passes.  Nothing waits for two: not a state on its way, nor a
\* command, nor a frame that loads.  The player reports several times a second:
\* what it reported is old only if it was told something since.
Tick ==
  /\ time < MaxTime /\ ~due
  /\ late = {}
  /\ time' = time + 1 /\ due' = TRUE
  /\ late' = {w \in {"inbox", "player", "frame"} :
                CASE w = "inbox" -> inbox # <<>>
                  [] w = "player" -> commands # <<>>
                  [] w = "frame" -> ~player.ready}
  /\ player' = IF player.state = "playing" THEN [player EXCEPT !.pos = @ + 1] ELSE player
  /\ info' = [state |-> player'.state, pos |-> player'.pos]
  /\ calm' = IF up /\ ~asking /\ inbox = <<>> /\ player.ready /\ player.state # "buffering" THEN calm + 1 ELSE 0
  /\ UNCHANGED <<offset, room, net, window, commands, lastCorrection, spare>>

Next ==
  \/ SomebodyDrives \/ HostDrives \/ Drop \/ Reconnect \/ Discover \/ Take
  \/ Pass \/ Ready \/ Obey \/ Refuse \/ Stall \/ Resume \/ Tick

-----------------------------------------------------------------------------

IsWithTheRoom ==
  /\ player.state = "playing" <=> room.playing
  /\ player.state = "unstarted" \/ RoomPosition - player.pos \in -3..3

\* However the clocks differ, whatever the host did and however the player
\* stalled, a window that was left alone for a few seconds plays when the room
\* does and where the room is, give or take what it tolerates; and it stopped
\* seeking.  Short of a state that came by discover.
StaysTogether ==
  (calm >= Settled /\ ~discovered) =>
    /\ IsWithTheRoom
    /\ lastCorrection # Never => time + offset - lastCorrection >= calm - (Settled - 1)

\* "Every payload leaving here goes through this": without the excuse.  It does
\* not hold: after every reconnection discover answers last, with the time the
\* party began, and the window goes back to where it was then.
AlwaysTogether == (calm >= Settled) => IsWithTheRoom
=============================================================================
