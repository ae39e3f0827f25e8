------------------------------ MODULE WatchParty ------------------------------
(***************************************************************************)
(* The watch parties of the chat server: WatchPartyService (what a party    *)
(* is) and the handlers of ChatGateway that drive it (who may change it,    *)
(* and when).                                                               *)
(*                                                                          *)
(* Node runs one handler at a time, so a handler is one step up to its      *)
(* first await on the database. party:start and party:join await the        *)
(* permission check, and are therefore two steps: the request, which ends   *)
(* with the membership row having been read, and the resumption, which may  *)
(* come after any number of other steps.  The awaits on socket.join and     *)
(* fetchSockets never leave the process (the adapter is in memory), so no   *)
(* other handler runs between them and what follows.                        *)
(*                                                                          *)
(* Titles, durations and names are left out.  Time is in ticks; the code    *)
(* keeps seconds for position and milliseconds for positionAt.              *)
(*                                                                          *)
(* LeftHeadless, RewindStillPlaying and the like are plausible bugs of the *)
(* definition that follows them: they show that the properties notice.      *)
(***************************************************************************)
EXTENDS Integers, Sequences, FiniteSets, Functions, SequencesExt

CONSTANTS
  Users,        \* accounts
  Guilds,       \* servers a party can be in
  Sockets,      \* windows: each connects, drops and reconnects
  Owner,        \* the account a window is signed in as
  Admins,       \* accounts nobody may moderate
  NoParty,      \* the map has no entry for this guild
  NoSocket,     \* the socket of a request whose connection has gone
  MaxQueue,     \* MAX_PARTY_QUEUE
  Positions,    \* what a seek may ask for
  MaxPending,   \* bound on handlers inside their await at once
  MaxParties,   \* bound on parties ever started
  MaxItems,     \* bound on videos ever queued
  MaxClock      \* bound on the clock

Items == [id : Nat, addedBy : Users]
Party == [id : Nat, host : Users, watchers : Seq(Users), queue : Seq(Items),
          playing : BOOLEAN, position : Int, positionAt : Nat]
Requests == [kind : {"start", "join"}, user : Users, sock : Sockets \cup {NoSocket},
             guild : Guilds, party : Nat]

ASSUME ConstantsAssumption ==
  /\ Owner \in [Sockets -> Users]
  /\ Admins \subseteq Users
  /\ NoParty \notin Party
  /\ NoSocket \notin Sockets
  /\ MaxQueue \in Nat \ {0}
  /\ Positions \subseteq Int
  /\ MaxPending \in Nat /\ MaxParties \in Nat /\ MaxItems \in Nat /\ MaxClock \in Nat

VARIABLES
  clock,        \* Date.now()
  members,      \* guildMember rows, as pairs <<user, guild>>
  live,         \* connected sockets
  connections,  \* ChatGateway.connections: windows per user
  parties,      \* WatchPartyService.parties
  room,         \* pairs <<socket, party id>>: Socket.IO's party: rooms
  pending,      \* party:start and party:join handlers inside their await
  nextParty,    \* the next party id
  nextItem      \* the next queue item id

vars == <<clock, members, live, connections, parties, room, pending, nextParty, nextItem>>

TypeOK ==
  /\ clock \in Nat
  /\ members \subseteq Users \X Guilds
  /\ live \subseteq Sockets
  /\ connections \in [Users -> Nat]
  /\ parties \in [Guilds -> Party \cup {NoParty}]
  /\ room \subseteq Sockets \X Nat
  /\ pending \subseteq Requests
  /\ nextParty \in Nat
  /\ nextItem \in Nat

-----------------------------------------------------------------------------
(* WatchPartyService: what each operation does to one party.                *)

Watches(p, u) == p # NoParty /\ u \in Range(p.watchers)

\* byId: the party with this id, wherever it is.
IsParty(g, pid) == parties[g] # NoParty /\ parties[g].id = pid

NewParty(pid, u) ==
  [id |-> pid, host |-> u, watchers |-> <<u>>, queue |-> <<>>,
   playing |-> FALSE, position |-> 0, positionAt |-> clock]

Joined(p, u) ==
  IF u \in Range(p.watchers) THEN p ELSE [p EXCEPT !.watchers = Append(@, u)]

\* watchers.filter(id => id !== u); the list never holds anybody twice.
Without(s, u) == RemoveAt(s, CHOOSE i \in DOMAIN s : s[i] = u)

LeftHeadless(p, u) ==
  LET rest == Without(p.watchers, u)
  IN  IF rest = <<>> THEN NoParty ELSE [p EXCEPT !.watchers = rest]
LeftToTheNewest(p, u) ==
  LET rest == Without(p.watchers, u)
  IN  IF rest = <<>> THEN NoParty
      ELSE [p EXCEPT !.watchers = rest,
                     !.host = IF @ = u THEN Last(rest) ELSE @]
Left(p, u) ==
  LET rest == Without(p.watchers, u)
  IN  IF rest = <<>> THEN NoParty
      ELSE [p EXCEPT !.watchers = rest,
                     !.host = IF @ = u THEN Head(rest) ELSE @]

\* dropUser: out of every party they are in.
Dropped(ps, u) == [g \in Guilds |-> IF Watches(ps[g], u) THEN Left(ps[g], u) ELSE ps[g]]

PositionNow(p, t) == IF p.playing THEN p.position + (t - p.positionAt) ELSE p.position

RewindStillPlaying(p) == [p EXCEPT !.position = 0, !.positionAt = clock]
Rewind(p) ==
  [p EXCEPT !.position = 0, !.positionAt = clock,
            !.playing = IF p.queue = <<>> THEN FALSE ELSE @]

Queued(p, item) ==
  LET longer == [p EXCEPT !.queue = Append(@, item)]
  IN  IF Len(p.queue) >= MaxQueue THEN p
      ELSE IF p.queue # <<>> THEN longer
      ELSE [longer EXCEPT !.position = 0, !.positionAt = clock, !.playing = FALSE]

Unqueued(p, i) ==
  LET shorter == [p EXCEPT !.queue = RemoveAt(@, i)]
  IN  IF i = 1 THEN Rewind(shorter) ELSE shorter

Skipped(p) == Rewind([p EXCEPT !.queue = Tail(@)])

PlayUnstamped(p, on) == [p EXCEPT !.positionAt = clock, !.playing = on]
\* control('play') and control('pause') differ in the last assignment alone.
SetPlaying(p, on) ==
  [p EXCEPT !.position = PositionNow(p, clock), !.positionAt = clock, !.playing = on]

Sought(p, pos) == [p EXCEPT !.position = IF pos > 0 THEN pos ELSE 0, !.positionAt = clock]

-----------------------------------------------------------------------------
(* Connections.                                                             *)

Init ==
  /\ clock = 0
  /\ members = Users \X Guilds
  /\ live = {}
  /\ connections = [u \in Users |-> 0]
  /\ parties = [g \in Guilds |-> NoParty]
  /\ room = {}
  /\ pending = {}
  /\ nextParty = 1
  /\ nextItem = 1

Tick ==
  /\ clock < MaxClock
  /\ clock' = clock + 1
  /\ UNCHANGED <<members, live, connections, parties, room, pending, nextParty, nextItem>>

\* handleConnection.
Connect(s) ==
  /\ s \notin live
  /\ live' = live \cup {s}
  /\ connections' = [connections EXCEPT ![Owner[s]] = @ + 1]
  /\ UNCHANGED <<clock, members, parties, room, pending, nextParty, nextItem>>

\* A handler keeps its socket object when the connection has gone; joining a
\* room with it reaches nobody.
Orphaned(reqs, gone) ==
  {[r EXCEPT !.sock = IF @ \in gone THEN NoSocket ELSE @] : r \in reqs}

AfterSocketLossAlways(n, u) == Dropped(parties, u)
\* handleDisconnect drops the user from their parties when no window is left.
AfterSocketLoss(n, u) == IF n <= 0 THEN Dropped(parties, u) ELSE parties

\* handleDisconnect.
Disconnect(s) ==
  LET u == Owner[s]
      next == connections[u] - 1
  IN  /\ s \in live
      /\ live' = live \ {s}
      /\ connections' = [connections EXCEPT ![u] = IF next <= 0 THEN 0 ELSE next]
      /\ parties' = AfterSocketLoss(next, u)
      /\ room' = {e \in room : e[1] # s}
      /\ pending' = Orphaned(pending, {s})
      /\ UNCHANGED <<clock, members, nextParty, nextItem>>

SocketsOf(u) == {s \in live : Owner[s] = u}

\* kick and ban: the row goes, then disconnectUser cuts every socket.
Kick(u, g) ==
  /\ u \notin Admins
  /\ <<u, g>> \in members
  /\ members' = members \ {<<u, g>>}
  /\ live' = live \ SocketsOf(u)
  /\ connections' = [connections EXCEPT ![u] = 0]
  /\ parties' = IF SocketsOf(u) = {} THEN parties ELSE Dropped(parties, u)
  /\ room' = {e \in room : e[1] \notin SocketsOf(u)}
  /\ pending' = Orphaned(pending, SocketsOf(u))
  /\ UNCHANGED <<clock, nextParty, nextItem>>

\* The process ends: parties, connections and running handlers are memory.
Restart ==
  /\ live' = {}
  /\ connections' = [u \in Users |-> 0]
  /\ parties' = [g \in Guilds |-> NoParty]
  /\ room' = {}
  /\ pending' = {}
  /\ UNCHANGED <<clock, members, nextParty, nextItem>>

-----------------------------------------------------------------------------
(* party:start and party:join, up to their await and after it.              *)

Await(r) ==
  /\ r \in pending \/ Cardinality(pending) < MaxPending
  /\ pending' = pending \cup {r}

RequestStart(s, g) ==
  /\ s \in live
  /\ <<Owner[s], g>> \in members
  /\ Await([kind |-> "start", user |-> Owner[s], sock |-> s, guild |-> g, party |-> 0])
  /\ UNCHANGED <<clock, members, live, connections, parties, room, nextParty, nextItem>>

RequestJoin(s, g) ==
  /\ s \in live
  /\ parties[g] # NoParty
  /\ <<Owner[s], g>> \in members
  /\ Await([kind |-> "join", user |-> Owner[s], sock |-> s, guild |-> g,
            party |-> parties[g].id])
  /\ UNCHANGED <<clock, members, live, connections, parties, room, nextParty, nextItem>>

EnteringGone(r, pid) == room \cup {<<r.sock, pid>>}
\* socket.join, which means nothing to a socket that has gone.
Entering(r, pid) == IF r.sock = NoSocket THEN room ELSE room \cup {<<r.sock, pid>>}

Open(r) ==
  /\ r.kind = "start"
  /\ parties[r.guild] = NoParty
  /\ nextParty <= MaxParties
  /\ parties' = [parties EXCEPT ![r.guild] = NewParty(nextParty, r.user)]
  /\ room' = Entering(r, nextParty)
  /\ nextParty' = nextParty + 1

\* start() on a guild that has a party, or join() while the party still runs.
Enter(r) ==
  /\ parties[r.guild] # NoParty
  /\ r.kind = "join" => parties[r.guild].id = r.party
  /\ parties' = [parties EXCEPT ![r.guild] = Joined(@, r.user)]
  /\ room' = Entering(r, parties[r.guild].id)
  /\ UNCHANGED nextParty

\* join() finds the party gone and answers { ok: false }.
TooLate(r) ==
  /\ r.kind = "join"
  /\ ~IsParty(r.guild, r.party)
  /\ UNCHANGED <<parties, room, nextParty>>

Resume(r) ==
  /\ r \in pending
  /\ pending' = pending \ {r}
  /\ \/ Open(r)
     \/ Enter(r)
     \/ TooLate(r)
  /\ UNCHANGED <<clock, members, live, connections, nextItem>>

-----------------------------------------------------------------------------
(* The handlers that await nothing.                                         *)

LeaveOneWindow(s, g) == {e \in room : e # <<s, parties[g].id>>}
\* Every socket of theirs leaves the room, not just the one that asked.
RoomAfterLeave(s, g) ==
  {e \in room : ~(Owner[e[1]] = Owner[s] /\ e[2] = parties[g].id)}

Leave(s, g) ==
  /\ s \in live
  /\ parties[g] # NoParty
  /\ parties' = IF Watches(parties[g], Owner[s])
                THEN [parties EXCEPT ![g] = Left(@, Owner[s])]
                ELSE parties
  /\ room' = RoomAfterLeave(s, g)
  /\ UNCHANGED <<clock, members, live, connections, pending, nextParty, nextItem>>

\* What a handler that answers with a new state leaves alone.
Change(g, p) ==
  /\ parties' = [parties EXCEPT ![g] = p]
  /\ UNCHANGED <<clock, members, live, connections, room, pending, nextParty>>

Enqueue(s, g) ==
  /\ s \in live
  /\ Watches(parties[g], Owner[s])
  /\ nextItem <= MaxItems
  /\ Change(g, Queued(parties[g], [id |-> nextItem, addedBy |-> Owner[s]]))
  /\ nextItem' = nextItem + 1

Unqueue(s, g, i) ==
  /\ s \in live
  /\ Watches(parties[g], Owner[s])
  /\ i \in 1..Len(parties[g].queue)
  /\ Owner[s] \in {parties[g].queue[i].addedBy, parties[g].host}
  /\ Change(g, Unqueued(parties[g], i))
  /\ UNCHANGED nextItem

HasTheRemote(s, g) ==
  /\ s \in live
  /\ parties[g] # NoParty
  /\ parties[g].host = Owner[s]

PlayPause(s, g, on) ==
  /\ HasTheRemote(s, g)
  /\ parties[g].queue # <<>>
  /\ Change(g, SetPlaying(parties[g], on))
  /\ UNCHANGED nextItem

Seek(s, g, pos) ==
  /\ HasTheRemote(s, g)
  /\ parties[g].queue # <<>>
  /\ Change(g, Sought(parties[g], pos))
  /\ UNCHANGED nextItem

Skip(s, g) ==
  /\ HasTheRemote(s, g)
  /\ parties[g].queue # <<>>
  /\ Change(g, Skipped(parties[g]))
  /\ UNCHANGED nextItem

\* The host's player reports the end of the video it names.
VideoEnded(s, g, id) ==
  /\ HasTheRemote(s, g)
  /\ parties[g].queue # <<>>
  /\ Head(parties[g].queue).id = id
  /\ Change(g, Skipped(parties[g]))
  /\ UNCHANGED nextItem

Next ==
  \/ Tick
  \/ Restart
  \/ \E s \in Sockets : Connect(s) \/ Disconnect(s)
  \/ \E u \in Users, g \in Guilds : Kick(u, g)
  \/ \E s \in Sockets, g \in Guilds :
       \/ RequestStart(s, g)
       \/ RequestJoin(s, g)
       \/ Leave(s, g)
       \/ Enqueue(s, g)
       \/ \E i \in 1..MaxQueue : Unqueue(s, g, i)
       \/ \E on \in BOOLEAN : PlayPause(s, g, on)
       \/ \E pos \in Positions : Seek(s, g, pos)
       \/ Skip(s, g)
       \/ \E id \in 1..MaxItems : VideoEnded(s, g, id)
  \/ \E r \in pending : Resume(r)

Spec == Init /\ [][Next]_vars

-----------------------------------------------------------------------------
(* What must hold of every party that is open.                              *)

\* Watchers are in arrival order: the remote is with whoever came first of
\* those still here, however often it has been handed on.
RemoteSound(p) ==
  /\ IsInjective(p.watchers)
  /\ p.watchers # <<>>
  /\ p.host = Head(p.watchers)

\* Items of a queue carry ids below n, each its own.
OwnIds(q, n) ==
  /\ \A i \in 1..Len(q) : q[i].id < n
  /\ \A i, j \in 1..Len(q) : q[i].id = q[j].id => i = j

PlaybackSoundAt(p, t, n) ==
  /\ p.playing => p.queue # <<>>
  /\ Len(p.queue) <= MaxQueue
  /\ OwnIds(p.queue, n)
  /\ p.position >= 0
  /\ p.positionAt <= t

\* The controls are always with the longest-present watcher, nobody is listed
\* twice and nobody absent holds the remote, through any sequence of joins,
\* leaves, second windows, disconnects and kicks (leave, dropUser, join).
RemoteWithFirstArrival == \A g \in Guilds : parties[g] # NoParty => RemoteSound(parties[g])

\* Whatever the order of queue, unqueue, skip and end reports: a party that is
\* playing has a video to play, the queue keeps its cap, no video is in it
\* twice, and the clock the clients extrapolate from is never in the future
\* (queue, unqueue, control, ended, rewind).
PlaybackSound ==
  \A g \in Guilds :
    parties[g] # NoParty => PlaybackSoundAt(parties[g], clock, nextItem)

\* Party chat is delivered to sockets in the party's room: each of them is
\* connected and belongs to somebody still watching that party (partyLeave
\* empties the room of every window of the leaver).
ChatOnlyReachesWatchers ==
  \A e \in room :
    /\ e[1] \in live
    /\ \E g \in Guilds : IsParty(g, e[2]) /\ Watches(parties[g], Owner[e[1]])

\* Losing a window is leaving exactly when it was the last one: closing the
\* party window with the main one open leaves every party alone, and closing
\* the app leaves all of them (handleDisconnect, dropFromParties).
LastWindowIsLeaving ==
  [][\A u \in Users, g \in Guilds :
       connections'[u] < connections[u] /\ Watches(parties[g], u)
         => (Watches(parties'[g], u) <=> connections'[u] > 0)]_vars

SameVideo(p, q) ==
  /\ p # NoParty /\ q # NoParty
  /\ p.id = q.id
  /\ p.queue # <<>> /\ q.queue # <<>>
  /\ Head(p.queue).id = Head(q.queue).id

\* While one video stays on screen, the position every client works out moves
\* with the clock and only while playing. Nothing but a seek makes it jump:
\* not a pause, a resume after a long pause, a change of host or a queue edit.
OnlySeekJumps ==
  [][\A g \in Guilds :
       SameVideo(parties[g], parties'[g]) =>
         \/ PositionNow(parties'[g], clock') = PositionNow(parties[g], clock')
         \/ \E s \in Sockets, pos \in Positions : Seek(s, g, pos)]_vars

\* "It ends when the last person leaves, because a party of nobody is a queue
\* nothing is playing to", and "closing the app is leaving": nobody who has no
\* connection is in a party.
NobodyWatchesOffline ==
  \A u \in Users, g \in Guilds : Watches(parties[g], u) => connections[u] > 0

\* What the members of a server can tell of their party, whoever serves it.
Present == [g \in Guilds |-> IF parties[g] = NoParty THEN {} ELSE Range(parties[g].watchers)]
Holder == [g \in Guilds |-> IF parties[g] = NoParty THEN NoParty ELSE parties[g].host]

Evening == INSTANCE PartyEvening WITH present <- Present, host <- Holder, Nobody <- NoParty

\* The service keeps the promise of an evening: at most one party per server,
\* with its remote always in the hands of somebody present.
IsAnEvening == Evening!Spec
=============================================================================
