------------------------------- MODULE Presence -------------------------------
(***************************************************************************)
(* Presence in ChatGateway: who is connected, who is away, what everybody   *)
(* has been told about it and what the database keeps of it.                *)
(*                                                                          *)
(* Handlers are steps.  Three things happen outside them: the away timer    *)
(* fires, at or after its deadline; the database write that records a last  *)
(* seen is not awaited, so that writes in flight land in any order; and a   *)
(* voice report waits for the database between being accepted and counting. *)
(* A write that fails costs "a stale duration under somebody's name" and is *)
(* accepted by the code; here every write lands, unless the process dies.   *)
(*                                                                          *)
(* A definition named for a slip (AnyWindow, LeftTicking, ...) is a         *)
(* plausible bug of the one that follows it: the properties notice it.      *)
(***************************************************************************)
EXTENDS Integers, FiniteSets

CONSTANTS
  Users,        \* accounts
  Windows,      \* sockets, each of one account
  Owner,        \* whose window it is
  NoSession,    \* the sessions map has no entry
  Unheard,      \* nothing has been broadcast about this account
  AwayAfter,    \* AWAY_AFTER_MS
  ReportEvery,  \* the half-minute inside which reports are dropped
  MaxClock,     \* bound on the clock
  MaxWrites     \* bound on database writes in flight

Times == 0..MaxClock

Session == [onlineSince : Times, lastActiveAt : Times, away : BOOLEAN,
            awayTimer : 0..MaxClock+AwayAfter, lastVoiceReport : Times,
            lastInputReport : Times]
Broadcast == [online : BOOLEAN, away : BOOLEAN, lastSeenAt : Times]
\* A write leaves lastActiveAt, or lastSeenAt, as it is when it carries none.
Write == [user : Users, lastSeenAt : SUBSET Times, lastActiveAt : SUBSET Times]

ASSUME PresenceAssumption ==
  /\ Owner \in [Windows -> Users]
  /\ NoSession \notin Session
  /\ Unheard \notin Broadcast
  /\ AwayAfter \in Nat \ {0} /\ ReportEvery \in Nat \ {0}
  /\ MaxClock \in Nat /\ MaxWrites \in Nat /\ ReportEvery <= MaxClock

VARIABLES
  clock,        \* Date.now()
  live,         \* connected windows
  connections,  \* ChatGateway.connections
  sessions,     \* ChatGateway.sessions
  timers,       \* running away timers, as pairs <<user, deadline>>
  inVoice,      \* who voiceRooms says is in a call
  checking,     \* accepted voice reports waiting for the database
  writes,       \* updateMany statements in flight
  rows,         \* lastSeenAt and lastActiveAt of the guildMember rows
  heard         \* the last presence:changed about each account

vars == <<clock, live, connections, sessions, timers, inVoice, checking, writes, rows, heard>>

\* The member row a write lands in never holds anything but two dates.
TypeOK ==
  /\ clock \in Times
  /\ live \subseteq Windows
  /\ connections \in [Users -> Nat]
  /\ sessions \in [Users -> Session \cup {NoSession}]
  /\ timers \subseteq Users \X (0..MaxClock+AwayAfter)
  /\ inVoice \subseteq Users /\ checking \subseteq Users
  /\ writes \subseteq Write
  /\ rows \in [Users -> [lastSeenAt : Times, lastActiveAt : Times]]
  /\ heard \in [Users -> Broadcast \cup {Unheard}]

Online(u) == sessions[u] # NoSession

Init ==
  /\ clock = ReportEvery          \* no report is within ReportEvery of 0
  /\ live = {}
  /\ connections = [u \in Users |-> 0]
  /\ sessions = [u \in Users |-> NoSession]
  /\ timers = {} /\ inVoice = {} /\ checking = {} /\ writes = {}
  /\ rows = [u \in Users |-> [lastSeenAt |-> 0, lastActiveAt |-> 0]]
  /\ heard = [u \in Users |-> Unheard]

-----------------------------------------------------------------------------
(* The away timer, and the two ways of being there.                         *)

\* awayTimer, on top of what is running.
Armed(u) == timers \cup {<<u, clock + AwayAfter>>}
Disarmed(u) == timers \ {<<u, sessions[u].awayTimer>>}
RestartedLoosely(u) == Armed(u)
\* clearTimeout, then awayTimer.
Restarted(u) == Disarmed(u) \cup {<<u, clock + AwayAfter>>}

Told(u, online, away, seen) ==
  heard' = [heard EXCEPT ![u] = [online |-> online, away |-> away, lastSeenAt |-> seen]]

\* goAway, for somebody who is online and not away.
GoAway(u) ==
  /\ sessions' = [sessions EXCEPT ![u].away = TRUE]
  /\ Told(u, TRUE, TRUE, sessions[u].onlineSince)

SilentReturn(u) == FALSE
\* markPresent says something only when it brings somebody back.
Returns(u) == sessions[u].away

\* markPresent, on the session as the caller has left it.
MarkPresent(u, session) ==
  /\ timers' = Restarted(u)
  /\ sessions' = [sessions EXCEPT
       ![u] = [session EXCEPT !.awayTimer = clock + AwayAfter, !.away = FALSE]]
  /\ IF Returns(u) THEN Told(u, TRUE, FALSE, session.onlineSince) ELSE UNCHANGED heard

\* touchLastSeen and the direct write of markActive: sent, not awaited.
Send(w) ==
  /\ w \in writes \/ Cardinality(writes) < MaxWrites
  /\ writes' = writes \cup {w}

\* markActive.
MarkActive(u) ==
  IF Online(u)
  THEN /\ MarkPresent(u, [sessions[u] EXCEPT !.lastActiveAt = clock])
       /\ UNCHANGED writes
  ELSE /\ Send([user |-> u, lastSeenAt |-> {}, lastActiveAt |-> {clock}])
       /\ UNCHANGED <<sessions, timers, heard>>

-----------------------------------------------------------------------------
(* Windows.                                                                 *)

FirstWindow(u) ==
  /\ sessions' = [sessions EXCEPT ![u] =
       [onlineSince |-> clock, lastActiveAt |-> clock, away |-> FALSE,
        awayTimer |-> clock + AwayAfter, lastVoiceReport |-> 0, lastInputReport |-> 0]]
  /\ timers' = Armed(u)
  /\ Told(u, TRUE, FALSE, clock)
  /\ Send([user |-> u, lastSeenAt |-> {clock}, lastActiveAt |-> {}])

\* handleConnection.
Connect(w) ==
  LET u == Owner[w]
  IN  /\ w \notin live
      /\ live' = live \cup {w}
      /\ connections' = [connections EXCEPT ![u] = @ + 1]
      /\ IF connections[u] + 1 = 1
         THEN FirstWindow(u)
         ELSE UNCHANGED <<sessions, timers, heard, writes>>
      /\ UNCHANGED <<clock, inVoice, checking, rows>>

AnyWindow(n) == n >= 0
\* handleDisconnect tells the last window from the others by what is left.
LastWindow(n) == n <= 0

LeftTicking(u) == timers
\* handleDisconnect clears the away timer with the session.
AfterLastWindow(u) == Disarmed(u)

GoOffline(u) ==
  /\ sessions' = [sessions EXCEPT ![u] = NoSession]
  /\ timers' = AfterLastWindow(u)
  /\ Told(u, FALSE, FALSE, clock)
  /\ Send([user |-> u, lastSeenAt |-> {clock}, lastActiveAt |-> {sessions[u].lastActiveAt}])

\* handleDisconnect.
Disconnect(w) ==
  LET u == Owner[w]
      next == connections[u] - 1
  IN  /\ w \in live
      /\ live' = live \ {w}
      /\ connections' = [connections EXCEPT ![u] = IF LastWindow(next) THEN 0 ELSE next]
      /\ IF LastWindow(next)
         THEN GoOffline(u)
         ELSE UNCHANGED <<sessions, timers, heard, writes>>
      /\ UNCHANGED <<clock, inVoice, checking, rows>>

\* The process dies with everything it kept in memory; statements the database
\* has not had are lost with it.
Restart ==
  /\ live' = {}
  /\ connections' = [u \in Users |-> 0]
  /\ sessions' = [u \in Users |-> NoSession]
  /\ timers' = {} /\ inVoice' = {} /\ checking' = {} /\ writes' = {}
  /\ heard' = [u \in Users |-> Unheard]
  /\ UNCHANGED <<clock, rows>>

-----------------------------------------------------------------------------
(* Activity.                                                                *)

\* A message, an edit or a reaction, over HTTP: with or without a window.
Act(u) ==
  /\ MarkActive(u)
  /\ UNCHANGED <<clock, live, connections, inVoice, checking, rows>>

\* inputActivity drops a report inside the half-minute, except while away.
Throttled(u) == ~sessions[u].away /\ clock - sessions[u].lastInputReport < ReportEvery

\* inputActivity: keyboard or mouse, from any window.
ReportInput(u) ==
  /\ Online(u)
  /\ ~Throttled(u)
  /\ MarkPresent(u, [sessions[u] EXCEPT !.lastInputReport = clock])
  /\ UNCHANGED <<clock, live, connections, inVoice, checking, writes, rows>>

\* stepAway: the computer has locked or gone to sleep.
StepAway(u) ==
  /\ Online(u)
  /\ ~sessions[u].away
  /\ GoAway(u)
  /\ UNCHANGED <<clock, live, connections, timers, inVoice, checking, writes, rows>>

\* voiceActivity, up to the question of the database.
ReportVoice(u) ==
  /\ Online(u)
  /\ clock - sessions[u].lastVoiceReport >= ReportEvery
  /\ sessions' = [sessions EXCEPT ![u].lastVoiceReport = clock]
  /\ checking' = IF u \in inVoice THEN checking \cup {u} ELSE checking
  /\ UNCHANGED <<clock, live, connections, timers, inVoice, writes, rows, heard>>

\* ... and after it: the channel is listen-only, the microphone is taken or
\* they are no member, or the report counts, whoever has left meanwhile.
VoiceChecked(u, heardByOthers) ==
  /\ u \in checking
  /\ checking' = checking \ {u}
  /\ IF heardByOthers THEN MarkActive(u) ELSE UNCHANGED <<sessions, timers, heard, writes>>
  /\ UNCHANGED <<clock, live, connections, inVoice, rows>>

\* broadcastVoiceParticipants with somebody new on the list.
EnterVoice(u) ==
  /\ u \notin inVoice
  /\ inVoice' = inVoice \cup {u}
  /\ IF Online(u) THEN MarkActive(u) ELSE UNCHANGED <<sessions, timers, heard, writes>>
  /\ UNCHANGED <<clock, live, connections, checking, rows>>

LeaveVoice(u) ==
  /\ u \in inVoice
  /\ inVoice' = inVoice \ {u}
  /\ UNCHANGED <<clock, live, connections, sessions, timers, checking, writes, rows, heard>>

-----------------------------------------------------------------------------
(* Time and the database.                                                   *)

\* An away timer fires: at its deadline or, on a busy process, later.
TimerFires(t) ==
  /\ t \in timers
  /\ clock >= t[2]
  /\ timers' = timers \ {t}
  /\ IF Online(t[1]) /\ ~sessions[t[1]].away
     THEN GoAway(t[1])
     ELSE UNCHANGED <<sessions, heard>>
  /\ UNCHANGED <<clock, live, connections, inVoice, checking, writes, rows>>

Tick ==
  /\ clock < MaxClock
  /\ clock' = clock + 1
  /\ UNCHANGED <<live, connections, sessions, timers, inVoice, checking, writes, rows, heard>>

StoredAnyway(old, new) == IF new = {} THEN NoSession ELSE CHOOSE t \in new : TRUE
\* A statement with no last-active date leaves the column alone.
Stored(old, new) == IF new = {} THEN old ELSE CHOOSE t \in new : TRUE
Landed(row, w) ==
  [lastSeenAt |-> Stored(row.lastSeenAt, w.lastSeenAt),
   lastActiveAt |-> Stored(row.lastActiveAt, w.lastActiveAt)]

\* A statement in flight reaches the rows, in no particular order.
Land(w) ==
  /\ w \in writes
  /\ writes' = writes \ {w}
  /\ rows' = [rows EXCEPT ![w.user] = Landed(@, w)]
  /\ UNCHANGED <<clock, live, connections, sessions, timers, inVoice, checking, heard>>

Next ==
  \/ Tick \/ Restart
  \/ \E w \in Windows : Connect(w) \/ Disconnect(w)
  \/ \E u \in Users :
       \/ Act(u) \/ ReportInput(u) \/ StepAway(u)
       \/ ReportVoice(u) \/ EnterVoice(u) \/ LeaveVoice(u)
       \/ \E counts \in BOOLEAN : VoiceChecked(u, counts)
  \/ \E t \in timers : TimerFires(t)
  \/ \E w \in writes : Land(w)

Spec == Init /\ [][Next]_vars

-----------------------------------------------------------------------------

\* However windows open, close and are cut off in between: somebody has a
\* session exactly while a window of theirs is connected, and the count is of
\* those windows, so that closing one of two leaves them online
\* (handleConnection, handleDisconnect).
SessionWhileConnected ==
  \A u \in Users :
    /\ connections[u] = Cardinality({w \in live : Owner[w] = u})
    /\ Online(u) <=> connections[u] > 0

\* Somebody who is not away has one timer running that will mark them so, the
\* one their session names, and it is the only one: none is left over from an
\* earlier session or an earlier activity to mark them away too soon
\* (awayTimer, goAway, markPresent, handleDisconnect).
OneTimerEach ==
  \A u \in Users :
    LET running == {t \in timers : t[1] = u}
    IN  IF Online(u)
        THEN /\ running \subseteq {<<u, sessions[u].awayTimer>>}
             /\ ~sessions[u].away => running # {}
        ELSE running = {}

\* The last presence:changed everybody had about somebody still says what the
\* server believes: nobody comes back, goes away or leaves unannounced.
HeardIsTrue ==
  \A u \in Users :
    IF Online(u)
    THEN /\ heard[u] # Unheard
         /\ heard[u].online
         /\ heard[u].away = sessions[u].away
    ELSE heard[u] # Unheard => ~heard[u].online

\* All that is believed and said of somebody, at any moment.
PresenceIsTrue == TypeOK /\ SessionWhileConnected /\ OneTimerEach /\ HeardIsTrue

\* Nobody turns away within AwayAfter of the last thing they did, in this
\* session or in the one before, unless their computer says it has locked.
AwayOnlyAfterSilence ==
  [][\A u \in Users :
       (Online(u) /\ sessions'[u] # NoSession /\ ~sessions[u].away /\ sessions'[u].away) =>
         \/ StepAway(u)
         \/ clock >= sessions[u].onlineSince + AwayAfter
            /\ clock >= sessions[u].lastActiveAt + AwayAfter
            /\ clock >= sessions[u].lastInputReport + AwayAfter]_vars

\* "The mark that matters: this is the instant the member list will be counting
\* from for as long as they stay away": once the database has caught up, the
\* row of somebody who is offline holds the last-seen date that was broadcast.
RowHoldsTheMark ==
  \A u \in Users :
    (~Online(u) /\ heard[u] # Unheard /\ \A w \in writes : w.user # u)
      => rows[u].lastSeenAt = heard[u].lastSeenAt
=============================================================================
