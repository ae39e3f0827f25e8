--------------------------- MODULE PresenceProofs ---------------------------
(***************************************************************************)
(* Proofs about Presence, for any accounts, windows, delays and bounds:     *)
(* what the server believes of somebody and what it has told everybody are  *)
(* what their windows and their timer say, and nobody turns away early.     *)
(***************************************************************************)
EXTENDS Presence, TLAPS, FiniteSetTheorems

(* The invariant the proofs use.                                            *)

\* The windows that connections counts.
WindowsOf(u) == {w \in live : Owner[w] = u}

\* The timer of somebody who is not away runs out no sooner than AwayAfter past
\* everything they did, none of which lies in the future.
TimersAreLate ==
  \A u \in Users :
    Online(u) =>
      /\ sessions[u].onlineSince <= clock
      /\ sessions[u].lastActiveAt <= clock
      /\ sessions[u].lastInputReport <= clock
      /\ ~sessions[u].away =>
           /\ sessions[u].onlineSince + AwayAfter <= sessions[u].awayTimer
           /\ sessions[u].lastActiveAt + AwayAfter <= sessions[u].awayTimer
           /\ sessions[u].lastInputReport + AwayAfter <= sessions[u].awayTimer

PresenceInv ==
  /\ TypeOK /\ IsFiniteSet(live)
  /\ SessionWhileConnected /\ OneTimerEach /\ HeardIsTrue /\ TimersAreLate

-----------------------------------------------------------------------------
(* Somebody at a time.                                                      *)

LEMMA Delays ==
  /\ AwayAfter \in Nat /\ ReportEvery \in Nat /\ MaxClock \in Nat /\ MaxWrites \in Nat
  /\ Owner \in [Windows -> Users] /\ NoSession \notin Session /\ Unheard \notin Broadcast
  /\ ReportEvery \in Times
BY PresenceAssumption DEF Times

LEMMA Something ==
  /\ \A s \in Session : s # NoSession
  /\ \A b \in Broadcast : b # Unheard
BY Delays

Running(u) == {t \in timers : t[1] = u}

\* The three conditions, for one account.
Ticking(u) ==
  IF Online(u)
  THEN /\ Running(u) \subseteq {<<u, sessions[u].awayTimer>>}
       /\ ~sessions[u].away => Running(u) # {}
  ELSE Running(u) = {}
Told1(u) ==
  IF Online(u)
  THEN /\ heard[u] # Unheard
       /\ heard[u].online
       /\ heard[u].away = sessions[u].away
  ELSE heard[u] # Unheard => ~heard[u].online
Late(u) ==
  Online(u) =>
    /\ sessions[u].onlineSince <= clock
    /\ sessions[u].lastActiveAt <= clock
    /\ sessions[u].lastInputReport <= clock
    /\ ~sessions[u].away =>
         /\ sessions[u].onlineSince + AwayAfter <= sessions[u].awayTimer
         /\ sessions[u].lastActiveAt + AwayAfter <= sessions[u].awayTimer
         /\ sessions[u].lastInputReport + AwayAfter <= sessions[u].awayTimer
Believed(u) == Ticking(u) /\ Told1(u) /\ Late(u)

LEMMA BelievedEach ==
  /\ OneTimerEach /\ HeardIsTrue /\ TimersAreLate <=> \A u \in Users : Believed(u)
BY DEF OneTimerEach, HeardIsTrue, TimersAreLate, Believed, Ticking, Told1, Late, Running

LEMMA SessionOf ==
  ASSUME TypeOK, NEW u \in Users, Online(u)
  PROVE  /\ sessions[u] \in Session
         /\ sessions[u].onlineSince \in Times /\ sessions[u].lastActiveAt \in Times
         /\ sessions[u].lastInputReport \in Times /\ sessions[u].lastVoiceReport \in Times
         /\ sessions[u].away \in BOOLEAN /\ sessions[u].awayTimer \in 0..MaxClock + AwayAfter
BY DEF TypeOK, Online, Session

\* What a step does to nobody but u.
OnlyOf(u) ==
  /\ sessions' \in [Users -> Session \cup {NoSession}]
  /\ heard' \in [Users -> Broadcast \cup {Unheard}]
  /\ timers' \subseteq Users \X (0..MaxClock + AwayAfter)
  /\ \A v \in Users : v # u => /\ sessions'[v] = sessions[v] /\ heard'[v] = heard[v]
                               /\ Running(v)' = Running(v)

LEMMA OthersKept ==
  ASSUME TypeOK, \A v \in Users : Believed(v), NEW u \in Users, OnlyOf(u), clock' = clock, Believed(u)'
  PROVE  \A v \in Users : Believed(v)'
<1> SUFFICES ASSUME NEW v \in Users, v # u PROVE Believed(v)'
  OBVIOUS
<1> QED
  BY DEF OnlyOf, Believed, Ticking, Told1, Late, Online

LEMMA Deadline ==
  ASSUME TypeOK
  PROVE  /\ clock + AwayAfter \in 0..MaxClock + AwayAfter
         /\ clock \in Nat
         /\ \A t \in Nat : t <= clock => t + AwayAfter <= clock + AwayAfter
BY Delays DEF TypeOK, Times

\* markPresent: one timer, a full delay from now, and a word if they were away.
LEMMA MarkedPresent ==
  ASSUME TypeOK, NEW u \in Users, Online(u), Believed(u), clock' = clock,
         NEW s \in Session, s.onlineSince <= clock, s.lastActiveAt <= clock, s.lastInputReport <= clock,
         MarkPresent(u, s)
  PROVE  OnlyOf(u) /\ Believed(u)'
<1>1. clock + AwayAfter \in 0..MaxClock + AwayAfter
  BY Deadline
<1> DEFINE new == [s EXCEPT !.awayTimer = clock + AwayAfter, !.away = FALSE]
<1>2. /\ new \in Session /\ new.awayTimer = clock + AwayAfter /\ new.away = FALSE
      /\ new.onlineSince = s.onlineSince /\ new.lastActiveAt = s.lastActiveAt
      /\ new.lastInputReport = s.lastInputReport /\ new # NoSession
  <2>1. new \in Session
    BY <1>1 DEF Session
  <2>2. /\ new.awayTimer = clock + AwayAfter /\ new.away = FALSE
        /\ new.onlineSince = s.onlineSince /\ new.lastActiveAt = s.lastActiveAt
        /\ new.lastInputReport = s.lastInputReport
    BY DEF Session
  <2> HIDE DEF new
  <2> QED
    BY <2>1, <2>2, Something
<1>3. sessions' = [sessions EXCEPT ![u] = new]
  BY DEF MarkPresent
<1>4. /\ s.onlineSince \in Nat /\ s.lastActiveAt \in Nat /\ s.lastInputReport \in Nat
      /\ s.onlineSince \in Times
  BY Delays DEF Session, Times
<1> HIDE DEF new
<1>5. sessions' \in [Users -> Session \cup {NoSession}] /\ sessions'[u] = new
      /\ \A v \in Users : v # u => sessions'[v] = sessions[v]
  BY <1>2, <1>3 DEF TypeOK
<1>6. timers' = (timers \ {<<u, sessions[u].awayTimer>>}) \cup {<<u, clock + AwayAfter>>}
  BY DEF MarkPresent, Restarted, Disarmed
<1>7. timers' \subseteq Users \X (0..MaxClock + AwayAfter)
  BY <1>1, <1>6 DEF TypeOK
<1>8. Running(u)' = {<<u, clock + AwayAfter>>}
  <2>1. Running(u) \subseteq {<<u, sessions[u].awayTimer>>}
    BY DEF Believed, Ticking
  <2> QED
    BY <1>6, <2>1 DEF Running
<1>9. \A v \in Users : v # u => Running(v)' = Running(v)
  BY <1>6 DEF Running
<1>10. /\ heard' \in [Users -> Broadcast \cup {Unheard}]
       /\ \A v \in Users : v # u => heard'[v] = heard[v]
       /\ heard'[u] # Unheard /\ heard'[u].online /\ heard'[u].away = FALSE
  <2>1. CASE sessions[u].away
    <3> DEFINE said == [online |-> TRUE, away |-> FALSE, lastSeenAt |-> s.onlineSince]
    <3>1. said \in Broadcast /\ said.online = TRUE /\ said.away = FALSE
      BY <1>4 DEF Broadcast
    <3>2. heard' = [heard EXCEPT ![u] = said]
      BY <2>1 DEF MarkPresent, Returns, Told
    <3> HIDE DEF said
    <3> QED
      BY <3>1, <3>2, Something DEF TypeOK
  <2>2. CASE ~sessions[u].away
    <3>1. heard' = heard
      BY <2>2 DEF MarkPresent, Returns
    <3>2. heard[u] # Unheard /\ heard[u].online /\ heard[u].away = sessions[u].away
      BY DEF Believed, Told1
    <3>3. heard[u] \in Broadcast /\ sessions[u].away \in BOOLEAN
      BY <3>2, SessionOf DEF TypeOK
    <3> QED
      BY <2>2, <3>1, <3>2, <3>3 DEF TypeOK
  <2> QED
    BY <2>1, <2>2
<1>11. OnlyOf(u)
  BY <1>5, <1>7, <1>9, <1>10 DEF OnlyOf
<1>12. Ticking(u)' /\ Told1(u)'
  BY <1>2, <1>5, <1>8, <1>10 DEF Ticking, Told1, Online
<1>13. /\ s.onlineSince + AwayAfter <= clock + AwayAfter
       /\ s.lastActiveAt + AwayAfter <= clock + AwayAfter
       /\ s.lastInputReport + AwayAfter <= clock + AwayAfter
  BY <1>4, Deadline
<1>14. Late(u)'
  BY <1>2, <1>5, <1>13 DEF Late
<1> QED
  BY <1>11, <1>12, <1>14 DEF Believed

\* goAway: the session says so and so does everybody; the timer may have run out.
LEMMA GoneAway ==
  ASSUME TypeOK, NEW u \in Users, Online(u), Believed(u), clock' = clock, GoAway(u),
         NEW t, timers' = timers \ {t}, t \notin timers \/ t[1] = u
  PROVE  OnlyOf(u) /\ Believed(u)'
<1> DEFINE new == [sessions[u] EXCEPT !.away = TRUE]
<1>1. /\ new \in Session /\ new.awayTimer = sessions[u].awayTimer /\ new.away = TRUE
      /\ new.onlineSince = sessions[u].onlineSince /\ new.lastActiveAt = sessions[u].lastActiveAt
      /\ new.lastInputReport = sessions[u].lastInputReport /\ new # NoSession
  <2>1. sessions[u] \in Session
    BY SessionOf
  <2>2. new \in Session
    BY <2>1 DEF Session
  <2>3. /\ new.awayTimer = sessions[u].awayTimer /\ new.away = TRUE
        /\ new.onlineSince = sessions[u].onlineSince /\ new.lastActiveAt = sessions[u].lastActiveAt
        /\ new.lastInputReport = sessions[u].lastInputReport
    BY <2>1 DEF Session
  <2> HIDE DEF new
  <2> QED
    BY <2>2, <2>3, Something
<1>2. sessions' = [sessions EXCEPT ![u] = new]
  BY DEF GoAway
<1> HIDE DEF new
<1>3. sessions' \in [Users -> Session \cup {NoSession}] /\ sessions'[u] = new
      /\ \A v \in Users : v # u => sessions'[v] = sessions[v]
  BY <1>1, <1>2 DEF TypeOK
<1>4. /\ Running(u)' \subseteq Running(u) /\ \A v \in Users : v # u => Running(v)' = Running(v)
      /\ timers' \subseteq Users \X (0..MaxClock + AwayAfter)
  BY DEF Running, TypeOK
<1> DEFINE said == [online |-> TRUE, away |-> TRUE, lastSeenAt |-> sessions[u].onlineSince]
<1>5. said \in Broadcast /\ said.online = TRUE /\ said.away = TRUE
  BY SessionOf DEF Broadcast
<1>6. heard' = [heard EXCEPT ![u] = said]
  BY DEF GoAway, Told
<1> HIDE DEF said
<1>7. /\ heard' \in [Users -> Broadcast \cup {Unheard}] /\ heard'[u] = said
      /\ \A v \in Users : v # u => heard'[v] = heard[v]
  BY <1>5, <1>6 DEF TypeOK
<1>8. Ticking(u)'
  BY <1>1, <1>3, <1>4 DEF Believed, Ticking, Online
<1>9. Told1(u)'
  BY <1>1, <1>3, <1>5, <1>7, Something DEF Told1, Online
<1>10. Late(u)'
  BY <1>1, <1>3 DEF Believed, Late, Online
<1> QED
  BY <1>3, <1>4, <1>7, <1>8, <1>9, <1>10 DEF OnlyOf, Believed

\* The first window: a session, a timer of its own and the word.
LEMMA CameOnline ==
  ASSUME TypeOK, NEW u \in Users, ~Online(u), Believed(u), clock' = clock, FirstWindow(u)
  PROVE  OnlyOf(u) /\ Believed(u)' /\ Online(u)'
<1>1. /\ clock + AwayAfter \in 0..MaxClock + AwayAfter /\ clock \in Times /\ clock \in Nat /\ 0 \in Times
      /\ 0 <= clock /\ 0 + AwayAfter <= clock + AwayAfter
  BY Deadline, Delays DEF TypeOK, Times
<1> DEFINE new == [onlineSince |-> clock, lastActiveAt |-> clock, away |-> FALSE,
                   awayTimer |-> clock + AwayAfter, lastVoiceReport |-> 0, lastInputReport |-> 0]
           said == [online |-> TRUE, away |-> FALSE, lastSeenAt |-> clock]
<1>2. /\ new \in Session /\ new.away = FALSE /\ new.awayTimer = clock + AwayAfter
      /\ new.onlineSince = clock /\ new.lastActiveAt = clock /\ new.lastInputReport = 0
  BY <1>1 DEF Session
<1>3. said \in Broadcast /\ said.online = TRUE /\ said.away = FALSE
  BY <1>1 DEF Broadcast
<1>4. /\ sessions' = [sessions EXCEPT ![u] = new] /\ heard' = [heard EXCEPT ![u] = said]
      /\ timers' = timers \cup {<<u, clock + AwayAfter>>}
  BY DEF FirstWindow, Told, Armed
<1> HIDE DEF new, said
<1>5. OnlyOf(u)
  BY <1>1, <1>2, <1>3, <1>4 DEF TypeOK, OnlyOf, Running
<1>6. sessions'[u] = new /\ heard'[u] = said
  BY <1>4 DEF TypeOK
<1>7. Running(u)' = {<<u, clock + AwayAfter>>}
  BY <1>4 DEF Believed, Ticking, Running
<1>8. Ticking(u)' /\ Told1(u)' /\ Online(u)'
  BY <1>2, <1>3, <1>6, <1>7, Something DEF Ticking, Told1, Online
<1>9. Late(u)'
  <2>1. clock <= clock /\ clock + AwayAfter <= clock + AwayAfter
    BY <1>1, Deadline
  <2> QED
    BY <1>1, <1>2, <1>6, <2>1 DEF Late
<1> QED
  BY <1>5, <1>8, <1>9 DEF Believed

\* The last window: no session, no timer, and the word.
LEMMA WentOffline ==
  ASSUME TypeOK, NEW u \in Users, Online(u), Believed(u), clock' = clock, GoOffline(u)
  PROVE  OnlyOf(u) /\ Believed(u)' /\ ~Online(u)'
<1> DEFINE said == [online |-> FALSE, away |-> FALSE, lastSeenAt |-> clock]
<1>1. said \in Broadcast /\ said.online = FALSE
  BY DEF Broadcast, TypeOK
<1>2. /\ sessions' = [sessions EXCEPT ![u] = NoSession] /\ heard' = [heard EXCEPT ![u] = said]
      /\ timers' = timers \ {<<u, sessions[u].awayTimer>>}
  BY DEF GoOffline, Told, AfterLastWindow, Disarmed
<1> HIDE DEF said
<1>3. OnlyOf(u)
  BY <1>1, <1>2 DEF TypeOK, OnlyOf, Running
<1>4. sessions'[u] = NoSession /\ heard'[u] = said
  BY <1>2 DEF TypeOK
<1>5. Running(u)' = {}
  BY <1>2 DEF Believed, Ticking, Running
<1> QED
  BY <1>1, <1>3, <1>4, <1>5 DEF Believed, Ticking, Told1, Late, Online

\* voiceActivity only notes when the report came.
LEMMA VoiceNoted ==
  ASSUME TypeOK, NEW u \in Users, Online(u), Believed(u), clock' = clock, UNCHANGED <<timers, heard>>,
         sessions' = [sessions EXCEPT ![u].lastVoiceReport = clock]
  PROVE  OnlyOf(u) /\ Believed(u)' /\ Online(u)' /\ sessions'[u].away = sessions[u].away
<1> DEFINE new == [sessions[u] EXCEPT !.lastVoiceReport = clock]
<1>1. sessions[u] \in Session /\ clock \in Times
  BY SessionOf DEF TypeOK
<1>2. new \in Session
  BY <1>1 DEF Session
<1>3. /\ new.awayTimer = sessions[u].awayTimer /\ new.away = sessions[u].away
      /\ new.onlineSince = sessions[u].onlineSince /\ new.lastActiveAt = sessions[u].lastActiveAt
      /\ new.lastInputReport = sessions[u].lastInputReport
  BY <1>1 DEF Session
<1>4. sessions' = [sessions EXCEPT ![u] = new]
  OBVIOUS
<1> HIDE DEF new
<1>5. sessions' \in [Users -> Session \cup {NoSession}] /\ sessions'[u] = new /\ new # NoSession
      /\ \A v \in Users : v # u => sessions'[v] = sessions[v]
  BY <1>2, <1>4, Something DEF TypeOK
<1>6. OnlyOf(u)
  BY <1>5 DEF TypeOK, OnlyOf, Running
<1>7. Running(u)' = Running(u)
  BY DEF Running
<1> QED
  BY <1>3, <1>5, <1>6, <1>7 DEF Believed, Ticking, Told1, Late, Online

LEMMA Unmoved ==
  ASSUME TypeOK, NEW u \in Users, Believed(u), UNCHANGED <<clock, sessions, timers, heard>>
  PROVE  OnlyOf(u) /\ Believed(u)' /\ (Online(u)' <=> Online(u))
BY DEF TypeOK, OnlyOf, Running, Believed, Ticking, Told1, Late, Online

\* Nobody is marked away by anything they do.
NobodyElseAway(u) == (sessions'[u] # NoSession /\ sessions'[u].away) => sessions[u].away

\* markActive, with a session or without one.
LEMMA MarkedActive ==
  ASSUME TypeOK, NEW u \in Users, Believed(u), clock' = clock, MarkActive(u)
  PROVE  /\ OnlyOf(u) /\ Believed(u)' /\ (Online(u)' <=> Online(u))
         /\ NobodyElseAway(u) /\ writes' \subseteq Write
<1>1. CASE Online(u)
  <2> DEFINE s == [sessions[u] EXCEPT !.lastActiveAt = clock]
  <2>1. sessions[u] \in Session /\ clock \in Times /\ clock <= clock
    <3>1. sessions[u] \in Session /\ clock \in Times
      BY <1>1, SessionOf DEF TypeOK
    <3>2. clock \in Nat
      BY Deadline
    <3> QED
      BY <3>1, <3>2
  <2>2. s \in Session
    BY <2>1 DEF Session
  <2>3. /\ s.onlineSince = sessions[u].onlineSince /\ s.lastActiveAt = clock
        /\ s.lastInputReport = sessions[u].lastInputReport
    BY <2>1 DEF Session
  <2>4. MarkPresent(u, s) /\ writes' = writes
    BY <1>1 DEF MarkActive
  <2>5. sessions[u].onlineSince <= clock /\ sessions[u].lastInputReport <= clock
    BY <1>1 DEF Believed, Late
  <2> HIDE DEF s
  <2>6. OnlyOf(u) /\ Believed(u)'
    BY <1>1, <2>1, <2>2, <2>3, <2>4, <2>5, MarkedPresent
  <2> DEFINE new == [s EXCEPT !.awayTimer = clock + AwayAfter, !.away = FALSE]
  <2>7. new \in Session /\ new.away = FALSE
    BY <2>2, Deadline DEF Session
  <2>8. sessions' = [sessions EXCEPT ![u] = new]
    BY <2>4 DEF MarkPresent
  <2> HIDE DEF new
  <2>9. sessions'[u] = new
    BY <2>8 DEF TypeOK
  <2> QED
    BY <1>1, <2>4, <2>6, <2>7, <2>9, Something DEF Online, NobodyElseAway, TypeOK
<1>2. CASE ~Online(u)
  <2>1. UNCHANGED <<clock, sessions, timers, heard>>
    BY <1>2 DEF MarkActive
  <2>2. OnlyOf(u) /\ Believed(u)' /\ (Online(u)' <=> Online(u))
    BY <2>1, Unmoved
  <2>3. writes' = writes \cup {[user |-> u, lastSeenAt |-> {}, lastActiveAt |-> {clock}]}
    BY <1>2 DEF MarkActive, Send
  <2>4. [user |-> u, lastSeenAt |-> {}, lastActiveAt |-> {clock}] \in Write
    BY DEF TypeOK, Write
  <2> QED
    BY <2>1, <2>2, <2>3, <2>4 DEF NobodyElseAway, TypeOK
<1> QED
  BY <1>1, <1>2

-----------------------------------------------------------------------------
(* The count of windows.                                                    *)

Counted(u) ==
  /\ connections[u] = Cardinality(WindowsOf(u))
  /\ Online(u) <=> connections[u] > 0

LEMMA CountedEach == SessionWhileConnected <=> \A u \in Users : Counted(u)
BY DEF SessionWhileConnected, Counted, WindowsOf

LEMMA Parts ==
  PresenceInv <=> /\ TypeOK /\ IsFiniteSet(live)
                  /\ \A u \in Users : Counted(u)
                  /\ \A u \in Users : Believed(u)
BY CountedEach, BelievedEach DEF PresenceInv

LEMMA PartsAfter ==
  ASSUME TypeOK', IsFiniteSet(live'), \A u \in Users : Counted(u)', \A u \in Users : Believed(u)'
  PROVE  PresenceInv'
<1>1. SessionWhileConnected'
  BY DEF SessionWhileConnected, Counted, WindowsOf
<1>2. OneTimerEach' /\ HeardIsTrue' /\ TimersAreLate'
  BY DEF OneTimerEach, HeardIsTrue, TimersAreLate, Believed, Ticking, Told1, Late, Running
<1> QED
  BY <1>1, <1>2 DEF PresenceInv

\* A step of one account that opens and closes no window.
LEMMA StepOf ==
  ASSUME PresenceInv, NEW u \in Users, OnlyOf(u), Believed(u)', Online(u)' <=> Online(u),
         UNCHANGED <<clock, live, connections, rows>>,
         inVoice' \subseteq Users, checking' \subseteq Users, writes' \subseteq Write
  PROVE  PresenceInv'
<1>1. TypeOK /\ \A v \in Users : Believed(v) /\ Counted(v)
  BY Parts
<1>2. TypeOK'
  BY <1>1 DEF OnlyOf, TypeOK
<1>3. \A v \in Users : Believed(v)'
  BY <1>1, OthersKept
<1>4. \A v \in Users : Counted(v)'
  <2> TAKE v \in Users
  <2>1. Online(v)' <=> Online(v)
    BY DEF OnlyOf, Online
  <2> QED
    BY <1>1, <2>1 DEF Counted, WindowsOf
<1> QED
  <2>1. IsFiniteSet(live')
    BY DEF PresenceInv
  <2> QED
    BY <1>2, <1>3, <1>4, <2>1, PartsAfter

LEMMA Upward ==
  ASSUME NEW n \in Nat
  PROVE  /\ n + 1 \in Nat /\ n + 1 > 0 /\ (n + 1 = 1 <=> ~(n > 0))
         /\ n - 1 \in Int /\ (n > 0 => n - 1 \in Nat)
         /\ (n - 1 <= 0 <=> ~(n > 1)) /\ (n > 1 => n > 0 /\ n - 1 > 0)
         /\ ((n > 0 /\ ~(n > 1)) => n - 1 = 0)
OBVIOUS

\* handleConnection counts one window more, of that account only.
LEMMA OneWindowMore ==
  ASSUME TypeOK, IsFiniteSet(live), \A v \in Users : Counted(v), NEW w \in Windows, Connect(w)
  PROVE  /\ IsFiniteSet(live') /\ live' \subseteq Windows
         /\ Owner[w] \in Users
         /\ connections' \in [Users -> Nat]
         /\ connections'[Owner[w]] = connections[Owner[w]] + 1
         /\ connections'[Owner[w]] = Cardinality(WindowsOf(Owner[w]))'
         /\ \A v \in Users : v # Owner[w] =>
              /\ connections'[v] = connections[v] /\ WindowsOf(v)' = WindowsOf(v)
<1> DEFINE u == Owner[w]
<1>1. /\ u \in Users /\ w \notin live /\ live' = live \cup {w}
      /\ connections' = [connections EXCEPT ![u] = @ + 1]
  BY Delays DEF Connect
<1>2. IsFiniteSet(live')
  BY <1>1, FS_AddElement
<1>3. connections[u] \in Nat /\ connections[u] + 1 \in Nat
  BY <1>1 DEF TypeOK
<1>4. connections' \in [Users -> Nat] /\ connections'[u] = connections[u] + 1
      /\ \A v \in Users : v # u => connections'[v] = connections[v]
  BY <1>1, <1>3 DEF TypeOK
<1>5. WindowsOf(u)' = WindowsOf(u) \cup {w} /\ w \notin WindowsOf(u)
  BY <1>1 DEF WindowsOf
<1>6. IsFiniteSet(WindowsOf(u))
  BY FS_Subset DEF WindowsOf
<1>7. Cardinality(WindowsOf(u))' = Cardinality(WindowsOf(u)) + 1
  BY <1>5, <1>6, FS_AddElement
<1>8. \A v \in Users : v # u => WindowsOf(v)' = WindowsOf(v)
  BY <1>1 DEF WindowsOf
<1>9. connections[u] = Cardinality(WindowsOf(u))
  BY <1>1 DEF Counted
<1> QED
  BY <1>1, <1>2, <1>4, <1>7, <1>8, <1>9 DEF TypeOK

\* handleDisconnect counts one window less; the first branch never runs early.
LEMMA OneWindowLess ==
  ASSUME TypeOK, IsFiniteSet(live), \A v \in Users : Counted(v), NEW w \in Windows, Disconnect(w)
  PROVE  /\ IsFiniteSet(live') /\ live' \subseteq Windows
         /\ Owner[w] \in Users /\ connections[Owner[w]] > 0
         /\ connections' \in [Users -> Nat]
         /\ connections'[Owner[w]] = connections[Owner[w]] - 1
         /\ connections'[Owner[w]] = Cardinality(WindowsOf(Owner[w]))'
         /\ \A v \in Users : v # Owner[w] =>
              /\ connections'[v] = connections[v] /\ WindowsOf(v)' = WindowsOf(v)
<1> DEFINE u == Owner[w]
           next == connections[u] - 1
<1>1. /\ u \in Users /\ w \in live /\ live' = live \ {w}
      /\ connections' = [connections EXCEPT ![u] = IF next <= 0 THEN 0 ELSE next]
  BY Delays DEF Disconnect, LastWindow
<1>2. IsFiniteSet(live')
  BY <1>1, FS_RemoveElement
<1>3. WindowsOf(u)' = WindowsOf(u) \ {w} /\ w \in WindowsOf(u)
  BY <1>1 DEF WindowsOf
<1>4. IsFiniteSet(WindowsOf(u))
  BY FS_Subset DEF WindowsOf
<1>5. Cardinality(WindowsOf(u))' = Cardinality(WindowsOf(u)) - 1
  BY <1>3, <1>4, FS_RemoveElement
<1>6. connections[u] = Cardinality(WindowsOf(u)) /\ connections[u] \in Nat
  BY <1>1 DEF Counted, TypeOK
<1>7. connections[u] # 0
  BY <1>3, <1>4, <1>6, FS_EmptySet
<1>8. connections[u] > 0 /\ next \in Nat /\ (IF next <= 0 THEN 0 ELSE next) = next
  BY <1>6, <1>7
<1>9. connections' \in [Users -> Nat] /\ connections'[u] = next
      /\ \A v \in Users : v # u => connections'[v] = connections[v]
  BY <1>1, <1>8 DEF TypeOK
<1>10. \A v \in Users : v # u => WindowsOf(v)' = WindowsOf(v)
  BY <1>1 DEF WindowsOf
<1> QED
  BY <1>1, <1>2, <1>5, <1>6, <1>8, <1>9, <1>10 DEF TypeOK

\* What is left to show of a window opened or closed.
LEMMA WindowStep ==
  ASSUME PresenceInv, NEW u \in Users, OnlyOf(u), Believed(u)',
         UNCHANGED <<clock, inVoice, checking, rows>>, writes' \subseteq Write,
         IsFiniteSet(live'), live' \subseteq Windows, connections' \in [Users -> Nat],
         Counted(u)',
         \A v \in Users : v # u => /\ connections'[v] = connections[v]
                                   /\ WindowsOf(v)' = WindowsOf(v)
  PROVE  PresenceInv'
<1>1. TypeOK /\ \A v \in Users : Believed(v) /\ Counted(v)
  BY Parts
<1>2. TypeOK'
  BY <1>1 DEF OnlyOf, TypeOK
<1>3. \A v \in Users : Believed(v)'
  BY <1>1, OthersKept
<1>4. \A v \in Users : Counted(v)'
  <2> SUFFICES ASSUME NEW v \in Users, v # u PROVE Counted(v)'
    OBVIOUS
  <2>1. Online(v)' <=> Online(v)
    BY DEF OnlyOf, Online
  <2>2. Cardinality(WindowsOf(v))' = Cardinality(WindowsOf(v))
    OBVIOUS
  <2> QED
    BY <1>1, <2>1, <2>2 DEF Counted
<1> QED
  BY <1>2, <1>3, <1>4, PartsAfter

LEMMA PresenceConnect ==
  ASSUME PresenceInv, NEW w \in Windows, Connect(w)
  PROVE  PresenceInv'
<1> DEFINE u == Owner[w]
<1>1. TypeOK /\ IsFiniteSet(live) /\ \A v \in Users : Believed(v) /\ Counted(v)
  BY Parts
<1>2. /\ IsFiniteSet(live') /\ live' \subseteq Windows
      /\ u \in Users
      /\ connections' \in [Users -> Nat]
      /\ connections'[u] = connections[u] + 1
      /\ connections'[u] = Cardinality(WindowsOf(u))'
      /\ \A v \in Users : v # u =>
           /\ connections'[v] = connections[v] /\ WindowsOf(v)' = WindowsOf(v)
  BY <1>1, OneWindowMore
<1>3. UNCHANGED <<clock, inVoice, checking, rows>>
  BY DEF Connect
<1>4. connections[u] \in Nat /\ (Online(u) <=> connections[u] > 0) /\ Believed(u)
  BY <1>1, <1>2 DEF TypeOK, Counted
<1>5. OnlyOf(u) /\ Believed(u)' /\ Online(u)' /\ writes' \subseteq Write
  <2>1. CASE connections[u] + 1 = 1
    <3>1. FirstWindow(u)
      BY <2>1 DEF Connect
    <3>2. ~Online(u)
      BY <1>4, <2>1, Upward
    <3>3. OnlyOf(u) /\ Believed(u)' /\ Online(u)'
      BY <1>1, <1>2, <1>3, <1>4, <3>1, <3>2, CameOnline
    <3>4. writes' = writes \cup {[user |-> u, lastSeenAt |-> {clock}, lastActiveAt |-> {}]}
      BY <3>1 DEF FirstWindow, Send
    <3>5. [user |-> u, lastSeenAt |-> {clock}, lastActiveAt |-> {}] \in Write
      BY <1>1, <1>2 DEF TypeOK, Write
    <3> QED
      BY <1>1, <3>3, <3>4, <3>5 DEF TypeOK
  <2>2. CASE ~(connections[u] + 1 = 1)
    <3>1. UNCHANGED <<sessions, timers, heard, writes>>
      BY <2>2 DEF Connect
    <3>2. Online(u)
      BY <1>4, <2>2, Upward
    <3>3. OnlyOf(u) /\ Believed(u)' /\ (Online(u)' <=> Online(u))
      BY <1>1, <1>2, <1>3, <1>4, <3>1, Unmoved
    <3> QED
      BY <1>1, <3>1, <3>2, <3>3 DEF TypeOK
  <2> QED
    BY <2>1, <2>2
<1>6. Counted(u)'
  BY <1>2, <1>4, <1>5, Upward DEF Counted
<1> HIDE DEF u
<1> QED
  BY <1>2, <1>3, <1>5, <1>6, WindowStep

LEMMA PresenceDisconnect ==
  ASSUME PresenceInv, NEW w \in Windows, Disconnect(w)
  PROVE  PresenceInv'
<1> DEFINE u == Owner[w]
<1>1. TypeOK /\ IsFiniteSet(live) /\ \A v \in Users : Believed(v) /\ Counted(v)
  BY Parts
<1>2. /\ IsFiniteSet(live') /\ live' \subseteq Windows
      /\ u \in Users /\ connections[u] > 0
      /\ connections' \in [Users -> Nat]
      /\ connections'[u] = connections[u] - 1
      /\ connections'[u] = Cardinality(WindowsOf(u))'
      /\ \A v \in Users : v # u =>
           /\ connections'[v] = connections[v] /\ WindowsOf(v)' = WindowsOf(v)
  BY <1>1, OneWindowLess
<1>3. UNCHANGED <<clock, inVoice, checking, rows>>
  BY DEF Disconnect
<1>4. connections[u] \in Nat /\ Online(u) /\ Believed(u)
  BY <1>1, <1>2 DEF TypeOK, Counted
<1>5. OnlyOf(u) /\ Believed(u)' /\ writes' \subseteq Write /\ (Online(u)' <=> connections[u] > 1)
  <2>1. CASE LastWindow(connections[u] - 1)
    <3>1. GoOffline(u)
      BY <2>1 DEF Disconnect
    <3>2. OnlyOf(u) /\ Believed(u)' /\ ~Online(u)'
      BY <1>1, <1>2, <1>3, <1>4, <3>1, WentOffline
    <3>3. writes' = writes \cup {[user |-> u, lastSeenAt |-> {clock},
                                  lastActiveAt |-> {sessions[u].lastActiveAt}]}
      BY <3>1 DEF GoOffline, Send
    <3>4. sessions[u].lastActiveAt \in Times
      BY <1>1, <1>2, <1>4, SessionOf
    <3>5. [user |-> u, lastSeenAt |-> {clock}, lastActiveAt |-> {sessions[u].lastActiveAt}] \in Write
      BY <1>1, <1>2, <3>4 DEF TypeOK, Write
    <3>6. ~(connections[u] > 1)
      BY <1>4, <2>1, Upward DEF LastWindow
    <3> QED
      BY <1>1, <3>2, <3>3, <3>5, <3>6 DEF TypeOK
  <2>2. CASE ~LastWindow(connections[u] - 1)
    <3>1. UNCHANGED <<sessions, timers, heard, writes>>
      BY <2>2 DEF Disconnect
    <3>2. OnlyOf(u) /\ Believed(u)' /\ (Online(u)' <=> Online(u))
      BY <1>1, <1>2, <1>3, <1>4, <3>1, Unmoved
    <3>3. connections[u] > 1
      BY <1>4, <2>2, Upward DEF LastWindow
    <3> QED
      BY <1>1, <1>4, <3>1, <3>2, <3>3 DEF TypeOK
  <2> QED
    BY <2>1, <2>2
<1>6. connections[u] > 1 <=> connections[u] - 1 > 0
  BY <1>4
<1>7. Counted(u)'
  BY <1>2, <1>5, <1>6 DEF Counted
<1> HIDE DEF u
<1> QED
  BY <1>2, <1>3, <1>5, <1>7, WindowStep

-----------------------------------------------------------------------------
(* The steps.                                                               *)

\* Whoever is not away and turns away has been silent, or their computer locked.
Turned(u) ==
  (Online(u) /\ sessions'[u] # NoSession /\ ~sessions[u].away /\ sessions'[u].away) =>
    \/ StepAway(u)
    \/ clock >= sessions[u].onlineSince + AwayAfter
       /\ clock >= sessions[u].lastActiveAt + AwayAfter
       /\ clock >= sessions[u].lastInputReport + AwayAfter

LEMMA NobodyTurned ==
  ASSUME NEW u \in Users, \A v \in Users : v # u => sessions'[v] = sessions[v], NobodyElseAway(u)
  PROVE  \A v \in Users : Turned(v)
BY DEF Turned, NobodyElseAway

LEMMA PresenceActs ==
  ASSUME PresenceInv, NEW u \in Users, MarkActive(u),
         UNCHANGED <<clock, live, connections, rows>>,
         inVoice' \subseteq Users, checking' \subseteq Users
  PROVE  PresenceInv' /\ \A v \in Users : Turned(v)
<1>1. TypeOK /\ Believed(u)
  BY Parts
<1>2. /\ OnlyOf(u) /\ Believed(u)' /\ (Online(u)' <=> Online(u))
      /\ NobodyElseAway(u) /\ writes' \subseteq Write
  BY <1>1, MarkedActive
<1>3. \A v \in Users : v # u => sessions'[v] = sessions[v]
  BY <1>2 DEF OnlyOf
<1> QED
  BY <1>2, <1>3, StepOf, NobodyTurned

\* A step that touches no session, timer or word.
LEMMA PresenceIdles ==
  ASSUME PresenceInv, UNCHANGED <<clock, live, connections, sessions, timers, heard>>,
         inVoice' \subseteq Users, checking' \subseteq Users, writes' \subseteq Write,
         rows' \in [Users -> [lastSeenAt : Times, lastActiveAt : Times]]
  PROVE  PresenceInv' /\ \A v \in Users : Turned(v)
<1>1. TypeOK'
  BY DEF PresenceInv, TypeOK
<1>2. /\ IsFiniteSet(live') /\ SessionWhileConnected' /\ OneTimerEach' /\ HeardIsTrue'
      /\ TimersAreLate'
  BY DEF PresenceInv, SessionWhileConnected, OneTimerEach, HeardIsTrue, TimersAreLate, Online
<1>3. \A v \in Users : Turned(v)
  BY DEF Turned
<1> QED
  BY <1>1, <1>2, <1>3 DEF PresenceInv

LEMMA PresenceReportInput ==
  ASSUME PresenceInv, NEW u \in Users, ReportInput(u)
  PROVE  PresenceInv' /\ \A v \in Users : Turned(v)
<1>1. TypeOK /\ Believed(u) /\ Online(u)
  BY Parts DEF ReportInput
<1> DEFINE s == [sessions[u] EXCEPT !.lastInputReport = clock]
<1>2. sessions[u] \in Session /\ clock \in Times
  BY <1>1, SessionOf DEF TypeOK
<1>3. clock <= clock
  <2>1. clock \in Nat
    BY <1>1, Deadline
  <2> QED
    BY <2>1
<1>4. s \in Session
  BY <1>2 DEF Session
<1>5. /\ s.onlineSince = sessions[u].onlineSince /\ s.lastActiveAt = sessions[u].lastActiveAt
      /\ s.lastInputReport = clock
  BY <1>2 DEF Session
<1>6. MarkPresent(u, s) /\ UNCHANGED <<clock, live, connections, inVoice, checking, writes, rows>>
  BY DEF ReportInput
<1>7. sessions[u].onlineSince <= clock /\ sessions[u].lastActiveAt <= clock
  BY <1>1 DEF Believed, Late
<1> HIDE DEF s
<1>8. OnlyOf(u) /\ Believed(u)'
  BY <1>1, <1>3, <1>4, <1>5, <1>6, <1>7, MarkedPresent
<1> DEFINE new == [s EXCEPT !.awayTimer = clock + AwayAfter, !.away = FALSE]
<1>9. new \in Session /\ new.away = FALSE
  BY <1>1, <1>4, Deadline DEF Session
<1>10. sessions' = [sessions EXCEPT ![u] = new]
  BY <1>6 DEF MarkPresent
<1> HIDE DEF new
<1>11. sessions'[u] = new
  BY <1>1, <1>10 DEF TypeOK
<1>12. (Online(u)' <=> Online(u)) /\ NobodyElseAway(u)
  BY <1>1, <1>9, <1>11, Something DEF Online, NobodyElseAway
<1>13. inVoice' \subseteq Users /\ checking' \subseteq Users /\ writes' \subseteq Write
  BY <1>1, <1>6 DEF TypeOK
<1>14. \A v \in Users : v # u => sessions'[v] = sessions[v]
  BY <1>8 DEF OnlyOf
<1> QED
  BY <1>6, <1>8, <1>12, <1>13, <1>14, StepOf, NobodyTurned

\* goAway, whichever of its two callers calls it.
LEMMA PresenceGoesAway ==
  ASSUME PresenceInv, NEW u \in Users, Online(u), GoAway(u),
         NEW t, timers' = timers \ {t}, t \notin timers \/ t[1] = u,
         UNCHANGED <<clock, live, connections, inVoice, checking, writes, rows>>
  PROVE  PresenceInv' /\ \A v \in Users : v # u => Turned(v)
<1>1. TypeOK /\ Believed(u)
  BY Parts
<1>2. OnlyOf(u) /\ Believed(u)'
  BY <1>1, GoneAway
<1>3. \A v \in Users : v # u => sessions'[v] = sessions[v]
  BY <1>2 DEF OnlyOf
<1>4. sessions[u] \in Session
  BY <1>1, SessionOf
<1> DEFINE new == [sessions[u] EXCEPT !.away = TRUE]
<1>5. new \in Session
  BY <1>4 DEF Session
<1>6. sessions' = [sessions EXCEPT ![u] = new]
  BY DEF GoAway
<1> HIDE DEF new
<1>7. sessions'[u] = new
  BY <1>1, <1>6 DEF TypeOK
<1>8. Online(u)' <=> Online(u)
  BY <1>5, <1>7, Something DEF Online
<1>9. inVoice' \subseteq Users /\ checking' \subseteq Users /\ writes' \subseteq Write
  BY <1>1 DEF TypeOK
<1>10. PresenceInv'
  BY <1>2, <1>8, <1>9, StepOf
<1> QED
  BY <1>3, <1>10 DEF Turned

LEMMA PresenceStepAway ==
  ASSUME PresenceInv, NEW u \in Users, StepAway(u)
  PROVE  PresenceInv' /\ \A v \in Users : Turned(v)
<1>1. PICK t : t \notin timers
  <2>1. \E t : t \notin timers
    BY NoSetContainsEverything
  <2> QED
    BY <2>1
<1>2. /\ Online(u) /\ GoAway(u) /\ timers' = timers \ {t}
      /\ UNCHANGED <<clock, live, connections, inVoice, checking, writes, rows>>
  BY <1>1 DEF StepAway
<1>3. PresenceInv' /\ \A v \in Users : v # u => Turned(v)
  BY <1>1, <1>2, PresenceGoesAway
<1>4. Turned(u)
  BY DEF Turned
<1> QED
  BY <1>3, <1>4

\* The one timer somebody has is the one that fires, and it is late enough.
LEMMA PresenceTimerFires ==
  ASSUME PresenceInv, NEW t \in timers, TimerFires(t)
  PROVE  PresenceInv' /\ \A v \in Users : Turned(v)
<1> DEFINE u == t[1]
<1>1. TypeOK /\ \A v \in Users : Believed(v) /\ Counted(v)
  BY Parts
<1>2. u \in Users /\ t = <<t[1], t[2]>> /\ t[2] \in 0..MaxClock + AwayAfter /\ clock >= t[2]
  BY <1>1 DEF TypeOK, TimerFires
<1>3. /\ timers' = timers \ {t}
      /\ UNCHANGED <<clock, live, connections, inVoice, checking, writes, rows>>
  BY DEF TimerFires
<1>4. Online(u) /\ t[2] = sessions[u].awayTimer
  <2>1. t \in Running(u) /\ Ticking(u)
    BY <1>1, <1>2 DEF Running, Believed
  <2> QED
    BY <1>2, <2>1 DEF Ticking
<1>5. CASE ~sessions[u].away
  <2>1. GoAway(u)
    BY <1>4, <1>5 DEF TimerFires
  <2> HIDE DEF u
  <2>2. t[1] = u
    BY DEF u
  <2>3. PresenceInv' /\ \A v \in Users : v # u => Turned(v)
    BY <1>2, <1>3, <1>4, <2>1, <2>2, PresenceGoesAway
  <2>4. /\ sessions[u].onlineSince + AwayAfter <= sessions[u].awayTimer
        /\ sessions[u].lastActiveAt + AwayAfter <= sessions[u].awayTimer
        /\ sessions[u].lastInputReport + AwayAfter <= sessions[u].awayTimer
    BY <1>1, <1>2, <1>4, <1>5 DEF Believed, Late
  <2>5. /\ sessions[u].onlineSince \in Nat /\ sessions[u].lastActiveAt \in Nat
        /\ sessions[u].lastInputReport \in Nat /\ AwayAfter \in Nat /\ clock \in Nat
        /\ sessions[u].awayTimer \in Nat
    BY <1>1, <1>2, <1>4, SessionOf, Delays, Deadline DEF Times
  <2>6. sessions[u].awayTimer <= clock
    BY <1>2, <1>4, <2>5
  <2>7. Turned(u)
    <3>1. /\ clock >= sessions[u].onlineSince + AwayAfter
          /\ clock >= sessions[u].lastActiveAt + AwayAfter
          /\ clock >= sessions[u].lastInputReport + AwayAfter
      BY <2>4, <2>5, <2>6
    <3> QED
      BY <3>1 DEF Turned
  <2> QED
    BY <2>3, <2>7
<1>6. CASE sessions[u].away
  <2>1. UNCHANGED <<sessions, heard>>
    BY <1>6 DEF TimerFires
  <2>2. OnlyOf(u)
    BY <1>1, <1>2, <1>3, <2>1 DEF OnlyOf, TypeOK, Running
  <2>3. Running(u)' \subseteq Running(u)
    BY <1>3 DEF Running
  <2>4. Believed(u)' /\ (Online(u)' <=> Online(u))
    BY <1>1, <1>2, <1>3, <1>4, <1>6, <2>1, <2>3 DEF Believed, Ticking, Told1, Late, Online
  <2>5. inVoice' \subseteq Users /\ checking' \subseteq Users /\ writes' \subseteq Write
    BY <1>1, <1>3 DEF TypeOK
  <2>6. PresenceInv'
    BY <1>2, <1>3, <2>2, <2>4, <2>5, StepOf
  <2>7. \A v \in Users : Turned(v)
    BY <2>1 DEF Turned
  <2> QED
    BY <2>6, <2>7
<1>7. sessions[u].away \in BOOLEAN
  BY <1>1, <1>2, <1>4, SessionOf
<1> QED
  BY <1>5, <1>6, <1>7

LEMMA PresenceReportVoice ==
  ASSUME PresenceInv, NEW u \in Users, ReportVoice(u)
  PROVE  PresenceInv' /\ \A v \in Users : Turned(v)
<1>1. TypeOK /\ Believed(u) /\ Online(u)
  BY Parts DEF ReportVoice
<1>2. /\ sessions' = [sessions EXCEPT ![u].lastVoiceReport = clock]
      /\ UNCHANGED <<clock, live, connections, timers, inVoice, writes, rows, heard>>
      /\ checking' \subseteq Users
  BY <1>1 DEF ReportVoice, TypeOK
<1>3. OnlyOf(u) /\ Believed(u)' /\ Online(u)' /\ sessions'[u].away = sessions[u].away
  BY <1>1, <1>2, VoiceNoted
<1>4. inVoice' \subseteq Users /\ writes' \subseteq Write
  BY <1>1, <1>2 DEF TypeOK
<1>5. (\A v \in Users : v # u => sessions'[v] = sessions[v]) /\ NobodyElseAway(u)
  BY <1>3 DEF OnlyOf, NobodyElseAway
<1> QED
  BY <1>1, <1>2, <1>3, <1>4, <1>5, StepOf, NobodyTurned

LEMMA PresenceVoiceChecked ==
  ASSUME PresenceInv, NEW u \in Users, NEW counts \in BOOLEAN, VoiceChecked(u, counts)
  PROVE  PresenceInv' /\ \A v \in Users : Turned(v)
<1>1. TypeOK
  BY Parts
<1>2. UNCHANGED <<clock, live, connections, inVoice, rows>>
      /\ inVoice' \subseteq Users /\ checking' \subseteq Users
      /\ rows' \in [Users -> [lastSeenAt : Times, lastActiveAt : Times]]
  BY <1>1 DEF VoiceChecked, TypeOK
<1>3. MarkActive(u) \/ (UNCHANGED <<sessions, timers, heard, writes>> /\ writes' \subseteq Write)
  BY <1>1 DEF VoiceChecked, TypeOK
<1> QED
  BY <1>2, <1>3, PresenceActs, PresenceIdles

LEMMA PresenceEnterVoice ==
  ASSUME PresenceInv, NEW u \in Users, EnterVoice(u)
  PROVE  PresenceInv' /\ \A v \in Users : Turned(v)
<1>1. TypeOK
  BY Parts
<1>2. UNCHANGED <<clock, live, connections, checking, rows>>
      /\ inVoice' \subseteq Users /\ checking' \subseteq Users
      /\ rows' \in [Users -> [lastSeenAt : Times, lastActiveAt : Times]]
  BY <1>1 DEF EnterVoice, TypeOK
<1>3. MarkActive(u) \/ (UNCHANGED <<sessions, timers, heard, writes>> /\ writes' \subseteq Write)
  BY <1>1 DEF EnterVoice, TypeOK
<1> QED
  BY <1>2, <1>3, PresenceActs, PresenceIdles

LEMMA PresenceLeaveVoice ==
  ASSUME PresenceInv, NEW u \in Users, LeaveVoice(u)
  PROVE  PresenceInv' /\ \A v \in Users : Turned(v)
<1>1. TypeOK
  BY Parts
<1>2. /\ UNCHANGED <<clock, live, connections, sessions, timers, heard>>
      /\ inVoice' \subseteq Users /\ checking' \subseteq Users /\ writes' \subseteq Write
      /\ rows' \in [Users -> [lastSeenAt : Times, lastActiveAt : Times]]
  BY <1>1 DEF LeaveVoice, TypeOK
<1> QED
  BY <1>2, PresenceIdles

\* A date read back from a statement is one the statement carries.
LEMMA StoredIsADate ==
  ASSUME NEW old \in Times, NEW new \in SUBSET Times
  PROVE  Stored(old, new) \in Times
BY DEF Stored

LEMMA PresenceLand ==
  ASSUME PresenceInv, NEW w \in writes, Land(w)
  PROVE  PresenceInv' /\ \A v \in Users : Turned(v)
<1>1. TypeOK
  BY Parts
<1>2. /\ w \in Write /\ w.user \in Users
      /\ w.lastSeenAt \in SUBSET Times /\ w.lastActiveAt \in SUBSET Times
  BY <1>1 DEF TypeOK, Write
<1>3. rows[w.user].lastSeenAt \in Times /\ rows[w.user].lastActiveAt \in Times
  BY <1>1, <1>2 DEF TypeOK
<1>4. Landed(rows[w.user], w) \in [lastSeenAt : Times, lastActiveAt : Times]
  BY <1>2, <1>3, StoredIsADate DEF Landed
<1>5. rows' \in [Users -> [lastSeenAt : Times, lastActiveAt : Times]]
  <2>1. rows' = [rows EXCEPT ![w.user] = Landed(rows[w.user], w)]
    BY DEF Land
  <2> QED
    BY <1>1, <1>4, <2>1 DEF TypeOK
<1>6. /\ UNCHANGED <<clock, live, connections, sessions, timers, heard>>
      /\ inVoice' \subseteq Users /\ checking' \subseteq Users /\ writes' \subseteq Write
  BY <1>1 DEF Land, TypeOK
<1> QED
  BY <1>5, <1>6, PresenceIdles

LEMMA PresenceTick ==
  ASSUME PresenceInv, Tick
  PROVE  PresenceInv' /\ \A v \in Users : Turned(v)
<1>1. TypeOK /\ TimersAreLate
  BY DEF PresenceInv
<1>2. /\ clock' = clock + 1 /\ clock < MaxClock
      /\ UNCHANGED <<live, connections, sessions, timers, inVoice, checking, writes, rows, heard>>
  BY DEF Tick
<1>3. clock \in Nat /\ clock' \in Times
  BY <1>1, <1>2, Delays DEF TypeOK, Times
<1>4. TypeOK'
  BY <1>1, <1>2, <1>3 DEF TypeOK
<1>5. TimersAreLate'
  <2> SUFFICES ASSUME NEW u \in Users, Online(u)
               PROVE  /\ sessions[u].onlineSince <= clock'
                      /\ sessions[u].lastActiveAt <= clock'
                      /\ sessions[u].lastInputReport <= clock'
    BY <1>1, <1>2 DEF TimersAreLate, Online
  <2>1. /\ sessions[u].onlineSince \in Nat /\ sessions[u].lastActiveAt \in Nat
        /\ sessions[u].lastInputReport \in Nat
    BY <1>1, SessionOf, Delays DEF Times
  <2>2. /\ sessions[u].onlineSince <= clock /\ sessions[u].lastActiveAt <= clock
        /\ sessions[u].lastInputReport <= clock
    BY <1>1 DEF TimersAreLate
  <2> QED
    BY <1>2, <1>3, <2>1, <2>2
<1>6. IsFiniteSet(live') /\ SessionWhileConnected' /\ OneTimerEach' /\ HeardIsTrue'
  BY <1>2 DEF PresenceInv, SessionWhileConnected, OneTimerEach, HeardIsTrue, Online
<1>7. \A v \in Users : Turned(v)
  BY <1>2 DEF Turned
<1> QED
  BY <1>4, <1>5, <1>6, <1>7 DEF PresenceInv

\* Nobody is connected, nobody has a session and nothing has been said.
Empty ==
  /\ clock \in Times /\ live = {} /\ connections = [u \in Users |-> 0]
  /\ sessions = [u \in Users |-> NoSession]
  /\ timers = {} /\ inVoice = {} /\ checking = {} /\ writes = {}
  /\ rows \in [Users -> [lastSeenAt : Times, lastActiveAt : Times]]
  /\ heard = [u \in Users |-> Unheard]

LEMMA EmptyIsSound == Empty => PresenceInv
<1> SUFFICES ASSUME Empty PROVE PresenceInv
  OBVIOUS
<1>1. TypeOK
  BY DEF Empty, TypeOK
<1>2. SessionWhileConnected
  <2>1. ~(0 > 0) /\ Cardinality({}) = 0
    BY FS_EmptySet
  <2>2. \A u \in Users : {w \in live : Owner[w] = u} = {}
    BY DEF Empty
  <2> QED
    BY <2>1, <2>2 DEF Empty, SessionWhileConnected, Online
<1>3. OneTimerEach /\ HeardIsTrue /\ TimersAreLate
  BY DEF Empty, OneTimerEach, HeardIsTrue, TimersAreLate, Online
<1>4. IsFiniteSet(live)
  BY FS_EmptySet DEF Empty
<1> QED
  BY <1>1, <1>2, <1>3, <1>4 DEF PresenceInv

LEMMA EmptyAfter == Empty' => PresenceInv'
BY EmptyIsSound, PTL

LEMMA PresenceInit == Init => PresenceInv
<1>1. Init => Empty
  BY Delays DEF Init, Empty, Times
<1> QED
  BY <1>1, EmptyIsSound

LEMMA PresenceRestart ==
  ASSUME PresenceInv, Restart
  PROVE  PresenceInv' /\ \A v \in Users : Turned(v)
<1>1. Empty'
  BY DEF Restart, Empty, PresenceInv, TypeOK
<1>2. \A v \in Users : Turned(v)
  BY DEF Restart, Turned
<1> QED
  BY <1>1, <1>2, EmptyAfter

\* A window that opens finds its owner there; one that closes leaves nobody away.
LEMMA WindowsTurnNobody ==
  ASSUME PresenceInv, NEW w \in Windows, Connect(w) \/ Disconnect(w)
  PROVE  \A v \in Users : Turned(v)
<1>1. TypeOK /\ Owner[w] \in Users
  BY Delays, Parts
<1>2. CASE sessions' = sessions
  BY <1>2 DEF Turned
<1>3. CASE FirstWindow(Owner[w])
  <2> DEFINE new == [onlineSince |-> clock, lastActiveAt |-> clock, away |-> FALSE,
                     awayTimer |-> clock + AwayAfter, lastVoiceReport |-> 0, lastInputReport |-> 0]
  <2>1. sessions' = [sessions EXCEPT ![Owner[w]] = new] /\ new.away = FALSE
    BY <1>3 DEF FirstWindow
  <2> HIDE DEF new
  <2> QED
    BY <1>1, <2>1 DEF TypeOK, Turned
<1>4. CASE GoOffline(Owner[w])
  BY <1>1, <1>4 DEF GoOffline, TypeOK, Turned
<1>5. sessions' = sessions \/ FirstWindow(Owner[w]) \/ GoOffline(Owner[w])
  BY DEF Connect, Disconnect
<1> QED
  BY <1>2, <1>3, <1>4, <1>5

LEMMA PresenceNext ==
  PresenceInv /\ [Next]_vars => PresenceInv' /\ \A v \in Users : Turned(v)
<1> SUFFICES ASSUME PresenceInv, [Next]_vars
             PROVE  PresenceInv' /\ \A v \in Users : Turned(v)
  OBVIOUS
<1>1. CASE Tick
  BY <1>1, PresenceTick
<1>2. CASE Restart
  BY <1>2, PresenceRestart
<1>3. CASE \E w \in Windows : Connect(w) \/ Disconnect(w)
  BY <1>3, PresenceConnect, PresenceDisconnect, WindowsTurnNobody
<1>4. ASSUME NEW u \in Users, Act(u)
      PROVE  PresenceInv' /\ \A v \in Users : Turned(v)
  <2>1. inVoice' \subseteq Users /\ checking' \subseteq Users
    BY <1>4 DEF Act, PresenceInv, TypeOK
  <2>2. MarkActive(u) /\ UNCHANGED <<clock, live, connections, rows>>
    BY <1>4 DEF Act
  <2> QED
    BY <2>1, <2>2, PresenceActs
<1>5. ASSUME NEW u \in Users, ReportInput(u)
      PROVE  PresenceInv' /\ \A v \in Users : Turned(v)
  BY <1>5, PresenceReportInput
<1>6. ASSUME NEW u \in Users, StepAway(u)
      PROVE  PresenceInv' /\ \A v \in Users : Turned(v)
  BY <1>6, PresenceStepAway
<1>7. ASSUME NEW u \in Users, ReportVoice(u)
      PROVE  PresenceInv' /\ \A v \in Users : Turned(v)
  BY <1>7, PresenceReportVoice
<1>8. ASSUME NEW u \in Users, EnterVoice(u)
      PROVE  PresenceInv' /\ \A v \in Users : Turned(v)
  BY <1>8, PresenceEnterVoice
<1>9. ASSUME NEW u \in Users, LeaveVoice(u)
      PROVE  PresenceInv' /\ \A v \in Users : Turned(v)
  BY <1>9, PresenceLeaveVoice
<1>10. ASSUME NEW u \in Users, NEW counts \in BOOLEAN, VoiceChecked(u, counts)
       PROVE  PresenceInv' /\ \A v \in Users : Turned(v)
  BY <1>10, PresenceVoiceChecked
<1>11. CASE \E t \in timers : TimerFires(t)
  BY <1>11, PresenceTimerFires
<1>12. CASE \E w \in writes : Land(w)
  BY <1>12, PresenceLand
<1>13. CASE UNCHANGED vars
  <2>1. /\ UNCHANGED <<clock, live, connections, sessions, timers, heard>>
        /\ inVoice' \subseteq Users /\ checking' \subseteq Users /\ writes' \subseteq Write
        /\ rows' \in [Users -> [lastSeenAt : Times, lastActiveAt : Times]]
    BY <1>13 DEF vars, PresenceInv, TypeOK
  <2> QED
    BY <2>1, PresenceIdles
<1> QED
  BY <1>1, <1>2, <1>3, <1>4, <1>5, <1>6, <1>7, <1>8, <1>9, <1>10, <1>11, <1>12, <1>13 DEF Next

\* In every state somebody has a session exactly while a window of theirs is
\* connected, one timer while they are not away and no other, and the last
\* presence:changed about them says what the server believes (handleConnection,
\* handleDisconnect, markPresent, goAway, awayTimer).
THEOREM PresenceIsAlwaysTrue == Spec => []PresenceIsTrue
<1>1. PresenceInv => PresenceIsTrue
  BY DEF PresenceInv, PresenceIsTrue
<1>2. PresenceInv /\ [Next]_vars => PresenceInv'
  BY PresenceNext
<1> QED
  BY <1>1, <1>2, PresenceInit, PTL DEF Spec

\* No step marks somebody away sooner than AwayAfter past the last thing they
\* did, except the one their locked computer asks for: no timer of an earlier
\* activity or an earlier session is left to do so (awayTimer, goAway).
THEOREM NobodyIsAwayTooSoon == Spec => AwayOnlyAfterSilence
<1>1. PresenceInv /\ [Next]_vars => PresenceInv'
  BY PresenceNext
<1>2. PresenceInv /\ [Next]_vars =>
        [\A u \in Users :
           (Online(u) /\ sessions'[u] # NoSession /\ ~sessions[u].away /\ sessions'[u].away) =>
             \/ StepAway(u)
             \/ clock >= sessions[u].onlineSince + AwayAfter
                /\ clock >= sessions[u].lastActiveAt + AwayAfter
                /\ clock >= sessions[u].lastInputReport + AwayAfter]_vars
  BY PresenceNext DEF Turned
<1> QED
  BY <1>1, <1>2, PresenceInit, PTL DEF Spec, AwayOnlyAfterSilence
=============================================================================
