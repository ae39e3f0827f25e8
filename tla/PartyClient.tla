------------------------------ MODULE PartyClient ------------------------------
(***************************************************************************)
(* A watch party as one window sees it: the useWatchParty hook of a main    *)
(* window or of a party window, composed with WatchParty.  The rest of the  *)
(* world, other windows of the same person among it, acts on the server     *)
(* through WatchParty's actions.                                            *)
(*                                                                          *)
(* The connection delivers in order, and what is on its way is lost with    *)
(* it.  A request reaches the server as it is sent, and its handler may run *)
(* on after the connection has gone.  emitParty gives up after five seconds *)
(* and at once when the socket drops; the server may do what was asked all  *)
(* the same.  A dropped socket is noticed at both ends in one step.         *)
(*                                                                          *)
(* There is one server ("the party in the first guild is the whole of the   *)
(* lookup") and nobody is thrown out of it.                                 *)
(*                                                                          *)
(* A definition named for a slip is a plausible bug of the next one.        *)
(***************************************************************************)
EXTENDS WatchParty

CONSTANTS
  Win,          \* the window, a socket
  G,            \* the server
  MaxAsks,      \* bound on requests ever made
  MaxFaults,    \* bound on drops, restarts, closings and answers given up on
  MaxWorld,     \* bound on what anybody else does
  MaxMail       \* bound on unread mail while anybody else does anything

Me == Owner[Win]

ASSUME ClientAssumption ==
  /\ Win \in Sockets /\ IsFiniteSet(Sockets)
  /\ Guilds = {G}
  /\ MaxAsks \in Nat /\ MaxFaults \in Nat /\ MaxWorld \in Nat /\ MaxMail \in Nat

VARIABLES
  open,     \* "no", "main" or "party": which kind of window it is
  inbox,    \* what is on its way to it
  asked,    \* emitParty promises not yet resolved
  waiting,  \* handlers of its requests inside their await
  view,     \* partyRef, and the state drawn from it
  joined,   \* joinedRef: "whether we joined on purpose"
  before,   \* hasConnectedBefore
  todo,     \* effects that React, or the main process, has yet to run
  blind,    \* an answer that did not come left it with nothing to draw
  budget    \* what is left of each bound

client == <<open, inbox, asked, waiting, view, joined, before, todo, blind, budget>>
allVars == <<vars, client>>

Asks == [n : Nat, kind : {"start", "join", "rejoin", "sync", "discover"}, party : Nat]
Mails == [type : {"state"}, party : Party]
           \cup [type : {"ended"}, id : Nat]
           \cup [type : {"ack"}, n : Nat, ok : BOOLEAN, party : Party \cup {NoParty}]

ClientTypeOK ==
  /\ open \in {"no", "main", "party"}
  /\ inbox \in Seq(Mails)
  /\ asked \subseteq Asks
  /\ waiting \subseteq [ask : Asks, sock : {Win, NoSocket}]
  /\ view \in Party \cup {NoParty}
  /\ joined \in BOOLEAN /\ before \in BOOLEAN /\ blind \in BOOLEAN
  /\ todo \subseteq {"discover", "join", "close"}
  /\ budget \in [{"asks", "faults", "world"} -> Nat]

Fresh ==
  /\ view' = NoParty /\ todo' = {}
  /\ joined' = FALSE /\ before' = FALSE /\ blind' = FALSE

\* Everybody else is connected already; another window of theirs may be.
ClientInit ==
  /\ clock = 0 /\ nextParty = 1 /\ nextItem = 1
  /\ members = Users \X Guilds
  /\ live \in {{s \in Sockets : Owner[s] # Me}, Sockets \ {Win}}
  /\ connections = [u \in Users |-> Cardinality(SocketsOf(u))]
  /\ parties = [g \in Guilds |-> NoParty]
  /\ room = {} /\ pending = {}
  /\ open = "no" /\ inbox = <<>> /\ asked = {} /\ waiting = {}
  /\ view = NoParty /\ todo = {}
  /\ joined = FALSE /\ before = FALSE /\ blind = FALSE
  /\ budget = [asks |-> MaxAsks, faults |-> MaxFaults, world |-> MaxWorld]

Spend(what) == budget[what] > 0 /\ budget' = [budget EXCEPT ![what] = @ - 1]

-----------------------------------------------------------------------------
(* The wire.                                                                *)

\* announce: when the party has changed, or the handler says so regardless.
News(always) ==
  IF parties'[G] = parties[G] /\ ~(always /\ parties[G] # NoParty) THEN <<>>
  ELSE IF parties'[G] = NoParty THEN <<[type |-> "ended", id |-> parties[G].id]>>
  ELSE <<[type |-> "state", party |-> parties'[G]]>>

\* The news, and an answer behind it, for as long as there is a connection.
Post(news, answer) == inbox' = IF Win \in live' THEN inbox \o news \o answer ELSE <<>>

AnswerBare(a, ok, p) == <<[type |-> "ack", n |-> a.n, ok |-> ok]>>
Answer(a, ok, p) == <<[type |-> "ack", n |-> a.n, ok |-> ok, party |-> p]>>

\* emitParty, up to where its handler awaits the permission check; sync awaits
\* nothing, and a join of a party that is gone is refused before the check.
Ask(kind, pid) ==
  LET a == [n |-> budget.asks, kind |-> kind, party |-> pid]
      known == IsParty(G, pid)
  IN  /\ Spend("asks")
      /\ asked' = asked \cup {a}
      /\ IF kind = "sync" \/ (kind \in {"join", "rejoin"} /\ ~known)
         THEN /\ Post(<<>>, Answer(a, known, parties[G]))
              /\ UNCHANGED waiting
         ELSE /\ waiting' = waiting \cup {[ask |-> a, sock |-> Win]}
              /\ UNCHANGED inbox

-----------------------------------------------------------------------------
(* What the window makes of what it hears.                                  *)

IdOf(p) == IF p = NoParty THEN 0 ELSE p.id

\* take, and the effect that joins "every party id this window sees".
See(p) ==
  /\ view' = p
  /\ blind' = FALSE
  /\ todo' = IF open = "party" /\ IdOf(p) # IdOf(view) THEN todo \cup {"join"} ELSE todo

Forget == view' = NoParty /\ joined' = FALSE /\ UNCHANGED todo

Resyncs == {"rejoin", "sync"}

\* A promise resolves { ok: false }: refused, or given up on.
Refused(a) ==
  CASE a.kind \in Resyncs -> Forget /\ blind' = TRUE
    [] a.kind = "discover" -> /\ blind' = (blind \/ view = NoParty)
                              /\ UNCHANGED <<view, joined, todo>>
    [] OTHER -> UNCHANGED <<view, joined, todo, blind>>

Accepted(a, p) ==
  IF a.kind \in {"start", "join"} \cup Resyncs \/ p # NoParty
  THEN See(p) /\ joined' = (joined \/ a.kind \in {"start", "join"})
  ELSE UNCHANGED <<view, joined, todo, blind>>

HearAnyEnd(id) == Forget /\ UNCHANGED blind
\* onPartyEnded, for the party on screen.
HearEnd(id) ==
  IF IdOf(view) = id
  THEN Forget /\ UNCHANGED blind
  ELSE UNCHANGED <<view, joined, todo, blind>>

Receive ==
  LET m == Head(inbox)
  IN  /\ inbox # <<>>
      /\ inbox' = Tail(inbox)
      /\ \/ m.type = "state" /\ See(m.party) /\ UNCHANGED <<joined, asked>>
         \/ m.type = "ended" /\ HearEnd(m.id) /\ UNCHANGED asked
         \/ /\ m.type = "ack"
            /\ \E a \in asked :
                 /\ a.n = m.n
                 /\ asked' = asked \ {a}
                 /\ IF m.ok THEN Accepted(a, m.party) ELSE Refused(a)
         \/ /\ m.type = "ack"
            /\ \A a \in asked : a.n # m.n
            /\ UNCHANGED <<view, joined, todo, blind, asked>>
      /\ UNCHANGED <<vars, open, waiting, before, budget>>

\* Five seconds have gone by.
GiveUp(a) ==
  /\ a \in asked
  /\ Spend("faults")
  /\ asked' = asked \ {a}
  /\ Refused(a)
  /\ UNCHANGED <<vars, open, inbox, waiting, before>>

-----------------------------------------------------------------------------
(* The window and its connection.                                           *)

OpenWindow(kind) ==
  /\ open = "no"
  /\ open' = kind
  /\ UNCHANGED <<vars, inbox, asked, waiting, view, joined, before, todo, blind, budget>>

AsksNothing == FALSE
\* onReconnected calls resync, which asks only about a party it knows.
AsksOnReconnect == before /\ view # NoParty

AlwaysSync == "sync"
\* resync: back in if we had joined, otherwise only the state.
ResyncKind == IF joined THEN "rejoin" ELSE "sync"

\* The connect handler; discover follows once the window has drawn itself.
WindowConnects ==
  /\ open # "no"
  /\ Connect(Win)
  /\ before' = TRUE
  /\ todo' = todo \cup {"discover"}
  /\ IF AsksOnReconnect
     THEN Ask(ResyncKind, view.id)
     ELSE UNCHANGED <<inbox, asked, waiting, budget>>
  /\ UNCHANGED <<open, view, joined, blind>>

\* A cut resolves every promise { ok: false } and cancels the discover.
Cut ==
  LET resyncing == \E a \in asked : a.kind \in Resyncs
  IN  /\ asked' = {}
      /\ view' = IF resyncing THEN NoParty ELSE view
      /\ joined' = (joined /\ ~resyncing)
      /\ blind' = (blind \/ resyncing)
      /\ todo' = todo \ {"discover"}

\* Handlers run on without a socket, or the request never reached them.
Orphans(reached) == {[x EXCEPT !.sock = NoSocket] : x \in {y \in waiting : y \in reached}}

WindowDrops(reached) ==
  /\ Spend("faults")
  /\ Disconnect(Win)
  /\ Post(News(FALSE), <<>>)
  /\ waiting' = Orphans(reached)
  /\ Cut
  /\ UNCHANGED <<open, before>>

\* By its user or, after leaving in the party window, by the main process.
\* Nothing of it survives.
CloseWindow(reached) ==
  /\ open # "no"
  /\ IF "close" \in todo THEN UNCHANGED budget ELSE Spend("faults")
  /\ IF Win \in live
     THEN Disconnect(Win) /\ Post(News(FALSE), <<>>)
     ELSE UNCHANGED <<vars, inbox>>
  /\ waiting' = Orphans(reached)
  /\ asked' = {}
  /\ open' = "no"
  /\ Fresh

ServerRestarts ==
  /\ Spend("faults")
  /\ Restart
  /\ inbox' = <<>> /\ waiting' = {}
  /\ Cut
  /\ UNCHANGED <<open, before>>

-----------------------------------------------------------------------------
(* What the window asks.                                                    *)

\* discover.
Discover ==
  /\ Win \in live /\ "discover" \in todo
  /\ UNCHANGED <<vars, open, view, joined, before, blind>>
  /\ todo' = todo \ {"discover"}
  /\ Ask("discover", 0)

\* The party window's join effect.
JoinWhatItSees ==
  /\ Win \in live /\ "join" \in todo
  /\ UNCHANGED <<vars, open, view, joined, before, blind>>
  /\ todo' = todo \ {"join"}
  /\ IF view # NoParty
     THEN Ask("join", view.id)
     ELSE UNCHANGED <<inbox, asked, waiting, budget>>

\* A bound: nobody clicks again before the last click has been answered.
Patient == \A a \in asked : a.kind \notin {"start", "join"}

\* In the main window: Start, with no party on screen, or Join, with one they
\* are not in.
ClickStartOrJoin ==
  /\ Patient
  /\ Win \in live /\ open = "main"
  /\ UNCHANGED <<vars, open, view, joined, before, todo, blind>>
  /\ IF view = NoParty
     THEN Ask("start", 0)
     ELSE ~Watches(view, Me) /\ Ask("join", view.id)

\* Leave, in either window, which closes the party window.
ClickLeave ==
  /\ Patient
  /\ Win \in live
  /\ Watches(view, Me)
  /\ Spend("asks")
  /\ joined' = FALSE
  /\ IF IsParty(G, view.id)
     THEN Leave(Win, G) /\ Post(News(TRUE), <<>>)
     ELSE UNCHANGED <<vars, inbox>>
  /\ todo' = IF open = "party" THEN todo \cup {"close"} ELSE todo
  /\ UNCHANGED <<open, asked, waiting, view, before, blind>>

-----------------------------------------------------------------------------
(* The server.                                                              *)

\* partyStart and partyJoin after their await, as in WatchParty.
Carry(x) ==
  LET r == [kind |-> IF x.ask.kind = "start" THEN "start" ELSE "join",
            user |-> Me, sock |-> x.sock, guild |-> G, party |-> x.ask.party]
      answer(ok) == IF x.sock = NoSocket THEN <<>> ELSE Answer(x.ask, ok, parties'[G])
  IN  /\ UNCHANGED <<clock, members, live, connections, pending, nextItem>>
      /\ \/ Open(r) /\ Post(News(TRUE), answer(TRUE))
         \/ Enter(r) /\ Post(News(r.kind = "start"), answer(TRUE))
         \/ TooLate(r) /\ Post(<<>>, answer(FALSE))

Current(x) ==
  /\ UNCHANGED vars
  /\ Post(<<>>, IF x.sock = NoSocket THEN <<>> ELSE Answer(x.ask, TRUE, parties[G]))

ResumeWindow(x) ==
  /\ x \in waiting
  /\ waiting' = waiting \ {x}
  /\ IF x.ask.kind = "discover" THEN Current(x) ELSE Carry(x)
  /\ UNCHANGED <<open, asked, view, joined, before, todo, blind, budget>>

\* Somebody else's window, told to the socket it has: the strip offers Start or
\* Join to those who are not watching and Leave to those who are.
Arrives(s) ==
  LET r == [kind |-> "start", user |-> Owner[s], sock |-> s, guild |-> G, party |-> 0]
  IN  /\ s \in live /\ ~Watches(parties[G], Owner[s])
      /\ Open(r) \/ Enter(r)
      /\ UNCHANGED <<clock, members, live, connections, pending, nextItem>>

Goes(s) == Watches(parties[G], Owner[s]) /\ Leave(s, G)

\* The rest of the world, this person's other windows among it.
Elsewhere ==
  /\ Spend("world") /\ Len(inbox) < MaxMail
  /\ \E s \in Sockets \ {Win} :
       Connect(s) \/ (Owner[s] # Me /\ (Arrives(s) \/ Goes(s)))
  /\ Post(News(FALSE), <<>>)
  /\ UNCHANGED <<open, asked, waiting, view, joined, before, todo, blind>>

ClientNext ==
  \/ \E kind \in {"main", "party"} : OpenWindow(kind)
  \/ WindowConnects
  \/ \E reached \in SUBSET waiting : WindowDrops(reached) \/ CloseWindow(reached)
  \/ Receive
  \/ \E a \in asked : GiveUp(a)
  \/ Discover \/ JoinWhatItSees \/ ClickStartOrJoin \/ ClickLeave
  \/ \E x \in waiting : ResumeWindow(x)
  \/ Elsewhere
  \/ ServerRestarts

ClientSpec == ClientInit /\ [][ClientNext]_allVars

-----------------------------------------------------------------------------

Quiet == Win \in live /\ inbox = <<>> /\ asked = {} /\ todo = {} /\ waiting = {}

\* A window with nothing on its way draws the party as the server has it,
\* through any drops, restarts and parties begun and ended while it was away;
\* or it draws nothing, after an answer that did not come (resync, discover).
ViewIsCurrent == Quiet => view = parties[G] \/ (view = NoParty /\ blind)

\* The same, with what it draws and hears typed.
ViewIsSound == ClientTypeOK /\ ViewIsCurrent

\* A party window that has joined is in the room its chat is delivered to,
\* however often it has had to come back (resync: "it is not optional").
JoinedMeansInTheRoom ==
  (Quiet /\ open = "party" /\ joined /\ view # NoParty) => <<Win, view.id>> \in room

\* "So: always join, on every party id this window sees", because otherwise the
\* window "looks perfectly connected and never receives a single line of chat":
\* a party window that draws a party is in its room.
InItsRoom == (Quiet /\ open = "party" /\ view # NoParty) => <<Win, view.id>> \in room
=============================================================================
