---------------------------- MODULE ChannelScreen ----------------------------
(***************************************************************************)
(* Messages, and what one desktop window draws of them.                     *)
(*                                                                          *)
(* The server's half is the message handlers between their awaits: a send   *)
(* writes its row, waits for the mentions and then tells the room; an edit  *)
(* and a deletion check, write, wait and tell.  The window's half is the    *)
(* list on screen with its optimistic rows, the outbox, the reload that     *)
(* opening a channel makes and the backfill a reconnect makes.  Requests    *)
(* and answers travel over HTTP, broadcasts over the socket: neither waits  *)
(* for the other.                                                           *)
(*                                                                          *)
(* Ids ascend (UUIDv7) in the order they are made, which is not the order   *)
(* in which their rows are written.  A page holds every message there is.   *)
(* The window only sends; edits and deletions come from other windows, of   *)
(* its author or of a moderator.  Direct messages, whose events wait for    *)
(* their decryption, files, replies, mentions, pins and reactions are left  *)
(* out.                                                                     *)
(*                                                                          *)
(* EventNamedByHandler, NeverRestored, AppendsBlindly, StaysDrawn and       *)
(* SinceWhenApplied are plausible bugs of the definition that follows each: *)
(* they show that the properties notice.                                    *)
(***************************************************************************)
EXTENDS Naturals, Sequences, FiniteSets, SequencesExt

CONSTANTS
  Channels,
  None,
  MaxMessages, \* bound on ids ever made
  MaxTyped,    \* bound on messages typed in this window
  MaxChanges,  \* bound on edits and deletions
  MaxMoves,    \* bound on channels opened
  MaxFaults    \* bound on drops, restarts, refusals and answers lost

ScreenAssumption ==
  /\ None \notin Channels
  /\ {MaxMessages, MaxTyped, MaxChanges, MaxMoves, MaxFaults} \subseteq Nat

Ids == 1..MaxMessages
Typed == 1..MaxTyped

VARIABLES
  table,     \* the Message rows
  named,     \* ids made: 1..named
  work,      \* handlers in flight
  up,        \* the window's socket is connected
  rooms,     \* channel rooms the socket is in
  asking,    \* packets on their way to the server, buffered while it is down
  joining,   \* channel:join handlers awaiting canInChannel
  inbox,     \* broadcasts on their way to the window
  open,      \* activeChannel
  list,      \* messages: the rows on screen
  outbox,    \* outboxRef, and what became of what left it
  answers,   \* answers to the window's sends on their way
  reload,    \* the history that opening the channel asked for
  backfills, \* and those that reconnecting did
  lastSeen,  \* lastSeenIdRef, 0 for none
  unsure,    \* read by properties only: messages the window has not been told the truth of
  left       \* bounds that are left

server == <<table, named, work>>
socket == <<up, rooms, asking, joining, inbox>>
screen == <<open, list, outbox, answers, reload, backfills, lastSeen>>
vars == <<server, socket, screen, unsure, left>>

RowType == [is : {"unsent", "live", "deleted"}, text : 0..MaxChanges, nonce : 0..MaxTyped,
            of : Channels \cup {None}]
WorkType == [op : {"send", "edit", "remove"}, id : Ids, nonce : 0..MaxTyped, text : 0..MaxChanges,
             of : Channels, written : BOOLEAN, wanted : BOOLEAN]
EventType == [is : {"new", "updated", "deleted"}, id : Ids, nonce : 0..MaxTyped,
              text : 0..MaxChanges, of : Channels]
LineType == [id : 0..MaxMessages, nonce : 0..MaxTyped, text : 0..MaxChanges,
             is : {"sent", "pending", "failed"}]
SendType == [is : {"untyped", "sending", "failed", "sent", "discarded"}, of : Channels \cup {None}]
PageType == [at : {"none", "asked", "read"}, of : Channels \cup {None}, since : 0..MaxMessages,
             page : Seq(LineType)]

TypeOK ==
  /\ table \in [Ids -> RowType] /\ named \in 0..MaxMessages
  /\ work \subseteq WorkType
  /\ up \in BOOLEAN /\ rooms \subseteq Channels /\ joining \subseteq Channels
  /\ asking \in Seq([ask : {"join", "leave"}, of : Channels])
  /\ inbox \in Seq(EventType)
  /\ open \in Channels
  /\ list \in Seq(LineType)
  /\ outbox \in [Typed -> SendType]
  /\ answers \subseteq [nonce : Typed, id : 0..MaxMessages]
  /\ reload \in PageType /\ backfills \subseteq PageType
  /\ lastSeen \in 0..MaxMessages
  /\ unsure \subseteq Ids
  /\ left \in [changes : 0..MaxChanges, moves : 0..MaxMoves, faults : 0..MaxFaults]

Unasked == [at |-> "none", of |-> None, since |-> 0, page |-> <<>>]

\* A window that looks at a channel nobody has written in.
Init ==
  /\ table = [m \in Ids |-> [is |-> "unsent", text |-> 0, nonce |-> 0, of |-> None]]
  /\ named = 0 /\ work = {}
  /\ open \in Channels /\ list = <<>>
  /\ up = TRUE /\ rooms = {open} /\ asking = <<>> /\ joining = {} /\ inbox = <<>>
  /\ outbox = [k \in Typed |-> [is |-> "untyped", of |-> None]]
  /\ answers = {} /\ reload = Unasked /\ backfills = {} /\ lastSeen = 0
  /\ unsure = {}
  /\ left = [changes |-> MaxChanges, moves |-> MaxMoves, faults |-> MaxFaults]

Fault == left.faults > 0 /\ left' = [left EXCEPT !.faults = @ - 1]

-----------------------------------------------------------------------------
(* The server's handlers.                                                   *)

Handler(op, m, k, text, c) ==
  [op |-> op, id |-> m, nonce |-> k, text |-> text, of |-> c,
   written |-> FALSE, wanted |-> k # 0]

Posted(k, c) ==
  /\ named < MaxMessages
  /\ named' = named + 1
  /\ work' = work \cup {Handler("send", named + 1, k, 0, c)}

OthersSend ==
  /\ \E c \in Channels : Posted(0, c)
  /\ UNCHANGED <<table, socket, screen, unsure, left>>

\* edit and remove look first: what is deleted is not changed again.
Change(op) ==
  /\ left.changes > 0
  /\ \E m \in Ids :
       /\ table[m].is = "live"
       /\ work' = work \cup
            {Handler(op, m, 0, MaxChanges - left.changes + 1, table[m].of)}
  /\ left' = [left EXCEPT !.changes = @ - 1]
  /\ UNCHANGED <<table, named, socket, screen, unsure>>

EditMessage == Change("edit")
RemoveMessage == Change("remove")

\* What an edit writes it writes by id alone, to a deleted row too.
Write(h) ==
  /\ ~ h.written
  /\ table' = [table EXCEPT ![h.id] =
       CASE h.op = "send" -> [is |-> "live", text |-> 0, nonce |-> h.nonce, of |-> h.of]
         [] h.op = "edit" -> [@ EXCEPT !.text = h.text]
         [] h.op = "remove" -> [@ EXCEPT !.is = "deleted"]]
  /\ work' = (work \ {h}) \cup {[h EXCEPT !.written = TRUE]}
  /\ UNCHANGED <<named, socket, screen, unsure, left>>

EventNamedByHandler(h) ==
  [is |-> h.op, id |-> h.id, nonce |-> h.nonce, text |-> h.text, of |-> h.of]

Event(h) ==
  [is |-> CASE h.op = "send" -> "new" [] h.op = "edit" -> "updated" [] h.op = "remove" -> "deleted",
   id |-> h.id, nonce |-> h.nonce, text |-> h.text, of |-> h.of]

\* A send and an edit tell the row they wrote, whatever it has become since.
Overtaken(h) ==
  h.op # "remove" /\ (h.text # table[h.id].text \/ table[h.id].is # "live")

\* A deletion is told to everybody, the rest to the room.
Reaches(h) == up /\ (h.op = "remove" \/ h.of \in rooms)

Tell(h) ==
  /\ h.written
  /\ work' = work \ {h}
  /\ inbox' = IF Reaches(h) THEN Append(inbox, Event(h)) ELSE inbox
  /\ unsure' = IF Reaches(h) /\ ~ Overtaken(h) THEN unsure ELSE unsure \cup {h.id}
  /\ answers' = IF h.wanted THEN answers \cup {[nonce |-> h.nonce, id |-> h.id]} ELSE answers
  /\ UNCHANGED <<table, named, up, rooms, asking, joining, open, list, outbox, reload,
                 backfills, lastSeen, left>>

FailureOf(h) == IF h.wanted THEN {[nonce |-> h.nonce, id |-> 0]} ELSE {}

Refuse(h) ==
  /\ h.wanted /\ ~ h.written /\ Fault
  /\ work' = work \ {h}
  /\ answers' = answers \cup FailureOf(h)
  /\ UNCHANGED <<table, named, socket, open, list, outbox, reload, backfills, lastSeen, unsure>>

\* The connection of the request breaks; its handler runs on.
LoseAnswer(h) ==
  /\ h.wanted /\ Fault
  /\ work' = (work \ {h}) \cup {[h EXCEPT !.wanted = FALSE]}
  /\ answers' = answers \cup FailureOf(h)
  /\ UNCHANGED <<table, named, socket, open, list, outbox, reload, backfills, lastSeen, unsure>>

TakePacket ==
  /\ up /\ asking # <<>>
  /\ asking' = Tail(asking)
  /\ LET p == Head(asking) IN
       \/ p.ask = "join" /\ joining' = joining \cup {p.of} /\ UNCHANGED rooms
       \/ p.ask = "leave" /\ rooms' = rooms \ {p.of} /\ UNCHANGED joining
  /\ UNCHANGED <<server, up, inbox, screen, unsure, left>>

Join(c) ==
  /\ c \in joining
  /\ joining' = joining \ {c}
  /\ rooms' = rooms \cup {c}
  /\ UNCHANGED <<server, up, asking, inbox, screen, unsure, left>>

-----------------------------------------------------------------------------
(* The connection.                                                          *)

Cut == up' = FALSE /\ rooms' = {} /\ asking' = <<>> /\ joining' = {} /\ inbox' = <<>>

\* What was told and not yet heard is lost with the socket.
Unheard == {inbox[i].id : i \in DOMAIN inbox}

Drop ==
  /\ up /\ Fault /\ Cut
  /\ unsure' = unsure \cup Unheard
  /\ UNCHANGED <<server, screen>>

Unread(p) == p.at = "asked"

\* The server stops: handlers end where they are, rows that were written are
\* never told of, and what the window was waiting for fails.
Restart ==
  /\ Fault /\ Cut
  /\ work' = {}
  /\ answers' = answers \cup UNION {FailureOf(h) : h \in work}
  /\ reload' = IF Unread(reload) THEN Unasked ELSE reload
  /\ backfills' = {b \in backfills : ~ Unread(b)}
  /\ unsure' = IF Unread(reload) THEN Ids
               ELSE unsure \cup Unheard \cup {h.id : h \in {g \in work : g.written}}
  /\ UNCHANGED <<table, named, open, list, outbox, lastSeen>>

\* onReconnected asks for what was missed.  It does not join the room again:
\* only opening a channel does.
Reconnect ==
  /\ ~ up
  /\ up' = TRUE
  /\ backfills' = backfills \cup
       {[at |-> "asked", of |-> open, since |-> lastSeen, page |-> <<>>]}
  /\ UNCHANGED <<server, rooms, asking, joining, inbox, open, list, outbox, answers, reload,
                 lastSeen, unsure, left>>

-----------------------------------------------------------------------------
(* The window: what it draws.                                               *)

Line(m) == [id |-> m.id, nonce |-> m.nonce, text |-> m.text, is |-> "sent"]
Own(k, is) == [id |-> 0, nonce |-> k, text |-> 0, is |-> is]

IdsOf(l) == {l[i].id : i \in DOMAIN l}
NoncesOf(l) == {l[i].nonce : i \in DOMAIN l}
Mapped(l, F(_)) == [i \in DOMAIN l |-> F(l[i])]

NeverRestored(l, box, c) == l

\* Failed sends are put back whenever the list they were on is replaced.
Restored(l, box, c) ==
  LET back == {k \in Typed : box[k].is = "failed" /\ box[k].of = c /\ k \notin NoncesOf(l)}
  IN  l \o Mapped(SetToSortSeq(back, <), LAMBDA k : Own(k, "failed"))

\* The first row that carries the nonce becomes the line.
Matched(l, k, line) ==
  LET i == SelectInSeq(l, LAMBDA x : x.nonce = k) IN [l EXCEPT ![i] = line]

AppendsBlindly(l, e) ==
  IF e.id \in IdsOf(l) THEN l ELSE Append(l, Line(e))

\* onMessage: our own optimistic row when the echo arrives, no row twice.
Heard(l, e) ==
  CASE e.nonce # 0 /\ e.nonce \in NoncesOf(l) -> Matched(l, e.nonce, Line(e))
    [] ~ (e.nonce # 0 /\ e.nonce \in NoncesOf(l)) /\ e.id \in IdsOf(l) -> l
    [] OTHER -> Append(l, Line(e))

Updated(l, e) == Mapped(l, LAMBDA x : IF x.id = e.id THEN [x EXCEPT !.text = e.text] ELSE x)

StaysDrawn(l, e) == l

Deleted(l, e) == SelectSeq(l, LAMBDA x : x.id # e.id)

Hear ==
  /\ inbox # <<>>
  /\ inbox' = Tail(inbox)
  /\ LET e == Head(inbox) IN
       /\ CASE e.is = "new" /\ e.of = open ->
                 /\ list' = Restored(Heard(list, e), outbox, open)
                 /\ lastSeen' = e.id
            [] e.is = "new" /\ e.of # open -> UNCHANGED <<list, lastSeen>>
            [] e.is = "updated" -> list' = Updated(list, e) /\ UNCHANGED lastSeen
            [] e.is = "deleted" ->
                 /\ list' = Restored(Deleted(list, e), outbox, open)
                 /\ UNCHANGED lastSeen
  /\ UNCHANGED <<server, up, rooms, asking, joining, open, outbox, answers, reload, backfills,
                 unsure, left>>

-----------------------------------------------------------------------------
(* The window: what it sends.                                               *)

Type ==
  /\ \E k \in Typed :
       /\ outbox[k].is = "untyped" /\ \A n \in 1..(k - 1) : outbox[n].is # "untyped"
       /\ outbox' = [outbox EXCEPT ![k] = [is |-> "sending", of |-> open]]
       /\ list' = Append(list, Own(k, "pending"))
       /\ Posted(k, open)
  /\ UNCHANGED <<table, socket, open, answers, reload, backfills, lastSeen, unsure, left>>

\* deliver: the saved message takes the row's place, if the row is there.
Saved(a) ==
  /\ a.id # 0
  /\ outbox' = [outbox EXCEPT ![a.nonce].is = "sent"]
  /\ list' = IF a.nonce \in NoncesOf(list)
             THEN Matched(list, a.nonce, [Own(a.nonce, "sent") EXCEPT !.id = a.id])
             ELSE list
  /\ unsure' = IF table[a.id].is = "live" /\ table[a.id].text = 0 THEN unsure
               ELSE unsure \cup {a.id}

\* The row stays and says so; if the echo came first, the echo's row says so.
Failed(a) ==
  /\ a.id = 0
  /\ outbox' = [outbox EXCEPT ![a.nonce].is = "failed"]
  /\ LET marked == Mapped(list, LAMBDA x : IF x.nonce = a.nonce THEN Own(a.nonce, "failed") ELSE x)
     IN  list' = Restored(marked, outbox', open)
  /\ unsure' = unsure \cup ({list[i].id : i \in {n \in DOMAIN list : list[n].nonce = a.nonce}} \ {0})

Answered(a) ==
  /\ a \in answers
  /\ answers' = answers \ {a}
  /\ Saved(a) \/ Failed(a)
  /\ UNCHANGED <<server, socket, open, reload, backfills, lastSeen, left>>

\* What can be pressed is what is drawn as failed.
Offered(k) == \E i \in DOMAIN list : list[i].nonce = k /\ list[i].is = "failed"

Retry ==
  /\ \E k \in Typed :
       /\ Offered(k) /\ outbox[k].is = "failed"
       /\ outbox' = [outbox EXCEPT ![k].is = "sending"]
       /\ list' = Mapped(list, LAMBDA x : IF x.nonce = k THEN Own(k, "pending") ELSE x)
       /\ Posted(k, outbox[k].of)
  /\ UNCHANGED <<table, socket, open, answers, reload, backfills, lastSeen, unsure, left>>

Discard ==
  /\ \E k \in Typed :
       /\ Offered(k) /\ outbox[k].is = "failed"
       /\ outbox' = [outbox EXCEPT ![k].is = "discarded"]
       /\ list' = SelectSeq(list, LAMBDA x : ~ (x.id = 0 /\ x.nonce = k))
  /\ UNCHANGED <<server, socket, open, answers, reload, backfills, lastSeen, unsure, left>>

-----------------------------------------------------------------------------
(* The window: channels and pages.                                          *)

\* The effect's cleanup leaves the old channel and cancels its reload;
\* a backfill that is on its way nobody cancels.
Opens(c) ==
  /\ c # open /\ left.moves > 0
  /\ left' = [left EXCEPT !.moves = @ - 1]
  /\ open' = c
  /\ asking' = asking \o <<[ask |-> "leave", of |-> open], [ask |-> "join", of |-> c]>>
  /\ list' = Restored(<<>>, outbox, c)
  /\ reload' = [Unasked EXCEPT !.at = "asked", !.of = c]
  /\ UNCHANGED <<server, up, rooms, joining, inbox, outbox, answers, backfills, lastSeen, unsure>>

\* history: what is live, in the order of the ids.
Page(c) ==
  LET live == {m \in Ids : table[m].of = c /\ table[m].is = "live"}
  IN  Mapped(SetToSortSeq(live, <),
             LAMBDA m : [id |-> m, nonce |-> table[m].nonce, text |-> table[m].text, is |-> "sent"])

Answer(p) == [p EXCEPT !.at = "read", !.page = Page(p.of)]

ReadReload ==
  /\ Unread(reload)
  /\ reload' = Answer(reload)
  /\ UNCHANGED <<server, socket, open, list, outbox, answers, backfills, lastSeen, unsure, left>>

\* What rows that were read a while ago are worth, now that they are drawn: the
\* truth, unless it changed meanwhile and the news that will still come does not
\* mend them.  An edit mends only a row that is there.
Coming(m) == {e \in Range(inbox) \cup {Event(h) : h \in {g \in work : g.written}} : e.id = m}

Right(m, rows) ==
  IF table[m].is = "live"
  THEN \E i \in DOMAIN rows : rows[i].id = m /\ rows[i].text = table[m].text
  ELSE m \notin IdsOf(rows)

Brought(ms, rows) ==
  {m \in Ids :
     IF m \notin ms THEN m \in unsure
     ELSE IF Coming(m) = {} THEN ~ Right(m, rows)
     ELSE m \in unsure \/ (m \notin IdsOf(rows) /\ \A e \in Coming(m) : e.is # "new")}

LastOf(page) == IF page = <<>> THEN 0 ELSE Last(page).id

ApplyReload ==
  /\ reload.at = "read"
  /\ list' = Restored(reload.page, outbox, open)
  /\ lastSeen' = LastOf(reload.page)
  /\ reload' = Unasked
  /\ unsure' = Brought({m \in Ids : table[m].of = open}, reload.page)
  /\ UNCHANGED <<server, socket, open, outbox, answers, backfills, left>>

\* Nobody catches it: the list stays as empty as opening left it.
ReloadFails ==
  /\ Unread(reload) /\ Fault
  /\ reload' = Unasked
  /\ unsure' = Ids
  /\ UNCHANGED <<server, socket, open, list, outbox, answers, backfills, lastSeen>>

ReadBackfill(b) ==
  /\ b \in backfills /\ Unread(b)
  /\ backfills' = (backfills \ {b}) \cup {Answer(b)}
  /\ UNCHANGED <<server, socket, open, list, outbox, answers, reload, lastSeen, unsure, left>>

SinceWhenApplied(b) ==
  SelectSeq(b.page, LAMBDA x : x.id \notin IdsOf(list) /\ (lastSeen = 0 \/ x.id > lastSeen))

Fresh(b) ==
  SelectSeq(b.page, LAMBDA x : x.id \notin IdsOf(list) /\ (b.since = 0 \/ x.id > b.since))

\* What a backfill is for.
Missed(b) == {m \in IdsOf(b.page) \ IdsOf(list) : m > b.since}

\* Applied to the list that is open by then, whichever channel it is.  Nobody
\* matches these with the row of the same nonce that is on the list.
Doubled(b) ==
  {Fresh(b)[i].id : i \in {n \in DOMAIN Fresh(b) : Fresh(b)[n].nonce \in NoncesOf(list) \ {0}}}

ApplyBackfill(b) ==
  /\ b \in backfills /\ b.at = "read"
  /\ backfills' = backfills \ {b}
  /\ list' = Restored(list \o Fresh(b), outbox, open)
  /\ lastSeen' = IF b.page = <<>> THEN lastSeen ELSE Last(b.page).id
  /\ unsure' = Brought(Missed(b), b.page) \cup Doubled(b)
  /\ UNCHANGED <<server, socket, open, outbox, answers, reload, left>>

BackfillFails(b) ==
  /\ b \in backfills /\ Unread(b) /\ Fault
  /\ backfills' = backfills \ {b}
  /\ UNCHANGED <<server, socket, open, list, outbox, answers, reload, lastSeen, unsure>>

-----------------------------------------------------------------------------
Server ==
  \/ OthersSend \/ EditMessage \/ RemoveMessage
  \/ \E h \in work : Write(h) \/ Tell(h) \/ Refuse(h) \/ LoseAnswer(h)

Connection == TakePacket \/ (\E c \in Channels : Join(c)) \/ Drop \/ Restart \/ Reconnect

Window ==
  \/ Hear \/ Type \/ (\E a \in answers : Answered(a)) \/ Retry \/ Discard
  \/ (\E c \in Channels : Opens(c)) \/ ReadReload \/ ApplyReload \/ ReloadFails
  \/ \E b \in backfills : ReadBackfill(b) \/ ApplyBackfill(b) \/ BackfillFails(b)

Next == Server \/ Connection \/ Window

Spec == Init /\ [][Next]_vars

-----------------------------------------------------------------------------
(* Properties.                                                              *)

Quiet ==
  /\ work = {} /\ inbox = <<>> /\ answers = {} /\ reload.at = "none" /\ backfills = {}

Drawn(m) == {i \in DOMAIN list : list[i].id = m}

\* A send retried after its answer was lost may have been written before.
SentAgain(m) == table[m].nonce # 0 /\ \E n \in Ids \ {m} : table[n].nonce = table[m].nonce

\* When nothing is in flight, a message of the open channel is drawn exactly
\* once, as the table has it, if it is live, and not at all if it is not: the
\* echo, the answer, the page and the backfill that each bring it agree on one
\* row.  Messages the window was never told the truth of are excepted: those
\* whose news was sent while it was not in the room, or lost with the socket
\* or the reload, until a page brings them; those whose writer told the room
\* out of turn; those a page read too early took back.
ScreenIsExact ==
  Quiet => \A m \in Ids \ unsure :
    (table[m].of = open /\ ~ SentAgain(m)) =>
      IF table[m].is = "live"
      THEN Cardinality(Drawn(m)) = 1 /\ \A i \in Drawn(m) : list[i].text = table[m].text
      ELSE Drawn(m) = {}

\* What was typed here is never lost without a word: what left the outbox as
\* sent was written, what failed is on screen whenever its channel is, however
\* the list was replaced meanwhile, and what is still drawn as being sent has
\* an answer to come.
NothingTypedIsLost ==
  \A k \in Typed :
    CASE outbox[k].is = "sent" -> \E m \in Ids : table[m].nonce = k /\ table[m].is # "unsent"
      [] outbox[k].is = "failed" -> outbox[k].of = open => k \in NoncesOf(list)
      [] outbox[k].is = "sending" ->
           \/ \E h \in work : h.nonce = k /\ h.wanted
           \/ \E a \in answers : a.nonce = k
      [] OTHER -> TRUE

\* "Send it again, with the same nonce so a message cannot be sent twice"
\* (retrySend): of what was typed once, one message is written.
SentOnce ==
  \A m, n \in Ids : table[m].nonce # 0 /\ table[m].nonce = table[n].nonce => m = n

\* "The channel on screen ... is the one room a client joins" (README): once
\* its packets are taken, a connected window is in the room of its channel.
HearsItsChannel ==
  up /\ asking = <<>> /\ joining = {} => open \in rooms
=============================================================================
