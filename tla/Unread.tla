-------------------------------- MODULE Unread --------------------------------
(***************************************************************************)
(* The dot and the number beside one channel: newest message, read marker   *)
(* and count, as the desktop client (Chat.tsx) and the phone (session.tsx)  *)
(* keep them from three sources that overtake each other: what the socket   *)
(* tells, what is asked over HTTP at the start and on every reconnect, and  *)
(* what this client itself has read.  The channel is a text channel, whose  *)
(* number counts tags, or a conversation, whose number counts messages.     *)
(*                                                                          *)
(* message:new and dm:message wait their turn in the decrypting queue,      *)
(* `opening', while channel:activity and mention:new are handled as they    *)
(* arrive.  An answer is read in one step and lands in a later one.  The    *)
(* reader uses this one client and writes nothing here, nothing is deleted, *)
(* and a request that fails, which leaves what was there, is left out.  How *)
(* the open channel draws its messages is ChannelScreen and PhoneScreen.    *)
(*                                                                          *)
(* AskedForLess, WipesThem and TakesIt are plausible bugs of the definition *)
(* that follows each.                                                       *)
(***************************************************************************)
EXTENDS Naturals, Sequences, FiniteSets, SequencesExt

CONSTANTS
  OnPhone,     \* which of the two clients this is
  MaxMessages, \* bound on messages ever said
  MaxVisits,   \* bound on visits to the channel
  MaxDrops     \* bound on connections lost

UnreadAssumption ==
  OnPhone \in BOOLEAN /\ MaxMessages \in Nat /\ MaxVisits \in Nat /\ MaxDrops \in Nat

VARIABLES
  kind,      \* "text" or "dm"
  waits,     \* for each message said: it waits for the reader, as a tag or in a conversation
  row,       \* lastReadMessageId in the database, 0 for none
  jobs,      \* sends that have written their message
  up, inRoom,
  inbox,     \* events on the wire
  opening,   \* the decrypting queue
  signedIn,
  latest, reads, counts,  \* of this channel; 0 for no entry
  open,      \* it is the channel on screen
  shown,     \* the newest message of it on screen
  marked,    \* lastMarkedRead
  requests, marks,        \* on their way, or their answers
  told, read, \* the newest message this client knows of, and the newest it has read
  stale, behind, blurred, \* read by properties only, as are these: see Overtaken
  spare      \* bounds that are left

server == <<kind, waits, row, jobs>>
wire == <<up, inRoom, inbox, opening>>
marker == <<latest, reads, counts>>
screen == <<open, shown, marked>>
doubts == <<told, read, stale, behind, blurred>>
vars == <<server, wire, signedIn, marker, screen, requests, marks, doubts, spare>>

Ids == 1..MaxMessages
Mark0 == 0..MaxMessages
Asks == {"unread", "reads", "tags", "heads", "dms", "page", "backfill"}
Pieces == {"row", "count", "head"}
\* What was read of the marker, and what is said of the messages from `past' to
\* `head'.
Request == [ask : Asks, got : SUBSET Pieces, row : Mark0, past : Mark0, head : Mark0]
Event == [is : {"new", "activity", "mention", "dm"}, id : Ids, past : Mark0, head : Mark0]
Job == [id : Ids, at : {"written", "told", "summed"}, past : Mark0, head : Mark0]

TypeOK ==
  /\ kind \in {"text", "dm"} /\ waits \in Seq(BOOLEAN) /\ Len(waits) <= MaxMessages
  /\ row \in Mark0 /\ jobs \subseteq Job
  /\ up \in BOOLEAN /\ inRoom \in BOOLEAN /\ inbox \in Seq(Event) /\ opening \in Seq(Event)
  /\ signedIn \in BOOLEAN /\ latest \in Mark0 /\ reads \in Mark0 /\ counts \in Nat
  /\ open \in BOOLEAN /\ shown \in Mark0 /\ marked \in Mark0
  /\ requests \subseteq Request /\ marks \subseteq Ids
  /\ told \in Mark0 /\ read \in Mark0 /\ stale \in BOOLEAN /\ behind \in BOOLEAN /\ blurred \in BOOLEAN
  /\ spare \in [visits : 0..MaxVisits, drops : 0..MaxDrops]

Newest == Len(waits)
\* How many messages wait in ]past, to].
Waiting(past, to) == Cardinality({m \in 1..to : m > past /\ waits[m]})
Later(a, b) == IF a < b THEN b ELSE a

Asking(what) == [ask |-> what, got |-> {}, row |-> 0, past |-> 0, head |-> 0]

AsksOf(conversations) ==
  {Asking(what) : what \in (IF OnPhone THEN {"unread"} ELSE {"reads", "tags"})
                             \cup (IF kind = "dm" THEN conversations ELSE IF OnPhone THEN {"heads"} ELSE {})}
AskedForLess == AsksOf({})
\* onReconnected, as at the start: the phone's refreshUnread asks for markers
\* and tags together and refreshHeads for the newest messages, once the
\* channels are in; the desktop's loadReads asks for markers, then for the
\* newest.  The conversations say all of theirs at once.
AskedAgain == AsksOf({"dms"})

\* Connected, and told all there is; one message may be waiting.
Init ==
  /\ kind \in {"text", "dm"} /\ waits = <<TRUE>> /\ row = 0 /\ jobs = {}
  /\ up = TRUE /\ inRoom = FALSE /\ inbox = <<>> /\ opening = <<>> /\ signedIn = TRUE
  /\ latest = Len(waits) /\ reads = 0 /\ counts = Len(waits)
  /\ open = FALSE /\ shown = 0 /\ marked = 0
  /\ requests = {} /\ marks = {}
  /\ told = Len(waits) /\ read = 0
  /\ stale = FALSE /\ behind = FALSE /\ blurred = FALSE
  /\ spare = [visits |-> MaxVisits, drops |-> MaxDrops]

Spend(what) == spare[what] > 0 /\ spare' = [spare EXCEPT ![what] = @ - 1]

-----------------------------------------------------------------------------
(* The server.                                                              *)

Tell(those) == inbox' = IF up THEN inbox \o those ELSE inbox
News(what, m) == [is |-> what, id |-> m, past |-> 0, head |-> 0]
ToTheRoom(m) == IF inRoom THEN <<News("new", m)>> ELSE <<>>

\* send: somebody else's message is a row before anybody is told.
Say(tags) ==
  /\ Newest < MaxMessages /\ (kind = "dm" => tags)
  /\ waits' = Append(waits, tags)
  /\ jobs' = jobs \cup {[id |-> Newest + 1, at |-> "written", past |-> 0, head |-> 0]}
  /\ UNCHANGED <<kind, row, wire, signedIn, marker, screen, requests, marks, doubts, spare>>

\* broadcastMessage and, in a text channel, notifyMentions.
Broadcast(j) ==
  /\ j \in jobs /\ j.at = "written"
  /\ Tell(ToTheRoom(j.id) \o <<News("activity", j.id)>>
            \o IF kind = "text" /\ waits[j.id] THEN <<News("mention", j.id)>> ELSE <<>>)
  /\ jobs' = (jobs \ {j}) \cup IF kind = "dm" THEN {[j EXCEPT !.at = "told"]} ELSE {}
  /\ UNCHANGED <<kind, waits, row, up, inRoom, opening, signedIn, marker, screen, requests, marks,
                 doubts, spare>>

\* announce: the conversation as the reader sees it ...
Sum(j) ==
  /\ j \in jobs /\ j.at = "told"
  /\ jobs' = (jobs \ {j}) \cup {[j EXCEPT !.at = "summed", !.past = row, !.head = Newest]}
  /\ UNCHANGED <<kind, waits, row, wire, signedIn, marker, screen, requests, marks, doubts, spare>>

\* ... goes to them.
NotifyDm(j) ==
  /\ j \in jobs /\ j.at = "summed"
  /\ Tell(<<[is |-> "dm", id |-> j.id, past |-> j.past, head |-> j.head]>>)
  /\ jobs' = jobs \ {j}
  /\ UNCHANGED <<kind, waits, row, up, inRoom, opening, signedIn, marker, screen, requests, marks,
                 doubts, spare>>

\* POST channels/:id/read; for two at once see Marks.
KeepMark(m) ==
  /\ m \in marks
  /\ marks' = marks \ {m}
  /\ row' = Later(row, m)
  /\ UNCHANGED <<kind, waits, jobs, wire, signedIn, marker, screen, requests, doubts, spare>>

PiecesOf(what) ==
  CASE what = "unread" -> {"row", "count"} [] what = "reads" -> {"row"} [] what = "tags" -> {"count"}
    [] what = "dms" -> {"count"} [] OTHER -> {"head"}

\* GET reads, mentions, dms and a channel's newest page, each read at once;
\* the list of conversations carries the newest message of each.
Read(q, piece) ==
  /\ q \in requests /\ piece \in PiecesOf(q.ask) \ q.got
  /\ requests' = (requests \ {q}) \cup
       {IF piece = "row"
        THEN [q EXCEPT !.got = @ \cup {piece}, !.row = row]
        ELSE [q EXCEPT !.got = @ \cup {piece}, !.head = Newest,
                       !.past = IF piece = "count" THEN row ELSE 0]}
  /\ UNCHANGED <<server, wire, signedIn, marker, screen, marks, doubts, spare>>

Landing(q, what) == q \in requests /\ q.ask = what /\ q.got = PiecesOf(what)

-----------------------------------------------------------------------------
(* What this client has read.                                               *)

\* Since it was read, this client has heard of a newer message or read further.
Overtaken(past, head) == head < told \/ past < read

\* Messages whose number is still to come.
Counts(e) == e.is \in {"mention", "dm"}
ToCount ==
  {j.id : j \in jobs} \cup {e.id : e \in {x \in ToSet(inbox) \cup ToSet(opening) : Counts(x)}}

\* markRead: at once here, on its way to the server.
MarkRead(m) ==
  /\ reads' = Later(reads, m) /\ counts' = 0
  /\ marks' = marks \cup {m} /\ read' = Later(read, m)
  /\ blurred' = \E n \in 1..Newest : n > m /\ waits[n] /\ n \notin ToCount

-----------------------------------------------------------------------------
(* The socket.                                                              *)

Heard(m) == latest' = Later(latest, m) /\ told' = Later(told, m)

\* channel:activity.
HearActivity ==
  /\ inbox # <<>> /\ Head(inbox).is = "activity"
  /\ inbox' = Tail(inbox)
  /\ Heard(Head(inbox).id)
  /\ UNCHANGED <<server, up, inRoom, opening, signedIn, reads, counts, screen, requests, marks,
                 read, stale, behind, blurred, spare>>

\* mention:new: the phone counts it whatever is on screen, the desktop client
\* unless the channel is.
HearMention ==
  LET m == Head(inbox).id
      counted == OnPhone \/ ~open
  IN  /\ inbox # <<>> /\ Head(inbox).is = "mention"
      /\ inbox' = Tail(inbox)
      /\ counts' = IF counted THEN counts + 1 ELSE counts
      /\ IF OnPhone THEN Heard(m) ELSE UNCHANGED <<latest, told>>
      /\ blurred' = (blurred \/ (counted <=> m <= read))
      /\ UNCHANGED <<server, up, inRoom, opening, signedIn, reads, screen, requests, marks,
                     read, stale, behind, spare>>

\* message:new and dm:message join the queue.
Enqueue ==
  /\ inbox # <<>> /\ Head(inbox).is \in {"new", "dm"}
  /\ opening' = Append(opening, Head(inbox)) /\ inbox' = Tail(inbox)
  /\ UNCHANGED <<server, up, inRoom, signedIn, marker, screen, requests, marks, doubts, spare>>

\* onMessage: the desktop client reads what it draws, the phone in an effect.
HearMessage ==
  LET m == Head(opening).id
  IN  /\ opening # <<>> /\ Head(opening).is = "new"
      /\ opening' = Tail(opening)
      /\ Heard(m)
      /\ shown' = IF open THEN Later(shown, m) ELSE shown
      /\ IF open /\ ~OnPhone THEN MarkRead(m) ELSE UNCHANGED <<reads, counts, marks, read, blurred>>
      /\ UNCHANGED <<server, up, inRoom, inbox, signedIn, open, marked, requests, stale, behind, spare>>

\* onDmMessage: the server's number, unless the conversation is on screen.
HearDm ==
  LET e == Head(opening)
  IN  /\ opening # <<>> /\ e.is = "dm"
      /\ opening' = Tail(opening)
      /\ Heard(e.id)
      /\ counts' = IF open THEN counts ELSE Waiting(e.past, e.head)
      /\ blurred' = IF open THEN blurred \/ e.id > read ELSE Overtaken(e.past, e.head)
      /\ UNCHANGED <<server, up, inRoom, inbox, signedIn, reads, screen, requests, marks,
                     read, stale, behind, spare>>

Drop ==
  /\ up /\ signedIn /\ Spend("drops")
  /\ up' = FALSE /\ inRoom' = FALSE /\ inbox' = <<>>
  /\ UNCHANGED <<server, opening, signedIn, marker, screen, requests, marks, doubts>>

\* onReconnected; the phone joins the room of the open channel again and asks
\* for what the channel has past its newest message.
Reconnect ==
  /\ ~up /\ signedIn
  /\ up' = TRUE /\ inRoom' = (OnPhone /\ open)
  /\ requests' = requests \cup AskedAgain \cup
       IF OnPhone /\ open /\ shown # 0 THEN {Asking("backfill")} ELSE {}
  /\ UNCHANGED <<server, inbox, opening, signedIn, marker, screen, marks, doubts, spare>>

-----------------------------------------------------------------------------
(* Answers.                                                                 *)

\* An answer has counted a tag whose mention:new is still to come.
CountedTwice(q) == kind = "text" /\ \E m \in ToCount : m <= q.head /\ waits[m]

Number(q) == Waiting(q.past, q.head)
WipesThem(q) == IF kind = "dm" THEN 0 ELSE Number(q)
\* "The DM counts come from refreshDms and must survive this."
Tagged(q) == IF kind = "dm" THEN counts ELSE Number(q)

LandMarker(q) == reads' = q.row /\ stale' = (q.row < read)
LandTags(q) ==
  /\ counts' = Tagged(q)
  /\ IF kind = "dm"
     THEN UNCHANGED <<blurred, told>>
     ELSE /\ blurred' = (Overtaken(q.past, q.head) \/ CountedTwice(q))
          /\ told' = Later(told, q.head)

\* refreshUnread.
LandUnread(q) ==
  /\ Landing(q, "unread")
  /\ requests' = requests \ {q}
  /\ LandMarker(q) /\ LandTags(q)
  /\ UNCHANGED <<server, wire, signedIn, latest, screen, marks, read, behind, spare>>

\* loadReads, which goes on to ask for the newest messages.
LandReads(q) ==
  /\ Landing(q, "reads")
  /\ requests' = (requests \ {q}) \cup (IF kind = "text" THEN {Asking("heads")} ELSE {})
  /\ LandMarker(q)
  /\ UNCHANGED <<server, wire, signedIn, latest, counts, screen, marks, told, read, behind, blurred, spare>>

\* loadMentions.
LandMentions(q) ==
  /\ Landing(q, "tags")
  /\ requests' = requests \ {q}
  /\ LandTags(q)
  /\ UNCHANGED <<server, wire, signedIn, latest, reads, screen, marks, read, stale, behind, spare>>

TakesIt(head) == IF head = 0 THEN latest ELSE head
\* "Never backwards" on the phone; the desktop client takes what it is given.
Taken(head) == IF OnPhone THEN Later(latest, head) ELSE TakesIt(head)
LandNewest(q, newest) ==
  latest' = newest /\ behind' = (q.head < told) /\ told' = Later(told, q.head)

\* refreshHeads, or the rest of loadReads.
LandHeads(q) ==
  /\ Landing(q, "heads")
  /\ requests' = requests \ {q}
  /\ LandNewest(q, Taken(q.head))
  /\ UNCHANGED <<server, wire, signedIn, reads, counts, screen, marks, read, stale, blurred, spare>>

\* refreshDms, loadDms.
LandDms(q) ==
  /\ Landing(q, "dms")
  /\ requests' = requests \ {q}
  /\ LandNewest(q, Taken(q.head))
  /\ counts' = (IF open THEN 0 ELSE Number(q))
  /\ blurred' = (Overtaken(q.past, q.head) \/ (open /\ Number(q) > 0))
  /\ UNCHANGED <<server, wire, signedIn, reads, screen, marks, read, stale, spare>>

-----------------------------------------------------------------------------
(* The reader.                                                              *)

\* The channel is opened: its room joined, its newest page asked for.
Open ==
  /\ signedIn /\ up /\ ~open /\ Spend("visits")
  /\ open' = TRUE /\ shown' = 0 /\ marked' = 0 /\ inRoom' = TRUE
  /\ requests' = requests \cup {Asking("page")}
  /\ UNCHANGED <<server, up, inbox, opening, signedIn, marker, marks, doubts>>

\* An answer that comes after the channel was left is dropped.
Leave ==
  /\ open
  /\ open' = FALSE /\ shown' = 0 /\ marked' = 0 /\ inRoom' = FALSE
  /\ requests' = {q \in requests : q.ask \notin {"page", "backfill"}}
  /\ UNCHANGED <<server, up, inbox, opening, signedIn, marker, marks, doubts, spare>>

\* The first page: the desktop client takes its newest message for the newest
\* there is, and reads it; the phone draws it.
LandPage(q) ==
  /\ Landing(q, "page")
  /\ requests' = requests \ {q}
  /\ shown' = q.head
  /\ IF OnPhone \/ q.head = 0
     THEN UNCHANGED <<marker, marks, told, read, behind, blurred>>
     ELSE LandNewest(q, TakesIt(q.head)) /\ MarkRead(q.head)
  /\ UNCHANGED <<server, wire, signedIn, open, marked, stale, spare>>

\* The phone's backfill; the desktop client's touches neither marker nor dot.
LandBackfill(q) ==
  /\ Landing(q, "backfill")
  /\ requests' = requests \ {q}
  /\ shown' = Later(shown, q.head)
  /\ UNCHANGED <<server, wire, signedIn, marker, open, marked, marks, doubts, spare>>

EffectDue == OnPhone /\ open /\ shown # 0 /\ shown # marked

\* The phone's effect: "once the newest message is on screen".
ReadOnScreen ==
  /\ EffectDue
  /\ marked' = shown
  /\ MarkRead(shown)
  /\ UNCHANGED <<server, wire, signedIn, latest, open, shown, requests, told, stale, behind, spare>>

\* signOut on the phone; on the desktop the whole of Chat goes.
SignOut ==
  /\ OnPhone /\ signedIn /\ ~open
  /\ signedIn' = FALSE /\ up' = FALSE /\ inRoom' = FALSE /\ inbox' = <<>>
  /\ latest' = 0 /\ reads' = 0 /\ counts' = 0
  /\ UNCHANGED <<server, opening, screen, requests, marks, doubts, spare>>

Server ==
  \/ \E tags \in BOOLEAN : Say(tags)
  \/ \E j \in jobs : Broadcast(j) \/ Sum(j) \/ NotifyDm(j)
  \/ \E m \in marks : KeepMark(m)
  \/ \E q \in requests : \E piece \in Pieces : Read(q, piece)

Socket == HearActivity \/ HearMention \/ Enqueue \/ HearMessage \/ HearDm \/ Drop \/ Reconnect

Answers ==
  \E q \in requests :
    \/ LandUnread(q) \/ LandReads(q) \/ LandMentions(q) \/ LandHeads(q) \/ LandDms(q)
    \/ LandPage(q) \/ LandBackfill(q)

Next == Server \/ Socket \/ Answers \/ Open \/ Leave \/ ReadOnScreen \/ SignOut

-----------------------------------------------------------------------------
(* Properties.                                                              *)

Rest ==
  /\ up /\ jobs = {} /\ inbox = <<>> /\ opening = <<>> /\ requests = {} /\ marks = {}
  /\ ~EffectDue

\* When nothing is on its way, the channel has its dot exactly if its newest
\* message is past the reader's marker, and its number is of what waits past
\* it: whatever was said while the connection was down, and however events,
\* answers and marks overtook each other.  The phone's newest message is right
\* without exception; otherwise what is known from an answer that was
\* overtaken between being read and landing, from a tag that was counted
\* twice, or passed over because the channel was on screen, is excepted.
UnreadIsRight ==
  Rest =>
    /\ OnPhone \/ ~behind => latest = Newest
    /\ ~stale => reads = row
    /\ ~blurred => counts = Waiting(row, Newest)

\* "Guarded against going backwards" (markRead, session.tsx; the desktop
\* client guards the same way): what was read stays read.
ReadStaysRead == [][signedIn' => reads' >= reads]_vars

\* "Left behind, the next person to sign in on this phone would be shown
\* somebody else's unread dots" (signOut, session.tsx).
SignedOutIsEmpty == ~signedIn => latest = 0 /\ reads = 0 /\ counts = 0
=============================================================================
