------------------------------ MODULE ReadingPlace ------------------------------
(***************************************************************************)
(* Where a reader is on the desktop, and comes back to: Chat.tsx's loading  *)
(* of a channel at its end, at the remembered place or around a message     *)
(* jumped to, paging backwards, and the way back to the newest message.     *)
(*                                                                          *)
(* The view is the message at its lower edge.  A page is read in one step   *)
(* and lands in a later one, with the frame that scrolls to it and its      *)
(* render; what was asked for by a load is dropped when the next one begins *)
(* and nothing else is.  What is said and deleted is heard at once: how     *)
(* that goes wrong, and sending, is ChannelScreen's.  The button's colour   *)
(* and the seconds for which a place is held are left out.                  *)
(*                                                                          *)
(* MarksWhereItLands is a plausible bug of the definition that follows.     *)
(***************************************************************************)
EXTENDS Naturals, Sequences, FiniteSets, SequencesExt

CONSTANTS
  Said,        \* the channel of each message there is at first, in their order
  Places,      \* where the reader may have been in the channel opened first
  PageSize,    \* limit
  MaxRestore,  \* MAX_RESTORE_PAGES
  MaxMessages, MaxAtOnce, MaxTurns, MaxTroubles   \* bounds

NoId == 0
Ids == 1..MaxMessages
Rooms == ToSet(Said)
Kinds == {"open", "jump", "older", "live", "fill"}

ReadingAssumption ==
  /\ Said # <<>> /\ Len(Said) <= MaxMessages /\ Places \subseteq 0..Len(Said)
  /\ PageSize \in Nat \ {0, 1} /\ {MaxRestore, MaxMessages, MaxAtOnce, MaxTurns, MaxTroubles} \subseteq Nat

VARIABLES
  home, deleted,   \* the channel of each message; which are gone
  open, hears,     \* activeChannel; the socket is in its room
  list, cursor, inHistory, lastSeen,
  view, atBottom,  \* the message at the lower edge; atBottomRef
  positions, reads, \* of each channel, NoId for none
  asked,           \* pages under way
  followed,        \* messages that were on screen with the end of their channel
  wanted,          \* where the reader asked to be
  \* What PlaceIsKept excuses: the list got what is not of it, or not what was
  \* asked for; what the reader asked last was not heeded, or cannot last;
  \* channels whose place or marker went to what was not followed; messages
  \* said, and deleted, between the reading of a page and its landing.
  torn, unheeded, blamed, missed, ghosts,
  spare            \* bounds that are left

rows == <<home, deleted>>
window == <<list, cursor, inHistory, lastSeen, view, atBottom>>
kept == <<positions, reads>>
excuses == <<torn, unheeded, blamed, missed, ghosts>>
vars == <<rows, open, hears, window, kept, asked, followed, wanted, excuses, spare>>

\* `from' is the cursor, the message jumped to or the newest seen; `anchor' and
\* `got' are a load's, which may take several pages; `no' tells two clicks apart.
Page == [kind : Kinds, channel : Rooms, from : 0..MaxMessages, anchor : 0..MaxMessages, got : Seq(Ids),
         left : 0..MaxRestore, at : {"asked", "read"}, ids : Seq(Ids), older : 0..MaxMessages,
         newer : 0..MaxMessages, stale : BOOLEAN, no : 1..2]

TypeOK ==
  /\ home \in Seq(Rooms) /\ Len(home) <= MaxMessages /\ deleted \subseteq Ids
  /\ open \in Rooms /\ hears \in BOOLEAN
  /\ list \in Seq(Ids) /\ {cursor, lastSeen, view, wanted} \subseteq 0..MaxMessages
  /\ inHistory \in BOOLEAN /\ atBottom \in BOOLEAN
  /\ positions \in [Rooms -> 0..MaxMessages] /\ reads \in [Rooms -> 0..MaxMessages]
  /\ asked \subseteq Page /\ followed \subseteq Ids
  /\ torn \in BOOLEAN /\ unheeded \in BOOLEAN /\ blamed \subseteq Rooms
  /\ missed \subseteq Ids /\ ghosts \subseteq Ids
  /\ spare \in [{"turns", "troubles"} -> Nat]

There(c) == {m \in DOMAIN home : home[m] = c} \ deleted
Drawn == ToSet(list)
Later(a, b) == IF a > b THEN a ELSE b
EndOf(l) == IF l = <<>> THEN NoId ELSE Last(l)
StartOf(l) == IF l = <<>> THEN NoId ELSE Head(l)
Asking(k, c, from) ==
  [kind |-> k, channel |-> c, from |-> from, anchor |-> NoId, got |-> <<>>, left |-> 0, at |-> "asked",
   ids |-> <<>>, older |-> NoId, newer |-> NoId, stale |-> FALSE, no |-> 1]
Opening(c, place) == [Asking("open", c, NoId) EXCEPT !.anchor = place, !.left = MaxRestore]
Loads(p) == p.kind \in {"open", "jump"}
Loading == \E p \in asked : Loads(p)
\* What is on screen is the end of the channel, as far as it has got.
AtTheEnd == ~inHistory /\ ~torn /\ ~Loading /\ \A p \in asked : p.kind # "live"

\* Opened as the app starts, where it was left.
Init ==
  /\ home = Said /\ deleted = {} /\ open = Said[1] /\ hears = TRUE
  /\ list = <<>> /\ cursor = NoId /\ inHistory = FALSE /\ lastSeen = NoId /\ view = NoId /\ atBottom = TRUE
  /\ \E place \in Places :
       /\ positions = [c \in Rooms |-> IF c = open THEN place ELSE NoId]
       /\ wanted = place /\ asked = {Opening(open, place)}
       /\ followed = {place} \ {NoId}
  /\ reads = [c \in Rooms |-> NoId]
  /\ torn = FALSE /\ unheeded = FALSE /\ blamed = {} /\ missed = {} /\ ghosts = {}
  /\ spare = [turns |-> MaxTurns, troubles |-> MaxTroubles]

Spend(what) == spare[what] > 0 /\ spare' = [spare EXCEPT ![what] = @ - 1]

\* updateScrollState: the place is remembered, the end as none, and not while
\* parked in history.
Noted(c, id, bottom, parked) ==
  IF parked \/ id = NoId THEN positions
  ELSE [positions EXCEPT ![c] = IF bottom THEN NoId ELSE id]

MarkRead(c, m) == reads' = [reads EXCEPT ![c] = Later(@, m)]

-----------------------------------------------------------------------------
(* The channels.                                                            *)

\* onMessage, of the open channel, and scrollToBottom if that is where the
\* reader is; it is marked as read wherever the view is parked.
Say(c) ==
  /\ Len(home) < MaxMessages
  /\ home' = Append(home, c)
  /\ LET m == Len(home) + 1 IN
     IF c = open /\ hears
     THEN /\ list' = Append(list, m) /\ lastSeen' = m
          /\ MarkRead(c, m)
          /\ view' = IF atBottom THEN m ELSE view
          /\ wanted' = IF atBottom /\ wanted = view THEN NoId ELSE wanted
          /\ positions' = IF atBottom /\ list # <<>> THEN Noted(c, m, TRUE, inHistory) ELSE positions
          /\ followed' = IF AtTheEnd THEN followed \cup {m} ELSE followed
          /\ blamed' = IF AtTheEnd THEN blamed ELSE blamed \cup {c}
          /\ torn' = (torn \/ ~(AtTheEnd \/ Loading))
          /\ missed' = IF \E p \in asked : p.channel = c /\ (p.at = "read" \/ p.got # <<>>)
                        THEN missed \cup {m} ELSE missed
     ELSE /\ missed' = IF c = open THEN missed \cup {m} ELSE missed
          /\ UNCHANGED <<list, lastSeen, view, wanted, kept, followed, blamed, torn>>
  /\ UNCHANGED <<deleted, open, hears, cursor, inHistory, atBottom, asked, unheeded, ghosts, spare>>

\* onMessageDeleted, which a page read before it undoes.
Delete(m) ==
  /\ m \in There(open) /\ Spend("troubles")
  /\ deleted' = deleted \cup {m}
  /\ list' = IF hears THEN SelectSeq(list, LAMBDA x : x # m) ELSE list
  /\ view' = IF hears /\ view = m THEN EndOf(SelectSeq(list, LAMBDA x : x < m)) ELSE view
  /\ ghosts' = IF ~hears \/ \E p \in asked : m \in ToSet(p.ids \o p.got) THEN ghosts \cup {m} ELSE ghosts
  /\ UNCHANGED <<home, open, hears, cursor, inHistory, lastSeen, atBottom, kept, asked, followed, wanted,
                 torn, unheeded, blamed, missed>>

\* The connection drops and comes back: onReconnected asks for the newest page.
Reconnect ==
  /\ Spend("troubles")
  /\ hears' = FALSE
  /\ asked' = asked \cup {Asking("fill", open, lastSeen)}
  /\ UNCHANGED <<rows, open, window, kept, followed, wanted, excuses>>

-----------------------------------------------------------------------------
(* The reader.                                                              *)

\* The effect that loads a channel; the load before it is cancelled, and only
\* that.
Load(p) ==
  /\ open' = p.channel /\ hears' = TRUE
  /\ list' = <<>> /\ view' = NoId
  /\ atBottom' \in {atBottom, TRUE}
  /\ inHistory' = (inHistory /\ p.kind = "jump")
  /\ asked' = {p} \cup {[q EXCEPT !.stale = TRUE] : q \in {r \in asked : ~Loads(r)}}
  /\ unheeded' = FALSE
  /\ UNCHANGED <<cursor, lastSeen, kept>>

Visit(c) ==
  /\ c # open /\ Spend("turns")
  /\ Load(Opening(c, positions[c]))
  /\ wanted' = positions[c]
  /\ UNCHANGED <<rows, followed, torn, blamed, missed, ghosts>>

\* jumpTo: what is loaded is scrolled to.
Jump(c, m) ==
  /\ home[m] = c /\ Spend("turns")
  /\ wanted' = m
  /\ IF c = open /\ m \in Drawn
     THEN /\ view' = m /\ atBottom' = (m = EndOf(list))
          /\ positions' = Noted(c, m, m = EndOf(list), inHistory)
          /\ blamed' = IF m \in followed \/ inHistory THEN blamed ELSE blamed \cup {c}
          /\ unheeded' = (asked # {})
          /\ UNCHANGED <<open, hears, list, cursor, inHistory, lastSeen, reads, asked>>
     ELSE Load(Asking("jump", c, m)) /\ UNCHANGED blamed
  /\ UNCHANGED <<rows, followed, torn, missed, ghosts>>

\* A notice is clicked.  It calls the jumpTo of the first render, in which no
\* channel is open: nothing happens if it is this one.
Notice(c, m) ==
  /\ m \in There(c) /\ Spend("turns")
  /\ wanted' = m
  /\ IF c = open
     THEN unheeded' = TRUE /\ UNCHANGED <<open, hears, window, kept, asked>>
     ELSE Load(Asking("jump", c, m))
  /\ UNCHANGED <<rows, followed, torn, blamed, missed, ghosts>>

Scroll(m) ==
  /\ m \in Drawn \ {view} /\ Spend("turns")
  /\ view' = m /\ atBottom' = (m = EndOf(list))
  /\ positions' = Noted(open, m, atBottom', inHistory)
  /\ wanted' = NoId /\ unheeded' = FALSE
  /\ blamed' = IF m \in followed \/ inHistory THEN blamed ELSE blamed \cup {open}
  /\ UNCHANGED <<rows, open, hears, list, cursor, inHistory, lastSeen, reads, asked, followed, torn,
                 missed, ghosts>>

AtOnce(k) == Cardinality({p \in asked : p.kind = k})

LoadOlder ==
  /\ cursor # NoId /\ AtOnce("older") < 2 /\ Cardinality(asked) < MaxAtOnce /\ Spend("turns")
  /\ asked' = asked \cup {[Asking("older", open, cursor) EXCEPT !.anchor = view, !.no =
                             IF \E p \in asked : p.kind = "older" /\ p.no = 1 THEN 2 ELSE 1]}
  /\ UNCHANGED <<rows, open, hears, window, kept, followed, wanted, excuses>>

\* jumpToLatest: in history the newest page is asked for, and what is on screen
\* counts as the end already.
JumpToLatest ==
  /\ ~atBottom /\ Spend("turns")
  /\ wanted' = NoId /\ unheeded' = FALSE
  /\ IF inHistory
     THEN /\ inHistory' = FALSE
          /\ asked' = asked \cup {Asking("live", open, NoId)}
          /\ UNCHANGED <<view, atBottom, positions>>
     ELSE /\ view' = EndOf(list) /\ atBottom' = TRUE
          /\ positions' = Noted(open, view', TRUE, FALSE)
          /\ UNCHANGED <<inHistory, asked>>
  /\ UNCHANGED <<rows, open, hears, list, cursor, lastSeen, reads, followed, torn, blamed, missed, ghosts>>

-----------------------------------------------------------------------------
(* Pages.                                                                   *)

Shortest(a, b) == IF a < b THEN a ELSE b
Latest(S, n) == Reverse(SubSeq(SetToSortSeq(S, >), 1, Shortest(n, Cardinality(S))))
Earliest(S, n) == SubSeq(SetToSortSeq(S, <), 1, Shortest(n, Cardinality(S)))
Half == IF PageSize \div 2 > 1 THEN PageSize \div 2 ELSE 1

\* MessagesController.history and window: a cursor at each end of the page that
\* may have more.
Read(p) ==
  /\ p.at = "asked"
  /\ LET below == IF p.kind = "jump" THEN Latest({m \in There(p.channel) : m <= p.from}, Half)
                  ELSE Latest({m \in There(p.channel) : p.kind \in {"live", "fill"} \/ p.from = NoId
                                                          \/ m < p.from}, PageSize)
         above == IF p.kind = "jump" THEN Earliest({m \in There(p.channel) : m > p.from}, PageSize - Half)
                  ELSE <<>>
         full == IF p.kind = "jump" THEN Half ELSE PageSize
     IN  asked' = (asked \ {p}) \cup
           {[p EXCEPT !.at = "read", !.ids = below \o above,
               !.older = IF Len(below) = full THEN Head(below) ELSE NoId,
               !.newer = IF p.kind = "jump" /\ Len(above) = PageSize - Half THEN Last(above) ELSE NoId]}
  /\ UNCHANGED <<rows, open, hears, window, kept, followed, wanted, excuses, spare>>

\* What a new list leaves of the excuses, and what else was asked for an old one.
Replaces(p, l) ==
  /\ list' = l /\ cursor' = p.older
  /\ asked' = {[q EXCEPT !.stale = TRUE] : q \in asked \ {p}}
  /\ torn' = p.stale
  /\ missed' = {m \in missed : m > EndOf(l)}

MarksWhereItLands(p) == FALSE
\* There are newer messages below the page.
Parked(p) == p.newer # NoId

\* ... around a message.
LandsOnJump(p) ==
  /\ p.kind = "jump"
  /\ Replaces(p, p.ids)
  /\ inHistory' = Parked(p)
  /\ view' = IF p.from \in ToSet(p.ids) THEN p.from ELSE EndOf(p.ids)
  /\ atBottom' = (view' = EndOf(p.ids))
  /\ positions' = Noted(open, view', atBottom', Parked(p))
  /\ IF Parked(p) \/ p.ids = <<>>
     THEN UNCHANGED <<lastSeen, reads, followed>>
     ELSE /\ lastSeen' = Last(p.ids) /\ MarkRead(open, Last(p.ids))
          /\ followed' = IF p.newer = NoId THEN followed \cup ToSet(p.ids) ELSE followed
  /\ UNCHANGED <<wanted, blamed>>

\* ... at the end, and as many pages before it as it takes to find the place.
Loaded(p) == p.ids \o p.got
Found(p) == p.anchor \in ToSet(Loaded(p)) \/ (Loaded(p) # <<>> /\ p.anchor > Head(Loaded(p)))
GoesOn(p) == p.anchor # NoId /\ p.older # NoId /\ p.left > 0 /\ ~Found(p)

WalksBack(p) ==
  /\ p.kind = "open" /\ GoesOn(p)
  /\ asked' = (asked \ {p}) \cup
       {[Opening(p.channel, p.anchor) EXCEPT !.from = p.older, !.got = Loaded(p), !.left = p.left - 1]}
  /\ UNCHANGED <<window, kept, followed, wanted, torn, blamed, missed>>

LandsOnOpen(p) ==
  /\ p.kind = "open" /\ ~GoesOn(p)
  /\ LET l == Loaded(p)
         restored == p.anchor # EndOf(l) /\ p.anchor \in ToSet(l)
     IN  /\ Replaces(p, l)
         /\ lastSeen' = EndOf(l)
         /\ MarkRead(open, EndOf(l))
         /\ view' = IF restored THEN p.anchor ELSE EndOf(l)
         /\ atBottom' = (view' = EndOf(l))
         /\ positions' = Noted(open, view', atBottom', inHistory)
         /\ followed' = followed \cup ToSet(l)
         /\ wanted' = IF Found(p) THEN wanted ELSE NoId
  /\ UNCHANGED <<inHistory, blamed>>

\* loadOlder: put before whatever the list is by now, and scrolled to where the
\* reader was when it was asked for.
LandsOnOlder(p) ==
  /\ p.kind = "older"
  /\ list' = p.ids \o list /\ cursor' = p.older
  /\ \E v \in IF p.anchor \in Drawn THEN {p.anchor} ELSE IF list' = <<>> THEN {NoId} ELSE ToSet(list') :
       /\ view' = v /\ atBottom' = (v = EndOf(list'))
       /\ positions' = Noted(open, v, atBottom', inHistory)
       /\ blamed' = IF v \in followed \/ inHistory THEN blamed ELSE blamed \cup {open}
  /\ asked' = {IF q.kind = "older" THEN [q EXCEPT !.stale = TRUE] ELSE q : q \in asked \ {p}}
  /\ torn' = (torn \/ p.stale)
  /\ followed' = IF AtTheEnd /\ ~p.stale THEN followed \cup ToSet(p.ids) ELSE followed
  /\ UNCHANGED <<inHistory, lastSeen, reads, wanted, missed>>

\* jumpToLatest, into whatever channel is open by now.
LandsOnLive(p) ==
  /\ p.kind = "live"
  /\ Replaces(p, p.ids)
  /\ lastSeen' = IF p.ids = <<>> THEN lastSeen ELSE Last(p.ids)
  /\ MarkRead(p.channel, EndOf(p.ids))
  /\ view' = EndOf(p.ids) /\ atBottom' = TRUE
  /\ positions' = Noted(open, view', TRUE, inHistory)
  /\ followed' = IF p.stale THEN followed ELSE followed \cup ToSet(p.ids)
  /\ blamed' = IF p.stale THEN blamed \cup {p.channel} ELSE blamed
  /\ UNCHANGED <<inHistory, wanted>>

\* backfill: what is newer than what was seen when it was asked for is put at
\* the end of the list, wherever that is, and with a hole if a page was too
\* little.
LandsOnFill(p) ==
  /\ p.kind = "fill"
  /\ LET fresh == SelectSeq(p.ids, LAMBDA m : m \notin Drawn /\ m > p.from)
         hole == \E m \in There(p.channel) : p.from < m /\ m < StartOf(p.ids)
     IN  /\ list' = list \o fresh
         /\ view' = IF atBottom THEN EndOf(list') ELSE view
         /\ wanted' = IF atBottom /\ wanted = view /\ fresh # <<>> THEN NoId ELSE wanted
         /\ torn' = (torn \/ ~AtTheEnd \/ p.stale \/ hole)
         /\ followed' = IF torn' THEN followed ELSE followed \cup ToSet(fresh)
  /\ lastSeen' = IF p.ids = <<>> THEN lastSeen ELSE Last(p.ids)
  /\ asked' = asked \ {p}
  /\ UNCHANGED <<cursor, inHistory, atBottom, kept, blamed, missed>>

Lands(p) ==
  /\ p.at = "read"
  /\ LandsOnJump(p) \/ WalksBack(p) \/ LandsOnOpen(p) \/ LandsOnOlder(p) \/ LandsOnLive(p) \/ LandsOnFill(p)
  /\ UNCHANGED <<rows, open, hears, unheeded, ghosts, spare>>

\* A request fails, which nothing catches: a load leaves the list empty, and the
\* way to the end leaves the reader in history without its being known.
Fails(p) ==
  /\ Spend("troubles")
  /\ asked' = asked \ {p}
  /\ torn' = (torn \/ p.kind \in {"open", "jump", "live"})
  /\ UNCHANGED <<rows, open, hears, window, kept, followed, wanted, unheeded, blamed, missed, ghosts>>

Next ==
  \/ \E c \in Rooms : Say(c) \/ Visit(c)
  \/ \E m \in DOMAIN home : Delete(m) \/ Jump(home[m], m) \/ Notice(home[m], m) \/ Scroll(m)
  \/ LoadOlder \/ JumpToLatest \/ Reconnect
  \/ \E p \in asked : Read(p) \/ Lands(p) \/ Fails(p)

-----------------------------------------------------------------------------

Quiet == asked = {}

\* A look at history is no reading: neither the place nor the marker moves to
\* what was only found by a jump.  The code breaks it: onMessage marks what it
\* hears as read wherever the view is parked, and jumpToLatest takes the view
\* for the end before the page is there.
LookingIsNotReading ==
  \A c \in Rooms : {positions[c], reads[c]} \subseteq followed \cup {NoId}

\* The list is a stretch of the channel, to its end unless it is parked.  Broken
\* by what is heard or fetched while parked, and by answers that come too late.
ListIsAStretch ==
  /\ \A i, j \in DOMAIN list : i < j => list[i] < list[j]
  /\ Drawn \subseteq There(open) \cup ghosts
  /\ \A m \in There(open) \ (Drawn \cup missed) :
       \/ m < cursor \/ (m < StartOf(list) /\ cursor # NoId)
       \/ inHistory /\ m > EndOf(list)

\* The reader is where jumpTo, or the place remembered, was to take them.  Broken
\* by a notice of the channel that is open.
IsWhereAsked == wanted \in There(open) => view = wanted

\* What is left of the three: in a channel nothing was heard in while parked,
\* place and marker are at what was followed to the end; and once all answers are
\* in, none of them late or failed, the list is a stretch and the reader where
\* they asked to be, unless that was a notice of this channel.
PlaceIsKept ==
  /\ \A c \in Rooms \ blamed : {positions[c], reads[c]} \subseteq followed \cup {NoId}
  /\ Quiet /\ ~torn => ListIsAStretch /\ (unheeded \/ IsWhereAsked)
=============================================================================
