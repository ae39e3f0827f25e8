------------------------------ MODULE PhoneScreen ------------------------------
(***************************************************************************)
(* One channel on the phone: mobile/app/channel/[id].tsx, the socket under  *)
(* it and the sink between them.                                            *)
(*                                                                          *)
(* The list is a window on the channel, newest first.  Pages are fetched at *)
(* either end of it, around a message jumped to, from the live end and,     *)
(* after every reconnect, forwards from the newest message held; and what   *)
(* the socket says is folded in at the same time.  A page that was asked    *)
(* for is not taken back when the list it was meant for is replaced.        *)
(*                                                                          *)
(* A screen opened over this one - a notice that is tapped - takes the      *)
(* session's only sink, and gives it back to nobody.                        *)
(*                                                                          *)
(* Sends, which work as the desktop's do, the composer and a first page     *)
(* that cannot be had are left out.  The two halves of a page around a      *)
(* message are read at once.                                                *)
(*                                                                          *)
(* StopsAtOnePage and AtTheEnd are plausible bugs of the definition that    *)
(* follows each.                                                            *)
(***************************************************************************)
EXTENDS Naturals, Sequences, FiniteSets, SequencesExt

CONSTANTS
  PageSize,    \* PAGE
  Olds,        \* numbers of messages there may be when the screen opens
  MaxMessages, \* bound on messages
  MaxUntold,   \* bound on handlers between their write and their event
  MaxAsked,    \* bound on pages under way at once
  MaxTwists    \* bound on edits, deletions, jumps, screens opened over this one, drops and failures

NoId == 0
Ids == 1..MaxMessages
Asks == {"open", "older", "newer", "live", "jump", "fill"}

PhoneScreenAssumption ==
  /\ PageSize \in Nat \ {0, 1} /\ Olds \subseteq 0..MaxMessages
  /\ {MaxMessages, MaxUntold, MaxAsked, MaxTwists} \subseteq Nat

VARIABLES
  written, deleted, \* the rows
  untold,    \* what handlers have yet to emit
  up,        \* the socket is connected
  fresh,     \* and was built anew: its first connect is no reconnect
  joining, joined, \* the channel's room
  inbox,     \* packets on their way, and in the queue that decrypts messages in order
  sink,      \* whose sink the session holds
  list, older, newer, newest, \* messages, the two cursors, newestId
  asked,     \* pages under way
  excused,   \* messages the screen had no way to know of
  ghosts,    \* deletions it had no way to apply
  strays,    \* messages drawn although they are from below what was fetched
  tangled,   \* a page has come into a list it was not asked for
  spare      \* twists that are left

server == <<written, deleted, untold>>
socket == <<up, fresh, joining, joined, inbox>>
window == <<list, older, newer, newest>>
blame == <<excused, ghosts, strays, tangled>>
vars == <<server, socket, sink, window, asked, blame, spare>>

Event == [is : {"new", "updated", "deleted"}, id : Ids]
Page == [kind : Asks, at : {"asked", "read"}, from : 0..MaxMessages, ids : Seq(Ids),
         older : 0..MaxMessages, newer : 0..MaxMessages, stale : BOOLEAN]

TypeOK ==
  /\ written \subseteq Ids /\ deleted \subseteq Ids /\ untold \subseteq Event
  /\ up \in BOOLEAN /\ fresh \in BOOLEAN /\ joining \in BOOLEAN /\ joined \in BOOLEAN
  /\ inbox \in Seq(Event)
  /\ sink \in {"mine", "theirs", "nobody's"}
  /\ list \in Seq(Ids) /\ {older, newer, newest} \subseteq 0..MaxMessages
  /\ asked \subseteq Page
  /\ excused \subseteq Ids /\ ghosts \subseteq Ids /\ strays \subseteq Ids /\ tangled \in BOOLEAN
  /\ spare \in 0..MaxTwists

Asking(k, from) ==
  [kind |-> k, at |-> "asked", from |-> from, ids |-> <<>>, older |-> NoId, newer |-> NoId, stale |-> FALSE]

\* A screen that has just been mounted.
Init ==
  /\ \E n \in Olds : written = 1..n
  /\ deleted = {} /\ untold = {}
  /\ up = TRUE /\ fresh = FALSE /\ joining = TRUE /\ joined = FALSE
  /\ inbox = <<>> /\ sink = "mine"
  /\ list = <<>> /\ older = NoId /\ newer = NoId /\ newest = NoId
  /\ asked = {Asking("open", NoId)}
  /\ excused = {} /\ ghosts = {} /\ strays = {} /\ tangled = FALSE
  /\ spare = MaxTwists

Spend == spare > 0 /\ spare' = spare - 1

There == written \ deleted
Drawn == {list[i] : i \in DOMAIN list}
UnderWay(k) == \E p \in asked : p.kind = k
Arriving == {e.id : e \in untold} \cup {inbox[i].id : i \in DOMAIN inbox}

-----------------------------------------------------------------------------
(* The server.                                                              *)

Post ==
  /\ written # Ids /\ Cardinality(untold) < MaxUntold
  /\ LET m == Cardinality(written) + 1
     IN  written' = written \cup {m} /\ untold' = untold \cup {[is |-> "new", id |-> m]}
  /\ UNCHANGED <<deleted, socket, sink, window, asked, blame, spare>>

\* An edit or a reaction.
Change(m) ==
  /\ m \in There /\ Cardinality(untold) < MaxUntold /\ Spend
  /\ untold' = untold \cup {[is |-> "updated", id |-> m]}
  /\ UNCHANGED <<written, deleted, socket, sink, window, asked, blame>>

Delete(m) ==
  /\ m \in There /\ Cardinality(untold) < MaxUntold /\ Spend
  /\ deleted' = deleted \cup {m}
  /\ untold' = untold \cup {[is |-> "deleted", id |-> m]}
  /\ UNCHANGED <<written, socket, sink, window, asked, blame>>

\* The room hears of messages, everybody of deletions.
Tell(e) ==
  /\ e \in untold
  /\ untold' = untold \ {e}
  /\ IF up /\ (joined \/ e.is = "deleted")
     THEN inbox' = Append(inbox, e) /\ UNCHANGED <<excused, ghosts>>
     ELSE /\ excused' = IF up /\ e.is = "new" THEN excused \cup {e.id} ELSE excused
          /\ ghosts' = IF e.is = "deleted" THEN ghosts \cup {e.id} ELSE ghosts
          /\ UNCHANGED inbox
  /\ UNCHANGED <<written, deleted, up, fresh, joining, joined, sink, window, asked, strays,
                 tangled, spare>>

Join ==
  /\ up /\ joining
  /\ joining' = FALSE /\ joined' = TRUE
  /\ UNCHANGED <<server, up, fresh, inbox, sink, window, asked, blame, spare>>

Latest(S, n) == SubSeq(SetToSortSeq(S, >), 1, IF Cardinality(S) < n THEN Cardinality(S) ELSE n)
Earliest(S, n) == Reverse(SubSeq(SetToSortSeq(S, <), 1, IF Cardinality(S) < n THEN Cardinality(S) ELSE n))

\* GET messages, newest first: at the live end or before a message, after one,
\* around one.  A cursor is given at an end whose page is full.
Before(from) ==
  LET page == Latest({x \in There : from = NoId \/ x < from}, PageSize)
  IN  [ids |-> page, older |-> IF Len(page) = PageSize THEN Last(page) ELSE NoId, newer |-> NoId]

After(from) ==
  LET page == Earliest({x \in There : x > from}, PageSize)
  IN  [ids |-> page, older |-> NoId, newer |-> IF Len(page) = PageSize THEN Head(page) ELSE NoId]

Around(m) ==
  LET half == PageSize \div 2
      below == Latest({x \in There : x <= m}, half)
      above == Earliest({x \in There : x > m}, PageSize - half)
  IN  [ids |-> above \o below,
       older |-> IF Len(below) = half THEN Last(below) ELSE NoId,
       newer |-> IF Len(above) = PageSize - half THEN Head(above) ELSE NoId]

History(p) ==
  /\ p.at = "asked"
  /\ LET page == CASE p.kind \in {"open", "older", "live"} -> Before(p.from)
                   [] p.kind \in {"newer", "fill"} -> After(p.from)
                   [] p.kind = "jump" -> Around(p.from)
     IN  asked' = (asked \ {p}) \cup
           {[p EXCEPT !.at = "read", !.ids = page.ids, !.older = page.older, !.newer = page.newer]}
  /\ UNCHANGED <<server, socket, sink, window, blame, spare>>

-----------------------------------------------------------------------------
(* The connection.                                                          *)

FirstDeletion == SelectInSeq(inbox, LAMBDA e : e.is = "deleted")

\* What has reached the queue is still delivered.
Cut(again) ==
  /\ up' = FALSE /\ fresh' = again /\ joining' = FALSE /\ joined' = FALSE
  /\ \E n \in 0..(IF FirstDeletion = 0 THEN Len(inbox) ELSE FirstDeletion - 1) :
       /\ inbox' = SubSeq(inbox, 1, n)
       /\ ghosts' = ghosts \cup {inbox[i].id : i \in {k \in (n + 1)..Len(inbox) : inbox[k].is = "deleted"}}
  /\ UNCHANGED <<server, sink, window, asked, excused, strays, tangled>>

Drop == up /\ Spend /\ Cut(fresh)

\* The effect that holds the socket depends on `me': a name or a picture that
\* changes takes the socket down and builds another.
Rebuild == Spend /\ Cut(TRUE)

\* onReconnected: the room is joined again, and the walk forward begins, in
\* place of one that is under way.  It looks at nothing below the newest
\* message held, and has nowhere to begin without one.
Reconnect ==
  /\ ~up /\ ~fresh
  /\ up' = TRUE /\ joining' = TRUE
  /\ asked' = {p \in asked : p.kind # "fill"} \cup
       IF newest = NoId THEN {} ELSE {Asking("fill", newest)}
  /\ excused' = excused \cup ((IF newest = NoId THEN written ELSE 1..newest) \ Drawn)
  /\ UNCHANGED <<server, fresh, joined, inbox, sink, window, ghosts, strays, tangled, spare>>

\* The first connect of a new socket is followed by neither.
FirstConnect ==
  /\ ~up /\ fresh
  /\ up' = TRUE /\ fresh' = FALSE
  /\ excused' = excused \cup (written \ Drawn)
  /\ UNCHANGED <<server, joining, joined, inbox, sink, window, asked, ghosts, strays, tangled,
                 spare>>

-----------------------------------------------------------------------------
(* What the socket says.                                                    *)

\* A deletion is applied at once, past the messages that wait in the queue; it
\* is undone by what is told after it, by what waits, and by a page.
HearDeletion ==
  /\ FirstDeletion # 0
  /\ inbox' = RemoveAt(inbox, FirstDeletion)
  /\ LET m == inbox[FirstDeletion].id
         undone == m \in {e.id : e \in untold} \cup {inbox'[i].id : i \in DOMAIN inbox'}
                        \cup UNION {{p.ids[i] : i \in DOMAIN p.ids} : p \in asked}
     IN  /\ list' = IF sink = "mine" THEN SelectSeq(list, LAMBDA x : x # m) ELSE list
         /\ ghosts' = IF sink # "mine" \/ undone THEN ghosts \cup {m} ELSE ghosts
  /\ UNCHANGED <<server, up, fresh, joining, joined, sink, older, newer, newest, asked, excused,
                 strays, tangled, spare>>

AtTheEnd(l, m) == IF m \in {l[i] : i \in DOMAIN l} THEN l ELSE <<m>> \o l
\* upsert: a message that is held is replaced, one that is not goes where it
\* belongs.
Upsert(l, m) ==
  LET i == SelectInSeq(l, LAMBDA x : x < m)
  IN  IF m \in {l[j] : j \in DOMAIN l} THEN l
      ELSE IF i = 0 THEN Append(l, m) ELSE InsertAt(l, i, m)

Later(a, b) == IF a > b THEN a ELSE b

\* The sink's onMessage and onUpdated.
HearMessage ==
  /\ inbox # <<>> /\ Head(inbox).is # "deleted"
  /\ inbox' = Tail(inbox)
  /\ LET m == Head(inbox).id
     IN  IF sink = "mine"
         THEN /\ list' = Upsert(list, m) /\ newest' = Later(newest, m)
              /\ strays' = IF m \notin Drawn /\ m < older THEN strays \cup {m} ELSE strays
              /\ UNCHANGED excused
         ELSE excused' = excused \cup {m} /\ UNCHANGED <<list, newest, strays>>
  /\ UNCHANGED <<server, up, fresh, joining, joined, sink, older, newer, asked, ghosts, tangled, spare>>

\* A notice opens another channel over this one, whose screen stays mounted.
Cover ==
  /\ sink # "theirs" /\ Spend
  /\ sink' = "theirs"
  /\ UNCHANGED <<server, socket, window, asked, blame>>

\* ... and going back from it clears the sink.
Uncover ==
  /\ sink = "theirs"
  /\ sink' = "nobody's"
  /\ UNCHANGED <<server, socket, window, asked, blame, spare>>

-----------------------------------------------------------------------------
(* Pages.                                                                   *)

Ask(k, from) ==
  /\ ~UnderWay(k) /\ ~UnderWay("open") /\ Cardinality(asked) < MaxAsked
  /\ asked' = asked \cup {Asking(k, from)}
  /\ UNCHANGED <<server, socket, sink, window, blame>>

LoadOlder == older # NoId /\ Ask("older", older) /\ UNCHANGED spare
LoadNewer == newer # NoId /\ Ask("newer", newer) /\ UNCHANGED spare
GoLive == newer # NoId /\ Ask("live", NoId) /\ UNCHANGED spare
JumpTo(m) == m \in written \ Drawn /\ Spend /\ Ask("jump", m)

\* The first page, the live one and one jumped to take the list's place, and
\* whatever else was asked for was asked for another list.
Replaced(p) ==
  /\ p.kind \in {"open", "live", "jump"}
  /\ list' = p.ids /\ older' = p.older /\ newer' = p.newer
  /\ newest' = IF p.ids = <<>> THEN NoId ELSE Head(p.ids)
  /\ excused' = {x \in (excused \cup Drawn) \ {p.ids[i] : i \in DOMAIN p.ids} :
                   x >= p.older /\ (p.newer = NoId \/ x <= p.newer)}
  /\ asked' = {[q EXCEPT !.stale = TRUE] : q \in asked \ {p}}
  /\ strays' = {} /\ tangled' = p.stale

OlderLoaded(p) ==
  /\ p.kind = "older"
  /\ list' = list \o p.ids /\ older' = p.older
  /\ asked' = asked \ {p}
  /\ UNCHANGED <<newer, newest, excused, strays>>

\* Every message of a page goes through upsert.
Fold(p) ==
  /\ list' = FoldSeq(LAMBDA m, l : Upsert(l, m), list, p.ids)
  /\ newest' = IF p.ids = <<>> THEN newest ELSE Later(newest, Head(p.ids))
  /\ UNCHANGED <<older, strays>>

NewerLoaded(p) ==
  /\ p.kind = "newer"
  /\ Fold(p) /\ newer' = p.newer
  /\ asked' = asked \ {p}
  /\ UNCHANGED excused

\* The walk goes on after a full page,
GoesOn(p) == p.newer # NoId

\* from the newest message held by then, which the socket may have moved past
\* what is still missing.
Filled(p) ==
  /\ p.kind = "fill"
  /\ Fold(p)
  /\ asked' = (asked \ {p}) \cup IF GoesOn(p) THEN {Asking("fill", newest')} ELSE {}
  /\ excused' = IF GoesOn(p) /\ newest' > p.newer
                THEN excused \cup (p.newer..newest' \ {list'[i] : i \in DOMAIN list'})
                ELSE excused
  /\ UNCHANGED newer

Answered(p) ==
  /\ p.at = "read"
  /\ \/ Replaced(p)
     \/ /\ OlderLoaded(p) \/ NewerLoaded(p) \/ Filled(p)
        /\ tangled' = (tangled \/ p.stale)
  /\ UNCHANGED <<server, socket, sink, ghosts, spare>>

\* A request fails; a walk that does is not taken up again.
AskFails(p) ==
  /\ p.kind # "open" /\ Spend
  /\ asked' = asked \ {p}
  /\ excused' = IF p.kind = "fill" THEN excused \cup (written \ Drawn) ELSE excused
  /\ UNCHANGED <<server, socket, sink, window, ghosts, strays, tangled>>

Next ==
  \/ Post \/ Join \/ Drop \/ Rebuild \/ Reconnect \/ FirstConnect \/ HearDeletion \/ HearMessage
  \/ Cover \/ Uncover \/ LoadOlder \/ LoadNewer \/ GoLive
  \/ \E m \in Ids : Change(m) \/ Delete(m) \/ JumpTo(m)
  \/ \E e \in untold : Tell(e)
  \/ \E p \in asked : History(p) \/ Answered(p) \/ AskFails(p)

-----------------------------------------------------------------------------

Settled == up /\ ~UnderWay("open") /\ ~UnderWay("fill") /\ ~tangled

\* The stretch of the channel that has been fetched.
Within(x) == older = NoId \/ x >= older
Known(x) == x \in Drawn \/ x \in excused \/ x \in Arriving \/ (newer # NoId /\ x > newer)


\* A walk of several pages looks at everything that was said while the phone was
\* away: every page begins where the one before it ended.  It does not hold: what
\* the socket says during the walk moves the next page past what is missing.
TheWalkLeavesNoHole ==
  [][\A p \in asked : (p.kind = "fill" /\ Answered(p) /\ GoesOn(p)) => newest' = p.newer]_vars
=============================================================================
