------------------------------- MODULE Marks -------------------------------
(***************************************************************************)
(* Small marks that several windows make at once: the reactions under one   *)
(* message and how far each person has read.                                *)
(*                                                                          *)
(* The server checks, writes, reads the piles back and then tells; its      *)
(* answer travels over HTTP and its broadcast over the socket, so that the  *)
(* two pass each other.  Every person has one window with the channel open, *)
(* connected throughout.  Messages are numbered as their ids ascend.        *)
(*                                                                          *)
(* AnyPile, AnswerPatches and BackwardsToo are plausible bugs of the         *)
(* definition that follows each.                                            *)
(***************************************************************************)
EXTENDS Naturals, Sequences, FiniteSets

CONSTANTS
  Readers,
  Emojis,
  MaxPiles,   \* MAX_REACTIONS_PER_MESSAGE
  MaxId,      \* bound on messages in the channel
  MaxAtOnce,  \* bound on requests being handled at once
  MaxClicks   \* bound on clicks and reports

MarksAssumption ==
  {MaxPiles, MaxId, MaxAtOnce, MaxClicks} \subseteq Nat /\ MaxPiles > 0

VARIABLES
  piles,     \* MessageReaction rows
  marker,    \* ChannelReadState.lastReadMessageId
  handling,  \* requests being handled
  replies,   \* answers on their way to who asked
  hearing,   \* broadcasts on their way to each window
  drawn,     \* the piles each window draws
  seen,      \* reads: how far each window believes it has read
  blurred,   \* read by properties only: marks that two overlapping requests touched
  clicks     \* clicks that are left

marksVars == <<piles, marker, handling, replies, hearing, drawn, seen, blurred, clicks>>

Pile == Readers \X Emojis
Job == [op : {"react", "unreact", "read"}, by : Readers, emoji : Emojis, id : 0..MaxId,
        before : SUBSET Pile, at : {"asked", "checked", "written", "read back"},
        rows : SUBSET Pile]

TypeOK ==
  /\ piles \subseteq Pile
  /\ marker \in [Readers -> 0..MaxId] /\ seen \in [Readers -> 0..MaxId]
  /\ handling \subseteq Job
  /\ replies \subseteq [to : Readers, ok : BOOLEAN, rows : SUBSET Pile]
  /\ hearing \in [Readers -> Seq([emoji : Emojis, who : SUBSET Readers])]
  /\ drawn \in [Readers -> SUBSET Pile]
  /\ blurred \subseteq Readers \X (Emojis \cup {"read"}) /\ clicks \in 0..MaxClicks

Init ==
  /\ piles = {} /\ marker = [r \in Readers |-> 0] /\ seen = [r \in Readers |-> 0]
  /\ handling = {} /\ replies = {} /\ hearing = [r \in Readers |-> <<>>]
  /\ drawn = [r \in Readers |-> {}]
  /\ blurred = {} /\ clicks = MaxClicks

Quiet == handling = {} /\ replies = {} /\ \A r \in Readers : hearing[r] = <<>>

\* Two requests at once blur what they are about for everybody, and every pile for
\* the people who made them: an answer replaces all piles, a broadcast one.
Blur(j) ==
  IF j.op = "read"
  THEN {<<j.by, "read">> : k \in {l \in handling : l.op = "read" /\ l.by = j.by}}
  ELSE LET others == {l \in handling : l.op # "read"}
           same == \/ \E l \in others : l.emoji = j.emoji
                   \/ \E r \in Readers : \E n \in DOMAIN hearing[r] : hearing[r][n].emoji = j.emoji
           pending == {l.by : l \in others} \cup {a.to : a \in replies}
                        \cup {r \in Readers : hearing[r] # <<>>}
       IN (IF pending = {} THEN {} ELSE (pending \cup {j.by}) \X Emojis)
            \cup (IF same THEN Readers \X {j.emoji} ELSE {})

Clicks(j) ==
  /\ clicks > 0 /\ Cardinality(handling) < MaxAtOnce /\ j \notin handling
  /\ clicks' = clicks - 1
  /\ handling' = handling \cup {j}
  /\ blurred' = blurred \cup Blur(j)

OfEmoji(s, e) == {x[1] : x \in {y \in s : y[2] = e}}

-----------------------------------------------------------------------------
(* Reactions.                                                               *)

\* toggleReaction guesses, and keeps what was there to put it back.
Toggle(r, e) ==
  LET mine == <<r, e>> \in drawn[r] IN
  /\ Clicks([op |-> IF mine THEN "unreact" ELSE "react", by |-> r, emoji |-> e, id |-> 0,
             before |-> drawn[r], at |-> "asked", rows |-> {}])
  /\ drawn' = [drawn EXCEPT ![r] = IF mine THEN @ \ {<<r, e>>} ELSE @ \cup {<<r, e>>}]
  /\ UNCHANGED <<piles, marker, replies, hearing, seen>>

AnyPile(e) == TRUE
\* The cap counts distinct emoji, and only when this one is new.
RoomFor(e) ==
  OfEmoji(piles, e) # {} \/ Cardinality({x[2] : x \in piles}) < MaxPiles

Goes(j, k) == handling' = (handling \ {j}) \cup {k}

CheckReaction(j) ==
  /\ j.op \in {"react", "unreact"} /\ j.at = "asked"
  /\ IF j.op = "react" /\ ~RoomFor(j.emoji)
     THEN /\ handling' = handling \ {j}
          /\ replies' = replies \cup {[to |-> j.by, ok |-> FALSE, rows |-> j.before]}
     ELSE Goes(j, [j EXCEPT !.at = "checked"]) /\ UNCHANGED replies
  /\ UNCHANGED <<piles, marker, hearing, drawn, seen, blurred, clicks>>

WriteReaction(j) ==
  /\ j.op \in {"react", "unreact"} /\ j.at = "checked"
  /\ piles' = IF j.op = "react" THEN piles \cup {<<j.by, j.emoji>>}
              ELSE piles \ {<<j.by, j.emoji>>}
  /\ Goes(j, [j EXCEPT !.at = "written"])
  /\ UNCHANGED <<marker, replies, hearing, drawn, seen, blurred, clicks>>

ReadBack(j) ==
  /\ j.op \in {"react", "unreact"} /\ j.at = "written"
  /\ Goes(j, [j EXCEPT !.at = "read back", !.rows = piles])
  /\ UNCHANGED <<piles, marker, replies, hearing, drawn, seen, blurred, clicks>>

\* One pile to the room, all of them to who asked.
PublishReaction(j) ==
  /\ j.at = "read back"
  /\ hearing' = [r \in Readers |->
       Append(hearing[r], [emoji |-> j.emoji, who |-> OfEmoji(j.rows, j.emoji)])]
  /\ replies' = replies \cup {[to |-> j.by, ok |-> TRUE, rows |-> j.rows]}
  /\ handling' = handling \ {j}
  /\ UNCHANGED <<piles, marker, drawn, seen, blurred, clicks>>

AnswerPatches(a) == drawn[a.to] \cup a.rows
\* The answer replaces what is drawn, and so does what a refusal puts back.
Answered(a) == a.rows

TakeReply(a) ==
  /\ drawn' = [drawn EXCEPT ![a.to] = Answered(a)]
  /\ replies' = replies \ {a}
  /\ UNCHANGED <<piles, marker, handling, hearing, seen, blurred, clicks>>

Hear(r) ==
  /\ hearing[r] # <<>>
  /\ LET e == Head(hearing[r]) IN
       drawn' = [drawn EXCEPT ![r] = {x \in @ : x[2] # e.emoji} \cup (e.who \X {e.emoji})]
  /\ hearing' = [hearing EXCEPT ![r] = Tail(@)]
  /\ UNCHANGED <<piles, marker, handling, replies, seen, blurred, clicks>>

-----------------------------------------------------------------------------
(* Read markers.                                                            *)

\* The window moves its own mark forward only, and reports what it was given:
\* an older one when a second window of theirs is behind.
MarkRead(r, m) ==
  /\ Clicks([op |-> "read", by |-> r, emoji |-> CHOOSE e \in Emojis : TRUE, id |-> m,
             before |-> {}, at |-> "asked", rows |-> {}])
  /\ seen' = [seen EXCEPT ![r] = IF m > @ THEN m ELSE @]
  /\ UNCHANGED <<piles, marker, replies, hearing, drawn>>

BackwardsToo(m, id) == id
NextMarker(m, id) == IF m > id THEN m ELSE id

CompareMarker(j) ==
  /\ j.op = "read" /\ j.at = "asked"
  /\ Goes(j, [j EXCEPT !.at = "checked", !.id = NextMarker(marker[j.by], j.id)])
  /\ UNCHANGED <<piles, marker, replies, hearing, drawn, seen, blurred, clicks>>

WriteMarker(j) ==
  /\ j.op = "read" /\ j.at = "checked"
  /\ marker' = [marker EXCEPT ![j.by] = j.id]
  /\ handling' = handling \ {j}
  /\ UNCHANGED <<piles, replies, hearing, drawn, seen, blurred, clicks>>

Next ==
  \/ \E r \in Readers, e \in Emojis : Toggle(r, e)
  \/ \E r \in Readers, m \in 1..MaxId : MarkRead(r, m)
  \/ \E j \in handling : CheckReaction(j) \/ WriteReaction(j) \/ ReadBack(j) \/ PublishReaction(j)
                         \/ CompareMarker(j) \/ WriteMarker(j)
  \/ \E a \in replies : TakeReply(a)
  \/ \E r \in Readers : Hear(r)

Spec == Init /\ [][Next]_marksVars

-----------------------------------------------------------------------------
(* Properties.                                                              *)

\* When everything has arrived every window draws the piles of the table and
\* everybody's marker is as far as they have read: clicks that were refused, and
\* clicks of others on other piles at the same time, included.  Excused are the
\* piles two people clicked at once and the windows of who clicked while another
\* click was on its way.  [the pile is re-read and told, the answer replaces all]
MarksSettle ==
  Quiet => \A r \in Readers :
    /\ \A e \in Emojis : <<r, e>> \notin blurred => OfEmoji(drawn[r], e) = OfEmoji(piles, e)
    /\ <<r, "read">> \notin blurred => marker[r] = seen[r]

\* However clicks overlap, a message carries at most so many piles as its limit
\* allows and were let in at once beyond it.  [the cap is counted before the row
\* is written]
PilesAreBounded ==
  Cardinality({x[2] : x \in piles}) <= MaxPiles + MaxAtOnce - 1

\* The person who clicked and everybody watching cannot end up with different
\* numbers.  [the broadcast and the response are the same object]
EverybodySeesTheSame ==
  Quiet => \A r, s \in Readers : drawn[r] = drawn[s]
=============================================================================
