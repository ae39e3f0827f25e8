---------------------------- MODULE Conversations ----------------------------
(***************************************************************************)
(* Direct messages and groups: DmsService over its tables, with requests    *)
(* that check, wait and write, and so overlap.                              *)
(*                                                                          *)
(* The reads of one check are a single step, as in Membership.  Who shares  *)
(* the server is Membership's to say: here people come and go as they like. *)
(* Messages are not kept, only that one was announced; names, devices and   *)
(* the order of the list are left out.                                      *)
(*                                                                          *)
(* AnyCompany, SecondThread, StillHidden and RestNow are plausible bugs of  *)
(* the definition that follows each.                                        *)
(***************************************************************************)
EXTENDS Naturals, FiniteSets

CONSTANTS
  People,
  Nobody,
  Chats,        \* channels without a guild that may be made
  MaxGroup,     \* MAX_GROUP_DM
  MaxRequests,  \* bound on requests being handled at once
  MaxCalls,     \* bound on requests made
  MaxMoved      \* bound on people joining or leaving the server, or deleted

\* A direct message is for two, and no group may be smaller.
ASSUME ConversationsAssumption ==
  /\ Nobody \notin Chats /\ IsFiniteSet(People)
  /\ {MaxGroup, MaxRequests, MaxCalls, MaxMoved} \subseteq Nat /\ MaxGroup > 1

VARIABLES
  guild,     \* people who are in the server
  chats,     \* channels: what they are, and for a direct one whose
  people,    \* ChannelParticipant rows
  hidden,    \* those with hiddenAt
  calls,     \* requests being handled
  answers,   \* read by properties only: what opening a conversation answered
  missed,    \* read by properties only: messages announced to somebody who still hides it
  crossed,   \* read by properties only: two requests have overlapped
  spare      \* bounds that are left

convTables == <<chats, people, hidden>>
convVars == <<guild, convTables, calls, answers, missed, crossed, spare>>

ChatRow == [is : {"unmade", "direct", "group", "gone"}, key : SUBSET People]
Call == [op : {"open", "group", "add", "leave", "hide", "send"}, by : People, who : SUBSET People,
         chat : Chats \cup {Nobody}, saw : SUBSET People, at : {"checked", "sought", "found", "left"}]

ConvTypeOK ==
  /\ guild \subseteq People
  /\ chats \in [Chats -> ChatRow]
  /\ people \in [Chats -> SUBSET People] /\ hidden \in [Chats -> SUBSET People]
  /\ calls \subseteq Call
  /\ answers \subseteq [by : People, with : SUBSET People, chat : Chats]
  /\ missed \subseteq Chats \X People /\ crossed \in BOOLEAN
  /\ spare \in [calls : 0..MaxCalls, moved : 0..MaxMoved]

\* Nothing yet, or a group that some have left since it was made.
ConvInit ==
  /\ guild = People
  /\ \E who \in SUBSET People :
       LET old == CHOOSE c \in Chats : TRUE IN
       /\ Cardinality(who) < MaxGroup
       /\ chats = [c \in Chats |->
            [is |-> IF c = old /\ who # {} THEN "group" ELSE "unmade", key |-> {}]]
       /\ people = [c \in Chats |-> IF c = old THEN who ELSE {}]
  /\ hidden = [c \in Chats |-> {}]
  /\ calls = {} /\ answers = {} /\ missed = {} /\ crossed = FALSE
  /\ spare = [calls |-> MaxCalls, moved |-> MaxMoved]

Shares(p, q) == p = q \/ {p, q} \subseteq guild
Reachable(p, who) == \A q \in who : Shares(p, q)
\* canInDm for writing: in it, with somebody there still on one's server.
CanWrite(p, c) == p \in people[c] /\ \E q \in people[c] \ {p} : Shares(p, q)
InGroup(p, c) == chats[c].is = "group" /\ p \in people[c]
DirectOf(key) == {c \in Chats : chats[c].is = "direct" /\ chats[c].key = key}

-----------------------------------------------------------------------------
(* Requests and their checks.                                               *)

Calls(op, p, who, c, saw) ==
  LET r == [op |-> op, by |-> p, who |-> who, chat |-> c, saw |-> saw, at |-> "checked"] IN
  /\ spare.calls > 0 /\ Cardinality(calls) < MaxRequests /\ r \notin calls
  /\ calls' = calls \cup {r}
  /\ crossed' = (crossed \/ calls # {})
  /\ spare' = [spare EXCEPT !.calls = @ - 1]
  /\ UNCHANGED <<guild, convTables, answers, missed>>

AnyCompany(p, who) == TRUE
Welcome(p, who) == Reachable(p, who)

Open(p, q) == p # q /\ Welcome(p, {q}) /\ Calls("open", p, {q}, Nobody, {})

OpenGroup(p, who) ==
  /\ Cardinality(who) > 1 /\ p \notin who
  /\ Welcome(p, who) /\ Cardinality(who) + 1 <= MaxGroup
  /\ Calls("group", p, who, Nobody, {})

AddMembers(p, c, who) ==
  /\ InGroup(p, c) /\ CanWrite(p, c)
  /\ who # {} /\ who \cap people[c] = {} /\ Welcome(p, who)
  /\ Cardinality(people[c] \cup who) <= MaxGroup
  /\ Calls("add", p, who, c, people[c])

LeaveGroup(p, c) == InGroup(p, c) /\ Calls("leave", p, {}, c, people[c])
Hide(p, c) == p \in people[c] /\ Calls("hide", p, {}, c, {})
Send(p, c) == CanWrite(p, c) /\ Calls("send", p, {}, c, people[c])

-----------------------------------------------------------------------------
(* What they write.                                                         *)

Continues(r, s) == calls' = (calls \ {r}) \cup {s}
Over(r) == calls' = calls \ {r}
Stands(c) == chats[c].is \in {"direct", "group"}

Seek(r) ==
  /\ r.op = "open" /\ r.at = "checked"
  /\ IF DirectOf({r.by} \cup r.who) = {}
     THEN Continues(r, [r EXCEPT !.at = "sought"])
     ELSE \E c \in DirectOf({r.by} \cup r.who) : Continues(r, [r EXCEPT !.at = "found", !.chat = c])
  /\ UNCHANGED <<guild, convTables, answers, missed, crossed, spare>>

\* A new id.
Made(c, kind, key, who) ==
  /\ c \in Chats /\ chats[c].is = "unmade" /\ c = CHOOSE d \in Chats : chats[d].is = "unmade"
  /\ chats' = [chats EXCEPT ![c] = [is |-> kind, key |-> key]]
  /\ people' = [people EXCEPT ![c] = who]
  /\ UNCHANGED <<guild, hidden, answers, missed, crossed, spare>>

SecondThread(r, c) ==
  /\ Made(c, "direct", {r.by} \cup r.who, {r.by} \cup r.who)
  /\ Continues(r, [r EXCEPT !.at = "found", !.chat = c])
\* One thread for two people, whoever of them makes it first: dmKey is unique.
CreateDirect(r, c) ==
  LET key == {r.by} \cup r.who IN
  IF DirectOf(key) = {}
  THEN SecondThread(r, c)
  ELSE /\ c \in DirectOf(key)
       /\ Continues(r, [r EXCEPT !.at = "found", !.chat = c])
       /\ UNCHANGED <<guild, convTables, answers, missed, crossed, spare>>

OpenDirect(r) == r.op = "open" /\ r.at = "sought" /\ \E c \in Chats : CreateDirect(r, c)

\* The one who opens it sees it again, and is told which it is.
ShowDirect(r) ==
  /\ r.op = "open" /\ r.at = "found"
  /\ hidden' = [hidden EXCEPT ![r.chat] = @ \ {r.by}]
  /\ missed' = missed \ {<<r.chat, r.by>>}
  /\ answers' = answers \cup {[by |-> r.by, with |-> r.who, chat |-> r.chat]}
  /\ Over(r)
  /\ UNCHANGED <<guild, chats, people, crossed, spare>>

CreateGroup(r) ==
  /\ r.op = "group"
  /\ \E c \in Chats : Made(c, "group", {}, {r.by} \cup r.who)
  /\ Over(r)

\* Rows that are there are skipped; a group that has gone takes nobody.
AddRows(r) ==
  /\ r.op = "add"
  /\ people' = IF Stands(r.chat) THEN [people EXCEPT ![r.chat] = @ \cup r.who] ELSE people
  /\ Over(r)
  /\ UNCHANGED <<guild, chats, hidden, answers, missed, crossed, spare>>

RestNow(r) == people[r.chat] \ {r.by}
Rest(r) == r.saw \ {r.by}

\* The row goes first; whether anybody is left was read before.
LeaveRow(r) ==
  /\ r.op = "leave" /\ r.at = "checked"
  /\ people' = [people EXCEPT ![r.chat] = @ \ {r.by}]
  /\ hidden' = [hidden EXCEPT ![r.chat] = @ \ {r.by}]
  /\ IF Rest(r) = {} THEN Continues(r, [r EXCEPT !.at = "left"]) ELSE Over(r)
  /\ UNCHANGED <<guild, chats, answers, missed, crossed, spare>>

LastOneOut(r) ==
  /\ r.op = "leave" /\ r.at = "left"
  /\ chats' = [chats EXCEPT ![r.chat].is = "gone"]
  /\ people' = [people EXCEPT ![r.chat] = {}]
  /\ hidden' = [hidden EXCEPT ![r.chat] = {}]
  /\ Over(r)
  /\ UNCHANGED <<guild, answers, missed, crossed, spare>>

HideRow(r) ==
  /\ r.op = "hide"
  /\ hidden' = [hidden EXCEPT ![r.chat] = IF r.by \in people[r.chat] THEN @ \cup {r.by} ELSE @]
  /\ missed' = missed \ {<<r.chat, r.by>>}
  /\ Over(r)
  /\ UNCHANGED <<guild, chats, people, answers, crossed, spare>>

StillHidden(r) == hidden[r.chat] \cap {r.by}
Unhidden(r) == hidden[r.chat]

\* A message brings the conversation back for everybody who closed it.
Announce(r) ==
  /\ r.op = "send"
  /\ hidden' = [hidden EXCEPT ![r.chat] = @ \ Unhidden(r)]
  /\ missed' = missed \cup ({r.chat} \X hidden'[r.chat])
  /\ Over(r)
  /\ UNCHANGED <<guild, chats, people, answers, crossed, spare>>

-----------------------------------------------------------------------------
(* The server they share.                                                   *)

Moved == spare.moved > 0 /\ spare' = [spare EXCEPT !.moved = @ - 1]

\* Only what a request checked on arrival depends on it, so between requests is enough.
Goes(p) ==
  /\ Moved /\ calls = {} /\ p \in guild /\ guild' = guild \ {p}
  /\ UNCHANGED <<convTables, calls, answers, missed, crossed>>

\* A restart stops what was being done, between any two of its steps.
Dies ==
  /\ Moved /\ calls # {} /\ calls' = {} /\ crossed' = TRUE
  /\ UNCHANGED <<guild, convTables, answers, missed>>

Steps(r) ==
  \/ Seek(r) \/ OpenDirect(r) \/ ShowDirect(r) \/ CreateGroup(r) \/ AddRows(r)
  \/ LeaveRow(r) \/ LastOneOut(r) \/ HideRow(r) \/ Announce(r)

ConvNext ==
  \/ \E p, q \in People : Open(p, q)
  \/ \E p \in People, who \in SUBSET People : OpenGroup(p, who)
  \/ \E p \in People, c \in Chats, who \in SUBSET People : AddMembers(p, c, who)
  \/ \E p \in People, c \in Chats : LeaveGroup(p, c) \/ Hide(p, c) \/ Send(p, c)
  \/ \E r \in calls : Steps(r)
  \/ \E p \in People : Goes(p)
  \/ Dies

ConvSpec == ConvInit /\ [][ConvNext]_convVars

-----------------------------------------------------------------------------
(* Properties.                                                              *)

\* Two people have one conversation, however they open it: both asking at once
\* are answered with the same, nobody else is in it, and nobody who opens it or
\* is written to in it goes on hiding it unless they closed it again since.
OneConversation ==
  /\ \A a, b \in answers :
       ({a.by} \cup a.with = {b.by} \cup b.with) => a.chat = b.chat
  /\ \A a \in answers : people[a.chat] = {a.by} \cup a.with
  /\ missed = {}

\* The groups' rules hold as long as requests do not overlap: no group is larger
\* than its limit and the last one out takes it with them; and nobody is ever in
\* a group that has gone.  [people are counted, an await, and then added or taken]
GroupsKeepTheirRules ==
  /\ \A c \in Chats :
       ~crossed =>
         /\ Cardinality(people[c]) <= MaxGroup
         /\ chats[c].is = "group" /\ calls = {} => people[c] # {}
  /\ \A c \in Chats : chats[c].is = "gone" => people[c] = {}

\* Direct messages and groups keep their rules, and what is kept of them is typed.
ConversationsHold == ConvTypeOK /\ OneConversation /\ GroupsKeepTheirRules
=============================================================================
