--------------------------- MODULE PartyClientProofs ---------------------------
(***************************************************************************)
(* What is proved of PartyClient, for any people, windows, faults, requests *)
(* and lengths of mail: a window with nothing on its way draws the party as *)
(* the server has it, and a party window that has joined is in the room its *)
(* chat goes to.                                                            *)
(*                                                                          *)
(* The mail of a connected window is a walk through what the party has been *)
(* (Served): from what it was when the next mail to be read was sent, one   *)
(* mail after the other, to what it is now.  The window draws where the     *)
(* walk begins, or has asked for what will tell it, or has been left        *)
(* without an answer (Follows); one that has joined draws it for certain    *)
(* (JoinedSees).  Then nothing on its way is nothing in between.            *)
(***************************************************************************)
EXTENDS PartyClient, WatchPartyProofs

-----------------------------------------------------------------------------
(* The inductive invariant.                                                 *)

\* What a mail makes of the party p it was sent after.
Leads(m, p, q) ==
  /\ m.type = "state" => q = m.party /\ q # NoParty /\ (p = NoParty \/ p.id = q.id)
  /\ m.type = "ended" => q = NoParty /\ p # NoParty /\ p.id = m.id
  /\ m.type = "ack" => q = p /\ (m.ok => m.party = p)

\* What the party has been, from before the first mail to after the last.
Served(h, box, p) ==
  /\ h \in Seq(Party \cup {NoParty}) /\ Len(h) = Len(box) + 1
  /\ h[Len(h)] = p
  /\ \A i \in 1..Len(box) : Leads(box[i], h[i], h[i + 1])

Asking(kinds) == \E a \in asked : a.kind \in kinds

Follows(p) ==
  \/ view = p
  \/ view = NoParty /\ (blind \/ "discover" \in todo \/ Asking({"discover"}))
  \/ Asking(Resyncs)

JoinedSees(p) == joined => view # NoParty /\ (view = p \/ Asking({"rejoin"}))

\* Ids that are given out are behind.
Given(p) == p # NoParty => p.id < nextParty

InTouch ==
  \E h \in Seq(Party \cup {NoParty}) :
    /\ Served(h, inbox, parties[G])
    /\ Follows(h[1]) /\ JoinedSees(h[1])
    /\ \A i \in DOMAIN h : Given(h[i])

HasRoom(p) ==
  (p # NoParty /\ parties[G] # NoParty /\ parties[G].id = p.id) => <<Win, p.id>> \in room

Admissions == {"start", "join", "rejoin"}

\* A party window that nobody has left the party in has the room of the party
\* it has joined, and of the one it will be told that it has.
Lodged == (joined /\ ~Asking({"rejoin"})) => HasRoom(view)

Housed ==
  /\ Lodged
  /\ \A i \in DOMAIN inbox : \A a \in asked :
       (inbox[i].type = "ack" /\ inbox[i].ok /\ a.n = inbox[i].n /\ a.kind \in Admissions)
         => HasRoom(inbox[i].party)

\* An answer finds its own question, and has a party unless it was whether there
\* is one.
Numbered ==
  /\ \A a \in asked : budget["asks"] < a.n
  /\ \A x \in waiting : budget["asks"] < x.ask.n
  /\ \A i \in DOMAIN inbox : inbox[i].type = "ack" => budget["asks"] < inbox[i].n
  /\ \A a \in asked, x \in waiting : a.n = x.ask.n => a.kind = x.ask.kind
  /\ \A i \in DOMAIN inbox, a \in asked :
       (inbox[i].type = "ack" /\ inbox[i].ok /\ inbox[i].n = a.n /\ inbox[i].party = NoParty)
         => a.kind = "discover"

\* A window that is shut or cut off.
Away ==
  /\ Win \notin live => inbox = <<>> /\ asked = {}
  /\ open = "no" => Win \notin live
  /\ (view # NoParty \/ Win \in live) => before
  /\ joined => view # NoParty

ClientInv ==
  /\ IInv /\ ClientTypeOK /\ Given(parties[G])
  /\ Away /\ Numbered
  /\ Win \in live => InTouch
  /\ (Win \in live /\ open = "party" /\ "close" \notin todo) => Housed

-----------------------------------------------------------------------------
(* The mail.                                                                *)

Pictures == Party \cup {NoParty}

LEMMA Kinds ==
  /\ NoParty \notin Party
  /\ G \in Guilds /\ Win \in Sockets /\ Me \in Users /\ Owner \in [Sockets -> Users]
  /\ NoSocket \notin Sockets
BY ConstantsAssumption, ClientAssumption DEF Me

\* A mail put at the end takes the walk one step further.
LEMMA ServedAppend ==
  ASSUME NEW box \in Seq(Mails), NEW h, NEW p, Served(h, box, p),
         NEW m \in Mails, NEW q \in Pictures, Leads(m, p, q)
  PROVE  /\ Append(h, q) \in Seq(Pictures)
         /\ Served(Append(h, q), Append(box, m), q)
         /\ Append(h, q)[1] = h[1]
         /\ \A i \in DOMAIN Append(h, q) :
              Append(h, q)[i] = q \/ \E j \in DOMAIN h : Append(h, q)[i] = h[j]
<1> DEFINE n == Len(box)
           h2 == Append(h, q)
           box2 == Append(box, m)
<1>1. /\ h \in Seq(Pictures) /\ Len(h) = n + 1 /\ h[n + 1] = p /\ n \in Nat
      /\ \A i \in 1..n : Leads(box[i], h[i], h[i + 1])
  BY DEF Served, Pictures
<1>2. /\ h2 \in Seq(Pictures) /\ Len(h2) = n + 2 /\ h2[n + 2] = q
      /\ \A i \in 1..(n + 1) : h2[i] = h[i]
      /\ DOMAIN h2 = 1..(n + 2) /\ DOMAIN h = 1..(n + 1)
  BY <1>1
<1>3. /\ Len(box2) = n + 1 /\ box2[n + 1] = m
      /\ \A i \in 1..n : box2[i] = box[i]
  BY <1>1
<1> HIDE DEF h2, box2, n
<1>4. ASSUME NEW i \in 1..(n + 1) PROVE Leads(box2[i], h2[i], h2[i + 1])
  <2>1. CASE i = n + 1 BY <1>1, <1>2, <1>3, <2>1
  <2>2. CASE i # n + 1
    <3>1. i \in 1..n /\ i + 1 \in 1..(n + 1) BY <1>1, <2>2
    <3> QED BY <1>1, <1>2, <1>3, <3>1
  <2> QED BY <2>1, <2>2
<1>5. Served(h2, box2, q)
  <2>1. Len(h2) = Len(box2) + 1 /\ h2[Len(h2)] = q BY <1>1, <1>2, <1>3
  <2> QED BY <1>2, <1>3, <1>4, <2>1 DEF Served, Pictures
<1>6. h2[1] = h[1] BY <1>1, <1>2
<1>7. \A i \in DOMAIN h2 : h2[i] = q \/ \E j \in DOMAIN h : h2[i] = h[j]
  <2> SUFFICES ASSUME NEW i \in DOMAIN h2, h2[i] # q PROVE i \in DOMAIN h /\ h2[i] = h[i]
    OBVIOUS
  <2> QED BY <1>1, <1>2
<1> QED BY <1>2, <1>5, <1>6, <1>7 DEF h2, box2

\* The first mail read is the first step gone.
LEMMA ServedTail ==
  ASSUME NEW box \in Seq(Mails), box # <<>>, NEW h, NEW p, Served(h, box, p)
  PROVE  /\ Tail(h) \in Seq(Pictures)
         /\ Served(Tail(h), Tail(box), p)
         /\ Head(box) \in Mails /\ Leads(Head(box), h[1], Tail(h)[1])
         /\ Tail(h)[1] = h[2] /\ h[1] \in Pictures /\ h[2] \in Pictures
         /\ \A i \in DOMAIN Tail(h) : \E j \in DOMAIN h : Tail(h)[i] = h[j]
<1> DEFINE n == Len(box)
           h2 == Tail(h)
           box2 == Tail(box)
<1>1. /\ h \in Seq(Pictures) /\ Len(h) = n + 1 /\ h[n + 1] = p /\ n \in Nat /\ n >= 1
      /\ \A i \in 1..n : Leads(box[i], h[i], h[i + 1])
  BY DEF Served, Pictures
<1>2. /\ h2 \in Seq(Pictures) /\ Len(h2) = n /\ DOMAIN h2 = 1..n
      /\ \A i \in 1..n : h2[i] = h[i + 1]
      /\ DOMAIN h = 1..(n + 1)
  BY <1>1
<1>3. Len(box2) = n - 1 /\ \A i \in 1..(n - 1) : box2[i] = box[i + 1]
  BY <1>1
<1>4. Head(box) \in Mails /\ Head(box) = box[1]
  BY <1>1
<1> HIDE DEF h2, box2, n
<1>5. \A i \in 1..(n - 1) : Leads(box2[i], h2[i], h2[i + 1])
  <2> SUFFICES ASSUME NEW i \in 1..(n - 1) PROVE Leads(box2[i], h2[i], h2[i + 1])
    OBVIOUS
  <2>1. i + 1 \in 1..n /\ i \in 1..n BY <1>1
  <2>2. box2[i] = box[i + 1] /\ h2[i] = h[i + 1] /\ h2[i + 1] = h[(i + 1) + 1]
    BY <1>2, <1>3, <2>1
  <2> QED BY <1>1, <2>1, <2>2
<1>6. Served(h2, box2, p)
  <2>1. Len(h2) = Len(box2) + 1 /\ h2[Len(h2)] = p BY <1>1, <1>2, <1>3
  <2>2. h2 \in Seq(Party \cup {NoParty}) BY <1>2 DEF Pictures
  <2>3. \A i \in 1..Len(box2) : Leads(box2[i], h2[i], h2[i + 1]) BY <1>3, <1>5
  <2> QED BY <2>1, <2>2, <2>3 DEF Served
<1>7. 1 \in 1..n /\ 1 \in 1..(n + 1) /\ 2 \in 1..(n + 1) BY <1>1
<1>8. h2[1] = h[2] /\ h[1] \in Pictures /\ h[2] \in Pictures BY <1>1, <1>2, <1>7
<1>9. Leads(Head(box), h[1], h2[1]) BY <1>1, <1>4, <1>7, <1>8
<1>10. \A i \in DOMAIN h2 : \E j \in DOMAIN h : h2[i] = h[j]
  <2> SUFFICES ASSUME NEW i \in DOMAIN h2 PROVE i + 1 \in DOMAIN h /\ h2[i] = h[i + 1]
    OBVIOUS
  <2> QED BY <1>1, <1>2
<1> QED BY <1>2, <1>4, <1>6, <1>8, <1>9, <1>10 DEF h2, box2

\* What is posted: news of the party if it changed, and an answer after it.
IsNews(news) ==
  \/ news = <<>> /\ parties'[G] = parties[G]
  \/ \E m \in Mails :
       news = <<m>> /\ m.type # "ack" /\ Leads(m, parties[G], parties'[G])

IsAnswer(answer) ==
  \/ answer = <<>>
  \/ \E m \in Mails :
       answer = <<m>> /\ m.type = "ack" /\ (m.ok => m.party = parties'[G])

\* The mail is what it was, what is new and what is answered.
LEMMA MailOf ==
  ASSUME NEW box \in Seq(Mails), NEW news, NEW answer, IsNews(news), IsAnswer(answer)
  PROVE  /\ box \o news \o answer \in Seq(Mails)
         /\ \A i \in DOMAIN (box \o news \o answer) :
              LET m == (box \o news \o answer)[i]
              IN  \/ i \in DOMAIN box /\ m = box[i]
                  \/ news = <<m>> /\ m.type # "ack"
                  \/ answer = <<m>> /\ m.type = "ack"
<1> DEFINE one == box \o news
           two == one \o answer
<1>1. /\ one \in Seq(Mails)
      /\ \A i \in DOMAIN one :
           (i \in DOMAIN box /\ one[i] = box[i]) \/ (news = <<one[i]>> /\ one[i].type # "ack")
  <2>1. CASE news = <<>> BY <2>1
  <2>2. ASSUME NEW m \in Mails, news = <<m>>, m.type # "ack"
        PROVE  /\ one \in Seq(Mails)
               /\ \A i \in DOMAIN one :
                    (i \in DOMAIN box /\ one[i] = box[i])
                      \/ (news = <<one[i]>> /\ one[i].type # "ack")
    BY <2>2
  <2> QED BY <2>1, <2>2 DEF IsNews
<1> HIDE DEF one
<1>2. /\ two \in Seq(Mails)
      /\ \A i \in DOMAIN two :
           (i \in DOMAIN one /\ two[i] = one[i]) \/ (answer = <<two[i]>> /\ two[i].type = "ack")
  <2>1. CASE answer = <<>> BY <1>1, <2>1
  <2>2. ASSUME NEW m \in Mails, answer = <<m>>, m.type = "ack"
        PROVE  /\ two \in Seq(Mails)
               /\ \A i \in DOMAIN two :
                    (i \in DOMAIN one /\ two[i] = one[i])
                      \/ (answer = <<two[i]>> /\ two[i].type = "ack")
    BY <1>1, <2>2
  <2> QED BY <2>1, <2>2 DEF IsAnswer
<1> HIDE DEF two
<1>3. ASSUME NEW i \in DOMAIN two
      PROVE  \/ i \in DOMAIN box /\ two[i] = box[i]
             \/ news = <<two[i]>> /\ two[i].type # "ack"
             \/ answer = <<two[i]>> /\ two[i].type = "ack"
  BY <1>1, <1>2, <1>3
<1> QED BY <1>2, <1>3 DEF one, two

\* A walk that starts where h does, and goes nowhere h has not been but to q.
Longer(k, h, q) ==
  /\ k[1] = h[1]
  /\ \A i \in DOMAIN k : k[i] = q \/ \E j \in DOMAIN h : k[i] = h[j]

LEMMA WalkOneOn ==
  ASSUME NEW box \in Seq(Mails), NEW h, NEW p, Served(h, box, p),
         NEW m \in Mails, NEW q \in Pictures, Leads(m, p, q)
  PROVE  \E k : Served(k, Append(box, m), q) /\ Longer(k, h, q)
<1> DEFINE k == Append(h, q)
<1>1. Served(k, Append(box, m), q) /\ Longer(k, h, q)
  BY ServedAppend DEF Longer
<1> HIDE DEF k
<1> QED BY <1>1

\* It is another stretch of the walk.
LEMMA WalkOn ==
  ASSUME NEW box \in Seq(Mails), NEW h, Served(h, box, parties[G]), parties[G] \in Pictures,
         parties'[G] \in Pictures, NEW news, NEW answer, IsNews(news), IsAnswer(answer)
  PROVE  \E k : Served(k, box \o news \o answer, parties'[G]) /\ Longer(k, h, parties'[G])
<1> PICK q : q = parties'[G] OBVIOUS
<1> PICK one : one = box \o news OBVIOUS
<1>0. h \in Seq(Pictures) /\ q \in Pictures BY DEF Served, Pictures
<1>1. PICK k : Served(k, one, q) /\ Longer(k, h, q)
  <2>1. CASE news = <<>> /\ q = parties[G]
    <3>1. one = box BY <2>1
    <3>2. Longer(h, h, q) BY <1>0 DEF Longer
    <3> QED BY <1>0, <2>1, <3>1, <3>2
  <2>2. ASSUME NEW m \in Mails, news = <<m>>, Leads(m, parties[G], q)
        PROVE  \E k : Served(k, one, q) /\ Longer(k, h, q)
    <3>1. one = Append(box, m) BY <2>2
    <3>2. \E k : Served(k, Append(box, m), q) /\ Longer(k, h, q)
      BY <1>0, <2>2, WalkOneOn
    <3> QED BY <3>1, <3>2
  <2> QED BY <2>1, <2>2 DEF IsNews
<1>2. one \in Seq(Mails)
  <2>1. CASE news = <<>> BY <2>1
  <2>2. ASSUME NEW m \in Mails, news = <<m>> PROVE one \in Seq(Mails)
    BY <2>2
  <2> QED BY <2>1, <2>2 DEF IsNews
<1> SUFFICES \E l : Served(l, one \o answer, q) /\ Longer(l, h, q)
  OBVIOUS
<1>3. CASE answer = <<>>
  <2>1. one \o answer = one BY <1>2, <1>3
  <2> QED BY <1>1, <2>1
<1>4. ASSUME NEW m \in Mails, answer = <<m>>, m.type = "ack", m.ok => m.party = q
      PROVE  \E l : Served(l, one \o answer, q) /\ Longer(l, h, q)
  <2>1. one \o answer = Append(one, m) BY <1>2, <1>4
  <2>2. Leads(m, q, q) BY <1>4 DEF Leads
  <2>3. PICK l : Served(l, Append(one, m), q) /\ Longer(l, k, q)
    BY <1>0, <1>1, <1>2, <2>2, WalkOneOn
  <2>4. Longer(l, h, q)
    BY <1>1, <2>3 DEF Longer
  <2> QED BY <2>1, <2>3, <2>4
<1> QED BY <1>3, <1>4 DEF IsAnswer

-----------------------------------------------------------------------------
(* What the server does, as far as a window can tell.                       *)

\* The party in the server stays the same, ends, or is a new one with a new id.
KeepsParty ==
  /\ nextParty \in Nat /\ nextParty' \in Nat /\ nextParty <= nextParty'
  /\ parties[G] \in Pictures /\ parties'[G] \in Pictures
  /\ (parties[G] # NoParty /\ parties'[G] # NoParty) => parties'[G].id = parties[G].id
  /\ (parties[G] = NoParty /\ parties'[G] # NoParty) =>
       parties'[G].id = nextParty /\ nextParty < nextParty'

\* Nobody takes the window out of the party's room.
KeepsRoom ==
  \A e \in room : (e[1] = Win /\ IsParty(G, e[2])') => e \in room'

LEMMA PartyTyped ==
  ASSUME TypeOK
  PROVE  parties[G] \in Pictures /\ nextParty \in Nat
BY Kinds DEF TypeOK, Pictures

LEMMA Ids ==
  ASSUME NEW p \in Pictures, p # NoParty
  PROVE  p \in Party /\ p.id \in Nat
BY DEF Pictures, Party

LEMMA GivenKept ==
  ASSUME KeepsParty, NEW p \in Pictures, Given(p)
  PROVE  Given(p)'
<1> SUFFICES ASSUME p # NoParty PROVE p.id < nextParty' BY DEF Given
<1> PICK i : i = p.id OBVIOUS
<1>1. i \in Nat /\ i < nextParty BY Ids DEF Given
<1> QED BY <1>1 DEF KeepsParty

LEMMA GivenParty ==
  ASSUME KeepsParty, Given(parties[G])
  PROVE  Given(parties[G])'
<1> SUFFICES ASSUME parties'[G] # NoParty PROVE parties'[G].id < nextParty' BY DEF Given
<1>1. CASE parties[G] = NoParty BY <1>1 DEF KeepsParty
<1>2. CASE parties[G] # NoParty
  <2> PICK i : i = parties[G].id OBVIOUS
  <2>1. i \in Nat /\ i < nextParty BY <1>2, Ids DEF Given, KeepsParty
  <2>2. parties'[G].id = i BY <1>2 DEF KeepsParty
  <2> QED BY <2>1, <2>2 DEF KeepsParty
<1> QED BY <1>1, <1>2

LEMMA HasRoomKept ==
  ASSUME KeepsParty, KeepsRoom, NEW p \in Pictures, Given(p), HasRoom(p)
  PROVE  HasRoom(p)'
<1> SUFFICES ASSUME p # NoParty, parties'[G] # NoParty, parties'[G].id = p.id
             PROVE  <<Win, p.id>> \in room'
  BY DEF HasRoom
<1> PICK i : i = p.id OBVIOUS
<1>1. i \in Nat /\ i < nextParty BY Ids DEF Given
<1>2. parties[G] # NoParty /\ parties[G].id = i BY <1>1 DEF KeepsParty
<1>3. <<Win, i>> \in room BY <1>2 DEF HasRoom
<1>4. <<Win, i>>[1] = Win /\ <<Win, i>>[2] = i OBVIOUS
<1> QED BY <1>3, <1>4 DEF KeepsRoom, IsParty

\* The news of a step are news.
LEMMA NewsAreNews ==
  ASSUME KeepsParty, NEW always \in BOOLEAN
  PROVE  IsNews(News(always))
<1> PICK p : p = parties[G] OBVIOUS
<1> PICK q : q = parties'[G] OBVIOUS
<1> PICK news : news = News(always) OBVIOUS
<1>1. p \in Pictures /\ q \in Pictures /\ (p # NoParty /\ q # NoParty => q.id = p.id)
  BY DEF KeepsParty
<1>2. news = IF q = p /\ ~(always /\ p # NoParty) THEN <<>>
             ELSE IF q = NoParty THEN <<[type |-> "ended", id |-> p.id]>>
             ELSE <<[type |-> "state", party |-> q]>>
  BY DEF News
<1>3. CASE news = <<>> /\ q = p BY <1>3 DEF IsNews
<1>4. CASE q = NoParty /\ p # NoParty
  <2> PICK m : m = [type |-> "ended", id |-> p.id] OBVIOUS
  <2>1. m.type = "ended" /\ m.id = p.id /\ m \in Mails BY <1>1, <1>4, Ids DEF Mails
  <2>2. news = <<m>> BY <1>2, <1>4
  <2>3. Leads(m, p, q) BY <1>4, <2>1 DEF Leads
  <2> QED BY <2>1, <2>2, <2>3 DEF IsNews
<1>5. CASE q # NoParty /\ (q # p \/ always)
  <2> PICK m : m = [type |-> "state", party |-> q] OBVIOUS
  <2>1. m.type = "state" /\ m.party = q /\ m \in Mails
    BY <1>1, <1>5, Ids DEF Mails
  <2>2. news = <<m>> BY <1>2, <1>5
  <2>3. Leads(m, p, q) BY <1>1, <1>5, <2>1 DEF Leads
  <2> QED BY <2>1, <2>2, <2>3 DEF IsNews
<1>6. (news = <<>> /\ q = p) \/ (q = NoParty /\ p # NoParty) \/ (q # NoParty /\ (q # p \/ always))
  BY <1>2
<1> QED BY <1>3, <1>4, <1>5, <1>6

\* Somebody who is let in changes a party or begins one.
LEMMA Admitted ==
  ASSUME IInv, NEW r \in Requests, r.guild = G, Open(r) \/ Enter(r) \/ TooLate(r),
         parties'[G] \in Pictures
  PROVE  /\ KeepsParty /\ KeepsRoom
         /\ (r.sock = Win /\ ~TooLate(r)) =>
              parties'[G] # NoParty /\ <<Win, parties'[G].id>> \in room'
<1>1. parties \in [Guilds -> Pictures] /\ nextParty \in Nat /\ clock \in Nat /\ nextItem \in Nat
  BY DEF IInv, TypeOK, Pictures
<1>2. G \in Guilds /\ NoSocket # Win /\ r.user \in Users BY Kinds DEF Requests
<1>3. CASE Open(r)
  <2>1. parties[G] = NoParty /\ parties'[G] = NewParty(nextParty, r.user)
    BY <1>1, <1>2, <1>3 DEF Open
  <2>2. parties'[G].id = nextParty BY <2>1 DEF NewParty
  <2>3. parties'[G] # NoParty
    BY <1>1, <1>2, <2>1, NewPartySound, Kinds DEF SoundAt
  <2>4. nextParty' = nextParty + 1 /\ room' = Entering(r, nextParty) BY <1>3 DEF Open
  <2>5. KeepsParty BY <1>1, <1>2, <2>1, <2>2, <2>4 DEF KeepsParty
  <2>6. KeepsRoom BY <2>4 DEF KeepsRoom, Entering
  <2>7. r.sock = Win => <<Win, nextParty>> \in room' BY <1>2, <2>4 DEF Entering
  <2> QED BY <2>2, <2>3, <2>5, <2>6, <2>7
<1>4. CASE Enter(r)
  <2>1. parties[G] # NoParty /\ parties'[G] = Joined(parties[G], r.user)
    BY <1>1, <1>2, <1>4 DEF Enter
  <2>2. SoundAt(parties[G], clock, nextItem) BY <1>2, <2>1, SoundOf
  <2>3. parties'[G].id = parties[G].id BY <1>1, <1>2, <2>1, <2>2, JoinedKeeps
  <2>4. parties'[G] # NoParty
    BY <1>1, <1>2, <2>1, <2>2, JoinedSound, Kinds DEF SoundAt
  <2>5. nextParty' = nextParty /\ room' = Entering(r, parties[G].id) BY <1>4 DEF Enter
  <2>6. KeepsParty BY <1>1, <1>2, <2>1, <2>3, <2>5 DEF KeepsParty
  <2>7. KeepsRoom BY <2>5 DEF KeepsRoom, Entering
  <2>8. r.sock = Win => <<Win, parties[G].id>> \in room' BY <1>2, <2>5 DEF Entering
  <2> QED BY <2>3, <2>4, <2>6, <2>7, <2>8
<1>5. CASE TooLate(r)
  <2>1. UNCHANGED <<parties, room, nextParty>> BY <1>5 DEF TooLate
  <2> QED BY <1>1, <1>2, <1>5, <2>1 DEF KeepsParty, KeepsRoom
<1> QED BY <1>3, <1>4, <1>5

\* Somebody who leaves takes their own windows out of the room.
LEMMA Departed ==
  ASSUME IInv, NEW s \in Sockets, Leave(s, G), parties'[G] \in Pictures
  PROVE  KeepsParty /\ (Owner[s] # Me => KeepsRoom)
<1>1. parties \in [Guilds -> Pictures] /\ nextParty \in Nat /\ clock \in Nat /\ nextItem \in Nat
  BY DEF IInv, TypeOK, Pictures
<1>2. G \in Guilds BY Kinds
<1>3. nextParty' = nextParty /\ parties[G] # NoParty BY DEF Leave
<1>4. parties'[G] # NoParty => parties'[G].id = parties[G].id
  <2>1. CASE Watches(parties[G], Owner[s])
    <3>1. parties'[G] = Left(parties[G], Owner[s]) BY <1>1, <1>2, <2>1 DEF Leave
    <3>2. SoundAt(parties[G], clock, nextItem) BY <1>2, <1>3, SoundOf
    <3>3. Owner[s] \in Range(parties[G].watchers) BY <2>1 DEF Watches
    <3> QED BY <1>1, <3>1, <3>2, <3>3, LeftSound
  <2>2. CASE ~Watches(parties[G], Owner[s]) BY <2>2 DEF Leave
  <2> QED BY <2>1, <2>2
<1>5. KeepsParty BY <1>1, <1>2, <1>3, <1>4 DEF KeepsParty
<1>6. ASSUME Owner[s] # Me PROVE KeepsRoom
  BY <1>6 DEF Leave, RoomAfterLeave, KeepsRoom, Me
<1> QED BY <1>5, <1>6

\* A connection that is made changes no party, and one that is lost only by
\* somebody's leaving.
LEMMA Reconnected ==
  ASSUME IInv, NEW s \in Sockets, Connect(s)
  PROVE  KeepsParty /\ KeepsRoom /\ UNCHANGED <<parties, room, nextParty>>
<1>1. UNCHANGED <<parties, room, nextParty>> BY DEF Connect
<1> QED BY <1>1, PartyTyped DEF KeepsParty, KeepsRoom, IInv

LEMMA Disconnected ==
  ASSUME IInv, Disconnect(Win), parties'[G] \in Pictures
  PROVE  KeepsParty
<1>1. nextParty' = nextParty /\ parties[G] \in Pictures /\ nextParty \in Nat
  BY PartyTyped DEF Disconnect, IInv
<1>2. parties' = parties \/ parties' = Dropped(parties, Me)
  BY DEF Disconnect, AfterSocketLoss, Me
<1>3. parties'[G] # NoParty => parties[G] # NoParty /\ parties'[G].id = parties[G].id
  BY <1>2, DroppedKeeps, Kinds
<1> QED BY <1>1, <1>3 DEF KeepsParty

-----------------------------------------------------------------------------
(* Questions and answers.                                                   *)

Kind == {"start", "join", "rejoin", "sync", "discover"}
Waits == [ask : Asks, sock : {Win, NoSocket}]

\* A question is a new one.  What is answered on the spot is a sync, or refused.
Questioned(a, answer) ==
  /\ a \in Asks /\ a.n = budget["asks"] /\ asked' = asked \cup {a}
  /\ budget["asks"] > 0 /\ budget' = [budget EXCEPT !["asks"] = @ - 1]
  /\ inbox' = inbox \o <<>> \o answer /\ IsAnswer(answer)
  /\ \/ answer = <<>> /\ waiting' = waiting \cup {[ask |-> a, sock |-> Win]}
     \/ /\ waiting' = waiting
        /\ \E m \in Mails :
             answer = <<m>> /\ m.n = a.n /\ (m.ok => a.kind = "sync" /\ m.party # NoParty)

LEMMA AskIsAQuestion ==
  ASSUME TypeOK, ClientTypeOK, NEW kind \in Kind, NEW pid \in Nat, Ask(kind, pid),
         Win \in live', UNCHANGED parties
  PROVE  \E a \in Asks : a.kind = kind /\ a.party = pid /\ \E answer : Questioned(a, answer)
<1> PICK known : known = IsParty(G, pid) OBVIOUS
<1> DEFINE a == [n |-> budget.asks, kind |-> kind, party |-> pid]
<1>1. /\ budget["asks"] \in Nat /\ budget["asks"] > 0
      /\ budget' = [budget EXCEPT !["asks"] = @ - 1]
  BY DEF ClientTypeOK, Ask, Spend
<1>2. a \in Asks /\ a.n = budget["asks"] /\ a.kind = kind /\ a.party = pid
  BY <1>1 DEF Asks, Kind
<1>3. /\ asked' = asked \cup {a}
      /\ IF kind = "sync" \/ (kind \in {"join", "rejoin"} /\ ~known)
         THEN Post(<<>>, Answer(a, known, parties[G])) /\ UNCHANGED waiting
         ELSE waiting' = waiting \cup {[ask |-> a, sock |-> Win]} /\ UNCHANGED inbox
  BY DEF Ask
<1>4. known \in BOOLEAN /\ parties[G] \in Pictures /\ inbox \in Seq(Mails)
  BY PartyTyped DEF IsParty, ClientTypeOK
<1> HIDE DEF a
<1>5. CASE kind = "sync" \/ (kind \in {"join", "rejoin"} /\ ~known)
  <2> PICK m : m = [type |-> "ack", n |-> a.n, ok |-> known, party |-> parties[G]] OBVIOUS
  <2>1. /\ m.type = "ack" /\ m.n = a.n /\ m.ok = known /\ m.party = parties[G]
        /\ m \in Mails
    BY <1>1, <1>2, <1>4 DEF Mails, Pictures
  <2>2. Post(<<>>, <<m>>) /\ UNCHANGED waiting BY <1>3, <1>5 DEF Answer
  <2>3. inbox' = inbox \o <<>> \o <<m>> BY <2>2 DEF Post
  <2>4. IsAnswer(<<m>>) BY <2>1 DEF IsAnswer
  <2>5. m.ok => a.kind = "sync" /\ m.party # NoParty BY <1>2, <1>5, <2>1 DEF IsParty
  <2>6. Questioned(a, <<m>>) BY <1>1, <1>2, <1>3, <2>1, <2>2, <2>3, <2>4, <2>5 DEF Questioned
  <2> QED BY <1>2, <2>6
<1>6. CASE ~(kind = "sync" \/ (kind \in {"join", "rejoin"} /\ ~known))
  <2>1. inbox' = inbox \o <<>> \o <<>> BY <1>3, <1>4, <1>6
  <2>2. IsAnswer(<<>>) BY DEF IsAnswer
  <2>3. waiting' = waiting \cup {[ask |-> a, sock |-> Win]} BY <1>3, <1>6
  <2>4. Questioned(a, <<>>) BY <1>1, <1>2, <1>3, <2>1, <2>2, <2>3 DEF Questioned
  <2> QED BY <1>2, <2>4
<1> QED BY <1>5, <1>6

LEMMA OnTheSpot ==
  ASSUME NEW a, NEW answer, Questioned(a, answer), NEW m, answer = <<m>>
  PROVE  m.n = a.n /\ (m.ok => a.kind = "sync" /\ m.party # NoParty)
<1>1. answer # <<>> OBVIOUS
<1>2. PICK w \in Mails :
        answer = <<w>> /\ w.n = a.n /\ (w.ok => a.kind = "sync" /\ w.party # NoParty)
  BY <1>1 DEF Questioned
<1>3. m = w BY <1>2
<1> QED BY <1>2, <1>3

\* The mail of a question is what there was, and what is answered on the spot.
Adds(box, next, answer) ==
  \A i \in DOMAIN next : (i \in DOMAIN box /\ next[i] = box[i]) \/ answer = <<next[i]>>

LEMMA OnlyTheAnswer ==
  ASSUME ClientTypeOK, NEW a, NEW answer, Questioned(a, answer), UNCHANGED parties
  PROVE  Adds(inbox, inbox', answer)
<1>1. inbox \in Seq(Mails) BY DEF ClientTypeOK
<1>2. IsNews(<<>>) BY DEF IsNews
<1>3. \A i \in DOMAIN inbox' : \/ i \in DOMAIN inbox /\ inbox'[i] = inbox[i]
                               \/ answer = <<inbox'[i]>>
                               \/ <<>> = <<inbox'[i]>>
  BY <1>1, <1>2, MailOf DEF Questioned
<1> QED BY <1>3 DEF Adds

\* The bookkeeping of a question.
LEMMA QuestionIsBooked ==
  ASSUME ClientTypeOK, Numbered, NEW a, NEW answer, Questioned(a, answer), UNCHANGED parties
  PROVE  /\ asked' \subseteq Asks /\ waiting' \subseteq Waits /\ inbox' \in Seq(Mails)
         /\ budget' \in [{"asks", "faults", "world"} -> Nat]
         /\ Numbered'
         /\ \A b \in asked : b.n # a.n
         /\ \A i \in DOMAIN inbox : inbox[i].type = "ack" => inbox[i].n # a.n
<1> PICK n : n = budget["asks"] OBVIOUS
<1>1. /\ asked \subseteq Asks /\ waiting \subseteq Waits /\ inbox \in Seq(Mails)
      /\ budget \in [{"asks", "faults", "world"} -> Nat]
  BY DEF ClientTypeOK, Waits
<1>2. n \in Nat /\ n > 0 /\ a \in Asks /\ a.n = n /\ budget'["asks"] = n - 1 /\ n - 1 < n
  BY <1>1 DEF Questioned
<1>3. budget' \in [{"asks", "faults", "world"} -> Nat] BY <1>1, <1>2 DEF Questioned
<1>4. asked' \subseteq Asks /\ waiting' \subseteq Waits
  BY <1>1, <1>2 DEF Questioned, Waits
<1>5. IsNews(<<>>) BY DEF IsNews
<1>6. /\ inbox' \in Seq(Mails)
      /\ \A i \in DOMAIN inbox' : \/ i \in DOMAIN inbox /\ inbox'[i] = inbox[i]
                                  \/ answer = <<inbox'[i]>>
                                  \/ <<>> = <<inbox'[i]>>
  BY <1>1, <1>5, MailOf DEF Questioned
<1>7. /\ \A b \in asked : n < b.n /\ b.n \in Nat
      /\ \A x \in waiting : n < x.ask.n /\ x.ask.n \in Nat
      /\ \A i \in DOMAIN inbox : inbox[i].type = "ack" => n < inbox[i].n /\ inbox[i].n \in Nat
  <2>1. \A b \in asked : n < b.n /\ b.n \in Nat BY <1>1 DEF Numbered, Asks
  <2>2. \A x \in waiting : n < x.ask.n /\ x.ask.n \in Nat BY <1>1 DEF Numbered, Asks, Waits
  <2>3. ASSUME NEW i \in DOMAIN inbox, inbox[i].type = "ack"
        PROVE  n < inbox[i].n /\ inbox[i].n \in Nat
    <3>1. inbox[i] \in Mails BY <1>1
    <3>2. inbox[i].n \in Nat BY <2>3, <3>1 DEF Mails
    <3> QED BY <2>3, <3>2 DEF Numbered
  <2> QED BY <2>1, <2>2, <2>3
<1>8. \A b \in asked' : n - 1 < b.n
  BY <1>2, <1>7 DEF Questioned
<1>9. \A x \in waiting' : n - 1 < x.ask.n
  BY <1>2, <1>7 DEF Questioned
<1>10. \A i \in DOMAIN inbox' : inbox'[i].type = "ack" => n - 1 < inbox'[i].n
  <2>1. \A m : answer = <<m>> => m.n = n BY <1>2 DEF Questioned
  <2> SUFFICES ASSUME NEW i \in DOMAIN inbox', inbox'[i].type = "ack"
               PROVE  n - 1 < inbox'[i].n
    OBVIOUS
  <2>2. \/ i \in DOMAIN inbox /\ inbox'[i] = inbox[i]
        \/ inbox'[i].n = n
    BY <1>6, <2>1
  <2> QED BY <1>2, <1>7, <2>2
<1>11. \A b \in asked', x \in waiting' : b.n = x.ask.n => b.kind = x.ask.kind
  <2>1. \A b \in asked, x \in waiting : b.n = x.ask.n => b.kind = x.ask.kind BY DEF Numbered
  <2>2. \A x \in waiting : a.n # x.ask.n BY <1>2, <1>7
  <2>3. \A b \in asked : b.n # a.n BY <1>2, <1>7
  <2> QED BY <2>1, <2>2, <2>3 DEF Questioned
<1>13. ASSUME NEW i \in DOMAIN inbox', NEW b \in asked', inbox'[i].type = "ack", inbox'[i].ok,
              inbox'[i].n = b.n, inbox'[i].party = NoParty
       PROVE  b.kind = "discover"
  <2> PICK m : m = inbox'[i] OBVIOUS
  <2>1. CASE answer = <<m>> BY <1>13, <2>1, OnTheSpot
  <2>2. CASE i \in DOMAIN inbox /\ m = inbox[i]
    <3>1. m.n # n /\ (b \in asked \/ b = a) BY <1>2, <1>7, <1>13, <2>2 DEF Questioned
    <3> QED BY <1>2, <1>13, <2>2, <3>1 DEF Numbered
  <2> QED BY <1>6, <2>1, <2>2
<1>12. Numbered' BY <1>2, <1>8, <1>9, <1>10, <1>11, <1>13 DEF Numbered
<1> QED BY <1>2, <1>3, <1>4, <1>6, <1>7, <1>12

-----------------------------------------------------------------------------
(* A step under which the window stays where it is.                         *)

LEMMA StillInTouch ==
  ASSUME KeepsParty, Given(parties[G]), inbox \in Seq(Mails), InTouch,
         NEW news, NEW answer, IsNews(news), IsAnswer(answer), inbox' = inbox \o news \o answer,
         \A p \in Pictures : Follows(p) => Follows(p)',
         \A p \in Pictures : JoinedSees(p) => JoinedSees(p)'
  PROVE  InTouch'
<1>1. PICK h \in Seq(Pictures) :
        /\ Served(h, inbox, parties[G])
        /\ Follows(h[1]) /\ JoinedSees(h[1])
        /\ \A i \in DOMAIN h : Given(h[i])
  BY DEF InTouch, Pictures
<1> PICK box : box = inbox OBVIOUS
<1> PICK next : next = inbox' OBVIOUS
<1> PICK q : q = parties'[G] OBVIOUS
<1>2. q \in Pictures /\ parties[G] \in Pictures BY DEF KeepsParty
<1>3. PICK k : Served(k, next, q) /\ Longer(k, h, q)
  BY <1>1, <1>2, WalkOn
<1>4. k \in Seq(Pictures) BY <1>3 DEF Served, Pictures
<1>5. 1 \in DOMAIN h /\ h[1] \in Pictures
  <2>1. Len(h) = Len(box) + 1 /\ Len(box) \in Nat BY <1>1 DEF Served
  <2> QED BY <1>1, <2>1
<1>6. k[1] = h[1] BY <1>3 DEF Longer
<1> PICK first : first = h[1] OBVIOUS
<1>7. Follows(first)' /\ JoinedSees(first)' BY <1>1, <1>5
<1>8. \A i \in DOMAIN k : Given(k[i])'
  <2> SUFFICES ASSUME NEW i \in DOMAIN k PROVE Given(k[i])' OBVIOUS
  <2> PICK p : p = k[i] OBVIOUS
  <2>1. CASE p = q
    <3>1. Given(parties[G])' BY GivenParty
    <3> QED BY <2>1, <3>1 DEF Given
  <2>2. ASSUME NEW j \in DOMAIN h, p = h[j] PROVE Given(p)'
    <3>1. p \in Pictures /\ Given(p) BY <1>1, <2>2
    <3> QED BY <3>1, GivenKept
  <2>3. p = q \/ \E j \in DOMAIN h : p = h[j] BY <1>3 DEF Longer
  <2>4. Given(p)' BY <2>1, <2>2, <2>3
  <2> QED BY <2>4
<1> QED BY <1>3, <1>4, <1>6, <1>7, <1>8 DEF InTouch, Pictures

\* What an answer in the mail says is a party the window may know of.
LEMMA MailIsGiven ==
  ASSUME inbox \in Seq(Mails), InTouch, NEW i \in DOMAIN inbox, inbox[i].type = "ack", inbox[i].ok
  PROVE  inbox[i].party \in Pictures /\ Given(inbox[i].party)
<1>1. PICK h \in Seq(Pictures) :
        Served(h, inbox, parties[G]) /\ \A j \in DOMAIN h : Given(h[j])
  BY DEF InTouch, Pictures
<1>2. i \in 1..Len(inbox) /\ Len(h) = Len(inbox) + 1 /\ Len(inbox) \in Nat /\ i \in DOMAIN h
  <2>1. i \in 1..Len(inbox) /\ Len(inbox) \in Nat OBVIOUS
  <2>2. Len(h) = Len(inbox) + 1 BY <1>1 DEF Served
  <2> QED BY <1>1, <2>1, <2>2
<1>3. inbox[i].party = h[i] BY <1>1, <1>2 DEF Served, Leads
<1> QED BY <1>1, <1>2, <1>3

LEMMA ViewIsGiven ==
  ASSUME inbox \in Seq(Mails), InTouch, joined, ~Asking({"rejoin"})
  PROVE  view \in Pictures /\ Given(view)
<1>1. PICK h \in Seq(Pictures) :
        /\ Served(h, inbox, parties[G]) /\ JoinedSees(h[1])
        /\ \A j \in DOMAIN h : Given(h[j])
  BY DEF InTouch, Pictures
<1>2. view = h[1] BY <1>1 DEF JoinedSees
<1>3. 1 \in DOMAIN h
  <2>1. Len(inbox) \in Nat OBVIOUS
  <2>2. Len(h) = Len(inbox) + 1 BY <1>1 DEF Served
  <2> QED BY <1>1, <2>1, <2>2
<1> QED BY <1>1, <1>2, <1>3

LEMMA StillHoused ==
  ASSUME KeepsParty, KeepsRoom, inbox \in Seq(Mails), InTouch, Housed,
         NEW news, NEW answer, IsNews(news), IsAnswer(answer), inbox' = inbox \o news \o answer,
         joined' => joined, view' = view, Asking({"rejoin"}) => Asking({"rejoin"})',
         \A i \in DOMAIN inbox : \A a \in asked' :
           (inbox[i].type = "ack" /\ a.n = inbox[i].n) => a \in asked,
         \A m : \A a \in asked' :
           (answer = <<m>> /\ m.ok /\ a.n = m.n /\ a.kind \in Admissions) => HasRoom(m.party)'
  PROVE  Housed'
<1>1. (joined' /\ ~Asking({"rejoin"})') => HasRoom(view)'
  <2> SUFFICES ASSUME joined', ~Asking({"rejoin"})' PROVE HasRoom(view)' OBVIOUS
  <2> PICK v : v = view OBVIOUS
  <2>1. joined /\ ~Asking({"rejoin"}) OBVIOUS
  <2>2. v \in Pictures /\ Given(v) BY <2>1, ViewIsGiven
  <2>3. HasRoom(v) BY <2>1 DEF Housed, Lodged
  <2>4. HasRoom(v)' BY <2>2, <2>3, HasRoomKept
  <2> QED BY <2>4 DEF HasRoom
<1>2. ASSUME NEW i \in DOMAIN inbox', NEW a \in asked', inbox'[i].type = "ack", inbox'[i].ok,
             a.n = inbox'[i].n, a.kind \in Admissions
      PROVE  HasRoom(inbox[i].party)'
  <2> PICK m : m = inbox'[i] OBVIOUS
  <2> PICK p : p = m.party OBVIOUS
  <2>1. (i \in DOMAIN inbox /\ m = inbox[i]) \/ (news = <<m>> /\ m.type # "ack") \/ answer = <<m>>
    BY MailOf
  <2>2. CASE i \in DOMAIN inbox /\ m = inbox[i]
    <3>1. a \in asked BY <1>2, <2>2
    <3>2. HasRoom(p) BY <1>2, <2>2, <3>1 DEF Housed, Lodged
    <3>3. p \in Pictures /\ Given(p) BY <1>2, <2>2, MailIsGiven
    <3>4. HasRoom(p)' BY <3>2, <3>3, HasRoomKept
    <3> QED BY <3>4 DEF HasRoom
  <2>3. CASE answer = <<m>>
    <3>1. HasRoom(m.party)' BY <1>2, <2>3
    <3> QED BY <3>1 DEF HasRoom
  <2> QED BY <1>2, <2>1, <2>2, <2>3
<1> QED BY <1>1, <1>2 DEF Housed, Lodged

-----------------------------------------------------------------------------
(* The service under a window, and the types.                               *)

\* Who a request is carried out for.
CarriedAs(x) ==
  [kind |-> IF x.ask.kind = "start" THEN "start" ELSE "join",
   user |-> Me, sock |-> x.sock, guild |-> G, party |-> x.ask.party]

LEMMA CarriedIsARequest ==
  ASSUME NEW x \in Waits
  PROVE  CarriedAs(x) \in Requests /\ CarriedAs(x).guild = G /\ CarriedAs(x).sock = x.sock
<1>1. x.ask \in Asks /\ x.sock \in {Win, NoSocket} /\ x.ask.party \in Nat BY DEF Waits, Asks
<1> QED BY <1>1, Kinds DEF CarriedAs, Requests

LEMMA ArrivalIsARequest ==
  ASSUME NEW s \in Sockets
  PROVE  [kind |-> "start", user |-> Owner[s], sock |-> s, guild |-> G, party |-> 0] \in Requests
BY Kinds DEF Requests

\* What a step of the client's specification is to the service.
LEMMA ServiceStep ==
  ASSUME IInv, ClientTypeOK, ClientNext
  PROVE  IInv'
<1>1. CASE [Next]_vars BY <1>1, NextSound
<1>2. ASSUME NEW r \in Requests, Open(r) \/ Enter(r) \/ TooLate(r),
             UNCHANGED <<clock, members, live, connections, pending, nextItem>>
      PROVE  IInv'
  <2>1. pending' \subseteq Requests BY <1>2 DEF IInv, TypeOK
  <2> QED BY <1>2, <2>1, AdmissionSound
<1>3. CASE WindowConnects BY <1>1, <1>3, Kinds DEF WindowConnects, Next
<1>4. ASSUME NEW reached \in SUBSET waiting, WindowDrops(reached) \/ CloseWindow(reached)
      PROVE  IInv'
  <2>1. Disconnect(Win) \/ UNCHANGED vars BY <1>4 DEF WindowDrops, CloseWindow
  <2> QED BY <1>1, <2>1, Kinds DEF Next
<1>5. CASE ServerRestarts BY <1>1, <1>5 DEF ServerRestarts, Next
<1>6. CASE ClickLeave BY <1>1, <1>6, Kinds DEF ClickLeave, Next
<1>7. ASSUME NEW x \in waiting, ResumeWindow(x) PROVE IInv'
  <2>1. CASE x.ask.kind = "discover" BY <1>1, <1>7, <2>1 DEF ResumeWindow, Current
  <2>2. CASE x.ask.kind # "discover"
    <3>1. Carry(x) BY <1>7, <2>2 DEF ResumeWindow
    <3>2. /\ Open(CarriedAs(x)) \/ Enter(CarriedAs(x)) \/ TooLate(CarriedAs(x))
          /\ UNCHANGED <<clock, members, live, connections, pending, nextItem>>
      BY <3>1 DEF Carry, CarriedAs
    <3>3. CarriedAs(x) \in Requests BY CarriedIsARequest DEF ClientTypeOK, Waits
    <3> QED BY <1>2, <3>2, <3>3
  <2> QED BY <2>1, <2>2
<1>8. CASE Elsewhere
  <2>1. PICK s \in Sockets \ {Win} :
          Connect(s) \/ (Owner[s] # Me /\ (Arrives(s) \/ Goes(s)))
    BY <1>8 DEF Elsewhere
  <2>2. CASE Connect(s) BY <1>1, <2>2 DEF Next
  <2>3. CASE Arrives(s)
    <3> DEFINE r == [kind |-> "start", user |-> Owner[s], sock |-> s, guild |-> G, party |-> 0]
    <3>1. /\ Open(r) \/ Enter(r)
          /\ UNCHANGED <<clock, members, live, connections, pending, nextItem>>
      BY <2>3 DEF Arrives
    <3>2. r \in Requests BY ArrivalIsARequest
    <3> HIDE DEF r
    <3> QED BY <1>2, <3>1, <3>2
  <2>4. CASE Goes(s) BY <1>1, <2>4, Kinds DEF Goes, Next
  <2> QED BY <2>1, <2>2, <2>3, <2>4
<1>9. (\/ \E kind \in {"main", "party"} : OpenWindow(kind)
       \/ Receive
       \/ \E a \in asked : GiveUp(a)
       \/ Discover \/ JoinWhatItSees \/ ClickStartOrJoin) => UNCHANGED vars
  BY DEF OpenWindow, Receive, GiveUp, Discover, JoinWhatItSees, ClickStartOrJoin
<1> QED BY <1>1, <1>3, <1>4, <1>5, <1>6, <1>7, <1>8, <1>9 DEF ClientNext

\* What a promise that resolves does to what the window draws.
LEMMA RefusedCases ==
  ASSUME NEW a, Refused(a)
  PROVE  \/ /\ a.kind \in Resyncs
            /\ view' = NoParty /\ joined' = FALSE /\ blind' = TRUE /\ todo' = todo
         \/ /\ a.kind = "discover" /\ UNCHANGED <<view, joined, todo>>
            /\ blind' = (blind \/ view = NoParty)
         \/ /\ a.kind \notin Resyncs \cup {"discover"}
            /\ UNCHANGED <<view, joined, todo, blind>>
<1>1. "discover" \notin Resyncs BY DEF Resyncs
<1>2. CASE a.kind \in Resyncs BY <1>1, <1>2 DEF Refused, Forget
<1>3. CASE a.kind = "discover" BY <1>1, <1>3 DEF Refused
<1>4. CASE a.kind \notin Resyncs /\ a.kind # "discover" BY <1>4 DEF Refused
<1> QED BY <1>2, <1>3, <1>4

LEMMA SeeCases ==
  ASSUME NEW p, See(p)
  PROVE  view' = p /\ blind' = FALSE /\ todo' \in {todo, todo \cup {"join"}}
BY DEF See

LEMMA AcceptedCases ==
  ASSUME NEW a, NEW p, Accepted(a, p)
  PROVE  \/ /\ a.kind \in {"start", "join"} \cup Resyncs \/ p # NoParty
            /\ See(p) /\ joined' = (joined \/ a.kind \in {"start", "join"})
         \/ /\ a.kind \notin {"start", "join"} \cup Resyncs /\ p = NoParty
            /\ UNCHANGED <<view, joined, todo, blind>>
BY DEF Accepted

\* The mail that is received.
LEMMA HeadOfMail ==
  ASSUME ClientTypeOK, inbox # <<>>
  PROVE  /\ Head(inbox) \in Mails /\ Head(inbox) = inbox[1] /\ 1 \in DOMAIN inbox
         /\ Tail(inbox) \in Seq(Mails)
         /\ \A i \in DOMAIN Tail(inbox) : i + 1 \in DOMAIN inbox /\ Tail(inbox)[i] = inbox[i + 1]
         /\ Head(inbox).type \in {"state", "ended", "ack"}
         /\ Head(inbox).type = "state" => Head(inbox).party \in Pictures
         /\ Head(inbox).type = "ack" => Head(inbox).party \in Pictures /\ Head(inbox).ok \in BOOLEAN
<1>1. inbox \in Seq(Mails) BY DEF ClientTypeOK
<1>2. Head(inbox) \in Mails /\ Head(inbox) = inbox[1] /\ Tail(inbox) \in Seq(Mails)
  BY <1>1
<1>3. 1 \in DOMAIN inbox BY <1>1
<1>4. \A i \in DOMAIN Tail(inbox) : i + 1 \in DOMAIN inbox /\ Tail(inbox)[i] = inbox[i + 1]
  BY <1>1
<1> PICK m : m = Head(inbox) OBVIOUS
<1>5. m.type \in {"state", "ended", "ack"} BY <1>2 DEF Mails
<1>6. m.type = "state" => m.party \in Pictures BY <1>2 DEF Mails, Pictures
<1>7. m.type = "ack" => m.party \in Pictures /\ m.ok \in BOOLEAN BY <1>2 DEF Mails, Pictures
<1> QED BY <1>2, <1>3, <1>4, <1>5, <1>6, <1>7

-----------------------------------------------------------------------------
(* The window and its connection.                                           *)

LEMMA SpendIsTyped ==
  ASSUME ClientTypeOK, NEW what \in {"asks", "faults", "world"}, Spend(what)
  PROVE  /\ budget' \in [{"asks", "faults", "world"} -> Nat]
         /\ what # "asks" => budget'["asks"] = budget["asks"]
         /\ what = "asks" => budget["asks"] \in Nat /\ budget'["asks"] \in Nat
                             /\ budget'["asks"] <= budget["asks"]
<1>1. budget \in [{"asks", "faults", "world"} -> Nat] BY DEF ClientTypeOK
<1>2. budget[what] > 0 /\ budget' = [budget EXCEPT ![what] = @ - 1] BY DEF Spend
<1>3. budget[what] \in Nat /\ budget[what] - 1 \in Nat /\ budget[what] - 1 <= budget[what]
  BY <1>1, <1>2
<1> QED BY <1>1, <1>2, <1>3

\* A window that is cut off: nothing is on its way and nothing is claimed of it.
LEMMA CutOff ==
  ASSUME ClientInv, IInv', Given(parties[G])', Win \notin live', inbox' = <<>>, asked' = {},
         open' \in {"no", "main", "party"},
         view' \in {view, NoParty}, joined' \in BOOLEAN, joined' => joined /\ view' = view,
         before' \in BOOLEAN, view' # NoParty => before',
         blind' \in BOOLEAN, todo' \subseteq todo,
         budget' \in [{"asks", "faults", "world"} -> Nat], budget'["asks"] = budget["asks"],
         NEW reached, waiting' = Orphans(reached) \/ waiting' = {}
  PROVE  ClientInv'
<1>1. ClientTypeOK /\ Away /\ Numbered BY DEF ClientInv
<1>2. waiting' \subseteq Waits /\ \A x \in waiting' : \E y \in waiting : x.ask = y.ask
  <2>1. CASE waiting' = {} BY <2>1
  <2>2. CASE waiting' = Orphans(reached)
    <3>1. waiting \subseteq Waits BY <1>1 DEF ClientTypeOK, Waits
    <3>2. ASSUME NEW y \in waiting
          PROVE  [y EXCEPT !.sock = NoSocket] \in Waits /\ [y EXCEPT !.sock = NoSocket].ask = y.ask
      BY <3>1 DEF Waits
    <3> QED BY <2>2, <3>2 DEF Orphans
  <2> QED BY <2>1, <2>2
<1>3. ClientTypeOK'
  <2>1. inbox' \in Seq(Mails) OBVIOUS
  <2>2. view' \in Party \cup {NoParty} BY <1>1 DEF ClientTypeOK
  <2>3. todo' \subseteq {"discover", "join", "close"} BY <1>1 DEF ClientTypeOK
  <2> QED BY <1>2, <2>1, <2>2, <2>3 DEF ClientTypeOK, Waits
<1>4. Away' BY <1>1 DEF Away
<1>5. Numbered'
  <2>1. \A x \in waiting' : budget["asks"] < x.ask.n BY <1>1, <1>2 DEF Numbered
  <2>2. DOMAIN inbox' = {} OBVIOUS
  <2> QED BY <2>1, <2>2 DEF Numbered
<1> QED BY <1>3, <1>4, <1>5 DEF ClientInv

LEMMA CutCases ==
  ASSUME ClientTypeOK, Cut
  PROVE  /\ asked' = {} /\ view' \in {view, NoParty} /\ joined' \in BOOLEAN
         /\ joined' => joined /\ view' = view
         /\ blind' \in BOOLEAN /\ todo' \subseteq todo
BY DEF Cut, ClientTypeOK

LEMMA DropStep ==
  ASSUME ClientInv, IInv', NEW reached, WindowDrops(reached)
  PROVE  ClientInv'
<1>1. /\ ClientTypeOK /\ Away /\ Given(parties[G]) /\ IInv BY DEF ClientInv
<1>2. Spend("faults") /\ Disconnect(Win) /\ Cut /\ UNCHANGED <<open, before>>
      /\ waiting' = Orphans(reached) /\ Post(News(FALSE), <<>>)
  BY DEF WindowDrops
<1>3. Win \notin live' BY <1>2 DEF Disconnect
<1>4. inbox' = <<>> BY <1>2, <1>3 DEF Post
<1>5. parties'[G] \in Pictures BY Kinds DEF IInv, TypeOK, Pictures
<1>6. Given(parties[G])' BY <1>1, <1>2, <1>5, Disconnected, GivenParty
<1>7. /\ asked' = {} /\ view' \in {view, NoParty} /\ joined' \in BOOLEAN
      /\ joined' => joined /\ view' = view
      /\ blind' \in BOOLEAN /\ todo' \subseteq todo
  BY <1>1, <1>2, CutCases
<1>8. open' \in {"no", "main", "party"} /\ before' \in BOOLEAN /\ (view' # NoParty => before')
  BY <1>1, <1>2, <1>7 DEF ClientTypeOK, Away
<1>9. budget' \in [{"asks", "faults", "world"} -> Nat] /\ budget'["asks"] = budget["asks"]
  BY <1>1, <1>2, SpendIsTyped
<1> QED BY <1>2, <1>3, <1>4, <1>6, <1>7, <1>8, <1>9, CutOff

LEMMA CloseStep ==
  ASSUME ClientInv, IInv', NEW reached, CloseWindow(reached)
  PROVE  ClientInv'
<1>1. /\ ClientTypeOK /\ Away /\ Given(parties[G]) /\ IInv BY DEF ClientInv
<1>2. /\ IF Win \in live THEN Disconnect(Win) /\ Post(News(FALSE), <<>>)
                         ELSE UNCHANGED <<vars, inbox>>
      /\ waiting' = Orphans(reached) /\ asked' = {} /\ open' = "no"
      /\ view' = NoParty /\ todo' = {} /\ joined' = FALSE /\ before' = FALSE /\ blind' = FALSE
      /\ UNCHANGED budget \/ Spend("faults")
  BY DEF CloseWindow, Fresh
<1>3. Win \notin live' /\ inbox' = <<>>
  <2>1. CASE Win \in live
    <3>1. Win \notin live' BY <1>2, <2>1 DEF Disconnect
    <3> QED BY <1>2, <2>1, <3>1 DEF Post
  <2>2. CASE Win \notin live BY <1>1, <1>2, <2>2 DEF Away, vars
  <2> QED BY <2>1, <2>2
<1>4. Given(parties[G])'
  <2>1. parties'[G] \in Pictures BY Kinds DEF IInv, TypeOK, Pictures
  <2>2. CASE Win \in live BY <1>1, <1>2, <2>1, <2>2, Disconnected, GivenParty
  <2>3. CASE Win \notin live BY <1>1, <1>2, <2>3 DEF Given, vars
  <2> QED BY <2>2, <2>3
<1>5. budget' \in [{"asks", "faults", "world"} -> Nat] /\ budget'["asks"] = budget["asks"]
  BY <1>1, <1>2, SpendIsTyped DEF ClientTypeOK
<1> QED BY <1>2, <1>3, <1>4, <1>5, CutOff

LEMMA RestartStep ==
  ASSUME ClientInv, IInv', ServerRestarts
  PROVE  ClientInv'
<1>1. /\ ClientTypeOK /\ Away /\ IInv BY DEF ClientInv
<1>2. /\ Spend("faults") /\ Restart /\ Cut /\ UNCHANGED <<open, before>>
      /\ inbox' = <<>> /\ waiting' = {}
  BY DEF ServerRestarts
<1>3. Win \notin live' /\ Given(parties[G])' BY <1>2, Kinds DEF Restart, Given
<1>4. /\ asked' = {} /\ view' \in {view, NoParty} /\ joined' \in BOOLEAN
      /\ joined' => joined /\ view' = view
      /\ blind' \in BOOLEAN /\ todo' \subseteq todo
  BY <1>1, <1>2, CutCases
<1>5. open' \in {"no", "main", "party"} /\ before' \in BOOLEAN /\ (view' # NoParty => before')
  BY <1>1, <1>2, <1>4 DEF ClientTypeOK, Away
<1>6. budget' \in [{"asks", "faults", "world"} -> Nat] /\ budget'["asks"] = budget["asks"]
  BY <1>1, <1>2, SpendIsTyped
<1> QED BY <1>2, <1>3, <1>4, <1>5, <1>6, CutOff

LEMMA OpenStep ==
  ASSUME ClientInv, IInv', NEW kind \in {"main", "party"}, OpenWindow(kind)
  PROVE  ClientInv'
<1>1. ClientTypeOK /\ Away /\ Numbered /\ Given(parties[G]) BY DEF ClientInv
<1>2. /\ open = "no" /\ open' = kind /\ UNCHANGED vars
      /\ UNCHANGED <<inbox, asked, waiting, view, joined, before, todo, blind, budget>>
  BY DEF OpenWindow
<1>3. Win \notin live' BY <1>1, <1>2 DEF Away, vars
<1>4. ClientTypeOK' BY <1>1, <1>2 DEF ClientTypeOK
<1>5. Away' BY <1>1, <1>2, <1>3 DEF Away
<1>6. Numbered' BY <1>1, <1>2 DEF Numbered
<1>7. Given(parties[G])' BY <1>1, <1>2 DEF Given, vars
<1> QED BY <1>3, <1>4, <1>5, <1>6, <1>7 DEF ClientInv

\* It comes back: it asks about the party it drew, or will ask whether there is one.
LEMMA ConnectStep ==
  ASSUME ClientInv, IInv', WindowConnects
  PROVE  ClientInv'
<1>1. /\ ClientTypeOK /\ Away /\ Numbered /\ IInv /\ Given(parties[G]) BY DEF ClientInv
<1>2. /\ open # "no" /\ Connect(Win) /\ before' = TRUE /\ todo' = todo \cup {"discover"}
      /\ IF before /\ view # NoParty
         THEN Ask(ResyncKind, view.id)
         ELSE UNCHANGED <<inbox, asked, waiting, budget>>
      /\ UNCHANGED <<open, view, joined, blind>>
  BY DEF WindowConnects, AsksOnReconnect
<1>3. Win \in live' /\ Win \notin live BY <1>2 DEF Connect
<1>4. inbox = <<>> /\ inbox \in Seq(Mails) BY <1>1, <1>3 DEF Away
<1>5. KeepsParty /\ UNCHANGED parties BY <1>1, <1>2, Reconnected, Kinds
<1>6. Given(parties[G])' BY <1>1, <1>5, GivenParty
<1> PICK p : p = parties[G] OBVIOUS
<1>7. p \in Pictures /\ TypeOK BY <1>1, PartyTyped DEF IInv
<1>8. Served(<<p>>, <<>>, p) /\ <<p>>[1] = p /\ DOMAIN <<p>> = {1}
  BY <1>7 DEF Served, Pictures
<1>9. Away' BY <1>1, <1>2, <1>3 DEF Away
<1>10. view' \in Party \cup {NoParty} /\ todo' \subseteq {"discover", "join", "close"}
  BY <1>1, <1>2 DEF ClientTypeOK
<1>11. Given(p)' BY <1>5, <1>6 DEF Given
<1>12. CASE before /\ view # NoParty
  <2>1. ResyncKind \in Kind /\ ResyncKind \in Resyncs /\ (joined => ResyncKind = "rejoin")
    BY DEF ResyncKind, Kind, Resyncs
  <2>2. view.id \in Nat BY <1>1, <1>12 DEF ClientTypeOK, Party
  <2>3. PICK a \in Asks : a.kind = ResyncKind /\ \E answer : Questioned(a, answer)
    BY <1>1, <1>2, <1>3, <1>5, <1>7, <1>12, <2>1, <2>2, AskIsAQuestion
  <2>4. PICK answer : Questioned(a, answer) BY <2>3
  <2>5. /\ asked' \subseteq Asks /\ waiting' \subseteq Waits /\ inbox' \in Seq(Mails)
        /\ budget' \in [{"asks", "faults", "world"} -> Nat]
        /\ Numbered'
        /\ \A b \in asked : b.n # a.n
    BY <1>1, <1>5, <2>4, QuestionIsBooked
  <2>6. ClientTypeOK' BY <1>1, <1>2, <1>10, <2>5 DEF ClientTypeOK, Waits
  <2>7. /\ asked' = asked \cup {a} /\ inbox' = inbox \o <<>> \o answer /\ IsAnswer(answer)
    BY <2>4 DEF Questioned
  <2>8. IsNews(<<>>) BY <1>5 DEF IsNews
  <2>9. InTouch'
    <3>1. PICK k : Served(k, inbox', p) /\ Longer(k, <<p>>, p)
      BY <1>4, <1>5, <1>7, <1>8, <2>7, <2>8, WalkOn
    <3>2. k \in Seq(Pictures) /\ k[1] = p /\ \A i \in DOMAIN k : k[i] = p
      BY <1>8, <3>1 DEF Served, Pictures, Longer
    <3>3. Asking(Resyncs)' /\ (joined => Asking({"rejoin"})')
      BY <2>1, <2>3, <2>7 DEF Asking
    <3>4. Follows(p)' BY <3>3 DEF Follows
    <3>5. JoinedSees(p)' BY <1>2, <1>12, <3>3 DEF JoinedSees
    <3>6. \A i \in DOMAIN k : Given(k[i])' BY <1>11, <3>2
    <3>7. Served(k, inbox', parties'[G]) BY <1>5, <3>1
    <3> QED BY <3>2, <3>4, <3>5, <3>6, <3>7 DEF InTouch, Pictures
  <2>10. Housed'
    <3>1. joined' => Asking({"rejoin"})' BY <1>2, <2>1, <2>3, <2>7 DEF Asking
    <3>2. ASSUME NEW i \in DOMAIN inbox', NEW b \in asked', inbox'[i].ok, b.n = inbox'[i].n
          PROVE  b.kind \notin Admissions
      <4> PICK m : m = inbox'[i] OBVIOUS
      <4>1. answer = <<m>>
        <5>1. Adds(inbox, inbox', answer) BY <1>1, <1>5, <2>4, OnlyTheAnswer
        <5> QED BY <1>4, <5>1 DEF Adds
      <4>2. m.n = a.n /\ a.kind = "sync" BY <2>4, <3>2, <4>1, OnTheSpot
      <4>3. b = a BY <2>5, <2>7, <3>2, <4>2
      <4> QED BY <4>2, <4>3 DEF Admissions
    <3> QED BY <3>1, <3>2 DEF Housed, Lodged
  <2> QED BY <1>3, <1>6, <1>9, <2>5, <2>6, <2>9, <2>10 DEF ClientInv
<1>13. CASE ~(before /\ view # NoParty)
  <2>1. view = NoParty /\ ~joined BY <1>1, <1>13 DEF Away
  <2>2. UNCHANGED <<inbox, asked, waiting, budget>> BY <1>2, <1>13
  <2>3. ClientTypeOK' BY <1>1, <1>2, <1>10, <2>2 DEF ClientTypeOK
  <2>4. Numbered' BY <1>1, <2>2 DEF Numbered
  <2>5. InTouch'
    <3>1. Follows(p)' BY <1>2, <2>1 DEF Follows
    <3>2. JoinedSees(p)' BY <1>2, <2>1 DEF JoinedSees
    <3>3. Served(<<p>>, inbox', parties'[G]) BY <1>4, <1>5, <1>8, <2>2
    <3>4. <<p>> \in Seq(Pictures) BY <1>7
    <3>5. \A i \in DOMAIN <<p>> : Given(<<p>>[i])' BY <1>8, <1>11
    <3> QED BY <1>8, <3>1, <3>2, <3>3, <3>4, <3>5 DEF InTouch, Pictures
  <2>6. Housed'
    <3>1. DOMAIN inbox' = {} /\ ~joined' BY <1>2, <1>4, <2>1, <2>2
    <3> QED BY <3>1 DEF Housed, Lodged
  <2> QED BY <1>3, <1>6, <1>9, <2>3, <2>4, <2>5, <2>6 DEF ClientInv
<1> QED BY <1>12, <1>13

-----------------------------------------------------------------------------
(* What the window asks and hears.                                          *)

LEMMA NothingDone ==
  ASSUME IInv, UNCHANGED vars
  PROVE  KeepsParty /\ KeepsRoom /\ UNCHANGED <<parties, room, live>>
<1>1. UNCHANGED <<parties, room, nextParty, live>> BY DEF vars
<1> QED BY <1>1, PartyTyped DEF KeepsParty, KeepsRoom, IInv

\* A question asked, and nothing else of note.
LEMMA AskingStep ==
  ASSUME ClientInv, NEW kind \in Kind, NEW pid \in Nat, Ask(kind, pid), IInv',
         Win \in live, UNCHANGED vars, UNCHANGED <<open, view, joined, before, blind>>,
         todo' \subseteq todo, "close" \in todo => "close" \in todo',
         "discover" \in todo => "discover" \in todo' \/ kind = "discover"
  PROVE  ClientInv'
<1>1. /\ ClientTypeOK /\ Away /\ Numbered /\ IInv /\ Given(parties[G]) /\ InTouch
      /\ TypeOK /\ inbox \in Seq(Mails)
  BY DEF ClientInv, IInv, ClientTypeOK
<1>2. KeepsParty /\ KeepsRoom /\ UNCHANGED <<parties, room, live>> BY <1>1, NothingDone
<1>3. PICK a \in Asks : a.kind = kind /\ \E answer : Questioned(a, answer)
  BY <1>1, <1>2, AskIsAQuestion
<1>4. PICK answer : Questioned(a, answer) BY <1>3
<1>5. /\ asked' \subseteq Asks /\ waiting' \subseteq Waits /\ inbox' \in Seq(Mails)
      /\ budget' \in [{"asks", "faults", "world"} -> Nat]
      /\ Numbered'
      /\ \A b \in asked : b.n # a.n
      /\ \A i \in DOMAIN inbox : inbox[i].type = "ack" => inbox[i].n # a.n
  BY <1>1, <1>2, <1>4, QuestionIsBooked
<1>6. /\ asked' = asked \cup {a} /\ inbox' = inbox \o <<>> \o answer /\ IsAnswer(answer)
  BY <1>4 DEF Questioned
<1>7. IsNews(<<>>) BY <1>2 DEF IsNews
<1>8. ClientTypeOK' BY <1>1, <1>5 DEF ClientTypeOK, Waits
<1>9. Away' BY <1>1, <1>2 DEF Away
<1>10. Given(parties[G])' BY <1>1, <1>2, GivenParty
<1>11. InTouch'
  <2>1. \A kinds : Asking(kinds) => Asking(kinds)' BY <1>6 DEF Asking
  <2>2. kind = "discover" => Asking({"discover"})' BY <1>3, <1>6 DEF Asking
  <2>3. \A p \in Pictures : Follows(p) => Follows(p)' BY <2>1, <2>2 DEF Follows
  <2>4. \A p \in Pictures : JoinedSees(p) => JoinedSees(p)' BY <2>1 DEF JoinedSees
  <2> QED BY <1>1, <1>2, <1>6, <1>7, <2>3, <2>4, StillInTouch
<1>12. ASSUME Housed PROVE Housed'
  <2>1. Asking({"rejoin"}) => Asking({"rejoin"})' BY <1>6 DEF Asking
  <2>2. \A i \in DOMAIN inbox : \A b \in asked' :
           (inbox[i].type = "ack" /\ b.n = inbox[i].n) => b \in asked
    BY <1>5, <1>6
  <2>3. ASSUME NEW m, NEW b \in asked', answer = <<m>>, m.ok, b.n = m.n
        PROVE  b.kind \notin Admissions
    <3>1. m.n = a.n /\ a.kind = "sync" BY <1>4, <2>3, OnTheSpot
    <3>2. b = a BY <1>5, <1>6, <2>3, <3>1
    <3> QED BY <3>1, <3>2 DEF Admissions
  <2> QED BY <1>1, <1>2, <1>6, <1>7, <1>12, <2>1, <2>2, <2>3, StillHoused
<1>13. (Win \in live' /\ open' = "party" /\ "close" \notin todo') => Housed'
  BY <1>2, <1>12 DEF ClientInv
<1> QED BY <1>5, <1>8, <1>9, <1>10, <1>11, <1>13 DEF ClientInv

LEMMA DiscoverStep ==
  ASSUME ClientInv, IInv', Discover
  PROVE  ClientInv'
<1>1. "discover" \in Kind /\ 0 \in Nat BY DEF Kind
<1>2. /\ Win \in live /\ UNCHANGED vars /\ UNCHANGED <<open, view, joined, before, blind>>
      /\ todo' = todo \ {"discover"} /\ Ask("discover", 0)
  BY DEF Discover
<1> QED BY <1>1, <1>2, AskingStep

LEMMA StartOrJoinStep ==
  ASSUME ClientInv, IInv', ClickStartOrJoin
  PROVE  ClientInv'
<1>1. /\ Win \in live /\ UNCHANGED vars /\ UNCHANGED <<open, view, joined, before, todo, blind>>
      /\ Ask("start", 0) \/ (view # NoParty /\ Ask("join", view.id))
  BY DEF ClickStartOrJoin
<1>2. {"start", "join"} \subseteq Kind /\ 0 \in Nat BY DEF Kind
<1>3. view # NoParty => view.id \in Nat BY DEF ClientInv, ClientTypeOK, Party
<1> QED BY <1>1, <1>2, <1>3, AskingStep

LEMMA JoinWhatItSeesStep ==
  ASSUME ClientInv, IInv', JoinWhatItSees
  PROVE  ClientInv'
<1>1. /\ Win \in live /\ UNCHANGED vars /\ UNCHANGED <<open, view, joined, before, blind>>
      /\ todo' = todo \ {"join"}
      /\ IF view # NoParty THEN Ask("join", view.id)
                           ELSE UNCHANGED <<inbox, asked, waiting, budget>>
  BY DEF JoinWhatItSees
<1>2. CASE view # NoParty
  <2>1. "join" \in Kind /\ view.id \in Nat
    BY <1>2 DEF ClientInv, ClientTypeOK, Party, Kind
  <2> QED BY <1>1, <1>2, <2>1, AskingStep
<1>3. CASE view = NoParty
  <2>1. /\ ClientTypeOK /\ Away /\ Numbered /\ IInv /\ Given(parties[G]) /\ InTouch
        /\ inbox \in Seq(Mails)
    BY <1>1 DEF ClientInv, ClientTypeOK
  <2>2. KeepsParty /\ KeepsRoom /\ UNCHANGED <<parties, room, live>>
    BY <1>1, <2>1, NothingDone
  <2>3. UNCHANGED <<inbox, asked, waiting, budget>> BY <1>1, <1>3
  <2>4. ClientTypeOK' BY <1>1, <2>1, <2>3 DEF ClientTypeOK
  <2>5. Away' BY <1>1, <2>1, <2>2, <2>3 DEF Away
  <2>6. Numbered' BY <2>1, <2>3 DEF Numbered
  <2>7. Given(parties[G])' BY <2>1, <2>2, GivenParty
  <2>8. \A kinds : Asking(kinds)' = Asking(kinds) BY <2>3 DEF Asking
  <2>9. InTouch'
    <3>1. \A p : Follows(p)' = Follows(p) BY <1>1, <2>8 DEF Follows
    <3>2. \A p : JoinedSees(p)' = JoinedSees(p) BY <1>1, <2>8 DEF JoinedSees
    <3>3. \A p : Given(p)' = Given(p) BY <1>1 DEF Given, vars
    <3> QED BY <2>1, <2>2, <2>3, <3>1, <3>2, <3>3 DEF InTouch
  <2>10. Housed => Housed'
    <3>1. \A p : HasRoom(p)' = HasRoom(p) BY <2>2 DEF HasRoom
    <3> QED BY <1>1, <2>3, <2>8, <3>1 DEF Housed, Lodged
  <2>11. (Win \in live' /\ open' = "party" /\ "close" \notin todo') => Housed'
    BY <1>1, <2>2, <2>10 DEF ClientInv
  <2> QED BY <2>4, <2>5, <2>6, <2>7, <2>9, <2>11 DEF ClientInv
<1> QED BY <1>2, <1>3

\* What is left alone altogether.
LEMMA StutterStep ==
  ASSUME ClientInv, UNCHANGED allVars
  PROVE  ClientInv'
<1>1. UNCHANGED vars /\ UNCHANGED client BY DEF allVars
<1>2. IInv' BY <1>1, NextSound DEF ClientInv
<1>3. ClientTypeOK' BY <1>1 DEF client, ClientInv, ClientTypeOK
<1>4. Away' /\ Given(parties[G])' BY <1>1 DEF client, vars, ClientInv, Away, Given
<1>5. Numbered' BY <1>1 DEF client, ClientInv, Numbered
<1>6. Win \in live' => InTouch'
  BY <1>1
  DEF client, vars, ClientInv, InTouch, Served, Leads, Follows, JoinedSees, Asking, Given
<1>7. (Win \in live' /\ open' = "party" /\ "close" \notin todo') => Housed'
  BY <1>1 DEF client, vars, ClientInv, Housed, Lodged, HasRoom, Asking
<1> QED BY <1>2, <1>3, <1>4, <1>5, <1>6, <1>7 DEF ClientInv

\* What is heard leaves a window drawing q, where the mail has got to.
Heard(q) ==
  /\ view' \in Pictures /\ joined' \in BOOLEAN /\ blind' \in BOOLEAN
  /\ todo' \in {todo, todo \cup {"join"}}
  /\ Follows(q)' /\ JoinedSees(q)'

LEMMA AlikeAre ==
  ASSUME UNCHANGED vars, NEW p, NEW q, p # NoParty, q # NoParty, p.id = q.id, HasRoom(p)
  PROVE  HasRoom(q)'
BY DEF HasRoom, vars

LEMMA HeardState ==
  ASSUME ClientTypeOK, UNCHANGED vars, UNCHANGED asked, NEW p, NEW q \in Pictures,
         q # NoParty, p = NoParty \/ p.id = q.id, JoinedSees(p),
         See(q), UNCHANGED joined
  PROVE  Heard(q) /\ (Lodged => Lodged')
<1>1. view' = q /\ blind' = FALSE /\ todo' \in {todo, todo \cup {"join"}} BY SeeCases
<1>2. Asking({"rejoin"})' = Asking({"rejoin"}) BY DEF Asking
<1>3. Follows(q)' /\ JoinedSees(q)' BY <1>1 DEF Follows, JoinedSees
<1>4. ASSUME Lodged PROVE Lodged'
  <2> SUFFICES ASSUME joined, ~Asking({"rejoin"}) PROVE HasRoom(q)'
    BY <1>1, <1>2 DEF Lodged, HasRoom
  <2>1. view = p /\ p # NoParty /\ HasRoom(p) BY <1>4 DEF JoinedSees, Lodged
  <2> QED BY <2>1, AlikeAre
<1> QED BY <1>1, <1>3, <1>4 DEF Heard, ClientTypeOK

LEMMA HeardEnd ==
  ASSUME ClientTypeOK, UNCHANGED vars, UNCHANGED asked, NEW p \in Pictures, p # NoParty,
         Follows(p), JoinedSees(p), HearEnd(p.id)
  PROVE  Heard(NoParty) /\ (Lodged => Lodged')
<1>1. NoParty \in Pictures /\ view \in Pictures /\ joined \in BOOLEAN /\ blind \in BOOLEAN
  BY DEF Pictures, ClientTypeOK
<1>2. \A kinds : Asking(kinds)' = Asking(kinds) BY DEF Asking
<1>3. CASE IdOf(view) = p.id
  <2>1. view' = NoParty /\ joined' = FALSE /\ UNCHANGED <<todo, blind>>
    BY <1>3 DEF HearEnd, Forget
  <2> QED BY <1>1, <2>1 DEF Heard, Follows, JoinedSees, Lodged
<1>4. CASE IdOf(view) # p.id
  <2>1. UNCHANGED <<view, joined, todo, blind>> BY <1>4 DEF HearEnd
  <2>2. view # p BY <1>4 DEF IdOf
  <2>3. Follows(NoParty)' BY <1>2, <2>1, <2>2 DEF Follows
  <2>4. JoinedSees(NoParty)' BY <1>2, <2>1, <2>2 DEF JoinedSees
  <2>5. Lodged => Lodged' BY <1>2, <2>1 DEF Lodged, HasRoom, vars
  <2> QED BY <1>1, <2>1, <2>3, <2>4, <2>5 DEF Heard
<1> QED BY <1>3, <1>4

LEMMA HeardRefusal ==
  ASSUME ClientTypeOK, UNCHANGED vars, NEW a \in asked, asked' = asked \ {a}, Refused(a),
         NEW p, Follows(p), JoinedSees(p)
  PROVE  Heard(p) /\ (Lodged => Lodged')
<1>1. view \in Pictures /\ NoParty \in Pictures /\ joined \in BOOLEAN /\ blind \in BOOLEAN
  BY DEF Pictures, ClientTypeOK
<1>2. \A kinds : a.kind \notin kinds => Asking(kinds)' = Asking(kinds) BY DEF Asking
<1>3. CASE a.kind \in Resyncs
  <2>1. view' = NoParty /\ joined' = FALSE /\ blind' = TRUE /\ todo' = todo
    BY <1>3, RefusedCases DEF Resyncs
  <2> QED BY <1>1, <2>1 DEF Heard, Follows, JoinedSees, Lodged
<1>4. CASE a.kind \notin Resyncs
  <2>1. UNCHANGED <<view, joined, todo>> /\ blind' \in BOOLEAN
    BY <1>1, <1>4, RefusedCases
  <2>2. blind => blind' BY <1>4, RefusedCases
  <2>3. (a.kind = "discover" /\ view = NoParty) => blind' BY <1>4, RefusedCases DEF Resyncs
  <2>4. Asking(Resyncs)' = Asking(Resyncs) /\ Asking({"rejoin"})' = Asking({"rejoin"})
    BY <1>2, <1>4 DEF Resyncs
  <2>5. a.kind # "discover" => Asking({"discover"})' = Asking({"discover"}) BY <1>2
  <2>6. Follows(p)' BY <2>1, <2>2, <2>3, <2>4, <2>5 DEF Follows
  <2>7. JoinedSees(p)' BY <2>1, <2>4 DEF JoinedSees
  <2>8. Lodged => Lodged' BY <2>1, <2>4 DEF Lodged, HasRoom, vars
  <2> QED BY <1>1, <2>1, <2>6, <2>7, <2>8 DEF Heard
<1> QED BY <1>3, <1>4

LEMMA HeardAnswer ==
  ASSUME ClientTypeOK, UNCHANGED vars, NEW a \in asked, asked' = asked \ {a},
         NEW p \in Pictures, Accepted(a, p), p = NoParty => a.kind = "discover",
         Follows(p), JoinedSees(p)
  PROVE  /\ Heard(p)
         /\ (Lodged /\ (a.kind \in Admissions => HasRoom(p))) => Lodged'
<1>1. view \in Pictures /\ joined \in BOOLEAN /\ blind \in BOOLEAN
  BY DEF Pictures, ClientTypeOK
<1>2. \A kinds : a.kind \notin kinds => Asking(kinds)' = Asking(kinds) BY DEF Asking
<1>3. CASE p = NoParty
  <2>1. a.kind \notin {"start", "join"} \cup Resyncs /\ a.kind = "discover"
    BY <1>3 DEF Resyncs
  <2>2. UNCHANGED <<view, joined, todo, blind>> BY <1>3, <2>1, AcceptedCases
  <2>3. Asking(Resyncs)' = Asking(Resyncs) /\ Asking({"rejoin"})' = Asking({"rejoin"})
    BY <1>2, <2>1 DEF Resyncs
  <2>4. Follows(p)' BY <1>3, <2>2, <2>3 DEF Follows
  <2>5. JoinedSees(p)' BY <2>2, <2>3 DEF JoinedSees
  <2>6. Lodged => Lodged' BY <2>2, <2>3 DEF Lodged, HasRoom, vars
  <2> QED BY <1>1, <2>1, <2>2, <2>4, <2>5, <2>6 DEF Heard
<1>4. CASE p # NoParty
  <2>1. See(p) /\ joined' = (joined \/ a.kind \in {"start", "join"})
    BY <1>4, AcceptedCases
  <2>2. view' = p /\ blind' = FALSE /\ todo' \in {todo, todo \cup {"join"}} BY <2>1, SeeCases
  <2>3. Follows(p)' /\ JoinedSees(p)' BY <1>4, <2>2 DEF Follows, JoinedSees
  <2>4. joined' \in BOOLEAN BY <1>1, <2>1
  <2>5. HasRoom(p) => Lodged' BY <2>2 DEF Lodged, HasRoom, vars
  <2>6. ASSUME a.kind \notin Admissions, Lodged PROVE Lodged'
    <3>1. joined' = joined /\ Asking({"rejoin"})' = Asking({"rejoin"})
      BY <1>1, <1>2, <2>1, <2>6 DEF Admissions
    <3>2. (joined /\ ~Asking({"rejoin"})) => view = p /\ HasRoom(p)
      BY <2>6 DEF JoinedSees, Lodged
    <3> QED BY <2>5, <3>1, <3>2 DEF Lodged
  <2> QED BY <2>2, <2>3, <2>4, <2>5, <2>6 DEF Heard
<1> QED BY <1>3, <1>4

\* A step that hears something, with no more of the mail or the questions left
\* than there were.
LEMMA HearingStep ==
  ASSUME ClientInv, IInv', Win \in live, UNCHANGED vars, UNCHANGED <<open, waiting, before>>,
         budget' \in [{"asks", "faults", "world"} -> Nat], budget'["asks"] = budget["asks"],
         asked' \subseteq asked, inbox' \in Seq(Mails),
         \A j \in DOMAIN inbox' : \E i \in DOMAIN inbox : inbox'[j] = inbox[i],
         NEW h, Served(h, inbox', parties[G]), \A i \in DOMAIN h : Given(h[i]), Heard(h[1]),
         Housed => Lodged'
  PROVE  ClientInv'
<1>1. /\ ClientTypeOK /\ Away /\ Numbered /\ IInv /\ Given(parties[G])
  BY DEF ClientInv
<1>2. KeepsParty /\ UNCHANGED <<parties, room, live>> BY <1>1, NothingDone
<1>3. ClientTypeOK'
  <2>1. view' \in Party \cup {NoParty} BY DEF Heard, Pictures
  <2>2. joined' \in BOOLEAN /\ blind' \in BOOLEAN /\ todo' \in {todo, todo \cup {"join"}}
    BY DEF Heard
  <2>3. todo' \subseteq {"discover", "join", "close"} BY <1>1, <2>2 DEF ClientTypeOK
  <2> QED BY <1>1, <2>1, <2>2, <2>3 DEF ClientTypeOK
<1>4. Away'
  <2>1. joined' => view' # NoParty BY DEF Heard, JoinedSees
  <2>2. Win \in live' /\ open' # "no" /\ before' BY <1>1, <1>2 DEF Away
  <2> QED BY <2>1, <2>2 DEF Away
<1>5. Numbered'
  <2>1. \A a \in asked' : a \in asked OBVIOUS
  <2>2. ASSUME NEW j \in DOMAIN inbox', inbox'[j].type = "ack"
        PROVE  /\ budget["asks"] < inbox'[j].n
               /\ \A a \in asked' :
                    (inbox'[j].ok /\ inbox'[j].n = a.n /\ inbox'[j].party = NoParty)
                      => a.kind = "discover"
    BY <1>1, <2>2 DEF Numbered
  <2> QED BY <1>1, <2>1, <2>2 DEF Numbered
<1>6. Given(parties[G])' BY <1>1, <1>2, GivenParty
<1>7. InTouch'
  <2> PICK box : box = inbox' OBVIOUS
  <2> PICK first : first = h[1] OBVIOUS
  <2>1. h \in Seq(Pictures) BY DEF Served, Pictures
  <2>2. \A i \in DOMAIN h : Given(h[i])' BY DEF Given, vars
  <2>3. Follows(first)' /\ JoinedSees(first)' BY DEF Heard
  <2>4. Served(h, inbox', parties'[G]) BY <1>2
  <2> QED BY <2>1, <2>2, <2>3, <2>4 DEF InTouch, Pictures
<1>8. ASSUME Housed PROVE Housed'
  <2>1. \A p : HasRoom(p)' = HasRoom(p) BY <1>2 DEF HasRoom
  <2>2. ASSUME NEW j \in DOMAIN inbox', NEW a \in asked', inbox'[j].type = "ack", inbox'[j].ok,
               a.n = inbox'[j].n, a.kind \in Admissions
        PROVE  HasRoom(inbox[j].party)'
    <3> PICK m : m = inbox'[j] OBVIOUS
    <3>1. PICK i \in DOMAIN inbox : m = inbox[i] OBVIOUS
    <3>2. HasRoom(m.party) BY <1>8, <2>2, <3>1 DEF Housed
    <3>3. HasRoom(m.party)' BY <2>1, <3>2
    <3> QED BY <3>3 DEF HasRoom
  <2>3. Lodged' BY <1>8
  <2> QED BY <2>2, <2>3 DEF Housed
<1>9. (open' = "party" /\ "close" \notin todo') => Housed'
  BY <1>8 DEF ClientInv, Heard
<1> QED BY <1>3, <1>4, <1>5, <1>6, <1>7, <1>9 DEF ClientInv

\* The walk that a connected window is on, taken apart.
LEMMA OnTheWalk ==
  ASSUME ClientInv, Win \in live
  PROVE  \E h \in Seq(Pictures) :
           /\ Served(h, inbox, parties[G]) /\ 1 \in DOMAIN h /\ h[1] \in Pictures
           /\ Follows(h[1]) /\ JoinedSees(h[1])
           /\ \A i \in DOMAIN h : Given(h[i])
<1>1. inbox \in Seq(Mails) BY DEF ClientInv, ClientTypeOK
<1>2. PICK h \in Seq(Pictures) :
        /\ Served(h, inbox, parties[G]) /\ Follows(h[1]) /\ JoinedSees(h[1])
        /\ \A i \in DOMAIN h : Given(h[i])
  BY DEF ClientInv, InTouch, Pictures
<1>3. 1 \in DOMAIN h
  <2>1. Len(inbox) \in Nat BY <1>1
  <2>2. Len(h) = Len(inbox) + 1 BY <1>2 DEF Served
  <2> QED BY <2>1, <2>2
<1>4. h[1] \in Pictures BY <1>3
<1> QED BY <1>2, <1>3, <1>4

LEMMA GiveUpStep ==
  ASSUME ClientInv, IInv', NEW a \in asked, GiveUp(a)
  PROVE  ClientInv'
<1>1. ClientTypeOK /\ Away /\ inbox \in Seq(Mails) BY DEF ClientInv, ClientTypeOK
<1>2. /\ Spend("faults") /\ asked' = asked \ {a} /\ Refused(a)
      /\ UNCHANGED vars /\ UNCHANGED <<open, inbox, waiting, before>>
  BY DEF GiveUp
<1>3. budget' \in [{"asks", "faults", "world"} -> Nat] /\ budget'["asks"] = budget["asks"]
  BY <1>1, <1>2, SpendIsTyped
<1>4. asked' \subseteq asked /\ inbox' \in Seq(Mails) BY <1>1, <1>2
<1>5. \A j \in DOMAIN inbox' : \E i \in DOMAIN inbox : inbox'[j] = inbox[i] BY <1>2
<1>6. Win \in live BY <1>1 DEF Away
<1>7. PICK h : /\ Served(h, inbox, parties[G])
               /\ Follows(h[1]) /\ JoinedSees(h[1])
               /\ \A i \in DOMAIN h : Given(h[i])
  BY <1>6, OnTheWalk
<1>8. Served(h, inbox', parties[G]) BY <1>2, <1>7
<1>9. Heard(h[1]) /\ (Lodged => Lodged') BY <1>1, <1>2, <1>7, HeardRefusal
<1>10. Housed => Lodged' BY <1>9 DEF Housed
<1> QED BY <1>2, <1>3, <1>4, <1>5, <1>6, <1>7, <1>8, <1>9, <1>10, HearingStep

LEMMA ReceiveStep ==
  ASSUME ClientInv, IInv', Receive
  PROVE  ClientInv'
<1> PICK m : m = Head(inbox) OBVIOUS
<1>1. ClientTypeOK /\ Away /\ Numbered /\ inbox \in Seq(Mails) BY DEF ClientInv, ClientTypeOK
<1>2. /\ inbox # <<>> /\ inbox' = Tail(inbox) /\ UNCHANGED vars
      /\ UNCHANGED <<open, waiting, before, budget>>
      /\ \/ m.type = "state" /\ See(m.party) /\ UNCHANGED <<joined, asked>>
         \/ m.type = "ended" /\ HearEnd(m.id) /\ UNCHANGED asked
         \/ /\ m.type = "ack"
            /\ \E a \in asked :
                 /\ a.n = m.n /\ asked' = asked \ {a}
                 /\ IF m.ok THEN Accepted(a, m.party) ELSE Refused(a)
         \/ m.type = "ack" /\ UNCHANGED <<view, joined, todo, blind, asked>>
  BY DEF Receive
<1>3. Win \in live BY <1>1, <1>2 DEF Away
<1>4. /\ m \in Mails /\ m = inbox[1] /\ 1 \in DOMAIN inbox
      /\ Tail(inbox) \in Seq(Mails)
      /\ \A j \in DOMAIN Tail(inbox) : j + 1 \in DOMAIN inbox /\ Tail(inbox)[j] = inbox[j + 1]
      /\ m.type = "state" => m.party \in Pictures
      /\ m.type = "ack" => m.party \in Pictures /\ m.ok \in BOOLEAN
  BY <1>1, <1>2, HeadOfMail
<1>5. PICK h \in Seq(Pictures) :
        /\ Served(h, inbox, parties[G])
        /\ Follows(h[1]) /\ JoinedSees(h[1])
        /\ \A i \in DOMAIN h : Given(h[i])
  BY <1>3, OnTheWalk
<1> PICK k : k = Tail(h) OBVIOUS
<1> PICK p : p = h[1] OBVIOUS
<1> PICK q : q = k[1] OBVIOUS
<1>6. /\ Served(k, Tail(inbox), parties[G]) /\ Leads(m, p, q)
      /\ p \in Pictures /\ q \in Pictures
      /\ \A i \in DOMAIN k : \E j \in DOMAIN h : k[i] = h[j]
  BY <1>1, <1>2, <1>5, ServedTail
<1>7. \A i \in DOMAIN k : Given(k[i]) BY <1>5, <1>6
<1>8. Follows(p) /\ JoinedSees(p) BY <1>5
<1>9. asked' \subseteq asked /\ Heard(q) /\ (Housed => Lodged')
  <2>1. CASE m.type = "state" /\ See(m.party) /\ UNCHANGED <<joined, asked>>
    <3>1. q = m.party /\ q # NoParty /\ (p = NoParty \/ p.id = q.id)
      BY <1>6, <2>1 DEF Leads
    <3>2. Heard(q) /\ (Lodged => Lodged') BY <1>1, <1>2, <1>6, <1>8, <2>1, <3>1, HeardState
    <3> QED BY <2>1, <3>2 DEF Housed
  <2>2. CASE m.type = "ended" /\ HearEnd(m.id) /\ UNCHANGED asked
    <3>1. q = NoParty /\ p # NoParty /\ p.id = m.id BY <1>6, <2>2 DEF Leads
    <3>2. Heard(NoParty) /\ (Lodged => Lodged')
      BY <1>1, <1>2, <1>6, <1>8, <2>2, <3>1, HeardEnd
    <3> QED BY <2>2, <3>1, <3>2 DEF Housed
  <2>3. ASSUME m.type = "ack", NEW a \in asked, a.n = m.n, asked' = asked \ {a},
               IF m.ok THEN Accepted(a, m.party) ELSE Refused(a)
        PROVE  asked' \subseteq asked /\ Heard(q) /\ (Housed => Lodged')
    <3>1. q = p /\ (m.ok => m.party = p) BY <1>6, <2>3 DEF Leads
    <3>2. CASE m.ok
      <4>1. Accepted(a, p) BY <2>3, <3>1, <3>2
      <4>2. p = NoParty => a.kind = "discover" BY <1>1, <1>4, <2>3, <3>1, <3>2 DEF Numbered
      <4>3. Housed => (a.kind \in Admissions => HasRoom(p))
        BY <1>4, <2>3, <3>1, <3>2 DEF Housed
      <4>4. /\ Heard(p)
            /\ (Lodged /\ (a.kind \in Admissions => HasRoom(p))) => Lodged'
        BY <1>1, <1>2, <1>6, <1>8, <2>3, <4>1, <4>2, HeardAnswer
      <4> QED BY <2>3, <3>1, <4>3, <4>4 DEF Housed
    <3>3. CASE ~m.ok
      <4>1. Heard(p) /\ (Lodged => Lodged') BY <1>1, <1>2, <1>8, <2>3, <3>3, HeardRefusal
      <4> QED BY <2>3, <3>1, <4>1 DEF Housed
    <3> QED BY <3>2, <3>3
  <2>4. CASE m.type = "ack" /\ UNCHANGED <<view, joined, todo, blind, asked>>
    <3>1. q = p BY <1>6, <2>4 DEF Leads
    <3>2. \A kinds : Asking(kinds)' = Asking(kinds) BY <2>4 DEF Asking
    <3>3. Follows(p)' /\ JoinedSees(p)' BY <1>8, <2>4, <3>2 DEF Follows, JoinedSees
    <3>4. Lodged => Lodged' BY <1>2, <2>4, <3>2 DEF Lodged, HasRoom, vars
    <3>5. view' \in Pictures /\ joined' \in BOOLEAN /\ blind' \in BOOLEAN
      BY <1>1, <2>4 DEF Pictures, ClientTypeOK
    <3> QED BY <2>4, <3>1, <3>3, <3>4, <3>5 DEF Heard, Housed
  <2> QED BY <1>2, <2>1, <2>2, <2>3, <2>4
<1>10. \A j \in DOMAIN inbox' : \E i \in DOMAIN inbox : inbox'[j] = inbox[i]
  BY <1>2, <1>4
<1>11. Served(k, inbox', parties[G]) /\ inbox' \in Seq(Mails) BY <1>2, <1>4, <1>6
<1>12. budget' \in [{"asks", "faults", "world"} -> Nat] /\ budget'["asks"] = budget["asks"]
  BY <1>1, <1>2 DEF ClientTypeOK
<1> QED BY <1>2, <1>3, <1>7, <1>9, <1>10, <1>11, <1>12, HearingStep

-----------------------------------------------------------------------------
(* What the server does, heard by a window or not.                          *)

\* An answer has its own number, and a party unless it says there is none.
Apt(answer) ==
  \A m : answer = <<m>> =>
    /\ budget["asks"]' < m.n
    /\ \A a \in asked : (m.ok /\ m.n = a.n /\ m.party = NoParty) => a.kind = "discover"

\* A party window is in the room that an answer lets it into.
LetIn(answer) ==
  \A m : \A a \in asked :
    (answer = <<m>> /\ m.ok /\ a.n = m.n /\ a.kind \in Admissions) => HasRoom(m.party)'

LEMMA NumberedKept ==
  ASSUME ClientTypeOK, Numbered, NEW news, NEW answer, IsNews(news), IsAnswer(answer),
         inbox' \in {inbox \o news \o answer, <<>>}, asked' = asked, waiting' \subseteq waiting,
         budget["asks"]' \in Nat, budget["asks"]' <= budget["asks"], Apt(answer)
  PROVE  Numbered' /\ inbox' \in Seq(Mails)
<1> PICK n : n = budget["asks"] OBVIOUS
<1> PICK n2 : n2 = budget["asks"]' OBVIOUS
<1>1. /\ asked \subseteq Asks /\ waiting \subseteq Waits /\ inbox \in Seq(Mails)
      /\ n \in Nat /\ n2 \in Nat /\ n2 <= n
  BY DEF ClientTypeOK, Waits
<1>2. /\ inbox' \in Seq(Mails)
      /\ \A i \in DOMAIN inbox' : \/ i \in DOMAIN inbox /\ inbox'[i] = inbox[i]
                                  \/ news = <<inbox'[i]>> /\ inbox'[i].type # "ack"
                                  \/ answer = <<inbox'[i]>>
  <2>1. CASE inbox' = inbox \o news \o answer BY <1>1, <2>1, MailOf
  <2>2. CASE inbox' = <<>> BY <2>2
  <2> QED BY <2>1, <2>2
<1>3. \A a \in asked : n < a.n /\ a.n \in Nat BY <1>1 DEF Numbered, Asks
<1>4. \A x \in waiting : n < x.ask.n /\ x.ask.n \in Nat BY <1>1 DEF Numbered, Asks, Waits
<1>5. ASSUME NEW i \in DOMAIN inbox', inbox'[i].type = "ack"
      PROVE  /\ n2 < inbox'[i].n
             /\ \A a \in asked : (inbox'[i].ok /\ inbox'[i].n = a.n /\ inbox'[i].party = NoParty)
                                   => a.kind = "discover"
  <2> PICK m : m = inbox'[i] OBVIOUS
  <2>1. (i \in DOMAIN inbox /\ m = inbox[i]) \/ answer = <<m>> BY <1>2, <1>5
  <2>2. CASE answer = <<m>> BY <2>2 DEF Apt
  <2>3. CASE i \in DOMAIN inbox /\ m = inbox[i]
    <3>1. m \in Mails BY <1>1, <2>3
    <3>2. m.n \in Nat BY <1>5, <3>1 DEF Mails
    <3>3. n < m.n /\ n2 < m.n BY <1>1, <1>5, <2>3, <3>2 DEF Numbered
    <3> QED BY <1>5, <2>3, <3>3 DEF Numbered
  <2> QED BY <2>1, <2>2, <2>3
<1>6. \A a \in asked', x \in waiting' : a.n = x.ask.n => a.kind = x.ask.kind BY DEF Numbered
<1>7. (\A a \in asked' : n2 < a.n) /\ (\A x \in waiting' : n2 < x.ask.n)
  BY <1>1, <1>3, <1>4
<1> QED BY <1>2, <1>5, <1>6, <1>7 DEF Numbered

\* A step of the server's that the window hears of, if it hears at all.
LEMMA ServerStep ==
  ASSUME ClientInv, IInv', KeepsParty, NEW news, NEW answer, IsNews(news), IsAnswer(answer),
         inbox' = (IF Win \in live' THEN inbox \o news \o answer ELSE <<>>),
         (Win \in live') = (Win \in live),
         UNCHANGED <<open, asked, view, before, blind>>, waiting' \subseteq waiting,
         joined' \in BOOLEAN, joined' => joined, todo' \in {todo, todo \cup {"close"}},
         budget' \in [{"asks", "faults", "world"} -> Nat], budget["asks"]' <= budget["asks"],
         Apt(answer),
         (open = "party" /\ "close" \notin todo') => KeepsRoom /\ LetIn(answer)
  PROVE  ClientInv'
<1>1. /\ ClientTypeOK /\ Away /\ Numbered /\ IInv /\ Given(parties[G])
      /\ inbox \in Seq(Mails)
  BY DEF ClientInv, ClientTypeOK
<1>2. inbox' \in {inbox \o news \o answer, <<>>} /\ budget["asks"]' \in Nat OBVIOUS
<1>3. Numbered' /\ inbox' \in Seq(Mails) BY <1>1, <1>2, NumberedKept
<1>4. todo' \subseteq {"discover", "join", "close"} BY <1>1 DEF ClientTypeOK
<1>5. ClientTypeOK' BY <1>1, <1>3, <1>4 DEF ClientTypeOK
<1>6. Away' BY <1>1 DEF Away
<1>7. Given(parties[G])' BY <1>1, GivenParty
<1>8. \A kinds : Asking(kinds)' = Asking(kinds) BY DEF Asking
<1>9. ASSUME Win \in live' PROVE InTouch'
  <2>1. inbox' = inbox \o news \o answer /\ InTouch BY <1>9 DEF ClientInv
  <2>2. \A p \in Pictures : Follows(p) => Follows(p)' BY <1>8 DEF Follows
  <2>3. \A p \in Pictures : JoinedSees(p) => JoinedSees(p)' BY <1>8 DEF JoinedSees
  <2> QED BY <1>1, <2>1, <2>2, <2>3, StillInTouch
<1>10. ASSUME Win \in live', open' = "party", "close" \notin todo' PROVE Housed'
  <2>1. inbox' = inbox \o news \o answer /\ InTouch /\ Housed
    BY <1>10 DEF ClientInv
  <2>2. KeepsRoom /\ LetIn(answer) BY <1>10
  <2>3. \A m : \A a \in asked' :
          (answer = <<m>> /\ m.ok /\ a.n = m.n /\ a.kind \in Admissions) => HasRoom(m.party)'
    BY <2>2 DEF LetIn
  <2> QED BY <1>1, <1>8, <2>1, <2>2, <2>3, StillHoused
<1> QED BY <1>3, <1>5, <1>6, <1>7, <1>9, <1>10 DEF ClientInv

\* Nothing answered is apt, and lets nobody in.
LEMMA NoAnswer == IsAnswer(<<>>) /\ Apt(<<>>) /\ LetIn(<<>>)
<1>1. \A m : <<>> # <<m>> OBVIOUS
<1> QED BY <1>1 DEF IsAnswer, Apt, LetIn

LEMMA LeaveStep ==
  ASSUME ClientInv, IInv', ClickLeave
  PROVE  ClientInv'
<1>1. /\ Win \in live /\ Spend("asks") /\ joined' = FALSE
      /\ IF IsParty(G, view.id) THEN Leave(Win, G) /\ Post(News(TRUE), <<>>)
                                ELSE UNCHANGED <<vars, inbox>>
      /\ todo' = IF open = "party" THEN todo \cup {"close"} ELSE todo
      /\ UNCHANGED <<open, asked, waiting, view, before, blind>>
  BY DEF ClickLeave
<1>2. ClientTypeOK /\ IInv /\ Win \in Sockets /\ inbox \in Seq(Mails)
  BY Kinds DEF ClientInv, ClientTypeOK
<1>3. budget' \in [{"asks", "faults", "world"} -> Nat] /\ budget'["asks"] <= budget["asks"]
  BY <1>1, <1>2, SpendIsTyped
<1>4. parties'[G] \in Pictures BY Kinds DEF IInv, TypeOK, Pictures
<1>5. KeepsParty /\ (Win \in live') = (Win \in live)
      /\ \E news : IsNews(news) /\ inbox' = (IF Win \in live' THEN inbox \o news \o <<>> ELSE <<>>)
  <2>1. CASE IsParty(G, view.id)
    <3>1. Leave(Win, G) /\ Post(News(TRUE), <<>>) BY <1>1, <2>1
    <3>2. KeepsParty BY <1>2, <1>4, <3>1, Departed
    <3>3. live' = live BY <3>1 DEF Leave
    <3>4. IsNews(News(TRUE)) BY <3>2, NewsAreNews
    <3> QED BY <3>1, <3>2, <3>3, <3>4 DEF Post
  <2>2. CASE ~IsParty(G, view.id)
    <3>1. UNCHANGED vars /\ inbox' = inbox BY <1>1, <2>2
    <3>2. KeepsParty /\ UNCHANGED <<parties, live>> BY <1>2, <3>1, NothingDone
    <3>3. IsNews(<<>>) BY <3>2 DEF IsNews
    <3>4. inbox' = inbox \o <<>> \o <<>> BY <1>2, <3>1
    <3> QED BY <1>1, <3>2, <3>3, <3>4
  <2> QED BY <2>1, <2>2
<1>6. PICK news : IsNews(news) /\ inbox' = (IF Win \in live' THEN inbox \o news \o <<>> ELSE <<>>)
  BY <1>5
<1>7. (open = "party" /\ "close" \notin todo') => KeepsRoom /\ LetIn(<<>>) BY <1>1
<1>8. todo' \in {todo, todo \cup {"close"}} BY <1>1
<1> QED BY <1>1, <1>3, <1>5, <1>6, <1>7, <1>8, NoAnswer, ServerStep

LEMMA ElsewhereStep ==
  ASSUME ClientInv, IInv', Elsewhere
  PROVE  ClientInv'
<1>1. /\ Spend("world")
      /\ \E s \in Sockets \ {Win} :
           Connect(s) \/ (Owner[s] # Me /\ (Arrives(s) \/ Goes(s)))
      /\ Post(News(FALSE), <<>>)
      /\ UNCHANGED <<open, asked, waiting, view, joined, before, todo, blind>>
  BY DEF Elsewhere
<1>2. PICK s \in Sockets \ {Win} :
        Connect(s) \/ (Owner[s] # Me /\ (Arrives(s) \/ Goes(s)))
  BY <1>1
<1>3. ClientTypeOK /\ IInv BY DEF ClientInv
<1>4. /\ budget' \in [{"asks", "faults", "world"} -> Nat]
      /\ budget'["asks"] = budget["asks"] /\ budget["asks"] \in Nat
  BY <1>1, <1>3, SpendIsTyped DEF ClientTypeOK
<1>5. parties'[G] \in Pictures BY Kinds DEF IInv, TypeOK, Pictures
<1>6. KeepsParty /\ KeepsRoom /\ (Win \in live') = (Win \in live)
  <2>1. CASE Connect(s)
    <3>1. KeepsParty /\ KeepsRoom BY <1>3, <2>1, Reconnected
    <3>2. live' = live \cup {s} BY <2>1 DEF Connect
    <3> QED BY <3>1, <3>2
  <2>2. CASE Arrives(s)
    <3> DEFINE r == [kind |-> "start", user |-> Owner[s], sock |-> s, guild |-> G, party |-> 0]
    <3>1. (Open(r) \/ Enter(r)) /\ live' = live BY <2>2 DEF Arrives
    <3>2. r \in Requests /\ r.guild = G BY ArrivalIsARequest
    <3> HIDE DEF r
    <3>3. KeepsParty /\ KeepsRoom BY <1>3, <1>5, <3>1, <3>2, Admitted
    <3> QED BY <3>1, <3>3
  <2>3. CASE Owner[s] # Me /\ Goes(s)
    <3>1. Leave(s, G) BY <2>3 DEF Goes
    <3>2. KeepsParty /\ KeepsRoom BY <1>3, <1>5, <2>3, <3>1, Departed
    <3>3. live' = live BY <3>1 DEF Leave
    <3> QED BY <3>2, <3>3
  <2> QED BY <1>2, <2>1, <2>2, <2>3
<1> PICK news : news = News(FALSE) OBVIOUS
<1>7. IsNews(news) BY <1>6, NewsAreNews
<1>8. inbox' = (IF Win \in live' THEN inbox \o news \o <<>> ELSE <<>>) BY <1>1 DEF Post
<1>9. joined' \in BOOLEAN /\ budget'["asks"] <= budget["asks"] BY <1>1, <1>3, <1>4 DEF ClientTypeOK
<1>10. waiting' \subseteq waiting /\ (joined' => joined) /\ todo' \in {todo, todo \cup {"close"}}
  BY <1>1
<1> QED BY <1>1, <1>4, <1>6, <1>7, <1>8, <1>9, <1>10, NoAnswer, ServerStep

LEMMA ResumeStep ==
  ASSUME ClientInv, IInv', NEW x \in waiting, ResumeWindow(x)
  PROVE  ClientInv'
<1> PICK pic : pic = parties'[G] OBVIOUS
<1> DEFINE answer(ok) == IF x.sock = NoSocket THEN <<>> ELSE Answer(x.ask, ok, pic)
<1>1. /\ waiting' = waiting \ {x}
      /\ IF x.ask.kind = "discover" THEN Current(x) ELSE Carry(x)
      /\ UNCHANGED <<open, asked, view, joined, before, todo, blind, budget>>
  BY DEF ResumeWindow
<1>2. ClientTypeOK /\ IInv /\ Numbered BY DEF ClientInv
<1>3. x \in Waits /\ x.ask \in Asks /\ x.ask.n \in Nat /\ x.sock \in {Win, NoSocket}
      /\ budget["asks"] \in Nat
  BY <1>2 DEF ClientTypeOK, Waits, Asks
<1>4. pic \in Pictures BY Kinds DEF IInv, TypeOK, Pictures
<1>5. budget["asks"] < x.ask.n /\ \A a \in asked : a.n = x.ask.n => a.kind = x.ask.kind
  BY <1>2 DEF Numbered
<1>6. ASSUME NEW ok \in BOOLEAN
      PROVE  /\ IsAnswer(answer(ok))
             /\ \A m : answer(ok) = <<m>> =>
                  m.n = x.ask.n /\ m.ok = ok /\ m.party = pic /\ x.sock = Win
  <2> PICK w : w = [type |-> "ack", n |-> x.ask.n, ok |-> ok, party |-> pic] OBVIOUS
  <2>1. w \in Mails /\ w.type = "ack" /\ w.n = x.ask.n /\ w.ok = ok /\ w.party = pic
    BY <1>3, <1>4 DEF Mails, Pictures
  <2>2. answer(ok) = <<>> \/ (x.sock = Win /\ answer(ok) = <<w>>) BY <1>3 DEF Answer
  <2>3. IsAnswer(answer(ok)) BY <2>1, <2>2 DEF IsAnswer
  <2>4. \A m : answer(ok) = <<m>> => m = w /\ x.sock = Win BY <2>2
  <2> QED BY <2>1, <2>3, <2>4
<1> HIDE DEF answer
<1>7. \E news : \E ok \in BOOLEAN :
        /\ KeepsParty /\ KeepsRoom /\ IsNews(news) /\ live' = live
        /\ inbox' = (IF Win \in live' THEN inbox \o news \o answer(ok) ELSE <<>>)
        /\ (ok /\ x.sock = Win /\ x.ask.kind # "discover") =>
             pic # NoParty /\ <<Win, pic.id>> \in room'
  <2>1. CASE x.ask.kind = "discover"
    <3>1. Current(x) /\ UNCHANGED vars BY <1>1, <2>1 DEF Current
    <3>2. KeepsParty /\ KeepsRoom /\ UNCHANGED <<parties, live>> BY <1>2, <3>1, NothingDone
    <3>3. IsNews(<<>>) BY <3>2 DEF IsNews
    <3>4. Post(<<>>, answer(TRUE)) BY <3>1, <3>2 DEF Current, answer
    <3>5. inbox' = (IF Win \in live' THEN inbox \o <<>> \o answer(TRUE) ELSE <<>>)
      BY <3>4 DEF Post
    <3> QED BY <2>1, <3>2, <3>3, <3>5
  <2>2. CASE x.ask.kind # "discover"
    <3> PICK r : r = CarriedAs(x) OBVIOUS
    <3>1. /\ live' = live
          /\ \/ Open(r) /\ Post(News(TRUE), answer(TRUE))
             \/ Enter(r) /\ Post(News(r.kind = "start"), answer(TRUE))
             \/ TooLate(r) /\ Post(<<>>, answer(FALSE))
      BY <1>1, <2>2 DEF Carry, CarriedAs, answer
    <3>2. r \in Requests /\ r.guild = G /\ r.sock = x.sock BY <1>3, CarriedIsARequest
    <3>3. KeepsParty /\ KeepsRoom BY <1>2, <1>4, <3>1, <3>2, Admitted
    <3>4. (x.sock = Win /\ ~TooLate(r)) => pic # NoParty /\ <<Win, pic.id>> \in room'
      BY <1>2, <1>4, <3>1, <3>2, Admitted
    <3>5. ASSUME NEW always \in BOOLEAN, ~TooLate(r), Post(News(always), answer(TRUE))
          PROVE  \E news : \E ok \in BOOLEAN :
                   /\ IsNews(news)
                   /\ inbox' = (IF Win \in live' THEN inbox \o news \o answer(ok) ELSE <<>>)
                   /\ (ok /\ x.sock = Win) => pic # NoParty /\ <<Win, pic.id>> \in room'
      <4>1. IsNews(News(always)) BY <3>3, NewsAreNews
      <4> QED BY <3>4, <3>5, <4>1 DEF Post
    <3>6. ASSUME TooLate(r), Post(<<>>, answer(FALSE))
          PROVE  \E news : \E ok \in BOOLEAN :
                   /\ IsNews(news)
                   /\ inbox' = (IF Win \in live' THEN inbox \o news \o answer(ok) ELSE <<>>)
                   /\ (ok /\ x.sock = Win) => pic # NoParty /\ <<Win, pic.id>> \in room'
      <4>1. IsNews(<<>>) BY <3>6 DEF IsNews, TooLate
      <4> QED BY <3>6, <4>1 DEF Post
    <3>7. Open(r) => ~TooLate(r) BY DEF Open, TooLate
    <3>8. Enter(r) => ~TooLate(r) BY <3>2 DEF Enter, TooLate, IsParty
    <3> QED BY <3>1, <3>3, <3>5, <3>6, <3>7, <3>8
  <2> QED BY <2>1, <2>2
<1>8. PICK news : \E ok \in BOOLEAN :
        /\ KeepsParty /\ KeepsRoom /\ IsNews(news) /\ live' = live
        /\ inbox' = (IF Win \in live' THEN inbox \o news \o answer(ok) ELSE <<>>)
        /\ (ok /\ x.sock = Win /\ x.ask.kind # "discover") =>
             pic # NoParty /\ <<Win, pic.id>> \in room'
  BY <1>7
<1>9. PICK ok \in BOOLEAN :
        /\ KeepsParty /\ KeepsRoom /\ IsNews(news) /\ live' = live
        /\ inbox' = (IF Win \in live' THEN inbox \o news \o answer(ok) ELSE <<>>)
        /\ (ok /\ x.sock = Win /\ x.ask.kind # "discover") =>
             pic # NoParty /\ <<Win, pic.id>> \in room'
  BY <1>8
<1> PICK ans : ans = answer(ok) OBVIOUS
<1>10. /\ IsAnswer(ans)
       /\ \A m : ans = <<m>> => m.n = x.ask.n /\ m.ok = ok /\ m.party = pic /\ x.sock = Win
  BY <1>6
<1>11. Apt(ans) BY <1>1, <1>5, <1>9, <1>10 DEF Apt
<1>12. LetIn(ans)
  <2> SUFFICES ASSUME NEW m, NEW a \in asked, ans = <<m>>, m.ok, a.n = m.n, a.kind \in Admissions
               PROVE  HasRoom(m.party)'
    BY DEF LetIn
  <2>1. m.n = x.ask.n /\ ok /\ m.party = pic /\ x.sock = Win BY <1>10
  <2>2. x.ask.kind # "discover" BY <1>5, <2>1 DEF Admissions
  <2>3. <<Win, pic.id>> \in room' BY <1>9, <2>1, <2>2
  <2> QED BY <2>1, <2>3 DEF HasRoom
<1>13. joined' \in BOOLEAN /\ budget' \in [{"asks", "faults", "world"} -> Nat]
       /\ budget["asks"]' <= budget["asks"]
  BY <1>1, <1>2, <1>3 DEF ClientTypeOK
<1>14. inbox' = (IF Win \in live' THEN inbox \o news \o ans ELSE <<>>) BY <1>9
<1>15. waiting' \subseteq waiting /\ (joined' => joined) /\ todo' \in {todo, todo \cup {"close"}}
  BY <1>1
<1> QED BY <1>1, <1>9, <1>10, <1>11, <1>12, <1>13, <1>14, <1>15, ServerStep

-----------------------------------------------------------------------------
(* From the start, and step by step.                                        *)

LEMMA ClientInitSound == ClientInit => ClientInv
<1> SUFFICES ASSUME ClientInit PROVE ClientInv OBVIOUS
<1>1. \A u \in Users : Cardinality(SocketsOf(u)) \in Nat
  <2> TAKE u \in Users
  <2>1. live \subseteq Sockets BY DEF ClientInit
  <2>2. SocketsOf(u) \subseteq Sockets BY <2>1 DEF SocketsOf
  <2>3. IsFiniteSet(SocketsOf(u)) BY <2>2, ClientAssumption, FS_Subset
  <2> QED BY <2>3, FS_CardinalityType
<1>2. TypeOK
  <2>1. /\ clock \in Nat /\ nextParty \in Nat /\ nextItem \in Nat
        /\ members \subseteq Users \X Guilds /\ live \subseteq Sockets
        /\ room \subseteq Sockets \X Nat /\ pending \subseteq Requests
        /\ parties \in [Guilds -> Party \cup {NoParty}]
    BY DEF ClientInit
  <2>2. connections \in [Users -> Nat] BY <1>1 DEF ClientInit
  <2> QED BY <2>1, <2>2 DEF TypeOK
<1>3. parties[G] = NoParty BY Kinds DEF ClientInit
<1>4. IInv BY <1>2 DEF ClientInit, IInv, RemoteWithFirstArrival, PlaybackSound
<1>5. budget \in [{"asks", "faults", "world"} -> Nat]
  BY ClientAssumption DEF ClientInit
<1>6. ClientTypeOK
  <2>1. inbox \in Seq(Mails) BY DEF ClientInit
  <2>2. open \in {"no", "main", "party"} /\ asked \subseteq Asks /\ todo = {}
        /\ waiting \subseteq [ask : Asks, sock : {Win, NoSocket}]
    BY DEF ClientInit
  <2>3. joined \in BOOLEAN /\ before \in BOOLEAN /\ blind \in BOOLEAN
        /\ view \in Party \cup {NoParty}
    BY DEF ClientInit
  <2> QED BY <1>5, <2>1, <2>2, <2>3 DEF ClientTypeOK
<1>7. Win \notin live BY DEF ClientInit, Me
<1>8. Away /\ Numbered BY <1>7 DEF ClientInit, Away, Numbered
<1> QED BY <1>3, <1>4, <1>6, <1>7, <1>8 DEF ClientInv, Given

LEMMA ClientNextSound == ClientInv /\ [ClientNext]_allVars => ClientInv'
<1> SUFFICES ASSUME ClientInv, [ClientNext]_allVars PROVE ClientInv' OBVIOUS
<1>1. CASE UNCHANGED allVars BY <1>1, StutterStep
<1>2. CASE ClientNext
  <2> IInv' BY <1>2, ServiceStep DEF ClientInv
  <2>1. ASSUME NEW kind \in {"main", "party"}, OpenWindow(kind) PROVE ClientInv'
    BY <2>1, OpenStep
  <2>2. CASE WindowConnects BY <2>2, ConnectStep
  <2>3. ASSUME NEW reached \in SUBSET waiting, WindowDrops(reached) PROVE ClientInv'
    BY <2>3, DropStep
  <2>4. ASSUME NEW reached \in SUBSET waiting, CloseWindow(reached) PROVE ClientInv'
    BY <2>4, CloseStep
  <2>5. CASE Receive BY <2>5, ReceiveStep
  <2>6. ASSUME NEW a \in asked, GiveUp(a) PROVE ClientInv' BY <2>6, GiveUpStep
  <2>7. CASE Discover BY <2>7, DiscoverStep
  <2>8. CASE JoinWhatItSees BY <2>8, JoinWhatItSeesStep
  <2>9. CASE ClickStartOrJoin BY <2>9, StartOrJoinStep
  <2>10. CASE ClickLeave BY <2>10, LeaveStep
  <2>11. ASSUME NEW x \in waiting, ResumeWindow(x) PROVE ClientInv' BY <2>11, ResumeStep
  <2>12. CASE Elsewhere BY <2>12, ElsewhereStep
  <2>13. CASE ServerRestarts BY <2>13, RestartStep
  <2> QED BY <1>2, <2>1, <2>2, <2>3, <2>4, <2>5, <2>6, <2>7, <2>8, <2>9, <2>10, <2>11, <2>12, <2>13
          DEF ClientNext
<1> QED BY <1>1, <1>2

\* Where the walk is at its end, the window draws the party as it is.
LEMMA AtTheEnd ==
  ASSUME ClientInv, Quiet
  PROVE  Follows(parties[G]) /\ JoinedSees(parties[G]) /\ \A kinds : ~Asking(kinds)
<1>1. /\ Win \in live /\ inbox = <<>> /\ asked = {} BY DEF Quiet
<1>2. PICK h \in Seq(Pictures) :
        /\ Served(h, inbox, parties[G]) /\ Follows(h[1]) /\ JoinedSees(h[1])
  BY <1>1, OnTheWalk
<1>3. Len(inbox) = 0 BY <1>1
<1>4. h[1] = parties[G] BY <1>2, <1>3 DEF Served
<1> QED BY <1>1, <1>2, <1>4 DEF Asking

\* However often the connection drops, the server restarts, an answer fails to
\* come and parties begin and end meanwhile, a window with nothing left on its
\* way draws the party that the server has, or draws none because it was not
\* answered: what resync, discover and onPartyEnded are for.
THEOREM ViewIsAlwaysSound == ClientSpec => []ViewIsSound
<1>1. ClientInv => ViewIsSound
  <2> SUFFICES ASSUME ClientInv, Quiet PROVE ViewIsCurrent
    BY DEF ViewIsSound, ViewIsCurrent, ClientInv
  <2>1. Follows(parties[G]) /\ \A kinds : ~Asking(kinds) BY AtTheEnd
  <2>2. "discover" \notin todo BY DEF Quiet
  <2> QED BY <2>1, <2>2 DEF ViewIsCurrent, Follows
<1> QED BY <1>1, ClientInitSound, ClientNextSound, PTL DEF ClientSpec

\* A party window that has joined is in the room that the chat of the party it
\* draws is sent to, after any reconnect: resync joins again rather than ask
\* for the state alone.
THEOREM JoinedIsAlwaysInTheRoom == ClientSpec => []JoinedMeansInTheRoom
<1>1. ClientInv => JoinedMeansInTheRoom
  <2> SUFFICES ASSUME ClientInv, Quiet, open = "party", joined, view # NoParty
               PROVE  <<Win, view.id>> \in room
    BY DEF JoinedMeansInTheRoom
  <2>1. JoinedSees(parties[G]) /\ \A kinds : ~Asking(kinds) BY AtTheEnd
  <2>2. view = parties[G] BY <2>1 DEF JoinedSees
  <2>3. Housed BY DEF ClientInv, Quiet
  <2>4. HasRoom(view) BY <2>1, <2>3 DEF Housed, Lodged
  <2> QED BY <2>2, <2>4 DEF HasRoom
<1> QED BY <1>1, ClientInitSound, ClientNextSound, PTL DEF ClientSpec
=============================================================================
