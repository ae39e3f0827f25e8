-------------------------- MODULE ServerRulesProofs --------------------------
(***************************************************************************)
(* Proofs about three parts of the server that keep rules by a check that   *)
(* comes some time before the write: Membership, for any people, invites    *)
(* and bounds; Conversations, for any people, threads and sizes of groups;  *)
(* and Feeds, for any number of versions, uploads, publishes and restarts.  *)
(***************************************************************************)
EXTENDS Membership, Conversations, Feeds, TLAPS, FiniteSetTheorems

(***************************************************************************)
(* Membership.  The invariant the proofs use.                               *)
(***************************************************************************)

\* Requests have come through their checks, a bounded number of them at once:
\* a sign-up holds an invite that was made, all the rest is asked by people.
RequestsAreAsked ==
  /\ IsFiniteSet(requests) /\ Cardinality(requests) <= MaxInFlight
  /\ \A r \in requests :
       /\ r.on \in Users
       /\ IF r.op = "sign up"
          THEN r.at # "cut" /\ invites[r.code].is # "unmade"
          ELSE r.by \in Users /\ (r.at = "checked" \/ (r.op = "ban" /\ r.at = "cut"))

\* A place in the guild, and a ban, are of an account that is there.
PlacesHaveAccounts == \A u \in Users : role[u] # "none" \/ IsBanned(u) => Exists(u)

SigningUp(r) == r.op = "sign up" /\ r.at \in {"made", "counted"}

\* An account is made by one sign-up and joins once: until then it has no
\* place, no ban and is on nobody's list.
JoinsOnce ==
  /\ \A r \in requests :
       SigningUp(r) =>
         /\ accounts[r.on] # "unmade" /\ role[r.on] = "none" /\ ~IsBanned(r.on)
         /\ \A i \in Invites : r.on \notin joined[i]
  /\ \A r, q \in requests : SigningUp(r) /\ SigningUp(q) /\ r.on = q.on => r = q
  /\ \A i \in Invites : \A u \in joined[i] : accounts[u] # "unmade"

\* The sign-ups that may still use an invite.
Pending(i) == {r \in requests : r.op = "sign up" /\ r.code = i /\ r.at # "joined"}

ListsAreFinite ==
  \A i \in Invites :
    /\ IsFiniteSet(joined[i])
    /\ invites[i].is = "unmade" => joined[i] = {}

\* What a request has checked and nothing has changed since, when no other has
\* overlapped with it.
StillAsChecked(r) ==
  /\ r.op = "sign up" /\ r.at # "joined" => invites[r.code].uses < invites[r.code].max
  /\ r.op = "sign up" /\ r.at = "counted" /\ ~r.lead => Admins # {}
  /\ r.op \in {"kick", "ban"} /\ r.at = "checked" => role[r.on] = "member"
  /\ r.op = "demote" => Admins \ {r.on} # {}
  /\ r.op = "delete" => Admins \ {r.on} # {}
  /\ r.op = "drop text" => texts > 1

Alone ==
  ~raced =>
    /\ \A r, q \in requests : r = q
    /\ \A r \in requests : StillAsChecked(r)

MembersInv ==
  /\ TypeOK /\ RequestsAreAsked /\ PlacesHaveAccounts /\ JoinsOnce /\ ListsAreFinite
  /\ InvitesAreCounted /\ BanSticks /\ Alone /\ RulesHoldAlone

-----------------------------------------------------------------------------
(* How each kind of step changes the requests and the tables.               *)

LEMMA Bounds ==
  /\ MaxUses \in Nat /\ MaxTexts \in Nat /\ MaxInFlight \in Nat /\ MaxAsked \in Nat /\ MaxVisits \in Nat
  /\ MaxUses > 0 /\ MaxTexts > 1 /\ First \in Invites /\ System \notin Users
BY MembershipAssumption

LEMMA RequestOf ==
  ASSUME TypeOK, NEW r \in requests
  PROVE  /\ r \in Request
         /\ r.op \in Ops /\ r.by \in Users \cup {System} /\ r.on \in Users \cup {System}
         /\ r.code \in Invites /\ r.lead \in BOOLEAN /\ r.asked \in BOOLEAN
         /\ r.at \in {"checked", "made", "counted", "joined", "cut"}
BY DEF TypeOK, Request

\* A request that goes on is the same request at another place.
LEMMA MovedOn ==
  ASSUME TypeOK, NEW r \in requests, NEW at \in {"checked", "made", "counted", "joined", "cut"}
  PROVE  /\ [r EXCEPT !.at = at] \in Request
         /\ [r EXCEPT !.at = at].op = r.op /\ [r EXCEPT !.at = at].by = r.by
         /\ [r EXCEPT !.at = at].on = r.on /\ [r EXCEPT !.at = at].code = r.code
         /\ [r EXCEPT !.at = at].lead = r.lead /\ [r EXCEPT !.at = at].asked = r.asked
         /\ [r EXCEPT !.at = at].at = at
BY DEF TypeOK, Request

LEMMA LedOn ==
  ASSUME TypeOK, NEW r \in requests, NEW lead \in BOOLEAN
  PROVE  LET q == [r EXCEPT !.at = "counted", !.lead = lead]
         IN  /\ q \in Request
             /\ q.op = r.op /\ q.by = r.by /\ q.on = r.on /\ q.code = r.code
             /\ q.asked = r.asked /\ q.at = "counted" /\ q.lead = lead
BY DEF TypeOK, Request

\* A step that replaces a member of a set makes it no larger.
LEMMA Replaced ==
  ASSUME NEW S, IsFiniteSet(S), NEW x \in S, NEW y
  PROVE  /\ IsFiniteSet(S \ {x}) /\ IsFiniteSet((S \ {x}) \cup {y})
         /\ Cardinality(S \ {x}) = Cardinality(S) - 1
         /\ Cardinality((S \ {x}) \cup {y}) <= Cardinality(S)
<1>1. IsFiniteSet(S \ {x}) /\ Cardinality(S \ {x}) = Cardinality(S) - 1 /\ Cardinality(S) \in Nat
  BY FS_RemoveElement, FS_CardinalityType
<1>2. IsFiniteSet((S \ {x}) \cup {y})
      /\ Cardinality((S \ {x}) \cup {y}) \in {Cardinality(S \ {x}), Cardinality(S \ {x}) + 1}
  BY <1>1, FS_AddElement
<1> QED
  BY <1>1, <1>2

LEMMA OneLess == \A m \in Nat : \A k \in 0..m : k > 0 => k - 1 \in 0..m
OBVIOUS

LEMMA OneMoreIn == \A m \in Nat : \A k \in 0..m : k < m => k + 1 \in 0..m
OBVIOUS

LEMMA NoMore == \A a, b, c \in Nat : a <= b /\ b <= c => a <= c
OBVIOUS

\* What asking does: a request more, and perhaps an invite for it.
OneMore(q) ==
  /\ q \in Request /\ q.on \in Users /\ q.at = "checked"
  /\ q.op # "sign up" => q.by \in Users
  /\ q \notin requests /\ requests' = requests \cup {q}
  /\ Cardinality(requests) < MaxInFlight
  /\ raced' = (raced \/ requests # {})
  /\ budget' \in [asks : 0..MaxAsked, visits : 0..MaxVisits]
  /\ UNCHANGED <<accounts, role, bannedBy, sessions, texts, windows, joined, excused>>

LEMMA AskingIsOneMore ==
  ASSUME TypeOK, NEW q, q \in Request, q.on \in Users, q.at = "checked",
         q.op # "sign up" => q.by \in Users, Asking(q),
         UNCHANGED <<accounts, role, bannedBy, sessions, texts, windows, joined, excused>>
  PROVE  OneMore(q)
<1>1. budget' \in [asks : 0..MaxAsked, visits : 0..MaxVisits]
  <2>1. budget.asks \in 0..MaxAsked /\ budget.asks > 0 /\ budget.visits \in 0..MaxVisits
    BY DEF Asking, TypeOK
  <2>2. MaxAsked \in Nat
    BY Bounds
  <2>3. budget.asks - 1 \in 0..MaxAsked
    BY <2>1, <2>2, OneLess, Zenon
  <2>4. budget' = [budget EXCEPT !.asks = @ - 1]
    BY DEF Asking
  <2> QED
    BY <2>3, <2>4 DEF TypeOK
<1> QED
  BY <1>1 DEF Asking, OneMore

\* What a step of an admin's request does.
AdminStep(r) ==
  /\ r.op # "sign up"
  /\ \/ requests' = requests \ {r}
     \/ /\ r.op = "ban" /\ r.at = "checked"
        /\ requests' = (requests \ {r}) \cup {[r EXCEPT !.at = "cut"]}
  /\ UNCHANGED <<joined, raced, budget>>
  /\ \A u \in Users :
       /\ accounts'[u] = "unmade" <=> accounts[u] = "unmade"
       /\ role[u] = "none" => role'[u] = "none"
       /\ role[u] = "none" /\ ~IsBanned(u) => bannedBy'[u] = System
  /\ \A i \in Invites :
       /\ invites'[i].is = "unmade" => invites[i].is = "unmade"
       /\ \/ invites'[i].uses = invites[i].uses /\ invites'[i].max = invites[i].max
          \/ invites[i].is = "unmade" /\ invites'[i].uses = 0 /\ invites'[i].max = MaxUses

LEMMA AdminStepsAre ==
  ASSUME TypeOK, RequestsAreAsked, NEW r \in requests, AdminSteps(r)
  PROVE  AdminStep(r)
<1>1. /\ r.op \in Ops /\ r.by \in Users \cup {System} /\ r.on \in Users /\ r.code \in Invites
      /\ r.op # "sign up" => r.by \in Users
  BY RequestOf DEF RequestsAreAsked
<1>2. CASE MakeInvite(r)
  <2>1. \A i \in Invites :
          invites'[i] = IF i = r.code THEN [is |-> "open", uses |-> 0, max |-> MaxUses, by |-> r.by]
                        ELSE invites[i]
    BY <1>2 DEF MakeInvite, TypeOK
  <2>2. \A i \in Invites :
          /\ invites'[i].is = "unmade" => invites[i].is = "unmade"
          /\ \/ invites'[i].uses = invites[i].uses /\ invites'[i].max = invites[i].max
             \/ invites[i].is = "unmade" /\ invites'[i].uses = 0 /\ invites'[i].max = MaxUses
    BY <1>2, <2>1 DEF MakeInvite
  <2> QED
    BY <1>1, <1>2, <2>2 DEF MakeInvite, Writes, Ends, ghosts, AdminStep, TypeOK, IsBanned
<1>3. CASE RevokeInvite(r)
  <2>1. \A i \in Invites :
          invites'[i] = IF i = r.code THEN [invites[i] EXCEPT !.is = "revoked"] ELSE invites[i]
    BY <1>3 DEF RevokeInvite, TypeOK
  <2>2. \A i \in Invites : invites[i] \in InviteRow
    BY DEF TypeOK
  <2>3. \A i \in Invites :
          /\ invites'[i].is = "unmade" => invites[i].is = "unmade"
          /\ invites'[i].uses = invites[i].uses /\ invites'[i].max = invites[i].max
    BY <2>1, <2>2 DEF InviteRow
  <2> QED
    BY <1>1, <1>3, <2>3 DEF RevokeInvite, Writes, Ends, ghosts, AdminStep, TypeOK, IsBanned
<1>4. CASE SetRole(r)
  <2>1. \A u \in Users : role[u] = "none" => role'[u] = "none"
    BY <1>4 DEF SetRole, TypeOK
  <2> QED
    BY <1>1, <1>4, <2>1 DEF SetRole, Writes, Ends, ghosts, AdminStep, TypeOK, IsBanned
<1>5. CASE Kick(r)
  BY <1>1, <1>5 DEF Kick, Writes, Ends, ghosts, AdminStep, TypeOK, IsBanned
<1>6. CASE Ban(r)
  BY <1>1, <1>6 DEF Ban, BanRow, Writes, Moves, ghosts, AdminStep, TypeOK, IsBanned
<1>7. CASE EndSessions(r)
  BY <1>1, <1>7 DEF EndSessions, Writes, Ends, ghosts, AdminStep, TypeOK, IsBanned
<1>8. CASE Unban(r)
  BY <1>1, <1>8 DEF Unban, Writes, Ends, ghosts, AdminStep, TypeOK, IsBanned
<1>9. CASE DeleteAccount(r)
  <2>1. \A i \in Invites : invites'[i] = IF invites[i].by = r.on THEN [invites[i] EXCEPT !.is = "gone"]
                                         ELSE invites[i]
    BY <1>9 DEF DeleteAccount
  <2>2. \A i \in Invites : invites[i] \in InviteRow
    BY DEF TypeOK
  <2>3. \A i \in Invites :
          /\ invites'[i].is = "unmade" => invites[i].is = "unmade"
          /\ invites'[i].uses = invites[i].uses /\ invites'[i].max = invites[i].max
    BY <2>1, <2>2 DEF InviteRow
  <2> QED
    BY <1>1, <1>9, <2>3 DEF DeleteAccount, Writes, Ends, Exists, ghosts, AdminStep, TypeOK, IsBanned
<1>10. CASE AddText(r) \/ DropText(r) \/ Fails(r)
  BY <1>1, <1>10 DEF AddText, DropText, Fails, Writes, Ends, tables, ghosts, AdminStep, TypeOK, IsBanned
<1> QED
  BY <1>2, <1>3, <1>4, <1>5, <1>6, <1>7, <1>8, <1>9, <1>10 DEF AdminSteps

\* What people, time and the process do besides: nothing to places or lists.
VisitStep ==
  /\ requests' \subseteq requests
  /\ UNCHANGED <<accounts, role, bannedBy, texts, joined, raced>>
  /\ \A i \in Invites :
       /\ invites'[i].is = "unmade" => invites[i].is = "unmade"
       /\ invites'[i].uses = invites[i].uses /\ invites'[i].max = invites[i].max

Visiting ==
  \/ \E u \in Users : SignIn(u) \/ Handshake(u) \/ Connect(u)
  \/ \E i \in Invites : Expire(i)
  \/ Restart

LEMMA VisitsAre == TypeOK /\ Visiting => VisitStep
<1> SUFFICES ASSUME TypeOK, Visiting PROVE VisitStep
  OBVIOUS
<1>1. ASSUME NEW i \in Invites, Expire(i) PROVE VisitStep
  BY <1>1 DEF Expire, VisitStep, ghosts, TypeOK, InviteRow
<1>2. ASSUME NEW u \in Users, SignIn(u) \/ Handshake(u) \/ Connect(u) PROVE VisitStep
  BY <1>2 DEF SignIn, Handshake, Connect, VisitStep, tables, ghosts
<1>3. CASE Restart
  BY <1>3 DEF Restart, VisitStep, tables, ghosts
<1> QED
  BY <1>1, <1>2, <1>3 DEF Visiting

\* Whatever is asked, the request has just come through its checks.
Asks ==
  \/ \E u \in Users, i \in Invites : SignUp(u, i)
  \/ \E a, u \in Users, i \in Invites, lead \in BOOLEAN : CreateUser(a, u, i, lead)
  \/ \E op \in Ops, a, u \in Users, i \in Invites : Ask(op, a, u, i)

FreshInvite(q) ==
  /\ \A j \in Invites :
       \/ invites'[j] = invites[j]
       \/ /\ q.op = "sign up" /\ invites[j].is = "unmade"
          /\ invites'[j].is = "open" /\ invites'[j].uses = 0 /\ invites'[j].max = 1
  /\ q.op = "sign up" => /\ invites'[q.code].is = "open"
                         /\ invites'[q.code].uses < invites'[q.code].max

LEMMA OthersLead ==
  ASSUME NEW a \in Admins, NEW u \in Users, ~OnlyAdmin(u)
  PROVE  Admins \ {u} # {}
<1> SUFFICES ASSUME Admins \ {u} = {} PROVE FALSE
  OBVIOUS
<1>1. a = u /\ Admins = {u}
  OBVIOUS
<1>2. Cardinality(Admins) = 1
  BY <1>1, FS_Singleton
<1>3. role[u] = "admin"
  BY <1>1 DEF Admins
<1> QED
  BY <1>2, <1>3 DEF OnlyAdmin

LEMMA AsksAre ==
  ASSUME TypeOK, Asks
  PROVE  \E q : OneMore(q) /\ FreshInvite(q) /\ StillAsChecked(q)'
<1>1. ASSUME NEW u \in Users, NEW i \in Invites, SignUp(u, i)
      PROVE  \E q : OneMore(q) /\ FreshInvite(q) /\ StillAsChecked(q)'
  <2> DEFINE q == [op |-> "sign up", by |-> System, on |-> u, code |-> i, lead |-> FALSE,
                   asked |-> FALSE, at |-> "checked"]
  <2>1. q \in Request /\ q.op = "sign up" /\ q.on = u /\ q.code = i /\ q.at = "checked"
    BY DEF Request, Ops
  <2>2. Asking(q) /\ Usable(i) /\ UNCHANGED <<tables, windows, joined, excused>>
    BY <1>1 DEF SignUp
  <2> HIDE DEF q
  <2>3. OneMore(q)
    BY <2>1, <2>2, AskingIsOneMore DEF tables
  <2>4. FreshInvite(q) /\ StillAsChecked(q)'
    BY <2>1, <2>2 DEF FreshInvite, StillAsChecked, Usable, tables
  <2> QED
    BY <2>3, <2>4
<1>2. ASSUME NEW a \in Users, NEW u \in Users, NEW i \in Invites, NEW lead \in BOOLEAN,
             CreateUser(a, u, i, lead)
      PROVE  \E q : OneMore(q) /\ FreshInvite(q) /\ StillAsChecked(q)'
  <2> DEFINE q == [op |-> "sign up", by |-> a, on |-> u, code |-> i, lead |-> FALSE,
                   asked |-> lead, at |-> "checked"]
  <2>1. q \in Request /\ q.op = "sign up" /\ q.on = u /\ q.code = i /\ q.at = "checked"
    BY DEF Request, Ops
  <2>2. /\ Asking(q) /\ invites[i].is = "unmade"
        /\ invites' = [invites EXCEPT ![i] = [is |-> "open", uses |-> 0, max |-> 1, by |-> a]]
        /\ UNCHANGED <<accounts, role, bannedBy, sessions, texts, windows, joined, excused>>
    BY <1>2 DEF CreateUser
  <2> HIDE DEF q
  <2>3. OneMore(q)
    BY <2>1, <2>2, AskingIsOneMore
  <2>4. \A j \in Invites :
          invites'[j] = IF j = i THEN [is |-> "open", uses |-> 0, max |-> 1, by |-> a] ELSE invites[j]
    BY <2>2 DEF TypeOK
  <2>5. invites'[i].is = "open" /\ invites'[i].uses = 0 /\ invites'[i].max = 1
    BY <2>4
  <2>6. invites[i].is = "unmade" /\ \A j \in Invites : j = i \/ invites'[j] = invites[j]
    BY <2>2, <2>4
  <2>7. invites'[i].uses < invites'[i].max
    BY <2>5
  <2>8. FreshInvite(q)
    BY <2>1, <2>5, <2>6, <2>7 DEF FreshInvite
  <2>9. StillAsChecked(q)'
    BY <2>1, <2>7 DEF StillAsChecked
  <2> QED
    BY <2>3, <2>8, <2>9
<1>3. ASSUME NEW op \in Ops, NEW a \in Users, NEW u \in Users, NEW i \in Invites, Ask(op, a, u, i)
      PROVE  \E q : OneMore(q) /\ FreshInvite(q) /\ StillAsChecked(q)'
  <2> DEFINE q == [op |-> op, by |-> a, on |-> u, code |-> i, lead |-> FALSE, asked |-> FALSE,
                   at |-> "checked"]
  <2>1. /\ q \in Request /\ q.op = op /\ q.on = u /\ q.by = a /\ q.at = "checked"
        /\ op # "sign up"
    BY <1>3 DEF Request, Ask
  <2>2. /\ Asking(q) /\ role[a] = "admin" /\ Checked(op, a, u)
        /\ UNCHANGED <<tables, windows, joined, excused>>
    BY <1>3 DEF Ask
  <2> HIDE DEF q
  <2>3. OneMore(q)
    BY <2>1, <2>2, AskingIsOneMore DEF tables
  <2>4. op \in {"kick", "ban"} => role[u] = "member"
    BY <2>2 DEF Checked, MayModerate
  <2>5. op = "demote" => Admins \ {u} # {}
    BY <2>2, OthersLead DEF Checked, Admins
  <2>6. op = "delete" => Admins \ {u} # {}
    BY <2>2 DEF Checked, Admins
  <2>7. op = "drop text" => texts > 1
    BY <2>2 DEF Checked
  <2>8. Admins' = Admins /\ texts' = texts /\ role' = role
    BY <2>2 DEF tables, Admins
  <2>9. FreshInvite(q) /\ StillAsChecked(q)'
    BY <2>1, <2>2, <2>4, <2>5, <2>6, <2>7, <2>8 DEF FreshInvite, StillAsChecked, tables
  <2> QED
    BY <2>3, <2>9
<1> QED
  BY <1>1, <1>2, <1>3 DEF Asks

\* Next, by the kinds of step.
LEMMA Kinds ==
  ASSUME [Next]_membershipVars
  PROVE  \/ Asks \/ Visiting \/ UNCHANGED membershipVars
         \/ \E r \in requests : SignUpSteps(r) \/ AdminSteps(r)
BY DEF Next, Asks, Visiting

-----------------------------------------------------------------------------
(* Requests.                                                                *)

LEMMA RequestsStay ==
  ASSUME RequestsAreAsked, TypeOK, requests' \subseteq requests,
         \A i \in Invites : invites'[i].is = "unmade" => invites[i].is = "unmade"
  PROVE  RequestsAreAsked'
<1>1. IsFiniteSet(requests') /\ Cardinality(requests') <= Cardinality(requests)
  BY FS_Subset DEF RequestsAreAsked
<1>2. Cardinality(requests') \in Nat /\ Cardinality(requests) \in Nat /\ MaxInFlight \in Nat
      /\ Cardinality(requests) <= MaxInFlight
  BY <1>1, FS_CardinalityType, Bounds DEF RequestsAreAsked
<1>3. Cardinality(requests') <= MaxInFlight
  BY <1>1, <1>2, NoMore, Zenon
<1> QED
  BY <1>1, <1>3, RequestOf DEF RequestsAreAsked

LEMMA RequestsMove ==
  ASSUME RequestsAreAsked, TypeOK, NEW r \in requests, NEW q,
         requests' = (requests \ {r}) \cup {q},
         q.on = r.on, q.by = r.by, q.op = r.op, q.code = r.code,
         IF q.op = "sign up" THEN q.at # "cut" ELSE q.op = "ban" /\ q.at = "cut",
         \A i \in Invites : invites'[i].is = "unmade" => invites[i].is = "unmade"
  PROVE  RequestsAreAsked'
<1>1. IsFiniteSet(requests') /\ Cardinality(requests') <= Cardinality(requests)
  BY Replaced DEF RequestsAreAsked
<1>2. Cardinality(requests') \in Nat /\ Cardinality(requests) \in Nat /\ MaxInFlight \in Nat
      /\ Cardinality(requests) <= MaxInFlight
  BY <1>1, FS_CardinalityType, Bounds DEF RequestsAreAsked
<1>3. Cardinality(requests') <= MaxInFlight
  BY <1>1, <1>2, NoMore, Zenon
<1> QED
  BY <1>1, <1>3, RequestOf DEF RequestsAreAsked

LEMMA RequestsJoin ==
  ASSUME RequestsAreAsked, TypeOK, NEW q, OneMore(q), FreshInvite(q)
  PROVE  RequestsAreAsked'
<1>1. /\ IsFiniteSet(requests')
      /\ Cardinality(requests') \in {Cardinality(requests), Cardinality(requests) + 1}
  BY FS_AddElement DEF RequestsAreAsked, OneMore
<1>2. Cardinality(requests) \in Nat /\ MaxInFlight \in Nat /\ Cardinality(requests) < MaxInFlight
  BY FS_CardinalityType, Bounds DEF RequestsAreAsked, OneMore
<1>3. Cardinality(requests') <= MaxInFlight
  BY <1>1, <1>2
<1>4. \A j \in Invites : invites'[j].is = "unmade" => invites[j].is = "unmade"
  BY DEF FreshInvite
<1>5. q \in Request /\ q.code \in Invites
  BY DEF OneMore, Request
<1>6. \A r \in requests' :
        /\ r.on \in Users
        /\ IF r.op = "sign up"
           THEN r.at # "cut" /\ invites'[r.code].is # "unmade"
           ELSE r.by \in Users /\ (r.at = "checked" \/ (r.op = "ban" /\ r.at = "cut"))
  <2>1. ASSUME NEW r \in requests
        PROVE  /\ r.on \in Users
               /\ IF r.op = "sign up"
                  THEN r.at # "cut" /\ invites'[r.code].is # "unmade"
                  ELSE r.by \in Users /\ (r.at = "checked" \/ (r.op = "ban" /\ r.at = "cut"))
    BY <1>4, RequestOf DEF RequestsAreAsked
  <2> QED
    BY <1>5, <2>1 DEF OneMore, FreshInvite
<1> QED
  BY <1>1, <1>3, <1>6 DEF RequestsAreAsked

\* What the steps of a sign-up leave of the invites.
LEMMA SignUpsLeave ==
  ASSUME TypeOK, NEW r \in requests, SignUpSteps(r)
  PROVE  /\ r.op = "sign up"
         /\ \A i \in Invites : /\ invites'[i].is = invites[i].is
                               /\ invites'[i].max = invites[i].max
         /\ UNCHANGED <<bannedBy, texts, windows, raced, excused, budget>>
<1>1. CASE JoinGuild(r)
  <2>1. invites' = [invites EXCEPT ![r.code].uses = @ + 1]
    BY <1>1 DEF JoinGuild, Join, Used
  <2>2. \A i \in Invites : invites'[i] = IF i = r.code THEN [invites[i] EXCEPT !.uses = @ + 1] ELSE invites[i]
    BY <2>1 DEF TypeOK
  <2>3. \A i \in Invites : invites[i] \in InviteRow
    BY DEF TypeOK
  <2>4. \A i \in Invites : invites'[i].is = invites[i].is /\ invites'[i].max = invites[i].max
    BY <2>2, <2>3 DEF InviteRow
  <2> QED
    BY <1>1, <2>4 DEF JoinGuild
<1>2. CASE MakeAccount(r) \/ CountAdmins(r) \/ Lead(r) \/ JoinNothing(r) \/ SignUpFails(r)
  BY <1>2 DEF MakeAccount, CountAdmins, Lead, JoinNothing, SignUpFails, tables, ghosts
<1> QED
  BY <1>1, <1>2 DEF SignUpSteps

\* A sign-up ends, or goes on.
LEMMA SignUpsMove ==
  ASSUME TypeOK, NEW r \in requests, SignUpSteps(r)
  PROVE  \/ requests' = requests \ {r}
         \/ \E q \in Request :
              /\ requests' = (requests \ {r}) \cup {q}
              /\ q.op = r.op /\ q.by = r.by /\ q.on = r.on /\ q.code = r.code /\ q.at # "cut"
              /\ \/ MakeAccount(r) /\ q.at = "made"
                 \/ CountAdmins(r) /\ q.at = "counted" /\ q.lead = (Admins = {})
                 \/ JoinGuild(r) /\ q.at = "joined"
<1>1. CASE MakeAccount(r)
  <2> DEFINE q == [r EXCEPT !.at = "made"]
  <2>1. requests' = (requests \ {r}) \cup {q}
    BY <1>1 DEF MakeAccount, Moves
  <2>2. q \in Request /\ q.op = r.op /\ q.by = r.by /\ q.on = r.on /\ q.code = r.code /\ q.at = "made"
    BY MovedOn
  <2> HIDE DEF q
  <2> QED
    BY <1>1, <2>1, <2>2
<1>2. CASE CountAdmins(r)
  <2> DEFINE q == [r EXCEPT !.at = "counted", !.lead = (Admins = {})]
  <2>1. requests' = (requests \ {r}) \cup {q}
    BY <1>2 DEF CountAdmins
  <2>2. (Admins = {}) \in BOOLEAN
    OBVIOUS
  <2>3. /\ q \in Request /\ q.op = r.op /\ q.by = r.by /\ q.on = r.on /\ q.code = r.code
        /\ q.at = "counted" /\ q.lead = (Admins = {})
    BY <2>2, LedOn
  <2> HIDE DEF q
  <2> QED
    BY <1>2, <2>1, <2>3
<1>3. CASE JoinGuild(r)
  <2> DEFINE q == [r EXCEPT !.at = "joined"]
  <2>1. requests' = (requests \ {r}) \cup {q} \/ requests' = requests \ {r}
    BY <1>3 DEF JoinGuild, Moves, Ends
  <2>2. q \in Request /\ q.op = r.op /\ q.by = r.by /\ q.on = r.on /\ q.code = r.code /\ q.at = "joined"
    BY MovedOn
  <2> HIDE DEF q
  <2> QED
    BY <1>3, <2>1, <2>2
<1>4. CASE Lead(r) \/ JoinNothing(r) \/ SignUpFails(r)
  BY <1>4 DEF Lead, JoinNothing, SignUpFails, Ends
<1> QED
  BY <1>1, <1>2, <1>3, <1>4 DEF SignUpSteps

LEMMA RequestsKept ==
  TypeOK /\ RequestsAreAsked /\ [Next]_membershipVars => RequestsAreAsked'
<1> SUFFICES ASSUME TypeOK, RequestsAreAsked, [Next]_membershipVars PROVE RequestsAreAsked'
  OBVIOUS
<1>1. CASE Asks
  BY <1>1, AsksAre, RequestsJoin
<1>2. CASE Visiting
  BY <1>2, VisitsAre, RequestsStay DEF VisitStep
<1>3. CASE UNCHANGED membershipVars
  BY <1>3, RequestsStay DEF membershipVars, tables
<1>4. ASSUME NEW r \in requests, SignUpSteps(r) PROVE RequestsAreAsked'
  <2>1. /\ r.op = "sign up"
        /\ \A i \in Invites : invites'[i].is = "unmade" => invites[i].is = "unmade"
    BY <1>4, SignUpsLeave
  <2>2. CASE requests' = requests \ {r}
    BY <2>1, <2>2, RequestsStay
  <2>3. ASSUME NEW q \in Request, requests' = (requests \ {r}) \cup {q},
               q.op = r.op, q.by = r.by, q.on = r.on, q.code = r.code, q.at # "cut"
        PROVE  RequestsAreAsked'
    BY <2>1, <2>3, RequestsMove
  <2> QED
    BY <1>4, <2>2, <2>3, SignUpsMove
<1>5. ASSUME NEW r \in requests, AdminSteps(r) PROVE RequestsAreAsked'
  <2>1. AdminStep(r)
    BY <1>5, AdminStepsAre
  <2>2. \A i \in Invites : invites'[i].is = "unmade" => invites[i].is = "unmade"
    BY <2>1 DEF AdminStep
  <2>3. CASE requests' = requests \ {r}
    BY <2>2, <2>3, RequestsStay
  <2>4. CASE r.op = "ban" /\ requests' = (requests \ {r}) \cup {[r EXCEPT !.at = "cut"]}
    <3> DEFINE q == [r EXCEPT !.at = "cut"]
    <3>1. q.op = r.op /\ q.by = r.by /\ q.on = r.on /\ q.code = r.code /\ q.at = "cut"
      BY MovedOn
    <3>2. requests' = (requests \ {r}) \cup {q}
      BY <2>4
    <3> HIDE DEF q
    <3> QED
      BY <2>2, <2>4, <3>1, <3>2, RequestsMove
  <2> QED
    BY <2>1, <2>3, <2>4 DEF AdminStep
<1> QED
  BY <1>1, <1>2, <1>3, <1>4, <1>5, Kinds

-----------------------------------------------------------------------------
(* Everybody joins once.                                                    *)

\* Nobody new is signing up, and nobody who is has been given a place.
LEMMA JoinsOnceStays ==
  ASSUME JoinsOnce, RequestsAreAsked, joined' = joined,
         \A r \in requests' : SigningUp(r) => r \in requests,
         \A u \in Users : /\ accounts[u] # "unmade" => accounts'[u] # "unmade"
                          /\ role[u] = "none" => role'[u] = "none"
                          /\ role[u] = "none" /\ ~IsBanned(u) => bannedBy'[u] = System,
         TypeOK
  PROVE  JoinsOnce'
<1>1. ASSUME NEW r \in requests', SigningUp(r)
      PROVE  /\ r \in requests /\ r.on \in Users
             /\ accounts'[r.on] # "unmade" /\ role'[r.on] = "none" /\ bannedBy'[r.on] = System
             /\ \A i \in Invites : r.on \notin joined'[i]
  <2>1. r \in requests /\ r.on \in Users
    BY <1>1 DEF RequestsAreAsked
  <2>2. /\ accounts[r.on] # "unmade" /\ role[r.on] = "none" /\ ~IsBanned(r.on)
        /\ \A i \in Invites : r.on \notin joined[i]
    BY <1>1, <2>1 DEF JoinsOnce
  <2> QED
    BY <2>1, <2>2
<1>2. \A r, q \in requests' : SigningUp(r) /\ SigningUp(q) /\ r.on = q.on => r = q
  BY <1>1 DEF JoinsOnce
<1>3. \A i \in Invites : \A u \in joined'[i] : accounts'[u] # "unmade"
  BY DEF JoinsOnce, TypeOK
<1> QED
  BY <1>1, <1>2, <1>3 DEF JoinsOnce, IsBanned, SigningUp

LEMMA AccountMade ==
  ASSUME TypeOK, RequestsAreAsked, PlacesHaveAccounts, JoinsOnce, NEW r \in requests, NEW q,
         MakeAccount(r), requests' = (requests \ {r}) \cup {q}, q.on = r.on, q.at = "made",
         q.op = "sign up"
  PROVE  JoinsOnce'
<1>1. r.on \in Users /\ accounts[r.on] = "unmade"
  BY DEF RequestsAreAsked, MakeAccount
<1>2. /\ \A u \in Users : accounts'[u] = IF u = r.on THEN "there" ELSE accounts[u]
      /\ role' = role /\ bannedBy' = bannedBy /\ joined' = joined
  BY DEF MakeAccount, TypeOK, ghosts
<1>3. role[r.on] = "none" /\ bannedBy[r.on] = System
  BY <1>1 DEF PlacesHaveAccounts, Exists, IsBanned
<1>4. \A i \in Invites : r.on \notin joined[i]
  BY <1>1 DEF JoinsOnce
<1>5. \A p \in requests : SigningUp(p) => p.on # r.on
  BY <1>1 DEF JoinsOnce
<1>6. ASSUME NEW p \in requests', SigningUp(p)
      PROVE  /\ accounts'[p.on] # "unmade" /\ role'[p.on] = "none" /\ bannedBy'[p.on] = System
             /\ \A i \in Invites : p.on \notin joined'[i]
  <2>1. CASE p = q
    BY <1>1, <1>2, <1>3, <1>4, <2>1
  <2>2. CASE p \in requests
    BY <1>2, <1>5, <1>6, <2>2 DEF JoinsOnce, IsBanned, RequestsAreAsked
  <2> QED
    BY <2>1, <2>2
<1>7. \A p, s \in requests' : SigningUp(p) /\ SigningUp(s) /\ p.on = s.on => p = s
  BY <1>5 DEF JoinsOnce
<1>8. \A i \in Invites : \A u \in joined'[i] : accounts'[u] # "unmade"
  BY <1>2 DEF JoinsOnce, TypeOK
<1> QED
  BY <1>6, <1>7, <1>8 DEF JoinsOnce, IsBanned, SigningUp

LEMMA AdminsCounted ==
  ASSUME TypeOK, RequestsAreAsked, JoinsOnce, NEW r \in requests, NEW q,
         CountAdmins(r), requests' = (requests \ {r}) \cup {q}, q.on = r.on, q.at = "counted",
         q.op = "sign up"
  PROVE  JoinsOnce'
<1>1. SigningUp(r) /\ UNCHANGED <<accounts, role, bannedBy, joined>>
  BY DEF CountAdmins, SigningUp, tables, ghosts
<1>2. ASSUME NEW p \in requests', SigningUp(p)
      PROVE  /\ accounts'[p.on] # "unmade" /\ role'[p.on] = "none" /\ bannedBy'[p.on] = System
             /\ \A i \in Invites : p.on \notin joined'[i]
  <2>1. CASE p = q
    BY <1>1, <2>1 DEF JoinsOnce, IsBanned
  <2>2. CASE p \in requests
    BY <1>1, <1>2, <2>2 DEF JoinsOnce, IsBanned
  <2> QED
    BY <2>1, <2>2
<1>3. \A p \in requests : SigningUp(p) /\ p.on = r.on => p = r
  BY <1>1 DEF JoinsOnce
<1>4. \A p, s \in requests' : SigningUp(p) /\ SigningUp(s) /\ p.on = s.on => p = s
  BY <1>3 DEF JoinsOnce
<1>5. \A i \in Invites : \A u \in joined'[i] : accounts'[u] # "unmade"
  BY <1>1 DEF JoinsOnce
<1> QED
  BY <1>2, <1>4, <1>5 DEF JoinsOnce, IsBanned, SigningUp

LEMMA GuildJoined ==
  ASSUME TypeOK, RequestsAreAsked, JoinsOnce, NEW r \in requests, JoinGuild(r),
         \A p \in requests' : SigningUp(p) => p \in requests /\ p # r
  PROVE  JoinsOnce'
<1>1. SigningUp(r) /\ r.on \in Users /\ r.code \in Invites
  BY RequestOf DEF JoinGuild, SigningUp, RequestsAreAsked
<1>2. /\ \A u \in Users : u # r.on => role'[u] = role[u]
      /\ \A i \in Invites : joined'[i] = IF i = r.code THEN joined[i] \cup {r.on} ELSE joined[i]
      /\ accounts' = accounts /\ bannedBy' = bannedBy
  BY <1>1 DEF JoinGuild, Join, TypeOK
<1>3. ASSUME NEW p \in requests', SigningUp(p)
      PROVE  /\ accounts'[p.on] # "unmade" /\ role'[p.on] = "none" /\ bannedBy'[p.on] = System
             /\ \A i \in Invites : p.on \notin joined'[i]
  <2>1. p \in requests /\ p # r /\ p.on # r.on /\ p.on \in Users
    BY <1>1, <1>3 DEF JoinsOnce, RequestsAreAsked
  <2>2. /\ accounts[p.on] # "unmade" /\ role[p.on] = "none" /\ bannedBy[p.on] = System
        /\ \A i \in Invites : p.on \notin joined[i]
    BY <1>3, <2>1 DEF JoinsOnce, IsBanned
  <2> QED
    BY <1>2, <2>1, <2>2
<1>4. \A p, s \in requests' : SigningUp(p) /\ SigningUp(s) /\ p.on = s.on => p = s
  BY DEF JoinsOnce
<1>5. \A i \in Invites : \A u \in joined'[i] : accounts'[u] # "unmade"
  <2>1. accounts[r.on] # "unmade" /\ \A i \in Invites : \A u \in joined[i] : accounts[u] # "unmade"
    BY <1>1 DEF JoinsOnce
  <2>2. ASSUME NEW i \in Invites, NEW u \in joined'[i] PROVE accounts'[u] # "unmade"
    BY <1>2, <2>1, <2>2
  <2> QED
    BY <2>2
<1> QED
  BY <1>3, <1>4, <1>5 DEF JoinsOnce, IsBanned, SigningUp

LEMMA JoinsKept ==
  TypeOK /\ RequestsAreAsked /\ PlacesHaveAccounts /\ JoinsOnce /\ [Next]_membershipVars => JoinsOnce'
<1> SUFFICES ASSUME TypeOK, RequestsAreAsked, PlacesHaveAccounts, JoinsOnce, [Next]_membershipVars
             PROVE  JoinsOnce'
  OBVIOUS
<1>1. CASE Asks
  <2>1. PICK q : OneMore(q)
    BY <1>1, AsksAre
  <2>2. /\ UNCHANGED <<accounts, role, bannedBy, joined>>
        /\ \A p \in requests' : SigningUp(p) => p \in requests
    BY <2>1 DEF OneMore, SigningUp
  <2> QED
    BY <2>2, JoinsOnceStays DEF IsBanned
<1>2. CASE Visiting
  <2>1. /\ UNCHANGED <<accounts, role, bannedBy, joined>>
        /\ \A p \in requests' : SigningUp(p) => p \in requests
    BY <1>2, VisitsAre DEF VisitStep
  <2> QED
    BY <2>1, JoinsOnceStays DEF IsBanned
<1>3. CASE UNCHANGED membershipVars
  BY <1>3, JoinsOnceStays DEF membershipVars, tables, ghosts, IsBanned
<1>4. ASSUME NEW r \in requests, SignUpSteps(r) PROVE JoinsOnce'
  <2>1. r.op = "sign up" /\ r.on \in Users /\ bannedBy' = bannedBy
    BY <1>4, SignUpsLeave DEF RequestsAreAsked
  <2> DEFINE made == [r EXCEPT !.at = "made"]
             counted == [r EXCEPT !.at = "counted", !.lead = (Admins = {})]
             in == [r EXCEPT !.at = "joined"]
  <2>2. /\ made.on = r.on /\ made.at = "made" /\ made.op = r.op
        /\ in.at = "joined"
    BY MovedOn
  <2>3. (Admins = {}) \in BOOLEAN
    OBVIOUS
  <2>4. counted.on = r.on /\ counted.at = "counted" /\ counted.op = r.op
    BY <2>3, LedOn
  <2>5. /\ MakeAccount(r) => requests' = (requests \ {r}) \cup {made}
        /\ CountAdmins(r) => requests' = (requests \ {r}) \cup {counted}
        /\ JoinGuild(r) => requests' \in {(requests \ {r}) \cup {in}, requests \ {r}}
    BY DEF MakeAccount, CountAdmins, JoinGuild, Moves, Ends
  <2> HIDE DEF made, counted, in
  <2>6. CASE MakeAccount(r)
    BY <2>1, <2>6, <2>2, <2>5, AccountMade
  <2>7. CASE CountAdmins(r)
    BY <2>1, <2>7, <2>4, <2>5, AdminsCounted
  <2>8. CASE JoinGuild(r)
    <3>1. \A p \in requests' : SigningUp(p) => p \in requests /\ p # r
      BY <2>8, <2>2, <2>5 DEF SigningUp
    <3> QED
      BY <2>8, <3>1, GuildJoined
  <2>9. CASE Lead(r) \/ JoinNothing(r) \/ SignUpFails(r)
    <3>1. /\ \A u \in Users : role[u] = "none" => role'[u] = "none"
          /\ UNCHANGED <<accounts, bannedBy, joined>> /\ requests' = requests \ {r}
      BY <2>1, <2>9 DEF Lead, JoinNothing, SignUpFails, Ends, tables, ghosts, TypeOK
    <3> QED
      BY <3>1, JoinsOnceStays DEF IsBanned
  <2> QED
    BY <1>4, <2>6, <2>8, <2>9, <2>7 DEF SignUpSteps
<1>5. ASSUME NEW r \in requests, AdminSteps(r) PROVE JoinsOnce'
  <2>1. AdminStep(r)
    BY <1>5, AdminStepsAre
  <2>2. [r EXCEPT !.at = "cut"].at = "cut"
    BY MovedOn
  <2>3. \A p \in requests' : SigningUp(p) => p \in requests
    BY <2>1, <2>2 DEF AdminStep, SigningUp
  <2> QED
    BY <2>1, <2>3, JoinsOnceStays DEF AdminStep
<1> QED
  BY <1>1, <1>2, <1>3, <1>4, <1>5, Kinds

-----------------------------------------------------------------------------
(* Counting.                                                                *)

Counted(i) ==
  /\ invites[i].uses = Cardinality(joined[i])
  /\ invites[i].uses + Cardinality(Pending(i)) <= invites[i].max + MaxInFlight - 1

LEMMA CountedEach == InvitesAreCounted <=> \A i \in Invites : Counted(i)
BY DEF InvitesAreCounted, Counted, Pending

LEMMA InviteOf ==
  ASSUME TypeOK, NEW i \in Invites
  PROVE  /\ invites[i] \in InviteRow /\ invites[i].uses \in Nat /\ invites[i].max \in Nat
         /\ invites[i].max > 0 /\ invites[i].max <= MaxUses
<1>1. invites[i] \in InviteRow
  BY DEF TypeOK
<1>2. invites[i].uses \in 0..MaxUses + MaxInFlight /\ invites[i].max \in 1..MaxUses
  BY <1>1 DEF InviteRow
<1>3. MaxUses \in Nat /\ MaxInFlight \in Nat
  BY Bounds
<1> QED
  BY <1>1, <1>2, <1>3

LEMMA PendingIsFinite ==
  ASSUME RequestsAreAsked, NEW i
  PROVE  /\ IsFiniteSet(Pending(i)) /\ Cardinality(Pending(i)) \in Nat
         /\ Cardinality(Pending(i)) <= MaxInFlight
<1>1. Pending(i) \subseteq requests
  BY DEF Pending
<1>2. IsFiniteSet(Pending(i)) /\ Cardinality(Pending(i)) <= Cardinality(requests)
  BY <1>1, FS_Subset DEF RequestsAreAsked
<1>3. /\ Cardinality(Pending(i)) \in Nat /\ Cardinality(requests) \in Nat /\ MaxInFlight \in Nat
      /\ Cardinality(requests) <= MaxInFlight
  BY <1>2, FS_CardinalityType, Bounds DEF RequestsAreAsked
<1>4. Cardinality(Pending(i)) <= MaxInFlight
  BY <1>2, <1>3, NoMore, Zenon
<1> QED
  BY <1>2, <1>3, <1>4

LEMMA Room ==
  \A m, u, n, k \in Nat : u < m /\ n <= k => u + n <= m + k - 1
OBVIOUS

LEMMA NoLess ==
  \A m, u, n, p, k \in Nat : u + n <= m + k - 1 /\ p <= n => u + p <= m + k - 1
OBVIOUS

LEMMA OneIn ==
  \A m, u, n, p, k \in Nat : u + n <= m + k - 1 /\ p <= n - 1 => (u + 1) + p <= m + k - 1
OBVIOUS

\* An invite with a use left stays within its bound, whatever is pending.
LEMMA UsableIsCounted ==
  ASSUME NEW i \in Invites, RequestsAreAsked', TypeOK,
         invites'[i].uses \in Nat, invites'[i].max \in Nat, invites'[i].uses < invites'[i].max,
         invites'[i].uses = Cardinality(joined'[i])
  PROVE  Counted(i)'
<1>1. Cardinality(Pending(i)') \in Nat /\ Cardinality(Pending(i)') <= MaxInFlight
  <2>1. Pending(i)' \subseteq requests'
    BY DEF Pending
  <2>2. IsFiniteSet(requests') /\ Cardinality(requests') <= MaxInFlight
    BY DEF RequestsAreAsked
  <2>3. IsFiniteSet(Pending(i)') /\ Cardinality(Pending(i)') <= Cardinality(requests')
    BY <2>1, <2>2, FS_Subset
  <2>4. Cardinality(Pending(i)') \in Nat /\ Cardinality(requests') \in Nat /\ MaxInFlight \in Nat
    BY <2>2, <2>3, FS_CardinalityType, Bounds
  <2> QED
    BY <2>2, <2>3, <2>4, NoMore, Zenon
<1>2. MaxInFlight \in Nat
  BY Bounds
<1>3. invites'[i].uses + Cardinality(Pending(i)') <= invites'[i].max + MaxInFlight - 1
  BY <1>1, <1>2, Room, Zenon
<1> QED
  BY <1>3 DEF Counted

LEMMA CountStays ==
  ASSUME TypeOK, RequestsAreAsked, RequestsAreAsked', NEW i \in Invites, Counted(i),
         joined'[i] = joined[i],
         invites'[i].uses = invites[i].uses, invites'[i].max = invites[i].max,
         Cardinality(Pending(i)') \in Nat, Cardinality(Pending(i)') <= Cardinality(Pending(i))
  PROVE  Counted(i)'
<1>1. invites[i].uses \in Nat /\ invites[i].max \in Nat /\ MaxInFlight \in Nat
  BY InviteOf, Bounds
<1>2. Cardinality(Pending(i)) \in Nat
  BY PendingIsFinite
<1>3. invites[i].uses + Cardinality(Pending(i)) <= invites[i].max + MaxInFlight - 1
  BY DEF Counted
<1>4. invites[i].uses + Cardinality(Pending(i)') <= invites[i].max + MaxInFlight - 1
  BY <1>1, <1>2, <1>3, NoLess, Zenon
<1> QED
  BY <1>4 DEF Counted

\* No more of them are pending than were.
LEMMA PendingStays ==
  ASSUME RequestsAreAsked, NEW i \in Invites,
         \A p \in requests' : p.op = "sign up" /\ p.code = i /\ p.at # "joined" => p \in requests
  PROVE  Cardinality(Pending(i)') \in Nat /\ Cardinality(Pending(i)') <= Cardinality(Pending(i))
<1>1. Pending(i)' \subseteq Pending(i)
  BY DEF Pending
<1>2. IsFiniteSet(Pending(i))
  BY PendingIsFinite
<1> QED
  BY <1>1, <1>2, FS_Subset, FS_CardinalityType

LEMMA PendingMoves ==
  ASSUME RequestsAreAsked, NEW i \in Invites, NEW r \in requests, NEW q,
         requests' = (requests \ {r}) \cup {q}, r.at # "joined",
         q.op = "sign up", r.op = "sign up", q.code = r.code
  PROVE  Cardinality(Pending(i)') \in Nat /\ Cardinality(Pending(i)') <= Cardinality(Pending(i))
<1>1. CASE r.code # i
  BY <1>1, PendingStays
<1>2. CASE r.code = i
  <2>1. r \in Pending(i) /\ Pending(i)' \subseteq (Pending(i) \ {r}) \cup {q}
    BY <1>2 DEF Pending
  <2>2. IsFiniteSet(Pending(i)) /\ Cardinality(Pending(i)) \in Nat
    BY PendingIsFinite
  <2>3. /\ IsFiniteSet((Pending(i) \ {r}) \cup {q})
        /\ Cardinality((Pending(i) \ {r}) \cup {q}) <= Cardinality(Pending(i))
    BY <2>1, <2>2, Replaced
  <2>4. /\ IsFiniteSet(Pending(i)')
        /\ Cardinality(Pending(i)') <= Cardinality((Pending(i) \ {r}) \cup {q})
    BY <2>1, <2>3, FS_Subset
  <2>5. Cardinality(Pending(i)') \in Nat /\ Cardinality((Pending(i) \ {r}) \cup {q}) \in Nat
    BY <2>3, <2>4, FS_CardinalityType
  <2>6. Cardinality(Pending(i)') <= Cardinality(Pending(i))
    BY <2>2, <2>3, <2>4, <2>5, NoMore, Zenon
  <2> QED
    BY <2>5, <2>6
<1> QED
  BY <1>1, <1>2

\* Joining takes one from the pending and adds one to the uses.
LEMMA JoinIsCounted ==
  ASSUME TypeOK, RequestsAreAsked, JoinsOnce, ListsAreFinite, NEW i \in Invites, Counted(i),
         NEW r \in requests, JoinGuild(r), r.code = i,
         \A p \in requests' : p.at # "joined" => p \in requests /\ p # r
  PROVE  Counted(i)' /\ invites'[i].uses \in 0..MaxUses + MaxInFlight
<1>1. /\ joined'[i] = joined[i] \cup {r.on} /\ invites'[i].uses = invites[i].uses + 1
      /\ invites'[i].max = invites[i].max
  <2>1. invites[i] \in InviteRow
    BY InviteOf
  <2> QED
    BY <2>1 DEF JoinGuild, Join, Used, TypeOK, InviteRow
<1>2. r.on \notin joined[i] /\ IsFiniteSet(joined[i])
  BY DEF JoinGuild, JoinsOnce, SigningUp, ListsAreFinite
<1>3. Cardinality(joined'[i]) = Cardinality(joined[i]) + 1
  BY <1>1, <1>2, FS_AddElement
<1>4. r \in Pending(i) /\ Pending(i)' \subseteq Pending(i) \ {r}
  BY DEF Pending, JoinGuild
<1>5. IsFiniteSet(Pending(i)) /\ Cardinality(Pending(i)) \in Nat
  BY PendingIsFinite
<1>6. IsFiniteSet(Pending(i) \ {r}) /\ Cardinality(Pending(i) \ {r}) = Cardinality(Pending(i)) - 1
  BY <1>4, <1>5, FS_RemoveElement
<1>7. IsFiniteSet(Pending(i)') /\ Cardinality(Pending(i)') <= Cardinality(Pending(i)) - 1
  BY <1>4, <1>6, FS_Subset
<1>8. Cardinality(Pending(i)') \in Nat
  BY <1>7, FS_CardinalityType
<1>9. /\ invites[i].uses \in Nat /\ invites[i].max \in Nat /\ MaxInFlight \in Nat /\ MaxUses \in Nat
      /\ invites[i].max <= MaxUses
  BY InviteOf, Bounds
<1>10. invites[i].uses + Cardinality(Pending(i)) <= invites[i].max + MaxInFlight - 1
  BY DEF Counted
<1>11. (invites[i].uses + 1) + Cardinality(Pending(i)') <= invites[i].max + MaxInFlight - 1
  BY <1>5, <1>7, <1>8, <1>9, <1>10, OneIn, Zenon
<1>12. Counted(i)'
  BY <1>1, <1>3, <1>11 DEF Counted
<1>13. \A m, u, n, k, x \in Nat : (u + 1) + n <= m + k - 1 /\ m <= x => u + 1 \in 0..x + k
  OBVIOUS
<1>14. invites[i].uses + 1 \in 0..MaxUses + MaxInFlight
  BY <1>8, <1>9, <1>11, <1>13, Zenon
<1> QED
  BY <1>1, <1>12, <1>14

LEMMA ListsKept ==
  TypeOK /\ RequestsAreAsked /\ ListsAreFinite /\ [Next]_membershipVars => ListsAreFinite'
<1> SUFFICES ASSUME TypeOK, RequestsAreAsked, ListsAreFinite, [Next]_membershipVars
             PROVE  ListsAreFinite'
  OBVIOUS
<1>1. CASE Asks
  <2>1. PICK q : OneMore(q) /\ FreshInvite(q)
    BY <1>1, AsksAre
  <2> QED
    BY <2>1 DEF OneMore, FreshInvite, ListsAreFinite
<1>2. CASE Visiting
  BY <1>2, VisitsAre DEF VisitStep, ListsAreFinite
<1>3. CASE UNCHANGED membershipVars
  BY <1>3 DEF membershipVars, tables, ghosts, ListsAreFinite
<1>4. ASSUME NEW r \in requests, SignUpSteps(r) PROVE ListsAreFinite'
  <2>1. \A i \in Invites : invites'[i].is = invites[i].is
    BY <1>4, SignUpsLeave
  <2>2. CASE JoinGuild(r)
    <3>1. r.code \in Invites /\ invites[r.code].is # "unmade"
      BY <1>4, SignUpsLeave, RequestOf DEF RequestsAreAsked
    <3>2. \A i \in Invites : joined'[i] = IF i = r.code THEN joined[i] \cup {r.on} ELSE joined[i]
      BY <2>2 DEF JoinGuild, Join, TypeOK
    <3>3. \A i \in Invites : IsFiniteSet(joined[i]) /\ IsFiniteSet(joined[i] \cup {r.on})
      BY FS_AddElement DEF ListsAreFinite
    <3>4. \A i \in Invites : IsFiniteSet(joined'[i])
      BY <3>2, <3>3
    <3>5. \A i \in Invites : invites'[i].is = "unmade" => joined'[i] = {}
      BY <2>1, <3>1, <3>2 DEF ListsAreFinite
    <3> QED
      BY <3>4, <3>5 DEF ListsAreFinite
  <2>3. CASE MakeAccount(r) \/ CountAdmins(r) \/ Lead(r) \/ JoinNothing(r) \/ SignUpFails(r)
    <3>1. joined' = joined
      BY <2>3 DEF MakeAccount, CountAdmins, Lead, JoinNothing, SignUpFails, ghosts
    <3> QED
      BY <2>1, <3>1 DEF ListsAreFinite
  <2> QED
    BY <1>4, <2>2, <2>3 DEF SignUpSteps
<1>5. ASSUME NEW r \in requests, AdminSteps(r) PROVE ListsAreFinite'
  BY <1>5, AdminStepsAre DEF AdminStep, ListsAreFinite
<1> QED
  BY <1>1, <1>2, <1>3, <1>4, <1>5, Kinds

LEMMA UnmadeIsUnused ==
  ASSUME TypeOK, ListsAreFinite, NEW i \in Invites, joined' = joined, invites[i].is = "unmade"
  PROVE  joined'[i] = {} /\ Cardinality(joined'[i]) = 0
BY FS_EmptySet DEF ListsAreFinite

LEMMA CountsKept ==
  ASSUME TypeOK, RequestsAreAsked, JoinsOnce, ListsAreFinite, InvitesAreCounted, [Next]_membershipVars
  PROVE  InvitesAreCounted'
<1>1. RequestsAreAsked'
  BY RequestsKept
<1>2. SUFFICES ASSUME NEW i \in Invites PROVE Counted(i)'
  BY CountedEach DEF InvitesAreCounted, Counted, Pending
<1>3. Counted(i)
  BY CountedEach
<1>4. invites[i].uses \in Nat /\ invites[i].max \in Nat /\ invites[i].uses = Cardinality(joined[i])
  BY <1>3, InviteOf DEF Counted
<1>5. CASE Asks
  <2>1. PICK q : OneMore(q) /\ FreshInvite(q)
    BY <1>5, AsksAre
  <2>2. joined' = joined /\ requests' = requests \cup {q}
    BY <2>1 DEF OneMore
  <2>3. CASE q.op = "sign up" /\ q.code = i
    <3>1. invites'[i].uses < invites'[i].max
      BY <2>1, <2>3 DEF FreshInvite
    <3>2. CASE invites'[i] = invites[i]
      BY <1>1, <1>4, <2>2, <3>1, <3>2, UsableIsCounted
    <3>3. CASE invites[i].is = "unmade" /\ invites'[i].uses = 0 /\ invites'[i].max = 1
      BY <1>1, <2>2, <3>1, <3>3, UnmadeIsUnused, UsableIsCounted
    <3> QED
      BY <2>1, <3>2, <3>3 DEF FreshInvite
  <2>4. CASE ~(q.op = "sign up" /\ q.code = i)
    <3>1. Cardinality(Pending(i)') \in Nat /\ Cardinality(Pending(i)') <= Cardinality(Pending(i))
      BY <2>2, <2>4, PendingStays
    <3>2. CASE invites'[i] = invites[i]
      BY <1>1, <1>3, <2>2, <3>1, <3>2, CountStays
    <3>3. CASE invites[i].is = "unmade" /\ invites'[i].uses = 0 /\ invites'[i].max = 1
      BY <1>1, <2>2, <3>3, UnmadeIsUnused, UsableIsCounted
    <3> QED
      BY <2>1, <3>2, <3>3 DEF FreshInvite
  <2> QED
    BY <2>3, <2>4
<1>6. CASE Visiting
  <2>1. /\ requests' \subseteq requests /\ joined' = joined
        /\ invites'[i].uses = invites[i].uses /\ invites'[i].max = invites[i].max
    BY <1>6, VisitsAre DEF VisitStep
  <2>2. Cardinality(Pending(i)') \in Nat /\ Cardinality(Pending(i)') <= Cardinality(Pending(i))
    BY <2>1, PendingStays
  <2> QED
    BY <1>1, <1>3, <2>1, <2>2, CountStays
<1>7. CASE UNCHANGED membershipVars
  BY <1>3, <1>7 DEF membershipVars, tables, ghosts, Counted, Pending
<1>8. ASSUME NEW r \in requests, SignUpSteps(r) PROVE Counted(i)'
  <2>1. r.op = "sign up" /\ invites'[i].max = invites[i].max /\ r.code \in Invites
    BY <1>8, SignUpsLeave, RequestOf
  <2> DEFINE made == [r EXCEPT !.at = "made"]
             counted == [r EXCEPT !.at = "counted", !.lead = (Admins = {})]
             in == [r EXCEPT !.at = "joined"]
  <2>2. made.op = r.op /\ made.code = r.code /\ in.at = "joined" /\ in.op = r.op
    BY MovedOn
  <2>3. (Admins = {}) \in BOOLEAN
    OBVIOUS
  <2>4. counted.op = r.op /\ counted.code = r.code
    BY <2>3, LedOn
  <2>5. /\ MakeAccount(r) => requests' = (requests \ {r}) \cup {made}
        /\ CountAdmins(r) => requests' = (requests \ {r}) \cup {counted}
        /\ JoinGuild(r) => requests' \in {(requests \ {r}) \cup {in}, requests \ {r}}
    BY DEF MakeAccount, CountAdmins, JoinGuild, Moves, Ends
  <2> HIDE DEF made, counted, in
  <2>6. CASE MakeAccount(r) \/ CountAdmins(r)
    <3>1. joined' = joined /\ invites' = invites /\ r.at # "joined"
      BY <2>6 DEF MakeAccount, CountAdmins, tables, ghosts
    <3>2. Cardinality(Pending(i)') \in Nat /\ Cardinality(Pending(i)') <= Cardinality(Pending(i))
      BY <2>1, <2>2, <2>4, <2>5, <2>6, <3>1, PendingMoves
    <3> QED
      BY <1>1, <1>3, <3>1, <3>2, CountStays
  <2>7. CASE JoinGuild(r)
    <3>1. \A p \in requests' : p.at # "joined" => p \in requests /\ p # r
      BY <2>2, <2>5, <2>7
    <3>2. CASE r.code = i
      BY <1>3, <2>7, <3>1, <3>2, JoinIsCounted
    <3>3. CASE r.code # i
      <4>1. joined'[i] = joined[i] /\ invites'[i] = invites[i]
        BY <2>1, <2>7, <3>3 DEF JoinGuild, Join, Used, TypeOK
      <4>2. Cardinality(Pending(i)') \in Nat /\ Cardinality(Pending(i)') <= Cardinality(Pending(i))
        BY <3>1, PendingStays
      <4> QED
        BY <1>1, <1>3, <4>1, <4>2, CountStays
    <3> QED
      BY <3>2, <3>3
  <2>8. CASE Lead(r) \/ JoinNothing(r) \/ SignUpFails(r)
    <3>1. joined' = joined /\ invites' = invites /\ requests' = requests \ {r}
      BY <2>8 DEF Lead, JoinNothing, SignUpFails, Ends, tables, ghosts
    <3>2. Cardinality(Pending(i)') \in Nat /\ Cardinality(Pending(i)') <= Cardinality(Pending(i))
      BY <3>1, PendingStays
    <3> QED
      BY <1>1, <1>3, <3>1, <3>2, CountStays
  <2> QED
    BY <1>8, <2>6, <2>7, <2>8 DEF SignUpSteps
<1>9. ASSUME NEW r \in requests, AdminSteps(r) PROVE Counted(i)'
  <2>1. AdminStep(r)
    BY <1>9, AdminStepsAre
  <2> DEFINE cut == [r EXCEPT !.at = "cut"]
  <2>2. cut.op = r.op
    BY MovedOn
  <2>3. r.op # "sign up" /\ (requests' = requests \ {r} \/ requests' = (requests \ {r}) \cup {cut})
    BY <2>1 DEF AdminStep
  <2> HIDE DEF cut
  <2>4. \A p \in requests' : p.op = "sign up" => p \in requests
    BY <2>2, <2>3
  <2>5. Cardinality(Pending(i)') \in Nat /\ Cardinality(Pending(i)') <= Cardinality(Pending(i))
    BY <2>4, PendingStays
  <2>6. joined' = joined
    BY <2>1 DEF AdminStep
  <2>7. CASE invites'[i].uses = invites[i].uses /\ invites'[i].max = invites[i].max
    BY <1>1, <1>3, <2>5, <2>6, <2>7, CountStays
  <2>8. CASE invites[i].is = "unmade" /\ invites'[i].uses = 0 /\ invites'[i].max = MaxUses
    <3>1. MaxUses \in Nat /\ MaxUses > 0
      BY Bounds
    <3> QED
      BY <1>1, <2>6, <2>8, <3>1, UnmadeIsUnused, UsableIsCounted
  <2> QED
    BY <2>1, <2>7, <2>8 DEF AdminStep
<1> QED
  BY <1>5, <1>6, <1>7, <1>8, <1>9, Kinds

-----------------------------------------------------------------------------
(* Types, and the places that have accounts.                                *)

LEMMA MembershipTypes ==
  ASSUME TypeOK, RequestsAreAsked, JoinsOnce, ListsAreFinite, InvitesAreCounted, [Next]_membershipVars
  PROVE  TypeOK'
<1>1. CASE Asks
  <2>1. PICK q : OneMore(q) /\ FreshInvite(q)
    BY <1>1, AsksAre
  <2>2. \/ invites' = invites
        \/ \E a \in Users, i \in Invites :
             invites' = [invites EXCEPT ![i] = [is |-> "open", uses |-> 0, max |-> 1, by |-> a]]
    BY <1>1 DEF Asks, SignUp, CreateUser, Ask, tables
  <2>3. \A a \in Users : [is |-> "open", uses |-> 0, max |-> 1, by |-> a] \in InviteRow
    BY Bounds DEF InviteRow
  <2>4. invites' \in [Invites -> InviteRow]
    BY <2>2, <2>3 DEF TypeOK
  <2> QED
    BY <2>1, <2>4 DEF OneMore, TypeOK
<1>2. CASE Visiting
  <2>1. ASSUME Visit PROVE budget' \in [asks : 0..MaxAsked, visits : 0..MaxVisits]
    <3>1. budget.visits \in 0..MaxVisits /\ budget.visits > 0 /\ budget.asks \in 0..MaxAsked
      BY <2>1 DEF Visit, TypeOK
    <3>2. budget.visits - 1 \in 0..MaxVisits
      BY <3>1, Bounds, OneLess, Zenon
    <3> QED
      BY <2>1, <3>1, <3>2 DEF Visit, TypeOK
  <2>2. ASSUME NEW u \in Users, SignIn(u) \/ Handshake(u) \/ Connect(u) PROVE TypeOK'
    BY <2>1, <2>2 DEF SignIn, Handshake, Connect, TypeOK, tables, ghosts, Exists
  <2>3. ASSUME NEW i \in Invites, Expire(i) PROVE TypeOK'
    <3>1. [invites[i] EXCEPT !.is = "expired"] \in InviteRow
      BY InviteOf DEF InviteRow
    <3>2. invites' = [invites EXCEPT ![i] = [invites[i] EXCEPT !.is = "expired"]]
      BY <2>3 DEF Expire
    <3>3. invites' \in [Invites -> InviteRow]
      BY <3>1, <3>2 DEF TypeOK
    <3> QED
      BY <2>1, <2>3, <3>3 DEF Expire, TypeOK, ghosts
  <2>4. ASSUME Restart PROVE TypeOK'
    <3>1. excused' \subseteq Users
      <4>1. excused' = excused \cup {r.on : r \in {q \in requests : q.at = "cut"}}
        BY <2>4 DEF Restart
      <4>2. \A r \in requests : r.on \in Users
        BY DEF RequestsAreAsked
      <4>3. excused \subseteq Users
        BY DEF TypeOK
      <4> QED
        BY <4>1, <4>2, <4>3
    <3> QED
      BY <2>1, <2>4, <3>1 DEF Restart, TypeOK, tables
  <2> QED
    BY <1>2, <2>2, <2>3, <2>4 DEF Visiting
<1>3. CASE UNCHANGED membershipVars
  BY <1>3 DEF membershipVars, tables, ghosts, TypeOK
<1>4. ASSUME NEW r \in requests, SignUpSteps(r) PROVE TypeOK'
  <2>1. r.on \in Users /\ r.code \in Invites /\ r \in Request
    BY RequestOf DEF RequestsAreAsked
  <2>2. requests' \subseteq Request
    BY <1>4, SignUpsMove DEF TypeOK
  <2>3. CASE JoinGuild(r)
    <3> DEFINE in == [r EXCEPT !.at = "joined"]
    <3>1. in.at = "joined"
      BY MovedOn
    <3>2. requests' \in {(requests \ {r}) \cup {in}, requests \ {r}} /\ r.at = "counted"
      BY <2>3 DEF JoinGuild, Moves, Ends
    <3> HIDE DEF in
    <3>3. \A p \in requests' : p.at # "joined" => p \in requests /\ p # r
      BY <3>1, <3>2
    <3>4. Counted(r.code)
      BY <2>1, CountedEach
    <3>5. invites'[r.code].uses \in 0..MaxUses + MaxInFlight
      BY <2>1, <2>3, <3>3, <3>4, JoinIsCounted
    <3>6. invites' = [invites EXCEPT ![r.code] = [invites[r.code] EXCEPT !.uses = @ + 1]]
      BY <2>3 DEF JoinGuild, Join, Used
    <3>7. invites[r.code] \in InviteRow /\ invites[r.code].uses + 1 \in 0..MaxUses + MaxInFlight
      BY <2>1, <3>5, <3>6, InviteOf DEF TypeOK, InviteRow
    <3>8. [invites[r.code] EXCEPT !.uses = @ + 1] \in InviteRow
      BY <3>7 DEF InviteRow
    <3>9. invites' \in [Invites -> InviteRow]
      BY <2>1, <3>6, <3>8 DEF TypeOK
    <3>10. /\ role' \in [Users -> {"none", "member", "admin"}]
           /\ joined' \in [Invites -> SUBSET Users]
           /\ sessions' \subseteq {u \in Users : accounts'[u] = "there"}
      BY <2>1, <2>3 DEF JoinGuild, Join, Exists, TypeOK
    <3> QED
      BY <2>2, <2>3, <3>9, <3>10 DEF JoinGuild, TypeOK
  <2>4. CASE MakeAccount(r)
    BY <2>1, <2>2, <2>4 DEF MakeAccount, TypeOK, ghosts
  <2>5. CASE CountAdmins(r) \/ SignUpFails(r)
    BY <2>2, <2>5 DEF CountAdmins, SignUpFails, TypeOK, tables, ghosts
  <2>6. CASE Lead(r)
    BY <2>1, <2>2, <2>6 DEF Lead, TypeOK, ghosts
  <2>7. CASE JoinNothing(r)
    BY <2>1, <2>2, <2>7 DEF JoinNothing, Exists, TypeOK, ghosts
  <2> QED
    BY <1>4, <2>3, <2>4, <2>5, <2>6, <2>7 DEF SignUpSteps
<1>5. ASSUME NEW r \in requests, AdminSteps(r) PROVE TypeOK'
  <2>1. AdminStep(r)
    BY <1>5, AdminStepsAre
  <2>2. [r EXCEPT !.at = "cut"] \in Request
    BY MovedOn
  <2>3. requests' \subseteq Request
    BY <2>1, <2>2 DEF AdminStep, TypeOK
  <2>4. r.on \in Users /\ r.by \in Users /\ r.code \in Invites
    BY <2>1, RequestOf DEF RequestsAreAsked, AdminStep
  <2>5. /\ joined' \in [Invites -> SUBSET Users] /\ raced' \in BOOLEAN
        /\ budget' \in [asks : 0..MaxAsked, visits : 0..MaxVisits]
    BY <2>1 DEF AdminStep, TypeOK
  <2>6. CASE MakeInvite(r)
    <3>1. [is |-> "open", uses |-> 0, max |-> MaxUses, by |-> r.by] \in InviteRow
      BY <2>4, Bounds DEF InviteRow
    <3>2. invites' \in [Invites -> InviteRow]
      BY <2>4, <2>6, <3>1 DEF MakeInvite, TypeOK
    <3> QED
      BY <2>3, <2>5, <2>6, <3>2 DEF MakeInvite, TypeOK, ghosts
  <2>7. CASE RevokeInvite(r)
    <3>1. [invites[r.code] EXCEPT !.is = "revoked"] \in InviteRow
      BY <2>4, InviteOf DEF InviteRow
    <3>2. invites' \in [Invites -> InviteRow]
      BY <2>4, <2>7, <3>1 DEF RevokeInvite, TypeOK
    <3> QED
      BY <2>3, <2>5, <2>7, <3>2 DEF RevokeInvite, TypeOK, ghosts
  <2>8. CASE SetRole(r)
    <3>1. role' \in [Users -> {"none", "member", "admin"}]
      BY <2>4, <2>8 DEF SetRole, TypeOK
    <3> QED
      BY <2>3, <2>5, <2>8, <3>1 DEF SetRole, TypeOK, ghosts
  <2>9. CASE Kick(r)
    BY <2>3, <2>4, <2>5, <2>9 DEF Kick, Disconnected, TypeOK, ghosts
  <2>10. CASE Ban(r)
    BY <2>3, <2>4, <2>5, <2>10 DEF Ban, BanRow, Disconnected, TypeOK
  <2>11. CASE EndSessions(r)
    BY <2>3, <2>5, <2>11 DEF EndSessions, SignedOut, TypeOK, ghosts
  <2>12. CASE Unban(r)
    BY <2>3, <2>4, <2>5, <2>12 DEF Unban, TypeOK, ghosts
  <2>13. CASE DeleteAccount(r)
    <3>1. \A i \in Invites : [invites[i] EXCEPT !.is = "gone"] \in InviteRow /\ invites[i] \in InviteRow
      BY InviteOf DEF InviteRow
    <3>2. invites' \in [Invites -> InviteRow]
      BY <2>13, <3>1 DEF DeleteAccount
    <3>3. bannedBy' \in [Users -> Users \cup {System}]
      BY <2>13 DEF DeleteAccount, TypeOK
    <3>4. accounts' = [accounts EXCEPT ![r.on] = "deleted"] /\ sessions' = sessions \ {r.on}
      BY <2>13 DEF DeleteAccount, SessionsWithout
    <3>5. sessions' \subseteq {u \in Users : accounts'[u] = "there"}
      BY <3>4 DEF TypeOK
    <3>6. accounts' \in [Users -> {"unmade", "there", "deleted"}]
      BY <3>4 DEF TypeOK
    <3> QED
      BY <2>3, <2>4, <2>5, <2>13, <3>2, <3>3, <3>5, <3>6 DEF DeleteAccount, TypeOK, ghosts
  <2>14. CASE AddText(r) \/ DropText(r)
    <3>1. texts \in 0..MaxTexts /\ MaxTexts \in Nat
      BY Bounds DEF TypeOK
    <3>2. \/ texts < MaxTexts /\ texts' = texts + 1
          \/ texts > 0 /\ texts' = texts - 1
      BY <2>14 DEF AddText, DropText
    <3>3. texts' \in 0..MaxTexts
      BY <3>1, <3>2, OneLess, OneMoreIn, Zenon
    <3> QED
      BY <2>3, <2>5, <2>14, <3>3 DEF AddText, DropText, TypeOK, ghosts
  <2>15. CASE Fails(r)
    BY <2>3, <2>5, <2>15 DEF Fails, TypeOK, tables, ghosts
  <2> QED
    BY <1>5, <2>6, <2>7, <2>8, <2>9, <2>10, <2>11, <2>12, <2>13, <2>14, <2>15 DEF AdminSteps
<1> QED
  BY <1>1, <1>2, <1>3, <1>4, <1>5, Kinds

LEMMA PlacesKept ==
  ASSUME TypeOK, RequestsAreAsked, JoinsOnce, PlacesHaveAccounts, [Next]_membershipVars
  PROVE  PlacesHaveAccounts'
<1> USE DEF PlacesHaveAccounts, IsBanned, Exists
<1>1. CASE Asks
  BY <1>1, AsksAre DEF OneMore
<1>2. CASE Visiting
  BY <1>2, VisitsAre DEF VisitStep
<1>3. CASE UNCHANGED membershipVars
  BY <1>3 DEF membershipVars, tables
<1>4. ASSUME NEW r \in requests, SignUpSteps(r) PROVE PlacesHaveAccounts'
  <2>1. r.on \in Users
    BY DEF RequestsAreAsked
  <2>2. CASE MakeAccount(r)
    BY <2>1, <2>2 DEF MakeAccount, TypeOK
  <2>3. CASE CountAdmins(r) \/ JoinNothing(r) \/ SignUpFails(r)
    BY <2>3 DEF CountAdmins, JoinNothing, SignUpFails, tables
  <2>4. CASE JoinGuild(r)
    BY <2>1, <2>4 DEF JoinGuild, Join, TypeOK
  <2>5. CASE Lead(r)
    BY <2>1, <2>5 DEF Lead, TypeOK
  <2> QED
    BY <1>4, <2>2, <2>3, <2>4, <2>5 DEF SignUpSteps
<1>5. ASSUME NEW r \in requests, AdminSteps(r) PROVE PlacesHaveAccounts'
  <2>1. /\ \A u \in Users : /\ role[u] = "none" => role'[u] = "none"
                            /\ role[u] = "none" /\ ~IsBanned(u) => bannedBy'[u] = System
        /\ r.on \in Users
    BY <1>5, AdminStepsAre DEF AdminStep, RequestsAreAsked
  <2>2. CASE DeleteAccount(r)
    <3>1. /\ \A u \in Users : u # r.on => accounts'[u] = accounts[u]
          /\ role'[r.on] = "none" /\ bannedBy'[r.on] = System
      BY <2>1, <2>2 DEF DeleteAccount, TypeOK
    <3> QED
      BY <2>1, <3>1
  <2>3. CASE ~DeleteAccount(r)
    <3>1. accounts' = accounts
      BY <1>5, <2>3 DEF AdminSteps, MakeInvite, RevokeInvite, SetRole, Kick, Ban, EndSessions, Unban,
                        AddText, DropText, Fails, tables
    <3> QED
      BY <2>1, <3>1
  <2> QED
    BY <2>2, <2>3
<1> QED
  BY <1>1, <1>2, <1>3, <1>4, <1>5, Kinds

-----------------------------------------------------------------------------
(* Bans.                                                                    *)

\* Somebody banned who is signed in: they signed in again, or the ban is not done.
Owing(u) ==
  u \in excused \/ \E r \in requests : r.op = "ban" /\ r.on = u /\ r.at = "cut"

LEMMA BannedEach ==
  BanSticks <=> \A u \in Users : IsBanned(u) => role[u] = "none" /\ (u \in sessions => Owing(u))
BY DEF BanSticks, Owing

\* Bans whose cut is left to do are left to do, when it is not done.
LEMMA OwingStays ==
  ASSUME NEW u \in Users, Owing(u), excused \subseteq excused',
         \A r \in requests : r.at = "cut" /\ r.op = "ban" /\ r.on = u => r \in requests'
  PROVE  Owing(u)'
<1>1. CASE u \in excused
  BY <1>1 DEF Owing
<1>2. CASE u \notin excused
  <2>1. PICK r \in requests : r.op = "ban" /\ r.on = u /\ r.at = "cut"
    BY <1>2 DEF Owing
  <2> QED
    BY <2>1 DEF Owing
<1> QED
  BY <1>1, <1>2

LEMMA BanStaysWith ==
  ASSUME BanSticks, NEW u \in Users, bannedBy'[u] # System,
         role[u] = "none" => role'[u] = "none",
         bannedBy[u] # System,
         u \in sessions' => u \in sessions,
         excused \subseteq excused',
         \A r \in requests : r.at = "cut" /\ r.op = "ban" /\ r.on = u => r \in requests'
  PROVE  role'[u] = "none" /\ (u \in sessions' => Owing(u)')
<1>1. role[u] = "none" /\ (u \in sessions => Owing(u))
  BY BannedEach DEF IsBanned
<1> QED
  BY <1>1, OwingStays

LEMMA BansKept ==
  ASSUME TypeOK, RequestsAreAsked, JoinsOnce, BanSticks, [Next]_membershipVars
  PROVE  BanSticks'
<1>1. SUFFICES ASSUME NEW u \in Users, bannedBy'[u] # System
               PROVE  role'[u] = "none" /\ (u \in sessions' => Owing(u)')
  BY DEF BanSticks, Owing, IsBanned
<1>2. CASE Asks
  BY <1>1, <1>2, AsksAre, BanStaysWith DEF OneMore
<1>3. CASE Visiting
  <2>1. UNCHANGED <<role, bannedBy>>
    BY <1>3, VisitsAre DEF VisitStep
  <2>2. ASSUME NEW w \in Users, SignIn(w)
        PROVE  role'[u] = "none" /\ (u \in sessions' => Owing(u)')
    <3>1. CASE w = u
      <4>1. u \in excused'
        BY <1>1, <2>1, <2>2, <3>1 DEF SignIn, IsBanned
      <4> QED
        BY <1>1, <2>1, <4>1, BannedEach DEF Owing, IsBanned
    <3>2. CASE w # u
      <4>1. /\ u \in sessions' => u \in sessions
            /\ excused \subseteq excused' /\ requests' = requests
        BY <2>2, <3>2 DEF SignIn
      <4> QED
        BY <1>1, <2>1, <4>1, BanStaysWith
    <3> QED
      BY <3>1, <3>2
  <2>3. ASSUME NEW w \in Users, Handshake(w) \/ Connect(w)
        PROVE  role'[u] = "none" /\ (u \in sessions' => Owing(u)')
    <3>1. sessions' = sessions /\ excused' = excused /\ requests' = requests
      BY <2>3 DEF Handshake, Connect, tables, ghosts
    <3> QED
      BY <1>1, <2>1, <3>1, BanStaysWith
  <2>4. ASSUME NEW i \in Invites, Expire(i)
        PROVE  role'[u] = "none" /\ (u \in sessions' => Owing(u)')
    <3>1. sessions' = sessions /\ excused' = excused /\ requests' = requests
      BY <2>4 DEF Expire, ghosts
    <3> QED
      BY <1>1, <2>1, <3>1, BanStaysWith
  <2>5. CASE Restart
    <3>1. /\ sessions' = sessions
          /\ excused' = excused \cup {r.on : r \in {q \in requests : q.at = "cut"}}
      BY <2>5 DEF Restart, tables
    <3>2. Owing(u) => u \in excused'
      BY <3>1 DEF Owing
    <3> QED
      BY <1>1, <2>1, <3>1, <3>2, BannedEach DEF Owing, IsBanned
  <2> QED
    BY <1>3, <2>2, <2>3, <2>4, <2>5 DEF Visiting
<1>4. CASE UNCHANGED membershipVars
  <2>1. UNCHANGED <<role, bannedBy, sessions, excused, requests>>
    BY <1>4 DEF membershipVars, tables, ghosts
  <2> QED
    BY <1>1, <2>1, BanStaysWith
<1>5. ASSUME NEW r \in requests, SignUpSteps(r)
      PROVE  role'[u] = "none" /\ (u \in sessions' => Owing(u)')
  <2>1. r.op = "sign up" /\ bannedBy' = bannedBy /\ excused' = excused /\ r.on \in Users
    BY <1>5, SignUpsLeave DEF RequestsAreAsked
  <2>2. \A p \in requests : p.op = "ban" => p \in requests'
    BY <1>5, <2>1, SignUpsMove
  <2>3. /\ role[u] = "none" => role'[u] = "none"
        /\ u \in sessions' => u \in sessions
    <3>1. CASE JoinGuild(r)
      <4>1. u # r.on
        BY <1>1, <2>1, <3>1 DEF JoinGuild, JoinsOnce, SigningUp, IsBanned
      <4> QED
        BY <2>1, <3>1, <4>1 DEF JoinGuild, Join, TypeOK
    <3>2. CASE JoinNothing(r)
      <4>1. u # r.on
        BY <1>1, <2>1, <3>2 DEF JoinNothing, JoinsOnce, SigningUp, IsBanned
      <4> QED
        BY <3>2, <4>1 DEF JoinNothing
    <3>3. CASE Lead(r)
      BY <3>3 DEF Lead, TypeOK
    <3>4. CASE MakeAccount(r) \/ CountAdmins(r) \/ SignUpFails(r)
      BY <3>4 DEF MakeAccount, CountAdmins, SignUpFails, tables
    <3> QED
      BY <1>5, <3>1, <3>2, <3>3, <3>4 DEF SignUpSteps
  <2> QED
    BY <1>1, <2>1, <2>2, <2>3, BanStaysWith
<1>6. ASSUME NEW r \in requests, AdminSteps(r)
      PROVE  role'[u] = "none" /\ (u \in sessions' => Owing(u)')
  <2>1. /\ r.on \in Users
        /\ role[u] = "none" => role'[u] = "none"
        /\ requests' = requests \ {r} \/ requests' = (requests \ {r}) \cup {[r EXCEPT !.at = "cut"]}
    BY <1>6, AdminStepsAre DEF AdminStep, RequestsAreAsked
  <2>2. CASE Ban(r) /\ r.on = u
    <3> DEFINE cut == [r EXCEPT !.at = "cut"]
    <3>1. cut.op = "ban" /\ cut.on = u /\ cut.at = "cut"
      BY <2>2, MovedOn DEF Ban, Writes
    <3>2. cut \in requests'
      BY <2>2 DEF Ban, Moves
    <3> HIDE DEF cut
    <3>3. Owing(u)'
      BY <3>1, <3>2 DEF Owing
    <3>4. role'[u] = "none"
      BY <2>2 DEF Ban, TypeOK
    <3> QED
      BY <3>3, <3>4
  <2>3. CASE ~(Ban(r) /\ r.on = u)
    <3>1. sessions' \subseteq sessions
      BY <1>6 DEF AdminSteps, MakeInvite, RevokeInvite, SetRole, Kick, Ban, EndSessions, SignedOut, Unban,
                  DeleteAccount, SessionsWithout, AddText, DropText, Fails, tables
    <3>2. bannedBy[u] # System
      <4>1. CASE Ban(r) \/ Unban(r)
        BY <1>1, <2>1, <2>3, <4>1 DEF Ban, BanRow, Unban, TypeOK
      <4>2. CASE DeleteAccount(r)
        BY <1>1, <4>2 DEF DeleteAccount
      <4>3. CASE ~(Ban(r) \/ Unban(r) \/ DeleteAccount(r))
        <5>1. bannedBy' = bannedBy
          BY <1>6, <4>3 DEF AdminSteps, MakeInvite, RevokeInvite, SetRole, Kick, EndSessions,
                            AddText, DropText, Fails, tables
        <5> QED
          BY <1>1, <5>1
      <4> QED
        BY <4>1, <4>2, <4>3
    <3>3. CASE EndSessions(r) /\ r.on = u
      <4>1. u \notin sessions'
        BY <3>3 DEF EndSessions, SignedOut
      <4>2. role[u] = "none"
        BY <3>2, BannedEach DEF IsBanned
      <4> QED
        BY <2>1, <4>1, <4>2
    <3>4. CASE ~(EndSessions(r) /\ r.on = u)
      <4>1. excused' = excused \/ (Ban(r) /\ excused' = excused \ {r.on})
        BY <1>6 DEF AdminSteps, MakeInvite, RevokeInvite, SetRole, Kick, Ban, EndSessions, Unban,
                    DeleteAccount, AddText, DropText, Fails, ghosts
      <4>2. ~(r.at = "cut" /\ r.on = u)
        BY <1>6, <3>4 DEF AdminSteps, MakeInvite, RevokeInvite, SetRole, Kick, Ban, EndSessions, Unban,
                    DeleteAccount, AddText, DropText, Fails, Writes
      <4>3. \A p \in requests : p.at = "cut" /\ p.op = "ban" /\ p.on = u => p \in requests'
        BY <2>1, <4>2
      <4>4. role[u] = "none" /\ (u \in sessions => Owing(u))
        BY <3>2, BannedEach DEF IsBanned
      <4>5. Owing(u) => Owing(u)'
        <5>1. CASE excused' = excused
          BY <4>3, <5>1, OwingStays
        <5>2. CASE Ban(r) /\ excused' = excused \ {r.on}
          <6>1. u \in excused => u \in excused'
            BY <2>3, <5>2
          <6> QED
            BY <4>3, <6>1 DEF Owing
        <5> QED
          BY <4>1, <5>1, <5>2
      <4> QED
        BY <2>1, <3>1, <4>4, <4>5
    <3> QED
      BY <3>3, <3>4
  <2> QED
    BY <2>2, <2>3
<1> QED
  BY <1>2, <1>3, <1>4, <1>5, <1>6, Kinds

-----------------------------------------------------------------------------
(* Requests that do not overlap.                                            *)

LEMMA StaysChecked ==
  ASSUME NEW r, StillAsChecked(r), UNCHANGED <<role, texts>>, r.code \in Invites,
         \A i \in Invites : invites'[i].uses = invites[i].uses /\ invites'[i].max = invites[i].max
  PROVE  StillAsChecked(r)'
<1>1. Admins' = Admins
  BY DEF Admins
<1> QED
  BY <1>1 DEF StillAsChecked

LEMMA AloneKept ==
  ASSUME TypeOK, RequestsAreAsked, Alone, [Next]_membershipVars
  PROVE  Alone'
<1>1. SUFFICES ASSUME ~raced'
               PROVE  /\ \A r, q \in requests' : r = q
                      /\ \A r \in requests' : StillAsChecked(r)'
  BY DEF Alone
<1>2. CASE Asks
  <2>1. PICK q : OneMore(q) /\ StillAsChecked(q)'
    BY <1>2, AsksAre
  <2>2. requests' = {q}
    BY <1>1, <2>1 DEF OneMore
  <2> QED
    BY <2>1, <2>2
<1>3. CASE Visiting
  <2>1. VisitStep
    BY <1>3, VisitsAre
  <2>2. /\ \A r, q \in requests : r = q
        /\ \A r \in requests : StillAsChecked(r)
        /\ requests' \subseteq requests
    BY <1>1, <2>1 DEF VisitStep, Alone
  <2>3. ASSUME NEW r \in requests' PROVE StillAsChecked(r)'
    BY <2>1, <2>2, RequestOf, StaysChecked DEF VisitStep
  <2> QED
    BY <2>2, <2>3
<1>4. CASE UNCHANGED membershipVars
  <2>1. /\ requests' = requests /\ raced' = raced /\ UNCHANGED <<role, texts, invites>>
    BY <1>4 DEF membershipVars, tables, ghosts
  <2>2. /\ \A r, q \in requests : r = q
        /\ \A r \in requests : StillAsChecked(r)
    BY <1>1, <2>1 DEF Alone
  <2>3. ASSUME NEW r \in requests' PROVE StillAsChecked(r)'
    BY <2>1, <2>2, RequestOf, StaysChecked
  <2> QED
    BY <2>1, <2>2, <2>3
<1>5. ASSUME NEW r \in requests, SignUpSteps(r)
      PROVE  /\ \A p, q \in requests' : p = q
             /\ \A p \in requests' : StillAsChecked(p)'
  <2>1. r.op = "sign up" /\ raced' = raced /\ r.code \in Invites
    BY <1>5, SignUpsLeave, RequestOf
  <2>2. requests = {r} /\ StillAsChecked(r)
    BY <1>1, <2>1 DEF Alone
  <2>3. CASE requests' = requests \ {r}
    BY <2>2, <2>3
  <2>4. ASSUME NEW q \in Request, requests' = (requests \ {r}) \cup {q},
               q.op = r.op, q.code = r.code,
               \/ MakeAccount(r) /\ q.at = "made"
               \/ CountAdmins(r) /\ q.at = "counted" /\ q.lead = (Admins = {})
               \/ JoinGuild(r) /\ q.at = "joined"
        PROVE  StillAsChecked(q)' /\ requests' = {q}
    <3>1. requests' = {q}
      BY <2>2, <2>4
    <3>2. CASE JoinGuild(r) /\ q.at = "joined"
      <4>1. q.op = "sign up" /\ q.at = "joined"
        BY <2>1, <2>4, <3>2
      <4> QED
        BY <3>1, <4>1 DEF StillAsChecked
    <3>3. CASE MakeAccount(r) /\ q.at = "made"
      <4>1. invites' = invites /\ r.at # "joined"
        BY <3>3 DEF MakeAccount
      <4> QED
        BY <2>1, <2>2, <2>4, <3>3, <4>1 DEF StillAsChecked
    <3>4. CASE CountAdmins(r) /\ q.at = "counted" /\ q.lead = (Admins = {})
      <4>1. invites' = invites /\ Admins' = Admins /\ r.at # "joined"
        BY <3>4 DEF CountAdmins, tables, Admins
      <4> QED
        BY <2>1, <2>2, <2>4, <3>4, <4>1 DEF StillAsChecked
    <3> QED
      BY <2>4, <3>1, <3>2, <3>3, <3>4
  <2>5. CASE \E q \in Request :
               /\ requests' = (requests \ {r}) \cup {q}
               /\ q.op = r.op /\ q.code = r.code
               /\ \/ MakeAccount(r) /\ q.at = "made"
                  \/ CountAdmins(r) /\ q.at = "counted" /\ q.lead = (Admins = {})
                  \/ JoinGuild(r) /\ q.at = "joined"
    BY <2>4, <2>5
  <2> QED
    BY <1>5, <2>3, <2>5, SignUpsMove
<1>6. ASSUME NEW r \in requests, AdminSteps(r)
      PROVE  /\ \A p, q \in requests' : p = q
             /\ \A p \in requests' : StillAsChecked(p)'
  <2>1. AdminStep(r)
    BY <1>6, AdminStepsAre
  <2>2. requests = {r}
    BY <1>1, <2>1 DEF AdminStep, Alone
  <2>3. CASE requests' = requests \ {r}
    BY <2>2, <2>3
  <2>4. CASE r.op = "ban" /\ requests' = (requests \ {r}) \cup {[r EXCEPT !.at = "cut"]}
    <3> DEFINE cut == [r EXCEPT !.at = "cut"]
    <3>1. cut.op = "ban" /\ cut.at = "cut" /\ requests' = {cut}
      BY <2>2, <2>4, MovedOn
    <3> HIDE DEF cut
    <3>2. \A p \in requests' : StillAsChecked(p)'
      BY <3>1 DEF StillAsChecked
    <3> QED
      BY <3>1, <3>2
  <2> QED
    BY <2>1, <2>3, <2>4 DEF AdminStep
<1> QED
  BY <1>2, <1>3, <1>4, <1>5, <1>6, Kinds

LEMMA RulesKept ==
  ASSUME TypeOK, RequestsAreAsked, JoinsOnce, Alone, RulesHoldAlone, [Next]_membershipVars
  PROVE  RulesHoldAlone'
<1>1. SUFFICES ASSUME ~raced'
               PROVE  /\ (\E i \in Invites : joined'[i] # {}) => Admins' # {}
                      /\ texts' > 0
                      /\ \A i \in Invites : invites'[i].uses <= invites'[i].max
  BY DEF RulesHoldAlone
<1> DEFINE Rules == /\ (\E i \in Invites : joined[i] # {}) => Admins # {}
                    /\ texts > 0
                    /\ \A i \in Invites : invites[i].uses <= invites[i].max
<1>2. CASE Asks
  <2>1. PICK q : OneMore(q) /\ FreshInvite(q)
    BY <1>2, AsksAre
  <2>2. Rules /\ Admins' = Admins /\ texts' = texts /\ joined' = joined
    BY <1>1, <2>1 DEF OneMore, Admins, RulesHoldAlone
  <2>3. \A i \in Invites : invites'[i].uses <= invites'[i].max
    <3>1. ASSUME NEW i \in Invites PROVE invites'[i].uses <= invites'[i].max
      <4>1. CASE invites'[i] = invites[i]
        BY <2>2, <4>1
      <4>2. CASE invites'[i].uses = 0 /\ invites'[i].max = 1
        BY <4>2
      <4> QED
        BY <2>1, <4>1, <4>2 DEF FreshInvite
    <3> QED
      BY <3>1
  <2> QED
    BY <2>2, <2>3
<1>3. CASE Visiting
  <2>1. VisitStep
    BY <1>3, VisitsAre
  <2> QED
    BY <1>1, <2>1 DEF VisitStep, Admins, RulesHoldAlone
<1>4. CASE UNCHANGED membershipVars
  BY <1>1, <1>4 DEF membershipVars, tables, ghosts, Admins, RulesHoldAlone
<1>5. ASSUME NEW r \in requests, SignUpSteps(r)
      PROVE  /\ (\E i \in Invites : joined'[i] # {}) => Admins' # {}
             /\ texts' > 0
             /\ \A i \in Invites : invites'[i].uses <= invites'[i].max
  <2>1. r.op = "sign up" /\ raced' = raced /\ texts' = texts /\ r.on \in Users /\ r.code \in Invites
    BY <1>5, SignUpsLeave, RequestOf DEF RequestsAreAsked
  <2>2. Rules /\ StillAsChecked(r)
    BY <1>1, <2>1 DEF RulesHoldAlone, Alone
  <2>3. CASE JoinGuild(r)
    <3>1. r.at = "counted"
      BY <2>3 DEF JoinGuild
    <3>2. \A u \in Users : role'[u] = IF u = r.on THEN (IF r.lead THEN "admin" ELSE "member") ELSE role[u]
      BY <2>3 DEF JoinGuild, Join, TypeOK
    <3>3. role[r.on] = "none"
      BY <2>1, <3>1 DEF JoinsOnce, SigningUp
    <3>4. Admins' # {}
      <4>1. CASE r.lead
        BY <2>1, <3>2, <4>1 DEF Admins
      <4>2. CASE ~r.lead
        <5>1. PICK a \in Admins : TRUE
          BY <2>1, <2>2, <3>1, <4>2 DEF StillAsChecked
        <5>2. a \in Admins'
          BY <3>2, <3>3, <5>1 DEF Admins
        <5> QED
          BY <5>2
      <4> QED
        BY <4>1, <4>2
    <3>5. /\ invites[r.code].uses < invites[r.code].max
          /\ invites[r.code].uses \in Nat /\ invites[r.code].max \in Nat
      BY <2>1, <2>2, <3>1, InviteOf DEF StillAsChecked
    <3>6. \A m, n \in Nat : m < n => m + 1 <= n
      OBVIOUS
    <3>7. invites[r.code].uses + 1 <= invites[r.code].max
      BY <3>5, <3>6, Zenon
    <3>8. \A i \in Invites : /\ invites'[i].uses = IF i = r.code THEN invites[i].uses + 1 ELSE invites[i].uses
                             /\ invites'[i].max = invites[i].max
      <4>1. \A i \in Invites : invites'[i] = IF i = r.code THEN [invites[i] EXCEPT !.uses = @ + 1] ELSE invites[i]
        BY <2>3 DEF JoinGuild, Join, Used, TypeOK
      <4>2. \A i \in Invites : invites[i] \in InviteRow
        BY InviteOf
      <4> QED
        BY <4>1, <4>2 DEF InviteRow
    <3>9. \A i \in Invites : invites'[i].uses <= invites'[i].max
      BY <2>2, <3>7, <3>8
    <3> QED
      BY <2>1, <2>2, <3>4, <3>9
  <2>4. CASE Lead(r)
    <3>1. \A u \in Users : role[u] = "admin" => role'[u] = "admin"
      BY <2>4 DEF Lead, TypeOK
    <3>2. Admins \subseteq Admins' /\ joined' = joined /\ invites' = invites
      BY <2>4, <3>1 DEF Lead, Admins, ghosts
    <3> QED
      BY <2>1, <2>2, <3>2
  <2>5. CASE MakeAccount(r) \/ CountAdmins(r) \/ JoinNothing(r) \/ SignUpFails(r)
    <3>1. Admins' = Admins /\ joined' = joined /\ invites' = invites
      BY <2>5 DEF MakeAccount, CountAdmins, JoinNothing, SignUpFails, Admins, tables, ghosts
    <3> QED
      BY <2>1, <2>2, <3>1
  <2> QED
    BY <1>5, <2>3, <2>4, <2>5 DEF SignUpSteps
<1>6. ASSUME NEW r \in requests, AdminSteps(r)
      PROVE  /\ (\E i \in Invites : joined'[i] # {}) => Admins' # {}
             /\ texts' > 0
             /\ \A i \in Invites : invites'[i].uses <= invites'[i].max
  <2>1. AdminStep(r) /\ r.on \in Users
    BY <1>6, AdminStepsAre DEF RequestsAreAsked
  <2>2. Rules /\ StillAsChecked(r) /\ joined' = joined
    BY <1>1, <2>1 DEF AdminStep, RulesHoldAlone, Alone
  <2>3. \A i \in Invites : invites'[i].uses <= invites'[i].max
    <3>1. ASSUME NEW i \in Invites PROVE invites'[i].uses <= invites'[i].max
      <4>1. CASE invites'[i].uses = invites[i].uses /\ invites'[i].max = invites[i].max
        BY <2>2, <4>1
      <4>2. CASE invites'[i].uses = 0 /\ invites'[i].max = MaxUses
        BY <4>2, Bounds
      <4> QED
        BY <2>1, <4>1, <4>2 DEF AdminStep
    <3> QED
      BY <3>1
  <2>4. texts' > 0
    <3>1. CASE AddText(r) \/ DropText(r)
      <4>1. texts \in Nat /\ texts > 0
        BY <2>2, Bounds DEF TypeOK
      <4>2. texts' = texts + 1 \/ (texts' = texts - 1 /\ texts > 1)
        BY <2>2, <3>1 DEF AddText, DropText, Writes, StillAsChecked
      <4> QED
        BY <4>1, <4>2
    <3>2. CASE ~(AddText(r) \/ DropText(r))
      <4>1. texts' = texts
        BY <1>6, <3>2 DEF AdminSteps, MakeInvite, RevokeInvite, SetRole, Kick, Ban, EndSessions, Unban,
                          DeleteAccount, Fails, tables
      <4> QED
        BY <2>2, <4>1
    <3> QED
      BY <3>1, <3>2
  <2>5. Admins # {} => Admins' # {}
    <3>1. CASE SetRole(r)
      <4>1. CASE r.op = "promote"
        <5>1. \A u \in Users : role[u] = "admin" => role'[u] = "admin"
          BY <3>1, <4>1 DEF SetRole, TypeOK
        <5> QED
          BY <5>1 DEF Admins
      <4>2. CASE r.op = "demote"
        <5>1. \A u \in Users : u # r.on => role'[u] = role[u]
          BY <3>1 DEF SetRole, TypeOK
        <5>2. Admins \ {r.on} # {}
          BY <2>2, <4>2 DEF StillAsChecked
        <5> QED
          BY <5>1, <5>2 DEF Admins
      <4> QED
        BY <3>1, <4>1, <4>2 DEF SetRole, Writes
    <3>2. CASE Kick(r) \/ Ban(r)
      <4>1. role[r.on] = "member"
        BY <2>2, <3>2 DEF Kick, Ban, Writes, StillAsChecked
      <4>2. \A u \in Users : role[u] = "admin" => role'[u] = "admin"
        BY <3>2, <4>1 DEF Kick, Ban, TypeOK
      <4> QED
        BY <4>2 DEF Admins
    <3>3. CASE DeleteAccount(r)
      <4>1. \A u \in Users : u # r.on => role'[u] = role[u]
        BY <3>3 DEF DeleteAccount, TypeOK
      <4>2. Admins \ {r.on} # {}
        BY <2>2, <3>3 DEF DeleteAccount, Writes, StillAsChecked
      <4> QED
        BY <4>1, <4>2 DEF Admins
    <3>4. CASE ~(SetRole(r) \/ Kick(r) \/ Ban(r) \/ DeleteAccount(r))
      <4>1. role' = role
        BY <1>6, <3>4 DEF AdminSteps, MakeInvite, RevokeInvite, EndSessions, Unban, AddText, DropText,
                          Fails, tables
      <4> QED
        BY <4>1 DEF Admins
    <3> QED
      BY <3>1, <3>2, <3>3, <3>4
  <2> QED
    BY <2>2, <2>3, <2>4, <2>5
<1> QED
  BY <1>1, <1>2, <1>3, <1>4, <1>5, <1>6, Kinds

-----------------------------------------------------------------------------
(* The theorems.                                                            *)

LEMMA MembersInit == Init => MembersInv
<1> SUFFICES ASSUME Init PROVE MembersInv
  OBVIOUS
<1>1. /\ IsFiniteSet(requests) /\ Cardinality(requests) = 0 /\ requests = {}
      /\ \A i \in Invites : joined[i] = {} /\ IsFiniteSet(joined[i]) /\ Cardinality(joined[i]) = 0
  BY FS_EmptySet DEF Init
<1>2. TypeOK
  <2>1. \A i \in Invites :
          [is |-> IF i = First THEN "open" ELSE "unmade", uses |-> 0, max |-> MaxUses, by |-> System]
            \in InviteRow
    BY Bounds DEF InviteRow
  <2>2. invites \in [Invites -> InviteRow]
    BY <2>1 DEF Init
  <2>3. texts \in 0..MaxTexts /\ budget \in [asks : 0..MaxAsked, visits : 0..MaxVisits]
    BY Bounds DEF Init
  <2> QED
    BY <2>2, <2>3 DEF Init, TypeOK
<1>3. RequestsAreAsked
  BY <1>1, Bounds DEF RequestsAreAsked
<1>4. PlacesHaveAccounts /\ JoinsOnce /\ ListsAreFinite /\ BanSticks /\ Alone
  BY <1>1 DEF Init, PlacesHaveAccounts, IsBanned, JoinsOnce, ListsAreFinite, BanSticks, Alone
<1>5. \A i \in Invites : invites[i].uses = 0 /\ invites[i].max = MaxUses
  BY DEF Init
<1>6. MaxUses \in Nat /\ MaxUses > 0 /\ MaxInFlight \in Nat
  BY Bounds
<1>7. InvitesAreCounted
  <2>1. ASSUME NEW i \in Invites PROVE Counted(i)
    <3>1. Pending(i) = {} /\ Cardinality(Pending(i)) = 0
      BY <1>1, FS_EmptySet DEF Pending
    <3>2. \A m, k \in Nat : m > 0 => 0 + 0 <= m + k - 1
      OBVIOUS
    <3>3. 0 + 0 <= MaxUses + MaxInFlight - 1
      BY <1>6, <3>2, Zenon
    <3> QED
      BY <1>1, <1>5, <3>1, <3>3 DEF Counted
  <2> QED
    BY <2>1, CountedEach
<1>8. RulesHoldAlone
  <2>1. texts > 0
    BY DEF Init
  <2> QED
    BY <1>1, <1>5, <1>6, <2>1 DEF RulesHoldAlone
<1> QED
  BY <1>2, <1>3, <1>4, <1>7, <1>8 DEF MembersInv

LEMMA MembersNext == MembersInv /\ [Next]_membershipVars => MembersInv'
BY MembershipTypes, RequestsKept, PlacesKept, JoinsKept, ListsKept, CountsKept, BansKept, AloneKept, RulesKept
   DEF MembersInv

LEMMA MembersAlways == Spec => []MembersInv
BY MembersInit, MembersNext, PTL DEF Spec

\* Whatever sign-ups, invites, moderation and sign-ins overlap and wherever the
\* process dies, a ban takes the place for good, and nobody banned is signed in
\* whom the ban was to sign out (ModerationController.ban, and the sign-up hook
\* of createAuth that could have made them a member again).
THEOREM BansAlwaysStick == Spec => []BanSticks
BY MembersAlways, PTL DEF MembersInv

\* Uses are counted one for one, an invite is overrun by fewer people than there
\* were requests at once, and the rules behind the checks hold for requests that
\* do not overlap: there is an admin, a text channel, and no invite is used too
\* often (assertUsableInvite and the hooks of createAuth, updateUser,
\* assertCanModerate, ChannelsService.remove).
THEOREM MembershipAlwaysHolds == Spec => []MembershipHolds
<1>1. MembersInv => MembershipHolds
  BY DEF MembersInv, MembershipHolds
<1> QED
  BY <1>1, MembersAlways, PTL

------------------------------------------------------------------------------
(***************************************************************************)
(* Direct messages and groups.  The invariant the proofs use.               *)
(***************************************************************************)

\* A thread of two is theirs for good, and there is no second one.
ThreadsAreTheirs ==
  /\ \A c \in Chats : chats[c].is = "direct" => people[c] = chats[c].key /\ Cardinality(people[c]) <= 2
  /\ \A c, d \in Chats :
       chats[c].is = "direct" /\ chats[d].is = "direct" /\ chats[c].key = chats[d].key => c = d
  /\ \A c \in Chats : chats[c].is \in {"unmade", "gone"} => people[c] = {}

IsTheThread(c, p, who) == c \in Chats /\ chats[c].is = "direct" /\ chats[c].key = {p} \cup who

\* A request is about a thread of its kind, which may have gone meanwhile.
AboutAThread(r) ==
  /\ r.op = "open" =>
       /\ r.at \in {"checked", "sought", "found"} /\ Cardinality({r.by} \cup r.who) <= 2
       /\ r.at = "found" => IsTheThread(r.chat, r.by, r.who)
  /\ r.op = "group" => Cardinality(r.who) + 1 <= MaxGroup
  /\ r.op \in {"add", "leave"} => r.chat \in Chats /\ chats[r.chat].is \in {"group", "gone"}
  /\ r.op \in {"hide", "send"} => r.chat \in Chats

CallsAreAboutThreads == \A r \in calls : AboutAThread(r)
AnswersAreThreads == \A a \in answers : IsTheThread(a.chat, a.by, a.with)

\* What a request has checked is still so.
StillSo(r) ==
  /\ r.op = "add" => Cardinality(people[r.chat] \cup r.who) <= MaxGroup
  /\ r.op = "leave" /\ r.at = "checked" => r.saw = people[r.chat]

\* While one request is handled at a time, groups are neither too large nor,
\* unless the last one is just leaving, empty.
EmptyIsLeft(c) ==
  chats[c].is = "group" /\ people[c] = {} =>
    \E r \in calls : r.op = "leave" /\ r.at = "left" /\ r.chat = c

OneAtATime ==
  /\ \A r, s \in calls : r = s
  /\ \A c \in Chats : Cardinality(people[c]) <= MaxGroup /\ EmptyIsLeft(c)
  /\ \A r \in calls : StillSo(r)

ConvInv ==
  /\ ConvTypeOK /\ ThreadsAreTheirs /\ CallsAreAboutThreads /\ AnswersAreThreads /\ missed = {}
  /\ ~crossed => OneAtATime

-----------------------------------------------------------------------------

LEMMA Companies ==
  /\ \A S \in SUBSET People :
       IsFiniteSet(S) /\ Cardinality(S) \in Nat /\ (Cardinality(S) = 0 <=> S = {})
  /\ \A S \in SUBSET People, p \in People : Cardinality({p} \cup S) <= Cardinality(S) + 1
  /\ \A p, q \in People : Cardinality({p} \cup {q}) <= 2
  /\ Cardinality({}) = 0
<1>1. \A S \in SUBSET People :
        IsFiniteSet(S) /\ Cardinality(S) \in Nat /\ (Cardinality(S) = 0 <=> S = {})
  BY ConversationsAssumption, FS_Subset, FS_CardinalityType, FS_EmptySet
<1>2. \A S \in SUBSET People, p \in People : Cardinality({p} \cup S) <= Cardinality(S) + 1
  <2> TAKE S \in SUBSET People, p \in People
  <2>1. Cardinality(S \cup {p}) = IF p \in S THEN Cardinality(S) ELSE Cardinality(S) + 1
    BY <1>1, FS_AddElement
  <2>2. S \cup {p} = {p} \cup S OBVIOUS
  <2> QED BY <1>1, <2>1, <2>2
<1>3. \A p, q \in People : Cardinality({p} \cup {q}) <= 2
  <2> TAKE p, q \in People
  <2>1. {q} \in SUBSET People /\ Cardinality({q}) = 1 BY FS_Singleton
  <2>2. Cardinality({p} \cup {q}) <= Cardinality({q}) + 1 BY <1>2, <2>1
  <2>3. {p} \cup {q} \in SUBSET People OBVIOUS
  <2> QED BY <1>1, <2>1, <2>2, <2>3
<1> QED BY <1>1, <1>2, <1>3, FS_EmptySet

\* No step unmakes a thread or makes one of another kind of it.
KeepsThreads ==
  \A c \in Chats :
    /\ chats[c].is = "direct" => chats'[c] = chats[c]
    /\ chats[c].is \in {"group", "gone"} => chats'[c].is \in {"group", "gone"}

LEMMA StillAbout ==
  ASSUME KeepsThreads, NEW r, AboutAThread(r)
  PROVE  AboutAThread(r)'
BY DEF KeepsThreads, AboutAThread, IsTheThread

LEMMA AnswersStay ==
  ASSUME KeepsThreads, AnswersAreThreads, answers' = answers
  PROVE  AnswersAreThreads'
BY DEF KeepsThreads, AnswersAreThreads, IsTheThread

LEMMA CallRow ==
  ASSUME ConvTypeOK, NEW r \in calls
  PROVE  /\ r \in Call /\ r.by \in People /\ r.who \in SUBSET People /\ r.saw \in SUBSET People
         /\ r.chat \in Chats \cup {Nobody}
BY DEF ConvTypeOK, Call

LEMMA CallGoesOn ==
  ASSUME NEW r \in Call, NEW at \in {"sought", "found", "left"}, NEW s,
         s = [r EXCEPT !.at = at]
  PROVE  /\ s \in Call /\ s.op = r.op /\ s.by = r.by /\ s.who = r.who /\ s.chat = r.chat
         /\ s.saw = r.saw /\ s.at = at
BY DEF Call

LEMMA ConvInitSound == ConvInit => ConvInv
<1> SUFFICES ASSUME ConvInit PROVE ConvInv OBVIOUS
<1> DEFINE old == CHOOSE c \in Chats : TRUE
<1>1. PICK who \in SUBSET People :
        /\ Cardinality(who) < MaxGroup
        /\ chats = [c \in Chats |->
             [is |-> IF c = old /\ who # {} THEN "group" ELSE "unmade", key |-> {}]]
        /\ people = [c \in Chats |-> IF c = old THEN who ELSE {}]
  BY DEF ConvInit
<1> HIDE DEF old
<1>2. /\ guild = People /\ hidden = [c \in Chats |-> {}]
      /\ calls = {} /\ answers = {} /\ missed = {} /\ crossed = FALSE
      /\ spare = [calls |-> MaxCalls, moved |-> MaxMoved]
  BY DEF ConvInit
<1>3. ConvTypeOK
  <2>1. chats \in [Chats -> ChatRow] BY <1>1 DEF ChatRow
  <2>2. people \in [Chats -> SUBSET People] /\ hidden \in [Chats -> SUBSET People] BY <1>1, <1>2
  <2>3. spare \in [calls : 0..MaxCalls, moved : 0..MaxMoved] BY <1>2, ConversationsAssumption
  <2> QED BY <1>2, <2>1, <2>2, <2>3 DEF ConvTypeOK
<1>4. \A c \in Chats :
        /\ chats[c].is \in {"group", "unmade"} /\ people[c] \in {who, {}}
        /\ chats[c].is = "group" <=> people[c] # {}
  BY <1>1
<1>5. ThreadsAreTheirs BY <1>4 DEF ThreadsAreTheirs
<1>6. CallsAreAboutThreads /\ AnswersAreThreads
  BY <1>2 DEF CallsAreAboutThreads, AnswersAreThreads
<1>7. OneAtATime
  <2>1. \A c \in Chats : Cardinality(people[c]) <= MaxGroup
    BY <1>1, <1>4, Companies, ConversationsAssumption
  <2> QED BY <1>2, <1>4, <2>1 DEF OneAtATime, EmptyIsLeft
<1> QED BY <1>2, <1>3, <1>5, <1>6, <1>7 DEF ConvInv

-----------------------------------------------------------------------------
(* Requests and their checks.                                               *)

LEMMA AskedSound ==
  ASSUME ConvInv, NEW op, NEW p, NEW who, NEW c, NEW saw, Calls(op, p, who, c, saw),
         NEW r, r = [op |-> op, by |-> p, who |-> who, chat |-> c, saw |-> saw, at |-> "checked"],
         r \in Call, AboutAThread(r), StillSo(r)
  PROVE  ConvInv'
<1>1. /\ calls' = calls \cup {r} /\ crossed' = (crossed \/ calls # {})
      /\ spare.calls > 0 /\ spare' = [spare EXCEPT !.calls = @ - 1]
      /\ UNCHANGED <<guild, chats, people, hidden, answers, missed>>
  BY DEF Calls, convTables
<1>2. ConvTypeOK'
  <2>1. spare' \in [calls : 0..MaxCalls, moved : 0..MaxMoved]
    BY <1>1, ConversationsAssumption DEF ConvInv, ConvTypeOK
  <2>2. crossed' \in BOOLEAN BY <1>1 DEF ConvInv, ConvTypeOK
  <2> QED BY <1>1, <2>1, <2>2 DEF ConvInv, ConvTypeOK
<1>3. ThreadsAreTheirs' BY <1>1 DEF ConvInv, ThreadsAreTheirs
<1>4. KeepsThreads BY <1>1 DEF KeepsThreads
<1>5. CallsAreAboutThreads' BY <1>1, <1>4, StillAbout DEF ConvInv, CallsAreAboutThreads
<1>6. AnswersAreThreads' BY <1>1, <1>4, AnswersStay DEF ConvInv
<1>7. ASSUME ~crossed' PROVE OneAtATime'
  <2>1. calls = {} /\ calls' = {r} /\ OneAtATime BY <1>1, <1>7 DEF ConvInv
  <2>2. StillSo(r)' BY <1>1 DEF StillSo
  <2>3. \A d \in Chats : EmptyIsLeft(d)'
    BY <1>1, <2>1 DEF OneAtATime, EmptyIsLeft
  <2> QED BY <1>1, <2>1, <2>2, <2>3 DEF OneAtATime
<1> QED BY <1>1, <1>2, <1>3, <1>5, <1>6, <1>7 DEF ConvInv

LEMMA AskingSound ==
  ASSUME ConvInv,
         \/ \E p, q \in People : Open(p, q)
         \/ \E p \in People, who \in SUBSET People : OpenGroup(p, who)
         \/ \E p \in People, c \in Chats, who \in SUBSET People : AddMembers(p, c, who)
         \/ \E p \in People, c \in Chats : LeaveGroup(p, c) \/ Hide(p, c) \/ Send(p, c)
  PROVE  ConvInv'
<1>1. ASSUME NEW p \in People, NEW q \in People, Open(p, q) PROVE ConvInv'
  <2>1. Calls("open", p, {q}, Nobody, {}) BY <1>1 DEF Open
  <2>2. PICK r : r = [op |-> "open", by |-> p, who |-> {q}, chat |-> Nobody, saw |-> {}, at |-> "checked"]
    OBVIOUS
  <2>3. r \in Call BY <2>2 DEF Call
  <2>4. AboutAThread(r) /\ StillSo(r) BY <2>2, Companies DEF AboutAThread, StillSo
  <2> QED BY <2>1, <2>2, <2>3, <2>4, AskedSound
<1>2. ASSUME NEW p \in People, NEW who \in SUBSET People, OpenGroup(p, who) PROVE ConvInv'
  <2>1. Calls("group", p, who, Nobody, {}) /\ Cardinality(who) + 1 <= MaxGroup BY <1>2 DEF OpenGroup
  <2>2. PICK r : r = [op |-> "group", by |-> p, who |-> who, chat |-> Nobody, saw |-> {}, at |-> "checked"]
    OBVIOUS
  <2>3. r \in Call BY <2>2 DEF Call
  <2>4. AboutAThread(r) /\ StillSo(r) BY <2>1, <2>2 DEF AboutAThread, StillSo
  <2> QED BY <2>1, <2>2, <2>3, <2>4, AskedSound
<1>3. ASSUME NEW p \in People, NEW c \in Chats, NEW who \in SUBSET People, AddMembers(p, c, who)
      PROVE  ConvInv'
  <2>1. /\ Calls("add", p, who, c, people[c]) /\ chats[c].is = "group"
        /\ Cardinality(people[c] \cup who) <= MaxGroup
    BY <1>3 DEF AddMembers, InGroup
  <2>2. PICK r : r = [op |-> "add", by |-> p, who |-> who, chat |-> c, saw |-> people[c], at |-> "checked"]
    OBVIOUS
  <2>3. r \in Call BY <2>2 DEF Call, ConvInv, ConvTypeOK
  <2>4. AboutAThread(r) /\ StillSo(r) BY <2>1, <2>2 DEF AboutAThread, StillSo
  <2> QED BY <2>1, <2>2, <2>3, <2>4, AskedSound
<1>4. ASSUME NEW p \in People, NEW c \in Chats, LeaveGroup(p, c) PROVE ConvInv'
  <2>1. Calls("leave", p, {}, c, people[c]) /\ chats[c].is = "group"
    BY <1>4 DEF LeaveGroup, InGroup
  <2>2. PICK r : r = [op |-> "leave", by |-> p, who |-> {}, chat |-> c, saw |-> people[c], at |-> "checked"]
    OBVIOUS
  <2>3. r \in Call BY <2>2 DEF Call, ConvInv, ConvTypeOK
  <2>4. AboutAThread(r) /\ StillSo(r) BY <2>1, <2>2 DEF AboutAThread, StillSo
  <2> QED BY <2>1, <2>2, <2>3, <2>4, AskedSound
<1>5. ASSUME NEW p \in People, NEW c \in Chats, Hide(p, c) PROVE ConvInv'
  <2>1. Calls("hide", p, {}, c, {}) BY <1>5 DEF Hide
  <2>2. PICK r : r = [op |-> "hide", by |-> p, who |-> {}, chat |-> c, saw |-> {}, at |-> "checked"]
    OBVIOUS
  <2>3. r \in Call BY <2>2 DEF Call
  <2>4. AboutAThread(r) /\ StillSo(r) BY <2>2 DEF AboutAThread, StillSo
  <2> QED BY <2>1, <2>2, <2>3, <2>4, AskedSound
<1>6. ASSUME NEW p \in People, NEW c \in Chats, Send(p, c) PROVE ConvInv'
  <2>1. Calls("send", p, {}, c, people[c]) BY <1>6 DEF Send
  <2>2. PICK r : r = [op |-> "send", by |-> p, who |-> {}, chat |-> c, saw |-> people[c], at |-> "checked"]
    OBVIOUS
  <2>3. r \in Call BY <2>2 DEF Call, ConvInv, ConvTypeOK
  <2>4. AboutAThread(r) /\ StillSo(r) BY <2>2 DEF AboutAThread, StillSo
  <2> QED BY <2>1, <2>2, <2>3, <2>4, AskedSound
<1> QED BY <1>1, <1>2, <1>3, <1>4, <1>5, <1>6

-----------------------------------------------------------------------------
(* What requests write.                                                     *)

\* A request that is over, or goes on as s, and has touched no thread.
LEMMA ProceedsSound ==
  ASSUME ConvInv, NEW r \in calls, ~(r.op = "leave" /\ r.at = "left"),
         NEW goesOn, goesOn \subseteq Call,
         \A s \in goesOn : AboutAThread(s) /\ s.op \notin {"add", "leave"},
         \A s, t \in goesOn : s = t,
         calls' = (calls \ {r}) \cup goesOn,
         UNCHANGED <<guild, chats, people, crossed, spare>>, missed' = {},
         hidden' \in [Chats -> SUBSET People],
         answers' \subseteq [by : People, with : SUBSET People, chat : Chats],
         AnswersAreThreads'
  PROVE  ConvInv'
<1>1. ConvTypeOK' BY DEF ConvInv, ConvTypeOK
<1>2. ThreadsAreTheirs' BY DEF ConvInv, ThreadsAreTheirs
<1>3. KeepsThreads BY DEF KeepsThreads
<1>4. CallsAreAboutThreads'
  <2>1. \A s \in calls' : AboutAThread(s) BY DEF ConvInv, CallsAreAboutThreads
  <2> QED BY <1>3, <2>1, StillAbout DEF CallsAreAboutThreads
<1>5. ASSUME ~crossed' PROVE OneAtATime'
  <2>1. OneAtATime BY <1>5 DEF ConvInv
  <2>2. calls' = goesOn BY <2>1 DEF OneAtATime
  <2>3. \A c \in Chats : EmptyIsLeft(c)'
    BY <2>1 DEF OneAtATime, EmptyIsLeft
  <2>4. \A s \in calls' : StillSo(s)' BY <2>2 DEF StillSo
  <2> QED BY <2>1, <2>2, <2>3, <2>4 DEF OneAtATime
<1> QED BY <1>1, <1>2, <1>4, <1>5 DEF ConvInv

LEMMA FoundSound ==
  ASSUME ConvInv, NEW r \in calls, NEW c \in DirectOf({r.by} \cup r.who),
         r.op = "open",
         Continues(r, [r EXCEPT !.at = "found", !.chat = c]),
         UNCHANGED <<guild, chats, people, hidden, answers, missed, crossed, spare>>
  PROVE  ConvInv'
<1>1. /\ ConvTypeOK /\ AboutAThread(r) /\ r \in Call /\ missed' = {}
      /\ hidden' \in [Chats -> SUBSET People]
      /\ answers' \subseteq [by : People, with : SUBSET People, chat : Chats]
  BY DEF ConvInv, CallsAreAboutThreads, ConvTypeOK
<1>2. PICK s : s = [r EXCEPT !.at = "found", !.chat = c] OBVIOUS
<1>3. IsTheThread(c, r.by, r.who) /\ c \in Chats BY DEF DirectOf, IsTheThread
<1>4. s \in Call /\ s.op = "open" /\ s.at = "found" /\ s.by = r.by /\ s.who = r.who /\ s.chat = c
  <2>1. r \in Call /\ c \in Chats BY <1>1, <1>3
  <2>2. s \in Call /\ s.op = r.op /\ s.by = r.by /\ s.who = r.who /\ s.chat = c /\ s.at = "found"
    BY ONLY <1>2, <2>1 DEF Call
  <2> QED BY <2>2
<1>5. AboutAThread(s) BY <1>1, <1>3, <1>4 DEF AboutAThread
<1>6. PICK goesOn : goesOn = {s} OBVIOUS
<1>7. calls' = (calls \ {r}) \cup goesOn BY <1>2, <1>6 DEF Continues
<1>8. AnswersAreThreads'
  <2>1. KeepsThreads BY DEF KeepsThreads
  <2> QED BY <2>1, AnswersStay DEF ConvInv
<1> QED BY <1>1, <1>4, <1>5, <1>6, <1>7, <1>8, ProceedsSound

LEMMA SeekSound ==
  ASSUME ConvInv, NEW r \in calls, Seek(r)
  PROVE  ConvInv'
<1>1. /\ r.op = "open" /\ UNCHANGED <<guild, chats, people, hidden, answers, missed, crossed, spare>>
  BY DEF Seek, convTables
<1>2. CASE DirectOf({r.by} \cup r.who) # {}
  <2>1. PICK c \in DirectOf({r.by} \cup r.who) : Continues(r, [r EXCEPT !.at = "found", !.chat = c])
    BY <1>2 DEF Seek
  <2> QED BY <1>1, <2>1, FoundSound
<1>3. CASE DirectOf({r.by} \cup r.who) = {}
  <2>1. /\ ConvTypeOK /\ AboutAThread(r) /\ r \in Call /\ missed' = {} /\ r.at = "checked"
        /\ hidden' \in [Chats -> SUBSET People]
        /\ answers' \subseteq [by : People, with : SUBSET People, chat : Chats]
    BY <1>1 DEF ConvInv, CallsAreAboutThreads, ConvTypeOK, Seek
  <2>2. PICK s : s = [r EXCEPT !.at = "sought"] OBVIOUS
  <2>3. s \in Call /\ s.op = "open" /\ s.at = "sought" /\ s.by = r.by /\ s.who = r.who
    BY <1>1, <2>1, <2>2, CallGoesOn
  <2>4. AboutAThread(s) BY <1>1, <2>1, <2>3 DEF AboutAThread
  <2>5. PICK goesOn : goesOn = {s} OBVIOUS
  <2>6. calls' = (calls \ {r}) \cup goesOn BY <1>3, <2>2, <2>5 DEF Continues, Seek
  <2>7. AnswersAreThreads'
    <3>1. KeepsThreads BY <1>1 DEF KeepsThreads
    <3> QED BY <1>1, <3>1, AnswersStay DEF ConvInv
  <2> QED BY <1>1, <2>1, <2>3, <2>4, <2>5, <2>6, <2>7, ProceedsSound
<1> QED BY <1>2, <1>3

LEMMA ShowDirectSound ==
  ASSUME ConvInv, NEW r \in calls, ShowDirect(r)
  PROVE  ConvInv'
<1>1. ConvTypeOK /\ AboutAThread(r) /\ AnswersAreThreads /\ missed = {}
  BY DEF ConvInv, CallsAreAboutThreads
<1>2. /\ r.op = "open" /\ r.at = "found" /\ hidden' = [hidden EXCEPT ![r.chat] = @ \ {r.by}]
      /\ missed' = {} /\ calls' = calls \ {r}
      /\ answers' = answers \cup {[by |-> r.by, with |-> r.who, chat |-> r.chat]}
      /\ UNCHANGED <<guild, chats, people, crossed, spare>>
  BY <1>1 DEF ShowDirect, Over
<1>3. IsTheThread(r.chat, r.by, r.who) BY <1>1, <1>2 DEF AboutAThread
<1>4. /\ hidden' \in [Chats -> SUBSET People]
      /\ answers' \subseteq [by : People, with : SUBSET People, chat : Chats]
  <2>1. r.by \in People /\ r.who \in SUBSET People /\ r.chat \in Chats
    BY <1>1, <1>3, CallRow DEF IsTheThread
  <2>2. hidden \in [Chats -> SUBSET People]
        /\ answers \subseteq [by : People, with : SUBSET People, chat : Chats]
    BY <1>1 DEF ConvTypeOK
  <2> QED BY <1>2, <2>1, <2>2
<1>5. AnswersAreThreads' BY <1>1, <1>2, <1>3 DEF AnswersAreThreads, IsTheThread
<1>6. calls' = (calls \ {r}) \cup {} BY <1>2
<1> QED BY <1>2, <1>4, <1>5, <1>6, ProceedsSound

LEMMA HidingSound ==
  ASSUME ConvInv, NEW r \in calls, HideRow(r) \/ Announce(r)
  PROVE  ConvInv'
<1>1. ConvTypeOK /\ AboutAThread(r) /\ missed = {} BY DEF ConvInv, CallsAreAboutThreads
<1>2. /\ r.op \in {"hide", "send"} /\ calls' = calls \ {r}
      /\ UNCHANGED <<guild, chats, people, answers, crossed, spare>>
  BY DEF HideRow, Announce, Over
<1>3. r.chat \in Chats BY <1>1, <1>2 DEF AboutAThread
<1>4. hidden' \in [Chats -> SUBSET People]
  <2>1. r.by \in People BY <1>1, CallRow
  <2>2. hidden \in [Chats -> SUBSET People] BY <1>1 DEF ConvTypeOK
  <2>3. \A who \in SUBSET People : [hidden EXCEPT ![r.chat] = who] \in [Chats -> SUBSET People]
    BY <2>2
  <2>4. hidden[r.chat] \in SUBSET People BY <1>3, <2>2
  <2>5. CASE HideRow(r) BY <2>1, <2>3, <2>4, <2>5 DEF HideRow
  <2>6. CASE Announce(r) BY <2>3, <2>4, <2>6 DEF Announce
  <2> QED BY <2>5, <2>6
<1>5. missed' = {}
  <2>1. CASE HideRow(r) BY <1>1, <2>1 DEF HideRow
  <2>2. CASE Announce(r)
    <3>1. hidden'[r.chat] = {} BY <1>1, <1>3, <2>2 DEF Announce, Unhidden, ConvTypeOK
    <3> QED BY <1>1, <2>2, <3>1 DEF Announce
  <2> QED BY <2>1, <2>2
<1>6. AnswersAreThreads' BY <1>2, AnswersStay DEF ConvInv, KeepsThreads
<1>7. calls' = (calls \ {r}) \cup {} BY <1>2
<1> QED BY <1>1, <1>2, <1>4, <1>5, <1>6, <1>7, ProceedsSound DEF ConvTypeOK

\* A new thread, made by r, which goes on as goesOn or is over.
LEMMA MadeSound ==
  ASSUME ConvInv, NEW r \in calls, ~(r.op = "leave" /\ r.at = "left"),
         NEW c, NEW kind \in {"direct", "group"}, NEW key \in SUBSET People, NEW who \in SUBSET People,
         Made(c, kind, key, who), who # {}, Cardinality(who) <= MaxGroup,
         kind = "direct" => who = key /\ DirectOf(key) = {} /\ Cardinality(who) <= 2,
         NEW goesOn, goesOn \subseteq Call, calls' = (calls \ {r}) \cup goesOn,
         \A s \in goesOn : s.op = "open" /\ AboutAThread(s)', \A s, t \in goesOn : s = t
  PROVE  ConvInv'
<1>1. /\ c \in Chats /\ chats[c].is = "unmade"
      /\ chats' = [chats EXCEPT ![c] = [is |-> kind, key |-> key]]
      /\ people' = [people EXCEPT ![c] = who]
      /\ UNCHANGED <<guild, hidden, answers, missed, crossed, spare>>
  BY DEF Made
<1>2. chats \in [Chats -> ChatRow] /\ people \in [Chats -> SUBSET People]
  BY DEF ConvInv, ConvTypeOK
<1>3. /\ chats' \in [Chats -> ChatRow] /\ people' \in [Chats -> SUBSET People]
      /\ chats'[c].is = kind /\ chats'[c].key = key /\ people'[c] = who
      /\ \A d \in Chats : d # c => chats'[d] = chats[d] /\ people'[d] = people[d]
  BY <1>1, <1>2 DEF ChatRow
<1>4. ConvTypeOK' BY <1>1, <1>3 DEF ConvInv, ConvTypeOK
<1>5. KeepsThreads BY <1>1, <1>3 DEF KeepsThreads
<1>6. ThreadsAreTheirs'
  <2>1. ThreadsAreTheirs BY DEF ConvInv
  <2>2. \A d \in Chats :
          /\ chats'[d].is = "direct" => people'[d] = chats'[d].key /\ Cardinality(people'[d]) <= 2
          /\ chats'[d].is \in {"unmade", "gone"} => people'[d] = {}
    <3> TAKE d \in Chats
    <3>1. CASE d = c BY <1>3, <3>1
    <3>2. CASE d # c BY <1>3, <2>1, <3>2 DEF ThreadsAreTheirs
    <3> QED BY <3>1, <3>2
  <2>3. \A d \in Chats : d # c /\ chats'[d].is = "direct" /\ kind = "direct" => chats'[d].key # key
    BY <1>3 DEF DirectOf
  <2>4. \A d, e \in Chats :
          chats'[d].is = "direct" /\ chats'[e].is = "direct" /\ chats'[d].key = chats'[e].key => d = e
    BY <1>3, <2>1, <2>3 DEF ThreadsAreTheirs
  <2> QED BY <2>2, <2>4 DEF ThreadsAreTheirs
<1>7. CallsAreAboutThreads'
  <2>1. \A s \in calls : AboutAThread(s)' BY <1>5, StillAbout DEF ConvInv, CallsAreAboutThreads
  <2> QED BY <2>1 DEF CallsAreAboutThreads
<1>8. AnswersAreThreads' BY <1>1, <1>5, AnswersStay DEF ConvInv
<1>9. ASSUME ~crossed' PROVE OneAtATime'
  <2>1. OneAtATime BY <1>1, <1>9 DEF ConvInv
  <2>2. calls' = goesOn BY <2>1 DEF OneAtATime
  <2>3. \A d \in Chats : Cardinality(people'[d]) <= MaxGroup
    BY <1>3, <2>1 DEF OneAtATime
  <2>4. \A d \in Chats : ~(chats'[d].is = "group" /\ people'[d] = {})
    BY <1>3, <2>1 DEF OneAtATime, EmptyIsLeft
  <2>5. \A s \in calls' : StillSo(s)' BY <2>2 DEF StillSo
  <2> QED BY <2>2, <2>3, <2>4, <2>5 DEF OneAtATime, EmptyIsLeft
<1>10. missed' = {} BY <1>1 DEF ConvInv
<1> QED BY <1>4, <1>6, <1>7, <1>8, <1>9, <1>10 DEF ConvInv

LEMMA OpenDirectSound ==
  ASSUME ConvInv, NEW r \in calls, OpenDirect(r)
  PROVE  ConvInv'
<1>1. ConvTypeOK /\ AboutAThread(r) /\ r \in Call /\ r.by \in People /\ r.who \in SUBSET People
  BY CallRow DEF ConvInv, CallsAreAboutThreads
<1>2. PICK c \in Chats : CreateDirect(r, c) BY DEF OpenDirect
<1>3. r.op = "open" /\ r.at = "sought" BY DEF OpenDirect
<1>4. PICK key : key = {r.by} \cup r.who OBVIOUS
<1>5. key \in SUBSET People /\ key # {} /\ Cardinality(key) <= 2 /\ Cardinality(key) \in Nat
  <2>1. Cardinality(key) <= 2 BY <1>1, <1>3, <1>4 DEF AboutAThread
  <2> QED BY <1>1, <1>4, <2>1, Companies
<1>6. CASE DirectOf(key) = {}
  <2>1. Made(c, "direct", key, key) /\ Continues(r, [r EXCEPT !.at = "found", !.chat = c])
    BY <1>2, <1>4, <1>6 DEF CreateDirect, SecondThread
  <2>2. PICK s : s = [r EXCEPT !.at = "found", !.chat = c] OBVIOUS
  <2>3. s \in Call /\ s.op = r.op /\ s.by = r.by /\ s.who = r.who /\ s.chat = c /\ s.at = "found"
    BY ONLY <1>1, <2>2 DEF Call
  <2>4. chats'[c] = [is |-> "direct", key |-> key]
    BY <1>1, <2>1 DEF Made, ConvTypeOK
  <2>5. AboutAThread(s)'
    <3>1. Cardinality({s.by} \cup s.who) <= 2 BY <1>4, <1>5, <2>3
    <3>2. chats'[c].is = "direct" /\ chats'[c].key = {s.by} \cup s.who BY <1>4, <2>3, <2>4
    <3> QED BY <1>3, <2>3, <3>1, <3>2 DEF AboutAThread, IsTheThread
  <2>6. PICK goesOn : goesOn = {s} OBVIOUS
  <2>7. calls' = (calls \ {r}) \cup goesOn BY <2>1, <2>2, <2>6 DEF Continues
  <2>8. goesOn \subseteq Call /\ (\A t \in goesOn : t.op = "open" /\ AboutAThread(t)')
        /\ (\A t, u \in goesOn : t = u)
    BY <1>3, <2>3, <2>5, <2>6
  <2>9. Cardinality(key) <= MaxGroup BY <1>5, ConversationsAssumption
  <2> QED BY <1>3, <1>5, <1>6, <2>1, <2>7, <2>8, <2>9, MadeSound
<1>7. CASE DirectOf(key) # {}
  <2>1. /\ c \in DirectOf(key) /\ Continues(r, [r EXCEPT !.at = "found", !.chat = c])
        /\ UNCHANGED <<guild, chats, people, hidden, answers, missed, crossed, spare>>
    BY <1>2, <1>4, <1>7 DEF CreateDirect, convTables
  <2> QED BY <1>3, <1>4, <2>1, FoundSound
<1> QED BY <1>6, <1>7

LEMMA CreateGroupSound ==
  ASSUME ConvInv, NEW r \in calls, CreateGroup(r)
  PROVE  ConvInv'
<1>1. ConvTypeOK /\ AboutAThread(r) /\ r \in Call /\ r.by \in People /\ r.who \in SUBSET People
  BY CallRow DEF ConvInv, CallsAreAboutThreads
<1>2. PICK c \in Chats : Made(c, "group", {}, {r.by} \cup r.who) BY DEF CreateGroup
<1>3. r.op = "group" /\ calls' = calls \ {r} BY DEF CreateGroup, Over
<1>4. PICK who : who = {r.by} \cup r.who OBVIOUS
<1>5. who \in SUBSET People /\ who # {} BY <1>1, <1>4
<1>6. Cardinality(who) <= MaxGroup
  <2>1. Cardinality(r.who) + 1 <= MaxGroup BY <1>1, <1>3 DEF AboutAThread
  <2>2. Cardinality(who) <= Cardinality(r.who) + 1 BY <1>1, <1>4, Companies
  <2>3. Cardinality(who) \in Nat /\ Cardinality(r.who) \in Nat BY <1>1, <1>5, Companies
  <2> QED BY <2>1, <2>2, <2>3, ConversationsAssumption
<1>7. calls' = (calls \ {r}) \cup {} /\ {} \in SUBSET People BY <1>3
<1> QED BY <1>2, <1>3, <1>4, <1>5, <1>6, <1>7, MadeSound

\* The people of one group change, or the group goes: what every thread keeps.
LEMMA GroupStepKeeps ==
  ASSUME ConvInv, NEW g \in Chats, chats[g].is \in {"group", "gone"},
         NEW who \in SUBSET People, NEW left \in BOOLEAN,
         people' = [people EXCEPT ![g] = who],
         chats' = IF left THEN [chats EXCEPT ![g].is = "gone"] ELSE chats,
         left \/ chats[g].is = "gone" => who = {},
         answers' = answers
  PROVE  /\ chats' \in [Chats -> ChatRow] /\ people' \in [Chats -> SUBSET People]
         /\ people'[g] = who /\ chats'[g].is = IF left THEN "gone" ELSE chats[g].is
         /\ \A d \in Chats : d # g => chats'[d] = chats[d] /\ people'[d] = people[d]
         /\ ThreadsAreTheirs' /\ KeepsThreads /\ AnswersAreThreads'
<1>1. chats \in [Chats -> ChatRow] /\ people \in [Chats -> SUBSET People]
  BY DEF ConvInv, ConvTypeOK
<1>2. people' \in [Chats -> SUBSET People] /\ people'[g] = who
      /\ \A d \in Chats : d # g => people'[d] = people[d]
  BY <1>1
<1>3. chats' \in [Chats -> ChatRow] /\ (chats'[g].is = IF left THEN "gone" ELSE chats[g].is)
      /\ \A d \in Chats : d # g => chats'[d] = chats[d]
  <2>1. CASE left
    <3>1. chats[g] \in ChatRow BY <1>1
    <3>2. PICK row : row = [chats[g] EXCEPT !.is = "gone"] OBVIOUS
    <3>3. row \in ChatRow /\ row.is = "gone" BY <3>1, <3>2 DEF ChatRow
    <3>4. chats' = [chats EXCEPT ![g] = row] BY <2>1, <3>2
    <3> QED BY <1>1, <2>1, <3>3, <3>4
  <2>2. CASE ~left BY <1>1, <2>2
  <2> QED BY <2>1, <2>2
<1>4. KeepsThreads BY <1>3 DEF KeepsThreads
<1>5. AnswersAreThreads' BY <1>4, AnswersStay DEF ConvInv
<1>6. ThreadsAreTheirs'
  <2>1. ThreadsAreTheirs /\ chats'[g].is \in {"group", "gone"} BY <1>3 DEF ConvInv
  <2>2. chats'[g].is = "gone" => people'[g] = {} BY <1>2, <1>3
  <2>3. \A d \in Chats :
          /\ chats'[d].is = "direct" => people'[d] = chats'[d].key /\ Cardinality(people'[d]) <= 2
          /\ chats'[d].is \in {"unmade", "gone"} => people'[d] = {}
    <3> TAKE d \in Chats
    <3>1. CASE d = g BY <2>1, <2>2, <3>1
    <3>2. CASE d # g BY <1>2, <1>3, <2>1, <3>2 DEF ThreadsAreTheirs
    <3> QED BY <3>1, <3>2
  <2>4. \A d, e \in Chats :
          chats'[d].is = "direct" /\ chats'[e].is = "direct" /\ chats'[d].key = chats'[e].key => d = e
    BY <1>3, <2>1 DEF ThreadsAreTheirs
  <2> QED BY <2>3, <2>4 DEF ThreadsAreTheirs
<1> QED BY <1>2, <1>3, <1>4, <1>5, <1>6

LEMMA AddRowsSound ==
  ASSUME ConvInv, NEW r \in calls, AddRows(r)
  PROVE  ConvInv'
<1>1. /\ ConvTypeOK /\ AboutAThread(r) /\ r.who \in SUBSET People
      /\ chats \in [Chats -> ChatRow] /\ people \in [Chats -> SUBSET People]
  BY CallRow DEF ConvInv, CallsAreAboutThreads, ConvTypeOK
<1>2. PICK g : g = r.chat OBVIOUS
<1>3. /\ r.op = "add" /\ calls' = calls \ {r}
      /\ people' = IF Stands(g) THEN [people EXCEPT ![g] = @ \cup r.who] ELSE people
      /\ UNCHANGED <<guild, chats, hidden, answers, missed, crossed, spare>>
  BY <1>2 DEF AddRows, Over
<1>4. g \in Chats /\ chats[g].is \in {"group", "gone"} /\ (Stands(g) <=> chats[g].is = "group")
  BY <1>1, <1>2, <1>3 DEF AboutAThread, Stands
<1>5. PICK who : who = IF chats[g].is = "group" THEN people[g] \cup r.who ELSE {} OBVIOUS
<1>6. who \in SUBSET People BY <1>1, <1>4, <1>5
<1>7. people' = [people EXCEPT ![g] = who]
  <2>1. CASE chats[g].is = "group" BY <1>3, <1>4, <1>5, <2>1
  <2>2. CASE chats[g].is = "gone"
    <3>1. people[g] = {} BY <1>4, <2>2 DEF ConvInv, ThreadsAreTheirs
    <3> QED BY <1>1, <1>3, <1>4, <1>5, <2>2, <3>1
  <2> QED BY <1>4, <2>1, <2>2
<1>8. /\ people' \in [Chats -> SUBSET People] /\ people'[g] = who
      /\ \A d \in Chats : d # g => people'[d] = people[d]
      /\ ThreadsAreTheirs' /\ KeepsThreads /\ AnswersAreThreads'
  <2>1. PICK left \in BOOLEAN : ~left OBVIOUS
  <2>2. chats' = IF left THEN [chats EXCEPT ![g].is = "gone"] ELSE chats BY <1>3, <2>1
  <2>3. left \/ chats[g].is = "gone" => who = {} BY <1>5, <2>1
  <2> QED BY <1>3, <1>4, <1>6, <1>7, <2>1, <2>2, <2>3, GroupStepKeeps
<1>9. ConvTypeOK' BY <1>3, <1>8 DEF ConvInv, ConvTypeOK
<1>10. CallsAreAboutThreads' BY <1>3, <1>8, StillAbout DEF ConvInv, CallsAreAboutThreads
<1>11. ASSUME ~crossed' PROVE OneAtATime'
  <2>1. OneAtATime /\ calls' = {} BY <1>3, <1>11 DEF ConvInv, OneAtATime
  <2>2. \A d \in Chats : chats[d].is = "group" => people[d] # {}
    BY <1>3, <2>1 DEF OneAtATime, EmptyIsLeft
  <2>3. \A d \in Chats : EmptyIsLeft(d)'
    BY <1>3, <1>5, <1>8, <2>2 DEF EmptyIsLeft
  <2>4. Cardinality(who) <= MaxGroup
    <3>1. Cardinality(people[g] \cup r.who) <= MaxGroup BY <1>2, <1>3, <2>1 DEF OneAtATime, StillSo
    <3> QED BY <1>5, <3>1, Companies, ConversationsAssumption
  <2>5. \A d \in Chats : Cardinality(people'[d]) <= MaxGroup
    BY <1>8, <2>1, <2>4 DEF OneAtATime
  <2> QED BY <2>1, <2>3, <2>5 DEF OneAtATime
<1>12. missed' = {} BY <1>3 DEF ConvInv
<1> QED BY <1>8, <1>9, <1>10, <1>11, <1>12 DEF ConvInv

LEMMA LeaveRowSound ==
  ASSUME ConvInv, NEW r \in calls, LeaveRow(r)
  PROVE  ConvInv'
<1>1. /\ ConvTypeOK /\ AboutAThread(r) /\ r \in Call /\ r.by \in People
      /\ people \in [Chats -> SUBSET People] /\ hidden \in [Chats -> SUBSET People]
  BY CallRow DEF ConvInv, CallsAreAboutThreads, ConvTypeOK
<1>2. PICK g, s : g = r.chat /\ s = [r EXCEPT !.at = "left"] OBVIOUS
<1>3. PICK who : who = people[g] \ {r.by} OBVIOUS
<1>4. PICK goesOn : goesOn = IF Rest(r) = {} THEN {s} ELSE {} OBVIOUS
<1>5. /\ r.op = "leave" /\ r.at = "checked" /\ calls' = (calls \ {r}) \cup goesOn
      /\ people' = [people EXCEPT ![g] = who]
      /\ hidden' = [hidden EXCEPT ![g] = @ \ {r.by}]
      /\ UNCHANGED <<guild, chats, answers, missed, crossed, spare>>
  BY <1>2, <1>3, <1>4 DEF LeaveRow, Over, Continues
<1>6. g \in Chats /\ chats[g].is \in {"group", "gone"}
  BY <1>1, <1>2, <1>5 DEF AboutAThread
<1>7. s \in Call /\ s.op = "leave" /\ s.at = "left" /\ s.chat = g
  BY <1>1, <1>2, <1>5, CallGoesOn
<1>8. who \in SUBSET People /\ who \subseteq people[g] BY <1>1, <1>3, <1>6
<1>9. /\ people' \in [Chats -> SUBSET People] /\ people'[g] = who
      /\ \A d \in Chats : d # g => people'[d] = people[d]
      /\ ThreadsAreTheirs' /\ KeepsThreads /\ AnswersAreThreads'
  <2>1. PICK left \in BOOLEAN : ~left OBVIOUS
  <2>2. chats' = IF left THEN [chats EXCEPT ![g].is = "gone"] ELSE chats BY <1>5, <2>1
  <2>3. left \/ chats[g].is = "gone" => who = {}
    BY <1>6, <1>8, <2>1 DEF ConvInv, ThreadsAreTheirs
  <2> QED BY <1>5, <1>6, <1>8, <2>1, <2>2, <2>3, GroupStepKeeps
<1>10. ConvTypeOK'
  <2>1. hidden' \in [Chats -> SUBSET People] BY <1>1, <1>5, <1>6
  <2>2. calls' \subseteq Call BY <1>1, <1>4, <1>5, <1>7 DEF ConvTypeOK
  <2> QED BY <1>1, <1>5, <1>9, <2>1, <2>2 DEF ConvTypeOK
<1>11. CallsAreAboutThreads'
  <2>1. AboutAThread(s) BY <1>6, <1>7 DEF AboutAThread
  <2>2. \A t \in calls' : AboutAThread(t)
    BY <1>4, <1>5, <2>1 DEF ConvInv, CallsAreAboutThreads
  <2> QED BY <1>9, <2>2, StillAbout DEF CallsAreAboutThreads
<1>12. ASSUME ~crossed' PROVE OneAtATime'
  <2>1. OneAtATime BY <1>5, <1>12 DEF ConvInv
  <2>2. calls' = goesOn BY <1>5, <2>1 DEF OneAtATime
  <2>3. Rest(r) = who BY <1>2, <1>3, <1>5, <2>1 DEF OneAtATime, StillSo, Rest
  <2>4. \A d \in Chats : chats[d].is = "group" => people[d] # {}
    BY <1>5, <2>1 DEF OneAtATime, EmptyIsLeft
  <2>5. \A d \in Chats : EmptyIsLeft(d)'
    BY <1>4, <1>5, <1>7, <1>9, <2>2, <2>3, <2>4 DEF EmptyIsLeft
  <2>6. Cardinality(who) <= MaxGroup
    <3>1. people[g] \in SUBSET People BY <1>1, <1>6
    <3>2. IsFiniteSet(people[g]) /\ Cardinality(people[g]) \in Nat /\ Cardinality(who) \in Nat
      BY <1>8, <3>1, Companies
    <3>3. Cardinality(who) <= Cardinality(people[g]) BY <1>8, <3>2, FS_Subset
    <3>4. Cardinality(people[g]) <= MaxGroup BY <1>6, <2>1 DEF OneAtATime
    <3> QED BY <3>2, <3>3, <3>4, ConversationsAssumption
  <2>7. \A d \in Chats : Cardinality(people'[d]) <= MaxGroup
    BY <1>9, <2>1, <2>6 DEF OneAtATime
  <2>8. (\A t, u \in calls' : t = u) /\ (\A t \in calls' : StillSo(t)')
    BY <1>4, <1>7, <2>2 DEF StillSo
  <2> QED BY <2>5, <2>7, <2>8 DEF OneAtATime
<1>13. missed' = {} BY <1>5 DEF ConvInv
<1> QED BY <1>9, <1>10, <1>11, <1>12, <1>13 DEF ConvInv

LEMMA LastOneOutSound ==
  ASSUME ConvInv, NEW r \in calls, LastOneOut(r)
  PROVE  ConvInv'
<1>1. /\ ConvTypeOK /\ AboutAThread(r)
      /\ people \in [Chats -> SUBSET People] /\ hidden \in [Chats -> SUBSET People]
  BY DEF ConvInv, CallsAreAboutThreads, ConvTypeOK
<1>2. PICK g : g = r.chat OBVIOUS
<1>3. /\ r.op = "leave" /\ r.at = "left" /\ calls' = calls \ {r}
      /\ chats' = [chats EXCEPT ![g].is = "gone"]
      /\ people' = [people EXCEPT ![g] = {}] /\ hidden' = [hidden EXCEPT ![g] = {}]
      /\ UNCHANGED <<guild, answers, missed, crossed, spare>>
  BY <1>2 DEF LastOneOut, Over
<1>4. g \in Chats /\ chats[g].is \in {"group", "gone"}
  BY <1>1, <1>2, <1>3 DEF AboutAThread
<1>5. /\ chats' \in [Chats -> ChatRow] /\ people' \in [Chats -> SUBSET People]
      /\ people'[g] = {} /\ chats'[g].is = "gone"
      /\ \A d \in Chats : d # g => chats'[d] = chats[d] /\ people'[d] = people[d]
      /\ ThreadsAreTheirs' /\ KeepsThreads /\ AnswersAreThreads'
  <2>1. PICK left \in BOOLEAN : left OBVIOUS
  <2>2. PICK who \in SUBSET People : who = {} OBVIOUS
  <2>3. chats' = IF left THEN [chats EXCEPT ![g].is = "gone"] ELSE chats BY <1>3, <2>1
  <2> QED BY <1>3, <1>4, <2>1, <2>2, <2>3, GroupStepKeeps
<1>6. ConvTypeOK'
  <2>1. hidden' \in [Chats -> SUBSET People] BY <1>1, <1>3, <1>4
  <2> QED BY <1>1, <1>3, <1>5, <2>1 DEF ConvTypeOK
<1>7. CallsAreAboutThreads' BY <1>3, <1>5, StillAbout DEF ConvInv, CallsAreAboutThreads
<1>8. ASSUME ~crossed' PROVE OneAtATime'
  <2>1. OneAtATime /\ calls = {r} /\ calls' = {} BY <1>3, <1>8 DEF ConvInv, OneAtATime
  <2>2. \A d \in Chats : EmptyIsLeft(d)'
    BY <1>2, <1>5, <2>1 DEF OneAtATime, EmptyIsLeft
  <2>3. \A d \in Chats : Cardinality(people'[d]) <= MaxGroup
    BY <1>5, <2>1, Companies, ConversationsAssumption DEF OneAtATime
  <2> QED BY <2>1, <2>2, <2>3 DEF OneAtATime
<1>9. missed' = {} BY <1>3 DEF ConvInv
<1> QED BY <1>5, <1>6, <1>7, <1>8, <1>9 DEF ConvInv

LEMMA ComingAndGoingSound ==
  ASSUME ConvInv, (\E p \in People : Goes(p)) \/ Dies \/ UNCHANGED convVars
  PROVE  ConvInv'
<1>1. /\ guild' \subseteq People /\ calls' \subseteq calls /\ crossed' \in {crossed, TRUE}
      /\ spare' \in [calls : 0..MaxCalls, moved : 0..MaxMoved]
      /\ (~crossed' => ~crossed /\ calls' = calls)
      /\ UNCHANGED <<chats, people, hidden, answers, missed>>
  <2>1. guild \subseteq People /\ spare \in [calls : 0..MaxCalls, moved : 0..MaxMoved]
    BY DEF ConvInv, ConvTypeOK
  <2>2. CASE \E p \in People : Goes(p) BY <2>1, <2>2, ConversationsAssumption DEF Goes, Moved, convTables
  <2>3. CASE Dies BY <2>1, <2>3, ConversationsAssumption DEF Dies, Moved, convTables
  <2>4. CASE UNCHANGED convVars BY <2>1, <2>4 DEF convVars, convTables
  <2> QED BY <2>2, <2>3, <2>4
<1>2. ConvTypeOK' BY <1>1 DEF ConvInv, ConvTypeOK
<1>3. ThreadsAreTheirs' BY <1>1 DEF ConvInv, ThreadsAreTheirs
<1>4. KeepsThreads BY <1>1 DEF KeepsThreads
<1>5. CallsAreAboutThreads' BY <1>1, <1>4, StillAbout DEF ConvInv, CallsAreAboutThreads
<1>6. AnswersAreThreads' BY <1>1, <1>4, AnswersStay DEF ConvInv
<1>7. ~crossed' => OneAtATime' BY <1>1 DEF ConvInv, OneAtATime, EmptyIsLeft, StillSo
<1>8. missed' = {} BY <1>1 DEF ConvInv
<1> QED BY <1>2, <1>3, <1>5, <1>6, <1>7, <1>8 DEF ConvInv

\* DmsService: however their requests overlap, fail or are cut short by a
\* restart, two people have one conversation with nobody else in it and nobody
\* misses a message of one they had closed; and as long as requests come one at
\* a time no group grows beyond its limit or outlives its last member.
THEOREM ConversationsAlwaysHold == ConvSpec => []ConversationsHold
<1>1. ASSUME ConvInv, [ConvNext]_convVars PROVE ConvInv'
  <2>1. ASSUME NEW r \in calls, Steps(r) PROVE ConvInv'
    BY <1>1, <2>1, SeekSound, OpenDirectSound, ShowDirectSound, CreateGroupSound, AddRowsSound,
       LeaveRowSound, LastOneOutSound, HidingSound DEF Steps
  <2> QED BY <1>1, <2>1, AskingSound, ComingAndGoingSound DEF ConvNext
<1>2. ASSUME ConvInv PROVE ConversationsHold
  <2>1. ConvTypeOK /\ ThreadsAreTheirs /\ AnswersAreThreads /\ missed = {} BY <1>2 DEF ConvInv
  <2>2. OneConversation
    <3>1. \A a \in answers :
            a.chat \in Chats /\ chats[a.chat].is = "direct" /\ chats[a.chat].key = {a.by} \cup a.with
      BY <2>1 DEF AnswersAreThreads, IsTheThread
    <3>2. \A a \in answers : people[a.chat] = {a.by} \cup a.with
      BY <2>1, <3>1 DEF ThreadsAreTheirs
    <3>3. ASSUME NEW a \in answers, NEW b \in answers, {a.by} \cup a.with = {b.by} \cup b.with
          PROVE  a.chat = b.chat
      <4>1. chats[a.chat].key = chats[b.chat].key BY <3>1, <3>3
      <4> QED BY <2>1, <3>1, <4>1 DEF ThreadsAreTheirs
    <3> QED BY <2>1, <3>2, <3>3 DEF OneConversation
  <2>3. GroupsKeepTheirRules
    BY <1>2, <2>1 DEF ConvInv, GroupsKeepTheirRules, ThreadsAreTheirs, OneAtATime, EmptyIsLeft
  <2> QED BY <2>1, <2>2, <2>3 DEF ConversationsHold
<1> QED BY <1>1, <1>2, ConvInitSound, PTL DEF ConvSpec

------------------------------------------------------------------------------
(***************************************************************************)
(* The feeds.  The invariant the proofs use.                                *)
(***************************************************************************)

\* The package the manifest names is there, whole.
NamedIsThere(k) == feed[k].manifest # 0 => feed[k].package[feed[k].manifest] = "whole"

\* A file in part is being uploaded; a publish carries what it has checked.
PartsAreUploads(k) ==
  k = "desktop" => \A v \in Versions :
    staging[k].package[v] = "part" => \E p \in OfKind(k) : p.op = "upload" /\ p.version = v

Carries(k, p) ==
  p.op = "publish" =>
    /\ p.at \in {"checked", "carried"} => NamedIsThere(k)
    /\ p.at \in {"checked", "cleared"} \/ (k = "desktop" /\ p.at \in {"named", "copying"}) =>
         staging[k].package[p.version] = "whole" /\ staging[k].manifest = p.version
    /\ p.at \in (IF k = "desktop" THEN {"checked", "named", "copying", "carried"}
                 ELSE {"checked", "cleared", "named", "carried"})
    /\ p.at = "checked" => p.version > feed[k].manifest
    /\ p.at = "carried" \/ (k = "desktop" /\ p.at \in {"named", "copying"}) =>
         feed[k].manifest = p.version
    /\ k = "android" /\ p.at \in {"cleared", "named"} => feed[k].manifest = 0
    /\ k = "android" /\ p.at = "named" => feed[k].package[p.version] = "whole"
    /\ k \in behind \/ told[k] <= p.version

\* With no publish on its way the feed is what was announced, or newer.
AtRest(k) == NamedIsThere(k) /\ (k \in behind \/ told[k] <= feed[k].manifest)

Untangled(k) ==
  /\ \A p, q \in OfKind(k) : p = q
  /\ PartsAreUploads(k)
  /\ \A p \in OfKind(k) : Carries(k, p)
  /\ (\A p \in OfKind(k) : p.op = "upload") => AtRest(k)

UploadsHaveStarted == \A p \in pushes : p.op = "upload" => p.at = "started"

FeedsInv ==
  /\ FeedsTypeOK /\ UploadsHaveStarted
  /\ \A k \in FeedKinds : ~tangled[k] => Untangled(k)

-----------------------------------------------------------------------------
(* Types.                                                                   *)

Shape == [Versions -> {"none", "part", "whole"}]

LEMMA DirectoryOf ==
  ASSUME NEW d \in Directory
  PROVE  /\ d.manifest \in 0..MaxVersion /\ d.manifest \in Nat
         /\ d.package \in Shape
         /\ \A m \in 0..MaxVersion, s \in Shape : [manifest |-> m, package |-> s] \in Directory
BY FeedsAssumption DEF Directory, Shape

\* One directory gets another manifest, or another state of one package.
LEMMA Rewritten ==
  ASSUME NEW f, f \in [FeedKinds -> Directory], NEW k \in FeedKinds,
         NEW m \in 0..MaxVersion, NEW g, g = [f EXCEPT ![k].manifest = m]
  PROVE  /\ g \in [FeedKinds -> Directory]
         /\ \A j \in FeedKinds : j # k => g[j] = f[j]
         /\ g[k].manifest = m /\ g[k].package = f[k].package
<1>1. PICK d : d = [f[k] EXCEPT !.manifest = m] OBVIOUS
<1>2. f[k] \in Directory OBVIOUS
<1>3. d \in Directory /\ d.manifest = m /\ d.package = f[k].package BY <1>1, <1>2 DEF Directory
<1>4. g = [f EXCEPT ![k] = d] BY <1>1
<1> QED BY <1>3, <1>4

LEMMA Repacked ==
  ASSUME NEW f, f \in [FeedKinds -> Directory], NEW k \in FeedKinds, NEW v \in Versions,
         NEW x \in {"none", "part", "whole"}, NEW g, g = [f EXCEPT ![k].package[v] = x]
  PROVE  /\ g \in [FeedKinds -> Directory]
         /\ \A j \in FeedKinds : j # k => g[j] = f[j]
         /\ g[k].manifest = f[k].manifest /\ g[k].package[v] = x
         /\ \A w \in Versions : w # v => g[k].package[w] = f[k].package[w]
<1>1. f[k] \in Directory OBVIOUS
<1>2. f[k].package \in Shape BY <1>1, DirectoryOf
<1>3. PICK s : s = [f[k].package EXCEPT ![v] = x] OBVIOUS
<1>4. s \in Shape /\ s[v] = x /\ \A w \in Versions : w # v => s[w] = f[k].package[w]
  BY <1>2, <1>3 DEF Shape
<1>5. PICK d : d = [f[k] EXCEPT !.package = s] OBVIOUS
<1>6. d \in Directory /\ d.manifest = f[k].manifest /\ d.package = s
  BY <1>1, <1>4, <1>5 DEF Directory, Shape
<1>7. g = [f EXCEPT ![k] = d] BY <1>3, <1>5
<1> QED BY <1>4, <1>6, <1>7

LEMMA Blank ==
  ASSUME NEW f, f \in [FeedKinds -> Directory], NEW k \in FeedKinds, NEW g, g = [f EXCEPT ![k] = Empty]
  PROVE  /\ g \in [FeedKinds -> Directory]
         /\ \A j \in FeedKinds : j # k => g[j] = f[j]
         /\ g[k].manifest = 0 /\ \A w \in Versions : g[k].package[w] = "none"
<1>1. Empty \in Directory /\ Empty.manifest = 0 /\ \A w \in Versions : Empty.package[w] = "none"
  BY FeedsAssumption DEF Empty, Directory
<1> QED BY <1>1

\* What of one kind stays as it was.
Stays(k) ==
  /\ feed'[k] = feed[k] /\ staging'[k] = staging[k] /\ told'[k] = told[k]
  /\ k \in behind' <=> k \in behind
  /\ OfKind(k)' = OfKind(k)

LEMMA StaysUntangled ==
  ASSUME NEW k, Stays(k), Untangled(k)
  PROVE  Untangled(k)'
<1>1. NamedIsThere(k)' <=> NamedIsThere(k) BY DEF Stays, NamedIsThere
<1>2. AtRest(k)' <=> AtRest(k) BY <1>1 DEF Stays, AtRest
<1>3. \A p : Carries(k, p)' <=> Carries(k, p) BY <1>1 DEF Stays, Carries
<1>4. PartsAreUploads(k)' BY DEF Stays, PartsAreUploads, Untangled
<1> QED BY <1>2, <1>3, <1>4 DEF Stays, Untangled

\* A push that begins, goes on to its next step, or ends.
LEMMA Beginning ==
  ASSUME FeedsTypeOK, NEW p \in Push, Begins(p)
  PROVE  /\ pushes' \subseteq Push /\ tangled' \in [FeedKinds -> BOOLEAN]
         /\ pushing' \in [pushes : 0..MaxPushes, deaths : 0..MaxDeaths]
         /\ \A k \in FeedKinds : k # p.kind => OfKind(k)' = OfKind(k) /\ tangled'[k] = tangled[k]
         /\ ~tangled'[p.kind] => /\ ~tangled[p.kind] /\ OfKind(p.kind) = {}
                                 /\ OfKind(p.kind)' = {p}
<1>1. p.kind \in FeedKinds BY DEF Push
<1>2. /\ pushes' = pushes \cup {p} /\ pushing.pushes > 0
      /\ tangled' = [tangled EXCEPT ![p.kind] = @ \/ OfKind(p.kind) # {}]
      /\ pushing' = [pushing EXCEPT !.pushes = @ - 1]
  BY DEF Begins
<1>3. pushing' \in [pushes : 0..MaxPushes, deaths : 0..MaxDeaths]
  BY <1>2, FeedsAssumption DEF FeedsTypeOK
<1>4. /\ tangled' \in [FeedKinds -> BOOLEAN]
      /\ tangled'[p.kind] = (tangled[p.kind] \/ OfKind(p.kind) # {})
      /\ \A k \in FeedKinds : k # p.kind => tangled'[k] = tangled[k]
  BY <1>1, <1>2 DEF FeedsTypeOK
<1>5. \A k \in FeedKinds : k # p.kind => OfKind(k)' = OfKind(k) BY <1>2 DEF OfKind
<1>6. OfKind(p.kind) = {} => OfKind(p.kind)' = {p} BY <1>2 DEF OfKind
<1> QED BY <1>2, <1>3, <1>4, <1>5, <1>6 DEF FeedsTypeOK

LEMMA GoingOn ==
  ASSUME FeedsTypeOK, NEW p \in pushes, NEW at \in {"named", "cleared", "copying", "carried"},
         PushMoves(p, at)
  PROVE  \E q \in Push :
           /\ q.op = p.op /\ q.kind = p.kind /\ q.version = p.version /\ q.at = at
           /\ pushes' \subseteq Push
           /\ \A k \in FeedKinds : k # p.kind => OfKind(k)' = OfKind(k)
           /\ (\A r, s \in OfKind(p.kind) : r = s) => OfKind(p.kind)' = {q}
<1>1. p \in Push BY DEF FeedsTypeOK
<1>2. PICK q : q = [p EXCEPT !.at = at] OBVIOUS
<1>3. q \in Push /\ q.op = p.op /\ q.kind = p.kind /\ q.version = p.version /\ q.at = at
  BY <1>1, <1>2 DEF Push
<1>4. pushes' = (pushes \ {p}) \cup {q} BY <1>2 DEF PushMoves
<1>5. pushes' \subseteq Push BY <1>3, <1>4 DEF FeedsTypeOK
<1>6. \A k \in FeedKinds : k # p.kind => OfKind(k)' = OfKind(k) BY <1>3, <1>4 DEF OfKind
<1>7. (\A r, s \in OfKind(p.kind) : r = s) => OfKind(p.kind)' = {q}
  BY <1>3, <1>4 DEF OfKind
<1> QED BY <1>3, <1>5, <1>6, <1>7

LEMMA Ending ==
  ASSUME FeedsTypeOK, NEW p \in pushes, PushEnds(p)
  PROVE  /\ pushes' \subseteq Push
         /\ \A k \in FeedKinds : k # p.kind => OfKind(k)' = OfKind(k)
         /\ (\A r, s \in OfKind(p.kind) : r = s) => OfKind(p.kind)' = {}
BY DEF FeedsTypeOK, PushEnds, OfKind

LEMMA PushRow ==
  ASSUME FeedsTypeOK, NEW p \in pushes
  PROVE  /\ p \in Push /\ p.kind \in FeedKinds /\ p.version \in Versions /\ p \in OfKind(p.kind)
         /\ p.op \in {"upload", "publish"} /\ p.version \in Nat /\ p.version # 0
         /\ p.version \in 0..MaxVersion
BY FeedsAssumption DEF FeedsTypeOK, Push, OfKind, Versions

-----------------------------------------------------------------------------
(* The steps.                                                               *)

\* A step is about one kind.
LEMMA OneKind ==
  ASSUME FeedsInv, FeedsTypeOK', UploadsHaveStarted', NEW k,
         \A j \in FeedKinds : j # k => Stays(j) /\ tangled'[j] = tangled[j],
         k \in FeedKinds /\ ~tangled'[k] => Untangled(k)'
  PROVE  FeedsInv'
<1>1. ASSUME NEW j \in FeedKinds, j # k, ~tangled'[j] PROVE Untangled(j)'
  BY <1>1, StaysUntangled DEF FeedsInv
<1> QED BY <1>1 DEF FeedsInv

LEMMA FeedsInitSound == FeedsInit => FeedsInv
<1> SUFFICES ASSUME FeedsInit PROVE FeedsInv OBVIOUS
<1>1. PICK v \in 0..MaxVersion :
        /\ behind = {} \/ (v > 0 /\ behind = {"android"})
        /\ told = [k \in FeedKinds |-> v]
        /\ feed = [k \in FeedKinds |-> IF k \in behind THEN Empty
                   ELSE [manifest |-> v, package |-> [w \in Versions |-> IF w = v THEN "whole" ELSE "none"]]]
  BY DEF FeedsInit
<1>2. /\ staging = [k \in FeedKinds |-> Empty] /\ pushes = {} /\ tangled = [k \in FeedKinds |-> FALSE]
      /\ pushing = [pushes |-> MaxPushes, deaths |-> MaxDeaths]
  BY DEF FeedsInit
<1>3. Empty \in Directory /\ Empty.manifest = 0 /\ \A w \in Versions : Empty.package[w] = "none"
  BY FeedsAssumption DEF Empty, Directory
<1>4. PICK first : first = [manifest |-> v, package |-> [w \in Versions |-> IF w = v THEN "whole" ELSE "none"]]
  OBVIOUS
<1>5. first \in Directory /\ first.manifest = v /\ (v # 0 => first.package[v] = "whole")
  BY <1>4, FeedsAssumption DEF Directory, Versions
<1>6. feed = [k \in FeedKinds |-> IF k \in behind THEN Empty ELSE first] BY <1>1, <1>4
<1>7. FeedsTypeOK
  <2>1. pushing \in [pushes : 0..MaxPushes, deaths : 0..MaxDeaths] BY <1>2, FeedsAssumption
  <2>2. behind \subseteq FeedKinds BY <1>1 DEF FeedKinds
  <2> QED BY <1>1, <1>2, <1>3, <1>5, <1>6, <2>1, <2>2 DEF FeedsTypeOK
<1>8. \A k \in FeedKinds : OfKind(k) = {} BY <1>2 DEF OfKind
<1>9. \A k \in FeedKinds : AtRest(k)
  BY <1>1, <1>3, <1>5, <1>6, FeedsAssumption DEF AtRest, NamedIsThere
<1>10. \A k \in FeedKinds : PartsAreUploads(k)
  BY <1>2, <1>3 DEF PartsAreUploads
<1> QED BY <1>2, <1>7, <1>8, <1>9, <1>10 DEF FeedsInv, Untangled, UploadsHaveStarted

\* What is asked of a kind nothing else is being done to.
LEMMA UploadManifestSound ==
  ASSUME FeedsInv, NEW k \in FeedKinds, NEW v \in Versions, UploadManifest(k, v)
  PROVE  FeedsInv'
<1>1. FeedsTypeOK BY DEF FeedsInv
<1>2. /\ staging' = [staging EXCEPT ![k].manifest = v]
      /\ tangled' = [tangled EXCEPT ![k] = @ \/ OfKind(k) # {}]
      /\ pushing.pushes > 0 /\ pushing' = [pushing EXCEPT !.pushes = @ - 1]
      /\ UNCHANGED <<feed, pushes, told, behind>>
  BY DEF UploadManifest
<1>3. v \in 0..MaxVersion BY FeedsAssumption DEF Versions
<1>4. /\ staging' \in [FeedKinds -> Directory] /\ staging'[k].package = staging[k].package
      /\ \A j \in FeedKinds : j # k => staging'[j] = staging[j]
  <2>1. staging \in [FeedKinds -> Directory] BY <1>1 DEF FeedsTypeOK
  <2> QED BY <2>1, <1>2, <1>3, Rewritten
<1>5. /\ tangled' \in [FeedKinds -> BOOLEAN] /\ tangled'[k] = (tangled[k] \/ OfKind(k) # {})
      /\ \A j \in FeedKinds : j # k => tangled'[j] = tangled[j]
  BY <1>1, <1>2 DEF FeedsTypeOK
<1>6. FeedsTypeOK'
  <2>1. pushing' \in [pushes : 0..MaxPushes, deaths : 0..MaxDeaths]
    BY <1>1, <1>2, FeedsAssumption DEF FeedsTypeOK
  <2> QED BY <1>1, <1>2, <1>4, <1>5, <2>1 DEF FeedsTypeOK
<1>7. UploadsHaveStarted' BY <1>2 DEF FeedsInv, UploadsHaveStarted
<1>8. \A j : OfKind(j)' = OfKind(j) BY <1>2 DEF OfKind
<1>9. ASSUME ~tangled'[k] PROVE Untangled(k)'
  <2>1. Untangled(k) /\ OfKind(k) = {} BY <1>5, <1>9 DEF FeedsInv
  <2>2. AtRest(k)' BY <1>2, <2>1 DEF Untangled, AtRest, NamedIsThere
  <2>3. PartsAreUploads(k)' BY <1>4, <1>8, <2>1 DEF Untangled, PartsAreUploads
  <2> QED BY <1>8, <2>1, <2>2, <2>3 DEF Untangled
<1> QED BY <1>2, <1>4, <1>5, <1>6, <1>7, <1>8, <1>9, OneKind DEF Stays

LEMMA DiscardSound ==
  ASSUME FeedsInv, NEW k \in FeedKinds, Discard(k)
  PROVE  FeedsInv'
<1>1. FeedsTypeOK BY DEF FeedsInv
<1>2. /\ staging' = [staging EXCEPT ![k] = Empty]
      /\ tangled' = [tangled EXCEPT ![k] = @ \/ OfKind(k) # {}]
      /\ pushing.pushes > 0 /\ pushing' = [pushing EXCEPT !.pushes = @ - 1]
      /\ UNCHANGED <<feed, pushes, told, behind>>
  BY DEF Discard, Cleared
<1>4. /\ staging' \in [FeedKinds -> Directory] /\ \A w \in Versions : staging'[k].package[w] = "none"
      /\ \A j \in FeedKinds : j # k => staging'[j] = staging[j]
  <2>1. staging \in [FeedKinds -> Directory] BY <1>1 DEF FeedsTypeOK
  <2> QED BY <2>1, <1>2, Blank
<1>5. /\ tangled' \in [FeedKinds -> BOOLEAN] /\ tangled'[k] = (tangled[k] \/ OfKind(k) # {})
      /\ \A j \in FeedKinds : j # k => tangled'[j] = tangled[j]
  BY <1>1, <1>2 DEF FeedsTypeOK
<1>6. FeedsTypeOK'
  <2>1. pushing' \in [pushes : 0..MaxPushes, deaths : 0..MaxDeaths]
    BY <1>1, <1>2, FeedsAssumption DEF FeedsTypeOK
  <2> QED BY <1>1, <1>2, <1>4, <1>5, <2>1 DEF FeedsTypeOK
<1>7. UploadsHaveStarted' BY <1>2 DEF FeedsInv, UploadsHaveStarted
<1>8. \A j : OfKind(j)' = OfKind(j) BY <1>2 DEF OfKind
<1>9. ASSUME ~tangled'[k] PROVE Untangled(k)'
  <2>1. Untangled(k) /\ OfKind(k) = {} BY <1>5, <1>9 DEF FeedsInv
  <2>2. AtRest(k)' BY <1>2, <2>1 DEF Untangled, AtRest, NamedIsThere
  <2>3. PartsAreUploads(k)' BY <1>4 DEF PartsAreUploads
  <2> QED BY <1>8, <2>1, <2>2, <2>3 DEF Untangled
<1> QED BY <1>2, <1>4, <1>5, <1>6, <1>7, <1>8, <1>9, OneKind DEF Stays

LEMMA UploadPackageSound ==
  ASSUME FeedsInv, NEW k \in FeedKinds, NEW v \in Versions, UploadPackage(k, v)
  PROVE  FeedsInv'
<1>1. FeedsTypeOK BY DEF FeedsInv
<1>2. PICK p : p = [op |-> "upload", kind |-> k, version |-> v, at |-> "started"] OBVIOUS
<1>3. p \in Push /\ p.op = "upload" /\ p.kind = k /\ p.version = v /\ p.at = "started"
  BY <1>2 DEF Push
<1>4. Begins(p) /\ staging' = [staging EXCEPT ![k].package[v] = "part"] /\ UNCHANGED <<feed, told, behind>>
  BY <1>2 DEF UploadPackage
<1>5. /\ pushes' \subseteq Push /\ tangled' \in [FeedKinds -> BOOLEAN]
      /\ pushing' \in [pushes : 0..MaxPushes, deaths : 0..MaxDeaths]
      /\ \A j \in FeedKinds : j # k => OfKind(j)' = OfKind(j) /\ tangled'[j] = tangled[j]
      /\ ~tangled'[k] => ~tangled[k] /\ OfKind(k) = {} /\ OfKind(k)' = {p}
  BY <1>1, <1>3, <1>4, Beginning
<1>6. /\ staging' \in [FeedKinds -> Directory]
      /\ \A j \in FeedKinds : j # k => staging'[j] = staging[j]
      /\ \A w \in Versions : w # v => staging'[k].package[w] = staging[k].package[w]
  <2>1. staging \in [FeedKinds -> Directory] BY <1>1 DEF FeedsTypeOK
  <2> QED BY <2>1, <1>4, Repacked
<1>7. FeedsTypeOK' BY <1>1, <1>4, <1>5, <1>6 DEF FeedsTypeOK
<1>8. UploadsHaveStarted' BY <1>3, <1>4 DEF FeedsInv, UploadsHaveStarted, Begins
<1>9. ASSUME ~tangled'[k] PROVE Untangled(k)'
  <2>1. Untangled(k) /\ OfKind(k) = {} /\ OfKind(k)' = {p} BY <1>5, <1>9 DEF FeedsInv
  <2>2. AtRest(k)' BY <1>4, <2>1 DEF Untangled, AtRest, NamedIsThere
  <2>3. PartsAreUploads(k)' BY <1>3, <1>6, <2>1 DEF Untangled, PartsAreUploads
  <2>4. Carries(k, p)' BY <1>3 DEF Carries
  <2> QED BY <2>1, <2>2, <2>3, <2>4 DEF Untangled
<1> QED BY <1>4, <1>5, <1>6, <1>7, <1>8, <1>9, OneKind DEF Stays

LEMMA RequestPublishSound ==
  ASSUME FeedsInv, NEW k \in FeedKinds, NEW v \in Versions, RequestPublish(k, v)
  PROVE  FeedsInv'
<1>1. FeedsTypeOK BY DEF FeedsInv
<1>2. PICK p : p = [op |-> "publish", kind |-> k, version |-> v, at |-> "checked"] OBVIOUS
<1>3. p \in Push /\ p.op = "publish" /\ p.kind = k /\ p.version = v /\ p.at = "checked"
  BY <1>2 DEF Push
<1>4. /\ Begins(p) /\ v = staging[k].manifest /\ v > feed[k].manifest
      /\ staging[k].package[v] \in (IF k = "android" THEN {"whole"} ELSE {"whole", "part"})
      /\ UNCHANGED <<feed, staging, told, behind>>
  BY <1>2 DEF RequestPublish, Complete, Newer
<1>5. /\ pushes' \subseteq Push /\ tangled' \in [FeedKinds -> BOOLEAN]
      /\ pushing' \in [pushes : 0..MaxPushes, deaths : 0..MaxDeaths]
      /\ \A j \in FeedKinds : j # k => OfKind(j)' = OfKind(j) /\ tangled'[j] = tangled[j]
      /\ ~tangled'[k] => ~tangled[k] /\ OfKind(k) = {} /\ OfKind(k)' = {p}
  BY <1>1, <1>3, <1>4, Beginning
<1>6. FeedsTypeOK' BY <1>1, <1>4, <1>5 DEF FeedsTypeOK
<1>7. UploadsHaveStarted' BY <1>3, <1>4 DEF FeedsInv, UploadsHaveStarted, Begins
<1>8. ASSUME ~tangled'[k] PROVE Untangled(k)'
  <2>1. Untangled(k) /\ OfKind(k) = {} /\ OfKind(k)' = {p} BY <1>5, <1>8 DEF FeedsInv
  <2>2. k \in {"desktop", "android"} BY DEF FeedKinds
  <2>3. staging[k].package[v] = "whole"
    BY <1>4, <2>1, <2>2 DEF Untangled, PartsAreUploads
  <2>4. PartsAreUploads(k)' BY <1>4, <2>1 DEF Untangled, PartsAreUploads
  <2>5. NamedIsThere(k)' BY <1>4, <2>1 DEF Untangled, AtRest, NamedIsThere
  <2>6. k \in behind' \/ told'[k] <= v
    <3>1. told[k] \in Nat /\ feed[k].manifest \in Nat /\ v \in Nat
      BY <1>1, DirectoryOf, FeedsAssumption DEF FeedsTypeOK, Versions
    <3> QED BY <1>4, <2>1, <3>1 DEF Untangled, AtRest
  <2>7. Carries(k, p)' BY <1>3, <1>4, <2>2, <2>3, <2>5, <2>6 DEF Carries
  <2> QED BY <1>3, <2>1, <2>4, <2>7 DEF Untangled
<1> QED BY <1>4, <1>5, <1>6, <1>7, <1>8, OneKind DEF Stays

LEMMA UploadEndsSound ==
  ASSUME FeedsInv, NEW p \in pushes, UploadEnds(p)
  PROVE  FeedsInv'
<1> DEFINE x == IF staging[p.kind].package[p.version] = "none" THEN "none" ELSE "whole"
<1>1. FeedsTypeOK BY DEF FeedsInv
<1>2. PICK k : k = p.kind OBVIOUS
<1>3. /\ p \in OfKind(k) /\ k \in FeedKinds /\ p.version \in Versions
      /\ x \in {"none", "part", "whole"} /\ x # "part"
  BY <1>1, <1>2, PushRow
<1>4. /\ staging' = [staging EXCEPT ![k].package[p.version] = x] /\ PushEnds(p) /\ p.op = "upload"
      /\ UNCHANGED <<feed, told, tangled, behind, pushing>>
  BY <1>2 DEF UploadEnds
<1> HIDE DEF x
<1>5. /\ pushes' \subseteq Push /\ \A j \in FeedKinds : j # k => OfKind(j)' = OfKind(j)
      /\ (\A r, s \in OfKind(k) : r = s) => OfKind(k)' = {}
  BY <1>1, <1>2, <1>4, Ending
<1>6. /\ staging' \in [FeedKinds -> Directory] /\ staging'[k].package[p.version] = x
      /\ \A j \in FeedKinds : j # k => staging'[j] = staging[j]
      /\ \A w \in Versions : w # p.version => staging'[k].package[w] = staging[k].package[w]
  <2>1. staging \in [FeedKinds -> Directory] BY <1>1 DEF FeedsTypeOK
  <2> QED BY <2>1, <1>3, <1>4, Repacked
<1>7. FeedsTypeOK' BY <1>1, <1>4, <1>5, <1>6 DEF FeedsTypeOK
<1>8. UploadsHaveStarted' BY <1>4 DEF FeedsInv, UploadsHaveStarted, PushEnds
<1>9. ASSUME ~tangled'[k] PROVE Untangled(k)'
  <2>1. Untangled(k) BY <1>3, <1>4, <1>9 DEF FeedsInv
  <2>2. OfKind(k)' = {} /\ \A q \in OfKind(k) : q = p BY <1>3, <1>5, <2>1 DEF Untangled
  <2>3. AtRest(k) BY <1>4, <2>1, <2>2 DEF Untangled
  <2>4. AtRest(k)' BY <1>4, <2>3 DEF AtRest, NamedIsThere
  <2>5. PartsAreUploads(k)'
    <3>1. k = "desktop" => \A v \in Versions : staging'[k].package[v] # "part"
      BY <1>3, <1>6, <2>1, <2>2 DEF Untangled, PartsAreUploads
    <3> QED BY <3>1 DEF PartsAreUploads
  <2> QED BY <2>2, <2>4, <2>5 DEF Untangled
<1> QED BY <1>4, <1>5, <1>6, <1>7, <1>8, <1>9, OneKind DEF Stays

LEMMA UploadFailsSound ==
  ASSUME FeedsInv, NEW p \in pushes, UploadFails(p)
  PROVE  FeedsInv'
<1>1. FeedsTypeOK BY DEF FeedsInv
<1>2. PICK k : k = p.kind OBVIOUS
<1>3. p \in OfKind(k) /\ k \in FeedKinds BY <1>1, <1>2, PushRow
<1>4. /\ staging' = [staging EXCEPT ![k] = Empty] /\ PushEnds(p) /\ p.op = "upload"
      /\ pushing.deaths > 0 /\ pushing' = [pushing EXCEPT !.deaths = @ - 1]
      /\ UNCHANGED <<feed, told, tangled, behind>>
  BY <1>2 DEF UploadFails, Cleared
<1>5. /\ pushes' \subseteq Push /\ \A j \in FeedKinds : j # k => OfKind(j)' = OfKind(j)
      /\ (\A r, s \in OfKind(k) : r = s) => OfKind(k)' = {}
  BY <1>1, <1>2, <1>4, Ending
<1>6. /\ staging' \in [FeedKinds -> Directory] /\ \A w \in Versions : staging'[k].package[w] = "none"
      /\ \A j \in FeedKinds : j # k => staging'[j] = staging[j]
  <2>1. staging \in [FeedKinds -> Directory] BY <1>1 DEF FeedsTypeOK
  <2> QED BY <2>1, <1>3, <1>4, Blank
<1>7. FeedsTypeOK'
  <2>1. pushing' \in [pushes : 0..MaxPushes, deaths : 0..MaxDeaths]
    BY <1>1, <1>4, FeedsAssumption DEF FeedsTypeOK
  <2> QED BY <1>1, <1>4, <1>5, <1>6, <2>1 DEF FeedsTypeOK
<1>8. UploadsHaveStarted' BY <1>4 DEF FeedsInv, UploadsHaveStarted, PushEnds
<1>9. ASSUME ~tangled'[k] PROVE Untangled(k)'
  <2>1. Untangled(k) BY <1>3, <1>4, <1>9 DEF FeedsInv
  <2>2. OfKind(k)' = {} /\ \A q \in OfKind(k) : q = p BY <1>3, <1>5, <2>1 DEF Untangled
  <2>3. AtRest(k) BY <1>4, <2>1, <2>2 DEF Untangled
  <2>4. AtRest(k)' BY <1>4, <2>3 DEF AtRest, NamedIsThere
  <2>5. PartsAreUploads(k)' BY <1>6 DEF PartsAreUploads
  <2> QED BY <2>2, <2>4, <2>5 DEF Untangled
<1> QED BY <1>4, <1>5, <1>6, <1>7, <1>8, <1>9, OneKind DEF Stays

\* A publish that goes on, by itself, from what it carries.
CarriedOn(p, at) ==
  \A q \in Push :
    /\ q.op = "publish" /\ q.version = p.version /\ q.kind = p.kind /\ q.at = at
    /\ Carries(p.kind, p) /\ p.op = "publish" /\ ~tangled[p.kind]
    => Carries(p.kind, q)'

LEMMA PublishGoesOn ==
  ASSUME FeedsInv, NEW p \in pushes, p.at # "started",
         NEW at \in {"named", "cleared", "copying", "carried"}, PushMoves(p, at),
         UNCHANGED <<told, tangled, behind, pushing>>,
         feed' \in [FeedKinds -> Directory], staging' \in [FeedKinds -> Directory],
         \A j \in FeedKinds : j # p.kind => feed'[j] = feed[j] /\ staging'[j] = staging[j],
         \A w \in Versions : staging'[p.kind].package[w] \in {staging[p.kind].package[w], "none"},
         CarriedOn(p, at)
  PROVE  FeedsInv'
<1>1. FeedsTypeOK BY DEF FeedsInv
<1>2. PICK k : k = p.kind OBVIOUS
<1>3. /\ p \in OfKind(k) /\ k \in FeedKinds /\ p.op = "publish"
  BY <1>1, <1>2, PushRow DEF FeedsInv, UploadsHaveStarted
<1>4. PICK q \in Push :
        /\ q.op = p.op /\ q.kind = p.kind /\ q.version = p.version /\ q.at = at
        /\ pushes' \subseteq Push
        /\ \A j \in FeedKinds : j # p.kind => OfKind(j)' = OfKind(j)
        /\ (\A r, s \in OfKind(p.kind) : r = s) => OfKind(p.kind)' = {q}
  BY <1>1, GoingOn
<1>5. FeedsTypeOK' BY <1>1, <1>4 DEF FeedsTypeOK
<1>6. UploadsHaveStarted'
  <2>1. pushes' = (pushes \ {p}) \cup {[p EXCEPT !.at = at]} BY DEF PushMoves
  <2>2. [p EXCEPT !.at = at].op = "publish" BY <1>1, <1>3 DEF FeedsTypeOK, Push
  <2> QED BY <2>1, <2>2 DEF FeedsInv, UploadsHaveStarted
<1>7. ASSUME ~tangled'[k] PROVE Untangled(k)'
  <2>1. Untangled(k) BY <1>3, <1>7 DEF FeedsInv
  <2>2. OfKind(k)' = {q} /\ (\A r \in OfKind(k) : r = p) BY <1>2, <1>3, <1>4, <2>1 DEF Untangled
  <2>3. Carries(k, q)'
    <3>1. Carries(p.kind, p) /\ ~tangled[p.kind] BY <1>2, <1>3, <1>7, <2>1 DEF Untangled
    <3> QED BY <1>2, <1>3, <1>4, <3>1 DEF CarriedOn
  <2>4. PartsAreUploads(k)'
    <3>1. k = "desktop" => \A v \in Versions : staging'[k].package[v] # "part"
      BY <1>2, <1>3, <2>1, <2>2 DEF Untangled, PartsAreUploads
    <3> QED BY <3>1 DEF PartsAreUploads
  <2>5. q.op # "upload" BY <1>3, <1>4
  <2> QED BY <2>2, <2>3, <2>4, <2>5 DEF Untangled
<1> QED BY <1>2, <1>4, <1>5, <1>6, <1>7, OneKind DEF Stays

LEMMA CopyManifestSound ==
  ASSUME FeedsInv, NEW p \in pushes, CopyManifest(p)
  PROVE  FeedsInv'
<1>1. FeedsTypeOK /\ UploadsHaveStarted BY DEF FeedsInv
<1>2. PICK k, v : k = p.kind /\ v = p.version OBVIOUS
<1>3. k \in FeedKinds /\ v \in Versions /\ v \in 0..MaxVersion /\ v \in Nat /\ v # 0
  BY <1>1, <1>2, PushRow
<1>4. feed \in [FeedKinds -> Directory] /\ staging \in [FeedKinds -> Directory]
  BY <1>1 DEF FeedsTypeOK
<1>5. /\ k = "desktop" /\ p.at = "checked" /\ staging[k].manifest # 0 /\ PushMoves(p, "named")
      /\ feed' = [feed EXCEPT ![k].manifest = staging[k].manifest]
      /\ UNCHANGED <<staging, told, tangled, behind, pushing>>
  BY <1>2 DEF CopyManifest
<1>6. /\ feed' \in [FeedKinds -> Directory] /\ staging' \in [FeedKinds -> Directory]
      /\ \A j \in FeedKinds : j # k => feed'[j] = feed[j] /\ staging'[j] = staging[j]
      /\ \A w \in Versions : staging'[k].package[w] \in {staging[k].package[w], "none"}
      /\ feed'[k].manifest = staging[k].manifest
  <2>1. staging[k].manifest \in 0..MaxVersion BY <1>3, <1>4, DirectoryOf
  <2>2. feed' \in [FeedKinds -> Directory] /\ (\A j \in FeedKinds : j # k => feed'[j] = feed[j])
        /\ feed'[k].manifest = staging[k].manifest
    BY <1>3, <1>4, <1>5, <2>1, Rewritten
  <2> QED BY <1>4, <1>5, <2>2
<1>7. ASSUME NEW q \in Push, q.op = "publish", q.version = v, q.kind = k, q.at = "named",
             Carries(k, p), p.op = "publish", ~tangled[k]
      PROVE  Carries(k, q)'
  <2>1. staging[k].package[v] = "whole" /\ staging[k].manifest = v /\ (k \in behind \/ told[k] <= v)
    BY <1>2, <1>5, <1>7 DEF Carries
  <2> QED BY <1>5, <1>6, <1>7, <2>1 DEF Carries
<1>8. p.at # "started" BY <1>5
<1>9. /\ \A j \in FeedKinds : j # p.kind => feed'[j] = feed[j] /\ staging'[j] = staging[j]
      /\ \A w \in Versions : staging'[p.kind].package[w] \in {staging[p.kind].package[w], "none"}
  BY <1>2, <1>6
<1>10. CarriedOn(p, "named") BY <1>2, <1>7 DEF CarriedOn
<1> QED BY <1>5, <1>6, <1>8, <1>9, <1>10, PublishGoesOn

LEMMA CopyPackageSound ==
  ASSUME FeedsInv, NEW p \in pushes, CopyPackage(p)
  PROVE  FeedsInv'
<1>1. FeedsTypeOK /\ UploadsHaveStarted BY DEF FeedsInv
<1>2. PICK k, v : k = p.kind /\ v = p.version OBVIOUS
<1>3. k \in FeedKinds /\ v \in Versions /\ v \in 0..MaxVersion /\ v \in Nat /\ v # 0
  BY <1>1, <1>2, PushRow
<1>4. feed \in [FeedKinds -> Directory] /\ staging \in [FeedKinds -> Directory]
  BY <1>1 DEF FeedsTypeOK
<1>5. /\ k = "desktop" /\ p.at = "named" /\ PushMoves(p, "copying")
      /\ feed' = [feed EXCEPT ![k].package[v] = "part"]
      /\ UNCHANGED <<staging, told, tangled, behind, pushing>>
  BY <1>2 DEF CopyPackage
<1>6. /\ feed' \in [FeedKinds -> Directory] /\ staging' \in [FeedKinds -> Directory]
      /\ \A j \in FeedKinds : j # k => feed'[j] = feed[j] /\ staging'[j] = staging[j]
      /\ \A w \in Versions : staging'[k].package[w] \in {staging[k].package[w], "none"}
      /\ feed'[k].manifest = feed[k].manifest
  <2>1. feed' \in [FeedKinds -> Directory] /\ (\A j \in FeedKinds : j # k => feed'[j] = feed[j])
        /\ feed'[k].manifest = feed[k].manifest
    <3>1. feed \in [FeedKinds -> Directory] /\ k \in FeedKinds /\ v \in Versions BY <1>3, <1>4
    <3>2. PICK x \in {"none", "part", "whole"} : x = "part" OBVIOUS
    <3>3. PICK g : g = [feed EXCEPT ![k].package[v] = x] OBVIOUS
    <3>4. /\ g \in [FeedKinds -> Directory] /\ \A j \in FeedKinds : j # k => g[j] = feed[j]
          /\ g[k].manifest = feed[k].manifest /\ g[k].package[v] = x
      BY <3>1, <3>3, Repacked
    <3> QED BY <1>5, <3>2, <3>3, <3>4
  <2> QED BY <1>4, <1>5, <2>1
<1>7. ASSUME NEW q \in Push, q.op = "publish", q.version = v, q.kind = k, q.at = "copying",
             Carries(k, p), p.op = "publish", ~tangled[k]
      PROVE  Carries(k, q)'
  <2>1. /\ staging[k].package[v] = "whole" /\ staging[k].manifest = v
        /\ feed[k].manifest = v /\ (k \in behind \/ told[k] <= v)
    BY <1>2, <1>5, <1>7 DEF Carries
  <2> QED BY <1>5, <1>6, <1>7, <2>1 DEF Carries
<1>8. p.at # "started" BY <1>5
<1>9. /\ \A j \in FeedKinds : j # p.kind => feed'[j] = feed[j] /\ staging'[j] = staging[j]
      /\ \A w \in Versions : staging'[p.kind].package[w] \in {staging[p.kind].package[w], "none"}
  BY <1>2, <1>6
<1>10. CarriedOn(p, "copying") BY <1>2, <1>7 DEF CarriedOn
<1> QED BY <1>5, <1>6, <1>8, <1>9, <1>10, PublishGoesOn

LEMMA CopyEndsSound ==
  ASSUME FeedsInv, NEW p \in pushes, CopyEnds(p)
  PROVE  FeedsInv'
<1>1. FeedsTypeOK /\ UploadsHaveStarted BY DEF FeedsInv
<1>2. PICK k, v : k = p.kind /\ v = p.version OBVIOUS
<1>3. k \in FeedKinds /\ v \in Versions /\ v \in 0..MaxVersion /\ v \in Nat /\ v # 0
  BY <1>1, <1>2, PushRow
<1>4. feed \in [FeedKinds -> Directory] /\ staging \in [FeedKinds -> Directory]
  BY <1>1 DEF FeedsTypeOK
<1>5. /\ p.at = "copying" /\ PushMoves(p, "carried")
      /\ feed' = [feed EXCEPT ![k].package[v] = staging[k].package[v]]
      /\ UNCHANGED <<staging, told, tangled, behind, pushing>>
  BY <1>2 DEF CopyEnds
<1>6. /\ feed' \in [FeedKinds -> Directory] /\ staging' \in [FeedKinds -> Directory]
      /\ \A j \in FeedKinds : j # k => feed'[j] = feed[j] /\ staging'[j] = staging[j]
      /\ \A w \in Versions : staging'[k].package[w] \in {staging[k].package[w], "none"}
      /\ feed'[k].manifest = feed[k].manifest /\ feed'[k].package[v] = staging[k].package[v]
  <2>1. staging[k].package[v] \in {"none", "part", "whole"} BY <1>3, <1>4, DirectoryOf DEF Shape
  <2>2. feed' \in [FeedKinds -> Directory] /\ (\A j \in FeedKinds : j # k => feed'[j] = feed[j])
        /\ feed'[k].manifest = feed[k].manifest /\ feed'[k].package[v] = staging[k].package[v]
    <3>1. feed \in [FeedKinds -> Directory] /\ k \in FeedKinds /\ v \in Versions BY <1>3, <1>4
    <3>2. PICK x \in {"none", "part", "whole"} : x = staging[k].package[v] BY <2>1
    <3>3. PICK g : g = [feed EXCEPT ![k].package[v] = x] OBVIOUS
    <3>4. /\ g \in [FeedKinds -> Directory] /\ \A j \in FeedKinds : j # k => g[j] = feed[j]
          /\ g[k].manifest = feed[k].manifest /\ g[k].package[v] = x
      BY <3>1, <3>3, Repacked
    <3> QED BY <1>5, <3>2, <3>3, <3>4
  <2> QED BY <1>4, <1>5, <2>2
<1>7. ASSUME NEW q \in Push, q.op = "publish", q.version = v, q.kind = k, q.at = "carried",
             Carries(k, p), p.op = "publish", ~tangled[k]
      PROVE  Carries(k, q)'
  <2>1. /\ k = "desktop" /\ staging[k].package[v] = "whole"
        /\ feed[k].manifest = v /\ (k \in behind \/ told[k] <= v)
    BY <1>2, <1>3, <1>5, <1>7 DEF Carries, FeedKinds
  <2>2. NamedIsThere(k)' BY <1>6, <2>1 DEF NamedIsThere
  <2> QED BY <1>5, <1>6, <1>7, <2>1, <2>2 DEF Carries
<1>8. p.at # "started" BY <1>5
<1>9. /\ \A j \in FeedKinds : j # p.kind => feed'[j] = feed[j] /\ staging'[j] = staging[j]
      /\ \A w \in Versions : staging'[p.kind].package[w] \in {staging[p.kind].package[w], "none"}
  BY <1>2, <1>6
<1>10. CarriedOn(p, "carried") BY <1>2, <1>7 DEF CarriedOn
<1> QED BY <1>5, <1>6, <1>8, <1>9, <1>10, PublishGoesOn

LEMMA EmptyFeedSound ==
  ASSUME FeedsInv, NEW p \in pushes, EmptyFeed(p)
  PROVE  FeedsInv'
<1>1. FeedsTypeOK /\ UploadsHaveStarted BY DEF FeedsInv
<1>2. PICK k, v : k = p.kind /\ v = p.version OBVIOUS
<1>3. k \in FeedKinds /\ v \in Versions /\ v \in 0..MaxVersion /\ v \in Nat /\ v # 0
  BY <1>1, <1>2, PushRow
<1>4. feed \in [FeedKinds -> Directory] /\ staging \in [FeedKinds -> Directory]
  BY <1>1 DEF FeedsTypeOK
<1>5. /\ k = "android" /\ p.at = "checked" /\ PushMoves(p, "cleared")
      /\ feed' = [feed EXCEPT ![k] = Empty]
      /\ UNCHANGED <<staging, told, tangled, behind, pushing>>
  BY <1>2 DEF EmptyFeed
<1>6. /\ feed' \in [FeedKinds -> Directory] /\ staging' \in [FeedKinds -> Directory]
      /\ \A j \in FeedKinds : j # k => feed'[j] = feed[j] /\ staging'[j] = staging[j]
      /\ \A w \in Versions : staging'[k].package[w] \in {staging[k].package[w], "none"}
      /\ feed'[k].manifest = 0
  <2>1. feed' \in [FeedKinds -> Directory] /\ (\A j \in FeedKinds : j # k => feed'[j] = feed[j])
        /\ feed'[k].manifest = 0
    BY <1>3, <1>4, <1>5, Blank
  <2> QED BY <1>4, <1>5, <2>1
<1>7. ASSUME NEW q \in Push, q.op = "publish", q.version = v, q.kind = k, q.at = "cleared",
             Carries(k, p), p.op = "publish", ~tangled[k]
      PROVE  Carries(k, q)'
  <2>1. staging[k].package[v] = "whole" /\ staging[k].manifest = v /\ (k \in behind \/ told[k] <= v)
    BY <1>2, <1>5, <1>7 DEF Carries
  <2> QED BY <1>5, <1>6, <1>7, <2>1 DEF Carries
<1>8. p.at # "started" BY <1>5
<1>9. /\ \A j \in FeedKinds : j # p.kind => feed'[j] = feed[j] /\ staging'[j] = staging[j]
      /\ \A w \in Versions : staging'[p.kind].package[w] \in {staging[p.kind].package[w], "none"}
  BY <1>2, <1>6
<1>10. CarriedOn(p, "cleared") BY <1>2, <1>7 DEF CarriedOn
<1> QED BY <1>5, <1>6, <1>8, <1>9, <1>10, PublishGoesOn

LEMMA MovePackageSound ==
  ASSUME FeedsInv, NEW p \in pushes, MovePackage(p)
  PROVE  FeedsInv'
<1>1. FeedsTypeOK /\ UploadsHaveStarted BY DEF FeedsInv
<1>2. PICK k, v : k = p.kind /\ v = p.version OBVIOUS
<1>3. k \in FeedKinds /\ v \in Versions /\ v \in 0..MaxVersion /\ v \in Nat /\ v # 0
  BY <1>1, <1>2, PushRow
<1>4. feed \in [FeedKinds -> Directory] /\ staging \in [FeedKinds -> Directory]
  BY <1>1 DEF FeedsTypeOK
<1>5. /\ p.at = "cleared" /\ PushMoves(p, "named")
      /\ feed' = [feed EXCEPT ![k].package[v] = staging[k].package[v]]
      /\ staging' = [staging EXCEPT ![k].package[v] = "none"]
      /\ UNCHANGED <<told, tangled, behind, pushing>>
  BY <1>2 DEF MovePackage, PackageFirst
<1>6. /\ feed' \in [FeedKinds -> Directory] /\ staging' \in [FeedKinds -> Directory]
      /\ \A j \in FeedKinds : j # k => feed'[j] = feed[j] /\ staging'[j] = staging[j]
      /\ \A w \in Versions : staging'[k].package[w] \in {staging[k].package[w], "none"}
      /\ feed'[k].manifest = feed[k].manifest /\ feed'[k].package[v] = staging[k].package[v]
  <2>1. staging[k].package[v] \in {"none", "part", "whole"} BY <1>3, <1>4, DirectoryOf DEF Shape
  <2>2. feed' \in [FeedKinds -> Directory] /\ (\A j \in FeedKinds : j # k => feed'[j] = feed[j])
        /\ feed'[k].manifest = feed[k].manifest /\ feed'[k].package[v] = staging[k].package[v]
    <3>1. feed \in [FeedKinds -> Directory] /\ k \in FeedKinds /\ v \in Versions BY <1>3, <1>4
    <3>2. PICK x \in {"none", "part", "whole"} : x = staging[k].package[v] BY <2>1
    <3>3. PICK g : g = [feed EXCEPT ![k].package[v] = x] OBVIOUS
    <3>4. /\ g \in [FeedKinds -> Directory] /\ \A j \in FeedKinds : j # k => g[j] = feed[j]
          /\ g[k].manifest = feed[k].manifest /\ g[k].package[v] = x
      BY <3>1, <3>3, Repacked
    <3> QED BY <1>5, <3>2, <3>3, <3>4
  <2>3. staging' \in [FeedKinds -> Directory] /\ (\A j \in FeedKinds : j # k => staging'[j] = staging[j])
        /\ staging'[k].package[v] = "none"
        /\ \A w \in Versions : w # v => staging'[k].package[w] = staging[k].package[w]
    <3>1. staging \in [FeedKinds -> Directory] /\ k \in FeedKinds /\ v \in Versions BY <1>3, <1>4
    <3>2. PICK g : g = [staging EXCEPT ![k].package[v] = "none"] OBVIOUS
    <3>3. /\ g \in [FeedKinds -> Directory] /\ \A j \in FeedKinds : j # k => g[j] = staging[j]
          /\ g[k].package[v] = "none" /\ \A w \in Versions : w # v => g[k].package[w] = staging[k].package[w]
      BY <3>1, <3>2, Repacked
    <3> QED BY <1>5, <3>2, <3>3
  <2> QED BY <2>2, <2>3
<1>7. ASSUME NEW q \in Push, q.op = "publish", q.version = v, q.kind = k, q.at = "named",
             Carries(k, p), p.op = "publish", ~tangled[k]
      PROVE  Carries(k, q)'
  <2>1. /\ k = "android" /\ staging[k].package[v] = "whole"
        /\ feed[k].manifest = 0 /\ (k \in behind \/ told[k] <= v)
    BY <1>2, <1>3, <1>5, <1>7 DEF Carries, FeedKinds
  <2> QED BY <1>5, <1>6, <1>7, <2>1 DEF Carries
<1>8. p.at # "started" BY <1>5
<1>9. /\ \A j \in FeedKinds : j # p.kind => feed'[j] = feed[j] /\ staging'[j] = staging[j]
      /\ \A w \in Versions : staging'[p.kind].package[w] \in {staging[p.kind].package[w], "none"}
  BY <1>2, <1>6
<1>10. CarriedOn(p, "named") BY <1>2, <1>7 DEF CarriedOn
<1> QED BY <1>5, <1>6, <1>8, <1>9, <1>10, PublishGoesOn

LEMMA WriteManifestSound ==
  ASSUME FeedsInv, NEW p \in pushes, WriteManifest(p)
  PROVE  FeedsInv'
<1>1. FeedsTypeOK /\ UploadsHaveStarted BY DEF FeedsInv
<1>2. PICK k, v : k = p.kind /\ v = p.version OBVIOUS
<1>3. k \in FeedKinds /\ v \in Versions /\ v \in 0..MaxVersion /\ v \in Nat /\ v # 0
  BY <1>1, <1>2, PushRow
<1>4. feed \in [FeedKinds -> Directory] /\ staging \in [FeedKinds -> Directory]
  BY <1>1 DEF FeedsTypeOK
<1>5. /\ k = "android" /\ p.at = "named" /\ PushMoves(p, "carried")
      /\ feed' = [feed EXCEPT ![k].manifest = v]
      /\ UNCHANGED <<staging, told, tangled, behind, pushing>>
  BY <1>2 DEF WriteManifest
<1>6. /\ feed' \in [FeedKinds -> Directory] /\ staging' \in [FeedKinds -> Directory]
      /\ \A j \in FeedKinds : j # k => feed'[j] = feed[j] /\ staging'[j] = staging[j]
      /\ \A w \in Versions : staging'[k].package[w] \in {staging[k].package[w], "none"}
      /\ feed'[k].manifest = v /\ feed'[k].package = feed[k].package
  <2>1. feed' \in [FeedKinds -> Directory] /\ (\A j \in FeedKinds : j # k => feed'[j] = feed[j])
        /\ feed'[k].manifest = v /\ feed'[k].package = feed[k].package
    BY <1>3, <1>4, <1>5, Rewritten
  <2> QED BY <1>4, <1>5, <2>1
<1>7. ASSUME NEW q \in Push, q.op = "publish", q.version = v, q.kind = k, q.at = "carried",
             Carries(k, p), p.op = "publish", ~tangled[k]
      PROVE  Carries(k, q)'
  <2>1. feed[k].package[v] = "whole" /\ (k \in behind \/ told[k] <= v)
    BY <1>2, <1>5, <1>7 DEF Carries
  <2>2. NamedIsThere(k)' BY <1>6, <2>1 DEF NamedIsThere
  <2> QED BY <1>5, <1>6, <1>7, <2>1, <2>2 DEF Carries
<1>8. p.at # "started" BY <1>5
<1>9. /\ \A j \in FeedKinds : j # p.kind => feed'[j] = feed[j] /\ staging'[j] = staging[j]
      /\ \A w \in Versions : staging'[p.kind].package[w] \in {staging[p.kind].package[w], "none"}
  BY <1>2, <1>6
<1>10. CarriedOn(p, "carried") BY <1>2, <1>7 DEF CarriedOn
<1> QED BY <1>5, <1>6, <1>8, <1>9, <1>10, PublishGoesOn

LEMMA AnnounceFeedSound ==
  ASSUME FeedsInv, NEW p \in pushes, AnnounceFeed(p)
  PROVE  FeedsInv'
<1>1. FeedsTypeOK /\ UploadsHaveStarted BY DEF FeedsInv
<1>2. PICK k : k = p.kind OBVIOUS
<1>3. p \in OfKind(k) /\ k \in FeedKinds /\ p.op \in {"upload", "publish"} BY <1>1, <1>2, PushRow
<1>4. /\ p.at = "carried" /\ staging' = [staging EXCEPT ![k] = Empty] /\ PushEnds(p)
      /\ told' = [told EXCEPT ![k] = feed[k].manifest] /\ behind' = behind \ {k}
      /\ UNCHANGED <<feed, tangled, pushing>>
  BY <1>2 DEF AnnounceFeed, Cleared
<1>5. /\ pushes' \subseteq Push /\ \A j \in FeedKinds : j # k => OfKind(j)' = OfKind(j)
      /\ (\A r, s \in OfKind(k) : r = s) => OfKind(k)' = {}
  BY <1>1, <1>2, <1>4, Ending
<1>6. /\ staging' \in [FeedKinds -> Directory] /\ \A w \in Versions : staging'[k].package[w] = "none"
      /\ \A j \in FeedKinds : j # k => staging'[j] = staging[j]
  <2>1. staging \in [FeedKinds -> Directory] BY <1>1 DEF FeedsTypeOK
  <2> QED BY <2>1, <1>3, <1>4, Blank
<1>7. /\ told' \in [FeedKinds -> 0..MaxVersion] /\ told'[k] = feed[k].manifest
      /\ \A j \in FeedKinds : j # k => told'[j] = told[j]
      /\ feed[k].manifest \in Nat
  <2>1. feed[k] \in Directory /\ told \in [FeedKinds -> 0..MaxVersion] BY <1>1, <1>3 DEF FeedsTypeOK
  <2>2. feed[k].manifest \in 0..MaxVersion /\ feed[k].manifest \in Nat BY <2>1, DirectoryOf
  <2> QED BY <1>3, <1>4, <2>1, <2>2
<1>8. FeedsTypeOK' BY <1>1, <1>4, <1>5, <1>6, <1>7 DEF FeedsTypeOK
<1>9. UploadsHaveStarted' BY <1>1, <1>4 DEF UploadsHaveStarted, PushEnds
<1>10. ASSUME ~tangled'[k] PROVE Untangled(k)'
  <2>1. Untangled(k) BY <1>3, <1>4, <1>10 DEF FeedsInv
  <2>2. OfKind(k)' = {} BY <1>5, <2>1 DEF Untangled
  <2>3. NamedIsThere(k)
    BY <1>1, <1>3, <1>4, <2>1 DEF Untangled, Carries, UploadsHaveStarted
  <2>4. AtRest(k)' BY <1>4, <1>7, <2>3 DEF AtRest, NamedIsThere
  <2>5. PartsAreUploads(k)' BY <1>6 DEF PartsAreUploads
  <2> QED BY <2>2, <2>4, <2>5 DEF Untangled
<1>11. \A j \in FeedKinds : j # k => (j \in behind' <=> j \in behind) BY <1>4
<1> QED BY <1>4, <1>5, <1>6, <1>7, <1>8, <1>9, <1>10, <1>11, OneKind DEF Stays

\* What a publish has checked goes only when something else is done to its kind.
LEMMA PublishFailsSound ==
  ASSUME FeedsInv, NEW p \in pushes, PublishFails(p)
  PROVE  FeedsInv'
<1>1. FeedsTypeOK /\ UploadsHaveStarted BY DEF FeedsInv
<1>2. PICK k : k = p.kind OBVIOUS
<1>3. p \in OfKind(k) /\ k \in FeedKinds /\ p.version # 0 BY <1>1, <1>2, PushRow
<1>4. /\ p.op = "publish" /\ PushEnds(p)
      /\ UNCHANGED <<feed, staging, told, tangled, behind, pushing>>
  BY DEF PublishFails
<1>5. /\ pushes' \subseteq Push /\ \A j \in FeedKinds : j # k => OfKind(j)' = OfKind(j)
  BY <1>1, <1>2, <1>4, Ending
<1>6. FeedsTypeOK' BY <1>1, <1>4, <1>5 DEF FeedsTypeOK
<1>7. UploadsHaveStarted' BY <1>1, <1>4 DEF UploadsHaveStarted, PushEnds
<1>8. tangled[k]
  <2>1. ~tangled[k] => Carries(k, p) BY <1>3 DEF FeedsInv, Untangled
  <2>2. k = "desktop" \/ k = "android" BY <1>3 DEF FeedKinds
  <2> QED BY <1>2, <1>3, <1>4, <2>1, <2>2 DEF PublishFails, Carries
<1> QED BY <1>4, <1>5, <1>6, <1>7, <1>8, OneKind DEF Stays

\* Both kinds lose what was being done to them.
LEMMA CutShortSound ==
  ASSUME FeedsInv, CutShort
  PROVE  FeedsInv'
<1>1. FeedsTypeOK BY DEF FeedsInv
<1>2. /\ pushes' = {} /\ pushing.deaths > 0 /\ pushing' = [pushing EXCEPT !.deaths = @ - 1]
      /\ tangled' = [k \in FeedKinds |-> tangled[k] \/ (k = "desktop" /\ OfKind(k) # {})]
      /\ behind' = behind \cup {k \in FeedKinds : feed[k].manifest < told[k]}
      /\ UNCHANGED <<feed, staging, told>>
  BY DEF CutShort
<1>3. FeedsTypeOK'
  <2>1. pushing' \in [pushes : 0..MaxPushes, deaths : 0..MaxDeaths]
    BY <1>1, <1>2, FeedsAssumption DEF FeedsTypeOK
  <2>2. tangled' \in [FeedKinds -> BOOLEAN] BY <1>1, <1>2 DEF FeedsTypeOK
  <2> QED BY <1>1, <1>2, <2>1, <2>2 DEF FeedsTypeOK
<1>4. UploadsHaveStarted' BY <1>2 DEF UploadsHaveStarted
<1>5. ASSUME NEW k \in FeedKinds, ~tangled'[k] PROVE Untangled(k)'
  <2>1. Untangled(k) /\ OfKind(k)' = {} BY <1>2, <1>5 DEF FeedsInv, OfKind
  <2>2. k = "desktop" => OfKind(k) = {} BY <1>2, <1>5
  <2>3. NamedIsThere(k)
    <3>1. CASE \A p \in OfKind(k) : p.op = "upload" BY <2>1, <3>1 DEF Untangled, AtRest
    <3>2. ASSUME NEW p \in OfKind(k), p.op # "upload" PROVE NamedIsThere(k)
      <4>1. k = "android" /\ p.op = "publish" /\ Carries(k, p)
        BY <1>1, <2>1, <2>2, <3>2, PushRow DEF Untangled, FeedKinds, OfKind
      <4>2. p.at \in {"checked", "carried"} \/ feed[k].manifest = 0 BY <4>1 DEF Carries
      <4> QED BY <4>1, <4>2 DEF Carries, NamedIsThere
    <3> QED BY <3>1, <3>2
  <2>4. k \in behind' \/ told[k] <= feed[k].manifest
    <3>1. told[k] \in Nat /\ feed[k].manifest \in Nat
      BY <1>1, DirectoryOf DEF FeedsTypeOK
    <3> QED BY <1>2, <3>1
  <2>5. AtRest(k)' BY <1>2, <2>3, <2>4 DEF AtRest, NamedIsThere
  <2>6. PartsAreUploads(k)' BY <1>2, <2>1, <2>2 DEF Untangled, PartsAreUploads
  <2> QED BY <2>1, <2>5, <2>6 DEF Untangled
<1> QED BY <1>3, <1>4, <1>5 DEF FeedsInv
LEMMA FeedsRests ==
  ASSUME FeedsInv, UNCHANGED feedsVars
  PROVE  FeedsInv'
<1>1. /\ feed' = feed /\ staging' = staging /\ pushes' = pushes /\ told' = told
      /\ tangled' = tangled /\ behind' = behind /\ pushing' = pushing
  BY DEF feedsVars
<1>2. FeedsTypeOK' BY <1>1 DEF FeedsInv, FeedsTypeOK
<1>3. UploadsHaveStarted' BY <1>1 DEF FeedsInv, UploadsHaveStarted
<1>4. \A k \in FeedKinds : Stays(k) BY <1>1 DEF Stays, OfKind
<1>5. ASSUME NEW k \in FeedKinds, ~tangled'[k] PROVE Untangled(k)'
  BY <1>1, <1>4, <1>5, StaysUntangled DEF FeedsInv
<1> QED BY <1>2, <1>3, <1>5 DEF FeedsInv

LEMMA FeedsStepSound ==
  ASSUME FeedsInv, [FeedsNext]_feedsVars
  PROVE  FeedsInv'
<1>1. ASSUME NEW k \in FeedKinds, NEW v \in Versions,
             UploadManifest(k, v) \/ UploadPackage(k, v) \/ RequestPublish(k, v)
      PROVE  FeedsInv'
  BY <1>1, UploadManifestSound, UploadPackageSound, RequestPublishSound
<1>2. ASSUME NEW k \in FeedKinds, Discard(k) PROVE FeedsInv'
  BY <1>2, DiscardSound
<1>3. ASSUME NEW p \in pushes, UploadEnds(p) \/ UploadFails(p) PROVE FeedsInv'
  BY <1>3, UploadEndsSound, UploadFailsSound
<1>4. ASSUME NEW p \in pushes, Publishing(p) PROVE FeedsInv'
  BY <1>4, CopyManifestSound, CopyPackageSound, CopyEndsSound, EmptyFeedSound, MovePackageSound,
     WriteManifestSound, AnnounceFeedSound, PublishFailsSound
  DEF Publishing
<1>5. CASE CutShort BY <1>5, CutShortSound
<1>6. CASE UNCHANGED feedsVars BY <1>6, FeedsRests
<1> QED BY <1>1, <1>2, <1>3, <1>4, <1>5, <1>6 DEF FeedsNext

LEMMA FeedsInvHolds == FeedsSpec => []FeedsInv
<1>1. FeedsInv /\ [FeedsNext]_feedsVars => FeedsInv' BY FeedsStepSound
<1> QED BY FeedsInitSound, <1>1, PTL DEF FeedsSpec

-----------------------------------------------------------------------------
(* What follows.                                                            *)

LEMMA NamedIsSound == FeedsInv => AdvertisedIsThere
<1> SUFFICES ASSUME FeedsInv, NEW k \in FeedKinds, ~tangled[k], k = "android" \/ OfKind(k) = {}
    PROVE  NamedIsThere(k)
  BY DEF FeedsInv, AdvertisedIsThere, TheNamedIsThere, NamedIsThere
<1>1. FeedsTypeOK /\ Untangled(k) BY DEF FeedsInv
<1>2. CASE \A p \in OfKind(k) : p.op = "upload" BY <1>1, <1>2 DEF Untangled, AtRest
<1>3. ASSUME NEW p \in OfKind(k), p.op # "upload" PROVE NamedIsThere(k)
  <2>1. k = "android" /\ p.op = "publish" /\ Carries(k, p)
    BY <1>1, <1>3, PushRow DEF Untangled, OfKind
  <2>2. p.at \in {"checked", "carried"} \/ feed[k].manifest = 0 BY <2>1 DEF Carries
  <2> QED BY <2>1, <2>2 DEF Carries, NamedIsThere
<1> QED BY <1>2, <1>3

\* No feed, and nothing announced, goes back in a step.
Rises(k) ==
  /\ feed'[k].manifest \in {0} \cup feed[k].manifest..MaxVersion
  /\ k = "desktop" => feed'[k].manifest >= feed[k].manifest
  /\ k \in behind \/ told'[k] >= told[k]

LEMMA KeptRises ==
  ASSUME FeedsTypeOK, NEW k \in FeedKinds, feed'[k].manifest = feed[k].manifest, told'[k] = told[k]
  PROVE  Rises(k)
<1>1. feed[k].manifest \in 0..MaxVersion /\ feed[k].manifest \in Nat /\ told[k] \in Nat
  BY DirectoryOf DEF FeedsTypeOK
<1> QED BY <1>1, FeedsAssumption DEF Rises

LEMMA PublishRises ==
  ASSUME FeedsInv, NEW p \in pushes, Publishing(p), NEW k \in FeedKinds, ~tangled'[k]
  PROVE  Rises(k)
<1>1. FeedsTypeOK BY DEF FeedsInv
<1>2. /\ p.kind \in FeedKinds /\ p \in OfKind(p.kind) /\ p.version \in Versions /\ p.version \in Nat
      /\ p.version \in 0..MaxVersion /\ p.op \in {"upload", "publish"}
  BY <1>1, PushRow DEF Push
<1>3. feed \in [FeedKinds -> Directory] /\ staging \in [FeedKinds -> Directory]
      /\ told \in [FeedKinds -> 0..MaxVersion]
  BY <1>1 DEF FeedsTypeOK
<1>4. feed[k].manifest \in 0..MaxVersion /\ feed[k].manifest \in Nat /\ told[k] \in Nat
  BY <1>3, DirectoryOf
<1>5. tangled' = tangled
  BY DEF Publishing, CopyManifest, CopyPackage, CopyEnds, EmptyFeed, MovePackage, WriteManifest,
         AnnounceFeed, PublishFails
<1>6. k = p.kind => Carries(k, p) BY <1>2, <1>5 DEF FeedsInv, Untangled
<1>7. CASE CopyManifest(p)
  <2>1. /\ p.kind = "desktop" /\ p.at = "checked" /\ told' = told
        /\ feed' = [feed EXCEPT ![p.kind].manifest = staging[p.kind].manifest]
    BY <1>7 DEF CopyManifest
  <2>2. p.op = "publish" BY <1>2, <2>1 DEF FeedsInv, UploadsHaveStarted
  <2>3. staging[p.kind].manifest \in 0..MaxVersion BY <1>2, <1>3, DirectoryOf
  <2>4. /\ \A j \in FeedKinds : j # p.kind => feed'[j] = feed[j]
        /\ feed'[p.kind].manifest = staging[p.kind].manifest
    BY <1>2, <1>3, <2>1, <2>3, Rewritten
  <2>5. k = p.kind => staging[k].manifest = p.version /\ p.version > feed[k].manifest
    BY <1>6, <2>1, <2>2 DEF Carries
  <2>6. CASE k # p.kind BY <1>1, <2>1, <2>4, <2>6, KeptRises
  <2>7. CASE k = p.kind BY <1>2, <1>4, <2>1, <2>4, <2>5, <2>7, FeedsAssumption DEF Rises
  <2> QED BY <2>6, <2>7
<1>8. CASE EmptyFeed(p)
  <2>1. p.kind = "android" /\ told' = told /\ feed' = [feed EXCEPT ![p.kind] = Empty]
    BY <1>8 DEF EmptyFeed
  <2>2. (\A j \in FeedKinds : j # p.kind => feed'[j] = feed[j]) /\ feed'[p.kind].manifest = 0
    BY <1>2, <1>3, <2>1, Blank
  <2>3. CASE k # p.kind BY <1>1, <2>1, <2>2, <2>3, KeptRises
  <2>4. CASE k = p.kind BY <1>4, <2>1, <2>2, <2>4 DEF Rises
  <2> QED BY <2>3, <2>4
<1>9. CASE WriteManifest(p)
  <2>1. /\ p.kind = "android" /\ p.at = "named" /\ told' = told
        /\ feed' = [feed EXCEPT ![p.kind].manifest = p.version]
    BY <1>9 DEF WriteManifest
  <2>2. p.op = "publish" BY <1>2, <2>1 DEF FeedsInv, UploadsHaveStarted
  <2>3. (\A j \in FeedKinds : j # p.kind => feed'[j] = feed[j]) /\ feed'[p.kind].manifest = p.version
    BY <1>2, <1>3, <2>1, Rewritten
  <2>4. k = p.kind => feed[k].manifest = 0 BY <1>6, <2>1, <2>2 DEF Carries
  <2>5. CASE k # p.kind BY <1>1, <2>1, <2>3, <2>5, KeptRises
  <2>6. CASE k = p.kind BY <1>2, <1>4, <2>1, <2>3, <2>4, <2>6, FeedsAssumption DEF Rises
  <2> QED BY <2>5, <2>6
<1>10. CASE AnnounceFeed(p)
  <2>1. p.at = "carried" /\ feed' = feed /\ told' = [told EXCEPT ![p.kind] = feed[p.kind].manifest]
    BY <1>10 DEF AnnounceFeed
  <2>2. p.op = "publish" BY <1>2, <2>1 DEF FeedsInv, UploadsHaveStarted
  <2>3. k = p.kind => feed[k].manifest = p.version /\ (k \in behind \/ told[k] <= p.version)
    BY <1>6, <2>1, <2>2 DEF Carries
  <2>4. CASE k # p.kind BY <1>1, <1>3, <2>1, <2>4, KeptRises
  <2>5. CASE k = p.kind BY <1>2, <1>3, <1>4, <2>1, <2>3, <2>5, FeedsAssumption DEF Rises
  <2> QED BY <2>4, <2>5
<1>11. CASE CopyPackage(p) \/ CopyEnds(p) \/ MovePackage(p)
  <2>1. PICK x \in {"none", "part", "whole"} :
          feed' = [feed EXCEPT ![p.kind].package[p.version] = x] /\ told' = told
    <3>1. staging[p.kind].package[p.version] \in {"none", "part", "whole"}
      BY <1>2, <1>3, DirectoryOf DEF Shape
    <3> QED BY <1>11, <3>1 DEF CopyPackage, CopyEnds, MovePackage, PackageFirst
  <2>2. \A j \in FeedKinds : feed'[j].manifest = feed[j].manifest
    <3>1. PICK g : g = [feed EXCEPT ![p.kind].package[p.version] = x] OBVIOUS
    <3>2. feed \in [FeedKinds -> Directory] /\ p.kind \in FeedKinds /\ p.version \in Versions
      BY <1>2, <1>3
    <3>3. /\ \A j \in FeedKinds : j # p.kind => g[j] = feed[j]
          /\ g[p.kind].manifest = feed[p.kind].manifest
      BY <3>1, <3>2, Repacked
    <3> QED BY <2>1, <3>1, <3>3
  <2> QED BY <1>1, <2>1, <2>2, KeptRises
<1>12. CASE PublishFails(p) BY <1>1, <1>12, KeptRises DEF PublishFails
<1> QED BY <1>7, <1>8, <1>9, <1>10, <1>11, <1>12 DEF Publishing

LEMMA StepRises ==
  ASSUME FeedsInv, [FeedsNext]_feedsVars, NEW k \in FeedKinds, ~tangled'[k]
  PROVE  Rises(k)
<1>1. FeedsTypeOK BY DEF FeedsInv
<1>2. ASSUME feed' = feed, told' = told PROVE Rises(k) BY <1>1, <1>2, KeptRises
<1>3. ASSUME NEW j \in FeedKinds, NEW v \in Versions,
             UploadManifest(j, v) \/ UploadPackage(j, v) \/ RequestPublish(j, v)
      PROVE  Rises(k)
  BY <1>2, <1>3 DEF UploadManifest, UploadPackage, RequestPublish
<1>4. ASSUME NEW j \in FeedKinds, Discard(j) PROVE Rises(k) BY <1>2, <1>4 DEF Discard
<1>5. ASSUME NEW p \in pushes, UploadEnds(p) \/ UploadFails(p) PROVE Rises(k)
  BY <1>2, <1>5 DEF UploadEnds, UploadFails
<1>6. ASSUME NEW p \in pushes, Publishing(p) PROVE Rises(k) BY <1>6, PublishRises
<1>7. CASE CutShort BY <1>2, <1>7 DEF CutShort
<1>8. CASE UNCHANGED feedsVars BY <1>2, <1>8 DEF feedsVars
<1> QED BY <1>3, <1>4, <1>5, <1>6, <1>7, <1>8 DEF FeedsNext

-----------------------------------------------------------------------------
(* The theorems.                                                            *)

\* One publish at a time, the package a manifest names is there, whole: on
\* Android at any moment of a publish and after any restart, on the desktop
\* whenever no publish is on its way (the publish handlers of the two update
\* services).
THEOREM NamedIsAlwaysThere == FeedsSpec => []AdvertisedIsThere
BY FeedsInvHolds, NamedIsSound, PTL

\* One publish at a time, no step puts an older version into a feed or
\* announces one, but for what is published first after a restart that emptied
\* the Android feed (the version check of a publish, and the announcement).
THEOREM VersionsAlwaysRise == FeedsSpec => VersionsRise
<1>1. FeedsInv /\ [FeedsNext]_feedsVars
      => [\A k \in FeedKinds : ~tangled'[k] =>
            /\ feed'[k].manifest \in {0} \cup feed[k].manifest..MaxVersion
            /\ k = "desktop" => feed'[k].manifest >= feed[k].manifest
            /\ k \in behind \/ told'[k] >= told[k]]_feedsVars
  BY StepRises DEF Rises
<1> QED BY FeedsInvHolds, <1>1, PTL DEF FeedsSpec, VersionsRise
==============================================================================
