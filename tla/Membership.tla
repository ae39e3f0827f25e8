----------------------------- MODULE Membership -----------------------------
(***************************************************************************)
(* Who has an account and a place in the server: invites, sign-ups, roles,  *)
(* kicks, bans, deleted accounts, sessions, sockets and the text channels.  *)
(*                                                                          *)
(* Every request is a check, an await and a write, so that two of them      *)
(* overlap.  The reads that one check makes are a single step; what a       *)
(* transaction or a single statement does is a single step.  A request      *)
(* whose row has gone by the time it writes fails and leaves nothing.       *)
(*                                                                          *)
(* One guild.  Mutes are left to VoiceRoster, the voice rooms a removal     *)
(* empties are left out.  The `system' account owns the first invite and    *)
(* is never deleted: it is not among the Users.                             *)
(*                                                                          *)
(* AnyInvite, CountedApart, NobodyLeft, SocketsOnly and SessionsStay are    *)
(* plausible bugs of the definition that follows each.                      *)
(***************************************************************************)
EXTENDS Integers, FiniteSets

CONSTANTS
  Users,        \* accounts that people may make
  Invites,      \* InviteCode rows that may be made
  First,        \* the one the seed makes
  System,       \* who made it
  MaxUses,      \* maxUses of the invites admins make, and of the first
  MaxTexts,     \* bound on text channels
  MaxInFlight,  \* bound on requests being handled at once
  MaxAsked,     \* bound on requests made
  MaxVisits     \* bound on sign-ins, connections and restarts

ASSUME MembershipAssumption ==
  /\ First \in Invites /\ System \notin Users
  /\ {MaxUses, MaxTexts, MaxInFlight, MaxAsked, MaxVisits} \subseteq Nat
  /\ MaxUses > 0 /\ MaxTexts > 1

VARIABLES
  accounts, \* User rows; a deleted name that signs up again is another account
  role,     \* GuildMember rows
  bannedBy, \* GuildBan rows: who issued it, System for none
  sessions, \* accounts with a Session row
  windows,  \* accounts with a socket: none, in its handshake, or connected
  invites,  \* InviteCode rows
  texts,    \* text channels of the guild
  requests, \* being handled
  joined,   \* read by properties only: who joined with which invite
  raced,    \* read by properties only: two requests have overlapped
  excused,  \* read by properties only: banned people whose session a ban did not owe to end
  budget    \* bounds that are left

tables == <<accounts, role, bannedBy, sessions, invites, texts>>
ghosts == <<joined, raced, excused>>
membershipVars == <<tables, windows, requests, ghosts, budget>>

Ops == {"sign up", "invite", "revoke", "promote", "demote", "kick", "ban", "unban", "delete",
        "set password", "add text", "drop text"}
InviteRow == [is : {"unmade", "open", "revoked", "expired", "gone"}, uses : 0..MaxUses + MaxInFlight,
              max : 1..MaxUses, by : Users \cup {System}]
\* `on' is the account acted on; a sign-up carries its invite, and `lead' says
\* that its account will be an admin: the hook found none, or the console asks.
Request == [op : Ops, by : Users \cup {System}, on : Users \cup {System}, code : Invites,
            lead : BOOLEAN, asked : BOOLEAN, at : {"checked", "made", "counted", "joined", "cut"}]

TypeOK ==
  /\ accounts \in [Users -> {"unmade", "there", "deleted"}]
  /\ role \in [Users -> {"none", "member", "admin"}]
  /\ bannedBy \in [Users -> Users \cup {System}]
  /\ sessions \subseteq {u \in Users : accounts[u] = "there"}
  /\ windows \in [Users -> {"none", "handshake", "connected"}]
  /\ invites \in [Invites -> InviteRow]
  /\ texts \in 0..MaxTexts
  /\ requests \subseteq Request
  /\ joined \in [Invites -> SUBSET Users] /\ raced \in BOOLEAN /\ excused \subseteq Users
  /\ budget \in [asks : 0..MaxAsked, visits : 0..MaxVisits]

Admins == {u \in Users : role[u] = "admin"}
Exists(u) == accounts[u] = "there"
IsBanned(u) == bannedBy[u] # System

\* The seeded server: nobody in it, an invite for the first who comes.
Init ==
  /\ accounts = [u \in Users |-> "unmade"] /\ role = [u \in Users |-> "none"]
  /\ bannedBy = [u \in Users |-> System]
  /\ sessions = {} /\ windows = [u \in Users |-> "none"]
  /\ invites = [i \in Invites |->
       [is |-> IF i = First THEN "open" ELSE "unmade", uses |-> 0, max |-> MaxUses, by |-> System]]
  /\ texts = 2
  /\ requests = {}
  /\ joined = [i \in Invites |-> {}] /\ raced = FALSE /\ excused = {}
  /\ budget = [asks |-> MaxAsked, visits |-> MaxVisits]

-----------------------------------------------------------------------------
(* Requests and their checks.                                               *)

Asking(r) ==
  /\ budget.asks > 0 /\ Cardinality(requests) < MaxInFlight /\ r \notin requests
  /\ budget' = [budget EXCEPT !.asks = @ - 1]
  /\ raced' = (raced \/ requests # {})
  /\ requests' = requests \cup {r}

Moves(r, at) == requests' = (requests \ {r}) \cup {[r EXCEPT !.at = at]}
Ends(r) == requests' = requests \ {r}

AnyInvite(i) == invites[i].is = "open"
Usable(i) == invites[i].is = "open" /\ invites[i].uses < invites[i].max

SignUp(u, i) ==
  /\ Usable(i)
  /\ Asking([op |-> "sign up", by |-> System, on |-> u, code |-> i, lead |-> FALSE,
             asked |-> FALSE, at |-> "checked"])
  /\ UNCHANGED <<tables, windows, joined, excused>>

\* The console makes an account through an invite of its own, used once.
CreateUser(a, u, i, lead) ==
  /\ role[a] = "admin" /\ a \in sessions /\ accounts[u] = "unmade" /\ invites[i].is = "unmade"
  /\ invites' = [invites EXCEPT ![i] = [is |-> "open", uses |-> 0, max |-> 1, by |-> a]]
  /\ Asking([op |-> "sign up", by |-> a, on |-> u, code |-> i, lead |-> FALSE,
             asked |-> lead, at |-> "checked"])
  /\ UNCHANGED <<accounts, role, bannedBy, sessions, texts, windows, joined, excused>>

\* assertCanModerate: an admin, not of oneself, a member, not another admin.
MayModerate(a, u) == u # a /\ role[u] = "member"

NobodyLeft(u) == FALSE
OnlyAdmin(u) == Cardinality(Admins) <= 1 /\ role[u] = "admin"

\* What each request of an admin checks beyond being made by one.
Checked(op, a, u) ==
  CASE op \in {"kick", "ban"} -> MayModerate(a, u)
    [] op = "demote" -> Exists(u) /\ ~OnlyAdmin(u)
    [] op = "delete" -> u # a
    [] op \in {"promote", "set password"} -> Exists(u)
    [] op = "unban" -> TRUE
    [] op = "drop text" -> u = a /\ texts > 1
    [] op = "add text" -> u = a
    [] op \in {"invite", "revoke"} -> u = a

Ask(op, a, u, i) ==
  /\ role[a] = "admin" /\ a \in sessions
  /\ op \in Ops \ {"sign up"} /\ Checked(op, a, u)
  /\ op \in {"invite", "revoke"} \/ i = First
  /\ Asking([op |-> op, by |-> a, on |-> u, code |-> i, lead |-> FALSE, asked |-> FALSE,
             at |-> "checked"])
  /\ UNCHANGED <<tables, windows, joined, excused>>

-----------------------------------------------------------------------------
(* Sign-ups.                                                                *)

MakeAccount(r) ==
  /\ r.op = "sign up" /\ r.at = "checked" /\ accounts[r.on] = "unmade"
  /\ accounts' = [accounts EXCEPT ![r.on] = "there"]
  /\ Moves(r, "made")
  /\ UNCHANGED <<role, bannedBy, sessions, invites, texts, windows, ghosts, budget>>

\* The hook after the account: a code whose row has gone joins nothing.
CountAdmins(r) ==
  /\ r.op = "sign up" /\ r.at = "made" /\ invites[r.code].is # "gone"
  /\ requests' = (requests \ {r})
                   \cup {[r EXCEPT !.at = "counted", !.lead = (Admins = {})]}
  /\ UNCHANGED <<tables, windows, ghosts, budget>>

Used(i) == [invites EXCEPT ![i].uses = @ + 1]
CountedApart(r) == invites' = Used(r.code) /\ UNCHANGED <<role, joined>>

\* One transaction: the use is counted and the membership made.
Join(r) ==
  /\ invites' = Used(r.code)
  /\ role' = [role EXCEPT ![r.on] = IF r.lead THEN "admin" ELSE "member"]
  /\ joined' = [joined EXCEPT ![r.code] = @ \cup {r.on}]

JoinGuild(r) ==
  /\ r.op = "sign up" /\ r.at = "counted" /\ invites[r.code].is # "gone" /\ Exists(r.on)
  /\ Join(r)
  /\ sessions' = sessions \cup {r.on}
  /\ IF r.asked THEN Moves(r, "joined") ELSE Ends(r)
  /\ UNCHANGED <<accounts, bannedBy, texts, windows, raced, excused, budget>>

Lead(r) ==
  /\ r.op = "sign up" /\ r.at = "joined"
  /\ role' = [role EXCEPT ![r.on] = IF @ = "none" THEN @ ELSE "admin"]
  /\ Ends(r)
  /\ UNCHANGED <<accounts, bannedBy, sessions, invites, texts, windows, ghosts, budget>>

\* A code whose row has gone before it is read again joins nothing.
JoinNothing(r) ==
  /\ r.op = "sign up" /\ r.at = "made" /\ invites[r.code].is = "gone" /\ Exists(r.on)
  /\ sessions' = sessions \cup {r.on}
  /\ Ends(r)
  /\ UNCHANGED <<accounts, role, bannedBy, invites, texts, windows, ghosts, budget>>

\* The name is taken, or the code or the account goes on the way.
SignUpFails(r) ==
  /\ r.op = "sign up"
  /\ \/ r.at = "checked" /\ accounts[r.on] # "unmade"
     \/ r.at = "counted" /\ invites[r.code].is = "gone"
     \/ r.at \in {"made", "counted"} /\ ~Exists(r.on)
  /\ Ends(r)
  /\ UNCHANGED <<tables, windows, ghosts, budget>>

-----------------------------------------------------------------------------
(* What admins do.                                                          *)

Writes(r, op) == r.op = op /\ r.at = "checked"

MakeInvite(r) ==
  /\ Writes(r, "invite") /\ invites[r.code].is = "unmade" /\ Exists(r.by)
  /\ invites' = [invites EXCEPT ![r.code] = [is |-> "open", uses |-> 0, max |-> MaxUses, by |-> r.by]]
  /\ Ends(r)
  /\ UNCHANGED <<accounts, role, bannedBy, sessions, texts, windows, ghosts, budget>>

RevokeInvite(r) ==
  /\ Writes(r, "revoke") /\ invites[r.code].is \in {"open", "expired", "revoked"}
  /\ invites' = [invites EXCEPT ![r.code].is = "revoked"]
  /\ Ends(r)
  /\ UNCHANGED <<accounts, role, bannedBy, sessions, texts, windows, ghosts, budget>>

SetRole(r) ==
  /\ Writes(r, "promote") \/ Writes(r, "demote")
  /\ role' = [role EXCEPT ![r.on] = IF @ = "none" THEN @
                                      ELSE IF r.op = "promote" THEN "admin" ELSE "member"]
  /\ Ends(r)
  /\ UNCHANGED <<accounts, bannedBy, sessions, invites, texts, windows, ghosts, budget>>

\* disconnectUser finds the sockets that have finished their handshake.
Disconnected(u) == [windows EXCEPT ![u] = IF @ = "connected" THEN "none" ELSE @]

Kick(r) ==
  /\ Writes(r, "kick") /\ role[r.on] # "none"
  /\ role' = [role EXCEPT ![r.on] = "none"]
  /\ windows' = Disconnected(r.on)
  /\ Ends(r)
  /\ UNCHANGED <<accounts, bannedBy, sessions, invites, texts, ghosts, budget>>

BanRow(r) == bannedBy' = [bannedBy EXCEPT ![r.on] = r.by]

Ban(r) ==
  /\ Writes(r, "ban") /\ role[r.on] # "none" /\ Exists(r.by)
  /\ role' = [role EXCEPT ![r.on] = "none"]
  /\ BanRow(r)
  /\ windows' = Disconnected(r.on)
  /\ excused' = excused \ {r.on}
  /\ Moves(r, "cut")
  /\ UNCHANGED <<accounts, sessions, invites, texts, joined, raced, budget>>

SocketsOnly(u) == UNCHANGED sessions
SignedOut(u) == sessions' = sessions \ {u}

\* The last step of a ban, and what a new password does.
EndSessions(r) ==
  /\ (r.op = "ban" /\ r.at = "cut") \/ (Writes(r, "set password") /\ Exists(r.on))
  /\ SignedOut(r.on)
  /\ Ends(r)
  /\ UNCHANGED <<accounts, role, bannedBy, invites, texts, windows, ghosts, budget>>

Unban(r) ==
  /\ Writes(r, "unban")
  /\ bannedBy' = [bannedBy EXCEPT ![r.on] = System]
  /\ Ends(r)
  /\ UNCHANGED <<accounts, role, sessions, invites, texts, windows, ghosts, budget>>

SessionsStay(u) == sessions
SessionsWithout(u) == sessions \ {u}

\* The account's rows go with it: its invites and the bans it issued too.
DeleteAccount(r) ==
  /\ Writes(r, "delete") /\ Exists(r.on)
  /\ accounts' = [accounts EXCEPT ![r.on] = "deleted"]
  /\ role' = [role EXCEPT ![r.on] = "none"]
  /\ sessions' = SessionsWithout(r.on)
  /\ bannedBy' = [u \in Users |-> IF r.on \in {u, bannedBy[u]} THEN System ELSE bannedBy[u]]
  /\ invites' = [i \in Invites |-> IF invites[i].by = r.on THEN [invites[i] EXCEPT !.is = "gone"]
                                   ELSE invites[i]]
  /\ Ends(r)
  /\ UNCHANGED <<texts, windows, ghosts, budget>>

AddText(r) ==
  /\ Writes(r, "add text") /\ texts < MaxTexts
  /\ texts' = texts + 1
  /\ Ends(r)
  /\ UNCHANGED <<accounts, role, bannedBy, sessions, invites, windows, ghosts, budget>>

DropText(r) ==
  /\ Writes(r, "drop text") /\ texts > 0
  /\ texts' = texts - 1
  /\ Ends(r)
  /\ UNCHANGED <<accounts, role, bannedBy, sessions, invites, windows, ghosts, budget>>

\* The row to change has gone, or the channel is another request's to delete.
Fails(r) ==
  /\ \/ Writes(r, "invite") /\ (invites[r.code].is # "unmade" \/ ~Exists(r.by))
     \/ Writes(r, "revoke") /\ invites[r.code].is \in {"unmade", "gone"}
     \/ Writes(r, "kick") /\ role[r.on] = "none"
     \/ Writes(r, "ban") /\ (role[r.on] = "none" \/ ~Exists(r.by))
     \/ (Writes(r, "delete") \/ Writes(r, "set password")) /\ ~Exists(r.on)
     \/ Writes(r, "drop text") \/ (Writes(r, "add text") /\ texts = MaxTexts)
  /\ Ends(r)
  /\ UNCHANGED <<tables, windows, ghosts, budget>>

-----------------------------------------------------------------------------
(* People, time and the process.                                            *)

Visit == budget.visits > 0 /\ budget' = [budget EXCEPT !.visits = @ - 1]

\* A password opens a session whatever has become of the membership.
SignIn(u) ==
  /\ Visit /\ Exists(u)
  /\ sessions' = sessions \cup {u}
  /\ excused' = IF IsBanned(u) THEN excused \cup {u} ELSE excused
  /\ UNCHANGED <<accounts, role, bannedBy, invites, texts, windows, requests, joined, raced>>

\* A socket is let in by the session it shows; it is in nobody's room before
\* handleConnection.
Handshake(u) ==
  /\ Visit /\ u \in sessions /\ windows[u] = "none"
  /\ windows' = [windows EXCEPT ![u] = "handshake"]
  /\ UNCHANGED <<tables, requests, ghosts>>

Connect(u) ==
  /\ windows[u] = "handshake"
  /\ windows' = [windows EXCEPT ![u] = "connected"]
  /\ UNCHANGED <<tables, requests, ghosts, budget>>

Expire(i) ==
  /\ Visit /\ invites[i].is = "open"
  /\ invites' = [invites EXCEPT ![i].is = "expired"]
  /\ UNCHANGED <<accounts, role, bannedBy, sessions, texts, windows, requests, ghosts>>

\* The process dies between two steps of what it was doing.
Restart ==
  /\ Visit /\ requests # {}
  /\ requests' = {} /\ windows' = [u \in Users |-> "none"]
  /\ excused' = excused \cup {r.on : r \in {q \in requests : q.at = "cut"}}
  /\ UNCHANGED <<tables, joined, raced>>

SignUpSteps(r) ==
  \/ MakeAccount(r) \/ CountAdmins(r) \/ JoinGuild(r) \/ Lead(r)
  \/ JoinNothing(r) \/ SignUpFails(r)
AdminSteps(r) ==
  \/ MakeInvite(r) \/ RevokeInvite(r) \/ SetRole(r) \/ Kick(r) \/ Ban(r) \/ EndSessions(r)
  \/ Unban(r) \/ DeleteAccount(r) \/ AddText(r) \/ DropText(r) \/ Fails(r)

Next ==
  \/ \E u \in Users, i \in Invites : SignUp(u, i)
  \/ \E a, u \in Users, i \in Invites, lead \in BOOLEAN : CreateUser(a, u, i, lead)
  \/ \E op \in Ops, a, u \in Users, i \in Invites : Ask(op, a, u, i)
  \/ \E r \in requests : SignUpSteps(r) \/ AdminSteps(r)
  \/ \E u \in Users : SignIn(u) \/ Handshake(u) \/ Connect(u)
  \/ \E i \in Invites : Expire(i)
  \/ Restart

Spec == Init /\ [][Next]_membershipVars

-----------------------------------------------------------------------------
(* Properties.                                                              *)

\* A use is counted if and only if somebody has joined by it, so that a failed
\* sign-up burns no invite; and however many sign-ups overlap, an invite is
\* overrun by fewer people than there were requests at once.  [the invite is
\* checked before the account is made and counted after]
InvitesAreCounted ==
  \A i \in Invites :
    /\ invites[i].uses = Cardinality(joined[i])
    /\ invites[i].uses + Cardinality({r \in requests : r.op = "sign up" /\ r.code = i
                                                        /\ r.at # "joined"})
         <= invites[i].max + MaxInFlight - 1

\* As long as no two requests have overlapped the rules behind the checks hold:
\* once somebody has joined there is an admin, whatever admins do to each other;
\* there is a text channel to open; and no invite is used too often.  [each
\* rule is a count, an await and a write]
RulesHoldAlone ==
  ~raced =>
    /\ (\E i \in Invites : joined[i] # {}) => Admins # {}
    /\ texts > 0
    /\ \A i \in Invites : invites[i].uses <= invites[i].max

\* A ban takes the place and the sessions: the banned are members again by no
\* sequence of requests, and are signed in only if they signed in again, or if
\* the ban has not got that far or was stopped on the way by a restart.
BanSticks ==
  \A u \in Users :
    IsBanned(u) =>
      /\ role[u] = "none"
      /\ u \in sessions =>
           u \in excused \/ \E r \in requests : r.op = "ban" /\ r.on = u /\ r.at = "cut"

\* What the tables keep to, all of it.
MembershipHolds == TypeOK /\ InvitesAreCounted /\ RulesHoldAlone
=============================================================================
