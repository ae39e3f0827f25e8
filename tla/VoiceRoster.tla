------------------------------ MODULE VoiceRoster ------------------------------
(***************************************************************************)
(* Who is in which voice channel, and who may be heard there: VoiceService, *)
(* the webhook and token controllers, and the LiveKit server as they use it.*)
(*                                                                          *)
(* LiveKit holds the calls. The chat server keeps a cache of who is in them *)
(* (byChannel), re-read whenever a webhook says something changed and on a  *)
(* timer, and makes each participant's grant agree with the mute column.    *)
(* A read is several steps: LiveKit answers, the answer arrives and is      *)
(* applied, the mutes are looked up, the grants go out one by one.  Between *)
(* any two of them anybody may join, leave or be muted.                     *)
(*                                                                          *)
(* Webhooks may be lost, repeated and late.  Reads and look-ups may fail.   *)
(* Channels are voice channels of a server: a call in a DM is told to its   *)
(* participants alone and has no rule on who may speak.                     *)
(*                                                                          *)
(* RefreshAtOnce, SweptListed and the like are plausible bugs of the        *)
(* definition that follows them: they show that the properties notice.      *)
(***************************************************************************)
EXTENDS Naturals, FiniteSets, Functions, SequencesExt

CONSTANTS
  Users, Channels,
  MaxMoves,     \* bound on joins and leaves
  MaxRulings,   \* bound on mutes, unmutes and changes of a room's rule
  MaxFailures,  \* bound on requests that fail
  MaxRestarts,  \* bound on restarts of the chat server
  MaxHeld       \* bound on join tokens held at once

ASSUME BoundsAssumption ==
  MaxMoves \in Nat /\ MaxRulings \in Nat /\ MaxFailures \in Nat /\ MaxRestarts \in Nat

Sources == {"camera", "microphone", "screen", "screenAudio"}

\* The participants of one call and what each may publish.
Calls == UNION {[who -> SUBSET Sources] : who \in SUBSET Users}
Grants == [channel : Channels, user : Users, sources : SUBSET Sources]
NobodyThere == [u \in {} |-> {}]

VARIABLES
  call,          \* LiveKit: the calls
  hooks,         \* channels with a webhook, or a refresh of our own, on its way
  byChannel,     \* VoiceService.byChannel
  reads,         \* reads in flight
  queued,        \* VoiceService.queued
  grants,        \* updateParticipant calls in flight
  announcements, \* VoiceService.broadcasts: what is still to be announced
  heard,         \* what clients, and the gateway's voiceRooms, were last told
  tokens,        \* join tokens people hold
  muted,         \* members whose mutedUntil is in the future
  afk,           \* channels that are listen-only
  syncing,       \* a mute or unmute that has yet to call refresh
  missed,        \* channels owed a read: a webhook was lost, or a read failed
  unannounced,   \* channels whose last announcement failed
  budget         \* what is left of each bound

vars == <<call, hooks, byChannel, reads, queued, grants, announcements, heard, tokens,
          muted, afk, syncing, missed, unannounced, budget>>
service == <<byChannel, reads, queued, grants, announcements, heard, syncing, unannounced>>

TypeOK ==
  /\ call \in [Channels -> Calls]
  /\ hooks \subseteq Channels /\ queued \subseteq Channels
  /\ byChannel \in [Channels -> SUBSET Users]
  /\ reads \subseteq [channel : Channels, phase : {"asked", "answered", "policy", "granting"},
                      seen : Calls]
  /\ grants \subseteq Grants /\ tokens \subseteq Grants
  /\ announcements \in Seq([channel : Channels, users : SUBSET Users])
  /\ heard \in [Channels -> SUBSET Users]
  /\ muted \subseteq Users /\ afk \subseteq Channels
  /\ syncing \in BOOLEAN
  /\ missed \subseteq Channels /\ unannounced \subseteq Channels
  /\ budget \in [{"moves", "rulings", "failures", "restarts"} -> Nat]

Init ==
  /\ call = [c \in Channels |-> NobodyThere]
  /\ hooks = {} /\ queued = {} /\ reads = {} /\ grants = {} /\ tokens = {}
  /\ byChannel = [c \in Channels |-> {}] /\ heard = [c \in Channels |-> {}]
  /\ announcements = <<>>
  /\ muted = {} /\ afk = {} /\ syncing = FALSE
  /\ missed = {} /\ unannounced = {}
  /\ budget = [moves |-> MaxMoves, rulings |-> MaxRulings,
               failures |-> MaxFailures, restarts |-> MaxRestarts]

Spend(what) == budget[what] > 0 /\ budget' = [budget EXCEPT ![what] = @ - 1]

\* publishableSources: a room's own silence is the wider of the two.
publishableSources(isMuted, listenOnly) ==
  IF listenOnly THEN {"camera", "screen"}
  ELSE IF isMuted THEN Sources \ {"microphone"} ELSE Sources

Allowed(u, c) == publishableSources(u \in muted, c \in afk)

-----------------------------------------------------------------------------
(* Refreshing a channel.                                                    *)

Reading(c) == \E r \in reads : r.channel = c
Asked(c) == [channel |-> c, phase |-> "asked", seen |-> NobodyThere]

\* refresh, as it was: every webhook starts a read of its own.
RefreshAtOnce(channels) ==
  /\ reads' = reads \cup {Asked(c) : c \in channels}
  /\ UNCHANGED queued
\* refresh, for some channels at once: one read in flight for each, and one
\* more to follow it.
Refresh(channels) ==
  /\ reads' = reads \cup {Asked(c) : c \in {d \in channels : ~Reading(d)}}
  /\ queued' = queued \cup {c \in channels : Reading(c)}

\* A read settles; the one queued behind it starts.
Settle(r) ==
  IF r.channel \in queued
  THEN /\ reads' = (reads \ {r}) \cup {Asked(r.channel)}
       /\ queued' = queued \ {r.channel}
  ELSE /\ reads' = reads \ {r}
       /\ UNCHANGED queued

Proceed(r, phase) ==
  /\ reads' = (reads \ {r}) \cup {[r EXCEPT !.phase = phase]}
  /\ UNCHANGED queued

-----------------------------------------------------------------------------
(* LiveKit and the people in it.                                            *)

\* LiveKit tells the chat server, or means to.
Changed(c, delivered) ==
  /\ hooks' = IF delivered THEN hooks \cup {c} ELSE hooks
  /\ missed' = IF delivered THEN missed ELSE missed \cup {c}

\* token: the grant is the rule of the moment it is minted.
Mint(u, c) ==
  /\ Cardinality(tokens) < MaxHeld
  /\ tokens' = tokens \cup {[channel |-> c, user |-> u, sources |-> Allowed(u, c)]}
  /\ UNCHANGED <<call, hooks, muted, afk, missed, budget, service>>

\* A token lives ten minutes.
Expire(t) ==
  /\ t \in tokens
  /\ tokens' = tokens \ {t}
  /\ UNCHANGED <<call, hooks, muted, afk, missed, budget, service>>

Join(t, delivered) ==
  /\ t \in tokens
  /\ t.user \notin DOMAIN call[t.channel]
  /\ Spend("moves")
  /\ call' = [call EXCEPT ![t.channel] =
       [u \in DOMAIN @ \cup {t.user} |-> IF u = t.user THEN t.sources ELSE @[u]]]
  /\ Changed(t.channel, delivered)
  /\ UNCHANGED <<tokens, muted, afk, service>>

\* Some people leave a call at once: one hangs up or is removed by moderation
\* (removeParticipant), or all are, with the room (closeRoom).  Both of these
\* call refresh themselves once LiveKit has answered.
Leave(who, c, delivered) ==
  /\ who # {} /\ who \subseteq DOMAIN call[c]
  /\ Cardinality(who) = 1 \/ (who = DOMAIN call[c] /\ delivered)
  /\ Spend("moves")
  /\ call' = [call EXCEPT ![c] = Restrict(@, DOMAIN @ \ who)]
  /\ Changed(c, delivered)
  /\ UNCHANGED <<tokens, muted, afk, service>>

-----------------------------------------------------------------------------
(* What makes the server look.                                              *)

\* receive; a webhook may come again.
Deliver(c, again) ==
  /\ c \in hooks
  /\ hooks' = IF again THEN hooks ELSE hooks \ {c}
  /\ Refresh({c})
  /\ UNCHANGED <<call, byChannel, grants, announcements, heard, tokens, muted, afk,
                 syncing, missed, unannounced, budget>>

Listed == {c \in Channels : DOMAIN call[c] # {}}
SweptListed == Listed
\* reconcile visits the rooms LiveKit lists and those we still believe in.
Swept == Listed \cup {c \in Channels : byChannel[c] # {}}

\* reconcile, every half-minute and at startup.
Sweep ==
  /\ Refresh(Swept)
  /\ UNCHANGED <<call, hooks, byChannel, grants, announcements, heard, tokens, muted, afk,
                 syncing, missed, unannounced, budget>>

\* mute and unmute write the row, then syncMutes re-reads every channel.
Rule(u) ==
  /\ Spend("rulings")
  /\ muted' = IF u \in muted THEN muted \ {u} ELSE muted \cup {u}
  /\ syncing' = TRUE
  /\ UNCHANGED <<call, hooks, byChannel, reads, queued, grants, announcements, heard,
                 tokens, afk, missed, unannounced>>

SyncMutes ==
  /\ syncing
  /\ syncing' = FALSE
  /\ Refresh(Channels)
  /\ UNCHANGED <<call, hooks, byChannel, grants, announcements, heard, tokens, muted, afk,
                 missed, unannounced, budget>>

\* A mute runs out, or a room's rule is changed in the database: nobody is told.
RuleSilently ==
  /\ Spend("rulings")
  /\ \/ \E u \in muted : muted' = muted \ {u} /\ UNCHANGED afk
     \/ \E c \in Channels \ afk : afk' = afk \cup {c} /\ UNCHANGED muted
  /\ UNCHANGED <<call, hooks, tokens, missed, service>>

-----------------------------------------------------------------------------
(* A read, step by step.                                                    *)

\* listParticipants, at LiveKit.
Answer(r) ==
  /\ r \in reads /\ r.phase = "asked"
  /\ reads' = (reads \ {r}) \cup {[r EXCEPT !.phase = "answered", !.seen = call[r.channel]]}
  /\ missed' = missed \ {r.channel}
  /\ UNCHANGED <<call, hooks, byChannel, queued, grants, announcements, heard, tokens,
                 muted, afk, syncing, unannounced, budget>>

\* Not answering is not the same as answering that the room is empty: the
\* cache is left alone.
ReadFails(r) ==
  /\ r \in reads /\ r.phase \in {"asked", "answered"}
  /\ Spend("failures")
  /\ Settle(r)
  /\ missed' = missed \cup {r.channel}
  /\ UNCHANGED <<call, hooks, byChannel, grants, announcements, heard, tokens, muted, afk,
                 syncing, unannounced>>

AnnouncedWhileBusy(c, users) ==
  IF users = {} THEN announcements ELSE Append(announcements, [channel |-> c, users |-> users])
\* apply announces a list that is not the one it had, after those before it.
Announced(c, users) ==
  IF users = byChannel[c] THEN announcements
  ELSE Append(announcements, [channel |-> c, users |-> users])

\* apply, then the look-up of the mutes unless nobody is there.
Apply(r) ==
  /\ r \in reads /\ r.phase = "answered"
  /\ announcements' = Announced(r.channel, DOMAIN r.seen)
  /\ byChannel' = [byChannel EXCEPT ![r.channel] = DOMAIN r.seen]
  /\ IF DOMAIN r.seen = {} THEN Settle(r) ELSE Proceed(r, "policy")
  /\ UNCHANGED <<call, hooks, grants, heard, tokens, muted, afk, syncing, missed,
                 unannounced, budget>>

\* Grants for the muted alone: nothing hands a microphone back.
NeededToSilence(r) ==
  {g \in Grants : /\ g.channel = r.channel /\ g.user \in DOMAIN r.seen
                  /\ g.user \in muted
                  /\ g.sources = Allowed(g.user, r.channel)}
\* applyMicPolicy: a grant for whoever's is not what it should be.
Needed(r) ==
  {g \in Grants : /\ g.channel = r.channel /\ g.user \in DOMAIN r.seen
                  /\ g.sources = Allowed(g.user, r.channel)
                  /\ g.sources # r.seen[g.user]}

\* micPolicyAmong, and the calls that follow from it.
Police(r) ==
  /\ r \in reads /\ r.phase = "policy"
  /\ grants' = grants \cup Needed(r)
  /\ Proceed(r, "granting")
  /\ UNCHANGED <<call, hooks, byChannel, announcements, heard, tokens, muted, afk, syncing,
                 missed, unannounced, budget>>

PolicyFails(r) ==
  /\ r \in reads /\ r.phase = "policy"
  /\ Spend("failures")
  /\ Settle(r)
  /\ UNCHANGED <<call, hooks, byChannel, grants, announcements, heard, tokens, muted, afk,
                 syncing, missed, unannounced>>

\* updateParticipant. For somebody who has gone it is refused, and the refusal
\* ends the read that asked without waiting for the rest.
GrantLands(g) ==
  /\ g \in grants
  /\ grants' = grants \ {g}
  /\ IF g.user \in DOMAIN call[g.channel]
     THEN /\ call' = [call EXCEPT ![g.channel][g.user] = g.sources]
          /\ UNCHANGED <<reads, queued>>
     ELSE /\ UNCHANGED call
          /\ \/ \E r \in reads : r.channel = g.channel /\ r.phase = "granting" /\ Settle(r)
             \/ /\ ~\E r \in reads : r.channel = g.channel /\ r.phase = "granting"
                /\ UNCHANGED <<reads, queued>>
  /\ UNCHANGED <<hooks, byChannel, announcements, heard, tokens, muted, afk, syncing,
                 missed, unannounced, budget>>

Granted(r) ==
  /\ r \in reads /\ r.phase = "granting"
  /\ ~\E g \in grants : g.channel = r.channel
  /\ Settle(r)
  /\ UNCHANGED <<call, hooks, byChannel, grants, announcements, heard, tokens, muted, afk,
                 syncing, missed, unannounced, budget>>

\* The next announcement: the channel is looked up, then everybody is told. A
\* look-up that fails is logged, and the chain goes on.
Announce(found) ==
  /\ announcements # <<>>
  /\ LET a == Head(announcements)
     IN  IF found
         THEN /\ heard' = [heard EXCEPT ![a.channel] = a.users]
              /\ unannounced' = unannounced \ {a.channel}
              /\ UNCHANGED budget
         ELSE /\ Spend("failures")
              /\ unannounced' = unannounced \cup {a.channel}
              /\ UNCHANGED heard
  /\ announcements' = Tail(announcements)
  /\ UNCHANGED <<call, hooks, byChannel, reads, queued, grants, tokens, muted, afk, syncing,
                 missed>>

\* The chat server restarts; the calls go on without it, and webhooks sent
\* meanwhile are lost.
Restart ==
  /\ Spend("restarts")
  /\ byChannel' = [c \in Channels |-> {}] /\ heard' = [c \in Channels |-> {}]
  /\ reads' = {} /\ queued' = {} /\ grants' = {} /\ announcements' = <<>>
  /\ hooks' = {} /\ syncing' = FALSE /\ unannounced' = {}
  /\ missed' = Channels
  /\ UNCHANGED <<call, tokens, muted, afk>>

Next ==
  \/ \E u \in Users, c \in Channels : Mint(u, c)
  \/ \E t \in tokens : Expire(t) \/ \E delivered \in BOOLEAN : Join(t, delivered)
  \/ \E who \in SUBSET Users, c \in Channels, delivered \in BOOLEAN : Leave(who, c, delivered)
  \/ \E c \in Channels, again \in BOOLEAN : Deliver(c, again)
  \/ \E u \in Users : Rule(u)
  \/ RuleSilently \/ SyncMutes \/ Sweep \/ Restart
  \/ \E r \in reads :
       \/ Answer(r) \/ ReadFails(r) \/ Apply(r)
       \/ Police(r) \/ PolicyFails(r) \/ Granted(r)
  \/ \E g \in grants : GrantLands(g)
  \/ \E found \in BOOLEAN : Announce(found)

\* The event loop runs what is ready and the timer keeps firing; LiveKit and
\* the database answer what is asked of them, but for the failures above.
Fairness ==
  /\ WF_vars(Sweep) /\ WF_vars(SyncMutes) /\ WF_vars(Announce(TRUE))
  /\ \A c \in Channels : WF_vars(Deliver(c, FALSE))
  /\ WF_vars(\E r \in reads : Answer(r))
  /\ WF_vars(\E r \in reads : Apply(r))
  /\ WF_vars(\E r \in reads : Police(r))
  /\ WF_vars(\E r \in reads : Granted(r))
  /\ WF_vars(\E g \in grants : GrantLands(g))

Spec == Init /\ [][Next]_vars /\ Fairness

-----------------------------------------------------------------------------

\* With nothing on its way and no read lost, the cache is who is really in the
\* call: "a join immediately followed by a leave" cannot settle on the join's
\* answer, however webhooks and answers overtake each other (refresh, track,
\* read, apply).
CacheIsTheCall ==
  \A c \in Channels :
    c \notin hooks \cup missed /\ ~Reading(c) => byChannel[c] = DOMAIN call[c]

\* With nothing left to announce, clients were last told what the cache holds:
\* two quick changes do not reach them in the wrong order (apply's chain).
HeardIsTheCache ==
  \A c \in Channels :
    (c \notin unannounced /\ \A i \in DOMAIN announcements : announcements[i].channel # c)
      => heard[c] = byChannel[c]

\* What clients were last told is who is in the call, whatever order webhooks,
\* answers and look-ups came in, for every channel that has neither changed
\* since nor anything on its way: both of the above.
RosterIsHeard == CacheIsTheCall /\ HeardIsTheCache

\* The same, in states that are typed: nobody but accounts in any call, list
\* or announcement, however calls, reads and grants overlap.
RosterIsSound == TypeOK /\ RosterIsHeard

\* "a dropped, duplicated or out-of-order webhook cannot leave a ghost sitting
\* in a channel forever": once people stop moving, the cache comes to agree
\* with the calls and stays so.
RosterSettles == <>[](\A c \in Channels : byChannel[c] = DOMAIN call[c])

\* A mute "behaves like the deadline it is stored as": once people and rules
\* stop changing, everybody in a call may publish what the rules allow, the
\* muted without a microphone and the released with one, whatever token they
\* came in with and whichever grant went astray.
GrantsSettle ==
  <>[](\A c \in Channels : \A u \in DOMAIN call[c] : call[c][u] = Allowed(u, c))

\* Both of the above: after the last move and the last ruling, the cache and the
\* microphones are put right, and stay so.
CallsSettle == RosterSettles /\ GrantsSettle
=============================================================================
