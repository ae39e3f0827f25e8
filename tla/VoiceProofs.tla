----------------------------- MODULE VoiceProofs -----------------------------
(***************************************************************************)
(* Proofs about VoiceRoster, VoiceJoin, Keybinds and Updater.               *)
(*                                                                          *)
(* At the server, for any numbers of people, channels, reads and            *)
(* announcements: the cache and what clients are told are who is in the     *)
(* calls, whenever nothing is on its way.  In the desktop window, for any   *)
(* numbers of rooms, asks and failures: the last call asked for is the only *)
(* one.  Between the window and the main process, for any keys, rows and    *)
(* bounds: push to talk and push to mute never hang.  And of the app that   *)
(* replaces itself, for any releases, attempts and calls: an install that   *)
(* did not happen leaves nothing behind.  The four share nothing but the    *)
(* module.                                                                  *)
(***************************************************************************)
EXTENDS VoiceRoster, VoiceJoin, Keybinds, Updater, TLAPS, SequenceTheorems, FiniteSetTheorems, FunctionTheorems

(* Why the cache is the call: the invariant the proofs use.                 *)

\* VoiceService.inFlight: one read for each channel, and what is queued is
\* queued behind one.
OneReadEach ==
  /\ \A r, q \in reads : r.channel = q.channel => r = q
  /\ \A c \in queued : Reading(c)

\* A read that nothing has overtaken saw the call as it is; once applied, the
\* cache is what it saw.
ReadsAreTrue ==
  \A r \in reads :
    r.channel \notin hooks \cup missed \cup queued =>
      /\ r.phase = "answered" => DOMAIN r.seen = DOMAIN call[r.channel]
      /\ r.phase \in {"policy", "granting"} =>
           byChannel[r.channel] = DOMAIN call[r.channel]

CacheInv == OneReadEach /\ ReadsAreTrue /\ CacheIsTheCall

\* The last announcement there is of a channel is what the cache holds.
LastAnnouncementIsTheCache ==
  \A i \in DOMAIN announcements :
    (\A j \in DOMAIN announcements : j > i => announcements[j].channel # announcements[i].channel)
      => announcements[i].users = byChannel[announcements[i].channel]

HeardInv == HeardIsTheCache /\ LastAnnouncementIsTheCache

RosterInv == TypeOK /\ CacheInv /\ HeardInv

-----------------------------------------------------------------------------
(* Types.                                                                   *)

Reads == [channel : Channels, phase : {"asked", "answered", "policy", "granting"}, seen : Calls]

LEMMA CallOf ==
  ASSUME NEW f
  PROVE  f \in Calls <=> \E who \in SUBSET Users : f \in [who -> SUBSET Sources]
BY DEF Calls

LEMMA NobodyIsACall == NobodyThere \in Calls
<1>1. NobodyThere \in [{} -> SUBSET Sources] /\ {} \in SUBSET Users
  BY DEF NobodyThere
<1> QED
  BY <1>1, CallOf

\* What a read in flight is: who it saw are people.
LEMMA ReadOf ==
  ASSUME TypeOK, NEW r \in reads
  PROVE  /\ r \in Reads /\ r.channel \in Channels
         /\ r.seen \in Calls /\ DOMAIN r.seen \subseteq Users
<1>1. r \in Reads /\ r.channel \in Channels /\ r.seen \in Calls
  BY DEF TypeOK, Reads
<1> QED
  BY <1>1, CallOf

LEMMA RefreshTypes ==
  ASSUME TypeOK, NEW some \in SUBSET Channels, Refresh(some)
  PROVE  reads' \subseteq Reads /\ queued' \subseteq Channels
<1>1. \A c \in Channels : Asked(c) \in Reads
  BY NobodyIsACall DEF Asked, Reads
<1> QED
  BY <1>1 DEF Refresh, TypeOK, Reads

LEMMA SettleTypes ==
  ASSUME TypeOK, NEW r \in reads, Settle(r)
  PROVE  reads' \subseteq Reads /\ queued' \subseteq Channels
<1>1. Asked(r.channel) \in Reads
  BY NobodyIsACall, ReadOf DEF Asked, Reads
<1> QED
  BY <1>1 DEF Settle, TypeOK, Reads

LEMMA ProceedTypes ==
  ASSUME TypeOK, NEW r \in reads, NEW phase \in {"policy", "granting"}, Proceed(r, phase)
  PROVE  reads' \subseteq Reads /\ queued' \subseteq Channels
<1>1. [r EXCEPT !.phase = phase] \in Reads
  BY ReadOf DEF Reads
<1> QED
  BY <1>1 DEF Proceed, TypeOK, Reads

LEMMA SpendTypes ==
  ASSUME TypeOK, NEW what \in {"moves", "rulings", "failures", "restarts"}, Spend(what)
  PROVE  budget' \in [{"moves", "rulings", "failures", "restarts"} -> Nat]
<1>1. budget[what] \in Nat /\ budget[what] > 0
  BY DEF TypeOK, Spend
<1>2. budget[what] - 1 \in Nat
  BY <1>1
<1> QED
  BY <1>2 DEF Spend, TypeOK

LEMMA AllowedTypes ==
  ASSUME NEW u, NEW c
  PROVE  Allowed(u, c) \in SUBSET Sources
BY DEF Allowed, publishableSources, Sources

LEMMA RosterTypes == TypeOK /\ [Next]_vars => TypeOK'
<1> SUFFICES ASSUME TypeOK, [Next]_vars PROVE TypeOK'
  OBVIOUS
<1> USE DEF Reads
<1>1. ASSUME NEW u \in Users, NEW c \in Channels, Mint(u, c) PROVE TypeOK'
  <2>1. [channel |-> c, user |-> u, sources |-> Allowed(u, c)] \in Grants
    BY AllowedTypes DEF Grants
  <2> QED
    BY <1>1, <2>1 DEF Mint, TypeOK, service
<1>2. ASSUME NEW t \in tokens, Expire(t) PROVE TypeOK'
  BY <1>2 DEF Expire, TypeOK, service
<1>3. ASSUME NEW t \in tokens, NEW delivered \in BOOLEAN, Join(t, delivered) PROVE TypeOK'
  <2> DEFINE c == t.channel
             joined == [u \in DOMAIN call[c] \cup {t.user} |->
                          IF u = t.user THEN t.sources ELSE call[c][u]]
  <2>1. t \in Grants /\ c \in Channels /\ t.user \in Users /\ t.sources \in SUBSET Sources
    BY DEF TypeOK, Grants
  <2>2. PICK who \in SUBSET Users : call[c] \in [who -> SUBSET Sources]
    BY <2>1, CallOf DEF TypeOK
  <2>3. joined \in [who \cup {t.user} -> SUBSET Sources] /\ who \cup {t.user} \in SUBSET Users
    BY <2>1, <2>2
  <2>4. joined \in Calls
    BY <2>3, CallOf
  <2>5. call' = [call EXCEPT ![c] = joined]
    BY <1>3 DEF Join
  <2> HIDE DEF joined
  <2>6. call' \in [Channels -> Calls]
    BY <2>1, <2>4, <2>5 DEF TypeOK
  <2>7. hooks' \subseteq Channels /\ missed' \subseteq Channels
    BY <1>3, <2>1 DEF Join, Changed, TypeOK
  <2>8. budget' \in [{"moves", "rulings", "failures", "restarts"} -> Nat]
    BY <1>3, SpendTypes DEF Join
  <2> QED
    BY <1>3, <2>6, <2>7, <2>8 DEF Join, TypeOK, service
<1>4. ASSUME NEW who \in SUBSET Users, NEW c \in Channels, NEW delivered \in BOOLEAN,
             Leave(who, c, delivered)
      PROVE  TypeOK'
  <2> DEFINE rest == Restrict(call[c], DOMAIN call[c] \ who)
  <2>1. PICK those \in SUBSET Users : call[c] \in [those -> SUBSET Sources]
    BY CallOf DEF TypeOK
  <2>2. rest \in [those \ who -> SUBSET Sources] /\ those \ who \in SUBSET Users
    BY <2>1 DEF Restrict
  <2>3. rest \in Calls
    BY <2>2, CallOf
  <2>4. call' = [call EXCEPT ![c] = rest]
    BY <1>4 DEF Leave
  <2> HIDE DEF rest
  <2>5. call' \in [Channels -> Calls]
    BY <2>3, <2>4 DEF TypeOK
  <2>6. hooks' \subseteq Channels /\ missed' \subseteq Channels
    BY <1>4 DEF Leave, Changed, TypeOK
  <2>7. budget' \in [{"moves", "rulings", "failures", "restarts"} -> Nat]
    BY <1>4, SpendTypes DEF Leave
  <2> QED
    BY <1>4, <2>5, <2>6, <2>7 DEF Leave, TypeOK, service
<1>5. ASSUME NEW c \in Channels, NEW again \in BOOLEAN, Deliver(c, again) PROVE TypeOK'
  <2>1. reads' \subseteq Reads /\ queued' \subseteq Channels
    BY <1>5, RefreshTypes DEF Deliver
  <2> QED
    BY <1>5, <2>1 DEF Deliver, TypeOK
<1>6. ASSUME NEW u \in Users, Rule(u) PROVE TypeOK'
  <2>1. budget' \in [{"moves", "rulings", "failures", "restarts"} -> Nat]
    BY <1>6, SpendTypes DEF Rule
  <2> QED
    BY <1>6, <2>1 DEF Rule, TypeOK
<1>7. CASE RuleSilently
  <2>1. budget' \in [{"moves", "rulings", "failures", "restarts"} -> Nat]
    BY <1>7, SpendTypes DEF RuleSilently
  <2>2. muted' \subseteq Users /\ afk' \subseteq Channels
    BY <1>7 DEF RuleSilently, TypeOK
  <2> QED
    BY <1>7, <2>1, <2>2 DEF RuleSilently, TypeOK, service
<1>8. CASE SyncMutes
  <2>1. reads' \subseteq Reads /\ queued' \subseteq Channels
    BY <1>8, RefreshTypes DEF SyncMutes
  <2> QED
    BY <1>8, <2>1 DEF SyncMutes, TypeOK
<1>9. CASE Sweep
  <2>1. reads' \subseteq Reads /\ queued' \subseteq Channels
    BY <1>9, RefreshTypes DEF Sweep, Swept, Listed
  <2> QED
    BY <1>9, <2>1 DEF Sweep, TypeOK
<1>10. CASE Restart
  <2>1. budget' \in [{"moves", "rulings", "failures", "restarts"} -> Nat]
    BY <1>10, SpendTypes DEF Restart
  <2>2. byChannel' \in [Channels -> SUBSET Users] /\ heard' \in [Channels -> SUBSET Users]
    BY <1>10 DEF Restart
  <2>3. announcements' \in Seq([channel : Channels, users : SUBSET Users])
    BY <1>10 DEF Restart
  <2> QED
    BY <1>10, <2>1, <2>2, <2>3 DEF Restart, TypeOK
<1>11. ASSUME NEW r \in reads, Answer(r) PROVE TypeOK'
  <2>1. [r EXCEPT !.phase = "answered", !.seen = call[r.channel]] \in Reads
    BY ReadOf DEF TypeOK
  <2>2. reads' \subseteq Reads
    BY <1>11, <2>1 DEF Answer, TypeOK
  <2> QED
    BY <1>11, <2>2 DEF Answer, TypeOK
<1>12. ASSUME NEW r \in reads, ReadFails(r) PROVE TypeOK'
  <2>1. reads' \subseteq Reads /\ queued' \subseteq Channels
    BY <1>12, SettleTypes DEF ReadFails
  <2>2. budget' \in [{"moves", "rulings", "failures", "restarts"} -> Nat]
    BY <1>12, SpendTypes DEF ReadFails
  <2> QED
    BY <1>12, <2>1, <2>2, ReadOf DEF ReadFails, TypeOK
<1>13. ASSUME NEW r \in reads, Apply(r) PROVE TypeOK'
  <2>1. reads' \subseteq Reads /\ queued' \subseteq Channels
    BY <1>13, SettleTypes, ProceedTypes DEF Apply
  <2>2. [channel |-> r.channel, users |-> DOMAIN r.seen]
          \in [channel : Channels, users : SUBSET Users]
    BY ReadOf
  <2>3. announcements' \in Seq([channel : Channels, users : SUBSET Users])
    BY <1>13, <2>2, AppendProperties DEF Apply, Announced, TypeOK
  <2>4. byChannel' \in [Channels -> SUBSET Users]
    BY <1>13, ReadOf DEF Apply, TypeOK
  <2> QED
    BY <1>13, <2>1, <2>3, <2>4 DEF Apply, TypeOK
<1>14. ASSUME NEW r \in reads, Police(r) PROVE TypeOK'
  <2>1. reads' \subseteq Reads /\ queued' \subseteq Channels
    BY <1>14, ProceedTypes DEF Police
  <2>2. grants' \subseteq Grants
    BY <1>14 DEF Police, Needed, TypeOK
  <2> QED
    BY <1>14, <2>1, <2>2 DEF Police, TypeOK
<1>15. ASSUME NEW r \in reads, PolicyFails(r) PROVE TypeOK'
  <2>1. reads' \subseteq Reads /\ queued' \subseteq Channels
    BY <1>15, SettleTypes DEF PolicyFails
  <2>2. budget' \in [{"moves", "rulings", "failures", "restarts"} -> Nat]
    BY <1>15, SpendTypes DEF PolicyFails
  <2> QED
    BY <1>15, <2>1, <2>2 DEF PolicyFails, TypeOK
<1>16. ASSUME NEW r \in reads, Granted(r) PROVE TypeOK'
  <2>1. reads' \subseteq Reads /\ queued' \subseteq Channels
    BY <1>16, SettleTypes DEF Granted
  <2> QED
    BY <1>16, <2>1 DEF Granted, TypeOK
<1>17. ASSUME NEW g \in grants, GrantLands(g) PROVE TypeOK'
  <2>1. g.channel \in Channels /\ g.user \in Users /\ g.sources \in SUBSET Sources
    BY DEF TypeOK, Grants
  <2>2. reads' \subseteq Reads /\ queued' \subseteq Channels
    <3>1. CASE UNCHANGED <<reads, queued>>
      BY <3>1 DEF TypeOK
    <3>2. ASSUME NEW r \in reads, Settle(r) PROVE reads' \subseteq Reads /\ queued' \subseteq Channels
      BY <3>2, SettleTypes
    <3> QED
      BY <1>17, <3>1, <3>2 DEF GrantLands
  <2>3. call' \in [Channels -> Calls]
    <3>1. CASE g.user \in DOMAIN call[g.channel]
      <4> DEFINE granted == [call[g.channel] EXCEPT ![g.user] = g.sources]
      <4>1. PICK who \in SUBSET Users : call[g.channel] \in [who -> SUBSET Sources]
        BY <2>1, CallOf DEF TypeOK
      <4>2. granted \in [who -> SUBSET Sources]
        BY <2>1, <4>1
      <4>3. granted \in Calls
        BY <4>2, CallOf
      <4>4. call' = [call EXCEPT ![g.channel] = granted]
        BY <1>17, <3>1 DEF GrantLands
      <4> HIDE DEF granted
      <4> QED
        BY <2>1, <4>3, <4>4 DEF TypeOK
    <3>2. CASE g.user \notin DOMAIN call[g.channel]
      BY <1>17, <3>2 DEF GrantLands, TypeOK
    <3> QED
      BY <3>1, <3>2
  <2> QED
    BY <1>17, <2>2, <2>3 DEF GrantLands, TypeOK
<1>18. ASSUME NEW known \in BOOLEAN, Announce(known) PROVE TypeOK'
  <2> DEFINE a == Head(announcements)
  <2>1. /\ a \in [channel : Channels, users : SUBSET Users]
        /\ Tail(announcements) \in Seq([channel : Channels, users : SUBSET Users])
    BY <1>18, HeadTailProperties DEF Announce, TypeOK
  <2>2. /\ announcements' = Tail(announcements)
        /\ \/ heard' = heard
           \/ heard' = [heard EXCEPT ![a.channel] = a.users]
        /\ unannounced' \subseteq unannounced \cup {a.channel}
    BY <1>18 DEF Announce
  <2>3. budget' \in [{"moves", "rulings", "failures", "restarts"} -> Nat]
    <3>1. UNCHANGED budget \/ Spend("failures")
      BY <1>18 DEF Announce
    <3> QED
      BY <3>1, SpendTypes DEF TypeOK
  <2> HIDE DEF a
  <2>4. heard' \in [Channels -> SUBSET Users] /\ unannounced' \subseteq Channels
    BY <2>1, <2>2 DEF TypeOK
  <2> QED
    BY <1>18, <2>1, <2>2, <2>3, <2>4 DEF Announce, TypeOK
<1>19. CASE UNCHANGED vars
  BY <1>19 DEF vars, TypeOK
<1> QED
  BY <1>1, <1>2, <1>3, <1>4, <1>5, <1>6, <1>7, <1>8, <1>9, <1>10, <1>11, <1>12, <1>13,
     <1>14, <1>15, <1>16, <1>17, <1>18, <1>19 DEF Next

-----------------------------------------------------------------------------
(* Reads, and the cache they are for.                                       *)

\* What changes only where LiveKit tells the server, or owes it to.
LEMMA TellingKeeps ==
  ASSUME TypeOK, CacheInv, UNCHANGED <<reads, queued, byChannel>>,
         hooks \subseteq hooks', missed \subseteq missed',
         \A c \in Channels \ (hooks' \cup missed') : DOMAIN call'[c] = DOMAIN call[c]
  PROVE  CacheInv'
<1>1. OneReadEach'
  BY DEF CacheInv, OneReadEach, Reading
<1>2. ReadsAreTrue'
  BY ReadOf DEF CacheInv, ReadsAreTrue
<1>3. CacheIsTheCall'
  BY DEF CacheInv, CacheIsTheCall, Reading
<1> QED
  BY <1>1, <1>2, <1>3 DEF CacheInv

\* refresh: whatever the webhook that asked for it was about is read again,
\* after the read that is under way.
LEMMA RefreshKeeps ==
  ASSUME TypeOK, CacheInv, NEW some \in SUBSET Channels, Refresh(some),
         UNCHANGED <<call, byChannel, missed>>, hooks' \subseteq hooks,
         hooks \ hooks' \subseteq some
  PROVE  CacheInv'
<1>1. /\ reads \subseteq reads' /\ queued \subseteq queued'
      /\ \A r \in reads' \ reads : r = Asked(r.channel) /\ r.channel \in some /\ ~Reading(r.channel)
      /\ \A c \in some : Reading(c)' /\ (Reading(c) => c \in queued')
      /\ \A c \in queued' : c \in queued \/ Reading(c)
  <2>1. /\ reads' = reads \cup {Asked(c) : c \in {d \in some : ~Reading(d)}}
        /\ queued' = queued \cup {c \in some : Reading(c)}
    BY DEF Refresh
  <2>2. \A c : Asked(c).channel = c
    BY DEF Asked
  <2>3. \A r \in reads' \ reads : r = Asked(r.channel) /\ r.channel \in some /\ ~Reading(r.channel)
    BY <2>1, <2>2
  <2>4. ASSUME NEW c \in some PROVE Reading(c)'
    <3>1. CASE Reading(c)
      BY <2>1, <3>1 DEF Reading
    <3>2. CASE ~Reading(c)
      <4>1. Asked(c) \in reads'
        BY <2>1, <3>2
      <4> QED
        BY <2>2, <4>1 DEF Reading
    <3> QED
      BY <3>1, <3>2
  <2> QED
    BY <2>1, <2>3, <2>4
<1>2. \A c : Reading(c) => Reading(c)'
  BY <1>1 DEF Reading
<1>3. OneReadEach'
  <2>1. ASSUME NEW r \in reads', NEW q \in reads', r.channel = q.channel PROVE r = q
    BY <1>1, <2>1 DEF CacheInv, OneReadEach, Reading
  <2>2. \A c \in queued' : Reading(c)'
    BY <1>1, <1>2 DEF CacheInv, OneReadEach
  <2> QED
    BY <2>1, <2>2 DEF OneReadEach
<1>4. ReadsAreTrue'
  <2> SUFFICES ASSUME NEW r \in reads', r.channel \notin hooks' \cup missed' \cup queued'
               PROVE  /\ r.phase = "answered" => DOMAIN r.seen = DOMAIN call'[r.channel]
                      /\ r.phase \in {"policy", "granting"} =>
                           byChannel'[r.channel] = DOMAIN call'[r.channel]
    BY DEF ReadsAreTrue
  <2>1. CASE r \in reads
    <3>1. r.channel \notin some
      BY <1>1, <2>1 DEF Reading
    <3> QED
      BY <1>1, <2>1, <3>1 DEF CacheInv, ReadsAreTrue
  <2>2. CASE r \notin reads
    BY <1>1, <2>2 DEF Asked
  <2> QED
    BY <2>1, <2>2
<1>5. CacheIsTheCall'
  <2> SUFFICES ASSUME NEW c \in Channels, c \notin hooks' \cup missed', ~Reading(c)'
               PROVE  byChannel'[c] = DOMAIN call'[c]
    BY DEF CacheIsTheCall
  <2>1. ~Reading(c) /\ c \notin some
    BY <1>1, <1>2
  <2> QED
    BY <2>1 DEF CacheInv, CacheIsTheCall
<1> QED
  BY <1>3, <1>4, <1>5 DEF CacheInv

\* A read that ends may leave the cache as the truth only if nothing overtook
\* it; otherwise the next read is on its way.
LEMMA SettleKeeps ==
  ASSUME TypeOK, CacheInv, NEW r \in reads, Settle(r), UNCHANGED hooks, missed \subseteq missed',
         \A c \in Channels : DOMAIN call'[c] = DOMAIN call[c],
         \A c \in Channels \ {r.channel} : byChannel'[c] = byChannel[c],
         r.channel \notin hooks \cup missed' \cup queued
           => byChannel'[r.channel] = DOMAIN call[r.channel]
  PROVE  CacheInv'
<1>1. r.channel \in Channels
  BY ReadOf
<1>2. /\ \A q \in reads' : q \in reads \ {r} \/ (q = Asked(r.channel) /\ r.channel \in queued)
      /\ \A q \in reads \ {r} : q \in reads'
      /\ r.channel \in queued => Asked(r.channel) \in reads'
      /\ queued' = queued \ {r.channel}
  BY DEF Settle
<1>3. \A q \in reads \ {r} : q.channel # r.channel
  BY DEF CacheInv, OneReadEach
<1>4. Asked(r.channel).channel = r.channel /\ Asked(r.channel).phase = "asked"
  BY DEF Asked
<1>5. /\ \A c : c # r.channel => (Reading(c)' <=> Reading(c))
      /\ Reading(r.channel)' <=> r.channel \in queued
  BY <1>2, <1>3, <1>4 DEF Reading
<1>6. OneReadEach'
  <2>1. ASSUME NEW p \in reads', NEW q \in reads', p.channel = q.channel PROVE p = q
    BY <1>2, <1>3, <1>4, <2>1 DEF CacheInv, OneReadEach
  <2>2. \A c \in queued' : Reading(c)'
    BY <1>2, <1>5 DEF CacheInv, OneReadEach
  <2> QED
    BY <2>1, <2>2 DEF OneReadEach
<1>7. ReadsAreTrue'
  <2> SUFFICES ASSUME NEW q \in reads', q.channel \notin hooks' \cup missed' \cup queued'
               PROVE  /\ q.phase = "answered" => DOMAIN q.seen = DOMAIN call'[q.channel]
                      /\ q.phase \in {"policy", "granting"} =>
                           byChannel'[q.channel] = DOMAIN call'[q.channel]
    BY DEF ReadsAreTrue
  <2>1. CASE q \in reads \ {r}
    <3>1. q.channel \in Channels \ {r.channel} /\ q.channel \notin hooks \cup missed \cup queued
      BY <1>2, <1>3, <2>1, ReadOf
    <3> QED
      BY <2>1, <3>1 DEF CacheInv, ReadsAreTrue
  <2>2. CASE q = Asked(r.channel)
    BY <1>4, <2>2
  <2> QED
    BY <1>2, <2>1, <2>2
<1>8. CacheIsTheCall'
  <2> SUFFICES ASSUME NEW c \in Channels, c \notin hooks' \cup missed', ~Reading(c)'
               PROVE  byChannel'[c] = DOMAIN call'[c]
    BY DEF CacheIsTheCall
  <2>1. CASE c = r.channel
    BY <1>1, <1>5, <2>1
  <2>2. CASE c # r.channel
    BY <1>5, <2>2 DEF CacheInv, CacheIsTheCall
  <2> QED
    BY <2>1, <2>2
<1> QED
  BY <1>6, <1>7, <1>8 DEF CacheInv

\* A read that goes on to its next phase, as q.
LEMMA NextPhaseKeeps ==
  ASSUME TypeOK, CacheInv, NEW r \in reads, NEW q, q.channel = r.channel,
         reads' = (reads \ {r}) \cup {q}, UNCHANGED <<queued, hooks, call>>,
         missed \ {r.channel} \subseteq missed',
         \A c \in Channels \ {r.channel} : byChannel'[c] = byChannel[c],
         r.channel \notin hooks \cup missed' \cup queued =>
           /\ q.phase = "answered" => DOMAIN q.seen = DOMAIN call[r.channel]
           /\ q.phase \in {"policy", "granting"} =>
                byChannel'[r.channel] = DOMAIN call[r.channel]
  PROVE  CacheInv'
<1>1. \A p \in reads \ {r} : p.channel # r.channel
  BY DEF CacheInv, OneReadEach
<1>2. \A c : Reading(c)' <=> Reading(c)
  BY DEF Reading
<1>3. OneReadEach'
  <2>1. ASSUME NEW p \in reads', NEW o \in reads', p.channel = o.channel PROVE p = o
    BY <1>1, <2>1 DEF CacheInv, OneReadEach
  <2> QED
    BY <1>2, <2>1 DEF CacheInv, OneReadEach
<1>4. ReadsAreTrue'
  <2> SUFFICES ASSUME NEW p \in reads', p.channel \notin hooks' \cup missed' \cup queued'
               PROVE  /\ p.phase = "answered" => DOMAIN p.seen = DOMAIN call'[p.channel]
                      /\ p.phase \in {"policy", "granting"} =>
                           byChannel'[p.channel] = DOMAIN call'[p.channel]
    BY DEF ReadsAreTrue
  <2>1. CASE p \in reads \ {r}
    <3>1. p.channel \in Channels \ {r.channel} /\ p.channel \notin hooks \cup missed \cup queued
      BY <1>1, <2>1, ReadOf
    <3> QED
      BY <2>1, <3>1 DEF CacheInv, ReadsAreTrue
  <2>2. CASE p = q
    BY <2>2
  <2> QED
    BY <2>1, <2>2
<1>5. CacheIsTheCall'
  <2> SUFFICES ASSUME NEW c \in Channels, c \notin hooks' \cup missed', ~Reading(c)'
               PROVE  byChannel'[c] = DOMAIN call'[c]
    BY DEF CacheIsTheCall
  <2>1. c # r.channel /\ ~Reading(c)
    BY <1>2 DEF Reading
  <2> QED
    BY <2>1 DEF CacheInv, CacheIsTheCall
<1> QED
  BY <1>3, <1>4, <1>5 DEF CacheInv

LEMMA CacheNext == TypeOK /\ CacheInv /\ [Next]_vars => CacheInv'
<1> SUFFICES ASSUME TypeOK, CacheInv, [Next]_vars PROVE CacheInv'
  OBVIOUS
<1>1. ASSUME UNCHANGED <<reads, queued, byChannel, hooks, missed, call>> PROVE CacheInv'
  BY <1>1, TellingKeeps
<1>2. CASE \/ \E u \in Users, c \in Channels : Mint(u, c)
           \/ \E t \in tokens : Expire(t)
           \/ \E u \in Users : Rule(u)
           \/ RuleSilently
           \/ \E known \in BOOLEAN : Announce(known)
           \/ UNCHANGED vars
  BY <1>1, <1>2 DEF Mint, Expire, Rule, RuleSilently, Announce, vars, service
<1>3. ASSUME NEW t \in tokens, NEW delivered \in BOOLEAN, Join(t, delivered) PROVE CacheInv'
  <2>1. t.channel \in Channels
    BY DEF TypeOK, Grants
  <2>2. UNCHANGED <<reads, queued, byChannel>>
    BY <1>3 DEF Join, service
  <2>3. /\ hooks \subseteq hooks' /\ missed \subseteq missed'
        /\ t.channel \in hooks' \cup missed'
    BY <1>3 DEF Join, Changed
  <2>4. \A c \in Channels \ {t.channel} : call'[c] = call[c]
    BY <1>3 DEF Join, TypeOK
  <2> QED
    BY <2>2, <2>3, <2>4, TellingKeeps
<1>4. ASSUME NEW who \in SUBSET Users, NEW d \in Channels, NEW delivered \in BOOLEAN,
             Leave(who, d, delivered)
      PROVE  CacheInv'
  <2>1. UNCHANGED <<reads, queued, byChannel>>
    BY <1>4 DEF Leave, service
  <2>2. hooks \subseteq hooks' /\ missed \subseteq missed' /\ d \in hooks' \cup missed'
    BY <1>4 DEF Leave, Changed
  <2>3. \A c \in Channels \ {d} : call'[c] = call[c]
    BY <1>4 DEF Leave, TypeOK
  <2> QED
    BY <2>1, <2>2, <2>3, TellingKeeps
<1>5. ASSUME NEW c \in Channels, NEW again \in BOOLEAN, Deliver(c, again) PROVE CacheInv'
  <2>1. /\ Refresh({c}) /\ UNCHANGED <<call, byChannel, missed>>
        /\ hooks' \subseteq hooks /\ hooks \ hooks' \subseteq {c}
    BY <1>5 DEF Deliver
  <2> QED
    BY <2>1, RefreshKeeps
<1>6. CASE SyncMutes
  BY <1>6, RefreshKeeps DEF SyncMutes
<1>7. CASE Sweep
  <2>1. Swept \in SUBSET Channels
    BY DEF Swept, Listed
  <2> QED
    BY <1>7, <2>1, RefreshKeeps DEF Sweep
<1>8. CASE Restart
  BY <1>8 DEF Restart, CacheInv, OneReadEach, ReadsAreTrue, CacheIsTheCall
<1>9. ASSUME NEW r \in reads, Answer(r) PROVE CacheInv'
  <2> DEFINE q == [r EXCEPT !.phase = "answered", !.seen = call[r.channel]]
  <2>1. q.channel = r.channel /\ q.phase = "answered" /\ q.seen = call[r.channel]
    BY ReadOf DEF Reads
  <2>2. /\ reads' = (reads \ {r}) \cup {q} /\ UNCHANGED <<queued, hooks, call, byChannel>>
        /\ missed' = missed \ {r.channel}
    BY <1>9 DEF Answer
  <2> HIDE DEF q
  <2> QED
    BY <2>1, <2>2, NextPhaseKeeps
<1>10. ASSUME NEW r \in reads, ReadFails(r) PROVE CacheInv'
  <2>1. /\ Settle(r) /\ UNCHANGED <<hooks, call, byChannel>>
        /\ missed' = missed \cup {r.channel}
    BY <1>10 DEF ReadFails
  <2> QED
    BY <2>1, SettleKeeps
<1>11. ASSUME NEW r \in reads, Apply(r) PROVE CacheInv'
  <2>1. /\ r.phase = "answered" /\ UNCHANGED <<hooks, call, missed>>
        /\ byChannel' = [byChannel EXCEPT ![r.channel] = DOMAIN r.seen]
        /\ IF DOMAIN r.seen = {} THEN Settle(r) ELSE Proceed(r, "policy")
    BY <1>11 DEF Apply
  <2>2. /\ byChannel'[r.channel] = DOMAIN r.seen
        /\ \A c \in Channels \ {r.channel} : byChannel'[c] = byChannel[c]
    BY <2>1, ReadOf DEF TypeOK
  <2>3. r.channel \notin hooks \cup missed \cup queued => DOMAIN r.seen = DOMAIN call[r.channel]
    BY <2>1 DEF CacheInv, ReadsAreTrue
  <2>4. CASE DOMAIN r.seen = {}
    <3>1. Settle(r)
      BY <2>1, <2>4
    <3> QED
      BY <2>1, <2>2, <2>3, <3>1, SettleKeeps
  <2>5. CASE DOMAIN r.seen # {}
    <3> DEFINE q == [r EXCEPT !.phase = "policy"]
    <3>1. reads' = (reads \ {r}) \cup {q} /\ UNCHANGED queued
      BY <2>1, <2>5 DEF Proceed
    <3>2. q.channel = r.channel /\ q.phase = "policy"
      BY ReadOf DEF Reads
    <3> HIDE DEF q
    <3> QED
      BY <2>1, <2>2, <2>3, <3>1, <3>2, NextPhaseKeeps
  <2> QED
    BY <2>4, <2>5
<1>12. ASSUME NEW r \in reads, Police(r) PROVE CacheInv'
  <2> DEFINE q == [r EXCEPT !.phase = "granting"]
  <2>1. /\ reads' = (reads \ {r}) \cup {q} /\ UNCHANGED <<queued, hooks, call, missed, byChannel>>
        /\ r.phase = "policy"
    BY <1>12 DEF Police, Proceed
  <2>2. q.channel = r.channel /\ q.phase = "granting"
    BY ReadOf DEF Reads
  <2>3. r.channel \notin hooks \cup missed \cup queued => byChannel[r.channel] = DOMAIN call[r.channel]
    BY <2>1 DEF CacheInv, ReadsAreTrue
  <2> HIDE DEF q
  <2> QED
    BY <2>1, <2>2, <2>3, NextPhaseKeeps
<1>13. ASSUME NEW r \in reads, PolicyFails(r) \/ Granted(r) PROVE CacheInv'
  <2>1. /\ r.phase \in {"policy", "granting"} /\ Settle(r)
        /\ UNCHANGED <<hooks, call, missed, byChannel>>
    BY <1>13 DEF PolicyFails, Granted
  <2>2. r.channel \notin hooks \cup missed \cup queued => byChannel[r.channel] = DOMAIN call[r.channel]
    BY <2>1 DEF CacheInv, ReadsAreTrue
  <2> QED
    BY <2>1, <2>2, SettleKeeps
<1>14. ASSUME NEW g \in grants, GrantLands(g) PROVE CacheInv'
  <2>1. g.channel \in Channels /\ UNCHANGED <<hooks, byChannel, missed>>
    BY <1>14 DEF TypeOK, Grants, GrantLands
  <2>2. \A c \in Channels : DOMAIN call'[c] = DOMAIN call[c]
    <3>1. \/ UNCHANGED call
          \/ call' = [call EXCEPT ![g.channel] = [call[g.channel] EXCEPT ![g.user] = g.sources]]
      BY <1>14 DEF GrantLands
    <3> QED
      BY <2>1, <3>1 DEF TypeOK
  <2>3. CASE UNCHANGED <<reads, queued>>
    BY <2>1, <2>2, <2>3, TellingKeeps
  <2>4. ASSUME NEW r \in reads, r.phase = "granting", Settle(r) PROVE CacheInv'
    <3>1. r.channel \notin hooks \cup missed \cup queued =>
            byChannel[r.channel] = DOMAIN call[r.channel]
      BY <2>4 DEF CacheInv, ReadsAreTrue
    <3> QED
      BY <2>1, <2>2, <2>4, <3>1, SettleKeeps
  <2> QED
    BY <1>14, <2>3, <2>4 DEF GrantLands
<1> QED
  BY <1>2, <1>3, <1>4, <1>5, <1>6, <1>7, <1>8, <1>9, <1>10, <1>11, <1>12, <1>13, <1>14
     DEF Next

-----------------------------------------------------------------------------
(* Announcements.                                                           *)

\* apply: a list that changes is announced after those before it.
LEMMA AppliedIsAnnounced ==
  ASSUME TypeOK, HeardInv, NEW c \in Channels, NEW users \in SUBSET Users,
         announcements' = Announced(c, users), byChannel' = [byChannel EXCEPT ![c] = users],
         UNCHANGED <<heard, unannounced>>
  PROVE  HeardInv'
<1>1. CASE users = byChannel[c]
  <2>1. UNCHANGED <<announcements, byChannel, heard, unannounced>>
    BY <1>1 DEF Announced, TypeOK
  <2> QED
    BY <2>1 DEF HeardInv, HeardIsTheCache, LastAnnouncementIsTheCache
<1>2. CASE users # byChannel[c]
  <2> DEFINE a == [channel |-> c, users |-> users]
             n == Len(announcements)
  <2>1. announcements' = Append(announcements, a) /\ a.channel = c /\ a.users = users
    BY <1>2 DEF Announced
  <2>2. announcements \in Seq([channel : Channels, users : SUBSET Users])
    BY DEF TypeOK
  <2>3. a \in [channel : Channels, users : SUBSET Users]
    OBVIOUS
  <2> HIDE DEF a
  <2>4. /\ n \in Nat /\ DOMAIN announcements = 1..n
        /\ DOMAIN announcements' = 1..n+1
        /\ \A i \in 1..n : announcements'[i] = announcements[i]
        /\ announcements'[n+1] = a
    BY <2>1, <2>2, <2>3, AppendProperties, LenProperties
  <2> HIDE DEF n
  <2>5. /\ byChannel'[c] = users
        /\ \A d \in Channels \ {c} : byChannel'[d] = byChannel[d]
    BY DEF TypeOK
  <2>6. LastAnnouncementIsTheCache'
    <3> SUFFICES ASSUME NEW i \in DOMAIN announcements',
                        \A j \in DOMAIN announcements' :
                          j > i => announcements'[j].channel # announcements'[i].channel
                 PROVE  announcements'[i].users = byChannel'[announcements'[i].channel]
      BY DEF LastAnnouncementIsTheCache
    <3>1. CASE i = n+1
      BY <2>1, <2>4, <2>5, <3>1
    <3>2. CASE i \in 1..n
      <4>1. n+1 \in DOMAIN announcements' /\ n+1 > i
        BY <2>4, <3>2
      <4>2. announcements[i].channel # c
        BY <2>1, <2>4, <3>2, <4>1
      <4>3. announcements[i].channel \in Channels
        <5>1. i \in 1..Len(announcements)
          BY <3>2 DEF n
        <5>2. announcements[i] \in [channel : Channels, users : SUBSET Users]
          BY <2>2, <5>1, ElementOfSeq
        <5> QED
          BY <5>2
      <4>4. \A j \in 1..n : j > i => announcements[j].channel # announcements[i].channel
        BY <2>4, <3>2
      <4>5. announcements[i].users = byChannel[announcements[i].channel]
        BY <2>4, <3>2, <4>4 DEF HeardInv, LastAnnouncementIsTheCache
      <4> QED
        BY <2>4, <2>5, <3>2, <4>2, <4>3, <4>5
    <3> QED
      BY <2>4, <3>1, <3>2
  <2>7. HeardIsTheCache'
    <3> SUFFICES ASSUME NEW d \in Channels, d \notin unannounced',
                        \A i \in DOMAIN announcements' : announcements'[i].channel # d
                 PROVE  heard'[d] = byChannel'[d]
      BY DEF HeardIsTheCache
    <3>1. d # c
      <4>1. n+1 \in DOMAIN announcements'
        BY <2>4
      <4> QED
        BY <2>1, <2>4, <4>1
    <3>2. \A i \in DOMAIN announcements : announcements[i].channel # d
      BY <2>4
    <3> QED
      BY <2>5, <3>1, <3>2 DEF HeardInv, HeardIsTheCache
  <2> QED
    BY <2>6, <2>7 DEF HeardInv
<1> QED
  BY <1>1, <1>2

\* The chain takes the oldest announcement: it is the last of its channel only
\* if it says what the cache says.
LEMMA AnnouncedIsTheCache ==
  ASSUME TypeOK, HeardInv, NEW known \in BOOLEAN, Announce(known)
  PROVE  HeardInv'
<1> DEFINE a == announcements[1]
           n == Len(announcements)
<1>1. /\ announcements \in Seq([channel : Channels, users : SUBSET Users])
      /\ announcements # <<>>
  BY DEF TypeOK, Announce
<1>2. /\ n \in Nat /\ n # 0 /\ DOMAIN announcements = 1..n /\ Head(announcements) = a
      /\ a \in [channel : Channels, users : SUBSET Users]
  <2>1. n \in Nat /\ n # 0 /\ DOMAIN announcements = 1..n
    BY <1>1, LenProperties
  <2>2. Head(announcements) = a
    BY <1>1
  <2>3. Head(announcements) \in [channel : Channels, users : SUBSET Users]
    BY <1>1, HeadTailProperties
  <2> QED
    BY <2>1, <2>2, <2>3
<1>3. /\ DOMAIN announcements' = 1..n-1
      /\ \A i \in 1..n-1 : announcements'[i] = announcements[i+1]
  <2>1. announcements' = Tail(announcements)
    BY DEF Announce
  <2>2. /\ Tail(announcements) \in Seq([channel : Channels, users : SUBSET Users])
        /\ Len(Tail(announcements)) = n-1
        /\ \A i \in 1..Len(Tail(announcements)) : Tail(announcements)[i] = announcements[i+1]
    BY <1>1, HeadTailProperties
  <2> QED
    BY <2>1, <2>2, LenProperties
<1>4. /\ UNCHANGED byChannel
      /\ \/ heard' = [heard EXCEPT ![a.channel] = a.users]
            /\ unannounced' = unannounced \ {a.channel}
         \/ heard' = heard /\ unannounced' = unannounced \cup {a.channel}
  BY <1>2 DEF Announce
<1>5. a.channel \in Channels
  BY <1>2
<1> HIDE DEF a, n
<1>6. LastAnnouncementIsTheCache'
  <2> SUFFICES ASSUME NEW i \in 1..n-1,
                      \A j \in 1..n-1 : j > i => announcements'[j].channel # announcements'[i].channel
               PROVE  announcements'[i].users = byChannel'[announcements'[i].channel]
    BY <1>3 DEF LastAnnouncementIsTheCache
  <2>1. i+1 \in 1..n /\ announcements'[i] = announcements[i+1]
    BY <1>2, <1>3
  <2>2. ASSUME NEW j \in 1..n, j > i+1
        PROVE  announcements[j].channel # announcements[i+1].channel
    <3>1. j-1 \in 1..n-1 /\ j-1 > i /\ announcements'[j-1] = announcements[j]
      BY <1>2, <1>3, <2>2
    <3> QED
      BY <2>1, <3>1
  <2>3. announcements[i+1].users = byChannel[announcements[i+1].channel]
    BY <1>2, <2>1, <2>2 DEF HeardInv, LastAnnouncementIsTheCache
  <2> QED
    BY <1>4, <2>1, <2>3
<1>7. HeardIsTheCache'
  <2> SUFFICES ASSUME NEW d \in Channels, d \notin unannounced',
                      \A i \in 1..n-1 : announcements'[i].channel # d
               PROVE  heard'[d] = byChannel'[d]
    BY <1>3 DEF HeardIsTheCache
  <2>1. ASSUME NEW j \in 1..n, j > 1 PROVE announcements[j].channel # d
    <3>1. j-1 \in 1..n-1 /\ announcements'[j-1] = announcements[j]
      BY <1>2, <1>3, <2>1
    <3> QED
      BY <3>1
  <2>2. CASE d = a.channel
    <3>1. heard'[d] = a.users
      BY <1>4, <1>5, <2>2 DEF TypeOK
    <3>2. 1 \in 1..n
      BY <1>2
    <3>3. a.users = byChannel[a.channel]
      BY <1>2, <2>1, <2>2, <3>2 DEF HeardInv, LastAnnouncementIsTheCache, a
    <3> QED
      BY <1>4, <2>2, <3>1, <3>3
  <2>3. CASE d # a.channel
    <3>1. heard'[d] = heard[d] /\ d \notin unannounced
      BY <1>4, <2>3 DEF TypeOK
    <3>2. ASSUME NEW j \in 1..n PROVE announcements[j].channel # d
      BY <1>2, <2>1, <2>3 DEF a
    <3> QED
      BY <1>2, <1>4, <3>1, <3>2 DEF HeardInv, HeardIsTheCache
  <2> QED
    BY <2>2, <2>3
<1> QED
  BY <1>6, <1>7 DEF HeardInv

LEMMA HeardNext == TypeOK /\ HeardInv /\ [Next]_vars => HeardInv'
<1> SUFFICES ASSUME TypeOK, HeardInv, [Next]_vars PROVE HeardInv'
  OBVIOUS
<1>1. ASSUME UNCHANGED <<byChannel, announcements, heard, unannounced>> PROVE HeardInv'
  BY <1>1 DEF HeardInv, HeardIsTheCache, LastAnnouncementIsTheCache
<1>2. CASE Restart
  BY <1>2 DEF Restart, HeardInv, HeardIsTheCache, LastAnnouncementIsTheCache
<1>3. ASSUME NEW r \in reads, Apply(r) PROVE HeardInv'
  BY <1>3, AppliedIsAnnounced, ReadOf DEF Apply
<1>4. ASSUME NEW known \in BOOLEAN, Announce(known) PROVE HeardInv'
  BY <1>4, AnnouncedIsTheCache
<1>5. CASE \/ \E u \in Users, c \in Channels : Mint(u, c)
           \/ \E t \in tokens : Expire(t) \/ \E delivered \in BOOLEAN : Join(t, delivered)
           \/ \E who \in SUBSET Users, c \in Channels, delivered \in BOOLEAN :
                Leave(who, c, delivered)
           \/ \E c \in Channels, again \in BOOLEAN : Deliver(c, again)
           \/ \E u \in Users : Rule(u)
           \/ RuleSilently \/ SyncMutes \/ Sweep \/ UNCHANGED vars
  BY <1>1, <1>5 DEF Mint, Expire, Join, Leave, Deliver, Rule, RuleSilently, SyncMutes, Sweep,
                    vars, service
<1>6. CASE \/ \E r \in reads : \/ Answer(r) \/ ReadFails(r) \/ Police(r)
                               \/ PolicyFails(r) \/ Granted(r)
           \/ \E g \in grants : GrantLands(g)
  BY <1>1, <1>6 DEF Answer, ReadFails, Police, PolicyFails, Granted, GrantLands
<1> QED
  BY <1>2, <1>3, <1>4, <1>5, <1>6 DEF Next

-----------------------------------------------------------------------------

LEMMA RosterInit == Init => RosterInv
<1> SUFFICES ASSUME Init PROVE RosterInv
  OBVIOUS
<1>1. TypeOK
  <2>1. call \in [Channels -> Calls]
    BY NobodyIsACall DEF Init
  <2>2. announcements \in Seq([channel : Channels, users : SUBSET Users])
    BY DEF Init
  <2>3. budget \in [{"moves", "rulings", "failures", "restarts"} -> Nat]
    BY BoundsAssumption DEF Init
  <2> QED
    BY <2>1, <2>2, <2>3 DEF Init, TypeOK
<1>2. CacheInv
  BY DEF Init, CacheInv, OneReadEach, ReadsAreTrue, CacheIsTheCall, NobodyThere
<1>3. HeardInv
  BY DEF Init, HeardInv, HeardIsTheCache, LastAnnouncementIsTheCache
<1> QED
  BY <1>1, <1>2, <1>3 DEF RosterInv

\* However webhooks are lost, repeated or late, reads overlap or fail and the
\* server restarts: for a channel with nothing on its way, the cache is who is
\* in the call, and with nothing left to announce it is what everybody heard.
THEOREM RosterIsAlwaysSound == Spec => []RosterIsSound
<1>1. RosterInv /\ [Next]_vars => RosterInv'
  BY RosterTypes, CacheNext, HeardNext DEF RosterInv
<1>2. RosterInv => RosterIsSound
  BY DEF RosterInv, CacheInv, HeardInv, RosterIsSound, RosterIsHeard
<1> QED
  BY <1>1, <1>2, RosterInit, PTL DEF Spec

-----------------------------------------------------------------------------
(* Why the last ask wins: the invariant the proofs use.                     *)

Latest == Len(chains)

\* No room is in a call before it has been connected; no attempt is from later.
NotYetThere ==
  /\ inCall \subseteq DOMAIN chains /\ joinSeq = Latest
  /\ \A n \in DOMAIN chains :
       /\ chains[n].stage \in {"leaving", "asking", "connecting"} => n \notin inCall
       /\ chains[n].stage = "asking" => chains[n].mine <= joinSeq

\* All but the last chain have been told that they are late, or will be.
EarlierAreLate ==
  \A n \in 1..Latest - 1 :
    /\ chains[n].stage \in {"asking", "connecting", "cleaning", "over"}
    /\ chains[n].stage = "asking" => chains[n].mine # joinSeq

\* The room of the window is the last one asked for, as it says on the screen.
CurrentIsLast ==
  current # NoRoom =>
    /\ current = Latest /\ chains[Latest].stage \in {"connecting", "output", "over"}
    /\ chains[Latest].stage # "connecting" => Latest \in inCall
    /\ shown.channel = chains[Latest].to
    /\ chains[Latest].stage = "over" => shown.status \in {"connected", "reconnecting"}
    /\ listening <=> chains[Latest].to \in ListenOnly

\* What the last chain is about, while it has no room.
LastIsHeeded ==
  /\ Latest = 0 => current = NoRoom /\ shown \in {Idle, Failed}
  /\ Latest # 0 =>
       /\ chains[Latest].stage # "cleaning"
       /\ chains[Latest].stage \in {"connecting", "output"} => current = Latest
       /\ chains[Latest].stage = "asking" =>
            chains[Latest].mine = joinSeq /\ shown.channel = chains[Latest].to
       /\ (chains[Latest].stage = "over" /\ current = NoRoom) => shown \in {Idle, Failed}

\* A call that is not the window's is about to be left.
OthersAreLeft ==
  \A n \in inCall :
    \/ n = current \/ chains[n].stage = "cleaning"
    \/ Latest # 0 /\ chains[Latest].stage = "leaving" /\ chains[Latest].from = n

JoinInv ==
  /\ JoinTypeOK /\ NotYetThere
  /\ ~untimely => EarlierAreLate /\ CurrentIsLast /\ LastIsHeeded /\ OthersAreLeft

-----------------------------------------------------------------------------
(* What becomes of the chains.                                              *)

Stages == Awaiting \cup {"over"}
ChainRow == [to : Rooms \cup {Nowhere}, stage : Stages, mine : 0..MaxChains, from : 0..MaxChains]

\* One chain moves to another stage; the others stay as they are.
MovesTo(n, turn) ==
  /\ DOMAIN chains' = DOMAIN chains /\ Len(chains') = Len(chains)
  /\ \A c \in DOMAIN chains :
       /\ chains'[c].to = chains[c].to /\ chains'[c].mine = chains[c].mine
       /\ chains'[c].from = chains[c].from
       /\ chains'[c].stage = IF c = n THEN turn ELSE chains[c].stage

LEMMA Typed ==
  ASSUME JoinTypeOK
  PROVE  /\ chains \in Seq(ChainRow) /\ Latest \in Nat /\ DOMAIN chains = 1..Latest
         /\ \A c \in DOMAIN chains : chains[c] \in ChainRow
<1>1. chains \in Seq(ChainRow) BY DEF JoinTypeOK, ChainRow, Stages
<1>2. Len(chains) \in Nat /\ DOMAIN chains = 1..Len(chains) BY <1>1
<1>3. \A c \in DOMAIN chains : chains[c] \in ChainRow BY <1>1
<1> QED BY <1>1, <1>2, <1>3 DEF Latest

\* A chain that has been asked for is one of those there may be.
LEMMA Within ==
  ASSUME JoinTypeOK, NotYetThere, NEW n \in DOMAIN chains
  PROVE  n \in Chain /\ n \in 0..MaxChains /\ n # NoRoom
<1>1. Latest \in Nat /\ n \in 1..Latest BY Typed
<1>2. Latest \in 0..MaxChains BY DEF JoinTypeOK, NotYetThere
<1> QED BY <1>1, <1>2, VoiceJoinAssumption DEF Chain, NoRoom

LEMMA Moving ==
  ASSUME JoinTypeOK, NEW n \in DOMAIN chains, NEW turn \in Stages,
         chains' = [chains EXCEPT ![n].stage = turn]
  PROVE  chains' \in Seq(ChainRow) /\ MovesTo(n, turn)
<1>1. chains \in Seq(ChainRow) /\ Latest \in Nat /\ DOMAIN chains = 1..Latest
      /\ \A c \in DOMAIN chains : chains[c] \in ChainRow
  BY Typed
<1> DEFINE row == [chains[n] EXCEPT !.stage = turn]
<1>2. /\ row \in ChainRow /\ row.to = chains[n].to /\ row.mine = chains[n].mine
      /\ row.from = chains[n].from /\ row.stage = turn
  BY <1>1 DEF ChainRow
<1>3. chains' = [chains EXCEPT ![n] = row] OBVIOUS
<1> HIDE DEF row
<1>4. /\ chains' \in Seq(ChainRow) /\ DOMAIN chains' = DOMAIN chains /\ Len(chains') = Len(chains)
      /\ \A c \in DOMAIN chains : chains'[c] = IF c = n THEN row ELSE chains[c]
  BY <1>1, <1>2, <1>3
<1> QED BY <1>2, <1>4 DEF MovesTo

LEMMA TroubleIsTyped ==
  ASSUME Trouble, troubles \in 0..MaxTroubles
  PROVE  troubles' \in 0..MaxTroubles
BY VoiceJoinAssumption DEF Trouble

LEMMA JoinInitSound == JoinInit => JoinInv
<1> SUFFICES ASSUME JoinInit PROVE JoinInv OBVIOUS
<1>1. JoinTypeOK
  <2>1. chains \in Seq([to : Rooms \cup {Nowhere}, stage : Awaiting \cup {"over"},
                        mine : 0..MaxChains, from : 0..MaxChains])
    BY DEF JoinInit
  <2>2. 0 \in 0..MaxChains /\ troubles \in 0..MaxTroubles
    BY VoiceJoinAssumption DEF JoinInit
  <2>3. /\ shown \in [channel : Rooms \cup {Nowhere},
                     status : {"idle", "connecting", "connected", "reconnecting", "failed"}]
        /\ joinSeq = 0 /\ current = 0 /\ inCall = {} /\ listening = FALSE /\ untimely = FALSE
    BY DEF JoinInit, Idle, NoRoom
  <2> QED BY <2>1, <2>2, <2>3 DEF JoinTypeOK
<1>2. Latest = 0 /\ DOMAIN chains = {} BY DEF JoinInit, Latest
<1> QED BY <1>1, <1>2
  DEF JoinInit, JoinInv, NotYetThere, EarlierAreLate, CurrentIsLast, LastIsHeeded, OthersAreLeft

\* A step of one chain from one stage to another.
LEMMA ConnectedStep ==
  ASSUME JoinInv, NEW n \in DOMAIN chains, Connected(n)
  PROVE  JoinInv'
<1> DEFINE next == IF current = n THEN "output" ELSE "cleaning"
<1>1. JoinTypeOK /\ NotYetThere /\ next \in Stages BY DEF JoinInv, Stages, Awaiting
<1>2. /\ chains[n].stage = "connecting" /\ inCall' = inCall \cup {n}
      /\ chains' = [chains EXCEPT ![n].stage = next]
      /\ UNCHANGED <<joinSeq, current, listening, shown, untimely, troubles>>
  BY DEF Connected, At, To
<1>3. Latest \in Nat /\ DOMAIN chains = 1..Latest BY <1>1, Typed
<1>4. chains' \in Seq(ChainRow) /\ MovesTo(n, next) BY <1>1, <1>2, Moving
<1>5. Latest' = Latest /\ DOMAIN chains' = DOMAIN chains BY <1>4 DEF MovesTo, Latest
<1>6. JoinTypeOK' BY <1>1, <1>2, <1>4, Within DEF JoinTypeOK, ChainRow, Stages
<1>7. NotYetThere' BY <1>1, <1>2, <1>4, <1>5 DEF NotYetThere, MovesTo
<1>8. ASSUME ~untimely'
      PROVE  EarlierAreLate' /\ CurrentIsLast' /\ LastIsHeeded' /\ OthersAreLeft'
  <2>1. EarlierAreLate /\ CurrentIsLast /\ LastIsHeeded /\ OthersAreLeft
    BY <1>2, <1>8 DEF JoinInv
  <2>2. n # Latest => current # n BY <1>1, <2>1, Within DEF CurrentIsLast
  <2> USE <1>1, <1>2, <1>3, <1>4, <1>5, <2>1
  <2>3. EarlierAreLate' BY <2>2 DEF EarlierAreLate, MovesTo
  <2>4. CurrentIsLast' BY DEF CurrentIsLast, MovesTo, NoRoom
  <2>5. LastIsHeeded' BY DEF LastIsHeeded, MovesTo
  <2>6. OthersAreLeft' BY DEF OthersAreLeft, MovesTo, NotYetThere
  <2> QED BY <2>3, <2>4, <2>5, <2>6
<1> QED BY <1>6, <1>7, <1>8 DEF JoinInv

LEMMA CleanedUpStep ==
  ASSUME JoinInv, NEW n \in DOMAIN chains, CleanedUp(n)
  PROVE  JoinInv'
<1>1. JoinTypeOK /\ NotYetThere /\ "over" \in Stages BY DEF JoinInv, Stages, Awaiting
<1>2. /\ chains[n].stage \in {"failing", "cleaning"} /\ inCall' = inCall \ {n}
      /\ chains' = [chains EXCEPT ![n].stage = "over"]
      /\ shown' = IF chains[n].stage = "failing" THEN Failed ELSE shown
      /\ UNCHANGED <<joinSeq, current, listening, untimely, troubles>>
  BY DEF CleanedUp, At, Over
<1>3. Latest \in Nat /\ DOMAIN chains = 1..Latest BY <1>1, Typed
<1>4. chains' \in Seq(ChainRow) /\ MovesTo(n, "over") BY <1>1, <1>2, Moving
<1>5. Latest' = Latest /\ DOMAIN chains' = DOMAIN chains BY <1>4 DEF MovesTo, Latest
<1>6. JoinTypeOK' BY <1>1, <1>2, <1>4 DEF JoinTypeOK, ChainRow, Stages, Failed
<1>7. NotYetThere' BY <1>1, <1>2, <1>4, <1>5 DEF NotYetThere, MovesTo
<1>8. ASSUME ~untimely'
      PROVE  EarlierAreLate' /\ CurrentIsLast' /\ LastIsHeeded' /\ OthersAreLeft'
  <2>1. EarlierAreLate /\ CurrentIsLast /\ LastIsHeeded /\ OthersAreLeft
    BY <1>2, <1>8 DEF JoinInv
  <2>2. n # Latest => chains[n].stage = "cleaning" BY <1>2, <1>3, <2>1 DEF EarlierAreLate
  <2>3. n = Latest => current = NoRoom /\ shown' = Failed
    BY <1>2, <1>3, <2>1 DEF CurrentIsLast, LastIsHeeded
  <2> USE <1>1, <1>2, <1>3, <1>4, <1>5, <2>1, <2>2, <2>3
  <2>4. EarlierAreLate' BY DEF EarlierAreLate, MovesTo
  <2>5. CurrentIsLast' BY DEF CurrentIsLast, MovesTo
  <2>6. LastIsHeeded' BY DEF LastIsHeeded, MovesTo
  <2>7. OthersAreLeft' BY DEF OthersAreLeft, MovesTo, NotYetThere
  <2> QED BY <2>4, <2>5, <2>6, <2>7
<1> QED BY <1>6, <1>7, <1>8 DEF JoinInv

LEMMA ConnectFailsStep ==
  ASSUME JoinInv, NEW n \in DOMAIN chains, ConnectFails(n)
  PROVE  JoinInv'
<1> DEFINE next == IF current = n THEN "failing" ELSE "cleaning"
<1>1. JoinTypeOK /\ NotYetThere /\ next \in Stages BY DEF JoinInv, Stages, Awaiting
<1>2. /\ chains[n].stage = "connecting"
      /\ current' = (IF current = n THEN NoRoom ELSE current)
      /\ chains' = [chains EXCEPT ![n].stage = next]
      /\ UNCHANGED <<joinSeq, listening, inCall, shown, untimely>>
      /\ Trouble \/ UNCHANGED troubles
  BY DEF ConnectFails, At, To
<1>3. Latest \in Nat /\ DOMAIN chains = 1..Latest BY <1>1, Typed
<1>4. chains' \in Seq(ChainRow) /\ MovesTo(n, next) BY <1>1, <1>2, Moving
<1>5. Latest' = Latest /\ DOMAIN chains' = DOMAIN chains BY <1>4 DEF MovesTo, Latest
<1>6. JoinTypeOK'
  <2>1. troubles' \in 0..MaxTroubles BY <1>1, <1>2, TroubleIsTyped DEF JoinTypeOK
  <2>2. current' \in 0..MaxChains BY <1>1, <1>2, VoiceJoinAssumption DEF JoinTypeOK, NoRoom
  <2> QED BY <1>1, <1>2, <1>4, <2>1, <2>2 DEF JoinTypeOK, ChainRow, Stages
<1>7. NotYetThere' BY <1>1, <1>2, <1>4, <1>5 DEF NotYetThere, MovesTo
<1>8. ASSUME ~untimely'
      PROVE  EarlierAreLate' /\ CurrentIsLast' /\ LastIsHeeded' /\ OthersAreLeft'
  <2>1. EarlierAreLate /\ CurrentIsLast /\ LastIsHeeded /\ OthersAreLeft
    BY <1>2, <1>8 DEF JoinInv
  <2>2. n # Latest => current # n BY <1>1, <2>1, Within DEF CurrentIsLast
  <2>3. n \notin inCall BY <1>1, <1>2 DEF NotYetThere
  <2> USE <1>1, <1>2, <1>3, <1>4, <1>5, <2>1, <2>2, <2>3
  <2>4. EarlierAreLate' BY DEF EarlierAreLate, MovesTo
  <2>5. CurrentIsLast' BY DEF CurrentIsLast, MovesTo
  <2>6. LastIsHeeded' BY DEF LastIsHeeded, MovesTo
  <2>7. OthersAreLeft' BY DEF OthersAreLeft, MovesTo, NotYetThere
  <2> QED BY <2>4, <2>5, <2>6, <2>7
<1> QED BY <1>6, <1>7, <1>8 DEF JoinInv

LEMMA EnteredStep ==
  ASSUME JoinInv, NEW n \in DOMAIN chains, Entered(n)
  PROVE  JoinInv'
<1>1. JoinTypeOK /\ NotYetThere /\ "over" \in Stages BY DEF JoinInv, Stages, Awaiting
<1>2. /\ chains[n].stage = "output" /\ shown' = [shown EXCEPT !.status = "connected"]
      /\ chains' = [chains EXCEPT ![n].stage = "over"]
      /\ UNCHANGED <<joinSeq, current, listening, inCall, untimely, troubles>>
  BY DEF Entered, At, Over
<1>3. Latest \in Nat /\ DOMAIN chains = 1..Latest BY <1>1, Typed
<1>4. chains' \in Seq(ChainRow) /\ MovesTo(n, "over") BY <1>1, <1>2, Moving
<1>5. Latest' = Latest /\ DOMAIN chains' = DOMAIN chains BY <1>4 DEF MovesTo, Latest
<1>6. /\ JoinTypeOK'
      /\ shown'.channel = shown.channel /\ shown'.status = "connected"
  BY <1>1, <1>2, <1>4 DEF JoinTypeOK, ChainRow, Stages
<1>7. NotYetThere' BY <1>1, <1>2, <1>4, <1>5 DEF NotYetThere, MovesTo
<1>8. ASSUME ~untimely'
      PROVE  EarlierAreLate' /\ CurrentIsLast' /\ LastIsHeeded' /\ OthersAreLeft'
  <2>1. EarlierAreLate /\ CurrentIsLast /\ LastIsHeeded /\ OthersAreLeft
    BY <1>2, <1>8 DEF JoinInv
  <2>2. n = Latest /\ current = Latest /\ current # NoRoom
    BY <1>1, <1>2, <1>3, <2>1, Within DEF EarlierAreLate, LastIsHeeded
  <2> USE <1>1, <1>2, <1>3, <1>4, <1>5, <1>6, <2>1, <2>2
  <2>4. EarlierAreLate' BY DEF EarlierAreLate, MovesTo
  <2>5. CurrentIsLast' BY DEF CurrentIsLast, MovesTo
  <2>6. LastIsHeeded' BY DEF LastIsHeeded, MovesTo
  <2>7. OthersAreLeft' BY DEF OthersAreLeft, MovesTo, NotYetThere
  <2> QED BY <2>4, <2>5, <2>6, <2>7
<1> QED BY <1>6, <1>7, <1>8 DEF JoinInv

\* A token that comes too late, one that comes in time, one that is refused.
LEMMA TokenTooLate ==
  ASSUME JoinInv, NEW n \in DOMAIN chains, NEW granted \in BOOLEAN, Token(n, granted),
         Superseded(n)
  PROVE  JoinInv'
<1>1. JoinTypeOK /\ NotYetThere /\ "over" \in Stages BY DEF JoinInv, Stages, Awaiting
<1>2. /\ chains[n].stage = "asking" /\ chains' = [chains EXCEPT ![n].stage = "over"]
      /\ UNCHANGED <<current, listening, shown>>
      /\ UNCHANGED <<joinSeq, inCall, untimely>> /\ (Trouble \/ UNCHANGED troubles)
  BY DEF Token, At, To, Over
<1>3. Latest \in Nat /\ DOMAIN chains = 1..Latest BY <1>1, Typed
<1>4. chains' \in Seq(ChainRow) /\ MovesTo(n, "over") BY <1>1, <1>2, Moving
<1>5. Latest' = Latest /\ DOMAIN chains' = DOMAIN chains BY <1>4 DEF MovesTo, Latest
<1>6. JoinTypeOK'
  <2>1. troubles' \in 0..MaxTroubles BY <1>1, <1>2, TroubleIsTyped DEF JoinTypeOK
  <2>2. current' \in 0..MaxChains BY <1>1, <1>2 DEF JoinTypeOK
  <2> QED BY <1>1, <1>2, <1>4, <2>1, <2>2 DEF JoinTypeOK, ChainRow, Stages, Failed
<1>7. NotYetThere' BY <1>1, <1>2, <1>4, <1>5 DEF NotYetThere, MovesTo
<1>8. ASSUME ~untimely'
      PROVE  EarlierAreLate' /\ CurrentIsLast' /\ LastIsHeeded' /\ OthersAreLeft'
  <2>1. EarlierAreLate /\ CurrentIsLast /\ LastIsHeeded /\ OthersAreLeft
    BY <1>2, <1>8 DEF JoinInv
  <2>2. n # Latest BY <1>2, <1>3, <2>1 DEF LastIsHeeded, Superseded
  <2>3. n # NoRoom /\ n \notin inCall BY <1>1, <1>2, Within DEF NotYetThere
  <2> USE <1>2, <1>3, <1>4, <1>5, <2>1, <2>2, <2>3
  <2>4. EarlierAreLate' BY DEF EarlierAreLate, MovesTo
  <2>5. CurrentIsLast' BY DEF CurrentIsLast, MovesTo
  <2>6. LastIsHeeded' BY DEF LastIsHeeded, MovesTo
  <2>7. OthersAreLeft' BY <1>1 DEF OthersAreLeft, MovesTo, NotYetThere
  <2> QED BY <2>4, <2>5, <2>6, <2>7
<1> QED BY <1>6, <1>7, <1>8 DEF JoinInv

LEMMA TokenInTime ==
  ASSUME JoinInv, NEW n \in DOMAIN chains, NEW granted \in BOOLEAN, Token(n, granted),
         ~Superseded(n), granted
  PROVE  JoinInv'
<1>1. JoinTypeOK /\ NotYetThere /\ "connecting" \in Stages BY DEF JoinInv, Stages, Awaiting
<1>2. /\ chains[n].stage = "asking" /\ chains' = [chains EXCEPT ![n].stage = "connecting"]
      /\ listening' = (chains[n].to \in ListenOnly) /\ current' = n /\ UNCHANGED shown
      /\ UNCHANGED <<joinSeq, inCall, untimely>> /\ (Trouble \/ UNCHANGED troubles)
  BY DEF Token, At, To, Over
<1>3. Latest \in Nat /\ DOMAIN chains = 1..Latest BY <1>1, Typed
<1>4. chains' \in Seq(ChainRow) /\ MovesTo(n, "connecting") BY <1>1, <1>2, Moving
<1>5. Latest' = Latest /\ DOMAIN chains' = DOMAIN chains BY <1>4 DEF MovesTo, Latest
<1>6. JoinTypeOK'
  <2>1. troubles' \in 0..MaxTroubles BY <1>1, <1>2, TroubleIsTyped DEF JoinTypeOK
  <2>2. current' \in 0..MaxChains BY <1>1, <1>2, Within DEF JoinTypeOK
  <2> QED BY <1>1, <1>2, <1>4, <2>1, <2>2 DEF JoinTypeOK, ChainRow, Stages, Failed
<1>7. NotYetThere' BY <1>1, <1>2, <1>4, <1>5 DEF NotYetThere, MovesTo
<1>8. ASSUME ~untimely'
      PROVE  EarlierAreLate' /\ CurrentIsLast' /\ LastIsHeeded' /\ OthersAreLeft'
  <2>1. EarlierAreLate /\ CurrentIsLast /\ LastIsHeeded /\ OthersAreLeft
    BY <1>2, <1>8 DEF JoinInv
  <2>2. n = Latest /\ current = NoRoom /\ shown.channel = chains[n].to
    BY <1>1, <1>2, <1>3, <2>1, Within DEF EarlierAreLate, CurrentIsLast, LastIsHeeded, Superseded
  <2>3. n # NoRoom /\ n \notin inCall BY <1>1, <1>2, Within DEF NotYetThere
  <2> USE <1>2, <1>3, <1>4, <1>5, <2>1, <2>2, <2>3
  <2>4. EarlierAreLate' BY DEF EarlierAreLate, MovesTo
  <2>5. CurrentIsLast'
    <3>1. /\ current' = Latest' /\ chains'[Latest'].stage = "connecting" /\ chains'[Latest'].to = chains[n].to
          /\ shown'.channel = chains[n].to
      BY DEF MovesTo
    <3>2. listening' <=> chains[n].to \in ListenOnly BY <1>2
    <3> QED BY ONLY <3>1, <3>2 DEF CurrentIsLast
  <2>6. LastIsHeeded' BY DEF LastIsHeeded, MovesTo
  <2>7. OthersAreLeft'
    <3>1. \A m \in inCall : m \in DOMAIN chains /\ m # n /\ chains[m].stage = "cleaning"
      BY <1>1 DEF OthersAreLeft, NotYetThere, NoRoom
    <3>2. \A m \in inCall' : chains'[m].stage = "cleaning" BY ONLY <3>1, <1>2, <1>4 DEF MovesTo
    <3> QED BY ONLY <3>2 DEF OthersAreLeft
  <2> QED BY <2>4, <2>5, <2>6, <2>7
<1> QED BY <1>6, <1>7, <1>8 DEF JoinInv

LEMMA TokenRefused ==
  ASSUME JoinInv, NEW n \in DOMAIN chains, NEW granted \in BOOLEAN, Token(n, granted),
         ~Superseded(n), ~granted
  PROVE  JoinInv'
<1>1. JoinTypeOK /\ NotYetThere /\ "over" \in Stages BY DEF JoinInv, Stages, Awaiting
<1>2. /\ chains[n].stage = "asking" /\ chains' = [chains EXCEPT ![n].stage = "over"]
      /\ shown' = Failed /\ UNCHANGED <<current, listening>>
      /\ UNCHANGED <<joinSeq, inCall, untimely>> /\ (Trouble \/ UNCHANGED troubles)
  BY DEF Token, At, To, Over
<1>3. Latest \in Nat /\ DOMAIN chains = 1..Latest BY <1>1, Typed
<1>4. chains' \in Seq(ChainRow) /\ MovesTo(n, "over") BY <1>1, <1>2, Moving
<1>5. Latest' = Latest /\ DOMAIN chains' = DOMAIN chains BY <1>4 DEF MovesTo, Latest
<1>6. JoinTypeOK'
  <2>1. troubles' \in 0..MaxTroubles BY <1>1, <1>2, TroubleIsTyped DEF JoinTypeOK
  <2>2. current' \in 0..MaxChains BY <1>1, <1>2 DEF JoinTypeOK
  <2> QED BY <1>1, <1>2, <1>4, <2>1, <2>2 DEF JoinTypeOK, ChainRow, Stages, Failed
<1>7. NotYetThere' BY <1>1, <1>2, <1>4, <1>5 DEF NotYetThere, MovesTo
<1>8. ASSUME ~untimely'
      PROVE  EarlierAreLate' /\ CurrentIsLast' /\ LastIsHeeded' /\ OthersAreLeft'
  <2>1. EarlierAreLate /\ CurrentIsLast /\ LastIsHeeded /\ OthersAreLeft
    BY <1>2, <1>8 DEF JoinInv
  <2>2. n = Latest /\ current = NoRoom /\ shown.channel = chains[n].to
    BY <1>1, <1>2, <1>3, <2>1, Within DEF EarlierAreLate, CurrentIsLast, LastIsHeeded, Superseded
  <2>3. n # NoRoom /\ n \notin inCall BY <1>1, <1>2, Within DEF NotYetThere
  <2> USE <1>2, <1>3, <1>4, <1>5, <2>1, <2>2, <2>3
  <2>4. EarlierAreLate' BY DEF EarlierAreLate, MovesTo
  <2>5. CurrentIsLast' BY DEF CurrentIsLast, MovesTo
  <2>6. LastIsHeeded' BY DEF LastIsHeeded, MovesTo
  <2>7. OthersAreLeft' BY <1>1 DEF OthersAreLeft, MovesTo, NotYetThere
  <2> QED BY <2>4, <2>5, <2>6, <2>7
<1> QED BY <1>6, <1>7, <1>8 DEF JoinInv

LEMMA TokenStep ==
  ASSUME JoinInv, NEW n \in DOMAIN chains, NEW granted \in BOOLEAN, Token(n, granted)
  PROVE  JoinInv'
BY TokenTooLate, TokenInTime, TokenRefused

LEMMA DroppedStep ==
  ASSUME JoinInv, NEW n \in DOMAIN chains, Dropped(n)
  PROVE  JoinInv'
<1>1. JoinTypeOK /\ NotYetThere BY DEF JoinInv
<1>2. /\ n \in inCall /\ Trouble /\ inCall' = inCall \ {n} /\ untimely' = (untimely \/ At(n, "output"))
      /\ current = n => current' = NoRoom /\ shown' = Idle
      /\ current # n => UNCHANGED <<current, shown>>
      /\ UNCHANGED <<chains, joinSeq, listening>>
  BY DEF Dropped, IsCurrent
<1>3. Latest \in Nat /\ DOMAIN chains = 1..Latest /\ Latest' = Latest BY <1>1, <1>2, Typed DEF Latest
<1>4. JoinTypeOK'
  <2>1. troubles' \in 0..MaxTroubles BY <1>1, <1>2, TroubleIsTyped DEF JoinTypeOK
  <2>2. current' \in 0..MaxChains BY <1>1, <1>2, VoiceJoinAssumption DEF JoinTypeOK, NoRoom
  <2>3. shown' \in {Idle, shown} BY <1>2
  <2>4. untimely' \in BOOLEAN BY <1>1, <1>2 DEF JoinTypeOK, At
  <2>5. UNCHANGED <<chains, joinSeq, listening>> /\ inCall' \subseteq inCall BY <1>2
  <2> QED BY <1>1, <2>1, <2>2, <2>3, <2>4, <2>5 DEF JoinTypeOK, Idle
<1>5. NotYetThere' BY <1>1, <1>2, <1>3 DEF NotYetThere
<1>6. ASSUME ~untimely'
      PROVE  EarlierAreLate' /\ CurrentIsLast' /\ LastIsHeeded' /\ OthersAreLeft'
  <2>1. EarlierAreLate /\ CurrentIsLast /\ LastIsHeeded /\ OthersAreLeft
    BY <1>2, <1>6 DEF JoinInv
  <2>2. current = n => n = Latest /\ chains[Latest].stage = "over" /\ n # NoRoom
    BY <1>1, <1>2, <1>6, <2>1, Within DEF CurrentIsLast, NotYetThere, At
  <2>3. EarlierAreLate' BY <1>2, <1>3, <2>1 DEF EarlierAreLate
  <2>4. CurrentIsLast' BY <1>2, <1>3, <2>1 DEF CurrentIsLast
  <2>5. LastIsHeeded' BY <1>2, <1>3, <2>1, <2>2 DEF LastIsHeeded
  <2>6. OthersAreLeft' BY <1>2, <1>3, <2>1 DEF OthersAreLeft
  <2> QED BY <2>3, <2>4, <2>5, <2>6
<1> QED BY <1>4, <1>5, <1>6 DEF JoinInv

LEMMA LinkStep ==
  ASSUME JoinInv, NEW n \in DOMAIN chains, NEW status \in {"reconnecting", "connected"},
         Link(n, status)
  PROVE  JoinInv'
<1>1. JoinTypeOK /\ NotYetThere BY DEF JoinInv
<1>2. /\ current = n /\ chains[n].stage = "over" /\ shown' = [shown EXCEPT !.status = status]
      /\ UNCHANGED <<chains, joinSeq, current, listening, inCall, untimely, troubles>>
  BY DEF Link, IsCurrent, At
<1>3. Latest' = Latest /\ current # NoRoom BY <1>1, <1>2, Within DEF Latest
<1>4. JoinTypeOK' /\ shown'.channel = shown.channel /\ shown'.status = status
  BY <1>1, <1>2 DEF JoinTypeOK
<1>5. NotYetThere' BY <1>1, <1>2, <1>3 DEF NotYetThere
<1>6. ASSUME ~untimely'
      PROVE  EarlierAreLate' /\ CurrentIsLast' /\ LastIsHeeded' /\ OthersAreLeft'
  <2>1. EarlierAreLate /\ CurrentIsLast /\ LastIsHeeded /\ OthersAreLeft
    BY <1>2, <1>6 DEF JoinInv
  <2>3. EarlierAreLate' BY <1>2, <1>3, <2>1 DEF EarlierAreLate
  <2>4. CurrentIsLast' BY <1>2, <1>3, <1>4, <2>1 DEF CurrentIsLast
  <2>5. LastIsHeeded' BY <1>2, <1>3, <1>4, <2>1 DEF LastIsHeeded, CurrentIsLast
  <2>6. OthersAreLeft' BY <1>2, <1>3, <2>1 DEF OthersAreLeft
  <2> QED BY <2>3, <2>4, <2>5, <2>6
<1> QED BY <1>4, <1>5, <1>6 DEF JoinInv

\* Chain n stands for what has just been asked; the others are as they were.
StandsAt(n, to, turn, mine, from) ==
  /\ DOMAIN chains' = DOMAIN chains \cup {n}
  /\ \A c \in DOMAIN chains : c # n => chains'[c] = chains[c]
  /\ chains'[n].to = to /\ chains'[n].stage = turn
  /\ chains'[n].mine = mine /\ chains'[n].from = from

LEMMA PastTheLeaving ==
  ASSUME JoinTypeOK, NEW n \in 1..Latest + 1, NEW to \in Rooms \cup {Nowhere},
         NEW seq \in 0..MaxChains, PastLeaving(n, to, seq)
  PROVE  /\ chains' \in Seq(ChainRow)
         /\ Len(chains') = IF n \in DOMAIN chains THEN Latest ELSE Latest + 1
         /\ StandsAt(n, to, IF to = Nowhere THEN "over" ELSE "asking", seq, NoRoom)
<1>1. /\ chains \in Seq(ChainRow) /\ Latest \in Nat /\ DOMAIN chains = 1..Latest
      /\ \A c \in DOMAIN chains : chains[c] \in ChainRow
  BY Typed
<1> DEFINE turn == IF to = Nowhere THEN "over" ELSE "asking"
           row == [to |-> to, stage |-> turn, mine |-> seq, from |-> NoRoom]
           size == IF n \in DOMAIN chains THEN Latest ELSE Latest + 1
<1>2. row \in ChainRow
  BY VoiceJoinAssumption DEF ChainRow, Stages, Awaiting, NoRoom
<1>3. row.to = to /\ row.stage = turn /\ row.mine = seq /\ row.from = NoRoom OBVIOUS
<1>4. chains' = [c \in DOMAIN chains \cup {n} |-> IF c # n THEN chains[c] ELSE row]
  BY DEF PastLeaving
<1>5. size \in Nat /\ DOMAIN chains \cup {n} = 1..size BY <1>1
<1> HIDE DEF row, size, turn
<1>6. chains' = [c \in 1..size |-> IF c # n THEN chains[c] ELSE row] BY <1>4, <1>5
<1>7. \A c \in 1..size : (IF c # n THEN chains[c] ELSE row) \in ChainRow BY <1>1, <1>2, <1>5
<1>8. chains' \in Seq(ChainRow) /\ Len(chains') = size
  BY <1>5, <1>6, <1>7
<1>9. StandsAt(n, to, turn, seq, NoRoom) BY <1>1, <1>3, <1>4 DEF StandsAt
<1> QED BY <1>8, <1>9 DEF size, turn

LEMMA DisconnectedStep ==
  ASSUME JoinInv, NEW n \in DOMAIN chains, Disconnected(n)
  PROVE  JoinInv'
<1> DEFINE to == chains[n].to
           turn == IF to = Nowhere THEN "over" ELSE "asking"
<1>1. JoinTypeOK /\ NotYetThere BY DEF JoinInv
<1>2. /\ chains[n].stage = "leaving" /\ inCall' = inCall \ {chains[n].from}
      /\ PastLeaving(n, to, joinSeq) /\ UNCHANGED <<joinSeq, current, untimely, troubles>>
  BY DEF Disconnected, At
<1>3. Latest \in Nat /\ DOMAIN chains = 1..Latest /\ n \in 1..Latest + 1 /\ to \in Rooms \cup {Nowhere}
  BY <1>1, Typed DEF ChainRow
<1>4. /\ shown' = IF to = Nowhere THEN Idle ELSE [channel |-> to, status |-> "connecting"]
      /\ listening' = FALSE
  BY <1>2 DEF PastLeaving
<1>5. chains' \in Seq(ChainRow) /\ Len(chains') = Latest /\ StandsAt(n, to, turn, joinSeq, NoRoom)
  BY <1>1, <1>2, <1>3, PastTheLeaving DEF JoinTypeOK
<1> HIDE DEF to
<1>6. Latest' = Latest /\ DOMAIN chains' = DOMAIN chains BY <1>5 DEF StandsAt, Latest
<1>7. JoinTypeOK'
  BY <1>1, <1>2, <1>3, <1>4, <1>5 DEF JoinTypeOK, ChainRow, Stages, Idle
<1>8. NotYetThere'
  BY <1>1, <1>2, <1>3, <1>5, <1>6 DEF NotYetThere, StandsAt, JoinTypeOK
<1>9. ASSUME ~untimely'
      PROVE  EarlierAreLate' /\ CurrentIsLast' /\ LastIsHeeded' /\ OthersAreLeft'
  <2>1. EarlierAreLate /\ CurrentIsLast /\ LastIsHeeded /\ OthersAreLeft
    BY <1>2, <1>9 DEF JoinInv
  <2>2. n = Latest /\ current = NoRoom
    BY <1>2, <1>3, <2>1 DEF EarlierAreLate, CurrentIsLast
  <2>3. EarlierAreLate' BY <1>2, <1>3, <1>5, <1>6, <2>1, <2>2 DEF EarlierAreLate, StandsAt
  <2>4. CurrentIsLast' BY <1>2, <2>2 DEF CurrentIsLast
  <2>5. LastIsHeeded' BY <1>2, <1>3, <1>4, <1>5, <1>6, <2>2 DEF LastIsHeeded, StandsAt
  <2>6. OthersAreLeft'
    <3>1. \A m \in inCall' : m \in DOMAIN chains /\ chains[m].stage = "cleaning" /\ m # n
      BY <1>1, <1>2, <1>3, <2>1, <2>2 DEF OthersAreLeft, NotYetThere, NoRoom
    <3>2. \A m \in inCall' : chains'[m].stage = "cleaning" BY <3>1, <1>5 DEF StandsAt
    <3> QED BY <3>2 DEF OthersAreLeft
  <2> QED BY <2>3, <2>4, <2>5, <2>6
<1> QED BY <1>7, <1>8, <1>9 DEF JoinInv

\* Either way of asking: the row of the new chain.
LEMMA AskRow ==
  ASSUME JoinTypeOK, NotYetThere, NEW to \in Rooms \cup {Nowhere}, Ask(to)
  PROVE  /\ chains' \in Seq(ChainRow) /\ Len(chains') = Latest + 1
         /\ IF current = NoRoom
            THEN StandsAt(Latest + 1, to, IF to = Nowhere THEN "over" ELSE "asking", joinSeq', NoRoom)
            ELSE StandsAt(Latest + 1, to, "leaving", 0, current)
<1>1. Latest \in Nat /\ Latest + 1 <= MaxChains /\ joinSeq' = joinSeq + 1 /\ joinSeq = Latest
  BY Typed DEF Ask, Latest, NotYetThere
<1>2. joinSeq' \in 0..MaxChains /\ 0 \in 0..MaxChains BY <1>1, VoiceJoinAssumption
<1>3. chains \in Seq(ChainRow) /\ DOMAIN chains = 1..Latest BY Typed
<1>4. CASE current = NoRoom
  <2>1. PastLeaving(Latest + 1, to, joinSeq') BY <1>1, <1>4 DEF Ask, Latest
  <2>2. Latest + 1 \in 1..Latest + 1 /\ Latest + 1 \notin DOMAIN chains BY <1>1, <1>3
  <2> QED BY <1>2, <1>4, <2>1, <2>2, PastTheLeaving
<1>5. CASE current # NoRoom
  <2> DEFINE row == [to |-> to, stage |-> "leaving", mine |-> 0, from |-> current]
  <2>1. chains' = Append(chains, row) BY <1>5 DEF Ask
  <2>2. row \in ChainRow BY <1>2 DEF ChainRow, Stages, Awaiting, JoinTypeOK
  <2>3. row.to = to /\ row.stage = "leaving" /\ row.mine = 0 /\ row.from = current OBVIOUS
  <2> HIDE DEF row
  <2>4. /\ chains' \in Seq(ChainRow) /\ Len(chains') = Latest + 1 /\ DOMAIN chains' = 1..Latest + 1
        /\ chains'[Latest + 1] = row /\ \A c \in 1..Latest : chains'[c] = chains[c]
    BY <1>3, <2>1, <2>2 DEF Latest
  <2>5. 1..Latest + 1 = DOMAIN chains \cup {Latest + 1} BY <1>1, <1>3
  <2>6. StandsAt(Latest + 1, to, "leaving", 0, current) BY <1>3, <2>3, <2>4, <2>5 DEF StandsAt
  <2> QED BY <1>5, <2>4, <2>6
<1> QED BY <1>4, <1>5

LEMMA AskStep ==
  ASSUME JoinInv, NEW to \in Rooms \cup {Nowhere}, Ask(to)
  PROVE  JoinInv'
<1>1. JoinTypeOK /\ NotYetThere BY DEF JoinInv
<1>2. /\ joinSeq' = joinSeq + 1 /\ current' = NoRoom /\ untimely' = (untimely \/ OutOfTurn)
      /\ UNCHANGED <<inCall, troubles>> /\ Latest + 1 <= MaxChains
      /\ shown' \in {shown, Idle, [channel |-> to, status |-> "connecting"]}
      /\ listening' \in {listening, FALSE}
  BY DEF Ask, PastLeaving, Latest
<1>3. Latest \in Nat /\ DOMAIN chains = 1..Latest /\ joinSeq = Latest
  BY <1>1, Typed DEF NotYetThere
<1>4. chains' \in Seq(ChainRow) /\ Latest' = Latest + 1 BY <1>1, AskRow DEF Latest
<1>5. PICK turn, mine, from : StandsAt(Latest + 1, to, turn, mine, from)
  BY <1>1, AskRow
<1>6. IF current = NoRoom
      THEN turn = (IF to = Nowhere THEN "over" ELSE "asking") /\ mine = joinSeq'
      ELSE turn = "leaving" /\ from = current
  BY <1>1, <1>5, AskRow DEF StandsAt
<1>7. DOMAIN chains' = 1..Latest + 1 /\ \A c \in 1..Latest : chains'[c] = chains[c]
  BY <1>3, <1>5 DEF StandsAt
<1>8. JoinTypeOK'
  <2>1. joinSeq' \in 0..MaxChains /\ current' \in 0..MaxChains
    BY <1>2, <1>3, VoiceJoinAssumption DEF NoRoom
  <2>2. shown' \in [channel : Rooms \cup {Nowhere},
                    status : {"idle", "connecting", "connected", "reconnecting", "failed"}]
    BY <1>1, <1>2 DEF JoinTypeOK, Idle
  <2>3. untimely' \in BOOLEAN /\ listening' \in BOOLEAN
    BY <1>1, <1>2 DEF JoinTypeOK, OutOfTurn
  <2>4. chains' \in Seq([to : Rooms \cup {Nowhere}, stage : Awaiting \cup {"over"},
                         mine : 0..MaxChains, from : 0..MaxChains])
    BY <1>4 DEF ChainRow, Stages
  <2>5. inCall' \subseteq Chain /\ troubles' \in 0..MaxTroubles
    BY <1>1, <1>2 DEF JoinTypeOK
  <2> QED BY <2>1, <2>2, <2>3, <2>4, <2>5 DEF JoinTypeOK
<1>9. \A n \in 1..Latest : chains[n].stage = "asking" => chains[n].mine \in Nat /\ chains[n].mine <= joinSeq
  BY <1>1, <1>3, Typed DEF NotYetThere, ChainRow
<1>10. NotYetThere'
  <2>1. inCall' \subseteq DOMAIN chains' /\ joinSeq' = Latest'
    BY <1>1, <1>2, <1>3, <1>4, <1>7 DEF NotYetThere
  <2>2. \A n \in 1..Latest :
          /\ chains'[n].stage \in {"leaving", "asking", "connecting"} => n \notin inCall'
          /\ chains'[n].stage = "asking" => chains'[n].mine <= joinSeq'
    BY <1>1, <1>2, <1>3, <1>7, <1>9 DEF NotYetThere
  <2>3. Latest + 1 \notin inCall' BY <1>1, <1>2, <1>3 DEF NotYetThere
  <2>4. chains'[Latest + 1].stage = "asking" => chains'[Latest + 1].mine <= joinSeq'
    BY <1>2, <1>3, <1>5, <1>6 DEF StandsAt
  <2> QED BY <1>3, <1>7, <2>1, <2>2, <2>3, <2>4 DEF NotYetThere
<1>11. ASSUME ~untimely'
       PROVE  EarlierAreLate' /\ CurrentIsLast' /\ LastIsHeeded' /\ OthersAreLeft'
  <2>1. EarlierAreLate /\ CurrentIsLast /\ LastIsHeeded /\ OthersAreLeft
    BY <1>2, <1>11 DEF JoinInv
  <2>2. \A n \in 1..Latest : chains[n].stage \notin {"leaving", "failing", "output"}
    BY <1>2, <1>3, <1>11 DEF OutOfTurn
  <2>3. EarlierAreLate'
    <3>1. \A n \in 1..Latest : chains[n].stage \in {"asking", "connecting", "cleaning", "over"}
      BY <1>1, <1>3, <2>2, Typed DEF ChainRow, Stages, Awaiting
    <3>2. \A n \in 1..Latest :
            /\ chains'[n].stage \in {"asking", "connecting", "cleaning", "over"}
            /\ chains'[n].stage = "asking" => chains'[n].mine # joinSeq'
      BY <1>2, <1>3, <1>7, <1>9, <3>1
    <3> QED BY <1>3, <1>4, <3>2 DEF EarlierAreLate
  <2>4. CurrentIsLast' BY <1>2 DEF CurrentIsLast
  <2>5. LastIsHeeded'
    <3>1. current = NoRoom =>
            shown' = IF to = Nowhere THEN Idle ELSE [channel |-> to, status |-> "connecting"]
      BY DEF Ask, PastLeaving
    <3>2. chains'[Latest'].stage = turn /\ chains'[Latest'].mine = mine /\ chains'[Latest'].to = to
      BY <1>4, <1>5 DEF StandsAt
    <3> QED BY <1>3, <1>4, <1>6, <3>1, <3>2 DEF LastIsHeeded
  <2>6. OthersAreLeft'
    <3>1. \A m \in inCall : m \in 1..Latest /\ (m = current \/ chains[m].stage = "cleaning")
      BY <1>1, <1>3, <2>1, <2>2 DEF OthersAreLeft, NotYetThere
    <3>2. chains'[Latest'].stage = turn /\ chains'[Latest'].from = from
      BY <1>4, <1>5 DEF StandsAt
    <3>3. \A m \in inCall : m = current => turn = "leaving" /\ from = m
      BY <1>3, <1>6, <3>1 DEF NoRoom
    <3> QED BY <1>2, <1>3, <1>4, <1>7, <3>1, <3>2, <3>3 DEF OthersAreLeft
  <2> QED BY <2>3, <2>4, <2>5, <2>6
<1> QED BY <1>8, <1>10, <1>11 DEF JoinInv

LEMMA JoinInvHolds == JoinSpec => []JoinInv
<1>1. ASSUME JoinInv, [JoinNext]_joinVars
      PROVE  JoinInv'
  <2>1. CASE UNCHANGED joinVars
    <3>1. UNCHANGED <<chains, joinSeq, current, listening, inCall, shown, untimely, troubles>>
      BY <2>1 DEF joinVars
    <3>2. JoinTypeOK' BY <1>1, <3>1 DEF JoinInv, JoinTypeOK
    <3>3. NotYetThere' BY <1>1, <3>1 DEF JoinInv, NotYetThere, Latest
    <3>4. ~untimely' => EarlierAreLate' /\ CurrentIsLast' /\ LastIsHeeded' /\ OthersAreLeft'
      BY <1>1, <3>1
      DEF JoinInv, EarlierAreLate, CurrentIsLast, LastIsHeeded, OthersAreLeft, Latest
    <3> QED BY <3>2, <3>3, <3>4 DEF JoinInv
  <2>2. ASSUME NEW to \in Rooms \cup {Nowhere}, Ask(to) PROVE JoinInv' BY <1>1, <2>2, AskStep
  <2>3. ASSUME NEW n \in DOMAIN chains, NEW granted \in BOOLEAN, Token(n, granted) PROVE JoinInv'
    BY <1>1, <2>3, TokenStep
  <2>4. ASSUME NEW n \in DOMAIN chains,
               Disconnected(n) \/ Connected(n) \/ ConnectFails(n) \/ CleanedUp(n) \/ Entered(n)
                 \/ Dropped(n)
        PROVE  JoinInv'
    BY <1>1, <2>4, DisconnectedStep, ConnectedStep, ConnectFailsStep, CleanedUpStep, EnteredStep,
       DroppedStep
  <2>5. ASSUME NEW n \in DOMAIN chains, Link(n, "reconnecting") \/ Link(n, "connected")
        PROVE  JoinInv'
    BY <1>1, <2>5, LinkStep
  <2> QED BY <1>1, <2>1, <2>2, <2>3, <2>4, <2>5 DEF JoinNext
<1> QED BY <1>1, JoinInitSound, PTL DEF JoinSpec

\* Two rooms clicked in quick succession, through join and leave of useVoice:
\* whenever everything has been answered, one is in the room asked for last or
\* in none, the window shows that very room, and no call is left that nothing
\* can end - for any number of rooms, of asks and of failures, short of
\* something asked for during a disconnect.
THEOREM TheLastAskAlwaysWins == JoinSpec => []LastAskWins
<1>1. ASSUME JoinInv PROVE LastAskWins
  <2>1. JoinTypeOK /\ NotYetThere BY <1>1 DEF JoinInv
  <2>2. Latest \in Nat /\ DOMAIN chains = 1..Latest BY <2>1, Typed
  <2>3. ASSUME Settled, ~untimely PROVE
          /\ inCall = {current} \ {NoRoom}
          /\ current # NoRoom =>
               /\ current = Len(chains)
               /\ shown.channel = chains[current].to
               /\ shown.status \in {"connected", "reconnecting"}
               /\ listening <=> chains[current].to \in ListenOnly
          /\ current = NoRoom => shown \in {Idle, Failed}
    <3>1. EarlierAreLate /\ CurrentIsLast /\ LastIsHeeded /\ OthersAreLeft
      BY <1>1, <2>3 DEF JoinInv
    <3>2. \A n \in 1..Latest : chains[n].stage = "over" BY <2>2, <2>3 DEF Settled
    <3>3. Latest # 0 => chains[Latest].stage = "over" BY <2>2, <3>2
    <3>4. \A n \in inCall : n = current /\ n # NoRoom
      BY <2>1, <2>2, <3>1, <3>2, <3>3 DEF OthersAreLeft, NotYetThere, NoRoom
    <3>5. current # NoRoom => Latest # 0 /\ current \in inCall
      BY <2>1, <2>2, <3>1, <3>3 DEF CurrentIsLast, LastIsHeeded
    <3>6. inCall = {current} \ {NoRoom} BY <3>4, <3>5
    <3>7. current # NoRoom =>
            /\ current = Latest /\ shown.channel = chains[current].to
            /\ shown.status \in {"connected", "reconnecting"}
            /\ listening <=> chains[current].to \in ListenOnly
      BY <3>1, <3>3, <3>5 DEF CurrentIsLast
    <3>8. current = NoRoom => shown \in {Idle, Failed} BY <3>1, <3>3 DEF LastIsHeeded
    <3> QED BY <3>6, <3>7, <3>8 DEF Latest
  <2> QED BY <2>1, <2>3 DEF LastAskWins, TheLastAsk
<1> QED BY <1>1, JoinInvHolds, PTL

-----------------------------------------------------------------------------
(* Keybinds: the two sides and the mail between them.                       *)

\* What the window will take a row to be, once it has heard all that is on its
\* way: held, unless a release is the last there is of it.
HeldAtEnd(r) ==
  \/ \E i \in DOMAIN toWindow :
       /\ toWindow[i].tell = "down" /\ toWindow[i].row = r
       /\ \A j \in DOMAIN toWindow : j > i => ~(toWindow[j].tell = "up" /\ toWindow[j].row = r)
  \/ r \in held /\ \A j \in DOMAIN toWindow : ~(toWindow[j].tell = "up" /\ toWindow[j].row = r)

\* A table without it is on its way.
Withdrawn(r) == \E i \in DOMAIN toMain : toMain[i].tell = "set" /\ r \notin toMain[i].rows

\* The window never takes for held what main does not; and what main holds and
\* the window does not is about to go.
SidesAgree ==
  \A r \in Rows :
    /\ HeldAtEnd(r) => r \in heldRows
    /\ r \in heldRows => HeldAtEnd(r) \/ Withdrawn(r)

\* On either side: what is heard is what is held, and no key is matched while
\* nothing listens.
EachSideHolds ==
  /\ talking <=> (held \cap Talks # {} \/ releasing)
  /\ pushMuted <=> held \ Talks # {}
  /\ ~hookRunning => bindRows = {}
  /\ heldRows \subseteq {r \in bindRows : KeyOf[r] \in down}

AsksFor(i) == i \in DOMAIN toMain /\ toMain[i].tell = "capture"
Answers(i) == i \in DOMAIN toWindow /\ toWindow[i].tell \in {"captured", "timed out"}

\* A capture is in one place at a time, asked for, under way or answered, and
\* it is the one the settings wait for.
OneCapture ==
  /\ \A i : AsksFor(i) =>
       /\ toMain[i].capture = capturing.capture /\ capturing.capture # NoCapture
       /\ captureResolve = NoCapture
       /\ \A j : ~Answers(j) /\ (AsksFor(j) => j = i)
  /\ captureResolve # NoCapture => captureResolve = capturing.capture /\ \A j : ~Answers(j)
  /\ \A i : Answers(i) =>
       /\ toWindow[i].capture = capturing.capture /\ capturing.capture # NoCapture
       /\ \A j : Answers(j) => j = i

Somewhere ==
  \/ capturing.capture = NoCapture \/ captureResolve # NoCapture
  \/ \E i : AsksFor(i) \/ Answers(i)

CaptureInv ==
  /\ captureResolve # NoCapture => captureResolve \in captureTimers
  /\ robbed \/ (OneCapture /\ Somewhere)

KeysInv == KeysTypeOK /\ EachSideHolds /\ SidesAgree /\ CaptureInv

-----------------------------------------------------------------------------
(* Sequences, by their domains.                                             *)

LEMMA Appended ==
  ASSUME NEW S, NEW s \in Seq(S), NEW e \in S, NEW t, t = Append(s, e)
  PROVE  /\ t \in Seq(S)
         /\ \A i : i \in DOMAIN t <=> i \in DOMAIN s \/ i = Len(s) + 1
         /\ \A i \in DOMAIN s : t[i] = s[i] /\ i < Len(s) + 1 /\ i \in Nat
         /\ t[Len(s) + 1] = e /\ Len(s) \in Nat
<1>1. Len(s) \in Nat /\ DOMAIN s = 1..Len(s)
  BY LenProperties
<1>2. /\ t \in Seq(S) /\ Len(t) = Len(s) + 1
      /\ \A i \in 1..Len(s) : t[i] = s[i]
      /\ t[Len(s) + 1] = e
  BY AppendProperties
<1>3. DOMAIN t = 1..(Len(s) + 1)
  BY <1>2, LenProperties
<1> QED
  BY <1>1, <1>2, <1>3

LEMMA WithoutHead ==
  ASSUME NEW S, NEW s \in Seq(S), s # <<>>, NEW t, t = Tail(s)
  PROVE  /\ t \in Seq(S) /\ 1 \in DOMAIN s /\ Head(s) = s[1]
         /\ \A i \in DOMAIN t : i \in Nat /\ i >= 1 /\ i + 1 \in DOMAIN s /\ t[i] = s[i + 1]
         /\ \A i \in DOMAIN s : i \in Nat /\ i >= 1 /\ (i # 1 => i - 1 \in DOMAIN t /\ t[i - 1] = s[i])
<1>1. Len(s) \in Nat /\ DOMAIN s = 1..Len(s)
  BY LenProperties
<1>2. Len(s) # 0
  BY EmptySeq
<1>3. /\ t \in Seq(S) /\ Len(t) = Len(s) - 1
      /\ \A i \in 1..Len(t) : t[i] = s[i + 1]
  BY HeadTailProperties
<1>4. DOMAIN t = 1..(Len(s) - 1)
  BY <1>3, LenProperties
<1>5. Head(s) = s[1]
  OBVIOUS
<1> QED
  BY <1>1, <1>2, <1>3, <1>4, <1>5

LEMMA Joined ==
  ASSUME NEW S, NEW s \in Seq(S), NEW u \in Seq(S), NEW t, t = s \o u
  PROVE  /\ t \in Seq(S)
         /\ \A i \in DOMAIN s : i \in DOMAIN t /\ t[i] = s[i] /\ i \in Nat /\ i <= Len(s)
         /\ \A i \in DOMAIN u : i + Len(s) \in DOMAIN t /\ t[i + Len(s)] = u[i] /\ i \in Nat /\ i >= 1
         /\ \A i \in DOMAIN t :
              i \in Nat /\ (i \in DOMAIN s \/ (i > Len(s) /\ i - Len(s) \in DOMAIN u /\ t[i] = u[i - Len(s)]))
         /\ Len(s) \in Nat
<1>1. Len(s) \in Nat /\ DOMAIN s = 1..Len(s) /\ Len(u) \in Nat /\ DOMAIN u = 1..Len(u)
  BY LenProperties
<1>2. /\ t \in Seq(S) /\ Len(t) = Len(s) + Len(u)
      /\ \A i \in 1..(Len(s) + Len(u)) : t[i] = IF i <= Len(s) THEN s[i] ELSE u[i - Len(s)]
  BY ConcatProperties
<1>3. DOMAIN t = 1..(Len(s) + Len(u))
  BY <1>2, LenProperties
<1> QED
  BY <1>1, <1>2, <1>3

-----------------------------------------------------------------------------
(* What main tells.                                                         *)

LEMMA NoneIsANumber == NoCapture \in 0..MaxCaptures
BY KeybindsAssumption DEF NoCapture

LEMMA WordsToTheWindow ==
  ASSUME NEW tell \in {"down", "up", "captured", "timed out"}, NEW r \in Rows, NEW c \in 0..MaxCaptures
  PROVE  [tell |-> tell, row |-> r, capture |-> c] \in ToWindow
BY DEF ToWindow

LEMMA WordsToMain ==
  /\ \A rs \in SUBSET Rows : [tell |-> "set", rows |-> rs, capture |-> NoCapture] \in ToMain
  /\ \A c \in Captures : [tell |-> "capture", rows |-> {}, capture |-> c] \in ToMain
BY DEF ToMain

\* Of finitely many rows some order is chosen, and each is told of.
LEMMA FireTells ==
  ASSUME NEW which \in SUBSET Rows, NEW tell \in {"up", "down"}, Fire(which, tell)
  PROVE  \E f \in Seq(ToWindow) :
           /\ toWindow' = toWindow \o f
           /\ \A i \in DOMAIN f : f[i].tell = tell /\ f[i].row \in which
           /\ \A r \in which : \E i \in DOMAIN f : f[i].row = r
<1> DEFINE n == Cardinality(which)
           Orders == [1..n -> which]
           Whole(s) == \A r \in which : \E i \in DOMAIN s : s[i] = r
           order == CHOOSE s \in Orders : Whole(s)
           f == [i \in DOMAIN order |-> [tell |-> tell, row |-> order[i], capture |-> NoCapture]]
<1>1. IsFiniteSet(which)
  BY KeybindsAssumption, FS_Subset
<1>2. n \in Nat /\ ExistsBijection(1..n, which)
  BY <1>1, FS_CardinalityType
<1>3. PICK b : b \in Bijection(1..n, which)
  BY <1>2 DEF ExistsBijection
<1>4. b \in Orders /\ Whole(b)
  <2>1. b \in Orders /\ \A r \in which : \E i \in 1..n : b[i] = r
    BY <1>3 DEF Bijection, Surjection, Injection
  <2>2. DOMAIN b = 1..n
    BY <2>1
  <2> QED
    BY <2>1, <2>2
<1>5. order \in Orders /\ Whole(order)
  <2> HIDE DEF Orders, Whole
  <2> QED
    BY <1>4
<1> HIDE DEF order
<1>6. DOMAIN order = 1..n /\ DOMAIN f = 1..n
  BY <1>5
<1>7. \A i \in 1..n : f[i] = [tell |-> tell, row |-> order[i], capture |-> NoCapture] /\ order[i] \in which
  BY <1>5, <1>6
<1>8. toWindow' = toWindow \o f
  BY DEF Fire, order
<1>9. DOMAIN f = 1..n
  BY <1>6
<1>10. f = [i \in DOMAIN f |-> f[i]]
  BY <1>9
<1> HIDE DEF f
<1>11. \A i \in 1..n : f[i] \in ToWindow
  <2> TAKE i \in 1..n
  <2>1. NoCapture \in 0..MaxCaptures
    BY KeybindsAssumption DEF NoCapture
  <2>2. order[i] \in Rows /\ tell \in {"down", "up", "captured", "timed out"}
    BY <1>7
  <2>3. [tell |-> tell, row |-> order[i], capture |-> NoCapture] \in ToWindow
    BY <2>1, <2>2, WordsToTheWindow
  <2> QED
    BY <1>7, <2>3
<1>12. f \in Seq(ToWindow)
  <2>1. [i \in 1..n |-> f[i]] \in Seq(ToWindow)
    BY <1>2, <1>11, IsASeq
  <2>2. f = [i \in 1..n |-> f[i]]
    BY <1>9, <1>10
  <2> QED
    BY <2>1, <2>2
<1>13. \A i \in DOMAIN f : f[i].tell = tell /\ f[i].row \in which
  BY <1>9, <1>7
<1>14. \A r \in which : \E i \in DOMAIN f : f[i].row = r
  BY <1>5, <1>6, <1>7, <1>9
<1> QED
  BY <1>12, <1>8, <1>13, <1>14

-----------------------------------------------------------------------------
(* What the window will take a row to be.                                   *)

\* A word that is neither a press nor a release says nothing of a row.
LEMMA Silent ==
  ASSUME toWindow \in Seq(ToWindow), NEW e \in ToWindow, e.tell \notin {"up", "down"},
         toWindow' = Append(toWindow, e), held' = held, NEW r
  PROVE  HeldAtEnd(r)' <=> HeldAtEnd(r)
<1> DEFINE n == Len(toWindow)
<1>1. /\ \A i : i \in DOMAIN toWindow' <=> i \in DOMAIN toWindow \/ i = n + 1
      /\ \A i \in DOMAIN toWindow : toWindow'[i] = toWindow[i] /\ i < n + 1 /\ i \in Nat
      /\ toWindow'[n + 1] = e /\ n \in Nat
  BY Appended
<1> HIDE DEF n
<1>2. n + 1 \in DOMAIN toWindow' /\ ~(toWindow'[n + 1].tell \in {"up", "down"})
  BY <1>1
<1>3. \A j : j \in DOMAIN toWindow' /\ toWindow'[j].tell \in {"up", "down"}
             <=> j \in DOMAIN toWindow /\ toWindow[j].tell \in {"up", "down"}
  BY <1>1, <1>2
<1>4. \A j \in DOMAIN toWindow : toWindow'[j] = toWindow[j]
  BY <1>1
<1>5. \A j \in DOMAIN toWindow' : toWindow'[j].tell \in {"up", "down"} => j \in DOMAIN toWindow
  BY <1>3
<1>6. \A j \in DOMAIN toWindow : j \in DOMAIN toWindow'
  BY <1>1
<1> QED
  BY <1>4, <1>5, <1>6 DEF HeldAtEnd

\* What main fires has the last word for the rows it is about, and none for
\* the others.
LEMMA Fired ==
  ASSUME toWindow \in Seq(ToWindow), NEW which \in SUBSET Rows, NEW tell \in {"up", "down"},
         Fire(which, tell), held' = held
  PROVE  /\ toWindow' \in Seq(ToWindow)
         /\ \A r : r \notin which => (HeldAtEnd(r)' <=> HeldAtEnd(r))
         /\ \A r \in which : HeldAtEnd(r)' <=> tell = "down"
         /\ \A i : Answers(i)' <=> Answers(i)
         /\ \A i \in DOMAIN toWindow : i \in DOMAIN toWindow' /\ toWindow'[i] = toWindow[i]
<1> DEFINE n == Len(toWindow)
<1>1. PICK f \in Seq(ToWindow) :
           /\ toWindow' = toWindow \o f
           /\ \A i \in DOMAIN f : f[i].tell = tell /\ f[i].row \in which
           /\ \A r \in which : \E i \in DOMAIN f : f[i].row = r
  BY FireTells
<1>2. /\ toWindow' \in Seq(ToWindow)
      /\ \A i \in DOMAIN toWindow : i \in DOMAIN toWindow' /\ toWindow'[i] = toWindow[i] /\ i \in Nat /\ i <= n
      /\ \A i \in DOMAIN f : i + n \in DOMAIN toWindow' /\ toWindow'[i + n] = f[i] /\ i \in Nat /\ i >= 1
      /\ \A i \in DOMAIN toWindow' :
           i \in Nat /\ (i \in DOMAIN toWindow \/ (i > n /\ i - n \in DOMAIN f /\ toWindow'[i] = f[i - n]))
      /\ n \in Nat
  BY <1>1, Joined
<1> HIDE DEF n
\* Past the old mail there is only this.
<1>3. \A i \in DOMAIN toWindow' :
         i \notin DOMAIN toWindow => i > n /\ toWindow'[i].tell = tell /\ toWindow'[i].row \in which
  BY <1>1, <1>2
<1>4. \A r \in which : \E i \in DOMAIN toWindow' : i > n /\ toWindow'[i].tell = tell /\ toWindow'[i].row = r
  <2> TAKE r \in which
  <2>1. PICK i \in DOMAIN f : f[i].row = r
    BY <1>1
  <2>2. i + n \in DOMAIN toWindow' /\ toWindow'[i + n] = f[i] /\ i + n > n /\ f[i].tell = tell
    BY <1>1, <1>2
  <2> QED
    BY <2>1, <2>2
<1>5. ASSUME NEW r, r \notin which PROVE HeldAtEnd(r)' <=> HeldAtEnd(r)
  <2>1. \A j \in DOMAIN toWindow' : toWindow'[j].row = r => j \in DOMAIN toWindow
    BY <1>3, <1>5
  <2>2. \A j \in DOMAIN toWindow : j \in DOMAIN toWindow' /\ toWindow'[j] = toWindow[j]
    BY <1>2
  <2> QED
    BY <2>1, <2>2 DEF HeldAtEnd
<1>6. ASSUME NEW r \in which PROVE HeldAtEnd(r)' <=> tell = "down"
  <2>1. PICK i \in DOMAIN toWindow' : i > n /\ toWindow'[i].tell = tell /\ toWindow'[i].row = r
    BY <1>4
  <2>2. CASE tell = "down"
    <3>1. \A j \in DOMAIN toWindow' : j > i => toWindow'[j].tell # "up"
      <4> SUFFICES ASSUME NEW j \in DOMAIN toWindow', j > i PROVE toWindow'[j].tell # "up"
        OBVIOUS
      <4>1. j > n
        BY <1>2, <2>1
      <4>2. j \notin DOMAIN toWindow
        BY <1>2, <4>1
      <4> QED
        BY <1>3, <2>2, <4>2
    <3> QED
      BY <2>1, <2>2, <3>1 DEF HeldAtEnd
  <2>3. CASE tell = "up"
    <3>1. \A j \in DOMAIN toWindow' : toWindow'[j].tell = "down" => i > j
      <4> SUFFICES ASSUME NEW j \in DOMAIN toWindow', toWindow'[j].tell = "down" PROVE i > j
        OBVIOUS
      <4>1. j \in DOMAIN toWindow
        BY <1>3, <2>3
      <4>2. j \in Nat /\ j <= n /\ i \in Nat
        BY <1>2, <4>1
      <4> QED
        BY <1>2, <2>1, <4>2
    <3> QED
      BY <2>1, <2>3, <3>1 DEF HeldAtEnd
  <2> QED
    BY <2>2, <2>3
<1>7. \A i : Answers(i)' <=> Answers(i)
  <2>1. \A i \in DOMAIN toWindow' : i \notin DOMAIN toWindow => toWindow'[i].tell \notin {"captured", "timed out"}
    BY <1>3
  <2>2. \A i \in DOMAIN toWindow : i \in DOMAIN toWindow' /\ toWindow'[i] = toWindow[i]
    BY <1>2
  <2> QED
    BY <2>1, <2>2 DEF Answers
<1> QED
  BY <1>2, <1>5, <1>6, <1>7

\* Hearing what is on its way changes nothing of where it leads.
LEMMA HeardOut ==
  ASSUME toWindow \in Seq(ToWindow), toWindow # <<>>, toWindow' = Tail(toWindow),
         held' = CASE toWindow[1].tell = "down" -> held \cup {toWindow[1].row}
                   [] toWindow[1].tell = "up" -> held \ {toWindow[1].row}
                   [] OTHER -> held,
         NEW r
  PROVE  HeldAtEnd(r)' <=> HeldAtEnd(r)
<1>1. /\ 1 \in DOMAIN toWindow
      /\ \A i \in DOMAIN toWindow' : i \in Nat /\ i >= 1 /\ i + 1 \in DOMAIN toWindow /\ toWindow'[i] = toWindow[i + 1]
      /\ \A i \in DOMAIN toWindow :
           i \in Nat /\ i >= 1 /\ (i # 1 => i - 1 \in DOMAIN toWindow' /\ toWindow'[i - 1] = toWindow[i])
  BY WithoutHead
<1> DEFINE Says(i, tell) == toWindow[i].tell = tell /\ toWindow[i].row = r
           Later(i, tell) == toWindow'[i].tell = tell /\ toWindow'[i].row = r
<1>2. \A i \in DOMAIN toWindow', tell \in {"up", "down"} : Later(i, tell) <=> Says(i + 1, tell)
  BY <1>1
<1>3. \A i \in DOMAIN toWindow, tell \in {"up", "down"} : i # 1 => (Later(i - 1, tell) <=> Says(i, tell))
  BY <1>1
<1>4. (\E j \in DOMAIN toWindow' : Later(j, "up")) <=> (\E j \in DOMAIN toWindow : j # 1 /\ Says(j, "up"))
  <2> HIDE DEF Says, Later
  <2>1. \A j \in DOMAIN toWindow' : j + 1 \in DOMAIN toWindow /\ j + 1 # 1
    BY <1>1
  <2>2. \A j \in DOMAIN toWindow : j # 1 => j - 1 \in DOMAIN toWindow'
    BY <1>1
  <2> QED
    BY <1>2, <1>3, <2>1, <2>2
\* A press after the first, with no release after it.
<1>5. (\E i \in DOMAIN toWindow' : Later(i, "down") /\ \A j \in DOMAIN toWindow' : j > i => ~Later(j, "up"))
      <=> (\E i \in DOMAIN toWindow : i # 1 /\ Says(i, "down") /\ \A j \in DOMAIN toWindow : j > i => ~Says(j, "up"))
  <2> HIDE DEF Says, Later
  <2>1. ASSUME NEW i \in DOMAIN toWindow', Later(i, "down"), \A j \in DOMAIN toWindow' : j > i => ~Later(j, "up")
        PROVE  /\ i + 1 \in DOMAIN toWindow /\ i + 1 # 1 /\ Says(i + 1, "down")
               /\ \A j \in DOMAIN toWindow : j > i + 1 => ~Says(j, "up")
    <3>1. i \in Nat /\ i >= 1 /\ i + 1 \in DOMAIN toWindow /\ Says(i + 1, "down")
      BY <1>1, <1>2, <2>1
    <3>2. ASSUME NEW j \in DOMAIN toWindow, j > i + 1 PROVE ~Says(j, "up")
      <4>1. j # 1 /\ j - 1 \in DOMAIN toWindow' /\ j - 1 > i
        BY <1>1, <3>1, <3>2
      <4> QED
        BY <1>3, <2>1, <4>1
    <3> QED
      BY <3>1, <3>2
  <2>2. ASSUME NEW i \in DOMAIN toWindow, i # 1, Says(i, "down"), \A j \in DOMAIN toWindow : j > i => ~Says(j, "up")
        PROVE  /\ i - 1 \in DOMAIN toWindow' /\ Later(i - 1, "down")
               /\ \A j \in DOMAIN toWindow' : j > i - 1 => ~Later(j, "up")
    <3>1. i \in Nat /\ i >= 1 /\ i - 1 \in DOMAIN toWindow' /\ Later(i - 1, "down")
      BY <1>1, <1>3, <2>2
    <3>2. ASSUME NEW j \in DOMAIN toWindow', j > i - 1 PROVE ~Later(j, "up")
      <4>1. j + 1 \in DOMAIN toWindow /\ j + 1 > i
        BY <1>1, <3>1, <3>2
      <4> QED
        BY <1>2, <2>2, <4>1
    <3> QED
      BY <3>1, <3>2
  <2> QED
    BY <2>1, <2>2
<1>6. HeldAtEnd(r)' <=>
        \/ \E i \in DOMAIN toWindow' : Later(i, "down") /\ \A j \in DOMAIN toWindow' : j > i => ~Later(j, "up")
        \/ r \in held' /\ ~\E j \in DOMAIN toWindow' : Later(j, "up")
  BY DEF HeldAtEnd
<1>7. HeldAtEnd(r) <=>
        \/ \E i \in DOMAIN toWindow : Says(i, "down") /\ \A j \in DOMAIN toWindow : j > i => ~Says(j, "up")
        \/ r \in held /\ ~\E j \in DOMAIN toWindow : Says(j, "up")
  BY DEF HeldAtEnd
<1>8. r \in held' <=> Says(1, "down") \/ (r \in held /\ ~Says(1, "up"))
  OBVIOUS
<1>9. ~(Says(1, "down") /\ Says(1, "up"))
  OBVIOUS
<1>10. \A j \in DOMAIN toWindow : j > 1 <=> j # 1
  BY <1>1
<1> HIDE DEF Says, Later
<1> QED
  BY <1>1, <1>4, <1>5, <1>6, <1>7, <1>8, <1>9, <1>10
-----------------------------------------------------------------------------
(* What an action leaves alone.                                             *)

LEMMA SpendsKey ==
  ASSUME KeysTypeOK, NEW what \in {"changes", "captures", "presses"}, SpendKey(what)
  PROVE  /\ keySpare' \in [{"changes", "captures", "presses"} -> Nat]
         /\ keySpare'["captures"] <= MaxCaptures
<1>1. /\ keySpare \in [{"changes", "captures", "presses"} -> Nat] /\ keySpare["captures"] <= MaxCaptures
      /\ keySpare[what] \in Nat /\ keySpare[what] > 0
      /\ keySpare' = [keySpare EXCEPT ![what] = keySpare[what] - 1]
      /\ MaxCaptures \in Nat
  BY KeybindsAssumption DEF KeysTypeOK, SpendKey
<1>2. keySpare[what] - 1 \in Nat
  BY <1>1
<1>3. keySpare' \in [{"changes", "captures", "presses"} -> Nat]
  BY <1>1, <1>2
<1>4. keySpare'["captures"] = keySpare["captures"] \/ keySpare'["captures"] = keySpare["captures"] - 1
  BY <1>1
<1>5. keySpare["captures"] \in Nat
  BY <1>1
<1> QED
  BY <1>1, <1>3, <1>4, <1>5

\* A table handed over.
LEMMA Handed ==
  ASSUME toMain \in Seq(ToMain), NEW kept \in SUBSET Rows, NEW talks, Hand(kept, talks)
  PROVE  /\ toMain' \in Seq(ToMain) /\ toMain' # <<>>
         /\ \A i : AsksFor(i)' <=> AsksFor(i)
         /\ \A i \in DOMAIN toMain : toMain'[i] = toMain[i]
         /\ \A r : Withdrawn(r) \/ r \notin Active(kept, talks) => Withdrawn(r)'
<1> DEFINE n == Len(toMain)
           e == [tell |-> "set", rows |-> Active(kept, talks), capture |-> NoCapture]
<1>1. e \in ToMain
  <2>1. Active(kept, talks) \in SUBSET Rows
    BY DEF Active
  <2> QED
    BY <2>1, WordsToMain
<1>2. e.tell = "set" /\ e.rows = Active(kept, talks)
  OBVIOUS
<1>3. toMain' = Append(toMain, e)
  BY DEF Hand
<1> HIDE DEF e
<1>4. /\ toMain' \in Seq(ToMain)
      /\ \A i : i \in DOMAIN toMain' <=> i \in DOMAIN toMain \/ i = n + 1
      /\ \A i \in DOMAIN toMain : toMain'[i] = toMain[i] /\ i < n + 1 /\ i \in Nat
      /\ toMain'[n + 1] = e /\ n \in Nat
  BY <1>1, <1>3, Appended
<1> HIDE DEF n
<1>5. n + 1 \in DOMAIN toMain' /\ toMain' # <<>>
  BY <1>4
<1>6. \A i : AsksFor(i)' <=> AsksFor(i)
  <2>1. \A i : i \in DOMAIN toMain' /\ toMain'[i].tell = "capture" <=> i \in DOMAIN toMain /\ toMain[i].tell = "capture"
    BY <1>2, <1>4
  <2> QED
    BY <2>1 DEF AsksFor
<1>7. \A r : Withdrawn(r) => Withdrawn(r)'
  BY <1>4 DEF Withdrawn
<1>8. \A r : r \notin Active(kept, talks) => Withdrawn(r)'
  BY <1>2, <1>4, <1>5 DEF Withdrawn
<1> QED
  BY <1>4, <1>5, <1>6, <1>7, <1>8

\* A step that moves no capture.
LEMMA CaptureStays ==
  ASSUME CaptureInv,
         \A i : AsksFor(i)' <=> AsksFor(i), \A i : AsksFor(i) => toMain'[i] = toMain[i],
         \A i : Answers(i)' <=> Answers(i), \A i : Answers(i) => toWindow'[i] = toWindow[i],
         capturing' = capturing, captureResolve' = captureResolve,
         captureTimers' = captureTimers, robbed' = robbed
  PROVE  CaptureInv'
<1>1. captureResolve' # NoCapture => captureResolve' \in captureTimers'
  BY DEF CaptureInv
<1>2. OneCapture => OneCapture'
  BY DEF OneCapture
<1>3. Somewhere => Somewhere'
  BY DEF Somewhere
<1> QED
  BY <1>1, <1>2, <1>3 DEF CaptureInv

\* A step that leaves what main holds, and where the window is led.
LEMMA SidesStay ==
  ASSUME SidesAgree, heldRows' = heldRows,
         \A r \in Rows : HeldAtEnd(r)' <=> HeldAtEnd(r), \A r \in Rows : Withdrawn(r) => Withdrawn(r)'
  PROVE  SidesAgree'
BY DEF SidesAgree

\* The next of main's letters.
LEMMA MainTakes ==
  ASSUME toMain \in Seq(ToMain), toMain # <<>>, toMain' = Tail(toMain)
  PROVE  /\ toMain' \in Seq(ToMain) /\ toMain[1] \in ToMain /\ Head(toMain) = toMain[1] /\ 1 \in DOMAIN toMain
         /\ \A r : Withdrawn(r) => Withdrawn(r)' \/ (toMain[1].tell = "set" /\ r \notin toMain[1].rows)
         /\ \A i : AsksFor(i)' => i \in Nat /\ i >= 1 /\ AsksFor(i + 1) /\ toMain'[i] = toMain[i + 1]
         /\ \A i : AsksFor(i) => i = 1 \/ (i \in Nat /\ AsksFor(i - 1)')
<1>1. /\ toMain' \in Seq(ToMain) /\ 1 \in DOMAIN toMain /\ Head(toMain) = toMain[1]
      /\ \A i \in DOMAIN toMain' : i \in Nat /\ i >= 1 /\ i + 1 \in DOMAIN toMain /\ toMain'[i] = toMain[i + 1]
      /\ \A i \in DOMAIN toMain :
           i \in Nat /\ i >= 1 /\ (i # 1 => i - 1 \in DOMAIN toMain' /\ toMain'[i - 1] = toMain[i])
  BY WithoutHead
<1>2. toMain[1] \in ToMain
  BY <1>1, HeadTailProperties
<1>3. \A r : Withdrawn(r) => Withdrawn(r)' \/ (toMain[1].tell = "set" /\ r \notin toMain[1].rows)
  <2> SUFFICES ASSUME NEW r, Withdrawn(r)
               PROVE  Withdrawn(r)' \/ (toMain[1].tell = "set" /\ r \notin toMain[1].rows)
    OBVIOUS
  <2>1. PICK i \in DOMAIN toMain : toMain[i].tell = "set" /\ r \notin toMain[i].rows
    BY DEF Withdrawn
  <2>2. CASE i = 1
    BY <2>1, <2>2
  <2>3. CASE i # 1
    BY <1>1, <2>1, <2>3 DEF Withdrawn
  <2> QED
    BY <2>2, <2>3
<1>4. \A i : AsksFor(i)' => i \in Nat /\ i >= 1 /\ AsksFor(i + 1) /\ toMain'[i] = toMain[i + 1]
  BY <1>1 DEF AsksFor
<1>5. \A i : AsksFor(i) => i = 1 \/ (i \in Nat /\ AsksFor(i - 1)')
  BY <1>1 DEF AsksFor
<1> QED
  BY <1>1, <1>2, <1>3, <1>4, <1>5

-----------------------------------------------------------------------------
(* The window's actions.                                                    *)

LEMMA RemoveRowKeeps ==
  ASSUME KeysInv, NEW r \in Rows, RemoveRow(r)
  PROVE  KeysInv'
<1> USE DEF window, main
<1>1. KeysTypeOK /\ table \subseteq Rows /\ toMain \in Seq(ToMain)
  BY DEF KeysInv, KeysTypeOK
<1>2. keySpare' \in [{"changes", "captures", "presses"} -> Nat] /\ keySpare'["captures"] <= MaxCaptures
  <2>1. SpendKey("changes")
    BY DEF RemoveRow
  <2> QED
    BY <1>1, <2>1, SpendsKey
<1>3. table' \in SUBSET Rows /\ Hand(table', pushToTalk)
  BY <1>1 DEF RemoveRow
<1>4. /\ toMain' \in Seq(ToMain)
      /\ \A i : AsksFor(i)' <=> AsksFor(i)
      /\ \A i \in DOMAIN toMain : toMain'[i] = toMain[i]
      /\ \A q : Withdrawn(q) => Withdrawn(q)'
  BY <1>1, <1>3, Handed
<1>5. /\ UNCHANGED <<pushToTalk, capturing, held, talking, pushMuted, releasing, toWindow, down>>
      /\ UNCHANGED <<bindRows, hookRunning, heldRows, captureResolve, captureTimers, robbed>>
  BY DEF RemoveRow
<1>6. KeysTypeOK'
  BY <1>1, <1>2, <1>3, <1>4, <1>5 DEF KeysTypeOK
<1>7. EachSideHolds'
  BY <1>5 DEF KeysInv, EachSideHolds
<1>8. \A q \in Rows : HeldAtEnd(q)' <=> HeldAtEnd(q)
  BY <1>5 DEF HeldAtEnd
<1>9. SidesAgree'
  BY <1>4, <1>5, <1>8, SidesStay DEF KeysInv
<1>10. CaptureInv'
  <2>1. \A i : Answers(i)' <=> Answers(i)
    BY <1>5 DEF Answers
  <2>2. \A i : AsksFor(i) => toMain'[i] = toMain[i]
    BY <1>4 DEF AsksFor
  <2> QED
    BY <1>4, <1>5, <2>1, <2>2, CaptureStays DEF KeysInv
<1> QED
  BY <1>6, <1>7, <1>9, <1>10 DEF KeysInv

\* Switched off, push-to-talk lets go of what main still holds: the table that
\* was handed over takes that from main too.
LEMMA SwitchKeeps ==
  ASSUME KeysInv, Switch
  PROVE  KeysInv'
<1> USE DEF window, main
<1>1. KeysTypeOK /\ table \in SUBSET Rows /\ toMain \in Seq(ToMain) /\ pushToTalk \in BOOLEAN
  BY DEF KeysInv, KeysTypeOK
<1>2. keySpare' \in [{"changes", "captures", "presses"} -> Nat] /\ keySpare'["captures"] <= MaxCaptures
  <2>1. SpendKey("changes")
    BY DEF Switch
  <2> QED
    BY <1>1, <2>1, SpendsKey
<1>3. pushToTalk' = ~pushToTalk /\ Hand(table, pushToTalk')
  BY DEF Switch
<1>4. /\ toMain' \in Seq(ToMain)
      /\ \A i : AsksFor(i)' <=> AsksFor(i)
      /\ \A i \in DOMAIN toMain : toMain'[i] = toMain[i]
      /\ \A q : Withdrawn(q) \/ q \notin Active(table, pushToTalk') => Withdrawn(q)'
  BY <1>1, <1>3, Handed
<1>5. /\ UNCHANGED <<table, capturing, pushMuted, toWindow, down>>
      /\ UNCHANGED <<bindRows, hookRunning, heldRows, captureResolve, captureTimers, robbed>>
  BY DEF Switch
<1>6. \/ pushToTalk /\ releasing' = FALSE /\ talking' = FALSE /\ held' = held \ Talks
      \/ ~pushToTalk /\ UNCHANGED <<releasing, talking, held>>
  BY <1>1 DEF Switch
<1>7. KeysTypeOK'
  BY <1>1, <1>2, <1>3, <1>4, <1>5, <1>6 DEF KeysTypeOK
<1>8. EachSideHolds'
  <2>1. talking' <=> (held' \cap Talks # {} \/ releasing')
    BY <1>6 DEF KeysInv, EachSideHolds
  <2>2. held' \ Talks = held \ Talks
    BY <1>6
  <2> QED
    BY <1>5, <2>1, <2>2 DEF KeysInv, EachSideHolds
<1>9. SidesAgree'
  <2> SUFFICES ASSUME NEW q \in Rows
               PROVE  /\ HeldAtEnd(q)' => q \in heldRows'
                      /\ q \in heldRows' => HeldAtEnd(q)' \/ Withdrawn(q)'
    BY DEF SidesAgree
  <2>1. (HeldAtEnd(q) => q \in heldRows) /\ (q \in heldRows => HeldAtEnd(q) \/ Withdrawn(q))
    BY DEF KeysInv, SidesAgree
  <2>2. HeldAtEnd(q)' => HeldAtEnd(q)
    BY <1>5, <1>6 DEF HeldAtEnd
  <2>3. HeldAtEnd(q) => HeldAtEnd(q)' \/ (pushToTalk /\ q \in Talks)
    BY <1>5, <1>6 DEF HeldAtEnd
  <2>4. pushToTalk /\ q \in Talks => q \notin Active(table, pushToTalk')
    BY <1>1, <1>3 DEF Active
  <2> QED
    BY <1>4, <1>5, <2>1, <2>2, <2>3, <2>4
<1>10. CaptureInv'
  <2>1. \A i : Answers(i)' <=> Answers(i)
    BY <1>5 DEF Answers
  <2>2. \A i : AsksFor(i) => toMain'[i] = toMain[i]
    BY <1>4 DEF AsksFor
  <2> QED
    BY <1>4, <1>5, <2>1, <2>2, CaptureStays DEF KeysInv
<1> QED
  BY <1>7, <1>8, <1>9, <1>10 DEF KeysInv

\* The settings wait for nothing, so no other capture is anywhere.
LEMMA AddBindingKeeps ==
  ASSUME KeysInv, NEW r \in Rows, AddBinding(r)
  PROVE  KeysInv'
<1> USE DEF window, main
<1> DEFINE k == MaxCaptures + 1 - keySpare["captures"]
           e == [tell |-> "capture", rows |-> {}, capture |-> k]
           n == Len(toMain)
<1>1. KeysTypeOK /\ table \in SUBSET Rows /\ toMain \in Seq(ToMain)
  BY DEF KeysInv, KeysTypeOK
<1>2. keySpare' \in [{"changes", "captures", "presses"} -> Nat] /\ keySpare'["captures"] <= MaxCaptures
  <2>1. SpendKey("captures")
    BY DEF AddBinding
  <2> QED
    BY <1>1, <2>1, SpendsKey
<1>3. k \in 1..MaxCaptures
  <2>1. keySpare["captures"] \in Nat /\ keySpare["captures"] > 0 /\ keySpare["captures"] <= MaxCaptures
    BY DEF AddBinding, SpendKey, KeysInv, KeysTypeOK
  <2> QED
    BY <2>1, KeybindsAssumption
<1>4. capturing' = [capture |-> k, row |-> r, table |-> table] /\ capturing.capture = NoCapture
  BY DEF AddBinding
<1>5. capturing'.capture = k /\ k # NoCapture
  BY <1>3, <1>4 DEF NoCapture
<1>6. toMain' = Append(toMain, e)
  <2>1. toMain' = Append(toMain, [tell |-> "capture", rows |-> {}, capture |-> capturing'.capture])
    BY DEF AddBinding
  <2> QED
    BY <1>5, <2>1
<1>7. /\ UNCHANGED <<table, pushToTalk, held, talking, pushMuted, releasing, toWindow, down>>
      /\ UNCHANGED <<bindRows, hookRunning, heldRows, captureResolve, captureTimers, robbed>>
  BY DEF AddBinding
<1>8. e \in ToMain /\ e.tell = "capture" /\ e.capture = k
  <2>1. k \in Captures
    BY <1>3 DEF Captures
  <2> QED
    BY <2>1, WordsToMain
<1>9. capturing' \in [capture : 0..MaxCaptures, row : Rows, table : SUBSET Rows]
  <2>1. k \in 0..MaxCaptures
    BY <1>3
  <2> QED
    BY <1>1, <1>4, <2>1
<1> HIDE DEF e, k
<1>10. /\ toMain' \in Seq(ToMain)
       /\ \A i : i \in DOMAIN toMain' <=> i \in DOMAIN toMain \/ i = n + 1
       /\ \A i \in DOMAIN toMain : toMain'[i] = toMain[i] /\ i < n + 1 /\ i \in Nat
       /\ toMain'[n + 1] = e /\ n \in Nat
  BY <1>1, <1>6, <1>8, Appended
<1> HIDE DEF n
<1>11. KeysTypeOK'
  BY <1>1, <1>2, <1>7, <1>9, <1>10 DEF KeysTypeOK
<1>12. EachSideHolds'
  BY <1>7 DEF KeysInv, EachSideHolds
<1>13. SidesAgree'
  <2>1. \A q \in Rows : HeldAtEnd(q)' <=> HeldAtEnd(q)
    BY <1>7 DEF HeldAtEnd
  <2>2. \A q : Withdrawn(q) => Withdrawn(q)'
    BY <1>10 DEF Withdrawn
  <2> QED
    BY <1>7, <2>1, <2>2, SidesStay DEF KeysInv
<1>14. CaptureInv'
  <2>1. captureResolve' # NoCapture => captureResolve' \in captureTimers'
    BY <1>7 DEF KeysInv, CaptureInv
  <2>2. ASSUME OneCapture PROVE OneCapture' /\ Somewhere'
    <3>1. captureResolve' = NoCapture /\ \A i : ~AsksFor(i) /\ ~Answers(i)'
      BY <1>4, <1>7, <2>2 DEF OneCapture, Answers
    <3>2. \A i : AsksFor(i)' <=> i = n + 1
      BY <1>8, <1>10, <3>1 DEF AsksFor
    <3>3. toMain'[n + 1].capture = capturing'.capture /\ capturing'.capture # NoCapture
      BY <1>5, <1>8, <1>10
    <3>4. OneCapture'
      BY <3>1, <3>2, <3>3 DEF OneCapture
    <3>5. Somewhere'
      BY <3>2 DEF Somewhere
    <3> QED
      BY <3>4, <3>5
  <2> QED
    BY <1>7, <2>1, <2>2 DEF KeysInv, CaptureInv
<1> QED
  BY <1>11, <1>12, <1>13, <1>14 DEF KeysInv

LEMMA ReleaseTimerKeeps ==
  ASSUME KeysInv, ReleaseTimer
  PROVE  KeysInv'
<1> USE DEF window, main
<1>1. /\ UNCHANGED <<table, pushToTalk, capturing, held, pushMuted, toMain, toWindow, down, keySpare>>
      /\ UNCHANGED <<bindRows, hookRunning, heldRows, captureResolve, captureTimers, robbed>>
      /\ releasing' = FALSE /\ talking' = (talking /\ held \cap Talks # {})
  BY DEF ReleaseTimer
<1>2. KeysTypeOK'
  BY <1>1 DEF KeysInv, KeysTypeOK
<1>3. EachSideHolds'
  BY <1>1 DEF KeysInv, EachSideHolds
<1>4. SidesAgree'
  BY <1>1 DEF KeysInv, SidesAgree, HeldAtEnd, Withdrawn
<1>5. CaptureInv'
  BY <1>1 DEF KeysInv, CaptureInv, OneCapture, Somewhere, AsksFor, Answers
<1> QED
  BY <1>2, <1>3, <1>4, <1>5 DEF KeysInv

\* The window takes up its next letter.
TakesUp == toWindow # <<>> /\ toWindow' = Tail(toWindow)

\* The window's letters, one fewer of them.
LEMMA WindowTakes ==
  ASSUME toWindow \in Seq(ToWindow), TakesUp
  PROVE  /\ toWindow' \in Seq(ToWindow) /\ toWindow[1] \in ToWindow /\ Head(toWindow) = toWindow[1]
         /\ 1 \in DOMAIN toWindow
         /\ \A i : Answers(i)' => i \in Nat /\ i >= 1 /\ Answers(i + 1) /\ toWindow'[i] = toWindow[i + 1]
         /\ \A i : Answers(i) => i = 1 \/ (i \in Nat /\ Answers(i - 1)')
<1>1. /\ toWindow' \in Seq(ToWindow) /\ 1 \in DOMAIN toWindow /\ Head(toWindow) = toWindow[1]
      /\ \A i \in DOMAIN toWindow' :
           i \in Nat /\ i >= 1 /\ i + 1 \in DOMAIN toWindow /\ toWindow'[i] = toWindow[i + 1]
      /\ \A i \in DOMAIN toWindow :
           i \in Nat /\ i >= 1 /\ (i # 1 => i - 1 \in DOMAIN toWindow' /\ toWindow'[i - 1] = toWindow[i])
  BY WithoutHead DEF TakesUp
<1>2. toWindow[1] \in ToWindow
  BY <1>1, HeadTailProperties DEF TakesUp
<1>3. \A i : Answers(i)' => i \in Nat /\ i >= 1 /\ Answers(i + 1) /\ toWindow'[i] = toWindow[i + 1]
  BY <1>1 DEF Answers
<1>4. \A i : Answers(i) => i = 1 \/ (i \in Nat /\ Answers(i - 1)')
  BY <1>1 DEF Answers
<1> QED
  BY <1>1, <1>2, <1>3, <1>4

\* ... which is the answer to a capture.
TakesAnswer ==
  /\ TakesUp /\ toWindow[1].tell \in {"captured", "timed out"}
  /\ Added(toWindow[1]) /\ UNCHANGED <<main, down, keySpare>>

\* The answer that came was the only trace of a capture.
LEMMA AddedKeeps ==
  ASSUME KeysInv, TakesAnswer
  PROVE  KeysInv'
<1> USE DEF main
<1> DEFINE e == toWindow[1]
<1>1. KeysTypeOK /\ toWindow \in Seq(ToWindow) /\ toMain \in Seq(ToMain)
      /\ table \in SUBSET Rows /\ pushToTalk \in BOOLEAN
      /\ capturing.row \in Rows /\ capturing.table \in SUBSET Rows
  BY DEF KeysInv, KeysTypeOK
<1>2. /\ toWindow' \in Seq(ToWindow) /\ 1 \in DOMAIN toWindow
      /\ \A i : Answers(i)' => i \in Nat /\ i >= 1 /\ Answers(i + 1)
  BY <1>1, WindowTakes DEF TakesAnswer
<1>3. /\ UNCHANGED <<pushToTalk, held, talking, pushMuted, releasing, down, keySpare>>
      /\ UNCHANGED <<bindRows, hookRunning, heldRows, captureResolve, captureTimers, robbed>>
      /\ capturing' = NotCapturing
  BY DEF TakesAnswer, Added
<1>4. table' \in SUBSET Rows
  BY <1>1 DEF TakesAnswer, Added
<1>5. /\ toMain' \in Seq(ToMain)
      /\ \A i : AsksFor(i)' <=> AsksFor(i)
      /\ \A q : Withdrawn(q) => Withdrawn(q)'
  <2>1. CASE e.tell = "captured"
    <3>1. Hand(table', pushToTalk)
      BY <2>1 DEF TakesAnswer, Added
    <3> QED
      BY <1>1, <1>4, <3>1, Handed
  <2>2. CASE e.tell # "captured"
    <3>1. toMain' = toMain
      BY <2>2 DEF TakesAnswer, Added
    <3> QED
      BY <1>1, <3>1 DEF AsksFor, Withdrawn
  <2> QED
    BY <2>1, <2>2
<1>6. KeysTypeOK'
  <2>1. NotCapturing \in [capture : 0..MaxCaptures, row : Rows, table : SUBSET Rows]
    <3>1. (CHOOSE r \in Rows : TRUE) \in Rows
      BY KeybindsAssumption
    <3> QED
      BY <3>1, NoneIsANumber DEF NotCapturing
  <2> QED
    BY <1>1, <1>2, <1>3, <1>4, <1>5, <2>1 DEF KeysTypeOK
<1>7. EachSideHolds'
  <2>1. EachSideHolds
    BY DEF KeysInv
  <2> QED
    BY <1>3, <2>1 DEF EachSideHolds
<1>8. SidesAgree'
  <2>1. toWindow[1].tell \notin {"down", "up"}
    BY DEF TakesAnswer
  <2>2. held' = CASE toWindow[1].tell = "down" -> held \cup {toWindow[1].row}
                  [] toWindow[1].tell = "up" -> held \ {toWindow[1].row}
                  [] OTHER -> held
    BY <1>3, <2>1
  <2>3. \A q : HeldAtEnd(q)' <=> HeldAtEnd(q)
    BY <1>1, <2>2, HeardOut DEF TakesAnswer, TakesUp
  <2> QED
    BY <1>3, <1>5, <2>3, SidesStay DEF KeysInv
<1>9. CaptureInv'
  <2>1. captureResolve' # NoCapture => captureResolve' \in captureTimers'
    BY <1>3 DEF KeysInv, CaptureInv
  <2>2. ASSUME OneCapture PROVE OneCapture' /\ Somewhere'
    <3>1. Answers(1)
      BY <1>2 DEF TakesAnswer, Answers
    <3>2. captureResolve' = NoCapture /\ \A i : ~AsksFor(i)'
      BY <1>3, <1>5, <2>2, <3>1 DEF OneCapture
    <3>3. \A i : ~Answers(i)'
      <4> SUFFICES ASSUME NEW i, Answers(i)' PROVE FALSE
        OBVIOUS
      <4>1. i \in Nat /\ i >= 1 /\ Answers(i + 1)
        BY <1>2
      <4>2. i + 1 = 1
        BY <2>2, <3>1, <4>1 DEF OneCapture
      <4> QED
        BY <4>1, <4>2
    <3>4. capturing'.capture = NoCapture
      BY <1>3 DEF NotCapturing
    <3>5. OneCapture'
      BY <3>2, <3>3 DEF OneCapture
    <3>6. Somewhere'
      BY <3>4 DEF Somewhere
    <3> QED
      BY <3>5, <3>6
  <2>3. robbed' = robbed /\ (robbed \/ OneCapture)
    BY <1>3 DEF KeysInv, CaptureInv
  <2> QED
    BY <2>1, <2>2, <2>3 DEF CaptureInv
<1> QED
  BY <1>6, <1>7, <1>8, <1>9 DEF KeysInv

\* A press or a release is heard.
LEMMA HeldKeeps ==
  ASSUME KeysInv, TakesUp, toWindow[1].tell \in {"down", "up"},
         held' = IF toWindow[1].tell = "down" THEN held \cup {toWindow[1].row} ELSE held \ {toWindow[1].row},
         talking' \in BOOLEAN, pushMuted' \in BOOLEAN, releasing' \in BOOLEAN,
         talking' <=> (held' \cap Talks # {} \/ releasing'), pushMuted' <=> held' \ Talks # {},
         UNCHANGED <<table, pushToTalk, capturing, toMain, main, down, keySpare>>
  PROVE  KeysInv'
<1> USE DEF main
<1>1. KeysTypeOK /\ toWindow \in Seq(ToWindow)
  BY DEF KeysInv, KeysTypeOK
<1>2. /\ toWindow' \in Seq(ToWindow) /\ 1 \in DOMAIN toWindow /\ toWindow[1] \in ToWindow
      /\ \A i : Answers(i)' => i \in Nat /\ i >= 1 /\ Answers(i + 1) /\ toWindow'[i] = toWindow[i + 1]
      /\ \A i : Answers(i) => i = 1 \/ (i \in Nat /\ Answers(i - 1)')
  BY <1>1, WindowTakes
<1>3. toWindow[1].row \in Rows
  BY <1>2 DEF ToWindow
<1>4. held' \subseteq Rows
  BY <1>1, <1>3 DEF KeysTypeOK
<1>5. KeysTypeOK'
  BY <1>1, <1>2, <1>4 DEF KeysTypeOK
<1>6. EachSideHolds'
  BY DEF KeysInv, EachSideHolds
<1>7. SidesAgree'
  <2>1. held' = CASE toWindow[1].tell = "down" -> held \cup {toWindow[1].row}
                  [] toWindow[1].tell = "up" -> held \ {toWindow[1].row}
                  [] OTHER -> held
    OBVIOUS
  <2>2. \A q : HeldAtEnd(q)' <=> HeldAtEnd(q)
    BY <1>1, <2>1, HeardOut DEF TakesUp
  <2>3. \A q : Withdrawn(q) => Withdrawn(q)'
    BY DEF Withdrawn
  <2> QED
    BY <2>2, <2>3, SidesStay DEF KeysInv
<1>8. CaptureInv'
  <2>1. captureResolve' # NoCapture => captureResolve' \in captureTimers'
    BY DEF KeysInv, CaptureInv
  <2>2. ASSUME OneCapture, Somewhere PROVE OneCapture' /\ Somewhere'
    <3>1. ~Answers(1)
      BY DEF Answers
    <3>2. \A i : AsksFor(i)' <=> AsksFor(i)
      BY DEF AsksFor
    <3>3. \A i, j : Answers(i)' /\ Answers(j)' => j = i
      <4> SUFFICES ASSUME NEW i, NEW j, Answers(i)', Answers(j)' PROVE j = i
        OBVIOUS
      <4>1. i \in Nat /\ j \in Nat /\ Answers(i + 1) /\ Answers(j + 1)
        BY <1>2
      <4>2. j + 1 = i + 1
        BY <2>2, <4>1 DEF OneCapture
      <4> QED
        BY <4>1, <4>2
    <3>4. \A i : Answers(i)' => toWindow'[i].capture = capturing.capture /\ capturing.capture # NoCapture
      <4> SUFFICES ASSUME NEW i, Answers(i)'
                   PROVE  toWindow'[i].capture = capturing.capture /\ capturing.capture # NoCapture
        OBVIOUS
      <4>1. Answers(i + 1) /\ toWindow'[i] = toWindow[i + 1]
        BY <1>2
      <4>2. toWindow[i + 1].capture = capturing.capture /\ capturing.capture # NoCapture
        BY <2>2, <4>1 DEF OneCapture
      <4> QED
        BY <4>1, <4>2
    <3>5. (\E i : Answers(i)') <=> \E i : Answers(i)
      BY <1>2, <3>1
    <3>6. OneCapture'
      BY <2>2, <3>2, <3>3, <3>4, <3>5 DEF OneCapture
    <3>7. Somewhere'
      BY <2>2, <3>2, <3>5 DEF Somewhere
    <3> QED
      BY <3>6, <3>7
  <2> QED
    BY <2>1, <2>2 DEF KeysInv, CaptureInv
<1> QED
  BY <1>5, <1>6, <1>7, <1>8 DEF KeysInv

LEMMA WindowHearsKeeps ==
  ASSUME KeysInv, NEW delay \in BOOLEAN, WindowHears(delay)
  PROVE  KeysInv'
<1> USE DEF main
<1> DEFINE e == toWindow[1]
<1>1. KeysTypeOK /\ toWindow \in Seq(ToWindow)
      /\ talking \in BOOLEAN /\ releasing \in BOOLEAN /\ pushMuted \in BOOLEAN
  BY DEF KeysInv, KeysTypeOK
<1>2. TakesUp /\ UNCHANGED <<main, down, keySpare>>
  BY DEF WindowHears, TakesUp
<1>3. Head(toWindow) = e /\ e \in ToWindow
  BY <1>1, <1>2, WindowTakes
<1>4. e.tell \in {"down", "up", "captured", "timed out"}
  BY <1>3 DEF ToWindow
<1>5. (talking <=> (held \cap Talks # {} \/ releasing)) /\ (pushMuted <=> held \ Talks # {})
  BY DEF KeysInv, EachSideHolds
<1> HIDE DEF e
<1>6. CASE e.tell \in {"captured", "timed out"}
  <2>1. Added(e)
    BY <1>3, <1>6 DEF WindowHears
  <2> QED
    BY <1>2, <1>6, <2>1, AddedKeeps DEF TakesAnswer, e
<1>7. CASE e.tell \in {"down", "up"} /\ e.row \in Talks
  <2>1. HeldTalk(e, delay)
    BY <1>3, <1>7 DEF WindowHears
  <2>2. held' = IF e.tell = "down" THEN held \cup {e.row} ELSE held \ {e.row}
    BY <2>1 DEF HeldTalk
  <2>3. releasing' = (~(held' \cap Talks # {}) /\ talking /\ delay) /\ talking' = (held' \cap Talks # {} \/ releasing')
    BY <2>1 DEF HeldTalk
  <2>4. UNCHANGED <<table, pushToTalk, capturing, pushMuted, toMain>>
    BY <2>1 DEF HeldTalk
  <2>5. held' \ Talks = held \ Talks
    BY <1>7, <2>2
  <2>6. pushMuted' <=> held' \ Talks # {}
    BY <1>5, <2>4, <2>5
  <2>7. talking' \in BOOLEAN /\ releasing' \in BOOLEAN /\ pushMuted' \in BOOLEAN
    BY <1>1, <2>3, <2>4
  <2>8. talking' <=> (held' \cap Talks # {} \/ releasing')
    BY <2>3
  <2> QED
    BY <1>2, <1>7, <2>2, <2>4, <2>6, <2>7, <2>8, HeldKeeps DEF e
<1>8. CASE e.tell \in {"down", "up"} /\ e.row \notin Talks
  <2>1. HeldMute(e)
    BY <1>3, <1>8 DEF WindowHears
  <2>2. held' = IF e.tell = "down" THEN held \cup {e.row} ELSE held \ {e.row}
    BY <2>1 DEF HeldMute
  <2>3. pushMuted' = (held' \ Talks # {}) /\ UNCHANGED <<table, pushToTalk, capturing, talking, releasing, toMain>>
    BY <2>1 DEF HeldMute
  <2>4. held' \cap Talks = held \cap Talks
    BY <1>8, <2>2
  <2>5. talking' <=> (held' \cap Talks # {} \/ releasing')
    BY <1>5, <2>3, <2>4
  <2>6. talking' \in BOOLEAN /\ releasing' \in BOOLEAN /\ pushMuted' \in BOOLEAN
    BY <1>1, <2>3
  <2>7. pushMuted' <=> held' \ Talks # {}
    BY <2>3
  <2> QED
    BY <1>2, <1>8, <2>2, <2>3, <2>5, <2>6, <2>7, HeldKeeps DEF e
<1> QED
  BY <1>4, <1>6, <1>7, <1>8


-----------------------------------------------------------------------------
(* The main process's actions.                                              *)

\* Main takes up its next letter.
TakesLetter == toMain # <<>> /\ toMain' = Tail(toMain)

TakesTable ==
  /\ TakesLetter /\ toMain[1].tell = "set" /\ SetKeybinds(toMain[1].rows)
  /\ UNCHANGED <<window, down, keySpare>>

TakesRequest ==
  /\ TakesLetter /\ toMain[1].tell = "capture" /\ Capture(toMain[1].capture)
  /\ UNCHANGED <<window, down, keySpare>>

\* What is gone from the table is released, and the window is told.
LEMMA TableKeeps ==
  ASSUME KeysInv, TakesTable
  PROVE  KeysInv'
<1> USE DEF window
<1> DEFINE next == toMain[1].rows
<1>1. KeysTypeOK /\ toWindow \in Seq(ToWindow) /\ toMain \in Seq(ToMain) /\ heldRows \in SUBSET Rows
  BY DEF KeysInv, KeysTypeOK
<1>2. /\ toMain' \in Seq(ToMain) /\ toMain[1] \in ToMain /\ toMain[1].tell = "set"
      /\ \A r : Withdrawn(r) => Withdrawn(r)' \/ r \notin next
      /\ \A i : AsksFor(i)' => i \in Nat /\ i >= 1 /\ AsksFor(i + 1) /\ toMain'[i] = toMain[i + 1]
      /\ \A i : AsksFor(i) => i = 1 \/ (i \in Nat /\ AsksFor(i - 1)')
  BY <1>1, MainTakes DEF TakesTable, TakesLetter
<1>3. next \in SUBSET Rows
  BY <1>2 DEF ToMain
<1>4. /\ UNCHANGED <<table, pushToTalk, capturing, held, talking, pushMuted, releasing, down, keySpare>>
      /\ UNCHANGED <<captureResolve, captureTimers, robbed>>
      /\ Fire(heldRows \ next, "up") /\ bindRows' = next /\ hookRunning' = (next # {})
  BY DEF TakesTable, SetKeybinds, Gone
<1>5. heldRows' = heldRows \cap next
  <2>1. heldRows' = IF next = {} /\ hookRunning THEN {} ELSE heldRows \ (heldRows \ next)
    BY DEF TakesTable, SetKeybinds, Gone
  <2> QED
    BY <2>1
<1> HIDE DEF next
<1>6. /\ toWindow' \in Seq(ToWindow)
      /\ \A r : r \notin heldRows \ next => (HeldAtEnd(r)' <=> HeldAtEnd(r))
      /\ \A r \in heldRows \ next : ~HeldAtEnd(r)'
      /\ \A i : Answers(i)' <=> Answers(i)
      /\ \A i \in DOMAIN toWindow : toWindow'[i] = toWindow[i]
  <2>1. heldRows \ next \in SUBSET Rows
    BY <1>1
  <2>2. held' = held /\ "up" \in {"up", "down"} /\ "up" # "down"
    BY <1>4
  <2> QED
    BY <1>1, <1>4, <2>1, <2>2, Fired
<1>7. KeysTypeOK'
  BY <1>1, <1>2, <1>3, <1>4, <1>5, <1>6 DEF KeysTypeOK
<1>8. EachSideHolds'
  <2>1. EachSideHolds
    BY DEF KeysInv
  <2> QED
    BY <1>4, <1>5, <2>1 DEF EachSideHolds
<1>9. SidesAgree'
  <2> SUFFICES ASSUME NEW q \in Rows
               PROVE  /\ HeldAtEnd(q)' => q \in heldRows'
                      /\ q \in heldRows' => HeldAtEnd(q)' \/ Withdrawn(q)'
    BY DEF SidesAgree
  <2>1. (HeldAtEnd(q) => q \in heldRows) /\ (q \in heldRows => HeldAtEnd(q) \/ Withdrawn(q))
    BY DEF KeysInv, SidesAgree
  <2> QED
    BY <1>2, <1>5, <1>6, <2>1
<1>10. CaptureInv'
  <2>1. captureResolve' # NoCapture => captureResolve' \in captureTimers'
    BY <1>4 DEF KeysInv, CaptureInv
  <2>2. ASSUME OneCapture, Somewhere PROVE OneCapture' /\ Somewhere'
    <3>1. ~AsksFor(1)
      BY <1>2 DEF AsksFor
    <3>2. \A i : Answers(i) => toWindow'[i] = toWindow[i]
      BY <1>6 DEF Answers
    <3>3. \A i, j : AsksFor(i)' /\ AsksFor(j)' => j = i
      <4> SUFFICES ASSUME NEW i, NEW j, AsksFor(i)', AsksFor(j)' PROVE j = i
        OBVIOUS
      <4>1. i \in Nat /\ j \in Nat /\ AsksFor(i + 1) /\ AsksFor(j + 1)
        BY <1>2
      <4>2. j + 1 = i + 1
        BY <2>2, <4>1 DEF OneCapture
      <4> QED
        BY <4>1, <4>2
    <3>4. \A i : AsksFor(i)' => toMain'[i].capture = capturing.capture /\ capturing.capture # NoCapture
      <4> SUFFICES ASSUME NEW i, AsksFor(i)'
                   PROVE  toMain'[i].capture = capturing.capture /\ capturing.capture # NoCapture
        OBVIOUS
      <4>1. AsksFor(i + 1) /\ toMain'[i] = toMain[i + 1]
        BY <1>2
      <4>2. toMain[i + 1].capture = capturing.capture /\ capturing.capture # NoCapture
        BY <2>2, <4>1 DEF OneCapture
      <4> QED
        BY <4>1, <4>2
    <3>5. (\E i : AsksFor(i)') <=> \E i : AsksFor(i)
      BY <1>2, <3>1
    <3>6. OneCapture'
      BY <1>4, <1>6, <2>2, <3>2, <3>3, <3>4, <3>5 DEF OneCapture
    <3>7. Somewhere'
      BY <1>4, <1>6, <2>2, <3>5 DEF Somewhere
    <3> QED
      BY <3>6, <3>7
  <2> QED
    BY <1>4, <2>1, <2>2 DEF KeysInv, CaptureInv
<1> QED
  BY <1>7, <1>8, <1>9, <1>10 DEF KeysInv

\* The capture that was asked for is under way, and there was no other.
LEMMA RequestKeeps ==
  ASSUME KeysInv, TakesRequest
  PROVE  KeysInv'
<1> USE DEF window
<1> DEFINE n == toMain[1].capture
<1>1. KeysTypeOK /\ toMain \in Seq(ToMain) /\ captureTimers \subseteq Captures
  BY DEF KeysInv, KeysTypeOK
<1>2. /\ toMain' \in Seq(ToMain) /\ toMain[1] \in ToMain /\ toMain[1].tell = "capture" /\ 1 \in DOMAIN toMain
      /\ \A r : Withdrawn(r) => Withdrawn(r)'
      /\ \A i : AsksFor(i)' => i \in Nat /\ i >= 1 /\ AsksFor(i + 1)
  BY <1>1, MainTakes DEF TakesRequest, TakesLetter
<1>3. n \in Captures
  BY <1>2 DEF ToMain
<1>4. /\ UNCHANGED <<table, pushToTalk, capturing, held, talking, pushMuted, releasing, down, keySpare>>
      /\ UNCHANGED <<bindRows, heldRows, robbed, toWindow>>
      /\ hookRunning' = TRUE /\ captureResolve' = n /\ captureTimers' = captureTimers \cup {n}
  BY DEF TakesRequest, Capture
<1> HIDE DEF n
<1>5. KeysTypeOK'
  <2>1. captureResolve' \in 0..MaxCaptures /\ captureTimers' \subseteq Captures
    BY <1>1, <1>3, <1>4 DEF Captures
  <2> QED
    BY <1>1, <1>2, <1>4, <2>1 DEF KeysTypeOK
<1>6. EachSideHolds'
  <2>1. EachSideHolds
    BY DEF KeysInv
  <2> QED
    BY <1>4, <2>1 DEF EachSideHolds
<1>7. SidesAgree'
  <2>1. \A q : HeldAtEnd(q)' <=> HeldAtEnd(q)
    BY <1>4 DEF HeldAtEnd
  <2> QED
    BY <1>2, <1>4, <2>1, SidesStay DEF KeysInv
<1>8. CaptureInv'
  <2>1. ASSUME OneCapture PROVE OneCapture' /\ Somewhere'
    <3>1. AsksFor(1)
      BY <1>2 DEF AsksFor
    <3>2. n = capturing.capture /\ (\A j : ~Answers(j)) /\ \A j : AsksFor(j) => j = 1
      BY <2>1, <3>1 DEF OneCapture, n
    <3>3. \A i : ~AsksFor(i)'
      <4> SUFFICES ASSUME NEW i, AsksFor(i)' PROVE FALSE
        OBVIOUS
      <4>1. i \in Nat /\ i >= 1 /\ i + 1 = 1
        BY <1>2, <3>2
      <4> QED
        BY <4>1
    <3>4. \A i : ~Answers(i)'
      BY <1>4, <3>2 DEF Answers
    <3>5. n # NoCapture
      BY <1>3 DEF Captures, NoCapture
    <3> QED
      BY <1>4, <3>2, <3>3, <3>4, <3>5 DEF OneCapture, Somewhere
  <2> QED
    BY <1>4, <2>1 DEF KeysInv, CaptureInv
<1> QED
  BY <1>5, <1>6, <1>7, <1>8 DEF KeysInv

LEMMA MainHearsKeeps ==
  ASSUME KeysInv, MainHears
  PROVE  KeysInv'
<1>1. toMain \in Seq(ToMain) /\ TakesLetter
  BY DEF KeysInv, KeysTypeOK, MainHears, TakesLetter
<1>2. Head(toMain) = toMain[1] /\ toMain[1] \in ToMain
  BY <1>1, MainTakes DEF TakesLetter
<1>3. toMain[1].tell \in {"set", "capture"}
  BY <1>2 DEF ToMain
<1>4. CASE toMain[1].tell = "set"
  <2>1. TakesTable
    BY <1>1, <1>2, <1>4 DEF MainHears, TakesTable
  <2> QED
    BY <2>1, TableKeeps
<1>5. CASE toMain[1].tell = "capture"
  <2>1. TakesRequest
    BY <1>1, <1>2, <1>5 DEF MainHears, TakesRequest
  <2> QED
    BY <2>1, RequestKeeps
<1> QED
  BY <1>3, <1>4, <1>5

\* The capture under way is answered, and is nowhere else.
Answered(tell) ==
  /\ captureResolve # NoCapture /\ captureResolve' = NoCapture
  /\ toWindow' = Append(toWindow, [tell |-> tell, row |-> capturing.row, capture |-> captureResolve])
  /\ UNCHANGED <<window, toMain, bindRows, hookRunning, heldRows>>

\* The window's letters, one more of them.
LEMMA OneMoreWord ==
  ASSUME toWindow \in Seq(ToWindow), NEW e \in ToWindow, toWindow' = Append(toWindow, e)
  PROVE  /\ toWindow' \in Seq(ToWindow)
         /\ \A i : i \in DOMAIN toWindow' <=> i \in DOMAIN toWindow \/ i = Len(toWindow) + 1
         /\ \A i \in DOMAIN toWindow : toWindow'[i] = toWindow[i]
         /\ toWindow'[Len(toWindow) + 1] = e
BY Appended

LEMMA AnsweredKeeps ==
  ASSUME KeysInv, NEW tell \in {"captured", "timed out"}, Answered(tell)
  PROVE  /\ toWindow' \in Seq(ToWindow)
         /\ SidesAgree'
         /\ OneCapture => OneCapture' /\ Somewhere'
<1> USE DEF window
<1> DEFINE n == Len(toWindow)
<1>1. toWindow \in Seq(ToWindow) /\ capturing.row \in Rows /\ captureResolve \in 0..MaxCaptures
  BY DEF KeysInv, KeysTypeOK
<1>2. PICK e \in ToWindow :
         e.tell = tell /\ e.capture = captureResolve /\ toWindow' = Append(toWindow, e)
  <2>1. tell \in {"down", "up", "captured", "timed out"}
    OBVIOUS
  <2>2. [tell |-> tell, row |-> capturing.row, capture |-> captureResolve] \in ToWindow
    BY <1>1, <2>1, WordsToTheWindow
  <2> QED
    BY <2>2 DEF Answered
<1>3. /\ captureResolve # NoCapture /\ captureResolve' = NoCapture
      /\ UNCHANGED <<capturing, held, toMain, heldRows>>
  BY DEF Answered
<1>4. toWindow' = Append(toWindow, e) /\ toWindow \in Seq(ToWindow)
  BY <1>1, <1>2
<1>5. /\ toWindow' \in Seq(ToWindow)
      /\ \A i : i \in DOMAIN toWindow' <=> i \in DOMAIN toWindow \/ i = n + 1
      /\ \A i \in DOMAIN toWindow : toWindow'[i] = toWindow[i]
      /\ toWindow'[n + 1] = e
  BY <1>4, OneMoreWord
<1> HIDE DEF n
<1>6. SidesAgree'
  <2>1. e.tell \notin {"up", "down"}
    BY <1>2
  <2>2. \A q : HeldAtEnd(q)' <=> HeldAtEnd(q)
    BY <1>3, <1>4, <2>1, Silent
  <2>3. \A q : Withdrawn(q) => Withdrawn(q)'
    BY <1>3 DEF Withdrawn
  <2> QED
    BY <1>3, <2>2, <2>3, SidesStay DEF KeysInv
<1>7. ASSUME OneCapture PROVE OneCapture' /\ Somewhere'
  <2>1. captureResolve = capturing.capture /\ (\A j : ~Answers(j)) /\ \A j : ~AsksFor(j)
    BY <1>3, <1>7 DEF OneCapture
  <2>2. \A i : ~AsksFor(i)'
    BY <1>3, <2>1 DEF AsksFor
  <2>3. \A i : Answers(i)' <=> i = n + 1
    BY <1>2, <1>5, <2>1 DEF Answers
  <2>4. toWindow'[n + 1].capture = capturing'.capture /\ capturing'.capture # NoCapture
    BY <1>2, <1>3, <1>5, <2>1
  <2>5. OneCapture'
    BY <1>3, <2>2, <2>3, <2>4 DEF OneCapture
  <2>6. Somewhere'
    BY <2>3 DEF Somewhere
  <2> QED
    BY <2>5, <2>6
<1> QED
  BY <1>5, <1>6, <1>7

\* Rows are fired, and then held or not.
Fires(which, tell) ==
  /\ Fire(which, tell)
  /\ heldRows' = IF tell = "down" THEN heldRows \cup which ELSE heldRows \ which
  /\ UNCHANGED <<window, toMain, bindRows, hookRunning, captureResolve, captureTimers, robbed>>

LEMMA FiresKeeps ==
  ASSUME KeysInv, NEW which \in SUBSET bindRows, NEW tell \in {"up", "down"}, Fires(which, tell)
  PROVE  toWindow' \in Seq(ToWindow) /\ heldRows' \in SUBSET Rows /\ SidesAgree' /\ CaptureInv'
<1> USE DEF window
<1>1. toWindow \in Seq(ToWindow) /\ which \in SUBSET Rows /\ heldRows \in SUBSET Rows
  BY DEF KeysInv, KeysTypeOK
<1>2. /\ UNCHANGED <<capturing, held, toMain, captureResolve, captureTimers, robbed>>
      /\ heldRows' = IF tell = "down" THEN heldRows \cup which ELSE heldRows \ which
      /\ Fire(which, tell)
  BY DEF Fires
<1>3. /\ toWindow' \in Seq(ToWindow)
      /\ \A r : r \notin which => (HeldAtEnd(r)' <=> HeldAtEnd(r))
      /\ \A r \in which : HeldAtEnd(r)' <=> tell = "down"
      /\ \A i : Answers(i)' <=> Answers(i)
      /\ \A i \in DOMAIN toWindow : toWindow'[i] = toWindow[i]
  BY <1>1, <1>2, Fired
<1>4. SidesAgree'
  <2> SUFFICES ASSUME NEW q \in Rows
               PROVE  /\ HeldAtEnd(q)' => q \in heldRows'
                      /\ q \in heldRows' => HeldAtEnd(q)' \/ Withdrawn(q)'
    BY DEF SidesAgree
  <2>1. (HeldAtEnd(q) => q \in heldRows) /\ (q \in heldRows => HeldAtEnd(q) \/ Withdrawn(q))
    BY DEF KeysInv, SidesAgree
  <2>2. Withdrawn(q)' <=> Withdrawn(q)
    BY <1>2 DEF Withdrawn
  <2> QED
    BY <1>2, <1>3, <2>1, <2>2
<1>5. CaptureInv'
  <2>1. \A i : AsksFor(i)' <=> AsksFor(i)
    BY <1>2 DEF AsksFor
  <2>2. \A i : Answers(i) => toWindow'[i] = toWindow[i]
    BY <1>3 DEF Answers
  <2> QED
    BY <1>2, <1>3, <2>1, <2>2, CaptureStays DEF KeysInv
<1> QED
  BY <1>1, <1>2, <1>3, <1>4, <1>5

LEMMA PressKeeps ==
  ASSUME KeysInv, NEW k \in Keys, Press(k)
  PROVE  KeysInv'
<1> USE DEF window, main
<1>1. KeysTypeOK /\ EachSideHolds /\ SidesAgree /\ CaptureInv
  BY DEF KeysInv
<1>2. keySpare' \in [{"changes", "captures", "presses"} -> Nat] /\ keySpare'["captures"] <= MaxCaptures
  <2>1. keySpare' = keySpare \/ SpendKey("presses")
    BY DEF Press
  <2> QED
    BY <1>1, <2>1, SpendsKey DEF KeysTypeOK
<1>3. /\ UNCHANGED <<table, pushToTalk, capturing, held, talking, pushMuted, releasing, toMain>>
      /\ down' = down \cup {k} /\ down' \subseteq Keys
  BY <1>1 DEF Press, KeysTypeOK
<1>4. CASE ~hookRunning
  <2>1. UNCHANGED <<bindRows, hookRunning, heldRows, captureResolve, captureTimers, robbed, toWindow>>
    BY <1>4 DEF Press
  <2>2. KeysTypeOK'
    BY <1>1, <1>2, <1>3, <2>1 DEF KeysTypeOK
  <2>3. EachSideHolds'
    BY <1>1, <1>3, <2>1 DEF EachSideHolds
  <2>4. SidesAgree'
    BY <1>1, <1>3, <2>1 DEF SidesAgree, HeldAtEnd, Withdrawn
  <2>5. CaptureInv'
    BY <1>1, <1>3, <2>1 DEF CaptureInv, OneCapture, Somewhere, AsksFor, Answers
  <2> QED
    BY <2>2, <2>3, <2>4, <2>5 DEF KeysInv
<1>5. CASE hookRunning /\ captureResolve # NoCapture
  <2>1. /\ UNCHANGED <<bindRows, hookRunning, heldRows, captureTimers, robbed>> /\ captureResolve' = NoCapture
        /\ Answered("captured")
    BY <1>3, <1>5 DEF Press, Answered
  <2>2. toWindow' \in Seq(ToWindow) /\ SidesAgree' /\ (OneCapture => OneCapture' /\ Somewhere')
    BY <2>1, AnsweredKeeps
  <2>3. KeysTypeOK'
    BY <1>1, <1>2, <1>3, <2>1, <2>2, NoneIsANumber DEF KeysTypeOK
  <2>4. EachSideHolds'
    BY <1>1, <1>3, <2>1 DEF EachSideHolds
  <2>5. CaptureInv'
    BY <1>1, <2>1, <2>2 DEF CaptureInv
  <2> QED
    BY <2>2, <2>3, <2>4, <2>5 DEF KeysInv
<1>6. CASE hookRunning /\ captureResolve = NoCapture
  <2> DEFINE pressed == {r \in bindRows \ heldRows : KeyOf[r] = k}
  <2>1. /\ Fire(pressed, "down") /\ heldRows' = heldRows \cup pressed
        /\ UNCHANGED <<bindRows, hookRunning, captureResolve, captureTimers, robbed>>
    BY <1>6 DEF Press
  <2>2. pressed \in SUBSET bindRows /\ Fires(pressed, "down")
    BY <1>3, <2>1 DEF Fires
  <2>3. toWindow' \in Seq(ToWindow) /\ heldRows' \in SUBSET Rows /\ SidesAgree' /\ CaptureInv'
    BY <2>2, FiresKeeps
  <2>4. KeysTypeOK'
    BY <1>1, <1>2, <1>3, <2>1, <2>3 DEF KeysTypeOK
  <2>5. EachSideHolds'
    <3>1. heldRows' \subseteq {r \in bindRows' : KeyOf[r] \in down'}
      BY <1>1, <1>3, <2>1 DEF EachSideHolds
    <3> QED
      BY <1>1, <1>3, <2>1, <3>1 DEF EachSideHolds
  <2> QED
    BY <2>3, <2>4, <2>5 DEF KeysInv
<1> QED
  BY <1>4, <1>5, <1>6

LEMMA LiftKeeps ==
  ASSUME KeysInv, NEW k \in Keys, Lift(k)
  PROVE  KeysInv'
<1> USE DEF window, main
<1>1. KeysTypeOK /\ EachSideHolds /\ SidesAgree /\ CaptureInv
  BY DEF KeysInv
<1>2. /\ UNCHANGED <<table, pushToTalk, capturing, held, talking, pushMuted, releasing, toMain, keySpare>>
      /\ down' = down \ {k} /\ down' \subseteq Keys
  BY <1>1 DEF Lift, KeysTypeOK
<1>3. CASE ~hookRunning
  <2>1. UNCHANGED <<bindRows, hookRunning, heldRows, captureResolve, captureTimers, robbed, toWindow>>
    BY <1>3 DEF Lift
  <2>2. KeysTypeOK'
    BY <1>1, <1>2, <2>1 DEF KeysTypeOK
  <2>3. EachSideHolds'
    <3>1. heldRows' = {}
      BY <1>1, <1>3, <2>1 DEF EachSideHolds
    <3> QED
      BY <1>1, <1>2, <2>1, <3>1 DEF EachSideHolds
  <2>4. SidesAgree'
    BY <1>1, <1>2, <2>1 DEF SidesAgree, HeldAtEnd, Withdrawn
  <2>5. CaptureInv'
    BY <1>1, <1>2, <2>1 DEF CaptureInv, OneCapture, Somewhere, AsksFor, Answers
  <2> QED
    BY <2>2, <2>3, <2>4, <2>5 DEF KeysInv
<1>4. CASE hookRunning
  <2> DEFINE lifted == {r \in bindRows \cap heldRows : KeyOf[r] = k}
  <2>1. /\ Fire(lifted, "up") /\ heldRows' = heldRows \ lifted
        /\ UNCHANGED <<bindRows, hookRunning, captureResolve, captureTimers, robbed>>
    BY <1>4 DEF Lift
  <2>2. lifted \in SUBSET bindRows /\ Fires(lifted, "up")
    BY <1>2, <2>1 DEF Fires
  <2>3. toWindow' \in Seq(ToWindow) /\ heldRows' \in SUBSET Rows /\ SidesAgree' /\ CaptureInv'
    BY <2>2, FiresKeeps
  <2>4. KeysTypeOK'
    BY <1>1, <1>2, <2>1, <2>3 DEF KeysTypeOK
  <2>5. EachSideHolds'
    <3>1. heldRows' \subseteq {r \in bindRows' : KeyOf[r] \in down'}
      BY <1>1, <1>2, <2>1 DEF EachSideHolds
    <3> QED
      BY <1>1, <1>2, <2>1, <3>1 DEF EachSideHolds
  <2> QED
    BY <2>3, <2>4, <2>5 DEF KeysInv
<1> QED
  BY <1>3, <1>4

\* A timer that ends another's capture is what robbed remembers.
LEMMA TimeOutKeeps ==
  ASSUME KeysInv, NEW n \in captureTimers, TimeOut(n)
  PROVE  KeysInv'
<1> USE DEF window
<1>1. KeysTypeOK /\ EachSideHolds /\ SidesAgree /\ CaptureInv
  BY DEF KeysInv
<1>2. /\ UNCHANGED <<table, pushToTalk, capturing, held, talking, pushMuted, releasing, toMain, down, keySpare>>
      /\ UNCHANGED <<bindRows, hookRunning, heldRows>>
      /\ captureTimers' = captureTimers \ {n} /\ captureResolve' = NoCapture
      /\ robbed' = (robbed \/ captureResolve \notin {NoCapture, n})
  BY DEF TimeOut
<1>3. n # NoCapture
  BY <1>1 DEF KeysTypeOK, Captures, NoCapture
<1>4. EachSideHolds'
  BY <1>1, <1>2 DEF EachSideHolds
<1>5. toWindow' \in Seq(ToWindow) => KeysTypeOK'
  <2>1. robbed' \in BOOLEAN /\ captureTimers' \subseteq Captures
    BY <1>1, <1>2 DEF KeysTypeOK
  <2> QED
    BY <1>1, <1>2, <2>1, NoneIsANumber DEF KeysTypeOK
<1>6. CASE captureResolve = n
  <2>1. Answered("timed out")
    BY <1>2, <1>3, <1>6 DEF TimeOut, Answered
  <2>2. toWindow' \in Seq(ToWindow) /\ SidesAgree' /\ (OneCapture => OneCapture' /\ Somewhere')
    BY <2>1, AnsweredKeeps
  <2>3. CaptureInv'
    BY <1>1, <1>2, <2>2 DEF CaptureInv
  <2> QED
    BY <1>4, <1>5, <2>2, <2>3 DEF KeysInv
<1>7. CASE captureResolve # n
  <2>1. toWindow' = toWindow
    BY <1>7 DEF TimeOut
  <2>2. toWindow' \in Seq(ToWindow)
    BY <1>1, <2>1 DEF KeysTypeOK
  <2>3. SidesAgree'
    BY <1>1, <1>2, <2>1 DEF SidesAgree, HeldAtEnd, Withdrawn
  <2>4. CaptureInv'
    <3>1. CASE captureResolve = NoCapture
      <4>1. captureResolve' = captureResolve /\ (OneCapture => OneCapture') /\ (Somewhere => Somewhere')
        BY <1>2, <2>1, <3>1 DEF OneCapture, Somewhere, AsksFor, Answers
      <4> QED
        BY <1>1, <1>2, <4>1 DEF CaptureInv
    <3>2. CASE captureResolve # NoCapture
      BY <1>2, <1>7, <3>2 DEF CaptureInv
    <3> QED
      BY <3>1, <3>2
  <2> QED
    BY <1>4, <1>5, <2>2, <2>3, <2>4 DEF KeysInv
<1> QED
  BY <1>6, <1>7

-----------------------------------------------------------------------------

LEMMA KeysInitInv == KeysInit => KeysInv
<1> SUFFICES ASSUME KeysInit PROVE KeysInv
  OBVIOUS
<1>1. /\ table = Rows /\ bindRows = Rows /\ pushToTalk = TRUE /\ capturing = NotCapturing
      /\ held = {} /\ talking = FALSE /\ pushMuted = FALSE /\ releasing = FALSE
      /\ toMain = <<>> /\ toWindow = <<>>
      /\ hookRunning = TRUE /\ heldRows = {} /\ captureResolve = NoCapture /\ captureTimers = {}
      /\ down = {} /\ robbed = FALSE
  BY DEF KeysInit
<1>2. DOMAIN toMain = {} /\ DOMAIN toWindow = {} /\ toMain \in Seq(ToMain) /\ toWindow \in Seq(ToWindow)
  BY <1>1
<1>3. NotCapturing \in [capture : 0..MaxCaptures, row : Rows, table : SUBSET Rows] /\ NotCapturing.capture = NoCapture
  <2>1. (CHOOSE r \in Rows : TRUE) \in Rows
    BY KeybindsAssumption
  <2> QED
    BY <2>1, NoneIsANumber DEF NotCapturing
<1>4. keySpare \in [{"changes", "captures", "presses"} -> Nat] /\ keySpare["captures"] <= MaxCaptures
  BY KeybindsAssumption DEF KeysInit
<1>5. KeysTypeOK
  BY <1>1, <1>2, <1>3, <1>4, NoneIsANumber DEF KeysTypeOK
<1>6. EachSideHolds
  BY <1>1 DEF EachSideHolds
<1>7. SidesAgree
  BY <1>1, <1>2 DEF SidesAgree, HeldAtEnd
<1>8. CaptureInv
  BY <1>1, <1>2, <1>3 DEF CaptureInv, OneCapture, Somewhere, AsksFor, Answers
<1> QED
  BY <1>5, <1>6, <1>7, <1>8 DEF KeysInv

LEMMA KeysNextInv == KeysInv /\ [KeysNext]_keyVars => KeysInv'
<1> SUFFICES ASSUME KeysInv, [KeysNext]_keyVars PROVE KeysInv'
  OBVIOUS
<1>1. CASE \E r \in Rows : RemoveRow(r) \/ AddBinding(r)
  BY <1>1, RemoveRowKeeps, AddBindingKeeps
<1>2. CASE Switch
  BY <1>2, SwitchKeeps
<1>3. CASE ReleaseTimer
  BY <1>3, ReleaseTimerKeeps
<1>4. CASE MainHears
  BY <1>4, MainHearsKeeps
<1>5. CASE \E delay \in BOOLEAN : WindowHears(delay)
  BY <1>5, WindowHearsKeeps
<1>6. CASE \E k \in Keys : Press(k) \/ Lift(k)
  BY <1>6, PressKeeps, LiftKeeps
<1>7. CASE \E n \in captureTimers : TimeOut(n)
  BY <1>7, TimeOutKeeps
<1>8. CASE UNCHANGED keyVars
  <2>1. /\ UNCHANGED <<table, pushToTalk, capturing, held, talking, pushMuted, releasing, toMain, toWindow>>
        /\ UNCHANGED <<down, keySpare>>
        /\ UNCHANGED <<bindRows, hookRunning, heldRows, captureResolve, captureTimers, robbed>>
    BY <1>8 DEF keyVars, window, main
  <2>2. KeysTypeOK'
    BY <2>1 DEF KeysInv, KeysTypeOK
  <2>3. EachSideHolds' /\ SidesAgree'
    BY <2>1 DEF KeysInv, EachSideHolds, SidesAgree, HeldAtEnd, Withdrawn
  <2>4. CaptureInv'
    BY <2>1 DEF KeysInv, CaptureInv, OneCapture, Somewhere, AsksFor, Answers
  <2> QED
    BY <2>2, <2>3, <2>4 DEF KeysInv
<1> QED
  BY <1>1, <1>2, <1>3, <1>4, <1>5, <1>6, <1>7, <1>8 DEF KeysNext

\* Once all mail is read and no release is being waited out, the two sides hold
\* the same rows; and a capture that was not robbed is in some place.
LEMMA KeysInvSuffices == KeysInv => NothingSticks
<1> SUFFICES ASSUME KeysInv PROVE NothingSticks
  OBVIOUS
<1>1. KeysTypeOK /\ EachSideHolds /\ SidesAgree /\ CaptureInv /\ held \subseteq Rows /\ heldRows \subseteq Rows
  BY DEF KeysInv, KeysTypeOK
<1>2. NothingHangs
  <2>1. ASSUME toMain = <<>>, toWindow = <<>>, ~releasing
        PROVE  (talking <=> heldRows \cap Talks # {}) /\ (pushMuted <=> heldRows \ Talks # {})
    <3>1. DOMAIN toMain = {} /\ DOMAIN toWindow = {}
      BY <2>1
    <3>2. \A r \in Rows : r \in heldRows <=> r \in held
      BY <1>1, <3>1 DEF SidesAgree, HeldAtEnd, Withdrawn
    <3>3. heldRows = held
      BY <1>1, <3>2
    <3> QED
      BY <1>1, <2>1, <3>3 DEF EachSideHolds
  <2> QED
    BY <1>1, <2>1 DEF NothingHangs, EachSideHolds
<1>3. CaptureEndsUnlessRobbed
  <2> SUFFICES ASSUME ~robbed PROVE CaptureEnds
    BY DEF CaptureEndsUnlessRobbed
  <2>1. OneCapture /\ Somewhere
    BY <1>1 DEF CaptureInv
  <2>2. CASE captureResolve # NoCapture
    BY <1>1, <2>1, <2>2 DEF CaptureEnds, CaptureInv, OneCapture
  <2>3. CASE captureResolve = NoCapture
    BY <2>1, <2>3 DEF CaptureEnds, OneCapture, Somewhere, AsksFor, Answers
  <2> QED
    BY <2>2, <2>3
<1> QED
  BY <1>1, <1>2, <1>3 DEF NothingSticks

\* Push to talk and push to mute never hang, and a capture of a key ends unless
\* the timer of an earlier one takes its answer: whatever keys go down and up
\* while tables and requests are on their way between the two processes
\* (registerKeybinds in main; useVoice and KeybindSettings in the window).
THEOREM NothingEverSticks == KeysSpec => []NothingSticks
<1>1. KeysInit => KeysInv
  BY KeysInitInv
<1>2. KeysInv /\ [KeysNext]_keyVars => KeysInv'
  BY KeysNextInv
<1>3. KeysInv => NothingSticks
  BY KeysInvSuffices
<1> QED
  BY <1>1, <1>2, <1>3, PTL DEF KeysSpec

-----------------------------------------------------------------------------
(* An update and the call it gives up.                                      *)

\* Whoever hands over is installing, and an install that goes on is handed
\* over or watched; the window is gone no longer than that.
HandsOver ==
  /\ handing # "no" => installing
  /\ installing => handing # "no" \/ timer
  /\ timer => installing /\ handing = "no"
  /\ ~visible => installing

\* What is offered, or being installed, is what was downloaded.
OffersWhatIsThere == installing \/ stage = "ready" => version = downloaded

Waits(word) == \E i \in DOMAIN fromMain : fromMain[i] = word

\* The call is left while main waits for that, and nothing else is on its way
\* by then; the request to leave is the last that main has said.
LeavesOnRequest ==
  /\ leaving # "no" => handing = "leaving" /\ fromMain = <<>> /\ leftFor
  /\ \A i \in DOMAIN fromMain :
       fromMain[i] = "leave-voice" => handing = "leaving" /\ i = Len(fromMain)

\* A debt is paid by the word that is on its way, or will be when the install
\* it was made for is given up.
DebtsArePaid ==
  /\ owed => leftFor
  /\ owed \/ rejoin => Waits("rejoin-voice") \/ (installing /\ handing # "opening" /\ fromMain = <<>>)

Uncrossed == HandsOver /\ OffersWhatIsThere /\ LeavesOnRequest /\ DebtsArePaid

UpdateInv == UpdateTypeOK /\ (crossed \/ Uncrossed)

-----------------------------------------------------------------------------
(* Types.                                                                   *)

LEMMA SpendsUpdate ==
  ASSUME UpdateTypeOK, NEW what \in {"checks", "installs", "calls"}, SpendUpdate(what)
  PROVE  updateSpare' \in [{"checks", "installs", "calls"} -> Nat]
<1>1. /\ updateSpare \in [{"checks", "installs", "calls"} -> Nat]
      /\ updateSpare[what] \in Nat /\ updateSpare[what] > 0
      /\ updateSpare' = [updateSpare EXCEPT ![what] = updateSpare[what] - 1]
  BY DEF UpdateTypeOK, SpendUpdate
<1>2. updateSpare[what] - 1 \in Nat
  BY <1>1
<1> QED
  BY <1>1, <1>2

Words == {"leave-voice", "rejoin-voice"}

\* Main says one word more, and it is the last.
LEMMA MainSays ==
  ASSUME fromMain \in Seq(Words), NEW word \in Words, fromMain' = Append(fromMain, word)
  PROVE  /\ fromMain' \in Seq(Words) /\ fromMain' # <<>>
         /\ \A i \in DOMAIN fromMain' : i = Len(fromMain') \/ (i \in DOMAIN fromMain /\ fromMain'[i] = fromMain[i])
         /\ fromMain'[Len(fromMain')] = word
         /\ \A w : Waits(w)' <=> Waits(w) \/ w = word
<1>1. Len(fromMain) \in Nat /\ DOMAIN fromMain = 1..Len(fromMain)
  BY LenProperties
<1>2. /\ fromMain' \in Seq(Words) /\ Len(fromMain') = Len(fromMain) + 1
      /\ \A i \in 1..Len(fromMain) : fromMain'[i] = fromMain[i]
      /\ fromMain'[Len(fromMain) + 1] = word
  BY AppendProperties
<1>3. DOMAIN fromMain' = 1..(Len(fromMain) + 1)
  BY <1>2, LenProperties
<1>4. fromMain' # <<>>
  BY <1>1, <1>3
<1>5. \A w : Waits(w)' <=> Waits(w) \/ w = word
  BY <1>1, <1>2, <1>3 DEF Waits
<1> QED
  BY <1>1, <1>2, <1>3, <1>4, <1>5

\* The window hears the first.
LEMMA WindowListens ==
  ASSUME fromMain \in Seq(Words), fromMain # <<>>, fromMain' = Tail(fromMain)
  PROVE  /\ fromMain' \in Seq(Words)
         /\ Head(fromMain) = fromMain[1] /\ 1 \in DOMAIN fromMain
         /\ Len(fromMain) \in Nat /\ Len(fromMain') = Len(fromMain) - 1
         /\ \A i \in DOMAIN fromMain' : i \in Nat /\ i + 1 \in DOMAIN fromMain /\ fromMain'[i] = fromMain[i + 1]
         /\ Len(fromMain) = 1 => fromMain' = <<>>
<1>1. Len(fromMain) \in Nat /\ DOMAIN fromMain = 1..Len(fromMain)
  BY LenProperties
<1>2. Len(fromMain) # 0
  BY EmptySeq
<1>3. /\ fromMain' \in Seq(Words) /\ Len(fromMain') = Len(fromMain) - 1
      /\ \A i \in 1..Len(fromMain') : fromMain'[i] = fromMain[i + 1]
  BY HeadTailProperties
<1>4. DOMAIN fromMain' = 1..(Len(fromMain) - 1)
  BY <1>3, LenProperties
<1>5. Head(fromMain) = fromMain[1]
  OBVIOUS
<1>6. Len(fromMain) = 1 => fromMain' = <<>>
  BY <1>3, EmptySeq
<1> QED
  BY <1>1, <1>2, <1>3, <1>4, <1>5, <1>6

\* The parts of the type invariant, by what disturbs them.
NumbersTyped ==
  /\ running \in 0..MaxVersion /\ published \in 0..MaxVersion /\ found \in 0..MaxVersion
  /\ version \in 0..MaxVersion /\ downloaded \in 0..MaxVersion
  /\ file \in 0..MaxVersion /\ installer \in 0..MaxVersion
StagesTyped ==
  /\ stage \in {"idle", "checking", "available", "downloading", "ready", "installing", "error"}
  /\ handing \in {"no", "opening", "leaving", "pausing"}
  /\ leaving \in {"no", "saving", "disconnecting"}
FlagsTyped ==
  /\ looking \in BOOLEAN /\ fetching \in BOOLEAN /\ installing \in BOOLEAN
  /\ timer \in BOOLEAN /\ visible \in BOOLEAN
CallTyped ==
  /\ calling \in BOOLEAN /\ leftFor \in BOOLEAN /\ rejoin \in BOOLEAN /\ owed \in BOOLEAN
  /\ crossed \in BOOLEAN

LEMMA TypesSplit ==
  UpdateTypeOK <=>
    /\ NumbersTyped /\ StagesTyped /\ FlagsTyped /\ CallTyped /\ fromMain \in Seq(Words)
    /\ updateSpare \in [{"checks", "installs", "calls"} -> Nat]
BY DEF UpdateTypeOK, NumbersTyped, StagesTyped, FlagsTyped, CallTyped, Words

LEMMA NumbersStayTyped == NumbersTyped /\ UpdateNext => NumbersTyped'
<1> USE UpdaterAssumption DEF Nothing
<1>1. NumbersTyped /\ (Release \/ Check \/ Checked \/ CheckFails \/ Download \/ Downloaded \/ DownloadFails) => NumbersTyped'
  BY DEF NumbersTyped, Release, Check, Checked, CheckFails, Download, Downloaded, DownloadFails, hand, offer
<1>2. NumbersTyped /\ (Install \/ Opened \/ OpenFails \/ WaitedEnough \/ Spawn \/ SpawnFails) => NumbersTyped'
  BY DEF NumbersTyped, Install, Opened, OpenFails, WaitedEnough, Spawn, SpawnFails, hand, offer, feed
<1>3. NumbersTyped /\ (TimedOut \/ Declined \/ Installed) => NumbersTyped'
  BY DEF NumbersTyped, TimedOut, Declined, Installed, Launched, hand, offer, feed
<1>4. NumbersTyped /\ (LeaveForUpdate \/ Saved \/ Left \/ RejoinVoice \/ Call) => NumbersTyped'
  BY DEF NumbersTyped, LeaveForUpdate, Saved, Left, RejoinVoice, Call, hand, offer, feed
<1> QED
  BY <1>1, <1>2, <1>3, <1>4 DEF UpdateNext

LEMMA StagesStayTyped == StagesTyped /\ UpdateNext => StagesTyped'
<1>1. StagesTyped /\ (Release \/ Check \/ Checked \/ CheckFails \/ Download \/ Downloaded \/ DownloadFails) => StagesTyped'
  BY DEF StagesTyped, Release, Check, Checked, CheckFails, Download, Downloaded, DownloadFails, FeedTrouble, Abandon,
         hand, offer, callState
<1>2. StagesTyped /\ (Install \/ Opened \/ OpenFails \/ WaitedEnough \/ Spawn \/ SpawnFails) => StagesTyped'
  BY DEF StagesTyped, Install, Opened, OpenFails, WaitedEnough, Spawn, SpawnFails, Hide, Abandon, hand, offer, callState
<1>3. StagesTyped /\ (TimedOut \/ Declined \/ Installed) => StagesTyped'
  BY DEF StagesTyped, TimedOut, Declined, Installed, Launched, Abandon, hand, offer, callState
<1>4. StagesTyped /\ (LeaveForUpdate \/ Saved \/ Left \/ RejoinVoice \/ Call) => StagesTyped'
  BY DEF StagesTyped, LeaveForUpdate, Saved, Left, RejoinVoice, Call, Hide, hand, offer
<1> QED
  BY <1>1, <1>2, <1>3, <1>4 DEF UpdateNext

LEMMA FlagsStayTyped == FlagsTyped /\ UpdateNext => FlagsTyped'
<1>1. FlagsTyped /\ (Release \/ Check \/ Checked \/ CheckFails \/ Download \/ Downloaded \/ DownloadFails) => FlagsTyped'
  BY DEF FlagsTyped, Release, Check, Checked, CheckFails, Download, Downloaded, DownloadFails, FeedTrouble, Abandon,
         ShownAgain, hand
<1>2. FlagsTyped /\ (Install \/ Opened \/ OpenFails \/ WaitedEnough \/ Spawn \/ SpawnFails) => FlagsTyped'
  BY DEF FlagsTyped, Install, Opened, OpenFails, WaitedEnough, Spawn, SpawnFails, Hide, Abandon, ShownAgain, Watched,
         hand, feed
<1>3. FlagsTyped /\ (TimedOut \/ Declined \/ Installed) => FlagsTyped'
  BY DEF FlagsTyped, TimedOut, Declined, Installed, Launched, Abandon, ShownAgain, hand, feed
<1>4. FlagsTyped /\ (LeaveForUpdate \/ Saved \/ Left \/ RejoinVoice \/ Call) => FlagsTyped'
  BY DEF FlagsTyped, LeaveForUpdate, Saved, Left, RejoinVoice, Call, Hide, hand, feed
<1> QED
  BY <1>1, <1>2, <1>3, <1>4 DEF UpdateNext

LEMMA CallStaysTyped == CallTyped /\ UpdateNext => CallTyped'
<1>1. CallTyped /\ (Release \/ Check \/ Checked \/ CheckFails \/ Download \/ Downloaded \/ DownloadFails) => CallTyped'
  BY DEF CallTyped, Release, Check, Checked, CheckFails, Download, Downloaded, DownloadFails, FeedTrouble, callState
<1>2. CallTyped /\ (Install \/ Opened \/ OpenFails \/ WaitedEnough \/ Spawn \/ SpawnFails) => CallTyped'
  BY DEF CallTyped, Install, Opened, OpenFails, WaitedEnough, Spawn, SpawnFails, callState
<1>3. CallTyped /\ (TimedOut \/ Declined \/ Installed) => CallTyped'
  BY DEF CallTyped, TimedOut, Declined, Installed, Launched, callState
<1>4. CallTyped /\ (LeaveForUpdate \/ Saved \/ Left \/ RejoinVoice \/ Call) => CallTyped'
  BY DEF CallTyped, LeaveForUpdate, Saved, Left, RejoinVoice, Call
<1> QED
  BY <1>1, <1>2, <1>3, <1>4 DEF UpdateNext

\* What a step does to main's words: one more, one less, or nothing.
LEMMA MailMoves ==
  ASSUME UpdateNext
  PROVE  \/ fromMain' = fromMain
         \/ \E word \in Words : fromMain' = Append(fromMain, word)
         \/ fromMain # <<>> /\ fromMain' = Tail(fromMain)
         \/ fromMain' = <<>>
<1>1. Release \/ Check \/ Checked \/ CheckFails \/ Download \/ Downloaded \/ DownloadFails =>
        fromMain' = fromMain \/ \E word \in Words : fromMain' = Append(fromMain, word)
  BY DEF Words, Release, Check, Checked, CheckFails, Download, Downloaded, DownloadFails, FeedTrouble, Abandon
<1>2. Install \/ Opened \/ OpenFails \/ WaitedEnough \/ Spawn \/ SpawnFails =>
        fromMain' = fromMain \/ \E word \in Words : fromMain' = Append(fromMain, word)
  BY DEF Words, Install, Opened, OpenFails, WaitedEnough, Spawn, SpawnFails, Abandon
<1>3. TimedOut \/ Declined \/ Installed =>
        fromMain' = <<>> \/ fromMain' = fromMain \/ \E word \in Words : fromMain' = Append(fromMain, word)
  BY DEF Words, TimedOut, Declined, Installed, Launched, Abandon
<1>4. LeaveForUpdate \/ Saved \/ Left \/ RejoinVoice \/ Call =>
        fromMain' = fromMain \/ (fromMain # <<>> /\ fromMain' = Tail(fromMain))
  BY DEF LeaveForUpdate, Saved, Left, RejoinVoice, Call
<1> QED
  BY <1>1, <1>2, <1>3, <1>4 DEF UpdateNext

LEMMA BoundsStayTyped ==
  ASSUME UpdateTypeOK, UpdateNext
  PROVE  updateSpare' \in [{"checks", "installs", "calls"} -> Nat]
<1>1. updateSpare' = updateSpare \/ \E what \in {"checks", "installs", "calls"} : SpendUpdate(what)
  BY DEF UpdateNext, Release, Check, Checked, CheckFails, Download, Downloaded, DownloadFails, Install, Opened,
         OpenFails, WaitedEnough, Spawn, SpawnFails, TimedOut, Declined, Installed, LeaveForUpdate, Saved, Left,
         RejoinVoice, Call
<1> QED
  BY <1>1, SpendsUpdate DEF UpdateTypeOK

LEMMA UpdateTypes == UpdateTypeOK /\ UpdateNext => UpdateTypeOK'
<1> SUFFICES ASSUME UpdateTypeOK, UpdateNext PROVE UpdateTypeOK'
  OBVIOUS
<1>1. NumbersTyped /\ StagesTyped /\ FlagsTyped /\ CallTyped /\ fromMain \in Seq(Words)
  BY TypesSplit
<1>2. NumbersTyped' /\ StagesTyped' /\ FlagsTyped' /\ CallTyped'
  BY <1>1, NumbersStayTyped, StagesStayTyped, FlagsStayTyped, CallStaysTyped
<1>3. fromMain' \in Seq(Words)
  <2>1. ASSUME NEW word \in Words, fromMain' = Append(fromMain, word) PROVE fromMain' \in Seq(Words)
    BY <1>1, <2>1, MainSays
  <2>2. ASSUME fromMain # <<>>, fromMain' = Tail(fromMain) PROVE fromMain' \in Seq(Words)
    BY <1>1, <2>2, WindowListens
  <2>3. <<>> \in Seq(Words)
    OBVIOUS
  <2> QED
    BY <1>1, <2>1, <2>2, <2>3, MailMoves
<1>4. updateSpare' \in [{"checks", "installs", "calls"} -> Nat]
  BY BoundsStayTyped
<1>5. (NumbersTyped /\ StagesTyped /\ FlagsTyped /\ CallTyped /\ fromMain \in Seq(Words)
        /\ updateSpare \in [{"checks", "installs", "calls"} -> Nat])' => UpdateTypeOK'
  BY DEF UpdateTypeOK, NumbersTyped, StagesTyped, FlagsTyped, CallTyped, Words
<1> QED
  BY <1>2, <1>3, <1>4, <1>5

-----------------------------------------------------------------------------
(* What every step keeps, as long as nothing crosses a hand-over.           *)

LEMMA HandsOverStays ==
  ASSUME StagesTyped, FlagsTyped, CallTyped, HandsOver, UpdateNext, ~crossed'
  PROVE  HandsOver'
<1>1. CASE Release \/ Check \/ Checked \/ CheckFails \/ Download \/ Downloaded \/ DownloadFails
  BY <1>1 DEF HandsOver, Release, Check, Checked, CheckFails, Download, Downloaded, DownloadFails, FeedTrouble, hand
<1>2. CASE Install \/ Opened \/ OpenFails \/ WaitedEnough \/ Spawn \/ SpawnFails
  BY <1>2 DEF HandsOver, FlagsTyped, Install, Opened, OpenFails, WaitedEnough, Spawn, SpawnFails, Hide, Abandon,
     ShownAgain, Watched
<1>3. CASE TimedOut \/ Declined \/ Installed
  BY <1>3 DEF HandsOver, FlagsTyped, TimedOut, Declined, Installed, Launched, Abandon, ShownAgain
<1>4. CASE LeaveForUpdate \/ Saved \/ Left \/ RejoinVoice \/ Call
  BY <1>4 DEF HandsOver, LeaveForUpdate, Saved, Left, RejoinVoice, Call, Hide, hand
<1> QED
  BY <1>1, <1>2, <1>3, <1>4 DEF UpdateNext

LEMMA OffersStay ==
  ASSUME StagesTyped, FlagsTyped, CallTyped, HandsOver, OffersWhatIsThere, UpdateNext, ~crossed'
  PROVE  OffersWhatIsThere'
<1>1. CASE Release \/ Check \/ Checked \/ CheckFails \/ Download \/ Downloaded \/ DownloadFails
  BY <1>1 DEF OffersWhatIsThere, Release, Check, Checked, CheckFails, Download, Downloaded, DownloadFails,
     FeedTrouble, hand, offer, FlagsTyped, CallTyped
<1>2. CASE Install \/ Opened \/ OpenFails \/ WaitedEnough \/ Spawn \/ SpawnFails
  BY <1>2 DEF HandsOver, OffersWhatIsThere, Install, Opened, OpenFails, WaitedEnough, Spawn, SpawnFails, Abandon,
     feed, offer
<1>3. CASE TimedOut \/ Declined \/ Installed
  BY <1>3 DEF HandsOver, OffersWhatIsThere, TimedOut, Declined, Installed, Launched, Abandon, feed, offer
<1>4. CASE LeaveForUpdate \/ Saved \/ Left \/ RejoinVoice \/ Call
  BY <1>4 DEF OffersWhatIsThere, LeaveForUpdate, Saved, Left, RejoinVoice, Call, feed, offer, hand
<1> QED
  BY <1>1, <1>2, <1>3, <1>4 DEF UpdateNext

\* No request to leave is on its way, and nobody is leaving.
NobodyLeaves == leaving = "no" /\ \A i \in DOMAIN fromMain : fromMain[i] # "leave-voice"

LEMMA NobodyLeavesElsewhere ==
  ASSUME LeavesOnRequest, handing # "leaving"
  PROVE  NobodyLeaves
BY DEF LeavesOnRequest, NobodyLeaves

\* Nor does main's next word start it, unless it is that request.
LEMMA NobodyLeavesYet ==
  ASSUME fromMain \in Seq(Words), NobodyLeaves, leaving' = "no",
         fromMain' = fromMain \/ fromMain' = Append(fromMain, "rejoin-voice")
  PROVE  LeavesOnRequest'
<1>1. \A i \in DOMAIN fromMain' : fromMain'[i] # "leave-voice"
  <2>1. CASE fromMain' = fromMain
    BY <2>1 DEF NobodyLeaves
  <2>2. CASE fromMain' = Append(fromMain, "rejoin-voice")
    <3>1. /\ \A i \in DOMAIN fromMain' : i = Len(fromMain') \/ (i \in DOMAIN fromMain /\ fromMain'[i] = fromMain[i])
          /\ fromMain'[Len(fromMain')] = "rejoin-voice"
      BY <2>2, MainSays DEF Words
    <3> QED
      BY <3>1 DEF NobodyLeaves
  <2> QED
    BY <2>1, <2>2
<1> QED
  BY <1>1 DEF LeavesOnRequest

LEMMA RequestsStay ==
  ASSUME UpdateTypeOK, HandsOver, LeavesOnRequest, UpdateNext, ~crossed'
  PROVE  LeavesOnRequest'
<1>t. StagesTyped /\ FlagsTyped /\ CallTyped /\ fromMain \in Seq(Words)
  BY TypesSplit
<1>1. CASE Release \/ Check \/ Checked \/ CheckFails \/ Download \/ Downloaded \/ DownloadFails
  <2>1. UNCHANGED <<handing, leaving, leftFor, fromMain>>
    BY <1>1 DEF Release, Check, Checked, CheckFails, Download, Downloaded, DownloadFails, FeedTrouble, hand, callState
  <2> QED
    BY <2>1 DEF LeavesOnRequest
<1>2. CASE Install \/ OpenFails \/ Spawn \/ SpawnFails \/ TimedOut
  <2>1. /\ handing # "leaving" /\ UNCHANGED leaving
        /\ fromMain' = fromMain \/ fromMain' = Append(fromMain, "rejoin-voice")
    BY <1>2 DEF HandsOver, Install, OpenFails, Spawn, SpawnFails, TimedOut, Abandon, callState
  <2>2. NobodyLeaves
    BY <2>1, NobodyLeavesElsewhere
  <2>3. leaving' = "no"
    BY <2>1, <2>2 DEF NobodyLeaves
  <2> QED
    BY <1>t, <2>1, <2>2, <2>3, NobodyLeavesYet
<1>3. CASE Opened
  <2>1. handing = "opening" /\ UNCHANGED leaving
    BY <1>3 DEF Opened, callState
  <2>2. NobodyLeaves
    BY <2>1, NobodyLeavesElsewhere
  <2>3. CASE calling
    <3>1. handing' = "leaving" /\ fromMain' = Append(fromMain, "leave-voice") /\ leaving' = "no"
      BY <1>3, <2>1, <2>2, <2>3 DEF Opened, NobodyLeaves
    <3>2. \A i \in DOMAIN fromMain' : i = Len(fromMain') \/ (i \in DOMAIN fromMain /\ fromMain'[i] = fromMain[i])
      BY <1>t, <3>1, MainSays DEF Words
    <3> QED
      BY <3>1, <3>2, <2>2 DEF LeavesOnRequest, NobodyLeaves
  <2>4. CASE ~calling
    <3>1. fromMain' = fromMain /\ leaving' = "no"
      BY <1>3, <2>1, <2>2, <2>4 DEF Opened, NobodyLeaves
    <3> QED
      BY <1>t, <2>2, <3>1, NobodyLeavesYet
  <2> QED
    BY <2>3, <2>4
<1>4. CASE WaitedEnough
  BY <1>4 DEF WaitedEnough
<1>5. CASE Declined
  BY <1>5 DEF Declined, LeavesOnRequest, callState
<1>6. CASE Installed
  <2>1. leaving' = "no" /\ fromMain' = <<>>
    BY <1>6 DEF Installed, Launched
  <2> QED
    BY <2>1 DEF LeavesOnRequest
<1>7. CASE LeaveForUpdate
  <2>1. /\ fromMain # <<>> /\ Head(fromMain) = "leave-voice" /\ fromMain' = Tail(fromMain)
        /\ leftFor' = calling
        /\ calling => UNCHANGED handing
        /\ ~calling => UNCHANGED leaving
    BY <1>7 DEF LeaveForUpdate
  <2>2. fromMain[1] = "leave-voice" /\ 1 \in DOMAIN fromMain /\ (Len(fromMain) = 1 => fromMain' = <<>>)
    BY <1>t, <2>1, WindowListens
  <2>3. handing = "leaving" /\ fromMain' = <<>> /\ leaving = "no"
    BY <2>1, <2>2 DEF LeavesOnRequest
  <2> QED
    BY <2>1, <2>3, <1>t DEF LeavesOnRequest, CallTyped
<1>8. CASE Saved
  BY <1>8 DEF Saved, LeavesOnRequest, hand
<1>9. CASE Left
  <2>1. leaving' = "no" /\ fromMain = <<>> /\ fromMain' = fromMain
    BY <1>9 DEF Left, LeavesOnRequest
  <2> QED
    BY <2>1 DEF LeavesOnRequest
<1>10. CASE RejoinVoice
  <2>1. fromMain # <<>> /\ fromMain' = Tail(fromMain) /\ UNCHANGED <<handing, leaving>>
    BY <1>10 DEF RejoinVoice, hand
  <2>2. /\ Len(fromMain) \in Nat /\ Len(fromMain') = Len(fromMain) - 1
        /\ \A i \in DOMAIN fromMain' : i \in Nat /\ i + 1 \in DOMAIN fromMain /\ fromMain'[i] = fromMain[i + 1]
    BY <1>t, <2>1, WindowListens
  <2>3. leaving' = "no"
    BY <2>1 DEF LeavesOnRequest
  <2>4. ASSUME NEW i \in DOMAIN fromMain', fromMain'[i] = "leave-voice"
        PROVE  handing' = "leaving" /\ i = Len(fromMain')
    <3>1. i \in Nat /\ handing = "leaving" /\ i + 1 = Len(fromMain)
      BY <2>2, <2>4 DEF LeavesOnRequest
    <3> QED
      BY <3>1, <2>1, <2>2
  <2> QED
    BY <2>3, <2>4 DEF LeavesOnRequest
<1>11. CASE Call
  <2>1. leaving = "no" /\ UNCHANGED <<handing, leaving, fromMain>>
    BY <1>11 DEF Call, hand
  <2> QED
    BY <2>1 DEF LeavesOnRequest
<1> QED
  BY <1>1, <1>2, <1>3, <1>4, <1>5, <1>6, <1>7, <1>8, <1>9, <1>10, <1>11 DEF UpdateNext

LEMMA DebtsStayPaid ==
  ASSUME UpdateTypeOK, HandsOver, LeavesOnRequest, DebtsArePaid, UpdateNext, ~crossed'
  PROVE  DebtsArePaid'
<1>t. StagesTyped /\ FlagsTyped /\ CallTyped /\ fromMain \in Seq(Words)
  BY TypesSplit
<1>1. CASE Release \/ Check \/ Checked \/ CheckFails \/ Download \/ Downloaded \/ DownloadFails
  <2>1. UNCHANGED <<handing, installing, owed, rejoin, leftFor, fromMain>>
    BY <1>1 DEF Release, Check, Checked, CheckFails, Download, Downloaded, DownloadFails, FeedTrouble, hand, callState,
       FlagsTyped, CallTyped
  <2> QED
    BY <2>1 DEF DebtsArePaid, Waits
<1>2. CASE Install
  <2>1. ~installing /\ UNCHANGED <<owed, rejoin, leftFor, fromMain>>
    BY <1>2 DEF Install, callState
  <2> QED
    BY <2>1 DEF DebtsArePaid, Waits
<1>3. CASE Opened
  <2>1. /\ handing = "opening" /\ UNCHANGED <<owed, rejoin, leftFor>>
        /\ fromMain' = fromMain \/ fromMain' = Append(fromMain, "leave-voice")
    BY <1>3 DEF Opened, callState
  <2>2. Waits("rejoin-voice") => Waits("rejoin-voice")'
    <3>1. CASE fromMain' = fromMain
      BY <3>1 DEF Waits
    <3>2. CASE fromMain' = Append(fromMain, "leave-voice")
      BY <1>t, <3>2, MainSays DEF Words
    <3> QED
      BY <2>1, <3>1, <3>2
  <2> QED
    BY <2>1, <2>2 DEF DebtsArePaid
<1>4. CASE OpenFails \/ SpawnFails \/ TimedOut
  <2>1. fromMain' = Append(fromMain, "rejoin-voice") /\ UNCHANGED <<owed, leftFor>>
    BY <1>4 DEF HandsOver, OpenFails, SpawnFails, TimedOut, Abandon, callState
  <2>2. Waits("rejoin-voice")'
    BY <1>t, <2>1, MainSays DEF Words
  <2> QED
    BY <2>1, <2>2 DEF DebtsArePaid
<1>5. CASE WaitedEnough
  BY <1>5 DEF WaitedEnough
<1>6. CASE Spawn \/ Declined
  <2>1. /\ UNCHANGED <<installing, owed, rejoin, leftFor, fromMain>>
        /\ handing' = "no" \/ handing' = handing
    BY <1>6 DEF Spawn, Declined, callState
  <2> QED
    BY <2>1 DEF DebtsArePaid, Waits
<1>7. CASE Installed
  BY <1>7 DEF Installed, DebtsArePaid
<1>8. CASE LeaveForUpdate
  <2>1. fromMain # <<>> /\ Head(fromMain) = "leave-voice" /\ UNCHANGED <<owed, rejoin>>
    BY <1>8 DEF LeaveForUpdate
  <2>2. /\ fromMain[1] = "leave-voice" /\ 1 \in DOMAIN fromMain
        /\ DOMAIN fromMain = 1..Len(fromMain)
    BY <1>t, <2>1, WindowListens, LenProperties
  <2>3. Len(fromMain) = 1
    BY <2>2 DEF LeavesOnRequest
  <2>4. ~Waits("rejoin-voice")
    BY <2>2, <2>3 DEF Waits
  <2> QED
    BY <2>1, <2>4 DEF DebtsArePaid
<1>9. CASE Saved
  <2>1. leaving # "no" /\ UNCHANGED <<installing, handing, owed, leftFor, fromMain>>
    BY <1>9 DEF Saved, hand
  <2> QED
    BY <2>1 DEF DebtsArePaid, LeavesOnRequest, HandsOver
<1>10. CASE Left
  <2>1. leaving # "no" /\ UNCHANGED <<installing, leftFor, fromMain>> /\ (handing = "leaving" => handing' = "pausing")
    BY <1>10 DEF Left, Hide
  <2> QED
    BY <2>1 DEF DebtsArePaid, LeavesOnRequest, HandsOver
<1>11. CASE RejoinVoice
  BY <1>11 DEF RejoinVoice, DebtsArePaid
<1>12. CASE Call
  <2>1. ~owed' /\ UNCHANGED <<installing, handing, rejoin, leftFor, fromMain>>
    BY <1>12 DEF Call, hand
  <2> QED
    BY <2>1 DEF DebtsArePaid, Waits
<1> QED
  BY <1>1, <1>2, <1>3, <1>4, <1>5, <1>6, <1>7, <1>8, <1>9, <1>10, <1>11, <1>12 DEF UpdateNext

\* What has crossed once has crossed.
LEMMA CrossedForGood == CallTyped /\ UpdateNext /\ crossed => crossed'
BY DEF CallTyped, UpdateNext, Release, Check, Checked, CheckFails, Download, Downloaded, DownloadFails, FeedTrouble,
   Install, Opened, OpenFails, WaitedEnough, Spawn, SpawnFails, TimedOut, Declined, Installed, LeaveForUpdate, Saved,
   Left, RejoinVoice, Call

LEMMA UpdateStarts == UpdateInit => UpdateInv
<1> SUFFICES ASSUME UpdateInit PROVE UpdateInv
  OBVIOUS
<1>1. updateSpare \in [{"checks", "installs", "calls"} -> Nat]
  BY UpdaterAssumption DEF UpdateInit
<1>2. fromMain \in Seq(Words)
  BY DEF UpdateInit
<1>3. NumbersTyped /\ StagesTyped /\ FlagsTyped /\ CallTyped
  <2>1. 0 \in 0..MaxVersion
    BY UpdaterAssumption
  <2>2. NumbersTyped
    BY <2>1 DEF UpdateInit, NumbersTyped, Nothing
  <2>3. StagesTyped
    BY DEF UpdateInit, StagesTyped
  <2>4. FlagsTyped /\ CallTyped
    BY DEF UpdateInit, FlagsTyped, CallTyped
  <2> QED
    BY <2>2, <2>3, <2>4
<1>4. HandsOver /\ OffersWhatIsThere /\ LeavesOnRequest /\ DebtsArePaid
  BY DEF UpdateInit, HandsOver, OffersWhatIsThere, LeavesOnRequest, DebtsArePaid
<1> QED
  BY <1>1, <1>2, <1>3, <1>4, TypesSplit DEF UpdateInv, Uncrossed, Words

LEMMA UpdateGoesOn == UpdateInv /\ [UpdateNext]_updateVars => UpdateInv'
<1> SUFFICES ASSUME UpdateInv, [UpdateNext]_updateVars PROVE UpdateInv'
  OBVIOUS
<1>1. CASE UpdateNext
  <2>1. UpdateTypeOK'
    BY <1>1, UpdateTypes DEF UpdateInv
  <2>2. StagesTyped /\ FlagsTyped /\ CallTyped
    BY TypesSplit DEF UpdateInv
  <2>3. CASE ~crossed'
    <3>1. Uncrossed
      BY <1>1, <2>2, <2>3, CrossedForGood DEF UpdateInv
    <3> QED
      BY <1>1, <2>1, <2>2, <2>3, <3>1, HandsOverStays, OffersStay, RequestsStay, DebtsStayPaid DEF UpdateInv, Uncrossed
  <2> QED
    BY <2>1, <2>3 DEF UpdateInv
<1>2. CASE UNCHANGED updateVars
  BY <1>2 DEF UpdateInv, UpdateTypeOK, Uncrossed, HandsOver, OffersWhatIsThere, LeavesOnRequest, DebtsArePaid, Waits,
     updateVars, feed, offer, hand, callState
<1> QED
  BY <1>1, <1>2

\* An install that did not happen leaves nothing behind: the window is on the
\* screen, whoever was in a call is back in it, and what is offered is what was
\* downloaded, whichever of the steps of the hand-over failed, and however the
\* person joined and left calls meanwhile (abandon, handOverToInstaller and the
\* window's two listeners).
THEOREM UpdatesPutEverythingBack == UpdateSpec => []EverythingIsPutBack
<1>1. UpdateInv => EverythingIsPutBack
  <2> SUFFICES ASSUME UpdateInv PROVE EverythingIsPutBack
    OBVIOUS
  <2>1. ASSUME Rest, ~crossed
        PROVE  ~installing /\ visible /\ ~owed /\ ~rejoin /\ (stage = "ready" => version = downloaded)
    <3>1. ~installing /\ visible
      BY <2>1 DEF UpdateInv, Uncrossed, HandsOver, Rest
    <3>2. ~Waits("rejoin-voice")
      BY <2>1 DEF Waits, Rest
    <3> QED
      BY <2>1, <3>1, <3>2 DEF UpdateInv, Uncrossed, DebtsArePaid, OffersWhatIsThere
  <2> QED
    BY <2>1 DEF UpdateInv, EverythingIsPutBack, AllIsPutBack
<1> QED
  BY <1>1, UpdateStarts, UpdateGoesOn, PTL DEF UpdateSpec
=============================================================================
