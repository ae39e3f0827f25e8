-------------------------- MODULE WatchPartyProofs --------------------------
(***************************************************************************)
(* Proofs about the watch parties of the server, for any numbers of people, *)
(* windows, servers and requests: first what a party is, then the rooms,    *)
(* windows and requests around the parties.                                 *)
(***************************************************************************)
EXTENDS WatchParty, TLAPS, SequenceTheorems, FiniteSetTheorems

LEMMA SeqElement ==
  ASSUME NEW S, NEW s \in Seq(S), NEW i \in DOMAIN s
  PROVE  s[i] \in S /\ DOMAIN s = 1..Len(s) /\ Len(s) \in Nat /\ i \in 1..Len(s)
BY LenProperties, ElementOfSeq

LEMMA RemoveAtLemma ==
  ASSUME NEW S, NEW s \in Seq(S), NEW i \in 1..Len(s)
  PROVE  /\ RemoveAt(s, i) \in Seq(S)
         /\ Len(RemoveAt(s, i)) = Len(s) - 1
         /\ \A k \in 1..Len(s)-1 :
              RemoveAt(s, i)[k] = IF k < i THEN s[k] ELSE s[k+1]
<1> DEFINE front == SubSeq(s, 1, i-1)
           back == SubSeq(s, i+1, Len(s))
<1>0. Len(s) \in Nat
  BY LenProperties
<1>1. front \in Seq(S) /\ Len(front) = i-1 /\ \A k \in 1..i-1 : front[k] = s[k]
  BY <1>0, SubSeqProperties, \A k \in 1..i-1 : 1 + k - 1 = k
<1>2. /\ back \in Seq(S)
      /\ Len(back) = Len(s) - i
      /\ \A k \in 1..(Len(s)-i) : back[k] = s[i+k]
  BY <1>0, SubSeqProperties
<1>3. RemoveAt(s, i) = front \o back
  BY DEF RemoveAt
<1> HIDE DEF front, back
<1>4. /\ front \o back \in Seq(S)
      /\ Len(front \o back) = Len(s) - 1
      /\ \A k \in 1..Len(front)+Len(back) :
           (front \o back)[k] = IF k <= Len(front) THEN front[k] ELSE back[k - Len(front)]
  <2>1. /\ front \o back \in Seq(S)
        /\ Len(front \o back) = Len(front) + Len(back)
        /\ \A k \in 1..Len(front)+Len(back) :
             (front \o back)[k] = IF k <= Len(front) THEN front[k] ELSE back[k - Len(front)]
    BY <1>1, <1>2, ConcatProperties
  <2> QED
    BY <1>0, <1>1, <1>2, <2>1
<1>5. ASSUME NEW k \in 1..Len(s)-1
      PROVE  (front \o back)[k] = IF k < i THEN s[k] ELSE s[k+1]
  <2>0. k \in Nat /\ i \in Nat /\ (k < i \/ k >= i)
    BY <1>0, <1>5
  <2>1. CASE k < i
    BY <1>0, <1>1, <1>2, <1>4, <2>1
  <2>2. CASE k >= i
    <3> DEFINE j == k - (i-1)
    <3>1. (front \o back)[k] = back[j]
      BY <1>0, <1>1, <1>2, <1>4, <2>2
    <3>2. j \in 1..(Len(s)-i) /\ i + j = k + 1
      BY <1>0, <2>2
    <3>3. ~(k < i)
      BY <2>0, <2>2
    <3> HIDE DEF j
    <3>4. back[j] = s[k+1]
      BY <1>2, <3>2
    <3> QED
      BY <3>1, <3>3, <3>4
  <2> QED
    BY <2>0, <2>1, <2>2
<1> QED
  BY <1>3, <1>4, <1>5

LEMMA WithoutLemma ==
  ASSUME NEW S, NEW s \in Seq(S), IsInjective(s), NEW u \in Range(s)
  PROVE  /\ Without(s, u) \in Seq(S)
         /\ Len(Without(s, u)) = Len(s) - 1
         /\ IsInjective(Without(s, u))
         /\ Range(Without(s, u)) = Range(s) \ {u}
         /\ s[1] # u => Without(s, u) # <<>> /\ Without(s, u)[1] = s[1]
<1>0. Len(s) \in Nat /\ DOMAIN s = 1..Len(s)
  BY LenProperties
<1>1. PICK i \in 1..Len(s) : s[i] = u /\ Without(s, u) = RemoveAt(s, i)
  <2>1. \E j \in DOMAIN s : s[j] = u
    BY DEF Range
  <2> QED
    BY <1>0, <2>1 DEF Without
<1> DEFINE w == RemoveAt(s, i)
<1>2. /\ w \in Seq(S)
      /\ Len(w) = Len(s) - 1
      /\ DOMAIN w = 1..Len(s)-1
      /\ \A k \in 1..Len(s)-1 : w[k] = IF k < i THEN s[k] ELSE s[k+1]
  BY RemoveAtLemma, LenProperties
<1> HIDE DEF w
<1>3. IsInjective(w)
  BY <1>0, <1>2 DEF IsInjective
<1>4. Range(w) = Range(s) \ {u}
  <2>1. ASSUME NEW x \in Range(w) PROVE x \in Range(s) \ {u}
    <3>1. PICK k \in 1..Len(s)-1 : x = w[k]
      BY <1>2 DEF Range
    <3> QED
      BY <1>0, <1>1, <1>2, <3>1 DEF Range, IsInjective
  <2>2. ASSUME NEW x \in Range(s) \ {u} PROVE x \in Range(w)
    <3>1. PICK k \in 1..Len(s) : x = s[k]
      BY <1>0 DEF Range
    <3>2. CASE k < i
      BY <1>0, <1>1, <1>2, <3>1, <3>2 DEF Range
    <3>3. CASE k > i
      <4>1. k-1 \in 1..Len(s)-1 /\ w[k-1] = s[k]
        BY <1>0, <1>2, <3>3
      <4> QED
        BY <1>2, <3>1, <4>1 DEF Range
    <3> QED
      BY <1>1, <3>1, <3>2, <3>3
  <2> QED
    BY <2>1, <2>2
<1>5. s[1] # u => w # <<>> /\ w[1] = s[1]
  BY <1>0, <1>1, <1>2
<1> QED
  BY <1>1, <1>2, <1>3, <1>4, <1>5 DEF w

-----------------------------------------------------------------------------
(* What each operation of the service makes of a sound party.               *)

\* A party that is sound at time t, when item ids below n have been used.
SoundAt(p, t, n) == p \in Party /\ RemoteSound(p) /\ PlaybackSoundAt(p, t, n)

LEMMA OwnIdsLater ==
  ASSUME NEW q \in Seq(Items), NEW n \in Nat, NEW n2 \in Nat, n <= n2, OwnIds(q, n)
  PROVE  OwnIds(q, n2)
<1>1. ASSUME NEW i \in 1..Len(q) PROVE q[i].id \in Nat
  <2>1. q[i] \in Items
    BY ElementOfSeq
  <2> QED
    BY <2>1 DEF Items
<1> QED
  BY <1>1 DEF OwnIds

LEMMA SoundLater ==
  ASSUME NEW t \in Nat, NEW n \in Nat, NEW t2 \in Nat, NEW n2 \in Nat,
         t <= t2, n <= n2, NEW p, SoundAt(p, t, n)
  PROVE  SoundAt(p, t2, n2)
<1>1. p.queue \in Seq(Items) /\ p.positionAt \in Nat /\ p.positionAt <= t
  BY DEF SoundAt, Party, PlaybackSoundAt
<1>2. OwnIds(p.queue, n2)
  BY <1>1, OwnIdsLater DEF SoundAt, PlaybackSoundAt
<1>3. p.positionAt <= t2
  BY <1>1
<1> QED
  BY <1>2, <1>3 DEF SoundAt, PlaybackSoundAt

LEMMA NewPartySound ==
  ASSUME NEW n \in Nat, NEW pid \in Nat, NEW u \in Users, clock \in Nat
  PROVE  SoundAt(NewParty(pid, u), clock, n)
BY ConstantsAssumption DEF SoundAt, NewParty, Party, RemoteSound, IsInjective, PlaybackSoundAt, OwnIds

LEMMA JoinedSound ==
  ASSUME NEW n \in Nat, NEW t \in Nat, NEW u \in Users, NEW p, SoundAt(p, t, n)
  PROVE  SoundAt(Joined(p, u), t, n)
<1>1. CASE u \in Range(p.watchers)
  BY <1>1 DEF Joined
<1>2. CASE u \notin Range(p.watchers)
  <2> DEFINE w == Append(p.watchers, u)
  <2>0. p.watchers \in Seq(Users) /\ p.watchers # <<>> /\ IsInjective(p.watchers)
    BY DEF SoundAt, Party, RemoteSound
  <2>1. /\ w \in Seq(Users) /\ w # <<>>
        /\ Len(w) = Len(p.watchers) + 1
        /\ DOMAIN w = 1..Len(p.watchers)+1
        /\ \A i \in 1..Len(p.watchers) : w[i] = p.watchers[i]
        /\ w[Len(p.watchers)+1] = u
    BY <2>0, AppendProperties, LenProperties
  <2>2. IsInjective(w)
    BY <1>2, <2>0, <2>1, LenProperties DEF IsInjective, Range
  <2>3. Head(w) = Head(p.watchers)
    BY <2>0, <2>1, HeadTailAppend
  <2>4. Joined(p, u) = [p EXCEPT !.watchers = w]
    BY <1>2 DEF Joined
  <2> HIDE DEF w
  <2>5. /\ Joined(p, u) \in Party
        /\ Joined(p, u).watchers = w /\ Joined(p, u).host = p.host
        /\ Joined(p, u).queue = p.queue /\ Joined(p, u).playing = p.playing
        /\ Joined(p, u).position = p.position /\ Joined(p, u).positionAt = p.positionAt
    BY <2>1, <2>4 DEF SoundAt, Party
  <2>6. RemoteSound(Joined(p, u))
    BY <2>1, <2>2, <2>3, <2>5 DEF SoundAt, RemoteSound
  <2> QED
    BY <2>5, <2>6 DEF SoundAt, PlaybackSoundAt
<1> QED
  BY <1>1, <1>2

LEMMA LeftSound ==
  ASSUME NEW n \in Nat, NEW t \in Nat, NEW p, SoundAt(p, t, n),
         NEW u \in Range(p.watchers)
  PROVE  /\ Left(p, u) = NoParty \/ SoundAt(Left(p, u), t, n)
         /\ Left(p, u) = NoParty => Range(p.watchers) = {u}
         /\ Left(p, u) # NoParty => /\ Left(p, u).id = p.id
                                    /\ Range(Left(p, u).watchers) = Range(p.watchers) \ {u}
<1> DEFINE rest == Without(p.watchers, u)
<1>1. /\ p.watchers \in Seq(Users) /\ p.watchers # <<>>
      /\ IsInjective(p.watchers) /\ p.host = Head(p.watchers)
  BY DEF SoundAt, Party, RemoteSound
<1>2. /\ rest \in Seq(Users) /\ IsInjective(rest)
      /\ Range(rest) = Range(p.watchers) \ {u}
      /\ p.watchers[1] # u => rest # <<>> /\ rest[1] = p.watchers[1]
  BY <1>1, WithoutLemma
<1> HIDE DEF rest
<1>3. Head(p.watchers) = p.watchers[1] /\ (rest # <<>> => Head(rest) = rest[1] /\ rest[1] \in Users)
  BY <1>1, <1>2, HeadTailProperties
<1>4. CASE rest = <<>>
  <2>1. Left(p, u) = NoParty
    BY <1>4 DEF Left, rest
  <2>2. Range(rest) = {}
    BY <1>4 DEF Range
  <2> QED
    BY <1>2, <2>1, <2>2
<1>5. CASE rest # <<>>
  <2>1. Left(p, u) = [p EXCEPT !.watchers = rest,
                               !.host = IF @ = u THEN Head(rest) ELSE @]
    BY <1>5 DEF Left, rest
  <2>2. /\ Left(p, u) \in Party
        /\ Left(p, u).watchers = rest
        /\ Left(p, u).host = Head(rest)
    BY <1>1, <1>2, <1>3, <1>5, <2>1 DEF SoundAt, Party
  <2>3. /\ Left(p, u).id = p.id /\ Left(p, u).queue = p.queue
        /\ Left(p, u).playing = p.playing /\ Left(p, u).position = p.position
        /\ Left(p, u).positionAt = p.positionAt
    BY <2>1 DEF SoundAt, Party
  <2>4. Left(p, u) # NoParty
    BY <2>2, ConstantsAssumption
  <2> QED
    BY <1>2, <1>5, <2>2, <2>3, <2>4 DEF SoundAt, RemoteSound, PlaybackSoundAt
<1> QED
  BY <1>4, <1>5

LEMMA RewindSound ==
  ASSUME NEW n \in Nat, NEW p \in Party, clock \in Nat, RemoteSound(p),
         Len(p.queue) <= MaxQueue, OwnIds(p.queue, n)
  PROVE  /\ SoundAt(Rewind(p), clock, n)
         /\ Rewind(p).id = p.id /\ Rewind(p).watchers = p.watchers
         /\ Rewind(p).queue = p.queue /\ Rewind(p).host = p.host
<1>1. /\ Rewind(p) \in Party
      /\ Rewind(p).id = p.id /\ Rewind(p).watchers = p.watchers
      /\ Rewind(p).host = p.host /\ Rewind(p).queue = p.queue
      /\ Rewind(p).position = 0 /\ Rewind(p).positionAt = clock
  <2>0. PICK z \in Int : z = 0
    OBVIOUS
  <2>1. CASE p.queue = <<>>
    <3>1. Rewind(p) = [p EXCEPT !.position = z, !.positionAt = clock, !.playing = FALSE]
      BY <2>0, <2>1 DEF Rewind
    <3> QED
      BY <2>0, <3>1 DEF Party
  <2>2. CASE p.queue # <<>>
    <3>1. Rewind(p) = [p EXCEPT !.position = z, !.positionAt = clock]
      BY <2>0, <2>2 DEF Rewind, Party
    <3> QED
      BY <2>0, <3>1 DEF Party
  <2> QED
    BY <2>1, <2>2
<1>2. Rewind(p).playing => p.queue # <<>>
  BY DEF Rewind, Party
<1>3. RemoteSound(Rewind(p))
  BY <1>1 DEF RemoteSound
<1> QED
  BY <1>1, <1>2, <1>3 DEF SoundAt, PlaybackSoundAt

\* Taking one video out of a queue.
LEMMA ShorterQueue ==
  ASSUME NEW n \in Nat, NEW q \in Seq(Items), NEW i \in 1..Len(q), OwnIds(q, n)
  PROVE  /\ RemoveAt(q, i) \in Seq(Items)
         /\ Len(RemoveAt(q, i)) = Len(q) - 1
         /\ OwnIds(RemoveAt(q, i), n)
         /\ RemoveAt(q, i) = <<>> => i = 1
<1> DEFINE r == RemoveAt(q, i)
<1>1. Len(q) \in Nat
  BY LenProperties
<1>2. /\ r \in Seq(Items) /\ Len(r) = Len(q) - 1
      /\ \A k \in 1..Len(q)-1 : r[k] = IF k < i THEN q[k] ELSE q[k+1]
  BY RemoveAtLemma
<1> HIDE DEF r
<1>3. ASSUME NEW k \in 1..Len(r) PROVE r[k].id < n
  BY <1>1, <1>2, <1>3 DEF OwnIds
<1>4. ASSUME NEW k \in 1..Len(r), NEW l \in 1..Len(r), r[k].id = r[l].id PROVE k = l
  BY <1>1, <1>2, <1>4 DEF OwnIds
<1>5. ASSUME r = <<>> PROVE i = 1
  <2>1. Len(r) = 0
    BY <1>5
  <2>2. Len(q) = 1
    BY <1>1, <1>2, <2>1
  <2> QED
    BY <2>2
<1> QED
  BY <1>2, <1>3, <1>4, <1>5 DEF r, OwnIds

LEMMA UnqueuedSound ==
  ASSUME NEW n \in Nat, NEW p, clock \in Nat, SoundAt(p, clock, n), NEW i \in 1..Len(p.queue)
  PROVE  /\ SoundAt(Unqueued(p, i), clock, n)
         /\ Unqueued(p, i).id = p.id /\ Unqueued(p, i).watchers = p.watchers
         /\ Unqueued(p, i).host = p.host
<1> DEFINE q == RemoveAt(p.queue, i)
           short == [p EXCEPT !.queue = q]
<1>0. p.queue \in Seq(Items) /\ OwnIds(p.queue, n) /\ Len(p.queue) <= MaxQueue
  BY DEF SoundAt, PlaybackSoundAt, Party
<1>1. /\ q \in Seq(Items) /\ Len(q) <= MaxQueue /\ OwnIds(q, n)
      /\ q = <<>> => i = 1
  <2>1. Len(q) = Len(p.queue) - 1 /\ Len(p.queue) \in Nat
    BY <1>0, ShorterQueue, LenProperties
  <2> QED
    BY <1>0, <2>1, ShorterQueue, ConstantsAssumption
<1>2. Unqueued(p, i) = IF i = 1 THEN Rewind(short) ELSE short
  BY DEF Unqueued
<1> HIDE DEF q
<1>3. /\ short \in Party /\ short.queue = q
      /\ short.id = p.id /\ short.watchers = p.watchers /\ short.host = p.host
      /\ short.playing = p.playing /\ short.position = p.position
      /\ short.positionAt = p.positionAt
  BY <1>1 DEF SoundAt, Party
<1>4. RemoteSound(short)
  BY <1>3 DEF SoundAt, RemoteSound
<1> HIDE DEF short
<1>5. CASE i = 1
  <2>1. /\ SoundAt(Rewind(short), clock, n)
        /\ Rewind(short).id = short.id /\ Rewind(short).watchers = short.watchers
        /\ Rewind(short).host = short.host
    BY <1>1, <1>3, <1>4, RewindSound
  <2> QED
    BY <1>2, <1>3, <1>5, <2>1
<1>6. CASE i # 1
  <2>1. SoundAt(short, clock, n)
    BY <1>1, <1>3, <1>4, <1>6 DEF SoundAt, PlaybackSoundAt
  <2> QED
    BY <1>2, <1>3, <1>6, <2>1
<1> QED
  BY <1>5, <1>6

LEMMA QueuedSound ==
  ASSUME NEW n \in Nat, NEW p, clock \in Nat, SoundAt(p, clock, n),
         NEW item \in Items, item.id = n
  PROVE  /\ SoundAt(Queued(p, item), clock, n+1)
         /\ Queued(p, item).id = p.id /\ Queued(p, item).watchers = p.watchers
         /\ Queued(p, item).host = p.host
<1> DEFINE q == Append(p.queue, item)
           long == [p EXCEPT !.queue = q]
<1>0. p.queue \in Seq(Items) /\ OwnIds(p.queue, n) /\ Len(p.queue) <= MaxQueue
  BY DEF SoundAt, PlaybackSoundAt, Party
<1>1. SoundAt(p, clock, n+1)
  BY SoundLater
<1>2. CASE Len(p.queue) >= MaxQueue
  BY <1>1, <1>2 DEF Queued
<1>3. CASE ~(Len(p.queue) >= MaxQueue)
  <2>1. /\ q \in Seq(Items) /\ q # <<>> /\ Len(q) = Len(p.queue) + 1
        /\ \A i \in 1..Len(p.queue) : q[i] = p.queue[i]
        /\ q[Len(p.queue)+1] = item
        /\ Len(p.queue) \in Nat
    BY <1>0, AppendProperties, LenProperties
  <2>2. OwnIds(q, n+1)
    <3>1. ASSUME NEW i \in 1..Len(p.queue) PROVE p.queue[i].id \in Nat /\ p.queue[i].id < n
      <4>1. p.queue[i] \in Items
        BY <1>0, ElementOfSeq
      <4> QED
        BY <1>0, <4>1 DEF Items, OwnIds
    <3>2. \A i \in 1..Len(q) : i = Len(p.queue) + 1 \/ i \in 1..Len(p.queue)
      BY <2>1
    <3> HIDE DEF q
    <3>3. ASSUME NEW i \in 1..Len(q) PROVE q[i].id < n+1
      <4>1. CASE i \in 1..Len(p.queue)
        BY <2>1, <3>1, <4>1
      <4>2. CASE i = Len(p.queue) + 1
        BY <2>1, <4>2
      <4> QED
        BY <3>2, <4>1, <4>2
    <3>4. ASSUME NEW i \in 1..Len(q), NEW j \in 1..Len(q), q[i].id = q[j].id PROVE i = j
      <4>1. CASE i \in 1..Len(p.queue) /\ j \in 1..Len(p.queue)
        BY <1>0, <2>1, <3>4, <4>1 DEF OwnIds
      <4>2. CASE i = Len(p.queue) + 1 /\ j \in 1..Len(p.queue)
        BY <2>1, <3>1, <3>4, <4>2
      <4>3. CASE j = Len(p.queue) + 1 /\ i \in 1..Len(p.queue)
        BY <2>1, <3>1, <3>4, <4>3
      <4> QED
        BY <3>2, <4>1, <4>2, <4>3
    <3> QED
      BY <3>3, <3>4 DEF OwnIds
  <2>3. Len(q) <= MaxQueue
    BY <1>3, <2>1, ConstantsAssumption
  <2>4. Queued(p, item) = IF p.queue # <<>> THEN long
                          ELSE [long EXCEPT !.position = 0, !.positionAt = clock, !.playing = FALSE]
    BY <1>3 DEF Queued
  <2> HIDE DEF q
  <2>5. /\ long \in Party /\ long.queue = q
        /\ long.id = p.id /\ long.watchers = p.watchers /\ long.host = p.host
        /\ long.playing = p.playing /\ long.position = p.position
        /\ long.positionAt = p.positionAt
    BY <2>1 DEF SoundAt, Party
  <2> HIDE DEF long
  <2>6. CASE p.queue # <<>>
    BY <2>1, <2>2, <2>3, <2>4, <2>5, <2>6, <1>1 DEF SoundAt, RemoteSound, PlaybackSoundAt
  <2>7. CASE p.queue = <<>>
    <3>9. PICK z \in Int : z = 0
      OBVIOUS
    <3>0. Queued(p, item) = [long EXCEPT !.position = z, !.positionAt = clock, !.playing = FALSE]
      BY <2>4, <2>7, <3>9
    <3>1. /\ Queued(p, item) \in Party
          /\ Queued(p, item).queue = q
          /\ Queued(p, item).id = p.id /\ Queued(p, item).watchers = p.watchers
          /\ Queued(p, item).host = p.host /\ Queued(p, item).playing = FALSE
          /\ Queued(p, item).position = 0 /\ Queued(p, item).positionAt = clock
      BY <2>5, <3>0, <3>9 DEF Party
    <3> QED
      BY <2>1, <2>2, <2>3, <3>1 DEF SoundAt, RemoteSound, PlaybackSoundAt
  <2> QED
    BY <2>6, <2>7
<1> QED
  BY <1>2, <1>3

LEMMA SkippedSound ==
  ASSUME NEW n \in Nat, NEW p, clock \in Nat, SoundAt(p, clock, n), p.queue # <<>>
  PROVE  /\ SoundAt(Skipped(p), clock, n)
         /\ Skipped(p).id = p.id /\ Skipped(p).watchers = p.watchers
         /\ Skipped(p).host = p.host
<1> DEFINE q == Tail(p.queue)
           short == [p EXCEPT !.queue = q]
<1>0. p.queue \in Seq(Items) /\ OwnIds(p.queue, n) /\ Len(p.queue) <= MaxQueue
  BY DEF SoundAt, PlaybackSoundAt, Party
<1>1. /\ q \in Seq(Items) /\ Len(q) = Len(p.queue) - 1 /\ Len(p.queue) \in Nat
      /\ \A i \in 1..Len(q) : q[i] = p.queue[i+1]
  BY <1>0, HeadTailProperties, LenProperties
<1>2. Skipped(p) = Rewind(short)
  BY DEF Skipped
<1> HIDE DEF q
<1>3. OwnIds(q, n)
  <2>1. ASSUME NEW i \in 1..Len(q)
        PROVE  i+1 \in 1..Len(p.queue) /\ q[i] = p.queue[i+1]
    BY <1>1
  <2>2. ASSUME NEW i \in 1..Len(q) PROVE q[i].id < n
    BY <1>0, <2>1 DEF OwnIds
  <2>3. ASSUME NEW i \in 1..Len(q), NEW j \in 1..Len(q), q[i].id = q[j].id PROVE i = j
    <3>1. i+1 = j+1
      BY <1>0, <2>1, <2>3 DEF OwnIds
    <3> QED
      BY <1>1, <3>1
  <2> QED
    BY <2>2, <2>3 DEF OwnIds
<1>3a. Len(q) <= MaxQueue
  BY <1>0, <1>1, ConstantsAssumption
<1>4. /\ short \in Party /\ short.queue = q
      /\ short.id = p.id /\ short.watchers = p.watchers /\ short.host = p.host
  BY <1>1 DEF SoundAt, Party
<1>5. RemoteSound(short)
  BY <1>4 DEF SoundAt, RemoteSound
<1> HIDE DEF short
<1> QED
  BY <1>2, <1>3, <1>3a, <1>4, <1>5, RewindSound

LEMMA SetPlayingSound ==
  ASSUME NEW n \in Nat, NEW p, clock \in Nat, SoundAt(p, clock, n), p.queue # <<>>,
         NEW on \in BOOLEAN
  PROVE  /\ SoundAt(SetPlaying(p, on), clock, n)
         /\ SetPlaying(p, on).id = p.id /\ SetPlaying(p, on).watchers = p.watchers
         /\ SetPlaying(p, on).host = p.host
<1>1. p \in Party /\ p.position \in Int /\ p.positionAt \in Nat /\ p.position >= 0
      /\ p.positionAt <= clock
  BY DEF SoundAt, PlaybackSoundAt, Party
<1>2. PositionNow(p, clock) \in Int /\ PositionNow(p, clock) >= 0
  BY <1>1 DEF PositionNow
<1>3. /\ SetPlaying(p, on) \in Party
      /\ SetPlaying(p, on).id = p.id /\ SetPlaying(p, on).watchers = p.watchers
      /\ SetPlaying(p, on).host = p.host /\ SetPlaying(p, on).queue = p.queue
      /\ SetPlaying(p, on).position = PositionNow(p, clock)
      /\ SetPlaying(p, on).positionAt = clock
  BY <1>1, <1>2 DEF SetPlaying, Party
<1> QED
  BY <1>2, <1>3 DEF SoundAt, RemoteSound, PlaybackSoundAt

LEMMA SoughtSound ==
  ASSUME NEW n \in Nat, NEW p, clock \in Nat, SoundAt(p, clock, n), NEW pos \in Positions
  PROVE  /\ SoundAt(Sought(p, pos), clock, n)
         /\ Sought(p, pos).id = p.id /\ Sought(p, pos).watchers = p.watchers
         /\ Sought(p, pos).host = p.host
<1> DEFINE to == IF pos > 0 THEN pos ELSE 0
<1>1. to \in Int /\ to >= 0
  BY ConstantsAssumption
<1>2. Sought(p, pos) = [p EXCEPT !.position = to, !.positionAt = clock]
  BY DEF Sought
<1> HIDE DEF to
<1>3. /\ Sought(p, pos) \in Party
      /\ Sought(p, pos).id = p.id /\ Sought(p, pos).watchers = p.watchers
      /\ Sought(p, pos).host = p.host /\ Sought(p, pos).queue = p.queue
      /\ Sought(p, pos).playing = p.playing
      /\ Sought(p, pos).position = to /\ Sought(p, pos).positionAt = clock
  BY <1>1, <1>2 DEF SoundAt, Party
<1> QED
  BY <1>1, <1>3 DEF SoundAt, RemoteSound, PlaybackSoundAt

-----------------------------------------------------------------------------
(* The invariant: every open party is sound, whatever the handlers do.      *)

IInv == TypeOK /\ RemoteWithFirstArrival /\ PlaybackSound

LEMMA SoundOf ==
  ASSUME IInv, NEW g \in Guilds, parties[g] # NoParty
  PROVE  SoundAt(parties[g], clock, nextItem) /\ parties[g] \in Party
BY DEF IInv, TypeOK, RemoteWithFirstArrival, PlaybackSound, SoundAt

\* A step that leaves each party alone, ends it or makes a sound one of it.
LEMMA StillSound ==
  ASSUME IInv, TypeOK', clock <= clock', nextItem <= nextItem',
         \A g \in Guilds : \/ parties'[g] = parties[g]
                           \/ parties'[g] = NoParty
                           \/ SoundAt(parties'[g], clock', nextItem')
  PROVE  IInv'
<1>0. clock \in Nat /\ clock' \in Nat /\ nextItem \in Nat /\ nextItem' \in Nat
  BY DEF IInv, TypeOK
<1>1. ASSUME NEW g \in Guilds, parties'[g] # NoParty
      PROVE  SoundAt(parties'[g], clock', nextItem')
  <2>1. CASE parties'[g] = parties[g]
    <3>1. SoundAt(parties[g], clock, nextItem)
      BY <1>1, <2>1, SoundOf
    <3> QED
      BY <1>0, <2>1, <3>1, SoundLater
  <2> QED
    BY <1>1, <2>1
<1> QED
  BY <1>1 DEF IInv, RemoteWithFirstArrival, PlaybackSound, SoundAt

LEMMA OnePartyChanges ==
  ASSUME IInv, NEW g \in Guilds, NEW q, parties' = [parties EXCEPT ![g] = q],
         q = NoParty \/ SoundAt(q, clock', nextItem')
  PROVE  /\ parties' \in [Guilds -> Party \cup {NoParty}]
         /\ \A h \in Guilds : \/ parties'[h] = parties[h]
                              \/ parties'[h] = NoParty
                              \/ SoundAt(parties'[h], clock', nextItem')
BY DEF IInv, TypeOK, SoundAt

LEMMA DroppedSound ==
  ASSUME IInv, NEW u \in Users
  PROVE  /\ Dropped(parties, u) \in [Guilds -> Party \cup {NoParty}]
         /\ \A g \in Guilds : \/ Dropped(parties, u)[g] = parties[g]
                              \/ Dropped(parties, u)[g] = NoParty
                              \/ SoundAt(Dropped(parties, u)[g], clock, nextItem)
<1>1. ASSUME NEW g \in Guilds
      PROVE  /\ Dropped(parties, u)[g] \in Party \cup {NoParty}
             /\ \/ Dropped(parties, u)[g] = parties[g]
                \/ Dropped(parties, u)[g] = NoParty
                \/ SoundAt(Dropped(parties, u)[g], clock, nextItem)
  <2>1. CASE Watches(parties[g], u)
    <3>1. Dropped(parties, u)[g] = Left(parties[g], u)
      BY <2>1 DEF Dropped
    <3>2. parties[g] # NoParty /\ u \in Range(parties[g].watchers)
      BY <2>1 DEF Watches
    <3>3. SoundAt(parties[g], clock, nextItem) /\ clock \in Nat /\ nextItem \in Nat
      BY <3>2, SoundOf DEF IInv, TypeOK
    <3>4. Left(parties[g], u) = NoParty \/ SoundAt(Left(parties[g], u), clock, nextItem)
      BY <3>2, <3>3, LeftSound
    <3> QED
      BY <3>1, <3>4 DEF SoundAt
  <2>2. CASE ~Watches(parties[g], u)
    BY <2>2 DEF Dropped, IInv, TypeOK
  <2> QED
    BY <2>1, <2>2
<1> QED
  BY <1>1 DEF Dropped

LEMMA InitSound == Init => IInv
<1> SUFFICES ASSUME Init PROVE IInv
  OBVIOUS
<1>1. TypeOK
  BY ConstantsAssumption DEF Init, TypeOK
<1> QED
  BY <1>1 DEF Init, IInv, RemoteWithFirstArrival, PlaybackSound

\* The changes of a watched party that need no await, which leave the rest of
\* the state as it is.
LEMMA ChangeSound ==
  ASSUME IInv, NEW g \in Guilds, NEW q, Change(g, q), nextItem' \in Nat,
         nextItem <= nextItem', SoundAt(q, clock, nextItem')
  PROVE  IInv'
<1>1. SoundAt(q, clock', nextItem') /\ clock' = clock
  BY DEF Change
<1>2. /\ parties' \in [Guilds -> Party \cup {NoParty}]
      /\ \A h \in Guilds : \/ parties'[h] = parties[h]
                           \/ parties'[h] = NoParty
                           \/ SoundAt(parties'[h], clock', nextItem')
  BY <1>1, OnePartyChanges DEF Change
<1>3. TypeOK'
  BY <1>2 DEF IInv, TypeOK, Change
<1>4. clock <= clock'
  BY <1>1 DEF IInv, TypeOK
<1> QED
  BY <1>2, <1>3, <1>4, StillSound

LEMMA OrphanedRequests ==
  ASSUME NEW reqs \in SUBSET Requests, NEW gone
  PROVE  Orphaned(reqs, gone) \subseteq Requests
BY DEF Orphaned, Requests

\* What start() and join() do after their await, whoever has it done.
LEMMA AdmissionSound ==
  ASSUME IInv, NEW r \in Requests, Open(r) \/ Enter(r) \/ TooLate(r),
         pending' \subseteq Requests,
         UNCHANGED <<clock, members, live, connections, nextItem>>
  PROVE  IInv'
<1>0. /\ clock \in Nat /\ nextItem \in Nat /\ TypeOK
      /\ clock <= clock /\ nextItem <= nextItem
  BY DEF IInv, TypeOK
<1>1. /\ r.guild \in Guilds /\ r.user \in Users
      /\ r.sock \in Sockets \cup {NoSocket} /\ nextParty \in Nat
  BY <1>0 DEF TypeOK, Requests
<1> SUFFICES /\ parties' \in [Guilds -> Party \cup {NoParty}]
             /\ \A h \in Guilds : \/ parties'[h] = parties[h]
                                  \/ parties'[h] = NoParty
                                  \/ SoundAt(parties'[h], clock, nextItem)
             /\ room' \subseteq Sockets \X Nat
             /\ nextParty' \in Nat
  <2>1. TypeOK'
    BY <1>0 DEF TypeOK
  <2> QED
    BY <1>0, <2>1, StillSound
<1>2. ASSUME NEW n \in Nat PROVE Entering(r, n) \subseteq Sockets \X Nat
  BY <1>0, <1>1 DEF Entering, TypeOK
<1>3. CASE Open(r)
  <2>1. SoundAt(NewParty(nextParty, r.user), clock, nextItem)
    BY <1>0, <1>1, NewPartySound
  <2>2. parties' = [parties EXCEPT ![r.guild] = NewParty(nextParty, r.user)]
    BY <1>3 DEF Open
  <2>3. room' \subseteq Sockets \X Nat /\ nextParty' \in Nat
    BY <1>1, <1>2, <1>3 DEF Open
  <2>4. /\ parties' \in [Guilds -> Party \cup {NoParty}]
        /\ \A h \in Guilds : \/ parties'[h] = parties[h]
                             \/ parties'[h] = NoParty
                             \/ SoundAt(parties'[h], clock', nextItem')
    BY <1>1, <2>1, <2>2, OnePartyChanges
  <2> QED
    BY <2>3, <2>4
<1>4. CASE Enter(r)
  <2>1. SoundAt(parties[r.guild], clock, nextItem) /\ parties[r.guild].id \in Nat
    BY <1>1, <1>4, SoundOf DEF Enter, Party
  <2>2. SoundAt(Joined(parties[r.guild], r.user), clock, nextItem)
    BY <1>0, <1>1, <2>1, JoinedSound
  <2>3. parties' = [parties EXCEPT ![r.guild] = Joined(parties[r.guild], r.user)]
    BY <1>4 DEF Enter
  <2> QED
    BY <1>1, <1>2, <1>4, <2>1, <2>2, <2>3, OnePartyChanges DEF Enter
<1>5. CASE TooLate(r)
  BY <1>0, <1>5 DEF TooLate, TypeOK
<1> QED
  BY <1>3, <1>4, <1>5

LEMMA NextSound == IInv /\ [Next]_vars => IInv'
<1> SUFFICES ASSUME IInv, [Next]_vars PROVE IInv'
  OBVIOUS
<1>0. /\ clock \in Nat /\ nextItem \in Nat /\ TypeOK
      /\ clock <= clock /\ nextItem <= nextItem
  BY DEF IInv, TypeOK
<1>1. CASE Tick
  <2>1. TypeOK'
    BY <1>0, <1>1 DEF Tick, TypeOK
  <2> QED
    BY <1>0, <1>1, <2>1, StillSound DEF Tick
<1>2. CASE Restart
  <2>1. TypeOK'
    BY <1>0, <1>2 DEF Restart, TypeOK
  <2> QED
    BY <1>0, <1>2, <2>1, StillSound DEF Restart
<1>3. ASSUME NEW s \in Sockets, Connect(s) PROVE IInv'
  <2>1. TypeOK'
    BY <1>0, <1>3, ConstantsAssumption DEF Connect, TypeOK
  <2> QED
    BY <1>0, <1>3, <2>1, StillSound DEF Connect
<1>4. ASSUME NEW s \in Sockets, Disconnect(s) PROVE IInv'
  <2> DEFINE u == Owner[s]
             left == connections[u] - 1
  <2>0. u \in Users /\ connections[u] \in Nat
    BY <1>0, ConstantsAssumption DEF TypeOK
  <2>1. parties' = Dropped(parties, u) \/ parties' = parties
    BY <1>4 DEF Disconnect, AfterSocketLoss
  <2>2. /\ parties' \in [Guilds -> Party \cup {NoParty}]
        /\ \A g \in Guilds : \/ parties'[g] = parties[g]
                             \/ parties'[g] = NoParty
                             \/ SoundAt(parties'[g], clock, nextItem)
    BY <1>0, <2>0, <2>1, DroppedSound DEF TypeOK
  <2>3. connections' \in [Users -> Nat]
    <3>1. (IF left <= 0 THEN 0 ELSE left) \in Nat
      BY <2>0
    <3> QED
      BY <1>0, <1>4, <3>1 DEF Disconnect, TypeOK
  <2>4. pending' \subseteq Requests
    BY <1>0, <1>4, OrphanedRequests DEF Disconnect, TypeOK
  <2>5. TypeOK'
    BY <1>0, <1>4, <2>2, <2>3, <2>4 DEF Disconnect, TypeOK
  <2>6. clock' = clock /\ nextItem' = nextItem
    BY <1>4 DEF Disconnect
  <2> QED
    BY <1>0, <2>2, <2>5, <2>6, StillSound
<1>5. ASSUME NEW u \in Users, NEW g \in Guilds, Kick(u, g) PROVE IInv'
  <2>1. parties' = Dropped(parties, u) \/ parties' = parties
    BY <1>5 DEF Kick
  <2>2. /\ parties' \in [Guilds -> Party \cup {NoParty}]
        /\ \A h \in Guilds : \/ parties'[h] = parties[h]
                             \/ parties'[h] = NoParty
                             \/ SoundAt(parties'[h], clock, nextItem)
    BY <1>0, <2>1, DroppedSound DEF TypeOK
  <2>4. pending' \subseteq Requests
    BY <1>0, <1>5, OrphanedRequests DEF Kick, TypeOK
  <2>5. TypeOK'
    BY <1>0, <1>5, <2>2, <2>4 DEF Kick, TypeOK
  <2>6. clock' = clock /\ nextItem' = nextItem
    BY <1>5 DEF Kick
  <2> QED
    BY <1>0, <2>2, <2>5, <2>6, StillSound
<1>6. ASSUME NEW s \in Sockets, NEW g \in Guilds, RequestStart(s, g) \/ RequestJoin(s, g)
      PROVE  IInv'
  <2>1. pending' \subseteq Requests
    <3>1. Owner[s] \in Users
      BY ConstantsAssumption
    <3>2. CASE RequestStart(s, g)
      BY <1>0, <3>1, <3>2 DEF RequestStart, Await, Requests, TypeOK
    <3>3. CASE RequestJoin(s, g)
      <4>1. parties[g].id \in Nat
        BY <3>3, SoundOf DEF RequestJoin, Party
      <4> QED
        BY <1>0, <3>1, <3>3, <4>1 DEF RequestJoin, Await, Requests, TypeOK
    <3> QED
      BY <1>6, <3>2, <3>3
  <2>2. /\ clock' = clock /\ nextItem' = nextItem /\ parties' = parties
        /\ TypeOK'
    BY <1>0, <1>6, <2>1 DEF RequestStart, RequestJoin, TypeOK
  <2> QED
    BY <1>0, <2>2, StillSound
<1>7. ASSUME NEW r \in pending, Resume(r) PROVE IInv'
  <2>1. r \in Requests /\ pending' \subseteq Requests
    BY <1>0, <1>7 DEF Resume, TypeOK
  <2> QED
    BY <1>7, <2>1, AdmissionSound DEF Resume
<1>8. ASSUME NEW s \in Sockets, NEW g \in Guilds, Leave(s, g) PROVE IInv'
  <2>0. clock' = clock /\ nextItem' = nextItem
    BY <1>8 DEF Leave
  <2>1. /\ parties' \in [Guilds -> Party \cup {NoParty}]
        /\ \A h \in Guilds : \/ parties'[h] = parties[h]
                             \/ parties'[h] = NoParty
                             \/ SoundAt(parties'[h], clock', nextItem')
    <3>1. CASE Watches(parties[g], Owner[s])
      <4>1. parties[g] # NoParty /\ Owner[s] \in Range(parties[g].watchers)
        BY <3>1 DEF Watches
      <4>2. SoundAt(parties[g], clock, nextItem)
        BY <4>1, SoundOf
      <4>3. Left(parties[g], Owner[s]) = NoParty
            \/ SoundAt(Left(parties[g], Owner[s]), clock', nextItem')
        BY <1>0, <2>0, <4>1, <4>2, LeftSound
      <4>4. parties' = [parties EXCEPT ![g] = Left(parties[g], Owner[s])]
        BY <1>8, <3>1 DEF Leave
      <4> QED
        BY <4>3, <4>4, OnePartyChanges
    <3>2. CASE ~Watches(parties[g], Owner[s])
      BY <1>0, <1>8, <3>2 DEF Leave, TypeOK
    <3> QED
      BY <3>1, <3>2
  <2>2. room' \subseteq Sockets \X Nat
    BY <1>0, <1>8 DEF Leave, RoomAfterLeave, TypeOK
  <2>3. TypeOK'
    BY <1>0, <1>8, <2>1, <2>2 DEF Leave, TypeOK
  <2> QED
    BY <1>0, <2>0, <2>1, <2>3, StillSound
<1>9. ASSUME NEW s \in Sockets, NEW g \in Guilds, Enqueue(s, g) PROVE IInv'
  <2> DEFINE item == [id |-> nextItem, addedBy |-> Owner[s]]
  <2>1. item \in Items /\ item.id = nextItem
    BY <1>0, ConstantsAssumption DEF Items
  <2>2. SoundAt(parties[g], clock, nextItem)
    BY <1>9, SoundOf DEF Enqueue, Watches
  <2>3. Change(g, Queued(parties[g], item)) /\ nextItem' = nextItem + 1
    BY <1>9 DEF Enqueue
  <2> HIDE DEF item
  <2>4. SoundAt(Queued(parties[g], item), clock, nextItem')
    BY <1>0, <2>1, <2>2, <2>3, QueuedSound
  <2> QED
    BY <1>0, <2>3, <2>4, ChangeSound
<1>10. ASSUME NEW s \in Sockets, NEW g \in Guilds, NEW i \in 1..MaxQueue, Unqueue(s, g, i)
       PROVE  IInv'
  <2>1. SoundAt(parties[g], clock, nextItem)
    BY <1>10, SoundOf DEF Unqueue, Watches
  <2>2. i \in 1..Len(parties[g].queue)
    BY <1>10 DEF Unqueue
  <2>3. Change(g, Unqueued(parties[g], i)) /\ nextItem' = nextItem
    BY <1>10 DEF Unqueue
  <2>4. SoundAt(Unqueued(parties[g], i), clock, nextItem)
    BY <1>0, <2>1, <2>2, UnqueuedSound
  <2> QED
    BY <1>0, <2>3, <2>4, ChangeSound
<1>11. ASSUME NEW s \in Sockets, NEW g \in Guilds, NEW on \in BOOLEAN, PlayPause(s, g, on)
       PROVE  IInv'
  <2>1. SoundAt(parties[g], clock, nextItem)
    BY <1>11, SoundOf DEF PlayPause, HasTheRemote
  <2>2. /\ Change(g, SetPlaying(parties[g], on)) /\ nextItem' = nextItem
        /\ parties[g].queue # <<>>
    BY <1>11 DEF PlayPause
  <2>3. SoundAt(SetPlaying(parties[g], on), clock, nextItem)
    BY <1>0, <2>1, <2>2, SetPlayingSound
  <2> QED
    BY <1>0, <2>2, <2>3, ChangeSound
<1>12. ASSUME NEW s \in Sockets, NEW g \in Guilds, NEW pos \in Positions, Seek(s, g, pos)
       PROVE  IInv'
  <2>1. SoundAt(parties[g], clock, nextItem)
    BY <1>12, SoundOf DEF Seek, HasTheRemote
  <2>2. Change(g, Sought(parties[g], pos)) /\ nextItem' = nextItem
    BY <1>12 DEF Seek
  <2>3. SoundAt(Sought(parties[g], pos), clock, nextItem)
    BY <1>0, <2>1, SoughtSound
  <2> QED
    BY <1>0, <2>2, <2>3, ChangeSound
<1>13. ASSUME NEW s \in Sockets, NEW g \in Guilds,
              Skip(s, g) \/ \E id \in 1..MaxItems : VideoEnded(s, g, id)
       PROVE  IInv'
  <2>1. SoundAt(parties[g], clock, nextItem)
    BY <1>13, SoundOf DEF Skip, VideoEnded, HasTheRemote
  <2>2. /\ Change(g, Skipped(parties[g])) /\ nextItem' = nextItem
        /\ parties[g].queue # <<>>
    BY <1>13 DEF Skip, VideoEnded
  <2>3. SoundAt(Skipped(parties[g]), clock, nextItem)
    BY <1>0, <2>1, <2>2, SkippedSound
  <2> QED
    BY <1>0, <2>2, <2>3, ChangeSound
<1>14. CASE UNCHANGED vars
  <2>1. TypeOK' /\ clock' = clock /\ nextItem' = nextItem /\ parties' = parties
    BY <1>0, <1>14 DEF vars, TypeOK
  <2> QED
    BY <1>0, <2>1, StillSound
<1> QED
  BY <1>1, <1>2, <1>3, <1>4, <1>5, <1>6, <1>7, <1>8, <1>9, <1>10, <1>11, <1>12, <1>13,
     <1>14 DEF Next

\* Type correctness, for any number of people, servers, windows and parties.
THEOREM TypeCorrect == Spec => []TypeOK
<1>1. IInv => TypeOK
  BY DEF IInv
<1> QED
  BY <1>1, InitSound, NextSound, PTL DEF Spec

\* The controls are with the longest-present watcher at all times.
THEOREM RemoteAlwaysWithFirstArrival == Spec => []RemoteWithFirstArrival
<1>1. IInv => RemoteWithFirstArrival
  BY DEF IInv
<1> QED
  BY <1>1, InitSound, NextSound, PTL DEF Spec

\* No sequence of queue edits, controls and end reports leaves a party playing
\* nothing, over its cap, with a video twice or with a clock in the future.
THEOREM PlaybackAlwaysSound == Spec => []PlaybackSound
<1>1. IInv => PlaybackSound
  BY DEF IInv
<1> QED
  BY <1>1, InitSound, NextSound, PTL DEF Spec

-----------------------------------------------------------------------------
(* Nothing but a seek makes the position on screen jump.                    *)

\* The video after the one on screen is another one.
LEMMA NextVideoIsAnother ==
  ASSUME NEW n \in Nat, NEW q \in Seq(Items), NEW r \in Seq(Items), OwnIds(q, n),
         q # <<>>, r # <<>>, Len(r) = Len(q) - 1, r[1] = q[2]
  PROVE  Head(r).id # Head(q).id
<1>1. Len(q) \in Nat /\ Len(r) \in Nat
  BY LenProperties
<1>2. Head(q) = q[1] /\ Head(r) = r[1] /\ Len(r) # 0
  BY HeadTailProperties, LenProperties
<1>3. 1 \in 1..Len(q) /\ 2 \in 1..Len(q)
  BY <1>1, <1>2
<1>4. q[1].id # q[2].id
  BY <1>3 DEF OwnIds
<1> QED
  BY <1>2, <1>4

LEMMA LeavingPlaysOn ==
  ASSUME NEW n \in Nat, NEW t \in Nat, NEW p, SoundAt(p, t, n), NEW u \in Range(p.watchers),
         Left(p, u) # NoParty, NEW now
  PROVE  PositionNow(Left(p, u), now) = PositionNow(p, now)
<1> DEFINE q == Left(p, u)
<1>1. q = [p EXCEPT !.watchers = Without(p.watchers, u),
                    !.host = IF @ = u THEN Head(Without(p.watchers, u)) ELSE @]
  BY DEF Left
<1> HIDE DEF q
<1>2. q.playing = p.playing /\ q.position = p.position /\ q.positionAt = p.positionAt
  BY <1>1 DEF SoundAt, Party
<1> QED
  BY <1>2 DEF q, PositionNow

LEMMA JoiningPlaysOn ==
  ASSUME NEW n \in Nat, NEW t \in Nat, NEW p, SoundAt(p, t, n), NEW u, NEW now
  PROVE  PositionNow(Joined(p, u), now) = PositionNow(p, now)
<1>1. /\ Joined(p, u).playing = p.playing /\ Joined(p, u).position = p.position
      /\ Joined(p, u).positionAt = p.positionAt
  <2>1. CASE u \in Range(p.watchers)
    BY <2>1 DEF Joined
  <2>2. CASE u \notin Range(p.watchers)
    BY <2>2 DEF Joined, SoundAt, Party
  <2> QED
    BY <2>1, <2>2
<1> QED
  BY <1>1 DEF PositionNow

LEMMA QueueingPlaysOn ==
  ASSUME NEW n \in Nat, NEW t \in Nat, NEW p, SoundAt(p, t, n), p.queue # <<>>,
         NEW item, NEW now
  PROVE  PositionNow(Queued(p, item), now) = PositionNow(p, now)
<1>1. /\ Queued(p, item).playing = p.playing /\ Queued(p, item).position = p.position
      /\ Queued(p, item).positionAt = p.positionAt
  BY DEF Queued, SoundAt, Party
<1> QED
  BY <1>1 DEF PositionNow

\* Taking out the video on screen puts another one there; taking out any other
\* leaves the position alone.
LEMMA UnqueueingPlaysOn ==
  ASSUME NEW n \in Nat, NEW p, clock \in Nat, SoundAt(p, clock, n),
         NEW i \in 1..Len(p.queue), SameVideo(p, Unqueued(p, i)), NEW now
  PROVE  PositionNow(Unqueued(p, i), now) = PositionNow(p, now)
<1> DEFINE q == RemoveAt(p.queue, i)
           short == [p EXCEPT !.queue = q]
<1>0. p.queue \in Seq(Items) /\ OwnIds(p.queue, n) /\ p \in Party /\ Len(p.queue) \in Nat
  BY LenProperties DEF SoundAt, PlaybackSoundAt, Party
<1>1. /\ q \in Seq(Items) /\ Len(q) = Len(p.queue) - 1
      /\ \A k \in 1..Len(p.queue)-1 : q[k] = IF k < i THEN p.queue[k] ELSE p.queue[k+1]
  BY <1>0, RemoveAtLemma
<1>2. Unqueued(p, i) = IF i = 1 THEN Rewind(short) ELSE short
  BY DEF Unqueued
<1> HIDE DEF q
<1>3. /\ short.queue = q /\ short.playing = p.playing /\ short.position = p.position
      /\ short.positionAt = p.positionAt /\ short \in Party
  BY <1>0, <1>1 DEF Party
<1> HIDE DEF short
<1>4. CASE i = 1
  <2>1. Unqueued(p, i).queue = q
    BY <1>2, <1>3, <1>4 DEF Rewind, Party
  <2>2. q # <<>> /\ p.queue # <<>> /\ Head(q).id = Head(p.queue).id
    BY <2>1 DEF SameVideo
  <2>3. Len(q) # 0
    BY <1>1, <2>2, LenProperties
  <2>4. q[1] = p.queue[2]
    <3>1. Len(q) \in Nat /\ Len(p.queue) \in Nat /\ Len(q) = Len(p.queue) - 1
      BY <1>0, <1>1, LenProperties
    <3>2. \A m \in Nat, l \in Nat : m # 0 /\ m = l - 1 => 1 \in 1..l-1
      OBVIOUS
    <3>3. 1 \in 1..Len(p.queue)-1
      BY <2>3, <3>1, <3>2, Zenon
    <3> QED
      BY <1>1, <1>4, <3>3
  <2>5. Head(q).id # Head(p.queue).id
    BY <1>0, <1>1, <2>2, <2>4, NextVideoIsAnother
  <2> QED
    BY <2>2, <2>5
<1>5. CASE i # 1
  BY <1>2, <1>3, <1>5 DEF PositionNow
<1> QED
  BY <1>4, <1>5

LEMMA SkippingShowsAnother ==
  ASSUME NEW n \in Nat, NEW p, clock \in Nat, SoundAt(p, clock, n), p.queue # <<>>
  PROVE  ~SameVideo(p, Skipped(p))
<1> SUFFICES ASSUME SameVideo(p, Skipped(p)) PROVE FALSE
  OBVIOUS
<1> DEFINE q == Tail(p.queue)
<1>0. p.queue \in Seq(Items) /\ OwnIds(p.queue, n) /\ p \in Party
  BY DEF SoundAt, PlaybackSoundAt, Party
<1>1. /\ q \in Seq(Items) /\ Len(q) = Len(p.queue) - 1 /\ Len(p.queue) \in Nat
      /\ \A i \in 1..Len(q) : q[i] = p.queue[i+1]
  BY <1>0, HeadTailProperties, LenProperties
<1>2. Skipped(p).queue = q
  BY <1>0 DEF Skipped, Rewind, Party
<1> HIDE DEF q
<1>3. q # <<>> /\ Head(q).id = Head(p.queue).id
  BY <1>2 DEF SameVideo
<1>4. Len(q) # 0
  BY <1>1, <1>3, LenProperties
<1>5. q[1] = p.queue[2]
  <2>0. Len(q) \in Nat
    BY <1>1, LenProperties
  <2>1. 1 \in 1..Len(q)
    BY <1>4, <2>0
  <2> QED
    BY <1>1, <2>1
<1> QED
  BY <1>0, <1>1, <1>3, <1>5, NextVideoIsAnother

LEMMA PausingPlaysOn ==
  ASSUME NEW n \in Nat, NEW p, clock \in Nat, SoundAt(p, clock, n), NEW on \in BOOLEAN
  PROVE  PositionNow(SetPlaying(p, on), clock) = PositionNow(p, clock)
<1>1. p \in Party /\ p.position \in Int /\ p.positionAt \in Nat
  BY DEF SoundAt, Party
<1>2. PositionNow(p, clock) \in Int
  BY <1>1 DEF PositionNow
<1> DEFINE q == SetPlaying(p, on)
<1>3. q.position = PositionNow(p, clock) /\ q.positionAt = clock
  BY <1>1 DEF SetPlaying, Party
<1> HIDE DEF q
<1>4. PositionNow(q, clock) = q.position
  <2>1. q.position + (clock - clock) = q.position
    BY <1>2, <1>3
  <2> QED
    BY <1>3, <2>1 DEF PositionNow
<1> QED
  BY <1>3, <1>4 DEF q

LEMMA PlaysOn ==
  ASSUME IInv, [Next]_vars, NEW g \in Guilds, SameVideo(parties[g], parties'[g]),
         ~ \E s \in Sockets, pos \in Positions : Seek(s, g, pos)
  PROVE  PositionNow(parties'[g], clock') = PositionNow(parties[g], clock')
<1>0. /\ clock \in Nat /\ nextItem \in Nat
      /\ parties \in [Guilds -> Party \cup {NoParty}]
      /\ parties[g] # NoParty /\ parties'[g] # NoParty
      /\ parties[g].queue # <<>>
      /\ SoundAt(parties[g], clock, nextItem)
  BY SoundOf DEF IInv, TypeOK, SameVideo
<1>1. ASSUME parties'[g] = parties[g] PROVE PositionNow(parties'[g], clock') = PositionNow(parties[g], clock')
  BY <1>1
<1>2. ASSUME NEW u \in Users, parties' = Dropped(parties, u)
      PROVE  PositionNow(parties'[g], clock') = PositionNow(parties[g], clock')
  <2>1. CASE Watches(parties[g], u)
    <3>1. parties'[g] = Left(parties[g], u) /\ u \in Range(parties[g].watchers)
      BY <1>2, <2>1 DEF Dropped, Watches
    <3> QED
      BY <1>0, <3>1, LeavingPlaysOn
  <2>2. CASE ~Watches(parties[g], u)
    BY <1>2, <2>2 DEF Dropped
  <2> QED
    BY <2>1, <2>2
\* What an edit makes of its own party decides; every other party is as it was.
<1>3. ASSUME NEW h \in Guilds, NEW q, Change(h, q),
             h = g => PositionNow(q, clock) = PositionNow(parties[g], clock)
      PROVE  PositionNow(parties'[g], clock') = PositionNow(parties[g], clock')
  <2>1. clock' = clock /\ parties'[g] = IF h = g THEN q ELSE parties[g]
    BY <1>0, <1>3 DEF Change
  <2> QED
    BY <1>3, <2>1
<1>3a. ASSUME NEW h \in Guilds, NEW q, Change(h, q), h = g PROVE SameVideo(parties[g], q)
  BY <1>0, <1>3a DEF Change
<1>4. CASE Tick \/ UNCHANGED vars
  BY <1>4 DEF Tick, vars
<1>5. CASE Restart
  BY <1>0, <1>5 DEF Restart
<1>6. ASSUME NEW s \in Sockets, Connect(s) \/ Disconnect(s)
      PROVE  PositionNow(parties'[g], clock') = PositionNow(parties[g], clock')
  <2>1. parties' = parties \/ parties' = Dropped(parties, Owner[s])
    BY <1>6 DEF Connect, Disconnect, AfterSocketLoss
  <2> QED
    BY <1>2, <2>1, ConstantsAssumption
<1>7. ASSUME NEW u \in Users, NEW h \in Guilds, Kick(u, h)
      PROVE  PositionNow(parties'[g], clock') = PositionNow(parties[g], clock')
  <2>1. parties' = parties \/ parties' = Dropped(parties, u)
    BY <1>7 DEF Kick
  <2> QED
    BY <1>2, <2>1
<1>8. ASSUME NEW s \in Sockets, NEW h \in Guilds, RequestStart(s, h) \/ RequestJoin(s, h)
      PROVE  parties'[g] = parties[g]
  BY <1>8 DEF RequestStart, RequestJoin
<1>9. ASSUME NEW r \in pending, Resume(r)
      PROVE  PositionNow(parties'[g], clock') = PositionNow(parties[g], clock')
  <2>1. CASE Open(r)
    BY <1>0, <2>1 DEF Open
  <2>2. CASE Enter(r)
    <3>1. parties'[g] = IF g = r.guild THEN Joined(parties[g], r.user) ELSE parties[g]
      BY <1>0, <2>2 DEF Enter
    <3> QED
      BY <1>0, <3>1, JoiningPlaysOn
  <2>3. CASE TooLate(r)
    BY <2>3 DEF TooLate
  <2> QED
    BY <1>9, <2>1, <2>2, <2>3 DEF Resume
<1>10. ASSUME NEW s \in Sockets, NEW h \in Guilds, Leave(s, h)
       PROVE  PositionNow(parties'[g], clock') = PositionNow(parties[g], clock')
  <2>1. CASE g = h /\ Watches(parties[h], Owner[s])
    <3>1. parties'[g] = Left(parties[g], Owner[s]) /\ Owner[s] \in Range(parties[g].watchers)
      BY <1>0, <1>10, <2>1 DEF Leave, Watches
    <3> QED
      BY <1>0, <3>1, LeavingPlaysOn
  <2>2. CASE ~(g = h /\ Watches(parties[h], Owner[s]))
    <3>1. parties'[g] = parties[g]
      BY <1>0, <1>10, <2>2 DEF Leave
    <3> QED
      BY <3>1
  <2> QED
    BY <2>1, <2>2
<1>11. ASSUME NEW s \in Sockets, NEW h \in Guilds, Enqueue(s, h)
       PROVE  PositionNow(parties'[g], clock') = PositionNow(parties[g], clock')
  <2> DEFINE item == [id |-> nextItem, addedBy |-> Owner[s]]
  <2>1. Change(h, Queued(parties[h], item))
    BY <1>11 DEF Enqueue
  <2> HIDE DEF item
  <2>2. PositionNow(Queued(parties[g], item), clock) = PositionNow(parties[g], clock)
    BY <1>0, QueueingPlaysOn
  <2> QED
    BY <1>3, <2>1, <2>2
<1>12. ASSUME NEW s \in Sockets, NEW h \in Guilds, NEW i \in 1..MaxQueue, Unqueue(s, h, i)
       PROVE  PositionNow(parties'[g], clock') = PositionNow(parties[g], clock')
  <2>1. Change(h, Unqueued(parties[h], i)) /\ i \in 1..Len(parties[h].queue)
    BY <1>12 DEF Unqueue
  <2>2. ASSUME h = g PROVE PositionNow(Unqueued(parties[h], i), clock) = PositionNow(parties[g], clock)
    BY <1>0, <1>3a, <2>1, <2>2, UnqueueingPlaysOn
  <2> QED
    BY <1>3, <2>1, <2>2
<1>13. ASSUME NEW s \in Sockets, NEW h \in Guilds, NEW on \in BOOLEAN, PlayPause(s, h, on)
       PROVE  PositionNow(parties'[g], clock') = PositionNow(parties[g], clock')
  <2>1. Change(h, SetPlaying(parties[h], on))
    BY <1>13 DEF PlayPause
  <2>2. PositionNow(SetPlaying(parties[g], on), clock) = PositionNow(parties[g], clock)
    BY <1>0, PausingPlaysOn
  <2> QED
    BY <1>3, <2>1, <2>2
<1>14. ASSUME NEW s \in Sockets, NEW h \in Guilds, NEW pos \in Positions, Seek(s, h, pos)
       PROVE  PositionNow(parties'[g], clock') = PositionNow(parties[g], clock')
  <2>1. h # g
    BY <1>14
  <2>2. Change(h, Sought(parties[h], pos))
    BY <1>14 DEF Seek
  <2> QED
    BY <1>3, <2>1, <2>2
<1>15. ASSUME NEW s \in Sockets, NEW h \in Guilds,
              Skip(s, h) \/ \E id \in 1..MaxItems : VideoEnded(s, h, id)
       PROVE  PositionNow(parties'[g], clock') = PositionNow(parties[g], clock')
  <2>1. Change(h, Skipped(parties[h]))
    BY <1>15 DEF Skip, VideoEnded
  <2>2. h # g
    BY <1>0, <1>3a, <2>1, SkippingShowsAnother
  <2> QED
    BY <1>3, <2>1, <2>2
<1> QED
  BY <1>1, <1>4, <1>5, <1>6, <1>7, <1>8, <1>9, <1>10, <1>11, <1>12, <1>13, <1>14, <1>15
     DEF Next

\* While one video stays on screen its position moves with the clock and only
\* while it plays, whoever pauses, resumes, joins, leaves or edits the queue:
\* a jump is a seek.
THEOREM OnlySeeksJump == Spec => OnlySeekJumps
<1>1. IInv /\ [Next]_vars =>
        [\A g \in Guilds :
           SameVideo(parties[g], parties'[g]) =>
             \/ PositionNow(parties'[g], clock') = PositionNow(parties[g], clock')
             \/ \E s \in Sockets, pos \in Positions : Seek(s, g, pos)]_vars
  BY PlaysOn
<1> QED
  BY <1>1, InitSound, NextSound, PTL DEF Spec, OnlySeekJumps

-----------------------------------------------------------------------------
(***************************************************************************)
(* The rooms, windows and requests around the parties: who hears the chat,  *)
(* what losing a window means, and that the service keeps the promise of    *)
(* PartyEvening.                                                            *)
(***************************************************************************)
(* Why the chat reaches watchers alone: the invariant the proofs use.       *)

\* No two parties share an id, and the next id is new: a socket in a room is
\* in the room of one party.
IdsAreOwn ==
  /\ \A g \in Guilds : parties[g] # NoParty => parties[g].id < nextParty
  /\ \A g, h \in Guilds :
       parties[g] # NoParty /\ IsParty(h, parties[g].id) => g = h

\* The count of somebody's windows is right: the window that brings it to zero
\* really is the last, and no window is left behind in a room.
WindowsAreCounted ==
  \A u \in Users :
    IsFiniteSet(SocketsOf(u)) /\ connections[u] = Cardinality(SocketsOf(u))

\* A handler that comes back from its await joins a room with a socket that is
\* still there, and belongs to whom it lists as watching.
RequestsAreTheirOwn ==
  \A r \in pending : r.sock # NoSocket => r.sock \in live /\ Owner[r.sock] = r.user

RoomInv == IInv /\ IdsAreOwn /\ WindowsAreCounted /\ RequestsAreTheirOwn /\ ChatOnlyReachesWatchers

-----------------------------------------------------------------------------
(* What the steps do to parties, as far as rooms can tell.                  *)

\* Somebody who leaves takes nobody along, and the party keeps its id.
LEMMA LeftKeeps ==
  ASSUME NEW n \in Nat, NEW t \in Nat, NEW p, SoundAt(p, t, n), NEW u \in Range(p.watchers)
  PROVE  /\ Left(p, u) # NoParty => Left(p, u).id = p.id
         /\ \A v : Watches(Left(p, u), v) <=> Watches(p, v) /\ v # u
<1>1. p # NoParty
  BY ConstantsAssumption DEF SoundAt
<1>2. CASE Left(p, u) = NoParty
  BY <1>1, <1>2, LeftSound DEF Watches
<1>3. CASE Left(p, u) # NoParty
  BY <1>1, <1>3, LeftSound DEF Watches
<1> QED
  BY <1>2, <1>3

LEMMA DroppedKeeps ==
  ASSUME IInv, NEW u \in Users, NEW g \in Guilds
  PROVE  /\ Dropped(parties, u)[g] # NoParty =>
              parties[g] # NoParty /\ Dropped(parties, u)[g].id = parties[g].id
         /\ \A v : Watches(Dropped(parties, u)[g], v) <=> Watches(parties[g], v) /\ v # u
<1>1. CASE Watches(parties[g], u)
  <2>1. parties[g] # NoParty /\ u \in Range(parties[g].watchers)
    BY <1>1 DEF Watches
  <2>2. SoundAt(parties[g], clock, nextItem) /\ clock \in Nat /\ nextItem \in Nat
    BY <2>1, SoundOf DEF IInv, TypeOK
  <2>3. Dropped(parties, u)[g] = Left(parties[g], u)
    BY <1>1 DEF Dropped
  <2> QED
    BY <2>1, <2>2, <2>3, LeftKeeps
<1>2. CASE ~Watches(parties[g], u)
  BY <1>2 DEF Dropped
<1> QED
  BY <1>1, <1>2

LEMMA JoinedKeeps ==
  ASSUME NEW n \in Nat, NEW t \in Nat, NEW u \in Users, NEW p, SoundAt(p, t, n)
  PROVE  /\ Joined(p, u).id = p.id /\ Joined(p, u).host = p.host
         /\ Range(Joined(p, u).watchers) = Range(p.watchers) \cup {u}
<1>1. CASE u \in Range(p.watchers)
  BY <1>1 DEF Joined
<1>2. CASE u \notin Range(p.watchers)
  <2> DEFINE w == Append(p.watchers, u)
  <2>1. p.watchers \in Seq(Users)
    BY DEF SoundAt, Party
  <2>2. /\ Len(p.watchers) \in Nat /\ DOMAIN p.watchers = 1..Len(p.watchers)
        /\ DOMAIN w = 1..Len(p.watchers)+1
        /\ \A i \in 1..Len(p.watchers) : w[i] = p.watchers[i]
        /\ w[Len(p.watchers)+1] = u
    BY <2>1, AppendProperties, LenProperties
  <2> HIDE DEF w
  <2>3. ASSUME NEW x \in Range(w) PROVE x \in Range(p.watchers) \cup {u}
    <3>1. PICK i \in 1..Len(p.watchers)+1 : x = w[i]
      BY <2>2 DEF Range
    <3>2. i = Len(p.watchers)+1 \/ i \in 1..Len(p.watchers)
      BY <2>2
    <3> QED
      BY <2>2, <3>1, <3>2 DEF Range
  <2>4. ASSUME NEW x \in Range(p.watchers) PROVE x \in Range(w)
    <3>1. PICK i \in 1..Len(p.watchers) : x = p.watchers[i]
      BY <2>2 DEF Range
    <3>2. i \in 1..Len(p.watchers)+1
      BY <2>2
    <3> QED
      BY <2>2, <3>1, <3>2 DEF Range
  <2>5. u \in Range(w)
    <3>1. Len(p.watchers)+1 \in 1..Len(p.watchers)+1
      BY <2>2
    <3> QED
      BY <2>2, <3>1 DEF Range
  <2>6. Joined(p, u) = [p EXCEPT !.watchers = w]
    BY <1>2 DEF Joined, w
  <2>7. /\ Joined(p, u).id = p.id /\ Joined(p, u).host = p.host
        /\ Joined(p, u).watchers = w
    BY <2>6 DEF SoundAt, Party
  <2> QED
    BY <2>3, <2>4, <2>5, <2>7
<1> QED
  BY <1>1, <1>2

\* What somebody watching may do with the queue and the player.
Edits(s, g) ==
  \/ Enqueue(s, g)
  \/ \E i \in 1..MaxQueue : Unqueue(s, g, i)
  \/ \E on \in BOOLEAN : PlayPause(s, g, on)
  \/ \E pos \in Positions : Seek(s, g, pos)
  \/ Skip(s, g)
  \/ \E id \in 1..MaxItems : VideoEnded(s, g, id)

\* None of it touches who is there, who holds the remote, or another party.
LEMMA EditsKeep ==
  ASSUME IInv, NEW s \in Sockets, NEW g \in Guilds, Edits(s, g)
  PROVE  \E q \in Party :
           /\ Change(g, q)
           /\ parties[g] \in Party
           /\ q.id = parties[g].id /\ q.watchers = parties[g].watchers
           /\ q.host = parties[g].host
<1>0. clock \in Nat /\ nextItem \in Nat
  BY DEF IInv, TypeOK
<1>1. SoundAt(parties[g], clock, nextItem) /\ parties[g] \in Party
  <2>1. parties[g] # NoParty
    BY DEF Edits, Enqueue, Unqueue, PlayPause, Seek, Skip, VideoEnded, HasTheRemote, Watches
  <2> QED
    BY <2>1, SoundOf
<1>2. CASE Enqueue(s, g)
  <2> DEFINE item == [id |-> nextItem, addedBy |-> Owner[s]]
  <2>1. item \in Items /\ item.id = nextItem
    BY <1>0, ConstantsAssumption DEF Items
  <2>2. Change(g, Queued(parties[g], item))
    BY <1>2 DEF Enqueue
  <2> HIDE DEF item
  <2>3. /\ Queued(parties[g], item) \in Party
        /\ Queued(parties[g], item).id = parties[g].id
        /\ Queued(parties[g], item).watchers = parties[g].watchers
        /\ Queued(parties[g], item).host = parties[g].host
    BY <1>0, <1>1, <2>1, QueuedSound DEF SoundAt
  <2> QED
    BY <1>1, <2>2, <2>3
<1>3. ASSUME NEW i \in 1..MaxQueue, Unqueue(s, g, i)
      PROVE  \E q \in Party :
               /\ Change(g, q) /\ parties[g] \in Party
               /\ q.id = parties[g].id /\ q.watchers = parties[g].watchers
               /\ q.host = parties[g].host
  <2>1. Change(g, Unqueued(parties[g], i)) /\ i \in 1..Len(parties[g].queue)
    BY <1>3 DEF Unqueue
  <2>2. /\ Unqueued(parties[g], i) \in Party
        /\ Unqueued(parties[g], i).id = parties[g].id
        /\ Unqueued(parties[g], i).watchers = parties[g].watchers
        /\ Unqueued(parties[g], i).host = parties[g].host
    BY <1>0, <1>1, <2>1, UnqueuedSound DEF SoundAt
  <2> QED
    BY <1>1, <2>1, <2>2
<1>4. ASSUME NEW on \in BOOLEAN, PlayPause(s, g, on)
      PROVE  \E q \in Party :
               /\ Change(g, q) /\ parties[g] \in Party
               /\ q.id = parties[g].id /\ q.watchers = parties[g].watchers
               /\ q.host = parties[g].host
  <2>1. Change(g, SetPlaying(parties[g], on)) /\ parties[g].queue # <<>>
    BY <1>4 DEF PlayPause
  <2>2. /\ SetPlaying(parties[g], on) \in Party
        /\ SetPlaying(parties[g], on).id = parties[g].id
        /\ SetPlaying(parties[g], on).watchers = parties[g].watchers
        /\ SetPlaying(parties[g], on).host = parties[g].host
    BY <1>0, <1>1, <2>1, SetPlayingSound DEF SoundAt
  <2> QED
    BY <1>1, <2>1, <2>2
<1>5. ASSUME NEW pos \in Positions, Seek(s, g, pos)
      PROVE  \E q \in Party :
               /\ Change(g, q) /\ parties[g] \in Party
               /\ q.id = parties[g].id /\ q.watchers = parties[g].watchers
               /\ q.host = parties[g].host
  <2>1. Change(g, Sought(parties[g], pos))
    BY <1>5 DEF Seek
  <2>2. /\ Sought(parties[g], pos) \in Party
        /\ Sought(parties[g], pos).id = parties[g].id
        /\ Sought(parties[g], pos).watchers = parties[g].watchers
        /\ Sought(parties[g], pos).host = parties[g].host
    BY <1>0, <1>1, SoughtSound DEF SoundAt
  <2> QED
    BY <1>1, <2>1, <2>2
<1>6. CASE Skip(s, g) \/ \E id \in 1..MaxItems : VideoEnded(s, g, id)
  <2>1. Change(g, Skipped(parties[g])) /\ parties[g].queue # <<>>
    BY <1>6 DEF Skip, VideoEnded
  <2>2. /\ Skipped(parties[g]) \in Party
        /\ Skipped(parties[g]).id = parties[g].id
        /\ Skipped(parties[g]).watchers = parties[g].watchers
        /\ Skipped(parties[g]).host = parties[g].host
    BY <1>0, <1>1, <2>1, SkippedSound DEF SoundAt
  <2> QED
    BY <1>1, <2>1, <2>2
<1> QED
  BY <1>2, <1>3, <1>4, <1>5, <1>6 DEF Edits

-----------------------------------------------------------------------------
(* Each part of the invariant, under the kinds of steps there are.          *)

LEMMA IdsStayOwn ==
  ASSUME IdsAreOwn, TypeOK, TypeOK', nextParty <= nextParty',
         \A g \in Guilds :
           parties'[g] # NoParty => parties[g] # NoParty /\ parties'[g].id = parties[g].id
  PROVE  IdsAreOwn'
<1>1. ASSUME NEW g \in Guilds, parties'[g] # NoParty PROVE parties'[g].id < nextParty'
  <2>1. parties'[g].id < nextParty
    BY <1>1 DEF IdsAreOwn
  <2>2. parties'[g].id \in Nat /\ nextParty \in Nat /\ nextParty' \in Nat
    BY <1>1, ConstantsAssumption DEF TypeOK, Party
  <2> QED
    BY <2>1, <2>2
<1>2. ASSUME NEW g \in Guilds, NEW h \in Guilds, parties'[g] # NoParty,
             parties'[h] # NoParty, parties'[h].id = parties'[g].id
      PROVE  g = h
  BY <1>2 DEF IdsAreOwn, IsParty
<1> QED
  BY <1>1, <1>2 DEF IdsAreOwn, IsParty

LEMMA SameWindows ==
  ASSUME WindowsAreCounted, UNCHANGED <<live, connections>>
  PROVE  WindowsAreCounted'
BY DEF WindowsAreCounted, SocketsOf

\* A request whose socket goes forgets it.
LEMMA OrphansAreTheirOwn ==
  ASSUME TypeOK, RequestsAreTheirOwn, NEW gone, pending' = Orphaned(pending, gone),
         live' = live \ gone
  PROVE  RequestsAreTheirOwn'
<1> SUFFICES ASSUME NEW r \in pending', r.sock # NoSocket
             PROVE  r.sock \in live' /\ Owner[r.sock] = r.user
  BY DEF RequestsAreTheirOwn
<1>1. PICK q \in pending : r = [q EXCEPT !.sock = IF @ \in gone THEN NoSocket ELSE @]
  BY DEF Orphaned
<1>2. /\ q \in Requests
      /\ r.sock = IF q.sock \in gone THEN NoSocket ELSE q.sock
      /\ r.user = q.user
  BY <1>1 DEF TypeOK, Requests
<1> QED
  BY <1>2 DEF RequestsAreTheirOwn

\* Whoever still is in a room is still listed in the party the room is of.
LEMMA RoomKept ==
  ASSUME ChatOnlyReachesWatchers, room' \subseteq room,
         \A e \in room' : e[1] \in live',
         \A e \in room', g \in Guilds :
           IsParty(g, e[2]) /\ Watches(parties[g], Owner[e[1]])
             => IsParty(g, e[2])' /\ Watches(parties'[g], Owner[e[1]])
  PROVE  ChatOnlyReachesWatchers'
BY DEF ChatOnlyReachesWatchers

\* A window joins the room of a party that lists its owner.
LEMMA RoomEntered ==
  ASSUME ChatOnlyReachesWatchers, UNCHANGED live, NEW r, NEW pid, NEW h \in Guilds,
         room' = Entering(r, pid),
         r.sock # NoSocket => r.sock \in live /\ Owner[r.sock] = r.user,
         parties'[h] # NoParty, parties'[h].id = pid, Watches(parties'[h], r.user),
         \A e \in room, g \in Guilds :
           IsParty(g, e[2]) /\ Watches(parties[g], Owner[e[1]])
             => IsParty(g, e[2])' /\ Watches(parties'[g], Owner[e[1]])
  PROVE  ChatOnlyReachesWatchers'
<1> SUFFICES ASSUME NEW e \in room'
             PROVE  /\ e[1] \in live'
                    /\ \E g \in Guilds : IsParty(g, e[2])' /\ Watches(parties'[g], Owner[e[1]])
  BY DEF ChatOnlyReachesWatchers
<1>1. CASE e \in room
  BY <1>1 DEF ChatOnlyReachesWatchers
<1>2. CASE e \notin room
  <2>1. e = <<r.sock, pid>> /\ r.sock # NoSocket
    BY <1>2 DEF Entering
  <2> QED
    BY <2>1 DEF IsParty
<1> QED
  BY <1>1, <1>2

\* When the count of somebody's windows falls to zero, the window that goes is
\* the only one they had.
LEMMA LastWindow ==
  ASSUME WindowsAreCounted, live \subseteq Sockets, NEW s \in live, Owner[s] \in Users,
         connections[Owner[s]] - 1 <= 0
  PROVE  SocketsOf(Owner[s]) = {s}
<1> DEFINE mine == SocketsOf(Owner[s])
<1>1. s \in mine /\ IsFiniteSet(mine) /\ connections[Owner[s]] = Cardinality(mine)
  BY DEF SocketsOf, WindowsAreCounted
<1> HIDE DEF mine
<1>2. /\ IsFiniteSet(mine \ {s}) /\ Cardinality(mine \ {s}) = Cardinality(mine) - 1
      /\ Cardinality(mine \ {s}) \in Nat /\ Cardinality(mine) \in Nat
  BY <1>1, FS_RemoveElement, FS_CardinalityType
<1>3. Cardinality(mine \ {s}) = 0
  BY <1>1, <1>2
<1>4. mine \ {s} = {}
  BY <1>2, <1>3, FS_EmptySet
<1> QED
  BY <1>1, <1>4 DEF mine

LEMMA WindowsStayCounted ==
  ASSUME TypeOK, WindowsAreCounted, NEW s \in Sockets, Connect(s) \/ Disconnect(s)
  PROVE  WindowsAreCounted'
<1> DEFINE u == Owner[s]
<1>0. u \in Users /\ live \subseteq Sockets /\ connections \in [Users -> Nat]
  BY ConstantsAssumption DEF TypeOK
<1>1. IsFiniteSet(SocketsOf(u)) /\ connections[u] = Cardinality(SocketsOf(u))
  BY <1>0 DEF WindowsAreCounted
<1>2. CASE Connect(s)
  <2>1. /\ SocketsOf(u)' = SocketsOf(u) \cup {s} /\ s \notin SocketsOf(u)
        /\ \A v \in Users \ {u} : SocketsOf(v)' = SocketsOf(v)
    BY <1>2 DEF Connect, SocketsOf
  <2>2. IsFiniteSet(SocketsOf(u)') /\ Cardinality(SocketsOf(u)') = connections[u] + 1
    BY <1>1, <2>1, FS_AddElement
  <2>3. connections' = [connections EXCEPT ![u] = @ + 1]
    BY <1>2 DEF Connect
  <2> QED
    BY <1>0, <2>1, <2>2, <2>3 DEF WindowsAreCounted
<1>3. CASE Disconnect(s)
  <2> DEFINE n == IF connections[u] - 1 <= 0 THEN 0 ELSE connections[u] - 1
  <2>1. /\ SocketsOf(u)' = SocketsOf(u) \ {s} /\ s \in SocketsOf(u)
        /\ \A v \in Users \ {u} : SocketsOf(v)' = SocketsOf(v)
    BY <1>3 DEF Disconnect, SocketsOf
  <2>2. /\ IsFiniteSet(SocketsOf(u)') /\ Cardinality(SocketsOf(u)') = connections[u] - 1
        /\ Cardinality(SocketsOf(u)') \in Nat
    BY <1>1, <2>1, FS_RemoveElement, FS_CardinalityType
  <2>3. connections' = [connections EXCEPT ![u] = n] /\ n = connections[u] - 1
    <3>1. connections' = [connections EXCEPT ![u] = n]
      BY <1>3 DEF Disconnect
    <3>2. n = connections[u] - 1
      BY <1>0, <2>2
    <3> QED
      BY <3>1, <3>2
  <2> HIDE DEF n
  <2> QED
    BY <1>0, <2>1, <2>2, <2>3 DEF WindowsAreCounted
<1> QED
  BY <1>2, <1>3

-----------------------------------------------------------------------------
(* The invariant.                                                           *)

LEMMA RoomInit == Init => RoomInv
<1> SUFFICES ASSUME Init PROVE RoomInv
  OBVIOUS
<1>1. IInv
  BY InitSound
<1>2. IdsAreOwn
  BY DEF Init, IdsAreOwn
<1>3. WindowsAreCounted
  <2>1. \A u \in Users : SocketsOf(u) = {} /\ connections[u] = 0
    BY DEF Init, SocketsOf
  <2> QED
    BY <2>1, FS_EmptySet DEF WindowsAreCounted
<1>4. RequestsAreTheirOwn /\ ChatOnlyReachesWatchers
  BY DEF Init, RequestsAreTheirOwn, ChatOnlyReachesWatchers
<1> QED
  BY <1>1, <1>2, <1>3, <1>4 DEF RoomInv

\* The steps that go for a whole account at once: its last window closes, or
\* it is kicked.  All its parties lose it, and no room holds a window of it.
LEMMA RoomDrop ==
  ASSUME RoomInv, TypeOK', NEW u \in Users,
         parties' = Dropped(parties, u) \/ parties' = parties,
         room' = {e \in room : e[1] \notin SocketsOf(u)},
         live' = live \ SocketsOf(u),
         nextParty' = nextParty
  PROVE  IdsAreOwn' /\ ChatOnlyReachesWatchers'
<1>0. IInv /\ TypeOK /\ IdsAreOwn /\ ChatOnlyReachesWatchers /\ nextParty \in Nat
  BY DEF RoomInv, IInv, TypeOK
<1>1. ASSUME NEW g \in Guilds
      PROVE  /\ parties'[g] # NoParty =>
                  parties[g] # NoParty /\ parties'[g].id = parties[g].id
             /\ \A v \in Users \ {u} :
                  Watches(parties[g], v) => Watches(parties'[g], v)
  BY <1>0, DroppedKeeps
<1>2. IdsAreOwn'
  <2>1. nextParty <= nextParty'
    BY <1>0
  <2> QED
    BY <1>0, <1>1, <2>1, IdsStayOwn
<1>3. ASSUME NEW e \in room'
      PROVE  /\ e[1] \in live' /\ Owner[e[1]] \in Users \ {u}
  <2>1. e[1] \in live /\ e[1] \notin SocketsOf(u) /\ e[1] \in Sockets
    BY <1>0 DEF ChatOnlyReachesWatchers, TypeOK
  <2> QED
    BY <2>1, ConstantsAssumption DEF SocketsOf
<1>4. ASSUME NEW e \in room', NEW g \in Guilds, IsParty(g, e[2]),
             Watches(parties[g], Owner[e[1]])
      PROVE  IsParty(g, e[2])' /\ Watches(parties'[g], Owner[e[1]])
  <2>1. Watches(parties'[g], Owner[e[1]])
    BY <1>1, <1>3, <1>4
  <2> QED
    BY <1>1, <1>4, <2>1 DEF IsParty, Watches
<1> QED
  BY <1>0, <1>2, <1>3, <1>4, RoomKept

LEMMA RoomResume ==
  ASSUME RoomInv, TypeOK', NEW r \in pending, Resume(r)
  PROVE  IdsAreOwn' /\ ChatOnlyReachesWatchers'
<1>0. /\ IInv /\ TypeOK /\ IdsAreOwn /\ ChatOnlyReachesWatchers
      /\ r \in Requests /\ r.guild \in Guilds /\ r.user \in Users
      /\ clock \in Nat /\ nextItem \in Nat /\ nextParty \in Nat
      /\ parties \in [Guilds -> Party \cup {NoParty}]
  BY DEF RoomInv, IInv, TypeOK, Requests
<1> DEFINE h == r.guild
<1>1. r.sock # NoSocket => r.sock \in live /\ Owner[r.sock] = r.user
  BY DEF RoomInv, RequestsAreTheirOwn
<1>2. live' = live
  BY DEF Resume
<1>3. CASE Open(r)
  <2> DEFINE p == NewParty(nextParty, r.user)
  <2>1. /\ p \in Party /\ p.id = nextParty /\ p.watchers = <<r.user>>
    <3>1. SoundAt(p, clock, nextItem)
      BY <1>0, NewPartySound
    <3> QED
      BY <3>1 DEF SoundAt, NewParty
  <2>2. p # NoParty /\ Watches(p, r.user)
    BY <2>1, ConstantsAssumption DEF Watches, Range
  <2>3. /\ parties[h] = NoParty /\ parties' = [parties EXCEPT ![h] = p]
        /\ room' = Entering(r, nextParty) /\ nextParty' = nextParty + 1
    BY <1>3 DEF Open
  <2> HIDE DEF p
  <2>4. parties'[h] = p /\ \A g \in Guilds \ {h} : parties'[g] = parties[g]
    BY <1>0, <2>3
  <2>5. \A g \in Guilds : parties[g] # NoParty =>
          parties[g].id < nextParty /\ parties[g].id \in Nat
    BY <1>0 DEF IdsAreOwn, Party
  <2>6. ASSUME NEW g \in Guilds, parties'[g] # NoParty PROVE parties'[g].id < nextParty'
    BY <1>0, <2>1, <2>3, <2>4, <2>5, <2>6
  <2>7. ASSUME NEW g \in Guilds, NEW k \in Guilds, parties'[g] # NoParty,
               parties'[k] # NoParty, parties'[k].id = parties'[g].id
        PROVE  g = k
    <3>1. CASE g # h /\ k # h
      BY <1>0, <2>4, <2>7, <3>1 DEF IdsAreOwn, IsParty
    <3>2. CASE g = h \/ k = h
      BY <1>0, <2>1, <2>4, <2>5, <2>7, <3>2
    <3> QED
      BY <3>1, <3>2
  <2>8. IdsAreOwn'
    BY <2>6, <2>7 DEF IdsAreOwn, IsParty
  <2>9. /\ parties'[h] # NoParty /\ parties'[h].id = nextParty
        /\ Watches(parties'[h], r.user)
    BY <2>1, <2>2, <2>4
  <2>10. \A e \in room, g \in Guilds :
           IsParty(g, e[2]) /\ Watches(parties[g], Owner[e[1]])
             => IsParty(g, e[2])' /\ Watches(parties'[g], Owner[e[1]])
    BY <2>3, <2>4 DEF IsParty
  <2> QED
    BY <1>0, <1>1, <1>2, <2>3, <2>8, <2>9, <2>10, RoomEntered
<1>4. CASE Enter(r)
  <2> DEFINE p == Joined(parties[h], r.user)
  <2>1. /\ parties[h] # NoParty /\ parties' = [parties EXCEPT ![h] = p]
        /\ room' = Entering(r, parties[h].id) /\ nextParty' = nextParty
    BY <1>4 DEF Enter
  <2>2. SoundAt(parties[h], clock, nextItem)
    BY <1>0, <2>1, SoundOf
  <2>3. /\ p \in Party /\ p # NoParty /\ p.id = parties[h].id
        /\ Range(p.watchers) = Range(parties[h].watchers) \cup {r.user}
    <3>1. SoundAt(p, clock, nextItem)
      BY <1>0, <2>2, JoinedSound
    <3>2. p \in Party /\ p # NoParty
      BY <3>1, ConstantsAssumption DEF SoundAt
    <3>3. /\ p.id = parties[h].id
          /\ Range(p.watchers) = Range(parties[h].watchers) \cup {r.user}
      BY <1>0, <2>2, JoinedKeeps
    <3> QED
      BY <3>2, <3>3
  <2> HIDE DEF p
  <2>4. parties'[h] = p /\ \A g \in Guilds \ {h} : parties'[g] = parties[g]
    BY <1>0, <2>1
  <2>5. IdsAreOwn'
    <3>1. nextParty <= nextParty'
      BY <1>0, <2>1
    <3> QED
      BY <1>0, <2>1, <2>3, <2>4, <3>1, IdsStayOwn
  <2>6. ASSUME NEW g \in Guilds
        PROVE  /\ \A n : IsParty(g, n) => IsParty(g, n)'
               /\ \A v : Watches(parties[g], v) => Watches(parties'[g], v)
    <3>1. CASE g = h
      BY <2>3, <2>4, <3>1 DEF IsParty, Watches
    <3>2. CASE g # h
      BY <2>4, <3>2 DEF IsParty
    <3> QED
      BY <3>1, <3>2
  <2>7. /\ parties'[h] # NoParty /\ parties'[h].id = parties[h].id
        /\ Watches(parties'[h], r.user)
    BY <2>3, <2>4 DEF Watches
  <2> QED
    BY <1>0, <1>1, <1>2, <2>1, <2>5, <2>6, <2>7, RoomEntered
<1>5. CASE TooLate(r)
  <2>1. UNCHANGED <<parties, room, nextParty>>
    BY <1>5 DEF TooLate
  <2>2. nextParty <= nextParty'
    BY <1>0, <2>1
  <2>3. IdsAreOwn'
    BY <1>0, <2>1 DEF IdsAreOwn, IsParty
  <2> QED
    BY <1>0, <1>2, <2>1, <2>3 DEF ChatOnlyReachesWatchers, IsParty
<1> QED
  BY <1>3, <1>4, <1>5 DEF Resume

LEMMA RoomNext == RoomInv /\ [Next]_vars => RoomInv'
<1> SUFFICES ASSUME RoomInv, [Next]_vars PROVE RoomInv'
  OBVIOUS
<1>0. /\ IInv /\ TypeOK /\ IdsAreOwn /\ WindowsAreCounted
      /\ RequestsAreTheirOwn /\ ChatOnlyReachesWatchers
      /\ IInv' /\ TypeOK'
      /\ nextParty \in Nat /\ nextParty <= nextParty
      /\ parties \in [Guilds -> Party \cup {NoParty}]
      /\ connections \in [Users -> Nat] /\ live \subseteq Sockets
  <2>1. IInv /\ IInv'
    BY NextSound DEF RoomInv
  <2>2. nextParty <= nextParty
    BY <2>1 DEF IInv, TypeOK
  <2> QED
    BY <2>1, <2>2 DEF RoomInv, IInv, TypeOK
\* The steps that leave parties, rooms and windows alone.
<1>1. ASSUME UNCHANGED <<live, connections, parties, room, nextParty>>,
             RequestsAreTheirOwn'
      PROVE  RoomInv'
  <2>1. IdsAreOwn' /\ ChatOnlyReachesWatchers'
    BY <1>0, <1>1 DEF IdsAreOwn, ChatOnlyReachesWatchers, IsParty
  <2> QED
    BY <1>0, <1>1, <2>1, SameWindows DEF RoomInv
<1>2. CASE Tick \/ UNCHANGED vars
  <2>1. UNCHANGED <<live, connections, parties, room, nextParty, pending>>
    BY <1>2 DEF Tick, vars
  <2> QED
    BY <1>0, <1>1, <2>1 DEF RequestsAreTheirOwn
<1>3. CASE Restart
  <2>1. IdsAreOwn' /\ RequestsAreTheirOwn' /\ ChatOnlyReachesWatchers'
    BY <1>3 DEF Restart, IdsAreOwn, RequestsAreTheirOwn, ChatOnlyReachesWatchers
  <2>2. \A u \in Users : SocketsOf(u)' = {} /\ connections'[u] = 0
    BY <1>3 DEF Restart, SocketsOf
  <2>3. WindowsAreCounted'
    BY <2>2, FS_EmptySet DEF WindowsAreCounted
  <2> QED
    BY <1>0, <2>1, <2>3 DEF RoomInv
<1>4. ASSUME NEW s \in Sockets, Connect(s) PROVE RoomInv'
  <2>1. /\ UNCHANGED <<parties, room, nextParty, pending>>
        /\ live \subseteq live'
    BY <1>4 DEF Connect
  <2>2. IdsAreOwn' /\ RequestsAreTheirOwn' /\ ChatOnlyReachesWatchers'
    BY <1>0, <2>1 DEF IdsAreOwn, RequestsAreTheirOwn, ChatOnlyReachesWatchers, IsParty
  <2> QED
    BY <1>0, <1>4, <2>2, WindowsStayCounted DEF RoomInv
<1>5. ASSUME NEW s \in Sockets, Disconnect(s) PROVE RoomInv'
  <2> DEFINE u == Owner[s]
  <2>0. /\ u \in Users /\ s \in live /\ nextParty' = nextParty
        /\ live' = live \ {s} /\ room' = {e \in room : e[1] # s}
        /\ pending' = Orphaned(pending, {s})
        /\ parties' = AfterSocketLoss(connections[u] - 1, u)
    BY <1>5, ConstantsAssumption DEF Disconnect
  <2>1. RequestsAreTheirOwn'
    BY <1>0, <2>0, OrphansAreTheirOwn
  <2>2. WindowsAreCounted'
    BY <1>0, <1>5, WindowsStayCounted
  <2>3. IdsAreOwn' /\ ChatOnlyReachesWatchers'
    <3>1. CASE connections[u] - 1 <= 0
      <4>1. SocketsOf(u) = {s}
        BY <1>0, <2>0, <3>1, LastWindow
      <4>2. parties' = Dropped(parties, u)
        BY <2>0, <3>1 DEF AfterSocketLoss
      <4>3. /\ room' = {e \in room : e[1] \notin SocketsOf(u)}
            /\ live' = live \ SocketsOf(u)
        BY <2>0, <4>1
      <4> HIDE DEF u
      <4> QED
        BY <1>0, <2>0, <4>2, <4>3, RoomDrop
    <3>2. CASE ~(connections[u] - 1 <= 0)
      <4>1. parties' = parties
        BY <2>0, <3>2 DEF AfterSocketLoss
      <4> QED
        BY <1>0, <2>0, <4>1 DEF IdsAreOwn, ChatOnlyReachesWatchers, IsParty
    <3> QED
      BY <3>1, <3>2
  <2> QED
    BY <1>0, <2>1, <2>2, <2>3 DEF RoomInv
<1>6. ASSUME NEW u \in Users, NEW g \in Guilds, Kick(u, g) PROVE RoomInv'
  <2>0. /\ nextParty' = nextParty /\ live' = live \ SocketsOf(u)
        /\ room' = {e \in room : e[1] \notin SocketsOf(u)}
        /\ pending' = Orphaned(pending, SocketsOf(u))
        /\ parties' = parties \/ parties' = Dropped(parties, u)
        /\ connections' = [connections EXCEPT ![u] = 0]
    BY <1>6 DEF Kick
  <2>1. RequestsAreTheirOwn'
    BY <1>0, <2>0, OrphansAreTheirOwn
  <2>2. IdsAreOwn' /\ ChatOnlyReachesWatchers'
    BY <1>0, <2>0, RoomDrop
  <2>3. WindowsAreCounted'
    <3>1. /\ SocketsOf(u)' = {}
          /\ \A v \in Users \ {u} : SocketsOf(v)' = SocketsOf(v)
      BY <2>0 DEF SocketsOf
    <3>2. /\ connections'[u] = 0
          /\ \A v \in Users \ {u} : connections'[v] = connections[v]
      BY <1>0, <2>0
    <3> QED
      BY <1>0, <3>1, <3>2, FS_EmptySet DEF WindowsAreCounted
  <2> QED
    BY <1>0, <2>1, <2>2, <2>3 DEF RoomInv
<1>7. ASSUME NEW s \in Sockets, NEW g \in Guilds, RequestStart(s, g) \/ RequestJoin(s, g)
      PROVE  RoomInv'
  <2>1. UNCHANGED <<live, connections, parties, room, nextParty>> /\ s \in live
    BY <1>7 DEF RequestStart, RequestJoin
  <2>2. \A r \in pending' : r \in pending \/ (r.sock = s /\ r.user = Owner[s])
    BY <1>7 DEF RequestStart, RequestJoin, Await
  <2>3. RequestsAreTheirOwn'
    BY <1>0, <2>1, <2>2 DEF RequestsAreTheirOwn
  <2> QED
    BY <1>1, <2>1, <2>3
<1>8. ASSUME NEW r \in pending, Resume(r) PROVE RoomInv'
  <2>1. UNCHANGED <<live, connections>> /\ pending' \subseteq pending
    BY <1>8 DEF Resume
  <2>2. RequestsAreTheirOwn' /\ WindowsAreCounted'
    BY <1>0, <2>1, SameWindows DEF RequestsAreTheirOwn
  <2> QED
    BY <1>0, <1>8, <2>2, RoomResume DEF RoomInv
<1>9. ASSUME NEW s \in Sockets, NEW g \in Guilds, Leave(s, g) PROVE RoomInv'
  <2> DEFINE u == Owner[s]
  <2>0. /\ UNCHANGED <<live, connections, pending, nextParty>>
        /\ room' = RoomAfterLeave(s, g) /\ parties[g] # NoParty
        /\ u \in Users
    BY <1>9, ConstantsAssumption DEF Leave
  <2>1. /\ \A h \in Guilds \ {g} : parties'[h] = parties[h]
        /\ parties'[g] # NoParty => parties'[g].id = parties[g].id
        /\ \A v : v # u /\ Watches(parties[g], v) => Watches(parties'[g], v)
    <3>1. CASE Watches(parties[g], u)
      <4>1. parties' = [parties EXCEPT ![g] = Left(parties[g], u)]
        BY <1>9, <3>1 DEF Leave
      <4>2. SoundAt(parties[g], clock, nextItem) /\ u \in Range(parties[g].watchers)
        BY <1>0, <3>1, SoundOf DEF Watches
      <4>3. clock \in Nat /\ nextItem \in Nat
        BY <1>0 DEF TypeOK
      <4>4. parties'[g] = Left(parties[g], u)
        BY <1>0, <4>1
      <4> QED
        BY <1>0, <4>1, <4>2, <4>3, <4>4, LeftKeeps
    <3>2. CASE ~Watches(parties[g], u)
      BY <1>9, <3>2 DEF Leave
    <3> QED
      BY <3>1, <3>2
  <2>2. IdsAreOwn'
    BY <1>0, <2>0, <2>1, IdsStayOwn
  <2>3. room' \subseteq room /\ \A e \in room' : e[1] \in live'
    BY <1>0, <2>0 DEF RoomAfterLeave, ChatOnlyReachesWatchers
  <2>4. ASSUME NEW e \in room', NEW h \in Guilds, IsParty(h, e[2]),
               Watches(parties[h], Owner[e[1]])
        PROVE  IsParty(h, e[2])' /\ Watches(parties'[h], Owner[e[1]])
    <3>1. CASE h # g
      BY <2>1, <2>4, <3>1 DEF IsParty
    <3>2. CASE h = g
      <4>1. Owner[e[1]] # u
        BY <2>0, <2>4, <3>2 DEF RoomAfterLeave, IsParty
      <4>2. Watches(parties'[g], Owner[e[1]])
        BY <2>1, <2>4, <3>2, <4>1
      <4> QED
        BY <2>1, <2>4, <3>2, <4>2 DEF IsParty, Watches
    <3> QED
      BY <3>1, <3>2
  <2>5. ChatOnlyReachesWatchers'
    BY <1>0, <2>3, <2>4, RoomKept
  <2>6. RequestsAreTheirOwn' /\ WindowsAreCounted'
    BY <1>0, <2>0, SameWindows DEF RequestsAreTheirOwn
  <2> QED
    BY <1>0, <2>2, <2>5, <2>6 DEF RoomInv
<1>10. ASSUME NEW s \in Sockets, NEW g \in Guilds, Edits(s, g) PROVE RoomInv'
  <2>1. PICK q \in Party :
          /\ Change(g, q) /\ parties[g] \in Party
          /\ q.id = parties[g].id /\ q.watchers = parties[g].watchers
    BY <1>0, <1>10, EditsKeep
  <2>2. UNCHANGED <<live, connections, room, pending, nextParty>>
    BY <2>1 DEF Change
  <2>3. /\ \A h \in Guilds \ {g} : parties'[h] = parties[h]
        /\ parties'[g] = q /\ q # NoParty /\ parties[g] # NoParty
    BY <1>0, <2>1, ConstantsAssumption DEF Change
  <2>4. IdsAreOwn'
    BY <1>0, <2>1, <2>2, <2>3, IdsStayOwn
  <2>5. ASSUME NEW e \in room', NEW h \in Guilds, IsParty(h, e[2]),
               Watches(parties[h], Owner[e[1]])
        PROVE  IsParty(h, e[2])' /\ Watches(parties'[h], Owner[e[1]])
    BY <2>1, <2>3, <2>5 DEF IsParty, Watches
  <2>6. room' \subseteq room /\ \A e \in room' : e[1] \in live'
    BY <1>0, <2>2 DEF ChatOnlyReachesWatchers
  <2>7. ChatOnlyReachesWatchers'
    BY <1>0, <2>5, <2>6, RoomKept
  <2>8. RequestsAreTheirOwn' /\ WindowsAreCounted'
    BY <1>0, <2>2, SameWindows DEF RequestsAreTheirOwn
  <2> QED
    BY <1>0, <2>4, <2>7, <2>8 DEF RoomInv
<1> QED
  BY <1>2, <1>3, <1>4, <1>5, <1>6, <1>7, <1>8, <1>9, <1>10 DEF Next, Edits

\* The chat of a party is delivered to connected windows of people watching
\* that party, whatever drops, kicks, leaves and late answers come between.
THEOREM ChatAlwaysReachesWatchersOnly == Spec => []ChatOnlyReachesWatchers
<1>1. RoomInv => ChatOnlyReachesWatchers
  BY DEF RoomInv
<1> QED
  BY <1>1, RoomInit, RoomNext, PTL DEF Spec

-----------------------------------------------------------------------------
(* Action properties.                                                       *)

\* Somebody who watched and has a window less is still listed exactly when a
\* window is left.
LEMMA LosingAWindow ==
  ASSUME RoomInv, [Next]_vars, NEW u \in Users, NEW g \in Guilds,
         connections'[u] < connections[u], Watches(parties[g], u)
  PROVE  Watches(parties'[g], u) <=> connections'[u] > 0
<1>0. /\ IInv /\ WindowsAreCounted /\ live \subseteq Sockets
      /\ connections \in [Users -> Nat] /\ connections[u] \in Nat
  BY DEF RoomInv, IInv, TypeOK
<1>1. CASE Restart
  BY <1>1 DEF Restart, Watches
<1>2. ASSUME NEW s \in Sockets, Disconnect(s)
      PROVE  Watches(parties'[g], u) <=> connections'[u] > 0
  <2> DEFINE left == connections[Owner[s]] - 1
  <2>1. /\ connections' = [connections EXCEPT ![Owner[s]] = IF left <= 0 THEN 0 ELSE left]
        /\ parties' = AfterSocketLoss(left, Owner[s])
    BY <1>2 DEF Disconnect
  <2>2. u = Owner[s]
    BY <1>0, <2>1
  <2>3. connections'[u] = IF left <= 0 THEN 0 ELSE left
    BY <1>0, <2>1, <2>2
  <2>4. CASE left <= 0
    <3>1. parties' = Dropped(parties, u) /\ connections'[u] = 0
      BY <2>1, <2>2, <2>3, <2>4 DEF AfterSocketLoss
    <3> QED
      BY <1>0, <3>1, DroppedKeeps
  <2>5. CASE ~(left <= 0)
    <3>1. parties' = parties
      BY <2>1, <2>5 DEF AfterSocketLoss
    <3>2. connections'[u] > 0
      BY <1>0, <2>2, <2>3, <2>5
    <3> QED
      BY <3>1, <3>2
  <2> QED
    BY <2>4, <2>5
<1>3. ASSUME NEW v \in Users, NEW h \in Guilds, Kick(v, h)
      PROVE  Watches(parties'[g], u) <=> connections'[u] > 0
  <2>1. /\ connections' = [connections EXCEPT ![v] = 0]
        /\ parties' = IF SocketsOf(v) = {} THEN parties ELSE Dropped(parties, v)
    BY <1>3 DEF Kick
  <2>2. u = v /\ connections'[u] = 0 /\ connections[u] # 0
    BY <1>0, <2>1
  \* Whoever has a count has a window to cut, so the kick drops them.
  <2>3. SocketsOf(u) # {}
    BY <1>0, <2>2, FS_EmptySet DEF WindowsAreCounted
  <2>4. parties' = Dropped(parties, u)
    BY <2>1, <2>2, <2>3
  <2> QED
    BY <1>0, <2>2, <2>4, DroppedKeeps
<1>4. ASSUME NEW s \in Sockets, Connect(s) PROVE FALSE
  <2>1. connections' = [connections EXCEPT ![Owner[s]] = @ + 1]
    BY <1>4 DEF Connect
  <2> QED
    BY <1>0, <2>1
<1>5. ASSUME UNCHANGED connections PROVE FALSE
  BY <1>0, <1>5
<1> QED
  <2>1. CASE Tick \/ UNCHANGED vars
    BY <1>5, <2>1 DEF Tick, vars
  <2>2. ASSUME NEW s \in Sockets, NEW h \in Guilds,
               \/ RequestStart(s, h) \/ RequestJoin(s, h) \/ Leave(s, h)
        PROVE  FALSE
    BY <1>5, <2>2 DEF RequestStart, RequestJoin, Leave
  <2>3. ASSUME NEW s \in Sockets, NEW h \in Guilds, Edits(s, h) PROVE FALSE
    BY <1>0, <1>5, <2>3, EditsKeep DEF Change
  <2>4. ASSUME NEW r \in pending, Resume(r) PROVE FALSE
    BY <1>5, <2>4 DEF Resume
  <2> QED
    BY <1>1, <1>2, <1>3, <1>4, <2>1, <2>2, <2>3, <2>4 DEF Next, Edits

\* Closing one of several windows leaves every party alone, and closing the
\* last one, however it closes, leaves them all.
THEOREM LosingTheLastWindowIsLeaving == Spec => LastWindowIsLeaving
<1>1. RoomInv /\ [Next]_vars =>
        [\A u \in Users, g \in Guilds :
           connections'[u] < connections[u] /\ Watches(parties[g], u)
             => (Watches(parties'[g], u) <=> connections'[u] > 0)]_vars
  BY LosingAWindow
<1> QED
  BY <1>1, RoomInit, RoomNext, PTL DEF Spec, LastWindowIsLeaving

-----------------------------------------------------------------------------
(* The service implements PartyEvening.                                     *)

\* Who leaves a party that goes on hands the remote to somebody there, and
\* only if they held it.
LEMMA LeftHandsOn ==
  ASSUME NEW n \in Nat, NEW t \in Nat, NEW p, SoundAt(p, t, n), NEW u \in Range(p.watchers),
         Left(p, u) # NoParty
  PROVE  /\ Range(Left(p, u).watchers) = Range(p.watchers) \ {u}
         /\ Range(p.watchers) # {u}
         /\ Left(p, u).host \in Range(p.watchers) \ {u}
         /\ p.host # u => Left(p, u).host = p.host
<1> DEFINE q == Left(p, u)
<1>1. SoundAt(q, t, n) /\ Range(q.watchers) = Range(p.watchers) \ {u}
  BY LeftSound
<1>2. q.host \in Range(q.watchers)
  <2>1. q.watchers \in Seq(Users) /\ q.watchers # <<>> /\ q.host = Head(q.watchers)
    BY <1>1 DEF SoundAt, RemoteSound, Party
  <2>2. 1 \in DOMAIN q.watchers /\ q.host = q.watchers[1]
    BY <2>1, HeadTailProperties, LenProperties
  <2> QED
    BY <2>2 DEF Range
<1>3. p.host # u => q.host = p.host
  <2>1. q = [p EXCEPT !.watchers = Without(p.watchers, u),
                      !.host = IF @ = u THEN Head(Without(p.watchers, u)) ELSE @]
    BY DEF Left
  <2> HIDE DEF q
  <2> QED
    BY <2>1 DEF SoundAt, Party
<1> QED
  BY <1>1, <1>2, <1>3

\* Nobody is at a party that is not open, and somebody at one that is.
LEMMA SomebodyIsPresent ==
  ASSUME IInv, NEW g \in Guilds
  PROVE  Present[g] = {} <=> parties[g] = NoParty
<1>1. CASE parties[g] = NoParty
  BY <1>1 DEF Present
<1>2. CASE parties[g] # NoParty
  <2>1. parties[g].watchers \in Seq(Users) /\ parties[g].watchers # <<>>
    BY <1>2, SoundOf DEF SoundAt, RemoteSound, Party
  <2>2. 1 \in DOMAIN parties[g].watchers
    BY <2>1, LenProperties
  <2> QED
    BY <1>2, <2>2 DEF Present, Range
<1> QED
  BY <1>1, <1>2

\* Leaving, from one party or from all of them, is an evening's going.
LEMMA LeavingIsGoing ==
  ASSUME IInv, IInv', NEW u \in Users, NEW from \in SUBSET Guilds,
         \A g \in from : Watches(parties[g], u) /\ parties'[g] = Left(parties[g], u),
         \A g \in Guilds \ from : parties'[g] = parties[g]
  PROVE  Evening!Goes(u, from)
<1>0. clock \in Nat /\ nextItem \in Nat
  BY DEF IInv, TypeOK
<1>1. ASSUME NEW g \in from
      PROVE  /\ u \in Present[g]
             /\ Present'[g] = Present[g] \ {u}
             /\ Evening!HandedOn(g, u)
  <2>1. /\ parties[g] # NoParty /\ u \in Range(parties[g].watchers)
        /\ parties'[g] = Left(parties[g], u)
    BY <1>1 DEF Watches
  <2>2. SoundAt(parties[g], clock, nextItem)
    BY <2>1, SoundOf
  <2>3. /\ Present[g] = Range(parties[g].watchers) /\ Holder[g] = parties[g].host
        /\ Present'[g] = IF parties'[g] = NoParty THEN {} ELSE Range(parties'[g].watchers)
        /\ Holder'[g] = IF parties'[g] = NoParty THEN NoParty ELSE parties'[g].host
    BY <2>1 DEF Present, Holder
  <2>4. CASE parties'[g] = NoParty
    <3>1. Present[g] = {u}
      BY <1>0, <2>1, <2>2, <2>3, <2>4, LeftSound
    <3> QED
      BY <2>3, <2>4, <3>1 DEF Evening!HandedOn
  <2>5. CASE parties'[g] # NoParty
    <3>1. /\ Range(parties'[g].watchers) = Present[g] \ {u}
          /\ Present[g] # {u}
          /\ parties'[g].host \in Present[g] \ {u}
          /\ Holder[g] # u => parties'[g].host = Holder[g]
      BY <1>0, <2>1, <2>2, <2>3, <2>5, LeftHandsOn
    <3> QED
      BY <2>1, <2>3, <2>5, <3>1 DEF Evening!HandedOn
  <2> QED
    BY <2>4, <2>5
<1>2. ASSUME NEW g \in Guilds \ from PROVE Present'[g] = Present[g] /\ Holder'[g] = Holder[g]
  BY <1>2 DEF Present, Holder
<1>3. Present' = [g \in Guilds |-> IF g \in from THEN Present[g] \ {u} ELSE Present[g]]
  <2>1. Present' = [g \in Guilds |-> Present'[g]]
    BY DEF Present
  <2> QED
    BY <1>1, <1>2, <2>1
<1>4. Holder' \in [Guilds -> Users \cup {NoParty}]
  <2>1. ASSUME NEW g \in Guilds PROVE Holder'[g] \in Users \cup {NoParty}
    BY DEF Holder, IInv, TypeOK, Party
  <2> QED
    BY <2>1 DEF Holder
<1> QED
  BY <1>1, <1>2, <1>3, <1>4 DEF Evening!Goes

LEMMA EveningInit == Init => Evening!Init
BY DEF Init, Evening!Init, Present, Holder

LEMMA EveningNext == IInv /\ [Next]_vars => [Evening!Next]_(Evening!vars)
<1> SUFFICES ASSUME IInv, [Next]_vars PROVE Evening!Next \/ UNCHANGED <<Present, Holder>>
  BY DEF Evening!vars
<1>0. /\ IInv' /\ parties \in [Guilds -> Party \cup {NoParty}]
      /\ clock \in Nat /\ nextItem \in Nat
  BY NextSound DEF IInv, TypeOK
<1>1. ASSUME UNCHANGED parties PROVE UNCHANGED <<Present, Holder>>
  BY <1>1 DEF Present, Holder
<1>2. ASSUME NEW u \in Users, parties' = Dropped(parties, u) PROVE Evening!Next
  <2> DEFINE from == {g \in Guilds : Watches(parties[g], u)}
  <2>1. Evening!Goes(u, from)
    BY <1>0, <1>2, LeavingIsGoing DEF Dropped
  <2> QED
    BY <2>1 DEF Evening!Next
<1>3. CASE Tick \/ UNCHANGED vars
  BY <1>1, <1>3 DEF Tick, vars
<1>4. CASE Restart
  BY <1>4 DEF Restart, Evening!Next, Evening!EverythingEnds, Present, Holder
<1>5. ASSUME NEW s \in Sockets, Connect(s) \/ Disconnect(s)
      PROVE  Evening!Next \/ UNCHANGED <<Present, Holder>>
  <2>1. UNCHANGED parties \/ parties' = Dropped(parties, Owner[s])
    BY <1>5 DEF Connect, Disconnect, AfterSocketLoss
  <2> QED
    BY <1>1, <1>2, <2>1, ConstantsAssumption
<1>6. ASSUME NEW u \in Users, NEW g \in Guilds, Kick(u, g)
      PROVE  Evening!Next \/ UNCHANGED <<Present, Holder>>
  <2>1. UNCHANGED parties \/ parties' = Dropped(parties, u)
    BY <1>6 DEF Kick
  <2> QED
    BY <1>1, <1>2, <2>1
<1>7. ASSUME NEW s \in Sockets, NEW g \in Guilds, RequestStart(s, g) \/ RequestJoin(s, g)
      PROVE  UNCHANGED <<Present, Holder>>
  BY <1>1, <1>7 DEF RequestStart, RequestJoin
<1>8. ASSUME NEW r \in pending, Resume(r)
      PROVE  Evening!Next \/ UNCHANGED <<Present, Holder>>
  <2> DEFINE h == r.guild
  <2>0. h \in Guilds /\ r.user \in Users
    BY DEF IInv, TypeOK, Requests
  <2>1. CASE Open(r)
    <3> DEFINE p == NewParty(nextParty, r.user)
    <3>1. /\ parties[h] = NoParty /\ parties' = [parties EXCEPT ![h] = p]
          /\ nextParty \in Nat
      BY <2>1 DEF Open, IInv, TypeOK
    <3>2. p # NoParty /\ Range(p.watchers) = {r.user} /\ p.host = r.user
      <4>1. SoundAt(p, clock, nextItem)
        BY <1>0, <2>0, <3>1, NewPartySound
      <4>2. p # NoParty
        BY <4>1, ConstantsAssumption DEF SoundAt
      <4>3. p.watchers = <<r.user>> /\ p.host = r.user
        BY DEF NewParty
      <4>4. DOMAIN <<r.user>> = {1} /\ <<r.user>>[1] = r.user
        OBVIOUS
      <4>5. Range(<<r.user>>) = {r.user}
        BY <4>4 DEF Range
      <4> HIDE DEF p
      <4> QED
        BY <4>2, <4>3, <4>5
    <3> HIDE DEF p
    <3>3. Present' = [Present EXCEPT ![h] = {r.user}] /\ Holder' = [Holder EXCEPT ![h] = r.user]
      BY <1>0, <2>0, <3>1, <3>2 DEF Present, Holder
    <3>4. Present[h] = {}
      BY <2>0, <3>1 DEF Present
    <3> QED
      BY <2>0, <3>3, <3>4 DEF Evening!Next, Evening!Opens
  <2>2. CASE Enter(r)
    <3> DEFINE p == Joined(parties[h], r.user)
    <3>1. parties[h] # NoParty /\ parties' = [parties EXCEPT ![h] = p]
      BY <2>2 DEF Enter
    <3>2. SoundAt(parties[h], clock, nextItem)
      BY <2>0, <3>1, SoundOf
    <3>3. p # NoParty
      <4>1. SoundAt(p, clock, nextItem)
        BY <1>0, <2>0, <3>2, JoinedSound
      <4> QED
        BY <4>1, ConstantsAssumption DEF SoundAt
    <3>4. /\ p.host = parties[h].host
          /\ Range(p.watchers) = Range(parties[h].watchers) \cup {r.user}
      <4>1. r.user \in Users /\ clock \in Nat /\ nextItem \in Nat
        BY <1>0, <2>0
      <4> QED
        BY <3>2, <4>1, JoinedKeeps
    <3> HIDE DEF p
    <3>5. Present' = [Present EXCEPT ![h] = @ \cup {r.user}] /\ Holder' = Holder
      BY <1>0, <2>0, <3>1, <3>3, <3>4 DEF Present, Holder
    <3>6. Present[h] # {}
      BY <2>0, <3>1, SomebodyIsPresent
    <3> QED
      BY <2>0, <3>5, <3>6 DEF Evening!Next, Evening!Arrives
  <2>3. CASE TooLate(r)
    BY <1>1, <2>3 DEF TooLate
  <2> QED
    BY <1>8, <2>1, <2>2, <2>3 DEF Resume
<1>9. ASSUME NEW s \in Sockets, NEW g \in Guilds, Leave(s, g)
      PROVE  Evening!Next \/ UNCHANGED <<Present, Holder>>
  <2>1. CASE Watches(parties[g], Owner[s])
    <3>1. Owner[s] \in Users /\ parties' = [parties EXCEPT ![g] = Left(parties[g], Owner[s])]
      BY <1>9, <2>1, ConstantsAssumption DEF Leave
    <3>2. Evening!Goes(Owner[s], {g})
      BY <1>0, <2>1, <3>1, LeavingIsGoing
    <3> QED
      BY <3>1, <3>2 DEF Evening!Next
  <2>2. CASE ~Watches(parties[g], Owner[s])
    BY <1>1, <1>9, <2>2 DEF Leave
  <2> QED
    BY <2>1, <2>2
<1>10. ASSUME NEW s \in Sockets, NEW g \in Guilds, Edits(s, g)
       PROVE  UNCHANGED <<Present, Holder>>
  <2>1. PICK q \in Party :
          /\ Change(g, q) /\ parties[g] \in Party
          /\ q.watchers = parties[g].watchers /\ q.host = parties[g].host
    BY <1>10, EditsKeep
  <2>2. parties' = [parties EXCEPT ![g] = q] /\ q # NoParty /\ parties[g] # NoParty
    BY <2>1, ConstantsAssumption DEF Change
  <2> QED
    BY <1>0, <2>1, <2>2 DEF Present, Holder
<1> QED
  BY <1>3, <1>4, <1>5, <1>6, <1>7, <1>8, <1>9, <1>10 DEF Next, Edits

\* Whatever the windows, requests, kicks and drops: what the members of a
\* server see of their parties is an evening as PartyEvening promises it.
THEOREM ServiceKeepsTheEvening == Spec => IsAnEvening
<1> QED
  BY InitSound, NextSound, EveningInit, EveningNext, PTL DEF Spec, IsAnEvening, Evening!Spec
=============================================================================
