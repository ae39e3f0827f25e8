-------------------------- MODULE SealedMessagesProofs --------------------------
(***************************************************************************)
(* What is proved of SealedMessages: with any number of people on the       *)
(* machine, and any bounds, a message that was sealed to a device the       *)
(* server knew of is read there and drawn as its author's, unless one of    *)
(* the three misfortunes the code is open to has come in between.           *)
(*                                                                          *)
(* The argument is about whose keys are in memory.  As long as nobody has   *)
(* signed out over a request, whatever is under way is under way for the    *)
(* account that is signed in (ForWhomItIs); as long as the desktop has kept *)
(* to one account as well, the keys in memory are that account's, the       *)
(* server has them under its name if it was told, and what is being sealed  *)
(* is sealed with them (OneAccount).  What is posted then carries a device  *)
(* the server knows as its author's, and a row of the directory is never    *)
(* rewritten, so it stays one (Attributed).                                 *)
(***************************************************************************)
EXTENDS SealedMessages, SequenceTheorems, TLAPS

-----------------------------------------------------------------------------
(* The inductive invariant.                                                 *)

\* An errand is at one of its own stages, with somebody's keys.
Stages ==
  /\ ready = Idle \/ (ready.at \in {"loading", "registering"} /\ ready.keys \in People)
  /\ sealing = Idle
       \/ (sealing.at \in {"registering", "asking", "posting"} /\ sealing.keys \in People)

\* Keys are fetched for whoever is signed in, and are there once they have been.
ForWhomItIs ==
  /\ ready # Idle => signedIn = ready.keys
  /\ ready.at = "registering" => ready.under = ready.keys /\ identity = ready.keys
  /\ (ready = Idle /\ ~unkeyed /\ signedIn # Nobody) => identity = signedIn
  /\ kind = "phone" => identity \in {Nobody, signedIn}

\* One account: its keys, its row in the directory, its sealing.
OneAccount ==
  /\ signedIn # Nobody => identity \in {Nobody, signedIn}
  /\ registered => identity # Nobody /\ owner[identity] = identity
  /\ sealing # Idle =>
       sealing.keys = signedIn /\ sealing.under = signedIn /\ identity = signedIn
  /\ (sealing.at \in {"asking", "posting"} /\ ~refused) =>
       owner[sealing.keys] = sealing.keys

\* What was posted is in the directory as its author's.
Attributed ==
  /\ owner[Peer] = Peer
  /\ \A i \in DOMAIN messages :
       messages[i].marred \/ owner[messages[i].device] = messages[i].author

\* What somebody was shown is a message that is there.
OfMessages == \A r \in unread : r[1] \in DOMAIN messages

KeysInv ==
  /\ KeysTypeOK /\ Stages
  /\ ~mixed => ForWhomItIs
  /\ (~mixed /\ ~second) => OneAccount
  /\ Attributed /\ OfMessages /\ SealedIsRead

-----------------------------------------------------------------------------
(* The operators.                                                           *)

\* Nothing under way.
LEMMA IdleStage ==
  Idle \in Errand /\ Idle.at = "no" /\ Idle.keys = Nobody /\ Idle.under = Nobody
BY DEF Idle, Errand, Errands

\* The right to fail is spent, and the number that is left stays a number.
LEMMA UsesIsTyped ==
  ASSUME KeysTypeOK, NEW what \in {"signins", "troubles"}, Uses(what)
  PROVE  spare' \in [{"signins", "troubles"} -> Nat]
<1>1. spare \in [{"signins", "troubles"} -> Nat] BY DEF KeysTypeOK
<1>2. spare[what] > 0 /\ spare' = [spare EXCEPT ![what] = @ - 1] BY DEF Uses
<1>3. spare[what] \in Nat /\ spare[what] - 1 \in Nat BY <1>1, <1>2
<1> QED BY <1>1, <1>2, <1>3

\* registerDevice puts a device under whoever asks for it, if that is allowed,
\* and rewrites no row.
LEMMA RegisterIsSticky ==
  ASSUME KeysTypeOK, NEW e \in Errand, e.keys \in People, Register(e)
  PROVE  /\ owner' \in [Devices -> Devices \cup {Nobody}] /\ registered' \in BOOLEAN
         /\ \A d \in Devices : owner[d] # Nobody => owner'[d] = owner[d]
         /\ Accepts(e) => owner'[e.keys] = e.under /\ registered'
         /\ ~Accepts(e) => UNCHANGED <<owner, registered>>
<1> DEFINE k == e.keys
           u == e.under
<1>1. /\ owner \in [Devices -> Devices \cup {Nobody}] /\ registered \in BOOLEAN
      /\ k \in Devices /\ u \in Devices \cup {Nobody}
  BY DEF KeysTypeOK, Errand, Devices
<1>2. CASE Accepts(e)
  <2>1. owner' = [owner EXCEPT ![k] = u] /\ registered' = TRUE BY <1>2 DEF Register
  <2>2. u # Nobody /\ owner[k] \in {Nobody, u} BY <1>2 DEF Accepts
  <2> HIDE DEF k, u
  <2>3. /\ owner' \in [Devices -> Devices \cup {Nobody}]
        /\ owner'[k] = u /\ \A d \in Devices : d # k => owner'[d] = owner[d]
    BY <1>1, <2>1
  <2>4. \A d \in Devices : owner[d] # Nobody => owner'[d] = owner[d] BY <2>2, <2>3
  <2> QED BY <1>2, <2>1, <2>3, <2>4 DEF k, u
<1>3. CASE ~Accepts(e) BY <1>1, <1>3 DEF Register
<1> QED BY <1>2, <1>3

\* The two errands are known by their stages.
LEMMA StagesApart ==
  ASSUME KeysTypeOK, Stages
  PROVE  /\ ready = Idle <=> ready.at = "no"
         /\ sealing = Idle <=> sealing.at = "no"
         /\ ready.at # "no" => ready.keys \in People
         /\ sealing.at # "no" => sealing.keys \in People
BY IdleStage DEF Stages

-----------------------------------------------------------------------------
(* Types and stages.                                                        *)

\* An answer at hand, one under way, or a new errand.
LEMMA KeysForIsTyped ==
  ASSUME KeysTypeOK, Stages, NEW u \in People, KeysFor(u)
  PROVE  /\ ready' \in Errand
         /\ ready' = Idle \/ (ready'.at \in {"loading", "registering"} /\ ready'.keys \in People)
         /\ (identity = u \/ ready # Idle) => ready' = ready
         /\ (identity # u /\ ready = Idle) => ready'.at = "loading" /\ ready'.keys = u
<1>1. CASE identity = u \/ ready # Idle BY <1>1 DEF KeysFor, KeysTypeOK, Stages
<1>2. CASE ~(identity = u \/ ready # Idle)
  <2>1. ready' = [at |-> "loading", keys |-> u, under |-> Nobody] BY <1>2 DEF KeysFor, Idle
  <2>2. ready' \in Errand BY <2>1 DEF Errand, Errands, Devices
  <2> QED BY <1>2, <2>1, <2>2
<1> QED BY <1>1, <1>2

\* The steps of the keys' own errand.
LEMMA LoadedIsTyped ==
  ASSUME KeysTypeOK, Stages, Loaded
  PROVE  /\ KeysTypeOK' /\ Stages'
         /\ ready' # Idle =>
              ready'.at = "registering" /\ ready'.keys = ready.keys /\ ready'.under = signedIn
<1>1. ready.keys \in People BY StagesApart DEF Loaded
<1>2. /\ ready \in Errand /\ signedIn \in Devices \cup {Nobody}
      /\ registered' = (kind = "desktop" /\ registered)
      /\ unkeyed' = (unkeyed /\ signedIn # ready.keys)
      /\ identity' = ready.keys
      /\ UNCHANGED <<kind, signedIn, owner, sent, cache, unread, second, mixed, spare>>
  BY DEF KeysTypeOK, Loaded, Devices
<1>3. /\ ready' \in Errand
      /\ ready' = Idle \/ (ready'.at = "registering" /\ ready'.keys = ready.keys /\ ready'.under = signedIn)
  <2>1. CASE registered' BY <2>1, IdleStage DEF Loaded
  <2>2. CASE ~registered'
    <3>1. ready' = [ready EXCEPT !.at = "registering", !.under = signedIn] BY <2>2 DEF Loaded
    <3>2. /\ ready' \in Errand /\ ready'.at = "registering"
          /\ ready'.keys = ready.keys /\ ready'.under = signedIn
      BY <1>2, <3>1 DEF Errand, Errands
    <3> QED BY <3>2
  <2> QED BY <2>1, <2>2
<1>4. registered' \in BOOLEAN /\ unkeyed' \in BOOLEAN BY <1>2
<1>5. KeysTypeOK' BY <1>1, <1>2, <1>3, <1>4 DEF KeysTypeOK, sent
<1>6. Stages' BY <1>1, <1>2, <1>3 DEF Stages, sent
<1> QED BY <1>3, <1>5, <1>6

\* A new message is one.
LEMMA AppendedMessage ==
  ASSUME KeysTypeOK, NEW m, m \in Message, messages' = Append(messages, m)
  PROVE  /\ messages' \in Seq(Message) /\ Len(messages') = Len(messages) + 1
         /\ DOMAIN messages' = 1..Len(messages') /\ DOMAIN messages = 1..Len(messages)
         /\ Len(messages) \in Nat
         /\ \A i \in DOMAIN messages : i \in DOMAIN messages' /\ messages'[i] = messages[i]
         /\ \A i \in DOMAIN messages' : i \in DOMAIN messages \/ messages'[i] = m
<1>1. messages \in Seq(Message) BY DEF KeysTypeOK
<1> QED BY <1>1

\* What is posted.
Mine == [author |-> sealing.under, device |-> sealing.keys, to |-> sealedTo,
         marred |-> refused \/ second \/ mixed]
Theirs == [author |-> Peer, device |-> Peer, to |-> Directory, marred |-> FALSE]

LEMMA PostedIsTyped ==
  ASSUME KeysTypeOK, Stages
  PROVE  /\ Posted => Mine \in Message
         /\ Theirs \in Message
<1>1. ASSUME Posted PROVE Mine \in Message
  <2>1. sealing.keys \in People BY <1>1, StagesApart DEF Posted
  <2>2. sealing.under \in Devices BY <1>1 DEF Posted, KeysTypeOK, Errand
  <2>3. sealedTo \in SUBSET Devices /\ (refused \/ second \/ mixed) \in BOOLEAN BY DEF KeysTypeOK
  <2>4. sealing.keys \in Devices BY <2>1 DEF Devices
  <2> QED BY <2>2, <2>3, <2>4 DEF Mine, Message
<1>2. Theirs \in Message
  <2>1. Peer \in Devices /\ Directory \in SUBSET Devices BY DEF Devices, Directory
  <2> QED BY <2>1 DEF Theirs, Message
<1> QED BY <1>1, <1>2

\* The errand of a message, on its way from one request to the next.
LEMMA SealingMovesOn ==
  ASSUME KeysTypeOK, Stages, sealing.at # "no",
         NEW a \in {"asking", "posting"}, sealing' = [sealing EXCEPT !.at = a, !.under = signedIn]
  PROVE  /\ sealing' \in Errand /\ sealing'.at = a
         /\ sealing'.keys = sealing.keys /\ sealing'.under = signedIn
         /\ sealing'.keys \in People
<1>1. /\ sealing \in Errand /\ signedIn \in Devices \cup {Nobody} /\ a \in Errands
  BY DEF KeysTypeOK, Devices, Errands
<1>2. /\ sealing' \in Errand /\ sealing'.at = a
      /\ sealing'.keys = sealing.keys /\ sealing'.under = signedIn
  BY <1>1 DEF Errand
<1> QED BY <1>2, StagesApart

\* Every step keeps the types and the stages.
LEMMA TypeStep ==
  ASSUME KeysTypeOK, Stages, [KeysNext]_keysVars
  PROVE  KeysTypeOK' /\ Stages'
<1> USE IdleStage
<1>1. ASSUME NEW u \in People, SignIn(u) PROVE KeysTypeOK' /\ Stages'
  <2>1. spare' \in [{"signins", "troubles"} -> Nat] BY <1>1, UsesIsTyped DEF SignIn
  <2>2. /\ ready' \in Errand
        /\ ready' = Idle \/ (ready'.at \in {"loading", "registering"} /\ ready'.keys \in People)
    BY <1>1, KeysForIsTyped DEF SignIn
  <2>3. second' \in BOOLEAN BY <1>1 DEF SignIn
  <2> QED BY <1>1, <2>1, <2>2, <2>3 DEF SignIn, KeysTypeOK, Stages, sent
<1>2. CASE SignOut
  <2>1. mixed' \in BOOLEAN /\ identity' \in People \cup {Nobody} /\ registered' \in BOOLEAN
    BY <1>2 DEF SignOut, Forgotten, KeysTypeOK
  <2> QED BY <1>2, <2>1 DEF SignOut, KeysTypeOK, Stages, sent
<1>3. CASE MeChanged
  <2>1. signedIn \in People BY <1>3 DEF MeChanged, KeysTypeOK
  <2>2. /\ ready' \in Errand
        /\ ready' = Idle \/ (ready'.at \in {"loading", "registering"} /\ ready'.keys \in People)
    BY <1>3, <2>1, KeysForIsTyped DEF MeChanged
  <2> QED BY <1>3, <2>2 DEF MeChanged, KeysTypeOK, Stages, sent, blames
<1>4. CASE Loaded BY <1>4, LoadedIsTyped
<1>5. CASE LoadFails \/ RegisterFails
  <2>1. spare' \in [{"signins", "troubles"} -> Nat]
    BY <1>5, UsesIsTyped DEF LoadFails, RegisterFails
  <2> QED BY <1>5, <2>1 DEF LoadFails, RegisterFails, KeysTypeOK, Stages, sent, blames
<1>6. CASE Registered
  <2>1. ready \in Errand /\ ready.keys \in People BY <1>6, StagesApart DEF Registered, KeysTypeOK
  <2>2. owner' \in [Devices -> Devices \cup {Nobody}] /\ registered' \in BOOLEAN
    BY <1>6, <2>1, RegisterIsSticky DEF Registered
  <2> QED BY <1>6, <2>2 DEF Registered, KeysTypeOK, Stages, sent, blames
<1>7. CASE Seal
  <2>1. identity \in People /\ signedIn \in Devices BY <1>7 DEF Seal, KeysTypeOK, Devices
  <2>2. /\ sealing' \in Errand /\ sealing'.at \in {"registering", "asking"}
        /\ sealing'.keys \in People
    BY <1>7, <2>1 DEF Seal, Errand, Errands, Devices
  <2> QED BY <1>7, <2>2 DEF Seal, KeysTypeOK, Stages, machine, blames
<1>8. CASE SealRegistered
  <2>1. sealing \in Errand /\ sealing.keys \in People
    BY <1>8, StagesApart DEF SealRegistered, KeysTypeOK
  <2>2. owner' \in [Devices -> Devices \cup {Nobody}] /\ registered' \in BOOLEAN
    BY <1>8, <2>1, RegisterIsSticky DEF SealRegistered
  <2>3. sealing' \in Errand /\ sealing'.at = "asking" /\ sealing'.keys \in People
    BY <1>8, SealingMovesOn DEF SealRegistered
  <2>4. refused' \in BOOLEAN BY <1>8 DEF SealRegistered
  <2> QED BY <1>8, <2>2, <2>3, <2>4 DEF SealRegistered, KeysTypeOK, Stages, blames
<1>9. CASE SealUnregistered
  <2>1. spare' \in [{"signins", "troubles"} -> Nat]
    BY <1>9, UsesIsTyped DEF SealUnregistered
  <2>2. sealing' \in Errand /\ sealing'.at = "asking" /\ sealing'.keys \in People
    BY <1>9, SealingMovesOn DEF SealUnregistered
  <2> QED BY <1>9, <2>1, <2>2 DEF SealUnregistered, KeysTypeOK, Stages, machine, blames
<1>10. CASE SealedTo
  <2>1. sealing' \in Errand /\ sealing'.at = "posting" /\ sealing'.keys \in People
    BY <1>10, SealingMovesOn DEF SealedTo
  <2>2. sealedTo' \subseteq Devices
    BY <1>10, StagesApart DEF SealedTo, Directory, Devices
  <2> QED BY <1>10, <2>1, <2>2 DEF SealedTo, KeysTypeOK, Stages, machine, blames
<1>11. CASE Posted
  <2>1. messages' \in Seq(Message)
    BY <1>11, PostedIsTyped, AppendedMessage DEF Posted, Mine
  <2> QED BY <1>11, <2>1 DEF Posted, KeysTypeOK, Stages, machine, blames
<1>12. CASE SealFails BY <1>12 DEF SealFails, KeysTypeOK, Stages, machine, blames
<1>13. CASE PeerSends
  <2>1. messages' \in Seq(Message)
    BY <1>13, PostedIsTyped, AppendedMessage DEF PeerSends, Theirs
  <2> QED BY <1>13, <2>1 DEF PeerSends, KeysTypeOK, Stages, machine, blames
<1>14. ASSUME NEW i \in 1..MaxMessages, PeerReads(i) PROVE KeysTypeOK' /\ Stages'
  <2>1. cache' \subseteq Devices
    BY <1>14 DEF PeerReads, Refetched, Directory, KeysTypeOK
  <2>2. unread' \subseteq (1..MaxMessages) \X Devices
    BY <1>14 DEF PeerReads, KeysTypeOK, Devices
  <2> QED BY <1>14, <2>1, <2>2 DEF PeerReads, KeysTypeOK, Stages, machine, sent, blames
<1>15. ASSUME NEW i \in 1..MaxMessages, Reads(i) PROVE KeysTypeOK' /\ Stages'
  <2>1. unread' \subseteq (1..MaxMessages) \X Devices
    BY <1>15 DEF Reads, KeysTypeOK, Devices
  <2> QED BY <1>15, <2>1 DEF Reads, KeysTypeOK, Stages, machine, sent, blames
<1>16. CASE UNCHANGED keysVars
  BY <1>16 DEF keysVars, machine, sent, blames, KeysTypeOK, Stages
<1> QED
  BY <1>1, <1>2, <1>3, <1>4, <1>5, <1>6, <1>7, <1>8, <1>9, <1>10, <1>11, <1>12, <1>13, <1>14,
     <1>15, <1>16 DEF KeysNext

-----------------------------------------------------------------------------
(* Whose keys they are.                                                     *)

\* A row of the directory is never rewritten.
LEMMA DirectoryIsSticky ==
  ASSUME KeysTypeOK, Stages, [KeysNext]_keysVars
  PROVE  \A d \in Devices : owner[d] # Nobody => owner'[d] = owner[d]
<1>1. CASE Registered
  <2>1. ready \in Errand /\ ready.keys \in People BY <1>1, StagesApart DEF Registered, KeysTypeOK
  <2> QED BY <1>1, <2>1, RegisterIsSticky DEF Registered
<1>2. CASE SealRegistered
  <2>1. sealing \in Errand /\ sealing.keys \in People
    BY <1>2, StagesApart DEF SealRegistered, KeysTypeOK
  <2> QED BY <1>2, <2>1, RegisterIsSticky DEF SealRegistered
<1>3. CASE ~Registered /\ ~SealRegistered
  <2>1. UNCHANGED owner
    BY <1>3 DEF KeysNext, SignIn, SignOut, MeChanged, Loaded, LoadFails, RegisterFails, Seal,
      SealUnregistered, SealedTo, Posted, SealFails, PeerSends, PeerReads, Reads, keysVars
  <2> QED BY <2>1
<1> QED BY <1>1, <1>2, <1>3

\* As long as nobody signs out over a request, it is for whoever is signed in.
LEMMA ForWhomStep ==
  ASSUME KeysTypeOK, Stages, ~mixed => ForWhomItIs, [KeysNext]_keysVars
  PROVE  ~mixed' => ForWhomItIs'
<1> SUFFICES ASSUME ~mixed' PROVE ForWhomItIs' OBVIOUS
<1> USE IdleStage
<1>1. ASSUME NEW u \in People, SignIn(u) PROVE ForWhomItIs'
  <2>1. ~mixed /\ ForWhomItIs /\ signedIn = Nobody BY <1>1 DEF SignIn
  <2>2. ready = Idle BY <2>1, StagesApart, SealedAssumption DEF ForWhomItIs
  <2>3. /\ signedIn' = u /\ unkeyed' = FALSE
        /\ UNCHANGED <<kind, identity>>
    BY <1>1 DEF SignIn
  <2>4. kind = "phone" => identity = Nobody BY <2>1 DEF ForWhomItIs
  <2>5. IF identity = u THEN ready' = Idle ELSE ready'.at = "loading" /\ ready'.keys = u
    BY <1>1, <2>2, KeysForIsTyped DEF SignIn
  <2>6. ready' # Idle => signedIn' = ready'.keys BY <2>3, <2>5
  <2>7. ready'.at # "registering" BY <2>5
  <2>8. ready' = Idle => identity' = signedIn' BY <2>3, <2>5
  <2>9. kind' = "phone" => identity' = Nobody BY <2>3, <2>4
  <2> QED BY <2>6, <2>7, <2>8, <2>9 DEF ForWhomItIs
<1>2. CASE SignOut
  <2>1. ~mixed /\ ready = Idle BY <1>2 DEF SignOut
  <2>2. signedIn' = Nobody /\ UNCHANGED <<kind, ready>> BY <1>2 DEF SignOut
  <2>3. kind' = "phone" => identity' = Nobody BY <1>2, <2>2 DEF SignOut, Forgotten
  <2> QED BY <2>1, <2>2, <2>3 DEF ForWhomItIs
<1>3. CASE MeChanged
  <2>1. ~mixed /\ ForWhomItIs /\ signedIn \in People
    BY <1>3 DEF MeChanged, blames, KeysTypeOK
  <2>2. ready'.at = "loading" /\ ready'.keys = signedIn
    BY <1>3, <2>1, KeysForIsTyped DEF MeChanged
  <2>3. UNCHANGED <<kind, signedIn, identity>> BY <1>3 DEF MeChanged
  <2> QED BY <2>1, <2>2, <2>3 DEF ForWhomItIs
<1>4. CASE Loaded
  <2>1. ~mixed /\ ForWhomItIs BY <1>4 DEF Loaded
  <2>2. signedIn = ready.keys BY <1>4, <2>1 DEF ForWhomItIs, Loaded
  <2>3. identity' = ready.keys /\ UNCHANGED <<kind, signedIn>> BY <1>4 DEF Loaded
  <2>4. ready' # Idle => ready'.keys = ready.keys /\ ready'.under = signedIn
    BY <1>4, LoadedIsTyped
  <2> QED BY <2>1, <2>2, <2>3, <2>4 DEF ForWhomItIs
<1>5. CASE LoadFails
  BY <1>5 DEF LoadFails, ForWhomItIs
<1>6. CASE Registered \/ RegisterFails
  <2>1. ~mixed /\ ForWhomItIs BY <1>6 DEF Registered, RegisterFails, blames
  <2>2. ready.at = "registering" /\ ready # Idle BY <1>6 DEF Registered, RegisterFails
  <2>3. signedIn = ready.keys /\ identity = ready.keys BY <2>1, <2>2 DEF ForWhomItIs
  <2>4. ready' = Idle /\ UNCHANGED <<kind, signedIn, identity>>
    BY <1>6 DEF Registered, RegisterFails
  <2> QED BY <2>1, <2>3, <2>4 DEF ForWhomItIs
<1>7. CASE UNCHANGED <<kind, signedIn, identity, ready, unkeyed, mixed>>
  BY <1>7 DEF ForWhomItIs
<1>8. (Seal \/ SealRegistered \/ SealUnregistered \/ SealedTo \/ Posted \/ SealFails \/ PeerSends
         \/ (\E i \in 1..MaxMessages : PeerReads(i) \/ Reads(i)) \/ UNCHANGED keysVars)
      => UNCHANGED <<kind, signedIn, identity, ready, unkeyed, mixed>>
  BY DEF Seal, SealRegistered, SealUnregistered, SealedTo, Posted, SealFails, PeerSends,
     PeerReads, Reads, keysVars, machine, blames
<1> QED BY <1>1, <1>2, <1>3, <1>4, <1>5, <1>6, <1>7, <1>8 DEF KeysNext

\* As long as the desktop has kept to one account as well, the keys in memory
\* are that account's and so is everything they are used for.
LEMMA OneAccountStep ==
  ASSUME KeysTypeOK, Stages, ~mixed => ForWhomItIs, (~mixed /\ ~second) => OneAccount,
         [KeysNext]_keysVars
  PROVE  (~mixed' /\ ~second') => OneAccount'
<1> SUFFICES ASSUME ~mixed', ~second' PROVE OneAccount' OBVIOUS
<1> USE IdleStage
<1>1. ASSUME NEW u \in People, SignIn(u) PROVE OneAccount'
  <2>1. ~mixed /\ ~second /\ (kind = "desktop" => identity \in {u, Nobody}) /\ signedIn = Nobody
    BY <1>1 DEF SignIn
  <2>2. ForWhomItIs /\ OneAccount BY <2>1
  <2>3. sealing = Idle BY <2>1, <2>2, StagesApart, SealedAssumption DEF OneAccount
  <2>4. identity \in {u, Nobody} BY <2>1, <2>2 DEF ForWhomItIs, KeysTypeOK
  <2>5. signedIn' = u /\ UNCHANGED <<identity, registered, owner, sealing>>
    BY <1>1 DEF SignIn, sent
  <2> QED BY <2>2, <2>3, <2>4, <2>5 DEF OneAccount
<1>2. CASE SignOut
  <2>1. ~mixed /\ ~second /\ sealing = Idle BY <1>2 DEF SignOut
  <2>2. signedIn' = Nobody /\ UNCHANGED <<owner, sealing>> BY <1>2 DEF SignOut, sent
  <2>3. registered' => UNCHANGED <<identity, registered>> BY <1>2 DEF SignOut, Forgotten
  <2> QED BY <2>1, <2>2, <2>3 DEF OneAccount
<1>3. CASE Loaded
  <2>1. ~mixed /\ ~second /\ ForWhomItIs /\ OneAccount BY <1>3 DEF Loaded
  <2>2. signedIn = ready.keys BY <1>3, <2>1 DEF ForWhomItIs, Loaded
  <2>3. identity' = signedIn /\ (registered' => registered)
    BY <1>3, <2>2 DEF Loaded
  <2>4. UNCHANGED <<signedIn, owner, sealing, refused>> BY <1>3 DEF Loaded, sent
  <2>5. signedIn # Nobody BY <1>3, <2>2, StagesApart, SealedAssumption DEF Loaded
  <2>6. registered' => identity' = identity BY <2>1, <2>3, <2>5 DEF OneAccount
  <2> QED BY <2>1, <2>3, <2>4, <2>6 DEF OneAccount
<1>4. CASE Registered
  <2>1. ~mixed /\ ~second /\ ForWhomItIs /\ OneAccount BY <1>4 DEF Registered, blames
  <2>2. ready.keys \in People /\ ready \in Errand
    BY <1>4, StagesApart DEF Registered, KeysTypeOK
  <2>3. signedIn = ready.keys /\ identity = ready.keys /\ ready.under = ready.keys
    BY <1>4, <2>1 DEF ForWhomItIs, Registered
  <2>4. UNCHANGED <<signedIn, identity, sealing, refused>> BY <1>4 DEF Registered, sent
  <2>5. /\ Accepts(ready) => owner'[identity] = identity
        /\ ~Accepts(ready) => UNCHANGED <<owner, registered>>
    BY <1>4, <2>2, <2>3, RegisterIsSticky DEF Registered
  <2>6. registered' => identity # Nobody /\ owner'[identity] = identity
    BY <2>1, <2>2, <2>3, <2>5, SealedAssumption DEF OneAccount
  <2>7. (sealing.at \in {"asking", "posting"} /\ ~refused) => owner'[sealing.keys] = sealing.keys
    BY <2>1, <2>3, <2>5 DEF OneAccount
  <2> QED BY <2>1, <2>4, <2>6, <2>7 DEF OneAccount
<1>5. CASE Seal
  <2>1. ~mixed /\ ~second /\ OneAccount BY <1>5 DEF Seal, blames
  <2>2. identity = signedIn BY <1>5, <2>1 DEF Seal, OneAccount
  <2>3. /\ sealing'.keys = identity /\ sealing'.under = signedIn
        /\ sealing'.at = IF registered THEN "asking" ELSE "registering"
    BY <1>5 DEF Seal
  <2>4. UNCHANGED <<signedIn, identity, registered, owner>> BY <1>5 DEF Seal, machine
  <2> QED BY <2>1, <2>2, <2>3, <2>4 DEF OneAccount
<1>6. CASE SealRegistered
  <2>1. ~mixed /\ ~second /\ OneAccount BY <1>6 DEF SealRegistered, blames
  <2>2. sealing.keys \in People /\ sealing \in Errand
    BY <1>6, StagesApart DEF SealRegistered, KeysTypeOK
  <2>3. sealing.keys = signedIn /\ sealing.under = signedIn /\ identity = signedIn
    BY <1>6, <2>1 DEF OneAccount, SealRegistered
  <2>4. /\ Accepts(sealing) => owner'[signedIn] = signedIn
        /\ ~Accepts(sealing) => UNCHANGED <<owner, registered>>
    BY <1>6, <2>2, <2>3, RegisterIsSticky DEF SealRegistered
  <2>5. sealing'.at = "asking" /\ sealing'.keys = signedIn /\ sealing'.under = signedIn
    BY <1>6, <2>3, SealingMovesOn DEF SealRegistered
  <2>6. UNCHANGED <<signedIn, identity>> /\ refused' = ~Accepts(sealing)
    BY <1>6 DEF SealRegistered
  <2>7. registered' => identity # Nobody /\ owner'[identity] = identity
    BY <2>1, <2>2, <2>3, <2>4, SealedAssumption DEF OneAccount
  <2> QED BY <2>1, <2>3, <2>4, <2>5, <2>6, <2>7 DEF OneAccount
<1>7. CASE SealUnregistered \/ SealedTo
  <2>1. ~mixed /\ ~second /\ OneAccount BY <1>7 DEF SealUnregistered, SealedTo, blames
  <2>2. sealing.keys = signedIn /\ identity = signedIn
    BY <1>7, <2>1 DEF OneAccount, SealUnregistered, SealedTo
  <2>3. sealing'.keys = sealing.keys /\ sealing'.under = signedIn
    BY <1>7, SealingMovesOn DEF SealUnregistered, SealedTo
  <2>4. UNCHANGED <<signedIn, identity, registered, owner>>
    BY <1>7 DEF SealUnregistered, SealedTo, machine
  <2>5. ~refused' => ~refused /\ sealing.at = "asking"
    BY <1>7 DEF SealUnregistered, SealedTo
  <2> QED BY <2>1, <2>2, <2>3, <2>4, <2>5 DEF OneAccount
<1>8. CASE Posted \/ SealFails
  <2>1. ~mixed /\ ~second /\ OneAccount BY <1>8 DEF Posted, SealFails, blames
  <2>2. sealing' = Idle /\ UNCHANGED <<signedIn, identity, registered, owner>>
    BY <1>8 DEF Posted, SealFails, machine
  <2> QED BY <2>1, <2>2 DEF OneAccount
<1>9. CASE UNCHANGED <<signedIn, identity, registered, owner, sealing, refused, second, mixed>>
  BY <1>9 DEF OneAccount
<1>10. (MeChanged \/ LoadFails \/ RegisterFails \/ PeerSends
          \/ (\E i \in 1..MaxMessages : PeerReads(i) \/ Reads(i)) \/ UNCHANGED keysVars)
       => UNCHANGED <<signedIn, identity, registered, owner, sealing, refused, second, mixed>>
  BY DEF MeChanged, LoadFails, RegisterFails, PeerSends, PeerReads, Reads, keysVars, machine,
     sent, blames
<1> QED BY <1>1, <1>2, <1>3, <1>4, <1>5, <1>6, <1>7, <1>8, <1>9, <1>10 DEF KeysNext

-----------------------------------------------------------------------------
(* What is written and what is shown.                                       *)

\* A message names devices, and an author who is somebody.
LEMMA MessagesAreTyped ==
  ASSUME KeysTypeOK, NEW i \in DOMAIN messages
  PROVE  /\ messages[i].device \in Devices /\ messages[i].author \in Devices
         /\ messages[i].author # Nobody
<1>1. messages \in Seq(Message) BY DEF KeysTypeOK
<1>2. messages[i] \in Message BY <1>1
<1>3. messages[i].device \in Devices /\ messages[i].author \in Devices BY <1>2 DEF Message
<1> QED BY <1>3, SealedAssumption DEF Devices

\* Nothing is posted but under its author's name, or with the blame on it.
LEMMA AttributedStep ==
  ASSUME KeysTypeOK, Stages, (~mixed /\ ~second) => OneAccount, Attributed, OfMessages,
         [KeysNext]_keysVars
  PROVE  Attributed'
<1> USE IdleStage
<1>1. \A d \in Devices : owner[d] # Nobody => owner'[d] = owner[d] BY DirectoryIsSticky
<1>2. Peer \in Devices /\ Peer # Nobody BY SealedAssumption DEF Devices
<1>3. owner'[Peer] = Peer BY <1>1, <1>2 DEF Attributed
<1>4. \A i \in DOMAIN messages :
        /\ messages[i].device \in Devices /\ messages[i].author \in Devices
        /\ messages[i].author # Nobody
  BY MessagesAreTyped
<1>5. \A i \in DOMAIN messages :
        messages[i].marred \/ owner'[messages[i].device] = messages[i].author
  BY <1>1, <1>4 DEF Attributed
<1>6. CASE UNCHANGED messages BY <1>3, <1>5, <1>6 DEF Attributed
<1>7. CASE Posted
  <2>1. /\ Mine \in Message /\ messages' = Append(messages, Mine) /\ UNCHANGED owner
    BY <1>7, PostedIsTyped DEF Posted, Mine
  <2>2. Mine.marred \/ owner'[Mine.device] = Mine.author
    <3> SUFFICES ASSUME ~Mine.marred PROVE owner[sealing.keys] = sealing.under
      BY <2>1 DEF Mine
    <3>1. ~refused /\ ~second /\ ~mixed BY DEF Mine
    <3> QED BY <1>7, <3>1 DEF OneAccount, Posted
  <2> QED BY <1>3, <1>5, <2>1, <2>2, AppendedMessage DEF Attributed
<1>8. CASE PeerSends
  <2>1. Theirs \in Message /\ messages' = Append(messages, Theirs)
    BY <1>8, PostedIsTyped DEF PeerSends, Theirs
  <2>2. owner'[Theirs.device] = Theirs.author BY <1>3 DEF Theirs
  <2> QED BY <1>3, <1>5, <2>1, <2>2, AppendedMessage DEF Attributed
<1>9. Posted \/ PeerSends \/ UNCHANGED messages
  BY DEF KeysNext, SignIn, SignOut, MeChanged, Loaded, LoadFails, Registered, RegisterFails, Seal,
     SealRegistered, SealUnregistered, SealedTo, SealFails, PeerReads, Reads, keysVars, sent
<1> QED BY <1>6, <1>7, <1>8, <1>9

\* A message that is under its author's name opens wherever it was sealed to,
\* from the directory as from the list that was cached of it.
LEMMA AttributedOpens ==
  ASSUME KeysTypeOK, Attributed, NEW i \in DOMAIN messages, ~messages[i].marred,
         NEW u \in messages[i].to
  PROVE  Opens(messages[i], u, Directory) /\ Opens(messages[i], u, Refetched(messages[i]))
<1>1. owner[messages[i].device] = messages[i].author BY DEF Attributed
<1>2. messages[i].device \in Directory BY <1>1, MessagesAreTyped DEF Directory
<1> QED BY <1>1, <1>2 DEF Opens, Refetched

\* Nobody is shown that a message cannot be read, but with the blame on it.
LEMMA ReadStep ==
  ASSUME KeysTypeOK, Stages, ~mixed => ForWhomItIs, Attributed, OfMessages, SealedIsRead,
         [KeysNext]_keysVars
  PROVE  OfMessages' /\ SealedIsRead'
<1>1. CASE UNCHANGED <<messages, unread>> BY <1>1 DEF OfMessages, SealedIsRead
<1>2. ASSUME NEW m \in Message, messages' = Append(messages, m), UNCHANGED unread
      PROVE  OfMessages' /\ SealedIsRead'
  <2>1. \A i \in DOMAIN messages : i \in DOMAIN messages' /\ messages'[i] = messages[i]
    BY <1>2, AppendedMessage
  <2>2. OfMessages' BY <1>2, <2>1 DEF OfMessages
  <2>3. ASSUME NEW i \in DOMAIN messages', NEW u \in messages'[i].to, <<i, u>> \in unread'
        PROVE  messages'[i].marred
    <3>1. i \in DOMAIN messages
      <4>1. <<i, u>> \in unread /\ <<i, u>>[1] = i BY <1>2, <2>3
      <4> QED BY <4>1 DEF OfMessages
    <3> QED BY <1>2, <2>1, <2>3, <3>1 DEF SealedIsRead
  <2> QED BY <2>2, <2>3 DEF SealedIsRead
<1>3. ASSUME NEW i \in DOMAIN messages, NEW u, UNCHANGED messages,
             unread' \in {unread, unread \cup {<<i, u>>}},
             unread' # unread => u \notin messages[i].to \/ messages[i].marred
      PROVE  OfMessages' /\ SealedIsRead'
  <2>1. OfMessages' BY <1>3 DEF OfMessages
  <2>2. ASSUME NEW j \in DOMAIN messages', NEW v \in messages'[j].to, <<j, v>> \in unread'
        PROVE  messages'[j].marred
    BY <1>3, <2>2 DEF SealedIsRead
  <2> QED BY <2>1, <2>2 DEF SealedIsRead
<1>4. CASE Posted
  BY <1>2, <1>4, PostedIsTyped DEF Posted, Mine
<1>5. CASE PeerSends
  BY <1>2, <1>5, PostedIsTyped DEF PeerSends, Theirs
<1>6. ASSUME NEW i \in 1..MaxMessages, PeerReads(i) PROVE OfMessages' /\ SealedIsRead'
  <2>1. /\ i \in DOMAIN messages /\ UNCHANGED messages
        /\ unread' = IF Opens(messages[i], Peer, Refetched(messages[i]))
                     THEN unread ELSE unread \cup {<<i, Peer>>}
    BY <1>6 DEF PeerReads, sent
  <2>2. unread' # unread => Peer \notin messages[i].to \/ messages[i].marred
    BY <2>1, AttributedOpens
  <2> QED BY <1>3, <2>1, <2>2
<1>7. ASSUME NEW i \in 1..MaxMessages, Reads(i) PROVE OfMessages' /\ SealedIsRead'
  <2> DEFINE early == unkeyed \/ second \/ mixed \/ (kind = "desktop" /\ ready # Idle)
  <2>1. /\ i \in DOMAIN messages /\ UNCHANGED messages /\ signedIn # Nobody
        /\ kind = "phone" => identity # Nobody \/ ready = Idle
        /\ unread' = IF Opens(messages[i], identity, Directory) \/ early
                     THEN unread ELSE unread \cup {<<i, signedIn>>}
    BY <1>7 DEF Reads, sent
  <2>2. ~early => identity = signedIn
    BY <2>1 DEF ForWhomItIs, KeysTypeOK
  <2>3. unread' # unread => signedIn \notin messages[i].to \/ messages[i].marred
    BY <2>1, <2>2, AttributedOpens
  <2> QED BY <1>3, <2>1, <2>3
<1>8. \/ Posted \/ PeerSends \/ UNCHANGED <<messages, unread>>
      \/ \E i \in 1..MaxMessages : PeerReads(i) \/ Reads(i)
  BY DEF KeysNext, SignIn, SignOut, MeChanged, Loaded, LoadFails, Registered, RegisterFails, Seal,
     SealRegistered, SealUnregistered, SealedTo, SealFails, keysVars, sent
<1> QED BY <1>1, <1>4, <1>5, <1>6, <1>7, <1>8

-----------------------------------------------------------------------------

\* It holds at first, with an empty directory but for the peer.
LEMMA KeysInvInit == KeysInit => KeysInv
<1> SUFFICES ASSUME KeysInit PROVE KeysInv OBVIOUS
<1> USE IdleStage
<1>1. Peer \in Devices /\ Peer # Nobody /\ Nobody \notin People
  BY SealedAssumption DEF Devices
<1>2. owner \in [Devices -> Devices \cup {Nobody}] /\ owner[Peer] = Peer
  BY <1>1 DEF KeysInit
<1>3. spare \in [{"signins", "troubles"} -> Nat]
  <2>1. spare = [signins |-> MaxSignIns, troubles |-> MaxTroubles] BY DEF KeysInit
  <2>2. MaxSignIns \in Nat /\ MaxTroubles \in Nat BY SealedAssumption
  <2> QED BY <2>1, <2>2
<1>4. messages \in Seq(Message) /\ DOMAIN messages = {} BY DEF KeysInit
<1>5. KeysTypeOK BY <1>2, <1>3, <1>4 DEF KeysInit, KeysTypeOK
<1>6. Stages /\ ForWhomItIs /\ OneAccount
  BY <1>1 DEF KeysInit, Stages, ForWhomItIs, OneAccount
<1>7. Attributed /\ OfMessages /\ SealedIsRead
  BY <1>2, <1>4 DEF KeysInit, Attributed, OfMessages, SealedIsRead
<1> QED BY <1>5, <1>6, <1>7 DEF KeysInv

LEMMA KeysInvStep == KeysInv /\ [KeysNext]_keysVars => KeysInv'
<1> SUFFICES ASSUME KeysInv, [KeysNext]_keysVars PROVE KeysInv' OBVIOUS
<1> USE DEF KeysInv
<1>1. KeysTypeOK' /\ Stages' BY TypeStep
<1>2. ~mixed' => ForWhomItIs' BY ForWhomStep
<1>3. (~mixed' /\ ~second') => OneAccount' BY OneAccountStep
<1>4. Attributed' BY AttributedStep
<1>5. OfMessages' /\ SealedIsRead' BY ReadStep
<1> QED BY <1>1, <1>2, <1>3, <1>4, <1>5

\* Whoever had a device the server knew of when a message was sealed reads it
\* there as its author's, unless the server could not be told of the device it
\* was sealed on, a desktop changed accounts or somebody signed out in the
\* middle (e2e.ts seal, open and initE2e, the directory and its cache); for any
\* people on the machine and any number of messages, sign-ins and failures.
THEOREM SealedIsAlwaysRead == KeysSpec => []WhatIsSealedIsRead
<1>1. KeysInv => WhatIsSealedIsRead BY DEF KeysInv, WhatIsSealedIsRead
<1> QED BY <1>1, KeysInvInit, KeysInvStep, PTL DEF KeysSpec
=============================================================================
