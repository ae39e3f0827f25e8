---------------------------- MODULE SealedMessages ----------------------------
(***************************************************************************)
(* The keys behind a direct message: renderer/e2e.ts and mobile/src/e2e.ts, *)
(* the server's directory of devices, and signing in and out around them.   *)
(*                                                                          *)
(* One machine, a desktop or a phone, is used by several people one after   *)
(* the other; Peer is on a machine of its own.  Everybody is in one         *)
(* conversation.  A device is what a person's keys on a machine are: here   *)
(* it goes by the name of the person whose keys they are, and `owner' is    *)
(* who the server believes it belongs to.  A message is sealed to a set of  *)
(* devices, and is drawn only if its device can be looked up as its         *)
(* author's.                                                                *)
(*                                                                          *)
(* OnlyTheCache and KeptInMemory are plausible bugs of the definition that  *)
(* follows them.                                                            *)
(***************************************************************************)
EXTENDS Naturals, Sequences, FiniteSets

CONSTANTS
  People,       \* who uses the machine
  Peer,         \* who they write to
  Nobody,
  MaxMessages,  \* bound on messages
  MaxSignIns,   \* bound on sign-ins
  MaxTroubles   \* bound on calls that fail

ASSUME SealedAssumption ==
  /\ Peer \notin People /\ Nobody \notin People \cup {Peer}
  /\ MaxMessages \in Nat /\ MaxSignIns \in Nat /\ MaxTroubles \in Nat

Devices == People \cup {Peer}
Errands == {"no", "loading", "registering", "asking", "posting"}
\* initE2e, and seal: how far it is, with whose keys, and the account its
\* request went out under.
Errand == [at : Errands, keys : Devices \cup {Nobody}, under : Devices \cup {Nobody}]
Idle == [at |-> "no", keys |-> Nobody, under |-> Nobody]

VARIABLES
  kind,        \* the machine is a desktop or a phone
  owner,       \* deviceKey rows
  signedIn,
  identity,
  registered,
  ready,       \* initE2e, under way
  sealing,     \* seal and the request after it, under way
  sealedTo,    \* the devices it was sealed to
  refused,     \* the server could not be told of the device for it
  messages,
  cache,       \* deviceCache of the peer
  unread,      \* who was shown that a message cannot be read, although the keys
               \* were not still to come, and had not failed to
  unkeyed,     \* the keys of the account could not be read or made
  second,      \* a desktop: not the first account since it started
  mixed,       \* somebody signed out in the middle of one of the above
  spare

machine == <<kind, signedIn, identity, registered, ready>>
sent == <<sealing, sealedTo, refused, messages>>
blames == <<unkeyed, second, mixed>>
keysVars == <<machine, owner, sent, cache, unread, blames, spare>>

Message == [author : Devices, device : Devices, to : SUBSET Devices, marred : BOOLEAN]

KeysTypeOK ==
  /\ kind \in {"desktop", "phone"}
  /\ owner \in [Devices -> Devices \cup {Nobody}]
  /\ signedIn \in People \cup {Nobody} /\ identity \in People \cup {Nobody}
  /\ registered \in BOOLEAN /\ ready \in Errand /\ sealing \in Errand
  /\ sealedTo \subseteq Devices /\ refused \in BOOLEAN
  /\ messages \in Seq(Message) /\ cache \subseteq Devices
  /\ unread \subseteq (1..MaxMessages) \X Devices
  /\ unkeyed \in BOOLEAN /\ second \in BOOLEAN /\ mixed \in BOOLEAN
  /\ spare \in [{"signins", "troubles"} -> Nat]

KeysInit ==
  /\ kind \in {"desktop", "phone"}
  /\ owner = [d \in Devices |-> IF d = Peer THEN Peer ELSE Nobody]
  /\ signedIn = Nobody /\ identity = Nobody /\ registered = FALSE
  /\ ready = Idle /\ sealing = Idle /\ sealedTo = {} /\ refused = FALSE
  /\ messages = <<>> /\ cache = {} /\ unread = {}
  /\ unkeyed = FALSE /\ second = FALSE /\ mixed = FALSE
  /\ spare = [signins |-> MaxSignIns, troubles |-> MaxTroubles]

Uses(what) == spare[what] > 0 /\ spare' = [spare EXCEPT ![what] = @ - 1]

\* What dmDevices answers.
Directory == {d \in Devices : owner[d] # Nobody}

-----------------------------------------------------------------------------
(* Coming and going.                                                        *)

\* initE2e: an answer at hand, or one that is under way, will do.
KeysFor(u) ==
  IF identity = u \/ ready # Idle
  THEN UNCHANGED ready
  ELSE ready' = [Idle EXCEPT !.at = "loading", !.keys = u]

SignIn(u) ==
  /\ signedIn = Nobody
  /\ Uses("signins")
  /\ signedIn' = u
  /\ second' = (second \/ (kind = "desktop" /\ identity \notin {u, Nobody}))
  /\ unkeyed' = FALSE
  /\ KeysFor(u)
  /\ UNCHANGED <<kind, identity, registered, owner, sent, cache, unread, mixed>>

KeptInMemory == UNCHANGED <<identity, registered>>
\* resetE2e, which the desktop does not have.
Forgotten ==
  IF kind = "phone"
  THEN identity' = Nobody /\ registered' = FALSE
  ELSE UNCHANGED <<identity, registered>>

SignOut ==
  /\ signedIn # Nobody
  /\ signedIn' = Nobody
  /\ Forgotten
  /\ mixed' = (mixed \/ ready # Idle \/ sealing # Idle)
  /\ UNCHANGED <<kind, ready, owner, sent, cache, unread, unkeyed, second, spare>>

\* A profile change makes the phone ask for its keys again.
MeChanged ==
  /\ kind = "phone" /\ signedIn # Nobody
  /\ identity # signedIn /\ ready = Idle
  /\ KeysFor(signedIn)
  /\ UNCHANGED <<kind, signedIn, identity, registered, owner, sent, cache, unread, blames, spare>>

-----------------------------------------------------------------------------
(* The keys of an account.                                                  *)

\* The keys are on the disk, now if not before; the server is told of them
\* unless it was already.
Loaded ==
  /\ ready.at = "loading"
  /\ identity' = ready.keys
  /\ registered' = (kind = "desktop" /\ registered)
  /\ ready' = IF registered' THEN Idle ELSE [ready EXCEPT !.at = "registering", !.under = signedIn]
  /\ unkeyed' = (unkeyed /\ signedIn # ready.keys)
  /\ UNCHANGED <<kind, signedIn, owner, sent, cache, unread, second, mixed, spare>>

LoadFails ==
  /\ ready.at = "loading"
  /\ Uses("troubles")
  /\ ready' = Idle
  /\ unkeyed' = TRUE
  /\ UNCHANGED <<kind, signedIn, identity, registered, owner, sent, cache, unread, second, mixed>>

\* registerDevice: a device keeps the owner it first had.
Accepts(e) == e.under # Nobody /\ owner[e.keys] \in {Nobody, e.under}
Register(e) ==
  IF Accepts(e)
  THEN owner' = [owner EXCEPT ![e.keys] = e.under] /\ registered' = TRUE
  ELSE UNCHANGED <<owner, registered>>

Registered ==
  /\ ready.at = "registering"
  /\ Register(ready)
  /\ ready' = Idle
  /\ UNCHANGED <<kind, signedIn, identity, sent, cache, unread, blames, spare>>

RegisterFails ==
  /\ ready.at = "registering"
  /\ Uses("troubles")
  /\ ready' = Idle
  /\ UNCHANGED <<kind, signedIn, identity, registered, owner, sent, cache, unread, blames>>

-----------------------------------------------------------------------------
(* Sending.                                                                 *)

\* seal, up to its first request.  A phone waits for keys that are coming.
Seal ==
  /\ signedIn # Nobody /\ sealing = Idle
  /\ Len(messages) < MaxMessages
  /\ identity # Nobody
  /\ sealing' = [at |-> IF registered THEN "asking" ELSE "registering",
                 keys |-> identity, under |-> signedIn]
  /\ refused' = FALSE
  /\ UNCHANGED <<machine, owner, sealedTo, messages, cache, unread, blames, spare>>

SealRegistered ==
  /\ sealing.at = "registering"
  /\ Register(sealing)
  /\ refused' = ~Accepts(sealing)
  /\ sealing' = [sealing EXCEPT !.at = "asking", !.under = signedIn]
  /\ UNCHANGED <<kind, signedIn, identity, ready, sealedTo, messages, cache, unread, blames, spare>>

\* It goes on all the same.
SealUnregistered ==
  /\ sealing.at = "registering"
  /\ Uses("troubles")
  /\ refused' = TRUE
  /\ sealing' = [sealing EXCEPT !.at = "asking", !.under = signedIn]
  /\ UNCHANGED <<machine, owner, sealedTo, messages, cache, unread, blames>>

\* The devices are always asked for again; this one is always among them.
SealedTo ==
  /\ sealing.at = "asking" /\ sealing.under # Nobody
  /\ sealedTo' = Directory \cup {sealing.keys}
  /\ sealing' = [sealing EXCEPT !.at = "posting", !.under = signedIn]
  /\ UNCHANGED <<machine, owner, refused, messages, cache, unread, blames, spare>>

Posted ==
  /\ sealing.at = "posting" /\ sealing.under # Nobody
  /\ messages' = Append(messages,
       [author |-> sealing.under, device |-> sealing.keys, to |-> sealedTo,
        marred |-> refused \/ second \/ mixed])
  /\ sealing' = Idle /\ sealedTo' = {} /\ refused' = FALSE
  /\ UNCHANGED <<machine, owner, cache, unread, blames, spare>>

\* Nobody is signed in any more.
SealFails ==
  /\ sealing.at \in {"asking", "posting"} /\ sealing.under = Nobody
  /\ sealing' = Idle /\ sealedTo' = {} /\ refused' = FALSE
  /\ UNCHANGED <<machine, owner, messages, cache, unread, blames, spare>>

PeerSends ==
  /\ Len(messages) < MaxMessages
  /\ messages' = Append(messages,
       [author |-> Peer, device |-> Peer, to |-> Directory, marred |-> FALSE])
  /\ UNCHANGED <<machine, owner, sealing, sealedTo, refused, cache, unread, blames, spare>>

-----------------------------------------------------------------------------
(* Reading.                                                                 *)

\* open, on a device that knows some devices: the key wrapped for it, and a
\* sender who is the author's.
Opens(m, me, known) ==
  /\ me \in m.to
  /\ m.device \in known /\ owner[m.device] = m.author

OnlyTheCache(m) == IF cache = {} THEN Directory ELSE cache
\* open: "A device that registered after the list was cached".
Refetched(m) == IF m.device \in cache THEN cache ELSE Directory

PeerReads(i) ==
  /\ i \in DOMAIN messages
  /\ cache' = Refetched(messages[i])
  /\ unread' = IF Opens(messages[i], Peer, cache') THEN unread ELSE unread \cup {<<i, Peer>>}
  /\ UNCHANGED <<machine, owner, sent, blames, spare>>

\* A message arrives, or a page of history with it; a phone without keys waits
\* for those that are coming.
Reads(i) ==
  /\ i \in DOMAIN messages
  /\ signedIn # Nobody
  /\ kind = "phone" => identity # Nobody \/ ready = Idle
  /\ LET early == unkeyed \/ second \/ mixed \/ (kind = "desktop" /\ ready # Idle)
     IN unread' = IF Opens(messages[i], identity, Directory) \/ early
                  THEN unread
                  ELSE unread \cup {<<i, signedIn>>}
  /\ UNCHANGED <<machine, owner, sent, cache, blames, spare>>

KeysNext ==
  \/ \E u \in People : SignIn(u)
  \/ SignOut \/ MeChanged
  \/ Loaded \/ LoadFails \/ Registered \/ RegisterFails
  \/ Seal \/ SealRegistered \/ SealUnregistered \/ SealedTo \/ Posted \/ SealFails \/ PeerSends
  \/ \E i \in 1..MaxMessages : PeerReads(i) \/ Reads(i)

KeysSpec == KeysInit /\ [][KeysNext]_keysVars

-----------------------------------------------------------------------------

\* Whoever had a device the server knew of when a message was sealed can read
\* it there, and it is shown as its author's - through sign-outs, keys that are
\* made late and directories fetched long ago - unless the server could not be
\* told of the device it was sealed on, a desktop changed accounts, or somebody
\* signed out in the middle.
SealedIsRead ==
  \A i \in DOMAIN messages : \A u \in messages[i].to :
    <<i, u>> \in unread => messages[i].marred

\* The same, in states that are typed: no key, device or row of anybody else's.
WhatIsSealedIsRead == KeysTypeOK /\ SealedIsRead

\* "make sure the server has the public halves": a device that has done so is
\* in the directory as its person's.  It does not hold: the desktop remembers
\* having registered, not whom, and never registers a second account.
ServerKnowsTheDevice ==
  (registered /\ identity # Nobody /\ ready = Idle /\ ~mixed) => owner[identity] = identity
=============================================================================
