------------------------------ MODULE Microphone ------------------------------
(***************************************************************************)
(* Whether the microphone is live: applyMic, openMic, ensureMicMeter and    *)
(* what else of useVoice decides it, together with what the others in the   *)
(* call are told of it (publishVoiceState).                                 *)
(*                                                                          *)
(* Everything that may keep a microphone silent is in one set, off.  Each   *)
(* change of it asks applyMic, which mutes and unmutes what is published    *)
(* and opens a microphone when there ought to be one.  Opening takes an     *)
(* answer of the operating system, a quarter of a second of sound from the  *)
(* device and an answer of LiveKit; in between anything may change.         *)
(*                                                                          *)
(* A function of the state stands for what runs without an await; what      *)
(* comes after an await is a step of its own, and goes before everything    *)
(* else once the promise is settled.  Muting and unmuting a track that is   *)
(* there is done at once.                                                   *)
(*                                                                          *)
(* OpenAgain, UnforcedSay and the like are plausible bugs of the definition *)
(* that follows them.                                                       *)
(***************************************************************************)
EXTENDS Naturals, FiniteSets

CONSTANTS
  MaxRooms,    \* bound on calls entered
  MaxOpens,    \* bound on microphones opened
  MaxTurns,    \* bound on changes of mind
  MaxTroubles  \* bound on failures, interruptions and changes of devices

NoTrack == 0
NoRoom == 0
Tracks == 1..MaxOpens

\* What keeps a microphone silent: mutedRef, deafenedRef, pushMutedRef,
\* serverMutedRef, listenOnlyRef, and a push-to-talk key that is up or a gate
\* that is shut.
Reasons == {"muted", "deafened", "pushed", "served", "listening", "quiet"}

MicrophoneAssumption ==
  MaxRooms \in Nat /\ MaxOpens \in Nat /\ MaxTurns \in Nat /\ MaxTroubles \in Nat

VARIABLES
  mic,       \* the refs of useVoice that matter here, and the room
  remaking,  \* republishMic waits for the old track to be taken back
  flaws,     \* what happened that is held against nobody
  turns,     \* what is left of the changes of mind
  mishaps    \* what is left of the troubles

vars == <<mic, remaking, flaws, turns, mishaps>>

\* An openMic in flight: whether the join goes on behind it, how its track is
\* going to be published, whether the device was still settling.
Open == [id : Tracks, room : 1..MaxRooms, tail : BOOLEAN, muted : BOOLEAN, cold : BOOLEAN,
         dsp : 0..MaxTurns,
         phase : {"capturing", "settling", "settled", "publishing", "done"}]
Track == [id : Tracks, muted : BOOLEAN, cold : BOOLEAN, dsp : 0..MaxTurns]
Told == SUBSET {"deafened", "muted"}

TypeOK ==
  /\ mic.room \in 0..MaxRooms /\ mic.rooms \in 0..MaxRooms
  /\ mic.link \in {"connecting", "connected", "reconnecting"}
  /\ mic.off \subseteq Reasons
  /\ mic.opened \in 0..MaxOpens /\ mic.opening \in 0..MaxOpens
  /\ mic.opens \subseteq Open
  /\ mic.published \subseteq Track
  /\ mic.metered \in 0..MaxOpens
  /\ mic.settling \in BOOLEAN /\ mic.silencing \in BOOLEAN
  /\ mic.sent \in [room : 0..MaxRooms, told : Told] /\ mic.told \in Told
  /\ mic.dsp \in 0..MaxTurns
  /\ remaking \in BOOLEAN
  /\ flaws \subseteq {"cold", "failed", "late"}
  /\ turns \in 0..MaxTurns /\ mishaps \in 0..MaxTroubles

Init ==
  /\ mic = [room |-> NoRoom,        \* roomRef, numbered
            rooms |-> 0,            \* how many there were
            link |-> "connecting",  \* room.state
            off |-> {},             \* the reasons that hold
            opened |-> 0,           \* how many microphones were opened
            opening |-> NoTrack,    \* micOpeningRef
            opens |-> {},           \* openMic calls in flight
            published |-> {},       \* the microphone tracks of the room
            metered |-> NoTrack,    \* micSourceRef
            settling |-> FALSE,     \* micSettleRef is not 0
            silencing |-> FALSE,    \* setMicrophoneEnabled(false) waits for a publication
            sent |-> [room |-> NoRoom, told |-> {}],  \* voiceStateSentRef
            told |-> {},            \* the attributes the others see
            dsp |-> 0]              \* the capture settings chosen
  /\ remaking = FALSE /\ flaws = {}
  /\ turns = MaxTurns /\ mishaps = MaxTroubles

-----------------------------------------------------------------------------
(* The decisions.                                                           *)

\* wantsTrackNow: a gate that is shut still wants the track it listens to.
WantsTrack(m) == m.off \subseteq {"quiet"}
\* liveNow.
Live(m) == m.off = {}
\* mutedByChoice, and deafened.
Attributes(m) ==
  (IF m.off \cap {"muted", "deafened", "pushed", "served"} # {} THEN {"muted"} ELSE {})
    \cup (m.off \cap {"deafened"})

\* publishVoiceState says nothing twice in a room, unless forced; what is said
\* to a room that is not there for the moment is lost.
Said(m, forced) ==
  LET news == [room |-> m.room, told |-> Attributes(m)]
  IN  IF m.room = NoRoom \/ (m.sent = news /\ ~forced) THEN m
      ELSE [m EXCEPT !.sent = news, !.told = IF m.link = "connected" THEN news.told ELSE @]

\* finishSettle: the open that waits for the device to settle goes on, whether
\* it has or not.
Released(m) ==
  {IF o.phase = "settling" THEN [o EXCEPT !.phase = "settled", !.cold = m.settling] ELSE o : o \in m.opens}

\* ensureMicMeter, asking the publication what to measure.  A track that is
\* being opened is not published yet: its meter is closed, and the settling
\* it counts is cut short.
Metered(m) ==
  LET source == IF m.published = {} THEN NoTrack ELSE (CHOOSE t \in m.published : TRUE).id
  IN  IF source = m.metered THEN m
      ELSE [m EXCEPT !.metered = source, !.settling = (source # NoTrack),
                     !.opens = IF source = NoTrack THEN Released(m) ELSE @]

Decided(m) ==
  [m EXCEPT !.published = {[t EXCEPT !.muted = ~(Live(m) /\ ~m.settling)] : t \in @}]

NothingUnderWay(m) == FALSE
\* micOpeningRef: an open of this room is the one to wait for.
UnderWay(m) == \E o \in m.opens : o.id = m.opening /\ o.room = m.room

\* Open a microphone, or wait for the one that is being opened.
Opened(m, tail) ==
  IF UnderWay(m)
  THEN [m EXCEPT !.opens = {[o EXCEPT !.tail = @ \/ (tail /\ o.id = m.opening)] : o \in @}]
  ELSE [m EXCEPT !.opened = @ + 1, !.opening = m.opened + 1,
                 !.opens = @ \cup {[id |-> m.opened + 1, room |-> m.room, tail |-> tail, muted |-> FALSE,
                                    cold |-> FALSE, dsp |-> m.dsp, phase |-> "capturing"]}]

\* setMicrophoneEnabled(false) mutes what is published, and what is about to be.
Silenced(m) ==
  [m EXCEPT !.published = {[t EXCEPT !.muted = TRUE] : t \in @},
            !.silencing = @ \/ (m.published = {}
                                /\ \E o \in m.opens : o.room = m.room /\ o.phase = "publishing")]

\* applyMic, up to its first await.
Applied(m, tail) ==
  LET s == Said(m, FALSE)
  IN  IF m.room = NoRoom \/ m.link # "connected" THEN m
      ELSE IF ~WantsTrack(m) THEN Silenced(s)
      ELSE IF m.published = {} THEN Opened(s, tail)
      ELSE Decided(s)

\* What join does behind its applyMic.
Tail(m) == Metered(Said(m, TRUE))

Becomes(m) == m.opened <= MaxOpens /\ mic' = m
Turn == turns > 0 /\ turns' = turns - 1
Mishap == mishaps > 0 /\ mishaps' = mishaps - 1

-----------------------------------------------------------------------------
(* Calls.                                                                   *)

\* join, once it has the token: the room, known to be listen-only or not.
Enter(listenOnly) ==
  /\ mic.room = NoRoom /\ mic.rooms < MaxRooms
  /\ mic' = [mic EXCEPT !.room = mic.rooms + 1, !.rooms = @ + 1, !.link = "connecting", !.told = {},
                        !.off = IF listenOnly THEN @ \cup {"listening"} ELSE @ \ {"listening"}]
  /\ UNCHANGED <<remaking, flaws, turns, mishaps>>

\* join, once connected.
Connect ==
  /\ mic.room # NoRoom /\ mic.link = "connecting"
  /\ LET m == Applied([mic EXCEPT !.link = "connected"], TRUE)
     IN  Becomes(IF WantsTrack(mic) THEN m ELSE Tail(m))
  /\ UNCHANGED <<remaking, flaws, turns, mishaps>>

\* leave, and Disconnected: teardownAudio. A gate is taken for open again.
Leave(gateOpens) ==
  /\ mic.room # NoRoom
  /\ mic' = [mic EXCEPT !.room = NoRoom, !.link = "connecting", !.opening = NoTrack,
                        !.opens = Released(mic), !.published = {}, !.metered = NoTrack,
                        !.settling = FALSE, !.silencing = FALSE,
                        !.off = @ \ (IF gateOpens THEN {"listening", "quiet"} ELSE {"listening"})]
  /\ UNCHANGED <<remaking, flaws, turns, mishaps>>

\* RoomEvent.Reconnecting.
Interrupted ==
  /\ mic.room # NoRoom /\ mic.link = "connected"
  /\ Mishap
  /\ mic' = [mic EXCEPT !.link = "reconnecting"]
  /\ UNCHANGED <<remaking, flaws, turns>>

\* A meter has just let an open go on too soon.
CutShort(m) == \E o \in m.opens : o.phase = "settled" /\ o.cold
Coldly(m) == flaws' = IF CutShort(m) THEN flaws \cup {"cold"} ELSE flaws

UnforcedSay(m) == Said(m, FALSE)
\* "Attributes do not survive a reconnect": they are said again.
SaidAgain(m) == Said(m, TRUE)

\* RoomEvent.Reconnected.
Reconnected ==
  /\ mic.room # NoRoom /\ mic.link = "reconnecting"
  /\ LET m == Metered(SaidAgain(Applied([mic EXCEPT !.link = "connected"], FALSE)))
     IN  Becomes(m) /\ Coldly(m)
  /\ UNCHANGED <<remaking, turns, mishaps>>

-----------------------------------------------------------------------------
(* Opening a microphone.                                                    *)

With(o, new) == (mic.opens \ {o}) \cup {new}
Mine(o) == o.room = mic.room

PublishedCold(o) == [o EXCEPT !.phase = "settled", !.cold = TRUE]
\* "The meter goes on before the publish": the track waits for it.
Settling(o) == [o EXCEPT !.phase = "settling"]

\* createLocalAudioTrack: the device is there, or refused; a room left
\* meanwhile gives it back.
Captured(o, granted) ==
  /\ o.phase = "capturing"
  /\ IF granted THEN UNCHANGED mishaps ELSE Mishap
  /\ IF granted /\ Mine(o)
     THEN /\ mic' = [mic EXCEPT !.metered = o.id, !.settling = TRUE,
                                !.opens = With(o, Settling(o))]
          /\ UNCHANGED flaws
     ELSE /\ mic' = [mic EXCEPT !.opens = With(o, [o EXCEPT !.phase = "done"])]
          /\ flaws' = IF Mine(o) THEN flaws \cup {"failed"} ELSE flaws
  /\ UNCHANGED <<remaking, turns>>

\* The meter has heard enough of the device.
Settle ==
  /\ mic.settling /\ mic.metered # NoTrack
  /\ LET m == [mic EXCEPT !.settling = FALSE, !.published = {[t EXCEPT !.cold = FALSE] : t \in @}]
     IN  Becomes(Applied([m EXCEPT !.opens = Released(m)], FALSE))
  /\ UNCHANGED <<remaking, flaws, turns, mishaps>>


\* micSettled resolves.
GoOn(o) ==
  /\ o.phase = "settled"
  /\ IF Mine(o)
     THEN mic' = [mic EXCEPT !.opens = With(o, [o EXCEPT !.muted = ~Live(mic), !.phase = "publishing"])]
     ELSE mic' = Metered([mic EXCEPT !.opens = With(o, [o EXCEPT !.phase = "done"])])
  /\ IF Mine(o) THEN UNCHANGED flaws ELSE Coldly(mic')
  /\ UNCHANGED <<remaking, turns, mishaps>>

\* publishTrack: a setMicrophoneEnabled that waited for it mutes it.
Publish(o, accepted) ==
  /\ o.phase = "publishing"
  /\ LET m == [mic EXCEPT !.opens = With(o, [o EXCEPT !.phase = "done"]), !.silencing = @ /\ ~Mine(o)]
         track == [id |-> o.id, muted |-> o.muted \/ mic.silencing, cold |-> o.cold, dsp |-> o.dsp]
     IN  IF accepted /\ Mine(o)
         THEN /\ mic' = Metered([m EXCEPT !.published = @ \cup {track}])
              /\ UNCHANGED mishaps
         ELSE /\ mic' = Metered(m)
              /\ IF Mine(o) THEN Mishap ELSE UNCHANGED mishaps
  /\ flaws' = flaws \cup (IF Mine(o) /\ ~accepted THEN {"failed"} ELSE {})
                    \cup (IF CutShort(mic') THEN {"cold"} ELSE {})
  /\ UNCHANGED <<remaking, turns>>

\* openMic is over: the applyMic calls that waited for it decide, and the join
\* goes on, of whatever room it was.
Resume(o) ==
  /\ o.phase = "done"
  /\ LET m == [mic EXCEPT !.opens = @ \ {o}, !.opening = IF @ = o.id THEN NoTrack ELSE @]
         decided == IF Mine(o) THEN Decided(m) ELSE m
     IN  mic' = IF ~o.tail THEN decided
                ELSE IF Mine(o) THEN Tail(decided)
                ELSE Metered([decided EXCEPT !.sent = [room |-> o.room, told |-> Attributes(mic)]])
  /\ Coldly(mic')
  /\ UNCHANGED <<remaking, turns, mishaps>>

-----------------------------------------------------------------------------
(* Changes of mind.                                                         *)

Changes(m) == Turn /\ Becomes(Applied(m, FALSE)) /\ UNCHANGED <<remaking, flaws, mishaps>>

\* setMuted: to speak is to hear, too.
SetMuted ==
  IF "muted" \in mic.off
  THEN LET m == [mic EXCEPT !.off = @ \ {"muted", "deafened"}]
       IN  Changes(IF "deafened" \in mic.off THEN Said(m, FALSE) ELSE m)
  ELSE Changes([mic EXCEPT !.off = @ \cup {"muted"}])

\* setDeafened: one does not speak without hearing, and is still muted after.
SetDeafened ==
  Changes(Said([mic EXCEPT !.off = IF "deafened" \in @ THEN @ \ {"deafened"}
                                   ELSE @ \cup {"deafened", "muted"}], FALSE))

\* A push-to-mute key, an admin's mute, a push-to-talk key or the gate.
Toggle(reason) ==
  Changes([mic EXCEPT !.off = IF reason \in @ THEN @ \ {reason} ELSE @ \cup {reason}])

\* republishMic: the track that is there is taken back first.  A microphone
\* that is being opened, or a room that is being reconnected, is left alone.
Reprocess ==
  /\ Turn
  /\ LET m == [mic EXCEPT !.dsp = @ + 1]
     IN  IF mic.room = NoRoom \/ mic.link # "connected"
         THEN mic' = m /\ UNCHANGED remaking
         ELSE IF mic.published # {}
         THEN mic' = Metered([m EXCEPT !.published = {}]) /\ remaking' = TRUE
         ELSE Becomes(Applied(Metered(m), FALSE)) /\ UNCHANGED remaking
  /\ flaws' = flaws \cup (IF \E o \in mic.opens : Mine(o) THEN {"late"} ELSE {})
                    \cup (IF mic.link = "reconnecting" THEN {"late"} ELSE {})
                    \cup (IF CutShort(mic') THEN {"cold"} ELSE {})
  /\ UNCHANGED mishaps

Remade ==
  /\ remaking
  /\ remaking' = FALSE
  /\ LET m == Metered(mic) IN Becomes(Applied(m, FALSE)) /\ Coldly(m)
  /\ UNCHANGED <<turns, mishaps>>

\* MediaDevicesChanged, or an input device chosen: the meter is looked at, and
\* a published track may have another device under it, as cold as any.
DevicesChange(switched) ==
  /\ mic.room # NoRoom
  /\ switched => mic.published # {}
  /\ Mishap
  /\ mic' = IF switched
            THEN [mic EXCEPT !.settling = TRUE, !.published = {[t EXCEPT !.cold = TRUE] : t \in @}]
            ELSE Metered(mic)
  /\ flaws' = IF switched \/ CutShort(mic') THEN flaws \cup {"cold"} ELSE flaws
  /\ UNCHANGED <<remaking, turns>>

\* Promises that are settled: their continuations run before any other event.
Ready == {o \in mic.opens : o.phase \in {"settled", "done"}}

Next ==
  \/ \E o \in Ready : GoOn(o) \/ Resume(o)
  \/ /\ Ready = {}
     /\ \/ \E b \in BOOLEAN : Enter(b) \/ Leave(b) \/ DevicesChange(b)
        \/ Connect \/ Interrupted \/ Reconnected \/ Settle
        \/ \E o \in mic.opens, b \in BOOLEAN : Captured(o, b) \/ Publish(o, b)
        \/ SetMuted \/ SetDeafened \/ Reprocess \/ Remade
        \/ \E reason \in {"pushed", "served", "quiet"} : Toggle(reason)

-----------------------------------------------------------------------------

Rest ==
  /\ mic.room # NoRoom /\ mic.link = "connected"
  /\ mic.opens = {} /\ ~mic.silencing /\ ~mic.settling /\ ~remaking

\* "One place decides whether the microphone is live, because six things now
\* fight over it": when nothing is under way any more, the microphone is live
\* if and only if nothing speaks against it, it is there if it is wanted, the
\* meter listens to it, it has the settings that were chosen and the others
\* were told the truth - whatever changed while it was being opened.  Devices
\* that fail, and settings changed during an opening, are excepted.
MicrophoneIsRight ==
  Rest =>
    /\ \A t \in mic.published :
         /\ t.muted <=> ~Live(mic)
         /\ mic.metered = t.id
         /\ t.dsp = mic.dsp \/ "late" \in flaws
    /\ WantsTrack(mic) => mic.published # {} \/ "failed" \in flaws
    /\ mic.told = Attributes(mic)

\* "Without this each of them would open the capture device again and publish
\* a second track": a call has one microphone, open or being opened.
OneMicrophone ==
  Cardinality({t.id : t \in mic.published}
              \cup {o.id : o \in {p \in mic.opens : Mine(p) /\ p.phase # "done"}}) <= 1

\* "a track that is already settled and already in the state it belongs in":
\* nobody hears a device before it has settled, but for a change of devices or
\* another look of the meter in between.
HeardSettled == \A t \in mic.published : t.cold => t.muted \/ "cold" \in flaws

\* "Any new source is a cold one ... so both start from silence".  It does not
\* hold: a device switched under a live track is heard at once, and a meter
\* that looks for the publication while the track is being opened releases it.
StartsFromSilence == \A t \in mic.published : t.cold => t.muted
=============================================================================
