------------------------------- MODULE VoiceJoin -------------------------------
(***************************************************************************)
(* Going from one call to another: join and leave of useVoice, and what the *)
(* window shows of them.                                                    *)
(*                                                                          *)
(* Each of the two is a chain of awaits - the disconnect of the room that   *)
(* is left, the token, the connection, the output device - and they may be  *)
(* asked for again at any of them.  Two things tell a chain that it is late: *)
(* joinSeqRef until there is a room, roomRef from then on.                  *)
(*                                                                          *)
(* A chain is named by its number, and so is the Room it makes.             *)
(*                                                                          *)
(* NeverSuperseded and the like are plausible bugs of the definition that   *)
(* follows them.                                                            *)
(***************************************************************************)
EXTENDS Naturals, Sequences

CONSTANTS
  Rooms,       \* voice channels and direct messages one may call in
  ListenOnly,  \* those that take no microphone
  Nowhere,     \* no channel
  MaxChains,   \* bound on joins and leaves
  MaxTroubles  \* bound on requests that fail and connections that drop

Chain == 1..MaxChains
NoRoom == 0

ASSUME VoiceJoinAssumption ==
  /\ ListenOnly \subseteq Rooms /\ Nowhere \notin Rooms
  /\ MaxChains \in Nat /\ MaxTroubles \in Nat

VARIABLES
  chains,     \* every join and leave asked for, in order
  joinSeq,    \* joinSeqRef
  current,    \* roomRef
  listening,  \* listenOnlyRef
  inCall,     \* Rooms connected at LiveKit
  shown,      \* state.channelId and state.status
  untimely,   \* something was asked for, or dropped, while a disconnect was awaited
  troubles    \* what is left of the bound

joinVars == <<chains, joinSeq, current, listening, inCall, shown, untimely, troubles>>

Idle == [channel |-> Nowhere, status |-> "idle"]
Failed == [channel |-> Nowhere, status |-> "failed"]
Awaiting == {"leaving", "asking", "connecting", "output", "failing", "cleaning"}

JoinTypeOK ==
  /\ chains \in Seq([to : Rooms \cup {Nowhere}, stage : Awaiting \cup {"over"},
                     mine : 0..MaxChains, from : 0..MaxChains])
  /\ joinSeq \in 0..MaxChains /\ current \in 0..MaxChains
  /\ listening \in BOOLEAN /\ untimely \in BOOLEAN
  /\ inCall \subseteq Chain
  /\ shown \in [channel : Rooms \cup {Nowhere},
                status : {"idle", "connecting", "connected", "reconnecting", "failed"}]
  /\ troubles \in 0..MaxTroubles

JoinInit ==
  /\ chains = <<>> /\ joinSeq = 0 /\ current = NoRoom /\ inCall = {}
  /\ listening = FALSE /\ shown = Idle
  /\ untimely = FALSE /\ troubles = MaxTroubles

-----------------------------------------------------------------------------

Trouble == troubles > 0 /\ troubles' = troubles - 1
At(n, stage) == n \in DOMAIN chains /\ chains[n].stage = stage
\* A chain that will say on the screen what it no longer has the right to.
OutOfTurn == \E n \in DOMAIN chains : chains[n].stage \in {"leaving", "failing", "output"}

\* The rest of leave, and of a join up to the token: no claim of either looks
\* at what was asked for meanwhile.
PastLeaving(n, to, seq) ==
  /\ shown' = IF to = Nowhere THEN Idle ELSE [channel |-> to, status |-> "connecting"]
  /\ listening' = FALSE
  /\ chains' = [c \in DOMAIN chains \cup {n} |->
       IF c # n THEN chains[c]
       ELSE [to |-> to, stage |-> IF to = Nowhere THEN "over" ELSE "asking",
             mine |-> seq, from |-> NoRoom]]

\* join(to), or leave: up to its first await.
Ask(to) ==
  LET n == Len(chains) + 1
  IN  /\ n <= MaxChains
      /\ joinSeq' = joinSeq + 1
      /\ current' = NoRoom
      /\ untimely' = (untimely \/ OutOfTurn)
      /\ IF current = NoRoom
         THEN PastLeaving(n, to, joinSeq + 1)
         ELSE /\ chains' = Append(chains, [to |-> to, stage |-> "leaving", mine |-> 0, from |-> current])
              /\ UNCHANGED <<shown, listening>>
      /\ UNCHANGED <<inCall, troubles>>

\* room.disconnect of the room that is left.
Disconnected(n) ==
  /\ At(n, "leaving")
  /\ inCall' = inCall \ {chains[n].from}
  /\ PastLeaving(n, chains[n].to, joinSeq)
  /\ UNCHANGED <<joinSeq, current, untimely, troubles>>

NeverSuperseded(n) == FALSE
\* superseded: something has been asked for since this join looked.
Superseded(n) == joinSeq # chains[n].mine

Over(n) == chains' = [chains EXCEPT ![n].stage = "over"]
To(n, stage) == chains' = [chains EXCEPT ![n].stage = stage]

\* api.voiceToken, and the Room.
Token(n, granted) ==
  /\ At(n, "asking")
  /\ IF granted THEN UNCHANGED troubles ELSE Trouble
  /\ IF Superseded(n)
     THEN Over(n) /\ UNCHANGED <<current, listening, shown>>
     ELSE IF granted
     THEN /\ listening' = (chains[n].to \in ListenOnly)
          /\ current' = n
          /\ To(n, "connecting")
          /\ UNCHANGED shown
     ELSE /\ shown' = Failed
          /\ Over(n)
          /\ UNCHANGED <<current, listening>>
  /\ UNCHANGED <<joinSeq, inCall, untimely>>

\* room.connect: the room may have been left meanwhile.
Connected(n) ==
  /\ At(n, "connecting")
  /\ inCall' = inCall \cup {n}
  /\ To(n, IF current = n THEN "output" ELSE "cleaning")
  /\ UNCHANGED <<joinSeq, current, listening, shown, untimely, troubles>>

\* It also fails when it is the disconnect of somebody leaving that ends it.
ConnectFails(n) ==
  /\ At(n, "connecting")
  /\ IF current = n THEN Trouble ELSE UNCHANGED troubles
  /\ current' = IF current = n THEN NoRoom ELSE current
  /\ To(n, IF current = n THEN "failing" ELSE "cleaning")
  /\ UNCHANGED <<joinSeq, listening, inCall, shown, untimely>>

\* The room nobody wants any more is disconnected; a failure is then shown.
CleanedUp(n) ==
  /\ At(n, "failing") \/ At(n, "cleaning")
  /\ inCall' = inCall \ {n}
  /\ shown' = IF chains[n].stage = "failing" THEN Failed ELSE shown
  /\ Over(n)
  /\ UNCHANGED <<joinSeq, current, listening, untimely, troubles>>

\* switchActiveDevice, where an output device has been chosen, and the screen.
Entered(n) ==
  /\ At(n, "output")
  /\ shown' = [shown EXCEPT !.status = "connected"]
  /\ Over(n)
  /\ UNCHANGED <<joinSeq, current, listening, inCall, untimely, troubles>>

HeedsEveryRoom(n) == TRUE
\* isCurrent.
IsCurrent(n) == current = n

\* LiveKit ends a call of its own accord.
Dropped(n) ==
  /\ n \in inCall
  /\ Trouble
  /\ inCall' = inCall \ {n}
  /\ untimely' = (untimely \/ At(n, "output"))
  /\ IF IsCurrent(n)
     THEN current' = NoRoom /\ shown' = Idle
     ELSE UNCHANGED <<current, shown>>
  /\ UNCHANGED <<chains, joinSeq, listening>>

\* RoomEvent.Reconnecting, Reconnected.
Link(n, status) ==
  /\ n \in inCall /\ At(n, "over") /\ IsCurrent(n)
  /\ shown.status # status
  /\ shown' = [shown EXCEPT !.status = status]
  /\ UNCHANGED <<chains, joinSeq, current, listening, inCall, untimely, troubles>>

JoinNext ==
  \/ \E to \in Rooms \cup {Nowhere} : Ask(to)
  \/ \E n \in DOMAIN chains :
       \/ Disconnected(n) \/ Connected(n) \/ ConnectFails(n) \/ CleanedUp(n) \/ Entered(n)
       \/ \E granted \in BOOLEAN : Token(n, granted)
       \/ Dropped(n) \/ Link(n, "reconnecting") \/ Link(n, "connected")

JoinSpec == JoinInit /\ [][JoinNext]_joinVars

-----------------------------------------------------------------------------

Settled == \A n \in DOMAIN chains : chains[n].stage = "over"

\* Two rooms clicked in quick succession: once everything has been answered one
\* is in the room asked for last or in none, in no other that nothing can
\* leave, the window shows that very room, and a room that takes no microphone
\* is known for one.  Short of something asked for during a disconnect, whose
\* late ending is not checked against what came after it (join, leave).
TheLastAsk ==
  (Settled /\ ~untimely) =>
    /\ inCall = {current} \ {NoRoom}
    /\ current # NoRoom =>
         /\ current = Len(chains)
         /\ shown.channel = chains[current].to /\ shown.status \in {"connected", "reconnecting"}
         /\ listening <=> chains[current].to \in ListenOnly
    /\ current = NoRoom => shown \in {Idle, Failed}

\* The same, with what is kept of the chains typed.
LastAskWins == JoinTypeOK /\ TheLastAsk

\* "`leave` has just bumped the counter, so this claims the attempt": nobody is
\* left in a call that this window no longer knows.  It does not hold: two
\* joins that wait for the same disconnect read the same number, and both
\* believe that they are the last.
OneCall == Settled => inCall \subseteq {current}
=============================================================================
