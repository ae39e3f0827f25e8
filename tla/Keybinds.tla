------------------------------- MODULE Keybinds -------------------------------
(***************************************************************************)
(* Global keys: the main process hears every key of the machine and matches *)
(* it against a table, the window keeps the table and decides what a key    *)
(* means (registerKeybinds; useVoice; KeybindSettings).                     *)
(*                                                                          *)
(* The two speak over IPC, in order each way: tables and requests to        *)
(* capture a key one way, presses, releases and captured keys the other.    *)
(* So a key may go down or up while the table that binds it is on its way.  *)
(*                                                                          *)
(* A row here is an enabled one: disabled and removed rows are the same to  *)
(* the main process.  Modifiers are part of a key.  The toggling actions,   *)
(* which look at presses only, are left out.                                *)
(*                                                                          *)
(* NoReleases is a plausible bug of the definition that follows it.         *)
(***************************************************************************)
EXTENDS Naturals, Sequences, FiniteSets

CONSTANTS
  Keys,
  Rows,         \* rows there may be
  KeyOf,        \* the key of each
  Talks,        \* the rows whose action is push to talk; that of the others is push to mute
  MaxChanges,   \* bound on changes of the table and of the setting
  MaxCaptures,  \* bound on keys captured
  MaxPresses    \* bound on presses

NoCapture == 0
Captures == 1..MaxCaptures

ASSUME KeybindsAssumption ==
  /\ IsFiniteSet(Rows) /\ Rows # {}
  /\ KeyOf \in [Rows -> Keys] /\ Talks \subseteq Rows
  /\ MaxChanges \in Nat /\ MaxCaptures \in Nat /\ MaxPresses \in Nat

VARIABLES
  table,       \* the window's keybinds
  pushToTalk,  \* settings.pushToTalk
  capturing,   \* the capture that KeybindSettings waits for, its row and its table
  held,        \* heldRef
  talking,     \* talkingRef
  pushMuted,   \* pushMutedRef
  releasing,   \* pttReleaseTimerRef
  toMain, toWindow,  \* IPC
  bindRows,    \* main: keybinds
  hookRunning,
  heldRows,
  captureResolve,
  captureTimers,  \* the ten-second timers of captures
  down,        \* keys that are down
  robbed,      \* a capture was ended by the timer of another
  keySpare     \* what is left of each bound

window == <<table, pushToTalk, capturing, held, talking, pushMuted, releasing>>
main == <<bindRows, hookRunning, heldRows, captureResolve, captureTimers, robbed>>
keyVars == <<window, main, toMain, toWindow, down, keySpare>>

NotCapturing == [capture |-> NoCapture, row |-> CHOOSE r \in Rows : TRUE, table |-> {}]
ToMain ==
  [tell : {"set"}, rows : SUBSET Rows, capture : {NoCapture}] \cup [tell : {"capture"}, rows : {{}}, capture : Captures]
ToWindow == [tell : {"down", "up", "captured", "timed out"}, row : Rows, capture : 0..MaxCaptures]

KeysTypeOK ==
  /\ table \subseteq Rows /\ bindRows \subseteq Rows /\ held \subseteq Rows /\ heldRows \subseteq Rows
  /\ pushToTalk \in BOOLEAN /\ talking \in BOOLEAN /\ pushMuted \in BOOLEAN
  /\ releasing \in BOOLEAN /\ hookRunning \in BOOLEAN /\ robbed \in BOOLEAN
  /\ capturing \in [capture : 0..MaxCaptures, row : Rows, table : SUBSET Rows]
  /\ captureResolve \in 0..MaxCaptures /\ captureTimers \subseteq Captures
  /\ toMain \in Seq(ToMain) /\ toWindow \in Seq(ToWindow)
  /\ down \subseteq Keys
  /\ keySpare \in [{"changes", "captures", "presses"} -> Nat] /\ keySpare["captures"] <= MaxCaptures

KeysInit ==
  /\ table = Rows /\ bindRows = Rows /\ pushToTalk = TRUE
  /\ capturing = NotCapturing
  /\ held = {} /\ talking = FALSE /\ pushMuted = FALSE /\ releasing = FALSE
  /\ toMain = <<>> /\ toWindow = <<>>
  /\ hookRunning = TRUE /\ heldRows = {} /\ captureResolve = NoCapture /\ captureTimers = {}
  /\ down = {} /\ robbed = FALSE
  /\ keySpare = [changes |-> MaxChanges, captures |-> MaxCaptures, presses |-> MaxPresses]

SpendKey(what) == keySpare[what] > 0 /\ keySpare' = [keySpare EXCEPT ![what] = @ - 1]

-----------------------------------------------------------------------------
(* The window.                                                              *)

\* activeKeybinds: push-to-talk rows are handed over disabled while it is off.
Active(kept, talks) == IF talks THEN kept ELSE kept \ Talks
Hand(kept, talks) ==
  toMain' = Append(toMain, [tell |-> "set", rows |-> Active(kept, talks), capture |-> NoCapture])

\* A row is removed or disabled.
RemoveRow(r) ==
  /\ r \in table
  /\ SpendKey("changes")
  /\ table' = table \ {r}
  /\ Hand(table', pushToTalk)
  /\ UNCHANGED <<pushToTalk, capturing, held, talking, pushMuted, releasing, main, toWindow, down>>

\* Push-to-talk is switched: off, it releases the key.
Switch ==
  /\ SpendKey("changes")
  /\ pushToTalk' = ~pushToTalk
  /\ Hand(table, pushToTalk')
  /\ IF pushToTalk
     THEN releasing' = FALSE /\ talking' = FALSE /\ held' = held \ Talks
     ELSE UNCHANGED <<releasing, talking, held>>
  /\ UNCHANGED <<table, capturing, pushMuted, main, toWindow, down>>

\* addBinding, whose button is disabled until the answer comes.
AddBinding(r) ==
  /\ r \notin table /\ capturing.capture = NoCapture
  /\ SpendKey("captures")
  /\ capturing' = [capture |-> MaxCaptures + 1 - keySpare["captures"], row |-> r, table |-> table]
  /\ toMain' = Append(toMain, [tell |-> "capture", rows |-> {}, capture |-> capturing'.capture])
  /\ UNCHANGED <<table, pushToTalk, held, talking, pushMuted, releasing, main, toWindow, down>>

\* ... and with it the row is added to the table of the time it was asked for.
Added(e) ==
  /\ capturing' = NotCapturing
  /\ IF e.tell = "captured"
     THEN table' = capturing.table \cup {capturing.row} /\ Hand(table', pushToTalk)
     ELSE UNCHANGED <<table, toMain>>
  /\ UNCHANGED <<pushToTalk, held, talking, pushMuted, releasing>>

\* onKeybind, for a push-to-talk row: with a release delay the microphone stays
\* open for a while.
HeldTalk(e, delay) ==
  LET holding == IF e.tell = "down" THEN held \cup {e.row} ELSE held \ {e.row}
      any == holding \cap Talks # {}
  IN  /\ held' = holding
      /\ releasing' = (~any /\ talking /\ delay)
      /\ talking' = (any \/ releasing')
      /\ UNCHANGED <<table, pushToTalk, capturing, pushMuted, toMain>>

HeldMute(e) ==
  /\ held' = IF e.tell = "down" THEN held \cup {e.row} ELSE held \ {e.row}
  /\ pushMuted' = (held' \ Talks # {})
  /\ UNCHANGED <<table, pushToTalk, capturing, talking, releasing, toMain>>

WindowHears(delay) ==
  /\ toWindow # <<>>
  /\ toWindow' = Tail(toWindow)
  /\ LET e == Head(toWindow)
     IN  IF e.tell \in {"captured", "timed out"} THEN Added(e)
         ELSE IF e.row \in Talks THEN HeldTalk(e, delay) ELSE HeldMute(e)
  /\ UNCHANGED <<main, down, keySpare>>

ReleaseTimer ==
  /\ releasing
  /\ releasing' = FALSE
  /\ talking' = (talking /\ held \cap Talks # {})
  /\ UNCHANGED <<table, pushToTalk, capturing, held, pushMuted, main, toMain, toWindow, down, keySpare>>

-----------------------------------------------------------------------------
(* The main process.                                                        *)

Fire(which, tell) ==
  LET order == CHOOSE s \in [1..Cardinality(which) -> which] : \A r \in which : \E i \in DOMAIN s : s[i] = r
  IN  toWindow' = toWindow \o [i \in DOMAIN order |-> [tell |-> tell, row |-> order[i], capture |-> NoCapture]]

NoReleases(next) == {}
\* keybind:set: what was down and is gone gets its release.
Gone(next) == heldRows \ next

SetKeybinds(next) ==
  /\ Fire(Gone(next), "up")
  /\ bindRows' = next
  /\ hookRunning' = (next # {})
  /\ heldRows' = IF next = {} /\ hookRunning THEN {} ELSE heldRows \ Gone(next)
  /\ UNCHANGED <<captureResolve, captureTimers, robbed>>

\* keybind:capture: the hook runs for it whatever the table holds.
Capture(n) ==
  /\ hookRunning' = TRUE
  /\ captureResolve' = n
  /\ captureTimers' = captureTimers \cup {n}
  /\ UNCHANGED <<bindRows, heldRows, robbed, toWindow>>

MainHears ==
  /\ toMain # <<>>
  /\ toMain' = Tail(toMain)
  /\ LET e == Head(toMain)
     IN  IF e.tell = "set" THEN SetKeybinds(e.rows) ELSE Capture(e.capture)
  /\ UNCHANGED <<window, down, keySpare>>

\* onDown, of a press or of its repetition: a capture takes it, or the rows it
\* matches are held.
Press(k) ==
  /\ IF k \in down THEN UNCHANGED keySpare ELSE SpendKey("presses")
  /\ down' = down \cup {k}
  /\ IF ~hookRunning THEN UNCHANGED <<main, toWindow>>
     ELSE IF captureResolve # NoCapture
     THEN /\ k = KeyOf[capturing.row]     \* the key it is going to be bound to
          /\ toWindow' = Append(toWindow, [tell |-> "captured", row |-> capturing.row, capture |-> captureResolve])
          /\ captureResolve' = NoCapture
          /\ UNCHANGED <<bindRows, hookRunning, heldRows, captureTimers, robbed>>
     ELSE LET pressed == {r \in bindRows \ heldRows : KeyOf[r] = k}
          IN  /\ Fire(pressed, "down")
              /\ heldRows' = heldRows \cup pressed
              /\ UNCHANGED <<bindRows, hookRunning, captureResolve, captureTimers, robbed>>
  /\ UNCHANGED <<window, toMain>>

\* onUp, which a capture does not keep from the rows.
Lift(k) ==
  /\ k \in down
  /\ down' = down \ {k}
  /\ IF ~hookRunning THEN UNCHANGED <<main, toWindow>>
     ELSE LET lifted == {r \in bindRows \cap heldRows : KeyOf[r] = k}
          IN  /\ Fire(lifted, "up")
              /\ heldRows' = heldRows \ lifted
              /\ UNCHANGED <<bindRows, hookRunning, captureResolve, captureTimers, robbed>>
  /\ UNCHANGED <<window, toMain, keySpare>>

\* A capture's ten seconds are over. Whatever capture is then under way loses
\* its answer, and only the timer's own promise is resolved.
TimeOut(n) ==
  /\ n \in captureTimers
  /\ captureTimers' = captureTimers \ {n}
  /\ captureResolve' = NoCapture
  /\ robbed' = (robbed \/ captureResolve \notin {NoCapture, n})
  /\ toWindow' = IF captureResolve = n
                 THEN Append(toWindow, [tell |-> "timed out", row |-> capturing.row, capture |-> n])
                 ELSE toWindow
  /\ UNCHANGED <<bindRows, hookRunning, heldRows, window, toMain, down, keySpare>>

KeysNext ==
  \/ \E r \in Rows : RemoveRow(r) \/ AddBinding(r)
  \/ Switch \/ ReleaseTimer \/ MainHears
  \/ \E delay \in BOOLEAN : WindowHears(delay)
  \/ \E k \in Keys : Press(k) \/ Lift(k)
  \/ \E n \in captureTimers : TimeOut(n)

KeysSpec == KeysInit /\ [][KeysNext]_keyVars

-----------------------------------------------------------------------------

\* "the microphone stays open, or stays shut, and nothing will ever say
\* otherwise because the keyup has nothing left to match": once the two sides
\* have heard each other out, only keys that are down hold anything, and
\* somebody talks, or is muted, exactly while a row for it is held.
NothingHangs ==
  /\ heldRows \subseteq {r \in bindRows : KeyOf[r] \in down}
  /\ (toMain = <<>> /\ toWindow = <<>> /\ ~releasing) =>
       /\ talking <=> heldRows \cap Talks # {}
       /\ pushMuted <=> heldRows \ Talks # {}

\* "Ten seconds, then it gives up": a capture the settings wait for is still
\* asked for, under way with its timer, or answered.
CaptureEnds ==
  LET n == capturing.capture
  IN  n = NoCapture
      \/ (\E i \in DOMAIN toMain : toMain[i].tell = "capture" /\ toMain[i].capture = n)
      \/ (captureResolve = n /\ n \in captureTimers)
      \/ \E i \in DOMAIN toWindow : (toWindow[i].tell \in {"captured", "timed out"} /\ toWindow[i].capture = n)

\* It holds but for the timer of an earlier capture, which is never stopped.
CaptureEndsUnlessRobbed == robbed \/ CaptureEnds

\* Push to talk, push to mute and the capture of a key, none of which is left
\* waiting for something that cannot come any more.
NothingSticks == KeysTypeOK /\ NothingHangs /\ CaptureEndsUnlessRobbed
=============================================================================
