--------------------------- MODULE MCChannelScreen ---------------------------
(* What is on the screen of a channel, where in it the reader is, and the   *)
(* dot beside it on either client: models that share no state, and a        *)
(* behaviour is of one of them.  The channels of the first are told apart   *)
(* only by which one is open.                                               *)
EXTENDS ChannelScreen, TLC

CONSTANTS ca, cb

VARIABLES
  playing,
  home, deleted, onScreen, hears, page, cursor, inHistory, followedTo, view, atBottom, positions, reads,
  asked, followed, wanted, torn, unheeded, blamed, missed, ghosts, spare,
  kind, waits, row, jobs, online, inRoom, wire, opening, signedIn, latest, known, counts, isOpen, newest,
  marked, requests, marks, told, read, stale, behind, blurred, dotSpare

Place == INSTANCE ReadingPlace WITH
  open <- onScreen, list <- page, lastSeen <- followedTo,
  Said <- <<"a", "a", "a", "b", "a">>, Places <- {0, 2}, PageSize <- 2, MaxRestore <- 1,
  MaxMessages <- 6, MaxAtOnce <- 2, MaxTurns <- 2, MaxTroubles <- 1

\* One channel, as one client or the other keeps it.
Dot(onPhone) == INSTANCE Unread WITH
  up <- online, inbox <- wire, shown <- newest, spare <- dotSpare, reads <- known, open <- isOpen,
  OnPhone <- onPhone, MaxMessages <- 2, MaxVisits <- 1, MaxDrops <- 1

placeVars == <<home, deleted, onScreen, hears, page, cursor, inHistory, followedTo, view, atBottom, positions,
               reads, asked, followed, wanted, torn, unheeded, blamed, missed, ghosts, spare>>
dotVars == <<kind, waits, row, jobs, online, inRoom, wire, opening, signedIn, latest, known, counts, isOpen,
             newest, marked, requests, marks, told, read, stale, behind, blurred, dotSpare>>

Dots == {"dot on the phone", "dot on the desktop"}
MCChannels == {ca, cb}
Symmetry == Permutations(MCChannels)

ASSUME PartsAreSound ==
  Place!ReadingAssumption /\ Dot(TRUE)!UnreadAssumption /\ Dot(FALSE)!UnreadAssumption

MCInit ==
  /\ playing \in {"screen", "place"} \cup Dots
  /\ Init /\ Place!Init /\ Dot(TRUE)!Init
  /\ playing # "place" => wanted = 0
  /\ playing \notin Dots => kind = "text"

MCNext ==
  /\ UNCHANGED playing
  /\ \/ playing = "screen" /\ Next /\ UNCHANGED <<placeVars, dotVars>>
     \/ playing = "place" /\ Place!Next /\ UNCHANGED <<vars, dotVars>>
     \/ playing = "dot on the phone" /\ Dot(TRUE)!Next /\ UNCHANGED <<vars, placeVars>>
     \/ playing = "dot on the desktop" /\ Dot(FALSE)!Next /\ UNCHANGED <<vars, placeVars>>

MCSpec == MCInit /\ [][MCNext]_<<playing, vars, placeVars, dotVars>>

\* The list on screen is typed, and is the channel once all is quiet: see
\* ChannelScreen.
ScreenIsSound == TypeOK /\ ScreenIsExact
\* The reading position and what is marked as read: see ReadingPlace.
PlaceIsKept == playing = "place" => Place!TypeOK /\ Place!PlaceIsKept
\* The dot and the number beside a channel, on either client: see Unread.
UnreadIsRight ==
  /\ playing = "dot on the phone" => Dot(TRUE)!TypeOK /\ Dot(TRUE)!UnreadIsRight
  /\ playing = "dot on the desktop" => Dot(FALSE)!TypeOK /\ Dot(FALSE)!UnreadIsRight
=============================================================================
