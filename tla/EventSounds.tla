----------------------------- MODULE EventSounds -----------------------------
(***************************************************************************)
(* The table of everybody's entrance and exit sounds, and the sound files:  *)
(* event-sounds.service.ts.                                                 *)
(*                                                                          *)
(* The table is one row, which every edit reads, changes and writes back    *)
(* whole; an uploaded sound is a row of its own, made before the table      *)
(* names it and dropped after the table stopped to.                         *)
(*                                                                          *)
(* DropsAnyway is a plausible bug of the definition that follows it.        *)
(***************************************************************************)
EXTENDS Naturals, FiniteSets

CONSTANTS
  Slots,     \* whose sound, and for which event
  PeopleOf,  \* whose slot it is
  MaxFiles,  \* bound on uploads
  MaxAtOnce, \* bound on edits under way
  MaxEdits,  \* bound on edits
  MaxDeaths  \* bound on restarts

ASSUME SoundsAssumption ==
  MaxFiles \in Nat /\ MaxAtOnce \in Nat /\ MaxEdits \in Nat /\ MaxDeaths \in Nat

Silent == 0
Files == 1..MaxFiles
Builtin == MaxFiles + 1
Table == [Slots -> {Silent, Builtin} \cup Files]
Steps == {"reading", "storing", "saving", "telling", "dropping"}
Edit == [do : {"silence", "builtin", "volume", "upload", "clear"}, slot : Slots, at : Steps,
         copy : Table, old : Table, file : Files \cup {Silent}]

VARIABLES
  table,   \* the row userEventSounds
  files,   \* the rows eventSoundFile:id
  edits,   \* under way
  heard,   \* what every client was told last
  overlap, \* edits overlapped
  died,    \* the server died during one, or a file could not be stored
  next,    \* the next file
  left     \* what is left of MaxEdits and MaxDeaths

vars == <<table, files, edits, heard, overlap, died, next, left>>

TypeOK ==
  /\ table \in Table /\ heard \in Table
  /\ files \subseteq Files /\ edits \subseteq Edit
  /\ overlap \in BOOLEAN /\ died \in BOOLEAN
  /\ next \in 1..(MaxFiles + 1) /\ left \in [{"edits", "deaths"} -> Nat]

Init ==
  /\ table = [s \in Slots |-> Silent] /\ heard = table
  /\ files = {} /\ edits = {}
  /\ overlap = FALSE /\ died = FALSE /\ next = 1
  /\ left = [edits |-> MaxEdits, deaths |-> MaxDeaths]

Spend(what) == left[what] > 0 /\ left' = [left EXCEPT ![what] = @ - 1]
Moves(e, f) == edits' = (edits \ {e}) \cup {f}
Ends(e) == edits' = edits \ {e}

\* set, upload, clear.
Ask ==
  /\ Cardinality(edits) < MaxAtOnce
  /\ Spend("edits")
  /\ \E do \in {"silence", "builtin", "volume", "upload", "clear"}, s \in Slots :
       edits' = edits \cup {[do |-> do, slot |-> s, at |-> "reading", copy |-> table, old |-> table, file |-> Silent]}
  /\ overlap' = (overlap \/ edits # {})
  /\ UNCHANGED <<table, files, heard, died, next>>

\* What the edit makes of the table it read.
Changed(e) ==
  [s \in Slots |->
     CASE e.do = "clear" /\ PeopleOf[s] = PeopleOf[e.slot] -> Silent
       [] e.do = "silence" /\ s = e.slot -> Silent
       [] e.do = "builtin" /\ s = e.slot -> Builtin
       [] e.do = "upload" /\ s = e.slot -> e.file
       [] OTHER -> e.copy[s]]

\* config; the volume of a sound that was not uploaded is refused, and there is
\* nothing to clear for somebody without sounds.
Read(e) ==
  /\ e.at = "reading"
  /\ LET f == [e EXCEPT !.copy = table, !.old = table]
     IN IF \/ e.do = "volume" /\ table[e.slot] \notin Files
           \/ e.do = "clear" /\ Changed(f) = table
        THEN Ends(e)
        ELSE Moves(e, [f EXCEPT !.at = IF e.do = "upload" THEN "storing" ELSE "saving"])
  /\ UNCHANGED <<table, files, heard, overlap, died, next, left>>

\* upload: the file, and only then the table that names it.
Store(e) ==
  /\ e.at = "storing" /\ next <= MaxFiles
  /\ files' = files \cup {next} /\ next' = next + 1
  /\ Moves(e, [e EXCEPT !.at = "saving", !.file = next])
  /\ UNCHANGED <<table, heard, overlap, died, left>>

\* save: the row, then the broadcast.
Save(e) ==
  /\ e.at = "saving"
  /\ table' = Changed(e)
  /\ Moves(e, [e EXCEPT !.at = "telling", !.copy = Changed(e)])
  /\ UNCHANGED <<files, heard, overlap, died, next, left>>

DropsAnyway(e) == {e.old[s] : s \in {t \in Slots : t = e.slot \/ e.copy[t] # e.old[t]}} \cap Files
\* What the table named where it was changed; a new volume leaves the file.
Dropped(e) == {e.old[s] : s \in {t \in Slots : e.copy[t] # e.old[t]}} \cap Files

BroadcastEventSounds(e) ==
  /\ e.at = "telling"
  /\ heard' = e.copy
  /\ IF Dropped(e) = {} THEN Ends(e) ELSE Moves(e, [e EXCEPT !.at = "dropping"])
  /\ UNCHANGED <<table, files, overlap, died, next, left>>

\* dropFile, whose failure is swallowed.
DropFile(e) ==
  /\ e.at = "dropping"
  /\ \/ files' = files \ Dropped(e) /\ UNCHANGED <<died, left>>
     \/ Spend("deaths") /\ died' = TRUE /\ UNCHANGED files
  /\ Ends(e)
  /\ UNCHANGED <<table, heard, overlap, next>>

\* The server goes down, and its clients with it; they ask again.
Restart ==
  /\ Spend("deaths")
  /\ died' = (died \/ edits # {})
  /\ edits' = {} /\ heard' = table
  /\ UNCHANGED <<table, files, overlap, next>>

Next ==
  \/ Ask \/ Restart
  \/ \E e \in edits : Read(e) \/ Store(e) \/ Save(e) \/ BroadcastEventSounds(e) \/ DropFile(e)

Spec == Init /\ [][Next]_vars

-----------------------------------------------------------------------------

\* A sound the table names is there to be played, through restarts in the
\* middle of an edit, as long as edits do not overlap; and once nothing is
\* under way everybody plays from the table as it is, and no file is kept that
\* nobody plays unless the server died over it.
PlayableAlone ==
  ~overlap =>
    /\ \A s \in Slots : table[s] \in Files => table[s] \in files
    /\ edits = {} => heard = table
    /\ (edits = {} /\ ~died) => files = {table[s] : s \in Slots} \cap Files

\* The same, in states that are typed: no edit writes anything but sounds back.
SoundsArePlayable == TypeOK /\ PlayableAlone

\* Without the excuse.  It does not hold: of two edits at once the one that
\* read first writes back a table that names the file the other has dropped.
AlwaysPlayable == \A s \in Slots : table[s] \in Files => table[s] \in files
=============================================================================
