-------------------------- MODULE EventSoundsProofs --------------------------
(***************************************************************************)
(* Proofs about EventSounds, for any slots, people and bounds: as long as   *)
(* edits do not overlap, the table of sounds, the files and what clients    *)
(* play keep together through failures and restarts.                        *)
(***************************************************************************)
EXTENDS EventSounds, TLAPS

(* The invariant the proofs use.                                            *)

\* The files a table of sounds names.
Named(sounds) == {sounds[s] : s \in Slots} \cap Files

\* The file an upload has stored and no table names yet.
Carried(e) == IF e.do = "upload" THEN {e.file} ELSE {}

\* Where the one edit under way is, and what the rest looks like from there.
Along(e) ==
  CASE e.at = "reading" -> heard = table /\ (~died => files = Named(table))
    [] e.at = "storing" ->
         /\ e.do = "upload" /\ e.copy = table /\ e.old = table /\ heard = table
         /\ ~died => files = Named(table)
    [] e.at = "saving" ->
         /\ e.copy = table /\ e.old = table
         /\ e.do = "upload" => e.file \in files /\ e.file \notin Named(table)
         /\ ~died => files = Named(table) \cup Carried(e)
    [] e.at = "telling" ->
         /\ e.copy = table
         /\ Dropped(e) \cap Named(table) = {}
         /\ ~died => files = Named(table) \cup Dropped(e)
    [] e.at = "dropping" ->
         /\ heard = table
         /\ Dropped(e) \cap Named(table) = {}
         /\ ~died => files = Named(table) \cup Dropped(e)

\* With one edit at a time no two slots share a file, so that what one slot
\* gives up no other still plays; and a new file is new.
AloneInv ==
  /\ \A e, f \in edits : e = f
  /\ \A s, t \in Slots : table[s] \in Files /\ table[s] = table[t] => s = t
  /\ Named(table) \subseteq files
  /\ \A n \in files : n < next
  /\ edits = {} => heard = table /\ (~died => files = Named(table))
  /\ \A e \in edits : Along(e)

SoundsInv == TypeOK /\ (~overlap => AloneInv)

-----------------------------------------------------------------------------
(* Tables.                                                                  *)

LEMMA Kinds == /\ MaxFiles \in Nat /\ Silent \notin Files /\ Builtin \notin Files
               /\ \A n \in Files : n \in Nat
BY SoundsAssumption DEF Silent, Files, Builtin

\* What an edit says of each slot.
LEMMA ChangedAt ==
  ASSUME NEW e \in Edit, NEW s \in Slots
  PROVE  /\ Changed(e)[s] \in {Silent, Builtin} \cup Files
         /\ \/ Changed(e)[s] = e.copy[s]
            \/ Changed(e)[s] \in {Silent, Builtin}
            \/ e.do = "upload" /\ s = e.slot /\ Changed(e)[s] = e.file
         /\ (e.do = "upload" /\ s = e.slot) => Changed(e)[s] = e.file
<1>1. /\ e.copy \in Table /\ e.file \in Files \cup {Silent}
      /\ e.do \in {"silence", "builtin", "volume", "upload", "clear"}
  BY DEF Edit
<1>2. e.copy[s] \in {Silent, Builtin} \cup Files
  BY <1>1 DEF Table
<1>3. Changed(e)[s] =
        CASE e.do = "clear" /\ PeopleOf[s] = PeopleOf[e.slot] -> Silent
          [] e.do = "silence" /\ s = e.slot -> Silent
          [] e.do = "builtin" /\ s = e.slot -> Builtin
          [] e.do = "upload" /\ s = e.slot -> e.file
          [] OTHER -> e.copy[s]
  BY DEF Changed
<1>4. CASE e.do = "clear"
  BY <1>2, <1>3, <1>4
<1>5. CASE e.do = "silence"
  BY <1>2, <1>3, <1>5
<1>6. CASE e.do = "builtin"
  BY <1>2, <1>3, <1>6
<1>7. CASE e.do = "upload"
  BY <1>1, <1>2, <1>3, <1>7
<1>8. CASE e.do = "volume"
  BY <1>2, <1>3, <1>8
<1> QED
  BY <1>1, <1>4, <1>5, <1>6, <1>7, <1>8

LEMMA ChangedIsATable ==
  ASSUME NEW e \in Edit
  PROVE  Changed(e) \in Table
<1>1. \A s \in Slots : Changed(e)[s] \in {Silent, Builtin} \cup Files
  BY ChangedAt
<1>2. Changed(e) = [s \in Slots |-> Changed(e)[s]]
  BY DEF Changed
<1> QED
  BY <1>1, <1>2 DEF Table

\* Saving an edit swaps the files it gives up for the one it carries.
LEMMA Swapped ==
  ASSUME NEW e \in Edit, e.copy = e.old,
         \A s, t \in Slots : e.old[s] \in Files /\ e.old[s] = e.old[t] => s = t,
         e.do = "upload" => e.file \in Files /\ e.file \notin Named(e.old),
         NEW f, f.old = e.old, f.copy = Changed(e)
  PROVE  /\ Named(e.old) \cup Carried(e) = Named(Changed(e)) \cup Dropped(f)
         /\ Dropped(f) \cap Named(Changed(e)) = {}
         /\ \A s, t \in Slots : Changed(e)[s] \in Files /\ Changed(e)[s] = Changed(e)[t] => s = t
<1> DEFINE new == Changed(e)
           old == e.old
<1>1. \A s \in Slots :
        /\ \/ new[s] = old[s]
           \/ new[s] \notin Files
           \/ e.do = "upload" /\ s = e.slot /\ new[s] = e.file
        /\ (e.do = "upload" /\ s = e.slot) => new[s] = e.file
  BY ChangedAt, Kinds
<1>2. e.slot \in Slots
  BY DEF Edit
<1>3. Dropped(f) = {old[s] : s \in {t \in Slots : new[t] # old[t]}} \cap Files
  BY DEF Dropped
<1>4. \A n : n \in Named(old) <=> n \in Files /\ \E s \in Slots : n = old[s]
  BY DEF Named
<1>5. \A n : n \in Named(new) <=> n \in Files /\ \E s \in Slots : n = new[s]
  BY DEF Named
<1>6. \A n : n \in Dropped(f) <=> n \in Files /\ \E s \in Slots : n = old[s] /\ new[s] # old[s]
  BY <1>3
<1>7. \A n : n \in Carried(e) <=> e.do = "upload" /\ n = e.file
  BY DEF Carried
<1> HIDE DEF new, old
<1>8. e.do = "upload" => e.file \in Files /\ ~\E s \in Slots : e.file = old[s]
  BY <1>4 DEF old
<1>9. \A s, t \in Slots : old[s] \in Files /\ old[s] = old[t] => s = t
  BY DEF old
<1>10. ASSUME NEW n \in Named(old) \cup Carried(e)
       PROVE  n \in Named(new) \cup Dropped(f)
  BY <1>1, <1>2, <1>4, <1>5, <1>6, <1>7, <1>8
<1>11. ASSUME NEW n \in Named(new) \cup Dropped(f)
       PROVE  n \in Named(old) \cup Carried(e)
  BY <1>1, <1>4, <1>5, <1>6, <1>7, <1>8
<1>12. ASSUME NEW n \in Dropped(f), n \in Named(new)
       PROVE  FALSE
  <2>1. PICK s \in Slots : n = old[s] /\ new[s] # old[s] /\ n \in Files
    BY <1>6
  <2>2. PICK t \in Slots : n = new[t]
    BY <1>5, <1>12
  <2>3. new[t] = old[t]
    BY <1>1, <1>8, <2>1, <2>2
  <2>4. s = t
    BY <1>9, <2>1, <2>2, <2>3
  <2> QED
    BY <2>1, <2>3, <2>4
<1>13. ASSUME NEW s \in Slots, NEW t \in Slots, new[s] \in Files, new[s] = new[t]
       PROVE  s = t
  BY <1>1, <1>8, <1>9, <1>13
<1> QED
  BY <1>10, <1>11, <1>12, <1>13 DEF new, old

-----------------------------------------------------------------------------
(* The steps.                                                               *)

\* The steps that start or end nothing keep TypeOK's last parts.
LEMMA SpendIsTyped ==
  ASSUME TypeOK, NEW what \in {"edits", "deaths"}, Spend(what)
  PROVE  left' \in [{"edits", "deaths"} -> Nat]
BY DEF TypeOK, Spend

\* Alone, an edit that moves on is the only one still.
LEMMA OnlyOne ==
  ASSUME \A e, f \in edits : e = f, NEW e \in edits, NEW f
  PROVE  /\ Moves(e, f) => edits' = {f}
         /\ Ends(e) => edits' = {}
BY DEF Moves, Ends

LEMMA SoundsAsk ==
  ASSUME SoundsInv, Ask
  PROVE  SoundsInv'
<1>1. PICK do \in {"silence", "builtin", "volume", "upload", "clear"}, s \in Slots :
        edits' = edits \cup {[do |-> do, slot |-> s, at |-> "reading", copy |-> table,
                              old |-> table, file |-> Silent]}
  BY DEF Ask
<1> DEFINE new == [do |-> do, slot |-> s, at |-> "reading", copy |-> table, old |-> table, file |-> Silent]
<1>2. PICK e : e = new
  OBVIOUS
<1>3. e \in Edit /\ e.at = "reading"
  BY <1>2 DEF SoundsInv, TypeOK, Edit, Steps
<1>4. edits' = edits \cup {e}
  BY <1>1, <1>2
<1> HIDE DEF new
<1>5. /\ UNCHANGED <<table, files, heard, died, next>>
      /\ overlap' = (overlap \/ edits # {})
      /\ left' \in [{"edits", "deaths"} -> Nat]
  BY SpendIsTyped DEF Ask, SoundsInv
<1>6. TypeOK'
  BY <1>3, <1>5, <1>4 DEF SoundsInv, TypeOK
<1>7. ~overlap' => AloneInv'
  <2> SUFFICES ASSUME ~overlap' PROVE AloneInv'
    OBVIOUS
  <2>1. edits = {} /\ ~overlap
    BY <1>5 DEF SoundsInv, TypeOK
  <2>2. edits' = {e} /\ AloneInv
    BY <1>4, <2>1 DEF SoundsInv
  <2>3. heard = table /\ (~died => files = Named(table))
    BY <2>1, <2>2 DEF AloneInv
  <2>4. Named(table)' = Named(table)
    BY <1>5 DEF Named
  <2>5. Along(e)'
    BY <1>3, <1>5, <2>3, <2>4 DEF Along
  <2> QED
    BY <1>5, <2>2, <2>4, <2>5 DEF AloneInv
<1> QED
  BY <1>6, <1>7 DEF SoundsInv

LEMMA SoundsRead ==
  ASSUME SoundsInv, NEW e \in edits, Read(e)
  PROVE  SoundsInv'
<1> DEFINE f == [e EXCEPT !.copy = table, !.old = table]
           new == [f EXCEPT !.at = IF e.do = "upload" THEN "storing" ELSE "saving"]
<1>1. /\ e \in Edit /\ table \in Table /\ e.at = "reading"
      /\ UNCHANGED <<table, files, heard, overlap, died, next, left>>
      /\ Ends(e) \/ Moves(e, new)
  BY DEF Read, SoundsInv, TypeOK
<1>2. f \in Edit /\ f.do = e.do /\ f.copy = table /\ f.old = table
  BY <1>1 DEF Edit
<1>3. PICK g : g = new
  OBVIOUS
<1>4. /\ g \in Edit /\ g.do = e.do /\ g.copy = table /\ g.old = table
      /\ g.at = IF e.do = "upload" THEN "storing" ELSE "saving"
  <2> HIDE DEF f
  <2> QED
    BY <1>2, <1>3 DEF Edit, Steps
<1>5. Ends(e) \/ Moves(e, g)
  BY <1>1, <1>3
<1> HIDE DEF new, f
<1>6. TypeOK'
  BY <1>1, <1>4, <1>5 DEF SoundsInv, TypeOK, Moves, Ends
<1>7. ASSUME ~overlap' PROVE AloneInv'
  <2>1. AloneInv
    BY <1>1, <1>7 DEF SoundsInv
  <2>2. heard = table /\ (~died => files = Named(table))
    BY <1>1, <2>1 DEF AloneInv, Along
  <2>3. edits' = {} \/ edits' = {g}
    BY <1>5, <2>1, OnlyOne DEF AloneInv
  <2>4. Named(table)' = Named(table)
    BY <1>1 DEF Named
  <2>5. e.do # "upload" => Carried(g) = {}
    BY <1>4 DEF Carried
  <2>6. Carried(g)' = Carried(g)
    BY DEF Carried
  <2>7. Along(g)'
    BY <1>1, <1>4, <2>2, <2>4, <2>5, <2>6 DEF Along
  <2> QED
    BY <1>1, <2>1, <2>2, <2>3, <2>4, <2>7 DEF AloneInv
<1> QED
  BY <1>6, <1>7 DEF SoundsInv

LEMMA SoundsStore ==
  ASSUME SoundsInv, NEW e \in edits, Store(e)
  PROVE  SoundsInv'
<1> DEFINE new == [e EXCEPT !.at = "saving", !.file = next]
<1>1. /\ e \in Edit /\ e.at = "storing" /\ next \in Files
      /\ files' = files \cup {next} /\ next' = next + 1
      /\ UNCHANGED <<table, heard, overlap, died, left>>
      /\ Moves(e, new)
  BY Kinds DEF Store, SoundsInv, TypeOK, Files
<1>2. PICK g : g = new
  OBVIOUS
<1>3. /\ g \in Edit /\ g.do = e.do /\ g.copy = e.copy /\ g.old = e.old /\ g.file = next
      /\ g.at = "saving"
  BY <1>1, <1>2 DEF Edit, Steps
<1>4. Moves(e, g)
  BY <1>1, <1>2
<1> HIDE DEF new
<1>5. next \in Nat /\ next' \in 1..(MaxFiles + 1)
  BY <1>1, Kinds DEF Files
<1>6. TypeOK'
  BY <1>1, <1>5, <1>3, <1>4 DEF SoundsInv, TypeOK, Moves
<1>7. ASSUME ~overlap' PROVE AloneInv'
  <2>1. AloneInv
    BY <1>1, <1>7 DEF SoundsInv
  <2>2. /\ e.do = "upload" /\ e.copy = table /\ e.old = table
        /\ ~died => files = Named(table)
    BY <1>1, <2>1 DEF AloneInv, Along
  <2>3. edits' = {g}
    BY <1>4, <2>1, OnlyOne DEF AloneInv
  <2>4. next \notin files
    BY <1>5, <2>1 DEF AloneInv
  <2>5. next \notin Named(table)
    BY <2>1, <2>4 DEF AloneInv
  <2>6. Named(table)' = Named(table)
    BY <1>1 DEF Named
  <2>7. Carried(g)' = {g.file}
    BY <1>3, <2>2 DEF Carried
  <2>8. Along(g)'
    BY <1>1, <1>3, <2>2, <2>5, <2>6, <2>7 DEF Along
  <2>9. \A n \in files' : n < next'
    <3>1. files \subseteq Nat
      BY Kinds DEF SoundsInv, TypeOK
    <3> QED
      BY <1>1, <1>5, <2>1, <3>1 DEF AloneInv
  <2> QED
    BY <1>1, <2>1, <2>3, <2>6, <2>9, <2>8 DEF AloneInv
<1> QED
  BY <1>6, <1>7 DEF SoundsInv

LEMMA SoundsSave ==
  ASSUME SoundsInv, NEW e \in edits, Save(e)
  PROVE  SoundsInv'
<1> DEFINE g == [e EXCEPT !.at = "telling", !.copy = Changed(e)]
<1>1. /\ e \in Edit /\ e.at = "saving" /\ table' = Changed(e)
      /\ UNCHANGED <<files, heard, overlap, died, next, left>>
      /\ Moves(e, g)
  BY DEF Save, SoundsInv, TypeOK
<1>2. Changed(e) \in Table
  BY <1>1, ChangedIsATable
<1>3. g \in Edit /\ g.copy = Changed(e) /\ g.old = e.old /\ g.at = "telling"
  BY <1>1, <1>2 DEF Edit, Steps
<1> HIDE DEF g
<1>4. TypeOK'
  BY <1>1, <1>2, <1>3 DEF SoundsInv, TypeOK, Moves
<1>5. ASSUME ~overlap' PROVE AloneInv'
  <2>1. AloneInv
    BY <1>1, <1>5 DEF SoundsInv
  <2>2. /\ e.copy = table /\ e.old = table
        /\ e.do = "upload" => e.file \in files /\ e.file \notin Named(table)
        /\ ~died => files = Named(table) \cup Carried(e)
    BY <1>1, <2>1 DEF AloneInv, Along
  <2>3. edits' = {g}
    BY <1>1, <2>1, OnlyOne DEF AloneInv
  <2>4. files \subseteq Files
    BY DEF SoundsInv, TypeOK
  <2>5. /\ Named(e.old) \cup Carried(e) = Named(Changed(e)) \cup Dropped(g)
        /\ Dropped(g) \cap Named(Changed(e)) = {}
        /\ \A s, t \in Slots : Changed(e)[s] \in Files /\ Changed(e)[s] = Changed(e)[t] => s = t
    <3>1. /\ e.do = "upload" => e.file \in Files /\ e.file \notin Named(e.old)
          /\ \A s, t \in Slots : e.old[s] \in Files /\ e.old[s] = e.old[t] => s = t
      BY <2>1, <2>2, <2>4 DEF AloneInv
    <3> QED
      BY <1>1, <1>3, <2>2, <3>1, Swapped
  <2>6. Named(table)' = Named(Changed(e)) /\ Dropped(g)' = Dropped(g)
    BY <1>1 DEF Named, Dropped
  <2>7. Along(g)'
    BY <1>1, <1>3, <2>2, <2>5, <2>6 DEF Along
  <2>8. Named(Changed(e)) \subseteq files
    BY <2>1, <2>2, <2>5 DEF AloneInv, Carried
  <2> QED
    BY <1>1, <2>1, <2>3, <2>5, <2>6, <2>7, <2>8 DEF AloneInv
<1> QED
  BY <1>4, <1>5 DEF SoundsInv

LEMMA SoundsTold ==
  ASSUME SoundsInv, NEW e \in edits, BroadcastEventSounds(e)
  PROVE  SoundsInv'
<1> DEFINE g == [e EXCEPT !.at = "dropping"]
<1>1. /\ e \in Edit /\ e.at = "telling" /\ heard' = e.copy /\ e.copy \in Table
      /\ UNCHANGED <<table, files, overlap, died, next, left>>
      /\ (Dropped(e) = {} /\ Ends(e)) \/ Moves(e, g)
  BY DEF BroadcastEventSounds, SoundsInv, TypeOK, Edit
<1>2. g \in Edit /\ g.copy = e.copy /\ g.old = e.old /\ g.at = "dropping"
  BY <1>1 DEF Edit, Steps
<1> HIDE DEF g
<1>3. TypeOK'
  BY <1>1, <1>2 DEF SoundsInv, TypeOK, Moves, Ends
<1>4. ASSUME ~overlap' PROVE AloneInv'
  <2>1. AloneInv
    BY <1>1, <1>4 DEF SoundsInv
  <2>2. /\ e.copy = table /\ Dropped(e) \cap Named(table) = {}
        /\ ~died => files = Named(table) \cup Dropped(e)
    BY <1>1, <2>1 DEF AloneInv, Along
  <2>3. (Dropped(e) = {} /\ edits' = {}) \/ edits' = {g}
    BY <1>1, <2>1, OnlyOne DEF AloneInv
  <2>4. Dropped(g) = Dropped(e) /\ Dropped(g)' = Dropped(g) /\ Named(table)' = Named(table)
    BY <1>1, <1>2 DEF Dropped, Named
  <2>5. Along(g)'
    BY <1>1, <1>2, <2>2, <2>4 DEF Along
  <2> QED
    BY <1>1, <2>1, <2>2, <2>3, <2>4, <2>5 DEF AloneInv
<1> QED
  BY <1>3, <1>4 DEF SoundsInv

LEMMA SoundsDropFile ==
  ASSUME SoundsInv, NEW e \in edits, DropFile(e)
  PROVE  SoundsInv'
<1>1. /\ e.at = "dropping" /\ Ends(e)
      /\ UNCHANGED <<table, heard, overlap, next>>
      /\ \/ files' = files \ Dropped(e) /\ UNCHANGED <<died, left>>
         \/ Spend("deaths") /\ died' = TRUE /\ UNCHANGED files
  BY DEF DropFile
<1>2. left' \in [{"edits", "deaths"} -> Nat] /\ died' \in BOOLEAN /\ files' \subseteq files
  BY <1>1, SpendIsTyped DEF SoundsInv, TypeOK
<1>3. TypeOK'
  BY <1>1, <1>2 DEF SoundsInv, TypeOK, Ends
<1>4. ASSUME ~overlap' PROVE AloneInv'
  <2>1. AloneInv
    BY <1>1, <1>4 DEF SoundsInv
  <2>2. /\ heard = table /\ Dropped(e) \cap Named(table) = {}
        /\ ~died => files = Named(table) \cup Dropped(e)
    BY <1>1, <2>1 DEF AloneInv, Along
  <2>3. edits' = {} /\ Named(table)' = Named(table)
    BY <1>1, <2>1, OnlyOne DEF AloneInv, Named
  <2>4. Named(table) \subseteq files' /\ (~died' => files' = Named(table))
    BY <1>1, <2>1, <2>2 DEF AloneInv
  <2> QED
    BY <1>1, <1>2, <2>1, <2>2, <2>3, <2>4 DEF AloneInv
<1> QED
  BY <1>3, <1>4 DEF SoundsInv

LEMMA SoundsRestart ==
  ASSUME SoundsInv, Restart
  PROVE  SoundsInv'
<1>1. /\ died' = (died \/ edits # {}) /\ edits' = {} /\ heard' = table
      /\ UNCHANGED <<table, files, overlap, next>> /\ left' \in [{"edits", "deaths"} -> Nat]
  BY SpendIsTyped DEF Restart, SoundsInv
<1>2. TypeOK'
  BY <1>1 DEF SoundsInv, TypeOK
<1>3. ASSUME ~overlap' PROVE AloneInv'
  <2>1. AloneInv
    BY <1>1, <1>3 DEF SoundsInv
  <2> QED
    BY <1>1, <2>1 DEF AloneInv, Named
<1> QED
  BY <1>2, <1>3 DEF SoundsInv

LEMMA SoundsInit == Init => SoundsInv
<1> SUFFICES ASSUME Init PROVE SoundsInv
  OBVIOUS
<1>1. TypeOK
  <2>1. 1 \in 1..(MaxFiles + 1)
    BY Kinds
  <2>2. table \in Table /\ heard \in Table
    BY DEF Init, Table
  <2>3. left \in [{"edits", "deaths"} -> Nat]
    BY SoundsAssumption DEF Init
  <2> QED
    BY <2>1, <2>2, <2>3 DEF Init, TypeOK
<1>2. \A s \in Slots : table[s] \notin Files
  BY Kinds DEF Init
<1>3. Named(table) = {}
  BY <1>2 DEF Named
<1> QED
  BY <1>1, <1>2, <1>3 DEF Init, SoundsInv, AloneInv

LEMMA SoundsNext == SoundsInv /\ [Next]_vars => SoundsInv'
<1> SUFFICES ASSUME SoundsInv, [Next]_vars PROVE SoundsInv'
  OBVIOUS
<1>1. CASE Ask
  BY <1>1, SoundsAsk
<1>2. CASE Restart
  BY <1>2, SoundsRestart
<1>3. ASSUME NEW e \in edits, Read(e) PROVE SoundsInv'
  BY <1>3, SoundsRead
<1>4. ASSUME NEW e \in edits, Store(e) PROVE SoundsInv'
  BY <1>4, SoundsStore
<1>5. ASSUME NEW e \in edits, Save(e) PROVE SoundsInv'
  BY <1>5, SoundsSave
<1>6. ASSUME NEW e \in edits, BroadcastEventSounds(e) PROVE SoundsInv'
  BY <1>6, SoundsTold
<1>7. ASSUME NEW e \in edits, DropFile(e) PROVE SoundsInv'
  BY <1>7, SoundsDropFile
<1>8. CASE UNCHANGED vars
  <2>1. UNCHANGED <<table, files, edits, heard, overlap, died, next, left>>
    BY <1>8 DEF vars
  <2>2. Named(table)' = Named(table)
    BY <2>1 DEF Named
  <2>3. TypeOK'
    BY <2>1 DEF SoundsInv, TypeOK
  <2>4. \A e \in edits : Along(e) => Along(e)'
    BY <2>1, <2>2 DEF Along
  <2>5. AloneInv => AloneInv'
    BY <2>1, <2>2, <2>4 DEF AloneInv
  <2> QED
    BY <2>1, <2>3, <2>5 DEF SoundsInv
<1> QED
  BY <1>1, <1>2, <1>3, <1>4, <1>5, <1>6, <1>7, <1>8 DEF Next

\* In every state reached without two edits at once, a sound the table names is
\* there to be played, and when nothing is under way everybody plays from the
\* table and no file is left over (set, upload, clear, save, dropFile), whatever
\* was cut off by a restart or refused by the database.
THEOREM SoundsAreAlwaysPlayable == Spec => []SoundsArePlayable
<1>1. SoundsInv => SoundsArePlayable
  <2> SUFFICES ASSUME SoundsInv, ~overlap PROVE PlayableAlone
    BY DEF SoundsInv, SoundsArePlayable, PlayableAlone
  <2>1. AloneInv
    BY DEF SoundsInv
  <2> QED
    BY <2>1 DEF AloneInv, PlayableAlone, Named
<1> QED
  BY <1>1, SoundsInit, SoundsNext, PTL DEF Spec
=============================================================================
