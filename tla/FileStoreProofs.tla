--------------------------- MODULE FileStoreProofs ---------------------------
(***************************************************************************)
(* Proofs about FileStore, for any numbers of files, people, requests and   *)
(* purges at once: types, and that rows and avatars keep their files.       *)
(***************************************************************************)
EXTENDS FileStore, TLAPS

(* Why rows and avatars keep their files: the invariant the proofs use.     *)

Avatars == {avatar[u] : u \in users} \ {None}
Pointed == Rows \cup Avatars

\* Every name is given out before it is used, and to one holder at a time.
NamesSound ==
  /\ Rows \cup Avatars \cup Held \subseteq 1..named
  /\ Rows \cap Avatars = {}
  /\ \A u \in users, v \in users : u # v /\ avatar[u] # None => avatar[u] # avatar[v]

\* What a request holds is young, and nothing else knows of it yet.
HeldSound ==
  /\ Held \subseteq disk \ (old \cup Pointed)
  /\ \A r \in requests, q \in requests : r # q => r.held \cap q.held = {}
  /\ \A r \in requests : r.doing = "discard" => r.held = {}

\* The picture a request means to discard is nobody else's, and by the time it
\* is discarded nobody's.
ReplacedSound ==
  \A r \in requests : r.was # None =>
    /\ r.was \in 1..named /\ r.was \notin Rows /\ r.was \notin Held
    /\ \A u \in users : avatar[u] = r.was => u = r.user /\ r.doing # "discard"

\* A purge names only what nothing points at, and a name that nothing pointed
\* at an hour after it was written is never pointed at again.
PurgesSound ==
  \A j \in Jobs :
    /\ job[j].doing = "unlink" => job[j].names \subseteq old \ Pointed
    /\ job[j].asked # "" => job[j].doing = "clean"
    /\ job[j].asked = "rows" => old \ job[j].names \subseteq Files \ Pointed

\* The sweep only ever takes files that are past their deadline.
SweepSound ==
  \A f \in expiry.todo \cup ({expiry.at} \ {None}) :
    f \in old /\ f \notin Avatars /\ row[f] \notin {"kept", "timed"}

DueIsOld == \A f \in Files : row[f] = "due" => f \in old

Sound == /\ PicturesStay /\ AvatarsStay
         /\ NamesSound /\ HeldSound /\ ReplacedSound
         /\ PurgesSound /\ SweepSound /\ DueIsOld


-----------------------------------------------------------------------------
(* Types.                                                                   *)

\* What the store starts with has the types of TypeOK.
LEMMA InitTypes == Init => TypeOK
<1> SUFFICES ASSUME Init PROVE TypeOK
  OBVIOUS
<1>1. Asleep \in JobType
  BY DEF Asleep, JobType
<1>2. NoSweep \in SweepType
  BY DEF NoSweep, SweepType
<1> QED
  BY <1>1, <1>2, FileStoreAssumption DEF Init, TypeOK, Files

\* A job's records, changed field by field, stay records of a job.
LEMMA JobTypes ==
  ASSUME NEW b \in JobType, NEW ms \in SUBSET Messages, NEW fs \in SUBSET Files,
         NEW doing \in {"idle", "clean", "unlink", "dead rows"},
         NEW asked \in {"", "disk", "rows"}
  PROVE  /\ Asleep \in JobType
         /\ [Asleep EXCEPT !.doing = doing, !.messages = ms, !.rows = fs] \in JobType
         /\ [Asleep EXCEPT !.doing = doing, !.names = fs] \in JobType
         /\ [b EXCEPT !.rows = fs] \in JobType
         /\ [b EXCEPT !.messages = ms] \in JobType
         /\ [b EXCEPT !.asked = asked, !.names = fs] \in JobType
         /\ [b EXCEPT !.names = fs] \in JobType
BY DEF Asleep, JobType

\* What WithoutRows leaves has the types of rows and messages.
LEMMA WithoutRowsTypes ==
  ASSUME TypeOK, NEW fs, NEW ms, WithoutRows(fs, ms)
  PROVE  /\ row' \in [Files -> {"none", "kept", "timed", "due", "expired"}]
         /\ of' \in [Files -> Messages \cup {None}]
         /\ message' \in [Messages -> {"unsent", "live", "deleted", "gone"}]
BY DEF TypeOK, WithoutRows

LEMMA TypesKept == TypeOK /\ [Next]_vars => TypeOK'
<1> SUFFICES ASSUME TypeOK, [Next]_vars PROVE TypeOK'
  OBVIOUS
<1> USE FileStoreAssumption
<1>1. CASE HourPasses
  BY <1>1 DEF HourPasses, TypeOK
<1>2. CASE DeadlinePasses
  BY <1>2 DEF DeadlinePasses, TypeOK
<1>3. ASSUME NEW doing \in {"send", "avatar", "remove"}, NEW u \in users, NEW n \in 0..MaxFiles,
             NEW was \in Files \cup {None}, Arrives(doing, u, n, was)
      PROVE  TypeOK'
  <2>1. [doing |-> doing, user |-> u, wants |-> n, held |-> {}, was |-> was] \in RequestType
    BY DEF RequestType, TypeOK
  <2> QED
    BY <1>3, <2>1 DEF Arrives, TypeOK
<1>4. CASE Send \/ UploadAvatar \/ RemoveAvatar
  <2>1. CASE Send
    BY <1>3, <2>1 DEF Send
  <2>2. CASE UploadAvatar
    <3>1. \A u \in users : avatar[u] \in Files \cup {None}
      BY DEF TypeOK
    <3> QED
      BY <1>3, <2>2, <3>1 DEF UploadAvatar
  <2>3. CASE RemoveAvatar
    <3>1. \A u \in users : avatar[u] \in Files \cup {None}
      BY DEF TypeOK
    <3> QED
      BY <1>3, <2>3, <3>1 DEF RemoveAvatar
  <2> QED
    BY <1>4, <2>1, <2>2, <2>3
<1>5. ASSUME NEW r \in requests, Store(r) PROVE TypeOK'
  <2>1. named + 1 \in 1..MaxUploads /\ named' = named + 1 /\ 1..named \subseteq 1..named'
    BY <1>5 DEF Store, TypeOK
  <2>2. [r EXCEPT !.held = @ \cup {named + 1}] \in RequestType
    BY <2>1 DEF TypeOK, RequestType, Files
  <2>3. disk' \subseteq 1..named' /\ old' \subseteq 1..named'
    BY <1>5, <2>1 DEF Store, TypeOK
  <2>4. requests' \subseteq RequestType
    BY <1>5, <2>2 DEF Store, Becomes, TypeOK
  <2>5. named' \in 0..MaxUploads
    BY <2>1
  <2> QED
    BY <1>5, <2>3, <2>4, <2>5 DEF Store, TypeOK
<1>6. ASSUME NEW r \in requests, CreateMessage(r) PROVE TypeOK'
  BY <1>6 DEF CreateMessage, Becomes, TypeOK
<1>7. ASSUME NEW r \in requests, SetAvatar(r) PROVE TypeOK'
  <2>1. r \in RequestType
    BY DEF TypeOK
  <2>2. [r EXCEPT !.doing = "discard", !.wants = 0, !.held = {}] \in RequestType
    <3>1. 0 \in 0..MaxFiles
      OBVIOUS
    <3> QED
      BY <2>1, <3>1 DEF RequestType
  <2>3. (IF r.held = {} THEN None ELSE CHOOSE f \in r.held : TRUE) \in Files \cup {None}
    BY <2>1 DEF RequestType
  <2> QED
    BY <1>7, <2>2, <2>3 DEF SetAvatar, Becomes, TypeOK
<1>8. ASSUME NEW r \in requests, DiscardReplaced(r) PROVE TypeOK'
  <2>1. disk' \subseteq disk /\ budget' \in 0..MaxMishaps
    BY <1>8 DEF DiscardReplaced, Gone, Mishap, TypeOK
  <2> QED
    BY <1>8, <2>1 DEF DiscardReplaced, Becomes, TypeOK
<1>9. ASSUME NEW r \in requests, Fails(r) PROVE TypeOK'
  BY <1>9 DEF Fails, Becomes, TypeOK
<1>10. ASSUME NEW m \in Messages, DeleteMessage(m) PROVE TypeOK'
  BY <1>10 DEF DeleteMessage, TypeOK
<1>11. CASE RemoveChannel
  BY <1>11, WithoutRowsTypes DEF RemoveChannel, TypeOK
<1>12. ASSUME NEW u \in Users, DeleteUser(u) PROVE TypeOK'
  BY <1>12, WithoutRowsTypes DEF DeleteUser, TypeOK
<1>13. ASSUME NEW j \in Jobs, NEW doing \in {"clean", "dead rows"}, NEW ms \in SUBSET Messages,
              NEW fs \in SUBSET Files, Begin(j, doing, ms, fs)
       PROVE  TypeOK'
  BY <1>13, JobTypes DEF Begin, TypeOK
<1>14. ASSUME NEW j \in Jobs,
              Retention(j) \/ RemoveDeleted(j) \/ OrphanedFiles(j) \/ OrphanedRows(j)
       PROVE  TypeOK'
  <2>1. Rows \in SUBSET Files /\ {} \in SUBSET Files /\ {} \in SUBSET Messages
    BY DEF Rows
  <2>2. CASE Retention(j)
    <3>1. PICK ms \in SUBSET Messages, oldest \in 0..named : Begin(j, "clean", ms, Doomed(ms, oldest))
      BY <2>2 DEF Retention
    <3>2. Doomed(ms, oldest) \in SUBSET Files
      BY <2>1 DEF Doomed
    <3> QED
      BY <1>13, <3>1, <3>2
  <2>3. CASE RemoveDeleted(j)
    <3>1. PICK ms \in SUBSET {m \in Messages : message[m] = "deleted"} : Begin(j, "clean", ms, {})
      BY <2>3 DEF RemoveDeleted
    <3>2. ms \in SUBSET Messages
      OBVIOUS
    <3> QED
      BY <1>13, <2>1, <3>1, <3>2
  <2>4. CASE OrphanedFiles(j)
    BY <1>13, <2>1, <2>4 DEF OrphanedFiles
  <2>5. CASE OrphanedRows(j)
    BY <1>13, <2>1, <2>5 DEF OrphanedRows
  <2> QED
    BY <1>14, <2>2, <2>3, <2>4, <2>5
<1>15. ASSUME NEW j \in Jobs, DeleteRows(j) PROVE TypeOK'
  <2>1. PICK B : WithoutRows(B, {}) /\ job' = [job EXCEPT ![j].rows = @ \ B]
    BY <1>15 DEF DeleteRows
  <2>2. job[j] \in JobType /\ job[j].rows \ B \in SUBSET Files
    BY DEF TypeOK, JobType
  <2>3. job' \in [Jobs -> JobType]
    BY <2>1, <2>2, JobTypes DEF TypeOK
  <2> QED
    BY <1>15, <2>1, <2>3, WithoutRowsTypes DEF DeleteRows, TypeOK
<1>16. ASSUME NEW j \in Jobs, DeleteMessages(j) PROVE TypeOK'
  <2>1. PICK B : WithoutRows({}, B) /\ job' = [job EXCEPT ![j].messages = @ \ B]
    BY <1>16 DEF DeleteMessages
  <2>2. job[j] \in JobType /\ job[j].messages \ B \in SUBSET Messages
    BY DEF TypeOK, JobType
  <2>3. job' \in [Jobs -> JobType]
    BY <2>1, <2>2, JobTypes DEF TypeOK
  <2> QED
    BY <1>16, <2>1, <2>3, WithoutRowsTypes DEF DeleteMessages, TypeOK
<1>17. ASSUME NEW j \in Jobs, NEW what \in {"disk", "rows"}, NEW names \in SUBSET Files,
              NEW strays \in SUBSET Files, Answered(j, what, names, strays)
       PROVE  job' \in [Jobs -> JobType]
  BY <1>17, JobTypes DEF Answered, TypeOK
<1>18. KnownFileNames \subseteq Files /\ disk \subseteq Files
  BY DEF KnownFileNames, Rows, TypeOK, Files
<1>19. \A j \in Jobs : job[j].names \subseteq Files
  BY DEF TypeOK, JobType
<1>20. ASSUME NEW j \in Jobs, Walk(j) PROVE TypeOK'
  <2>1. PICK seen \in {disk, {}} : Listing(seen) /\ Answered(j, "disk", seen, Strays(seen, job[j].names))
    BY <1>20 DEF Walk
  <2>2. seen \in SUBSET Files /\ Strays(seen, job[j].names) \in SUBSET Files
    BY <1>18 DEF Strays
  <2>3. job' \in [Jobs -> JobType]
    BY <1>17, <2>1, <2>2
  <2> QED
    BY <1>20, <2>1, <2>3 DEF Walk, Listing, Mishap, TypeOK
<1>21. ASSUME NEW j \in Jobs, AskRows(j) PROVE TypeOK'
  <2>1. Strays(job[j].names, KnownFileNames) \in SUBSET Files
    BY <1>19 DEF Strays
  <2>2. job' \in [Jobs -> JobType]
    BY <1>17, <1>18, <1>21, <2>1 DEF AskRows
  <2> QED
    BY <1>21, <2>2 DEF AskRows, TypeOK
<1>22. ASSUME NEW j \in Jobs, Unlink(j) PROVE TypeOK'
  <2>1. job' \in [Jobs -> JobType]
    <3>1. PICK f : job' = [job EXCEPT ![j] = Past(job[j], f)]
      BY <1>22 DEF Unlink
    <3>2. Past(job[j], f) \in JobType
      <4>1. job[j] \in JobType /\ job[j].names \ {f} \in SUBSET Files
        BY DEF TypeOK, JobType
      <4>2. [job[j] EXCEPT !.names = job[j].names \ {f}] \in JobType /\ Asleep \in JobType
        BY <4>1, JobTypes
      <4> QED
        BY <4>2 DEF Past
    <3> QED
      BY <3>1, <3>2 DEF TypeOK
  <2> QED
    <3>1. PICK f : Gone(f)
      BY <1>22 DEF Unlink
    <3>2. disk' \subseteq disk /\ budget' \in 0..MaxMishaps
      BY <3>1 DEF Gone, Mishap, TypeOK
    <3> QED
      BY <1>22, <2>1, <3>2 DEF Unlink, TypeOK
<1>23. ASSUME NEW j \in Jobs, DropDeadRows(j) PROVE TypeOK'
  <2>1. job' \in [Jobs -> JobType]
    BY <1>23, JobTypes DEF DropDeadRows, TypeOK
  <2>2. budget' \in 0..MaxMishaps
    <3>1. PICK seen : Listing(seen)
      BY <1>23 DEF DropDeadRows
    <3> QED
      BY <3>1 DEF Listing, Mishap, TypeOK
  <2> QED
    <3>1. PICK seen : WithoutRows(job[j].rows \ seen, {})
      BY <1>23 DEF DropDeadRows
    <3> HIDE DEF TypeOK
    <3>2. /\ row' \in [Files -> {"none", "kept", "timed", "due", "expired"}]
          /\ of' \in [Files -> Messages \cup {None}]
          /\ message' \in [Messages -> {"unsent", "live", "deleted", "gone"}]
      BY <3>1, WithoutRowsTypes
    <3> QED
      BY <1>23, <2>1, <2>2, <3>2 DEF DropDeadRows, TypeOK
<1>24. CASE Sweep
  BY <1>24 DEF Sweep, SweepBegins, SweepDiscards, SweepStamps, SweepType, NoSweep, DueRows,
               Rows, Gone, Mishap, TypeOK
<1>25. CASE Restart
  <2>1. Asleep \in JobType /\ NoSweep \in SweepType
    BY DEF Asleep, JobType, NoSweep, SweepType
  <2> QED
    BY <1>25, <2>1 DEF Restart, Mishap, TypeOK
<1>26. CASE UNCHANGED vars
  BY <1>26 DEF vars, TypeOK
<1> QED
  BY <1>1, <1>2, <1>4, <1>5, <1>6, <1>7, <1>8, <1>9, <1>10, <1>11, <1>12, <1>14, <1>15, <1>16,
     <1>20, <1>21, <1>22, <1>23, <1>24, <1>25, <1>26 DEF Next, JobSteps

\* The types of every state (FileStore's state as a whole).
THEOREM FileTypesCorrect == Spec => []TypeOK
<1>1. Init => TypeOK
  BY InitTypes
<1>2. TypeOK /\ [Next]_vars => TypeOK'
  BY TypesKept
<1> QED
  BY <1>1, <1>2, PTL DEF Spec

-----------------------------------------------------------------------------
(* Files.                                                                   *)

LEMMA NoneNotFile == None \notin Files
BY FileStoreAssumption DEF Files

LEMMA HeldMeans ==
  /\ \A f : f \in Held <=> \E r \in requests : f \in r.held
  /\ \A f : f \in Held' <=> \E r \in requests' : f \in r.held
BY DEF Held

LEMMA AvatarsMeans ==
  /\ \A f : f \in Avatars <=> \E u \in users : f = avatar[u] /\ f # None
  /\ \A f : f \in Avatars' <=> \E u \in users' : f = avatar'[u] /\ f # None
BY DEF Avatars

LEMMA RowsMeans ==
  /\ \A f : f \in Rows <=> f \in Files /\ row[f] # "none"
  /\ \A f : f \in Rows' <=> f \in Files /\ row'[f] # "none"
BY DEF Rows

LEMMA InitSound == Init => Sound
<1> SUFFICES ASSUME Init PROVE Sound
  OBVIOUS
<1>1. Rows = {} /\ Held = {}
  BY DEF Init, Rows, Held
<1>2. Avatars = {} /\ Pointed = {}
  BY <1>1 DEF Init, Avatars, Pointed
<1>3. PicturesStay /\ DueIsOld
  BY DEF Init, PicturesStay, DueIsOld
<1>4. AvatarsStay
  BY DEF Init, AvatarsStay
<1>5. NamesSound
  BY <1>1, <1>2 DEF Init, NamesSound
<1>6. HeldSound /\ ReplacedSound
  BY <1>1, <1>2 DEF Init, HeldSound, ReplacedSound
<1>7. PurgesSound
  BY <1>2 DEF Init, PurgesSound, Asleep
<1>8. SweepSound
  BY DEF Init, SweepSound, NoSweep
<1> QED
  BY <1>3, <1>4, <1>5, <1>6, <1>7, <1>8 DEF Sound

\* A step that only takes away, and takes from the disk only what nothing needs,
\* keeps everything sound: what most handlers come down to.
LEMMA LessIsSound ==
  ASSUME TypeOK, TypeOK', Sound,
         old' = old, named' = named, users' \subseteq users, requests' \subseteq requests,
         \A u \in users' : avatar'[u] = avatar[u],
         \A f \in Files : \/ row'[f] \in {row[f], "none"}
                          \/ row[f] # "none" /\ row'[f] = "expired"
                          \/ row[f] = "timed" /\ row'[f] = "due" /\ f \in old,
         \A j \in Jobs :
           /\ job'[j].doing = "unlink" => job[j].doing = "unlink" /\ job'[j].names \subseteq job[j].names
           /\ job'[j].asked # "" => job'[j].asked = job[j].asked /\ job'[j].doing = job[j].doing
                                    /\ job'[j].names = job[j].names,
         expiry'.todo \cup {expiry'.at} \subseteq expiry.todo \cup {expiry.at, None},
         disk' \subseteq disk,
         \A f \in disk \ disk' : f \notin Held \cup Avatars /\ row[f] \notin {"kept", "timed"}
  PROVE  Sound'
<1> USE FileStoreAssumption
<1>1. Rows' \subseteq Rows
  BY RowsMeans
<1>2. Avatars' \subseteq Avatars
  <2> SUFFICES ASSUME NEW f, f \in Avatars' PROVE f \in Avatars
    OBVIOUS
  <2>1. PICK u \in users' : f = avatar'[u] /\ f # None
    BY AvatarsMeans
  <2>2. u \in users /\ f = avatar[u]
    BY <2>1
  <2> QED
    BY <2>1, <2>2, AvatarsMeans
<1>3. Held' \subseteq Held
  BY HeldMeans
<1>4. Pointed' \subseteq Pointed
  BY <1>1, <1>2 DEF Pointed
<1>5. PicturesStay'
  <2> SUFFICES ASSUME NEW f \in Files, row'[f] \in {"kept", "timed"} PROVE f \in disk'
    BY DEF PicturesStay
  <2>1. row[f] \in {"kept", "timed"}
    OBVIOUS
  <2> QED
    BY <2>1 DEF Sound, PicturesStay
<1>6. AvatarsStay'
  <2> SUFFICES ASSUME NEW u \in users', avatar'[u] # None PROVE avatar'[u] \in disk'
    BY DEF AvatarsStay
  <2>1. u \in users /\ avatar'[u] = avatar[u] /\ avatar[u] \in Avatars
    BY DEF Avatars
  <2> QED
    BY <2>1 DEF Sound, AvatarsStay
<1>7. NamesSound'
  <2>1. Rows' \cup Avatars' \cup Held' \subseteq 1..named' /\ Rows' \cap Avatars' = {}
    BY <1>1, <1>2, <1>3 DEF Sound, NamesSound
  <2>2. ASSUME NEW u \in users', NEW v \in users', u # v, avatar'[u] # None
        PROVE  avatar'[u] # avatar'[v]
    <3>1. u \in users /\ v \in users /\ avatar'[u] = avatar[u] /\ avatar'[v] = avatar[v]
      OBVIOUS
    <3>2. avatar[u] # None => avatar[u] # avatar[v]
      BY <2>2, <3>1 DEF Sound, NamesSound
    <3> QED
      BY <2>2, <3>1, <3>2
  <2> QED
    BY <2>1, <2>2 DEF NamesSound
<1>8. HeldSound'
  <2>1. Held' \subseteq disk'
    BY <1>3 DEF Sound, HeldSound
  <2>2. Held' \cap (old' \cup Pointed') = {}
    BY <1>3, <1>4 DEF Sound, HeldSound
  <2>3. \A r \in requests', q \in requests' : r # q => r.held \cap q.held = {}
    BY DEF Sound, HeldSound
  <2>4. \A r \in requests' : r.doing = "discard" => r.held = {}
    BY DEF Sound, HeldSound
  <2> QED
    BY <2>1, <2>2, <2>3, <2>4 DEF HeldSound
<1>9. ReplacedSound'
  <2> SUFFICES ASSUME NEW r \in requests', r.was # None
               PROVE  /\ r.was \in 1..named' /\ r.was \notin Rows' /\ r.was \notin Held'
                      /\ \A u \in users' : avatar'[u] = r.was => u = r.user /\ r.doing # "discard"
    BY DEF ReplacedSound
  <2>1. /\ r.was \in 1..named /\ r.was \notin Rows /\ r.was \notin Held
        /\ \A u \in users : avatar[u] = r.was => u = r.user /\ r.doing # "discard"
    BY DEF Sound, ReplacedSound
  <2> QED
    BY <1>1, <1>3, <2>1
<1>10. PurgesSound'
  <2> SUFFICES ASSUME NEW j \in Jobs
               PROVE  /\ job'[j].doing = "unlink" => job'[j].names \subseteq old' \ Pointed'
                      /\ job'[j].asked # "" => job'[j].doing = "clean"
                      /\ job'[j].asked = "rows" => old' \ job'[j].names \subseteq Files \ Pointed'
    BY DEF PurgesSound
  <2>1. /\ job[j].doing = "unlink" => job[j].names \subseteq old \ Pointed
        /\ job[j].asked # "" => job[j].doing = "clean"
        /\ job[j].asked = "rows" => old \ job[j].names \subseteq Files \ Pointed
    BY DEF Sound, PurgesSound
  <2> QED
    BY <1>4, <2>1
<1>11. SweepSound'
  <2> SUFFICES ASSUME NEW f \in expiry'.todo \cup ({expiry'.at} \ {None})
               PROVE  f \in old' /\ f \notin Avatars' /\ row'[f] \notin {"kept", "timed"}
    BY DEF SweepSound
  <2>0. f \in Files /\ f # None
    <3>1. expiry' \in SweepType /\ None \notin Files
      BY NoneNotFile DEF TypeOK
    <3> QED
      <4>1. expiry'.todo \subseteq Files /\ expiry'.at \in Files \cup {None}
        BY <3>1 DEF SweepType
      <4> QED
        BY <3>1, <4>1
  <2>1. f \in expiry.todo \cup ({expiry.at} \ {None}) /\ f \in Files
    BY <2>0
  <2>2. f \in old /\ f \notin Avatars /\ row[f] \notin {"kept", "timed"}
    BY <2>1 DEF Sound, SweepSound
  <2> QED
    BY <1>2, <2>1, <2>2
<1>12. DueIsOld'
  BY DEF Sound, DueIsOld
<1> QED
  BY <1>5, <1>6, <1>7, <1>8, <1>9, <1>10, <1>11, <1>12 DEF Sound


\* The hour passes: what grows old is on the disk and in nobody's hands.
LEMMA HourIsSound == TypeOK /\ Sound /\ HourPasses => Sound'
<1> SUFFICES ASSUME TypeOK, Sound, HourPasses PROVE Sound'
  OBVIOUS
<1>1. /\ UNCHANGED <<disk, named, row, avatar, users, requests, job, expiry>>
      /\ old \subseteq old' /\ old' \subseteq old \cup (disk \ Held)
      /\ \A j \in Jobs : job[j].asked = ""
  BY DEF HourPasses
<1>2. Rows' = Rows /\ Avatars' = Avatars /\ Held' = Held /\ Pointed' = Pointed
  BY <1>1 DEF Rows, Avatars, Held, Pointed
<1>3. PicturesStay' /\ AvatarsStay' /\ NamesSound' /\ ReplacedSound'
  BY <1>1, <1>2 DEF Sound, PicturesStay, AvatarsStay, NamesSound, ReplacedSound
<1>4. HeldSound'
  BY <1>1, <1>2 DEF Sound, HeldSound
<1>5. PurgesSound'
  BY <1>1, <1>2 DEF Sound, PurgesSound
<1>6. SweepSound' /\ DueIsOld'
  BY <1>1, <1>2 DEF Sound, SweepSound, DueIsOld
<1> QED
  BY <1>3, <1>4, <1>5, <1>6 DEF Sound

\* A request arrives, holding nothing; what it means to replace is its own.
LEMMA ArrivalIsSound ==
  ASSUME TypeOK, Sound, NEW doing \in {"send", "avatar", "remove"}, NEW u \in users, NEW n,
         NEW was \in {None, avatar[u]}, Arrives(doing, u, n, was)
  PROVE  Sound'
<1> DEFINE new == [doing |-> doing, user |-> u, wants |-> n, held |-> {}, was |-> was]
<1>1. /\ UNCHANGED <<disk, old, named, row, avatar, users, job, expiry>>
      /\ requests' = requests \cup {new}
  BY DEF Arrives
<1>2. new.held = {} /\ new.doing = doing /\ new.user = u /\ new.was = was
  OBVIOUS
<1> HIDE DEF new
<1>3. Rows' = Rows /\ Avatars' = Avatars /\ Pointed' = Pointed
  BY <1>1 DEF Rows, Avatars, Pointed
<1>4. Held' = Held
  BY <1>1, <1>2, HeldMeans
<1>5. PicturesStay' /\ AvatarsStay' /\ NamesSound' /\ PurgesSound' /\ SweepSound' /\ DueIsOld'
  BY <1>1, <1>3, <1>4
     DEF Sound, PicturesStay, AvatarsStay, NamesSound, PurgesSound, SweepSound, DueIsOld
<1>6. HeldSound'
  BY <1>1, <1>2, <1>3, <1>4 DEF Sound, HeldSound
<1>7. ASSUME was # None
      PROVE  /\ was \in 1..named /\ was \notin Rows /\ was \notin Held
             /\ \A v \in users : avatar[v] = was => v = u
  <2>1. was = avatar[u] /\ was \in Avatars
    BY <1>7, AvatarsMeans
  <2> QED
    BY <1>7, <2>1 DEF Sound, NamesSound, HeldSound, Pointed
<1>8. ReplacedSound'
  BY <1>1, <1>2, <1>3, <1>4, <1>7 DEF Sound, ReplacedSound
<1> QED
  BY <1>5, <1>6, <1>8 DEF Sound

\* A file is stored under a name nobody has.
LEMMA StoreIsSound ==
  ASSUME TypeOK, TypeOK', Sound, NEW r \in requests, Store(r)
  PROVE  Sound'
<1> DEFINE f == named + 1
           new == [r EXCEPT !.held = @ \cup {f}]
<1>1. /\ UNCHANGED <<old, row, avatar, users, job, expiry>>
      /\ requests' = (requests \ {r}) \cup {new}
      /\ named' = f /\ disk' = disk \cup {f} /\ r.doing # "discard"
  BY DEF Store, Becomes
<1>2. new.held = r.held \cup {f} /\ new.doing = r.doing /\ new.user = r.user /\ new.was = r.was
  BY DEF TypeOK, RequestType
<1>3. f \in 1..f /\ f \notin 1..named /\ 1..named \subseteq 1..f
  BY DEF TypeOK
<1>4. f \notin old \cup Rows \cup Avatars \cup Held
  BY <1>3 DEF Sound, NamesSound, TypeOK
<1> HIDE DEF new, f
<1>5. Rows' = Rows /\ Avatars' = Avatars /\ Pointed' = Pointed
  BY <1>1 DEF Rows, Avatars, Pointed
<1>6. Held' = Held \cup {f}
  BY <1>1, <1>2, HeldMeans
<1>7. PicturesStay' /\ AvatarsStay' /\ PurgesSound' /\ SweepSound' /\ DueIsOld'
  BY <1>1, <1>5 DEF Sound, PicturesStay, AvatarsStay, PurgesSound, SweepSound, DueIsOld
<1>8. NamesSound'
  BY <1>1, <1>3, <1>5, <1>6 DEF Sound, NamesSound
<1>9. HeldSound'
  <2>1. Held' \subseteq disk' \ (old' \cup Pointed')
    BY <1>1, <1>4, <1>5, <1>6 DEF Sound, HeldSound, Pointed
  <2>2. \A q \in requests : q # r => q.held \cap new.held = {}
    BY <1>2, <1>4, HeldMeans DEF Sound, HeldSound
  <2>3. \A q \in requests', s \in requests' : q # s => q.held \cap s.held = {}
    BY <1>1, <2>2 DEF Sound, HeldSound
  <2>4. \A q \in requests' : q.doing = "discard" => q.held = {}
    BY <1>1, <1>2 DEF Sound, HeldSound
  <2> QED
    BY <2>1, <2>3, <2>4 DEF HeldSound
<1>10. ReplacedSound'
  <2> SUFFICES ASSUME NEW q \in requests', q.was # None
               PROVE  /\ q.was \in 1..named' /\ q.was \notin Rows' /\ q.was \notin Held'
                      /\ \A u \in users' : avatar'[u] = q.was => u = q.user /\ q.doing # "discard"
    BY DEF ReplacedSound
  <2>1. PICK s \in requests : s.was = q.was /\ s.user = q.user /\ s.doing = q.doing
    BY <1>1, <1>2
  <2>2. /\ s.was \in 1..named /\ s.was \notin Rows /\ s.was \notin Held
        /\ \A u \in users : avatar[u] = s.was => u = s.user /\ s.doing # "discard"
    BY <2>1 DEF Sound, ReplacedSound
  <2> QED
    BY <1>1, <1>3, <1>5, <1>6, <2>1, <2>2
<1> QED
  BY <1>7, <1>8, <1>9, <1>10 DEF Sound

\* What a request leaves to others leaves its hands.
LEMMA HandedOver ==
  ASSUME Sound, NEW r \in requests, requests \ {r} \subseteq requests',
         \A q \in requests' : q \in requests \ {r} \/ q.held = {}
  PROVE  Held' = Held \ r.held
<1>1. \A q \in requests \ {r} : q.held \cap r.held = {}
  BY DEF Sound, HeldSound
<1>2. ASSUME NEW f, f \in Held' PROVE f \in Held /\ f \notin r.held
  <2>1. PICK q \in requests' : f \in q.held
    BY <1>2, HeldMeans
  <2>2. q \in requests \ {r}
    BY <2>1
  <2> QED
    BY <1>1, <2>1, <2>2, HeldMeans
<1>3. ASSUME NEW f, f \in Held, f \notin r.held PROVE f \in Held'
  <2>1. PICK q \in requests : f \in q.held
    BY <1>3, HeldMeans
  <2>2. q \in requests'
    BY <1>3, <2>1
  <2> QED
    BY <2>1, <2>2, HeldMeans
<1>4. \A f : f \in Held' <=> f \in Held \ r.held
  BY <1>2, <1>3
<1> QED
  BY <1>4

\* A message is created with its rows.
LEMMA CreateIsSound ==
  ASSUME TypeOK, TypeOK', Sound, NEW r \in requests, CreateMessage(r)
  PROVE  Sound'
<1>1. PICK pictures \in SUBSET r.held :
        row' = [f \in Files |-> IF f \in pictures THEN "kept"
                                 ELSE IF f \in r.held THEN "timed" ELSE row[f]]
  BY DEF CreateMessage
<1>2. /\ UNCHANGED <<disk, old, named, avatar, users, job, expiry>>
      /\ requests' = (requests \ {r}) \cup {}
  BY DEF CreateMessage, Becomes
<1>3. r.held \subseteq Files /\ r.held \subseteq Held
  BY HeldMeans DEF TypeOK, RequestType
<1>4. /\ \A f \in r.held : row'[f] \in {"kept", "timed"}
      /\ \A f \in Files \ r.held : row'[f] = row[f]
  BY <1>1, <1>3
<1>5. Rows' = Rows \cup r.held
  BY <1>3, <1>4, RowsMeans
<1>6. Avatars' = Avatars /\ Pointed' = Pointed \cup r.held
  BY <1>2, <1>5 DEF Avatars, Pointed
<1>7. Held' = Held \ r.held
  BY <1>2, HandedOver
<1>8. Held \subseteq disk \ (old \cup Pointed)
  BY DEF Sound, HeldSound
<1>9. PicturesStay'
  BY <1>2, <1>3, <1>4, <1>8 DEF Sound, PicturesStay
<1>10. AvatarsStay'
  BY <1>2 DEF Sound, AvatarsStay
<1>11. NamesSound'
  BY <1>2, <1>3, <1>5, <1>6, <1>7, <1>8 DEF Sound, NamesSound, Pointed
<1>12. HeldSound'
  BY <1>2, <1>6, <1>7 DEF Sound, HeldSound
<1>13. ReplacedSound'
  BY <1>2, <1>3, <1>5, <1>7 DEF Sound, ReplacedSound
<1>14. PurgesSound'
  BY <1>2, <1>3, <1>6, <1>8 DEF Sound, PurgesSound
<1>15. SweepSound'
  <2> SUFFICES ASSUME NEW f \in expiry.todo \cup ({expiry.at} \ {None})
               PROVE  f \in old /\ f \notin Avatars /\ row'[f] \notin {"kept", "timed"}
    BY <1>2, <1>6 DEF SweepSound
  <2>1. f \in old /\ f \notin Avatars /\ row[f] \notin {"kept", "timed"}
    BY DEF Sound, SweepSound
  <2>2. f \in Files
    <3>1. 1..named \subseteq 1..MaxUploads /\ old \subseteq 1..named
      BY FileStoreAssumption DEF TypeOK
    <3> QED
      BY <2>1, <3>1 DEF Files
  <2>3. f \notin r.held
    BY <1>3, <1>8, <2>1
  <2> QED
    BY <1>4, <2>1, <2>2, <2>3
<1>16. DueIsOld'
  BY <1>2, <1>4 DEF Sound, DueIsOld
<1> QED
  BY <1>9, <1>10, <1>11, <1>12, <1>13, <1>14, <1>15, <1>16 DEF Sound

\* The picture changes: what was held becomes somebody's, what it replaces
\* nobody's.
LEMMA SetIsSound ==
  ASSUME TypeOK, TypeOK', Sound, NEW r \in requests, SetAvatar(r)
  PROVE  Sound'
<1> DEFINE image == IF r.held = {} THEN None ELSE CHOOSE f \in r.held : TRUE
           new == [r EXCEPT !.doing = "discard", !.wants = 0, !.held = {}]
<1>1. /\ UNCHANGED <<disk, old, named, row, users, job, expiry>>
      /\ requests' = (requests \ {r}) \cup {new}
      /\ avatar' = [avatar EXCEPT ![r.user] = image]
      /\ r.user \in users
  BY DEF SetAvatar, Becomes
<1>2. new.held = {} /\ new.doing = "discard" /\ new.user = r.user /\ new.was = r.was
  BY DEF TypeOK, RequestType
<1>3. image \in r.held \cup {None} /\ r.held \subseteq Held
  BY HeldMeans
<1> HIDE DEF new, image
<1>4. /\ avatar'[r.user] = image
      /\ \A u \in users \ {r.user} : avatar'[u] = avatar[u]
  BY <1>1 DEF TypeOK
<1>5. Held' = Held \ r.held
  BY <1>1, <1>2, HandedOver
<1>6. Rows' = Rows
  BY <1>1 DEF Rows
<1>7. \A f \in Avatars' : f \in Avatars \/ (f = image /\ f # None)
  BY <1>1, <1>4, AvatarsMeans
<1>8. Held \subseteq disk \ (old \cup Rows \cup Avatars) /\ Held \subseteq 1..named
  BY DEF Sound, HeldSound, NamesSound, Pointed
<1>9. \A f \in Pointed' : f \in Pointed \/ f \notin old
  BY <1>3, <1>6, <1>7, <1>8 DEF Pointed
<1>10. PicturesStay' /\ DueIsOld'
  BY <1>1 DEF Sound, PicturesStay, DueIsOld
<1>11. AvatarsStay'
  <2> SUFFICES ASSUME NEW u \in users, avatar'[u] # None PROVE avatar'[u] \in disk
    BY <1>1 DEF AvatarsStay
  <2>1. CASE u = r.user
    BY <1>3, <1>4, <1>8, <2>1
  <2>2. CASE u # r.user
    BY <1>4, <2>2 DEF Sound, AvatarsStay
  <2> QED
    BY <2>1, <2>2
<1>12. NamesSound'
  <2>1. Rows' \cup Avatars' \cup Held' \subseteq 1..named' /\ Rows' \cap Avatars' = {}
    BY <1>1, <1>3, <1>5, <1>6, <1>7, <1>8 DEF Sound, NamesSound
  <2>2. ASSUME NEW u \in users, NEW v \in users, u # v, avatar'[u] # None
        PROVE  avatar'[u] # avatar'[v]
    <3>1. avatar[u] # None => avatar[u] # avatar[v]
      BY <2>2 DEF Sound, NamesSound
    <3>2. \A w \in users : avatar[w] # None => avatar[w] \notin r.held
      BY <1>3, <1>8, AvatarsMeans
    <3> QED
      BY <1>3, <1>4, <2>2, <3>1, <3>2
  <2> QED
    BY <1>1, <2>1, <2>2 DEF NamesSound
<1>13. HeldSound'
  <2>1. Held' \subseteq disk' \ (old' \cup Pointed')
    <3>1. Held' \cap Pointed' = {}
      BY <1>3, <1>5, <1>6, <1>7, <1>8 DEF Pointed
    <3> QED
      BY <1>1, <1>5, <1>8, <3>1
  <2>2. \A q \in requests', s \in requests' : q # s => q.held \cap s.held = {}
    BY <1>1, <1>2 DEF Sound, HeldSound
  <2>3. \A q \in requests' : q.doing = "discard" => q.held = {}
    BY <1>1, <1>2 DEF Sound, HeldSound
  <2> QED
    BY <2>1, <2>2, <2>3 DEF HeldSound
<1>14. ReplacedSound'
  <2> SUFFICES ASSUME NEW q \in requests', q.was # None
               PROVE  /\ q.was \in 1..named /\ q.was \notin Rows /\ q.was \notin Held'
                      /\ \A u \in users : avatar'[u] = q.was => u = q.user /\ q.doing # "discard"
    BY <1>1, <1>6 DEF ReplacedSound
  <2>1. CASE q \in requests \ {r}
    <3>1. /\ q.was \in 1..named /\ q.was \notin Rows /\ q.was \notin Held
          /\ \A u \in users : avatar[u] = q.was => u = q.user /\ q.doing # "discard"
      BY <2>1 DEF Sound, ReplacedSound
    <3> QED
      BY <1>3, <1>4, <1>5, <3>1
  <2>2. CASE q = new
    <3>1. /\ r.was \in 1..named /\ r.was \notin Rows /\ r.was \notin Held
          /\ \A u \in users : avatar[u] = r.was => u = r.user
      BY <1>2, <2>2 DEF Sound, ReplacedSound
    <3>2. \A u \in users : avatar'[u] # r.was
      BY <1>2, <1>3, <1>4, <2>2, <3>1
    <3> QED
      BY <1>2, <1>5, <2>2, <3>1, <3>2
  <2> QED
    BY <1>1, <2>1, <2>2
<1>15. PurgesSound'
  BY <1>1, <1>9 DEF Sound, PurgesSound
<1>16. SweepSound'
  BY <1>1, <1>3, <1>7, <1>8 DEF Sound, SweepSound
<1> QED
  BY <1>10, <1>11, <1>12, <1>13, <1>14, <1>15, <1>16 DEF Sound

\* The disk or the database answers a purge.
LEMMA AnswerIsSound ==
  ASSUME TypeOK, TypeOK', Sound, NEW j \in Jobs, Walk(j) \/ AskRows(j)
  PROVE  Sound'
<1>1. UNCHANGED <<disk, old, named, row, avatar, users, requests, expiry>>
  BY DEF Walk, AskRows
<1>2. Rows' = Rows /\ Avatars' = Avatars /\ Held' = Held /\ Pointed' = Pointed
  BY <1>1 DEF Rows, Avatars, Held, Pointed
<1>3. /\ PicturesStay' /\ AvatarsStay' /\ NamesSound' /\ HeldSound' /\ ReplacedSound'
      /\ SweepSound' /\ DueIsOld'
  BY <1>1, <1>2 DEF Sound, PicturesStay, AvatarsStay, NamesSound, HeldSound, ReplacedSound,
                    SweepSound, DueIsOld
<1>4. KnownFileNames = Pointed
  BY DEF KnownFileNames, Pointed, Avatars
<1>5. old \subseteq Files
  <2>1. 1..named \subseteq 1..MaxUploads /\ old \subseteq 1..named
    BY FileStoreAssumption DEF TypeOK
  <2> QED
    BY <2>1 DEF Files
<1>6. PICK what, names, strays :
        /\ what \in {"disk", "rows"} /\ Answered(j, what, names, strays)
        /\ what = "rows" => names = Pointed /\ strays = (job[j].names \ Pointed) \cap old
        /\ what = "disk" => strays = (names \ job[j].names) \cap old
  BY <1>4 DEF Walk, AskRows, Strays
<1> DEFINE b == IF job[j].asked = "" THEN [job[j] EXCEPT !.asked = what, !.names = names]
                ELSE IF strays = {} THEN Asleep
                ELSE [Asleep EXCEPT !.doing = "unlink", !.names = strays]
<1>7. /\ job[j].doing = "clean" /\ job[j].asked # what
      /\ job' = [job EXCEPT ![j] = b]
  BY <1>6 DEF Answered
<1>8. job[j] \in JobType
  BY DEF TypeOK
<1>9. CASE job[j].asked = ""
  <2>1. b.asked = what /\ b.names = names /\ b.doing = "clean"
    BY <1>7, <1>8, <1>9 DEF JobType
  <2>2. what = "rows" => old \ names \subseteq Files \ Pointed
    BY <1>5, <1>6
  <2> HIDE DEF b
  <2> QED
    BY <1>1, <1>2, <1>3, <1>6, <1>7, <2>1, <2>2 DEF Sound, PurgesSound, TypeOK
<1>10. CASE job[j].asked # ""
  <2>1. b.asked = "" /\ (b.doing = "unlink" => b.names = strays)
    BY <1>10 DEF Asleep
  <2>2. strays \subseteq old \ Pointed
    <3> HIDE DEF b
    <3>0. what = "rows" \/ what = "disk"
      BY <1>6
    <3>1. CASE what = "rows"
      BY <1>6, <3>1
    <3>2. CASE what = "disk"
      <4>1. job[j].asked = "rows"
        BY <1>7, <1>8, <1>10, <3>2 DEF JobType
      <4>2. old \ job[j].names \subseteq Files \ Pointed
        BY <4>1 DEF Sound, PurgesSound
      <4> QED
        BY <1>6, <3>2, <4>2
    <3> QED
      BY <3>0, <3>1, <3>2
  <2> HIDE DEF b
  <2> QED
    BY <1>1, <1>2, <1>3, <1>7, <2>1, <2>2 DEF Sound, PurgesSound, TypeOK
<1> QED
  BY <1>9, <1>10

\* The sweep picks what is past its deadline.
LEMMA SweepBeginsIsSound == TypeOK /\ Sound /\ SweepBegins => Sound'
<1> SUFFICES ASSUME TypeOK, Sound, SweepBegins PROVE Sound'
  OBVIOUS
<1>1. /\ UNCHANGED <<disk, old, named, row, avatar, users, requests, job>>
      /\ expiry'.todo = DueRows /\ expiry'.at = None
  BY DEF SweepBegins, NoSweep
<1>2. Rows' = Rows /\ Avatars' = Avatars /\ Held' = Held /\ Pointed' = Pointed
  BY <1>1 DEF Rows, Avatars, Held, Pointed
<1>3. /\ PicturesStay' /\ AvatarsStay' /\ NamesSound' /\ HeldSound' /\ ReplacedSound'
      /\ PurgesSound' /\ DueIsOld'
  BY <1>1, <1>2 DEF Sound, PicturesStay, AvatarsStay, NamesSound, HeldSound, ReplacedSound,
                    PurgesSound, DueIsOld
<1>4. ASSUME NEW f \in DueRows PROVE f \in old /\ f \notin Avatars /\ row[f] = "due"
  <2>1. f \in Rows /\ row[f] = "due" /\ f \in Files
    BY DEF DueRows, Rows
  <2> QED
    BY <2>1 DEF Sound, NamesSound, DueIsOld
<1>5. SweepSound'
  BY <1>1, <1>2, <1>4 DEF SweepSound
<1> QED
  BY <1>3, <1>5 DEF Sound

\* Rows and messages that go take nothing else with them.
LEMMA WithoutRowsLess ==
  ASSUME NEW fs, NEW ms, WithoutRows(fs, ms)
  PROVE  \A f \in Files : row'[f] \in {row[f], "none"}
BY DEF WithoutRows

\* What no request holds, no person shows and no live row names may be deleted.
LEMMA DiscardedIsNobodys ==
  ASSUME TypeOK, Sound, NEW r \in requests, r.doing = "discard", r.was # None
  PROVE  r.was \notin Held \cup Avatars /\ row[r.was] \notin {"kept", "timed"}
<1>1. /\ r.was \in 1..named /\ r.was \notin Rows /\ r.was \notin Held
      /\ \A u \in users : avatar[u] # r.was
  BY DEF Sound, ReplacedSound
<1>2. r.was \in Files
  BY DEF TypeOK, RequestType
<1> QED
  BY <1>1, <1>2, AvatarsMeans, RowsMeans

\* The handlers that take away: what requests, people and deletions do.
LEMMA RequestsAreSound ==
  ASSUME TypeOK, TypeOK', Sound,
         \/ DeadlinePasses \/ RemoveChannel \/ Restart \/ UNCHANGED vars
         \/ \E r \in requests : DiscardReplaced(r) \/ Fails(r)
         \/ \E m \in Messages : DeleteMessage(m)
         \/ \E u \in Users : DeleteUser(u)
  PROVE  Sound'
<1>1. CASE DeadlinePasses
  BY <1>1, LessIsSound DEF DeadlinePasses
<1>2. CASE RemoveChannel
  <2>1. \A f \in Files : row'[f] \in {row[f], "none"}
    BY <1>2, WithoutRowsLess DEF RemoveChannel
  <2> QED
    BY <1>2, <2>1, LessIsSound DEF RemoveChannel
<1>3. CASE Restart
  <2>1. /\ UNCHANGED <<disk, old, named, row, avatar, users>> /\ requests' = {}
        /\ expiry'.todo = {} /\ expiry'.at = None
        /\ \A j \in Jobs : job'[j].doing = "idle" /\ job'[j].asked = ""
    BY <1>3 DEF Restart, NoSweep, Asleep
  <2> QED
    BY <2>1, LessIsSound
<1>4. CASE UNCHANGED vars
  BY <1>4, LessIsSound DEF vars
<1>5. ASSUME NEW r \in requests, DiscardReplaced(r) PROVE Sound'
  <2>1. /\ UNCHANGED <<old, named, row, avatar, users, job, expiry>>
        /\ requests' = requests \ {r} /\ r.doing = "discard"
        /\ disk' \subseteq disk /\ disk \ disk' \subseteq {r.was} \ {None}
    BY <1>5, NoneNotFile DEF DiscardReplaced, Becomes, Gone
  <2>2. \A f \in disk \ disk' : f \notin Held \cup Avatars /\ row[f] \notin {"kept", "timed"}
    BY <2>1, DiscardedIsNobodys
  <2> QED
    BY <2>1, <2>2, LessIsSound
<1>6. ASSUME NEW r \in requests, Fails(r) PROVE Sound'
  BY <1>6, LessIsSound DEF Fails, Becomes
<1>7. ASSUME NEW m \in Messages, DeleteMessage(m) PROVE Sound'
  BY <1>7, LessIsSound DEF DeleteMessage
<1>8. ASSUME NEW u \in Users, DeleteUser(u) PROVE Sound'
  <2>1. \A f \in Files : row'[f] \in {row[f], "none"}
    BY <1>8, WithoutRowsLess DEF DeleteUser
  <2>2. \A v \in users' : avatar'[v] = avatar[v]
    BY <1>8 DEF DeleteUser, TypeOK
  <2> QED
    BY <1>8, <2>1, <2>2, LessIsSound DEF DeleteUser
<1> QED
  BY <1>1, <1>2, <1>3, <1>4, <1>5, <1>6, <1>7, <1>8

\* A job's record that is replaced by one that knows no more keeps its side of
\* LessIsSound.
LEMMA JobLess ==
  ASSUME TypeOK, NEW j \in Jobs, NEW b, job' = [job EXCEPT ![j] = b],
         b.doing = "unlink" => job[j].doing = "unlink" /\ b.names \subseteq job[j].names,
         b.asked # "" => b.asked = job[j].asked /\ b.doing = job[j].doing /\ b.names = job[j].names
  PROVE  \A i \in Jobs :
           /\ job'[i].doing = "unlink" => job[i].doing = "unlink" /\ job'[i].names \subseteq job[i].names
           /\ job'[i].asked # "" => job'[i].asked = job[i].asked /\ job'[i].doing = job[i].doing
                                    /\ job'[i].names = job[i].names
<1>1. job'[j] = b /\ \A i \in Jobs \ {j} : job'[i] = job[i]
  BY DEF TypeOK
<1> QED
  BY <1>1

\* What a purge does, short of asking the disk and the database.
LEMMA PurgesAreSound ==
  ASSUME TypeOK, TypeOK', Sound, NEW j \in Jobs,
         \/ Retention(j) \/ RemoveDeleted(j) \/ OrphanedFiles(j) \/ OrphanedRows(j)
         \/ DeleteRows(j) \/ DeleteMessages(j) \/ Unlink(j) \/ DropDeadRows(j)
  PROVE  Sound'
<1>1. job[j] \in JobType
  BY DEF TypeOK
<1>2. ASSUME NEW doing \in {"clean", "dead rows"}, NEW ms, NEW fs, Begin(j, doing, ms, fs)
      PROVE  Sound'
  <2> DEFINE b == [Asleep EXCEPT !.doing = doing, !.messages = ms, !.rows = fs]
  <2>1. b.doing # "unlink" /\ b.asked = ""
    BY DEF Asleep
  <2>2. /\ UNCHANGED <<disk, old, named, row, avatar, users, requests, expiry>>
        /\ job' = [job EXCEPT ![j] = b]
    BY <1>2 DEF Begin
  <2> HIDE DEF b
  <2>3. \A i \in Jobs :
           /\ job'[i].doing = "unlink" => job[i].doing = "unlink" /\ job'[i].names \subseteq job[i].names
           /\ job'[i].asked # "" => job'[i].asked = job[i].asked /\ job'[i].doing = job[i].doing
                                    /\ job'[i].names = job[i].names
    BY <2>1, <2>2, JobLess
  <2> QED
    BY <2>2, <2>3, LessIsSound
<1>3. CASE Retention(j)
  BY <1>2, <1>3 DEF Retention
<1>4. CASE RemoveDeleted(j)
  BY <1>2, <1>4 DEF RemoveDeleted
<1>5. CASE OrphanedFiles(j)
  BY <1>2, <1>5 DEF OrphanedFiles
<1>6. CASE OrphanedRows(j)
  BY <1>2, <1>6 DEF OrphanedRows
<1>7. CASE DeleteRows(j) \/ DeleteMessages(j)
  <2>1. PICK fs, ms, b :
          /\ WithoutRows(fs, ms)
          /\ job' = [job EXCEPT ![j] = b]
          /\ b.doing = job[j].doing /\ b.asked = job[j].asked /\ b.names = job[j].names
    <3>1. CASE DeleteRows(j)
      <4>1. PICK B : WithoutRows(B, {}) /\ job' = [job EXCEPT ![j].rows = @ \ B]
        BY <3>1 DEF DeleteRows
      <4> DEFINE b == [job[j] EXCEPT !.rows = @ \ B]
      <4>2. b.doing = job[j].doing /\ b.asked = job[j].asked /\ b.names = job[j].names
        BY <1>1 DEF JobType
      <4>3. job' = [job EXCEPT ![j] = b]
        BY <4>1
      <4> HIDE DEF b
      <4> QED
        BY <4>1, <4>2, <4>3
    <3>2. CASE DeleteMessages(j)
      <4>1. PICK B : WithoutRows({}, B) /\ job' = [job EXCEPT ![j].messages = @ \ B]
        BY <3>2 DEF DeleteMessages
      <4> DEFINE b == [job[j] EXCEPT !.messages = @ \ B]
      <4>2. b.doing = job[j].doing /\ b.asked = job[j].asked /\ b.names = job[j].names
        BY <1>1 DEF JobType
      <4>3. job' = [job EXCEPT ![j] = b]
        BY <4>1
      <4> HIDE DEF b
      <4> QED
        BY <4>1, <4>2, <4>3
    <3> QED
      BY <1>7, <3>1, <3>2
  <2>2. \A f \in Files : row'[f] \in {row[f], "none"}
    BY <2>1, WithoutRowsLess
  <2>3. \A i \in Jobs :
           /\ job'[i].doing = "unlink" => job[i].doing = "unlink" /\ job'[i].names \subseteq job[i].names
           /\ job'[i].asked # "" => job'[i].asked = job[i].asked /\ job'[i].doing = job[i].doing
                                    /\ job'[i].names = job[i].names
    BY <2>1, JobLess
  <2>4. UNCHANGED <<disk, old, named, avatar, users, requests, expiry>>
    BY <1>7 DEF DeleteRows, DeleteMessages
  <2> QED
    BY <2>2, <2>3, <2>4, LessIsSound
<1>8. CASE Unlink(j)
  <2>1. PICK f \in job[j].names : Gone(f) /\ job' = [job EXCEPT ![j] = Past(job[j], f)]
    BY <1>8 DEF Unlink
  <2>2. /\ UNCHANGED <<old, named, row, avatar, users, requests, expiry>>
        /\ job[j].doing = "unlink"
    BY <1>8 DEF Unlink
  <2>3. disk' \subseteq disk /\ disk \ disk' \subseteq {f}
    BY <2>1 DEF Gone
  <2>4. f \in old \ Pointed /\ job[j].asked = ""
    BY <2>1, <2>2 DEF Sound, PurgesSound
  <2>5. f \in Files /\ f \notin Held \cup Avatars /\ row[f] \notin {"kept", "timed"}
    <3>1. f \in Files
      BY <1>1 DEF JobType
    <3>2. f \notin Rows /\ f \notin Avatars /\ f \notin Held
      BY <2>4 DEF Sound, HeldSound, Pointed
    <3> QED
      BY <3>1, <3>2, RowsMeans
  <2>6. Past(job[j], f).doing = "unlink" =>
          job[j].doing = "unlink" /\ Past(job[j], f).names \subseteq job[j].names
    BY <1>1, <2>2 DEF Past, Asleep, JobType
  <2>7. Past(job[j], f).asked = ""
    BY <1>1, <2>4 DEF Past, Asleep, JobType
  <2>8. \A i \in Jobs :
           /\ job'[i].doing = "unlink" => job[i].doing = "unlink" /\ job'[i].names \subseteq job[i].names
           /\ job'[i].asked # "" => job'[i].asked = job[i].asked /\ job'[i].doing = job[i].doing
                                    /\ job'[i].names = job[i].names
    BY <2>1, <2>6, <2>7, JobLess
  <2>9. \A g \in disk \ disk' : g \notin Held \cup Avatars /\ row[g] \notin {"kept", "timed"}
    BY <2>3, <2>5
  <2> QED
    BY <2>2, <2>3, <2>8, <2>9, LessIsSound
<1>9. CASE DropDeadRows(j)
  <2>1. \A f \in Files : row'[f] \in {row[f], "none"}
    BY <1>9, WithoutRowsLess DEF DropDeadRows
  <2>2. Asleep.doing # "unlink" /\ Asleep.asked = ""
    BY DEF Asleep
  <2>3. \A i \in Jobs :
           /\ job'[i].doing = "unlink" => job[i].doing = "unlink" /\ job'[i].names \subseteq job[i].names
           /\ job'[i].asked # "" => job'[i].asked = job[i].asked /\ job'[i].doing = job[i].doing
                                    /\ job'[i].names = job[i].names
    BY <1>9, <2>2, JobLess DEF DropDeadRows
  <2> QED
    BY <1>9, <2>1, <2>3, LessIsSound DEF DropDeadRows
<1> QED
  BY <1>3, <1>4, <1>5, <1>6, <1>7, <1>8, <1>9

\* The sweep deletes what is past its deadline, then stamps it.
LEMMA SweepIsSound ==
  ASSUME TypeOK, TypeOK', Sound, SweepDiscards \/ SweepStamps
  PROVE  Sound'
<1>1. CASE SweepDiscards
  <2>1. PICK f \in expiry.todo : Gone(f) /\ expiry' = [expiry EXCEPT !.at = f]
    BY <1>1 DEF SweepDiscards
  <2>2. UNCHANGED <<old, named, row, avatar, users, requests, job>>
    BY <1>1 DEF SweepDiscards
  <2>3. expiry'.todo = expiry.todo /\ expiry'.at = f
    BY <2>1 DEF TypeOK, SweepType
  <2>4. f \in old /\ f \notin Avatars /\ row[f] \notin {"kept", "timed"}
    BY DEF Sound, SweepSound
  <2>5. f \notin Held
    BY <2>4 DEF Sound, HeldSound
  <2>6. disk' \subseteq disk /\ disk \ disk' \subseteq {f}
    BY <2>1 DEF Gone
  <2> QED
    BY <2>2, <2>3, <2>4, <2>5, <2>6, LessIsSound
<1>2. CASE SweepStamps
  <2>1. /\ UNCHANGED <<disk, old, named, avatar, users, requests, job>>
        /\ expiry'.todo \subseteq expiry.todo /\ expiry'.at = None
    BY <1>2 DEF SweepStamps, NoSweep
  <2>2. \A f \in Files : \/ row'[f] = row[f]
                         \/ row[f] # "none" /\ row'[f] = "expired"
    <3>1. DOMAIN row = Files /\ row = [f \in Files |-> row[f]]
      BY DEF TypeOK
    <3>2. CASE expiry.at \in Rows
      <4>1. row' = [row EXCEPT ![expiry.at] = "expired"] /\ row[expiry.at] # "none"
        BY <1>2, <3>2, RowsMeans DEF SweepStamps
      <4> QED
        BY <3>1, <4>1
    <3>3. CASE expiry.at \notin Rows
      BY <1>2, <3>3 DEF SweepStamps
    <3> QED
      BY <3>2, <3>3
  <2> QED
    BY <2>1, <2>2, LessIsSound
<1> QED
  BY <1>1, <1>2

\* Every step of the program keeps rows and avatars their files.
LEMMA SoundKept == TypeOK /\ TypeOK' /\ Sound /\ [Next]_vars => Sound'
<1> SUFFICES ASSUME TypeOK, TypeOK', Sound, [Next]_vars PROVE Sound'
  OBVIOUS
<1>1. CASE Send \/ UploadAvatar \/ RemoveAvatar
  BY <1>1, ArrivalIsSound DEF Send, UploadAvatar, RemoveAvatar
<1>2. ASSUME NEW r \in requests, Store(r) \/ CreateMessage(r) \/ SetAvatar(r) PROVE Sound'
  BY <1>2, StoreIsSound, CreateIsSound, SetIsSound
<1>3. ASSUME NEW j \in Jobs, Walk(j) \/ AskRows(j) PROVE Sound'
  BY <1>3, AnswerIsSound
<1>4. CASE Sweep
  BY <1>4, SweepBeginsIsSound, SweepIsSound DEF Sweep
<1> QED
  BY <1>1, <1>2, <1>3, <1>4, HourIsSound, RequestsAreSound, PurgesAreSound DEF Next, JobSteps

\* A message's pictures and unexpired files never lose their bytes, however
\* sends, deletions, purges, sweeps and restarts overlap (storage.service.ts).
THEOREM PicturesAlwaysStay == Spec => []PicturesStay
<1>1. Init => TypeOK /\ Sound
  BY InitTypes, InitSound
<1>2. TypeOK /\ Sound /\ [Next]_vars => TypeOK' /\ Sound'
  BY TypesKept, SoundKept
<1>3. Sound => PicturesStay
  BY DEF Sound
<1> QED
  BY <1>1, <1>2, <1>3, PTL DEF Spec

\* Nobody's picture is deleted while it is theirs, by an upload of theirs that
\* overlaps another, a purge or a sweep (profile.controller.ts).
THEOREM AvatarsAlwaysStay == Spec => []AvatarsStay
<1>1. Init => TypeOK /\ Sound
  BY InitTypes, InitSound
<1>2. TypeOK /\ Sound /\ [Next]_vars => TypeOK' /\ Sound'
  BY TypesKept, SoundKept
<1>3. Sound => AvatarsStay
  BY DEF Sound
<1> QED
  BY <1>1, <1>2, <1>3, PTL DEF Spec
=============================================================================
