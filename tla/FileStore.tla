------------------------------- MODULE FileStore -------------------------------
(***************************************************************************)
(* The upload directory and the rows that point into it: attachments and    *)
(* avatars, the purges an operator asks for, the nightly retention, and the *)
(* hourly sweep of files that were given a deadline.                        *)
(*                                                                          *)
(* The disk and the database are two stores with no transaction over both,  *)
(* and every handler is several steps of one or the other.  Each step may   *)
(* fail, any two handlers may interleave, and a restart stops all of them   *)
(* where they are.  Files are named by ids that are never given out twice   *)
(* and ascend (UUIDv7): 1, 2, 3.  A row is "kept" (a picture), "timed" (has *)
(* a deadline), "due" (the deadline passed) or "expired" (stamped: the row  *)
(* outlives its file).                                                      *)
(*                                                                          *)
(* Time is two facts of a file: `old` is past ORPHAN_GRACE_MS, "due" past   *)
(* EPHEMERAL_FILE_HOURS.  A request and a look at the disk take less than   *)
(* the grace hour (HourPasses): nothing in the code enforces it, and nothing  *)
(* the server does takes a thousandth of it.                                *)
(*                                                                          *)
(* NamesAgain, QuietNights, AvatarsUnknown and the like are plausible bugs  *)
(* of the definition that follows them: they show that the properties       *)
(* notice.                                                                  *)
(***************************************************************************)
EXTENDS Naturals, FiniteSets

CONSTANTS
  Messages, Users,
  MaxInFlight,  \* bound on requests in flight
  Jobs,         \* purges that may run at once, the nightly one among them
  Nightly,      \* the job the nightly schedule runs
  None,
  MaxUploads,   \* bound on files ever stored
  MaxFiles,     \* most files one message is sent with (10 in the code)
  BatchSize,    \* rows one delete names (500 in the code)
  MaxMishaps    \* bound on disk operations that fail, and restarts

ASSUME FileStoreAssumption ==
  /\ Nightly \in Jobs
  /\ None \notin Nat \cup Messages \cup Users
  /\ MaxUploads \in Nat /\ MaxInFlight \in Nat /\ MaxMishaps \in Nat
  /\ MaxFiles \in Nat \ {0} /\ BatchSize \in Nat \ {0}

Files == 1..MaxUploads

VARIABLES
  disk,     \* files in UPLOAD_DIR
  old,      \* files last written over an hour ago
  named,    \* names newId has given out: 1..named
  row,      \* the Attachment row of each file
  of,       \* the message that row belongs to
  message,  \* the Message rows
  avatar,   \* user.image
  users,    \* accounts there are
  requests, \* requests in flight
  job,      \* purges in flight
  expiry,   \* the hourly sweep in flight
  budget    \* mishaps left

vars == <<disk, old, named, row, of, message, avatar, users, requests, job, expiry, budget>>

Asleep == [doing |-> "idle", messages |-> {}, rows |-> {}, asked |-> "", names |-> {}]
NoSweep == [todo |-> {}, at |-> None]

RequestType == [doing : {"send", "avatar", "remove", "discard"}, user : Users,
                wants : 0..MaxFiles, held : SUBSET Files, was : Files \cup {None}]
JobType == [doing : {"idle", "clean", "unlink", "dead rows"},
            messages : SUBSET Messages, rows : SUBSET Files,
            asked : {"", "disk", "rows"}, names : SUBSET Files]
SweepType == [todo : SUBSET Files, at : Files \cup {None}]

TypeOK ==
  /\ named \in 0..MaxUploads /\ disk \subseteq 1..named /\ old \subseteq 1..named
  /\ row \in [Files -> {"none", "kept", "timed", "due", "expired"}]
  /\ of \in [Files -> Messages \cup {None}]
  /\ message \in [Messages -> {"unsent", "live", "deleted", "gone"}]
  /\ avatar \in [Users -> Files \cup {None}]
  /\ users \subseteq Users
  /\ requests \subseteq RequestType
  /\ job \in [Jobs -> JobType]
  /\ expiry \in SweepType
  /\ budget \in 0..MaxMishaps

Init ==
  /\ disk = {} /\ old = {} /\ named = 0
  /\ row = [f \in Files |-> "none"] /\ of = [f \in Files |-> None]
  /\ message = [m \in Messages |-> "unsent"]
  /\ avatar = [u \in Users |-> None] /\ users = Users
  /\ requests = {}
  /\ job = [j \in Jobs |-> Asleep]
  /\ expiry = NoSweep
  /\ budget = MaxMishaps

Rows == {f \in Files : row[f] # "none"}
Held == UNION {r.held : r \in requests}

-----------------------------------------------------------------------------
(* The disk.                                                                *)

Mishap == budget > 0 /\ budget' = budget - 1

\* A deletion that fails is swallowed by every caller there is.
Gone(f) ==
  \/ disk' = disk \ {f} /\ UNCHANGED budget
  \/ f \in disk /\ Mishap /\ UNCHANGED disk

\* readdir, or nothing at all if it fails for any reason.
Listing(seen) ==
  \/ seen = disk /\ UNCHANGED budget
  \/ seen = {} /\ Mishap

\* The grace hour passes over every file that no request still holds.
HourPasses ==
  /\ \A j \in Jobs : job[j].asked = ""
  /\ ~ (disk \ Held \subseteq old)
  /\ old' = old \cup (disk \ Held)
  /\ UNCHANGED <<disk, named, row, of, message, avatar, users, requests, job, expiry, budget>>

\* The deadline passes, of every file old enough to have one behind it.
DeadlinePasses ==
  /\ \E f \in old : row[f] = "timed"
  /\ row' = [f \in Files |-> IF row[f] = "timed" /\ f \in old THEN "due" ELSE row[f]]
  /\ UNCHANGED <<disk, old, named, of, message, avatar, users, requests, job, expiry, budget>>

-----------------------------------------------------------------------------
(* Requests.                                                                *)

\* Requests with nothing to tell them apart are kept as one: they would do the
\* same to the same file.
Arrives(doing, u, n, was) ==
  /\ Cardinality(requests) < MaxInFlight
  /\ requests' = requests \cup
       {[doing |-> doing, user |-> u, wants |-> n, held |-> {}, was |-> was]}
  /\ UNCHANGED <<disk, old, named, row, of, message, avatar, users, job, expiry, budget>>

Send == \E u \in users, n \in 1..MaxFiles : Arrives("send", u, n, None)

\* Both read the picture they replace first.
UploadAvatar == \E u \in users : Arrives("avatar", u, 1, avatar[u])

RemoveAvatar == \E u \in users : Arrives("remove", u, 0, avatar[u])

Becomes(r, next) == requests' = (requests \ {r}) \cup next

NamesAgain(r) ==
  /\ r.doing \in {"send", "avatar"} /\ Cardinality(r.held) < r.wants /\ named < MaxUploads
  /\ disk' = disk \cup {named + 1}
  /\ Becomes(r, {[r EXCEPT !.held = @ \cup {named + 1}]})
  /\ UNCHANGED <<old, named, row, of, message, avatar, users, job, expiry, budget>>

Store(r) ==
  /\ r.doing \in {"send", "avatar"} /\ Cardinality(r.held) < r.wants /\ named < MaxUploads
  /\ named' = named + 1 /\ disk' = disk \cup {named + 1}
  /\ Becomes(r, {[r EXCEPT !.held = @ \cup {named + 1}]})
  /\ UNCHANGED <<old, row, of, message, avatar, users, job, expiry, budget>>

\* One nested create: the message and its attachments, each with a deadline
\* unless it is a picture.
CreateMessage(r) ==
  /\ r.doing = "send" /\ r.user \in users /\ Cardinality(r.held) = r.wants
  /\ \E m \in Messages, pictures \in SUBSET r.held :
       /\ message[m] = "unsent"
       /\ message' = [message EXCEPT ![m] = "live"]
       /\ row' = [f \in Files |-> IF f \in pictures THEN "kept"
                                  ELSE IF f \in r.held THEN "timed" ELSE row[f]]
       /\ of' = [f \in Files |-> IF f \in r.held THEN m ELSE of[f]]
  /\ Becomes(r, {})
  /\ UNCHANGED <<disk, old, named, avatar, users, job, expiry, budget>>

\* user.update throws when the account has gone: that is Fails.
SetAvatar(r) ==
  /\ r.doing \in {"avatar", "remove"} /\ Cardinality(r.held) = r.wants /\ r.user \in users
  /\ avatar' = [avatar EXCEPT ![r.user] = IF r.held = {} THEN None ELSE CHOOSE f \in r.held : TRUE]
  /\ Becomes(r, {[r EXCEPT !.doing = "discard", !.wants = 0, !.held = {}]})
  /\ UNCHANGED <<disk, old, named, row, of, message, users, job, expiry, budget>>

DiscardReplaced(r) ==
  /\ r.doing = "discard"
  /\ IF r.was = None THEN UNCHANGED <<disk, budget>> ELSE Gone(r.was)
  /\ Becomes(r, {})
  /\ UNCHANGED <<old, named, row, of, message, avatar, users, job, expiry>>

\* A write that fails, a channel or an account that has gone: the files that
\* were stored stay behind.
Fails(r) ==
  /\ r.doing # "discard"
  /\ Becomes(r, {})
  /\ UNCHANGED <<disk, old, named, row, of, message, avatar, users, job, expiry, budget>>

\* Soft: the row and its files stay.
DeleteMessage(m) ==
  /\ message[m] = "live"
  /\ message' = [message EXCEPT ![m] = "deleted"]
  /\ UNCHANGED <<disk, old, named, row, of, avatar, users, requests, job, expiry, budget>>

\* Rows that go, and by cascade those of the messages that go.
WithoutRows(fs, ms) ==
  /\ row' = [f \in Files |-> IF f \in fs \/ of[f] \in ms THEN "none" ELSE row[f]]
  /\ of' = [f \in Files |-> IF f \in fs \/ of[f] \in ms THEN None ELSE of[f]]
  /\ message' = [m \in Messages |-> IF m \in ms THEN "gone" ELSE message[m]]

Stored(ms) == \A m \in ms : message[m] \in {"live", "deleted"}

\* A channel goes, and its messages with it.
RemoveChannel ==
  /\ \E ms \in SUBSET Messages \ {{}} : Stored(ms) /\ WithoutRows({}, ms)
  /\ UNCHANGED <<disk, old, named, avatar, users, requests, job, expiry, budget>>

\* An account goes, and what it wrote with it.
DeleteUser(u) ==
  /\ u \in users
  /\ users' = users \ {u}
  /\ avatar' = [avatar EXCEPT ![u] = None]
  /\ \E ms \in SUBSET Messages : Stored(ms) /\ WithoutRows({}, ms)
  /\ UNCHANGED <<disk, old, named, requests, job, expiry, budget>>

-----------------------------------------------------------------------------
(* Purges: the rows first, in batches, then whatever no row points at.      *)

Begin(j, doing, ms, fs) ==
  /\ job[j].doing = "idle"
  /\ job' = [job EXCEPT ![j] = [Asleep EXCEPT !.doing = doing, !.messages = ms, !.rows = fs]]
  /\ UNCHANGED <<disk, old, named, row, of, message, avatar, users, requests, expiry, budget>>

Doomed(ms, oldest) == {f \in Rows : f <= oldest \/ of[f] \in ms}

QuietNights(j) ==
  \E ms \in SUBSET Messages, oldest \in 0..named :
    /\ Stored(ms) /\ ms \cup Doomed(ms, oldest) # {}
    /\ Begin(j, "clean", ms, Doomed(ms, oldest))

\* RetentionService.apply.  The ages of the policy may pick any messages, with
\* what hangs off them; its age and its cap for attachments pick the oldest.
Retention(j) ==
  \E ms \in SUBSET Messages, oldest \in 0..named :
    Stored(ms) /\ Begin(j, "clean", ms, Doomed(ms, oldest))

\* 'deleted', and 'tombstones' with an age.
RemoveDeleted(j) ==
  \E ms \in SUBSET {m \in Messages : message[m] = "deleted"} : Begin(j, "clean", ms, {})

OrphanedFiles(j) == Begin(j, "clean", {}, {})

OrphanedRows(j) == Begin(j, "dead rows", {}, Rows)

Batch(S) == {B \in SUBSET S : Cardinality(B) = BatchSize \/ (B = S /\ Cardinality(S) < BatchSize)}

DeleteRows(j) ==
  /\ job[j].doing = "clean" /\ job[j].rows # {}
  /\ \E B \in Batch(job[j].rows) :
       /\ WithoutRows(B, {})
       /\ job' = [job EXCEPT ![j].rows = @ \ B]
  /\ UNCHANGED <<disk, old, named, avatar, users, requests, expiry, budget>>

DeleteMessages(j) ==
  /\ job[j].doing = "clean" /\ job[j].rows = {} /\ job[j].messages # {}
  /\ \E B \in Batch(job[j].messages) :
       /\ WithoutRows({}, B)
       /\ job' = [job EXCEPT ![j].messages = @ \ B]
  /\ UNCHANGED <<disk, old, named, avatar, users, requests, expiry, budget>>

AvatarsUnknown == Rows

KnownFileNames == Rows \cup ({avatar[u] : u \in users} \ {None})

GraceForgotten(seen, known) == seen \ known

Strays(seen, known) == (seen \ known) \cap old

\* sweepOrphanFiles asks the disk and the database at once.  Whichever answers
\* first is kept; with the other the cutoff is taken and the strays settled.
Answered(j, what, names, strays) ==
  /\ job[j].doing = "clean" /\ job[j].rows = {} /\ job[j].messages = {}
  /\ job[j].asked # what
  /\ job' = [job EXCEPT ![j] =
       IF @.asked = "" THEN [@ EXCEPT !.asked = what, !.names = names]
       ELSE IF strays = {} THEN Asleep
       ELSE [Asleep EXCEPT !.doing = "unlink", !.names = strays]]

Walk(j) ==
  /\ \E seen \in {disk, {}} : Listing(seen) /\ Answered(j, "disk", seen, Strays(seen, job[j].names))
  /\ UNCHANGED <<disk, old, named, row, of, message, avatar, users, requests, expiry>>

AskRows(j) ==
  /\ Answered(j, "rows", KnownFileNames, Strays(job[j].names, KnownFileNames))
  /\ UNCHANGED <<disk, old, named, row, of, message, avatar, users, requests, expiry, budget>>

Past(b, f) == IF b.names = {f} THEN Asleep ELSE [b EXCEPT !.names = @ \ {f}]

Unlink(j) ==
  /\ job[j].doing = "unlink"
  /\ \E f \in job[j].names : Gone(f) /\ job' = [job EXCEPT ![j] = Past(job[j], f)]
  /\ UNCHANGED <<old, named, row, of, message, avatar, users, requests, expiry>>

\* 'orphaned-rows' read the rows before it walks: a row whose file it does
\* not then see goes.
DropDeadRows(j) ==
  /\ job[j].doing = "dead rows"
  /\ \E seen \in {disk, {}} :
       Listing(seen) /\ WithoutRows(job[j].rows \ seen, {})
  /\ job' = [job EXCEPT ![j] = Asleep]
  /\ UNCHANGED <<disk, old, named, avatar, users, requests, expiry>>

-----------------------------------------------------------------------------
(* EphemeralService.sweep: the file first, then the row that says so.       *)

DueRows == {f \in Files : row[f] = "due"}

SweepBegins ==
  /\ expiry = NoSweep /\ DueRows # {}
  /\ expiry' = [expiry EXCEPT !.todo = DueRows]
  /\ UNCHANGED <<disk, old, named, row, of, message, avatar, users, requests, job, budget>>

SweepDiscards ==
  /\ expiry.at = None
  /\ \E f \in expiry.todo : Gone(f) /\ expiry' = [expiry EXCEPT !.at = f]
  /\ UNCHANGED <<old, named, row, of, message, avatar, users, requests, job>>

StampStalls ==
  /\ expiry.at \in Rows
  /\ row' = [row EXCEPT ![expiry.at] = "expired"]
  /\ expiry' = [todo |-> expiry.todo \ {expiry.at}, at |-> None]
  /\ UNCHANGED <<disk, old, named, of, message, avatar, users, requests, job, budget>>

\* An update of a row that has gone throws, and with it goes the rest of
\* this hour's sweep.
SweepStamps ==
  /\ expiry.at # None
  /\ IF expiry.at \in Rows
     THEN /\ row' = [row EXCEPT ![expiry.at] = "expired"]
          /\ expiry' = [todo |-> expiry.todo \ {expiry.at}, at |-> None]
     ELSE /\ expiry' = NoSweep
          /\ UNCHANGED row
  /\ UNCHANGED <<disk, old, named, of, message, avatar, users, requests, job, budget>>

\* The process stops: what was in flight is lost where it was.
Restart ==
  /\ Mishap
  /\ requests' = {}
  /\ job' = [j \in Jobs |-> Asleep]
  /\ expiry' = NoSweep
  /\ UNCHANGED <<disk, old, named, row, of, message, avatar, users>>

-----------------------------------------------------------------------------
JobSteps(j) ==
  \/ DeleteRows(j) \/ DeleteMessages(j)
  \/ Walk(j) \/ AskRows(j) \/ Unlink(j) \/ DropDeadRows(j)

Sweep == SweepBegins \/ SweepDiscards \/ SweepStamps

Next ==
  \/ HourPasses \/ DeadlinePasses
  \/ Send \/ UploadAvatar \/ RemoveAvatar
  \/ \E r \in requests :
       Store(r) \/ CreateMessage(r) \/ SetAvatar(r) \/ DiscardReplaced(r) \/ Fails(r)
  \/ \E m \in Messages : DeleteMessage(m)
  \/ RemoveChannel
  \/ \E u \in Users : DeleteUser(u)
  \/ \E j \in Jobs :
       Retention(j) \/ RemoveDeleted(j) \/ OrphanedFiles(j) \/ OrphanedRows(j) \/ JobSteps(j)
  \/ Sweep
  \/ Restart

\* Purges that run go on, the two schedules come round whatever an operator is
\* doing, and retention is enabled.  Nobody has to send, delete or purge
\* anything, and no request has to end.
Fairness ==
  /\ \A j \in Jobs : WF_vars(JobSteps(j))
  /\ SF_vars(Retention(Nightly))
  /\ WF_vars(Sweep)

Spec == Init /\ [][Next]_vars /\ Fairness

-----------------------------------------------------------------------------
(* Properties.                                                              *)

\* A row never points at a file that is gone, short of its deadline: whatever
\* is sent, purged or interrupted, "a permanently broken image nothing
\* repairs" (storage.service.ts) does not happen.
PicturesStay == \A f \in Files : row[f] \in {"kept", "timed"} => f \in disk

\* Nor does anybody's picture vanish, however many uploads, removals and
\* sweeps of theirs or others' overlap.
AvatarsStay == \A u \in users : avatar[u] # None => avatar[u] \in disk

\* Whatever was left behind by a request that failed, two that overlapped, a
\* deletion that failed or a restart is collected by a later night.
StraysAreCollected ==
  \A f \in Files : (f \in old /\ f \notin KnownFileNames) ~> (f \notin disk)

\* "This is what keeps that promise" (ephemeral.service.ts): a file past its
\* deadline comes to be marked as expired, unless its row is purged first.
PromiseIsKept == \A f \in Files : (row[f] = "due") ~> (row[f] # "due")
=============================================================================
