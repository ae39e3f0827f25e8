------------------------------- MODULE LogTail -------------------------------
(***************************************************************************)
(* The Logs tab of the operator's console: the chat server's log file of    *)
(* the day, the tail that reads it every second (console/src/main.mjs), the *)
(* ring of lines it fills, and a page that asks for what is past its cursor *)
(* (console/public/index.html).                                             *)
(*                                                                          *)
(* A line is two bytes, a front and an end with the newline; byte b of a    *)
(* file belongs to its line b \div 2.  A server that the console started    *)
(* says each line on its stdout as well.                                    *)
(*                                                                          *)
(* RewindsAlways and ByIndex are plausible bugs of the definitions that     *)
(* follow them.                                                             *)
(***************************************************************************)
EXTENDS Integers, FiniteSets, Sequences

CONSTANTS
  SeedBytes,   \* TAIL_SEED_BYTES
  MaxRead,     \* TAIL_MAX_READ
  LogLimit,    \* LOG_LIMIT
  MaxBytes,    \* bound on the bytes written in all
  MaxAsked,    \* bound on a page's questions under way
  MaxHappens   \* bound on midnights, failures, clearings, servers coming and going

LogAssumption ==
  /\ {SeedBytes, MaxRead, MaxBytes, MaxAsked, MaxHappens} \subseteq Nat
  /\ LogLimit \in Nat \ {0}

NoFile == 0
\* A line of a file: the day, which file of that day it was, its number in it.
Line(d, g, k) == [day |-> d, file |-> g, line |-> k]

VARIABLES
  today,     \* logDay
  written,   \* today's file: which one, its bytes
  total,     \* bytes written in all
  past,      \* the lines of the days before, since the console runs
  ours,      \* child
  pipe,      \* said on stdout and not yet read
  tail,      \* file, offset, how much of a line is held, midLine
  pushed,    \* everything ever pushed: the line, whether its front is there
  ring,      \* logs: number and position in pushed
  logSeq,
  page,      \* what is on the page: positions in pushed; logSeen; the questions under way
  excuse,    \* what has happened that may cost or double a line
  happens    \* what is left of MaxHappens

vars == <<today, written, total, past, ours, pipe, tail, pushed, ring, logSeq, page, excuse, happens>>
Excuses == {"midnight", "skipped", "seeded", "replaced", "ended", "cleared", "hurried", "overtaken"}

TypeOK ==
  /\ today \in Nat /\ total \in 0..MaxBytes /\ ours \in BOOLEAN
  /\ written \in [file : Nat, size : 0..MaxBytes]
  /\ \A l \in past : l \in [day : Nat, file : Nat, line : Nat]
  /\ \A i \in DOMAIN pipe : pipe[i] \in [day : Nat, file : Nat, line : Nat]
  /\ tail \in [day : Nat, offset : 0..MaxBytes, held : 0..1, midLine : BOOLEAN]
  /\ \A i \in DOMAIN pushed : pushed[i] \in [line : [day : Nat, file : Nat, line : Nat], whole : BOOLEAN]
  /\ Len(ring) <= LogLimit /\ logSeq \in Nat
  /\ excuse \subseteq Excuses /\ happens \in 0..MaxHappens

\* The console may find a log that is already being written.
Init ==
  /\ today = 1 /\ total \in {0, 3}
  /\ written = [file |-> 1, size |-> total]
  /\ past = {} /\ ours = FALSE /\ pipe = <<>>
  /\ tail = [day |-> NoFile, offset |-> 0, held |-> 0, midLine |-> FALSE]
  /\ pushed = <<>> /\ ring = <<>> /\ logSeq = 0
  /\ page = [shown |-> <<>>, seen |-> 0, asked |-> {}]
  /\ excuse = {} /\ happens = MaxHappens

Happens == happens > 0 /\ happens' = happens - 1

\* pushLog, of several lines.
Keep(s, n) == SubSeq(s, IF Len(s) > n THEN Len(s) - n + 1 ELSE 1, Len(s))
PushLog(lines) ==
  /\ pushed' = pushed \o lines
  /\ logSeq' = logSeq + Len(lines)
  /\ ring' = Keep(ring \o [i \in DOMAIN lines |-> [seq |-> logSeq + i, at |-> Len(pushed) + i]], LogLimit)

-----------------------------------------------------------------------------
\* The server.

\* FileLogger: the line on stdout, then the line into the file of the day; half
\* of it may be there when somebody looks.
Write ==
  /\ total < MaxBytes
  /\ total' = total + 1
  /\ written' = [written EXCEPT !.size = @ + 1]
  /\ pipe' = IF ours /\ written.size % 2 = 0
             THEN Append(pipe, Line(today, written.file, written.size \div 2)) ELSE pipe
  /\ UNCHANGED <<today, past, ours, tail, pushed, ring, logSeq, page, excuse, happens>>

\* The day rolls; the old day's file is whole.
Midnight ==
  /\ Happens /\ written.size % 2 = 0
  /\ today' = today + 1
  /\ written' = [file |-> 1, size |-> 0]
  /\ past' = past \cup
       (IF tail.day = NoFile THEN {} ELSE {Line(today, written.file, k) : k \in 0..(written.size \div 2 - 1)})
  /\ excuse' = excuse \cup
       (IF written.size > 0 /\ (tail.day # today \/ tail.offset < written.size) THEN {"midnight"} ELSE {})
  /\ UNCHANGED <<total, ours, pipe, tail, pushed, ring, logSeq, page>>

\* Somebody deletes the file of the day.
Replace ==
  /\ Happens /\ written.size > 0 /\ written.size % 2 = 0
  /\ written' = [file |-> written.file + 1, size |-> 0]
  /\ excuse' = excuse \cup {"replaced"}
  /\ UNCHANGED <<today, total, past, ours, pipe, tail, pushed, ring, logSeq, page>>

\* startServer: from here on the console reads the server's stdout.
StartServer ==
  /\ Happens /\ ~ours /\ written.size % 2 = 0
  /\ ours' = TRUE
  /\ excuse' = excuse \cup
       (IF written.size > 0 /\ (tail.day # today \/ tail.offset < written.size) THEN {"ended"} ELSE {})
  /\ UNCHANGED <<today, written, total, past, pipe, tail, pushed, ring, logSeq, page>>

Stdout ==
  /\ pipe # <<>>
  /\ PushLog(<<[line |-> Head(pipe), whole |-> TRUE]>>)
  /\ pipe' = Tail(pipe)
  /\ UNCHANGED <<today, written, total, past, ours, tail, page, excuse, happens>>

\* The child's exit event; what it wrote since the last poll is in the file.
ServerExits ==
  /\ Happens /\ ours /\ written.size % 2 = 0
  /\ ours' = FALSE
  /\ excuse' = excuse \cup
       (IF pipe # <<>> \/ (written.size > 0 /\ (tail.day # today \/ tail.offset < written.size))
        THEN {"ended"} ELSE {})
  /\ UNCHANGED <<today, written, total, past, pipe, tail, pushed, ring, logSeq, page>>

-----------------------------------------------------------------------------
\* pollServerLog.

RewindsAlways(t) == [day |-> today, offset |-> 0, held |-> 0, midLine |-> t.midLine]
\* The file cannot be looked at: start over only if it is another file.
NoStat(t) ==
  IF t.day # today THEN [day |-> today, offset |-> 0, held |-> 0, midLine |-> t.midLine] ELSE t

PollFails ==
  /\ \/ written.size = 0 /\ UNCHANGED happens
     \/ written.size > 0 /\ Happens
  /\ tail' = NoStat(tail)
  /\ UNCHANGED <<today, written, total, past, ours, pipe, pushed, ring, logSeq, page, excuse>>

\* Where reading starts: near the end of a file not seen before, at the top of
\* one that shrank, past a gap that is too long.
Placed(t) ==
  IF t.day # today
  THEN LET o == IF written.size > SeedBytes THEN written.size - SeedBytes ELSE 0
       IN [day |-> today, offset |-> o, held |-> 0, midLine |-> o > 0]
  ELSE IF written.size < t.offset THEN [t EXCEPT !.offset = 0, !.held = 0, !.midLine = FALSE]
  ELSE t
CaughtUp(t) ==
  IF written.size - t.offset > MaxRead
  THEN [t EXCEPT !.offset = written.size - MaxRead, !.held = 0, !.midLine = TRUE]
  ELSE t

\* The lines that end in what is read, each with its front or without; the first
\* is left out when reading started in the middle of it.
Ending(t) == {k \in 0..(written.size \div 2) : t.offset <= 2 * k + 1 /\ 2 * k + 1 < written.size}
Lines(t) ==
  LET ks == Ending(t)
      first == CHOOSE k \in ks : \A j \in ks : k <= j
      from == IF t.midLine THEN first + 1 ELSE first
  IN IF ks = {} THEN <<>>
     ELSE [i \in 1..(Cardinality(ks) - (IF t.midLine THEN 1 ELSE 0)) |->
             [line |-> Line(today, written.file, from + i - 1),
              whole |-> 2 * (from + i - 1) >= t.offset - t.held]]

\* The offset moves on whether or not the lines are wanted.
AfterReading(t) ==
  [t EXCEPT !.offset = written.size, !.held = written.size % 2, !.midLine = @ /\ Ending(t) = {}]

PollServerLog ==
  /\ written.size > 0
  /\ LET p == Placed(tail)
         t == CaughtUp(p)
         lost == (IF p.day # tail.day /\ p.offset > 0 THEN {"seeded"} ELSE {})
                   \cup (IF t # p THEN {"skipped"} ELSE {})
     IN IF written.size = p.offset
        THEN tail' = p /\ UNCHANGED <<pushed, ring, logSeq, excuse>>
        ELSE /\ tail' = AfterReading(t)
             /\ excuse' = excuse \cup lost
             /\ IF ours THEN UNCHANGED <<pushed, ring, logSeq>> ELSE PushLog(Lines(t))
  /\ UNCHANGED <<today, written, total, past, ours, pipe, page, happens>>

-----------------------------------------------------------------------------
\* The page.

\* pollLogs, every 1.2 s whether or not the last one was answered.
PollLogs ==
  /\ Cardinality(page.asked) < MaxAsked
  /\ page' = [page EXCEPT !.asked = @ \cup {[since |-> page.seen, answer |-> <<>>, total |-> -1]}]
  /\ excuse' = excuse \cup (IF page.asked # {} THEN {"hurried"} ELSE {})
  /\ UNCHANGED <<today, written, total, past, ours, pipe, tail, pushed, ring, logSeq, happens>>

\* What is past the cursor, which is a number and no index: the ring moves on.
PastCursor(q) == SelectSeq(ring, LAMBDA l : l.seq > q.since)

\* GET /sv/logs.
AnswerLogs ==
  /\ \E q \in page.asked :
       /\ q.total = -1
       /\ page' = [page EXCEPT !.asked = (@ \ {q}) \cup
            {[q EXCEPT !.answer = PastCursor(q), !.total = logSeq]}]
       /\ excuse' = excuse \cup (IF logSeq - LogLimit > q.since THEN {"overtaken"} ELSE {})
  /\ UNCHANGED <<today, written, total, past, ours, pipe, tail, pushed, ring, logSeq, happens>>

Shown(q) ==
  LET kept == IF q.total < page.seen THEN <<>> ELSE page.shown
      seen == IF q.total < page.seen THEN 0 ELSE page.seen
  IN [shown |-> kept \o [i \in DOMAIN q.answer |-> q.answer[i].at],
      seen |-> IF q.answer = <<>> THEN seen ELSE q.total,
      asked |-> page.asked \ {q}]

ShowLogs ==
  /\ \E q \in page.asked : q.total # -1 /\ page' = Shown(q)
  /\ UNCHANGED <<today, written, total, past, ours, pipe, tail, pushed, ring, logSeq, excuse, happens>>

\* POST /sv/logs/clear, from this page or from another one.
ClearLogs ==
  /\ Happens
  /\ ring' = <<>> /\ logSeq' = 0
  /\ \/ page' = [page EXCEPT !.seen = 0, !.shown = <<>>]
     \/ UNCHANGED page
  /\ excuse' = excuse \cup {"cleared"}
  /\ UNCHANGED <<today, written, total, past, ours, pipe, tail, pushed>>

Next ==
  \/ Write \/ Midnight \/ Replace \/ StartServer \/ Stdout \/ ServerExits
  \/ PollFails \/ PollServerLog
  \/ PollLogs \/ AnswerLogs \/ ShowLogs \/ ClearLogs

Spec == Init /\ [][Next]_vars

-----------------------------------------------------------------------------

Before(a, b) ==
  \/ a.day < b.day
  \/ a.day = b.day /\ a.file < b.file
  \/ a.day = b.day /\ a.file = b.file /\ a.line < b.line
Pushed == {pushed[i].line : i \in DOMAIN pushed}
\* The lines of the file that end behind the tail.
Passed ==
  IF tail.day # today THEN {}
  ELSE {Line(today, written.file, k) : k \in {j \in 0..MaxBytes : 2 * j + 1 < tail.offset}}

\* What is pushed is whole lines, each once and in the order the server wrote
\* them, as long as no server of the console's own came or went between a line
\* and the poll that reads it; and none is missing behind the tail or from the
\* days before, unless the gap was announced, the file replaced, the history cut
\* or the last second of a day not read.
LinesAreWhole ==
  /\ "replaced" \notin excuse => \A i \in DOMAIN pushed : pushed[i].whole
  /\ excuse \cap {"ended", "replaced"} = {} =>
       \A i, j \in DOMAIN pushed : i < j => Before(pushed[i].line, pushed[j].line)
  /\ (excuse \cap {"ended", "replaced", "seeded", "skipped", "midnight"} = {} /\ pipe = <<>>) =>
       past \cup Passed \subseteq Pushed

\* A page shows what was pushed, in order and without a gap, up to its cursor.
PageIsALog ==
  (excuse \cap {"cleared", "hurried", "overtaken"} = {}) =>
    /\ page.seen <= logSeq
    /\ page.shown = [i \in 1..page.seen |-> i]

\* Without the excuse of a server that came or went.  It does not hold: a line
\* the console's own server wrote in its last second arrives on stdout and is
\* read from the file once the server is gone.
NothingIsReplayed ==
  (excuse \subseteq {"ended"}) =>
    \A i, j \in DOMAIN pushed : i # j => pushed[i].line # pushed[j].line

\* Without the excuse of midnight.  It does not hold: what the server wrote
\* between the last poll and midnight is in a file nobody reads any more.
NothingIsSkippedSilently ==
  (excuse \subseteq {"midnight"} /\ pipe = <<>>) => past \subseteq Pushed
=============================================================================
