------------------------------- MODULE Console -------------------------------
(***************************************************************************)
(* The operator's console starting and stopping the chat server, LiveKit    *)
(* and Caddy: console/src/main.mjs.                                         *)
(*                                                                          *)
(* A button is a request, a list of steps with an await between them, and   *)
(* requests run beside each other.  A process is one this console spawned,  *)
(* one of the task scheduler's, or somebody else's; one port per service,   *)
(* and who cannot have it exits.                                            *)
(*                                                                          *)
(* LooksNoFurther and OnlyTheServer are plausible bugs of the definitions   *)
(* that follow them.                                                        *)
(***************************************************************************)
EXTENDS Naturals, Sequences, FiniteSets

CONSTANTS
  Server,      \* the chat server
  Helpers,     \* LiveKit, and Caddy where the deployment is behind it
  Nobody,      \* no process
  MaxPids,     \* bound on processes
  MaxAsked,    \* bound on requests
  MaxAtOnce,   \* bound on requests under way
  MaxTroubles  \* bound on crashes, outsiders and kills that take too long

ConsoleAssumption ==
  /\ {MaxPids, MaxAsked, MaxAtOnce, MaxTroubles} \subseteq Nat
  /\ Server \notin Helpers /\ Nobody \notin 1..MaxPids

Services == {Server} \cup Helpers
Pids == 1..MaxPids
Steps == {"spawn", "look", "launch", "end", "await", "endTask", "settle", "pause", "find", "kill", "verdict",
          "runTask", "exit"}
Kinds == {"start", "stop", "restart", "helper", "killOne", "killAll", "quit"}
Order == CHOOSE q \in [1..Cardinality(Helpers) -> Helpers] : \A h \in Helpers : \E i \in DOMAIN q : q[i] = h

VARIABLES
  tasks,    \* the scheduled task of each service
  elevated, \* isElevated
  procs,    \* the processes that run
  handle,   \* child, lk, caddy
  asked,    \* the requests under way
  goal,     \* what the operator was told last: all is up, all is down, or nothing that counts
  crossed,  \* requests ran beside each other
  nextPid, left

vars == <<tasks, elevated, procs, handle, asked, goal, crossed, nextPid, left>>

Proc == [pid : Pids, of : Services, by : {"console", "task", "other"}, listens : BOOLEAN, told : BOOLEAN]
TypeOK ==
  /\ tasks \in [Services -> {"absent", "ready", "disabled"}] /\ elevated \in BOOLEAN
  /\ procs \subseteq Proc
  /\ handle \in [Services -> Pids \cup {Nobody}]
  /\ \A r \in asked :
       /\ r.id \in 1..MaxAsked /\ r.kind \in Kinds /\ r.ok \in BOOLEAN /\ r.clean \in BOOLEAN /\ r.pids \subseteq Pids
       /\ \A i \in DOMAIN r.todo : r.todo[i] \in [do : Steps, of : Services]
  /\ goal \in {"up", "down", "none"} /\ crossed \in BOOLEAN
  /\ nextPid \in 1..(MaxPids + 1) /\ left \in [{"asked", "troubles"} -> Nat]

\* A development checkout, where nothing is a task, and an installed box.
Init ==
  /\ \/ tasks = [s \in Services |-> "absent"]
     \/ tasks = [s \in Services |-> "ready"]
     \/ tasks = [s \in Services |-> IF s = Server THEN "ready" ELSE "disabled"]
  /\ elevated \in BOOLEAN
  /\ procs = {} /\ handle = [s \in Services |-> Nobody]
  /\ asked = {} /\ goal = "none" /\ crossed = FALSE
  /\ nextPid = 1 /\ left = [asked |-> MaxAsked, troubles |-> MaxTroubles]

Listening(s) == \E p \in procs : p.of = s /\ p.listens
TaskRuns(s) == \E p \in procs : p.of = s /\ p.by = "task"
Spend(what) == left[what] > 0 /\ left' = [left EXCEPT ![what] = @ - 1]
Told(which) == {IF p \in which THEN [p EXCEPT !.told = TRUE] ELSE p : p \in procs}
Spawned(s, by) ==
  /\ nextPid <= MaxPids /\ nextPid' = nextPid + 1
  /\ procs' = procs \cup {[pid |-> nextPid, of |-> s, by |-> by, listens |-> FALSE, told |-> FALSE]}

-----------------------------------------------------------------------------
\* What each button does.

Do(step, s) == <<[do |-> step, of |-> s]>>
ForHelpers(steps) ==
  LET all[i \in 0..Len(Order)] == IF i = 0 THEN <<>> ELSE all[i - 1] \o steps[Order[i]] IN all[Len(Order)]
Installed == tasks[Server] # "absent"

\* stopServer, stopLiveKit, stopCaddy; killPort.
StopOf(s) == Do("end", s)
KillPort(s) == Do("find", s)

\* startAll, or the tasks in their order.
StartSteps ==
  IF Installed THEN Do("runTask", Server) \o ForHelpers([h \in Helpers |-> Do("runTask", h)])
  ELSE Do("spawn", Server) \o ForHelpers([h \in Helpers |-> Do("look", h)])

\* stopServerAnyhow: the child, the task, and then whatever holds the port.
StopServerAnyhow ==
  StopOf(Server) \o (IF Installed THEN Do("endTask", Server) \o Do("settle", Server) ELSE <<>>) \o KillPort(Server)

OnlyTheServer == <<>>
\* "Leaving voice up after Stop is how somebody ends up debugging a call."
StopHelpers ==
  ForHelpers([h \in Helpers |-> StopOf(h)]) \o (IF Installed THEN ForHelpers([h \in Helpers |-> Do("endTask", h)]) ELSE <<>>)

Todo(kind, s) ==
  CASE kind = "start" -> StartSteps
    [] kind = "stop" -> StopServerAnyhow \o Do("verdict", Server) \o StopHelpers
    [] kind = "restart" -> StopServerAnyhow \o StopHelpers \o Do("pause", Server) \o StartSteps
    [] kind = "helper" -> Do("look", s)
    [] kind = "killOne" -> StopOf(s) \o KillPort(s)
    [] kind = "killAll" -> StopOf(Server) \o KillPort(Server) \o ForHelpers([h \in Helpers |-> StopOf(h) \o KillPort(h)])
    [] kind = "quit" -> StopOf(Server) \o ForHelpers([h \in Helpers |-> StopOf(h)]) \o Do("exit", Server)

\* No process is on its way down, and none on its way up that the button cannot
\* reach before it has its port.
AllSettled(kind) ==
  \A p \in procs :
    ~p.told /\ (p.by = "other" \/ (p.by = "task" /\ kind = "killAll") => p.listens)

\* A request arrives; if others are under way none of them counts any more.
Ask ==
  /\ Spend("asked") /\ Cardinality(asked) < MaxAtOnce
  /\ \E kind \in Kinds, s \in Services :
       /\ kind = "helper" => s \in Helpers
       /\ kind \notin {"helper", "killOne"} => s = Server
       /\ asked' = {[r EXCEPT !.clean = FALSE] : r \in asked} \cup
            {[id |-> left.asked, kind |-> kind, todo |-> Todo(kind, s), ok |-> TRUE, clean |-> asked = {} /\ AllSettled(kind), pids |-> {}]}
  /\ crossed' = (crossed \/ asked # {})
  /\ goal' = "none"
  /\ UNCHANGED <<tasks, elevated, procs, handle, nextPid>>

-----------------------------------------------------------------------------
\* The steps.

Becomes(r, q) == asked' = (asked \ {r}) \cup {q}
Rest(r) == [r EXCEPT !.todo = Tail(@)]
Then(r, step) == [r EXCEPT !.todo = <<[Head(@) EXCEPT !.do = step]>> \o Tail(@)]
At(r, step) == r.todo # <<>> /\ Head(r.todo).do = step
Of(r) == Head(r.todo).of

\* startServer: nothing is awaited between the check and the child.
SpawnServer(r) ==
  /\ At(r, "spawn")
  /\ IF handle[Server] # Nobody
     THEN Becomes(r, [Rest(r) EXCEPT !.ok = FALSE]) /\ UNCHANGED <<procs, handle, nextPid>>
     ELSE Spawned(Server, "console") /\ handle' = [handle EXCEPT ![Server] = nextPid] /\ Becomes(r, Rest(r))
  /\ UNCHANGED <<tasks, elevated, goal, crossed, left>>

AlreadyOurs(s) == handle[s] # Nobody

\* startLiveKit, startCaddy: the handle, then the port, which is awaited, and
\* then the child.
Look(r) ==
  /\ At(r, "look")
  /\ Becomes(r, IF AlreadyOurs(Of(r)) THEN Rest(r) ELSE Then(r, "launch"))
  /\ UNCHANGED <<tasks, elevated, procs, handle, goal, crossed, nextPid, left>>

Launch(r) ==
  /\ At(r, "launch")
  /\ IF Listening(Of(r)) THEN UNCHANGED <<procs, handle, nextPid>>
     ELSE Spawned(Of(r), "console") /\ handle' = [handle EXCEPT ![Of(r)] = nextPid]
  /\ Becomes(r, Rest(r))
  /\ UNCHANGED <<tasks, elevated, goal, crossed, left>>

End(r) ==
  /\ At(r, "end")
  /\ IF handle[Of(r)] = Nobody THEN Becomes(r, Rest(r)) /\ UNCHANGED procs
     ELSE /\ procs' = Told({p \in procs : p.pid = handle[Of(r)]})
          /\ Becomes(r, Then(r, "await"))
  /\ UNCHANGED <<tasks, elevated, handle, goal, crossed, nextPid, left>>

\* Four seconds at most, and then as if it had gone.
Await(r) ==
  /\ At(r, "await")
  /\ \/ handle[Of(r)] = Nobody /\ Becomes(r, Rest(r)) /\ UNCHANGED left
     \/ handle[Of(r)] # Nobody /\ Spend("troubles") /\ Becomes(r, [Rest(r) EXCEPT !.clean = FALSE])
  /\ UNCHANGED <<tasks, elevated, procs, handle, goal, crossed, nextPid>>

\* taskState, and schtasks /end: for the server also when it is only ready.
EndTask(r) ==
  /\ At(r, "endTask")
  /\ LET s == Of(r)
         acts == tasks[s] = "ready" /\ (s = Server \/ TaskRuns(s))
     IN procs' = IF acts /\ elevated THEN Told({p \in procs : p.of = s /\ p.by = "task"}) ELSE procs
  /\ Becomes(r, Rest(r))
  /\ UNCHANGED <<tasks, elevated, handle, goal, crossed, nextPid, left>>

\* Three seconds for the server's port to be let go; 400 ms, in a restart, for
\* the tasks that were ended.
Settle(r) ==
  /\ At(r, "settle") \/ At(r, "pause")
  /\ \/ ~(\E p \in procs : p.told /\ p.by = "task") /\ UNCHANGED left /\ Becomes(r, Rest(r))
     \/ Spend("troubles") /\ Becomes(r, [Rest(r) EXCEPT !.clean = FALSE])
  /\ UNCHANGED <<tasks, elevated, procs, handle, goal, crossed, nextPid>>

\* pidsOnPort, then killPids, which is at once; a task's process is SYSTEM's.
Find(r) ==
  /\ At(r, "find")
  /\ Becomes(r, [Then(r, "kill") EXCEPT !.pids = {p.pid : p \in {q \in procs : q.of = Of(r) /\ q.listens}}])
  /\ UNCHANGED <<tasks, elevated, procs, handle, goal, crossed, nextPid, left>>

Kill(r) ==
  /\ At(r, "kill")
  /\ LET killed == {p \in procs : p.pid \in r.pids /\ (elevated \/ p.by # "task")}
     IN /\ procs' = procs \ killed
        /\ handle' = [s \in Services |->
             IF \E p \in killed : p.of = s /\ p.by = "console" THEN Nobody ELSE handle[s]]
        /\ Becomes(r, [Rest(r) EXCEPT !.ok = @ /\ (r.pids = {} \/ killed # {}), !.pids = {}])
  /\ UNCHANGED <<tasks, elevated, goal, crossed, nextPid, left>>

\* The last look at the port, which is the answer.
Verdict(r) ==
  /\ At(r, "verdict")
  /\ Becomes(r, [Rest(r) EXCEPT !.ok = ~Listening(Server)])
  /\ UNCHANGED <<tasks, elevated, procs, handle, goal, crossed, nextPid, left>>

\* A task that is disabled, absent or running is left alone.
RunTask(r) ==
  /\ At(r, "runTask")
  /\ IF tasks[Of(r)] # "ready" \/ TaskRuns(Of(r)) THEN Becomes(r, Rest(r)) /\ UNCHANGED <<procs, nextPid>>
     ELSE IF elevated THEN Spawned(Of(r), "task") /\ Becomes(r, Rest(r))
     ELSE Becomes(r, [Rest(r) EXCEPT !.ok = FALSE]) /\ UNCHANGED <<procs, nextPid>>
  /\ UNCHANGED <<tasks, elevated, handle, goal, crossed, left>>

\* The console is gone, and what it left behind is nobody's; it is opened again.
Gone ==
  /\ procs' = {IF p.by = "console" THEN [p EXCEPT !.by = "other"] ELSE p : p \in procs}
  /\ handle' = [s \in Services |-> Nobody] /\ asked' = {}
Exit(r) ==
  /\ At(r, "exit")
  /\ Gone /\ goal' = "none"
  /\ UNCHANGED <<tasks, elevated, crossed, nextPid, left>>

Answers(r) ==
  /\ r.todo = <<>>
  /\ asked' = asked \ {r}
  /\ goal' = CASE r.ok /\ r.clean /\ r.kind \in {"start", "restart"} -> "up"
               [] r.ok /\ r.clean /\ r.kind \in {"stop", "killAll"} -> "down"
               [] OTHER -> "none"
  /\ UNCHANGED <<tasks, elevated, procs, handle, crossed, nextPid, left>>

-----------------------------------------------------------------------------
\* The processes.

\* It binds its port, or cannot and ends.
Ends(p) ==
  /\ procs' = procs \ {p}
  /\ handle' = IF p.by = "console" THEN [handle EXCEPT ![p.of] = Nobody] ELSE handle
Binds(p) ==
  /\ ~p.listens
  /\ IF Listening(p.of) THEN Ends(p)
     ELSE procs' = (procs \ {p}) \cup {[p EXCEPT !.listens = TRUE]} /\ UNCHANGED handle
  /\ UNCHANGED <<tasks, elevated, asked, goal, crossed, nextPid, left>>

\* The exit event: whoever exits, the handle of its service is dropped.
Exits(p) ==
  /\ p.told /\ Ends(p)
  /\ UNCHANGED <<tasks, elevated, asked, goal, crossed, nextPid, left>>

Disturbed == asked' = {[r EXCEPT !.clean = FALSE] : r \in asked} /\ goal' = "none"
Crashes(p) ==
  /\ Spend("troubles") /\ Ends(p) /\ Disturbed
  /\ UNCHANGED <<tasks, elevated, crossed, nextPid>>
Outsider(s) ==
  /\ Spend("troubles") /\ Spawned(s, "other") /\ Disturbed
  /\ UNCHANGED <<tasks, elevated, handle, crossed>>
ConsoleDies ==
  /\ Spend("troubles") /\ Gone /\ goal' = "none"
  /\ UNCHANGED <<tasks, elevated, crossed, nextPid>>

Next ==
  \/ Ask \/ ConsoleDies
  \/ \E r \in asked :
       \/ SpawnServer(r) \/ Look(r) \/ Launch(r) \/ End(r) \/ Await(r) \/ EndTask(r) \/ Settle(r)
       \/ Find(r) \/ Kill(r) \/ Verdict(r) \/ RunTask(r) \/ Exit(r) \/ Answers(r)
  \/ \E p \in procs : Binds(p) \/ Exits(p) \/ Crashes(p)
  \/ \E s \in Services : Outsider(s)

Spec == Init /\ [][Next]_vars

-----------------------------------------------------------------------------

Ours(s) == {p.pid : p \in {q \in procs : q.of = s /\ q.by = "console"}}

\* What the console spawned it can stop: every process it started is the one its
\* handle names, as long as its buttons were pressed one after the other.
NothingOrphaned == ~crossed => \A s \in Services : Ours(s) = {handle[s]} \ {Nobody}

AtRest == asked = {} /\ \A p \in procs : p.listens /\ ~p.told
Wanted(s) == Installed => tasks[s] = "ready"

\* Once things have settled the last button has been obeyed, whole: after Start
\* everything runs that was not disabled, after Stop none of it does and
\* nobody holds the server's port; unless buttons were pressed while others were
\* still being obeyed.
LastButtonWins ==
  AtRest =>
    /\ (goal = "up" /\ ~crossed) => \A s \in Services : Wanted(s) => Listening(s)
    /\ goal = "down" =>
         /\ ~Listening(Server)
         /\ ~crossed => \A p \in procs : p.by = "other"

\* Without the excuse.  It does not hold: of two starts of LiveKit both find the
\* port free, and the one that loses it drops the handle of the one that has it.
EveryChildHasItsHandle == \A s \in Services : Ours(s) = {handle[s]} \ {Nobody}
=============================================================================
