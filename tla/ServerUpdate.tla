----------------------------- MODULE ServerUpdate -----------------------------
(***************************************************************************)
(* Installing a release on the server's box: infra/installer/install.ps1,  *)
(* on its update path and on its fresh path, and the setup program around   *)
(* it, server-installer.nsi.                                                *)
(*                                                                          *)
(* A release is components, each in version 1, installed, or 2, new.  A     *)
(* component is somewhere on the disk: in place (`live'), moved aside       *)
(* (`saved', .rollback) or unpacked and waiting (`staged', .update or the   *)
(* folder of the zip); 0 is not there.  The script is killed, a rename      *)
(* fails because something holds a file, a service does not stop, and the   *)
(* operator opens the admin app meanwhile.  Components that are only        *)
(* written beside the installed ones (Stage), and services with nothing of  *)
(* their own to tell (Caddy), are left out.                                 *)
(*                                                                          *)
(* OneVersionForAll is a plausible bug of the definition that follows it.    *)
(***************************************************************************)
EXTENDS Naturals, Sequences

CONSTANTS
  Order,        \* the components, as the manifest lists them
  Entry,        \* the one that makes a folder an install
  ServiceOf,    \* which service has to come down for a component
  Migrates,     \* those that bring migrations
  NeedsApp,     \* those the admin app keeps open
  FolderOf, Folders,   \* the folder of each, and the folders in turn
  Whole,        \* those that are a folder, and not a part of one
  MaxRuns,      \* bound on how often it is run
  MaxTroubles   \* bound on what goes wrong

Elements(s) == {s[i] : i \in DOMAIN s}
Components == Elements(Order)
\* As Sort-Object puts them.
Services == <<"livekit", "server">>

UpdateAssumption ==
  /\ Entry \in Components /\ Migrates \subseteq Components /\ NeedsApp \subseteq Components /\ Whole \subseteq Components
  /\ ServiceOf \in [Components -> Elements(Services) \cup {"none"}]
  /\ FolderOf \in [Components -> Elements(Folders)]
  /\ MaxRuns \in Nat /\ MaxTroubles \in Nat

Version == 0..2
Texts == {"none", "kept", "new"}
None == [c \in Components |-> 0]
Places == {"idle", "deciding", "closing", "stopping", "swapping", "filling", "migrating", "starting",
           "waiting", "reopening", "recording", "caught", "undoing", "restarting",
           "replacing", "restoring", "configuring"}

VARIABLES
  payload,     \* what the release holds
  setup,       \* it is the setup program, and not the zip
  sound,       \* the new version comes up
  tasks,       \* the services are scheduled tasks
  live, saved, staged,
  recorded,    \* installed.json
  up,          \* the services that answer
  app,         \* the admin app is open
  env,         \* server\.env
  at,          \* where the script is
  turn,        \* of the loop it is in
  moved,       \* $moved
  inHand,      \* $envBackup
  reopens,     \* $appWasOpen
  foundLive, foundUp,   \* how this run found things
  outcome,     \* of the last run
  blames,      \* what went wrong that is not made good
  spare

release == <<payload, setup, sound, tasks>>
disk == <<live, saved, staged>>
script == <<moved, inHand, reopens, foundLive, foundUp>>
vars == <<release, disk, recorded, up, app, env, at, turn, script, outcome, blames, spare>>

\* A move half made, or not undone; the new in place and not written down; moved
\* away by an earlier run from the same folder; the fresh path cut off among the
\* folders, and .env with them.
Blames == {"half", "unrestored", "unrecorded", "leftovers", "torn", "env"}

TypeOK ==
  /\ payload \in [Components -> 1..2] /\ setup \in BOOLEAN /\ sound \in BOOLEAN /\ tasks \in BOOLEAN
  /\ live \in [Components -> Version] /\ saved \in [Components -> Version]
  /\ staged \in [Components -> Version] /\ recorded \in [Components -> Version]
  /\ up \subseteq Elements(Services) /\ app \in BOOLEAN /\ env \in Texts
  /\ at \in Places /\ turn \in Nat /\ moved \in Seq(Components) /\ inHand \in Texts
  /\ reopens \in BOOLEAN /\ foundLive \in [Components -> Version] /\ foundUp \subseteq Elements(Services)
  /\ outcome \in {"none", "updated", "rolled back", "installed", "broken"}
  /\ blames \subseteq Blames
  /\ spare \in [{"runs", "troubles"} -> Nat]

\* An install of version 1, tracked or from before there was tracking, and
\* serving.
Init ==
  /\ payload \in [Components -> 1..2] /\ setup \in BOOLEAN /\ sound \in BOOLEAN /\ tasks \in BOOLEAN
  /\ live = [c \in Components |-> 1] /\ saved = None
  /\ staged = IF setup THEN None ELSE payload
  /\ recorded \in {live, None}
  /\ up = Elements(Services) /\ app \in BOOLEAN /\ env = "kept"
  /\ at = "idle" /\ turn = 1 /\ moved = <<>> /\ inHand = "none" /\ reopens = FALSE
  /\ foundLive = live /\ foundUp = up /\ outcome = "none" /\ blames = {}
  /\ spare = [runs |-> MaxRuns, troubles |-> MaxTroubles]

Spend(what) == spare[what] > 0 /\ spare' = [spare EXCEPT ![what] = @ - 1]
GoTo(place) == at' = place /\ turn' = 1
Blame(why) == blames' = blames \cup why

OneVersionForAll == IF recorded[Entry] = payload[Entry] THEN {} ELSE Components
\* What differs is what is replaced, and says what has to stop.
Changed == {c \in Components : recorded[c] # payload[c]}
ToRestart == SelectSeq(Services, LAMBDA s : \E c \in Changed : ServiceOf[c] = s)
ClosesApp == Changed \cap NeedsApp # {}
NeedsMigrate == Changed \cap Migrates # {} \/ recorded = None

\* A service answers if all of it is there, and the new version works.
Answers(s) ==
  \A c \in Components : ServiceOf[c] = s => live[c] # 0 /\ (s = "server" /\ live[c] = 2 => sound)

-----------------------------------------------------------------------------
(* Running it.                                                              *)

\* The setup program unpacks, and takes the update path if it finds the entry;
\* from the zip the operator says which.  Either needs the entry of the payload.
Run ==
  /\ at = "idle"
  /\ Spend("runs")
  /\ staged' = IF setup THEN payload ELSE staged
  /\ staged'[Entry] # 0
  /\ \/ live[Entry] # 0 /\ GoTo("deciding") /\ inHand' = "none"
     \/ (setup => live[Entry] = 0) /\ GoTo("replacing") /\ inHand' = env
  /\ foundLive' = live /\ foundUp' = up /\ moved' = <<>> /\ reopens' = FALSE
  /\ UNCHANGED <<release, live, saved, recorded, up, app, env, outcome, blames>>

\* The setup program removes what it unpacked, whatever came of it.
Ends(how) ==
  /\ GoTo("idle")
  /\ outcome' = how
  /\ staged' = IF setup THEN None ELSE staged

\* Nothing differs, or the way to the short window; what an earlier run left
\* in .rollback is removed.
Decide ==
  /\ at = "deciding"
  /\ IF Changed = {}
     THEN recorded' = payload /\ Ends("updated") /\ UNCHANGED <<saved, blames>>
     ELSE /\ GoTo("closing")
          /\ saved' = None
          /\ Blame(IF \E c \in Changed : staged[c] = 0 THEN {"leftovers"} ELSE {})
          /\ UNCHANGED <<recorded, staged, outcome>>
  /\ UNCHANGED <<release, live, up, app, env, script, spare>>

-----------------------------------------------------------------------------
(* The short window.                                                        *)

\* throw: the window has one catch.
Throws == Spend("troubles") /\ GoTo("caught")

\* Stop-AdminApp: its window hides rather than closes, so it is ended, and
\* the console with it; the services they started stay.
CloseApp ==
  /\ at = "closing"
  /\ IF ClosesApp /\ app
     THEN \/ app' = FALSE /\ reopens' = TRUE /\ GoTo("stopping") /\ UNCHANGED spare
          \/ Throws /\ UNCHANGED <<app, reopens>>
     ELSE GoTo("stopping") /\ UNCHANGED <<app, reopens, spare>>
  /\ UNCHANGED <<release, disk, recorded, up, env, moved, inHand, foundLive, foundUp, outcome, blames>>

\* Stop-Managed, of each in turn; one that will not stop leaves the rest.
Stop ==
  /\ at = "stopping"
  /\ IF turn > Len(ToRestart)
     THEN GoTo("swapping") /\ UNCHANGED <<up, spare>>
     ELSE \/ up' = up \ {ToRestart[turn]} /\ turn' = turn + 1 /\ UNCHANGED <<at, spare>>
          \/ ToRestart[turn] \in up /\ Throws /\ UNCHANGED up
  /\ UNCHANGED <<release, disk, recorded, app, env, script, outcome, blames>>

\* Something has a file of it open.
Held(c) == (ServiceOf[c] # "none" /\ ServiceOf[c] \in up) \/ (c \in NeedsApp /\ app)

\* Move-Component, its first half: what is in place goes to .rollback.  What
\* is not in the payload any more is skipped.
MoveAside ==
  /\ at = "swapping"
  /\ IF turn > Len(Order)
     THEN GoTo(IF NeedsMigrate THEN "migrating" ELSE "starting") /\ UNCHANGED <<live, saved, spare>>
     ELSE LET c == Order[turn] IN
          \/ /\ c \notin Changed \/ (staged[c] = 0 /\ ~(c \in NeedsApp /\ app))
             /\ turn' = turn + 1 /\ UNCHANGED <<at, live, saved, spare>>
          \/ /\ c \in Changed /\ staged[c] # 0 /\ ~Held(c)
             /\ saved' = [saved EXCEPT ![c] = live[c]] /\ live' = [live EXCEPT ![c] = 0]
             /\ at' = "filling" /\ UNCHANGED <<turn, spare>>
          \/ /\ c \in Changed /\ (staged[c] # 0 \/ c \in NeedsApp) /\ Held(c)
             /\ GoTo("caught") /\ UNCHANGED <<live, saved, spare>>
          \/ c \in Changed /\ staged[c] # 0 /\ Throws /\ UNCHANGED <<live, saved>>
  /\ UNCHANGED <<release, staged, recorded, up, app, env, script, outcome, blames>>

\* Its second half: the new one takes the place, and only then is the move
\* written down.
MoveIn ==
  /\ at = "filling"
  /\ LET c == Order[turn] IN
     \/ /\ live' = [live EXCEPT ![c] = staged[c]] /\ staged' = [staged EXCEPT ![c] = 0]
        /\ moved' = Append(moved, c)
        /\ at' = "swapping" /\ turn' = turn + 1
        /\ UNCHANGED <<spare, blames>>
     \/ Throws /\ Blame({"half"}) /\ UNCHANGED <<live, staged, moved>>
  /\ UNCHANGED <<release, saved, recorded, up, app, env, inHand, reopens, foundLive, foundUp, outcome>>

Migrate ==
  /\ at = "migrating"
  /\ \/ Throws
     \/ GoTo("starting") /\ UNCHANGED spare
  /\ UNCHANGED <<release, disk, recorded, up, app, env, script, outcome, blames>>

\* Start-Managed: its task, if there is one.
Started(s) == IF tasks /\ Answers(s) THEN up \cup {s} ELSE up

Start ==
  /\ at = "starting"
  /\ IF turn > Len(ToRestart)
     THEN GoTo("waiting") /\ UNCHANGED up
     ELSE up' = Started(ToRestart[turn]) /\ turn' = turn + 1 /\ UNCHANGED at
  /\ UNCHANGED <<release, disk, recorded, app, env, script, outcome, blames, spare>>

\* Wait-Healthy, of the server alone.
Wait ==
  /\ at = "waiting"
  /\ GoTo(IF "server" \in Elements(ToRestart) \ up THEN "caught" ELSE "reopening")
  /\ UNCHANGED <<release, disk, recorded, up, app, env, script, outcome, blames, spare>>

Reopen ==
  /\ at = "reopening"
  /\ app' = (app \/ reopens)
  /\ GoTo("recording")
  /\ UNCHANGED <<release, disk, recorded, up, env, script, outcome, blames, spare>>

\* Only now is the new manifest the truth; .rollback goes.
Record ==
  /\ at = "recording"
  /\ recorded' = payload
  /\ saved' = None
  /\ Ends("updated")
  /\ blames' = blames \ {"half", "unrestored", "unrecorded"}
  /\ UNCHANGED <<release, live, up, app, env, script, spare>>

-----------------------------------------------------------------------------
(* Putting the previous version back.                                       *)

\* What is being put back, services first; one that will not stop is left.
StopAgain ==
  /\ at = "caught"
  /\ IF turn > Len(ToRestart)
     THEN GoTo("undoing") /\ UNCHANGED <<up, spare>>
     ELSE /\ turn' = turn + 1 /\ UNCHANGED at
          /\ \/ up' = up \ {ToRestart[turn]} /\ UNCHANGED spare
             \/ ToRestart[turn] \in up /\ Spend("troubles") /\ UNCHANGED up
  /\ UNCHANGED <<release, disk, recorded, app, env, script, outcome, blames>>

\* Undo-Moves, newest first.
ToUndo == moved

\* One move: the new one is removed, the old one comes back; or one of the two
\* fails, which is warned of and goes on.
Undo ==
  /\ at = "undoing"
  /\ IF turn > Len(ToUndo)
     THEN GoTo("restarting") /\ UNCHANGED <<live, saved, blames, spare>>
     ELSE LET c == ToUndo[Len(ToUndo) + 1 - turn] IN
          /\ turn' = turn + 1 /\ UNCHANGED at
          /\ \/ /\ ~Held(c)
                /\ live' = [live EXCEPT ![c] = saved[c]] /\ saved' = [saved EXCEPT ![c] = 0]
                /\ UNCHANGED <<blames, spare>>
             \/ Held(c) /\ Blame({"unrestored"}) /\ UNCHANGED <<live, saved, spare>>
             \/ /\ ~Held(c) /\ Spend("troubles")
                /\ live' = [live EXCEPT ![c] = 0] /\ Blame({"unrestored"}) /\ UNCHANGED saved
  /\ UNCHANGED <<release, staged, recorded, up, app, env, script, outcome>>

Restart ==
  /\ at = "restarting"
  /\ IF turn > Len(ToRestart)
     THEN Ends("rolled back") /\ app' = (app \/ reopens) /\ UNCHANGED up
     ELSE up' = Started(ToRestart[turn]) /\ turn' = turn + 1 /\ UNCHANGED <<at, app, outcome, staged>>
  /\ UNCHANGED <<release, live, saved, recorded, env, script, blames, spare>>

-----------------------------------------------------------------------------
(* The fresh path, over whatever is there.                                  *)

\* A folder of the payload replaces its namesake, .env and all, with whatever an
\* earlier run has left of it; or something holds a file of it, and it is left
\* torn.
Replace ==
  /\ at = "replacing"
  /\ IF turn > Len(Folders)
     THEN GoTo("restoring") /\ UNCHANGED <<live, staged, env, outcome, blames, spare>>
     ELSE LET these == {c \in Components : FolderOf[c] = Folders[turn]}
              gone == \A c \in these : c \in Whole /\ staged[c] = 0 IN
          \/ /\ gone \/ \A c \in these : ~Held(c)
             /\ live' = [c \in Components |-> IF c \in these /\ ~gone THEN staged[c] ELSE live[c]]
             /\ staged' = [c \in Components |-> IF c \in these THEN 0 ELSE staged[c]]
             /\ env' = IF FolderOf[Entry] = Folders[turn] THEN "none" ELSE env
             /\ Blame(IF \E c \in these : staged[c] = 0 THEN {"leftovers"} ELSE {})
             /\ turn' = turn + 1 /\ UNCHANGED <<at, outcome, spare>>
          \/ /\ ~gone
             /\ IF \E c \in these : Held(c) THEN UNCHANGED spare ELSE Spend("troubles")
             /\ live' = [c \in Components |-> IF c \in these THEN 0 ELSE live[c]]
             /\ env' \in {env} \cup IF FolderOf[Entry] = Folders[turn] THEN {"none"} ELSE {}
             /\ Blame({"torn"} \cup IF env' = inHand THEN {} ELSE {"env"})
             /\ Ends("broken")
  /\ UNCHANGED <<release, saved, recorded, up, app, script>>

Restore ==
  /\ at = "restoring"
  /\ env' = IF inHand = "none" THEN env ELSE inHand
  /\ GoTo("configuring")
  /\ UNCHANGED <<release, disk, recorded, up, app, script, outcome, blames, spare>>

\* Secrets are made up if there is no .env; migrations, which may fail; the
\* tasks, if wanted; and payload.json, which is in place by now, is the record.
Configure ==
  /\ at = "configuring"
  /\ env' = IF env = "none" THEN "new" ELSE env
  /\ \/ /\ recorded' = payload /\ Ends("installed") /\ tasks' \in {tasks, TRUE}
        /\ blames' = blames \ {"half", "unrestored", "unrecorded", "torn"}
        /\ UNCHANGED spare
     \/ Spend("troubles") /\ Ends("broken") /\ Blame({"unrecorded"}) /\ UNCHANGED <<recorded, tasks>>
  /\ UNCHANGED <<payload, setup, sound, live, saved, up, app, script>>

-----------------------------------------------------------------------------
(* The rest of the world.                                                   *)

\* The box loses its power; what is a task comes up with it.
Die ==
  /\ at # "idle"
  /\ Spend("troubles")
  /\ GoTo("idle") /\ outcome' = "none"
  /\ up' = IF tasks THEN {s \in Elements(Services) : Answers(s)} ELSE {}
  /\ app' = FALSE
  /\ Blame(IF live = foundLive /\ env = inHand THEN {}
           ELSE IF at \in {"replacing", "restoring", "configuring"}
           THEN {"torn"} \cup IF env = inHand THEN {} ELSE {"env"}
           ELSE {"unrecorded"})
  /\ UNCHANGED <<release, disk, recorded, env, script>>

\* The operator opens the admin app, or starts a service from it.
Meddle ==
  /\ Spend("troubles")
  /\ \/ ~app /\ app' = TRUE /\ UNCHANGED up
     \/ app /\ UNCHANGED app /\ \E s \in Elements(Services) \ up : Answers(s) /\ up' = up \cup {s}
  /\ UNCHANGED <<release, disk, recorded, env, at, turn, script, outcome, blames>>

Next ==
  \/ Run \/ Decide \/ CloseApp \/ Stop \/ MoveAside \/ MoveIn \/ Migrate \/ Start \/ Wait \/ Reopen \/ Record
  \/ StopAgain \/ Undo \/ Restart \/ Replace \/ Restore \/ Configure
  \/ Die \/ Meddle

-----------------------------------------------------------------------------

\* What a failed update says of itself: the install is as it was.
NothingHalfApplied == at = "idle" /\ outcome = "rolled back" => live = foundLive
\* What installed.json is: the components in place.
RecordIsTrue == at = "idle" /\ outcome \in {"updated", "installed"} => live = recorded
\* .env is left alone once it exists.
EnvIsKept == at = "idle" => env = "kept"

\* Wherever a run is cut off, fails, is undone or run again: short of a move
\* that was made by half or could not be undone, what failed is put back
\* exactly, with the services that ran; installed.json never claims what is
\* not in place, or the next update would pass it by; and .env outlives it
\* all, unless the fresh path was cut off.
InstallIsWhole ==
  /\ blames \cap {"half", "unrestored"} = {} => NothingHalfApplied
  /\ "leftovers" \notin blames => RecordIsTrue
  /\ at = "idle" /\ blames = {} => \A c \in Components : recorded[c] # 0 => live[c] = recorded[c]
  /\ at = "idle" /\ blames \cap {"leftovers", "torn"} = {} =>
       \A c \in Components : recorded[c] = 2 => live[c] = 2
  /\ at = "idle" /\ blames = {} /\ tasks /\ outcome \in {"updated", "rolled back"} => foundUp \subseteq up
  /\ "env" \notin blames => EnvIsKept
=============================================================================
