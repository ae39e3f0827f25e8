-------------------------- MODULE MCPhoneAndConsole --------------------------
(* The phone's channel screen, sealed messages, the sounds of people coming *)
(* and going, and the operator's console, which share no state, in one      *)
(* model: a behaviour is of one of them, `playing', while the others stay   *)
(* where they began.                                                        *)
EXTENDS SealedMessages, EventSounds, Integers, Sequences, TLC

CONSTANTS u1, u2   \* who uses the machine of SealedMessages

VARIABLES
  playing,
  posted, deleted, untold, up, fresh, joining, joined, inbox, sink, list, older, newer, newest, loading,
  excused, ghosts, strays, tangled, phoneSpare,
  today, written, total, past, ours, pipe, tail, pushed, ring, logSeq, page, excuse, happens,
  tasks, elevated, procs, handle, asked, goal, crossed, nextPid, consoleLeft

Phone == INSTANCE PhoneScreen WITH
  written <- posted, asked <- loading, spare <- phoneSpare,
  PageSize <- 2, Olds <- {1, 4}, MaxMessages <- 4, MaxUntold <- 1, MaxAsked <- 1, MaxTwists <- 2
Log == INSTANCE LogTail WITH
  SeedBytes <- 2, MaxRead <- 3, LogLimit <- 2, MaxBytes <- 5, MaxAsked <- 2, MaxHappens <- 2
Con == INSTANCE Console WITH
  left <- consoleLeft,
  Server <- "server", Helpers <- {"livekit"}, Nobody <- 0,
  MaxPids <- 4, MaxAsked <- 2, MaxAtOnce <- 2, MaxTroubles <- 1
phoneVars == <<posted, deleted, untold, up, fresh, joining, joined, inbox, sink, list, older, newer,
               newest, loading, excused, ghosts, strays, tangled, phoneSpare>>
logVars == <<today, written, total, past, ours, pipe, tail, pushed, ring, logSeq, page, excuse, happens>>
consoleVars == <<tasks, elevated, procs, handle, asked, goal, crossed, nextPid, consoleLeft>>
partsVars == <<playing, phoneVars, keysVars, vars, logVars, consoleVars>>

ASSUME PartsAreSound ==
  /\ Phone!PhoneScreenAssumption /\ Log!LogAssumption /\ Con!ConsoleAssumption

\* The two slots of EventSounds are one person's.
MCPeopleOf == "aj" :> "a" @@ "al" :> "a"

\* Nothing in SealedMessages tells the two apart, and no other part names them.
Alike == Permutations({u1, u2})

Parts == {"phone", "seals", "sounds", "log", "console"}

PartsInit ==
  /\ playing \in Parts
  /\ Phone!Init /\ KeysInit /\ Init /\ Log!Init /\ Con!Init
  /\ playing # "phone" => posted = {1}
  /\ playing # "seals" => kind = "phone"
  /\ playing # "log" => total = 0
  /\ playing # "console" => tasks["server"] = "absent" /\ elevated

PartsNext ==
  /\ UNCHANGED playing
  /\ \/ playing = "phone" /\ Phone!Next /\ UNCHANGED <<keysVars, vars, logVars, consoleVars>>
     \/ playing = "seals" /\ KeysNext /\ UNCHANGED <<phoneVars, vars, logVars, consoleVars>>
     \/ playing = "sounds" /\ Next /\ UNCHANGED <<phoneVars, keysVars, logVars, consoleVars>>
     \/ playing = "log" /\ Log!Next /\ UNCHANGED <<phoneVars, keysVars, vars, consoleVars>>
     \/ playing = "console" /\ Con!Next /\ UNCHANGED <<phoneVars, keysVars, vars, logVars>>

PartsSpec == PartsInit /\ [][PartsNext]_partsVars

\* A part is looked at while it plays: its types, and what it promises.
Of(part, types, promise) == playing = part => types /\ promise

=============================================================================
