-------------------------------- MODULE Updater --------------------------------
(***************************************************************************)
(* The desktop app replacing itself: main/updater.ts, the window's share of *)
(* it (useUpdates, Chat's two listeners) and the installer.                 *)
(*                                                                          *)
(* The app is given up step by step - the progress window, the voice        *)
(* channel, the main window, the installer - and every step may fail.  The  *)
(* installer kills this process when it works.  When it does not, because   *)
(* somebody declined it, the app has to notice that it is still there and   *)
(* to put everything back.  Meanwhile a newer release may be announced,     *)
(* which makes the updater look at the feed again.                          *)
(*                                                                          *)
(* StaysHidden and ForgetsTheTimer are plausible bugs of the definition     *)
(* that follows them.                                                       *)
(***************************************************************************)
EXTENDS Naturals, Sequences

CONSTANTS
  MaxVersion,   \* bound on releases
  MaxChecks,    \* bound on questions to the feed
  MaxInstalls,  \* bound on attempts to install
  MaxCalls      \* bound on calls the person enters and leaves by hand

Nothing == 0
Versions == 1..MaxVersion

ASSUME UpdaterAssumption ==
  MaxVersion \in Nat /\ MaxChecks \in Nat /\ MaxInstalls \in Nat /\ MaxCalls \in Nat

VARIABLES
  running,      \* app.getVersion
  published,    \* what the feed offers
  stage, version,  \* state.stage, state.version
  found,        \* the release electron-updater found last
  looking,      \* a question to the feed is under way
  fetching,     \* a download is under way
  downloaded,   \* downloadedFile, by its version
  installing,
  handing,      \* how far handOverToInstaller is
  file,         \* the installer it was started with
  installer,    \* the installer that runs
  timer,        \* installTimeout
  visible,      \* the main window is not hidden
  calling,      \* voice.channelId, and main's inCall
  leaving,      \* how far the window is with leaving the call for main
  leftFor,      \* leftForUpdateRef
  rejoin,       \* settings.rejoinAfterUpdate
  fromMain,     \* main's messages to the window
  owed,         \* a call was given up for an update
  crossed,      \* the feed, or a slow window, answered in the middle of a hand-over
  updateSpare   \* what is left of each bound

offer == <<stage, version>>
feed == <<published, found, looking, fetching, downloaded>>
hand == <<installing, handing, file, installer, timer, visible>>
callState == <<calling, leaving, leftFor, rejoin, owed>>
updateVars == <<running, feed, offer, hand, callState, fromMain, crossed, updateSpare>>

UpdateTypeOK ==
  /\ running \in 0..MaxVersion /\ published \in 0..MaxVersion /\ found \in 0..MaxVersion
  /\ stage \in {"idle", "checking", "available", "downloading", "ready", "installing", "error"}
  /\ version \in 0..MaxVersion /\ downloaded \in 0..MaxVersion
  /\ file \in 0..MaxVersion /\ installer \in 0..MaxVersion
  /\ looking \in BOOLEAN /\ fetching \in BOOLEAN /\ installing \in BOOLEAN
  /\ handing \in {"no", "opening", "leaving", "pausing"}
  /\ timer \in BOOLEAN /\ visible \in BOOLEAN /\ calling \in BOOLEAN
  /\ leaving \in {"no", "saving", "disconnecting"}
  /\ leftFor \in BOOLEAN /\ rejoin \in BOOLEAN /\ owed \in BOOLEAN /\ crossed \in BOOLEAN
  /\ fromMain \in Seq({"leave-voice", "rejoin-voice"})
  /\ updateSpare \in [{"checks", "installs", "calls"} -> Nat]

Launched ==
  /\ stage' = "idle" /\ version' = Nothing /\ found' = Nothing
  /\ looking' = FALSE /\ fetching' = FALSE /\ downloaded' = Nothing
  /\ installing' = FALSE /\ handing' = "no" /\ file' = Nothing /\ timer' = FALSE /\ visible' = TRUE
  /\ leaving' = "no" /\ leftFor' = FALSE /\ fromMain' = <<>>

UpdateInit ==
  /\ running = Nothing /\ published = Nothing /\ found = Nothing
  /\ stage = "idle" /\ version = Nothing
  /\ looking = FALSE /\ fetching = FALSE /\ downloaded = Nothing
  /\ installing = FALSE /\ handing = "no" /\ file = Nothing /\ installer = Nothing
  /\ timer = FALSE /\ visible = TRUE
  /\ calling = FALSE /\ leaving = "no" /\ leftFor = FALSE /\ rejoin = FALSE /\ owed = FALSE
  /\ fromMain = <<>> /\ crossed = FALSE
  /\ updateSpare = [checks |-> MaxChecks, installs |-> MaxInstalls, calls |-> MaxCalls]

SpendUpdate(what) == updateSpare[what] > 0 /\ updateSpare' = [updateSpare EXCEPT ![what] = @ - 1]

-----------------------------------------------------------------------------
(* Giving up on an install.                                                 *)

StaysHidden == visible
\* abandon: the window is shown again.
ShownAgain == TRUE

\* abandon, for an install that is under way; then is the stage to publish.
Abandon(then) ==
  /\ installing' = FALSE /\ timer' = FALSE
  /\ visible' = ShownAgain
  /\ stage' = then
  /\ fromMain' = Append(fromMain, "rejoin-voice")

\* autoUpdater's error event, whatever it is about.
FeedTrouble ==
  IF installing
  THEN Abandon("error") /\ crossed' = TRUE
  ELSE stage' = "error" /\ UNCHANGED <<installing, timer, visible, fromMain, crossed>>

-----------------------------------------------------------------------------
(* The feed.                                                                *)

\* A release is published.
Release ==
  /\ published < MaxVersion
  /\ published' = published + 1
  /\ UNCHANGED <<running, offer, found, looking, fetching, downloaded, hand, callState, fromMain,
                 crossed, updateSpare>>

\* update:check: at the start, at an announcement, or by hand.
Check ==
  /\ ~looking
  /\ SpendUpdate("checks")
  /\ looking' = TRUE /\ stage' = "checking"
  /\ UNCHANGED <<running, published, found, fetching, downloaded, version, hand, callState, fromMain, crossed>>

\* update-available, update-not-available.
Checked ==
  /\ looking
  /\ looking' = FALSE
  /\ IF published > running
     THEN stage' = "available" /\ version' = published /\ found' = published
     ELSE stage' = "idle" /\ version' = Nothing /\ UNCHANGED found
  /\ crossed' = (crossed \/ installing)
  /\ UNCHANGED <<running, published, fetching, downloaded, hand, callState, fromMain, updateSpare>>

CheckFails ==
  /\ looking
  /\ looking' = FALSE
  /\ FeedTrouble
  /\ UNCHANGED <<running, published, found, fetching, downloaded, version, handing, file, installer,
                 callState, updateSpare>>

\* update:download, of what was found.
Download ==
  /\ stage \in {"available", "error"} /\ visible
  /\ found # Nothing /\ ~fetching
  /\ fetching' = TRUE /\ stage' = "downloading"
  /\ UNCHANGED <<running, published, found, looking, downloaded, version, hand, callState, fromMain,
                 crossed, updateSpare>>

\* update-downloaded.
Downloaded ==
  /\ fetching
  /\ fetching' = FALSE
  /\ downloaded' = found /\ stage' = "ready" /\ version' = found
  /\ crossed' = (crossed \/ installing)
  /\ UNCHANGED <<running, published, found, looking, hand, callState, fromMain, updateSpare>>

DownloadFails ==
  /\ fetching
  /\ fetching' = FALSE
  /\ FeedTrouble
  /\ UNCHANGED <<running, published, found, looking, downloaded, version, handing, file, installer,
                 callState, updateSpare>>

-----------------------------------------------------------------------------
(* Handing over.                                                            *)

\* update:install, up to the progress window.
Install ==
  /\ stage = "ready" /\ ~installing /\ visible
  /\ downloaded # Nothing
  /\ handing = "no"
  /\ SpendUpdate("installs")
  /\ installing' = TRUE /\ stage' = "installing"
  /\ handing' = "opening" /\ file' = downloaded
  /\ UNCHANGED <<running, feed, version, installer, timer, visible, callState, fromMain, crossed>>

\* The main window is hidden, and a moment passes.
Hide == visible' = FALSE /\ handing' = "pausing"

\* The progress window has painted; a call is left first.
Opened ==
  /\ handing = "opening"
  /\ IF calling
     THEN /\ handing' = "leaving"
          /\ fromMain' = Append(fromMain, "leave-voice")
          /\ UNCHANGED visible
     ELSE Hide /\ UNCHANGED fromMain
  /\ UNCHANGED <<running, feed, offer, installing, file, installer, timer, callState, crossed, updateSpare>>

OpenFails ==
  /\ handing = "opening"
  /\ handing' = "no"
  /\ IF installing THEN Abandon("ready") ELSE UNCHANGED <<installing, timer, visible, stage, fromMain>>
  /\ UNCHANGED <<running, feed, version, file, installer, callState, crossed, updateSpare>>

\* leaveVoiceForUpdate waits four seconds and no more.
WaitedEnough ==
  /\ handing = "leaving"
  /\ Hide
  /\ crossed' = TRUE
  /\ UNCHANGED <<running, feed, offer, installing, file, installer, timer, callState, fromMain, updateSpare>>

ForgetsTheTimer == FALSE
\* handOverToInstaller: what is still running after ninety seconds was not
\* installed.
Watched == TRUE

Spawn ==
  /\ handing = "pausing"
  /\ handing' = "no"
  /\ installer' = file
  /\ timer' = Watched
  /\ UNCHANGED <<running, feed, offer, installing, file, visible, callState, fromMain, crossed, updateSpare>>

\* It could not be started.
SpawnFails ==
  /\ handing = "pausing"
  /\ handing' = "no"
  /\ IF installing THEN Abandon("ready") ELSE UNCHANGED <<installing, timer, visible, stage, fromMain>>
  /\ UNCHANGED <<running, feed, version, file, installer, callState, crossed, updateSpare>>

\* The ninety seconds are over.
TimedOut ==
  /\ timer
  /\ IF installing
     THEN Abandon("ready")
     ELSE timer' = FALSE /\ UNCHANGED <<installing, visible, stage, fromMain>>
  /\ UNCHANGED <<running, feed, version, handing, file, installer, callState, crossed, updateSpare>>

\* Somebody declines the prompt, or the installer gives up.
Declined ==
  /\ installer # Nothing
  /\ installer' = Nothing
  /\ UNCHANGED <<running, feed, offer, installing, handing, file, timer, visible, callState, fromMain,
                 crossed, updateSpare>>

\* The installer closes this process, replaces it and starts it again; the new
\* build pays the debt it finds, once.
Installed ==
  /\ installer # Nothing
  /\ Launched
  /\ running' = installer /\ installer' = Nothing
  /\ calling' = rejoin /\ rejoin' = FALSE /\ owed' = FALSE
  /\ UNCHANGED <<published, crossed, updateSpare>>

-----------------------------------------------------------------------------
(* The window.                                                              *)

\* onLeaveVoiceForUpdate, up to the settings being written.
LeaveForUpdate ==
  /\ fromMain # <<>> /\ Head(fromMain) = "leave-voice"
  /\ fromMain' = Tail(fromMain)
  /\ leftFor' = calling
  /\ IF calling
     THEN leaving' = "saving" /\ UNCHANGED <<handing, visible>>
     ELSE UNCHANGED leaving /\ IF handing = "leaving" THEN Hide ELSE UNCHANGED <<handing, visible>>
  /\ UNCHANGED <<running, feed, offer, installing, file, installer, timer, calling, rejoin, owed,
                 crossed, updateSpare>>

Saved ==
  /\ leaving = "saving"
  /\ leaving' = "disconnecting"
  /\ rejoin' = TRUE
  /\ UNCHANGED <<running, feed, offer, hand, calling, leftFor, owed, fromMain, crossed, updateSpare>>

\* voice.leave, and the answer, if main still waits for it.
Left ==
  /\ leaving = "disconnecting"
  /\ leaving' = "no"
  /\ calling' = FALSE /\ owed' = TRUE
  /\ IF handing = "leaving" THEN Hide ELSE UNCHANGED <<handing, visible>>
  /\ UNCHANGED <<running, feed, offer, installing, file, installer, timer, leftFor, rejoin, fromMain,
                 crossed, updateSpare>>

\* onRejoinVoiceAfterUpdate.
RejoinVoice ==
  /\ fromMain # <<>> /\ Head(fromMain) = "rejoin-voice"
  /\ fromMain' = Tail(fromMain)
  /\ calling' = (calling \/ leftFor) /\ owed' = (owed /\ ~leftFor)
  /\ leftFor' = FALSE /\ rejoin' = FALSE
  /\ UNCHANGED <<running, feed, offer, hand, leaving, crossed, updateSpare>>

\* Somebody joins a call or hangs up.
Call ==
  /\ visible /\ leaving = "no"
  /\ SpendUpdate("calls")
  /\ calling' = ~calling /\ owed' = FALSE
  /\ UNCHANGED <<running, feed, offer, hand, leaving, leftFor, rejoin, fromMain, crossed>>

UpdateNext ==
  \/ Release \/ Check \/ Checked \/ CheckFails \/ Download \/ Downloaded \/ DownloadFails
  \/ Install \/ Opened \/ OpenFails \/ WaitedEnough \/ Spawn \/ SpawnFails \/ TimedOut
  \/ Declined \/ Installed
  \/ LeaveForUpdate \/ Saved \/ Left \/ RejoinVoice \/ Call

UpdateSpec == UpdateInit /\ [][UpdateNext]_updateVars

-----------------------------------------------------------------------------

Rest ==
  /\ handing = "no" /\ installer = Nothing /\ ~timer
  /\ leaving = "no" /\ fromMain = <<>>

\* "The app comes back rather than being killed off by a timer": after an
\* install that did not happen the window is on the screen, whoever was in a
\* call is back in it, no debt is left lying on the disk, and what is offered
\* to install is what was downloaded.  Short of the feed, or a window that took
\* too long, answering in the middle of it.
AllIsPutBack ==
  (Rest /\ ~crossed) => ~installing /\ visible /\ ~owed /\ ~rejoin /\ (stage = "ready" => version = downloaded)

\* Giving an install up, whatever the step it failed at.
EverythingIsPutBack == UpdateTypeOK /\ AllIsPutBack

\* The app is never hidden with nothing left to bring it back.  It does not
\* hold: an error of the feed during the hand-over gives the install up, and
\* the hand-over goes on all the same - hides the window, starts the installer
\* and sets a timer that does nothing.
NeverLostFromSight == Rest => visible
=============================================================================
