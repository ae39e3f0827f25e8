-------------------------------- MODULE Feeds --------------------------------
(***************************************************************************)
(* The two update feeds of the server: a staging directory that a release   *)
(* is uploaded into, a feed directory that clients read, and the publish    *)
(* that carries one into the other, file by file.                           *)
(*                                                                          *)
(* A release is a manifest that names a version and the package of that     *)
(* version, which is whole or in part; blockmaps, notes and sizes are left  *)
(* out.  The server may die between any two steps, which leaves both        *)
(* directories as they are.                                                 *)
(*                                                                          *)
(* AnyVersion, SizeUnread, PackageLater and KeepStaging are plausible bugs  *)
(* of the definition that follows each.                                     *)
(***************************************************************************)
EXTENDS Naturals, FiniteSets

CONSTANTS
  MaxVersion,  \* bound on versions built
  MaxPublish,  \* bound on uploads and publishes being handled at once
  MaxPushes,   \* bound on uploads and publishes
  MaxDeaths    \* bound on restarts and uploads that fail

ASSUME FeedsAssumption == {MaxVersion, MaxPublish, MaxPushes, MaxDeaths} \subseteq Nat

FeedKinds == {"desktop", "android"}
Versions == 1..MaxVersion

VARIABLES
  feed,     \* UPDATES_DIR/desktop and android: what the manifest names, and the packages there
  staging,  \* the staging directories
  pushes,   \* uploads and publishes being handled
  told,     \* the newest version announced to clients, 0 for none
  tangled,  \* read by properties only: two of them have overlapped, or one was cut short
  behind,   \* read by properties only: feeds a restart left older than what was announced
  pushing   \* bounds that are left

feedsVars == <<feed, staging, pushes, told, tangled, behind, pushing>>

Directory == [manifest : 0..MaxVersion, package : [Versions -> {"none", "part", "whole"}]]
Push == [op : {"upload", "publish"}, kind : FeedKinds, version : Versions,
         at : {"started", "checked", "cleared", "named", "copying", "carried"}]
Empty == [manifest |-> 0, package |-> [v \in Versions |-> "none"]]

FeedsTypeOK ==
  /\ feed \in [FeedKinds -> Directory] /\ staging \in [FeedKinds -> Directory]
  /\ pushes \subseteq Push
  /\ told \in [FeedKinds -> 0..MaxVersion] /\ tangled \in [FeedKinds -> BOOLEAN]
  /\ behind \subseteq FeedKinds
  /\ pushing \in [pushes : 0..MaxPushes, deaths : 0..MaxDeaths]

\* Nothing published yet, or a release; a restart may have emptied the Android
\* feed of it.
FeedsInit ==
  /\ \E v \in 0..MaxVersion :
       /\ behind = {} \/ (v > 0 /\ behind = {"android"})
       /\ told = [k \in FeedKinds |-> v]
       /\ feed = [k \in FeedKinds |-> IF k \in behind THEN Empty
                   ELSE [manifest |-> v, package |-> [w \in Versions |-> IF w = v THEN "whole" ELSE "none"]]]
  /\ staging = [k \in FeedKinds |-> Empty]
  /\ pushes = {} /\ tangled = [k \in FeedKinds |-> FALSE]
  /\ pushing = [pushes |-> MaxPushes, deaths |-> MaxDeaths]

OfKind(k) == {p \in pushes : p.kind = k}
PushMoves(p, at) == pushes' = (pushes \ {p}) \cup {[p EXCEPT !.at = at]}
PushEnds(p) == pushes' = pushes \ {p}

Begins(p) ==
  /\ pushing.pushes > 0 /\ Cardinality(pushes) < MaxPublish /\ p \notin pushes
  /\ pushes' = pushes \cup {p}
  /\ tangled' = [tangled EXCEPT ![p.kind] = @ \/ OfKind(p.kind) # {}]
  /\ pushing' = [pushing EXCEPT !.pushes = @ - 1]

-----------------------------------------------------------------------------
(* Uploads.                                                                 *)

UploadManifest(k, v) ==
  /\ pushing.pushes > 0 /\ pushing' = [pushing EXCEPT !.pushes = @ - 1]
  /\ staging' = [staging EXCEPT ![k].manifest = v]
  /\ tangled' = [tangled EXCEPT ![k] = @ \/ OfKind(k) # {}]
  /\ UNCHANGED <<feed, pushes, told, behind>>

\* The stream truncates what was there.
UploadPackage(k, v) ==
  /\ Begins([op |-> "upload", kind |-> k, version |-> v, at |-> "started"])
  /\ staging' = [staging EXCEPT ![k].package[v] = "part"]
  /\ UNCHANGED <<feed, told, behind>>

\* A staging directory cleared in the meantime has taken the file with it.
UploadEnds(p) ==
  /\ p.op = "upload"
  /\ staging' = [staging EXCEPT ![p.kind].package[p.version] = IF @ = "none" THEN @ ELSE "whole"]
  /\ PushEnds(p)
  /\ UNCHANGED <<feed, told, tangled, behind, pushing>>

KeepStaging(k) == staging
Cleared(k) == [staging EXCEPT ![k] = Empty]

UploadFails(p) ==
  /\ p.op = "upload"
  /\ pushing.deaths > 0 /\ pushing' = [pushing EXCEPT !.deaths = @ - 1]
  /\ staging' = Cleared(p.kind)
  /\ PushEnds(p)
  /\ UNCHANGED <<feed, told, tangled, behind>>

Discard(k) ==
  /\ pushing.pushes > 0 /\ pushing' = [pushing EXCEPT !.pushes = @ - 1]
  /\ staging' = Cleared(k)
  /\ tangled' = [tangled EXCEPT ![k] = @ \/ OfKind(k) # {}]
  /\ UNCHANGED <<feed, pushes, told, behind>>

-----------------------------------------------------------------------------
(* Publishing.                                                              *)

AnyVersion(k, v) == TRUE
Newer(k, v) == v > feed[k].manifest

SizeUnread(k, v) == staging[k].package[v] # "none"
\* The desktop publish looks whether the package is there, the Android one
\* whether it is the one the manifest was made for.
Complete(k, v) ==
  staging[k].package[v] \in (IF k = "android" THEN {"whole"} ELSE {"whole", "part"})

RequestPublish(k, v) ==
  /\ v = staging[k].manifest /\ Complete(k, v) /\ Newer(k, v)
  /\ Begins([op |-> "publish", kind |-> k, version |-> v, at |-> "checked"])
  /\ UNCHANGED <<feed, staging, told, behind>>

\* Desktop: whatever files the source directory holds by now, the manifest first.
CopyManifest(p) ==
  /\ p.kind = "desktop" /\ p.at = "checked" /\ staging[p.kind].manifest # 0
  /\ feed' = [feed EXCEPT ![p.kind].manifest = staging[p.kind].manifest]
  /\ PushMoves(p, "named")
  /\ UNCHANGED <<staging, told, tangled, behind, pushing>>

CopyPackage(p) ==
  /\ p.kind = "desktop" /\ p.at = "named" /\ staging[p.kind].package[p.version] # "none"
  /\ feed' = [feed EXCEPT ![p.kind].package[p.version] = "part"]
  /\ PushMoves(p, "copying")
  /\ UNCHANGED <<staging, told, tangled, behind, pushing>>

CopyEnds(p) ==
  /\ p.at = "copying" /\ staging[p.kind].package[p.version] # "none"
  /\ feed' = [feed EXCEPT ![p.kind].package[p.version] = staging[p.kind].package[p.version]]
  /\ PushMoves(p, "carried")
  /\ UNCHANGED <<staging, told, tangled, behind, pushing>>

\* Android: the feed is emptied, the package moved in, and then the manifest
\* written as it was checked.
EmptyFeed(p) ==
  /\ p.kind = "android" /\ p.at = "checked"
  /\ feed' = [feed EXCEPT ![p.kind] = Empty]
  /\ PushMoves(p, "cleared")
  /\ UNCHANGED <<staging, told, tangled, behind, pushing>>

PackageLater(p) == feed' = [feed EXCEPT ![p.kind].manifest = p.version] /\ UNCHANGED staging
PackageFirst(p) ==
  /\ feed' = [feed EXCEPT ![p.kind].package[p.version] = staging[p.kind].package[p.version]]
  /\ staging' = [staging EXCEPT ![p.kind].package[p.version] = "none"]

MovePackage(p) ==
  /\ p.at = "cleared" /\ staging[p.kind].package[p.version] # "none"
  /\ PackageFirst(p)
  /\ PushMoves(p, "named")
  /\ UNCHANGED <<told, tangled, behind, pushing>>

WriteManifest(p) ==
  /\ p.kind = "android" /\ p.at = "named"
  /\ feed' = [feed EXCEPT ![p.kind].manifest = p.version]
  /\ PushMoves(p, "carried")
  /\ UNCHANGED <<staging, told, tangled, behind, pushing>>

\* What is announced is what the feed now says.
AnnounceFeed(p) ==
  /\ p.at = "carried"
  /\ staging' = Cleared(p.kind)
  /\ told' = [told EXCEPT ![p.kind] = feed[p.kind].manifest]
  /\ behind' = behind \ {p.kind}
  /\ PushEnds(p)
  /\ UNCHANGED <<feed, tangled, pushing>>

\* A file that has gone from staging stops the publish where it is.
PublishFails(p) ==
  /\ p.op = "publish"
  /\ \/ p.at = "checked" /\ p.kind = "desktop" /\ staging[p.kind].manifest = 0
     \/ p.at \in {"cleared", "copying"} /\ staging[p.kind].package[p.version] = "none"
     \/ p.at = "named" /\ p.kind = "desktop" /\ staging[p.kind].package[p.version] = "none"
  /\ PushEnds(p)
  /\ UNCHANGED <<feed, staging, told, tangled, behind, pushing>>

CutShort ==
  /\ pushing.deaths > 0 /\ pushes # {}
  /\ pushing' = [pushing EXCEPT !.deaths = @ - 1]
  /\ pushes' = {}
  /\ tangled' = [k \in FeedKinds |-> tangled[k] \/ (k = "desktop" /\ OfKind(k) # {})]
  /\ behind' = behind \cup {k \in FeedKinds : feed[k].manifest < told[k]}
  /\ UNCHANGED <<feed, staging, told>>

Publishing(p) ==
  \/ CopyManifest(p) \/ CopyPackage(p) \/ CopyEnds(p)
  \/ EmptyFeed(p) \/ MovePackage(p) \/ WriteManifest(p)
  \/ AnnounceFeed(p) \/ PublishFails(p)

FeedsNext ==
  \/ \E k \in FeedKinds, v \in Versions : UploadManifest(k, v) \/ UploadPackage(k, v) \/ RequestPublish(k, v)
  \/ \E k \in FeedKinds : Discard(k)
  \/ \E p \in pushes : UploadEnds(p) \/ UploadFails(p) \/ Publishing(p)
  \/ CutShort

FeedsSpec == FeedsInit /\ [][FeedsNext]_feedsVars

-----------------------------------------------------------------------------
(* Properties.                                                              *)

\* One publish at a time: a client that reads the Android feed at any moment,
\* crashes included, finds the package its manifest names, whole; the desktop
\* feed is whole whenever no publish is on its way and none was cut short.
TheNamedIsThere ==
  \A k \in FeedKinds :
    /\ ~tangled[k] /\ (k = "android" \/ OfKind(k) = {}) /\ feed[k].manifest # 0
    => feed[k].package[feed[k].manifest] = "whole"

\* The same, with what the server keeps typed.
AdvertisedIsThere == FeedsTypeOK /\ TheNamedIsThere

\* One publish at a time, no feed goes back to an older version, and no client
\* is told of one: except of what is published first after a restart that has
\* left the Android feed emptied, with nothing to be newer than.
VersionsRise ==
  [][\A k \in FeedKinds :
       ~tangled'[k] =>
         /\ feed'[k].manifest \in {0} \cup feed[k].manifest..MaxVersion
         /\ k = "desktop" => feed'[k].manifest >= feed[k].manifest
         /\ k \in behind \/ told'[k] >= told[k]]_feedsVars

\* The files agree with each other before they reach anybody.  [a restart, or an
\* upload still running, between the manifest and the package]
DesktopFeedAgrees ==
  pushes = {} /\ feed["desktop"].manifest # 0 =>
    feed["desktop"].package[feed["desktop"].manifest] = "whole"
=============================================================================
