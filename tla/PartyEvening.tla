----------------------------- MODULE PartyEvening -----------------------------
(***************************************************************************)
(* What a server's members are promised of a watch party: somebody opens    *)
(* it and holds the remote, people come and go, the remote is handed on     *)
(* only when its holder goes, to somebody who is there, and the evening is  *)
(* over when nobody is left.  Windows, requests, queues and the database    *)
(* are not in sight.  Users may not be equal to Nobody.                     *)
(***************************************************************************)
CONSTANTS Users, Guilds, Nobody

VARIABLES
  present,  \* who is at each server's party
  host      \* who holds its remote

vars == <<present, host>>

Init ==
  /\ present = [g \in Guilds |-> {}]
  /\ host = [g \in Guilds |-> Nobody]

Opens(u, g) ==
  /\ present[g] = {}
  /\ present' = [present EXCEPT ![g] = {u}]
  /\ host' = [host EXCEPT ![g] = u]

Arrives(u, g) ==
  /\ present[g] # {}
  /\ present' = [present EXCEPT ![g] = @ \cup {u}]
  /\ UNCHANGED host

\* The remote stays where it is unless its holder is the one who goes.
HandedOn(g, u) ==
  IF present[g] = {u} THEN host'[g] = Nobody
  ELSE IF host[g] = u THEN host'[g] \in present[g] \ {u}
  ELSE host'[g] = host[g]

\* Somebody goes, from one party or from all of them at once.
Goes(u, from) ==
  /\ \A g \in from : u \in present[g]
  /\ present' = [g \in Guilds |-> IF g \in from THEN present[g] \ {u} ELSE present[g]]
  /\ host' \in [Guilds -> Users \cup {Nobody}]
  /\ \A g \in Guilds : IF g \in from THEN HandedOn(g, u) ELSE host'[g] = host[g]

EverythingEnds ==
  /\ present' = [g \in Guilds |-> {}]
  /\ host' = [g \in Guilds |-> Nobody]

Next ==
  \/ \E u \in Users, g \in Guilds : Opens(u, g) \/ Arrives(u, g)
  \/ \E u \in Users, from \in SUBSET Guilds : Goes(u, from)
  \/ EverythingEnds

Spec == Init /\ [][Next]_vars
=============================================================================
