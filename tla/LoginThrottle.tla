---------------------------- MODULE LoginThrottle ----------------------------
(***************************************************************************)
(* The limiter in front of sign-in and sign-up: one address, its failures   *)
(* within the window, and the requests it has open.  An attempt is checked  *)
(* when it arrives and charged when its answer finishes.                    *)
(*                                                                          *)
(* PruneNothing, LateByOne and ChargeOnly are plausible bugs of the         *)
(* definition that follows each.                                            *)
(***************************************************************************)
EXTENDS Naturals, Sequences, SequencesExt

CONSTANTS
  Limit,     \* failures allowed within the window
  Window,    \* windowMs, in ticks
  MaxOpen,   \* bound on attempts open at once
  MaxTicks   \* bound on time

ThrottleAssumption ==
  {Limit, Window, MaxOpen, MaxTicks} \subseteq Nat /\ Limit > 0 /\ Window > 0

VARIABLES
  ticks,     \* Date.now()
  hits,      \* failures kept for the address, oldest first
  attempts,  \* attempts let in and not answered yet
  failures,  \* read by properties only: every failure charged since the last success
  promised   \* read by properties only: when a refused attempt was told to come back, 0 for none

throttleVars == <<ticks, hits, attempts, failures, promised>>

TypeOK ==
  /\ ticks \in 1..MaxTicks /\ attempts \in 0..MaxOpen
  /\ hits \in Seq(1..MaxTicks) /\ failures \in Seq(1..MaxTicks)
  /\ promised \in 0..MaxTicks + Window

Init == ticks = 1 /\ hits = <<>> /\ attempts = 0 /\ failures = <<>> /\ promised = 0

\* Those within the window, whatever is kept: a failure counts while it is younger.
Within(s) == SelectSeq(s, LAMBDA t : t + Window > ticks)

PruneNothing(s) == s
LateByOne(s) == SelectSeq(s, LAMBDA t : t + Window + 1 > ticks)
Kept(s) == Within(s)

LetIn ==
  /\ Len(Kept(hits)) < Limit /\ attempts < MaxOpen
  /\ hits' = Kept(hits) /\ attempts' = attempts + 1
  /\ UNCHANGED <<ticks, failures, promised>>

\* 429, with the moment the oldest failure that counts stops counting.
Refuse ==
  /\ Len(Kept(hits)) >= Limit
  /\ hits' = Kept(hits)
  /\ promised' = Head(Kept(hits)) + Window
  /\ UNCHANGED <<ticks, attempts, failures>>

Fail ==
  /\ attempts > 0 /\ attempts' = attempts - 1
  /\ hits' = Append(Kept(hits), ticks)
  /\ failures' = Append(Within(failures), ticks) /\ promised' = 0
  /\ UNCHANGED ticks

ChargeOnly == hits
Forgotten == <<>>

Succeed ==
  /\ attempts > 0 /\ attempts' = attempts - 1
  /\ hits' = Forgotten /\ failures' = <<>> /\ promised' = 0
  /\ UNCHANGED ticks

\* A server error charges nothing.
Neither ==
  /\ attempts > 0 /\ attempts' = attempts - 1
  /\ UNCHANGED <<ticks, hits, failures, promised>>

Tick == ticks < MaxTicks /\ ticks' = ticks + 1 /\ UNCHANGED <<hits, attempts, failures, promised>>

Next == LetIn \/ Refuse \/ Fail \/ Succeed \/ Neither \/ Tick
Spec == Init /\ [][Next]_throttleVars

-----------------------------------------------------------------------------
\* What is charged is what failed within the window since the last success; it
\* and the attempts still open never exceed the limit by as much as may be open
\* at once.  [checked on arrival, charged on finishing]
FailuresAreBounded ==
  /\ Within(hits) = Within(failures)
  /\ attempts > 0 \/ hits # <<>> => Len(Within(hits)) + attempts <= Limit + MaxOpen - 1

\* Whoever comes back when told to is let in, if nothing else failed since and
\* the limit was not overrun by attempts that were open together.
PromiseHolds ==
  promised # 0 /\ ticks >= promised /\ Len(failures) <= Limit => Len(Kept(hits)) < Limit
=============================================================================
