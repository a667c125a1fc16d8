------------------------------- MODULE RateLimit --------------------------------
(******************************************************************************)
(* The token buckets of packages/auth/src/ratelimit.ts: one per action and    *)
(* address, in the memory of the process.  A token is counted in Whole parts, *)
(* of which the passing of a tick gives back Refill.                          *)
(******************************************************************************)
EXTENDS Naturals, FiniteSets

CONSTANTS
  Ids,       \* "action:key" of the rules there are
  Capacity,  \* rule.capacity
  Refill,    \* rule.refillPerSecond, in parts of a token
  Whole,     \* the parts of a token
  LastTick   \* bound: ticks

RateLimitAssumption ==
  /\ {Capacity, Refill, Whole, LastTick} \subseteq Nat /\ Whole > 0

VARIABLES
  buckets,  \* Map of id to bucket; no bucket yet is a full one
  clock,    \* epochMillis()
  allowed   \* history: how often take() has said yes since each tick began

rateVars == <<buckets, clock, allowed>>

RateInit ==
  /\ buckets = [i \in Ids |-> [tokens |-> Capacity * Whole, updated |-> 0]]
  /\ clock = 0
  /\ allowed = [i \in Ids |-> [t \in 0..LastTick |-> 0]]

\* Mutant: what comes back is not cut at the capacity.
RefilledPast(i) == buckets[i].tokens + (clock - buckets[i].updated) * Refill

\* What the bucket holds now.
Refilled(i) ==
  LET sum == buckets[i].tokens + (clock - buckets[i].updated) * Refill
  IN  IF sum < Capacity * Whole THEN sum ELSE Capacity * Whole

\* take(), allowed and refused; the bucket is written either way.
TakeAllowed(i) ==
  /\ Refilled(i) >= Whole
  /\ buckets' = [buckets EXCEPT ![i] = [tokens |-> Refilled(i) - Whole, updated |-> clock]]
  /\ allowed' = [allowed EXCEPT ![i] =
                   [t \in 0..LastTick |-> IF t <= clock THEN @[t] + 1 ELSE @[t]]]
  /\ UNCHANGED clock

TakeRefused(i) ==
  /\ Refilled(i) < Whole
  /\ buckets' = [buckets EXCEPT ![i] = [tokens |-> Refilled(i), updated |-> clock]]
  /\ UNCHANGED <<clock, allowed>>

Pass == clock < LastTick /\ clock' = clock + 1 /\ UNCHANGED <<buckets, allowed>>

RateNext == Pass \/ \E i \in Ids : TakeAllowed(i) \/ TakeRefused(i)

RateSpec == RateInit /\ [][RateNext]_rateVars

\* However attempts are spread, those let through for one id since any tick are at most the
\* capacity and what came back meanwhile, and so in every stretch of time, at its end: idle
\* time is not saved up beyond the capacity (ratelimit.ts, take).
Throttled ==
  \A i \in Ids : \A from \in 0..clock :
    allowed[i][from] * Whole <= Capacity * Whole + (clock - from) * Refill
================================================================================
