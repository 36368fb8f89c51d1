----------------------------- MODULE RateLimiter -----------------------------
(* The in-memory rate limiter of internal/middleware/ratelimit.go.  All its  *)
(* steps run under one mutex, so they are atomic.  A visitor's lastSeen is   *)
(* kept as its age, the time since, in units that divide the interval; ages  *)
(* past the age at which cleanup deletes a visitor are not told apart.       *)
(*                                                                           *)
(* What every module has (the type invariant, Init, Next and the             *)
(* specification) is named after the limiter, so that ServerProofs can       *)
(* extend this module together with Admission.                               *)
EXTENDS Integers

CONSTANTS
    Keys,        \* API keys and remote addresses
    Rate, Burst, \* NewRateLimiter's rate and burst
    Interval,    \* NewRateLimiter's interval, in units of time
    CleanupAge   \* 30 minutes, in units of time

ASSUME ParameterAssumption == /\ Rate \in Nat \ {0}
                              /\ Burst \in Nat \ {0}
                              /\ Interval \in Nat \ {0}
                              /\ CleanupAge \in Nat

\* A visitor idle long enough to be deleted would have a full bucket anyway.
ASSUME CleanupAssumption == CleanupAge * Rate >= Burst * Interval

VARIABLES
    visitors,  \* by key
    served     \* history: parity of the number of requests let through, by key

limiterVars == <<visitors, served>>

Unseen == [seen |-> FALSE]   \* no entry in the map
MaxAge == CleanupAge + 1     \* bound: ages stop counting here

LimiterTypeOK ==
    /\ visitors \in [Keys -> [tokens : 0..Burst, age : 0..MaxAge] \cup {Unseen}]
    /\ served \in [Keys -> {0, 1}]

LimiterInit == /\ visitors = [k \in Keys |-> Unseen]
               /\ served = [k \in Keys |-> 0]

Known(k) == visitors[k] # Unseen

Refilled(k) ==
    LET t == visitors[k].tokens + (visitors[k].age \div Interval) * Rate
    IN IF t > Burst THEN Burst ELSE t

Visitor(t) == [tokens |-> t, age |-> 0]

Welcome(k) ==
    /\ ~Known(k)
    /\ visitors' = [visitors EXCEPT ![k] = Visitor(Burst - 1)]
    /\ served' = [served EXCEPT ![k] = 1 - @]

\* Mutant: a request that is let through does not restart the interval.
Grant_KeepsLastSeen(k) ==
    /\ Known(k) /\ Refilled(k) > 0
    /\ visitors' = [visitors EXCEPT ![k].tokens = Refilled(k) - 1]
    /\ served' = [served EXCEPT ![k] = 1 - @]

Grant(k) ==
    /\ Known(k) /\ Refilled(k) > 0
    /\ visitors' = [visitors EXCEPT ![k] = Visitor(Refilled(k) - 1)]
    /\ served' = [served EXCEPT ![k] = 1 - @]

\* Mutant: a refused request takes a token as well.
Refuse_TakesToken(k) ==
    /\ Known(k) /\ Refilled(k) <= 0
    /\ visitors' = [visitors EXCEPT ![k] = Visitor(Refilled(k) - 1)]
    /\ UNCHANGED served

\* A refused request restarts the interval, too.
Refuse(k) ==
    /\ Known(k) /\ Refilled(k) <= 0
    /\ visitors' = [visitors EXCEPT ![k] = Visitor(Refilled(k))]
    /\ UNCHANGED served

allow(k) == Welcome(k) \/ Grant(k) \/ Refuse(k)

\* The cleanup goroutine's sweep.
cleanup ==
    /\ visitors' = [k \in Keys |-> IF Known(k) /\ visitors[k].age > CleanupAge
                                   THEN Unseen ELSE visitors[k]]
    /\ UNCHANGED served

Older(v) == IF v = Unseen \/ v.age = MaxAge THEN v ELSE [v EXCEPT !.age = @ + 1]

Tick == /\ visitors' = [k \in Keys |-> Older(visitors[k])]
        /\ UNCHANGED served

LimiterNext == Tick \/ cleanup \/ \E k \in Keys : allow(k)

LimiterSpec == LimiterInit /\ [][LimiterNext]_limiterVars

\* Time passes, and every client keeps asking.
FairSpec == /\ LimiterSpec
            /\ WF_limiterVars(Tick)
            /\ \A k \in Keys : WF_limiterVars(allow(k))

-----------------------------------------------------------------------------
(* Properties.                                                               *)

\* The budget a key can still use: its tokens and what its age will refill.
Budget(v) ==
    IF v = Unseen \/ v.tokens * Interval + v.age * Rate > Burst * Interval
    THEN Burst * Interval
    ELSE v.tokens * Interval + v.age * Rate

Promise == INSTANCE TokenBudget WITH
    Cap <- Burst * Interval, Gain <- Rate, Cost <- Interval,
    level <- [k \in Keys |-> Budget(visitors[k])]

\* The limiter serves no key beyond its token budget, although it forgets
\* visitors and rounds the time since their last request.
WithinBudget == Promise!Spec

\* A client that waits for one interval is served, however often it was
\* refused before.
PauseIsEnough ==
    [][\A k \in Keys :
          (allow(k) /\ Known(k) /\ visitors[k].age >= Interval)
              => served'[k] # served[k]]_limiterVars

\* "Refill tokens at `rate` tokens per `interval`" (ratelimit.go:63): a client
\* that keeps asking is served again and again.
KeepsServing == \A k \in Keys : []<><<served'[k] # served[k]>>_limiterVars
=============================================================================
