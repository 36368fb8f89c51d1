----------------------------- MODULE TokenBudget -----------------------------
(* What a token bucket rate limiter promises: each key has a budget that     *)
(* grows by Gain with every unit of time, up to Cap, and every request that  *)
(* is served takes at least Cost from it.  In any T units of time a key is   *)
(* therefore served at most (Cap + T * Gain) \div Cost times.                *)
EXTENDS Integers

CONSTANTS Keys, Cap, Gain, Cost

VARIABLES
    level,   \* budget by key
    served   \* parity of the number of requests served, by key

Init == /\ level = [k \in Keys |-> Cap]
        /\ served = [k \in Keys |-> 0]

Grown(l) == IF l + Gain > Cap THEN Cap ELSE l + Gain

Pass == /\ level' = [k \in Keys |-> Grown(level[k])]
        /\ UNCHANGED served

Serve(k) == /\ \E l \in 0..(level[k] - Cost) : level' = [level EXCEPT ![k] = l]
            /\ served' = [served EXCEPT ![k] = 1 - @]

\* A limiter may be stricter than its budget.
Forfeit(k) == /\ \E l \in 0..level[k] : level' = [level EXCEPT ![k] = l]
              /\ UNCHANGED served

Next == Pass \/ \E k \in Keys : Serve(k) \/ Forfeit(k)

Spec == Init /\ [][Next]_<<level, served>>
=============================================================================
