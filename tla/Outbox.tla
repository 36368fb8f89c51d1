------------------------------- MODULE Outbox -------------------------------
(* What an outbox of messages promises to those who put messages in it and   *)
(* to those they are sent to.  A message is settled only after its receiver  *)
(* has accepted it, and then neither owed nor sent again.  A receiver sees a *)
(* message it has accepted again only if a fault has been spent on it:       *)
(* nobody accepts a message more often than there were faults, plus once.    *)
EXTENDS Integers

CONSTANT Messages

VARIABLES
    stage,   \* "new", "owed", "settled" or "dropped", by message
    taken,   \* how often its receiver has accepted each message
    faults   \* faults so far

Init == /\ stage = [m \in Messages |-> "new"]
        /\ taken = [m \in Messages |-> 0]
        /\ faults = 0

\* Several messages may be put into the outbox, or taken out of it, at once.
Move(set, to) == /\ stage' = [m \in Messages |-> IF m \in set THEN to ELSE stage[m]]
                 /\ UNCHANGED <<taken, faults>>

Put(set) == (\A m \in set : stage[m] = "new") /\ Move(set, "owed")

Drop(set) == (\A m \in set : stage[m] \in {"owed", "settled"}) /\ Move(set, "dropped")

Settle(m) == stage[m] = "owed" /\ taken[m] > 0 /\ Move({m}, "settled")

\* A message that is dropped may already be on its way.  An acceptance the
\* sender does not hear of is a fault.
Accept(m) == /\ stage[m] \in {"owed", "dropped"}
             /\ taken[m] <= faults
             /\ taken' = [taken EXCEPT ![m] = @ + 1]
             /\ faults' \in {faults, faults + 1}
             /\ UNCHANGED stage

Fail == faults' = faults + 1 /\ UNCHANGED <<stage, taken>>

Next == \/ \E set \in SUBSET Messages : Put(set) \/ Drop(set)
        \/ \E m \in Messages : Settle(m) \/ Accept(m)
        \/ Fail

Spec == Init /\ [][Next]_<<stage, taken, faults>>
=============================================================================
