------------------------------- MODULE Webhooks -------------------------------
(* Outbound webhooks: the registry (internal/webhooks/service.go), the queue *)
(* of deliveries (internal/database/webhooks.go) and the dispatcher that     *)
(* drains it (internal/webhooks/dispatcher.go).                              *)
(*                                                                           *)
(* next_attempt_at only orders deliveries and keeps them back for a while,   *)
(* so the queue is modelled by the sequence `line' of the deliveries that    *)
(* are due, in the order in which they became due; a pending delivery that   *)
(* is not in line is waiting for its backoff to pass.  The deliveries of a   *)
(* batch are taken one after the other: POST, then record the outcome.       *)
(*                                                                           *)
(* What every module has (the type invariant, Init, Next and the             *)
(* specification) is named after the webhooks, so that ServerProofs can      *)
(* extend this module together with Admission and RateLimiter.               *)
EXTENDS Integers, FiniteSets, SequencesExt

CONSTANTS
    Hooks,        \* bound: webhook ids
    Deliveries,   \* bound: delivery ids
    Urls,         \* endpoint addresses
    Dispatchers,  \* server processes, each with one dispatcher goroutine
    Updaters,     \* concurrent update requests
    MaxAttempts,  \* webhook_deliveries.max_attempts
    Limit,        \* defaultDispatchLimit
    MaxFaults     \* bound: store errors, crashes and acceptances that the
                  \* dispatcher does not hear of, in a behaviour

ASSUME BoundAssumption == /\ IsFiniteSet(Hooks) /\ IsFiniteSet(Deliveries)
                          /\ MaxAttempts \in Nat \ {0}
                          /\ Limit \in Nat \ {0}
                          /\ MaxFaults \in Nat

VARIABLES
    hook,      \* webhooks by id
    delivery,  \* webhook_deliveries by id
    line,      \* the due deliveries in order of next_attempt_at
    update,    \* update requests between their read and their write
    batch,     \* DispatchOnce: the listed deliveries still to be attempted
    posted,    \* deliverOne: outcome of the POST of the first of them
    faults,    \* faults injected so far
    attempted, \* history: POSTs made of each delivery, counted up to a cap
    accepted   \* history: how often its endpoint accepted each, up to a cap

hookVars == <<hook, delivery, line, update, batch, posted, faults,
              attempted, accepted>>
queue == <<delivery, line>>
working == <<batch, posted>>
history == <<attempted, accepted>>

Unused == [row |-> "unused"]   \* an id not handed out yet
Deleted == [row |-> "deleted"]
NoUpdate == [pc |-> "idle"]
NotPosted == "none"

\* A field of an update request: left out, or one value.
Optional(S) == {{}} \cup {{v} : v \in S}

AttemptCap == MaxAttempts + 1
AcceptCap == MaxFaults + 2

HookRows == [url : Urls, active : BOOLEAN]
DeliveryRows == [hook : Hooks, status : {"pending", "failed", "delivered"},
                 attempts : 0..MaxAttempts]
Listed == [id : Deliveries, attempts : 0..MaxAttempts]

WebhooksTypeOK ==
    /\ hook \in [Hooks -> HookRows \cup {Unused, Deleted}]
    /\ delivery \in [Deliveries -> DeliveryRows \cup {Unused, Deleted}]
    /\ line \in Seq(Deliveries)
    /\ update \in [Updaters -> {NoUpdate} \cup
                   [hook : Hooks, read : HookRows,
                    url : Optional(Urls), active : Optional(BOOLEAN)]]
    /\ batch \in [Dispatchers -> Seq(Listed)]
    /\ posted \in [Dispatchers -> {NotPosted, "ok", "bad"}]
    /\ faults \in 0..MaxFaults
    /\ attempted \in [Deliveries -> 0..AttemptCap]
    /\ accepted \in [Deliveries -> 0..AcceptCap]

WebhooksInit ==
    /\ hook = [w \in Hooks |-> Unused]
    /\ delivery = [d \in Deliveries |-> Unused]
    /\ line = <<>>
    /\ update = [c \in Updaters |-> NoUpdate]
    /\ batch = [p \in Dispatchers |-> <<>>]
    /\ posted = [p \in Dispatchers |-> NotPosted]
    /\ faults = 0
    /\ attempted = [d \in Deliveries |-> 0]
    /\ accepted = [d \in Deliveries |-> 0]

Exists(r) == r \notin {Unused, Deleted}
Capped(n, cap) == IF n > cap THEN cap ELSE n

\* The elements of sequence s that are in S, in their order: SelectSeq, written
\* as a function on the lengths of prefixes, which proofs can reason about.
Among(s, S) ==
    LET kept[n \in 0..Len(s)] ==
            IF n = 0 THEN <<>>
            ELSE IF s[n] \in S THEN Append(kept[n - 1], s[n])
            ELSE kept[n - 1]
    IN  kept[Len(s)]

Fault == faults < MaxFaults /\ faults' = faults + 1

-----------------------------------------------------------------------------
(* The registry.  Membership and URL validation reject a request before it   *)
(* changes anything.  An update writes back the whole row it has read.       *)

Create(w, u) ==
    /\ hook[w] = Unused
    /\ hook' = [hook EXCEPT ![w] = [url |-> u, active |-> TRUE]]
    /\ UNCHANGED <<queue, update, working, faults, history>>

UpdateRead(c, w, u, a) ==
    /\ update[c] = NoUpdate
    /\ Exists(hook[w])
    /\ update' = [update EXCEPT ![c] = [hook |-> w, read |-> hook[w],
                                        url |-> u, active |-> a]]
    /\ UNCHANGED <<hook, queue, working, faults, history>>

Given(new, old) == IF new = {} THEN old ELSE CHOOSE v \in new : TRUE

\* WebhookRepository.Update fails, changing nothing, if the row is gone.
UpdateWrite(c) ==
    /\ update[c] # NoUpdate
    /\ IF Exists(hook[update[c].hook])
       THEN hook' = [hook EXCEPT ![update[c].hook] =
                        [url |-> Given(update[c].url, update[c].read.url),
                         active |-> Given(update[c].active, update[c].read.active)]]
       ELSE UNCHANGED hook
    /\ update' = [update EXCEPT ![c] = NoUpdate]
    /\ UNCHANGED <<queue, working, faults, history>>

UpdateFails(c) ==
    /\ update[c] # NoUpdate
    /\ Fault
    /\ update' = [update EXCEPT ![c] = NoUpdate]
    /\ UNCHANGED <<hook, queue, working, history>>

\* Deleting a webhook deletes its deliveries (ON DELETE CASCADE).
Delete(w) ==
    /\ Exists(hook[w])
    /\ hook' = [hook EXCEPT ![w] = Deleted]
    /\ delivery' = [d \in Deliveries |->
                       IF Exists(delivery[d]) /\ delivery[d].hook = w
                       THEN Deleted ELSE delivery[d]]
    /\ line' = Among(line, {d \in Deliveries : Exists(delivery'[d])})
    /\ UNCHANGED <<update, working, faults, history>>

-----------------------------------------------------------------------------
(* Enqueuing: one statement inserts all deliveries of an event.              *)

\* Mutant: a delivery is enqueued with its budget already exceeded.
Fresh_Attempts(w) ==
    [hook |-> w, status |-> "pending", attempts |-> MaxAttempts + 1]

Fresh(w) == [hook |-> w, status |-> "pending", attempts |-> 0]

\* Ping enqueues for one webhook, active or not.
Ping(w, d) ==
    /\ Exists(hook[w])
    /\ delivery[d] = Unused
    /\ delivery' = [delivery EXCEPT ![d] = Fresh(w)]
    /\ line' = Append(line, d)
    /\ UNCHANGED <<hook, update, working, faults, history>>

\* Emit enqueues for every active webhook; the ids are handed out in any order.
Emit(ids) ==
    LET active == {w \in Hooks : Exists(hook[w]) /\ hook[w].active} IN
    /\ active # {}
    /\ ids \subseteq {d \in Deliveries : delivery[d] = Unused}
    /\ Cardinality(ids) = Cardinality(active)
    /\ \E order \in SetToSeqs(ids), targets \in SetToSeqs(active) :
          /\ delivery' = [d \in Deliveries |->
                IF d \in ids
                THEN Fresh(targets[CHOOSE k \in DOMAIN order : order[k] = d])
                ELSE delivery[d]]
          /\ line' = line \o order
    /\ UNCHANGED <<hook, update, working, faults, history>>

-----------------------------------------------------------------------------
(* The dispatcher.                                                           *)

\* WebhookRepository.ListDue, up to its LIMIT.
Due == Among(line, {d \in Deliveries : /\ Exists(delivery[d])
                                       /\ hook[delivery[d].hook].active})

\* Mutant: a tick does not wait for the batch of the tick before.
List_Overlapping(p) ==
    /\ posted[p] = NotPosted /\ Len(batch[p]) < 2
    /\ Due # <<>>
    /\ batch' = [batch EXCEPT ![p] = @ \o
          [k \in 1..Capped(Len(Due), Limit) |->
              [id |-> Due[k], attempts |-> delivery[Due[k]].attempts]]]
    /\ UNCHANGED <<hook, queue, update, posted, faults, history>>

Snapshot(n) == [k \in 1..n |-> [id |-> Due[k], attempts |-> delivery[Due[k]].attempts]]

List(p) ==
    /\ batch[p] = <<>>
    /\ Due # <<>>
    /\ batch' = [batch EXCEPT ![p] = Snapshot(Capped(Len(Due), Limit))]
    /\ UNCHANGED <<hook, queue, update, posted, faults, history>>

\* The connection breaks while the rows are read: ListDue never looks at
\* rows.Err, so what was read so far passes for the whole list.
ListBreaks(p) ==
    /\ batch[p] = <<>>
    /\ Fault
    /\ \E n \in 0..(Capped(Len(Due), Limit) - 1) :
          batch' = [batch EXCEPT ![p] = Snapshot(n)]
    /\ UNCHANGED <<hook, queue, update, posted, history>>

InHand(p, d) == batch[p] # <<>> /\ Head(batch[p]).id = d

\* A POST uses what was listed, even if the webhook has been changed or deleted
\* since.  taken: the endpoint accepts it.
Send(p, d, answer, taken) ==
    /\ InHand(p, d) /\ posted[p] = NotPosted
    /\ posted' = [posted EXCEPT ![p] = answer]
    /\ attempted' = [attempted EXCEPT ![d] = Capped(@ + 1, AttemptCap)]
    /\ accepted' = [accepted EXCEPT ![d] = IF taken THEN Capped(@ + 1, AcceptCap) ELSE @]
    /\ UNCHANGED <<hook, queue, update, batch>>

\* The endpoint answers 2xx, or does not accept.  An envelope or a request that
\* cannot be built counts as a failed answer.
Post(p, d, answer) == Send(p, d, answer, answer = "ok") /\ faults' = faults

\* The endpoint accepts, but its answer is lost or comes after the timeout of
\* the client: to the dispatcher the attempt has failed.
PostUnheard(p, d) == Send(p, d, "bad", TRUE) /\ Fault

Done(p) ==
    /\ batch' = [batch EXCEPT ![p] = Tail(@)]
    /\ posted' = [posted EXCEPT ![p] = NotPosted]

\* Mutant: any answer counts as an acceptance.
MarkDelivered_AnyAnswer(p, d) ==
    /\ InHand(p, d) /\ posted[p] # NotPosted
    /\ Done(p)
    /\ IF Exists(delivery[d])
       THEN /\ delivery' = [delivery EXCEPT ![d].status = "delivered"]
            /\ line' = Among(line, Deliveries \ {d})
       ELSE UNCHANGED queue
    /\ UNCHANGED <<hook, update, faults, history>>

\* A delivery deleted meanwhile is not found, which is only logged.
MarkDelivered(p, d) ==
    /\ InHand(p, d) /\ posted[p] = "ok"
    /\ Done(p)
    /\ IF Exists(delivery[d])
       THEN /\ delivery' = [delivery EXCEPT ![d].status = "delivered"]
            /\ line' = Among(line, Deliveries \ {d})
       ELSE UNCHANGED queue
    /\ UNCHANGED <<hook, update, faults, history>>

\* fail(): the decision uses the LISTED number of attempts.
Exhausted(p) == Head(batch[p]).attempts + 1 >= MaxAttempts

\* Mutant: a failed attempt leaves next_attempt_at as it was.
MarkFailed_KeepsDueTime(p, d) ==
    /\ InHand(p, d) /\ posted[p] = "bad"
    /\ Done(p)
    /\ IF Exists(delivery[d])
       THEN /\ delivery' = [delivery EXCEPT
                   ![d].status = IF Exhausted(p) THEN "failed" ELSE "pending",
                   ![d].attempts = Capped(@ + 1, MaxAttempts)]
            /\ UNCHANGED line
       ELSE UNCHANGED queue
    /\ UNCHANGED <<hook, update, faults, history>>

MarkFailed(p, d) ==
    /\ InHand(p, d) /\ posted[p] = "bad"
    /\ Done(p)
    /\ IF Exists(delivery[d])
       THEN /\ delivery' = [delivery EXCEPT
                   ![d].status = IF Exhausted(p) THEN "failed" ELSE "pending",
                   ![d].attempts = Capped(@ + 1, MaxAttempts)]
            /\ line' = IF Exhausted(p) THEN Append(Among(line, Deliveries \ {d}), d)
                                       ELSE Among(line, Deliveries \ {d})
       ELSE UNCHANGED queue
    /\ UNCHANGED <<hook, update, faults, history>>

\* The outcome cannot be recorded: the row stays as it was.
MarkFails(p) ==
    /\ posted[p] # NotPosted
    /\ Fault
    /\ Done(p)
    /\ UNCHANGED <<hook, queue, update, history>>

Waiting(d) == /\ Exists(delivery[d]) /\ delivery[d].status = "pending"
              /\ ~Contains(line, d)

BackoffPasses(d) ==
    /\ Waiting(d)
    /\ line' = Append(line, d)
    /\ UNCHANGED <<hook, delivery, update, working, faults, history>>

Crash(p) ==
    /\ batch[p] # <<>>
    /\ Fault
    /\ batch' = [batch EXCEPT ![p] = <<>>]
    /\ posted' = [posted EXCEPT ![p] = NotPosted]
    /\ UNCHANGED <<hook, queue, update, history>>

Work(p) ==
    \/ List(p)
    \/ \E d \in Deliveries :
          \/ \E answer \in {"ok", "bad"} : Post(p, d, answer)
          \/ MarkDelivered(p, d) \/ MarkFailed(p, d)

Breaks(p) == \/ ListBreaks(p) \/ MarkFails(p) \/ Crash(p)
             \/ \E d \in Deliveries : PostUnheard(p, d)

WebhooksNext ==
    \/ \E w \in Hooks, u \in Urls : Create(w, u)
    \/ \E c \in Updaters, w \in Hooks, u \in Optional(Urls),
          a \in Optional(BOOLEAN) : UpdateRead(c, w, u, a)
    \/ \E c \in Updaters : UpdateWrite(c) \/ UpdateFails(c)
    \/ \E w \in Hooks : Delete(w)
    \/ \E w \in Hooks, d \in Deliveries : Ping(w, d)
    \/ \E ids \in SUBSET Deliveries : Emit(ids)
    \/ \E p \in Dispatchers : Work(p) \/ Breaks(p)
    \/ \E d \in Deliveries : BackoffPasses(d)

WebhooksSpec == WebhooksInit /\ [][WebhooksNext]_hookVars

\* The dispatcher keeps ticking and every POST ends within its timeout, but an
\* endpoint need never accept anything.
WebhooksFairSpec ==
    /\ WebhooksSpec
    /\ \A p \in Dispatchers : WF_hookVars(Work(p))
    /\ \A d \in Deliveries : WF_hookVars(BackoffPasses(d))

-----------------------------------------------------------------------------
(* Properties.                                                               *)

\* A lone dispatcher repeats an accepted delivery only after a fault: an
\* acceptance it did not hear of in time, a lost record of the outcome, or a
\* crash between the POST and the record.
DuplicatesNeedFaults == \A d \in Deliveries : accepted[d] <= faults + 1

\* A delivered delivery is never put back in the queue.
DeliveredIsFinal ==
    [][\A d \in Deliveries :
          Exists(delivery[d]) /\ delivery[d].status = "delivered" =>
              delivery'[d] = Deleted \/ delivery'[d].status = "delivered"]_hookVars

\* How far a delivery has come: a failed one is still attempted, so still owed.
Stage(row) ==
    CASE row = Unused -> "new"
      [] row = Deleted -> "dropped"
      [] Exists(row) /\ row.status = "delivered" -> "settled"
      [] OTHER -> "owed"

Promised == INSTANCE Outbox WITH
    Messages <- Deliveries,
    stage <- [d \in Deliveries |-> Stage(delivery[d])],
    taken <- accepted

\* A lone dispatcher, with the registry and the queue, implements an outbox.
SendsAsPromised == Promised!Spec

\* No delivery counts as delivered unless its endpoint has accepted it.
DeliveredWasAccepted ==
    \A d \in Deliveries :
        Exists(delivery[d]) /\ delivery[d].status = "delivered" =>
            accepted[d] > 0

Owed(d) == /\ Exists(delivery[d]) /\ delivery[d].status = "pending"
           /\ hook[delivery[d].hook].active

\* A delivery that stays pending for an active webhook is attempted again and
\* again: neither a failing neighbour nor the LIMIT starves it.
KeepsTrying ==
    \A d \in Deliveries :
        <>[]Owed(d) => []<>(\E p \in Dispatchers : InHand(p, d))

\* "retries with exponential backoff until max_attempts is exhausted"
\* (dispatcher.go:35).
AttemptsWithinBudget == \A d \in Deliveries : attempted[d] <= MaxAttempts
=============================================================================
