------------------------------ MODULE Lifecycle ------------------------------
(* The compute lifecycle: the API requests of internal/compute/service.go,   *)
(* the reconciler of internal/compute/reconciler.go and the simulated        *)
(* provider of internal/compute/sim_provider.go, which share two tables with *)
(* no transaction between them: compute_instances (row) and provider_state   *)
(* (desired, elapsed).                                                       *)
(*                                                                           *)
(* A request is a process of one client: each of its store calls is a step   *)
(* of its own, so other requests and the reconciler run in between.  Its     *)
(* status check uses the row it read first.  Admission (membership, quota,   *)
(* capacity) is module Admission; audit and webhook emission are best-effort *)
(* and change neither table.                                                 *)
EXTENDS Integers, FiniteSets

CONSTANTS
    Instances,   \* provider ids; an id is fresh while neither table knows it
    Clients,     \* concurrent API requests
    Ops,         \* which requests the clients make
    FaultKinds,  \* which of Faults the environment may inject
    MaxFaults    \* bound: how many faults a behaviour may contain

None == "none"

Transient == {"pending", "stopping", "terminating"}
Settled == {"running", "stopped", "terminated"}
Statuses == Transient \cup Settled \cup {"failed"}
Desired == {"pending", "stopping", "terminated"}
Requests == {"create", "start", "stop", "terminate"}

(* error:   a store call fails without effect                                *)
(* late:    a store call takes effect but reports an error                   *)
(* cancel:  a request's context is cancelled, and with it every later call   *)
(* partial: a row listing breaks off early (the rows error is not read)      *)
(* loss:    the provider forgets an instance                                 *)
(* crash:   the server process dies and is restarted                         *)
Faults == {"error", "late", "cancel", "partial", "loss", "crash"}

\* A fault after which the code cannot know what has happened.
Harsh == {"late", "cancel", "crash"}

ASSUME OpsAssumption == Ops \subseteq Requests
ASSUME FaultAssumption == FaultKinds \subseteq Faults /\ MaxFaults \in Nat

VARIABLES
    row,      \* compute_instances.status by instance; None: no such row
    desired,  \* provider_state.desired_state by instance; None: no such row
    elapsed,  \* the delay since provider_state.transition_at has passed
    req,      \* the request each client has in flight
    snap,     \* Tick: status of each listed row still to be reconciled
    seen,     \* Tick: state to be written to the row under reconciliation
    faults,   \* faults injected so far
    harsh,    \* history: a fault more than a clean error has been injected
    reached   \* history: the states the provider has had, by instance

vars == <<row, desired, elapsed, req, snap, seen, faults, harsh, reached>>
tables == <<row, desired, elapsed, reached>>
ticking == <<snap, seen>>
injected == <<faults, harsh>>

Idle == [pc |-> "idle"]
Creating == [pc : {"provision", "insert", "cleanup"}, op : {"create"},
             inst : Instances, ctx : BOOLEAN]
Changing == [pc : {"call", "update"}, op : {"start", "stop", "terminate"},
             inst : Instances, ctx : BOOLEAN]
InFlight == Creating \cup Changing

TypeOK ==
    /\ row \in [Instances -> Statuses \cup {None}]
    /\ desired \in [Instances -> Desired \cup {None}]
    /\ elapsed \in [Instances -> BOOLEAN]
    /\ req \in [Clients -> {Idle} \cup InFlight]
    /\ snap \in [Instances -> Statuses \cup {None}]
    /\ seen \in [Instances -> Statuses \cup {None}]
    /\ faults \in 0..MaxFaults
    /\ harsh \in BOOLEAN
    /\ reached \in [Instances -> SUBSET (Statuses \ {"terminating"})]

Init ==
    /\ row = [i \in Instances |-> None]
    /\ desired = [i \in Instances |-> None]
    /\ elapsed = [i \in Instances |-> FALSE]
    /\ req = [c \in Clients |-> Idle]
    /\ snap = [i \in Instances |-> None]
    /\ seen = [i \in Instances |-> None]
    /\ faults = 0
    /\ harsh = FALSE
    /\ reached = [i \in Instances |-> {}]

-----------------------------------------------------------------------------
(* The lifecycle graph and the calls on the two stores.                      *)

instanceTransitions ==
    {<<"pending", "running">>, <<"pending", "terminating">>,
     <<"running", "stopping">>, <<"running", "terminating">>,
     <<"stopping", "stopped">>, <<"stopping", "terminating">>,
     <<"stopped", "pending">>, <<"stopped", "terminating">>,
     <<"terminating", "terminated">>, <<"failed", "terminating">>}

canTransition(from, to) == <<from, to>> \in instanceTransitions

\* The status a start, stop or terminate request writes to the row.
Target(op) == CASE op = "start" -> "pending"
                [] op = "stop" -> "stopping"
                [] op = "terminate" -> "terminating"

\* Mutant: start asks the provider for a state it does not know.
Intent_Starting(op) == CASE op = "start" -> "starting"
                         [] op = "stop" -> "stopping"
                         [] op = "terminate" -> "terminated"

\* The desired state the same request hands to the provider.
Intent(op) == CASE op = "start" -> "pending"
                [] op = "stop" -> "stopping"
                [] op = "terminate" -> "terminated"

\* Mutant: the provisioning delay is not waited for.
GetState_NoDelay(i) ==
    CASE desired[i] = None -> "failed"
      [] desired[i] = "pending" -> "running"
      [] desired[i] = "stopping" -> IF elapsed[i] THEN "stopped" ELSE "stopping"
      [] desired[i] = "terminated" -> "terminated"

\* What SimProvider.GetState reports; "failed" stands for
\* ErrProviderStateNotFound, which is what the reconciler makes of it.
GetState(i) ==
    CASE desired[i] = None -> "failed"
      [] desired[i] = "pending" -> IF elapsed[i] THEN "running" ELSE "pending"
      [] desired[i] = "stopping" -> IF elapsed[i] THEN "stopped" ELSE "stopping"
      [] desired[i] = "terminated" -> "terminated"

Fault(kind) ==
    /\ kind \in FaultKinds
    /\ faults < MaxFaults
    /\ faults' = faults + 1
    /\ harsh' = (harsh \/ kind \in Harsh)

\* A store call of c's request: was it applied, and did it report success?
Outcome(c, applied, ok) ==
    \/ applied /\ ok /\ req[c].ctx /\ UNCHANGED injected
    \/ ~applied /\ ~ok /\ ~req[c].ctx /\ UNCHANGED injected
    \/ ~applied /\ ~ok /\ req[c].ctx /\ Fault("error")
    \/ applied /\ ~ok /\ Fault("late")

\* ProviderStateRepository.Set: an upsert that restarts the delay.
ProviderSet(i, state) ==
    /\ desired' = [desired EXCEPT ![i] = state]
    /\ elapsed' = [elapsed EXCEPT ![i] = FALSE]
    /\ reached' = [reached EXCEPT ![i] = @ \cup {state}]

UpdateStatus(i, status) == row' = [row EXCEPT ![i] = status]

Advance(c, ok, pc) ==
    req' = [req EXCEPT ![c] = IF ok THEN [@ EXCEPT !.pc = pc] ELSE Idle]

Return(c) == req' = [req EXCEPT ![c] = Idle]

-----------------------------------------------------------------------------
(* Service.Create.  The provider id is random: fresh in both tables.         *)

\* Mutant: provider ids are handed out again after use.
Fresh_Reused(i) ==
    \A c \in Clients : req[c].pc # "idle" => req[c].inst # i

Fresh(i) ==
    /\ row[i] = None /\ desired[i] = None
    /\ \A c \in Clients : req[c].pc # "idle" => req[c].inst # i

\* Mutant: the row is inserted without provisioning first.
BeginCreate_RowFirst(c, i) ==
    /\ "create" \in Ops
    /\ req[c] = Idle
    /\ Fresh(i)
    /\ req' = [req EXCEPT ![c] = [pc |-> "insert", op |-> "create",
                                  inst |-> i, ctx |-> TRUE]]
    /\ UNCHANGED <<tables, ticking, injected>>

BeginCreate(c, i) ==
    /\ "create" \in Ops
    /\ req[c] = Idle
    /\ Fresh(i)
    /\ req' = [req EXCEPT ![c] = [pc |-> "provision", op |-> "create",
                                  inst |-> i, ctx |-> TRUE]]
    /\ UNCHANGED <<tables, ticking, injected>>

Provision(c) ==
    /\ req[c].pc = "provision"
    /\ \E applied, ok \in BOOLEAN :
          /\ Outcome(c, applied, ok)
          /\ IF applied THEN ProviderSet(req[c].inst, "pending")
                        ELSE UNCHANGED <<desired, elapsed, reached>>
          /\ Advance(c, ok, "insert")
    /\ UNCHANGED <<row, ticking>>

\* Mutant: a failed insert returns without the cleanup.
Insert_NoCleanup(c) ==
    /\ req[c].pc = "insert"
    /\ \E applied, ok \in BOOLEAN :
          /\ Outcome(c, applied, ok)
          /\ IF applied THEN UpdateStatus(req[c].inst, "pending")
                        ELSE UNCHANGED row
    /\ Return(c)
    /\ UNCHANGED <<desired, elapsed, reached, ticking>>

Insert(c) ==
    /\ req[c].pc = "insert"
    /\ \E applied, ok \in BOOLEAN :
          /\ Outcome(c, applied, ok)
          /\ IF applied THEN UpdateStatus(req[c].inst, "pending")
                        ELSE UNCHANGED row
          /\ Advance(c, ~ok, "cleanup")
    /\ UNCHANGED <<desired, elapsed, reached, ticking>>

\* provider.Terminate after a failed insert, under the request's own context.
Cleanup(c) ==
    /\ req[c].pc = "cleanup"
    /\ \E applied, ok \in BOOLEAN :
          /\ Outcome(c, applied, ok)
          /\ IF applied THEN ProviderSet(req[c].inst, "terminated")
                        ELSE UNCHANGED <<desired, elapsed, reached>>
    /\ Return(c)
    /\ UNCHANGED <<row, ticking>>

-----------------------------------------------------------------------------
(* Service.Start, Stop and Terminate: read and check the row, then tell the  *)
(* provider, then update the row.  A request whose check fails (no row, a    *)
(* transition outside the graph, an already terminated instance) returns     *)
(* without changing anything.                                                *)

Accept(c, op, i) ==
    /\ op \in Ops \ {"create"}
    /\ req[c] = Idle
    /\ row[i] # None
    /\ canTransition(row[i], Target(op))
    /\ req' = [req EXCEPT ![c] = [pc |-> "call", op |-> op,
                                  inst |-> i, ctx |-> TRUE]]
    /\ UNCHANGED <<tables, ticking, injected>>

CallProvider(c) ==
    /\ req[c].pc = "call"
    /\ \E applied, ok \in BOOLEAN :
          /\ Outcome(c, applied, ok)
          /\ IF applied THEN ProviderSet(req[c].inst, Intent(req[c].op))
                        ELSE UNCHANGED <<desired, elapsed, reached>>
          /\ Advance(c, ok, "update")
    /\ UNCHANGED <<row, ticking>>

UpdateRow(c) ==
    /\ req[c].pc = "update"
    /\ \E applied, ok \in BOOLEAN :
          /\ Outcome(c, applied, ok)
          /\ IF applied THEN UpdateStatus(req[c].inst, Target(req[c].op))
                        ELSE UNCHANGED row
    /\ Return(c)
    /\ UNCHANGED <<desired, elapsed, reached, ticking>>

\* The client goes away: the request's context is cancelled.
Cancel(c) ==
    /\ req[c] # Idle
    /\ req[c].ctx
    /\ Fault("cancel")
    /\ req' = [req EXCEPT ![c].ctx = FALSE]
    /\ UNCHANGED <<tables, ticking>>

-----------------------------------------------------------------------------
(* Reconciler.Tick, run by one goroutine: list the rows that are not         *)
(* terminated, then for each of them query the provider and write what it    *)
(* reports if that differs from the LISTED status.  Rows are independent, so *)
(* the order of the listing is left open.                                    *)

\* Mutant: only rows in a transient status are listed.
Listed_TransientOnly(i) == row[i] \in Transient

Listed(i) == row[i] \notin {None, "terminated"}

NothingSeen == \A i \in Instances : seen[i] = None
TickDone == NothingSeen /\ \A i \in Instances : snap[i] = None

ListActive ==
    /\ TickDone
    /\ \E i \in Instances : Listed(i)
    /\ snap' = [i \in Instances |-> IF Listed(i) THEN row[i] ELSE None]
    /\ UNCHANGED <<tables, req, seen, injected>>

ListPartial ==
    /\ TickDone
    /\ Fault("partial")
    /\ \E part \in SUBSET {i \in Instances : Listed(i)} :
          snap' = [i \in Instances |-> IF i \in part THEN row[i] ELSE None]
    /\ UNCHANGED <<tables, req, seen>>

Skip(i) == snap' = [snap EXCEPT ![i] = None]

Observe(i) ==
    /\ NothingSeen
    /\ snap[i] # None
    /\ IF GetState(i) = snap[i]
       THEN Skip(i) /\ UNCHANGED seen
       ELSE seen' = [seen EXCEPT ![i] = GetState(i)] /\ UNCHANGED snap
    /\ UNCHANGED <<tables, req, injected>>

ObserveFails(i) ==
    /\ NothingSeen
    /\ snap[i] # None
    /\ Fault("error")
    /\ Skip(i)
    /\ UNCHANGED <<tables, req, seen>>

Apply(i) ==
    /\ seen[i] # None
    /\ UpdateStatus(i, seen[i])
    /\ Skip(i)
    /\ seen' = [seen EXCEPT ![i] = None]
    /\ UNCHANGED <<desired, elapsed, reached, req, injected>>

ApplyFails(i) ==
    /\ seen[i] # None
    /\ \/ Fault("error") /\ UNCHANGED row
       \/ Fault("late") /\ UpdateStatus(i, seen[i])
    /\ Skip(i)
    /\ seen' = [seen EXCEPT ![i] = None]
    /\ UNCHANGED <<desired, elapsed, reached, req>>

Reconcile == ListActive \/ \E i \in Instances : Observe(i) \/ Apply(i)

-----------------------------------------------------------------------------
(* The environment: the wall clock, the backend, the server process.         *)

DelayElapses(i) ==
    /\ desired[i] \in {"pending", "stopping"}
    /\ ~elapsed[i]
    /\ elapsed' = [elapsed EXCEPT ![i] = TRUE]
    /\ reached' = [reached EXCEPT ![i] =
                      @ \cup {IF desired[i] = "pending" THEN "running"
                                                        ELSE "stopped"}]
    /\ UNCHANGED <<row, desired, req, ticking, injected>>

LoseProviderState(i) ==
    /\ row[i] # None
    /\ desired[i] # None
    /\ Fault("loss")
    /\ desired' = [desired EXCEPT ![i] = None]
    /\ elapsed' = [elapsed EXCEPT ![i] = FALSE]
    /\ reached' = [reached EXCEPT ![i] = @ \cup {"failed"}]
    /\ UNCHANGED <<row, req, ticking>>

Crash ==
    /\ Fault("crash")
    /\ req' = [c \in Clients |-> Idle]
    /\ snap' = [i \in Instances |-> None]
    /\ seen' = [i \in Instances |-> None]
    /\ UNCHANGED tables

ClientStep(c) ==
    \/ Provision(c) \/ Insert(c) \/ Cleanup(c)
    \/ CallProvider(c) \/ UpdateRow(c)

Next ==
    \/ \E c \in Clients, i \in Instances : BeginCreate(c, i)
    \/ \E c \in Clients, i \in Instances, op \in Requests : Accept(c, op, i)
    \/ \E c \in Clients : ClientStep(c) \/ Cancel(c)
    \/ Reconcile
    \/ ListPartial
    \/ \E i \in Instances : ObserveFails(i) \/ ApplyFails(i)
    \/ \E i \in Instances : DelayElapses(i) \/ LoseProviderState(i)
    \/ Crash

Spec == Init /\ [][Next]_vars

\* The ticker keeps firing and time passes.  Clients need not act at all, but
\* an HTTP handler that has started runs to its end.
FairSpec ==
    /\ Spec
    /\ WF_vars(ListActive)
    /\ \A i \in Instances :
          /\ WF_vars(Observe(i))
          /\ WF_vars(Apply(i))
          /\ WF_vars(DelayElapses(i))
    /\ \A c \in Clients : WF_vars(ClientStep(c))
-----------------------------------------------------------------------------
(* Properties.                                                               *)

\* An instance is "terminating" as soon as the provider destroyed it.
Claimed(status) == IF status = "terminating" THEN "terminated" ELSE status

\* The control plane never claims a state the provider has not had: every
\* request tells the provider before it writes the row, and the reconciler
\* writes only what GetState returned, however the two interleave.  In
\* particular a row says failed only if the provider really lost the instance,
\* never because a tick looked between the two inserts of Service.Create.
RowNeverAhead ==
    \A i \in Instances : row[i] # None => Claimed(row[i]) \in reached[i]

Quiet(i) == \A c \in Clients : req[c].pc # "idle" => req[c].inst # i

\* A backend resource that no row accounts for and no request will release.
Leaked(i) == /\ row[i] = None
             /\ desired[i] \in {"pending", "stopping"}
             /\ Quiet(i)

\* Service.Create releases what it provisioned when the insert fails, so clean
\* errors leak a resource only when the cleanup fails as well; a lost reply, a
\* cancelled request or a crash can leak one by itself.
LeakNeedsFaults ==
    \A i \in Instances : Leaked(i) => harsh \/ faults >= 2

\* A row that says terminated means the provider has destroyed the instance,
\* whatever stale snapshot a tick holds, unless the instance has been stopped
\* (so that it could be started) or lost.
TerminatedIsReleased ==
    \A i \in Instances :
        row[i] = "terminated" /\ reached[i] \cap {"stopping", "failed"} = {}
            => desired[i] = "terminated"

\* Once requests on an instance cease, its row comes to rest at what the
\* provider reports, or at terminated, which the reconciler never visits again.
ComesToRest ==
    \A i \in Instances :
        <>[]Quiet(i) => <>[](row[i] \in {None, "terminated", GetState(i)})

\* An instance the provider holds destroyed for good ends up recorded as
\* terminated and stays so.
DestructionIsRecorded ==
    \A i \in Instances :
        <>[](row[i] # None /\ desired[i] = "terminated")
            => <>[](row[i] = "terminated")
=============================================================================
