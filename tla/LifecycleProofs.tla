--------------------------- MODULE LifecycleProofs ---------------------------
(* Theorems about Lifecycle for every set of instances and clients, every    *)
(* choice of requests and every bound on the faults.                         *)
EXTENDS Lifecycle, TLAPS

-----------------------------------------------------------------------------
(* Type correctness.                                                         *)

\* A fault never takes the counter past its bound.
LEMMA FaultType ==
    ASSUME TypeOK, NEW kind, Fault(kind)
    PROVE  /\ faults' \in 0..MaxFaults /\ faults' = faults + 1
           /\ harsh' \in BOOLEAN /\ (harsh => harsh')
<1>1. faults' \in 0..MaxFaults /\ faults' = faults + 1
  BY FaultAssumption DEF TypeOK, Fault
<1>2. harsh' = (harsh \/ kind \in Harsh) /\ harsh \in BOOLEAN
  BY DEF Fault, TypeOK
<1>3. harsh' \in BOOLEAN /\ (harsh => harsh')
  BY ONLY <1>2
<1> QED
  BY <1>1, <1>3

\* Neither does a store call, whatever its outcome, and it never lowers it.
LEMMA OutcomeType ==
    ASSUME TypeOK, NEW c \in Clients, NEW applied, NEW ok,
           Outcome(c, applied, ok)
    PROVE  /\ faults' \in 0..MaxFaults /\ faults' >= faults
           /\ harsh' \in BOOLEAN /\ (harsh => harsh')
<1>1. CASE UNCHANGED injected
  BY <1>1 DEF TypeOK, injected
<1>2. CASE Fault("error") \/ Fault("late")
  BY <1>2, FaultType DEF TypeOK
<1> QED
  BY <1>1, <1>2 DEF Outcome

\* A request that is not idle is a well-formed one.
LEMMA InFlightType ==
    ASSUME TypeOK, NEW c \in Clients, req[c].pc # "idle"
    PROVE  /\ req[c] \in InFlight
           /\ req[c].inst \in Instances /\ req[c].ctx \in BOOLEAN
           /\ req[c].pc \in {"provision", "insert", "cleanup"} =>
                 req[c] \in Creating
           /\ req[c].pc \in {"call", "update"} =>
                 /\ req[c] \in Changing
                 /\ req[c].op \in {"start", "stop", "terminate"}
<1>1. req[c] \in {Idle} \cup InFlight
  BY DEF TypeOK
<1>2. req[c] # Idle
  BY DEF Idle
<1> QED
  BY <1>1, <1>2 DEF InFlight, Creating, Changing

\* Advancing a request leaves every request well-formed.
LEMMA AdvanceType ==
    ASSUME TypeOK, NEW c \in Clients, req[c].pc # "idle",
           NEW ok \in BOOLEAN, NEW pc, Advance(c, ok, pc),
           \/ req[c] \in Creating /\ pc \in {"insert", "cleanup"}
           \/ req[c] \in Changing /\ pc = "update"
    PROVE  req' \in [Clients -> {Idle} \cup InFlight]
<1>1. [req[c] EXCEPT !.pc = pc] \in InFlight
  BY DEF InFlight, Creating, Changing
<1> QED
  BY <1>1 DEF TypeOK, Advance

\* Returning does so too.
LEMMA ReturnType ==
    ASSUME TypeOK, NEW c \in Clients, Return(c)
    PROVE  req' \in [Clients -> {Idle} \cup InFlight]
BY DEF TypeOK, Return

\* An upsert of the provider's record keeps that table in its type.
LEMMA ProviderSetType ==
    ASSUME TypeOK, NEW i \in Instances, NEW state \in Desired,
           ProviderSet(i, state)
    PROVE  /\ desired' \in [Instances -> Desired \cup {None}]
           /\ elapsed' \in [Instances -> BOOLEAN]
           /\ reached' \in [Instances -> SUBSET (Statuses \ {"terminating"})]
BY DEF TypeOK, ProviderSet, Desired, Statuses, Transient, Settled

\* The program starts in its types.
LEMMA TypeInit == Init => TypeOK
<1> SUFFICES ASSUME Init PROVE TypeOK
  OBVIOUS
<1>1. harsh \in BOOLEAN
  BY DEF Init
<1> QED
  BY <1>1, FaultAssumption DEF Init, TypeOK

\* Every step keeps the variables in their types.
LEMMA TypeStep == TypeOK /\ [Next]_vars => TypeOK'
<1> SUFFICES ASSUME TypeOK, [Next]_vars PROVE TypeOK'
  OBVIOUS
<1> USE DEF TypeOK, tables, ticking, injected
<1>1. ASSUME NEW c \in Clients, NEW i \in Instances, BeginCreate(c, i)
      PROVE  TypeOK'
  BY <1>1 DEF BeginCreate, InFlight, Creating
<1>2. ASSUME NEW c \in Clients, NEW i \in Instances, NEW op \in Requests,
             Accept(c, op, i)
      PROVE  TypeOK'
  BY <1>2 DEF Accept, InFlight, Changing, Requests
<1>3. ASSUME NEW c \in Clients, Provision(c) PROVE TypeOK'
  <2>1. PICK applied, ok \in BOOLEAN :
           /\ Outcome(c, applied, ok)
           /\ IF applied THEN ProviderSet(req[c].inst, "pending")
                         ELSE UNCHANGED <<desired, elapsed, reached>>
           /\ Advance(c, ok, "insert")
    BY <1>3 DEF Provision
  <2>2. req[c].pc = "provision" /\ UNCHANGED <<row, ticking>>
    BY <1>3 DEF Provision
  <2>3. req' \in [Clients -> {Idle} \cup InFlight]
    BY <2>1, <2>2, AdvanceType, InFlightType
  <2>4. faults' \in 0..MaxFaults /\ harsh' \in BOOLEAN
    BY <2>1, OutcomeType
  <2>5. "pending" \in Desired /\ req[c].inst \in Instances
    BY <2>2, InFlightType DEF Desired
  <2> QED
    BY <2>1, <2>2, <2>3, <2>4, <2>5, ProviderSetType
<1>4. ASSUME NEW c \in Clients, Insert(c) PROVE TypeOK'
  <2>1. PICK applied, ok \in BOOLEAN :
           /\ Outcome(c, applied, ok)
           /\ IF applied THEN UpdateStatus(req[c].inst, "pending")
                         ELSE UNCHANGED row
           /\ Advance(c, ~ok, "cleanup")
    BY <1>4 DEF Insert
  <2>2. /\ req[c].pc = "insert"
        /\ UNCHANGED <<desired, elapsed, reached, ticking>>
    BY <1>4 DEF Insert
  <2>3. req' \in [Clients -> {Idle} \cup InFlight]
    BY <2>1, <2>2, AdvanceType, InFlightType
  <2>4. faults' \in 0..MaxFaults /\ harsh' \in BOOLEAN
    BY <2>1, OutcomeType
  <2>5. "pending" \in Statuses
    BY DEF Statuses, Transient
  <2>6. row' \in [Instances -> Statuses \cup {None}]
    BY <2>1, <2>5 DEF UpdateStatus
  <2> QED
    BY <2>2, <2>3, <2>4, <2>6
<1>5. ASSUME NEW c \in Clients, Cleanup(c) PROVE TypeOK'
  <2>1. PICK applied, ok \in BOOLEAN :
           /\ Outcome(c, applied, ok)
           /\ IF applied THEN ProviderSet(req[c].inst, "terminated")
                         ELSE UNCHANGED <<desired, elapsed, reached>>
    BY <1>5 DEF Cleanup
  <2>2. req[c].pc = "cleanup" /\ Return(c) /\ UNCHANGED <<row, ticking>>
    BY <1>5 DEF Cleanup
  <2>3. req' \in [Clients -> {Idle} \cup InFlight]
    BY <2>2, ReturnType
  <2>4. faults' \in 0..MaxFaults /\ harsh' \in BOOLEAN
    BY <2>1, OutcomeType
  <2>5. "terminated" \in Desired /\ req[c].inst \in Instances
    BY <2>2, InFlightType DEF Desired
  <2> QED
    BY <2>1, <2>2, <2>3, <2>4, <2>5, ProviderSetType
<1>6. ASSUME NEW c \in Clients, CallProvider(c) PROVE TypeOK'
  <2>1. PICK applied, ok \in BOOLEAN :
           /\ Outcome(c, applied, ok)
           /\ IF applied THEN ProviderSet(req[c].inst, Intent(req[c].op))
                         ELSE UNCHANGED <<desired, elapsed, reached>>
           /\ Advance(c, ok, "update")
    BY <1>6 DEF CallProvider
  <2>2. req[c].pc = "call" /\ UNCHANGED <<row, ticking>>
    BY <1>6 DEF CallProvider
  <2>3. req' \in [Clients -> {Idle} \cup InFlight]
    BY <2>1, <2>2, AdvanceType, InFlightType
  <2>4. faults' \in 0..MaxFaults /\ harsh' \in BOOLEAN
    BY <2>1, OutcomeType
  <2>5. /\ req[c].inst \in Instances
        /\ req[c].op \in {"start", "stop", "terminate"}
    BY <2>2, InFlightType
  <2>6. Intent(req[c].op) \in Desired
    BY <2>5 DEF Desired, Intent
  <2> QED
    BY <2>1, <2>2, <2>3, <2>4, <2>5, <2>6, ProviderSetType
<1>7. ASSUME NEW c \in Clients, UpdateRow(c) PROVE TypeOK'
  <2>1. PICK applied, ok \in BOOLEAN :
           /\ Outcome(c, applied, ok)
           /\ IF applied THEN UpdateStatus(req[c].inst, Target(req[c].op))
                         ELSE UNCHANGED row
    BY <1>7 DEF UpdateRow
  <2>2. /\ req[c].pc = "update" /\ Return(c)
        /\ UNCHANGED <<desired, elapsed, reached, ticking>>
    BY <1>7 DEF UpdateRow
  <2>3. req' \in [Clients -> {Idle} \cup InFlight]
    BY <2>2, ReturnType
  <2>4. faults' \in 0..MaxFaults /\ harsh' \in BOOLEAN
    BY <2>1, OutcomeType
  <2>5. /\ req[c].inst \in Instances
        /\ req[c].op \in {"start", "stop", "terminate"}
    BY <2>2, InFlightType
  <2>6. Target(req[c].op) \in Statuses
    BY <2>5 DEF Statuses, Transient, Target
  <2>7. row' \in [Instances -> Statuses \cup {None}]
    BY <2>1, <2>6 DEF UpdateStatus
  <2> QED
    BY <2>2, <2>3, <2>4, <2>7
<1>8. ASSUME NEW c \in Clients, Cancel(c) PROVE TypeOK'
  <2>1. req[c].pc # "idle" /\ UNCHANGED <<tables, ticking>>
    BY <1>8 DEF Cancel, Idle, InFlight, Creating, Changing
  <2>2. [req[c] EXCEPT !.ctx = FALSE] \in InFlight
    BY <2>1, InFlightType DEF InFlight, Creating, Changing
  <2>3. req' \in [Clients -> {Idle} \cup InFlight]
    BY <1>8, <2>2 DEF Cancel
  <2>4. faults' \in 0..MaxFaults /\ harsh' \in BOOLEAN
    BY <1>8, FaultType DEF Cancel
  <2> QED
    BY <2>1, <2>3, <2>4
<1>9. CASE ListActive
  BY <1>9 DEF ListActive
<1>10. CASE ListPartial
  BY <1>10, FaultType DEF ListPartial
<1>11. ASSUME NEW i \in Instances, Observe(i) PROVE TypeOK'
  <2>1. GetState(i) \in Statuses
    BY DEF GetState, Desired, Statuses, Transient, Settled, None
  <2> QED
    BY <1>11, <2>1 DEF Observe, Skip
<1>12. ASSUME NEW i \in Instances, Apply(i) PROVE TypeOK'
  BY <1>12 DEF Apply, Skip, UpdateStatus
<1>13. ASSUME NEW i \in Instances, ObserveFails(i) PROVE TypeOK'
  BY <1>13, FaultType DEF ObserveFails, Skip
<1>14. ASSUME NEW i \in Instances, ApplyFails(i) PROVE TypeOK'
  BY <1>14, FaultType DEF ApplyFails, Skip, UpdateStatus
<1>15. ASSUME NEW i \in Instances, DelayElapses(i) PROVE TypeOK'
  <2>1. {"running", "stopped"} \subseteq Statuses \ {"terminating"}
    BY DEF Statuses, Settled
  <2> QED
    BY <1>15, <2>1 DEF DelayElapses
<1>16. ASSUME NEW i \in Instances, LoseProviderState(i) PROVE TypeOK'
  <2>1. "failed" \in Statuses \ {"terminating"}
    BY DEF Statuses
  <2> QED
    BY <1>16, <2>1, FaultType DEF LoseProviderState
<1>17. CASE Crash
  BY <1>17, FaultType DEF Crash
<1>18. CASE UNCHANGED vars
  BY <1>18 DEF vars
<1> QED
  BY <1>1, <1>2, <1>3, <1>4, <1>5, <1>6, <1>7, <1>8, <1>9, <1>10, <1>11,
     <1>12, <1>13, <1>14, <1>15, <1>16, <1>17, <1>18
  DEF Next, ClientStep, Reconcile

\* Type correctness of the lifecycle.
THEOREM TypeCorrect == Spec => []TypeOK
BY TypeInit, TypeStep, PTL DEF Spec

-----------------------------------------------------------------------------
(* The control plane never claims a state the provider has not had.  The     *)
(* invariant must also speak of the states still on their way to a row: what *)
(* a tick has read, and what a request told the provider before it writes.   *)

TickReached ==
    \A i \in Instances :
        /\ snap[i] # None => Claimed(snap[i]) \in reached[i]
        /\ seen[i] # None => seen[i] \in reached[i]

\* Once an instance exists, what the provider reports of it has been reached.
ProviderReached ==
    \A i \in Instances :
        desired[i] # None \/ reached[i] # {} => GetState(i) \in reached[i]

RequestsReached ==
    \A c \in Clients :
        /\ req[c].pc = "insert" => "pending" \in reached[req[c].inst]
        /\ req[c].pc = "update" => Intent(req[c].op) \in reached[req[c].inst]

ReachedInv ==
    TypeOK /\ RowNeverAhead /\ TickReached /\ ProviderReached /\ RequestsReached

\* A status written to a row claims no more than the provider was told.
LEMMA ClaimedTarget ==
    ASSUME NEW op \in {"start", "stop", "terminate"}
    PROVE  Claimed(Target(op)) = Intent(op)
BY DEF Claimed, Target, Intent

\* The upsert records the new state as reached and forgets none.
LEMMA ProviderSetReached ==
    ASSUME TypeOK, NEW i \in Instances, NEW state \in Desired,
           ProviderSet(i, state)
    PROVE  /\ state \in reached'[i]
           /\ \A j \in Instances : reached[j] \subseteq reached'[j]
BY DEF TypeOK, ProviderSet

\* And what the provider reports from then on has been reached.
LEMMA ProviderSetReports ==
    ASSUME TypeOK, ProviderReached, NEW i \in Instances, NEW state \in Desired,
           ProviderSet(i, state)
    PROVE  ProviderReached'
<1> SUFFICES ASSUME NEW j \in Instances,
                    desired'[j] # None \/ reached'[j] # {}
             PROVE  GetState(j)' \in reached'[j]
  BY DEF ProviderReached
<1>1. CASE j = i
  <2>1. desired'[j] = state /\ ~elapsed'[j] /\ state \in reached'[j]
    BY <1>1 DEF TypeOK, ProviderSet
  <2> QED
    BY <2>1 DEF GetState, Desired, None
<1>2. CASE j # i
  <2>1. /\ desired'[j] = desired[j] /\ elapsed'[j] = elapsed[j]
        /\ reached'[j] = reached[j]
    BY <1>2 DEF TypeOK, ProviderSet
  <2>2. GetState(j)' = GetState(j)
    BY <2>1 DEF GetState
  <2> QED
    BY <2>1, <2>2 DEF ProviderReached
<1> QED
  BY <1>1, <1>2

\* States once reached stay reached.
LEMMA ReachedGrows ==
    ASSUME TypeOK, [Next]_vars, NEW i \in Instances
    PROVE  reached[i] \subseteq reached'[i]
<1> USE DEF TypeOK, tables
<1>1. ASSUME NEW c \in Clients, Provision(c) PROVE reached[i] \subseteq reached'[i]
  BY <1>1 DEF Provision, ProviderSet
<1>2. ASSUME NEW c \in Clients, Cleanup(c) PROVE reached[i] \subseteq reached'[i]
  BY <1>2 DEF Cleanup, ProviderSet
<1>3. ASSUME NEW c \in Clients, CallProvider(c)
      PROVE  reached[i] \subseteq reached'[i]
  BY <1>3 DEF CallProvider, ProviderSet
<1>4. ASSUME NEW j \in Instances, DelayElapses(j)
      PROVE  reached[i] \subseteq reached'[i]
  BY <1>4 DEF DelayElapses
<1>5. ASSUME NEW j \in Instances, LoseProviderState(j)
      PROVE  reached[i] \subseteq reached'[i]
  BY <1>5 DEF LoseProviderState
<1>6. ASSUME NEW c \in Clients,
             \/ Insert(c) \/ UpdateRow(c) \/ Cancel(c)
             \/ \E j \in Instances : BeginCreate(c, j)
             \/ \E j \in Instances, op \in Requests : Accept(c, op, j)
      PROVE  reached' = reached
  BY <1>6 DEF Insert, UpdateRow, Cancel, BeginCreate, Accept
<1>7. ASSUME \/ ListActive \/ ListPartial \/ Crash \/ UNCHANGED vars
             \/ \E j \in Instances : Observe(j) \/ Apply(j) \/ ObserveFails(j)
                                     \/ ApplyFails(j)
      PROVE  reached' = reached
  BY <1>7 DEF ListActive, ListPartial, Crash, vars, Observe, Apply,
              ObserveFails, ApplyFails
<1> QED
  BY <1>1, <1>2, <1>3, <1>4, <1>5, <1>6, <1>7 DEF Next, ClientStep, Reconcile

\* Steps that leave the provider alone keep what it reports reached.
LEMMA ProviderKept ==
    ASSUME ProviderReached, UNCHANGED <<desired, elapsed, reached>>
    PROVE  ProviderReached'
BY DEF ProviderReached, GetState

\* Requests that do not move keep their claim, and a new one makes none.
LEMMA RequestsKept ==
    ASSUME TypeOK, RequestsReached, [Next]_vars,
           \A c \in Clients : \/ req'[c] = req[c]
                              \/ req'[c].pc \notin {"insert", "update"}
    PROVE  RequestsReached'
<1> SUFFICES ASSUME NEW c \in Clients, req'[c] = req[c],
                    req[c].pc \in {"insert", "update"}
             PROVE  /\ req[c].pc = "insert" =>
                          "pending" \in reached'[req[c].inst]
                    /\ req[c].pc = "update" =>
                          Intent(req[c].op) \in reached'[req[c].inst]
  BY DEF RequestsReached, Intent
<1>1. req[c].inst \in Instances
  BY InFlightType
<1> QED
  BY <1>1, ReachedGrows DEF RequestsReached

\* When no row changes and a tick only takes over rows, both keep their claims.
LEMMA ClaimsKept ==
    ASSUME TypeOK, RowNeverAhead, TickReached, [Next]_vars, UNCHANGED row,
           \A i \in Instances : /\ seen'[i] \in {seen[i], None}
                                /\ snap'[i] \in {snap[i], row[i], None}
    PROVE  RowNeverAhead' /\ TickReached'
BY ReachedGrows DEF RowNeverAhead, TickReached

\* A row that takes over a state already reached claims nothing new.
LEMMA RowWritten ==
    ASSUME TypeOK, RowNeverAhead, [Next]_vars,
           NEW i \in Instances, NEW status \in Statuses,
           UpdateStatus(i, status),
           Claimed(status) \in reached[i]
    PROVE  RowNeverAhead'
<1> SUFFICES ASSUME NEW j \in Instances, row'[j] # None
             PROVE  Claimed(row'[j]) \in reached'[j]
  BY DEF RowNeverAhead
<1>1. reached[j] \subseteq reached'[j]
  BY ReachedGrows
<1>2. row'[j] = IF j = i THEN status ELSE row[j]
  BY DEF TypeOK, UpdateStatus
<1> QED
  BY <1>1, <1>2 DEF RowNeverAhead

\* Every step keeps the invariant.
LEMMA ReachedStep == ReachedInv /\ [Next]_vars => ReachedInv'
<1> SUFFICES ASSUME ReachedInv, [Next]_vars PROVE ReachedInv'
  OBVIOUS
<1> USE DEF ReachedInv, tables, ticking
<1>0. TypeOK'
  BY TypeStep
<1>1. ASSUME NEW c \in Clients, NEW i \in Instances, BeginCreate(c, i)
      PROVE  ReachedInv'
  <2>1. UNCHANGED <<tables, ticking>>
    BY <1>1 DEF BeginCreate
  <2>2. \A d \in Clients : \/ req'[d] = req[d]
                           \/ req'[d].pc \notin {"insert", "update"}
    BY <1>1 DEF BeginCreate, TypeOK
  <2> QED
    BY <1>0, <2>1, <2>2, ClaimsKept, ProviderKept, RequestsKept
<1>2. ASSUME NEW c \in Clients, NEW i \in Instances, NEW op \in Requests,
             Accept(c, op, i)
      PROVE  ReachedInv'
  <2>1. UNCHANGED <<tables, ticking>>
    BY <1>2 DEF Accept
  <2>2. \A d \in Clients : \/ req'[d] = req[d]
                           \/ req'[d].pc \notin {"insert", "update"}
    BY <1>2 DEF Accept, TypeOK
  <2> QED
    BY <1>0, <2>1, <2>2, ClaimsKept, ProviderKept, RequestsKept
<1>3. ASSUME NEW c \in Clients, Provision(c) PROVE ReachedInv'
  <2>1. PICK applied, ok \in BOOLEAN :
           /\ Outcome(c, applied, ok)
           /\ IF applied THEN ProviderSet(req[c].inst, "pending")
                         ELSE UNCHANGED <<desired, elapsed, reached>>
           /\ Advance(c, ok, "insert")
    BY <1>3 DEF Provision
  <2>2. req[c].pc = "provision" /\ UNCHANGED <<row, ticking>>
    BY <1>3 DEF Provision
  <2>3. req[c].inst \in Instances /\ "pending" \in Desired
    BY <2>2, InFlightType DEF Desired
  <2>4. ProviderReached'
    BY <2>1, <2>3, ProviderSetReports, ProviderKept
  <2>5. RowNeverAhead' /\ TickReached'
    BY <2>2, ClaimsKept
  <2>6. CASE ok
    <3>1. applied
      BY <2>1, <2>6 DEF Outcome
    <3>2. "pending" \in reached'[req[c].inst]
      BY <2>1, <2>3, <3>1, ProviderSetReached
    <3>3. req' = [req EXCEPT ![c] = [@ EXCEPT !.pc = "insert"]]
      BY <2>1, <2>6 DEF Advance
    <3>4. req[c] \in Creating
      BY <2>2, InFlightType
    <3>5. req'[c].pc = "insert" /\ req'[c].inst = req[c].inst
      BY <3>3, <3>4 DEF TypeOK, Creating
    <3>6. ASSUME NEW d \in Clients, d # c, req[d].pc \in {"insert", "update"}
          PROVE  /\ req'[d] = req[d] /\ req[d].inst \in Instances
                 /\ reached[req[d].inst] \subseteq reached'[req[d].inst]
      BY <3>3, <3>6, InFlightType, ReachedGrows DEF TypeOK
    <3>7. \A d \in Clients : d # c => req'[d] = req[d]
      BY <3>3 DEF TypeOK
    <3> QED
      BY <1>0, <2>4, <2>5, <3>2, <3>5, <3>6, <3>7 DEF RequestsReached, Intent
  <2>7. CASE ~ok
    <3>1. \A d \in Clients : \/ req'[d] = req[d]
                             \/ req'[d].pc \notin {"insert", "update"}
      BY <2>1, <2>7 DEF Advance, Idle, TypeOK
    <3> QED
      BY <1>0, <2>4, <2>5, <3>1, RequestsKept
  <2> QED
    BY <2>6, <2>7
<1>4. ASSUME NEW c \in Clients, Insert(c) PROVE ReachedInv'
  <2>1. PICK applied, ok \in BOOLEAN :
           /\ IF applied THEN UpdateStatus(req[c].inst, "pending")
                         ELSE UNCHANGED row
           /\ Advance(c, ~ok, "cleanup")
    BY <1>4 DEF Insert
  <2>2. /\ req[c].pc = "insert"
        /\ UNCHANGED <<desired, elapsed, reached, ticking>>
    BY <1>4 DEF Insert
  <2>3. /\ req[c].inst \in Instances /\ "pending" \in Statuses
        /\ Claimed("pending") \in reached[req[c].inst]
    BY <2>2, InFlightType DEF RequestsReached, Claimed, Statuses, Transient
  <2>4. RowNeverAhead'
    BY <2>1, <2>2, <2>3, RowWritten, ClaimsKept
  <2>5. TickReached' /\ ProviderReached'
    BY <2>2, ProviderKept DEF TickReached, Claimed
  <2>6. \A d \in Clients : \/ req'[d] = req[d]
                           \/ req'[d].pc \notin {"insert", "update"}
    <3>1. req[c] \in Creating
      BY <2>2, InFlightType
    <3> QED
      BY <2>1, <3>1 DEF Advance, Idle, TypeOK, Creating
  <2> QED
    BY <1>0, <2>4, <2>5, <2>6, RequestsKept
<1>5. ASSUME NEW c \in Clients, Cleanup(c) PROVE ReachedInv'
  <2>1. PICK applied \in BOOLEAN :
           IF applied THEN ProviderSet(req[c].inst, "terminated")
                      ELSE UNCHANGED <<desired, elapsed, reached>>
    BY <1>5 DEF Cleanup
  <2>2. req[c].pc = "cleanup" /\ Return(c) /\ UNCHANGED <<row, ticking>>
    BY <1>5 DEF Cleanup
  <2>3. req[c].inst \in Instances /\ "terminated" \in Desired
    BY <2>2, InFlightType DEF Desired
  <2>4. ProviderReached'
    BY <2>1, <2>3, ProviderSetReports, ProviderKept
  <2>5. \A d \in Clients : \/ req'[d] = req[d]
                           \/ req'[d].pc \notin {"insert", "update"}
    BY <2>2 DEF Return, Idle, TypeOK
  <2> QED
    BY <1>0, <2>2, <2>4, <2>5, ClaimsKept, RequestsKept
<1>6. ASSUME NEW c \in Clients, CallProvider(c) PROVE ReachedInv'
  <2>1. PICK applied, ok \in BOOLEAN :
           /\ Outcome(c, applied, ok)
           /\ IF applied THEN ProviderSet(req[c].inst, Intent(req[c].op))
                         ELSE UNCHANGED <<desired, elapsed, reached>>
           /\ Advance(c, ok, "update")
    BY <1>6 DEF CallProvider
  <2>2. req[c].pc = "call" /\ UNCHANGED <<row, ticking>>
    BY <1>6 DEF CallProvider
  <2>3. /\ req[c] \in Changing /\ req[c].inst \in Instances
        /\ Intent(req[c].op) \in Desired
    BY <2>2, InFlightType DEF Desired, Intent
  <2>4. ProviderReached'
    BY <2>1, <2>3, ProviderSetReports, ProviderKept
  <2>5. RowNeverAhead' /\ TickReached'
    BY <2>2, ClaimsKept
  <2>6. CASE ok
    <3>1. applied
      BY <2>1, <2>6 DEF Outcome
    <3>2. Intent(req[c].op) \in reached'[req[c].inst]
      BY <2>1, <2>3, <3>1, ProviderSetReached
    <3>3. req' = [req EXCEPT ![c] = [@ EXCEPT !.pc = "update"]]
      BY <2>1, <2>6 DEF Advance
    <3>4. /\ req'[c].pc = "update" /\ req'[c].inst = req[c].inst
          /\ req'[c].op = req[c].op
      BY <2>3, <3>3 DEF TypeOK, Changing
    <3>5. ASSUME NEW d \in Clients, d # c, req[d].pc \in {"insert", "update"}
          PROVE  /\ req'[d] = req[d] /\ req[d].inst \in Instances
                 /\ reached[req[d].inst] \subseteq reached'[req[d].inst]
      BY <3>3, <3>5, InFlightType, ReachedGrows DEF TypeOK
    <3>6. \A d \in Clients : d # c => req'[d] = req[d]
      BY <3>3 DEF TypeOK
    <3> QED
      BY <1>0, <2>4, <2>5, <3>2, <3>4, <3>5, <3>6 DEF RequestsReached, Intent
  <2>7. CASE ~ok
    <3>1. \A d \in Clients : \/ req'[d] = req[d]
                             \/ req'[d].pc \notin {"insert", "update"}
      BY <2>1, <2>7 DEF Advance, Idle, TypeOK
    <3> QED
      BY <1>0, <2>4, <2>5, <3>1, RequestsKept
  <2> QED
    BY <2>6, <2>7
<1>7. ASSUME NEW c \in Clients, UpdateRow(c) PROVE ReachedInv'
  <2>1. PICK applied \in BOOLEAN :
           IF applied THEN UpdateStatus(req[c].inst, Target(req[c].op))
                      ELSE UNCHANGED row
    BY <1>7 DEF UpdateRow
  <2>2. /\ req[c].pc = "update" /\ Return(c)
        /\ UNCHANGED <<desired, elapsed, reached, ticking>>
    BY <1>7 DEF UpdateRow
  <2>3. /\ req[c].inst \in Instances
        /\ req[c].op \in {"start", "stop", "terminate"}
    BY <2>2, InFlightType
  <2>4. /\ Target(req[c].op) \in Statuses
        /\ Claimed(Target(req[c].op)) \in reached[req[c].inst]
    BY <2>2, <2>3, ClaimedTarget
    DEF RequestsReached, Target, Statuses, Transient
  <2>5. RowNeverAhead'
    BY <2>1, <2>2, <2>3, <2>4, RowWritten, ClaimsKept
  <2>6. TickReached' /\ ProviderReached'
    BY <2>2, ProviderKept DEF TickReached, Claimed
  <2>7. \A d \in Clients : \/ req'[d] = req[d]
                           \/ req'[d].pc \notin {"insert", "update"}
    BY <2>2 DEF Return, Idle, TypeOK
  <2> QED
    BY <1>0, <2>5, <2>6, <2>7, RequestsKept
<1>8. ASSUME NEW c \in Clients, Cancel(c) PROVE ReachedInv'
  <2>1. UNCHANGED <<tables, ticking>> /\ req[c].pc # "idle"
    BY <1>8 DEF Cancel, Idle, TypeOK, InFlight, Creating, Changing
  <2>2. req[c] \in InFlight
    BY <2>1, InFlightType
  <2>3. \A d \in Clients : /\ req'[d].pc = req[d].pc
                           /\ d # c => req'[d] = req[d]
    BY <1>8, <2>2 DEF Cancel, TypeOK, InFlight, Creating, Changing
  <2>4. req'[c].inst = req[c].inst /\ req'[c].op = req[c].op
    BY <1>8, <2>2 DEF Cancel, TypeOK, InFlight, Creating, Changing
  <2>5. RequestsReached'
    BY <2>1, <2>3, <2>4 DEF RequestsReached, Intent
  <2> QED
    BY <1>0, <2>1, <2>5, ClaimsKept, ProviderKept
<1>9. CASE ListActive \/ ListPartial \/ (\E i \in Instances : ObserveFails(i))
  <2>1. /\ UNCHANGED <<tables, req, seen>>
        /\ \A i \in Instances : snap'[i] \in {snap[i], row[i], None}
    BY <1>9 DEF ListActive, ListPartial, ObserveFails, Skip, TypeOK
  <2> QED
    BY <1>0, <2>1, ClaimsKept, ProviderKept, RequestsKept
<1>10. ASSUME NEW i \in Instances, Observe(i) PROVE ReachedInv'
  <2>1. UNCHANGED <<tables, req>> /\ snap[i] # None
    BY <1>10 DEF Observe
  <2>2. GetState(i) \in reached[i]
    BY <2>1 DEF ProviderReached, TickReached
  <2>3. ASSUME NEW j \in Instances
        PROVE  /\ snap'[j] \in {snap[j], None}
               /\ seen'[j] = seen[j] \/ (j = i /\ seen'[j] = GetState(i))
    BY <1>10 DEF Observe, Skip, TypeOK
  <2>5. TickReached'
    BY <2>1, <2>2, <2>3 DEF TickReached, Claimed
  <2>4. RowNeverAhead'
    BY <2>1 DEF RowNeverAhead
  <2> QED
    BY <1>0, <2>1, <2>4, <2>5, ProviderKept, RequestsKept
<1>11. ASSUME NEW i \in Instances, Apply(i) \/ ApplyFails(i) PROVE ReachedInv'
  <2>1. /\ UNCHANGED <<desired, elapsed, reached, req>>
        /\ seen[i] # None /\ seen' = [seen EXCEPT ![i] = None]
        /\ snap' = [snap EXCEPT ![i] = None]
        /\ UpdateStatus(i, seen[i]) \/ UNCHANGED row
    BY <1>11 DEF Apply, ApplyFails, Skip
  <2>2. seen[i] \in Statuses
    BY <2>1 DEF TypeOK
  <2>3. Claimed(seen[i]) \in reached[i]
    BY <2>1 DEF TickReached, Claimed, TypeOK
  <2>4. TickReached'
    BY <2>1 DEF TickReached, TypeOK, Claimed
  <2>5. RowNeverAhead'
    BY <2>1, <2>2, <2>3, RowWritten DEF RowNeverAhead
  <2> QED
    BY <1>0, <2>1, <2>4, <2>5, ProviderKept, RequestsKept
<1>12. ASSUME NEW i \in Instances, DelayElapses(i) PROVE ReachedInv'
  <2>1. UNCHANGED <<row, desired, req, ticking>>
    BY <1>12 DEF DelayElapses
  <2>2. ASSUME NEW j \in Instances, desired[j] # None \/ reached'[j] # {}
        PROVE  GetState(j)' \in reached'[j]
    <3>1. CASE j = i
      <4>1. /\ desired'[i] = desired[i] /\ elapsed'[i]
            /\ desired[i] \in {"pending", "stopping"}
            /\ IF desired[i] = "pending" THEN "running" \in reached'[i]
                                         ELSE "stopped" \in reached'[i]
        BY <1>12, <2>1 DEF DelayElapses, TypeOK
      <4> QED
        BY <3>1, <4>1 DEF GetState
    <3>2. CASE j # i
      <4>1. /\ desired'[j] = desired[j] /\ elapsed'[j] = elapsed[j]
            /\ reached'[j] = reached[j]
        BY <1>12, <2>1, <3>2 DEF DelayElapses, TypeOK
      <4> QED
        BY <2>2, <4>1 DEF GetState, ProviderReached
    <3> QED
      BY <3>1, <3>2
  <2>3. ProviderReached'
    BY <2>1, <2>2 DEF ProviderReached
  <2> QED
    BY <1>0, <2>1, <2>3, ClaimsKept, RequestsKept
<1>13. ASSUME NEW i \in Instances, LoseProviderState(i) PROVE ReachedInv'
  <2>1. UNCHANGED <<row, req, ticking>>
    BY <1>13 DEF LoseProviderState
  <2>2. ASSUME NEW j \in Instances, desired'[j] # None \/ reached'[j] # {}
        PROVE  GetState(j)' \in reached'[j]
    <3>1. CASE j = i
      <4>1. desired'[i] = None /\ "failed" \in reached'[i]
        BY <1>13 DEF LoseProviderState, TypeOK
      <4> QED
        BY <3>1, <4>1 DEF GetState, None
    <3>2. CASE j # i
      <4>1. /\ desired'[j] = desired[j] /\ elapsed'[j] = elapsed[j]
            /\ reached'[j] = reached[j]
        BY <1>13, <3>2 DEF LoseProviderState, TypeOK
      <4> QED
        BY <2>2, <4>1 DEF GetState, ProviderReached
    <3> QED
      BY <3>1, <3>2
  <2>3. ProviderReached'
    BY <2>1, <2>2 DEF ProviderReached
  <2> QED
    BY <1>0, <2>1, <2>3, ClaimsKept, RequestsKept
<1>14. CASE Crash
  <2>1. /\ UNCHANGED tables
        /\ \A i \in Instances : seen'[i] = None /\ snap'[i] = None
        /\ \A c \in Clients : req'[c].pc \notin {"insert", "update"}
    BY <1>14 DEF Crash, Idle
  <2> QED
    BY <1>0, <2>1, ClaimsKept, ProviderKept, RequestsKept
<1>15. CASE UNCHANGED vars
  <2>1. UNCHANGED <<tables, req, ticking>>
    BY <1>15 DEF vars
  <2> QED
    BY <1>0, <2>1, ClaimsKept, ProviderKept, RequestsKept
<1> QED
  BY <1>1, <1>2, <1>3, <1>4, <1>5, <1>6, <1>7, <1>8, <1>9, <1>10, <1>11,
     <1>12, <1>13, <1>14, <1>15
  DEF Next, ClientStep, Reconcile

\* However requests, ticks and faults interleave, no row claims a state its
\* provider has not had.
THEOREM NeverAhead == Spec => []RowNeverAhead
<1>1. Init => ReachedInv
  BY TypeInit
  DEF Init, ReachedInv, RowNeverAhead, TickReached, ProviderReached,
      RequestsReached, Idle
<1>2. ReachedInv => RowNeverAhead
  BY DEF ReachedInv
<1> QED
  BY <1>1, <1>2, ReachedStep, PTL DEF Spec

-----------------------------------------------------------------------------
(* A backend resource nobody will release costs two clean errors or one      *)
(* harsh fault.  Until then, a resource without a row belongs to a create    *)
(* that has still to insert the row, or to clean up after one error already. *)

Paid == harsh \/ faults >= 2

Pursued(c, i) ==
    /\ req[c].pc \in {"insert", "cleanup"}
    /\ req[c].inst = i
    /\ req[c].pc = "cleanup" => faults >= 1

OrphansPursued ==
    \A i \in Instances :
        row[i] = None /\ desired[i] \in {"pending", "stopping"} =>
            Paid \/ \E c \in Clients : Pursued(c, i)

CancelledCost ==
    \A c \in Clients :
        req[c].pc # "idle" /\ ~req[c].ctx => harsh

ChangesHaveRows ==
    \A c \in Clients :
        req[c].pc \in {"call", "update"} => row[req[c].inst] # None

LeakInv == TypeOK /\ OrphansPursued /\ CancelledCost /\ ChangesHaveRows

\* A failed call has used up the whole cost, or one more fault and done nothing.
LEMMA FailureCounts ==
    ASSUME TypeOK, CancelledCost, NEW c \in Clients, req[c].pc # "idle",
           NEW applied \in BOOLEAN, Outcome(c, applied, FALSE)
    PROVE  \/ Paid'
           \/ ~applied /\ faults' = faults + 1
<1>1. CASE ~req[c].ctx /\ UNCHANGED injected
  BY <1>1 DEF CancelledCost, Paid, injected
<1>2. CASE ~applied /\ Fault("error")
  BY <1>2, FaultType
<1>3. CASE Fault("late")
  BY <1>3 DEF Fault, Harsh, Paid
<1> QED
  BY <1>1, <1>2, <1>3 DEF Outcome

\* Faults are never taken back.
LEMMA FaultsGrow ==
    ASSUME TypeOK, [Next]_vars
    PROVE  faults' >= faults /\ (harsh => harsh')
<1> USE DEF TypeOK, injected
<1>1. ASSUME NEW c \in Clients, ClientStep(c)
      PROVE  faults' >= faults /\ (harsh => harsh')
  BY <1>1, OutcomeType
  DEF ClientStep, Provision, Insert, Cleanup, CallProvider, UpdateRow
<1>2. ASSUME NEW c \in Clients, Cancel(c)
      PROVE  faults' >= faults /\ (harsh => harsh')
  BY <1>2, FaultType DEF Cancel
<1>3. ASSUME NEW i \in Instances, \/ ObserveFails(i) \/ ApplyFails(i)
                                  \/ LoseProviderState(i)
      PROVE  faults' >= faults /\ (harsh => harsh')
  BY <1>3, FaultType DEF ObserveFails, ApplyFails, LoseProviderState
<1>4. CASE ListPartial \/ Crash
  BY <1>4, FaultType DEF ListPartial, Crash
<1>5. ASSUME NEW i \in Instances, NEW c \in Clients,
             \/ BeginCreate(c, i) \/ \E op \in Requests : Accept(c, op, i)
      PROVE  faults' = faults /\ harsh' = harsh
  BY <1>5 DEF BeginCreate, Accept
<1>6. ASSUME \/ ListActive \/ UNCHANGED vars
             \/ \E i \in Instances : Observe(i) \/ Apply(i) \/ DelayElapses(i)
      PROVE  faults' = faults /\ harsh' = harsh
  BY <1>6 DEF ListActive, Observe, Apply, DelayElapses, vars
<1> QED
  BY <1>1, <1>2, <1>3, <1>4, <1>5, <1>6 DEF Next, Reconcile

\* So what has been paid stays paid.
LEMMA PaidStays ==
    ASSUME TypeOK, [Next]_vars
    PROVE  /\ Paid => Paid'
           /\ faults' >= faults /\ faults' \in Nat /\ faults \in Nat
<1>1. /\ faults' >= faults /\ faults' \in Nat /\ faults \in Nat
      /\ harsh => harsh'
  BY FaultsGrow, TypeStep DEF TypeOK
<1> QED
  BY <1>1 DEF Paid

\* Rows are never deleted.
LEMMA RowsStay ==
    ASSUME TypeOK, [Next]_vars, NEW i \in Instances, row[i] # None
    PROVE  row'[i] # None
<1> USE DEF TypeOK, None, tables
<1>1. ASSUME NEW c \in Clients, Insert(c) PROVE row'[i] # None
  BY <1>1 DEF Insert, UpdateStatus
<1>2. ASSUME NEW c \in Clients, UpdateRow(c) PROVE row'[i] # None
  <2>1. req[c].op \in {"start", "stop", "terminate"}
    BY <1>2, InFlightType DEF UpdateRow
  <2>2. Target(req[c].op) # None
    BY <2>1 DEF Target
  <2> QED
    BY <1>2, <2>2 DEF UpdateRow, UpdateStatus
<1>3. ASSUME NEW j \in Instances, Apply(j) \/ ApplyFails(j) PROVE row'[i] # None
  BY <1>3 DEF Apply, ApplyFails, UpdateStatus
<1>4. ASSUME NEW c \in Clients,
             \/ Provision(c) \/ Cleanup(c) \/ CallProvider(c) \/ Cancel(c)
             \/ \E j \in Instances : BeginCreate(c, j)
             \/ \E j \in Instances, op \in Requests : Accept(c, op, j)
      PROVE  row' = row
  BY <1>4 DEF Provision, Cleanup, CallProvider, Cancel, BeginCreate, Accept
<1>5. ASSUME \/ ListActive \/ ListPartial \/ Crash \/ UNCHANGED vars
             \/ \E j \in Instances : Observe(j) \/ ObserveFails(j)
                                     \/ DelayElapses(j) \/ LoseProviderState(j)
      PROVE  row' = row
  BY <1>5 DEF ListActive, ListPartial, Crash, vars, Observe, ObserveFails,
              DelayElapses, LoseProviderState
<1> QED
  BY <1>1, <1>2, <1>3, <1>4, <1>5 DEF Next, ClientStep, Reconcile

\* A step that creates no orphan and moves no pursuing request keeps the rest.
LEMMA PursuitKept ==
    ASSUME TypeOK, OrphansPursued, [Next]_vars,
           \A i \in Instances : \/ desired'[i] = desired[i]
                                \/ desired'[i] \notin {"pending", "stopping"}
                                \/ row'[i] # None,
           \A c \in Clients : \/ req'[c] = req[c]
                              \/ req[c].pc \notin {"insert", "cleanup"}
    PROVE  OrphansPursued'
<1> SUFFICES ASSUME NEW i \in Instances, row'[i] = None,
                    desired'[i] \in {"pending", "stopping"},
                    ~Paid'
             PROVE  \E c \in Clients : Pursued(c, i)'
  BY DEF OrphansPursued, Paid
<1>1. row[i] = None /\ desired[i] \in {"pending", "stopping"}
  BY RowsStay
<1>2. faults' >= faults /\ faults' \in Nat /\ faults \in Nat
  BY PaidStays
<1>3. ~Paid
  BY PaidStays
<1>4. PICK c \in Clients : Pursued(c, i)
  BY <1>1, <1>3 DEF OrphansPursued
<1>5. Pursued(c, i)'
  BY <1>2, <1>4 DEF Pursued
<1> QED
  BY <1>5

\* A step in which requests only keep or lose what they hold, keeps their costs.
LEMMA CostsKept ==
    ASSUME TypeOK, CancelledCost, ChangesHaveRows, [Next]_vars,
           \A c \in Clients : \/ req'[c] = req[c]
                              \/ req'[c] = Idle
                              \/ /\ req[c] # Idle
                                 /\ req'[c].inst = req[c].inst
                                 /\ req'[c].ctx = req[c].ctx
                                 /\ req'[c].pc = "update" => req[c].pc = "call"
                                 /\ req'[c].pc # "call"
    PROVE  CancelledCost' /\ ChangesHaveRows'
<1>1. harsh => harsh'
  BY FaultsGrow
<1>2. ASSUME NEW c \in Clients, req'[c].pc # "idle"
      PROVE  /\ req[c].pc # "idle" /\ req[c].inst \in Instances
             /\ req'[c].ctx = req[c].ctx /\ req'[c].inst = req[c].inst
             /\ req'[c].pc \in {"call", "update"} =>
                   req[c].pc \in {"call", "update"}
  <2>1. req'[c] # Idle
    BY <1>2 DEF Idle
  <2>2. req[c] # Idle
    BY <2>1
  <2>3. req[c] \in InFlight
    BY <2>2 DEF TypeOK
  <2>4. req[c].pc # "idle" /\ req[c].inst \in Instances
    BY <2>3 DEF InFlight, Creating, Changing
  <2> QED
    BY <2>1, <2>4
<1>3. CancelledCost'
  BY <1>1, <1>2 DEF CancelledCost
<1>4. ChangesHaveRows'
  BY <1>2, RowsStay DEF ChangesHaveRows
<1> QED
  BY <1>3, <1>4

\* Steps that leave the requests alone keep what is known of them.
LEMMA CostsUnmoved ==
    ASSUME TypeOK, CancelledCost, ChangesHaveRows, [Next]_vars, UNCHANGED req
    PROVE  CancelledCost' /\ ChangesHaveRows'
BY CostsKept

\* What a request did when it ran one of its calls, as the lemmas above need it.
LEMMA StepOfRequest ==
    ASSUME TypeOK, NEW c \in Clients, ClientStep(c)
    PROVE  \A d \in Clients : \/ req'[d] = req[d]
                              \/ req'[d] = Idle
                              \/ /\ req[d] # Idle
                                 /\ req'[d].inst = req[d].inst
                                 /\ req'[d].ctx = req[d].ctx
                                 /\ req'[d].pc = "update" => req[d].pc = "call"
                                 /\ req'[d].pc # "call"
<1>1. req[c] \in InFlight
  BY InFlightType
  DEF ClientStep, Provision, Insert, Cleanup, CallProvider, UpdateRow
<1>2. req[c] # Idle
  BY <1>1 DEF InFlight, Creating, Changing, Idle
<1>3. ASSUME NEW pc, req' = [req EXCEPT ![c] = [@ EXCEPT !.pc = pc]]
      PROVE  /\ req'[c].inst = req[c].inst /\ req'[c].ctx = req[c].ctx
             /\ req'[c].pc = pc
             /\ \A d \in Clients : d # c => req'[d] = req[d]
  BY <1>1, <1>3 DEF TypeOK, InFlight, Creating, Changing
<1>4. CASE req' = [req EXCEPT ![c] = Idle]
  BY <1>4 DEF TypeOK
<1>5. CASE Provision(c)
  BY <1>2, <1>3, <1>4, <1>5 DEF Provision, Advance
<1>6. CASE Insert(c)
  BY <1>2, <1>3, <1>4, <1>6 DEF Insert, Advance
<1>7. CASE CallProvider(c)
  BY <1>2, <1>3, <1>4, <1>7 DEF CallProvider, Advance
<1>8. CASE Cleanup(c) \/ UpdateRow(c)
  BY <1>4, <1>8 DEF Cleanup, UpdateRow, Return
<1> QED
  BY <1>5, <1>6, <1>7, <1>8 DEF ClientStep

\* A client other than the one that moves goes on pursuing its orphan.
LEMMA OthersPursue ==
    ASSUME TypeOK, [Next]_vars, NEW c \in Clients, NEW i \in Instances,
           Pursued(c, i), req'[c] = req[c]
    PROVE  Pursued(c, i)'
<1>1. faults' >= faults /\ faults' \in Nat /\ faults \in Nat
  BY PaidStays
<1> QED
  BY <1>1 DEF Pursued

\* The steps of a create keep every orphan pursued until the cost is paid.
LEMMA CreatePursues ==
    ASSUME TypeOK, OrphansPursued, CancelledCost, [Next]_vars,
           NEW c \in Clients, Provision(c) \/ Insert(c) \/ Cleanup(c)
    PROVE  OrphansPursued'
<1> SUFFICES ASSUME NEW i \in Instances, row'[i] = None,
                    desired'[i] \in {"pending", "stopping"},
                    ~Paid'
             PROVE  \E d \in Clients : Pursued(d, i)'
  BY DEF OrphansPursued, Paid
<1>1. row[i] = None
  BY RowsStay
<1>2. faults' >= faults /\ faults' \in Nat /\ faults \in Nat
  BY PaidStays
<1>3. ~Paid
  BY PaidStays
<1>4. ASSUME NEW d \in Clients, d # c, Pursued(d, i) PROVE Pursued(d, i)'
  <2>1. req'[d] = req[d]
    BY <1>4 DEF Provision, Insert, Cleanup, Advance, Return, TypeOK
  <2> QED
    BY <1>4, <2>1, OthersPursue
<1>5. CASE Provision(c)
  <2>1. PICK applied, ok \in BOOLEAN :
           /\ Outcome(c, applied, ok)
           /\ IF applied THEN ProviderSet(req[c].inst, "pending")
                         ELSE UNCHANGED <<desired, elapsed, reached>>
           /\ Advance(c, ok, "insert")
    BY <1>5 DEF Provision
  <2>2. req[c].pc = "provision"
    BY <1>5 DEF Provision
  <2>3. req[c] \in Creating /\ req[c].inst \in Instances
    BY <2>2, InFlightType
  <2>4. CASE desired[i] \in {"pending", "stopping"}
    BY <1>1, <1>3, <1>4, <2>2, <2>4 DEF OrphansPursued, Pursued
  <2>5. CASE desired[i] \notin {"pending", "stopping"}
    <3>1. applied /\ req[c].inst = i
      BY <2>1, <2>3, <2>5 DEF ProviderSet, TypeOK
    <3>2. ok
      BY <2>1, <2>2, <3>1, FailureCounts
    <3>3. req'[c].pc = "insert" /\ req'[c].inst = i
      BY <2>1, <2>3, <3>1, <3>2 DEF Advance, TypeOK, Creating
    <3> QED
      BY <3>3 DEF Pursued
  <2> QED
    BY <2>4, <2>5
<1>6. CASE Insert(c)
  <2>1. PICK applied, ok \in BOOLEAN :
           /\ Outcome(c, applied, ok)
           /\ IF applied THEN UpdateStatus(req[c].inst, "pending")
                         ELSE UNCHANGED row
           /\ Advance(c, ~ok, "cleanup")
    BY <1>6 DEF Insert
  <2>2. req[c].pc = "insert" /\ desired' = desired
    BY <1>6 DEF Insert
  <2>3. req[c] \in Creating /\ req[c].inst \in Instances
    BY <2>2, InFlightType
  <2>4. PICK d \in Clients : Pursued(d, i)
    BY <1>1, <1>3, <2>2 DEF OrphansPursued
  <2>5. CASE d = c
    <3>1. req[c].inst = i
      BY <2>4, <2>5 DEF Pursued
    <3>2. ~applied
      BY <2>1, <3>1 DEF UpdateStatus, TypeOK, None
    <3>3. ~ok
      BY <2>1, <3>2 DEF Outcome
    <3>4. faults' = faults + 1
      BY <2>1, <2>2, <3>3, FailureCounts
    <3>5. req'[c].pc = "cleanup" /\ req'[c].inst = i
      BY <2>1, <2>3, <3>1, <3>3 DEF Advance, TypeOK, Creating
    <3> QED
      BY <1>2, <3>4, <3>5 DEF Pursued
  <2> QED
    BY <1>4, <2>4, <2>5
<1>7. CASE Cleanup(c)
  <2>1. PICK applied, ok \in BOOLEAN :
           /\ Outcome(c, applied, ok)
           /\ IF applied THEN ProviderSet(req[c].inst, "terminated")
                         ELSE UNCHANGED <<desired, elapsed, reached>>
    BY <1>7 DEF Cleanup
  <2>2. req[c].pc = "cleanup"
    BY <1>7 DEF Cleanup
  <2>3. req[c].inst \in Instances
    BY <2>2, InFlightType
  <2>4. desired'[i] = desired[i] /\ (req[c].inst = i => ~applied)
    BY <2>1, <2>3 DEF ProviderSet, TypeOK
  <2>5. PICK d \in Clients : Pursued(d, i)
    BY <1>1, <1>3, <2>4 DEF OrphansPursued
  <2>6. d # c
    <3>1. ASSUME d = c PROVE FALSE
      <4>1. req[c].inst = i /\ faults >= 1
        BY <2>2, <2>5, <3>1 DEF Pursued
      <4>2. ~ok
        BY <2>1, <2>4, <4>1 DEF Outcome
      <4>3. faults' = faults + 1
        BY <2>1, <2>2, <4>2, FailureCounts
      <4>4. faults' >= 2
        BY <1>2, <4>1, <4>3
      <4> QED
        BY <4>4 DEF Paid
    <3> QED
      BY <3>1
  <2> QED
    BY <1>4, <2>5, <2>6
<1> QED
  BY <1>5, <1>6, <1>7

\* Every step keeps the invariant.
LEMMA LeakStep == LeakInv /\ [Next]_vars => LeakInv'
<1> SUFFICES ASSUME LeakInv, [Next]_vars PROVE LeakInv'
  OBVIOUS
<1> USE DEF LeakInv, tables, ticking
<1>0. TypeOK'
  BY TypeStep
<1>1. ASSUME NEW c \in Clients, NEW i \in Instances, BeginCreate(c, i)
      PROVE  LeakInv'
  <2>1. /\ UNCHANGED <<row, desired, injected>> /\ req[c] = Idle
        /\ req' = [req EXCEPT ![c] = [pc |-> "provision", op |-> "create",
                                      inst |-> i, ctx |-> TRUE]]
    BY <1>1 DEF BeginCreate
  <2>2. OrphansPursued'
    BY <2>1, PursuitKept DEF TypeOK, Idle
  <2>3. CancelledCost' /\ ChangesHaveRows'
    BY <2>1 DEF CancelledCost, ChangesHaveRows, TypeOK, injected
  <2> QED
    BY <1>0, <2>2, <2>3
<1>2. ASSUME NEW c \in Clients, NEW i \in Instances, NEW op \in Requests,
             Accept(c, op, i)
      PROVE  LeakInv'
  <2>1. /\ UNCHANGED <<row, desired, injected>> /\ req[c] = Idle /\ row[i] # None
        /\ req' = [req EXCEPT ![c] = [pc |-> "call", op |-> op,
                                      inst |-> i, ctx |-> TRUE]]
    BY <1>2 DEF Accept
  <2>2. OrphansPursued'
    BY <2>1, PursuitKept DEF TypeOK, Idle
  <2>3. CancelledCost' /\ ChangesHaveRows'
    BY <2>1 DEF CancelledCost, ChangesHaveRows, TypeOK, injected
  <2> QED
    BY <1>0, <2>2, <2>3
<1>3. ASSUME NEW c \in Clients, Provision(c) \/ Insert(c) \/ Cleanup(c)
      PROVE  LeakInv'
  BY <1>0, <1>3, CreatePursues, StepOfRequest, CostsKept DEF ClientStep
<1>4. ASSUME NEW c \in Clients, CallProvider(c) \/ UpdateRow(c)
      PROVE  LeakInv'
  <2>1. /\ req[c].pc \in {"call", "update"}
        /\ \A d \in Clients : d # c => req'[d] = req[d]
    BY <1>4 DEF CallProvider, UpdateRow, Advance, Return, TypeOK
  <2>2. req[c].inst \in Instances /\ row[req[c].inst] # None
    BY <2>1, InFlightType DEF ChangesHaveRows
  <2>3. \A i \in Instances : desired'[i] = desired[i] \/ row'[i] # None
    <3>1. \A i \in Instances : desired'[i] = desired[i] \/ i = req[c].inst
      BY <1>4 DEF CallProvider, UpdateRow, ProviderSet, TypeOK
    <3> QED
      BY <2>2, <3>1, RowsStay
  <2>4. OrphansPursued'
    BY <2>1, <2>3, PursuitKept
  <2> QED
    BY <1>0, <1>4, <2>4, StepOfRequest, CostsKept DEF ClientStep
<1>5. ASSUME NEW c \in Clients, Cancel(c) PROVE LeakInv'
  <2>1. /\ UNCHANGED <<row, desired>> /\ req[c] # Idle
        /\ req' = [req EXCEPT ![c].ctx = FALSE]
        /\ harsh'
    BY <1>5 DEF Cancel, Fault, Harsh
  <2>2. req[c] \in InFlight
    BY <2>1 DEF TypeOK
  <2>3. \A d \in Clients : d # c => req'[d] = req[d]
    BY <2>1 DEF TypeOK
  <2>4. req'[c].pc = req[c].pc /\ req'[c].inst = req[c].inst
    BY <2>1, <2>2 DEF TypeOK, InFlight, Creating, Changing
  <2>6. OrphansPursued'
    BY <2>1 DEF OrphansPursued, Paid
  <2>7. CancelledCost'
    BY <2>1 DEF CancelledCost
  <2>8. ChangesHaveRows'
    BY <2>1, <2>3, <2>4 DEF ChangesHaveRows
  <2> QED
    BY <1>0, <2>6, <2>7, <2>8
<1>6. CASE Crash
  <2>1. harsh' /\ \A c \in Clients : req'[c].pc = "idle"
    BY <1>6 DEF Crash, Fault, Harsh, Idle
  <2> QED
    BY <1>0, <2>1 DEF OrphansPursued, CancelledCost, ChangesHaveRows, Paid
<1>7. ASSUME \/ ListActive \/ ListPartial \/ UNCHANGED vars
             \/ \E i \in Instances : \/ Observe(i) \/ ObserveFails(i)
                                     \/ Apply(i) \/ ApplyFails(i)
                                     \/ DelayElapses(i) \/ LoseProviderState(i)
      PROVE  LeakInv'
  <2>1. UNCHANGED req
    BY <1>7 DEF ListActive, ListPartial, vars, Observe, ObserveFails, Apply,
                ApplyFails, DelayElapses, LoseProviderState
  <2>2. \A i \in Instances : desired'[i] = desired[i] \/ desired'[i] = None
    BY <1>7 DEF ListActive, ListPartial, vars, Observe, ObserveFails, Apply,
                ApplyFails, DelayElapses, LoseProviderState, TypeOK
  <2>3. OrphansPursued'
    BY <2>1, <2>2, PursuitKept DEF None
  <2> QED
    BY <1>0, <2>1, <2>3, CostsUnmoved
<1> QED
  BY <1>1, <1>2, <1>3, <1>4, <1>5, <1>6, <1>7 DEF Next, ClientStep, Reconcile

\* Clean errors leak a backend resource only if the insert AND the cleanup of
\* the same create fail; nothing leaks one without a fault.
THEOREM LeakCostsFaults == Spec => []LeakNeedsFaults
<1>1. Init => LeakInv
  BY TypeInit
  DEF Init, LeakInv, OrphansPursued, CancelledCost, ChangesHaveRows, Idle, None
<1>2. LeakInv => LeakNeedsFaults
  <2> SUFFICES ASSUME LeakInv, NEW i \in Instances, Leaked(i)
               PROVE  Paid
    BY DEF LeakNeedsFaults, Paid
  <2>1. ~\E c \in Clients : Pursued(c, i)
    BY DEF Leaked, Quiet, Pursued
  <2> QED
    BY <2>1 DEF LeakInv, OrphansPursued, Leaked
<1> QED
  BY <1>1, <1>2, LeakStep, PTL DEF Spec

-----------------------------------------------------------------------------
(* A terminated row means a destroyed instance.  Only a create and a start   *)
(* make the provider provision: a create nobody has heard of before, and a   *)
(* start what has been stopped.                                              *)

Untouched ==
    \A i \in Instances : row[i] = None /\ desired[i] = None => reached[i] = {}

FirstCall ==
    \A c \in Clients : req[c].pc = "provision" =>
        /\ row[req[c].inst] = None /\ desired[req[c].inst] = None
        /\ \A d \in Clients \ {c} :
              req[d].pc # "idle" => req[d].inst # req[c].inst

Stops ==
    \A i \in Instances :
        desired[i] = "stopping" \/ "stopped" \in reached[i] =>
            "stopping" \in reached[i]

Restarts ==
    \A c \in Clients : req[c].pc = "call" /\ req[c].op = "start" =>
        "stopping" \in reached[req[c].inst]

KeptDestroyed ==
    \A i \in Instances :
        "terminated" \in reached[i] /\ reached[i] \cap {"stopping", "failed"} = {}
            => desired[i] = "terminated"

ReleaseInv == Untouched /\ FirstCall /\ Stops /\ Restarts /\ KeptDestroyed

\* What a step may do to an instance at the provider.
ProviderMove(i) ==
    \/ desired'[i] = desired[i] /\ reached'[i] = reached[i]
    \/ /\ desired'[i] = "pending" /\ reached'[i] = reached[i] \cup {"pending"}
       /\ reached[i] = {} \/ "stopping" \in reached[i]
    \/ /\ desired'[i] \in {"stopping", "terminated"}
       /\ reached'[i] = reached[i] \cup {desired'[i]}
    \/ /\ desired[i] = "pending" /\ desired'[i] = desired[i]
       /\ reached'[i] = reached[i] \cup {"running"}
    \/ /\ desired[i] = "stopping" /\ desired'[i] = desired[i]
       /\ reached'[i] = reached[i] \cup {"stopped"}
    \/ /\ desired'[i] = None /\ reached'[i] = reached[i] \cup {"failed"}
       /\ row[i] # None

LEMMA SetMoves ==
    ASSUME TypeOK, NEW j \in Instances, NEW state \in Desired,
           ProviderSet(j, state), NEW i \in Instances,
           i = j /\ state = "pending" =>
               reached[i] = {} \/ "stopping" \in reached[i]
    PROVE  ProviderMove(i)
<1>1. CASE i = j
  <2>1. desired'[i] = state /\ reached'[i] = reached[i] \cup {state}
    BY <1>1 DEF TypeOK, ProviderSet
  <2> QED
    BY <1>1, <2>1 DEF ProviderMove, Desired
<1>2. CASE i # j
  <2>1. desired'[i] = desired[i] /\ reached'[i] = reached[i]
    BY <1>2 DEF TypeOK, ProviderSet
  <2> QED
    BY <2>1 DEF ProviderMove
<1> QED
  BY <1>1, <1>2

LEMMA ProviderMoves ==
    ASSUME TypeOK, ReleaseInv, [Next]_vars, NEW i \in Instances
    PROVE  ProviderMove(i)
<1>0. UNCHANGED <<desired, reached>> => ProviderMove(i)
  BY DEF ProviderMove
<1>1. ASSUME NEW c \in Clients, Provision(c) PROVE ProviderMove(i)
  <2>1. req[c].inst \in Instances
    BY <1>1, InFlightType DEF Provision
  <2>2. reached[req[c].inst] = {}
    BY <1>1, <2>1 DEF Provision, ReleaseInv, FirstCall, Untouched
  <2>3. ProviderSet(req[c].inst, "pending") \/ UNCHANGED <<desired, reached>>
    BY <1>1 DEF Provision
  <2> QED
    BY <1>0, <2>1, <2>2, <2>3, SetMoves DEF Desired
<1>2. ASSUME NEW c \in Clients, Cleanup(c) PROVE ProviderMove(i)
  <2>1. req[c].inst \in Instances
    BY <1>2, InFlightType DEF Cleanup
  <2>2. ProviderSet(req[c].inst, "terminated") \/ UNCHANGED <<desired, reached>>
    BY <1>2 DEF Cleanup
  <2> QED
    BY <1>0, <2>1, <2>2, SetMoves DEF Desired
<1>3. ASSUME NEW c \in Clients, CallProvider(c) PROVE ProviderMove(i)
  <2>1. req[c].inst \in Instances /\ req[c].op \in {"start", "stop", "terminate"}
    BY <1>3, InFlightType DEF CallProvider
  <2>2. /\ Intent(req[c].op) \in Desired
        /\ Intent(req[c].op) = "pending" => req[c].op = "start"
    BY <2>1 DEF Intent, Desired
  <2>3. req[c].op = "start" => "stopping" \in reached[req[c].inst]
    BY <1>3 DEF CallProvider, ReleaseInv, Restarts
  <2>4. \/ ProviderSet(req[c].inst, Intent(req[c].op))
        \/ UNCHANGED <<desired, reached>>
    BY <1>3 DEF CallProvider
  <2> QED
    BY <1>0, <2>1, <2>2, <2>3, <2>4, SetMoves
<1>4. ASSUME NEW j \in Instances, DelayElapses(j) PROVE ProviderMove(i)
  BY <1>4 DEF DelayElapses, ProviderMove, TypeOK
<1>5. ASSUME NEW j \in Instances, LoseProviderState(j) PROVE ProviderMove(i)
  BY <1>5 DEF LoseProviderState, ProviderMove, TypeOK
<1>6. ASSUME NEW c \in Clients,
             \/ Insert(c) \/ UpdateRow(c) \/ Cancel(c)
             \/ \E j \in Instances : BeginCreate(c, j)
             \/ \E j \in Instances, op \in Requests : Accept(c, op, j)
      PROVE  ProviderMove(i)
  BY <1>0, <1>6 DEF Insert, UpdateRow, Cancel, BeginCreate, Accept, tables
<1>7. ASSUME \/ ListActive \/ ListPartial \/ Crash \/ UNCHANGED vars
             \/ \E j \in Instances : Observe(j) \/ Apply(j) \/ ObserveFails(j)
                                     \/ ApplyFails(j)
      PROVE  ProviderMove(i)
  BY <1>0, <1>7 DEF ListActive, ListPartial, Crash, vars, tables, Observe, Apply,
                    ObserveFails, ApplyFails
<1> QED
  BY <1>1, <1>2, <1>3, <1>4, <1>5, <1>6, <1>7 DEF Next, ClientStep, Reconcile

\* A request touches the tables only at its own instance.
LEMMA ElsewhereUntouched ==
    ASSUME TypeOK, NEW c \in Clients, ClientStep(c), NEW i \in Instances,
           i # req[c].inst
    PROVE  row'[i] = row[i] /\ desired'[i] = desired[i]
<1>1. \/ UNCHANGED row
      \/ \E status : row' = [row EXCEPT ![req[c].inst] = status]
  BY DEF ClientStep, Provision, Insert, Cleanup, CallProvider, UpdateRow,
     UpdateStatus
<1>2. \/ UNCHANGED desired
      \/ \E state : desired' = [desired EXCEPT ![req[c].inst] = state]
  BY DEF ClientStep, Provision, Insert, Cleanup, CallProvider, UpdateRow,
     ProviderSet
<1> QED
  BY <1>1, <1>2 DEF TypeOK

\* Until a create provisions, its instance is its own.
LEMMA FirstCallStep ==
    ASSUME ReachedInv, ReleaseInv, [Next]_vars
    PROVE  FirstCall'
<1>0. TypeOK
  BY DEF ReachedInv
<1> SUFFICES ASSUME NEW c \in Clients, req'[c].pc = "provision"
             PROVE  /\ row'[req'[c].inst] = None /\ desired'[req'[c].inst] = None
                    /\ \A d \in Clients \ {c} :
                          req'[d].pc # "idle" => req'[d].inst # req'[c].inst
  BY DEF FirstCall
<1>1. ASSUME NEW a \in Clients, NEW i \in Instances, BeginCreate(a, i)
      PROVE  /\ row'[req'[c].inst] = None /\ desired'[req'[c].inst] = None
             /\ \A d \in Clients \ {c} :
                   req'[d].pc # "idle" => req'[d].inst # req'[c].inst
  <2>1. /\ Fresh(i) /\ UNCHANGED <<row, desired>>
        /\ req'[a].inst = i /\ req[a].pc = "idle"
        /\ \A d \in Clients : d # a => req'[d] = req[d]
    BY <1>0, <1>1 DEF BeginCreate, TypeOK, tables, Idle
  <2> QED
    BY <2>1 DEF Fresh, ReleaseInv, FirstCall
<1>2. ASSUME NEW a \in Clients, NEW i \in Instances, NEW op \in Requests,
             Accept(a, op, i)
      PROVE  /\ row'[req'[c].inst] = None /\ desired'[req'[c].inst] = None
             /\ \A d \in Clients \ {c} :
                   req'[d].pc # "idle" => req'[d].inst # req'[c].inst
  <2>1. /\ row[i] # None /\ UNCHANGED <<row, desired>>
        /\ req'[a].inst = i /\ req'[a].pc = "call"
        /\ \A d \in Clients : d # a => req'[d] = req[d]
    BY <1>0, <1>2 DEF Accept, TypeOK, tables
  <2> QED
    BY <2>1 DEF ReleaseInv, FirstCall
<1> DEFINE Same == /\ req[c].pc = "provision" /\ req'[c].inst = req[c].inst
                   /\ \A d \in Clients \ {c} : req'[d].pc # "idle" =>
                         req[d].pc # "idle" /\ req'[d].inst = req[d].inst
<1>3. ASSUME Same, row'[req[c].inst] = None, desired'[req[c].inst] = None
      PROVE  /\ row'[req'[c].inst] = None /\ desired'[req'[c].inst] = None
             /\ \A d \in Clients \ {c} :
                   req'[d].pc # "idle" => req'[d].inst # req'[c].inst
  BY <1>3 DEF ReleaseInv, FirstCall
<1>4. ASSUME NEW a \in Clients, ClientStep(a)
      PROVE  Same /\ row'[req[c].inst] = None /\ desired'[req[c].inst] = None
  <2>1. req[a].pc # "idle" /\ req'[a].pc # "provision"
    <3>1. req[a].pc # "idle"
      BY <1>4 DEF ClientStep, Provision, Insert, Cleanup, CallProvider, UpdateRow
    <3>2. req[a] \in InFlight
      BY <1>0, <3>1, InFlightType
    <3>3. \/ req' = [req EXCEPT ![a] = Idle]
          \/ \E pc \in {"insert", "cleanup", "update"} :
                req' = [req EXCEPT ![a] = [@ EXCEPT !.pc = pc]]
      BY <1>4 DEF ClientStep, Provision, Insert, Cleanup, CallProvider, UpdateRow,
         Advance, Return
    <3>4. CASE req' = [req EXCEPT ![a] = Idle]
      BY <1>0, <3>1, <3>4 DEF TypeOK, Idle
    <3>5. ASSUME NEW pc \in {"insert", "cleanup", "update"},
                 req' = [req EXCEPT ![a] = [@ EXCEPT !.pc = pc]]
          PROVE  req[a].pc # "idle" /\ req'[a].pc # "provision"
      <4>1. req'[a] = [req[a] EXCEPT !.pc = pc]
        BY <1>0, <3>5 DEF TypeOK
      <4>2. req'[a].pc = pc
        BY <3>2, <4>1 DEF InFlight, Creating, Changing
      <4> QED
        BY <3>1, <4>2
    <3> QED
      BY <3>3, <3>4, <3>5
  <2>2. \A d \in Clients : \/ req'[d] = req[d]
                           \/ req'[d] = Idle
                           \/ req[d] # Idle /\ req'[d].inst = req[d].inst
    BY <1>0, <1>4, StepOfRequest
  <2>3. \A d \in Clients : req[d] # Idle => req[d].pc # "idle"
    BY <1>0 DEF TypeOK, InFlight, Creating, Changing
  <2>4. a # c /\ req'[c] = req[c]
    <3>1. \A d \in Clients : d # a => req'[d] = req[d]
      BY <1>0, <1>4 DEF TypeOK, ClientStep, Provision, Insert, Cleanup, CallProvider,
         UpdateRow, Advance, Return
    <3> QED
      BY <2>1, <3>1
  <2>5. Same
    BY <2>2, <2>3, <2>4 DEF Idle
  <2>6. req[c].inst \in Instances /\ req[c].inst # req[a].inst
    BY <1>0, <2>1, <2>4, InFlightType DEF ReleaseInv, FirstCall
  <2> QED
    BY <1>0, <1>4, <2>4, <2>5, <2>6, ElsewhereUntouched DEF ReleaseInv, FirstCall
<1>5. ASSUME NEW a \in Clients, Cancel(a)
      PROVE  Same /\ row'[req[c].inst] = None /\ desired'[req[c].inst] = None
  <2>1. req[a] \in InFlight
    BY <1>0, <1>5 DEF Cancel, TypeOK
  <2>2. req'[a] = [req[a] EXCEPT !.ctx = FALSE]
    BY <1>0, <1>5 DEF Cancel, TypeOK
  <2>3. /\ req'[a].pc = req[a].pc /\ req'[a].inst = req[a].inst
        /\ \A d \in Clients : d # a => req'[d] = req[d]
    BY <1>0, <1>5, <2>1, <2>2 DEF Cancel, TypeOK, InFlight, Creating, Changing
  <2>4. Same
    BY <2>3
  <2> QED
    BY <1>5, <2>4 DEF Cancel, tables, ReleaseInv, FirstCall
<1>6. CASE Crash
  BY <1>6 DEF Crash, Idle
<1>7. ASSUME \/ ListActive \/ ListPartial \/ UNCHANGED vars
             \/ \E i \in Instances : \/ Observe(i) \/ ObserveFails(i)
                                     \/ Apply(i) \/ ApplyFails(i)
                                     \/ DelayElapses(i) \/ LoseProviderState(i)
      PROVE  Same /\ row'[req[c].inst] = None /\ desired'[req[c].inst] = None
  <2>1. UNCHANGED req
    BY <1>7 DEF ListActive, ListPartial, vars, Observe, ObserveFails, Apply,
                ApplyFails, DelayElapses, LoseProviderState
  <2>2. Same
    BY <2>1
  <2>3. /\ row[req[c].inst] = None /\ desired[req[c].inst] = None
        /\ req[c].inst \in Instances
    BY <1>0, <2>2, InFlightType DEF ReleaseInv, FirstCall
  <2>4. desired'[req[c].inst] = None
    <3>1. UNCHANGED desired \/ \E i \in Instances : LoseProviderState(i)
      BY <1>7 DEF ListActive, ListPartial, vars, tables, Observe, ObserveFails, Apply,
                  ApplyFails, DelayElapses
    <3> QED
      BY <1>0, <2>3, <3>1 DEF LoseProviderState, TypeOK
  <2>5. row'[req[c].inst] = None
    <3>1. reached[req[c].inst] = {}
      BY <2>3 DEF ReleaseInv, Untouched
    <3>2. seen[req[c].inst] = None
      BY <2>3, <3>1 DEF ReachedInv, TickReached
    <3>3. \/ UNCHANGED row
          \/ \E i \in Instances : seen[i] # None /\ UpdateStatus(i, seen[i])
      BY <1>7 DEF ListActive, ListPartial, vars, tables, Observe, ObserveFails, Apply,
                  ApplyFails, DelayElapses, LoseProviderState
    <3> QED
      BY <1>0, <2>3, <3>2, <3>3 DEF UpdateStatus, TypeOK
  <2> QED
    BY <2>2, <2>4, <2>5
<1> QED
  BY <1>1, <1>2, <1>3, <1>4, <1>5, <1>6, <1>7 DEF Next, Reconcile

\* A start is accepted only for what has been stopped.
LEMMA RestartsStep ==
    ASSUME ReachedInv, ReleaseInv, [Next]_vars
    PROVE  Restarts'
<1>0. TypeOK /\ TypeOK'
  BY TypeStep DEF ReachedInv
<1> SUFFICES ASSUME NEW c \in Clients, req'[c].pc = "call", req'[c].op = "start"
             PROVE  "stopping" \in reached'[req'[c].inst]
  BY DEF Restarts
<1>1. \/ /\ req[c].pc = "call" /\ req[c].op = "start"
         /\ req'[c].inst = req[c].inst
      \/ \E i \in Instances : Accept(c, "start", i)
  <2>1. CASE req'[c] = req[c]
    BY <2>1
  <2>2. ASSUME NEW a \in Clients, ClientStep(a), req'[c] # req[c]
        PROVE  FALSE
    BY <1>0, <2>2, StepOfRequest DEF Idle
  <2>3. ASSUME NEW a \in Clients, Cancel(a)
        PROVE  /\ req[c].pc = "call" /\ req[c].op = "start"
               /\ req'[c].inst = req[c].inst
    <3>1. req[a] \in InFlight
      BY <1>0, <2>3 DEF Cancel, TypeOK
    <3>2. req'[a] = [req[a] EXCEPT !.ctx = FALSE]
      BY <1>0, <2>3 DEF Cancel, TypeOK
    <3>3. /\ req'[a].pc = req[a].pc /\ req'[a].inst = req[a].inst
          /\ req'[a].op = req[a].op
          /\ \A d \in Clients : d # a => req'[d] = req[d]
      BY <1>0, <2>3, <3>1, <3>2 DEF Cancel, TypeOK, InFlight, Creating, Changing
    <3> QED
      BY <3>3
  <2>4. ASSUME NEW a \in Clients, NEW i \in Instances, BeginCreate(a, i)
        PROVE  req'[c] = req[c]
    BY <1>0, <2>4 DEF BeginCreate, TypeOK
  <2>5. ASSUME NEW a \in Clients, NEW i \in Instances, NEW op \in Requests,
               Accept(a, op, i)
        PROVE  \/ req'[c] = req[c]
               \/ a = c /\ op = "start"
    BY <1>0, <2>5 DEF Accept, TypeOK
  <2>6. CASE Crash
    BY <2>6 DEF Crash, Idle
  <2>7. ASSUME \/ ListActive \/ ListPartial \/ UNCHANGED vars
               \/ \E i \in Instances : \/ Observe(i) \/ ObserveFails(i)
                                       \/ Apply(i) \/ ApplyFails(i)
                                       \/ DelayElapses(i) \/ LoseProviderState(i)
        PROVE  req'[c] = req[c]
    BY <2>7 DEF ListActive, ListPartial, vars, Observe, ObserveFails, Apply,
                ApplyFails, DelayElapses, LoseProviderState
  <2> QED
    BY <2>1, <2>2, <2>3, <2>4, <2>5, <2>6, <2>7 DEF Next, Reconcile
<1>2. req'[c].inst \in Instances
  BY <1>0 DEF TypeOK, Idle, InFlight, Creating, Changing
<1>3. ASSUME NEW i \in Instances, Accept(c, "start", i)
      PROVE  "stopping" \in reached'[req'[c].inst]
  <2>1. row[i] = "stopped" /\ req'[c].inst = i
    BY <1>0, <1>3 DEF Accept, canTransition, instanceTransitions, Target, TypeOK
  <2>2. "stopped" \in reached[i]
    BY <2>1 DEF ReachedInv, RowNeverAhead, Claimed, None
  <2>3. "stopping" \in reached[i]
    BY <2>2 DEF ReleaseInv, Stops
  <2> QED
    BY <1>0, <2>1, <2>3, ReachedGrows
<1> QED
  BY <1>0, <1>1, <1>2, <1>3, ReachedGrows DEF ReleaseInv, Restarts

LEMMA ReleaseStep == ReachedInv /\ ReleaseInv /\ [Next]_vars => ReleaseInv'
<1> SUFFICES ASSUME ReachedInv, ReleaseInv, [Next]_vars PROVE ReleaseInv'
  OBVIOUS
<1>0. TypeOK
  BY DEF ReachedInv
<1>1. \A i \in Instances : ProviderMove(i)
  BY <1>0, ProviderMoves
<1>2. \A i \in Instances : row[i] # None => row'[i] # None
  BY <1>0, RowsStay
<1>3. Untouched'
  BY <1>1, <1>2 DEF ReleaseInv, Untouched, ProviderMove, None
<1>4. Stops'
  BY <1>1 DEF ReleaseInv, Stops, ProviderMove, None
<1>5. KeptDestroyed'
  BY <1>1 DEF ReleaseInv, KeptDestroyed, ProviderMove, None
<1> QED
  BY <1>3, <1>4, <1>5, FirstCallStep, RestartsStep DEF ReleaseInv

\* An instance whose row says terminated is destroyed, whatever overlaps, fails
\* or crashes, unless it was stopped once (and may be restarted) or was lost
\* (compute/service.go, reconciler.go).
THEOREM TerminatedIsGone == Spec => []TerminatedIsReleased
<1>1. Init => ReachedInv /\ ReleaseInv
  <2>1. Init => ReachedInv
    BY TypeInit DEF Init, ReachedInv, RowNeverAhead, TickReached, ProviderReached,
       RequestsReached, Idle
  <2>2. Init => ReleaseInv
    BY DEF Init, ReleaseInv, Untouched, FirstCall, Stops, Restarts, KeptDestroyed,
       Idle, None
  <2> QED
    BY <2>1, <2>2
<1>2. ReachedInv /\ ReleaseInv => TerminatedIsReleased
  <2> SUFFICES ASSUME ReachedInv, ReleaseInv, NEW i \in Instances,
                      row[i] = "terminated",
                      reached[i] \cap {"stopping", "failed"} = {}
               PROVE  desired[i] = "terminated"
    BY DEF TerminatedIsReleased
  <2>1. "terminated" \in reached[i]
    BY DEF ReachedInv, RowNeverAhead, Claimed, None
  <2> QED
    BY <2>1 DEF ReleaseInv, KeptDestroyed
<1> QED
  BY <1>1, <1>2, ReachedStep, ReleaseStep, PTL DEF Spec
=============================================================================
