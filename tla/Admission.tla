------------------------------ MODULE Admission ------------------------------
(* Admission of new instances: the checks Service.Create of                  *)
(* internal/compute/service.go makes before it provisions.  A create reads   *)
(* the organization's usage, then the region's usage, and inserts its row    *)
(* later; the three are separate statements, so creates overlap.             *)
(*                                                                           *)
(* CPU cores stand for the three sized resources (cores, memory, disk),      *)
(* whose checks are the same comparison; the instance count is its own.      *)
(* A row is active until the reconciler records it as terminated.            *)
EXTENDS Integers, FiniteSets, FiniteSetsExt, Functions

CONSTANTS
    Orgs, Regions,
    Clients,        \* concurrent create requests
    Instances,      \* bound: row ids a behaviour may use
    Sizes,          \* bound: the cpu_cores a request may ask for
    MaxInstances,   \* organization_quotas.max_instances by organization
    MaxCPUCores,    \* organization_quotas.max_cpu_cores by organization
    RegionCPU       \* region_capacity.cpu_cores by region

ASSUME SizesAssumption == Sizes \subseteq Nat \ {0}
ASSUME QuotaAssumption == /\ MaxInstances \in [Orgs -> Nat]
                          /\ MaxCPUCores \in [Orgs -> Nat]
                          /\ RegionCPU \in [Regions -> Nat]
ASSUME FiniteAssumption == /\ IsFiniteSet(Clients) /\ Clients # {}
                           /\ IsFiniteSet(Instances)
                           /\ IsFiniteSet(Sizes) /\ Sizes # {}

VARIABLES
    row,     \* compute_instances by id; NoRow: not inserted yet
    req,     \* the create each client has in flight
    revived  \* history: rows made active again after being terminated

vars == <<row, req, revived>>

NoRow == [org |-> "none"]
Idle == [pc |-> "idle"]

Rows == [org : Orgs, region : Regions, cpu : Sizes, active : BOOLEAN]
Creates == [pc : {"quota", "capacity", "insert"},
            org : Orgs, region : Regions, cpu : Sizes]

TypeOK == /\ row \in [Instances -> Rows \cup {NoRow}]
          /\ req \in [Clients -> Creates \cup {Idle}]
          /\ revived \subseteq Instances

Init == /\ row = [i \in Instances |-> NoRow]
        /\ req = [c \in Clients |-> Idle]
        /\ revived = {}

-----------------------------------------------------------------------------
(* ComputeRepository.SumActiveByOrg and SumActiveByRegion.                   *)

Active == {i \in Instances : row[i] # NoRow /\ row[i].active}
OfOrg(o) == {i \in Active : row[i].org = o}
OfRegion(r) == {i \in Active : row[i].region = r}
Cores(set) == SumFunction([i \in set |-> row[i].cpu])

-----------------------------------------------------------------------------
(* Service.Create.                                                           *)

\* Mutant: the default of one core is not applied.
Begin_NoDefault(c, o, r, n) ==
    /\ req[c] = Idle
    /\ req' = [req EXCEPT ![c] = [pc |-> "quota", org |-> o,
                                  region |-> r, cpu |-> 0]]
    /\ UNCHANGED <<row, revived>>

Begin(c, o, r, n) ==
    /\ req[c] = Idle
    /\ req' = [req EXCEPT ![c] = [pc |-> "quota", org |-> o,
                                  region |-> r, cpu |-> n]]
    /\ UNCHANGED <<row, revived>>

\* Mutant: the instance being created is not counted.
WithinQuota_OffByOne(o, n) ==
    /\ Cardinality(OfOrg(o)) <= MaxInstances[o]
    /\ Cores(OfOrg(o)) + n <= MaxCPUCores[o]

WithinQuota(o, n) ==
    /\ Cardinality(OfOrg(o)) + 1 <= MaxInstances[o]
    /\ Cores(OfOrg(o)) + n <= MaxCPUCores[o]

\* Mutant: the region's usage is compared without the cores asked for.
WithinCapacity_NoRequest(r, n) == Cores(OfRegion(r)) <= RegionCPU[r]

WithinCapacity(r, n) == Cores(OfRegion(r)) + n <= RegionCPU[r]

Check(c, from, passes, to) ==
    /\ req[c].pc = from
    /\ req' = [req EXCEPT ![c] = IF passes THEN [@ EXCEPT !.pc = to] ELSE Idle]
    /\ UNCHANGED <<row, revived>>

enforceQuota(c) ==
    Check(c, "quota", WithinQuota(req[c].org, req[c].cpu), "capacity")

enforceCapacity(c) ==
    Check(c, "capacity", WithinCapacity(req[c].region, req[c].cpu), "insert")

\* A membership, store or provider error, a cancelled request, or a restart of
\* the server ends the create; an insert may have been applied all the same.
Abandon(c) ==
    /\ req[c] # Idle
    /\ req' = [req EXCEPT ![c] = Idle]
    /\ UNCHANGED <<row, revived>>

Insert(c, i) ==
    /\ req[c].pc = "insert"
    /\ row[i] = NoRow
    /\ row' = [row EXCEPT ![i] = [org |-> req[c].org, region |-> req[c].region,
                                  cpu |-> req[c].cpu, active |-> TRUE]]
    /\ req' = [req EXCEPT ![c] = Idle]
    /\ UNCHANGED revived

-----------------------------------------------------------------------------
(* UpdateStatus as admission sees it: a row becomes terminated, or a late    *)
(* write of a request or a tick (module Lifecycle) makes it active again.    *)

Release(i) ==
    /\ i \in Active
    /\ row' = [row EXCEPT ![i].active = FALSE]
    /\ UNCHANGED <<req, revived>>

Revive(i) ==
    /\ row[i] # NoRow /\ ~row[i].active
    /\ row' = [row EXCEPT ![i].active = TRUE]
    /\ revived' = revived \cup {i}
    /\ UNCHANGED req

CreateStep(c) ==
    \/ \E o \in Orgs, r \in Regions, n \in Sizes : Begin(c, o, r, n)
    \/ enforceQuota(c) \/ enforceCapacity(c) \/ Abandon(c)
    \/ \E i \in Instances : Insert(c, i)

Next == \/ \E c \in Clients : CreateStep(c)
        \/ \E i \in Instances : Release(i) \/ Revive(i)

Spec == Init /\ [][Next]_vars

-----------------------------------------------------------------------------
(* Properties.                                                               *)

Slack == (Cardinality(Clients) - 1) * Max(Sizes)

\* Nothing is reserved between check and insert, so creates that overlap can
\* overshoot: each client but the last to check adds at most one instance.
\* Beyond that a quota is exceeded only by rows a late write brought back.
\* With one client and no such row this is the quota itself.
InstanceQuota ==
    \A o \in Orgs : Cardinality(OfOrg(o) \ revived)
                        <= MaxInstances[o] + Cardinality(Clients) - 1

\* The same for the sized resources, of an organization and of a region, whose
\* capacity several organizations share.
SizedLimits ==
    /\ \A o \in Orgs : Cores(OfOrg(o) \ revived) <= MaxCPUCores[o] + Slack
    /\ \A r \in Regions : Cores(OfRegion(r) \ revived) <= RegionCPU[r] + Slack
=============================================================================
