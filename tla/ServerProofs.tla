---------------------------- MODULE ServerProofs ----------------------------
(* Theorems about three components of the server that share no state.  How   *)
(* far overlapping creates can exceed a quota or a region's capacity, how    *)
(* many requests the rate limiter lets through, and what the dispatcher of   *)
(* webhooks records and repeats, for any number of clients, organizations,   *)
(* regions, rows, keys, webhooks and deliveries, and for all limits.         *)
EXTENDS Admission, RateLimiter, Webhooks, SumTheorems, WellFoundedInduction

-----------------------------------------------------------------------------
(* Admission: types and the instance quota.                                  *)

\* A create that is past the quota check keeps a well-formed request.
LEMMA CheckType ==
    ASSUME TypeOK, NEW c \in Clients, NEW from \in {"quota", "capacity"},
           NEW passes \in BOOLEAN, NEW to \in {"capacity", "insert"},
           Check(c, from, passes, to)
    PROVE  /\ req[c] \in Creates /\ UNCHANGED <<row, revived>>
           /\ req' \in [Clients -> Creates \cup {Idle}]
           /\ req' = [req EXCEPT ![c] = IF passes THEN [@ EXCEPT !.pc = to]
                                                  ELSE Idle]
<1>1. req[c] \in Creates
  BY DEF TypeOK, Check, Idle
<1>2. [req[c] EXCEPT !.pc = to] \in Creates
  BY <1>1 DEF Creates
<1> QED
  BY <1>1, <1>2 DEF TypeOK, Check

\* Every step keeps the variables in their types.
LEMMA TypeStep == TypeOK /\ [Next]_vars => TypeOK'
<1> SUFFICES ASSUME TypeOK, [Next]_vars PROVE TypeOK'
  OBVIOUS
<1> USE DEF TypeOK
<1>1. ASSUME NEW c \in Clients, NEW o \in Orgs, NEW r \in Regions,
             NEW n \in Sizes, Begin(c, o, r, n)
      PROVE  TypeOK'
  BY <1>1 DEF Begin, Creates
<1>2. ASSUME NEW c \in Clients, enforceQuota(c) PROVE TypeOK'
  <2>1. WithinQuota(req[c].org, req[c].cpu) \in BOOLEAN
    BY DEF WithinQuota
  <2> QED
    BY <1>2, <2>1, CheckType DEF enforceQuota
<1>3. ASSUME NEW c \in Clients, enforceCapacity(c) PROVE TypeOK'
  <2>1. WithinCapacity(req[c].region, req[c].cpu) \in BOOLEAN
    BY DEF WithinCapacity
  <2> QED
    BY <1>3, <2>1, CheckType DEF enforceCapacity
<1>4. ASSUME NEW c \in Clients, Abandon(c) PROVE TypeOK'
  BY <1>4 DEF Abandon
<1>5. ASSUME NEW c \in Clients, NEW i \in Instances, Insert(c, i) PROVE TypeOK'
  <2>1. req[c] \in Creates
    BY <1>5 DEF Insert, Idle
  <2> QED
    BY <1>5, <2>1 DEF Insert, Creates, Rows
<1>6. ASSUME NEW i \in Instances, Release(i) \/ Revive(i) PROVE TypeOK'
  <2>1. row[i] \in Rows
    BY <1>6 DEF Release, Revive, Active
  <2> QED
    BY <1>6, <2>1 DEF Release, Revive, Rows
<1>7. CASE UNCHANGED vars
  BY <1>7 DEF vars
<1> QED
  BY <1>1, <1>2, <1>3, <1>4, <1>5, <1>6, <1>7 DEF Next, CreateStep

\* Every reachable state of admission is well typed.
THEOREM TypeCorrect == Spec => []TypeOK
<1>1. Init => TypeOK
  BY DEF Init, TypeOK
<1> QED
  BY <1>1, TypeStep, PTL DEF Spec

-----------------------------------------------------------------------------
(* The quota bound.  Creates past the quota check are about to add an        *)
(* instance each; they are counted together with the admitted rows.          *)

Admitted(o) == OfOrg(o) \ revived
Past(o) == {c \in Clients : /\ req[c].pc \in {"capacity", "insert"}
                            /\ req[c].org = o}

QuotaBound(o) ==
    Cardinality(Admitted(o)) + Cardinality(Past(o))
        <= MaxInstances[o] + Cardinality(Clients) - 1

QuotaInv == TypeOK /\ \A o \in Orgs : QuotaBound(o)

\* The sets counted are finite.
LEMMA Counted ==
    ASSUME NEW o
    PROVE  /\ IsFiniteSet(Admitted(o)) /\ Cardinality(Admitted(o)) \in Nat
           /\ IsFiniteSet(Past(o)) /\ Cardinality(Past(o)) \in Nat
           /\ IsFiniteSet(OfOrg(o)) /\ Cardinality(OfOrg(o)) \in Nat
           /\ Cardinality(Admitted(o)) <= Cardinality(OfOrg(o))
           /\ Cardinality(Past(o)) <= Cardinality(Clients)
           /\ Cardinality(Clients) \in Nat /\ Cardinality(Clients) >= 1
<1>1. OfOrg(o) \subseteq Instances /\ Admitted(o) \subseteq OfOrg(o)
  BY DEF OfOrg, Active, Admitted
<1>2. Past(o) \subseteq Clients
  BY DEF Past
<1>3. /\ IsFiniteSet(OfOrg(o)) /\ IsFiniteSet(Admitted(o))
      /\ IsFiniteSet(Past(o)) /\ IsFiniteSet(Clients)
  BY <1>1, <1>2, FS_Subset, FiniteAssumption
<1>4. /\ Cardinality(Admitted(o)) <= Cardinality(OfOrg(o))
      /\ Cardinality(Past(o)) <= Cardinality(Clients)
  BY <1>1, <1>2, <1>3, FS_Subset
<1>5. Cardinality(Clients) # 0
  BY <1>3, FS_EmptySet, FiniteAssumption
<1> QED
  BY <1>3, <1>4, <1>5, FS_CardinalityType

\* Where no admitted row and no create past the check is added, the bound stays.
LEMMA BoundShrinks ==
    ASSUME NEW o \in Orgs, QuotaBound(o),
           Admitted(o)' \subseteq Admitted(o), Past(o)' \subseteq Past(o)
    PROVE  QuotaBound(o)'
<1>1. /\ Cardinality(Admitted(o)') <= Cardinality(Admitted(o))
      /\ Cardinality(Admitted(o)') \in Nat
  BY Counted, FS_Subset, FS_CardinalityType
<1>2. /\ Cardinality(Past(o)') <= Cardinality(Past(o))
      /\ Cardinality(Past(o)') \in Nat
  BY Counted, FS_Subset, FS_CardinalityType
<1> QED
  BY <1>1, <1>2, Counted, QuotaAssumption DEF QuotaBound

\* A create passes the check only with room for one more instance, and then at
\* most every client is past it.
LEMMA QuotaChecked ==
    ASSUME QuotaInv, NEW c \in Clients, enforceQuota(c), TypeOK',
           NEW o \in Orgs
    PROVE  QuotaBound(o)'
<1>1. /\ req[c] \in Creates /\ UNCHANGED <<row, revived>>
      /\ req' = [req EXCEPT ![c] =
                    IF WithinQuota(req[c].org, req[c].cpu)
                    THEN [@ EXCEPT !.pc = "capacity"] ELSE Idle]
  <2>1. WithinQuota(req[c].org, req[c].cpu) \in BOOLEAN
    BY DEF WithinQuota
  <2> QED
    BY <2>1, CheckType DEF enforceQuota, QuotaInv
<1>2. Admitted(o)' = Admitted(o)
  BY <1>1 DEF Admitted, OfOrg, Active
<1>3. CASE WithinQuota(req[c].org, req[c].cpu) /\ req[c].org = o
  <2>1. Cardinality(OfOrg(o)) + 1 <= MaxInstances[o]
    BY <1>3 DEF WithinQuota
  <2>2. Past(o)' \subseteq Clients
    BY DEF Past
  <2>3. /\ Cardinality(Past(o)') <= Cardinality(Clients)
        /\ Cardinality(Past(o)') \in Nat
    BY <2>2, FiniteAssumption, FS_Subset, FS_CardinalityType
  <2> QED
    BY <1>2, <2>1, <2>3, Counted, QuotaAssumption DEF QuotaBound
<1>4. CASE ~(WithinQuota(req[c].org, req[c].cpu) /\ req[c].org = o)
  <2>1. \A d \in Clients : d # c => req'[d] = req[d]
    BY <1>1 DEF QuotaInv, TypeOK
  <2>2. req'[c].pc = "idle" \/ req'[c].org # o
    BY <1>1, <1>4 DEF QuotaInv, TypeOK, Creates, Idle
  <2>3. Past(o)' \subseteq Past(o)
    BY <2>1, <2>2 DEF Past
  <2> QED
    BY <1>2, <2>3, BoundShrinks DEF QuotaInv
<1> QED
  BY <1>3, <1>4

\* An insert turns a create past the check into an admitted row.
LEMMA QuotaInserted ==
    ASSUME QuotaInv, NEW c \in Clients, NEW i \in Instances, Insert(c, i),
           NEW o \in Orgs
    PROVE  QuotaBound(o)'
<1>1. req[c].pc = "insert" /\ req[c] \in Creates
  BY DEF Insert, QuotaInv, TypeOK, Idle
<1>2. /\ \A d \in Clients : d # c => req'[d] = req[d]
      /\ req'[c].pc = "idle" /\ revived' = revived
  BY DEF Insert, QuotaInv, TypeOK, Idle
<1>3. Past(o)' = Past(o) \ {c}
  BY <1>2 DEF Past
<1>4. /\ \A j \in Instances : j # i => row'[j] = row[j]
      /\ row'[i].org = req[c].org
  BY DEF Insert, QuotaInv, TypeOK
<1>5. CASE req[c].org # o
  <2>1. Admitted(o)' \subseteq Admitted(o)
    BY <1>2, <1>4, <1>5 DEF Admitted, OfOrg, Active
  <2> QED
    BY <1>3, <2>1, BoundShrinks DEF QuotaInv
<1>6. CASE req[c].org = o
  <2>1. Admitted(o)' \subseteq Admitted(o) \cup {i}
    BY <1>2, <1>4 DEF Admitted, OfOrg, Active
  <2>2. /\ IsFiniteSet(Admitted(o) \cup {i})
        /\ Cardinality(Admitted(o) \cup {i}) <= Cardinality(Admitted(o)) + 1
        /\ Cardinality(Admitted(o) \cup {i}) \in Nat
    <3>1. IsFiniteSet(Admitted(o)) /\ Cardinality(Admitted(o)) \in Nat
      BY Counted
    <3>2. /\ IsFiniteSet(Admitted(o) \cup {i})
          /\ Cardinality(Admitted(o) \cup {i}) =
                IF i \in Admitted(o) THEN Cardinality(Admitted(o))
                                     ELSE Cardinality(Admitted(o)) + 1
      BY <3>1, FS_AddElement
    <3> QED
      BY <3>1, <3>2
  <2>3. /\ Cardinality(Admitted(o)') <= Cardinality(Admitted(o) \cup {i})
        /\ Cardinality(Admitted(o)') \in Nat
    BY <2>1, <2>2, FS_Subset, FS_CardinalityType
  <2>4. c \in Past(o)
    BY <1>1, <1>6 DEF Past
  <2>5. Cardinality(Past(o)') = Cardinality(Past(o)) - 1
    BY <1>3, <2>4, Counted, FS_RemoveElement
  <2> QED
    BY <2>2, <2>3, <2>5, Counted, QuotaAssumption DEF QuotaBound, QuotaInv
<1> QED
  BY <1>5, <1>6

\* Every step keeps the invariant.
LEMMA QuotaStep == QuotaInv /\ [Next]_vars => QuotaInv'
<1> SUFFICES ASSUME QuotaInv, [Next]_vars, TypeOK', NEW o \in Orgs
             PROVE  QuotaBound(o)'
  BY TypeStep DEF QuotaInv
<1>0. TypeOK /\ TypeOK'
  BY DEF QuotaInv
<1>1. ASSUME Past(o)' \subseteq Past(o), Admitted(o)' \subseteq Admitted(o)
      PROVE  QuotaBound(o)'
  BY <1>1, BoundShrinks DEF QuotaInv
<1>2. ASSUME NEW c \in Clients, NEW oo \in Orgs, NEW r \in Regions,
             NEW n \in Sizes, Begin(c, oo, r, n)
      PROVE  QuotaBound(o)'
  BY <1>0, <1>1, <1>2 DEF Begin, Past, Admitted, OfOrg, Active, TypeOK
<1>3. ASSUME NEW c \in Clients, enforceQuota(c) PROVE QuotaBound(o)'
  BY <1>0, <1>3, QuotaChecked
<1>4. ASSUME NEW c \in Clients, enforceCapacity(c) PROVE QuotaBound(o)'
  <2>1. WithinCapacity(req[c].region, req[c].cpu) \in BOOLEAN
    BY DEF WithinCapacity
  <2>2. /\ req[c] \in Creates /\ UNCHANGED <<row, revived>>
        /\ req[c].pc = "capacity"
        /\ \A d \in Clients : d # c => req'[d] = req[d]
        /\ req'[c] = Idle \/ req'[c] = [req[c] EXCEPT !.pc = "insert"]
    BY <1>0, <1>4, <2>1, CheckType DEF enforceCapacity, Check, TypeOK
  <2>3. req'[c].pc = "idle" \/ req'[c].org = req[c].org
    BY <2>2 DEF Idle, Creates
  <2> QED
    BY <1>1, <2>2, <2>3 DEF Past, Admitted, OfOrg, Active
<1>5. ASSUME NEW c \in Clients, Abandon(c) PROVE QuotaBound(o)'
  BY <1>0, <1>1, <1>5 DEF Abandon, Past, Admitted, OfOrg, Active, TypeOK, Idle
<1>6. ASSUME NEW c \in Clients, NEW i \in Instances, Insert(c, i)
      PROVE  QuotaBound(o)'
  BY <1>6, QuotaInserted
<1>7. ASSUME NEW i \in Instances, Release(i) \/ Revive(i)
      PROVE  QuotaBound(o)'
  <2>1. req' = req /\ revived \subseteq revived'
    BY <1>7 DEF Release, Revive
  <2>2. row[i] \in Rows
    BY <1>0, <1>7 DEF Release, Revive, Active, TypeOK
  <2>3. Admitted(o)' \subseteq Admitted(o)
    BY <1>0, <1>7, <2>2
    DEF Release, Revive, Admitted, OfOrg, Active, TypeOK, Rows
  <2> QED
    BY <1>1, <2>1, <2>3 DEF Past
<1>8. CASE UNCHANGED vars
  <2>1. req' = req /\ row' = row /\ revived' = revived
    BY <1>8 DEF vars
  <2>2. Past(o)' = Past(o)
    BY <2>1 DEF Past
  <2>3. Admitted(o)' = Admitted(o)
    BY <2>1 DEF Admitted, OfOrg, Active
  <2> QED
    BY <1>1, <2>2, <2>3
<1> QED
  BY <1>0, <1>2, <1>3, <1>4, <1>5, <1>6, <1>7, <1>8 DEF Next, CreateStep

\* Any number of overlapping creates exceed an instance quota by at most one
\* less than the number of clients; a lone client never exceeds it.
THEOREM QuotaOvershoot == Spec => []InstanceQuota
<1>1. Init => QuotaInv
  <2>1. Init => TypeOK
    BY DEF Init, TypeOK
  <2> SUFFICES ASSUME Init, NEW o \in Orgs PROVE QuotaBound(o)
    BY <2>1 DEF QuotaInv
  <2>2. Admitted(o) = {} /\ Past(o) = {}
    BY DEF Init, Admitted, OfOrg, Active, Past, Idle
  <2> QED
    BY <2>2, Counted, FS_EmptySet, QuotaAssumption DEF QuotaBound
<1>2. QuotaInv => InstanceQuota
  BY Counted, QuotaAssumption DEF QuotaInv, QuotaBound, InstanceQuota, Admitted
<1> QED
  BY <1>1, <1>2, QuotaStep, PTL DEF Spec

-----------------------------------------------------------------------------
(* Admission: the sized resources.  Creates past the quota check hold a      *)
(* claim on the organization's cores, those past the capacity check on the   *)
(* region's; claims and admitted rows are bounded together.                  *)

Size == Max(Sizes)

\* Sizes are positive and none exceeds Size.
LEMMA LargestSize == Size \in Nat /\ \A n \in Sizes : n \in Nat /\ n <= Size
<1> DEFINE Bounds(T, n) == n \in T /\ \A m \in T : m <= n
           endless == {T \in SUBSET Sizes : T # {} /\ \A n : ~Bounds(T, n)}
<1>1. ASSUME endless # {} PROVE FALSE
  <2>1. IsWellFoundedOn(StrictSubsetOrdering(Sizes), SUBSET Sizes)
    BY FiniteAssumption, FS_StrictSubsetOrderingWellFounded, FS_FiniteSubsetsOfFinite
  <2>2. PICK T \in endless :
              \A U \in endless : <<U, T>> \notin StrictSubsetOrdering(Sizes)
    BY <1>1, <2>1, WFMin
  <2>3. PICK e \in T : e \in Nat
    BY <2>2, SizesAssumption
  <2>4. T \ {e} \notin endless
    BY <2>2, <2>3 DEF StrictSubsetOrdering
  <2>5. T # {e}
    BY <2>2, <2>3
  <2>6. PICK n : Bounds(T \ {e}, n)
    BY <2>2, <2>3, <2>4, <2>5
  <2>7. n \in Nat
    BY <2>2, <2>6, SizesAssumption
  <2>8. CASE n <= e
    <3>1. Bounds(T, e)
      BY <2>2, <2>3, <2>6, <2>7, <2>8, SizesAssumption
    <3> QED
      BY <2>2, <3>1
  <2>9. CASE e <= n
    <3>1. Bounds(T, n)
      BY <2>3, <2>6, <2>7, <2>9
    <3> QED
      BY <2>2, <3>1
  <2> QED
    BY <2>3, <2>7, <2>8, <2>9
<1>2. PICK n : Bounds(Sizes, n)
  BY <1>1, FiniteAssumption
<1>3. n \in Sizes /\ \A m \in Sizes : n >= m
  BY <1>2, SizesAssumption
<1>4. Size \in Sizes /\ \A m \in Sizes : Size >= m
  BY <1>3 DEF Size, Max
<1> QED
  BY <1>4, SizesAssumption

\* The cores of some rows, or of some requests.
CoresIn(table, set) == SumFunction([x \in set |-> table[x].cpu])
Measured(table, set) == IsFiniteSet(set) /\ \A x \in set : table[x].cpu \in Sizes

Bounded(rows, admitted, claims, past, limit) ==
    CoresIn(rows, admitted) + CoresIn(claims, past) <= limit + Slack

\* Sums of cores are numbers, and fewer rows have no more cores.
LEMMA CoresType ==
    ASSUME NEW table, NEW set, Measured(table, set)
    PROVE  /\ [x \in set |-> table[x].cpu] \in [set -> Nat]
           /\ CoresIn(table, set) \in Nat
<1>1. [x \in set |-> table[x].cpu] \in [set -> Nat]
  BY LargestSize DEF Measured
<1> QED
  BY <1>1, SumCounts DEF CoresIn, Measured

LEMMA FewerCores ==
    ASSUME NEW old, NEW set, Measured(old, set),
           NEW new, NEW part \in SUBSET set,
           \A x \in part : new[x].cpu = old[x].cpu
    PROVE  /\ Measured(new, part)
           /\ CoresIn(new, part) <= CoresIn(old, set)
<1>1. Measured(new, part)
  BY FS_Subset DEF Measured
<1>2. /\ [x \in set |-> old[x].cpu] \in [set -> Nat]
      /\ [x \in part |-> new[x].cpu] \in [part -> Nat]
  BY <1>1, CoresType
<1>3. \A x \in part : old[x].cpu \in Nat /\ new[x].cpu <= old[x].cpu
  BY LargestSize DEF Measured
<1>4. SumFunction([x \in part |-> new[x].cpu]) <= SumFunction([x \in set |-> old[x].cpu])
  BY <1>2, <1>3, SumMonotone DEF Measured
<1> QED
  BY <1>1, <1>4 DEF CoresIn

\* One more row adds its cores.
LEMMA OneMoreRow ==
    ASSUME NEW old, NEW set, Measured(old, set), NEW e, e \notin set,
           NEW new, \A x \in set : new[x].cpu = old[x].cpu,
           new[e].cpu \in Sizes
    PROVE  /\ Measured(new, set \cup {e})
           /\ CoresIn(new, set \cup {e}) = CoresIn(old, set) + new[e].cpu
<1> DEFINE f == [x \in set |-> old[x].cpu]
           g == [x \in set \cup {e} |-> new[x].cpu]
<1>1. Measured(new, set \cup {e})
  BY FS_AddElement DEF Measured
<1>2. f \in [set -> Nat] /\ g \in [set \cup {e} -> Nat]
  BY <1>1, CoresType
<1>3. (\A x \in set : g[x] = f[x]) /\ g[e] = new[e].cpu
  OBVIOUS
<1>4. IsFiniteSet(set)
  BY DEF Measured
<1>5. \A ff \in [set -> Nat], gg \in [set \cup {e} -> Nat] :
          (\A x \in set : gg[x] = ff[x]) => SumFunction(gg) = SumFunction(ff) + gg[e]
  BY <1>4, SumOfOneMore
<1> HIDE DEF f, g
<1>6. SumFunction(g) = SumFunction(f) + g[e]
  BY <1>2, <1>3, <1>5
<1> QED
  BY <1>1, <1>3, <1>6 DEF CoresIn, f, g

LEMMA SlackType == Slack \in Nat /\ Slack = (Cardinality(Clients) - 1) * Size
<1>1. Cardinality(Clients) - 1 \in Nat /\ Size \in Nat
  BY Counted, LargestSize
<1> QED
  BY <1>1 DEF Slack, Size

\* Where no admitted row and no claim is added, the bound stays.
LEMMA FewerClaims ==
    ASSUME NEW rows, NEW admitted, Measured(rows, admitted),
           NEW claims, NEW past, Measured(claims, past),
           NEW rows2, NEW admitted2 \in SUBSET admitted,
           \A i \in admitted2 : rows2[i].cpu = rows[i].cpu,
           NEW claims2, NEW past2 \in SUBSET past,
           \A c \in past2 : claims2[c].cpu = claims[c].cpu,
           NEW limit \in Nat, Bounded(rows, admitted, claims, past, limit)
    PROVE  Bounded(rows2, admitted2, claims2, past2, limit)
<1>1. /\ CoresIn(rows2, admitted2) <= CoresIn(rows, admitted)
      /\ CoresIn(rows2, admitted2) \in Nat /\ CoresIn(rows, admitted) \in Nat
  BY FewerCores, CoresType
<1>2. /\ CoresIn(claims2, past2) <= CoresIn(claims, past)
      /\ CoresIn(claims2, past2) \in Nat /\ CoresIn(claims, past) \in Nat
  BY FewerCores, CoresType
<1> QED
  BY <1>1, <1>2, SlackType DEF Bounded

\* A create that passes a check fits with all active rows; each of the other
\* clients holds a claim of at most Size.
LEMMA ClaimChecked ==
    ASSUME NEW rows, NEW active, Measured(rows, active),
           NEW admitted \in SUBSET active,
           NEW claims, NEW past \in SUBSET Clients, Measured(claims, past),
           NEW c \in past, NEW limit \in Nat,
           CoresIn(rows, active) + claims[c].cpu <= limit
    PROVE  Bounded(rows, admitted, claims, past, limit)
<1> DEFINE others == past \ {c}
<1>1. Measured(claims, others) /\ c \notin others /\ others \cup {c} = past
  BY FewerCores
<1>2. CoresIn(claims, past) = CoresIn(claims, others) + claims[c].cpu
  <2>1. claims[c].cpu \in Sizes
    BY DEF Measured
  <2>2. CoresIn(claims, others \cup {c}) = CoresIn(claims, others) + claims[c].cpu
    BY <1>1, <2>1, OneMoreRow
  <2> QED
    BY <1>1, <2>2
<1>3. CoresIn(claims, others) <= Cardinality(others) * Size
  <2>1. [x \in others |-> claims[x].cpu] \in [others -> Nat] /\ Size \in Nat
    BY <1>1, CoresType, LargestSize
  <2>2. \A x \in others : claims[x].cpu <= Size
    BY <1>1, LargestSize DEF Measured
  <2> QED
    BY <1>1, <2>1, <2>2, SumBounded DEF CoresIn, Measured
<1>4. Cardinality(others) * Size <= Slack
  <2>1. others \subseteq Clients \ {c} /\ IsFiniteSet(Clients) /\ c \in Clients
    BY FiniteAssumption
  <2>2. /\ Cardinality(Clients \ {c}) = Cardinality(Clients) - 1
        /\ IsFiniteSet(Clients \ {c})
    BY <2>1, FS_RemoveElement
  <2>3. /\ Cardinality(others) <= Cardinality(Clients) - 1
        /\ Cardinality(others) \in Nat /\ Cardinality(Clients) - 1 \in Nat
    BY <2>1, <2>2, Counted, FS_Subset, FS_CardinalityType
  <2> QED
    BY <2>3, LargestSize, ProductOrder, SlackType
<1>5. Cardinality(others) * Size \in Nat
  BY <1>1, LargestSize, FS_CardinalityType DEF Measured
<1>6. /\ CoresIn(rows, admitted) <= CoresIn(rows, active)
      /\ CoresIn(rows, admitted) \in Nat /\ CoresIn(rows, active) \in Nat
  BY FewerCores, CoresType
<1>7. CoresIn(claims, others) \in Nat /\ claims[c].cpu \in Nat
  BY <1>1, CoresType, LargestSize DEF Measured
<1> HIDE DEF others
<1> QED
  BY <1>2, <1>3, <1>4, <1>5, <1>6, <1>7, SlackType DEF Bounded

\* An insert turns a claim into an admitted row of the same size.
LEMMA ClaimInserted ==
    ASSUME NEW rows, NEW admitted, Measured(rows, admitted),
           NEW claims, NEW past, Measured(claims, past),
           NEW c \in past, NEW i, i \notin admitted,
           NEW rows2, \A j \in admitted : rows2[j].cpu = rows[j].cpu,
           rows2[i].cpu = claims[c].cpu,
           NEW claims2, \A d \in past \ {c} : claims2[d].cpu = claims[d].cpu,
           NEW limit \in Nat, Bounded(rows, admitted, claims, past, limit)
    PROVE  Bounded(rows2, admitted \cup {i}, claims2, past \ {c}, limit)
<1> DEFINE others == past \ {c}
<1>1. claims[c].cpu \in Sizes
  BY DEF Measured
<1>2. CoresIn(rows2, admitted \cup {i}) = CoresIn(rows, admitted) + claims[c].cpu
  BY <1>1, OneMoreRow
<1>3. Measured(claims, others) /\ c \notin others /\ others \cup {c} = past
  BY FewerCores
<1>4. CoresIn(claims, past) = CoresIn(claims, others) + claims[c].cpu
  <2>1. CoresIn(claims, others \cup {c}) = CoresIn(claims, others) + claims[c].cpu
    BY <1>1, <1>3, OneMoreRow
  <2> QED
    BY <1>3, <2>1
<1>5. CoresIn(claims2, others) <= CoresIn(claims, others) /\ Measured(claims2, others)
  BY <1>3, FewerCores
<1>6. /\ CoresIn(rows, admitted) \in Nat /\ CoresIn(claims, others) \in Nat
      /\ CoresIn(claims2, others) \in Nat /\ claims[c].cpu \in Nat
  BY <1>1, <1>3, <1>5, CoresType, LargestSize
<1>7. CoresIn(rows, admitted) + CoresIn(claims, others) + claims[c].cpu <= limit + Slack
  BY <1>4, <1>6 DEF Bounded
<1> HIDE DEF others
<1>8. CoresIn(rows2, admitted \cup {i}) + CoresIn(claims2, others) <= limit + Slack
  BY <1>2, <1>5, <1>6, <1>7, SlackType
<1> QED
  BY <1>8 DEF Bounded, others

Rented(r) == OfRegion(r) \ revived
Cleared(r) == {c \in Clients : req[c].pc = "insert" /\ req[c].region = r}

CoresBound(o) == Bounded(row, Admitted(o), req, Past(o), MaxCPUCores[o])
CapacityBound(r) == Bounded(row, Rented(r), req, Cleared(r), RegionCPU[r])

SizedInv ==
    /\ TypeOK
    /\ \A o \in Orgs : CoresBound(o)
    /\ \A r \in Regions : CapacityBound(r)

\* Whatever is counted has a size.
LEMMA AllMeasured ==
    ASSUME TypeOK, NEW o, NEW r
    PROVE  /\ Measured(row, OfOrg(o)) /\ Measured(row, Admitted(o))
           /\ Measured(row, OfRegion(r)) /\ Measured(row, Rented(r))
           /\ Measured(req, Past(o)) /\ Measured(req, Cleared(r))
<1>1. \A i \in Active : row[i].cpu \in Sizes
  BY DEF TypeOK, Active, Rows
<1>2. \A c \in Clients : req[c].pc # "idle" => req[c].cpu \in Sizes
  BY DEF TypeOK, Creates, Idle
<1>3. /\ OfOrg(o) \subseteq Active /\ Admitted(o) \subseteq OfOrg(o)
      /\ OfRegion(r) \subseteq Active /\ Rented(r) \subseteq OfRegion(r)
      /\ Past(o) \subseteq Clients /\ Cleared(r) \subseteq Clients
      /\ Active \subseteq Instances
  BY DEF OfOrg, Admitted, OfRegion, Rented, Past, Cleared, Active
<1>4. /\ IsFiniteSet(OfOrg(o)) /\ IsFiniteSet(Admitted(o))
      /\ IsFiniteSet(OfRegion(r)) /\ IsFiniteSet(Rented(r))
      /\ IsFiniteSet(Past(o)) /\ IsFiniteSet(Cleared(r))
  BY <1>3, FS_Subset, FiniteAssumption
<1>5. \A c \in Past(o) \cup Cleared(r) : req[c].pc # "idle"
  BY DEF Past, Cleared
<1> QED
  BY <1>1, <1>2, <1>3, <1>4, <1>5 DEF Measured

\* Cores, as the checks sum them up.
LEMMA CoresOfRows == \A set : Cores(set) = CoresIn(row, set)
BY DEF Cores, CoresIn

\* Where rows and requests keep their sizes and no admitted row and no claim is
\* added, both bounds stay.
LEMMA BoundsShrink ==
    ASSUME SizedInv, NEW o, NEW r,
           \A i \in Instances : row[i] # NoRow => row'[i].cpu = row[i].cpu,
           \A c \in Clients :
               req'[c].pc # "idle" /\ req[c].pc # "idle" => req'[c].cpu = req[c].cpu,
           Admitted(o)' \subseteq Admitted(o), Past(o)' \subseteq Past(o),
           Rented(r)' \subseteq Rented(r), Cleared(r)' \subseteq Cleared(r)
    PROVE  /\ o \in Orgs => CoresBound(o)'
           /\ r \in Regions => CapacityBound(r)'
<1>1. /\ Measured(row, Admitted(o)) /\ Measured(row, Rented(r))
      /\ Measured(req, Past(o)) /\ Measured(req, Cleared(r))
  BY AllMeasured DEF SizedInv
<1>2. \A i \in Admitted(o) \cup Rented(r) : row'[i].cpu = row[i].cpu
  BY DEF Admitted, Rented, OfOrg, OfRegion, Active
<1>3. \A c \in Past(o)' \cup Cleared(r)' : req'[c].cpu = req[c].cpu
  <2>1. \A c \in Past(o)' \cup Cleared(r)' : c \in Clients /\ req'[c].pc # "idle"
    BY DEF Past, Cleared
  <2>2. \A c \in Past(o) \cup Cleared(r) : req[c].pc # "idle"
    BY DEF Past, Cleared
  <2> QED
    BY <2>1, <2>2
<1>4. (o \in Orgs => MaxCPUCores[o] \in Nat) /\ (r \in Regions => RegionCPU[r] \in Nat)
  BY QuotaAssumption
<1>5. ASSUME o \in Orgs
      PROVE  Bounded(row', Admitted(o)', req', Past(o)', MaxCPUCores[o])
  <2> USE <1>5
  <2>1. Bounded(row, Admitted(o), req, Past(o), MaxCPUCores[o])
    BY DEF SizedInv, CoresBound
  <2> QED
    BY <1>1, <1>2, <1>3, <1>4, <2>1, FewerClaims
<1>6. ASSUME r \in Regions
      PROVE  Bounded(row', Rented(r)', req', Cleared(r)', RegionCPU[r])
  <2> USE <1>6
  <2>1. Bounded(row, Rented(r), req, Cleared(r), RegionCPU[r])
    BY DEF SizedInv, CapacityBound
  <2> QED
    BY <1>1, <1>2, <1>3, <1>4, <2>1, FewerClaims
<1> QED
  BY <1>5, <1>6 DEF CoresBound, CapacityBound

\* A check keeps the rows and the other requests.  One that fails gives up its
\* claim; one that passes claims no more than what the bound allows.
LEMMA SizedChecked ==
    ASSUME SizedInv, TypeOK', NEW c \in Clients, NEW from \in {"quota", "capacity"},
           NEW passes \in BOOLEAN, NEW to \in {"capacity", "insert"},
           Check(c, from, passes, to), NEW o, NEW r,
           from = "quota" => to = "capacity" /\ passes = WithinQuota(req[c].org, req[c].cpu),
           from = "capacity" =>
               to = "insert" /\ passes = WithinCapacity(req[c].region, req[c].cpu)
    PROVE  /\ o \in Orgs => CoresBound(o)'
           /\ r \in Regions => CapacityBound(r)'
<1>1. /\ req[c] \in Creates /\ req[c].pc = from /\ UNCHANGED <<row, revived>>
      /\ req' = [req EXCEPT ![c] = IF passes THEN [@ EXCEPT !.pc = to] ELSE Idle]
  BY CheckType DEF SizedInv, Check
<1>2. /\ \A d \in Clients : d # c => req'[d] = req[d]
      /\ ~passes => req'[c].pc = "idle"
      /\ passes => /\ req'[c].pc = to /\ req'[c].org = req[c].org
                   /\ req'[c].region = req[c].region /\ req'[c].cpu = req[c].cpu
  BY <1>1 DEF SizedInv, TypeOK, Creates, Idle
<1>3. \A d \in Clients :
          req'[d].pc # "idle" /\ req[d].pc # "idle" => req'[d].cpu = req[d].cpu
  BY <1>2
<1>4. Admitted(o)' = Admitted(o) /\ Rented(r)' = Rented(r)
  BY <1>1 DEF Admitted, Rented, OfOrg, OfRegion, Active
<1>5. /\ Measured(row, OfOrg(o)) /\ Measured(row, OfRegion(r))
      /\ Admitted(o) \in SUBSET OfOrg(o) /\ Rented(r) \in SUBSET OfRegion(r)
      /\ Measured(req, Past(o)) /\ Measured(req, Cleared(r))
      /\ Measured(row, Admitted(o)) /\ Measured(row, Rented(r))
  BY AllMeasured DEF SizedInv, Admitted, Rented
<1>6. (o \in Orgs => MaxCPUCores[o] \in Nat) /\ (r \in Regions => RegionCPU[r] \in Nat)
  BY QuotaAssumption
<1>7. /\ o \in Orgs => Bounded(row, Admitted(o), req, Past(o), MaxCPUCores[o])
      /\ r \in Regions => Bounded(row, Rented(r), req, Cleared(r), RegionCPU[r])
  BY DEF SizedInv, CoresBound, CapacityBound
<1>8. IsFiniteSet(Past(o)') /\ IsFiniteSet(Cleared(r)')
  <2>1. Past(o)' \subseteq Clients /\ Cleared(r)' \subseteq Clients
    BY DEF Past, Cleared
  <2> QED
    BY <2>1, FiniteAssumption, FS_Subset
<1>9. Measured(req', Past(o)') /\ Measured(req', Cleared(r)')
  <2>1. \A d \in Clients : req'[d].pc # "idle" => req'[d].cpu \in Sizes
    BY DEF TypeOK, Creates, Idle
  <2> QED
    BY <1>8, <2>1 DEF Measured, Past, Cleared
<1>10. ASSUME o \in Orgs
      PROVE  Bounded(row', Admitted(o)', req', Past(o)', MaxCPUCores[o])
  <2> USE <1>10
  <2>1. CASE passes /\ from = "quota" /\ req[c].org = o
    <3>1. CoresIn(row, OfOrg(o)) + req'[c].cpu <= MaxCPUCores[o]
      BY <1>2, <2>1, CoresOfRows DEF WithinQuota
    <3>2. c \in Past(o)' /\ Past(o)' \in SUBSET Clients
      BY <1>2, <2>1 DEF Past
    <3> QED
      BY <1>1, <1>4, <1>5, <1>6, <1>9, <3>1, <3>2, ClaimChecked
  <2>2. CASE ~(passes /\ from = "quota" /\ req[c].org = o)
    <3>1. Past(o)' \subseteq Past(o)
      BY <1>1, <1>2, <2>2 DEF Past
    <3>2. \A d \in Past(o)' : req'[d].cpu = req[d].cpu
      BY <1>3, <3>1 DEF Past
    <3>3. Bounded(row, Admitted(o), req', Past(o)', MaxCPUCores[o])
      BY <1>5, <1>6, <1>7, <3>1, <3>2, FewerClaims
    <3> QED
      BY <1>1, <1>4, <3>3
  <2> QED
    BY <2>1, <2>2
<1>11. ASSUME r \in Regions
      PROVE  Bounded(row', Rented(r)', req', Cleared(r)', RegionCPU[r])
  <2> USE <1>11
  <2>1. CASE passes /\ from = "capacity" /\ req[c].region = r
    <3>1. CoresIn(row, OfRegion(r)) + req'[c].cpu <= RegionCPU[r]
      BY <1>2, <2>1, CoresOfRows DEF WithinCapacity
    <3>2. c \in Cleared(r)' /\ Cleared(r)' \in SUBSET Clients
      BY <1>2, <2>1 DEF Cleared
    <3> QED
      BY <1>1, <1>4, <1>5, <1>6, <1>9, <3>1, <3>2, ClaimChecked
  <2>2. CASE ~(passes /\ from = "capacity" /\ req[c].region = r)
    <3>1. Cleared(r)' \subseteq Cleared(r)
      BY <1>1, <1>2, <2>2 DEF Cleared
    <3>2. \A d \in Cleared(r)' : req'[d].cpu = req[d].cpu
      BY <1>3, <3>1 DEF Cleared
    <3>3. Bounded(row, Rented(r), req', Cleared(r)', RegionCPU[r])
      BY <1>5, <1>6, <1>7, <3>1, <3>2, FewerClaims
    <3> QED
      BY <1>1, <1>4, <3>3
  <2> QED
    BY <2>1, <2>2
<1> QED
  BY <1>10, <1>11 DEF CoresBound, CapacityBound

\* An insert moves a claim on both limits into a row.
LEMMA SizedInserted ==
    ASSUME SizedInv, NEW c \in Clients, NEW i \in Instances, Insert(c, i),
           NEW o, NEW r
    PROVE  /\ o \in Orgs => CoresBound(o)'
           /\ r \in Regions => CapacityBound(r)'
<1>1. /\ req[c].pc = "insert" /\ req[c] \in Creates /\ row[i] = NoRow
      /\ \A d \in Clients : d # c => req'[d] = req[d]
      /\ req'[c].pc = "idle" /\ revived' = revived
  BY DEF Insert, SizedInv, TypeOK, Idle
<1>2. /\ \A j \in Instances : j # i => row'[j] = row[j]
      /\ row'[i].org = req[c].org /\ row'[i].region = req[c].region
      /\ row'[i].cpu = req[c].cpu
  BY DEF Insert, SizedInv, TypeOK
<1>3. Past(o)' = Past(o) \ {c} /\ Cleared(r)' = Cleared(r) \ {c}
  BY <1>1 DEF Past, Cleared
<1>4. /\ i \notin Admitted(o) /\ i \notin Rented(r)
      /\ \A j \in Admitted(o) \cup Rented(r) : row'[j].cpu = row[j].cpu
  BY <1>1, <1>2 DEF Admitted, Rented, OfOrg, OfRegion, Active
<1>5. /\ Measured(req, Past(o)) /\ Measured(req, Cleared(r))
      /\ Measured(row, Admitted(o)) /\ Measured(row, Rented(r))
  BY AllMeasured DEF SizedInv
<1>6. (o \in Orgs => MaxCPUCores[o] \in Nat) /\ (r \in Regions => RegionCPU[r] \in Nat)
  BY QuotaAssumption
<1>7. /\ o \in Orgs => Bounded(row, Admitted(o), req, Past(o), MaxCPUCores[o])
      /\ r \in Regions => Bounded(row, Rented(r), req, Cleared(r), RegionCPU[r])
  BY DEF SizedInv, CoresBound, CapacityBound
<1>8. \A d \in (Past(o) \cup Cleared(r)) \ {c} : req'[d].cpu = req[d].cpu
  BY <1>1 DEF Past, Cleared
<1>9. ASSUME o \in Orgs
      PROVE  Bounded(row', Admitted(o)', req', Past(o)', MaxCPUCores[o])
  <2> USE <1>9
  <2>1. Bounded(row', Admitted(o) \cup {i}, req', Past(o) \ {c}, MaxCPUCores[o])
        \/ req[c].org # o
    <3>1. c \in Past(o) \/ req[c].org # o
      BY <1>1 DEF Past
    <3> QED
      BY <1>2, <1>4, <1>5, <1>6, <1>7, <1>8, <3>1, ClaimInserted
  <2>2. Bounded(row', Admitted(o), req', Past(o) \ {c}, MaxCPUCores[o])
    BY <1>4, <1>5, <1>6, <1>7, <1>8, FewerClaims
  <2>3. Admitted(o)' = Admitted(o) \cup {i} \/ Admitted(o)' = Admitted(o)
    BY <1>1, <1>2 DEF Admitted, OfOrg, Active
  <2>4. req[c].org # o => Admitted(o)' = Admitted(o)
    BY <1>1, <1>2 DEF Admitted, OfOrg, Active
  <2> QED
    BY <1>3, <2>1, <2>2, <2>3, <2>4
<1>10. ASSUME r \in Regions
      PROVE  Bounded(row', Rented(r)', req', Cleared(r)', RegionCPU[r])
  <2> USE <1>10
  <2>1. Bounded(row', Rented(r) \cup {i}, req', Cleared(r) \ {c}, RegionCPU[r])
        \/ req[c].region # r
    <3>1. c \in Cleared(r) \/ req[c].region # r
      BY <1>1 DEF Cleared
    <3> QED
      BY <1>2, <1>4, <1>5, <1>6, <1>7, <1>8, <3>1, ClaimInserted
  <2>2. Bounded(row', Rented(r), req', Cleared(r) \ {c}, RegionCPU[r])
    BY <1>4, <1>5, <1>6, <1>7, <1>8, FewerClaims
  <2>3. Rented(r)' = Rented(r) \cup {i} \/ Rented(r)' = Rented(r)
    BY <1>1, <1>2 DEF Rented, OfRegion, Active
  <2>4. req[c].region # r => Rented(r)' = Rented(r)
    BY <1>1, <1>2 DEF Rented, OfRegion, Active
  <2> QED
    BY <1>3, <2>1, <2>2, <2>3, <2>4
<1> QED
  BY <1>9, <1>10 DEF CoresBound, CapacityBound

\* Every step keeps the bounds.
LEMMA SizedStep == SizedInv /\ [Next]_vars => SizedInv'
<1> SUFFICES ASSUME SizedInv, [Next]_vars, TypeOK', NEW o, NEW r
             PROVE  /\ o \in Orgs => CoresBound(o)'
                    /\ r \in Regions => CapacityBound(r)'
  BY TypeStep DEF SizedInv
<1> DEFINE Goal == /\ o \in Orgs => CoresBound(o)'
                   /\ r \in Regions => CapacityBound(r)'
<1>0. TypeOK /\ TypeOK'
  BY DEF SizedInv
<1>1. ASSUME \A i \in Instances : row[i] # NoRow => row'[i].cpu = row[i].cpu,
             \A c \in Clients :
                 req'[c].pc # "idle" /\ req[c].pc # "idle" => req'[c].cpu = req[c].cpu,
             Admitted(o)' \subseteq Admitted(o), Past(o)' \subseteq Past(o),
             Rented(r)' \subseteq Rented(r), Cleared(r)' \subseteq Cleared(r)
      PROVE  Goal
  BY <1>1, BoundsShrink
<1>2. ASSUME NEW c \in Clients, NEW oo \in Orgs, NEW rr \in Regions,
             NEW n \in Sizes, Begin(c, oo, rr, n)
      PROVE  Goal
  <2>1. /\ req[c].pc = "idle" /\ req'[c].pc = "quota" /\ row' = row
        /\ revived' = revived /\ \A d \in Clients : d # c => req'[d] = req[d]
    BY <1>0, <1>2 DEF Begin, TypeOK, Idle
  <2>2. Admitted(o)' = Admitted(o) /\ Rented(r)' = Rented(r)
    BY <2>1 DEF Admitted, Rented, OfOrg, OfRegion, Active
  <2>3. Past(o)' \subseteq Past(o) /\ Cleared(r)' \subseteq Cleared(r)
    BY <2>1 DEF Past, Cleared
  <2>4. /\ \A i \in Instances : row'[i].cpu = row[i].cpu
        /\ \A d \in Clients :
               req'[d].pc # "idle" /\ req[d].pc # "idle" => req'[d].cpu = req[d].cpu
    BY <2>1
  <2> QED
    BY <1>1, <2>2, <2>3, <2>4
<1>3. ASSUME NEW c \in Clients, enforceQuota(c) PROVE Goal
  <2>1. WithinQuota(req[c].org, req[c].cpu) \in BOOLEAN
    BY DEF WithinQuota
  <2>2. Check(c, "quota", WithinQuota(req[c].org, req[c].cpu), "capacity")
    BY <1>3 DEF enforceQuota
  <2> QED
    BY <1>0, <2>1, <2>2, SizedChecked
<1>4. ASSUME NEW c \in Clients, enforceCapacity(c) PROVE Goal
  <2>1. WithinCapacity(req[c].region, req[c].cpu) \in BOOLEAN
    BY DEF WithinCapacity
  <2>2. Check(c, "capacity", WithinCapacity(req[c].region, req[c].cpu), "insert")
    BY <1>4 DEF enforceCapacity
  <2> QED
    BY <1>0, <2>1, <2>2, SizedChecked
<1>5. ASSUME NEW c \in Clients, Abandon(c) PROVE Goal
  <2>1. /\ req'[c].pc = "idle" /\ row' = row
        /\ revived' = revived /\ \A d \in Clients : d # c => req'[d] = req[d]
    BY <1>0, <1>5 DEF Abandon, TypeOK, Idle
  <2>2. Admitted(o)' = Admitted(o) /\ Rented(r)' = Rented(r)
    BY <2>1 DEF Admitted, Rented, OfOrg, OfRegion, Active
  <2>3. Past(o)' \subseteq Past(o) /\ Cleared(r)' \subseteq Cleared(r)
    BY <2>1 DEF Past, Cleared
  <2>4. /\ \A i \in Instances : row'[i].cpu = row[i].cpu
        /\ \A d \in Clients :
               req'[d].pc # "idle" /\ req[d].pc # "idle" => req'[d].cpu = req[d].cpu
    BY <2>1
  <2> QED
    BY <1>1, <2>2, <2>3, <2>4
<1>6. ASSUME NEW c \in Clients, NEW i \in Instances, Insert(c, i) PROVE Goal
  BY <1>6, SizedInserted
<1>7. ASSUME NEW i \in Instances, Release(i) \/ Revive(i) PROVE Goal
  <2>1. /\ req' = req /\ revived \subseteq revived' /\ row[i] \in Rows
        /\ Revive(i) => i \in revived'
        /\ \A j \in Instances : j # i => row'[j] = row[j]
        /\ row'[i].org = row[i].org /\ row'[i].region = row[i].region
        /\ row'[i].cpu = row[i].cpu /\ (Release(i) => ~row'[i].active)
    BY <1>0, <1>7 DEF Release, Revive, Active, TypeOK, Rows
  <2>2. /\ i \notin Admitted(o)' /\ i \notin Rented(r)'
        /\ \A j \in Instances : j # i =>
               /\ j \in Admitted(o)' => j \in Admitted(o)
               /\ j \in Rented(r)' => j \in Rented(r)
    BY <1>7, <2>1 DEF Admitted, Rented, OfOrg, OfRegion, Active
  <2>3. Admitted(o)' \subseteq Admitted(o) /\ Rented(r)' \subseteq Rented(r)
    <3>1. Admitted(o)' \subseteq Instances /\ Rented(r)' \subseteq Instances
      BY DEF Admitted, Rented, OfOrg, OfRegion, Active
    <3> QED
      BY <2>2, <3>1
  <2>4. Past(o)' = Past(o) /\ Cleared(r)' = Cleared(r)
    BY <2>1 DEF Past, Cleared
  <2>5. \A j \in Instances : row'[j].cpu = row[j].cpu
    BY <2>1
  <2> QED
    BY <1>1, <2>1, <2>3, <2>4, <2>5
<1>8. CASE UNCHANGED vars
  <2>1. req' = req /\ row' = row /\ revived' = revived
    BY <1>8 DEF vars
  <2>2. Past(o)' = Past(o) /\ Cleared(r)' = Cleared(r)
    BY <2>1 DEF Past, Cleared
  <2>3. Admitted(o)' = Admitted(o) /\ Rented(r)' = Rented(r)
    BY <2>1 DEF Admitted, Rented, OfOrg, OfRegion, Active
  <2> QED
    BY <1>1, <2>1, <2>2, <2>3
<1> QED
  BY <1>2, <1>3, <1>4, <1>5, <1>6, <1>7, <1>8 DEF Next, CreateStep

\* Overlapping creates exceed the sized limits of an organization or a region by
\* at most one largest instance per client but the last, however many
\* organizations share the region.
THEOREM SizedOvershoot == Spec => []SizedLimits
<1>1. Init => SizedInv
  <2>1. Init => TypeOK
    BY DEF Init, TypeOK
  <2> SUFFICES ASSUME Init, NEW o, NEW r
               PROVE  /\ o \in Orgs => CoresBound(o)
                      /\ r \in Regions => CapacityBound(r)
    BY <2>1 DEF SizedInv
  <2>2. /\ Admitted(o) = {} /\ Rented(r) = {} /\ Past(o) = {} /\ Cleared(r) = {}
    BY DEF Init, Admitted, Rented, OfOrg, OfRegion, Active, Past, Cleared, Idle
  <2>3. CoresIn(row, {}) = 0 /\ CoresIn(req, {}) = 0
    BY SumOfNothing DEF CoresIn
  <2> QED
    BY <2>2, <2>3, SlackType, QuotaAssumption DEF CoresBound, CapacityBound, Bounded
<1>2. SizedInv => SizedLimits
  <2> SUFFICES ASSUME SizedInv, NEW o, NEW r
               PROVE  /\ o \in Orgs => Cores(OfOrg(o) \ revived) <= MaxCPUCores[o] + Slack
                      /\ r \in Regions => Cores(OfRegion(r) \ revived) <= RegionCPU[r] + Slack
    BY DEF SizedLimits
  <2>1. /\ CoresIn(row, Admitted(o)) \in Nat /\ CoresIn(req, Past(o)) \in Nat
        /\ CoresIn(row, Rented(r)) \in Nat /\ CoresIn(req, Cleared(r)) \in Nat
    BY AllMeasured, CoresType DEF SizedInv
  <2>2. /\ o \in Orgs => CoresIn(row, Admitted(o)) <= MaxCPUCores[o] + Slack
        /\ r \in Regions => CoresIn(row, Rented(r)) <= RegionCPU[r] + Slack
    BY <2>1, SlackType, QuotaAssumption DEF SizedInv, CoresBound, CapacityBound, Bounded
  <2> QED
    BY <2>2, CoresOfRows DEF Admitted, Rented
<1> QED
  BY <1>1, <1>2, SizedStep, PTL DEF Spec

-----------------------------------------------------------------------------
(* The rate limiter: it keeps to its token budget, for every rate, burst,    *)
(* interval and cleanup age.                                                 *)

Visitors == [tokens : 0..Burst, age : 0..MaxAge]

\* Whole intervals refill no more than the time that has passed.
LEMMA WholeIntervals ==
    ASSUME NEW age \in Nat
    PROVE  /\ age \div Interval \in Nat
           /\ ((age \div Interval) * Rate) * Interval <= age * Rate
           /\ age >= Interval => age \div Interval >= 1
<1> DEFINE q == age \div Interval
<1>1. q \in Nat /\ q * Interval <= age /\ (age >= Interval => q >= 1)
  BY ParameterAssumption
<1>2. q * Interval \in Nat /\ Rate \in Nat /\ Interval \in Nat
  BY <1>1, ParameterAssumption
<1> HIDE DEF q
<1>3. (q * Interval) * Rate <= age * Rate
  BY <1>1, <1>2, ProductOrder
<1>4. (q * Rate) * Interval = (q * Interval) * Rate
  BY <1>1, <1>2
<1> QED
  BY <1>1, <1>3, <1>4 DEF q

\* What Refilled returns: at most Burst tokens, at least one after an interval,
\* and no more than the budget covers.
LEMMA RefilledBounds ==
    ASSUME LimiterTypeOK, NEW k \in Keys, Known(k)
    PROVE  /\ visitors[k] \in Visitors
           /\ Refilled(k) \in 0..Burst
           /\ Refilled(k) * Interval <= Budget(visitors[k])
           /\ visitors[k].age >= Interval => Refilled(k) > 0
<1> DEFINE t == visitors[k].tokens
           age == visitors[k].age
           r == (age \div Interval) * Rate
<1>1. visitors[k] \in Visitors
  BY DEF LimiterTypeOK, Known, Visitors
<1>2. t \in 0..Burst /\ age \in Nat /\ Burst \in Nat \ {0} /\ Rate \in Nat \ {0}
      /\ Interval \in Nat \ {0}
  BY <1>1, ParameterAssumption DEF Visitors, MaxAge
<1>3. r \in Nat /\ r * Interval <= age * Rate /\ (age >= Interval => r > 0)
  <2> DEFINE q == age \div Interval
  <2>1. q \in Nat /\ (q * Rate) * Interval <= age * Rate
        /\ (age >= Interval => q >= 1)
    BY <1>2, WholeIntervals
  <2> HIDE DEF q
  <2>2. q * Rate \in Nat /\ (q >= 1 => q * Rate > 0)
    BY <1>2, <2>1
  <2> QED
    BY <2>1, <2>2 DEF q
<1>4. Refilled(k) = IF t + r > Burst THEN Burst ELSE t + r
  BY DEF Refilled
<1>5. Budget(visitors[k]) = IF t * Interval + age * Rate > Burst * Interval
                            THEN Burst * Interval ELSE t * Interval + age * Rate
  BY DEF Budget, Known
<1> HIDE DEF t, age, r
<1>6. Refilled(k) \in 0..Burst
  BY <1>2, <1>3, <1>4
<1>7. (t + r) * Interval = t * Interval + r * Interval
  BY <1>2, <1>3
<1>8. /\ t * Interval \in Nat /\ r * Interval \in Nat
      /\ age * Rate \in Nat /\ Burst * Interval \in Nat
  BY <1>2, <1>3
<1>9. Refilled(k) * Interval <= Burst * Interval
  BY <1>2, <1>6, ProductOrder
<1>10. Refilled(k) * Interval <= (t + r) * Interval
  BY <1>2, <1>3, <1>4, <1>6, ProductOrder
<1>11. Refilled(k) * Interval <= Budget(visitors[k])
  BY <1>2, <1>3, <1>5, <1>6, <1>7, <1>8, <1>9, <1>10
<1>12. ASSUME age >= Interval PROVE Refilled(k) > 0
  <2>1. r > 0 /\ r \in Nat
    BY <1>3, <1>12
  <2>2. t + r > 0
    BY <1>2, <2>1
  <2> QED
    BY <1>2, <1>4, <2>1, <2>2
<1> QED
  BY <1>1, <1>6, <1>11, <1>12 DEF age

\* Every step keeps the variables in their types.
LEMMA LimiterTypeStep == LimiterTypeOK /\ [LimiterNext]_limiterVars => LimiterTypeOK'
<1> SUFFICES ASSUME LimiterTypeOK, [LimiterNext]_limiterVars PROVE LimiterTypeOK'
  OBVIOUS
<1> USE ParameterAssumption DEF LimiterTypeOK, MaxAge
<1>1. ASSUME NEW k \in Keys, Welcome(k) PROVE LimiterTypeOK'
  BY <1>1 DEF Welcome, Visitor
<1>2. ASSUME NEW k \in Keys, Grant(k) PROVE LimiterTypeOK'
  <2>1. Refilled(k) - 1 \in 0..Burst
    BY <1>2, RefilledBounds DEF Grant
  <2> QED
    BY <1>2, <2>1 DEF Grant, Visitor
<1>3. ASSUME NEW k \in Keys, Refuse(k) PROVE LimiterTypeOK'
  <2>1. Refilled(k) \in 0..Burst
    BY <1>3, RefilledBounds DEF Refuse
  <2> QED
    BY <1>3, <2>1 DEF Refuse, Visitor
<1>4. CASE Tick
  <2> SUFFICES ASSUME NEW k \in Keys
               PROVE  Older(visitors[k]) \in [tokens : 0..Burst, age : 0..MaxAge]
                                                  \cup {Unseen}
    BY <1>4 DEF Tick
  <2> QED
    BY DEF Older
<1>5. CASE cleanup
  BY <1>5 DEF cleanup
<1>6. CASE UNCHANGED limiterVars
  BY <1>6 DEF limiterVars
<1> QED
  BY <1>1, <1>2, <1>3, <1>4, <1>5, <1>6 DEF LimiterNext, allow

\* Every reachable state of the limiter is well typed.
THEOREM LimiterTypeCorrect == LimiterSpec => []LimiterTypeOK
<1>1. LimiterInit => LimiterTypeOK
  BY DEF LimiterInit, LimiterTypeOK
<1> QED
  BY <1>1, LimiterTypeStep, PTL DEF LimiterSpec

\* A client that waits for one interval is served (PauseIsEnough).
THEOREM PauseServes == LimiterSpec => PauseIsEnough
<1>1. LimiterTypeOK /\ [LimiterNext]_limiterVars =>
        [\A k \in Keys :
            (allow(k) /\ Known(k) /\ visitors[k].age >= Interval)
                => served'[k] # served[k]]_limiterVars
  <2> SUFFICES ASSUME LimiterTypeOK, NEW k \in Keys, allow(k), Known(k),
                      visitors[k].age >= Interval
               PROVE  served'[k] # served[k]
    OBVIOUS
  <2>1. Refilled(k) > 0 /\ Refilled(k) \in 0..Burst
    BY RefilledBounds
  <2>2. Grant(k)
    BY <2>1, ParameterAssumption DEF allow, Welcome, Refuse
  <2>3. served[k] \in {0, 1} /\ served'[k] = 1 - served[k]
    BY <2>2 DEF Grant, LimiterTypeOK
  <2> QED
    BY <2>3
<1> QED
  BY <1>1, LimiterTypeCorrect, PTL DEF LimiterSpec, PauseIsEnough

-----------------------------------------------------------------------------
(* The refinement.                                                           *)

levels == [k \in Keys |-> Budget(visitors[k])]

\* Budgets are numbers up to a full bucket.
LEMMA BudgetType ==
    ASSUME NEW v \in Visitors \cup {Unseen}
    PROVE  Budget(v) \in 0..(Burst * Interval) /\ Burst * Interval \in Nat
<1>1. Burst * Interval \in Nat /\ Burst \in Nat /\ Interval \in Nat /\ Rate \in Nat
  BY ParameterAssumption
<1>2. CASE v = Unseen
  BY <1>1, <1>2 DEF Budget
<1>3. CASE v \in Visitors
  <2>1. v.tokens \in Nat /\ v.age \in Nat
    BY <1>3, ParameterAssumption DEF Visitors, MaxAge
  <2>2. v.tokens * Interval \in Nat /\ v.age * Rate \in Nat
    BY <1>1, <2>1
  <2> QED
    BY <1>1, <2>2 DEF Budget
<1> QED
  BY <1>2, <1>3

\* A visitor just seen can use its tokens and nothing else.
LEMMA VisitorBudget ==
    ASSUME NEW t \in 0..Burst
    PROVE  Budget(Visitor(t)) = t * Interval
<1>1. Visitor(t).tokens = t /\ Visitor(t).age = 0 /\ Visitor(t) # Unseen
  BY DEF Visitor, Unseen
<1>2. Interval \in Nat /\ Rate \in Nat /\ Burst \in Nat /\ t \in Nat /\ t <= Burst
  BY ParameterAssumption
<1>3. 0 * Rate = 0 /\ t * Interval \in Nat /\ Burst * Interval \in Nat
  BY <1>2
<1>4. t * Interval <= Burst * Interval
  BY <1>2, ProductOrder
<1> QED
  BY <1>1, <1>3, <1>4 DEF Budget

\* A visitor old enough to be deleted has a full budget.
LEMMA OldIsFull ==
    ASSUME NEW v \in Visitors, v.age >= CleanupAge
    PROVE  Budget(v) = Burst * Interval
<1>1. /\ v.age \in Nat /\ v.tokens \in Nat /\ CleanupAge \in Nat
      /\ Rate \in Nat /\ Burst \in Nat /\ Interval \in Nat
  BY ParameterAssumption DEF Visitors, MaxAge
<1>2. CleanupAge * Rate <= v.age * Rate
  BY <1>1, ProductOrder
<1>3. /\ v.tokens * Interval \in Nat /\ v.age * Rate \in Nat
      /\ CleanupAge * Rate \in Nat /\ Burst * Interval \in Nat
  BY <1>1
<1> QED
  BY <1>2, <1>3, CleanupAssumption DEF Budget

\* A unit of time adds Rate to a budget, up to a full one.
LEMMA BudgetGrows ==
    ASSUME NEW v \in Visitors \cup {Unseen}
    PROVE  Budget(Older(v)) = IF Budget(v) + Rate > Burst * Interval
                              THEN Burst * Interval ELSE Budget(v) + Rate
<1>1. Rate \in Nat \ {0} /\ Burst \in Nat /\ Interval \in Nat /\ CleanupAge \in Nat
      /\ Burst * Interval \in Nat
  BY ParameterAssumption
<1>2. CASE v = Unseen
  BY <1>1, <1>2 DEF Budget, Older
<1>3. CASE v \in Visitors /\ v.age = MaxAge
  <2>1. Older(v) = v /\ v.age >= CleanupAge
    BY <1>1, <1>3 DEF Older, MaxAge
  <2>2. Budget(v) = Burst * Interval
    BY <1>3, <2>1, OldIsFull
  <2> QED
    BY <1>1, <2>1, <2>2
<1>4. CASE v \in Visitors /\ v.age # MaxAge
  <2>1. Older(v) = [v EXCEPT !.age = @ + 1] /\ v # Unseen
    BY <1>4 DEF Older, Visitors, Unseen
  <2>2. /\ v.tokens \in Nat /\ v.age \in Nat
        /\ Older(v).tokens = v.tokens /\ Older(v).age = v.age + 1
        /\ Older(v) # Unseen
    BY <1>1, <1>4, <2>1 DEF Visitors, MaxAge, Unseen
  <2>3. (v.age + 1) * Rate = v.age * Rate + Rate
    BY <1>1, <2>2
  <2>4. v.tokens * Interval \in Nat /\ v.age * Rate \in Nat
    BY <1>1, <2>2
  <2> QED
    BY <1>1, <2>1, <2>2, <2>3, <2>4 DEF Budget
<1> QED
  BY <1>2, <1>3, <1>4

\* A key whose entry becomes v has the budget of v, the others keep theirs.
LEMMA OneBudget ==
    ASSUME LimiterTypeOK, NEW k \in Keys, NEW v,
           visitors' = [visitors EXCEPT ![k] = v]
    PROVE  levels' = [levels EXCEPT ![k] = Budget(v)]
<1> QED
  BY DEF levels, LimiterTypeOK

\* Serving a request takes an interval's worth from the budget.
LEMMA ServeStep ==
    ASSUME LimiterTypeOK, NEW k \in Keys, Welcome(k) \/ Grant(k)
    PROVE  Promise!Serve(k)
<1> DEFINE n == IF Known(k) THEN Refilled(k) ELSE Burst
<1>1. n \in 1..Burst
  BY RefilledBounds, ParameterAssumption DEF Welcome, Grant
<1>2. n * Interval <= levels[k]
  <2>1. CASE Known(k)
    BY <2>1, RefilledBounds DEF levels
  <2>2. CASE ~Known(k)
    <3>1. levels[k] = Burst * Interval
      BY <2>2 DEF levels, Budget, Known
    <3>2. Burst * Interval \in Nat
      BY ParameterAssumption
    <3> QED
      BY <2>2, <3>1, <3>2
  <2> QED
    BY <2>1, <2>2
<1>3. /\ visitors' = [visitors EXCEPT ![k] = Visitor(n - 1)]
      /\ served' = [served EXCEPT ![k] = 1 - @]
  BY DEF Welcome, Grant
<1> HIDE DEF n
<1>4. n - 1 \in 0..Burst /\ Interval \in Nat /\ n \in Nat
  BY <1>1, ParameterAssumption
<1>5. levels' = [levels EXCEPT ![k] = (n - 1) * Interval]
  BY <1>3, <1>4, OneBudget, VisitorBudget
<1>6. (n - 1) * Interval = n * Interval - Interval /\ (n - 1) * Interval \in Nat
      /\ n * Interval \in Nat
  BY <1>4
<1>7. levels[k] \in Nat
  BY BudgetType DEF levels, LimiterTypeOK, Visitors
<1>8. (n - 1) * Interval \in 0..(levels[k] - Interval)
  BY <1>2, <1>4, <1>6, <1>7
<1> QED
  BY <1>3, <1>5, <1>8 DEF Promise!Serve, levels

\* A refused request leaves at most the budget there was.
LEMMA RefuseStep ==
    ASSUME LimiterTypeOK, NEW k \in Keys, Refuse(k)
    PROVE  Promise!Forfeit(k)
<1>1. Refilled(k) \in 0..Burst /\ Refilled(k) * Interval <= levels[k]
  BY RefilledBounds DEF levels, Refuse
<1>2. levels' = [levels EXCEPT ![k] = Refilled(k) * Interval]
  BY <1>1, OneBudget, VisitorBudget DEF Refuse
<1>3. Refilled(k) * Interval \in Nat
  BY <1>1, ParameterAssumption
<1>4. levels[k] \in Nat
  BY BudgetType DEF levels, LimiterTypeOK, Visitors
<1>5. Refilled(k) * Interval \in 0..levels[k]
  BY <1>1, <1>3, <1>4
<1> QED
  BY <1>2, <1>5 DEF Promise!Forfeit, levels, Refuse

\* The limiter implements its token budget.
THEOREM KeepsBudget == LimiterSpec => WithinBudget
<1>1. LimiterInit => Promise!Init
  BY DEF LimiterInit, Promise!Init, Budget
<1>2. LimiterTypeOK /\ [LimiterNext]_limiterVars => [Promise!Next]_<<levels, served>>
  <2> SUFFICES ASSUME LimiterTypeOK, [LimiterNext]_limiterVars
               PROVE  Promise!Next \/ UNCHANGED <<levels, served>>
    OBVIOUS
  <2>1. ASSUME NEW k \in Keys, allow(k) PROVE Promise!Next
    BY <2>1, ServeStep, RefuseStep DEF allow, Promise!Next
  <2>2. CASE Tick
    <3>1. \A k \in Keys : visitors[k] \in Visitors \cup {Unseen}
      BY DEF LimiterTypeOK, Visitors
    <3>2. levels' = [k \in Keys |-> Promise!Grown(levels[k])]
      BY <2>2, <3>1, BudgetGrows DEF Tick, levels, Promise!Grown
    <3> QED
      BY <2>2, <3>2 DEF Tick, Promise!Pass, Promise!Next, levels
  <2>3. CASE cleanup
    <3>1. ASSUME NEW k \in Keys PROVE Budget(visitors'[k]) = Budget(visitors[k])
      <4>1. CASE Known(k) /\ visitors[k].age > CleanupAge
        <5>1. visitors[k] \in Visitors /\ visitors[k].age >= CleanupAge
          BY <4>1, RefilledBounds, ParameterAssumption DEF Visitors, MaxAge
        <5>2. Budget(visitors[k]) = Burst * Interval
          BY <5>1, OldIsFull
        <5> QED
          BY <2>3, <4>1, <5>2 DEF cleanup, Budget
      <4>2. CASE ~(Known(k) /\ visitors[k].age > CleanupAge)
        BY <2>3, <4>2 DEF cleanup
      <4> QED
        BY <4>1, <4>2
    <3> QED
      BY <2>3, <3>1 DEF cleanup, levels
  <2>4. CASE UNCHANGED limiterVars
    BY <2>4 DEF limiterVars, levels
  <2> QED
    BY <2>1, <2>2, <2>3, <2>4 DEF LimiterNext
<1> QED
  BY <1>1, <1>2, LimiterTypeCorrect, PTL DEF LimiterSpec, WithinBudget, Promise!Spec, levels

-----------------------------------------------------------------------------
(* Sequences with some of their elements left out.                           *)

\* Induction over an interval, for a set instead of a predicate.
LEMMA IntervalInduction ==
    ASSUME NEW N \in Nat, NEW good, 0 \in good,
           \A n \in 1..N : n - 1 \in good => n \in good
    PROVE  0..N \subseteq good
<1> DEFINE bad == {n \in 0..N : n \notin good}
           initial == {1..n : n \in bad}
<1> SUFFICES ASSUME bad # {} PROVE FALSE
  OBVIOUS
<1>1. IsWellFoundedOn(StrictSubsetOrdering(1..N), SUBSET (1..N))
  <2>1. PICK touched : touched = 1..N
    OBVIOUS
  <2>2. IsFiniteSet(touched)
    BY <2>1, FS_Interval
  <2>3. FiniteSubsetsOf(touched) = SUBSET touched
    BY <2>2, FS_FiniteSubsetsOfFinite
  <2>4. IsWellFoundedOn(StrictSubsetOrdering(touched), FiniteSubsetsOf(touched))
    BY FS_StrictSubsetOrderingWellFounded
  <2>5. IsWellFoundedOn(StrictSubsetOrdering(touched), SUBSET touched)
    BY <2>3, <2>4
  <2> QED  BY <2>1, <2>5
<1>2. initial \subseteq SUBSET (1..N) /\ initial # {}
  OBVIOUS
<1> HIDE DEF initial
<1>3. PICK T \in initial : \A U \in initial : <<U, T>> \notin StrictSubsetOrdering(1..N)
  BY <1>1, <1>2, WFMin
<1>4. PICK n \in bad : T = 1..n
  BY <1>3 DEF initial
<1>5. n \in 1..N /\ n - 1 \in bad
  BY <1>4
<1>6. 1..(n - 1) \in initial /\ 1..(n - 1) \in SUBSET (1..N) /\ 1..n \in SUBSET (1..N)
  BY <1>5 DEF initial
<1>7. 1..(n - 1) \subseteq 1..n /\ n \in 1..n /\ n \notin 1..(n - 1)
  BY <1>5
<1>8. <<1..(n - 1), T>> \in StrictSubsetOrdering(1..N)
  BY <1>4, <1>6, <1>7 DEF StrictSubsetOrdering
<1> QED
  BY <1>3, <1>6, <1>8

Keeps(g, s, S, m) ==
    g = [n \in 0..m |-> IF n = 0 THEN <<>>
                        ELSE IF s[n] \in S THEN Append(g[n - 1], s[n])
                        ELSE g[n - 1]]

\* The recursion that defines Among has a solution.
LEMMA KeepsExists ==
    ASSUME NEW s, NEW S, NEW N \in Nat
    PROVE  \E g : Keeps(g, s, S, N)
<1> DEFINE good == {n \in 0..N : \E g : Keeps(g, s, S, n)}
<1>1. 0 \in good
  <2> DEFINE g == [n \in 0..0 |-> <<>>]
  <2>1. ASSUME NEW n \in 0..0 
        PROVE g[n] = IF n = 0 THEN <<>> ELSE IF s[n] \in S THEN Append(g[n - 1], s[n]) ELSE g[n - 1]
    OBVIOUS
  <2>2. Keeps(g, s, S, 0)
    BY <2>1 DEF Keeps
  <2> QED  BY <2>2
<1>2. ASSUME NEW n \in 1..N, n - 1 \in good PROVE n \in good
  <2>1. PICK g : Keeps(g, s, S, n - 1)
    BY <1>2
  <2> DEFINE h == [k \in 0..n |-> IF k < n THEN g[k]
                                  ELSE IF s[n] \in S THEN Append(g[n - 1], s[n])
                                  ELSE g[n - 1]]
  <2>2. ASSUME NEW k \in 0..n
        PROVE  h[k] = IF k = 0 THEN <<>>
                      ELSE IF s[k] \in S THEN Append(h[k - 1], s[k])
                      ELSE h[k - 1]
    <3>1. CASE k = n
      BY <3>1
    <3>2. CASE k < n
      <4>1. k \in 0..(n - 1) /\ (k # 0 => k - 1 \in 0..n /\ k - 1 < n)
        BY <3>2
      <4>2. g[k] = IF k = 0 THEN <<>>
                   ELSE IF s[k] \in S THEN Append(g[k - 1], s[k])
                   ELSE g[k - 1]
        BY <2>1, <4>1 DEF Keeps
      <4> QED  BY <3>2, <4>1, <4>2
    <3> QED  BY <3>1, <3>2
  <2> HIDE DEF h
  <2>3. h = [k \in 0..n |-> h[k]]
    BY DEF h
  <2>4. Keeps(h, s, S, n)
    BY <2>2, <2>3 DEF Keeps
  <2> QED  BY <2>4
<1> HIDE DEF good
<1>3. 0..N \subseteq good
  BY <1>1, <1>2, IntervalInduction
<1> QED
  BY <1>3 DEF good

LEMMA AmongKeeps ==
    ASSUME NEW T, NEW s \in Seq(T), NEW S
    PROVE  \E g : Keeps(g, s, S, Len(s)) /\ Among(s, S) = g[Len(s)]
<1>1. Among(s, S) = (CHOOSE g : Keeps(g, s, S, Len(s)))[Len(s)]
  BY DEF Among, Keeps
<1>2. Len(s) \in Nat
  OBVIOUS
<1> QED
  BY <1>1, <1>2, KeepsExists

Distinct(s) == \A i, j \in DOMAIN s : s[i] = s[j] => i = j

\* What is left of a sequence, and that nothing is repeated that was not before.
LEMMA AmongSequence ==
    ASSUME NEW T, NEW s \in Seq(T), NEW S
    PROVE  /\ Among(s, S) \in Seq(T)
           /\ \A k \in DOMAIN Among(s, S) :
                 Among(s, S)[k] \in S /\ \E i \in DOMAIN s : s[i] = Among(s, S)[k]
           /\ Distinct(s) => Distinct(Among(s, S))
<1>1. PICK g : Keeps(g, s, S, Len(s)) /\ Among(s, S) = g[Len(s)]
  BY AmongKeeps
<1> DEFINE Part(n) ==
             /\ g[n] \in Seq(T)
             /\ \A k \in 1..Len(g[n]) : g[n][k] \in S /\ \E i \in 1..n : s[i] = g[n][k]
             /\ Distinct(s) => \A i, j \in 1..Len(g[n]) : g[n][i] = g[n][j] => i = j
           good == {n \in 0..Len(s) : Part(n)}
<1>2. Len(s) \in Nat /\ DOMAIN s = 1..Len(s)
  OBVIOUS
<1>3. \A n \in 0..Len(s) : g[n] = IF n = 0 THEN <<>>
                                  ELSE IF s[n] \in S THEN Append(g[n - 1], s[n])
                                  ELSE g[n - 1]
  BY <1>1 DEF Keeps
<1>4. 0 \in good
  <2>1. 0 \in 0..Len(s) /\ g[0] = <<>>
    BY <1>2, <1>3
  <2>2. g[0] \in Seq(T) /\ 1..Len(g[0]) = {}
    BY <2>1
  <2>3. Part(0)
    BY <2>2
  <2> QED  BY <2>1, <2>3
<1>5. ASSUME NEW n \in 1..Len(s), n - 1 \in good PROVE n \in good
  <2>1. n \in 0..Len(s) /\ n - 1 \in 0..Len(s) /\ s[n] \in T /\ n # 0
    BY <1>2
  <2>2. Part(n - 1)
    BY <1>5
  <2>3. CASE s[n] \notin S
    <3>1. g[n] = g[n - 1]
      BY <1>3, <2>1, <2>3
    <3> QED  BY <2>1, <2>2, <3>1
  <2>4. CASE s[n] \in S
    <3>1. g[n] = Append(g[n - 1], s[n]) /\ g[n - 1] \in Seq(T)
      BY <1>3, <2>1, <2>2, <2>4
    <3>2. /\ g[n] \in Seq(T) /\ Len(g[n]) = Len(g[n - 1]) + 1
          /\ \A k \in 1..Len(g[n - 1]) : g[n][k] = g[n - 1][k]
          /\ g[n][Len(g[n])] = s[n] /\ Len(g[n - 1]) \in Nat
      BY <2>1, <3>1
    <3>3. \A k \in 1..Len(g[n]) : k \in 1..Len(g[n - 1]) \/ k = Len(g[n])
      BY <3>2
    <3>4. ASSUME NEW k \in 1..Len(g[n])
          PROVE  g[n][k] \in S /\ \E i \in 1..n : s[i] = g[n][k]
      <4>1. CASE k = Len(g[n])
        BY <2>1, <2>4, <3>2, <4>1
      <4>2. CASE k \in 1..Len(g[n - 1])
        <5>1. g[n][k] = g[n - 1][k]
          BY <3>2, <4>2
        <5>2. g[n - 1][k] \in S /\ \E i \in 1..(n - 1) : s[i] = g[n - 1][k]
          BY <2>2, <4>2
        <5>3. 1..(n - 1) \subseteq 1..n
          BY <2>1
        <5> QED  BY <5>1, <5>2, <5>3
      <4> QED  BY <3>3, <4>1, <4>2
    <3>5. ASSUME Distinct(s), NEW i \in 1..Len(g[n]), NEW j \in 1..Len(g[n]),
                 g[n][i] = g[n][j]
          PROVE  i = j
      <4>1. ASSUME NEW k \in 1..Len(g[n - 1]) PROVE g[n][k] # s[n]
        <5>1. PICK i0 \in 1..(n - 1) : s[i0] = g[n - 1][k]
          BY <2>2, <4>1
        <5>2. i0 # n /\ i0 \in DOMAIN s /\ n \in DOMAIN s
          BY <1>2, <2>1
        <5>3. s[i0] # s[n]
          BY <3>5, <5>2 DEF Distinct
        <5>4. g[n][k] = g[n - 1][k]
          BY <3>2, <4>1
        <5> QED  BY <5>1, <5>3, <5>4
      <4> QED  BY <2>2, <3>2, <3>3, <3>5, <4>1
    <3> QED  BY <2>1, <3>2, <3>4, <3>5
  <2> QED  BY <2>3, <2>4
<1> HIDE DEF good
<1>6. 0..Len(s) \subseteq good
  BY <1>2, <1>4, <1>5, IntervalInduction
<1>7. Part(Len(s))
  BY <1>2, <1>6 DEF good
<1>8. PICK r : r = Among(s, S)
  OBVIOUS
<1>9. r \in Seq(T) /\ DOMAIN r = 1..Len(r)
  BY <1>1, <1>7, <1>8
<1>10. \A k \in DOMAIN r : r[k] \in S /\ \E i \in DOMAIN s : s[i] = r[k]
  BY <1>1, <1>2, <1>7, <1>8, <1>9
<1>11. Distinct(s) => Distinct(r)
  BY <1>1, <1>7, <1>8, <1>9 DEF Distinct
<1> QED
  BY <1>8, <1>9, <1>10, <1>11

-----------------------------------------------------------------------------
(* The queue of webhooks.                                                    *)

\* An arrangement of a finite set has every element of the set.
LEMMA ArrangesAll ==
    ASSUME NEW S, IsFiniteSet(S), NEW order \in SetToSeqs(S)
    PROVE  /\ order \in Seq(S) /\ DOMAIN order = 1..Cardinality(S)
           /\ Len(order) = Cardinality(S)
           /\ Distinct(order)
           /\ \A d \in S : \E k \in DOMAIN order : order[k] = d
<1>1. Cardinality(S) \in Nat
  BY FS_CardinalityType
<1>2. PICK D : D = 1..Cardinality(S)
  OBVIOUS
<1>3. IsFiniteSet(D) /\ Cardinality(D) = Cardinality(S)
  BY <1>1, <1>2, FS_Interval
<1>4. order \in [D -> S] /\ \A i, j \in D : i # j => order[i] # order[j]
  BY <1>2 DEF SetToSeqs
<1>5. order \in Injection(D, S)
  BY <1>4 DEF Injection, IsInjective
<1>6. order \in Surjection(D, S)
  BY <1>3, <1>5, FS_Injection
<1>7. \A d \in S : \E k \in D : order[k] = d
  BY <1>6 DEF Surjection
<1>8. order \in Seq(S) /\ DOMAIN order = D /\ Len(order) = Cardinality(S)
  BY <1>1, <1>2, <1>4
<1> QED
  BY <1>2, <1>4, <1>7, <1>8 DEF Distinct

\* Enqueuing fills unused ids and puts them last in line, each once.
Enqueues(ids) ==
    /\ ids \subseteq {d \in Deliveries : delivery[d] = Unused}
    /\ \A d \in Deliveries : IF d \in ids THEN \E w \in Hooks : delivery'[d] = Fresh(w)
                                          ELSE delivery'[d] = delivery[d]
    /\ delivery' \in [Deliveries -> DeliveryRows \cup {Unused, Deleted}]
    /\ \E order \in Seq(ids) : Distinct(order) /\ line' = line \o order
    /\ UNCHANGED <<update, working, faults, history>>
    /\ UNCHANGED hook

LEMMA FreshType ==
    ASSUME NEW w \in Hooks
    PROVE  Fresh(w) \in DeliveryRows /\ Fresh(w).status = "pending"
BY BoundAssumption DEF Fresh, DeliveryRows

LEMMA PingEnqueues ==
    ASSUME WebhooksTypeOK, NEW w \in Hooks, NEW d \in Deliveries, Ping(w, d)
    PROVE  Enqueues({d})
<1>1. line \in Seq(Deliveries) /\ delivery \in [Deliveries -> DeliveryRows \cup {Unused, Deleted}]
  BY DEF WebhooksTypeOK
<1>2. /\ delivery[d] = Unused /\ delivery' = [delivery EXCEPT ![d] = Fresh(w)]
      /\ line' = Append(line, d)
  BY DEF Ping
<1>3. /\ <<d>> \in Seq({d}) /\ Distinct(<<d>>) /\ line' = line \o <<d>>
  BY <1>1, <1>2 DEF Distinct
<1>4. \A e \in Deliveries : IF e \in {d} THEN \E v \in Hooks : delivery'[e] = Fresh(v)
                                         ELSE delivery'[e] = delivery[e]
  BY <1>1, <1>2
<1>5. delivery' \in [Deliveries -> DeliveryRows \cup {Unused, Deleted}]
  BY <1>1, <1>2, FreshType
<1>6. UNCHANGED <<update, working, faults, history>> /\ UNCHANGED hook
  BY DEF Ping
<1> QED
  BY <1>2, <1>3, <1>4, <1>5, <1>6 DEF Enqueues

LEMMA EmitEnqueues ==
    ASSUME WebhooksTypeOK, NEW ids \in SUBSET Deliveries, Emit(ids)
    PROVE  Enqueues(ids)
<1>1. PICK active : active = {w \in Hooks : Exists(hook[w]) /\ hook[w].active}
  OBVIOUS
<1>2. PICK order \in SetToSeqs(ids), targets \in SetToSeqs(active) :
          /\ delivery' = [d \in Deliveries |->
                IF d \in ids
                THEN Fresh(targets[CHOOSE k \in DOMAIN order : order[k] = d])
                ELSE delivery[d]]
          /\ line' = line \o order
  BY <1>1 DEF Emit
<1>3. /\ ids \subseteq {d \in Deliveries : delivery[d] = Unused}
      /\ Cardinality(ids) = Cardinality(active)
  BY <1>1 DEF Emit
<1>4. IsFiniteSet(ids) /\ IsFiniteSet(active) /\ active \subseteq Hooks
  BY <1>1, BoundAssumption, FS_Subset
<1>5. /\ order \in Seq(ids) /\ DOMAIN order = 1..Cardinality(ids) /\ Distinct(order)
      /\ \A d \in ids : \E k \in DOMAIN order : order[k] = d
  BY <1>4, ArrangesAll
<1>6. targets \in Seq(active) /\ DOMAIN targets = DOMAIN order
  BY <1>3, <1>4, <1>5, ArrangesAll
<1>7. ASSUME NEW d \in ids PROVE \E w \in Hooks : delivery'[d] = Fresh(w)
  <2>1. PICK k : k = CHOOSE i \in DOMAIN order : order[i] = d
    OBVIOUS
  <2>2. k \in DOMAIN order
    BY <1>5, <2>1
  <2>3. targets[k] \in Hooks
    BY <1>4, <1>6, <2>2
  <2> QED  BY <1>2, <2>1, <2>3
<1>8. \A d \in Deliveries : d \notin ids => delivery'[d] = delivery[d]
  BY <1>2
<1>9. delivery' \in [Deliveries -> DeliveryRows \cup {Unused, Deleted}]
  <2>1. delivery \in [Deliveries -> DeliveryRows \cup {Unused, Deleted}]
    BY DEF WebhooksTypeOK
  <2>2. \A d \in Deliveries : delivery'[d] \in DeliveryRows \cup {Unused, Deleted}
    BY <1>7, <1>8, <2>1, FreshType
  <2> QED  BY <1>2, <2>2
<1>10. UNCHANGED <<update, working, faults, history>> /\ UNCHANGED hook
  BY DEF Emit
<1> QED
  BY <1>2, <1>3, <1>5, <1>7, <1>8, <1>9, <1>10 DEF Enqueues

\* A listing takes deliveries from the line, in its order.
LEMMA DueInLine ==
    ASSUME WebhooksTypeOK
    PROVE  /\ Due \in Seq(Deliveries)
           /\ \A k \in DOMAIN Due :
                 /\ Due[k] \in Deliveries /\ Exists(delivery[Due[k]])
                 /\ \E i \in DOMAIN line : line[i] = Due[k]
           /\ Distinct(line) => Distinct(Due)
<1>1. line \in Seq(Deliveries)
  BY DEF WebhooksTypeOK
<1>2. PICK S : S = {d \in Deliveries : /\ Exists(delivery[d])
                                       /\ hook[delivery[d].hook].active}
  OBVIOUS
<1>3. Due = Among(line, S)
  BY <1>2 DEF Due
<1>4. /\ Due \in Seq(Deliveries)
      /\ \A k \in DOMAIN Due : Due[k] \in S /\ \E i \in DOMAIN line : line[i] = Due[k]
      /\ Distinct(line) => Distinct(Due)
  BY <1>1, <1>3, AmongSequence
<1> QED
  BY <1>2, <1>4

\* What a dispatcher takes from a listing.
LEMMA SnapshotOfDue ==
    ASSUME WebhooksTypeOK, NEW n \in 0..Len(Due)
    PROVE  /\ Snapshot(n) \in Seq(Listed)
           /\ DOMAIN Snapshot(n) = 1..n /\ 1..n \subseteq DOMAIN Due
           /\ \A k \in 1..n : Snapshot(n)[k].id = Due[k]
<1>1. PICK due : due = Due
  OBVIOUS
<1>2. /\ due \in Seq(Deliveries)
      /\ \A k \in DOMAIN due : due[k] \in Deliveries /\ Exists(delivery[due[k]])
  BY <1>1, DueInLine
<1>3. n \in Nat /\ 1..n \subseteq DOMAIN due
  BY <1>1, <1>2
<1>4. Snapshot(n) = [k \in 1..n |-> [id |-> due[k], attempts |-> delivery[due[k]].attempts]]
  BY <1>1 DEF Snapshot
<1>5. ASSUME NEW k \in 1..n
      PROVE  [id |-> due[k], attempts |-> delivery[due[k]].attempts] \in Listed
  <2>1. due[k] \in Deliveries /\ delivery[due[k]] \in DeliveryRows
    BY <1>2, <1>3 DEF WebhooksTypeOK, Exists
  <2> QED  BY <2>1 DEF Listed, DeliveryRows
<1>6. Snapshot(n) \in [1..n -> Listed]
  BY <1>4, <1>5
<1>7. Snapshot(n) \in Seq(Listed)
  BY <1>3, <1>6
<1> QED
  BY <1>1, <1>3, <1>4, <1>7

-----------------------------------------------------------------------------
(* The types of Webhooks.                                                    *)

LEMMA GivenType ==
    ASSUME NEW S, NEW new \in Optional(S), NEW old \in S
    PROVE  Given(new, old) \in S
<1>1. CASE new = {}
  BY <1>1 DEF Given
<1>2. CASE \E v \in S : new = {v}
  <2>1. PICK v \in S : new = {v}
    BY <1>2
  <2>2. (CHOOSE x \in new : TRUE) = v
    BY <2>1
  <2> QED  BY <2>1, <2>2 DEF Given
<1> QED
  BY <1>1, <1>2 DEF Optional

\* A batch that is listed, and one that has been worked off by one delivery.
LEMMA ListedType ==
    ASSUME WebhooksTypeOK, NEW p \in Dispatchers, NEW n \in 0..Len(Due),
           batch' = [batch EXCEPT ![p] = Snapshot(n)]
    PROVE  batch' \in [Dispatchers -> Seq(Listed)]
BY SnapshotOfDue DEF WebhooksTypeOK

LEMMA DoneType ==
    ASSUME WebhooksTypeOK, NEW p \in Dispatchers, batch[p] # <<>>, Done(p)
    PROVE  /\ batch' \in [Dispatchers -> Seq(Listed)]
           /\ posted' \in [Dispatchers -> {NotPosted, "ok", "bad"}]
<1>1. batch[p] \in Seq(Listed)
  BY DEF WebhooksTypeOK
<1>2. Tail(batch[p]) \in Seq(Listed)
  BY <1>1
<1> QED
  BY <1>2 DEF WebhooksTypeOK, Done

LEMMA FaultType ==
    ASSUME WebhooksTypeOK, Fault
    PROVE  faults' \in 0..MaxFaults /\ faults' = faults + 1
BY BoundAssumption DEF WebhooksTypeOK, Fault

LEMMA DueListed ==
    ASSUME WebhooksTypeOK
    PROVE  /\ Capped(Len(Due), Limit) \in 0..Len(Due)
           /\ 0..(Capped(Len(Due), Limit) - 1) \subseteq 0..Len(Due)
<1>1. Len(Due) \in Nat
  BY DueInLine
<1> QED
  BY <1>1, BoundAssumption DEF Capped

LEMMA HookTypeStep ==
    ASSUME WebhooksTypeOK,
           \/ \E w \in Hooks, u \in Urls : Create(w, u)
           \/ \E c \in Updaters, w \in Hooks, u \in Optional(Urls),
                 a \in Optional(BOOLEAN) : UpdateRead(c, w, u, a)
           \/ \E c \in Updaters : UpdateWrite(c) \/ UpdateFails(c)
    PROVE  WebhooksTypeOK'
<1> USE DEF queue, working, history
<1>1. ASSUME NEW w \in Hooks, NEW u \in Urls, Create(w, u)
      PROVE  WebhooksTypeOK'
  BY <1>1 DEF Create, WebhooksTypeOK, HookRows
<1>2. ASSUME NEW c \in Updaters, NEW w \in Hooks, NEW u \in Optional(Urls),
             NEW a \in Optional(BOOLEAN), UpdateRead(c, w, u, a)
      PROVE  WebhooksTypeOK'
  <2>1. hook[w] \in HookRows
    BY <1>2 DEF UpdateRead, WebhooksTypeOK, Exists
  <2>2. [hook |-> w, read |-> hook[w], url |-> u, active |-> a] \in
            [hook : Hooks, read : HookRows,
             url : Optional(Urls), active : Optional(BOOLEAN)]
    BY <2>1
  <2>3. update' \in [Updaters -> {NoUpdate} \cup
                     [hook : Hooks, read : HookRows,
                      url : Optional(Urls), active : Optional(BOOLEAN)]]
    BY <1>2, <2>2 DEF UpdateRead, WebhooksTypeOK
  <2> QED  BY <1>2, <2>3 DEF UpdateRead, WebhooksTypeOK
<1>3. ASSUME NEW c \in Updaters, UpdateWrite(c)
      PROVE  WebhooksTypeOK'
  <2>1. PICK r : r = update[c]
    OBVIOUS
  <2>2. r \in [hook : Hooks, read : HookRows,
               url : Optional(Urls), active : Optional(BOOLEAN)]
    BY <1>3, <2>1 DEF UpdateWrite, WebhooksTypeOK
  <2>3. /\ r.hook \in Hooks /\ r.url \in Optional(Urls) /\ r.active \in Optional(BOOLEAN)
        /\ r.read.url \in Urls /\ r.read.active \in BOOLEAN
    BY <2>2 DEF HookRows
  <2>4. Given(r.url, r.read.url) \in Urls
    BY <2>3, GivenType
  <2>5. Given(r.active, r.read.active) \in BOOLEAN
    BY <2>3, GivenType
  <2>6. [url |-> Given(r.url, r.read.url), active |-> Given(r.active, r.read.active)]
            \in HookRows
    BY <2>4, <2>5 DEF HookRows
  <2>7. hook' \in [Hooks -> HookRows \cup {Unused, Deleted}]
    BY <1>3, <2>1, <2>3, <2>6 DEF UpdateWrite, WebhooksTypeOK
  <2>8. update' = [update EXCEPT ![c] = NoUpdate]
        /\ UNCHANGED <<queue, working, faults, history>>
    BY <1>3 DEF UpdateWrite
  <2> QED  BY <2>7, <2>8 DEF WebhooksTypeOK
<1>4. ASSUME NEW c \in Updaters, UpdateFails(c)
      PROVE  WebhooksTypeOK'
  BY <1>4, FaultType DEF UpdateFails, WebhooksTypeOK
<1> QED
  BY <1>1, <1>2, <1>3, <1>4

LEMMA QueueTypeStep ==
    ASSUME WebhooksTypeOK,
           \/ \E w \in Hooks : Delete(w)
           \/ \E ids \in SUBSET Deliveries : Enqueues(ids)
           \/ \E d \in Deliveries : BackoffPasses(d)
    PROVE  WebhooksTypeOK'
<1> USE DEF queue, working, history
<1>1. ASSUME NEW w \in Hooks, Delete(w)
      PROVE  WebhooksTypeOK'
  <2>1. line' \in Seq(Deliveries)
    <3>1. PICK S : S = {d \in Deliveries : Exists(delivery'[d])}
      OBVIOUS
    <3>2. line' = Among(line, S)
      BY <1>1, <3>1 DEF Delete
    <3> QED  BY <3>2, AmongSequence DEF WebhooksTypeOK
  <2>2. delivery' \in [Deliveries -> DeliveryRows \cup {Unused, Deleted}]
    BY <1>1 DEF Delete, WebhooksTypeOK
  <2>3. hook' \in [Hooks -> HookRows \cup {Unused, Deleted}]
    BY <1>1 DEF Delete, WebhooksTypeOK
  <2> QED  BY <1>1, <2>1, <2>2, <2>3 DEF Delete, WebhooksTypeOK
<1>2. ASSUME NEW ids \in SUBSET Deliveries, Enqueues(ids)
      PROVE  WebhooksTypeOK'
  <2>1. line' \in Seq(Deliveries)
    <3>1. PICK order \in Seq(ids) : line' = line \o order
      BY <1>2 DEF Enqueues
    <3>2. order \in Seq(Deliveries) /\ line \in Seq(Deliveries)
      BY <3>1 DEF WebhooksTypeOK
    <3> QED  BY <3>1, <3>2
  <2> QED  BY <1>2, <2>1 DEF Enqueues, WebhooksTypeOK
<1>3. ASSUME NEW d \in Deliveries, BackoffPasses(d)
      PROVE  WebhooksTypeOK'
  BY <1>3 DEF BackoffPasses, WebhooksTypeOK
<1> QED
  BY <1>1, <1>2, <1>3

\* An answer is of the first delivery of a batch.
PostsFromBatch ==
    \A p \in Dispatchers : batch[p] = <<>> => posted[p] = NotPosted

\* Recording an outcome keeps the row of a delivery a row.
LEMMA RowsChanged ==
    ASSUME WebhooksTypeOK, NEW d \in Deliveries, NEW status \in {"pending", "failed", "delivered"},
           Exists(delivery[d])
    PROVE  /\ [delivery EXCEPT ![d].status = status]
                 \in [Deliveries -> DeliveryRows \cup {Unused, Deleted}]
           /\ [delivery EXCEPT ![d].status = status,
                               ![d].attempts = Capped(@ + 1, MaxAttempts)]
                 \in [Deliveries -> DeliveryRows \cup {Unused, Deleted}]
<1>1. PICK r : r = delivery[d]
  OBVIOUS
<1>2. /\ r \in DeliveryRows
      /\ delivery \in [Deliveries -> DeliveryRows \cup {Unused, Deleted}]
  BY <1>1 DEF WebhooksTypeOK, Exists
<1>3. Capped(r.attempts + 1, MaxAttempts) \in 0..MaxAttempts
  BY <1>2, BoundAssumption DEF Capped, DeliveryRows
<1>4. PICK n \in 0..MaxAttempts : n = Capped(r.attempts + 1, MaxAttempts)
  BY <1>3
<1>5. [r EXCEPT !.status = status] \in DeliveryRows
  BY <1>2 DEF DeliveryRows
<1>6. [r EXCEPT !.status = status, !.attempts = n] \in DeliveryRows
  BY <1>2 DEF DeliveryRows
<1>7. [delivery EXCEPT ![d].status = status]
        = [delivery EXCEPT ![d] = [r EXCEPT !.status = status]]
  BY <1>1
<1>8. [delivery EXCEPT ![d].status = status, ![d].attempts = Capped(@ + 1, MaxAttempts)]
        = [delivery EXCEPT ![d] = [r EXCEPT !.status = status, !.attempts = n]]
  BY <1>1, <1>2, <1>4 DEF DeliveryRows
<1> QED
  BY <1>2, <1>5, <1>6, <1>7, <1>8

\* A POST, heard of or not: an acceptance that is not heard of costs a fault.
Sent(p, d, answer, accepts) ==
    /\ Send(p, d, answer, accepts)
    /\ answer = "ok" => accepts
    /\ faults' = IF accepts /\ answer = "bad" THEN faults + 1 ELSE faults
    /\ faults' \in 0..MaxFaults

Sends(p, d) == \E answer \in {"ok", "bad"}, accepts \in BOOLEAN : Sent(p, d, answer, accepts)

LEMMA DispatcherSteps ==
    ASSUME WebhooksTypeOK, NEW p \in Dispatchers, Work(p) \/ Breaks(p)
    PROVE  \/ List(p) \/ ListBreaks(p) \/ MarkFails(p) \/ Crash(p)
           \/ \E d \in Deliveries : Sends(p, d) \/ MarkDelivered(p, d) \/ MarkFailed(p, d)
<1>1. ASSUME NEW d \in Deliveries, NEW answer \in {"ok", "bad"}, Post(p, d, answer)
      PROVE  Sends(p, d)
  <2>1. PICK accepts \in BOOLEAN : accepts = (answer = "ok")
    OBVIOUS
  <2>2. Send(p, d, answer, accepts) /\ faults' = faults
    BY <1>1, <2>1 DEF Post
  <2>3. faults \in 0..MaxFaults
    BY DEF WebhooksTypeOK
  <2>4. Sent(p, d, answer, accepts)
    BY <2>1, <2>2, <2>3 DEF Sent
  <2> QED  BY <2>4 DEF Sends
<1>2. ASSUME NEW d \in Deliveries, PostUnheard(p, d)
      PROVE  Sends(p, d)
  <2>1. Sent(p, d, "bad", TRUE)
    BY <1>2, FaultType DEF PostUnheard, Sent
  <2> QED  BY <2>1 DEF Sends
<1> QED
  BY <1>1, <1>2 DEF Work, Breaks

LEMMA DispatchTypeStep ==
    ASSUME WebhooksTypeOK, PostsFromBatch, NEW p \in Dispatchers,
           Work(p) \/ Breaks(p)
    PROVE  WebhooksTypeOK'
<1> USE DEF queue, working, history
<1>1. CASE List(p)
  <2>1. batch' \in [Dispatchers -> Seq(Listed)]
    BY <1>1, DueListed, ListedType DEF List
  <2> QED  BY <1>1, <2>1 DEF List, WebhooksTypeOK
<1>2. CASE ListBreaks(p)
  <2>1. PICK n \in 0..(Capped(Len(Due), Limit) - 1) :
            batch' = [batch EXCEPT ![p] = Snapshot(n)]
    BY <1>2 DEF ListBreaks
  <2>2. n \in 0..Len(Due)
    BY <2>1, DueListed
  <2>3. batch' \in [Dispatchers -> Seq(Listed)]
    BY <2>1, <2>2, ListedType
  <2> QED  BY <1>2, <2>3, FaultType DEF ListBreaks, WebhooksTypeOK
<1>3. ASSUME NEW d \in Deliveries, NEW answer \in {"ok", "bad"}, NEW accepts \in BOOLEAN,
             Sent(p, d, answer, accepts)
      PROVE  WebhooksTypeOK'
  <2>1. \A n \in 0..AttemptCap : Capped(n + 1, AttemptCap) \in 0..AttemptCap
    BY BoundAssumption DEF Capped, AttemptCap
  <2>2. \A n \in 0..AcceptCap : Capped(n + 1, AcceptCap) \in 0..AcceptCap
    BY BoundAssumption DEF Capped, AcceptCap
  <2>3. attempted' \in [Deliveries -> 0..AttemptCap]
    BY <1>3, <2>1 DEF Sent, Send, WebhooksTypeOK
  <2>4. accepted' \in [Deliveries -> 0..AcceptCap]
    BY <1>3, <2>2 DEF Sent, Send, WebhooksTypeOK
  <2>5. posted' \in [Dispatchers -> {NotPosted, "ok", "bad"}]
    BY <1>3 DEF Sent, Send, WebhooksTypeOK
  <2> QED  BY <1>3, <2>3, <2>4, <2>5 DEF Sent, Send, WebhooksTypeOK
<1>4. ASSUME NEW d \in Deliveries, MarkDelivered(p, d)
      PROVE  WebhooksTypeOK'
  <2>1. batch[p] # <<>> /\ Done(p)
    BY <1>4 DEF MarkDelivered, InHand
  <2>2. Among(line, Deliveries \ {d}) \in Seq(Deliveries)
    BY AmongSequence DEF WebhooksTypeOK
  <2>3. delivery' \in [Deliveries -> DeliveryRows \cup {Unused, Deleted}]
    <3>1. CASE Exists(delivery[d])
      <4>1. delivery' = [delivery EXCEPT ![d].status = "delivered"]
        BY <1>4, <3>1 DEF MarkDelivered
      <4> QED  BY <3>1, <4>1, RowsChanged
    <3>2. CASE ~Exists(delivery[d])
      BY <1>4, <3>2 DEF MarkDelivered, WebhooksTypeOK
    <3> QED  BY <3>1, <3>2
  <2>4. line' \in Seq(Deliveries)
    BY <1>4, <2>2 DEF MarkDelivered, WebhooksTypeOK
  <2>5. UNCHANGED <<hook, update, faults, history>>
    BY <1>4 DEF MarkDelivered
  <2> QED  BY <2>1, <2>3, <2>4, <2>5, DoneType DEF WebhooksTypeOK
<1>5. ASSUME NEW d \in Deliveries, MarkFailed(p, d)
      PROVE  WebhooksTypeOK'
  <2>1. batch[p] # <<>> /\ Done(p)
    BY <1>5 DEF MarkFailed, InHand
  <2>2. /\ Among(line, Deliveries \ {d}) \in Seq(Deliveries)
        /\ Append(Among(line, Deliveries \ {d}), d) \in Seq(Deliveries)
    BY AmongSequence DEF WebhooksTypeOK
  <2>3. delivery' \in [Deliveries -> DeliveryRows \cup {Unused, Deleted}]
    <3>1. PICK status \in {"pending", "failed"} :
              status = IF Exhausted(p) THEN "failed" ELSE "pending"
      OBVIOUS
    <3>2. CASE Exists(delivery[d])
      <4>1. delivery' = [delivery EXCEPT ![d].status = status,
                                         ![d].attempts = Capped(@ + 1, MaxAttempts)]
        BY <1>5, <3>1, <3>2 DEF MarkFailed
      <4> QED  BY <3>2, <4>1, RowsChanged
    <3>3. CASE ~Exists(delivery[d])
      BY <1>5, <3>3 DEF MarkFailed, WebhooksTypeOK
    <3> QED  BY <3>2, <3>3
  <2>4. line' \in Seq(Deliveries)
    BY <1>5, <2>2 DEF MarkFailed, WebhooksTypeOK
  <2>5. UNCHANGED <<hook, update, faults, history>>
    BY <1>5 DEF MarkFailed
  <2> QED  BY <2>1, <2>3, <2>4, <2>5, DoneType DEF WebhooksTypeOK
<1>6. CASE MarkFails(p)
  <2>1. batch[p] # <<>> /\ Done(p)
    BY <1>6 DEF MarkFails, PostsFromBatch
  <2>2. /\ batch' \in [Dispatchers -> Seq(Listed)]
        /\ posted' \in [Dispatchers -> {NotPosted, "ok", "bad"}]
    BY <2>1, DoneType
  <2> QED  BY <1>6, <2>2, FaultType DEF MarkFails, WebhooksTypeOK
<1>7. CASE Crash(p)
  BY <1>7, FaultType DEF Crash, WebhooksTypeOK
<1> QED
  BY DispatcherSteps, <1>1, <1>2, <1>3, <1>4, <1>5, <1>6, <1>7 DEF Sends

LEMMA WebhooksInitTypes == WebhooksInit => WebhooksTypeOK /\ PostsFromBatch
<1> SUFFICES ASSUME WebhooksInit PROVE WebhooksTypeOK /\ PostsFromBatch
  OBVIOUS
<1>1. <<>> \in Seq(Deliveries) /\ <<>> \in Seq(Listed)
  OBVIOUS
<1>2. 0 \in 0..MaxFaults /\ 0 \in 0..AttemptCap /\ 0 \in 0..AcceptCap
  BY BoundAssumption DEF AttemptCap, AcceptCap
<1>3. PostsFromBatch
  BY DEF WebhooksInit, PostsFromBatch
<1>4. WebhooksTypeOK
  BY <1>1, <1>2 DEF WebhooksInit, WebhooksTypeOK
<1> QED
  BY <1>3, <1>4

LEMMA WebhooksTypeStep ==
    WebhooksTypeOK /\ PostsFromBatch /\ [WebhooksNext]_hookVars => WebhooksTypeOK'
<1> SUFFICES ASSUME WebhooksTypeOK, PostsFromBatch, [WebhooksNext]_hookVars
             PROVE  WebhooksTypeOK'
  OBVIOUS
<1>1. CASE UNCHANGED hookVars
  BY <1>1 DEF hookVars, WebhooksTypeOK
<1>2. CASE \/ \E w \in Hooks, u \in Urls : Create(w, u)
           \/ \E c \in Updaters, w \in Hooks, u \in Optional(Urls),
                 a \in Optional(BOOLEAN) : UpdateRead(c, w, u, a)
           \/ \E c \in Updaters : UpdateWrite(c) \/ UpdateFails(c)
  BY <1>2, HookTypeStep
<1>3. CASE \/ \E w \in Hooks : Delete(w)
           \/ \E w \in Hooks, d \in Deliveries : Ping(w, d)
           \/ \E ids \in SUBSET Deliveries : Emit(ids)
           \/ \E d \in Deliveries : BackoffPasses(d)
  <2>1. ASSUME NEW w \in Hooks, NEW d \in Deliveries, Ping(w, d)
        PROVE  \E ids \in SUBSET Deliveries : Enqueues(ids)
    <3>1. {d} \in SUBSET Deliveries
      OBVIOUS
    <3> QED  BY <2>1, <3>1, PingEnqueues
  <2> QED  BY <1>3, <2>1, EmitEnqueues, QueueTypeStep
<1>4. CASE \E p \in Dispatchers : Work(p) \/ Breaks(p)
  BY <1>4, DispatchTypeStep
<1> QED
  BY <1>1, <1>2, <1>3, <1>4 DEF WebhooksNext

\* Steps that are not of a dispatcher.
LEMMA OthersKeep ==
    ASSUME WebhooksTypeOK, [WebhooksNext]_hookVars,
           ~ \E p \in Dispatchers : Work(p) \/ Breaks(p)
    PROVE  /\ UNCHANGED <<working, history>>
           /\ \/ UNCHANGED <<delivery, line>>
              \/ \E w \in Hooks : Delete(w)
              \/ \E ids \in SUBSET Deliveries : Enqueues(ids)
              \/ \E d \in Deliveries : BackoffPasses(d)
           /\ faults' = faults \/ faults' = faults + 1
<1> USE DEF queue
<1>1. ASSUME NEW w \in Hooks, NEW d \in Deliveries, Ping(w, d)
      PROVE  \E ids \in SUBSET Deliveries : Enqueues(ids)
  <2>1. {d} \in SUBSET Deliveries
    OBVIOUS
  <2> QED  BY <1>1, <2>1, PingEnqueues
<1>2. ASSUME NEW ids \in SUBSET Deliveries, Emit(ids)
      PROVE  Enqueues(ids)
  BY <1>2, EmitEnqueues
<1>3. CASE UNCHANGED hookVars
  BY <1>3 DEF hookVars, working, history
<1>4. ASSUME NEW w \in Hooks, NEW u \in Urls, Create(w, u)
      PROVE  UNCHANGED <<working, history, delivery, line, faults>>
  BY <1>4 DEF Create
<1>5. ASSUME NEW c \in Updaters, NEW w \in Hooks, NEW u \in Optional(Urls),
             NEW a \in Optional(BOOLEAN), UpdateRead(c, w, u, a)
      PROVE  UNCHANGED <<working, history, delivery, line, faults>>
  BY <1>5 DEF UpdateRead
<1>6. ASSUME NEW c \in Updaters, UpdateWrite(c)
      PROVE  UNCHANGED <<working, history, delivery, line, faults>>
  BY <1>6 DEF UpdateWrite
<1>7. ASSUME NEW c \in Updaters, UpdateFails(c)
      PROVE  UNCHANGED <<working, history, delivery, line>> /\ faults' = faults + 1
  BY <1>7 DEF UpdateFails, Fault
<1>8. ASSUME NEW w \in Hooks, Delete(w)
      PROVE  UNCHANGED <<working, history, faults>>
  BY <1>8 DEF Delete
<1>9. ASSUME NEW ids \in SUBSET Deliveries, Enqueues(ids)
      PROVE  UNCHANGED <<working, history, faults>>
  BY <1>9 DEF Enqueues
<1>10. ASSUME NEW d \in Deliveries, BackoffPasses(d)
       PROVE  UNCHANGED <<working, history, faults>>
  BY <1>10 DEF BackoffPasses
<1> QED
  BY <1>1, <1>2, <1>3, <1>4, <1>5, <1>6, <1>7, <1>8, <1>9, <1>10 DEF WebhooksNext

\* A webhook that is deleted takes its deliveries with it, and the rest stay.
LEMMA DeleteKeeps ==
    ASSUME WebhooksTypeOK, NEW w \in Hooks, Delete(w), NEW d \in Deliveries
    PROVE  delivery'[d] = delivery[d] \/ (delivery'[d] = Deleted /\ Exists(delivery[d]))
BY DEF Delete, WebhooksTypeOK

-----------------------------------------------------------------------------
(* What has been accepted.                                                   *)

\* An acceptance whose record is under way has been counted.
AnswerCounted ==
    \A p \in Dispatchers, d \in Deliveries :
        InHand(p, d) /\ posted[p] = "ok" => accepted[d] > 0

AcceptInv == /\ WebhooksTypeOK
             /\ PostsFromBatch
             /\ AnswerCounted
             /\ DeliveredWasAccepted

\* A delivery that the steps of others leave delivered was delivered.
LEMMA OthersDeliverNothing ==
    ASSUME WebhooksTypeOK, [WebhooksNext]_hookVars, NEW d \in Deliveries,
           ~ \E p \in Dispatchers : Work(p) \/ Breaks(p)
    PROVE  \/ delivery'[d] = delivery[d]
           \/ delivery'[d] = Deleted /\ Exists(delivery[d])
           \/ delivery[d] = Unused /\ \E w \in Hooks : delivery'[d] = Fresh(w)
<1>1. CASE UNCHANGED <<delivery, line>>
  BY <1>1
<1>2. ASSUME NEW w \in Hooks, Delete(w)
      PROVE  delivery'[d] = delivery[d] \/ (delivery'[d] = Deleted /\ Exists(delivery[d]))
  BY <1>2, DeleteKeeps
<1>3. ASSUME NEW ids \in SUBSET Deliveries, Enqueues(ids)
      PROVE  \/ delivery'[d] = delivery[d]
             \/ (delivery[d] = Unused /\ \E w \in Hooks : delivery'[d] = Fresh(w))
  BY <1>3 DEF Enqueues
<1>4. ASSUME NEW e \in Deliveries, BackoffPasses(e)
      PROVE  delivery'[d] = delivery[d]
  BY <1>4 DEF BackoffPasses
<1> QED
  BY <1>1, <1>2, <1>3, <1>4, OthersKeep

LEMMA AcceptOthers ==
    ASSUME AcceptInv, [WebhooksNext]_hookVars,
           ~ \E p \in Dispatchers : Work(p) \/ Breaks(p)
    PROVE  (PostsFromBatch /\ AnswerCounted /\ DeliveredWasAccepted)'
<1>1. batch' = batch /\ posted' = posted /\ accepted' = accepted
  BY OthersKeep DEF AcceptInv, working, history
<1>2. PostsFromBatch' /\ AnswerCounted'
  BY <1>1 DEF AcceptInv, PostsFromBatch, AnswerCounted, InHand
<1>3. ASSUME NEW d \in Deliveries, Exists(delivery'[d]), delivery'[d].status = "delivered"
      PROVE  accepted'[d] > 0
  <2>1. delivery'[d] = delivery[d]
    BY <1>3, OthersDeliverNothing, FreshType DEF AcceptInv, Exists
  <2> QED  BY <1>1, <1>3, <2>1 DEF AcceptInv, DeliveredWasAccepted
<1> QED
  BY <1>2, <1>3 DEF DeliveredWasAccepted

\* What a dispatcher does to its own batch it does to no other.
LEMMA DoneKeeps ==
    ASSUME WebhooksTypeOK, NEW p \in Dispatchers, Done(p)
    PROVE  /\ batch'[p] = Tail(batch[p]) /\ posted'[p] = NotPosted
           /\ \A q \in Dispatchers \ {p} : batch'[q] = batch[q] /\ posted'[q] = posted[q]
BY DEF WebhooksTypeOK, Done

\* An answer is not given up by a step that leaves a dispatcher without one.
LEMMA AcceptBatch ==
    ASSUME AcceptInv, NEW p \in Dispatchers, accepted' = accepted, posted'[p] = NotPosted,
           \A q \in Dispatchers \ {p} : batch'[q] = batch[q] /\ posted'[q] = posted[q]
    PROVE  PostsFromBatch' /\ AnswerCounted'
<1>1. PostsFromBatch'
  BY DEF AcceptInv, PostsFromBatch
<1>2. ASSUME NEW q \in Dispatchers, NEW d \in Deliveries, InHand(q, d)', posted'[q] = "ok"
      PROVE  accepted'[d] > 0
  <2>1. q # p
    BY <1>2 DEF NotPosted
  <2>2. InHand(q, d) /\ posted[q] = "ok"
    BY <1>2, <2>1 DEF InHand
  <2> QED  BY <2>2 DEF AcceptInv, AnswerCounted
<1> QED
  BY <1>1, <1>2 DEF AnswerCounted

LEMMA AcceptPost ==
    ASSUME AcceptInv, NEW p \in Dispatchers, NEW d \in Deliveries, NEW answer \in {"ok", "bad"},
           NEW accepts \in BOOLEAN, Sent(p, d, answer, accepts)
    PROVE  (PostsFromBatch /\ AnswerCounted /\ DeliveredWasAccepted)'
<1>1. /\ accepted \in [Deliveries -> 0..AcceptCap]
      /\ posted \in [Dispatchers -> {NotPosted, "ok", "bad"}]
      /\ AcceptCap \in Nat \ {0}
  BY BoundAssumption DEF AcceptInv, WebhooksTypeOK, AcceptCap
<1>2. /\ InHand(p, d) /\ posted[p] = NotPosted
      /\ posted' = [posted EXCEPT ![p] = answer]
      /\ accepted' = [accepted EXCEPT ![d] =
                         IF accepts THEN Capped(@ + 1, AcceptCap) ELSE @]
      /\ batch' = batch /\ delivery' = delivery
  BY DEF Sent, Send, queue
<1>3. \A e \in Deliveries : accepted[e] > 0 => accepted'[e] > 0
  BY <1>1, <1>2 DEF Capped
<1>4. answer = "ok" => accepted'[d] > 0
  BY <1>1, <1>2 DEF Capped, Sent
<1>5. PostsFromBatch'
  BY <1>1, <1>2 DEF AcceptInv, PostsFromBatch, InHand
<1>6. ASSUME NEW q \in Dispatchers, NEW e \in Deliveries, InHand(q, e)', posted'[q] = "ok"
      PROVE  accepted'[e] > 0
  <2>1. InHand(q, e)
    BY <1>2, <1>6 DEF InHand
  <2>2. CASE q = p
    <3>1. e = d /\ answer = "ok"
      BY <1>1, <1>2, <1>6, <2>1, <2>2 DEF InHand
    <3> QED  BY <1>4, <3>1
  <2>3. CASE q # p
    <3>1. posted[q] = "ok"
      BY <1>1, <1>2, <1>6, <2>3
    <3> QED  BY <1>3, <2>1, <3>1 DEF AcceptInv, AnswerCounted
  <2> QED  BY <2>2, <2>3
<1>7. DeliveredWasAccepted'
  BY <1>2, <1>3 DEF AcceptInv, DeliveredWasAccepted
<1> QED
  BY <1>5, <1>6, <1>7 DEF AnswerCounted

\* What recording an outcome does to the rows.

\* What recording an outcome does to the rows.
LEMMA DeliveredRow ==
    ASSUME WebhooksTypeOK, NEW p \in Dispatchers, NEW d \in Deliveries, MarkDelivered(p, d)
    PROVE  /\ InHand(p, d) /\ posted[p] = "ok" /\ Done(p)
           /\ faults' = faults /\ accepted' = accepted
           /\ \A e \in Deliveries \ {d} : delivery'[e] = delivery[e]
           /\ IF Exists(delivery[d])
              THEN /\ Exists(delivery'[d]) /\ delivery'[d].status = "delivered"
                   /\ line' = Among(line, Deliveries \ {d})
              ELSE delivery'[d] = delivery[d] /\ line' = line
<1>1. /\ InHand(p, d) /\ posted[p] = "ok" /\ Done(p)
      /\ faults' = faults /\ accepted' = accepted
  BY DEF MarkDelivered, history
<1>2. CASE Exists(delivery[d])
  <2>1. /\ delivery' = [delivery EXCEPT ![d].status = "delivered"]
        /\ line' = Among(line, Deliveries \ {d})
    BY <1>2 DEF MarkDelivered
  <2>2. delivery[d] \in DeliveryRows /\ delivery \in [Deliveries -> DeliveryRows \cup {Unused, Deleted}]
    BY <1>2 DEF WebhooksTypeOK, Exists
  <2>3. delivery'[d] = [delivery[d] EXCEPT !.status = "delivered"]
    BY <2>1, <2>2
  <2>4. delivery'[d] \in DeliveryRows /\ delivery'[d].status = "delivered"
    BY <2>2, <2>3 DEF DeliveryRows
  <2>5. Exists(delivery'[d])
    BY <2>4 DEF DeliveryRows, Exists, Unused, Deleted
  <2> QED  BY <1>1, <1>2, <2>1, <2>2, <2>4, <2>5
<1>3. CASE ~Exists(delivery[d])
  <2>1. delivery' = delivery /\ line' = line
    BY <1>3 DEF MarkDelivered, queue
  <2> QED  BY <1>1, <1>3, <2>1
<1> QED
  BY <1>2, <1>3

LEMMA FailedRow ==
    ASSUME WebhooksTypeOK, NEW p \in Dispatchers, NEW d \in Deliveries, MarkFailed(p, d)
    PROVE  /\ InHand(p, d) /\ posted[p] = "bad" /\ Done(p)
           /\ faults' = faults /\ accepted' = accepted
           /\ \A e \in Deliveries \ {d} : delivery'[e] = delivery[e]
           /\ IF Exists(delivery[d])
              THEN /\ Exists(delivery'[d]) /\ delivery'[d].status # "delivered"
                   /\ \/ line' = Among(line, Deliveries \ {d})
                      \/ line' = Append(Among(line, Deliveries \ {d}), d)
              ELSE delivery'[d] = delivery[d] /\ line' = line
<1>1. /\ InHand(p, d) /\ posted[p] = "bad" /\ Done(p)
      /\ faults' = faults /\ accepted' = accepted
  BY DEF MarkFailed, history
<1>2. CASE Exists(delivery[d])
  <2>1. PICK status \in {"failed", "pending"} :
            status = IF Exhausted(p) THEN "failed" ELSE "pending"
    OBVIOUS
  <2>2. /\ delivery' = [delivery EXCEPT ![d].status = status,
                                        ![d].attempts = Capped(@ + 1, MaxAttempts)]
        /\ \/ line' = Among(line, Deliveries \ {d})
           \/ line' = Append(Among(line, Deliveries \ {d}), d)
    BY <1>2, <2>1 DEF MarkFailed
  <2>3. delivery[d] \in DeliveryRows /\ delivery \in [Deliveries -> DeliveryRows \cup {Unused, Deleted}]
    BY <1>2 DEF WebhooksTypeOK, Exists
  <2>4. DOMAIN delivery'[d] = DOMAIN delivery[d] /\ delivery'[d].status = status
    BY <2>2, <2>3 DEF DeliveryRows
  <2>5. Exists(delivery'[d])
    BY <2>3, <2>4 DEF DeliveryRows, Exists, Unused, Deleted
  <2> QED  BY <1>1, <1>2, <2>1, <2>2, <2>3, <2>4, <2>5
<1>3. CASE ~Exists(delivery[d])
  <2>1. delivery' = delivery /\ line' = line
    BY <1>3 DEF MarkFailed, queue
  <2> QED  BY <1>1, <1>3, <2>1
<1> QED
  BY <1>2, <1>3

LEMMA AcceptDispatch ==
    ASSUME AcceptInv, NEW p \in Dispatchers,
           Work(p) \/ Breaks(p)
    PROVE  (PostsFromBatch /\ AnswerCounted /\ DeliveredWasAccepted)'
<1>1. /\ batch \in [Dispatchers -> Seq(Listed)]
      /\ posted \in [Dispatchers -> {NotPosted, "ok", "bad"}]
  BY DEF AcceptInv, WebhooksTypeOK
<1> USE DEF queue, history
<1>2. CASE \/ List(p) \/ ListBreaks(p) \/ MarkFails(p) \/ Crash(p)
  <2>1. delivery' = delivery /\ accepted' = accepted
    BY <1>2 DEF List, ListBreaks, MarkFails, Crash
  <2>2. /\ posted'[p] = NotPosted
        /\ \A q \in Dispatchers \ {p} : batch'[q] = batch[q] /\ posted'[q] = posted[q]
    <3>1. CASE List(p)
      BY <1>1, <3>1 DEF List, AcceptInv, PostsFromBatch
    <3>2. CASE ListBreaks(p)
      BY <1>1, <3>2 DEF ListBreaks, AcceptInv, PostsFromBatch
    <3>3. CASE MarkFails(p)
      BY <3>3, DoneKeeps DEF MarkFails, AcceptInv
    <3>4. CASE Crash(p)
      BY <1>1, <3>4 DEF Crash
    <3> QED  BY <1>2, <3>1, <3>2, <3>3, <3>4
  <2>3. PostsFromBatch' /\ AnswerCounted'
    BY <2>1, <2>2, AcceptBatch
  <2>4. DeliveredWasAccepted'
    BY <2>1 DEF AcceptInv, DeliveredWasAccepted
  <2> QED  BY <2>3, <2>4
<1>3. ASSUME NEW d \in Deliveries, Sends(p, d)
      PROVE  (PostsFromBatch /\ AnswerCounted /\ DeliveredWasAccepted)'
  BY <1>3, AcceptPost DEF Sends
<1>4. ASSUME NEW d \in Deliveries, MarkDelivered(p, d)
      PROVE  (PostsFromBatch /\ AnswerCounted /\ DeliveredWasAccepted)'
  <2>1. PostsFromBatch' /\ AnswerCounted'
    BY <1>4, AcceptBatch, DeliveredRow, DoneKeeps DEF AcceptInv
  <2>2. accepted[d] > 0
    BY <1>4, DeliveredRow DEF AcceptInv, AnswerCounted
  <2>3. DeliveredWasAccepted'
    BY <1>4, <2>2, DeliveredRow DEF AcceptInv, DeliveredWasAccepted
  <2> QED  BY <2>1, <2>3
<1>5. ASSUME NEW d \in Deliveries, MarkFailed(p, d)
      PROVE  (PostsFromBatch /\ AnswerCounted /\ DeliveredWasAccepted)'
  <2>1. PostsFromBatch' /\ AnswerCounted'
    BY <1>5, AcceptBatch, FailedRow, DoneKeeps DEF AcceptInv
  <2>2. DeliveredWasAccepted'
    BY <1>5, FailedRow DEF AcceptInv, DeliveredWasAccepted
  <2> QED  BY <2>1, <2>2
<1> QED
  BY DispatcherSteps, <1>2, <1>3, <1>4, <1>5 DEF AcceptInv

LEMMA AcceptStep == AcceptInv /\ [WebhooksNext]_hookVars => AcceptInv'
<1> SUFFICES ASSUME AcceptInv, [WebhooksNext]_hookVars PROVE AcceptInv'
  OBVIOUS
<1>1. WebhooksTypeOK'
  BY WebhooksTypeStep DEF AcceptInv
<1>2. (PostsFromBatch /\ AnswerCounted /\ DeliveredWasAccepted)'
  BY AcceptDispatch, AcceptOthers
<1> QED
  BY <1>1, <1>2 DEF AcceptInv


LEMMA AcceptInit == WebhooksInit => AcceptInv
<1> SUFFICES ASSUME WebhooksInit PROVE AcceptInv
  OBVIOUS
<1>1. AnswerCounted /\ DeliveredWasAccepted
  BY DEF WebhooksInit, AnswerCounted, DeliveredWasAccepted, InHand, Exists
<1> QED
  BY <1>1, WebhooksInitTypes DEF AcceptInv

\* Webhooks, deliveries and what a dispatcher has listed stay of their types.
THEOREM WebhooksTypeCorrect == WebhooksSpec => []WebhooksTypeOK
<1>1. WebhooksInit => AcceptInv
  BY AcceptInit
<1>2. AcceptInv /\ [WebhooksNext]_hookVars => AcceptInv'
  BY AcceptStep
<1>3. AcceptInv => WebhooksTypeOK
  BY DEF AcceptInv
<1> QED
  BY <1>1, <1>2, <1>3, PTL DEF WebhooksSpec

\* However many dispatchers there are, a delivery counts as delivered only if
\* its endpoint has accepted it (deliverOne marks it after a 2xx answer).
THEOREM AcceptedFirst == WebhooksSpec => []DeliveredWasAccepted
<1>1. WebhooksInit => AcceptInv
  BY AcceptInit
<1>2. AcceptInv /\ [WebhooksNext]_hookVars => AcceptInv'
  BY AcceptStep
<1>3. AcceptInv => DeliveredWasAccepted
  BY DEF AcceptInv
<1> QED
  BY <1>1, <1>2, <1>3, PTL DEF WebhooksSpec

-----------------------------------------------------------------------------
(* The line, whoever works on it.                                            *)

\* Every delivery is in line once, and only if it is not delivered.
LineInv ==
    /\ Distinct(line)
    /\ \A k \in DOMAIN line :
          Exists(delivery[line[k]]) /\ delivery[line[k]].status # "delivered"

\* A delivery put behind others that are not the same.
LEMMA LastInLine ==
    ASSUME NEW s \in Seq(Deliveries), Distinct(s),
           NEW order \in Seq(Deliveries), Distinct(order),
           \A i \in DOMAIN s, j \in DOMAIN order : s[i] # order[j]
    PROVE  /\ Distinct(s \o order)
           /\ \A k \in DOMAIN (s \o order) :
                 \/ \E i \in DOMAIN s : (s \o order)[k] = s[i]
                 \/ \E j \in DOMAIN order : (s \o order)[k] = order[j]
<1>1. PICK m \in Nat : m = Len(s)
  OBVIOUS
<1>2. PICK n \in Nat : n = Len(order)
  OBVIOUS
<1>3. PICK r : r = s \o order
  OBVIOUS
<1>4. /\ DOMAIN r = 1..(m + n) /\ DOMAIN s = 1..m /\ DOMAIN order = 1..n
      /\ \A k \in 1..m : r[k] = s[k]
      /\ \A k \in (m + 1)..(m + n) : r[k] = order[k - m]
  BY <1>1, <1>2, <1>3
<1>5. \A k \in DOMAIN r : \/ k \in DOMAIN s /\ r[k] = s[k]
                          \/ k - m \in DOMAIN order /\ r[k] = order[k - m] /\ k > m
  BY <1>4
<1>6. Distinct(r)
  <2> SUFFICES ASSUME NEW i \in DOMAIN r, NEW j \in DOMAIN r, r[i] = r[j] PROVE i = j
    BY DEF Distinct
  <2>1. i \in Int /\ j \in Int
    BY <1>4
  <2>2. CASE i \in DOMAIN s /\ r[i] = s[i] /\ j \in DOMAIN s /\ r[j] = s[j]
    BY <2>2 DEF Distinct
  <2>3. CASE /\ i - m \in DOMAIN order /\ r[i] = order[i - m]
             /\ j - m \in DOMAIN order /\ r[j] = order[j - m]
    <3>1. i - m = j - m
      BY <2>3 DEF Distinct
    <3> QED  BY <2>1, <3>1
  <2> QED  BY <1>5, <2>2, <2>3
<1> QED
  BY <1>3, <1>5, <1>6

LEMMA LeftInLine ==
    ASSUME WebhooksTypeOK, LineInv, NEW S
    PROVE  /\ Among(line, S) \in Seq(Deliveries) /\ Distinct(Among(line, S))
           /\ \A k \in DOMAIN Among(line, S) :
                 /\ Among(line, S)[k] \in S \cap Deliveries
                 /\ Exists(delivery[Among(line, S)[k]])
                 /\ delivery[Among(line, S)[k]].status # "delivered"
<1>1. PICK left : left = Among(line, S)
  OBVIOUS
<1>2. line \in Seq(Deliveries) /\ Distinct(line)
  BY DEF WebhooksTypeOK, LineInv
<1>3. /\ left \in Seq(Deliveries) /\ Distinct(left)
      /\ \A k \in DOMAIN left : left[k] \in S /\ \E i \in DOMAIN line : line[i] = left[k]
  BY <1>1, <1>2, AmongSequence
<1>4. ASSUME NEW k \in DOMAIN left
      PROVE  /\ left[k] \in S \cap Deliveries
             /\ Exists(delivery[left[k]]) /\ delivery[left[k]].status # "delivered"
  <2>1. PICK i \in DOMAIN line : line[i] = left[k]
    BY <1>3
  <2>2. Exists(delivery[line[i]]) /\ delivery[line[i]].status # "delivered"
    BY DEF LineInv
  <2>3. line[i] \in Deliveries
    BY <1>2
  <2> QED  BY <1>3, <2>1, <2>2, <2>3
<1> QED
  BY <1>1, <1>3, <1>4

LEMMA LineOthers ==
    ASSUME WebhooksTypeOK, LineInv,
           \/ UNCHANGED <<delivery, line>>
           \/ \E w \in Hooks : Delete(w)
           \/ \E ids \in SUBSET Deliveries : Enqueues(ids)
           \/ \E d \in Deliveries : BackoffPasses(d)
    PROVE  LineInv'
<1>1. line \in Seq(Deliveries) /\ delivery \in [Deliveries -> DeliveryRows \cup {Unused, Deleted}]
  BY DEF WebhooksTypeOK
<1>2. CASE UNCHANGED <<delivery, line>>
  BY <1>2 DEF LineInv, Distinct
<1>3. ASSUME NEW w \in Hooks, Delete(w)
      PROVE  LineInv'
  <2>1. PICK S : S = {d \in Deliveries : Exists(delivery'[d])}
    OBVIOUS
  <2>2. line' = Among(line, S)
    BY <1>3, <2>1 DEF Delete
  <2>3. ASSUME NEW k \in DOMAIN line'
        PROVE  Exists(delivery'[line'[k]]) /\ delivery'[line'[k]].status # "delivered"
    <3>1. PICK d : d = line'[k]
      OBVIOUS
    <3>2. d \in S \cap Deliveries /\ Exists(delivery[d]) /\ delivery[d].status # "delivered"
      BY <2>2, <3>1, LeftInLine
    <3>3. delivery'[d] = delivery[d]
      BY <1>3, <2>1, <3>2, DeleteKeeps DEF Exists
    <3> QED  BY <3>1, <3>2, <3>3
  <2>4. Distinct(line')
    BY <2>2, LeftInLine
  <2> QED  BY <2>3, <2>4 DEF LineInv, Distinct
<1>4. ASSUME NEW ids \in SUBSET Deliveries, Enqueues(ids)
      PROVE  LineInv'
  <2>1. PICK order \in Seq(ids) : Distinct(order) /\ line' = line \o order
    BY <1>4 DEF Enqueues
  <2>2. order \in Seq(Deliveries)
    BY <2>1
  <2>3. \A d \in ids : /\ delivery[d] = Unused
                       /\ Exists(delivery'[d]) /\ delivery'[d].status # "delivered"
    <3> SUFFICES ASSUME NEW d \in ids
                 PROVE /\ delivery[d] = Unused
                       /\ Exists(delivery'[d]) /\ delivery'[d].status # "delivered"
      OBVIOUS
    <3>1. delivery[d] = Unused /\ \E w \in Hooks : delivery'[d] = Fresh(w)
      BY <1>4 DEF Enqueues
    <3> QED  BY <3>1, FreshType DEF DeliveryRows, Exists, Unused, Deleted
  <2>4. \A i \in DOMAIN line : /\ Exists(delivery[line[i]]) /\ delivery[line[i]].status # "delivered"
                               /\ line[i] \in Deliveries
    BY <1>1 DEF LineInv
  <2>5. \A j \in DOMAIN order : order[j] \in ids
    BY <2>1
  <2>6. \A i \in DOMAIN line, j \in DOMAIN order : line[i] # order[j]
    BY <2>3, <2>4, <2>5 DEF Exists
  <2>7. /\ Distinct(line')
        /\ \A k \in DOMAIN line' : \/ \E i \in DOMAIN line : line'[k] = line[i]
                                   \/ \E j \in DOMAIN order : line'[k] = order[j]
    BY <1>1, <2>1, <2>2, <2>6, LastInLine DEF LineInv
  <2>8. ASSUME NEW k \in DOMAIN line'
        PROVE  Exists(delivery'[line'[k]]) /\ delivery'[line'[k]].status # "delivered"
    <3>1. CASE \E i \in DOMAIN line : line'[k] = line[i]
      <4>1. PICK i \in DOMAIN line : line'[k] = line[i]
        BY <3>1
      <4>2. delivery'[line[i]] = delivery[line[i]]
        BY <1>4, <2>3, <2>4 DEF Enqueues, Exists
      <4> QED  BY <2>4, <4>1, <4>2
    <3>2. CASE \E j \in DOMAIN order : line'[k] = order[j]
      BY <2>3, <2>5, <3>2
    <3> QED  BY <2>7, <3>1, <3>2
  <2> QED  BY <2>7, <2>8 DEF LineInv, Distinct
<1>5. ASSUME NEW d \in Deliveries, BackoffPasses(d)
      PROVE  LineInv'
  <2>1. /\ Exists(delivery[d]) /\ delivery[d].status # "delivered"
        /\ \A i \in DOMAIN line : line[i] # d
        /\ line' = line \o <<d>> /\ delivery' = delivery
    BY <1>1, <1>5 DEF BackoffPasses, Waiting, Contains
  <2>2. PICK order : order = <<d>>
    OBVIOUS
  <2>3. /\ order \in Seq(Deliveries) /\ Distinct(order) /\ line' = line \o order
        /\ \A j \in DOMAIN order : order[j] = d
    BY <2>1, <2>2 DEF Distinct
  <2>4. /\ Distinct(line')
        /\ \A k \in DOMAIN line' : \/ \E i \in DOMAIN line : line'[k] = line[i]
                                   \/ line'[k] = d
    BY <1>1, <2>1, <2>3, LastInLine DEF LineInv
  <2> QED  BY <2>1, <2>4 DEF LineInv, Distinct
<1> QED
  BY <1>2, <1>3, <1>4, <1>5

\* A delivery that is marked leaves its place, and stays out or is put last.
LEMMA LineMarked ==
    ASSUME WebhooksTypeOK, LineInv, NEW d \in Deliveries,
           \A e \in Deliveries \ {d} : delivery'[e] = delivery[e],
           \/ line' = Among(line, Deliveries \ {d})
           \/ /\ line' = Append(Among(line, Deliveries \ {d}), d)
              /\ Exists(delivery'[d]) /\ delivery'[d].status # "delivered"
    PROVE  LineInv'
<1>1. PICK left : left = Among(line, Deliveries \ {d})
  OBVIOUS
<1>2. /\ left \in Seq(Deliveries) /\ Distinct(left)
      /\ \A k \in DOMAIN left :
            /\ left[k] \in (Deliveries \ {d}) \cap Deliveries
            /\ Exists(delivery[left[k]]) /\ delivery[left[k]].status # "delivered"
  BY <1>1, LeftInLine
<1>3. \A k \in DOMAIN left :
          /\ left[k] # d
          /\ Exists(delivery'[left[k]]) /\ delivery'[left[k]].status # "delivered"
  BY <1>2
<1>4. CASE line' = left
  BY <1>2, <1>3, <1>4 DEF LineInv, Distinct
<1>5. CASE /\ line' = Append(left, d)
           /\ Exists(delivery'[d]) /\ delivery'[d].status # "delivered"
  <2>1. PICK order : order = <<d>>
    OBVIOUS
  <2>2. /\ order \in Seq(Deliveries) /\ Distinct(order) /\ line' = left \o order
        /\ \A j \in DOMAIN order : order[j] = d
    BY <1>2, <1>5, <2>1 DEF Distinct
  <2>3. /\ Distinct(line')
        /\ \A k \in DOMAIN line' : \/ \E i \in DOMAIN left : line'[k] = left[i]
                                   \/ line'[k] = d
    BY <1>2, <1>3, <2>2, LastInLine
  <2> QED  BY <1>3, <1>5, <2>3 DEF LineInv, Distinct
<1> QED
  BY <1>1, <1>4, <1>5

LEMMA LineStep == WebhooksTypeOK /\ LineInv /\ [WebhooksNext]_hookVars => LineInv'
<1> SUFFICES ASSUME WebhooksTypeOK, LineInv, [WebhooksNext]_hookVars PROVE LineInv'
  OBVIOUS
<1>1. ASSUME NEW p \in Dispatchers, NEW d \in Deliveries, MarkDelivered(p, d)
      PROVE  LineInv'
  <2>1. CASE Exists(delivery[d])
    BY <1>1, <2>1, DeliveredRow, LineMarked
  <2>2. CASE ~Exists(delivery[d])
    <3>1. delivery' = delivery /\ line' = line
      BY <1>1, <2>2 DEF MarkDelivered, queue
    <3> QED  BY <3>1 DEF LineInv, Distinct
  <2> QED  BY <2>1, <2>2
<1>2. ASSUME NEW p \in Dispatchers, NEW d \in Deliveries, MarkFailed(p, d)
      PROVE  LineInv'
  <2>1. CASE Exists(delivery[d])
    BY <1>2, <2>1, FailedRow, LineMarked
  <2>2. CASE ~Exists(delivery[d])
    <3>1. delivery' = delivery /\ line' = line
      BY <1>2, <2>2 DEF MarkFailed, queue
    <3> QED  BY <3>1 DEF LineInv, Distinct
  <2> QED  BY <2>1, <2>2
<1>3. ASSUME NEW p \in Dispatchers,
             \/ List(p) \/ ListBreaks(p) \/ MarkFails(p) \/ Crash(p)
             \/ \E d \in Deliveries : Sends(p, d)
      PROVE  LineInv'
  <2>1. UNCHANGED <<delivery, line>>
    BY <1>3 DEF List, ListBreaks, MarkFails, Crash, Sends, Sent, Send, queue
  <2> QED  BY <2>1, LineOthers
<1>4. CASE ~ \E p \in Dispatchers : Work(p) \/ Breaks(p)
  BY <1>4, OthersKeep, LineOthers
<1> QED
  BY DispatcherSteps, <1>1, <1>2, <1>3, <1>4

-----------------------------------------------------------------------------
(* A lone dispatcher.                                                        *)

Undelivered(d) == ~(Exists(delivery[d]) /\ delivery[d].status = "delivered")

InBatch(p, d) == \E k \in DOMAIN batch[p] : batch[p][k].id = d

\* A dispatcher has listed every delivery once, and none that is delivered.
BatchInv(p) ==
    /\ \A i, j \in DOMAIN batch[p] : batch[p][i].id = batch[p][j].id => i = j
    /\ \A k \in DOMAIN batch[p] : /\ delivery[batch[p][k].id] # Unused
                                  /\ Undelivered(batch[p][k].id)

\* What was accepted more often than there were faults has just been accepted,
\* and is about to be recorded, or will not be sent again.
Repeats(p) ==
    \A d \in Deliveries : accepted[d] > faults =>
        /\ accepted[d] = faults + 1
        /\ \/ InHand(p, d) /\ posted[p] = "ok"
           \/ /\ delivery[d] = Deleted \/ ~Undelivered(d)
              /\ ~InBatch(p, d)

NothingBeforeUse == \A d \in Deliveries : delivery[d] = Unused => accepted[d] = 0

LoneInv(p) == /\ AcceptInv
              /\ LineInv
              /\ BatchInv(p)
              /\ NothingBeforeUse
              /\ Repeats(p)

\* The first of a batch is in it.
LEMMA HandOfBatch ==
    ASSUME WebhooksTypeOK, NEW p \in Dispatchers, NEW d, InHand(p, d)
    PROVE  InBatch(p, d)
<1>1. batch[p] \in Seq(Listed) /\ batch[p] # <<>> /\ Head(batch[p]).id = d
  BY DEF WebhooksTypeOK, InHand
<1>2. 1 \in DOMAIN batch[p] /\ batch[p][1].id = d
  BY <1>1
<1> QED
  BY <1>2 DEF InBatch

\* What is about to be sent has been accepted no more often than there were faults.
LEMMA RoomForOne ==
    ASSUME NEW p \in Dispatchers, LoneInv(p), NEW d \in Deliveries,
           InHand(p, d), posted[p] = NotPosted
    PROVE  accepted[d] <= faults
<1>1. faults \in Nat /\ accepted[d] \in Nat
  BY BoundAssumption DEF LoneInv, AcceptInv, WebhooksTypeOK, AcceptCap
<1>2. CASE accepted[d] > faults
  <2>1. posted[p] = "ok" \/ ~InBatch(p, d)
    BY <1>2 DEF LoneInv, Repeats
  <2> QED  BY <2>1, HandOfBatch DEF NotPosted, LoneInv, AcceptInv
<1> QED
  BY <1>1, <1>2

\* What is left of a batch when its first delivery is done.
LEMMA RestOfBatch ==
    ASSUME WebhooksTypeOK, NEW p \in Dispatchers, BatchInv(p), Done(p), batch[p] # <<>>
    PROVE  /\ \A i, j \in DOMAIN batch'[p] : batch'[p][i].id = batch'[p][j].id => i = j
           /\ \A k \in DOMAIN batch'[p] : /\ InBatch(p, batch'[p][k].id)
                                          /\ batch'[p][k].id # Head(batch[p]).id
           /\ posted'[p] = NotPosted
<1>1. PICK s \in Seq(Listed) : s = batch[p]
  BY DEF WebhooksTypeOK
<1>2. PICK rest : rest = Tail(s)
  OBVIOUS
<1>3. /\ \A k \in DOMAIN rest : k \in Int /\ k # 0 /\ k + 1 \in DOMAIN s /\ rest[k] = s[k + 1]
      /\ 1 \in DOMAIN s /\ Head(s) = s[1]
  BY <1>1, <1>2
<1>4. batch'[p] = rest /\ posted'[p] = NotPosted
  BY <1>1, <1>2, DoneKeeps
<1>5. \A i, j \in DOMAIN s : s[i].id = s[j].id => i = j
  BY <1>1 DEF BatchInv
<1>6. ASSUME NEW i \in DOMAIN rest, NEW j \in DOMAIN rest, rest[i].id = rest[j].id
      PROVE  i = j
  <2>1. i + 1 = j + 1
    BY <1>3, <1>5, <1>6
  <2> QED  BY <1>3, <2>1
<1>7. ASSUME NEW k \in DOMAIN rest
      PROVE  InBatch(p, rest[k].id) /\ rest[k].id # Head(s).id
  <2>1. k + 1 \in DOMAIN s /\ rest[k] = s[k + 1] /\ k + 1 # 1
    BY <1>3
  <2>2. s[k + 1].id # s[1].id
    BY <1>3, <1>5, <2>1
  <2> QED  BY <1>1, <1>3, <2>1, <2>2 DEF InBatch
<1> QED
  BY <1>1, <1>4, <1>6, <1>7

\* The steps of others, which touch no delivery that is delivered or listed
\* unless they delete it.
LEMMA LoneOthers ==
    ASSUME NEW p \in Dispatchers, LoneInv(p), [WebhooksNext]_hookVars,
           ~ \E q \in Dispatchers : Work(q) \/ Breaks(q)
    PROVE  (BatchInv(p) /\ NothingBeforeUse /\ Repeats(p))'
<1>1. /\ batch' = batch /\ posted' = posted /\ accepted' = accepted
      /\ faults' = faults \/ faults' = faults + 1
  BY OthersKeep DEF LoneInv, AcceptInv, working, history
<1>2. faults \in Nat /\ accepted \in [Deliveries -> 0..AcceptCap]
  BY DEF LoneInv, AcceptInv, WebhooksTypeOK
<1>3. ASSUME NEW d \in Deliveries
      PROVE  /\ delivery'[d] = Unused => delivery[d] = Unused
             /\ delivery[d] # Unused => delivery'[d] \in {delivery[d], Deleted}
  <2>1. \/ delivery'[d] = delivery[d]
        \/ delivery'[d] = Deleted /\ Exists(delivery[d])
        \/ delivery[d] = Unused /\ \E w \in Hooks : delivery'[d] = Fresh(w)
    BY OthersDeliverNothing DEF LoneInv, AcceptInv
  <2>2. Deleted # Unused
    BY DEF Deleted, Unused
  <2> QED  BY <2>1, <2>2
<1>4. ASSUME NEW k \in DOMAIN batch[p]
      PROVE  batch[p][k].id \in Deliveries
  <2>1. batch[p] \in Seq(Listed)
    BY DEF LoneInv, AcceptInv, WebhooksTypeOK
  <2>2. batch[p][k] \in Listed
    BY <2>1
  <2> QED  BY <2>2 DEF Listed
<1>5. ASSUME NEW k \in DOMAIN batch[p]
      PROVE  delivery'[batch[p][k].id] # Unused /\ Undelivered(batch[p][k].id)'
  <2>1. PICK d \in Deliveries : d = batch[p][k].id
    BY <1>4
  <2>2. delivery[d] # Unused /\ Undelivered(d)
    BY <2>1 DEF LoneInv, BatchInv
  <2>3. delivery'[d] # Unused /\ delivery'[d] \in {delivery[d], Deleted}
    BY <1>3, <2>2
  <2> QED  BY <1>1, <2>1, <2>2, <2>3 DEF Undelivered, Exists
<1>6. BatchInv(p)'
  <2>1. \A i, j \in DOMAIN batch[p] : batch[p][i].id = batch[p][j].id => i = j
    BY DEF LoneInv, BatchInv
  <2> QED  BY <1>1, <1>5, <2>1 DEF BatchInv
<1>7. NothingBeforeUse'
  BY <1>1, <1>3 DEF LoneInv, NothingBeforeUse
<1>8. ASSUME NEW d \in Deliveries, accepted[d] > faults'
      PROVE  /\ accepted[d] = faults' + 1
             /\ \/ InHand(p, d)' /\ posted'[p] = "ok"
                \/ /\ delivery'[d] = Deleted \/ ~Undelivered(d)'
                   /\ ~InBatch(p, d)'
  <2>1. accepted[d] > faults
    BY <1>1, <1>2, <1>8
  <2>2. /\ accepted[d] = faults + 1
        /\ \/ InHand(p, d) /\ posted[p] = "ok"
           \/ /\ delivery[d] = Deleted \/ ~Undelivered(d)
              /\ ~InBatch(p, d)
    BY <2>1 DEF LoneInv, Repeats
  <2>3. faults' = faults
    BY <1>1, <1>2, <1>8, <2>2
  <2>4. InHand(p, d) => InHand(p, d)'
    BY <1>1 DEF InHand
  <2>5. ~InBatch(p, d) => ~InBatch(p, d)'
    BY <1>1 DEF InBatch
  <2>6. delivery[d] = Deleted \/ ~Undelivered(d) => delivery'[d] = Deleted \/ ~Undelivered(d)'
    BY <1>3 DEF Undelivered, Exists, Unused, Deleted
  <2> QED  BY <1>1, <2>2, <2>3, <2>4, <2>5, <2>6
<1>9. Repeats(p)'
  BY <1>1, <1>8 DEF Repeats
<1> QED
  BY <1>6, <1>7, <1>9

LEMMA LoneLists ==
    ASSUME NEW p \in Dispatchers, LoneInv(p), List(p) \/ ListBreaks(p)
    PROVE  (BatchInv(p) /\ NothingBeforeUse /\ Repeats(p))'
<1>1. /\ batch[p] = <<>> /\ delivery' = delivery /\ posted' = posted /\ accepted' = accepted
      /\ faults' = faults \/ faults' = faults + 1
  BY DEF List, ListBreaks, Fault, queue, history
<1>2. faults \in Nat /\ batch \in [Dispatchers -> Seq(Listed)]
      /\ accepted \in [Deliveries -> 0..AcceptCap]
  BY DEF LoneInv, AcceptInv, WebhooksTypeOK
<1>3. PICK n \in 0..Len(Due) : batch' = [batch EXCEPT ![p] = Snapshot(n)]
  <2>1. CASE List(p)
    BY <2>1, DueListed DEF List, LoneInv, AcceptInv
  <2>2. CASE ListBreaks(p)
    BY <2>2, DueListed DEF ListBreaks, LoneInv, AcceptInv
  <2> QED  BY <2>1, <2>2
<1>4. PICK due : due = Due
  OBVIOUS
<1>5. /\ batch'[p] = Snapshot(n) /\ DOMAIN batch'[p] = 1..n /\ 1..n \subseteq DOMAIN due
      /\ \A k \in 1..n : batch'[p][k].id = due[k]
  BY <1>2, <1>3, <1>4, SnapshotOfDue DEF LoneInv, AcceptInv
<1>6. /\ \A i, j \in DOMAIN due : due[i] = due[j] => i = j
      /\ \A k \in DOMAIN due : \E i \in DOMAIN line : line[i] = due[k]
  BY <1>4, DueInLine DEF LoneInv, AcceptInv, LineInv, Distinct
<1>7. \A k \in DOMAIN due : Exists(delivery[due[k]]) /\ delivery[due[k]].status # "delivered"
  BY <1>6 DEF LoneInv, LineInv
<1>8. BatchInv(p)'
  <2>1. \A i, j \in DOMAIN batch'[p] : batch'[p][i].id = batch'[p][j].id => i = j
    BY <1>5, <1>6
  <2>2. ASSUME NEW k \in DOMAIN batch'[p]
        PROVE  delivery'[batch'[p][k].id] # Unused /\ Undelivered(batch[p][k].id)'
    <3>1. PICK d : d = batch'[p][k].id
      OBVIOUS
    <3>2. Exists(delivery'[d]) /\ delivery'[d].status # "delivered"
      BY <1>1, <1>5, <1>7, <3>1
    <3> QED  BY <3>1, <3>2 DEF Undelivered, Exists
  <2> QED  BY <2>1, <2>2 DEF BatchInv
<1>9. NothingBeforeUse'
  BY <1>1 DEF LoneInv, NothingBeforeUse
<1>10. ASSUME NEW d \in Deliveries, accepted[d] > faults'
       PROVE  /\ accepted[d] = faults' + 1
              /\ delivery'[d] = Deleted \/ ~Undelivered(d)'
              /\ ~InBatch(p, d)'
  <2>1. accepted[d] > faults
    BY <1>1, <1>2, <1>10
  <2>2. /\ accepted[d] = faults + 1
        /\ delivery[d] = Deleted \/ ~Undelivered(d)
    BY <1>1, <2>1 DEF LoneInv, Repeats, InHand
  <2>3. faults' = faults
    BY <1>1, <1>2, <1>10, <2>2
  <2>4. delivery'[d] = Deleted \/ ~Undelivered(d)'
    BY <1>1, <2>2 DEF Undelivered
  <2>5. ~InBatch(p, d)'
    BY <1>5, <1>7, <2>2 DEF InBatch, Undelivered, Exists
  <2> QED  BY <2>2, <2>3, <2>4, <2>5
<1>11. Repeats(p)'
  BY <1>1, <1>10 DEF Repeats
<1> QED
  BY <1>8, <1>9, <1>11

LEMMA LonePosts ==
    ASSUME NEW p \in Dispatchers, LoneInv(p), NEW d \in Deliveries,
           NEW answer \in {"ok", "bad"}, NEW accepts \in BOOLEAN, Sent(p, d, answer, accepts)
    PROVE  (BatchInv(p) /\ NothingBeforeUse /\ Repeats(p))'
<1>1. /\ InHand(p, d) /\ posted[p] = NotPosted
      /\ posted' = [posted EXCEPT ![p] = answer]
      /\ accepted' = [accepted EXCEPT ![d] =
                         IF accepts THEN Capped(@ + 1, AcceptCap) ELSE @]
      /\ batch' = batch /\ delivery' = delivery
      /\ answer = "ok" => accepts
      /\ faults' = IF accepts /\ answer = "bad" THEN faults + 1 ELSE faults
  BY DEF Sent, Send, queue
<1>2. /\ faults \in 0..MaxFaults /\ batch[p] \in Seq(Listed)
      /\ accepted \in [Deliveries -> 0..AcceptCap] /\ AcceptCap = MaxFaults + 2
      /\ posted \in [Dispatchers -> {NotPosted, "ok", "bad"}] /\ MaxFaults \in Nat
  BY BoundAssumption DEF LoneInv, AcceptInv, WebhooksTypeOK, AcceptCap
<1>3. InBatch(p, d)
  BY <1>1, HandOfBatch DEF LoneInv, AcceptInv
<1>4. accepted[d] <= faults
  BY <1>1, RoomForOne
<1>5. /\ accepted'[d] = IF accepts THEN accepted[d] + 1 ELSE accepted[d]
      /\ \A e \in Deliveries \ {d} : accepted'[e] = accepted[e]
  BY <1>1, <1>2, <1>4 DEF Capped
<1>6. BatchInv(p)'
  BY <1>1 DEF LoneInv, BatchInv, Undelivered
<1>7. NothingBeforeUse'
  <2>1. delivery[d] # Unused
    BY <1>3 DEF LoneInv, BatchInv, InBatch
  <2> QED  BY <1>1, <1>5, <2>1 DEF LoneInv, NothingBeforeUse
<1>8. ASSUME NEW e \in Deliveries, accepted'[e] > faults'
      PROVE  /\ accepted'[e] = faults' + 1
             /\ \/ InHand(p, e)' /\ posted'[p] = "ok"
                \/ /\ delivery[e] = Deleted \/ ~Undelivered(e)
                   /\ ~InBatch(p, e)
  <2>1. CASE e = d
    <3>1. answer = "ok" /\ accepted'[d] = faults' + 1
      BY <1>1, <1>2, <1>4, <1>5, <1>8, <2>1
    <3>2. InHand(p, d)' /\ posted'[p] = "ok"
      BY <1>1, <1>2, <3>1 DEF InHand
    <3> QED  BY <2>1, <3>1, <3>2
  <2>2. CASE e # d
    <3>1. accepted[e] > faults /\ accepted'[e] = accepted[e]
      BY <1>1, <1>2, <1>5, <1>8, <2>2
    <3>2. /\ accepted[e] = faults + 1
          /\ delivery[e] = Deleted \/ ~Undelivered(e)
          /\ ~InBatch(p, e)
      BY <1>1, <3>1 DEF LoneInv, Repeats, NotPosted
    <3> QED  BY <1>1, <1>2, <1>8, <3>1, <3>2
  <2> QED  BY <2>1, <2>2
<1>9. Repeats(p)'
  <2>1. \A e \in Deliveries : /\ Undelivered(e)' <=> Undelivered(e)
                              /\ InBatch(p, e)' <=> InBatch(p, e)
    BY <1>1 DEF Undelivered, InBatch
  <2> QED  BY <1>1, <1>8, <2>1 DEF Repeats
<1> QED
  BY <1>6, <1>7, <1>9

\* A fault pays for the answer it loses.
LEMMA LoneFaults ==
    ASSUME NEW p \in Dispatchers, LoneInv(p), MarkFails(p) \/ Crash(p)
    PROVE  (BatchInv(p) /\ NothingBeforeUse /\ Repeats(p))'
<1>1. /\ delivery' = delivery /\ accepted' = accepted /\ faults' = faults + 1
      /\ batch[p] # <<>>
  BY DEF MarkFails, Crash, Fault, queue, history, LoneInv, AcceptInv, PostsFromBatch
<1>2. faults \in Nat /\ accepted \in [Deliveries -> 0..AcceptCap]
  BY DEF LoneInv, AcceptInv, WebhooksTypeOK
<1>3. /\ \A i, j \in DOMAIN batch'[p] : batch'[p][i].id = batch'[p][j].id => i = j
      /\ \A k \in DOMAIN batch'[p] : InBatch(p, batch'[p][k].id)
  <2>1. CASE MarkFails(p)
    BY <1>1, <2>1, RestOfBatch DEF MarkFails, LoneInv, AcceptInv
  <2>2. CASE Crash(p)
    <3>1. batch'[p] = <<>>
      BY <2>2 DEF Crash, LoneInv, AcceptInv, WebhooksTypeOK
    <3> QED  BY <3>1
  <2> QED  BY <2>1, <2>2
<1>4. BatchInv(p)'
  <2>1. \A d : InBatch(p, d) => delivery[d] # Unused /\ Undelivered(d)
    BY DEF LoneInv, BatchInv, InBatch
  <2> QED  BY <1>1, <1>3, <2>1 DEF BatchInv, Undelivered
<1>5. NothingBeforeUse'
  BY <1>1 DEF LoneInv, NothingBeforeUse
<1>6. \A d \in Deliveries : ~ accepted[d] > faults'
  BY <1>1, <1>2 DEF LoneInv, Repeats
<1>7. Repeats(p)'
  BY <1>1, <1>6 DEF Repeats
<1> QED
  BY <1>4, <1>5, <1>7

\* A recorded answer leaves the batch, and the delivery delivered if accepted.
LEMMA LoneMarks ==
    ASSUME NEW p \in Dispatchers, LoneInv(p), NEW d \in Deliveries,
           MarkDelivered(p, d) \/ MarkFailed(p, d)
    PROVE  (BatchInv(p) /\ NothingBeforeUse /\ Repeats(p))'
<1>1. /\ InHand(p, d) /\ Done(p) /\ faults' = faults /\ accepted' = accepted
      /\ \A e \in Deliveries \ {d} : delivery'[e] = delivery[e]
      /\ Exists(delivery[d]) => Exists(delivery'[d])
      /\ ~Exists(delivery[d]) => delivery'[d] = delivery[d]
  BY DeliveredRow, FailedRow DEF LoneInv, AcceptInv
<1>2. /\ posted[p] = "ok" /\ Exists(delivery[d]) => ~Undelivered(d)'
      /\ posted[p] \in {"ok", "bad"}
  BY DeliveredRow, FailedRow DEF LoneInv, AcceptInv, Undelivered
<1>3. /\ \A i, j \in DOMAIN batch'[p] : batch'[p][i].id = batch'[p][j].id => i = j
      /\ \A k \in DOMAIN batch'[p] : InBatch(p, batch'[p][k].id) /\ batch'[p][k].id # d
  BY <1>1, RestOfBatch DEF LoneInv, AcceptInv, InHand
<1>4. batch[p] \in Seq(Listed) /\ batch[p] # <<>> /\ Head(batch[p]).id = d
  BY <1>1 DEF LoneInv, AcceptInv, WebhooksTypeOK, InHand
<1>5. InBatch(p, d) /\ \A e : InBatch(p, e) => e \in Deliveries
  <2>1. 1 \in DOMAIN batch[p] /\ batch[p][1].id = d
    BY <1>4
  <2>2. ASSUME NEW k \in DOMAIN batch[p] PROVE batch[p][k].id \in Deliveries
    <3>1. batch[p][k] \in Listed
      BY <1>4
    <3> QED  BY <3>1 DEF Listed
  <2> QED  BY <2>1, <2>2 DEF InBatch
<1>6. \A e : InBatch(p, e) => delivery[e] # Unused /\ Undelivered(e)
  BY DEF LoneInv, BatchInv, InBatch
<1>7. BatchInv(p)'
  <2>1. ASSUME NEW k \in DOMAIN batch'[p]
        PROVE  delivery'[batch'[p][k].id] # Unused /\ Undelivered(batch[p][k].id)'
    <3>1. PICK e \in Deliveries : e = batch'[p][k].id
      BY <1>3, <1>5
    <3>2. e # d /\ delivery[e] # Unused /\ Undelivered(e)
      BY <1>3, <1>6, <3>1
    <3>3. delivery'[e] = delivery[e]
      BY <1>1, <3>2
    <3> QED  BY <3>1, <3>2, <3>3 DEF Undelivered
  <2> QED  BY <1>3, <2>1 DEF BatchInv
<1>8. NothingBeforeUse'
  <2>1. delivery[d] # Unused /\ delivery'[d] # Unused
    BY <1>1, <1>5, <1>6 DEF Exists
  <2> QED  BY <1>1, <2>1 DEF LoneInv, NothingBeforeUse
<1>9. ASSUME NEW e \in Deliveries, accepted[e] > faults
      PROVE  /\ accepted[e] = faults + 1
             /\ delivery'[e] = Deleted \/ ~Undelivered(e)'
             /\ ~InBatch(p, e)'
  <2>1. /\ accepted[e] = faults + 1
        /\ \/ InHand(p, e) /\ posted[p] = "ok"
           \/ /\ delivery[e] = Deleted \/ ~Undelivered(e)
              /\ ~InBatch(p, e)
    BY <1>9 DEF LoneInv, Repeats
  <2>2. CASE e = d
    <3>1. posted[p] = "ok"
      BY <1>5, <2>1, <2>2
    <3>2. delivery'[d] = Deleted \/ ~Undelivered(d)'
      <4>1. CASE Exists(delivery[d])
        BY <1>2, <3>1, <4>1
      <4>2. CASE ~Exists(delivery[d])
        BY <1>1, <1>5, <1>6, <4>2 DEF Exists
      <4> QED  BY <4>1, <4>2
    <3>3. ~InBatch(p, d)'
      BY <1>3 DEF InBatch
    <3> QED  BY <2>1, <2>2, <3>2, <3>3
  <2>3. CASE e # d
    <3>1. ~InHand(p, e)
      BY <1>4, <2>3 DEF InHand
    <3>2. /\ delivery[e] = Deleted \/ ~Undelivered(e)
          /\ ~InBatch(p, e) /\ delivery'[e] = delivery[e]
      BY <1>1, <2>1, <2>3, <3>1
    <3>3. ~InBatch(p, e)'
      BY <1>3, <3>2 DEF InBatch
    <3>4. delivery'[e] = Deleted \/ ~Undelivered(e)'
      BY <3>2 DEF Undelivered
    <3> QED  BY <2>1, <3>3, <3>4
  <2> QED  BY <2>2, <2>3
<1>10. Repeats(p)'
  BY <1>1, <1>9 DEF Repeats
<1> QED
  BY <1>7, <1>8, <1>10

LEMMA LoneStep ==
    ASSUME NEW p, Dispatchers = {p}
    PROVE  LoneInv(p) /\ [WebhooksNext]_hookVars => LoneInv(p)'
<1> SUFFICES ASSUME LoneInv(p), [WebhooksNext]_hookVars PROVE LoneInv(p)'
  OBVIOUS
<1>1. AcceptInv' /\ LineInv'
  BY AcceptStep, LineStep DEF LoneInv, AcceptInv
<1>2. (BatchInv(p) /\ NothingBeforeUse /\ Repeats(p))'
  <2>1. CASE Work(p) \/ Breaks(p)
    BY <2>1, DispatcherSteps, LoneLists, LonePosts, LoneMarks, LoneFaults
       DEF Sends, LoneInv, AcceptInv
  <2>2. CASE ~(Work(p) \/ Breaks(p))
    BY <2>2, LoneOthers
  <2> QED  BY <2>1, <2>2
<1> QED
  BY <1>1, <1>2 DEF LoneInv

LEMMA LoneInit ==
    ASSUME NEW p, Dispatchers = {p}
    PROVE  WebhooksInit => LoneInv(p)
<1> SUFFICES ASSUME WebhooksInit PROVE LoneInv(p)
  OBVIOUS
<1>1. AcceptInv
  BY AcceptInit
<1>2. LineInv
  BY DEF WebhooksInit, LineInv, Distinct
<1>3. BatchInv(p)
  BY DEF WebhooksInit, BatchInv
<1>4. NothingBeforeUse /\ Repeats(p)
  BY DEF WebhooksInit, NothingBeforeUse, Repeats
<1> QED
  BY <1>1, <1>2, <1>3, <1>4 DEF LoneInv

\* With one dispatcher, an endpoint sees a delivery it has accepted again only
\* after a fault (an acceptance that deliverOne did not hear of before its
\* timeout, a record that was lost, or a crash between deliverOne's POST and its
\* record), and once for each.
THEOREM RepeatsNeedFaults ==
    ASSUME NEW p, Dispatchers = {p}
    PROVE  WebhooksSpec => []DuplicatesNeedFaults
<1>1. LoneInv(p) => DuplicatesNeedFaults
  <2> SUFFICES ASSUME LoneInv(p), NEW d \in Deliveries PROVE accepted[d] <= faults + 1
    BY DEF DuplicatesNeedFaults
  <2>1. faults \in Nat /\ accepted[d] \in Nat
    BY BoundAssumption DEF LoneInv, AcceptInv, WebhooksTypeOK, AcceptCap
  <2>2. accepted[d] > faults => accepted[d] = faults + 1
    BY DEF LoneInv, Repeats
  <2> QED  BY <2>1, <2>2
<1> QED
  BY <1>1, LoneInit, LoneStep, PTL DEF WebhooksSpec

\* With one dispatcher, what is delivered stays delivered until its webhook is
\* deleted: MarkFailed, which overwrites any status, never meets it.
THEOREM DeliveredStays ==
    ASSUME NEW p, Dispatchers = {p}
    PROVE  WebhooksSpec => DeliveredIsFinal
<1> DEFINE Final == \A d \in Deliveries :
                        Exists(delivery[d]) /\ delivery[d].status = "delivered" =>
                            delivery'[d] = Deleted \/ delivery'[d].status = "delivered"
<1>1. LoneInv(p) /\ [WebhooksNext]_hookVars => [Final]_hookVars
  <2> SUFFICES ASSUME LoneInv(p), [WebhooksNext]_hookVars, NEW d \in Deliveries,
                      Exists(delivery[d]), delivery[d].status = "delivered"
               PROVE  delivery'[d] = Deleted \/ delivery'[d].status = "delivered"
    OBVIOUS
  <2>1. CASE ~(Work(p) \/ Breaks(p))
    <3>1. \/ delivery'[d] = delivery[d]
          \/ delivery'[d] = Deleted
      BY <2>1, OthersDeliverNothing DEF LoneInv, AcceptInv, Exists
    <3> QED  BY <3>1
  <2>2. CASE \/ List(p) \/ ListBreaks(p) \/ MarkFails(p) \/ Crash(p)
             \/ \E e \in Deliveries : Sends(p, e)
    <3>1. delivery' = delivery
      BY <2>2 DEF List, ListBreaks, MarkFails, Crash, Sends, Sent, Send, queue
    <3> QED  BY <3>1
  <2>3. ASSUME NEW e \in Deliveries, MarkDelivered(p, e)
        PROVE  delivery'[d].status = "delivered"
    BY <2>3, DeliveredRow DEF LoneInv, AcceptInv
  <2>4. ASSUME NEW e \in Deliveries, MarkFailed(p, e)
        PROVE  delivery'[d].status = "delivered"
    <3>1. InHand(p, e) /\ \A f \in Deliveries \ {e} : delivery'[f] = delivery[f]
      BY <2>4, FailedRow DEF LoneInv, AcceptInv
    <3>2. batch[p] \in Seq(Listed) /\ batch[p] # <<>> /\ Head(batch[p]).id = e
      BY <3>1 DEF LoneInv, AcceptInv, WebhooksTypeOK, InHand
    <3>3. Undelivered(e)
      BY <3>2 DEF LoneInv, BatchInv
    <3>4. d # e
      BY <3>3 DEF Undelivered
    <3> QED  BY <3>1, <3>4
  <2> QED  BY <2>1, <2>2, <2>3, <2>4, DispatcherSteps DEF LoneInv, AcceptInv
<1> QED
  BY <1>1, LoneInit, LoneStep, PTL DEF WebhooksSpec, DeliveredIsFinal

-----------------------------------------------------------------------------
(* Webhooks implement an outbox.                                             *)

stages == [d \in Deliveries |-> Stage(delivery[d])]

LEMMA StageOfRow ==
    /\ Stage(Unused) = "new" /\ Stage(Deleted) = "dropped"
    /\ \A r : Exists(r) => Stage(r) = IF r.status = "delivered" THEN "settled" ELSE "owed"
<1>1. Unused # Deleted
  BY DEF Unused, Deleted
<1> QED
  BY <1>1 DEF Stage, Exists

\* Deliveries that enter or leave the queue together, and others that stay.
LEMMA StagesMove ==
    ASSUME WebhooksTypeOK, NEW set, NEW to, accepted' = accepted, faults' = faults,
           \A d \in Deliveries : Stage(delivery'[d]) = IF d \in set THEN to
                                                       ELSE Stage(delivery[d])
    PROVE  Promised!Move(set, to)
BY DEF Promised!Move, stages

LEMMA OutboxOthers ==
    ASSUME WebhooksTypeOK, [WebhooksNext]_hookVars,
           ~ \E p \in Dispatchers : Work(p) \/ Breaks(p)
    PROVE  [Promised!Next]_<<stages, accepted, faults>>
<1>1. accepted' = accepted /\ (faults' = faults \/ faults' = faults + 1)
  BY OthersKeep DEF history
<1>2. CASE delivery' = delivery
  <2>1. stages' = stages
    BY <1>2 DEF stages
  <2> QED  BY <1>1, <2>1 DEF Promised!Next, Promised!Fail, stages
<1>3. ASSUME NEW w \in Hooks, Delete(w)
      PROVE  Promised!Next
  <2>1. PICK set \in SUBSET Deliveries :
            set = {d \in Deliveries : Exists(delivery[d]) /\ delivery[d].hook = w}
    OBVIOUS
  <2>2. \A d \in Deliveries : delivery'[d] = IF d \in set THEN Deleted ELSE delivery[d]
    BY <1>3, <2>1 DEF Delete
  <2>3. \A d \in set : Stage(delivery[d]) \in {"owed", "settled"}
    BY <2>1, StageOfRow
  <2>4. \A d \in Deliveries : Stage(delivery'[d]) = IF d \in set THEN "dropped"
                                                     ELSE Stage(delivery[d])
    BY <2>2, StageOfRow
  <2>5. faults' = faults
    BY <1>3 DEF Delete
  <2>6. Promised!Move(set, "dropped")
    BY <1>1, <2>4, <2>5, StagesMove
  <2>7. Promised!Drop(set)
    BY <2>3, <2>6 DEF Promised!Drop
  <2> QED  BY <2>7 DEF Promised!Next
<1>4. ASSUME NEW ids \in SUBSET Deliveries, Enqueues(ids)
      PROVE  Promised!Next
  <2>1. \A d \in ids : delivery[d] = Unused /\ \E w \in Hooks : delivery'[d] = Fresh(w)
    BY <1>4 DEF Enqueues
  <2>2. \A w \in Hooks : Stage(Fresh(w)) = "owed"
    <3> SUFFICES ASSUME NEW w \in Hooks PROVE Stage(Fresh(w)) = "owed"
      OBVIOUS
    <3>1. Exists(Fresh(w))
      BY DEF Fresh, Exists, Unused, Deleted
    <3> QED  BY <3>1, FreshType, StageOfRow
  <2>3. \A d \in Deliveries : Stage(delivery'[d]) = IF d \in ids THEN "owed"
                                                     ELSE Stage(delivery[d])
    BY <1>4, <2>1, <2>2 DEF Enqueues
  <2>4. faults' = faults
    BY <1>4 DEF Enqueues
  <2>5. Promised!Move(ids, "owed")
    BY <1>1, <2>3, <2>4, StagesMove
  <2>6. \A d \in ids : Stage(delivery[d]) = "new"
    BY <2>1, StageOfRow
  <2>7. Promised!Put(ids)
    BY <2>5, <2>6 DEF Promised!Put
  <2> QED  BY <2>7 DEF Promised!Next
<1>5. ASSUME NEW d \in Deliveries, BackoffPasses(d)
      PROVE  delivery' = delivery
  BY <1>5 DEF BackoffPasses
<1> QED
  BY <1>2, <1>3, <1>4, <1>5, OthersKeep

LEMMA OutboxPosts ==
    ASSUME NEW p \in Dispatchers, LoneInv(p), NEW d \in Deliveries,
           NEW answer \in {"ok", "bad"}, NEW accepts \in BOOLEAN, Sent(p, d, answer, accepts)
    PROVE  [Promised!Next]_<<stages, accepted, faults>>
<1>1. /\ InHand(p, d) /\ posted[p] = NotPosted
      /\ accepted' = [accepted EXCEPT ![d] =
                         IF accepts THEN Capped(@ + 1, AcceptCap) ELSE @]
      /\ delivery' = delivery
      /\ faults' = IF accepts /\ answer = "bad" THEN faults + 1 ELSE faults
  BY DEF Sent, Send, queue
<1>2. stages' = stages
  BY <1>1 DEF stages
<1>3. CASE ~accepts
  BY <1>1, <1>2, <1>3 DEF LoneInv, AcceptInv, WebhooksTypeOK
<1>4. CASE accepts
  <2>1. accepted[d] <= faults
    BY <1>1, RoomForOne
  <2>2. accepted' = [accepted EXCEPT ![d] = @ + 1]
    <3>1. faults \in 0..MaxFaults /\ accepted[d] \in Nat /\ MaxFaults \in Nat
      BY BoundAssumption DEF LoneInv, AcceptInv, WebhooksTypeOK, AcceptCap
    <3>2. Capped(accepted[d] + 1, AcceptCap) = accepted[d] + 1
      BY <2>1, <3>1 DEF Capped, AcceptCap
    <3> QED  BY <1>1, <1>4, <3>2
  <2>3. Stage(delivery[d]) \in {"owed", "dropped"}
    <3>1. delivery[d] # Unused /\ Undelivered(d)
      BY <1>1, HandOfBatch DEF LoneInv, AcceptInv, BatchInv, InBatch
    <3> QED  BY <3>1, StageOfRow DEF Undelivered, Exists
  <2>4. Promised!Accept(d)
    BY <1>1, <1>2, <2>1, <2>2, <2>3 DEF Promised!Accept, stages
  <2> QED  BY <2>4 DEF Promised!Next
<1> QED
  BY <1>3, <1>4

LEMMA OutboxMarks ==
    ASSUME NEW p \in Dispatchers, LoneInv(p), NEW d \in Deliveries,
           MarkDelivered(p, d) \/ MarkFailed(p, d)
    PROVE  [Promised!Next]_<<stages, accepted, faults>>
<1>1. /\ InHand(p, d) /\ faults' = faults /\ accepted' = accepted
      /\ \A e \in Deliveries \ {d} : delivery'[e] = delivery[e]
      /\ ~Exists(delivery[d]) => delivery'[d] = delivery[d]
  BY DeliveredRow, FailedRow DEF LoneInv, AcceptInv
<1>2. delivery[d] # Unused /\ Undelivered(d)
  BY <1>1, HandOfBatch DEF LoneInv, AcceptInv, BatchInv, InBatch
<1>3. CASE Exists(delivery[d]) /\ MarkDelivered(p, d)
  <2>1. posted[p] = "ok" /\ Exists(delivery'[d]) /\ delivery'[d].status = "delivered"
    BY <1>3, DeliveredRow DEF LoneInv, AcceptInv
  <2>2. Stage(delivery[d]) = "owed" /\ Stage(delivery'[d]) = "settled"
    BY <1>2, <1>3, <2>1, StageOfRow DEF Undelivered
  <2>3. accepted[d] > 0
    BY <1>1, <2>1 DEF LoneInv, AcceptInv, AnswerCounted
  <2>4. \A e \in Deliveries : Stage(delivery'[e]) = IF e \in {d} THEN "settled"
                                                     ELSE Stage(delivery[e])
    BY <1>1, <2>2
  <2>5. Promised!Move({d}, "settled")
    BY <1>1, <2>4, StagesMove DEF LoneInv, AcceptInv
  <2>6. Promised!Settle(d)
    BY <2>2, <2>3, <2>5 DEF Promised!Settle
  <2> QED  BY <2>6 DEF Promised!Next
<1>4. CASE ~Exists(delivery[d]) \/ ~MarkDelivered(p, d)
  <2>1. Stage(delivery'[d]) = Stage(delivery[d])
    <3>1. CASE ~Exists(delivery[d])
      BY <1>1, <3>1
    <3>2. CASE Exists(delivery[d]) /\ MarkFailed(p, d)
      <4>1. Exists(delivery'[d]) /\ delivery'[d].status # "delivered"
        BY <3>2, FailedRow DEF LoneInv, AcceptInv
      <4> QED  BY <1>2, <3>2, <4>1, StageOfRow DEF Undelivered
    <3> QED  BY <1>4, <3>1, <3>2
  <2>2. stages' = stages
    BY <1>1, <2>1 DEF stages
  <2> QED  BY <1>1, <2>2
<1> QED
  BY <1>3, <1>4

\* With one dispatcher, webhooks are an outbox: deliveries are settled after
\* their acceptance and for good, and repeated only at the price of faults, of
\* which an acceptance that deliverOne did not hear of is one.
THEOREM ImplementsOutbox ==
    ASSUME NEW p, Dispatchers = {p}
    PROVE  WebhooksSpec => SendsAsPromised
<1>1. WebhooksInit => Promised!Init
  BY StageOfRow DEF WebhooksInit, Promised!Init
<1>2. LoneInv(p) /\ [WebhooksNext]_hookVars => [Promised!Next]_<<stages, accepted, faults>>
  <2> SUFFICES ASSUME LoneInv(p), [WebhooksNext]_hookVars
               PROVE  [Promised!Next]_<<stages, accepted, faults>>
    OBVIOUS
  <2>1. CASE ~(Work(p) \/ Breaks(p))
    BY <2>1, OutboxOthers DEF LoneInv, AcceptInv
  <2>2. CASE List(p) \/ ListBreaks(p) \/ MarkFails(p) \/ Crash(p)
    <3>1. /\ delivery' = delivery /\ accepted' = accepted
          /\ faults' = faults \/ faults' = faults + 1
      BY <2>2 DEF List, ListBreaks, MarkFails, Crash, Fault, queue, history
    <3>2. stages' = stages
      BY <3>1 DEF stages
    <3> QED  BY <3>1, <3>2 DEF Promised!Next, Promised!Fail, stages
  <2>3. CASE \E d \in Deliveries : Sends(p, d)
    BY <2>3, OutboxPosts DEF Sends
  <2>4. CASE \E d \in Deliveries : MarkDelivered(p, d) \/ MarkFailed(p, d)
    BY <2>4, OutboxMarks
  <2> QED  BY <2>1, <2>2, <2>3, <2>4, DispatcherSteps DEF LoneInv, AcceptInv
<1> QED
  BY <1>1, <1>2, LoneInit, LoneStep, PTL DEF WebhooksSpec, SendsAsPromised, Promised!Spec, stages
=============================================================================
