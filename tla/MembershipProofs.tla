--------------------------- MODULE MembershipProofs ---------------------------
(* The membership module keeps its types, and an organization keeps an       *)
(* active admin and answers a join request once, for any users, clients and  *)
(* failures.                                                                 *)
EXTENDS Membership, FiniteSetTheorems, TLAPS

\* What the request in flight at a client says about itself.
WellFormed(r) ==
    /\ r.pc \in {"org", "owner"} => r.op = "create" /\ r.role = "admin"
    /\ r.pc \in {"account", "ask"} => r.op \in {"signup", "join"}
    /\ r.pc \in {"find", "any", "add", "drop", "clear", "remove", "suspend",
                 "unsuspend"} => r.op \in AdminOps
    /\ r.pc \in {"remove", "suspend"} => r.op \in {"remove", "suspend"}
    /\ r.op \in {"remove", "suspend"} => r.by # r.on

Requests == \A c \in Clients : req[c] # Idle => WellFormed(req[c])

Populated == \/ \E u \in Users : IsMember(u)
             \/ \E c \in Clients : req[c] # Idle /\ req[c].op \in AdminOps

\* The organization and its owner are there, or should be.
Founded == org /\ ~orphaned /\ \A c \in Clients : ~At(c, "owner")

Led == \E u \in Users : ActiveAdmin(u)

\* AdminRemains is not inductive: the owner's insert fails if the owner is a
\* member already, and a removal must not be of oneself.  So a member, or a
\* request of an admin, shows as well as the organization that there is an
\* active admin.
Inv == /\ TypeOK
       /\ Requests
       /\ ~strayed /\ (Populated \/ Founded) => Led

-----------------------------------------------------------------------------
(* Steps of a request.                                                       *)

\* The requests of the other clients do not change.
LEMMA MoveOn ==
    ASSUME TypeOK, Requests, NEW c \in Clients, NEW pc, Goto(c, pc),
           req[c] # Idle,
           pc \in {"org", "owner", "account", "ask", "find", "any", "add",
                   "drop", "clear", "remove", "suspend", "unsuspend"},
           WellFormed([req[c] EXCEPT !.pc = pc])
    PROVE  /\ req' \in [Clients -> InFlight \cup {Idle}]
           /\ Requests'
           /\ \A d \in Clients : req'[d] # Idle =>
                 req[d] # Idle /\ req'[d].op = req[d].op
<1>1. req[c] \in InFlight
  BY DEF TypeOK
<1>2. [req[c] EXCEPT !.pc = pc] \in InFlight
  BY <1>1 DEF InFlight
<1>3. [req[c] EXCEPT !.pc = pc].op = req[c].op
  BY <1>1 DEF InFlight
<1>4. req' = [req EXCEPT ![c] = [req[c] EXCEPT !.pc = pc]]
  BY DEF Goto
<1> QED
  BY <1>2, <1>3, <1>4 DEF TypeOK, Requests

LEMMA End ==
    ASSUME TypeOK, Requests, NEW c \in Clients, Return(c)
    PROVE  /\ req' \in [Clients -> InFlight \cup {Idle}]
           /\ Requests'
           /\ \A d \in Clients : req'[d] # Idle =>
                 req[d] # Idle /\ req'[d].op = req[d].op
BY DEF TypeOK, Requests, Return

LEMMA Start ==
    ASSUME TypeOK, Requests, NEW c \in Clients, NEW r \in InFlight, Begin(c, r),
           WellFormed(r)
    PROVE  /\ req' \in [Clients -> InFlight \cup {Idle}]
           /\ Requests'
           /\ \A d \in Clients : req'[d] # Idle =>
                 \/ req[d] # Idle /\ req'[d].op = req[d].op
                 \/ req'[d] = r
BY DEF TypeOK, Requests, Begin

\* Adding, removing and suspending members.
LEMMA NotNoMember ==
    ASSUME NEW m \in Members
    PROVE  m # NoMember
<1>1. m.role \in {"admin", "member"}
  BY DEF Members
<1>2. NoMember.role = "none"
  BY DEF NoMember
<1> QED
  BY <1>1, <1>2

LEMMA MembersTyped ==
    ASSUME TypeOK, NEW u \in Users,
           NEW m \in Members \cup {NoMember},
           member' = [member EXCEPT ![u] = m]
    PROVE  member' \in [Users -> Members \cup {NoMember}]
BY DEF TypeOK

LEMMA SuspensionTyped ==
    ASSUME TypeOK, NEW u \in Users, NEW s \in BOOLEAN, SetSuspended(u, s)
    PROVE  /\ member' \in [Users -> Members \cup {NoMember}]
           /\ \A v \in Users : IsMember(v)' <=> IsMember(v)
           /\ \A v \in Users : (v # u \/ ~s) /\ ActiveAdmin(v) => ActiveAdmin(v)'
<1>1. CASE ~IsMember(u)
  BY <1>1 DEF SetSuspended, TypeOK, IsMember, ActiveAdmin, IsActive
<1>2. CASE IsMember(u)
  <2>1. member[u] \in Members
    BY <1>2 DEF TypeOK, IsMember
  <2>2. /\ member[u] = [role |-> member[u].role,
                        suspended |-> member[u].suspended]
        /\ member[u].role \in {"admin", "member"}
    BY <2>1 DEF Members
  <2>3. member' = [member EXCEPT ![u] = [role |-> member[u].role,
                                         suspended |-> s]]
    <3>1. member' = [member EXCEPT ![u] = [member[u] EXCEPT !.suspended = s]]
      BY <1>2 DEF SetSuspended
    <3>2. [member[u] EXCEPT !.suspended = s]
              = [role |-> member[u].role, suspended |-> s]
      BY <2>1 DEF Members
    <3> QED
      BY <3>1, <3>2
  <2>4. [role |-> member[u].role, suspended |-> s] \in Members
    BY <2>2 DEF Members
  <2>5. [role |-> member[u].role, suspended |-> s] # NoMember
    BY <2>4, NotNoMember
  <2> QED
    BY <1>2, <2>3, <2>4, <2>5
    DEF TypeOK, IsMember, ActiveAdmin, IsActive, Members
<1> QED
  BY <1>1, <1>2

\* An organization is founded by nothing but its owner's insert.
LEMMA FoundedBefore ==
    ASSUME NEW c \in Clients, \A d \in Clients : d # c => req'[d] = req[d],
           UNCHANGED org, ~At(c, "owner"), orphaned => orphaned'
    PROVE  Founded' => Founded
BY DEF Founded, At

\* Neither the members nor the strays change, and no admin sends a request.
Quiet ==
    /\ TypeOK' /\ Requests' /\ UNCHANGED <<member, strayed>>
    /\ \A d \in Clients : req'[d] # Idle =>
          \/ req'[d].op \notin AdminOps
          \/ req[d] # Idle /\ req'[d].op = req[d].op
    /\ Founded' => Founded

\* The steps that touch neither the members nor the strays.
LEMMA Paperwork ==
    ASSUME Inv, NEW c \in Clients,
           \/ \E u \in Users : BeginCreate(c, u)
           \/ \E u \in Users, op \in {"signup", "join"} : BeginSignup(c, u, op)
           \/ CreateOrg(c) \/ CreateUser(c) \/ AddJoinRequest(c)
           \/ FindJoinRequest(c) \/ FindMemberAny(c) \/ DeleteJoinRequest(c)
           \/ Abandon(c)
    PROVE  Inv'
<1> USE DEF Inv
<1> SUFFICES Quiet
  BY DEF Quiet, Populated, Led, IsMember, ActiveAdmin, IsActive
<1>1. ASSUME NEW u \in Users, BeginCreate(c, u)
      PROVE  Quiet
  <2> DEFINE r == Request("org", "create", u, u, "admin")
  <2>1. r \in InFlight /\ WellFormed(r) /\ r.op \notin AdminOps
    BY DEF Request, InFlight, WellFormed, AdminOps
  <2>2. Begin(c, r) /\ UNCHANGED <<org, users, member, pending, history>>
    BY <1>1 DEF BeginCreate
  <2> HIDE DEF r
  <2>3. Founded' => Founded
    BY <2>2, FoundedBefore DEF Begin, At, Idle, Inv, TypeOK, history, lapses
  <2> QED
    BY <2>1, <2>2, <2>3, Start DEF Quiet, TypeOK, history, lapses
<1>2. ASSUME NEW u \in Users, NEW op \in {"signup", "join"}, BeginSignup(c, u, op)
      PROVE  Quiet
  <2> DEFINE r == Request("account", op, u, u, "member")
  <2>1. r \in InFlight /\ WellFormed(r) /\ r.op \notin AdminOps
    BY DEF Request, InFlight, WellFormed, AdminOps
  <2>2. Begin(c, r) /\ UNCHANGED <<org, users, member, pending, history>>
    BY <1>2 DEF BeginSignup
  <2> HIDE DEF r
  <2>3. Founded' => Founded
    BY <2>2, FoundedBefore DEF Begin, At, Idle, Inv, TypeOK, history, lapses
  <2> QED
    BY <2>1, <2>2, <2>3, Start DEF Quiet, TypeOK, history, lapses
<1>3. ASSUME \/ CreateOrg(c) \/ CreateUser(c) \/ AddJoinRequest(c)
             \/ FindJoinRequest(c) \/ FindMemberAny(c) \/ DeleteJoinRequest(c)
             \/ Abandon(c)
      PROVE  Quiet
  <2>1. req[c] # Idle /\ req[c] \in InFlight /\ WellFormed(req[c])
    BY <1>3 DEF CreateOrg, CreateUser, AddJoinRequest, FindJoinRequest,
         FindMemberAny, DeleteJoinRequest, Abandon, At, TypeOK, Requests, Idle
  <2>2. \/ Return(c)
        \/ req[c].pc = "org" /\ Goto(c, "owner")
        \/ req[c].pc = "account" /\ Goto(c, "ask")
        \/ req[c].pc = "find" /\ Goto(c, "any")
        \/ req[c].pc = "any" /\ Goto(c, "add")
        \/ req[c].pc = "any" /\ Goto(c, "drop")
        \/ req[c].op = "remove" /\ Goto(c, "remove")
    BY <1>3 DEF CreateOrg, CreateUser, AddJoinRequest, FindJoinRequest,
         FindMemberAny, DeleteJoinRequest, Abandon, At
  <2>3. /\ req' \in [Clients -> InFlight \cup {Idle}] /\ Requests'
        /\ \A d \in Clients : req'[d] # Idle =>
              req[d] # Idle /\ req'[d].op = req[d].op
    <3>1. CASE Return(c)
      BY <3>1, End
    <3>2. ASSUME NEW pc \in {"owner", "ask", "any", "add", "drop", "remove"},
                 Goto(c, pc),
                 \/ req[c].pc = "org" /\ pc = "owner"
                 \/ req[c].pc = "account" /\ pc = "ask"
                 \/ req[c].pc = "find" /\ pc = "any"
                 \/ req[c].pc = "any" /\ pc \in {"add", "drop"}
                 \/ req[c].op = "remove" /\ pc = "remove"
          PROVE  /\ req' \in [Clients -> InFlight \cup {Idle}] /\ Requests'
                 /\ \A d \in Clients : req'[d] # Idle =>
                       req[d] # Idle /\ req'[d].op = req[d].op
      <4>1. WellFormed([req[c] EXCEPT !.pc = pc])
        BY <2>1, <3>2 DEF WellFormed, InFlight, AdminOps
      <4> QED
        BY <2>1, <3>2, <4>1, MoveOn
    <3> QED
      BY <2>2, <3>1, <3>2
  <2>4. UNCHANGED <<member, strayed>>
    BY <1>3 DEF CreateOrg, CreateUser, AddJoinRequest, FindJoinRequest,
         FindMemberAny, DeleteJoinRequest, Abandon, history, lapses
  <2>5. org' \in BOOLEAN /\ users' \subseteq Users /\ pending' \subseteq Users
    <3>1. req[c].on \in Users
      BY <2>1 DEF InFlight
    <3> QED
      BY <1>3, <3>1 DEF CreateOrg, CreateUser, AddJoinRequest, FindJoinRequest,
           FindMemberAny, DeleteJoinRequest, Abandon, TypeOK
  <2>6. answers' \in [Users -> SUBSET {"accepted", "revoked"}]
    <3>1. CASE UNCHANGED answers
      BY <3>1 DEF TypeOK
    <3>2. CASE DeleteJoinRequest(c)
      <4>1. \/ UNCHANGED answers
            \/ answers' = [answers EXCEPT ![req[c].on] = @ \cup {"revoked"}]
        BY <3>2 DEF DeleteJoinRequest
      <4> QED
        BY <4>1 DEF TypeOK
    <3> QED
      BY <1>3, <3>1, <3>2 DEF CreateOrg, CreateUser, AddJoinRequest,
           FindJoinRequest, FindMemberAny, Abandon, history, lapses
  <2>7. orphaned' \in BOOLEAN /\ (orphaned => orphaned')
    <3>1. UNCHANGED orphaned \/ orphaned' = (orphaned \/ At(c, "owner"))
      BY <1>3 DEF CreateOrg, CreateUser, AddJoinRequest, FindJoinRequest,
           FindMemberAny, DeleteJoinRequest, Abandon, history, lapses
    <3>2. orphaned \in BOOLEAN
      BY DEF TypeOK
    <3>3. CASE UNCHANGED orphaned
      BY <3>2, <3>3
    <3>4. ASSUME orphaned' = (orphaned \/ At(c, "owner"))
          PROVE  orphaned' \in BOOLEAN /\ (orphaned => orphaned')
      BY ONLY <3>2, <3>4 DEF At
    <3> QED
      BY <3>1, <3>3, <3>4
  <2>8. torn' \subseteq Users
    <3>1. CASE UNCHANGED torn
      BY <3>1 DEF TypeOK
    <3>2. CASE Abandon(c)
      <4>1. torn' = torn \cup {u \in Users : At(c, "clear") /\ Accepting(c, u)}
        BY <3>2 DEF Abandon
      <4> QED
        BY <4>1 DEF TypeOK
    <3>3. CASE DeleteJoinRequest(c)
      <4> DEFINE T == {u \in {req[c].on} : \E d \in Clients : Accepting(d, u)}
      <4>1. UNCHANGED torn \/ torn' = torn \cup T
        BY <3>3 DEF DeleteJoinRequest
      <4>2. T \subseteq Users
        BY <2>1 DEF InFlight
      <4> HIDE DEF T
      <4> QED
        BY <4>1, <4>2 DEF TypeOK
    <3> QED
      BY <1>3, <3>1, <3>2, <3>3 DEF CreateOrg, CreateUser, AddJoinRequest,
           FindJoinRequest, FindMemberAny, history, lapses
  <2>9. \A d \in Clients : d # c => req'[d] = req[d]
    BY <2>2 DEF Return, Goto, TypeOK
  <2>10. Founded' => Founded
    <3>1. CASE CreateOrg(c)
      <4>1. CASE org
        BY <2>7, <2>9, <3>1, <4>1, FoundedBefore DEF CreateOrg, At
      <4>2. CASE ~org
        <5>1. req' = [req EXCEPT ![c] = [req[c] EXCEPT !.pc = "owner"]]
          BY <3>1, <4>2 DEF CreateOrg, Goto
        <5>2. req'[c].pc = "owner"
          BY <2>1, <5>1 DEF TypeOK, InFlight
        <5> QED
          BY <5>2 DEF Founded, At
      <4> QED
        BY <4>1, <4>2
    <3>2. CASE Abandon(c)
      <4>1. CASE At(c, "owner")
        <5>1. orphaned'
          BY <3>2, <4>1 DEF Abandon
        <5> QED
          BY <5>1 DEF Founded
      <4>2. CASE ~At(c, "owner")
        BY <2>7, <2>9, <3>2, <4>2, FoundedBefore DEF Abandon
      <4> QED
        BY <4>1, <4>2
    <3>3. CASE \/ CreateUser(c) \/ AddJoinRequest(c) \/ FindJoinRequest(c)
               \/ FindMemberAny(c) \/ DeleteJoinRequest(c)
      <4>1. UNCHANGED org /\ ~At(c, "owner")
        BY <3>3 DEF CreateUser, AddJoinRequest, FindJoinRequest,
           FindMemberAny, DeleteJoinRequest, At
      <4> QED
        BY <2>7, <2>9, <4>1, FoundedBefore
    <3> QED
      BY <1>3, <3>1, <3>2, <3>3
  <2> QED
    BY <2>3, <2>4, <2>5, <2>6, <2>7, <2>8, <2>10 DEF Quiet, TypeOK
<1> QED
  BY <1>1, <1>2, <1>3

\* An admin's request starts from an active admin.
LEMMA AdminBegins ==
    ASSUME Inv, NEW c \in Clients, NEW op \in AdminOps, NEW a \in Users,
           NEW u \in Users, NEW role \in {"admin", "member"},
           BeginAdmin(c, op, a, u, role)
    PROVE  Inv'
<1> DEFINE r == Request(FirstStep(op), op, a, u, role)
<1>1. r \in InFlight /\ WellFormed(r)
  <2>1. FirstStep(op) \in {"any", "find", "clear", "suspend", "unsuspend"}
        /\ (FirstStep(op) = "suspend" => op = "suspend")
    BY DEF FirstStep, AdminOps
  <2>2. op \in {"remove", "suspend"} => a # u
    BY DEF BeginAdmin
  <2> QED
    BY <2>1, <2>2 DEF Request, InFlight, WellFormed, AdminOps
<1>2. Begin(c, r) /\ UNCHANGED <<org, users, member, pending, history>>
  BY DEF BeginAdmin
<1>3. ActiveAdmin(a)
  BY DEF BeginAdmin
<1> HIDE DEF r
<1>4. TypeOK' /\ Requests'
  BY <1>1, <1>2, Start DEF Inv, TypeOK, history, lapses
<1>5. Led'
  BY <1>2, <1>3 DEF Led, ActiveAdmin, IsActive, IsMember
<1> QED
  BY <1>4, <1>5 DEF Inv

\* A new member joins the active admin that is there, or is the owner.
LEMMA MemberAdded ==
    ASSUME Inv, NEW c \in Clients, AddMember(c)
    PROVE  Inv'
<1>1. req[c] # Idle /\ req[c] \in InFlight /\ WellFormed(req[c])
  BY DEF Inv, AddMember, At, TypeOK, Requests, Idle
<1>2. PICK u \in Users : u = req[c].on
  BY <1>1 DEF InFlight
<1>3. PICK m \in Members : m = NewMember(c) /\ m # NoMember /\ ~m.suspended
                          /\ m.role = req[c].role
  <2>1. req[c].role \in {"admin", "member"}
    BY <1>1 DEF InFlight
  <2>2. /\ NewMember(c) \in Members
        /\ ~NewMember(c).suspended /\ NewMember(c).role = req[c].role
    BY <2>1 DEF NewMember, Members
  <2>3. NewMember(c) # NoMember
    BY <2>2, NotNoMember
  <2> QED
    BY <2>2, <2>3
<1>4. /\ req' \in [Clients -> InFlight \cup {Idle}] /\ Requests'
      /\ \A d \in Clients : req'[d] # Idle =>
            req[d] # Idle /\ req'[d].op = req[d].op
  <2>1. CASE Return(c)
    BY <2>1, End DEF Inv
  <2>2. CASE req[c].op = "accept" /\ Goto(c, "clear")
    <3>1. WellFormed([req[c] EXCEPT !.pc = "clear"])
      BY <1>1, <2>2 DEF WellFormed, InFlight, AdminOps
    <3> QED
      BY <1>1, <2>2, <3>1, MoveOn DEF Inv
  <2> QED
    BY <2>1, <2>2 DEF AddMember
<1>5. CASE IsMember(u)
  <2>1. UNCHANGED <<org, users, member, pending, history>>
    BY <1>2, <1>5 DEF AddMember, history
  <2>2. Populated
    BY <1>5 DEF Populated
  <2>3. ~strayed => Led'
    BY <2>1, <2>2 DEF Inv, Led, IsMember, ActiveAdmin, IsActive
  <2> QED
    BY <1>4, <2>1, <2>3 DEF Inv, TypeOK, history, lapses
<1>6. CASE ~IsMember(u)
  <2>1. /\ member' = [member EXCEPT ![u] = m]
        /\ UNCHANGED <<org, users, pending, strayed, orphaned, torn>>
        /\ Accepted(c)
    BY <1>2, <1>3, <1>6 DEF AddMember, lapses
  <2>2. answers' \in [Users -> SUBSET {"accepted", "revoked"}]
    BY <1>2, <2>1 DEF Accepted, Inv, TypeOK
  <2>3. TypeOK'
    BY <1>4, <2>1, <2>2, MembersTyped DEF Inv, TypeOK
  <2>4. \A v \in Users : ActiveAdmin(v) => ActiveAdmin(v)'
    BY <1>3, <1>6, <2>1 DEF Inv, TypeOK, ActiveAdmin, IsActive, IsMember
  <2>5. ~strayed => Led'
    <3>1. CASE req[c].pc = "owner"
      <4>1. m.role = "admin"
        BY <1>1, <1>3, <3>1 DEF WellFormed
      <4>2. ActiveAdmin(u)'
        BY <1>3, <2>1, <4>1 DEF Inv, TypeOK, ActiveAdmin, IsActive, IsMember
      <4> QED
        BY <1>3, <4>2 DEF Led
    <3>2. CASE req[c].pc = "add"
      <4>1. req[c].op \in AdminOps
        BY <1>1, <3>2 DEF WellFormed
      <4>2. Populated
        BY <1>1, <4>1 DEF Populated
      <4> QED
        BY <2>4, <4>2 DEF Inv, Led
    <3> QED
      BY <3>1, <3>2 DEF AddMember, At
  <2> QED
    BY <1>4, <2>1, <2>3, <2>5 DEF Inv
<1> QED
  BY <1>5, <1>6

\* Whoever removes another is an active admin and stays one, or has strayed.
LEMMA MemberRemoved ==
    ASSUME Inv, NEW c \in Clients, RemoveMember(c)
    PROVE  Inv'
<1>1. req[c] # Idle /\ req[c] \in InFlight /\ WellFormed(req[c])
  BY DEF Inv, RemoveMember, At, TypeOK, Requests, Idle
<1>2. PICK u \in Users, a \in Users : u = req[c].on /\ a = req[c].by /\ a # u
  BY <1>1 DEF InFlight, WellFormed, RemoveMember, At
<1>3. /\ member' = [member EXCEPT ![u] = NoMember]
      /\ strayed' = (strayed \/ (IsMember(u) /\ ~ActiveAdmin(a)))
      /\ Return(c) /\ UNCHANGED <<org, users, pending, answers, orphaned, torn>>
  BY <1>2 DEF RemoveMember, Strays, lapses
<1>4. /\ req' \in [Clients -> InFlight \cup {Idle}] /\ Requests'
      /\ \A d \in Clients : req'[d] # Idle =>
            req[d] # Idle /\ req'[d].op = req[d].op
  BY <1>3, End DEF Inv
<1>5. TypeOK'
  BY <1>3, <1>4, MembersTyped DEF Inv, TypeOK
<1>6. Founded' => Founded
  BY <1>3, FoundedBefore DEF Return, RemoveMember, At, Inv, TypeOK
<1>7. ~strayed' /\ (Populated' \/ Founded') => Led'
  <2>1. CASE IsMember(u)
    <3>1. ~strayed' => ActiveAdmin(a)
      BY <1>3, <2>1
    <3>2. ActiveAdmin(a) => ActiveAdmin(a)'
      BY <1>2, <1>3 DEF Inv, TypeOK, ActiveAdmin, IsActive, IsMember
    <3> QED
      BY <3>1, <3>2 DEF Led
  <2>2. CASE ~IsMember(u)
    <3>1. member' = member /\ strayed' = strayed
      BY <1>3, <2>2 DEF Inv, TypeOK, IsMember
    <3> QED
      BY <1>4, <1>6, <3>1 DEF Inv, Populated, Led, IsMember, ActiveAdmin, IsActive
  <2> QED
    BY <2>1, <2>2
<1> QED
  BY <1>4, <1>5, <1>7 DEF Inv

\* The same goes for a suspension; its end takes nothing from anyone.
LEMMA MemberSuspended ==
    ASSUME Inv, NEW c \in Clients, SuspendMember(c)
    PROVE  Inv'
<1>1. req[c] # Idle /\ req[c] \in InFlight /\ WellFormed(req[c])
  BY DEF Inv, SuspendMember, At, TypeOK, Requests, Idle
<1>2. PICK u \in Users, a \in Users : u = req[c].on /\ a = req[c].by /\ a # u
  BY <1>1 DEF InFlight, WellFormed, SuspendMember, At
<1>3. /\ SetSuspended(u, TRUE)
      /\ strayed' = (strayed \/ (IsMember(u) /\ ~ActiveAdmin(a)))
      /\ Return(c) /\ UNCHANGED <<org, users, pending, answers, orphaned, torn>>
  BY <1>2 DEF SuspendMember, Strays, lapses
<1>4. /\ req' \in [Clients -> InFlight \cup {Idle}] /\ Requests'
      /\ \A d \in Clients : req'[d] # Idle =>
            req[d] # Idle /\ req'[d].op = req[d].op
  BY <1>3, End DEF Inv
<1>5. /\ member' \in [Users -> Members \cup {NoMember}]
      /\ ActiveAdmin(a) => ActiveAdmin(a)'
  BY <1>2, <1>3, SuspensionTyped DEF Inv
<1>6. TypeOK'
  BY <1>3, <1>4, <1>5 DEF Inv, TypeOK
<1>7. Founded' => Founded
  BY <1>3, FoundedBefore DEF Return, SuspendMember, At, Inv, TypeOK
<1>8. ~strayed' /\ (Populated' \/ Founded') => Led'
  <2>1. CASE IsMember(u)
    BY <1>3, <1>5, <2>1 DEF Led
  <2>2. CASE ~IsMember(u)
    <3>1. member' = member /\ strayed' = strayed
      BY <1>3, <2>2 DEF Inv, TypeOK, SetSuspended
    <3> QED
      BY <1>4, <1>7, <3>1 DEF Inv, Populated, Led, IsMember, ActiveAdmin, IsActive
  <2> QED
    BY <2>1, <2>2
<1> QED
  BY <1>4, <1>6, <1>8 DEF Inv

LEMMA SuspensionLifted ==
    ASSUME Inv, NEW u \in Users, SetSuspended(u, FALSE),
           UNCHANGED <<org, users, pending, history>>,
           \/ UNCHANGED req
           \/ \E c \in Clients : Return(c) /\ ~At(c, "owner")
    PROVE  Inv'
<1>1. /\ req' \in [Clients -> InFlight \cup {Idle}] /\ Requests'
      /\ \A d \in Clients : req'[d] # Idle =>
            req[d] # Idle /\ req'[d].op = req[d].op
  BY End DEF Inv, TypeOK, Requests
<1>2. /\ member' \in [Users -> Members \cup {NoMember}]
      /\ \A v \in Users : IsMember(v)' <=> IsMember(v)
      /\ \A v \in Users : ActiveAdmin(v) => ActiveAdmin(v)'
  BY SuspensionTyped DEF Inv
<1>3. TypeOK'
  BY <1>1, <1>2 DEF Inv, TypeOK, history, lapses
<1>4. ~strayed' /\ (Populated' \/ Founded') => Led'
  <2>1. Populated' => Populated
    BY <1>1, <1>2 DEF Populated
  <2>2. Led => Led'
    BY <1>2 DEF Led
  <2>3. Founded' => Founded
    <3>1. CASE UNCHANGED req
      BY <3>1 DEF Founded, At, history, lapses
    <3>2. ASSUME NEW c \in Clients, Return(c), ~At(c, "owner")
          PROVE  Founded' => Founded
      BY <3>2, FoundedBefore DEF Return, Inv, TypeOK, history, lapses
    <3> QED
      BY <3>1, <3>2
  <2> QED
    BY <2>1, <2>2, <2>3 DEF Inv, history
<1> QED
  BY <1>1, <1>3, <1>4 DEF Inv

-----------------------------------------------------------------------------
LEMMA InitInv == Init => Inv
<1> SUFFICES ASSUME Init PROVE Inv
  OBVIOUS
<1>1. TypeOK /\ Requests
  BY DEF Init, TypeOK, Requests
<1>2. ~Populated /\ ~Founded
  BY DEF Init, Populated, Founded, IsMember
<1> QED
  BY <1>1, <1>2 DEF Inv

LEMMA StepInv == Inv /\ [Next]_vars => Inv'
<1> SUFFICES ASSUME Inv, [Next]_vars PROVE Inv'
  OBVIOUS
<1>1. ASSUME NEW c \in Clients, Arrive(c) PROVE Inv'
  <2>1. CASE \E u \in Users : BeginCreate(c, u)
    BY <2>1, Paperwork
  <2>2. CASE \E u \in Users, op \in {"signup", "join"} : BeginSignup(c, u, op)
    BY <2>2, Paperwork
  <2>3. ASSUME NEW op \in AdminOps, NEW a \in Users, NEW u \in Users,
               NEW role \in {"admin", "member"}, BeginAdmin(c, op, a, u, role)
        PROVE  Inv'
    BY <2>3, AdminBegins
  <2> QED
    BY <1>1, <2>1, <2>2, <2>3 DEF Arrive
<1>2. ASSUME NEW c \in Clients, Step(c) PROVE Inv'
  <2>1. CASE UnsuspendMember(c)
    <3>1. PICK u \in Users : u = req[c].on
      BY <2>1 DEF UnsuspendMember, At, Inv, TypeOK, InFlight, Idle
    <3>2. /\ SetSuspended(u, FALSE) /\ Return(c) /\ ~At(c, "owner")
          /\ UNCHANGED <<org, users, pending, history>>
      BY <2>1, <3>1 DEF UnsuspendMember, At
    <3> QED
      BY <3>2, SuspensionLifted
  <2> QED
    BY <1>2, <2>1, Paperwork, MemberAdded, MemberRemoved, MemberSuspended DEF Step
<1>3. ASSUME NEW c \in Clients, Abandon(c) PROVE Inv'
  BY <1>3, Paperwork
<1>4. ASSUME NEW u \in Users, SuspensionEnds(u) PROVE Inv'
  <2>1. /\ SetSuspended(u, FALSE) /\ UNCHANGED req
        /\ UNCHANGED <<org, users, pending, history>>
    BY <1>4 DEF SuspensionEnds, history
  <2> QED
    BY <2>1, SuspensionLifted
<1>5. CASE UNCHANGED vars
  BY <1>5 DEF vars, lapses, Inv, TypeOK, Requests, Populated, Founded, At,
     Led, IsMember, ActiveAdmin, IsActive
<1> QED
  BY <1>1, <1>2, <1>3, <1>4, <1>5 DEF Next

LEMMA Invariance == Spec => []Inv
BY InitInv, StepInv, PTL DEF Spec

\* Every reachable state is well typed.
THEOREM TypeCorrect == Spec => []TypeOK
<1>1. Inv => TypeOK
  BY DEF Inv
<1> QED
  BY <1>1, Invariance, PTL

\* However many requests overlap, fail or are cut short: an organization whose
\* owner was added has an active admin, unless an admin that lost the role since
\* its check removed or suspended someone (organizations/service.go:230-243).
THEOREM KeepsAnAdmin == Spec => []AdminRemains
<1>1. Inv => AdminRemains
  BY DEF Inv, Founded, Led, AdminRemains
<1> QED
  BY <1>1, Invariance, PTL

-----------------------------------------------------------------------------
(* Answers to join requests.                                                 *)

\* A signup is about to record the request, an acceptance has found it, or has
\* answered it and is about to drop it.
Asks(c, u) == At(c, "ask") /\ req[c].on = u
Found(c, u) == req[c].pc \in {"any", "add", "drop", "clear"} /\ Accepting(c, u)
Clearing(c, u) == At(c, "clear") /\ Accepting(c, u)

\* AnsweredOnce is not inductive: a user asks once, before any answer; after an
\* acceptance only a request that is about to be dropped is left, and after a
\* revocation neither a request nor an acceptance that found it.
FirstAsk(u) ==
    \A c \in Clients : Asks(c, u) =>
        /\ u \in users /\ u \notin pending /\ answers[u] = {}
        /\ \A d \in Clients : ~Found(d, u) /\ (Asks(d, u) => d = c)

NothingBefore(u) ==
    u \notin users => /\ u \notin pending /\ answers[u] = {}
                      /\ \A c \in Clients : ~Found(c, u)

OneAnswer(u) ==
    u \notin torn =>
        /\ "accepted" \in answers[u] /\ u \in pending =>
              \E c \in Clients : Clearing(c, u)
        /\ "revoked" \in answers[u] =>
              /\ u \notin pending /\ "accepted" \notin answers[u]
              /\ \A c \in Clients : ~Found(c, u)

Paper(u) == FirstAsk(u) /\ NothingBefore(u) /\ OneAnswer(u)

Papers == \A u \in Users : Paper(u)

\* A step of a client leaves the requests of the others alone.
LEMMA Moved ==
    ASSUME TypeOK, NEW c \in Clients, NEW pc, Goto(c, pc), req[c] # Idle
    PROVE  /\ req'[c].pc = pc /\ req'[c].op = req[c].op /\ req'[c].on = req[c].on
           /\ \A d \in Clients : d # c => req'[d] = req[d]
<1>1. req[c] \in InFlight
  BY DEF TypeOK
<1>2. req' = [req EXCEPT ![c] = [req[c] EXCEPT !.pc = pc]]
  BY DEF Goto
<1>3. req'[c] = [req[c] EXCEPT !.pc = pc]
  BY <1>2 DEF TypeOK
<1> QED
  BY <1>1, <1>2, <1>3 DEF InFlight, TypeOK

LEMMA Ended ==
    ASSUME TypeOK, NEW c \in Clients, Return(c)
    PROVE  /\ req'[c].pc = "idle"
           /\ \A d \in Clients : d # c => req'[d] = req[d]
BY DEF TypeOK, Return, Idle

\* A step that neither asks, finds nor answers, and drops no cleaning up
\* unless the user is torn.
LEMMA Calm ==
    ASSUME Papers, UNCHANGED <<users, pending, answers>>, torn \subseteq torn',
           \A d \in Clients, u \in Users :
               /\ Asks(d, u)' => Asks(d, u)
               /\ Found(d, u)' => Found(d, u)
               /\ Clearing(d, u) => Clearing(d, u)' \/ u \in torn'
    PROVE  Papers'
<1> SUFFICES ASSUME NEW u \in Users PROVE Paper(u)'
  BY DEF Papers
<1>1. Paper(u)
  BY DEF Papers
<1>2. FirstAsk(u)'
  BY <1>1 DEF Paper, FirstAsk
<1>3. NothingBefore(u)'
  BY <1>1 DEF Paper, NothingBefore
<1>4. OneAnswer(u)'
  BY <1>1 DEF Paper, OneAnswer
<1> QED
  BY <1>2, <1>3, <1>4 DEF Paper

LEMMA CalmSteps ==
    ASSUME TypeOK, Papers, NEW c \in Clients,
           Arrive(c) \/ CreateOrg(c) \/ FindMemberAny(c) \/ RemoveMember(c)
               \/ SuspendMember(c) \/ UnsuspendMember(c) \/ Abandon(c)
    PROVE  Papers'
<1>1. UNCHANGED <<users, pending, answers>> /\ torn \subseteq torn'
  BY DEF Arrive, BeginCreate, BeginSignup, BeginAdmin, CreateOrg, FindMemberAny,
     RemoveMember, SuspendMember, UnsuspendMember, Abandon, history, lapses
<1>2. \A d \in Clients, u \in Users :
          /\ Asks(d, u)' => Asks(d, u)
          /\ Found(d, u)' => Found(d, u)
          /\ Clearing(d, u) => Clearing(d, u)' \/ u \in torn'
  <2>1. CASE Arrive(c)
    <3>1. /\ req[c] = Idle
          /\ \A d \in Clients : d # c => req'[d] = req[d]
          /\ req'[c].pc \in {"org", "account", "any", "find", "clear",
                             "suspend", "unsuspend"}
          /\ req'[c].pc \in {"any", "clear"} => req'[c].op # "accept"
      BY <2>1 DEF Arrive, BeginCreate, BeginSignup, BeginAdmin, Begin, Request,
         FirstStep, AdminOps, TypeOK
    <3> QED
      BY <3>1 DEF Asks, Found, Clearing, Accepting, At, Idle
  <2>2. CASE FindMemberAny(c)
    <3>1. req[c].pc = "any" /\ req[c] # Idle
      BY <2>2 DEF FindMemberAny, At, Idle
    <3>2. \/ Goto(c, "add") \/ Goto(c, "drop") \/ Return(c)
      BY <2>2 DEF FindMemberAny
    <3>3. /\ \A d \in Clients : d # c => req'[d] = req[d]
          /\ \/ req'[c].pc = "idle"
             \/ /\ req'[c].pc \in {"add", "drop"}
                /\ req'[c].op = req[c].op /\ req'[c].on = req[c].on
      BY <3>1, <3>2, Moved, Ended
    <3> QED
      BY <3>1, <3>3 DEF Asks, Found, Clearing, Accepting, At
  <2>3. CASE CreateOrg(c)
    <3>1. req[c].pc = "org" /\ req[c] # Idle
      BY <2>3 DEF CreateOrg, At, Idle
    <3>2. Goto(c, "owner") \/ Return(c)
      BY <2>3 DEF CreateOrg
    <3>3. /\ \A d \in Clients : d # c => req'[d] = req[d]
          /\ req'[c].pc \in {"idle", "owner"}
      BY <3>1, <3>2, Moved, Ended
    <3> QED
      BY <3>1, <3>3 DEF Asks, Found, Clearing, Accepting, At
  <2>4. CASE RemoveMember(c) \/ SuspendMember(c) \/ UnsuspendMember(c) \/ Abandon(c)
    <3>1. /\ req'[c].pc = "idle"
          /\ \A d \in Clients : d # c => req'[d] = req[d]
      BY <2>4, Ended DEF RemoveMember, SuspendMember, UnsuspendMember, Abandon
    <3>2. ASSUME NEW u \in Users, Clearing(c, u)
          PROVE  u \in torn'
      <4>1. Abandon(c)
        BY <2>4, <3>2 DEF RemoveMember, SuspendMember, UnsuspendMember, At, Clearing
      <4> QED
        BY <3>2, <4>1 DEF Abandon, Clearing
    <3> QED
      BY <3>1, <3>2 DEF Asks, Found, Clearing, Accepting, At
  <2> QED
    BY <2>1, <2>2, <2>3, <2>4
<1> QED
  BY <1>1, <1>2, Calm

\* The first signup of a user goes on to ask, and only that one.
LEMMA UserCreated ==
    ASSUME TypeOK, Papers, NEW c \in Clients, CreateUser(c)
    PROVE  Papers'
<1>1. req[c].pc = "account" /\ req[c] # Idle
  BY DEF CreateUser, At, Idle
<1>2. /\ users' = users \cup {req[c].on}
      /\ UNCHANGED <<pending, answers, torn>>
      /\ Goto(c, "ask") \/ Return(c)
      /\ Goto(c, "ask") /\ ~Return(c) => req[c].on \notin users
  BY DEF CreateUser, history, lapses
<1>3. /\ \A d \in Clients : d # c => req'[d] = req[d]
      /\ \/ req'[c].pc = "idle"
         \/ /\ req'[c].pc = "ask" /\ req'[c].on = req[c].on
            /\ req[c].on \notin users
  BY <1>1, <1>2, Moved, Ended
<1>4. \A d \in Clients, u \in Users :
          /\ Found(d, u)' <=> Found(d, u)
          /\ Clearing(d, u)' <=> Clearing(d, u)
          /\ Asks(d, u)' => Asks(d, u) \/ (d = c /\ u = req[c].on /\ u \notin users)
  BY <1>1, <1>3 DEF Asks, Found, Clearing, Accepting, At
<1> SUFFICES ASSUME NEW u \in Users PROVE Paper(u)'
  BY DEF Papers
<1>5. Paper(u)
  BY DEF Papers
<1>6. FirstAsk(u)'
  BY <1>2, <1>4, <1>5 DEF Paper, FirstAsk, NothingBefore
<1>7. NothingBefore(u)'
  BY <1>2, <1>4, <1>5 DEF Paper, NothingBefore
<1>8. OneAnswer(u)'
  BY <1>2, <1>4, <1>5 DEF Paper, OneAnswer
<1> QED
  BY <1>6, <1>7, <1>8 DEF Paper

\* The request is recorded before any answer.
LEMMA RequestAdded ==
    ASSUME TypeOK, Papers, NEW c \in Clients, AddJoinRequest(c)
    PROVE  Papers'
<1>1. /\ pending' = pending \cup {req[c].on} /\ Asks(c, req[c].on)
      /\ UNCHANGED <<users, answers, torn>>
      /\ req'[c].pc = "idle"
      /\ \A d \in Clients : d # c => req'[d] = req[d]
  BY Ended DEF AddJoinRequest, Asks, history, lapses
<1>2. \A d \in Clients, u \in Users :
          /\ Found(d, u)' <=> Found(d, u)
          /\ Clearing(d, u)' <=> Clearing(d, u)
          /\ Asks(d, u)' <=> Asks(d, u) /\ d # c
  BY <1>1 DEF Asks, Found, Clearing, Accepting, At
<1> SUFFICES ASSUME NEW u \in Users PROVE Paper(u)'
  BY DEF Papers
<1>3. Paper(u)
  BY DEF Papers
<1>4. FirstAsk(u)'
  BY <1>1, <1>2, <1>3 DEF Paper, FirstAsk
<1>5. NothingBefore(u)'
  BY <1>1, <1>2, <1>3 DEF Paper, NothingBefore, FirstAsk
<1>6. OneAnswer(u)'
  BY <1>1, <1>2, <1>3 DEF Paper, OneAnswer, FirstAsk
<1> QED
  BY <1>4, <1>5, <1>6 DEF Paper

\* An acceptance goes on only with a request that is there.
LEMMA RequestFound ==
    ASSUME TypeOK, Papers, NEW c \in Clients, FindJoinRequest(c)
    PROVE  Papers'
<1>1. req[c].pc = "find" /\ req[c] # Idle
  BY DEF FindJoinRequest, At, Idle
<1>2. /\ UNCHANGED <<users, pending, answers, torn>>
      /\ Goto(c, "any") \/ Return(c)
      /\ Goto(c, "any") /\ ~Return(c) => req[c].on \in pending
  BY DEF FindJoinRequest, history, lapses
<1>3. /\ \A d \in Clients : d # c => req'[d] = req[d]
      /\ \/ req'[c].pc = "idle"
         \/ /\ req'[c].pc = "any" /\ req'[c].on = req[c].on
            /\ req[c].on \in pending
  BY <1>1, <1>2, Moved, Ended
<1>4. \A d \in Clients, u \in Users :
          /\ Found(d, u)' => Found(d, u) \/ u \in pending
          /\ Clearing(d, u)' <=> Clearing(d, u)
          /\ Asks(d, u)' <=> Asks(d, u)
  BY <1>1, <1>3 DEF Asks, Found, Clearing, Accepting, At
<1> SUFFICES ASSUME NEW u \in Users PROVE Paper(u)'
  BY DEF Papers
<1>5. Paper(u)
  BY DEF Papers
<1>6. FirstAsk(u)'
  BY <1>2, <1>4, <1>5 DEF Paper, FirstAsk
<1>7. NothingBefore(u)'
  BY <1>2, <1>4, <1>5 DEF Paper, NothingBefore
<1>8. OneAnswer(u)'
  BY <1>2, <1>4, <1>5 DEF Paper, OneAnswer
<1> QED
  BY <1>6, <1>7, <1>8 DEF Paper

\* Whoever accepts has found the request, so nobody revoked it, and clears it
\* next.
LEMMA RequestAccepted ==
    ASSUME TypeOK, Requests, Papers, NEW c \in Clients, AddMember(c)
    PROVE  Papers'
<1>1. req[c].pc \in {"add", "owner"} /\ req[c] # Idle /\ req[c].on \in Users
  BY DEF AddMember, At, Idle, TypeOK, InFlight
<1>2. UNCHANGED <<users, pending, torn>>
  BY DEF AddMember, lapses
<1>3. \/ /\ UNCHANGED answers /\ Return(c)
      \/ /\ req[c].op = "accept" /\ Goto(c, "clear")
         /\ answers' = [answers EXCEPT ![req[c].on] = @ \cup {"accepted"}]
  BY DEF AddMember, Accepted
<1>4. CASE UNCHANGED answers /\ Return(c)
  <2>1. \A d \in Clients, u \in Users :
            /\ Asks(d, u)' => Asks(d, u)
            /\ Found(d, u)' => Found(d, u)
            /\ Clearing(d, u) => Clearing(d, u)'
    BY <1>1, <1>4, Ended DEF Asks, Found, Clearing, Accepting, At
  <2> QED
    BY <1>2, <1>4, <2>1, Calm
<1>5. ASSUME req[c].op = "accept", Goto(c, "clear"),
             answers' = [answers EXCEPT ![req[c].on] = @ \cup {"accepted"}]
      PROVE  Papers'
  <2>1. /\ req'[c].pc = "clear" /\ req'[c].op = "accept"
        /\ req'[c].on = req[c].on
        /\ \A d \in Clients : d # c => req'[d] = req[d]
    BY <1>1, <1>5, Moved
  <2>2. \A d \in Clients, u \in Users :
            /\ Asks(d, u)' => Asks(d, u)
            /\ Found(d, u)' => Found(d, u) \/ (d = c /\ u = req[c].on)
            /\ Clearing(d, u) => Clearing(d, u)'
    BY <1>1, <2>1 DEF Asks, Found, Clearing, Accepting, At
  <2>3. \A u \in Users : u = req[c].on => Clearing(c, u)'
    BY <2>1 DEF Clearing, Accepting, At
  <2>4. Found(c, req[c].on)
    BY <1>1, <1>5 DEF Requests, WellFormed, Found, Accepting
  <2>5. \A u \in Users : u # req[c].on => answers'[u] = answers[u]
    BY <1>5 DEF TypeOK
  <2>6. answers'[req[c].on] = answers[req[c].on] \cup {"accepted"}
    BY <1>1, <1>5 DEF TypeOK
  <2> SUFFICES ASSUME NEW u \in Users PROVE Paper(u)'
    BY DEF Papers
  <2>7. Paper(u)
    BY DEF Papers
  <2>8. CASE u # req[c].on
    BY <1>2, <2>2, <2>5, <2>7, <2>8 DEF Paper, FirstAsk, NothingBefore, OneAnswer
  <2>9. CASE u = req[c].on
    <3>1. FirstAsk(u)'
      BY <1>2, <2>2, <2>4, <2>7, <2>9 DEF Paper, FirstAsk
    <3>2. NothingBefore(u)'
      BY <1>2, <2>4, <2>7, <2>9 DEF Paper, NothingBefore
    <3>3. OneAnswer(u)'
      BY <1>2, <2>3, <2>4, <2>6, <2>7, <2>9 DEF Paper, OneAnswer
    <3> QED
      BY <3>1, <3>2, <3>3 DEF Paper
  <2> QED
    BY <2>8, <2>9
<1> QED
  BY <1>3, <1>4, <1>5

\* A revocation that finds the request meets no acceptance, or tears it.
LEMMA RequestDropped ==
    ASSUME TypeOK, Papers, NEW c \in Clients, DeleteJoinRequest(c)
    PROVE  Papers'
<1>1. req[c].pc \in {"clear", "drop"} /\ req[c] # Idle /\ req[c].on \in Users
  BY DEF DeleteJoinRequest, At, Idle, TypeOK, InFlight
<1> DEFINE x == req[c].on
           T == {u \in {x} : \E d \in Clients : Accepting(d, u)}
           Revokes == req[c].op = "revoke" /\ x \in pending
<1>2. /\ pending' = pending \ {x} /\ UNCHANGED users
      /\ ~Revokes => UNCHANGED <<answers, torn>>
      /\ Revokes => /\ answers' = [answers EXCEPT ![x] = @ \cup {"revoked"}]
                    /\ torn' = torn \cup T
      /\ Goto(c, "remove") \/ Return(c)
  BY DEF DeleteJoinRequest
<1>3. /\ req'[c].pc \in {"idle", "remove"}
      /\ \A d \in Clients : d # c => req'[d] = req[d]
  BY <1>1, <1>2, Moved, Ended
<1>4. \A d \in Clients, u \in Users :
          /\ Asks(d, u)' <=> Asks(d, u)
          /\ Found(d, u)' => Found(d, u)
          /\ Clearing(d, u) => Clearing(d, u)' \/ u = x
  BY <1>1, <1>3 DEF Asks, Found, Clearing, Accepting, At
<1>5. /\ \A u \in Users : u # x => answers'[u] = answers[u] /\ (u \in torn => u \in torn')
      /\ ~Revokes => answers'[x] = answers[x]
      /\ Revokes => answers'[x] = answers[x] \cup {"revoked"}
      /\ Revokes /\ x \notin torn' => \A d \in Clients : ~Found(d, x)
      /\ torn \subseteq torn' /\ x \in Users
  BY <1>1, <1>2 DEF TypeOK, Found
<1>6. \A d \in Clients : Clearing(d, x) => Found(d, x)
  BY DEF Clearing, Found, At
<1>7. x \notin pending'
  BY <1>2
<1>8. \A u \in Users : u # x => (u \in pending' <=> u \in pending)
  BY <1>2
<1> HIDE DEF x, T
<1> SUFFICES ASSUME NEW u \in Users PROVE Paper(u)'
  BY DEF Papers
<1>9. Paper(u)
  BY DEF Papers
<1>10. CASE u # x
  BY <1>2, <1>4, <1>5, <1>8, <1>9, <1>10
  DEF Paper, FirstAsk, NothingBefore, OneAnswer
<1>11. CASE u = x
  <2>1. FirstAsk(u)'
    BY <1>2, <1>4, <1>5, <1>7, <1>9, <1>11 DEF Paper, FirstAsk
  <2>2. NothingBefore(u)'
    BY <1>2, <1>4, <1>5, <1>7, <1>9, <1>11 DEF Paper, NothingBefore
  <2>3. OneAnswer(u)'
    BY <1>4, <1>5, <1>6, <1>7, <1>9, <1>11 DEF Paper, OneAnswer
  <2> QED
    BY <2>1, <2>2, <2>3 DEF Paper
<1> QED
  BY <1>10, <1>11

LEMMA InitPapers == Init => Papers
BY DEF Init, Papers, Paper, FirstAsk, NothingBefore, OneAnswer, Asks, Found,
   Accepting, At, Idle

LEMMA StepPapers == Inv /\ Papers /\ [Next]_vars => Papers'
<1> SUFFICES ASSUME TypeOK, Requests, Papers, [Next]_vars PROVE Papers'
  BY DEF Inv
<1>1. ASSUME NEW c \in Clients, Arrive(c) \/ Step(c) \/ Abandon(c) PROVE Papers'
  BY <1>1, CalmSteps, UserCreated, RequestAdded, RequestFound, RequestAccepted,
     RequestDropped DEF Step
<1>2. ASSUME NEW u \in Users, SuspensionEnds(u) PROVE Papers'
  <2>1. UNCHANGED <<users, pending, answers, torn, req>>
    BY <1>2 DEF SuspensionEnds, history, lapses
  <2> QED
    BY <2>1, Calm DEF Asks, Found, Clearing, Accepting, At
<1>3. CASE UNCHANGED vars
  BY <1>3, Calm DEF vars, lapses, Asks, Found, Clearing, Accepting, At
<1> QED
  BY <1>1, <1>2, <1>3 DEF Next

\* However acceptances, revocations, removals and failures overlap, a join
\* request whose acceptance was neither cut short nor overtaken is not both
\* accepted and revoked (organizations/service.go:262-310).
THEOREM OneAnswerEach == Spec => []AnsweredOnce
<1>1. TypeOK /\ Papers => AnsweredOnce
  <2> SUFFICES ASSUME TypeOK, Papers, NEW u \in Users, u \notin torn
               PROVE  Cardinality(answers[u]) <= 1
    BY DEF AnsweredOnce
  <2>1. answers[u] \subseteq {"accepted", "revoked"}
    BY DEF TypeOK
  <2>2. ~("accepted" \in answers[u] /\ "revoked" \in answers[u])
    BY DEF Papers, Paper, OneAnswer
  <2>3. answers[u] = {} \/ answers[u] = {"accepted"} \/ answers[u] = {"revoked"}
    BY <2>1, <2>2
  <2>4. /\ Cardinality({}) = 0
        /\ Cardinality({"accepted"}) = 1 /\ Cardinality({"revoked"}) = 1
    BY FS_EmptySet, FS_Singleton
  <2> QED
    BY <2>3, <2>4
<1>2. Spec => []Papers
  BY InitPapers, StepPapers, Invariance, PTL DEF Spec
<1> QED
  BY <1>1, <1>2, TypeCorrect, PTL
===============================================================================
