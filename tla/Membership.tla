----------------------------- MODULE Membership -----------------------------
(* One organization, its members and its join requests: the operations of    *)
(* internal/organizations/service.go and the signup of                       *)
(* internal/auth/service.go, which records the join requests.  Organizations *)
(* share no rows, so one stands for all.                                     *)
(*                                                                           *)
(* Each store call of a request is a step of its own; a check that fails     *)
(* ends the request.  Users are never deleted and never join twice by        *)
(* signup, since the email of an account stays taken.                        *)
EXTENDS Integers, FiniteSets

CONSTANTS
    Users,     \* accounts, each with its own email
    Clients,   \* concurrent requests
    MayFail    \* a request may end between any two of its steps

ASSUME MayFailAssumption == MayFail \in BOOLEAN

VARIABLES
    org,      \* the organization's row exists
    users,    \* the users that have an account
    member,   \* organization_members by user
    pending,  \* users with a row in org_join_requests
    req,      \* the request each client has in flight
    strayed,  \* history: a user acted on another after losing the admin role
    answers,  \* history: how each user's join request was answered
    orphaned, \* history: a create ended between the organization and its owner
    torn      \* history: users whose acceptance ended early or was overtaken

vars == <<org, users, member, pending, req, strayed, answers, orphaned, torn>>
lapses == <<orphaned, torn>>
history == <<strayed, answers, lapses>>

NoMember == [role |-> "none"]
Members == [role : {"admin", "member"}, suspended : BOOLEAN]

Idle == [pc |-> "idle"]
InFlight == [pc : {"org", "owner", "account", "ask", "find", "any", "add",
                   "drop", "clear", "remove", "suspend", "unsuspend"},
             op : {"create", "signup", "join", "invite", "accept", "revoke",
                   "remove", "suspend", "unsuspend"},
             by : Users, on : Users, role : {"admin", "member"}]

TypeOK ==
    /\ org \in BOOLEAN
    /\ users \subseteq Users
    /\ member \in [Users -> Members \cup {NoMember}]
    /\ pending \subseteq Users
    /\ req \in [Clients -> InFlight \cup {Idle}]
    /\ strayed \in BOOLEAN
    /\ answers \in [Users -> SUBSET {"accepted", "revoked"}]
    /\ orphaned \in BOOLEAN
    /\ torn \subseteq Users

\* One account exists, as after the first signup.
Init ==
    /\ org = FALSE
    /\ \E u \in Users : users = {u}
    /\ member = [u \in Users |-> NoMember]
    /\ pending = {}
    /\ req = [c \in Clients |-> Idle]
    /\ strayed = FALSE
    /\ answers = [u \in Users |-> {}]
    /\ orphaned = FALSE
    /\ torn = {}

\* FindMemberAny and FindMember of the organization repository.
IsMember(u) == member[u] # NoMember
IsActive(u) == IsMember(u) /\ ~member[u].suspended
ActiveAdmin(u) == IsActive(u) /\ member[u].role = "admin"

Request(pc, op, by, on, role) ==
    [pc |-> pc, op |-> op, by |-> by, on |-> on, role |-> role]

Begin(c, r) == req[c] = Idle /\ req' = [req EXCEPT ![c] = r]
At(c, pc) == req[c].pc = pc
Goto(c, pc) == req' = [req EXCEPT ![c].pc = pc]
Return(c) == req' = [req EXCEPT ![c] = Idle]

-----------------------------------------------------------------------------
(* Creating the organization and signing up.                                 *)

BeginCreate(c, u) ==
    /\ u \in users /\ ~org
    /\ Begin(c, Request("org", "create", u, u, "admin"))
    /\ UNCHANGED <<org, users, member, pending, history>>

\* Mutant: a create whose slug check succeeded ends before the owner is added.
CreateOrg_NoOwner(c) ==
    /\ At(c, "org")
    /\ org' = TRUE
    /\ Return(c)
    /\ UNCHANGED <<users, member, pending, history>>

\* The slug is UNIQUE: of two creates that found it free one fails here.
CreateOrg(c) ==
    /\ At(c, "org")
    /\ org' = TRUE
    /\ IF org THEN Return(c) ELSE Goto(c, "owner")
    /\ UNCHANGED <<users, member, pending, history>>

\* A signup that names the organization fails early if it does not exist.
BeginSignup(c, u, op) ==
    /\ u \notin users
    /\ op \in {"signup"} \cup (IF org THEN {"join"} ELSE {})
    /\ Begin(c, Request("account", op, u, u, "member"))
    /\ UNCHANGED <<org, users, member, pending, history>>

\* The email is UNIQUE, too.
CreateUser(c) ==
    /\ At(c, "account")
    /\ users' = users \cup {req[c].on}
    /\ IF req[c].on \notin users /\ req[c].op = "join" THEN Goto(c, "ask")
                                                       ELSE Return(c)
    /\ UNCHANGED <<org, member, pending, history>>

AddJoinRequest(c) ==
    /\ At(c, "ask")
    /\ pending' = pending \cup {req[c].on}
    /\ Return(c)
    /\ UNCHANGED <<org, users, member, history>>

-----------------------------------------------------------------------------
(* The operations of an admin.                                               *)

FirstStep(op) == CASE op = "invite" -> "any"
                   [] op = "accept" -> "find"
                   [] op \in {"revoke", "remove"} -> "clear"
                   [] op = "suspend" -> "suspend"
                   [] op = "unsuspend" -> "unsuspend"

\* Mutant: the check against acting on oneself is missing.
BeginAdmin_OnSelf(c, op, a, u, role) ==
    /\ ActiveAdmin(a)
    /\ op = "invite" => u \in users
    /\ op # "invite" => role = "member"
    /\ Begin(c, Request(FirstStep(op), op, a, u, role))
    /\ UNCHANGED <<org, users, member, pending, history>>

\* Mutant: the default role of an invitation is not filled in.
BeginAdmin_NoRole(c, op, a, u, role) ==
    /\ ActiveAdmin(a)
    /\ op = "invite" => u \in users
    /\ op # "invite" => role = "member"
    /\ op \in {"remove", "suspend"} => u # a
    /\ Begin(c, Request(FirstStep(op), op, a, u,
                        IF role = "member" THEN "" ELSE role))
    /\ UNCHANGED <<org, users, member, pending, history>>

\* requireAdmin, the check against acting on oneself and the lookup of an
\* invited account.  Only an invitation names a role.
BeginAdmin(c, op, a, u, role) ==
    /\ ActiveAdmin(a)
    /\ op = "invite" => u \in users
    /\ op # "invite" => role = "member"
    /\ op \in {"remove", "suspend"} => u # a
    /\ Begin(c, Request(FirstStep(op), op, a, u, role))
    /\ UNCHANGED <<org, users, member, pending, history>>

FindJoinRequest(c) ==
    /\ At(c, "find")
    /\ IF req[c].on \in pending THEN Goto(c, "any") ELSE Return(c)
    /\ UNCHANGED <<org, users, member, pending, history>>

\* An invitation of a member ends; an acceptance drops the stale request.
FindMemberAny(c) ==
    /\ At(c, "any")
    /\ \/ ~IsMember(req[c].on) /\ Goto(c, "add")
       \/ IsMember(req[c].on) /\ req[c].op = "accept" /\ Goto(c, "drop")
       \/ IsMember(req[c].on) /\ req[c].op = "invite" /\ Return(c)
    /\ UNCHANGED <<org, users, member, pending, history>>

NewMember(c) == [role |-> req[c].role, suspended |-> FALSE]

Accepted(c) == answers' = IF req[c].op = "accept"
                          THEN [answers EXCEPT ![req[c].on] = @ \cup {"accepted"}]
                          ELSE answers

\* Mutant: an acceptance leaves the join request behind.
AddMember_NoClear(c) ==
    /\ At(c, "add") \/ At(c, "owner")
    /\ IF IsMember(req[c].on)
       THEN Return(c) /\ UNCHANGED <<member, answers>>
       ELSE /\ member' = [member EXCEPT ![req[c].on] = NewMember(c)]
            /\ Accepted(c)
            /\ Return(c)
    /\ UNCHANGED <<org, users, pending, strayed, lapses>>

\* (organization, user) is UNIQUE: adding a member twice is an error.
AddMember(c) ==
    /\ At(c, "add") \/ At(c, "owner")
    /\ IF IsMember(req[c].on)
       THEN Return(c) /\ UNCHANGED <<member, answers>>
       ELSE /\ member' = [member EXCEPT ![req[c].on] = NewMember(c)]
            /\ Accepted(c)
            /\ IF req[c].op = "accept" THEN Goto(c, "clear") ELSE Return(c)
    /\ UNCHANGED <<org, users, pending, strayed, lapses>>

Accepting(c, u) == req[c].pc # "idle" /\ req[c].op = "accept" /\ req[c].on = u

\* Only a revocation cares whether there was a request to delete.  One that
\* overtakes an acceptance which has already found the request tears it.
DeleteJoinRequest(c) ==
    /\ At(c, "clear") \/ At(c, "drop")
    /\ pending' = pending \ {req[c].on}
    /\ IF req[c].op = "revoke" /\ req[c].on \in pending
       THEN /\ answers' = [answers EXCEPT ![req[c].on] = @ \cup {"revoked"}]
            /\ torn' = torn \cup {u \in {req[c].on} :
                                      \E d \in Clients : Accepting(d, u)}
       ELSE UNCHANGED <<answers, torn>>
    /\ IF req[c].op = "remove" THEN Goto(c, "remove") ELSE Return(c)
    /\ UNCHANGED <<org, users, member, strayed, orphaned>>

Strays(c) == strayed' = (strayed \/ (IsMember(req[c].on) /\ ~ActiveAdmin(req[c].by)))

RemoveMember(c) ==
    /\ At(c, "remove")
    /\ member' = [member EXCEPT ![req[c].on] = NoMember]
    /\ Strays(c)
    /\ Return(c)
    /\ UNCHANGED <<org, users, pending, answers, lapses>>

SetSuspended(u, s) ==
    member' = IF IsMember(u) THEN [member EXCEPT ![u].suspended = s] ELSE member

SuspendMember(c) ==
    /\ At(c, "suspend")
    /\ SetSuspended(req[c].on, TRUE)
    /\ Strays(c)
    /\ Return(c)
    /\ UNCHANGED <<org, users, pending, answers, lapses>>

UnsuspendMember(c) ==
    /\ At(c, "unsuspend")
    /\ SetSuspended(req[c].on, FALSE)
    /\ Return(c)
    /\ UNCHANGED <<org, users, pending, history>>

-----------------------------------------------------------------------------
(* Time and failures.                                                        *)

SuspensionEnds(u) ==
    /\ IsMember(u) /\ member[u].suspended
    /\ SetSuspended(u, FALSE)
    /\ UNCHANGED <<org, users, pending, req, history>>

\* A store error, a cancelled request or a restart of the server.
Abandon(c) ==
    /\ MayFail
    /\ req[c] # Idle
    /\ orphaned' = (orphaned \/ At(c, "owner"))
    /\ torn' = torn \cup {u \in Users : At(c, "clear") /\ Accepting(c, u)}
    /\ Return(c)
    /\ UNCHANGED <<org, users, member, pending, strayed, answers>>

Step(c) ==
    \/ CreateOrg(c) \/ CreateUser(c) \/ AddJoinRequest(c)
    \/ FindJoinRequest(c) \/ FindMemberAny(c) \/ AddMember(c)
    \/ DeleteJoinRequest(c) \/ RemoveMember(c)
    \/ SuspendMember(c) \/ UnsuspendMember(c)

AdminOps == {"invite", "accept", "revoke", "remove", "suspend", "unsuspend"}

Arrive(c) ==
    \E u \in Users :
        \/ BeginCreate(c, u)
        \/ \E op \in {"signup", "join"} : BeginSignup(c, u, op)
        \/ \E op \in AdminOps, a \in Users, role \in {"admin", "member"} :
              BeginAdmin(c, op, a, u, role)

Next == \/ \E c \in Clients : Arrive(c) \/ Step(c) \/ Abandon(c)
        \/ \E u \in Users : SuspensionEnds(u)

Spec == Init /\ [][Next]_vars

-----------------------------------------------------------------------------
(* Properties.                                                               *)

\* "an org creator becomes the first admin" (docs/ARCHITECTURE.md:65) and an
\* organization keeps an active admin ever after, unless its create ended
\* between its two inserts, or someone removed or suspended another after
\* having lost the admin role: no admin can act on itself, so only requests
\* that overlap can lock everyone out.
AdminRemains ==
    org /\ ~orphaned /\ ~strayed /\ (\A c \in Clients : ~At(c, "owner"))
        => \E u \in Users : ActiveAdmin(u)

\* "approves a pending join request" and "denies a pending join request"
\* (organizations/service.go:262, 300): a request is answered one way, unless
\* its acceptance failed half-way or a revocation overtook it.
AnsweredOnce == \A u \in Users \ torn : Cardinality(answers[u]) <= 1
=============================================================================
