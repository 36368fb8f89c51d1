---------------------------- MODULE PasswordReset ----------------------------
(* Forgotten passwords: RequestPasswordReset and ResetPassword of            *)
(* internal/auth/service.go over internal/database/password_resets.go.       *)
(* Accounts share no tokens, so one account stands for all.  Each store call *)
(* and the mail is a step of its own.                                        *)
EXTENDS Integers, FiniteSets

CONSTANTS
    Tokens,    \* bound: reset tokens that may be generated
    Clients,   \* concurrent requests
    MaxFaults  \* bound: requests that end early

ASSUME FiniteAssumption == IsFiniteSet(Clients) /\ IsFiniteSet(Tokens)
ASSUME FaultAssumption == MaxFaults \in Nat

VARIABLES
    token,   \* password_resets by token
    req,     \* the request each client has in flight
    mailed,  \* tokens whose link has reached the user
    faults,  \* requests that have ended early
    cut,     \* history: one of them asked for a link
    uses,    \* history: password changes made with each token
    lost     \* history: those whose request did not get to mark the token

vars == <<token, req, mailed, faults, cut, uses, lost>>
history == <<cut, uses, lost>>

Unissued == [row |-> "unissued"]
Deleted == [row |-> "deleted"]
Rows == [used : BOOLEAN, expired : BOOLEAN]

Idle == [pc |-> "idle"]
At(c, pc) == req[c].pc = pc

Many == Cardinality(Clients) + MaxFaults + 1   \* uses stop counting here

TypeOK ==
    /\ token \in [Tokens -> Rows \cup {Unissued, Deleted}]
    /\ req \in [Clients -> {Idle} \cup [pc : {"invalidate", "create"}]
                              \cup [pc : {"mail", "update", "mark"}, with : Tokens]]
    /\ mailed \subseteq Tokens
    /\ faults \in 0..MaxFaults
    /\ cut \in BOOLEAN
    /\ uses \in [Tokens -> 0..Many]
    /\ lost \in [Tokens -> 0..MaxFaults]

Init ==
    /\ token = [t \in Tokens |-> Unissued]
    /\ req = [c \in Clients |-> Idle]
    /\ mailed = {}
    /\ faults = 0
    /\ cut = FALSE
    /\ uses = [t \in Tokens |-> 0]
    /\ lost = [t \in Tokens |-> 0]

Exists(t) == token[t] \notin {Unissued, Deleted}

-----------------------------------------------------------------------------
(* RequestPasswordReset for a known email.                                   *)

BeginRequest(c) ==
    /\ req[c] = Idle
    /\ req' = [req EXCEPT ![c] = [pc |-> "invalidate"]]
    /\ UNCHANGED <<token, mailed, faults, history>>

\* Mutant: only tokens that could not be used any more are deleted.
DeleteForUser_Stale(c) ==
    /\ At(c, "invalidate")
    /\ token' = [t \in Tokens |->
                    IF Exists(t) /\ (token[t].used \/ token[t].expired)
                    THEN Deleted ELSE token[t]]
    /\ req' = [req EXCEPT ![c] = [pc |-> "create"]]
    /\ UNCHANGED <<mailed, faults, history>>

DeleteForUser(c) ==
    /\ At(c, "invalidate")
    /\ token' = [t \in Tokens |-> IF Exists(t) THEN Deleted ELSE token[t]]
    /\ req' = [req EXCEPT ![c] = [pc |-> "create"]]
    /\ UNCHANGED <<mailed, faults, history>>

Fresh == [used |-> FALSE, expired |-> FALSE]

\* Mutant: a token is stored without an expiry.
Create_NoExpiry(c, t) ==
    /\ At(c, "create")
    /\ token[t] = Unissued
    /\ token' = [token EXCEPT ![t] = [used |-> FALSE]]
    /\ req' = [req EXCEPT ![c] = [pc |-> "mail", with |-> t]]
    /\ UNCHANGED <<mailed, faults, history>>

\* Mutant: the old tokens are deleted after the new one was stored.
Create_ThenDelete(c, t) ==
    /\ At(c, "create")
    /\ token[t] = Unissued
    /\ token' = [s \in Tokens |-> IF Exists(s) \/ s = t THEN Deleted ELSE token[s]]
    /\ req' = [req EXCEPT ![c] = [pc |-> "mail", with |-> t]]
    /\ UNCHANGED <<mailed, faults, history>>

\* A generated token is new: 32 random bytes.
Create(c, t) ==
    /\ At(c, "create")
    /\ token[t] = Unissued
    /\ token' = [token EXCEPT ![t] = Fresh]
    /\ req' = [req EXCEPT ![c] = [pc |-> "mail", with |-> t]]
    /\ UNCHANGED <<mailed, faults, history>>

SendEmail(c) ==
    /\ At(c, "mail")
    /\ mailed' = mailed \cup {req[c].with}
    /\ req' = [req EXCEPT ![c] = Idle]
    /\ UNCHANGED <<token, faults, history>>

-----------------------------------------------------------------------------
(* ResetPassword with a token from a mail.                                   *)

Usable(t) == Exists(t) /\ ~token[t].used /\ ~token[t].expired

BeginReset(c, t) ==
    /\ req[c] = Idle
    /\ t \in mailed
    /\ Usable(t)
    /\ req' = [req EXCEPT ![c] = [pc |-> "update", with |-> t]]
    /\ UNCHANGED <<token, mailed, faults, history>>

UpdatePassword(c) ==
    /\ At(c, "update")
    /\ uses' = [uses EXCEPT ![req[c].with] = IF @ < Many THEN @ + 1 ELSE @]
    /\ req' = [req EXCEPT ![c].pc = "mark"]
    /\ UNCHANGED <<token, mailed, faults, cut, lost>>

\* Mutant: a used token is put back to unused, as by a column mix-up.
MarkUsed_Unmarks(c) ==
    /\ At(c, "mark")
    /\ token' = IF Exists(req[c].with)
                THEN [token EXCEPT ![req[c].with].used = FALSE] ELSE token
    /\ req' = [req EXCEPT ![c] = Idle]
    /\ UNCHANGED <<mailed, faults, history>>

\* Marking a token that has been deleted meanwhile is no error.
MarkUsed(c) ==
    /\ At(c, "mark")
    /\ token' = IF Exists(req[c].with)
                THEN [token EXCEPT ![req[c].with].used = TRUE] ELSE token
    /\ req' = [req EXCEPT ![c] = Idle]
    /\ UNCHANGED <<mailed, faults, history>>

-----------------------------------------------------------------------------
(* Time and failures.                                                        *)

Expire(t) ==
    /\ Exists(t) /\ ~token[t].expired
    /\ token' = [token EXCEPT ![t].expired = TRUE]
    /\ UNCHANGED <<req, mailed, faults, history>>

\* A call fails, before or after it took effect, the client goes away or the
\* server dies: the request ends where it is.
Abandon(c) ==
    /\ req[c] # Idle
    /\ faults < MaxFaults
    /\ faults' = faults + 1
    /\ cut' = (cut \/ req[c].pc \in {"invalidate", "create", "mail"})
    /\ lost' = IF At(c, "mark") THEN [lost EXCEPT ![req[c].with] = @ + 1] ELSE lost
    /\ req' = [req EXCEPT ![c] = Idle]
    /\ UNCHANGED <<token, mailed, uses>>

Step(c) ==
    \/ BeginRequest(c) \/ DeleteForUser(c) \/ SendEmail(c)
    \/ UpdatePassword(c) \/ MarkUsed(c) \/ Abandon(c)
    \/ \E t \in Tokens : Create(c, t) \/ BeginReset(c, t)

Next == (\E c \in Clients : Step(c)) \/ (\E t \in Tokens : Expire(t))

Spec == Init /\ [][Next]_vars

-----------------------------------------------------------------------------
(* Properties.                                                               *)

Creating == {c \in Clients : At(c, "create")}

\* A new request invalidates the links of the ones before: at most one link per
\* request that overlaps is stored at a time, one link if none do.
FewLinks ==
    Cardinality({t \in Tokens : Exists(t)}) + Cardinality(Creating)
        <= Cardinality(Clients)

\* "can only be used once" (auth/service.go:344) holds up to overlap: the find,
\* the password and the mark are three statements, so a link changes the
\* password at most once per client, and once more for every use that ended
\* before its mark.
SpentOncePerClient ==
    \A t \in Tokens : uses[t] <= Cardinality(Clients) + lost[t]

\* Requests that overlap delete each other's tokens, but when all have been
\* answered one of the links in the user's mailbox is still stored.
SomeLinkStored ==
    ~cut /\ mailed # {}
         /\ (\A c \in Clients : req[c].pc \notin {"invalidate", "create", "mail"})
        => \E t \in mailed : Exists(t)
=============================================================================
