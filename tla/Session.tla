------------------------------- MODULE Session -------------------------------
(* Signing in to the dashboard (internal/dashboard/static/app.js), signing    *)
(* out and choosing a new password, in the tabs of one browser.               *)
(*                                                                            *)
(* Tabs share localStorage, where the token survives a reload; each has its   *)
(* own `state'.  A step is what happens from one await to the next.  Replies  *)
(* come in any order, any of them may be a failure, and tokens expire: there  *)
(* is no other end of a token, the server does not know who signed out.       *)
EXTENDS Integers

CONSTANTS
    Users,
    Tokens,      \* bound: tokens the server issues
    BrowserTabs, \* bound: tabs
    Slots,       \* bound: asynchronous functions in flight
    MaxClicks    \* bound: clicks in a behaviour

None == "none"
ASSUME NoneAssumption == None \notin Users \cup Tokens
ASSUME NonEmptyAssumption == Users # {} /\ Tokens # {}
ASSUME ClickAssumption == MaxClicks \in Nat

VARIABLES
    stored,  \* the token in localStorage
    owner,   \* whose each token is
    live,    \* the tokens the server accepts
    tab,     \* of each tab: the page, and what the code keeps in state
    call,    \* the asynchronous functions that wait for a reply, or a timer
    clicks,  \* clicks made so far
    linked,  \* history: tabs opened by a reset link
    synced,  \* history: tabs loaded or written from since any other tab wrote
             \* to localStorage
    mixed    \* history: tabs with a sign-in that something of the session
             \* before it outlived

server == <<owner, live>>
history == <<linked, synced, mixed>>
vars == <<stored, server, tab, call, clicks, history>>

\* Pages: before init has rendered, the four faces of #login-form, the reset
\* form, and what #main of the shell shows: the settings, or another view.
Outside == {"signin", "signup", "forgot", "sent"}
Inside == {"loading", "failed", "drawn", "settings"}
PageNames == {"closed", "blank", "reset"} \cup Outside \cup Inside

\* data: those whose answers or commands #main shows; orgs: those whose list
\* state.orgs is; log: those whose commands state.activityLog tells of; used: a
\* view has been drawn, and a dialog opened on it may still be open.
TabStates == [page : PageNames, token : Tokens \cup {None}, user : Users \cup {None},
              orgs : SUBSET Users, log : SUBSET Users, data : SUBSET Users,
              used : BOOLEAN]
Closed == [page |-> "closed", token |-> None, user |-> None, orgs |-> {}, log |-> {},
           data |-> {}, used |-> FALSE]

\* here: the #main a render has found at its start is still on the page.
Idle == [op |-> "idle"]
Calls == {Idle}
         \cup [op : {"me"}, tab : BrowserTabs, token : Tokens]
         \cup [op : {"signin"}, tab : BrowserTabs, user : Users]
         \cup [op : {"forgot", "reset", "timer"}, tab : BrowserTabs]
         \cup [op : {"command"}, tab : BrowserTabs, token : Tokens]
         \cup [op : {"list"}, tab : BrowserTabs, token : Tokens, here : BOOLEAN,
               next : {"draw", "count", "open"}]
         \cup [op : {"count"}, tab : BrowserTabs, here : BOOLEAN]
         \cup [op : {"open"}, tab : BrowserTabs, token : Tokens \cup {None},
               of : SUBSET Users, last : BOOLEAN]
Renders == {"list", "count", "open"}
Outliving == Renders \cup {"command", "timer"}

TypeOK ==
    /\ stored \in Tokens \cup {None}
    /\ owner \in [Tokens -> Users \cup {None}]
    /\ live \subseteq {k \in Tokens : owner[k] # None}
    /\ tab \in [BrowserTabs -> TabStates]
    /\ call \in [Slots -> Calls]
    /\ clicks \in 0..MaxClicks
    /\ linked \subseteq BrowserTabs /\ synced \subseteq BrowserTabs
    /\ mixed \subseteq BrowserTabs

\* A token may be left from an earlier visit, and have expired since.  Tokens
\* are alike, and so are users: which ones it is does not matter.
Init ==
    /\ stored \in {None, CHOOSE k \in Tokens : TRUE}
    /\ owner = [k \in Tokens |-> IF k = stored THEN CHOOSE u \in Users : TRUE ELSE None]
    /\ live \in SUBSET ({stored} \ {None})
    /\ tab = [t \in BrowserTabs |-> Closed]
    /\ call = [s \in Slots |-> Idle]
    /\ clicks = 0
    /\ linked = {} /\ synced = {} /\ mixed = {}

-----------------------------------------------------------------------------
(* Rendering.  F is what is in flight, s the slot of the function that runs. *)

IsFree(s) == call[s] = Idle
Shell(t) == tab[t].page \in Inside

\* Renders of this tab lose their #main when #app is replaced.
Detached(F, t) ==
    [s \in Slots |-> IF F[s].op \in {"list", "count"} /\ F[s].tab = t
                     THEN [F[s] EXCEPT !.here = FALSE] ELSE F[s]]

Drawn(now, of) == [now EXCEPT !.page = "drawn", !.data = of, !.used = TRUE]

\* The settings show the activity log.
renderSettings(now) == [now EXCEPT !.page = "settings", !.data = now.log]

\* Mutant: the list in state.orgs is shown until the reply comes.
renderView_Cached(F, s, t, now) ==
    /\ tab' = [tab EXCEPT ![t] = Drawn(now, now.orgs)]
    /\ call' = [F EXCEPT ![s] = [op |-> "list", tab |-> t, token |-> now.token,
                                 here |-> TRUE, next |-> "count"]]

\* What renderView starts depends on state.view and state.currentOrg, which
\* outlive a session: the settings are drawn at once, the other views begin with
\* GET /orgs.
renderView(F, s, t, now) ==
    \/ /\ tab' = [tab EXCEPT ![t] = renderSettings(now)]
       /\ call' = [F EXCEPT ![s] = Idle]
    \/ /\ tab' = [tab EXCEPT ![t] = [now EXCEPT !.page = "loading", !.data = {}]]
       /\ \E next \in {"draw", "count", "open"} :
             call' = [F EXCEPT ![s] = [op |-> "list", tab |-> t, token |-> now.token,
                                       here |-> TRUE, next |-> next]]

render(F, s, t, now) ==
    IF now.token = None
    THEN /\ tab' = [tab EXCEPT ![t] = [now EXCEPT !.page = "signin", !.data = {}]]
         /\ call' = [Detached(F, t) EXCEPT ![s] = Idle]
    ELSE renderView(Detached(F, t), s, t, now)

-----------------------------------------------------------------------------
(* What the user does.                                                       *)

\* Loading a page abandons what the tab was waiting for.
Abandoned(t) ==
    [s \in Slots |-> IF call[s] # Idle /\ call[s].tab = t THEN Idle ELSE call[s]]

\* init; the link of a reset mail does without the check of the token.
Load(s, t, link) ==
    LET start == [Closed EXCEPT !.token = stored]
    IN  /\ Abandoned(t)[s] = Idle
        /\ IF link
           THEN /\ tab' = [tab EXCEPT ![t] = [start EXCEPT !.page = "reset"]]
                /\ call' = Abandoned(t)
           ELSE IF stored = None
           THEN /\ tab' = [tab EXCEPT ![t] = [start EXCEPT !.page = "signin"]]
                /\ call' = Abandoned(t)
           ELSE /\ tab' = [tab EXCEPT ![t] = [start EXCEPT !.page = "blank"]]
                /\ call' = [Abandoned(t) EXCEPT
                               ![s] = [op |-> "me", tab |-> t, token |-> stored]]
        /\ linked' = IF link THEN linked \cup {t} ELSE linked \ {t}
        /\ synced' = synced \cup {t} /\ mixed' = mixed \ {t}
        /\ UNCHANGED <<stored, server>>

\* The links of the login page.
Show(t, page) ==
    /\ tab[t].page = "signin"
    /\ tab' = [tab EXCEPT ![t].page = page]
    /\ UNCHANGED <<stored, server, call, history>>
showSignup(t) == Show(t, "signup")
showForgotPassword(t) == Show(t, "forgot")

BackToSignIn(s, t) ==
    /\ IsFree(s)
    /\ tab[t].page \in {"signup", "forgot", "sent", "reset"}
    /\ render(call, s, t, tab[t])
    /\ UNCHANGED <<stored, server, history>>

\* Buttons stay enabled while their request is on its way.
Send(s, request) ==
    /\ IsFree(s)
    /\ call' = [call EXCEPT ![s] = request]
    /\ UNCHANGED <<stored, server, tab, history>>
SendSignin(s, t, u) ==  \* login, and signup on its own form
    /\ tab[t].page \in {"signin", "signup"}
    /\ Send(s, [op |-> "signin", tab |-> t, user |-> u])
SendForgot(s, t) ==
    /\ tab[t].page = "forgot"
    /\ Send(s, [op |-> "forgot", tab |-> t])
SendReset(s, t) ==
    /\ tab[t].page = "reset"
    /\ Send(s, [op |-> "reset", tab |-> t])

\* A button of a view or of a dialog, that creates an organization, launches,
\* starts, stops or terminates an instance, or changes what a tab shows.
SendCommand(s, t) ==
    /\ Shell(t) /\ tab[t].used
    /\ Send(s, [op |-> "command", tab |-> t, token |-> tab[t].token])

Navigate(s, t) ==
    /\ Shell(t) /\ IsFree(s)
    /\ renderView(call, s, t, tab[t])
    /\ UNCHANGED <<stored, server, history>>

\* A dialog covers the button.  All but token and user is kept: state.orgs,
\* state.currentOrg, state.view and state.activityLog too.
SignedOut(t) == [tab[t] EXCEPT !.token = None, !.user = None, !.used = FALSE]

\* Mutant: the token stays in localStorage.
logout_KeepsStored(s, t) ==
    /\ Shell(t) /\ IsFree(s)
    /\ render(call, s, t, SignedOut(t))
    /\ synced' = IF stored = None THEN synced \cup {t} ELSE {t}
    /\ UNCHANGED <<stored, server, linked, mixed>>

logout(s, t) ==
    /\ Shell(t) /\ IsFree(s)
    /\ stored' = None
    /\ render(call, s, t, SignedOut(t))
    /\ synced' = IF stored = None THEN synced \cup {t} ELSE {t}
    /\ UNCHANGED <<server, linked, mixed>>

-----------------------------------------------------------------------------
(* Replies.                                                                  *)

\* Mutant: a token that is refused is dropped without rendering.
MeFails_NoRender(s) ==
    LET t == call[s].tab
    IN  /\ call[s].op = "me"
        /\ stored' = None
        /\ tab' = [tab EXCEPT ![t].token = None]
        /\ call' = [call EXCEPT ![s] = Idle]
        /\ synced' = IF stored = None THEN synced \cup {t} ELSE {t}
        /\ UNCHANGED <<server, linked, mixed>>

\* Any failure of the check drops the token, and whatever is stored by then.
MeFails(s) ==
    LET t == call[s].tab
    IN  /\ call[s].op = "me"
        /\ stored' = None
        /\ render(call, s, t, [tab[t] EXCEPT !.token = None])
        /\ synced' = IF stored = None THEN synced \cup {t} ELSE {t}
        /\ UNCHANGED <<server, linked, mixed>>

MeSucceeds(s) ==
    /\ call[s].op = "me" /\ call[s].token \in live
    /\ LET t == call[s].tab
       IN  render(call, s, t, [tab[t] EXCEPT !.user = owner[call[s].token]])
    /\ UNCHANGED <<stored, server, history>>

\* Mutant: the header keeps the user of the session before.
SignedIn_KeepsUser(t, u, k) ==
    [tab[t] EXCEPT !.token = k, !.user = IF @ = None THEN u ELSE @]

SignedIn(t, u, k) == [tab[t] EXCEPT !.token = k, !.user = u]

\* Of the session before: renders, commands and timers on their way, or a
\* dialog that may still be open, when two sign-ins overlap.
Outlived(s, t) ==
    \/ \E r \in Slots \ {s} : call[r].op \in Outliving /\ call[r].tab = t
    \/ tab[t].used

SigninSucceeds(s) ==
    LET t == call[s].tab
        u == call[s].user
    IN  /\ call[s].op = "signin"
        /\ \E k \in Tokens :
              /\ owner[k] = None
              /\ owner' = [owner EXCEPT ![k] = u] /\ live' = live \cup {k}
              /\ stored' = k
              /\ render(call, s, t, SignedIn(t, u, k))
        /\ linked' = linked \ {t} /\ synced' = {t}
        /\ mixed' = IF Outlived(s, t) THEN mixed \cup {t} ELSE mixed \ {t}

\* A toast; also a reset whose link is not good any more.
Refused(s) ==
    /\ call[s].op \in {"signin", "forgot", "reset", "command"}
    /\ call' = [call EXCEPT ![s] = Idle]
    /\ UNCHANGED <<stored, server, tab, history>>

\* Without a #login-form, in the shell, the handler throws.
ForgotSucceeds(s) ==
    /\ call[s].op = "forgot"
    /\ tab' = IF tab[call[s].tab].page \in Outside
              THEN [tab EXCEPT ![call[s].tab].page = "sent"] ELSE tab
    /\ call' = [call EXCEPT ![s] = Idle]
    /\ UNCHANGED <<stored, server, history>>

\* "Sign in with your new password."
ResetSucceeds(s) ==
    /\ call[s].op = "reset"
    /\ render(call, s, call[s].tab, tab[call[s].tab])
    /\ UNCHANGED <<stored, server, history>>

\* The organization state.currentOrg is opened again if state.orgs has it.
RefreshOrg(s, t, now) ==
    /\ tab' = [tab EXCEPT ![t] = now]
    /\ \/ call' = [call EXCEPT ![s] = Idle]
       \/ /\ now.orgs # {}
          /\ call' = [call EXCEPT ![s] = [op |-> "open", tab |-> t, of |-> now.orgs,
                                          token |-> now.token, last |-> FALSE]]

\* The command is carried out, and most are noted in state.activityLog.  What
\* follows depends on it: nothing, or a tab is read again into #tab-content (the
\* tabs of Console, which an answer does not leave); the timer of a launch; the
\* organization again, after an action; the view again, when an organization
\* was created, which throws if there is no #main any more.
CommandSucceeds(s) ==
    LET t == call[s].tab
        noted == [tab[t] EXCEPT !.log = @ \cup {owner[call[s].token]}]
    IN  /\ call[s].op = "command" /\ call[s].token \in live
        /\ \/ /\ tab' \in {tab, [tab EXCEPT ![t] = noted]}
              /\ call' = [call EXCEPT ![s] = Idle]
           \/ /\ tab' = [tab EXCEPT ![t] = noted]
              /\ call' = [call EXCEPT ![s] = [op |-> "timer", tab |-> t]]
           \/ RefreshOrg(s, t, noted)
           \/ Shell(t) /\ renderView(call, s, t, noted)
        /\ UNCHANGED <<stored, server, history>>

TimerFires(s) ==
    /\ call[s].op = "timer"
    /\ RefreshOrg(s, call[s].tab, tab[call[s].tab])
    /\ UNCHANGED <<stored, server, history>>

-----------------------------------------------------------------------------
(* Replies to the renders.  A request is sent with state.token as it is then. *)

Draw(t, of) == [tab EXCEPT ![t] = Drawn(@, of)]

ListFails(s) ==
    /\ call[s].op = "list"
    /\ tab' = IF call[s].here
              THEN [tab EXCEPT ![call[s].tab].page = "failed", ![call[s].tab].data = {}]
              ELSE tab
    /\ call' = [call EXCEPT ![s] = Idle]
    /\ UNCHANGED <<stored, server, history>>

\* Mutant: the answer is not turned into an array (asArray).
Answer_Wrapped(k) == {{owner[k]}}

Answer(k) == {owner[k]}

\* renderDashboard goes on to count instances; renderOrgs draws the list, opens
\* the current organization, or, when that is not in the list, starts again.
ListSucceeds(s) ==
    LET c == call[s]
        t == c.tab
        of == Answer(c.token)
        listed == [tab EXCEPT ![t].orgs = of]
        again == [c EXCEPT !.token = tab[t].token, !.here = TRUE, !.next = "draw"]
    IN  /\ c.op = "list" /\ c.token \in live
        /\ \/ /\ c.next = "draw"
              /\ tab' = IF c.here
                        THEN [listed EXCEPT ![t] = Drawn(@, of)]
                        ELSE listed
              /\ call' = [call EXCEPT ![s] = Idle]
           \/ /\ c.next = "count"
              /\ tab' = listed
              /\ call' = [call EXCEPT ![s] = [op |-> "count", tab |-> t, here |-> c.here]]
           \/ /\ c.next = "open"
              /\ tab' = listed
              /\ call' = [call EXCEPT ![s] = [op |-> "open", tab |-> t, of |-> of,
                                              token |-> tab[t].token, last |-> FALSE]]
           \/ /\ c.next = "open" /\ Shell(t)
              /\ tab' = [listed EXCEPT ![t].page = "loading", ![t].data = {}]
              /\ call' = [call EXCEPT ![s] = again]
           \/ /\ c.next = "open" /\ ~Shell(t)   \* no #main: it throws
              /\ tab' = listed
              /\ call' = [call EXCEPT ![s] = Idle]
        /\ UNCHANGED <<stored, server, history>>

\* The dashboard shows state.orgs, whoever's it is by now.
CountReply(s) ==
    LET c == call[s]
    IN  /\ c.op = "count"
        /\ tab' = IF c.here THEN Draw(c.tab, tab[c.tab].orgs) ELSE tab
        /\ call' = [call EXCEPT ![s] = Idle]
        /\ UNCHANGED <<stored, server, history>>

\* renderOrgDetail looks for #main only when it has both answers, and takes a
\* failure for an empty one.
OpenReply(s) ==
    LET c == call[s]
    IN  /\ c.op = "open"
        /\ \E of \in {c.of} \cup {c.of \cup Answer(k) : k \in live \cap {c.token}} :
              IF ~c.last
              THEN /\ call' = [call EXCEPT ![s] = [c EXCEPT !.of = of, !.last = TRUE,
                                                            !.token = tab[c.tab].token]]
                   /\ tab' = tab
              ELSE /\ tab' = IF Shell(c.tab) THEN Draw(c.tab, of) ELSE tab
                   /\ call' = [call EXCEPT ![s] = Idle]
        /\ UNCHANGED <<stored, server, history>>

\* A token expires.
Expire ==
    /\ \E k \in live : live' = live \ {k}
    /\ UNCHANGED <<stored, owner, tab, call, history>>

-----------------------------------------------------------------------------
Act ==
    \E t \in BrowserTabs :
        \/ showSignup(t) \/ showForgotPassword(t)
        \/ \E s \in Slots :
              \/ \E link \in BOOLEAN : Load(s, t, link)
              \/ BackToSignIn(s, t) \/ Navigate(s, t) \/ logout(s, t)
              \/ SendForgot(s, t) \/ SendReset(s, t) \/ SendCommand(s, t)
              \/ \E u \in Users : SendSignin(s, t, u)

Reply(s) ==
    \/ MeFails(s) \/ MeSucceeds(s)
    \/ SigninSucceeds(s) \/ ForgotSucceeds(s) \/ ResetSucceeds(s) \/ Refused(s)
    \/ CommandSucceeds(s) \/ TimerFires(s)
    \/ ListFails(s) \/ ListSucceeds(s) \/ CountReply(s) \/ OpenReply(s)

React(s) == clicks' = clicks /\ Reply(s)

Next ==
    \/ clicks < MaxClicks /\ clicks' = clicks + 1 /\ Act
    \/ clicks' = clicks /\ Expire
    \/ \E s \in Slots : React(s)

Spec == Init /\ [][Next]_vars

\* fetch settles every request in the end, with an answer or with an error, and
\* a timer goes off.
FairSpec == Spec /\ \A s \in Slots : WF_vars(React(s))

-----------------------------------------------------------------------------
(* Properties.                                                               *)

\* Who is in the shell is signed in, with a token of the user in the header,
\* and who sees the login page is not.  A reset link is the exception: it
\* leaves the stored token unchecked, and the shell it leads to nameless.
HeaderNamesOwner ==
    \A t \in BrowserTabs :
        /\ tab[t].page \in Outside => tab[t].token = None
        /\ Shell(t) => /\ tab[t].token # None
                       /\ \/ tab[t].user = owner[tab[t].token]
                          \/ tab[t].user = None /\ t \in linked

\* Whatever an earlier session left in state.orgs, state.currentOrg and
\* state.view, no view but the settings shows anybody's answers but those of the
\* one who is signed in, unless requests, commands or launch timers of an earlier
\* session in this tab were still on their way when he signed in, or a dialog was
\* still open.  The settings are left out because they do: they show the
\* activity log, which a logout does not empty (nor the notifications).
OwnData ==
    \A t \in BrowserTabs :
        t \notin mixed /\ Shell(t) /\ tab[t].page # "settings" =>
            tab[t].data \subseteq {owner[tab[t].token]}

\* Loading the page again resumes the session the tab has, signed out
\* included, unless another tab has signed in or out, or failed the check of
\* a token, since.
InSync == \A t \in synced : tab[t].token = stored

\* No tab stays blank or "Loading..." for ever.
Settles ==
    \A t \in BrowserTabs :
        tab[t].page \in {"blank", "loading"} ~> tab[t].page \notin {"blank", "loading"}
=============================================================================
