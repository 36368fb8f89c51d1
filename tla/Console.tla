------------------------------- MODULE Console -------------------------------
(* The dashboard (internal/dashboard/static/app.js) of a signed-in user: what *)
(* the page shows, what is in `state', and the requests it waits for.         *)
(*                                                                            *)
(* JavaScript runs one handler at a time, so a step is what happens from one  *)
(* await to the next: a click, the reply to a request, or a timer.  Nothing   *)
(* cancels a request or compares its reply with what was asked for meanwhile: *)
(* replies come in any order and each draws over what is there.  A request    *)
(* may fail at any time, and other users may add the user to organizations    *)
(* and remove him again, so GET /orgs answers with any of them.               *)
EXTENDS Integers

CONSTANTS
    Orgs,      \* bound: organizations
    Slots,     \* bound: asynchronous functions in flight
    Commands,  \* the buttons the user presses, some of AllCommands
    ShownTabs, \* the tabs the user opens, some of Tabs
    MaxClicks  \* bound: clicks in a behaviour

\* Tabs drawn from a reply; `instances' is drawn from state.instances.
Fetched == {"members", "billing", "webhooks", "audit"}
Tabs == Fetched \cup {"instances"}

\* Forms stay open until the reply; confirmations close when they are sent.
Forms == {"createOrg", "createInstance", "invite", "suspend", "createWebhook"}
Confirmations == {"action", "remove", "deleteWebhook"}
AllCommands == Forms \cup Confirmations \cup {"decide", "toggle", "ping"}

ASSUME CommandAssumption == Commands \subseteq AllCommands
ASSUME TabAssumption == ShownTabs \subseteq Tabs
ASSUME ClickAssumption == MaxClicks \in Nat

None == "none"
ASSUME NoneAssumption == None \notin Orgs

VARIABLES
    view,       \* state.view
    currentOrg, \* state.currentOrg
    orgs,       \* state.orgs
    instances,  \* state.instances
    page,       \* what #main shows
    overlay,    \* the .modal-overlay on top of it
    flight,     \* the asynchronous functions that wait for a reply
    clicks,     \* clicks made so far
    asked,      \* history: the page the user went to last
    askedTab,   \* history: the tab of it he went to last
    crossed,    \* history: a reply was used after the reply to a later request
    overdrawn,  \* history: since the user went there, a reply drew over the
                \* settings, or over the tab he was on
    barged,     \* history: a reply redrew a page or tab the user had left, or
                \* left an organization that another reply will draw
    cut         \* history: a command was carried out and the user was not told,
                \* or its organization not drawn again for want of it in state.orgs

vars == <<view, currentOrg, orgs, instances, page, overlay, flight, clicks,
          asked, askedTab, overdrawn, crossed, barged, cut>>
store == <<view, currentOrg, orgs, instances>>
drawn == <<crossed, barged>>
place == <<asked, askedTab, overdrawn>>
history == <<place, drawn, cut>>

\* Rows of a table: the organizations they were read from, and whether they show
\* every command of this user that was carried out there.  NoRows were not read.
Rows == [from : SUBSET Orgs, fresh : BOOLEAN]
NoRows == [from |-> {}, fresh |-> FALSE]

\* The content of #tab-content.
Panes == [shows : Tabs \cup {"loading", "failed"}, rows : Rows]
Blank(what) == [shows |-> what, rows |-> NoRows]

Pages == [kind : {"loading", "failed", "settings"}]
         \cup [kind : {"dashboard", "list"}, offers : SUBSET Orgs]
         \cup [kind : {"detail"}, org : Orgs, tab : Tabs, pane : Panes]
Loading == [kind |-> "loading"]
Failed == [kind |-> "failed"]
Settings == [kind |-> "settings"]

\* An overlay and a command remember the organization of the row they were
\* opened from.
Targets == [cmd : Commands, row : Orgs \cup {None}]
NoOverlay == [cmd |-> None, row |-> None]

\* age: "old" once a later request for the same place is on its way, "late"
\* once the reply to a later one has been used.
Ages == {"new", "old", "late"}
MainOps == {"dashboard", "orgs", "detail"}
Idle == [op |-> "idle"]
Gone == [op |-> "gone"]     \* it will write to an element that was replaced
Timer == [op |-> "timer"]   \* the setTimeout of createInstance
Flights ==
    {Idle, Gone, Timer}
    \cup [op : {"dashboard"}, counting : BOOLEAN, age : Ages]
    \cup [op : {"orgs"}, age : Ages]
    \cup [op : {"detail"}, org : Orgs, listed : BOOLEAN, rows : Rows,
          dirty : BOOLEAN, age : Ages]
    \cup [op : Fetched, ask : Orgs \cup {None}, from : SUBSET (Orgs \cup {None}),
          dirty : BOOLEAN, age : Ages]
    \cup [op : {"command"}, to : Targets, aim : Orgs \cup {None},
          done : BOOLEAN]

TypeOK ==
    /\ view \in {"dashboard", "orgs", "settings"}
    /\ currentOrg \in Orgs \cup {None}
    /\ orgs \subseteq Orgs
    /\ instances \in Rows
    /\ page \in Pages
    /\ overlay \in Targets \cup {NoOverlay}
    /\ flight \in [Slots -> Flights]
    /\ clicks \in 0..MaxClicks
    /\ asked \in {"dashboard", "orgs", "settings"} /\ askedTab \in Tabs
    /\ {overdrawn, crossed, barged, cut} \subseteq BOOLEAN

-----------------------------------------------------------------------------
(* The requests in flight.                                                   *)

IsFree(s) == flight[s] = Idle
Op(s) == flight[s].op

\* #tab-content is replaced: renders of it have nothing to write to any more.
Detached(F) == [s \in Slots |-> IF F[s].op \in Fetched THEN Gone ELSE F[s]]

\* A later request for the same place was sent, or its reply was used.
Older(F, ops) ==
    [s \in Slots |-> IF F[s].op \in ops /\ F[s].age = "new"
                     THEN [F[s] EXCEPT !.age = "old"] ELSE F[s]]
Late(F, ops) ==
    [s \in Slots |-> IF F[s].op \in ops THEN [F[s] EXCEPT !.age = "late"] ELSE F[s]]

\* The reply of slot s is used, and the function goes on as f.
Used(s, ops, f) ==
    [(IF flight[s].age = "new" THEN Late(flight, ops) ELSE flight) EXCEPT ![s] = f]
Crosses(s) == crossed' = (crossed \/ flight[s].age = "late")

\* A reply draws, over something the user went to if `over'.
Overdraws(over) == overdrawn' = (overdrawn \/ over)
AtSettings == page.kind = "settings"

-----------------------------------------------------------------------------
(* The renders, from their start to their first request.  F is what is in    *)
(* flight, s the slot of the function that goes on as f.                     *)

\* Mutant: the page is left as it is until the reply comes.
StartMain_Quiet(F, s, f) ==
    /\ page' = page
    /\ flight' = [Older(F, MainOps) EXCEPT ![s] = f]

StartMain(F, s, f) ==
    /\ page' = Loading
    /\ flight' = [Older(Detached(F), MainOps) EXCEPT ![s] = f]

renderDashboard(s) ==
    StartMain(flight, s, [op |-> "dashboard", counting |-> FALSE, age |-> "new"])
renderOrgs(F, s) == StartMain(F, s, [op |-> "orgs", age |-> "new"])

\* Settings are drawn at once; whatever else is to draw in #main still will.
renderSettings(F) ==
    /\ page' = Settings
    /\ flight' = Detached(F)

renderView(s) ==
    \/ view = "dashboard" /\ renderDashboard(s)
    \/ view = "orgs" /\ renderOrgs(flight, s)
    \/ view = "settings" /\ renderSettings([flight EXCEPT ![s] = Idle])

\* renderOrgDetail draws nothing before its second reply.
OrgDetail(o, age) ==
    [op |-> "detail", org |-> o, listed |-> FALSE, rows |-> NoRows,
     dirty |-> FALSE, age |-> age]
renderOrgDetail(s, o) ==
    /\ page' = page
    /\ flight' = [Older(flight, MainOps) EXCEPT ![s] = OrgDetail(o, "new")]

\* A render of #tab-content, as tab t of the page.
Asking(t) ==
    [op |-> t, ask |-> currentOrg, from |-> {}, dirty |-> FALSE, age |-> "new"]
renderTab(s, t) ==
    /\ page' = [page EXCEPT !.pane = Blank("loading")]
    /\ flight' = [Older(flight, Fetched) EXCEPT ![s] = Asking(t)]

End(s) ==
    /\ page' = page
    /\ flight' = [flight EXCEPT ![s] = Idle]

-----------------------------------------------------------------------------
(* Clicks on the page.  An overlay covers it.                                *)

Init ==
    /\ view = "dashboard" /\ asked = "dashboard" /\ askedTab = "instances"
    /\ currentOrg = None /\ orgs = {} /\ instances = NoRows
    /\ page = Loading
    /\ overlay = NoOverlay
    /\ \E s \in Slots :
          flight = [[t \in Slots |-> Idle] EXCEPT
                        ![s] = [op |-> "dashboard", counting |-> FALSE, age |-> "new"]]
    /\ clicks = 0
    /\ overdrawn = FALSE /\ crossed = FALSE /\ barged = FALSE /\ cut = FALSE

Uncovered == overlay = NoOverlay

Ask(where) == asked' = where /\ askedTab' = "instances" /\ overdrawn' = FALSE
GoTo(v) == view' = v /\ Ask(v)

ClickDashboard(s) ==
    /\ Uncovered /\ IsFree(s)
    /\ GoTo("dashboard")
    /\ renderDashboard(s)
    /\ UNCHANGED <<currentOrg, orgs, instances, overlay, drawn, cut>>

ClickOrgs(s) ==
    /\ Uncovered /\ IsFree(s)
    /\ GoTo("orgs")
    /\ renderOrgs(flight, s)
    /\ UNCHANGED <<currentOrg, orgs, instances, overlay, drawn, cut>>

goToSettings ==
    /\ Uncovered
    /\ GoTo("settings")
    /\ renderSettings(flight)
    /\ UNCHANGED <<currentOrg, orgs, instances, overlay, drawn, cut>>

\* `view' stays what it was, also on the dashboard.
selectOrg(s, o) ==
    /\ Uncovered /\ IsFree(s)
    /\ page.kind \in {"dashboard", "list"} /\ o \in page.offers
    /\ currentOrg' = o /\ Ask("orgs")
    /\ renderOrgs(flight, s)
    /\ UNCHANGED <<view, orgs, instances, overlay, drawn, cut>>

backToOrgs(s) ==
    /\ Uncovered /\ IsFree(s)
    /\ page.kind = "detail"
    /\ currentOrg' = None /\ Ask("orgs")
    /\ renderOrgs(flight, s)
    /\ UNCHANGED <<view, orgs, instances, overlay, drawn, cut>>

ShowInstances ==
    /\ page' = [page EXCEPT !.tab = "instances",
                            !.pane = [shows |-> "instances", rows |-> instances]]
    /\ flight' = flight

switchTab(s, t) ==
    /\ Uncovered /\ page.kind = "detail"
    /\ askedTab' = t
    /\ overdrawn' = (overdrawn /\ asked = "settings")
    /\ IF t = "instances"
       THEN ShowInstances
       ELSE /\ IsFree(s)
            /\ page' = [page EXCEPT !.tab = t, !.pane = Blank("loading")]
            /\ flight' = [Older(flight, Fetched) EXCEPT ![s] = Asking(t)]
    /\ UNCHANGED <<store, overlay, asked, drawn, cut>>

-----------------------------------------------------------------------------
(* Replies to the renders.  A reply that fails to come, is no JSON or has an *)
(* error status is a failure (function api).                                 *)

\* The dashboard lists what is in state.orgs when it has counted instances.
DashboardReply(s) ==
    /\ Op(s) = "dashboard"
    /\ Crosses(s)
    /\ \/ /\ ~flight[s].counting
          /\ page' = Failed /\ Overdraws(AtSettings)
          /\ flight' = Detached(Used(s, MainOps, Idle))
          /\ orgs' = orgs
       \/ /\ ~flight[s].counting
          /\ orgs' \in SUBSET Orgs
          /\ flight' = Used(s, MainOps, [flight[s] EXCEPT !.counting = TRUE])
          /\ UNCHANGED <<page, overdrawn>>
       \/ /\ flight[s].counting
          /\ page' = [kind |-> "dashboard", offers |-> orgs] /\ Overdraws(AtSettings)
          /\ flight' = Detached(Used(s, MainOps, Idle))
          /\ orgs' = orgs
    /\ UNCHANGED <<view, currentOrg, instances, overlay, asked, askedTab, barged, cut>>

\* Mutant: the answer is not turned into an array (asArray).
ListAll_NoArray(s) ==
    /\ currentOrg = None
    /\ page' = [kind |-> "list", offers |-> {orgs'}] /\ Overdraws(AtSettings)
    /\ flight' = Detached(Used(s, MainOps, Idle))
    /\ UNCHANGED <<currentOrg, barged>>

ListAll(s) ==
    /\ currentOrg = None
    /\ page' = [kind |-> "list", offers |-> orgs'] /\ Overdraws(AtSettings)
    /\ flight' = Detached(Used(s, MainOps, Idle))
    /\ UNCHANGED <<currentOrg, barged>>

\* Mutant: the first organization of the list is opened.
OpenCurrent_First(s) ==
    /\ currentOrg \in orgs'
    /\ flight' = Used(s, MainOps, OrgDetail(CHOOSE o \in orgs' : TRUE, flight[s].age))
    /\ UNCHANGED <<page, currentOrg, overdrawn, barged>>

OpenCurrent(s) ==
    /\ currentOrg \in orgs'
    /\ flight' = Used(s, MainOps, OrgDetail(currentOrg, flight[s].age))
    /\ UNCHANGED <<page, currentOrg, overdrawn, barged>>

\* Mutant: an organization that is gone is only deselected.
LeaveCurrent_Stop(s) ==
    /\ currentOrg \notin orgs' \cup {None}
    /\ currentOrg' = None
    /\ flight' = Used(s, MainOps, Idle)
    /\ UNCHANGED <<page, overdrawn, barged>>

\* The user was removed from the organization: renderOrgs calls itself.
LeaveCurrent(s) ==
    /\ currentOrg \notin orgs' \cup {None}
    /\ currentOrg' = None
    /\ page' = Loading /\ Overdraws(AtSettings)
    /\ flight' = Detached(Used(s, MainOps, [op |-> "orgs", age |-> flight[s].age]))
    /\ barged' = (barged \/ \E t \in Slots \ {s} : Op(t) \in MainOps)

OrgsReply(s) ==
    /\ Op(s) = "orgs"
    /\ Crosses(s)
    /\ \/ /\ page' = Failed /\ Overdraws(AtSettings)
          /\ flight' = Detached(Used(s, MainOps, Idle))
          /\ UNCHANGED <<orgs, currentOrg, barged>>
       \/ /\ orgs' \in SUBSET Orgs
          /\ ListAll(s) \/ OpenCurrent(s) \/ LeaveCurrent(s)
    /\ UNCHANGED <<view, instances, overlay, asked, askedTab, cut>>

\* The rows of a reply: the server answered before or after it carried out a
\* command that came in meanwhile.
Answers(dirty, from) == {[from |-> from, fresh |-> fresh] :
                            fresh \in IF dirty THEN BOOLEAN ELSE {TRUE}}

\* A list of instances that cannot be read is taken for an empty one.  Drawing
\* the details leads back to the tab of the instances.
DetailReply(s) ==
    /\ Op(s) = "detail"
    /\ Crosses(s)
    /\ IF ~flight[s].listed
       THEN /\ instances' \in Answers(flight[s].dirty, {flight[s].org}) \cup {NoRows}
            /\ flight' = Used(s, MainOps,
                              [flight[s] EXCEPT !.listed = TRUE, !.rows = instances'])
            /\ UNCHANGED <<page, overdrawn>>
       ELSE /\ page' = [kind |-> "detail", org |-> flight[s].org, tab |-> "instances",
                        pane |-> [shows |-> "instances", rows |-> flight[s].rows]]
            /\ Overdraws(AtSettings \/ askedTab # "instances")
            /\ flight' = Detached(Used(s, MainOps, Idle))
            /\ instances' = instances
    /\ UNCHANGED <<view, currentOrg, orgs, overlay, asked, askedTab, barged, cut>>

\* The second request of two tabs: the join requests, for an admin, and the
\* invoices.  Its path is made from state.currentOrg as it is by then.
AskMore(s) ==
    /\ Op(s) \in {"members", "billing"}
    /\ flight[s].from = {}
    /\ Op(s) = "members" => flight[s].ask # None
    /\ flight' = [flight EXCEPT ![s].from = {flight[s].ask}, ![s].ask = currentOrg]
    /\ UNCHANGED <<store, page, overlay, history>>

\* Mutant: a reply that fails leaves the tab as it is.
DrawTab_Silent(s, pane) ==
    /\ page' = IF pane = Blank("failed") THEN page ELSE [page EXCEPT !.pane = pane]
    /\ flight' = Used(s, Fetched, Idle)

DrawTab(s, pane) ==
    /\ page' = [page EXCEPT !.pane = pane]
    /\ flight' = Used(s, Fetched, Idle)

\* What the tab shows after its last reply.  Without the join requests the
\* members are still drawn; usage and invoices are both needed.
Drawable(s) ==
    LET f == flight[s]
        filled(from) == {[shows |-> f.op, rows |-> rows] : rows \in Answers(f.dirty, from)}
        all == f.from \cup {f.ask}
    IN  (IF f.op = "members" /\ f.from # {} THEN filled(f.from) ELSE {Blank("failed")})
        \cup (IF None \in all \/ (f.op = "billing" /\ f.from = {}) THEN {} ELSE filled(all))

TabReply(s) ==
    /\ Op(s) \in Fetched
    /\ Op(s) = "billing" => flight[s].from # {}
    /\ Crosses(s)
    /\ \E pane \in Drawable(s) : DrawTab(s, pane)
    /\ Overdraws(page.tab = "instances")
    /\ UNCHANGED <<store, overlay, asked, askedTab, barged, cut>>

\* The reply to a render whose element is gone changes nothing.
GoneReply(s) ==
    /\ flight[s] = Gone
    /\ flight' = [flight EXCEPT ![s] = Idle]
    /\ UNCHANGED <<store, page, overlay, history>>

-----------------------------------------------------------------------------
(* Commands.  The path is made from state.currentOrg when the command is     *)
(* sent, the id in it from the row of the button.                            *)

Command(to) == [op |-> "command", to |-> to, aim |-> currentOrg, done |-> FALSE]

OnTab(t) == page.kind = "detail" /\ page.pane.shows = t
OnRow(t, o) == OnTab(t) /\ o \in page.pane.rows.from

\* Buttons that open an overlay.
modal(c, row) ==
    /\ Uncovered /\ c \in Commands
    /\ overlay' = [cmd |-> c, row |-> row]
    /\ UNCHANGED <<store, page, flight, history>>

showCreateOrg == page.kind \in {"dashboard", "list"} /\ modal("createOrg", None)
showCreateInstance == OnTab("instances") /\ modal("createInstance", None)
showInviteMember == OnTab("members") /\ modal("invite", None)
showSuspendMember(o) == OnRow("members", o) /\ modal("suspend", o)
removeMember(o) == OnRow("members", o) /\ modal("remove", o)
showCreateWebhook == OnTab("webhooks") /\ modal("createWebhook", None)
deleteWebhook(o) == OnRow("webhooks", o) /\ modal("deleteWebhook", o)

\* The buttons of the details, and the confirmation they or the row ask for,
\* act on the instance as the row does.
showInstanceDetail(o) ==
    /\ OnRow("instances", o) /\ o \in instances.from
    /\ modal("action", o)
confirmAction(o) == OnRow("instances", o) /\ modal("action", o)

Overlays ==
    \/ showCreateOrg \/ showCreateInstance \/ showInviteMember \/ showCreateWebhook
    \/ \E o \in Orgs : \/ showSuspendMember(o) \/ removeMember(o) \/ deleteWebhook(o)
                       \/ showInstanceDetail(o) \/ confirmAction(o)

\* Buttons of a row that send a command at once.
Press(s, c, t, o) ==
    /\ Uncovered /\ IsFree(s) /\ c \in Commands
    /\ OnRow(t, o)
    /\ flight' = [flight EXCEPT ![s] = Command([cmd |-> c, row |-> o])]
    /\ UNCHANGED <<store, page, overlay, history>>

PressAction(s, o) == Press(s, "action", "instances", o)
PressDecide(s, o) == Press(s, "decide", "members", o)
PressToggle(s, o) == Press(s, "toggle", "webhooks", o)
PressTest(s, o) == Press(s, "ping", "webhooks", o)

\* Forms stay open until the reply, and no button is disabled.
Submit(s) ==
    /\ ~Uncovered /\ IsFree(s)
    /\ flight' = [flight EXCEPT ![s] = Command(overlay)]
    /\ overlay' = IF overlay.cmd \in Forms THEN overlay ELSE NoOverlay
    /\ UNCHANGED <<store, page, history>>

Dismiss ==
    /\ ~Uncovered
    /\ overlay' = NoOverlay
    /\ UNCHANGED <<store, page, flight, history>>

-----------------------------------------------------------------------------
(* The server.  Whoever may press a button belongs to the organization, so   *)
(* only the ids in the path matter.                                          *)

\* What a command changes: the rows of a tab.
Subject(c) ==
    CASE c \in {"createInstance", "action"} -> "instances"
      [] c \in {"invite", "suspend", "remove", "decide"} -> "members"
      [] c \in {"createWebhook", "toggle", "deleteWebhook"} -> "webhooks"
      [] c \in {"createOrg", "ping"} -> None

\* Rows that were read before a command of organization o was carried out.
Overtake(rows, o) == [rows EXCEPT !.fresh = @ /\ o \notin rows.from]

Outdate(subject, o) ==
    /\ instances' = IF subject = "instances" THEN Overtake(instances, o) ELSE instances
    /\ page' = IF page.kind = "detail" /\ page.pane.shows = subject
               THEN [page EXCEPT !.pane.rows = Overtake(@, o)] ELSE page

OutdatedFlight(f, subject, o) ==
    IF f.op = "detail" /\ subject = "instances" /\ f.org = o
    THEN [f EXCEPT !.dirty = TRUE, !.rows = Overtake(@, o)]
    ELSE IF f.op \in Fetched /\ f.op = subject /\ o \in f.from \cup {f.ask}
    THEN [f EXCEPT !.dirty = TRUE]
    ELSE f

\* Mutant: the instance is looked up by its id alone.
Acceptable_AnyOrg(f) == f.to.cmd = "createOrg" \/ f.aim # None

\* The organization of the path must exist, and the instance belong to it.
Acceptable(f) ==
    /\ f.to.cmd = "createOrg" \/ f.aim # None
    /\ f.to.cmd = "action" => f.to.row = f.aim

\* The server carries out a command.  Its reply is on its way.
CarryOut(s) ==
    /\ Op(s) = "command" /\ ~flight[s].done
    /\ Acceptable(flight[s])
    /\ LET subject == Subject(flight[s].to.cmd)
       IN  /\ Outdate(subject, flight[s].aim)
           /\ flight' = [t \in Slots |->
                            IF t = s THEN [flight[s] EXCEPT !.done = TRUE]
                            ELSE OutdatedFlight(flight[t], subject, flight[s].aim)]
    /\ UNCHANGED <<view, currentOrg, orgs, overlay, history>>

-----------------------------------------------------------------------------
(* Replies to the commands.                                                  *)

\* A reply closes whatever overlay there is (document.querySelector).
CloseOverlay == overlay' = NoOverlay
KeepOverlay == overlay' = overlay

\* Suspend and webhook forms are closed by any reply, and bear that they are
\* closed already; the others only by a good one.
ClosedFirst == {"suspend", "createWebhook"}

\* An error, or a reply that is lost: a toast, and nothing is drawn again.
CommandFails(s) ==
    /\ Op(s) = "command"
    /\ cut' = (cut \/ flight[s].done)
    /\ End(s)
    /\ overlay' = IF flight[s].to.cmd \in ClosedFirst THEN NoOverlay ELSE overlay
    /\ UNCHANGED <<store, place, drawn>>

Done(s, cs) ==
    /\ Op(s) = "command" /\ flight[s].done /\ flight[s].to.cmd \in cs
    /\ UNCHANGED <<store, place, crossed>>

\* Without an overlay to close the handler throws before it draws.
Throws(s) ==
    /\ Uncovered /\ KeepOverlay
    /\ End(s)
    /\ cut' = TRUE /\ barged' = barged

createOrg(s) ==
    /\ Done(s, {"createOrg"})
    /\ \/ Throws(s)
       \/ /\ ~Uncovered /\ CloseOverlay
          /\ renderView(s)
          /\ barged' = (barged \/ view # asked) /\ cut' = cut

createInstance(s) ==
    /\ Done(s, {"createInstance"})
    /\ \/ Throws(s)
       \/ /\ ~Uncovered /\ CloseOverlay
          /\ page' = page
          /\ flight' = [flight EXCEPT ![s] = Timer]
          /\ barged' = barged /\ cut' = cut

\* Without a #tab-content, on another page, the render throws.
RefreshTab(s, t) ==
    IF page.kind = "detail"
    THEN renderTab(s, t) /\ barged' = (barged \/ page.tab # t)
    ELSE End(s) /\ barged' = barged

inviteMember(s) ==
    /\ Done(s, {"invite"})
    /\ \/ Throws(s)
       \/ /\ ~Uncovered /\ CloseOverlay
          /\ RefreshTab(s, "members") /\ cut' = cut

confirmSuspendMember(s) ==
    /\ Done(s, {"suspend"})
    /\ CloseOverlay
    /\ RefreshTab(s, "members") /\ cut' = cut

createWebhook(s) ==
    /\ Done(s, {"createWebhook"})
    /\ CloseOverlay
    /\ RefreshTab(s, "webhooks") /\ cut' = cut

\* Mutant: the list is not drawn again.
acceptJoinRequest_NoRefresh(s) ==
    /\ Done(s, {"decide"})
    /\ KeepOverlay /\ End(s) /\ UNCHANGED <<barged, cut>>

\* Also revokeJoinRequest and unsuspendMember.
acceptJoinRequest(s) ==
    /\ Done(s, {"decide"})
    /\ KeepOverlay /\ RefreshTab(s, "members") /\ cut' = cut

confirmRemoveMember(s) ==
    /\ Done(s, {"remove"})
    /\ KeepOverlay /\ RefreshTab(s, "members") /\ cut' = cut

toggleWebhook(s) ==
    /\ Done(s, {"toggle"})
    /\ KeepOverlay /\ RefreshTab(s, "webhooks") /\ cut' = cut

confirmDeleteWebhook(s) ==
    /\ Done(s, {"deleteWebhook"})
    /\ KeepOverlay /\ RefreshTab(s, "webhooks") /\ cut' = cut

testWebhook(s) ==
    /\ Done(s, {"ping"})
    /\ KeepOverlay /\ End(s) /\ UNCHANGED <<barged, cut>>

\* "Refresh the current view".
RefreshOrg(s) ==
    IF currentOrg # None /\ currentOrg \in orgs
    THEN /\ renderOrgDetail(s, currentOrg)
         /\ barged' = (barged \/ asked # "orgs") /\ cut' = cut
    ELSE /\ End(s)
         /\ barged' = barged /\ cut' = (cut \/ currentOrg # None)

action(s) ==
    /\ Done(s, {"action"})
    /\ KeepOverlay /\ RefreshOrg(s)

\* One second after an instance was launched.
TimerFires(s) ==
    /\ flight[s] = Timer
    /\ RefreshOrg(s)
    /\ UNCHANGED <<store, overlay, place, crossed>>

-----------------------------------------------------------------------------
Click(s) ==
    \/ ClickDashboard(s) \/ ClickOrgs(s) \/ backToOrgs(s) \/ Submit(s)
    \/ \E t \in ShownTabs : switchTab(s, t)
    \/ \E o \in Orgs : \/ selectOrg(s, o) \/ PressAction(s, o)
                       \/ PressDecide(s, o) \/ PressToggle(s, o) \/ PressTest(s, o)

Act == goToSettings \/ Dismiss \/ Overlays \/ \E s \in Slots : Click(s)

RenderReply(s) ==
    \/ DashboardReply(s) \/ OrgsReply(s) \/ DetailReply(s) \/ TabReply(s)
    \/ AskMore(s) \/ GoneReply(s) \/ TimerFires(s)

CommandReply(s) ==
    \/ CarryOut(s) \/ CommandFails(s)
    \/ createOrg(s) \/ createInstance(s) \/ action(s)
    \/ inviteMember(s) \/ confirmSuspendMember(s)
    \/ acceptJoinRequest(s) \/ confirmRemoveMember(s)
    \/ createWebhook(s) \/ toggleWebhook(s) \/ confirmDeleteWebhook(s) \/ testWebhook(s)

Reply(s) == RenderReply(s) \/ CommandReply(s)

Next ==
    \/ clicks < MaxClicks /\ clicks' = clicks + 1 /\ Act
    \/ clicks' = clicks /\ \E s \in Slots : Reply(s)

Spec == Init /\ [][Next]_vars

-----------------------------------------------------------------------------
(* Properties.                                                               *)

\* "Loading..." is never left standing: something in flight will draw there.
LoadingIsAwaited ==
    /\ page.kind = "loading" => \E s \in Slots : Op(s) \in MainOps
    /\ page.kind = "detail" /\ page.pane.shows = "loading"
         => \E s \in Slots : Op(s) \in Fetched

\* Members, Billing, Webhooks and Audit Log show the rows of one organization,
\* the one their buttons will act on, and so will the requests that are about to
\* draw them: whatever changes currentOrg replaces the tab in the same handler.
\* Not so Instances, which shows state.instances, whoever has set it last.
OneOrgPerTab ==
    /\ \A s \in Slots :
          Op(s) \in Fetched => /\ page.kind = "detail"
                               /\ flight[s].from \cup {flight[s].ask} = {currentOrg}
    /\ page.kind = "detail" /\ page.pane.shows \in Fetched
         => page.pane.rows.from = {currentOrg}

\* A command pressed on a row is carried out in the organization of that row
\* or not at all.
NothingElsewhere ==
    \A s \in Slots :
        Op(s) = "command" /\ flight[s].done /\ flight[s].to.row # None
            => flight[s].aim = flight[s].to.row

\* The header names the organization that commands act on, unless a reply came
\* after the reply to a later request, or until the page is drawn.  With no
\* current organization the server refuses all commands.
HeaderIsCurrent ==
    page.kind = "detail" /\ currentOrg \notin {page.org, None}
        => crossed \/ \E s \in Slots : Op(s) \in MainOps

Wanted ==
    CASE asked = "dashboard" -> {"dashboard", "failed"}
      [] asked = "settings" -> {"settings"}
      [] asked = "orgs" /\ currentOrg = None -> {"list", "failed"}
      [] asked = "orgs" /\ currentOrg # None -> {"detail", "failed"}

\* When all renders are through, the user sees the page he went to last, on it
\* the tab he went to last, and in the tab what belongs there.  Excused are a
\* reply used after the reply to a later request (crossed); a refresh after a
\* command that came when the user had left, or a render that deselected an
\* organization another one will draw (barged); and, since he went there, a
\* late reply that drew over the settings or over Instances, or details drawn
\* again, which lead from any tab back to Instances (overdrawn).
ShowsWhatWasAsked ==
    ~crossed /\ ~barged /\ ~overdrawn /\ (\A s \in Slots : Op(s) \notin MainOps \cup Fetched)
        => /\ page.kind \in Wanted
           /\ page.kind = "detail" => /\ page.tab = askedTab
                                      /\ page.pane.shows \in {askedTab, "failed"}

\* When nothing is in flight, a list that was read shows every command that was
\* carried out, unless replies came out of order, a refresh came when the user
\* had left, he was not told of a command, or a refresh found that the open
\* organization had gone from state.orgs.  It says nothing of a list that could
\* not be read: the instances then look like none, the other tabs say so.
ReadsOwnWrites ==
    (\A s \in Slots : IsFree(s)) /\ ~crossed /\ ~barged /\ ~cut /\ page.kind = "detail"
        => \A rows \in {page.pane.rows, instances} : rows.from # {} => rows.fresh
=============================================================================
