---------------------------- MODULE ConsoleProofs ----------------------------
(* Type correctness of Console, and what it draws and sends where: nothing is *)
(* left loading, a tab is of one organization, and no command goes to another *)
(* organization than the one its row belongs to.                             *)
EXTENDS Console, TLAPS

\* The members come before the join requests, and of an organization.
MembersNamed == \A s \in Slots : Op(s) = "members" => None \notin flight[s].from

\* While a form or confirmation covers the page nothing but a removal of the
\* user changes currentOrg: its command goes to the organization of the row, or
\* to none.  Only an action is left to the server to refuse.
OverlayRow ==
    overlay.row # None /\ overlay.cmd # "action" =>
        overlay.cmd # "createOrg" /\ currentOrg \in {overlay.row, None}

Aimed(c) ==
    c.to.row # None => /\ c.to.cmd # "createOrg"
                       /\ c.to.cmd # "action" => c.aim \in {c.to.row, None}
                       /\ c.done => c.aim = c.to.row
AllAimed == \A s \in Slots : Op(s) = "command" => Aimed(flight[s])

IInv ==
    /\ TypeOK
    /\ LoadingIsAwaited /\ OneOrgPerTab
    /\ MembersNamed /\ OverlayRow /\ AllAimed

-----------------------------------------------------------------------------
(* What is in flight.                                                        *)

DashboardCalls == [op : {"dashboard"}, counting : BOOLEAN, age : Ages]
OrgsCalls == [op : {"orgs"}, age : Ages]
DetailCalls == [op : {"detail"}, org : Orgs, listed : BOOLEAN, rows : Rows,
                dirty : BOOLEAN, age : Ages]
TabCalls == [op : Fetched, ask : Orgs \cup {None}, from : SUBSET (Orgs \cup {None}),
             dirty : BOOLEAN, age : Ages]
CommandCalls == [op : {"command"}, to : Targets, aim : Orgs \cup {None}, done : BOOLEAN]

\* What a function in flight carries follows from its op.
LEMMA FlightKinds ==
    ASSUME NEW c \in Flights
    PROVE  /\ c.op \in {"idle", "gone", "timer", "command"} \cup MainOps \cup Fetched
           /\ c.op = "idle" => c = Idle
           /\ c.op = "gone" => c = Gone
           /\ c.op = "timer" => c = Timer
           /\ c.op = "dashboard" => c \in DashboardCalls
           /\ c.op = "orgs" => c \in OrgsCalls
           /\ c.op = "detail" => c \in DetailCalls
           /\ c.op \in Fetched => c \in TabCalls
           /\ c.op = "command" => c \in CommandCalls
  BY DEF Flights, Idle, Gone, Timer, MainOps, Fetched,
         DashboardCalls, OrgsCalls, DetailCalls, TabCalls, CommandCalls

LEMMA FlightSets ==
    /\ DashboardCalls \subseteq Flights /\ OrgsCalls \subseteq Flights
    /\ DetailCalls \subseteq Flights /\ TabCalls \subseteq Flights
    /\ CommandCalls \subseteq Flights
    /\ {Idle, Gone, Timer} \subseteq Flights
    /\ Idle.op = "idle" /\ Gone.op = "gone" /\ Timer.op = "timer"
  BY DEF Flights, DashboardCalls, OrgsCalls, DetailCalls, TabCalls, CommandCalls,
         Idle, Gone, Timer

\* c is d, but for its age and for what it has missed.
Kept(c, d) ==
    /\ c.op = d.op
    /\ d.op \in Fetched => c.ask = d.ask /\ c.from = d.from
    /\ d.op = "command" => c = d

LEMMA KeptItself == ASSUME NEW c PROVE Kept(c, c)
  BY DEF Kept

LEMMA AgeKept ==
    ASSUME NEW c \in Flights, c.op \in MainOps \cup Fetched, NEW age \in Ages
    PROVE  LET d == [c EXCEPT !.age = age] IN d \in Flights /\ Kept(d, c)
  <1>1. CASE c.op = "dashboard"
    BY <1>1, FlightKinds, FlightSets DEF DashboardCalls, Kept, Fetched
  <1>2. CASE c.op = "orgs"
    BY <1>2, FlightKinds, FlightSets DEF OrgsCalls, Kept, Fetched
  <1>3. CASE c.op = "detail"
    BY <1>3, FlightKinds, FlightSets DEF DetailCalls, Kept, Fetched
  <1>4. CASE c.op \in Fetched
    BY <1>4, FlightKinds, FlightSets DEF TabCalls, Kept, Fetched
  <1> QED  BY <1>1, <1>2, <1>3, <1>4 DEF MainOps

LEMMA Aged ==
    ASSUME NEW F \in [Slots -> Flights], NEW ops \in {MainOps, Fetched}
    PROVE  /\ Older(F, ops) \in [Slots -> Flights] /\ Late(F, ops) \in [Slots -> Flights]
           /\ \A r \in Slots : Kept(Older(F, ops)[r], F[r]) /\ Kept(Late(F, ops)[r], F[r])
  <1> SUFFICES ASSUME NEW r \in Slots
               PROVE  /\ Older(F, ops)[r] \in Flights /\ Late(F, ops)[r] \in Flights
                      /\ Kept(Older(F, ops)[r], F[r]) /\ Kept(Late(F, ops)[r], F[r])
    BY DEF Older, Late
  <1>1. F[r] \in Flights /\ Kept(F[r], F[r])
    BY KeptItself
  <1>2. F[r].op \in ops => F[r].op \in MainOps \cup Fetched
    OBVIOUS
  <1>3. "old" \in Ages /\ "late" \in Ages
    BY DEF Ages
  <1> HIDE DEF Older, Late
  <1>4. Older(F, ops)[r] \in Flights /\ Kept(Older(F, ops)[r], F[r])
    <2>1. CASE F[r].op \in ops /\ F[r].age = "new"
      BY <1>1, <1>2, <1>3, <2>1, AgeKept DEF Older
    <2>2. CASE ~(F[r].op \in ops /\ F[r].age = "new")
      BY <1>1, <2>2 DEF Older
    <2> QED  BY <2>1, <2>2
  <1>5. Late(F, ops)[r] \in Flights /\ Kept(Late(F, ops)[r], F[r])
    <2>1. CASE F[r].op \in ops
      BY <1>1, <1>2, <1>3, <2>1, AgeKept DEF Late
    <2>2. CASE F[r].op \notin ops
      BY <1>1, <2>2 DEF Late
    <2> QED  BY <2>1, <2>2
  <1> QED  BY <1>4, <1>5

LEMMA UsedFlights ==
    ASSUME flight \in [Slots -> Flights], NEW s \in Slots,
           NEW ops \in {MainOps, Fetched}, NEW f \in Flights
    PROVE  /\ Used(s, ops, f) \in [Slots -> Flights] /\ Used(s, ops, f)[s] = f
           /\ \A r \in Slots \ {s} : Kept(Used(s, ops, f)[r], flight[r])
  BY Aged, KeptItself DEF Used

LEMMA DetachedFlights ==
    ASSUME NEW F \in [Slots -> Flights]
    PROVE  /\ Detached(F) \in [Slots -> Flights]
           /\ \A r \in Slots : Detached(F)[r] = IF F[r].op \in Fetched THEN Gone ELSE F[r]
           /\ \A r \in Slots : Detached(F)[r].op \notin Fetched
  BY FlightSets DEF Detached, Fetched

-----------------------------------------------------------------------------
(* The two kinds of steps: #main is replaced, or the page stays.             *)

Scalars ==
    /\ view \in {"dashboard", "orgs", "settings"}
    /\ currentOrg \in Orgs \cup {None}
    /\ orgs \subseteq Orgs
    /\ instances \in Rows
    /\ overlay \in Targets \cup {NoOverlay}
    /\ clicks \in 0..MaxClicks
    /\ asked \in {"dashboard", "orgs", "settings"} /\ askedTab \in Tabs
    /\ {overdrawn, crossed, barged, cut} \subseteq BOOLEAN

\* #main is replaced, and with it every tab: only commands go on.
LEMMA Replaces ==
    ASSUME IInv, Scalars', page' \in Pages, flight' \in [Slots -> Flights],
           \A r \in Slots :
              /\ flight'[r].op \notin Fetched
              /\ flight'[r].op = "command" => flight'[r] = flight[r],
           page'.kind = "loading" => \E r \in Slots : flight'[r].op \in MainOps,
           page'.kind = "detail" => page'.pane.shows = "instances",
           overlay'.row # None /\ overlay'.cmd # "action" =>
              overlay' = overlay /\ currentOrg' \in {currentOrg, None}
    PROVE  IInv'
  <1>1. TypeOK'
    BY DEF Scalars, TypeOK
  <1>2. "instances" \notin Fetched \cup {"loading"}
    BY DEF Fetched
  <1>3. LoadingIsAwaited'
    BY <1>2 DEF LoadingIsAwaited, Op
  <1>4. OneOrgPerTab'
    BY <1>2 DEF OneOrgPerTab, Op
  <1>5. MembersNamed'
    BY DEF MembersNamed, Op, Fetched
  <1>6. OverlayRow'
    BY DEF IInv, OverlayRow
  <1>7. AllAimed'
    BY DEF IInv, AllAimed, Op
  <1> QED  BY <1>1, <1>3, <1>4, <1>5, <1>6, <1>7 DEF IInv

\* A function that goes on with something else: as a render of a tab of the
\* current organization, or with a command that is aimed well.
Fits(c) ==
    /\ c.op \in Fetched => /\ page.kind = "detail"
                           /\ c.from \cup {c.ask} = {currentOrg}
                           /\ c.op = "members" => None \notin c.from
    /\ c.op = "command" => Aimed(c)

\* The page stays, and the tab stays as it is, is drawn again, or awaited.
LEMMA Stays ==
    ASSUME IInv, Scalars', currentOrg' = currentOrg,
           page' \in Pages, page'.kind = page.kind,
           flight' \in [Slots -> Flights],
           \A r \in Slots : /\ Kept(flight'[r], flight[r]) \/ Fits(flight'[r])
                            /\ Op(r) \in MainOps => flight'[r].op \in MainOps,
           page.kind = "detail" =>
              \/ /\ page'.pane.shows = page.pane.shows
                 /\ page'.pane.rows.from = page.pane.rows.from
                 /\ \A r \in Slots : Op(r) \in Fetched => flight'[r].op \in Fetched
              \/ page'.pane.shows = "loading" /\ \E r \in Slots : flight'[r].op \in Fetched
              \/ page'.pane.shows \in {"instances", "failed"}
              \/ page'.pane.shows # "loading" /\ page'.pane.rows.from = {currentOrg},
           overlay'.row # None /\ overlay'.cmd # "action" =>
              \/ overlay' = overlay
              \/ overlay'.row = currentOrg /\ overlay'.cmd # "createOrg"
    PROVE  IInv'
  <1>1. TypeOK'
    BY DEF Scalars, TypeOK
  <1>2. Fetched \cap {"loading", "instances", "failed"} = {}
    BY DEF Fetched
  <1>3. LoadingIsAwaited'
    BY <1>2 DEF IInv, LoadingIsAwaited, Op
  <1>4. OneOrgPerTab'
    <2>1. ASSUME NEW r \in Slots, flight'[r].op \in Fetched
          PROVE  page'.kind = "detail" /\ flight'[r].from \cup {flight'[r].ask} = {currentOrg}
      BY <2>1 DEF IInv, OneOrgPerTab, Op, Kept, Fits
    <2>2. page'.kind = "detail" /\ page'.pane.shows \in Fetched
             => page'.pane.rows.from = {currentOrg}
      BY <1>2 DEF IInv, OneOrgPerTab
    <2> QED  BY <2>1, <2>2 DEF OneOrgPerTab, Op
  <1>5. MembersNamed'
    BY DEF IInv, MembersNamed, Op, Kept, Fits, Fetched
  <1>6. OverlayRow'
    BY DEF IInv, OverlayRow
  <1>7. AllAimed'
    BY DEF IInv, AllAimed, Op, Kept, Fits
  <1> QED  BY <1>1, <1>3, <1>4, <1>5, <1>6, <1>7 DEF IInv

\* When slot s alone changes, the other functions stay what they are.
LEMMA OneStays ==
    ASSUME IInv, Scalars', currentOrg' = currentOrg, NEW s \in Slots,
           page' \in Pages, page'.kind = page.kind,
           flight' \in [Slots -> Flights],
           \A r \in Slots \ {s} : Kept(flight'[r], flight[r]),
           Fits(flight'[s]) \/ Kept(flight'[s], flight[s]),
           Op(s) \in MainOps => flight'[s].op \in MainOps,
           page.kind = "detail" =>
              \/ /\ page'.pane.shows = page.pane.shows
                 /\ page'.pane.rows.from = page.pane.rows.from
                 /\ Op(s) \in Fetched => flight'[s].op \in Fetched
              \/ page'.pane.shows = "loading" /\ flight'[s].op \in Fetched
              \/ page'.pane.shows \in {"instances", "failed"}
              \/ page'.pane.shows # "loading" /\ page'.pane.rows.from = {currentOrg},
           overlay'.row # None /\ overlay'.cmd # "action" =>
              \/ overlay' = overlay
              \/ overlay'.row = currentOrg /\ overlay'.cmd # "createOrg"
    PROVE  IInv'
  <1>1. \A r \in Slots : /\ Kept(flight'[r], flight[r]) \/ Fits(flight'[r])
                         /\ Op(r) \in MainOps => flight'[r].op \in MainOps
    BY DEF Kept, Op
  <1>2. (Op(s) \in Fetched => flight'[s].op \in Fetched) =>
           \A r \in Slots : Op(r) \in Fetched => flight'[r].op \in Fetched
    BY DEF Kept, Op
  <1> QED  BY <1>1, <1>2, Stays

-----------------------------------------------------------------------------
(* The renders.                                                              *)

\* A render of #main, from its start to its first request.
LEMMA StartMainReplaces ==
    ASSUME IInv, Scalars', NEW s \in Slots, NEW f \in Flights,
           NEW F \in [Slots -> Flights],
           \A r \in Slots \ {s} : Kept(F[r], flight[r]),
           f.op \in MainOps, StartMain(F, s, f),
           overlay'.row # None /\ overlay'.cmd # "action" =>
              overlay' = overlay /\ currentOrg' \in {currentOrg, None}
    PROVE  IInv'
  <1> DEFINE G == Older(Detached(F), MainOps)
  <1>1. /\ G \in [Slots -> Flights]
        /\ \A r \in Slots : Kept(G[r], Detached(F)[r])
    BY DetachedFlights, Aged
  <1>2. \A r \in Slots \ {s} :
           /\ G[r].op \notin Fetched
           /\ G[r].op = "command" => G[r] = flight[r]
    BY <1>1, DetachedFlights, FlightSets DEF Kept
  <1>3. page' = Loading /\ flight' = [G EXCEPT ![s] = f]
    BY DEF StartMain
  <1> HIDE DEF G
  <1>4. flight' \in [Slots -> Flights] /\ flight'[s] = f
    BY <1>1, <1>3
  <1>5. f.op \notin Fetched \cup {"command"}
    BY DEF MainOps, Fetched
  <1>6. page' \in Pages /\ page'.kind = "loading"
    BY <1>3 DEF Loading, Pages
  <1> QED  BY <1>1, <1>2, <1>3, <1>4, <1>5, <1>6, Replaces

LEMMA SettingsReplace ==
    ASSUME IInv, Scalars', NEW F \in [Slots -> Flights],
           \A r \in Slots : Kept(F[r], flight[r]) \/ F[r] = Idle,
           renderSettings(F),
           overlay'.row # None /\ overlay'.cmd # "action" =>
              overlay' = overlay /\ currentOrg' \in {currentOrg, None}
    PROVE  IInv'
  <1>1. /\ flight' \in [Slots -> Flights]
        /\ \A r \in Slots : Kept(flight'[r], Detached(F)[r])
    BY DetachedFlights, KeptItself DEF renderSettings
  <1>2. \A r \in Slots :
           /\ flight'[r].op \notin Fetched
           /\ flight'[r].op = "command" => flight'[r] = flight[r]
    BY <1>1, DetachedFlights, FlightSets DEF Kept
  <1>3. page' \in Pages /\ page'.kind = "settings"
    BY DEF renderSettings, Settings, Pages
  <1> QED  BY <1>1, <1>2, <1>3, Replaces

\* The reply of slot s to a render of #main draws it.
LEMMA ReplyReplaces ==
    ASSUME IInv, Scalars', NEW s \in Slots, page' \in Pages,
           flight' = Detached(Used(s, MainOps, Idle)),
           page'.kind # "loading",
           page'.kind = "detail" => page'.pane.shows = "instances",
           overlay' = overlay, currentOrg' = currentOrg
    PROVE  IInv'
  <1>1. /\ Used(s, MainOps, Idle) \in [Slots -> Flights]
        /\ Used(s, MainOps, Idle)[s] = Idle
        /\ \A r \in Slots \ {s} : Kept(Used(s, MainOps, Idle)[r], flight[r])
    BY UsedFlights, FlightSets DEF IInv, TypeOK
  <1>2. /\ flight' \in [Slots -> Flights]
        /\ \A r \in Slots :
              /\ flight'[r].op \notin Fetched
              /\ flight'[r].op = "command" => flight'[r] = flight[r]
    BY <1>1, DetachedFlights, FlightSets DEF Kept
  <1> QED  BY <1>2, Replaces

-----------------------------------------------------------------------------
(* Clicks.                                                                   *)

LEMMA Typed ==
    ASSUME IInv
    PROVE  /\ Scalars /\ flight \in [Slots -> Flights] /\ page \in Pages
           /\ \A r \in Slots : Kept(flight[r], flight[r])
           /\ page.kind = "detail" =>
                 page \in [kind : {"detail"}, org : Orgs, tab : Tabs, pane : Panes]
  BY KeptItself DEF IInv, TypeOK, Scalars, Pages

LEMMA StartsTyped ==
    /\ [op |-> "dashboard", counting |-> FALSE, age |-> "new"] \in Flights
    /\ \A age \in Ages : [op |-> "orgs", age |-> age] \in Flights
    /\ \A o \in Orgs, age \in Ages : OrgDetail(o, age) \in Flights
  BY DEF Flights, Ages, OrgDetail, Rows, NoRows

\* A render of a tab asks for the current organization.
LEMMA AskingFits ==
    ASSUME IInv, page.kind = "detail", NEW t \in Fetched
    PROVE  Asking(t) \in Flights /\ Fits(Asking(t)) /\ Asking(t).op = t
  <1>1. currentOrg \in Orgs \cup {None}
    BY DEF IInv, TypeOK
  <1> QED  BY <1>1 DEF Flights, Ages, Asking, Fits, Fetched

\* The command of a row, or of an overlay, is aimed at the current organization.
LEMMA CommandFits ==
    ASSUME IInv, NEW to \in Targets,
           to.row # None => to.cmd # "createOrg",
           to.row # None /\ to.cmd # "action" => currentOrg \in {to.row, None}
    PROVE  Command(to) \in Flights /\ Fits(Command(to)) /\ Command(to).op = "command"
  <1>1. currentOrg \in Orgs \cup {None}
    BY DEF IInv, TypeOK
  <1> QED  BY <1>1 DEF Flights, Command, Fits, Fetched, Aimed

LEMMA OverlayKept ==
    ASSUME overlay' = overlay \/ overlay' = NoOverlay
    PROVE  overlay'.row # None /\ overlay'.cmd # "action" => overlay' = overlay
  BY DEF NoOverlay

\* The navigation.
LEMMA GoingKeeps ==
    ASSUME IInv, clicks' \in 0..MaxClicks,
           \/ goToSettings
           \/ \E s \in Slots :
                 \/ ClickDashboard(s) \/ ClickOrgs(s) \/ backToOrgs(s)
                 \/ \E o \in Orgs : selectOrg(s, o)
    PROVE  IInv'
  <1> USE DEF drawn, Ask, Tabs
  <1>1. /\ Scalars /\ flight \in [Slots -> Flights]
        /\ \A r \in Slots : Kept(flight[r], flight[r])
    BY Typed
  <1>2. CASE goToSettings
    <2>1. Scalars' /\ renderSettings(flight) /\ overlay' = overlay /\ currentOrg' = currentOrg
      BY <1>1, <1>2 DEF goToSettings, GoTo, Scalars
    <2> QED  BY <1>1, <2>1, SettingsReplace
  <1>3. ASSUME NEW s \in Slots, ClickDashboard(s)
        PROVE  IInv'
    <2>1. /\ Scalars' /\ overlay' = overlay /\ currentOrg' = currentOrg
          /\ StartMain(flight, s, [op |-> "dashboard", counting |-> FALSE, age |-> "new"])
      BY <1>1, <1>3 DEF ClickDashboard, GoTo, Scalars, renderDashboard
    <2> QED  BY <1>1, <2>1, StartsTyped, StartMainReplaces DEF MainOps
  <1>4. ASSUME NEW s \in Slots,
               ClickOrgs(s) \/ backToOrgs(s) \/ \E o \in Orgs : selectOrg(s, o)
        PROVE  IInv'
    <2>1. /\ Scalars' /\ overlay' = NoOverlay
          /\ StartMain(flight, s, [op |-> "orgs", age |-> "new"])
      BY <1>1, <1>4 DEF ClickOrgs, backToOrgs, selectOrg, GoTo, Scalars, renderOrgs, Uncovered
    <2>2. "new" \in Ages
      BY DEF Ages
    <2> QED  BY <1>1, <2>1, <2>2, StartsTyped, StartMainReplaces DEF MainOps, NoOverlay
  <1> QED  BY <1>2, <1>3, <1>4

LEMMA SwitchKeeps ==
    ASSUME IInv, clicks' \in 0..MaxClicks, NEW s \in Slots, NEW t \in ShownTabs,
           switchTab(s, t)
    PROVE  IInv'
  <1> USE DEF store, history, place, drawn
  <1>1. /\ Scalars /\ flight \in [Slots -> Flights]
        /\ \A r \in Slots : Kept(flight[r], flight[r])
        /\ page \in [kind : {"detail"}, org : Orgs, tab : Tabs, pane : Panes]
        /\ page.kind = "detail" /\ t \in Tabs
    BY Typed, TabAssumption DEF switchTab
  <1>2. Scalars' /\ overlay' = overlay /\ currentOrg' = currentOrg
    BY <1>1 DEF switchTab, Scalars
  <1>3. CASE t = "instances"
    <2>1. ShowInstances
      BY <1>3 DEF switchTab
    <2>2. /\ flight' \in [Slots -> Flights]
          /\ \A r \in Slots : Kept(flight'[r], flight[r])
      BY <1>1, <2>1 DEF ShowInstances
    <2>3. [shows |-> "instances", rows |-> instances] \in Panes
      BY <1>1 DEF Panes, Tabs, Scalars
    <2>4. page' \in Pages /\ page'.kind = page.kind /\ page'.pane.shows = "instances"
      BY <1>1, <2>1, <2>3 DEF ShowInstances, Pages, Tabs
    <2>5. \A r \in Slots : Op(r) \in MainOps => flight'[r].op \in MainOps
      BY <2>2 DEF Kept, Op
    <2> QED  BY <1>2, <2>2, <2>4, <2>5, Stays
  <1>4. CASE t # "instances"
    <2>1. /\ page' = [page EXCEPT !.tab = t, !.pane = Blank("loading")]
          /\ flight' = [Older(flight, Fetched) EXCEPT ![s] = Asking(t)]
          /\ flight[s] = Idle
      BY <1>4 DEF switchTab, IsFree
    <2>2. t \in Fetched
      BY <1>1, <1>4 DEF Tabs
    <2>3. Blank("loading") \in Panes /\ Blank("loading").shows = "loading"
      BY DEF Panes, Blank, Rows, NoRows
    <2>4. page' \in Pages /\ page'.kind = page.kind /\ page'.pane.shows = "loading"
      BY <1>1, <2>1, <2>3 DEF Pages
    <2>5. /\ flight' \in [Slots -> Flights]
          /\ \A r \in Slots \ {s} : Kept(flight'[r], flight[r])
          /\ flight'[s] = Asking(t) /\ Fits(flight'[s]) /\ flight'[s].op \in Fetched
      BY <1>1, <2>1, <2>2, Aged, AskingFits
    <2>6. Op(s) \notin MainOps
      BY <2>1, FlightSets DEF Op, MainOps
    <2> QED  BY <1>2, <2>4, <2>5, <2>6, OneStays
  <1> QED  BY <1>3, <1>4

-----------------------------------------------------------------------------
(* Replies to the renders.                                                   *)

\* The reply of slot s is used, and the function goes on for #main.
LEMMA GoesOn ==
    ASSUME IInv, Scalars', currentOrg' = currentOrg, overlay' = overlay, page' = page,
           NEW s \in Slots, NEW f \in Flights, Op(s) \in MainOps, f.op \in MainOps,
           flight' = Used(s, MainOps, f)
    PROVE  IInv'
  <1>1. /\ flight' \in [Slots -> Flights] /\ flight'[s] = f
        /\ \A r \in Slots \ {s} : Kept(flight'[r], flight[r])
    BY Typed, UsedFlights
  <1>2. Fits(f) /\ Op(s) \notin Fetched
    BY DEF Fits, MainOps, Fetched
  <1> QED  BY <1>1, <1>2, Typed, OneStays

LEMMA DashboardReplyKeeps ==
    ASSUME IInv, clicks' = clicks, NEW s \in Slots, DashboardReply(s)
    PROVE  IInv'
  <1>1. /\ Scalars /\ flight \in [Slots -> Flights] /\ flight[s].op = "dashboard"
        /\ flight[s] \in DashboardCalls /\ Op(s) \in MainOps
    BY Typed, FlightKinds DEF DashboardReply, Op, MainOps
  <1>2. Scalars' /\ currentOrg' = currentOrg /\ overlay' = overlay
    BY <1>1 DEF DashboardReply, Crosses, Overdraws, Scalars
  <1>3. CASE page' = Failed /\ flight' = Detached(Used(s, MainOps, Idle))
    BY <1>2, <1>3, ReplyReplaces DEF Failed, Pages
  <1>4. CASE /\ flight' = Used(s, MainOps, [flight[s] EXCEPT !.counting = TRUE])
             /\ page' = page
    <2>1. /\ [flight[s] EXCEPT !.counting = TRUE] \in Flights
          /\ [flight[s] EXCEPT !.counting = TRUE].op \in MainOps
      BY <1>1, FlightSets DEF DashboardCalls, MainOps
    <2> QED  BY <1>1, <1>2, <1>4, <2>1, GoesOn
  <1>5. CASE /\ page' = [kind |-> "dashboard", offers |-> orgs]
             /\ flight' = Detached(Used(s, MainOps, Idle))
    BY <1>1, <1>2, <1>5, ReplyReplaces DEF Pages, Scalars
  <1> QED  BY <1>3, <1>4, <1>5 DEF DashboardReply

LEMMA OrgsReplyKeeps ==
    ASSUME IInv, clicks' = clicks, NEW s \in Slots, OrgsReply(s)
    PROVE  IInv'
  <1>1. /\ Scalars /\ flight \in [Slots -> Flights] /\ flight[s].op = "orgs"
        /\ flight[s] \in OrgsCalls /\ Op(s) \in MainOps /\ flight[s].age \in Ages
    BY Typed, FlightKinds DEF OrgsReply, Op, MainOps, OrgsCalls
  <1>2. Scalars' /\ overlay' = overlay /\ orgs' \subseteq Orgs
    <2>1. /\ orgs' \subseteq Orgs /\ currentOrg' \in {currentOrg, None}
          /\ barged' \in BOOLEAN /\ overdrawn' \in BOOLEAN
      BY <1>1 DEF OrgsReply, ListAll, OpenCurrent, LeaveCurrent, Overdraws, Scalars
    <2>2. /\ UNCHANGED <<view, instances, overlay, asked, askedTab, cut, clicks>>
          /\ crossed' \in BOOLEAN
      BY <1>1 DEF OrgsReply, Crosses, Scalars
    <2> QED  BY <1>1, <2>1, <2>2 DEF Scalars
  <1>3. CASE /\ page' = Failed /\ flight' = Detached(Used(s, MainOps, Idle))
             /\ currentOrg' = currentOrg
    BY <1>2, <1>3, ReplyReplaces DEF Failed, Pages
  <1>4. CASE ListAll(s)
    BY <1>2, <1>4, ReplyReplaces DEF ListAll, Pages
  <1>5. CASE OpenCurrent(s)
    <2> DEFINE f == OrgDetail(currentOrg, flight[s].age)
    <2>1. f \in Flights /\ f.op \in MainOps
      BY <1>1, <1>2, <1>5, StartsTyped DEF OpenCurrent, OrgDetail, MainOps
    <2>2. /\ flight' = Used(s, MainOps, f)
          /\ page' = page /\ currentOrg' = currentOrg
      BY <1>5 DEF OpenCurrent
    <2> HIDE DEF f
    <2> QED  BY <1>1, <1>2, <2>1, <2>2, GoesOn
  <1>6. CASE LeaveCurrent(s)
    <2> DEFINE f == [op |-> "orgs", age |-> flight[s].age]
               F == Used(s, MainOps, f)
    <2>1. f \in Flights /\ f.op \in MainOps
      BY <1>1, StartsTyped DEF MainOps
    <2> HIDE DEF f
    <2>2. /\ F \in [Slots -> Flights] /\ F[s] = f
          /\ \A r \in Slots \ {s} : Kept(F[r], flight[r])
      BY <1>1, <2>1, UsedFlights
    <2>3. flight' = Detached(F) /\ page' = Loading /\ currentOrg' = None
      BY <1>6 DEF LeaveCurrent, f
    <2> HIDE DEF F
    <2>4. f.op \notin Fetched \cup {"command"}
      BY <2>1 DEF MainOps, Fetched
    <2>5. /\ flight' \in [Slots -> Flights] /\ flight'[s] = f
          /\ \A r \in Slots :
                /\ flight'[r].op \notin Fetched
                /\ flight'[r].op = "command" => flight'[r] = flight[r]
      BY <2>2, <2>3, <2>4, DetachedFlights, FlightSets DEF Kept
    <2>6. page' \in Pages /\ page'.kind = "loading"
      BY <2>3 DEF Loading, Pages
    <2> QED  BY <1>2, <2>1, <2>3, <2>5, <2>6, Replaces
  <1> QED  BY <1>3, <1>4, <1>5, <1>6 DEF OrgsReply

LEMMA AnswersTyped ==
    ASSUME NEW dirty, NEW from \in SUBSET Orgs, NEW rows \in Answers(dirty, from)
    PROVE  rows \in Rows /\ rows.from = from
  <1>1. PICK fresh \in IF dirty THEN BOOLEAN ELSE {TRUE} :
           rows = [from |-> from, fresh |-> fresh]
    BY DEF Answers
  <1>2. fresh \in BOOLEAN
    OBVIOUS
  <1> QED  BY <1>1, <1>2 DEF Rows

LEMMA DetailReplyKeeps ==
    ASSUME IInv, clicks' = clicks, NEW s \in Slots, DetailReply(s)
    PROVE  IInv'
  <1>1. /\ Scalars /\ flight \in [Slots -> Flights] /\ flight[s].op = "detail"
        /\ flight[s] \in DetailCalls /\ Op(s) \in MainOps
    BY Typed, FlightKinds DEF DetailReply, Op, MainOps
  <1>2. NoRows \in Rows
    BY DEF NoRows, Rows
  <1>3. instances' \in Rows
    BY <1>1, <1>2, AnswersTyped DEF DetailReply, DetailCalls, Scalars
  <1>4. Scalars' /\ currentOrg' = currentOrg /\ overlay' = overlay
    BY <1>1, <1>3 DEF DetailReply, Crosses, Overdraws, Scalars
  <1>5. CASE ~flight[s].listed
    <2> DEFINE f == [flight[s] EXCEPT !.listed = TRUE, !.rows = instances']
    <2>1. f \in Flights /\ f.op \in MainOps
      BY <1>1, <1>3, FlightSets DEF DetailCalls, MainOps
    <2>2. flight' = Used(s, MainOps, f) /\ page' = page
      BY <1>5 DEF DetailReply
    <2> HIDE DEF f
    <2> QED  BY <1>1, <1>4, <2>1, <2>2, GoesOn
  <1>6. CASE flight[s].listed
    <2>1. /\ page' = [kind |-> "detail", org |-> flight[s].org, tab |-> "instances",
                      pane |-> [shows |-> "instances", rows |-> flight[s].rows]]
          /\ flight' = Detached(Used(s, MainOps, Idle))
      BY <1>6 DEF DetailReply
    <2>2. page' \in Pages
      BY <1>1, <2>1 DEF Pages, Panes, Tabs, DetailCalls
    <2> QED  BY <1>4, <2>1, <2>2, ReplyReplaces
  <1> QED  BY <1>5, <1>6

\* The second request of a tab is for the same organization as the first.
LEMMA AskMoreKeeps ==
    ASSUME IInv, clicks' = clicks, NEW s \in Slots, AskMore(s)
    PROVE  IInv'
  <1> DEFINE f == [flight[s] EXCEPT !.from = {flight[s].ask}, !.ask = currentOrg]
  <1>1. /\ Scalars /\ flight \in [Slots -> Flights] /\ flight[s].op \in {"members", "billing"}
        /\ Op(s) \in Fetched /\ flight[s] \in TabCalls /\ page \in Pages
    BY Typed, FlightKinds DEF AskMore, Op, Fetched
  <1>2. page.kind = "detail" /\ flight[s].ask = currentOrg
    BY <1>1 DEF IInv, OneOrgPerTab, AskMore
  <1>3. /\ f \in Flights /\ f.op = flight[s].op /\ f.from = {currentOrg} /\ f.ask = currentOrg
    BY <1>1, <1>2, FlightSets DEF TabCalls
  <1>4. /\ flight' = [flight EXCEPT ![s] = f] /\ page' = page /\ overlay' = overlay
        /\ currentOrg' = currentOrg
    BY <1>1 DEF AskMore, store
  <1>5. Scalars'
    BY <1>1 DEF AskMore, store, history, place, drawn, Scalars
  <1>6. Op(s) = "members" => currentOrg # None
    BY <1>2 DEF AskMore
  <1> HIDE DEF f
  <1>7. Fits(f)
    BY <1>1, <1>2, <1>3, <1>6 DEF Fits, Fetched, Op
  <1>8. Op(s) \notin MainOps
    BY <1>1 DEF MainOps, Fetched
  <1>9. \A r \in Slots \ {s} : Kept(flight'[r], flight[r])
    BY <1>1, <1>4, Typed
  <1> QED  BY <1>1, <1>2, <1>3, <1>4, <1>5, <1>7, <1>8, <1>9, OneStays DEF Op

\* A tab is drawn with the rows it asked for, or as failed.
LEMMA TabReplyKeeps ==
    ASSUME IInv, clicks' = clicks, NEW s \in Slots, TabReply(s)
    PROVE  IInv'
  <1>1. /\ Scalars /\ flight \in [Slots -> Flights]
        /\ Op(s) \in Fetched /\ flight[s] \in TabCalls /\ flight[s].op = Op(s)
    BY Typed, FlightKinds DEF TabReply, Op
  <1>2. /\ page.kind = "detail" /\ flight[s].from \cup {flight[s].ask} = {currentOrg}
        /\ Op(s) = "members" => None \notin flight[s].from
    BY <1>1 DEF IInv, OneOrgPerTab, MembersNamed
  <1>3. PICK pane \in Drawable(s) : DrawTab(s, pane)
    BY DEF TabReply
  <1>4. ASSUME NEW from, from = {currentOrg}, None \notin from,
               NEW rows \in Answers(flight[s].dirty, from),
               pane = [shows |-> Op(s), rows |-> rows]
        PROVE  pane \in Panes /\ pane.shows # "loading" /\ pane.rows.from = {currentOrg}
    <2>1. from \in SUBSET Orgs
      BY <1>1, <1>4 DEF Scalars
    <2>2. rows \in Rows /\ rows.from = {currentOrg}
      BY <1>4, <2>1, AnswersTyped
    <2> QED  BY <1>1, <1>4, <2>2 DEF Panes, Tabs, Fetched
  <1>5. /\ pane \in Panes
        /\ \/ pane.shows = "failed"
           \/ pane.shows # "loading" /\ pane.rows.from = {currentOrg}
    <2>1. CASE pane = Blank("failed")
      BY <2>1 DEF Blank, Panes, Rows, NoRows
    <2>2. CASE /\ Op(s) = "members" /\ flight[s].from # {}
               /\ \E rows \in Answers(flight[s].dirty, flight[s].from) :
                     pane = [shows |-> Op(s), rows |-> rows]
      <3>1. flight[s].from = {currentOrg}
        BY <1>2, <2>2
      <3> QED  BY <1>2, <1>4, <2>2, <3>1
    <2>3. CASE /\ None \notin flight[s].from \cup {flight[s].ask}
               /\ \E rows \in Answers(flight[s].dirty, flight[s].from \cup {flight[s].ask}) :
                     pane = [shows |-> Op(s), rows |-> rows]
      BY <1>2, <1>4, <2>3
    <2> QED  BY <1>3, <2>1, <2>2, <2>3 DEF Drawable, Op
  <1>6. /\ page' = [page EXCEPT !.pane = pane]
        /\ flight' = Used(s, Fetched, Idle)
    BY <1>3 DEF DrawTab
  <1>7. page' \in Pages /\ page'.kind = page.kind /\ page'.pane = pane
    BY <1>2, <1>5, <1>6, Typed DEF Pages
  <1>8. /\ flight' \in [Slots -> Flights] /\ flight'[s] = Idle
        /\ \A r \in Slots \ {s} : Kept(flight'[r], flight[r])
    BY <1>1, <1>6, UsedFlights, FlightSets
  <1>9. Fits(Idle) /\ Op(s) \notin MainOps
    BY <1>1, FlightSets DEF Fits, Fetched, MainOps
  <1>10. Scalars' /\ currentOrg' = currentOrg /\ overlay' = overlay
    BY <1>1 DEF TabReply, Crosses, Overdraws, store, Scalars
  <1> QED  BY <1>2, <1>5, <1>7, <1>8, <1>9, <1>10, OneStays

\* A function ends, or goes on without drawing or asking for anything.
LEMMA Ends ==
    ASSUME IInv, Scalars', currentOrg' = currentOrg, page' = page,
           overlay' \in {overlay, NoOverlay},
           NEW s \in Slots, Op(s) \notin MainOps \cup Fetched,
           NEW f \in Flights, f.op \notin Fetched \cup {"command"},
           flight' = [flight EXCEPT ![s] = f]
    PROVE  IInv'
  <1>1. /\ flight' \in [Slots -> Flights] /\ flight'[s] = f
        /\ \A r \in Slots \ {s} : Kept(flight'[r], flight[r])
    BY Typed
  <1>2. Fits(f)
    BY DEF Fits
  <1> QED  BY <1>1, <1>2, Typed, OneStays, OverlayKept

LEMMA GoneReplyKeeps ==
    ASSUME IInv, clicks' = clicks, NEW s \in Slots, GoneReply(s)
    PROVE  IInv'
  <1>1. Scalars'
    BY Typed DEF GoneReply, store, history, place, drawn, Scalars
  <1>2. Op(s) \notin MainOps \cup Fetched
    BY FlightSets DEF GoneReply, Op, MainOps, Fetched
  <1>3. Idle.op \notin Fetched \cup {"command"} /\ Idle \in Flights
    BY FlightSets DEF Fetched
  <1> QED  BY <1>1, <1>2, <1>3, Ends DEF GoneReply, store

-----------------------------------------------------------------------------
(* Overlays and commands.                                                    *)

\* The rows of a tab other than the instances are the current organization's.
LEMMA RowIsCurrent ==
    ASSUME IInv, NEW t \in Fetched, NEW o, OnRow(t, o)
    PROVE  o = currentOrg
  BY DEF OnRow, OnTab, IInv, OneOrgPerTab

LEMMA OverlaysKeep ==
    ASSUME IInv, clicks' \in 0..MaxClicks, Overlays \/ Dismiss
    PROVE  IInv'
  <1>1. /\ Scalars /\ flight' = flight /\ page' = page /\ currentOrg' = currentOrg
        /\ UNCHANGED <<store, history>>
    BY Typed DEF Overlays, Dismiss, modal, store, showCreateOrg, showCreateInstance,
       showInviteMember, showSuspendMember, removeMember, showCreateWebhook,
       deleteWebhook, showInstanceDetail, confirmAction
  <1>2. /\ overlay' \in Targets \cup {NoOverlay}
        /\ overlay'.row # None /\ overlay'.cmd # "action" =>
              overlay'.row = currentOrg /\ overlay'.cmd # "createOrg"
    <2>1. CASE Dismiss \/ showCreateOrg \/ showCreateInstance \/ showInviteMember \/ showCreateWebhook
      BY <2>1 DEF Dismiss, showCreateOrg, showCreateInstance, showInviteMember,
         showCreateWebhook, modal, NoOverlay, Targets
    <2>2. ASSUME NEW o \in Orgs, showSuspendMember(o) \/ removeMember(o)
          PROVE  /\ overlay'.row = currentOrg /\ overlay'.cmd # "createOrg"
                 /\ overlay' \in Targets
      <3>1. OnRow("members", o)
        BY <2>2 DEF showSuspendMember, removeMember
      <3>2. o = currentOrg
        BY <3>1, RowIsCurrent DEF Fetched
      <3> QED  BY <2>2, <3>2 DEF showSuspendMember, removeMember, modal, Targets
    <2>3. ASSUME NEW o \in Orgs, deleteWebhook(o)
          PROVE  /\ overlay'.row = currentOrg /\ overlay'.cmd # "createOrg"
                 /\ overlay' \in Targets
      <3>1. OnRow("webhooks", o)
        BY <2>3 DEF deleteWebhook
      <3>2. o = currentOrg
        BY <3>1, RowIsCurrent DEF Fetched
      <3> QED  BY <2>3, <3>2 DEF deleteWebhook, modal, Targets
    <2>4. ASSUME NEW o \in Orgs, showInstanceDetail(o) \/ confirmAction(o)
          PROVE  overlay'.cmd = "action" /\ overlay' \in Targets
      BY <2>4 DEF showInstanceDetail, confirmAction, modal, Targets
    <2> QED  BY <2>1, <2>2, <2>3, <2>4 DEF Overlays
  <1>3. Scalars'
    BY <1>1, <1>2 DEF Scalars, store, history, place, drawn
  <1>4. \A r \in Slots : /\ Kept(flight'[r], flight[r])
                         /\ Op(r) \in MainOps => flight'[r].op \in MainOps
                         /\ Op(r) \in Fetched => flight'[r].op \in Fetched
    BY <1>1, Typed DEF Op
  <1> QED  BY <1>1, <1>2, <1>3, <1>4, Typed, Stays

\* A command leaves, from a row or from an overlay.
LEMMA SendKeeps ==
    ASSUME IInv, Scalars', currentOrg' = currentOrg, page' = page,
           overlay' \in {overlay, NoOverlay},
           NEW s \in Slots, IsFree(s),
           NEW to \in Targets,
           to.row # None => to.cmd # "createOrg",
           to.row # None /\ to.cmd # "action" => currentOrg \in {to.row, None},
           flight' = [flight EXCEPT ![s] = Command(to)]
    PROVE  IInv'
  <1>1. Command(to) \in Flights /\ Fits(Command(to))
    BY CommandFits
  <1>2. /\ flight' \in [Slots -> Flights] /\ flight'[s] = Command(to)
        /\ \A r \in Slots \ {s} : Kept(flight'[r], flight[r])
    BY <1>1, Typed
  <1>3. Op(s) \notin MainOps \cup Fetched
    BY FlightSets DEF IsFree, Op, MainOps, Fetched
  <1> QED  BY <1>1, <1>2, <1>3, Typed, OneStays, OverlayKept

LEMMA CommandsKeep ==
    ASSUME IInv, clicks' \in 0..MaxClicks, NEW s \in Slots,
           \/ Submit(s)
           \/ \E o \in Orgs : \/ PressAction(s, o) \/ PressDecide(s, o)
                              \/ PressToggle(s, o) \/ PressTest(s, o)
    PROVE  IInv'
  <1> USE DEF store, history, place, drawn
  <1>1. Scalars /\ NoOverlay \in Targets \cup {NoOverlay}
    BY Typed
  <1>2. CASE Submit(s)
    <2>1. /\ overlay \in Targets /\ overlay' \in {overlay, NoOverlay} /\ IsFree(s)
          /\ flight' = [flight EXCEPT ![s] = Command(overlay)]
          /\ UNCHANGED <<store, page, history>>
      BY <1>1, <1>2 DEF Submit, Uncovered, Scalars
    <2>2. Scalars'
      BY <1>1, <2>1 DEF Scalars
    <2>3. overlay.cmd # "action" /\ overlay.row # None =>
             overlay.cmd # "createOrg" /\ currentOrg \in {overlay.row, None}
      BY DEF IInv, OverlayRow
    <2> QED  BY <2>1, <2>2, <2>3, SendKeeps
  <1>3. ASSUME NEW c, NEW t, NEW o \in Orgs, Press(s, c, t, o),
               c # "createOrg", c = "action" \/ t \in Fetched
        PROVE  IInv'
    <2> DEFINE to == [cmd |-> c, row |-> o]
    <2>1. /\ IsFree(s) /\ OnRow(t, o) /\ to \in Targets
          /\ flight' = [flight EXCEPT ![s] = Command(to)]
          /\ UNCHANGED <<store, page, overlay, history>>
      BY <1>3 DEF Press, Targets
    <2>2. c # "action" => o = currentOrg
      BY <1>3, <2>1, RowIsCurrent
    <2>3. to.cmd = c /\ to.row = o
      OBVIOUS
    <2>4. Scalars'
      BY <1>1, <2>1 DEF Scalars
    <2> HIDE DEF to
    <2> QED  BY <1>3, <2>1, <2>2, <2>3, <2>4, SendKeeps
  <1>4. ASSUME NEW o \in Orgs,
               \/ PressAction(s, o) \/ PressDecide(s, o)
               \/ PressToggle(s, o) \/ PressTest(s, o)
        PROVE  IInv'
    BY <1>3, <1>4 DEF PressAction, PressDecide, PressToggle, PressTest, Fetched
  <1> QED  BY <1>2, <1>4

\* What the server changes outdates rows, and moves none.
LEMMA CarryOutKeeps ==
    ASSUME IInv, clicks' = clicks, NEW s \in Slots, CarryOut(s)
    PROVE  IInv'
  <1> DEFINE c == flight[s]
             subject == Subject(c.to.cmd)
             after == [c EXCEPT !.done = TRUE]
  <1>1. /\ Scalars /\ flight \in [Slots -> Flights] /\ page \in Pages
        /\ c.op = "command" /\ c \in CommandCalls /\ Op(s) = "command"
    BY Typed, FlightKinds DEF CarryOut, Op
  <1>2. Acceptable(c) /\ Aimed(c) /\ Outdate(subject, c.aim)
    BY <1>1 DEF CarryOut, IInv, AllAimed
  <1>3. /\ after \in Flights /\ after.op = "command" /\ after.to = c.to
        /\ after.aim = c.aim /\ after.done = TRUE
    BY <1>1, FlightSets DEF CommandCalls
  <1>4. Fits(after)
    BY <1>2, <1>3 DEF Fits, Fetched, Aimed, Acceptable
  <1> HIDE DEF after, subject
  <1>5. flight' = [r \in Slots |-> IF r = s THEN after
                                   ELSE OutdatedFlight(flight[r], subject, c.aim)]
    BY DEF CarryOut, after, subject
  <1>6. ASSUME NEW rows \in Rows
        PROVE  /\ Overtake(rows, c.aim) \in Rows
               /\ Overtake(rows, c.aim).from = rows.from
    <2>1. (rows.fresh /\ c.aim \notin rows.from) \in BOOLEAN
      OBVIOUS
    <2> QED  BY <2>1 DEF Overtake, Rows
  <1>7. ASSUME NEW r \in Slots
        PROVE  /\ OutdatedFlight(flight[r], subject, c.aim) \in Flights
               /\ Kept(OutdatedFlight(flight[r], subject, c.aim), flight[r])
    <2> DEFINE f == flight[r]
    <2>1. f \in Flights /\ Kept(f, f)
      BY <1>1, KeptItself
    <2>2. CASE f.op = "detail" /\ subject = "instances" /\ f.org = c.aim
      <3> DEFINE rows == Overtake(f.rows, c.aim)
      <3>1. f \in DetailCalls /\ rows \in Rows
        BY <1>6, <2>1, <2>2, FlightKinds DEF DetailCalls
      <3> HIDE DEF rows
      <3>2. /\ [f EXCEPT !.dirty = TRUE, !.rows = rows] \in Flights
            /\ Kept([f EXCEPT !.dirty = TRUE, !.rows = rows], f)
        BY <3>1, FlightSets DEF DetailCalls, Kept, Fetched
      <3>3. OutdatedFlight(f, subject, c.aim) = [f EXCEPT !.dirty = TRUE, !.rows = rows]
        BY <2>2 DEF OutdatedFlight, rows
      <3> QED  BY <3>2, <3>3
    <2>3. CASE /\ f.op # "detail"
               /\ f.op \in Fetched /\ f.op = subject /\ c.aim \in f.from \cup {f.ask}
      <3>1. f \in TabCalls
        BY <2>1, <2>3, FlightKinds
      <3>2. /\ [f EXCEPT !.dirty = TRUE] \in Flights
            /\ Kept([f EXCEPT !.dirty = TRUE], f)
        BY <3>1, FlightSets DEF TabCalls, Kept, Fetched
      <3> QED  BY <2>3, <3>2 DEF OutdatedFlight
    <2>4. CASE /\ ~(f.op = "detail" /\ subject = "instances" /\ f.org = c.aim)
               /\ ~(f.op \in Fetched /\ f.op = subject /\ c.aim \in f.from \cup {f.ask})
      BY <2>1, <2>4 DEF OutdatedFlight
    <2>5. f.op \in Fetched => f.op # "detail"
      BY DEF Fetched
    <2> QED  BY <2>2, <2>3, <2>4, <2>5
  <1>8. /\ flight' \in [Slots -> Flights] /\ flight'[s] = after
        /\ \A r \in Slots \ {s} : Kept(flight'[r], flight[r])
    BY <1>3, <1>5, <1>7
  <1>9. /\ page' \in Pages /\ page'.kind = page.kind
        /\ page.kind = "detail" => /\ page'.pane.shows = page.pane.shows
                                   /\ page'.pane.rows.from = page.pane.rows.from
    <2>1. CASE page.kind = "detail" /\ page.pane.shows = subject
      <3> DEFINE rows == Overtake(page.pane.rows, c.aim)
      <3>1. page \in [kind : {"detail"}, org : Orgs, tab : Tabs, pane : Panes]
        BY <2>1, Typed
      <3>2. rows \in Rows /\ rows.from = page.pane.rows.from
        BY <1>6, <3>1 DEF Panes
      <3>3. page' = [page EXCEPT !.pane.rows = rows]
        BY <1>2, <2>1 DEF Outdate
      <3> HIDE DEF rows
      <3>4. page' = [page EXCEPT !.pane = [page.pane EXCEPT !.rows = rows]]
        BY <3>3
      <3>5. /\ [page.pane EXCEPT !.rows = rows] \in Panes
            /\ [page.pane EXCEPT !.rows = rows].shows = page.pane.shows
            /\ [page.pane EXCEPT !.rows = rows].rows = rows
        BY <3>1, <3>2 DEF Panes
      <3> QED  BY <3>1, <3>2, <3>4, <3>5 DEF Pages
    <2>2. CASE ~(page.kind = "detail" /\ page.pane.shows = subject)
      BY <1>1, <1>2, <2>2 DEF Outdate
    <2> QED  BY <2>1, <2>2
  <1>10. instances' \in Rows
    BY <1>1, <1>2, <1>6 DEF Outdate, Scalars
  <1>11. Scalars' /\ currentOrg' = currentOrg /\ overlay' = overlay
    BY <1>1, <1>10 DEF CarryOut, history, place, drawn, Scalars
  <1>12. Op(s) \notin MainOps \cup Fetched
    BY <1>1 DEF MainOps, Fetched
  <1> QED  BY <1>4, <1>8, <1>9, <1>11, <1>12, OneStays

-----------------------------------------------------------------------------
(* Replies to the commands.                                                  *)

LEMMA EndKeeps ==
    ASSUME IInv, Scalars', currentOrg' = currentOrg, overlay' \in {overlay, NoOverlay},
           NEW s \in Slots, Op(s) \notin MainOps \cup Fetched, End(s)
    PROVE  IInv'
  <1>1. Idle \in Flights /\ Idle.op \notin Fetched \cup {"command"}
    BY FlightSets DEF Fetched
  <1> QED  BY <1>1, Ends DEF End

LEMMA RefreshTabKeeps ==
    ASSUME IInv, Scalars', currentOrg' = currentOrg, overlay' \in {overlay, NoOverlay},
           NEW s \in Slots, Op(s) \notin MainOps \cup Fetched,
           NEW t \in Fetched, RefreshTab(s, t)
    PROVE  IInv'
  <1>1. CASE page.kind # "detail"
    BY <1>1, EndKeeps DEF RefreshTab
  <1>2. CASE page.kind = "detail"
    <2>1. /\ page' = [page EXCEPT !.pane = Blank("loading")]
          /\ flight' = [Older(flight, Fetched) EXCEPT ![s] = Asking(t)]
      BY <1>2 DEF RefreshTab, renderTab
    <2>2. Blank("loading") \in Panes /\ Blank("loading").shows = "loading"
      BY DEF Panes, Blank, Rows, NoRows
    <2>3. page' \in Pages /\ page'.kind = page.kind /\ page'.pane.shows = "loading"
      BY <1>2, <2>1, <2>2, Typed DEF Pages
    <2>4. /\ flight' \in [Slots -> Flights]
          /\ \A r \in Slots \ {s} : Kept(flight'[r], flight[r])
          /\ flight'[s] = Asking(t) /\ Fits(flight'[s]) /\ flight'[s].op \in Fetched
      BY <1>2, <2>1, Typed, Aged, AskingFits
    <2> QED  BY <2>3, <2>4, OneStays, OverlayKept
  <1> QED  BY <1>1, <1>2

LEMMA RefreshOrgKeeps ==
    ASSUME IInv, Scalars', currentOrg' = currentOrg, overlay' \in {overlay, NoOverlay},
           NEW s \in Slots, Op(s) \notin MainOps \cup Fetched, RefreshOrg(s)
    PROVE  IInv'
  <1>1. CASE ~(currentOrg # None /\ currentOrg \in orgs)
    BY <1>1, EndKeeps DEF RefreshOrg
  <1>2. CASE currentOrg # None /\ currentOrg \in orgs
    <2> DEFINE f == OrgDetail(currentOrg, "new")
    <2>1. currentOrg \in Orgs /\ "new" \in Ages
      BY <1>2, Typed DEF Scalars, Ages
    <2>2. f \in Flights /\ f.op = "detail"
      BY <2>1, StartsTyped DEF OrgDetail
    <2>3. page' = page /\ flight' = [Older(flight, MainOps) EXCEPT ![s] = f]
      BY <1>2 DEF RefreshOrg, renderOrgDetail
    <2> HIDE DEF f
    <2>4. /\ flight' \in [Slots -> Flights] /\ flight'[s] = f
          /\ \A r \in Slots \ {s} : Kept(flight'[r], flight[r])
      BY <2>2, <2>3, Typed, Aged
    <2>5. Fits(f)
      BY <2>2 DEF Fits, Fetched
    <2> QED  BY <2>3, <2>4, <2>5, Typed, OneStays, OverlayKept
  <1> QED  BY <1>1, <1>2

LEMMA RenderViewKeeps ==
    ASSUME IInv, Scalars', currentOrg' = currentOrg, overlay' = NoOverlay,
           NEW s \in Slots, renderView(s)
    PROVE  IInv'
  <1>1. /\ flight \in [Slots -> Flights] /\ \A r \in Slots : Kept(flight[r], flight[r])
        /\ overlay'.row = None /\ "new" \in Ages
    BY Typed DEF NoOverlay, Ages
  <1>2. CASE renderDashboard(s)
    BY <1>1, <1>2, StartsTyped, StartMainReplaces DEF renderDashboard, MainOps
  <1>3. CASE renderOrgs(flight, s)
    BY <1>1, <1>3, StartsTyped, StartMainReplaces DEF renderOrgs, MainOps
  <1>4. CASE renderSettings([flight EXCEPT ![s] = Idle])
    <2>1. /\ [flight EXCEPT ![s] = Idle] \in [Slots -> Flights]
          /\ \A r \in Slots : \/ Kept([flight EXCEPT ![s] = Idle][r], flight[r])
                              \/ [flight EXCEPT ![s] = Idle][r] = Idle
      BY <1>1, FlightSets
    <2> QED  BY <1>1, <1>4, <2>1, SettingsReplace
  <1> QED  BY <1>2, <1>3, <1>4 DEF renderView

LEMMA CommandReplyKeeps ==
    ASSUME IInv, clicks' = clicks, NEW s \in Slots, CommandReply(s)
    PROVE  IInv'
  <1> USE DEF store, place, drawn
  <1>1. CASE CarryOut(s)
    BY <1>1, CarryOutKeeps
  <1>2. CASE ~CarryOut(s)
    <2>1. Op(s) = "command"
      BY <1>2 DEF CommandReply, CommandFails, Done, createOrg, createInstance, action,
         inviteMember, confirmSuspendMember, acceptJoinRequest, confirmRemoveMember,
         createWebhook, toggleWebhook, confirmDeleteWebhook, testWebhook
    <2>2. Op(s) \notin MainOps \cup Fetched
      BY <2>1 DEF MainOps, Fetched
    <2>3. /\ UNCHANGED <<view, currentOrg, orgs, instances, place, crossed>>
          /\ overlay' \in {overlay, NoOverlay}
      BY <1>2 DEF CommandReply, CommandFails, Done, createOrg, createInstance, action,
         inviteMember, confirmSuspendMember, acceptJoinRequest, confirmRemoveMember,
         createWebhook, toggleWebhook, confirmDeleteWebhook, testWebhook,
         Throws, KeepOverlay, CloseOverlay
    <2>4. barged' \in BOOLEAN /\ cut' \in BOOLEAN
      <3>1. Scalars
        BY Typed
      <3> QED  BY <1>2, <3>1 DEF Scalars, CommandReply, CommandFails, Done, createOrg,
               createInstance, action, inviteMember, confirmSuspendMember,
               acceptJoinRequest, confirmRemoveMember, createWebhook, toggleWebhook,
               confirmDeleteWebhook, testWebhook, Throws, RefreshTab, RefreshOrg
    <2>5. Scalars'
      BY <2>3, <2>4, Typed DEF Scalars
    <2>6. CASE CommandFails(s) \/ testWebhook(s)
      BY <2>2, <2>3, <2>5, <2>6, EndKeeps DEF CommandFails, testWebhook
    <2>7. CASE createOrg(s)
      BY <2>2, <2>3, <2>5, <2>7, EndKeeps, RenderViewKeeps
         DEF createOrg, Throws, CloseOverlay
    <2>8. CASE createInstance(s)
      <3>1. CASE Throws(s)
        BY <2>2, <2>3, <2>5, <3>1, EndKeeps DEF Throws
      <3>2. CASE page' = page /\ flight' = [flight EXCEPT ![s] = Timer]
        <4>1. Timer \in Flights /\ Timer.op \notin Fetched \cup {"command"}
          BY FlightSets DEF Fetched
        <4> QED  BY <2>2, <2>3, <2>5, <3>2, <4>1, Ends
      <3> QED  BY <2>8, <3>1, <3>2 DEF createInstance
    <2>9. CASE action(s)
      BY <2>2, <2>3, <2>5, <2>9, RefreshOrgKeeps DEF action
    <2>10. CASE inviteMember(s)
      BY <2>2, <2>3, <2>5, <2>10, EndKeeps, RefreshTabKeeps DEF inviteMember, Throws, Fetched
    <2>11. CASE confirmSuspendMember(s) \/ acceptJoinRequest(s) \/ confirmRemoveMember(s)
      <3>1. RefreshTab(s, "members")
        BY <2>11 DEF confirmSuspendMember, acceptJoinRequest, confirmRemoveMember
      <3> QED  BY <2>2, <2>3, <2>5, <3>1, RefreshTabKeeps DEF Fetched
    <2>12. CASE createWebhook(s) \/ toggleWebhook(s) \/ confirmDeleteWebhook(s)
      <3>1. RefreshTab(s, "webhooks")
        BY <2>12 DEF createWebhook, toggleWebhook, confirmDeleteWebhook
      <3> QED  BY <2>2, <2>3, <2>5, <3>1, RefreshTabKeeps DEF Fetched
    <2> QED  BY <1>2, <2>6, <2>7, <2>8, <2>9, <2>10, <2>11, <2>12 DEF CommandReply
  <1> QED  BY <1>1, <1>2

LEMMA TimerKeeps ==
    ASSUME IInv, clicks' = clicks, NEW s \in Slots, TimerFires(s)
    PROVE  IInv'
  <1>1. Op(s) \notin MainOps \cup Fetched
    BY FlightSets DEF TimerFires, Op, MainOps, Fetched
  <1>2. barged' \in BOOLEAN /\ cut' \in BOOLEAN
    BY Typed DEF Scalars, TimerFires, RefreshOrg
  <1>3. Scalars' /\ currentOrg' = currentOrg /\ overlay' = overlay
    BY <1>2, Typed DEF Scalars, TimerFires, store, place
  <1> QED  BY <1>1, <1>3, RefreshOrgKeeps DEF TimerFires

-----------------------------------------------------------------------------
(* The invariant, and the theorems.                                          *)

LEMMA InvInit == Init => IInv
  <1> SUFFICES ASSUME Init PROVE IInv
    OBVIOUS
  <1> DEFINE f == [op |-> "dashboard", counting |-> FALSE, age |-> "new"]
  <1>1. PICK s \in Slots : flight = [[t \in Slots |-> Idle] EXCEPT ![s] = f]
    BY DEF Init
  <1>2. f \in Flights /\ f.op = "dashboard"
    BY StartsTyped
  <1> HIDE DEF f
  <1>3. /\ flight \in [Slots -> Flights] /\ flight[s] = f
        /\ \A r \in Slots : flight[r].op \in {"idle", "dashboard"}
    BY <1>1, <1>2, FlightSets
  <1>4. page \in Pages /\ page.kind = "loading" /\ NoRows \in Rows /\ 0 \in 0..MaxClicks
    BY ClickAssumption DEF Init, Loading, Pages, NoRows, Rows
  <1>5. TypeOK
    BY <1>3, <1>4 DEF Init, TypeOK, Tabs
  <1>6. LoadingIsAwaited
    BY <1>2, <1>3, <1>4 DEF LoadingIsAwaited, Op, MainOps
  <1>7. OneOrgPerTab /\ MembersNamed /\ AllAimed
    BY <1>3, <1>4 DEF OneOrgPerTab, MembersNamed, AllAimed, Op, Fetched
  <1>8. OverlayRow
    BY DEF Init, OverlayRow, NoOverlay
  <1> QED  BY <1>5, <1>6, <1>7, <1>8 DEF IInv

LEMMA InvStep == IInv /\ [Next]_vars => IInv'
  <1> SUFFICES ASSUME IInv, [Next]_vars PROVE IInv'
    OBVIOUS
  <1>1. CASE clicks < MaxClicks /\ clicks' = clicks + 1 /\ Act
    <2>1. clicks' \in 0..MaxClicks
      BY <1>1, ClickAssumption, Typed DEF Scalars
    <2>2. ASSUME NEW s \in Slots, Click(s) PROVE IInv'
      BY <2>1, <2>2, GoingKeeps, SwitchKeeps, CommandsKeep DEF Click
    <2> QED  BY <1>1, <2>1, <2>2, GoingKeeps, OverlaysKeep DEF Act
  <1>2. ASSUME NEW s \in Slots, clicks' = clicks, Reply(s)
        PROVE  IInv'
    BY <1>2, DashboardReplyKeeps, OrgsReplyKeeps, DetailReplyKeeps, TabReplyKeeps,
       AskMoreKeeps, GoneReplyKeeps, TimerKeeps, CommandReplyKeeps
       DEF Reply, RenderReply
  <1>3. CASE UNCHANGED vars
    BY <1>3 DEF vars, IInv, TypeOK, LoadingIsAwaited, OneOrgPerTab, MembersNamed,
       OverlayRow, AllAimed, Op
  <1> QED  BY <1>1, <1>2, <1>3 DEF Next

LEMMA IInvHolds == Spec => []IInv
  BY InvInit, InvStep, PTL DEF Spec

\* The state has its type.
THEOREM TypeCorrect == Spec => []TypeOK
  <1>1. IInv => TypeOK
    BY DEF IInv
  <1> QED  BY <1>1, IInvHolds, PTL

\* Whatever replies fail, and in whatever order they come, something in flight
\* will draw over "Loading...".
THEOREM NeverLeftLoading == Spec => []LoadingIsAwaited
  <1>1. IInv => LoadingIsAwaited
    BY DEF IInv
  <1> QED  BY <1>1, IInvHolds, PTL

\* Members, Billing, Webhooks and Audit Log show the rows of one organization, the
\* one their buttons act on.
THEOREM TabsOfOneOrg == Spec => []OneOrgPerTab
  <1>1. IInv => OneOrgPerTab
    BY DEF IInv
  <1> QED  BY <1>1, IInvHolds, PTL

\* A command pressed on a row is carried out in the organization of that row or
\* not at all.
THEOREM CommandsStay == Spec => []NothingElsewhere
  <1>1. IInv => NothingElsewhere
    BY DEF IInv, AllAimed, Aimed, NothingElsewhere
  <1> QED  BY <1>1, IInvHolds, PTL

-----------------------------------------------------------------------------
(* What a step does to the page and to the functions in flight, in ten kinds  *)
(* of moves.  The three invariants below are kept by each of them.           *)

\* The ages of functions that wait, when another one asks or its reply is used.
AgeAfter(how, age) ==
    IF how = "late" THEN "late"
    ELSE IF how = "older" /\ age = "new" THEN "old" ELSE age
Use(s) == IF flight[s].age = "new" THEN "late" ELSE "same"

\* c is d, but for its age and for the organizations a tab asks for.
Alike(c, d) ==
    /\ c.op = d.op
    /\ d.op = "detail" => /\ c.org = d.org /\ c.listed = d.listed
                          /\ c.rows = d.rows /\ c.dirty = d.dirty
    /\ d.op \in Fetched => c.dirty = d.dirty

\* The functions in flight other than those in touched.
Others(touched, main, tab) ==
    \A r \in Slots \ touched :
        /\ Op(r) \in MainOps => /\ Alike(flight'[r], flight[r])
                                /\ flight'[r].age = AgeAfter(main, flight[r].age)
        /\ Op(r) \in Fetched =>
              IF tab = "gone" THEN flight'[r] = Gone
              ELSE /\ Alike(flight'[r], flight[r])
                   /\ flight'[r].age = AgeAfter(tab, flight[r].age)
        /\ Op(r) \notin MainOps \cup Fetched => flight'[r] = flight[r]

\* Someone else is about to draw what a command of this subject changed.
Owed(subject) ==
    \E s \in Slots :
        \/ Op(s) = "command" /\ flight[s].done /\ Subject(flight[s].to.cmd) = subject
        \/ subject = "instances" /\ flight[s] = Timer
StillOwed(subjects) == \A t \in subjects : Owed(t) => Owed(t)'

Draws == MainOps \cup Fetched

\* Rows that were not read, or miss no command.
UpToDate(rows) == rows.from # {} => rows.fresh

\* A page is asked for and #main is cleared.
EntersMain(s) ==
    /\ Others({s}, "older", "gone")
    /\ flight'[s].op \in {"dashboard", "orgs"} /\ flight'[s].age = "new"
    /\ page' = Loading
    /\ barged' \/ asked' = flight'[s].op

\* The settings are drawn, and whatever is to draw in #main still will.
EntersSettings(ended) ==
    /\ Others(ended, "same", "gone")
    /\ \A r \in ended : Op(r) \notin Draws /\ flight'[r] = Idle
    /\ page' = Settings
    /\ barged' \/ asked' = "settings"
    /\ barged => barged'
    /\ UNCHANGED <<currentOrg, instances, crossed, cut>>
    /\ StillOwed({"instances"})

\* The reply that the current organization is gone.
Leaves(s) ==
    /\ Op(s) = "orgs" /\ flight[s].age \in Ages
    /\ Others({s}, Use(s), "gone")
    /\ flight'[s] = [op |-> "orgs", age |-> flight[s].age]
    /\ page' = Loading /\ currentOrg' = None /\ asked' = asked
    /\ overdrawn \/ page.kind = "settings" => overdrawn'
    /\ crossed' = (crossed \/ flight[s].age = "late")
    /\ barged' = (barged \/ \E t \in Slots \ {s} : Op(t) \in MainOps)

\* The last reply to a render of #main.
DrawsMain(s) ==
    /\ Op(s) \in MainOps /\ flight[s].age \in Ages
    /\ Others({s}, Use(s), "gone")
    /\ flight'[s] = Idle
    /\ crossed' = (crossed \/ flight[s].age = "late")
    /\ UNCHANGED <<currentOrg, asked, askedTab, barged, cut, instances>>
    /\ overdrawn \/ page.kind = "settings" => overdrawn'
    /\ \/ page' = Failed
       \/ Op(s) = "dashboard" /\ page'.kind = "dashboard"
       \/ Op(s) = "orgs" /\ currentOrg = None /\ page'.kind = "list"
       \/ /\ Op(s) = "detail" /\ flight[s].listed /\ flight[s].org \in Orgs
          /\ askedTab # "instances" => overdrawn'
          /\ page' = [kind |-> "detail", org |-> flight[s].org, tab |-> "instances",
                      pane |-> [shows |-> "instances", rows |-> flight[s].rows]]

\* A reply that makes a render of #main ask for more.
GoesOnMain(s) ==
    /\ Op(s) \in MainOps /\ flight[s].age \in Ages
    /\ Others({s}, Use(s), "same")
    /\ flight'[s].age = flight[s].age
    /\ page' = page
    /\ crossed' = (crossed \/ flight[s].age = "late")
    /\ UNCHANGED <<currentOrg, place, barged, cut>>
    /\ \/ Op(s) = "dashboard" /\ flight'[s].op = "dashboard" /\ instances' = instances
       \/ /\ Op(s) = "orgs" /\ currentOrg \in Orgs /\ instances' = instances
          /\ flight'[s] = OrgDetail(currentOrg, flight[s].age)
       \/ /\ Op(s) = "detail" /\ flight'[s].op = "detail"
          /\ flight'[s].org = flight[s].org /\ flight'[s].dirty = flight[s].dirty
          /\ flight'[s].rows = instances'
          /\ ~flight[s].dirty => UpToDate(instances)'

\* The organization is asked for again.
Refreshes(s) ==
    /\ Op(s) \notin Draws
    /\ Others({s}, "older", "same")
    /\ flight'[s] = OrgDetail(currentOrg, "new") /\ currentOrg \in Orgs
    /\ page' = page
    /\ barged' = (barged \/ asked # "orgs")
    /\ UNCHANGED <<currentOrg, place, instances, crossed, cut>>
    /\ StillOwed(Fetched)

\* Tab t is asked for, by the user or by a refresh.
AsksTab(s, t) ==
    /\ t \in Fetched /\ Op(s) \notin Draws
    /\ Others({s}, "same", "older")
    /\ flight'[s] = Asking(t)
    /\ page.kind = "detail" /\ page'.kind = "detail" /\ page'.org = page.org
    /\ page'.pane = Blank("loading")
    /\ \/ page'.tab = t /\ askedTab' = t
       \/ /\ page'.tab = page.tab /\ UNCHANGED <<askedTab, overdrawn>>
          /\ page.tab = t \/ barged'
    /\ overdrawn /\ asked = "settings" => overdrawn'
    /\ barged => barged'
    /\ UNCHANGED <<currentOrg, asked, instances, crossed, cut>>
    /\ StillOwed((Fetched \cup {"instances"}) \ {t})

\* The tab of the instances is drawn.
DrawsInstances ==
    /\ Others({}, "same", "same")
    /\ page.kind = "detail" /\ page'.kind = "detail" /\ page'.org = page.org
    /\ page'.tab = "instances" /\ askedTab' = "instances"
    /\ overdrawn /\ asked = "settings" => overdrawn'
    /\ page'.pane = [shows |-> "instances", rows |-> instances]
    /\ UNCHANGED <<currentOrg, asked, instances, drawn, cut>>

\* The last reply to a render of a tab.
DrawsTab(s) ==
    /\ Op(s) \in Fetched /\ flight[s].age \in Ages
    /\ Others({s}, "same", Use(s))
    /\ flight'[s] = Idle
    /\ page.kind = "detail" /\ page'.kind = "detail" /\ page'.org = page.org
    /\ page'.tab = page.tab
    /\ \/ page'.pane = Blank("failed")
       \/ page'.pane.shows = Op(s) /\ (~flight[s].dirty => UpToDate(page'.pane.rows))
    /\ overdrawn \/ page.tab = "instances" => overdrawn'
    /\ crossed' = (crossed \/ flight[s].age = "late")
    /\ UNCHANGED <<currentOrg, asked, askedTab, instances, barged, cut>>

\* Nothing is drawn or asked for.  What is outdated is owed.
Rests ==
    /\ \A r \in Slots :
          /\ flight'[r].op \in Draws <=> Op(r) \in Draws
          /\ Op(r) \in Draws => /\ flight'[r].op = Op(r)
                                /\ flight'[r].age = flight[r].age
          /\ Op(r) = "detail" =>
                /\ flight'[r].org = flight[r].org /\ flight'[r].listed = flight[r].listed
                /\ \/ flight'[r].dirty = flight[r].dirty /\ flight'[r].rows = flight[r].rows
                   \/ Owed("instances")'
          /\ Op(r) \in Fetched => flight'[r].dirty = flight[r].dirty \/ Owed(Op(r))'
    /\ \/ page' = page
       \/ /\ page.kind = "detail" /\ page'.kind = "detail"
          /\ page'.org = page.org /\ page'.tab = page.tab
          /\ page'.pane.shows = page.pane.shows
          /\ page.pane.shows \in Fetched \cup {"instances"}
          /\ Owed(page.pane.shows)'
    /\ instances' = instances \/ Owed("instances")'
    /\ UNCHANGED <<currentOrg, place, drawn>>
    /\ cut => cut'
    /\ \A t \in Fetched \cup {"instances"} : Owed(t) =>
          \/ Owed(t)' \/ cut'
          \/ t = "instances" /\ currentOrg = None
          \/ t \in Fetched /\ page.kind # "detail"

Moves ==
    \/ \E s \in Slots :
          \/ EntersMain(s) \/ Leaves(s) \/ DrawsMain(s) \/ GoesOnMain(s) \/ Refreshes(s)
          \/ DrawsTab(s) \/ \E t \in Fetched : AsksTab(s, t)
    \/ \E ended \in SUBSET Slots : EntersSettings(ended)
    \/ DrawsInstances \/ Rests

\* Words of state that are told apart.
LEMMA Apart ==
    /\ MainOps \cap Fetched = {} /\ Draws = MainOps \cup Fetched
    /\ {"dashboard", "orgs", "detail"} = MainOps
    /\ {"idle", "gone", "timer", "command", "instances", "loading", "failed"} \cap Draws = {}
    /\ Idle.op = "idle" /\ Gone.op = "gone" /\ Timer.op = "timer"
    /\ Loading.kind = "loading" /\ Failed.kind = "failed" /\ Settings.kind = "settings"
    /\ \A o, age : /\ OrgDetail(o, age).op = "detail" /\ OrgDetail(o, age).org = o
                   /\ OrgDetail(o, age).listed = FALSE /\ OrgDetail(o, age).dirty = FALSE
                   /\ OrgDetail(o, age).age = age
    /\ \A t : /\ Asking(t).op = t /\ Asking(t).age = "new" /\ Asking(t).dirty = FALSE
              /\ Blank(t).shows = t /\ UpToDate(Blank(t).rows)
  BY DEF MainOps, Fetched, Draws, Idle, Gone, Timer, Loading, Failed, Settings,
         OrgDetail, Asking, Blank, NoRows, UpToDate

-----------------------------------------------------------------------------
(* Order: of the functions that draw the same place the one that asked last   *)
(* is new until a later one asks.                                             *)

IsNew(s, ops) == Op(s) \in ops /\ flight[s].age = "new"

InOrder(ops) ==
    /\ \A s, t \in Slots : IsNew(s, ops) /\ IsNew(t, ops) => s = t
    /\ \A s \in Slots : Op(s) \in ops /\ flight[s].age = "old"
          => \E t \in Slots : IsNew(t, ops)

\* The organization asked for last is the current one, until that is left.
NewDetails ==
    \A s \in Slots : IsNew(s, {"detail"}) => currentOrg \in {flight[s].org, None}

OrderInv == InOrder(MainOps) /\ InOrder(Fetched) /\ NewDetails /\ HeaderIsCurrent

\* How functions that draw the same place age.
Ageing(touched, ops, how) ==
    \A r \in Slots \ touched :
        /\ flight'[r].op \in ops <=> Op(r) \in ops
        /\ Op(r) \in ops => flight'[r].age = AgeAfter(how, flight[r].age)

LEMMA OthersAge ==
    ASSUME NEW touched, NEW main, NEW tab, Others(touched, main, tab)
    PROVE  /\ Ageing(touched, MainOps, main)
           /\ tab # "gone" => Ageing(touched, Fetched, tab)
           /\ tab = "gone" => \A r \in Slots \ touched : flight'[r].op \notin Fetched
  BY Apart DEF Others, Ageing, Alike, Op

LEMMA OrderStart ==
    ASSUME NEW ops, NEW s \in Slots, Ageing({s}, ops, "older"),
           flight'[s].op \in ops, flight'[s].age = "new"
    PROVE  InOrder(ops)'
  BY DEF InOrder, IsNew, Op, Ageing, AgeAfter

LEMMA OrderUse ==
    ASSUME NEW ops, NEW s \in Slots, InOrder(ops), Op(s) \in ops, Ageing({s}, ops, Use(s)),
           \/ flight'[s].op \notin ops
           \/ flight'[s].op \in ops /\ flight'[s].age = flight[s].age
    PROVE  InOrder(ops)'
  BY DEF InOrder, IsNew, Op, Ageing, AgeAfter, Use

LEMMA OrderSame ==
    ASSUME NEW ops, NEW touched, InOrder(ops), Ageing(touched, ops, "same"),
           \A r \in touched : Op(r) \notin ops /\ flight'[r].op \notin ops
    PROVE  InOrder(ops)'
  BY DEF InOrder, IsNew, Op, Ageing, AgeAfter

LEMMA OrderNone ==
    ASSUME NEW ops, \A r \in Slots : flight'[r].op \notin ops
    PROVE  InOrder(ops)'
  BY DEF InOrder, IsNew, Op

\* What the moves mean for the order.
LEMMA OrderKept ==
    ASSUME OrderInv, Moves, None \notin Orgs
    PROVE  OrderInv'
<1> USE Apart
<1>0. InOrder(MainOps) /\ InOrder(Fetched) /\ NewDetails /\ HeaderIsCurrent
  BY DEF OrderInv
<1>1. ASSUME NEW s \in Slots, EntersMain(s) PROVE OrderInv'
  <2>1. /\ Ageing({s}, MainOps, "older")
        /\ \A r \in Slots : flight'[r].op \notin Fetched
    BY <1>1, OthersAge DEF EntersMain
  <2>2. InOrder(MainOps)' /\ InOrder(Fetched)'
    BY <1>1, <2>1, OrderStart, OrderNone DEF EntersMain
  <2>3. NewDetails'
    BY <1>1, <2>1 DEF NewDetails, IsNew, Op, Ageing, AgeAfter, EntersMain
  <2>4. HeaderIsCurrent'
    BY <1>1 DEF HeaderIsCurrent, EntersMain
  <2> QED  BY <2>2, <2>3, <2>4 DEF OrderInv
<1>2. ASSUME NEW ended \in SUBSET Slots, EntersSettings(ended) PROVE OrderInv'
  <2>1. /\ Ageing(ended, MainOps, "same")
        /\ \A r \in Slots : flight'[r].op \notin Fetched
        /\ \A r \in ended : Op(r) \notin MainOps /\ flight'[r].op \notin MainOps
    BY <1>2, OthersAge DEF EntersSettings
  <2>2. InOrder(MainOps)' /\ InOrder(Fetched)'
    BY <1>0, <2>1, OrderSame, OrderNone
  <2>3. \A r \in Slots : IsNew(r, {"detail"})' =>
           IsNew(r, {"detail"}) /\ flight'[r].org = flight[r].org
    BY <1>2, <2>1 DEF EntersSettings, Others, Alike, IsNew, Op, Ageing, AgeAfter
  <2>4. NewDetails'
    BY <1>0, <1>2, <2>3 DEF NewDetails, EntersSettings
  <2>5. HeaderIsCurrent'
    BY <1>2 DEF HeaderIsCurrent, EntersSettings
  <2> QED  BY <2>2, <2>4, <2>5 DEF OrderInv
<1>3. ASSUME NEW s \in Slots, Leaves(s) PROVE OrderInv'
  <2>1. /\ Ageing({s}, MainOps, Use(s)) /\ Op(s) \in MainOps
        /\ flight'[s].op = "orgs" /\ flight'[s].age = flight[s].age
        /\ \A r \in Slots : flight'[r].op \notin Fetched
    BY <1>3, OthersAge DEF Leaves
  <2>2. InOrder(MainOps)' /\ InOrder(Fetched)'
    BY <1>0, <2>1, OrderUse, OrderNone
  <2>3. NewDetails' /\ HeaderIsCurrent'
    BY <1>3 DEF NewDetails, HeaderIsCurrent, Leaves
  <2> QED  BY <2>2, <2>3 DEF OrderInv
<1>4. ASSUME NEW s \in Slots, DrawsMain(s) PROVE OrderInv'
  <2>1. /\ Ageing({s}, MainOps, Use(s)) /\ Op(s) \in MainOps
        /\ flight'[s].op = "idle"
        /\ \A r \in Slots : flight'[r].op \notin Fetched
    BY <1>4, OthersAge DEF DrawsMain
  <2>2. InOrder(MainOps)' /\ InOrder(Fetched)'
    BY <1>0, <2>1, OrderUse, OrderNone
  <2>3. \A r \in Slots : flight'[r].op = "detail" =>
           r # s /\ Op(r) = "detail" /\ flight'[r].org = flight[r].org
    BY <1>4 DEF DrawsMain, Others, Alike, Op
  <2>4. NewDetails'
    BY <1>0, <1>4, <2>1, <2>3 DEF NewDetails, IsNew, Op, Ageing, AgeAfter, DrawsMain
  <2>5. ASSUME page'.kind = "detail", currentOrg' \notin {page'.org, None}
        PROVE  crossed' \/ \E r \in Slots : flight'[r].op \in MainOps
    <3>1. Op(s) = "detail" /\ page'.org = flight[s].org /\ currentOrg' = currentOrg
      BY <1>4, <2>5 DEF DrawsMain
    <3>2. ~IsNew(s, {"detail"})
      BY <1>0, <2>5, <3>1 DEF NewDetails
    <3>3. flight[s].age \in {"old", "late"}
      BY <1>4, <3>1, <3>2 DEF IsNew, DrawsMain, Ages
    <3>4. CASE flight[s].age = "late"
      BY <1>4, <3>4 DEF DrawsMain
    <3>5. CASE flight[s].age = "old"
      <4>1. PICK t \in Slots : IsNew(t, MainOps)
        BY <1>0, <2>1, <3>5 DEF InOrder
      <4>2. t # s
        BY <3>5, <4>1 DEF IsNew
      <4> QED  BY <2>1, <4>1, <4>2 DEF IsNew, Ageing
    <3> QED  BY <3>3, <3>4, <3>5
  <2>6. HeaderIsCurrent'
    BY <2>5 DEF HeaderIsCurrent, Op
  <2> QED  BY <2>2, <2>4, <2>6 DEF OrderInv
<1>5. ASSUME NEW s \in Slots, GoesOnMain(s) PROVE OrderInv'
  <2>1. /\ Ageing({s}, MainOps, Use(s)) /\ Ageing({s}, Fetched, "same")
        /\ Op(s) \in MainOps /\ flight'[s].op \in MainOps
        /\ flight'[s].age = flight[s].age
    BY <1>5, OthersAge DEF GoesOnMain
  <2>2. InOrder(MainOps)'
    BY <1>0, <2>1, OrderUse
  <2>3. InOrder(Fetched)'
    BY <1>0, <2>1, OrderSame
  <2>4. \A r \in Slots \ {s} : flight'[r].op = "detail" =>
           Op(r) = "detail" /\ flight'[r].org = flight[r].org
    BY <1>5 DEF GoesOnMain, Others, Alike, Op
  <2>5. flight'[s].op = "detail" =>
           \/ flight'[s].org = currentOrg
           \/ Op(s) = "detail" /\ flight'[s].org = flight[s].org
    BY <1>5 DEF GoesOnMain
  <2>6. NewDetails'
    BY <1>0, <1>5, <2>1, <2>4, <2>5
       DEF NewDetails, IsNew, Op, Ageing, AgeAfter, GoesOnMain
  <2>7. HeaderIsCurrent'
    BY <2>1 DEF HeaderIsCurrent, Op
  <2> QED  BY <2>2, <2>3, <2>6, <2>7 DEF OrderInv
<1>6. ASSUME NEW s \in Slots, Refreshes(s) PROVE OrderInv'
  <2>1. /\ Ageing({s}, MainOps, "older") /\ Ageing({s}, Fetched, "same")
        /\ Op(s) \notin Fetched /\ flight'[s].op \in MainOps /\ flight'[s].age = "new"
        /\ flight'[s].org = currentOrg /\ currentOrg' = currentOrg
    BY <1>6, OthersAge DEF Refreshes
  <2>2. InOrder(MainOps)'
    BY <2>1, OrderStart
  <2>3. InOrder(Fetched)'
    BY <1>0, <2>1, OrderSame
  <2>4. NewDetails'
    BY <2>1 DEF NewDetails, IsNew, Op, Ageing, AgeAfter
  <2>5. HeaderIsCurrent'
    BY <2>1 DEF HeaderIsCurrent, Op
  <2> QED  BY <2>2, <2>3, <2>4, <2>5 DEF OrderInv
<1>7. ASSUME currentOrg' = currentOrg,
             NEW touched, NEW tab, Others(touched, "same", tab),
             \A r \in touched : Op(r) \notin MainOps /\ flight'[r].op \notin MainOps,
             page.kind = "detail", page'.org = page.org, crossed => crossed',
             InOrder(Fetched)'
      PROVE  OrderInv'
  <2>1. Ageing(touched, MainOps, "same")
    BY <1>7, OthersAge
  <2>2. InOrder(MainOps)'
    BY <1>0, <1>7, <2>1, OrderSame
  <2>3. \A r \in Slots : IsNew(r, {"detail"})' =>
           IsNew(r, {"detail"}) /\ flight'[r].org = flight[r].org
    BY <1>7, <2>1 DEF Others, Alike, IsNew, Op, Ageing, AgeAfter
  <2>4. NewDetails'
    BY <1>0, <1>7, <2>3 DEF NewDetails
  <2>5. HeaderIsCurrent'
    BY <1>0, <1>7, <2>1 DEF HeaderIsCurrent, Op, Ageing
  <2> QED  BY <1>7, <2>2, <2>4, <2>5 DEF OrderInv
<1>8. ASSUME NEW s \in Slots, NEW t \in Fetched, AsksTab(s, t) PROVE OrderInv'
  <2>1. /\ Ageing({s}, Fetched, "older") /\ flight'[s].op \in Fetched
        /\ flight'[s].age = "new"
    BY <1>8, OthersAge DEF AsksTab
  <2>2. InOrder(Fetched)'
    BY <2>1, OrderStart
  <2>3. PICK touched : touched = {s}
    OBVIOUS
  <2>4. /\ Others(touched, "same", "older") /\ currentOrg' = currentOrg
        /\ \A r \in touched : Op(r) \notin MainOps /\ flight'[r].op \notin MainOps
        /\ page.kind = "detail" /\ page'.org = page.org /\ crossed' = crossed
    BY <1>8, <2>1, <2>3 DEF AsksTab
  <2> QED  BY <1>7, <2>2, <2>4
<1>9. ASSUME DrawsInstances PROVE OrderInv'
  <2>1. PICK touched : touched = {}
    OBVIOUS
  <2>2. Ageing(touched, Fetched, "same")
    BY <1>9, <2>1, OthersAge DEF DrawsInstances
  <2>3. InOrder(Fetched)'
    BY <1>0, <2>1, <2>2, OrderSame
  <2>4. /\ Others(touched, "same", "same") /\ currentOrg' = currentOrg
        /\ page.kind = "detail" /\ page'.org = page.org /\ crossed' = crossed
    BY <1>9, <2>1 DEF DrawsInstances, drawn
  <2> QED  BY <1>7, <2>1, <2>3, <2>4
<1>10. ASSUME NEW s \in Slots, DrawsTab(s) PROVE OrderInv'
  <2>1. Ageing({s}, Fetched, Use(s)) /\ Op(s) \in Fetched /\ flight'[s].op \notin Fetched
    BY <1>10, OthersAge DEF DrawsTab, Use
  <2>2. InOrder(Fetched)'
    BY <1>0, <2>1, OrderUse
  <2>3. PICK touched, tab : touched = {s} /\ tab = Use(s)
    OBVIOUS
  <2>4. /\ Others(touched, "same", tab) /\ currentOrg' = currentOrg
        /\ \A r \in touched : Op(r) \notin MainOps /\ flight'[r].op \notin MainOps
        /\ page.kind = "detail" /\ page'.org = page.org
    BY <1>10, <2>3 DEF DrawsTab
  <2>5. crossed => crossed'
    BY <1>10 DEF DrawsTab
  <2> QED  BY <1>7, <2>2, <2>4, <2>5
<1>11. ASSUME Rests PROVE OrderInv'
  <2>1. PICK touched : touched = {}
    OBVIOUS
  <2>2. Ageing(touched, MainOps, "same") /\ Ageing(touched, Fetched, "same")
    BY <1>11, <2>1 DEF Rests, Ageing, AgeAfter
  <2>3. InOrder(MainOps)' /\ InOrder(Fetched)'
    BY <1>0, <2>1, <2>2, OrderSame
  <2>4. \A r \in Slots : /\ flight'[r].op \in MainOps <=> Op(r) \in MainOps
                         /\ IsNew(r, {"detail"})' =>
                               IsNew(r, {"detail"}) /\ flight'[r].org = flight[r].org
    BY <1>11 DEF Rests, IsNew, Op
  <2>5. NewDetails'
    BY <1>0, <1>11, <2>4 DEF NewDetails, Rests
  <2>6. page'.kind = page.kind /\ page'.org = page.org
    BY <1>11 DEF Rests
  <2>7. HeaderIsCurrent'
    BY <1>0, <1>11, <2>4, <2>6 DEF HeaderIsCurrent, Op, Rests, drawn
  <2> QED  BY <2>3, <2>5, <2>7 DEF OrderInv
<1> QED
  BY <1>1, <1>2, <1>3, <1>4, <1>5, <1>6, <1>8, <1>9, <1>10, <1>11 DEF Moves

-----------------------------------------------------------------------------
(* What the page shows: the function that asked last draws what was asked     *)
(* for, and nobody else draws after it.  While the settings or Instances are   *)
(* asked for, nothing is to draw, and whatever does overdraws.                *)

Quiet(ops) == \A s \in Slots : Op(s) \notin ops

WillDraw(c) ==
    /\ asked \in {"settings", IF c.op = "dashboard" THEN "dashboard" ELSE "orgs"}
    /\ c.op = "detail" => currentOrg = c.org

MainRight ==
    /\ \A s \in Slots : IsNew(s, MainOps) => WillDraw(flight[s])
    /\ Quiet(MainOps) => /\ asked # "settings" => page.kind \in Wanted
                         /\ page.kind = "detail" => currentOrg # None
    /\ asked = "settings" /\ ~overdrawn => page.kind = "settings"

TabRight ==
    page.kind = "detail" =>
        /\ ~overdrawn => page.tab = askedTab
        /\ \A s \in Slots : IsNew(s, Fetched) => Op(s) = page.tab \/ page.tab = "instances"
        /\ IF page.tab = "instances"
           THEN ~overdrawn => page.pane.shows = "instances"
           ELSE Quiet(Fetched) => page.pane.shows \in {page.tab, "failed"}

ShowInv == ~crossed /\ ~barged => MainRight /\ TabRight

\* A move within a tab leaves #main to what it is.
LEMMA MainKept ==
    ASSUME MainRight, asked' = asked, currentOrg' = currentOrg, page'.kind = page.kind,
           page.kind = "detail", overdrawn /\ asked = "settings" => overdrawn',
           NEW touched, NEW tab, Others(touched, "same", tab),
           \A r \in touched : Op(r) \notin MainOps /\ flight'[r].op \notin MainOps
    PROVE  MainRight'
<1>1. \A r \in Slots : /\ flight'[r].op \in MainOps <=> Op(r) \in MainOps
                       /\ Op(r) \in MainOps => /\ Alike(flight'[r], flight[r])
                                               /\ flight'[r].age = flight[r].age
  BY Apart DEF Others, Alike, AgeAfter, Op
<1>2. ASSUME NEW r \in Slots, IsNew(r, MainOps)' PROVE WillDraw(flight[r])'
  BY <1>1, <1>2 DEF MainRight, WillDraw, IsNew, Alike, Op
<1>3. ASSUME Quiet(MainOps)'
      PROVE  (asked # "settings" => page.kind \in Wanted)' /\ currentOrg' # None
  BY <1>1, <1>3 DEF MainRight, Quiet, Op, Wanted
<1>4. asked' = "settings" => overdrawn'
  BY DEF MainRight
<1> QED  BY <1>2, <1>3, <1>4 DEF MainRight

LEMMA ShowKept ==
    ASSUME ShowInv, OrderInv, Moves, None \notin Orgs
    PROVE  ShowInv'
<1> USE Apart
<1> SUFFICES ASSUME ~crossed', ~barged' PROVE MainRight' /\ TabRight'
  BY DEF ShowInv
<1>0. InOrder(MainOps) /\ InOrder(Fetched)
  BY DEF OrderInv
<1>1. ASSUME NEW s \in Slots, EntersMain(s) PROVE MainRight' /\ TabRight'
  <2>1. Ageing({s}, MainOps, "older") /\ flight'[s].op \in MainOps
    BY <1>1, OthersAge DEF EntersMain
  <2>2. \A r \in Slots : IsNew(r, MainOps)' => r = s
    BY <2>1 DEF IsNew, Op, Ageing, AgeAfter
  <2>3. WillDraw(flight[s])'
    BY <1>1 DEF WillDraw, EntersMain
  <2>4. asked' # "settings"
    BY <1>1 DEF EntersMain
  <2>5. MainRight'
    BY <2>1, <2>2, <2>3, <2>4 DEF MainRight, Quiet, Op
  <2> QED  BY <1>1, <2>5 DEF TabRight, EntersMain
<1>2. ASSUME NEW ended \in SUBSET Slots, EntersSettings(ended)
      PROVE  MainRight' /\ TabRight'
  <2>1. /\ MainRight /\ asked' = "settings" /\ currentOrg' = currentOrg
        /\ page'.kind = "settings"
    BY <1>2 DEF EntersSettings, ShowInv
  <2>2. \A r \in Slots : IsNew(r, MainOps)' =>
           IsNew(r, MainOps) /\ Alike(flight'[r], flight[r])
    BY <1>2 DEF EntersSettings, Others, Alike, AgeAfter, IsNew, Op
  <2>3. ASSUME NEW r \in Slots, IsNew(r, MainOps)' PROVE WillDraw(flight[r])'
    BY <2>1, <2>2, <2>3 DEF MainRight, WillDraw, IsNew, Alike, Op
  <2> QED  BY <2>1, <2>3 DEF MainRight, TabRight
<1>3. ASSUME NEW s \in Slots, Leaves(s) PROVE MainRight' /\ TabRight'
  <2>1. /\ flight[s].age # "late" /\ ~crossed /\ ~barged
        /\ \A t \in Slots \ {s} : Op(t) \notin MainOps
        /\ Op(s) = "orgs" /\ asked' = asked /\ flight[s].age \in Ages
    BY <1>3 DEF Leaves
  <2>2. flight[s].age = "new"
    BY <1>0, <2>1 DEF InOrder, IsNew, Ages
  <2>3. asked' \in {"settings", "orgs"} /\ (asked' = "settings" => overdrawn')
    BY <1>3, <2>1, <2>2 DEF ShowInv, MainRight, WillDraw, IsNew, Op, Leaves
  <2>4. \A r \in Slots \ {s} : flight'[r].op \notin MainOps
    BY <1>3, <2>1, OthersAge DEF Leaves, Ageing
  <2>5. flight'[s].op = "orgs"
    BY <1>3 DEF Leaves
  <2>6. MainRight'
    BY <2>3, <2>4, <2>5 DEF MainRight, WillDraw, IsNew, Quiet, Op
  <2> QED  BY <1>3, <2>6 DEF TabRight, Leaves
<1>4. ASSUME NEW s \in Slots, Op(s) \in MainOps, flight[s].age \in Ages,
             crossed' = (crossed \/ flight[s].age = "late"), barged' = barged,
             NEW tab, Others({s}, Use(s), tab), asked' = asked, currentOrg' = currentOrg
      PROVE  /\ MainRight /\ TabRight
             /\ \A r \in Slots \ {s} : IsNew(r, MainOps)' => WillDraw(flight[r])'
             /\ (\A r \in Slots \ {s} : flight'[r].op \notin MainOps) =>
                   flight[s].age = "new" /\ WillDraw(flight[s])
  <2>1. MainRight /\ TabRight /\ flight[s].age # "late"
    BY <1>4 DEF ShowInv
  <2>2. Ageing({s}, MainOps, Use(s))
    BY <1>4, OthersAge
  <2>3. ASSUME NEW r \in Slots \ {s}, IsNew(r, MainOps)' PROVE WillDraw(flight[r])'
    <3>1. IsNew(r, MainOps) /\ Alike(flight'[r], flight[r])
      BY <1>4, <2>2, <2>3 DEF IsNew, Ageing, AgeAfter, Others, Op
    <3> QED  BY <1>4, <2>1, <3>1 DEF MainRight, WillDraw, Alike
  <2>4. ASSUME \A r \in Slots \ {s} : flight'[r].op \notin MainOps
        PROVE  flight[s].age = "new" /\ WillDraw(flight[s])
    <3>1. \A r \in Slots \ {s} : ~IsNew(r, MainOps)
      BY <2>2, <2>4 DEF Ageing, IsNew
    <3>2. flight[s].age = "new"
      BY <1>0, <1>4, <2>1, <3>1 DEF InOrder, IsNew, Ages
    <3> QED  BY <1>4, <2>1, <3>2 DEF MainRight, IsNew
  <2> QED  BY <2>1, <2>3, <2>4
<1>4a. ASSUME ~crossed, ~barged, asked = "settings" PROVE overdrawn \/ page.kind = "settings"
  BY <1>4a DEF ShowInv, MainRight
<1>5. ASSUME NEW s \in Slots, DrawsMain(s) PROVE MainRight' /\ TabRight'
  <2>1. /\ \A r \in Slots \ {s} : IsNew(r, MainOps)' => WillDraw(flight[r])'
        /\ (\A r \in Slots \ {s} : flight'[r].op \notin MainOps) => WillDraw(flight[s])
    <3>1. /\ Op(s) \in MainOps /\ flight[s].age \in Ages
          /\ crossed' = (crossed \/ flight[s].age = "late") /\ barged' = barged
          /\ Others({s}, Use(s), "gone") /\ asked' = asked /\ currentOrg' = currentOrg
      BY <1>5 DEF DrawsMain
    <3> QED  BY <1>4, <3>1
  <2>2. flight'[s].op \notin MainOps
    BY <1>5 DEF DrawsMain
  <2>3. ASSUME Quiet(MainOps)'
        PROVE  /\ (asked # "settings" => page.kind \in Wanted)'
               /\ page'.kind = "detail" => currentOrg' # None
    <3>1. WillDraw(flight[s])
      BY <2>1, <2>3 DEF Quiet, Op
    <3> QED  BY <1>5, <3>1 DEF WillDraw, Wanted, DrawsMain, Op
  <2>4a. asked' = "settings" => overdrawn'
    BY <1>4a, <1>5 DEF DrawsMain
  <2>4. MainRight'
    BY <2>1, <2>2, <2>3, <2>4a DEF MainRight, IsNew, Op
  <2>5. ASSUME page'.kind = "detail" PROVE TabRight'
    <3>1. /\ page'.pane.shows = "instances" /\ page'.tab = "instances"
          /\ ~overdrawn' => askedTab' = "instances"
      BY <1>5, <2>5 DEF DrawsMain
    <3>2. \A r \in Slots : flight'[r].op \notin Fetched
      BY <1>5, OthersAge DEF DrawsMain
    <3> QED  BY <3>1, <3>2 DEF TabRight, IsNew, Op
  <2> QED  BY <2>4, <2>5 DEF TabRight
<1>6. ASSUME NEW s \in Slots, GoesOnMain(s) PROVE MainRight' /\ TabRight'
  <2>1. /\ MainRight /\ TabRight
        /\ \A r \in Slots \ {s} : IsNew(r, MainOps)' => WillDraw(flight[r])'
    <3>1. /\ Op(s) \in MainOps /\ flight[s].age \in Ages
          /\ crossed' = (crossed \/ flight[s].age = "late") /\ barged' = barged
          /\ Others({s}, Use(s), "same") /\ asked' = asked /\ currentOrg' = currentOrg
      BY <1>6 DEF GoesOnMain, place
    <3> QED  BY <1>4, <3>1
  <2>2. flight'[s].op \in MainOps
    BY <1>6 DEF GoesOnMain
  <2>3. ASSUME IsNew(s, MainOps)' PROVE WillDraw(flight[s])'
    <3>1. IsNew(s, MainOps)
      BY <1>6, <2>3 DEF IsNew, GoesOnMain
    <3>2. WillDraw(flight[s])
      BY <2>1, <3>1 DEF MainRight
    <3> QED  BY <1>6, <3>2 DEF WillDraw, GoesOnMain, place, Op
  <2>4. MainRight'
    BY <1>6, <2>1, <2>2, <2>3 DEF MainRight, Quiet, Op, GoesOnMain, place
  <2>5. /\ Ageing({s}, Fetched, "same") /\ Op(s) \notin Fetched /\ page' = page
        /\ UNCHANGED place
    BY <1>6, OthersAge DEF GoesOnMain
  <2>6. \A r \in Slots \ {s} : Op(r) \in Fetched => flight'[r].op = Op(r)
    BY <1>6 DEF GoesOnMain, Others, Alike, Op
  <2>7. TabRight'
    BY <2>1, <2>2, <2>5, <2>6 DEF TabRight, IsNew, Quiet, Op, Ageing, AgeAfter, place
  <2> QED  BY <2>4, <2>7
<1>7. ASSUME NEW s \in Slots, Refreshes(s) PROVE MainRight' /\ TabRight'
  <2>1. /\ Ageing({s}, MainOps, "older") /\ Ageing({s}, Fetched, "same")
        /\ flight'[s].op = "detail" /\ flight'[s].org = currentOrg
        /\ Op(s) \notin Fetched /\ page' = page
        /\ currentOrg' = currentOrg /\ UNCHANGED place
    BY <1>7, OthersAge DEF Refreshes
  <2>0. asked' = "orgs" /\ ~crossed /\ ~barged
    BY <1>7 DEF Refreshes, place
  <2>2. \A r \in Slots : IsNew(r, MainOps)' => r = s
    BY <2>1 DEF IsNew, Op, Ageing, AgeAfter
  <2>3. WillDraw(flight[s])'
    BY <2>0, <2>1 DEF WillDraw
  <2>4. MainRight'
    BY <2>0, <2>1, <2>2, <2>3 DEF MainRight, Quiet, Op
  <2>5. \A r \in Slots \ {s} : Op(r) \in Fetched => flight'[r].op = Op(r)
    BY <1>7 DEF Refreshes, Others, Alike, Op
  <2>6. TabRight'
    BY <2>0, <2>1, <2>5 DEF ShowInv, TabRight, IsNew, Quiet, Op, Ageing, AgeAfter, place
  <2> QED  BY <2>4, <2>6
<1>8. ASSUME NEW s \in Slots, NEW t \in Fetched, AsksTab(s, t)
      PROVE  MainRight' /\ TabRight'
  <2>1. PICK touched : touched = {s}
    OBVIOUS
  <2>2. /\ MainRight /\ TabRight /\ asked' = asked /\ currentOrg' = currentOrg
        /\ page'.kind = page.kind /\ page.kind = "detail"
        /\ overdrawn /\ asked = "settings" => overdrawn'
        /\ Others(touched, "same", "older")
        /\ \A r \in touched : Op(r) \notin MainOps /\ flight'[r].op \notin MainOps
    BY <1>8, <2>1 DEF AsksTab, ShowInv
  <2>3. MainRight'
    BY <2>2, MainKept
  <2>4. /\ Ageing({s}, Fetched, "older") /\ flight'[s].op = t /\ page'.tab = t
        /\ t # "instances" /\ (~overdrawn' => page'.tab = askedTab')
    BY <1>8, <2>2, OthersAge DEF AsksTab, TabRight
  <2>5. \A r \in Slots : IsNew(r, Fetched)' => r = s
    BY <2>4 DEF IsNew, Op, Ageing, AgeAfter
  <2>6. TabRight'
    BY <2>4, <2>5 DEF TabRight, Quiet, Op
  <2> QED  BY <2>3, <2>6
<1>9. ASSUME DrawsInstances PROVE MainRight' /\ TabRight'
  <2>1. PICK touched : touched = {}
    OBVIOUS
  <2>2. /\ MainRight /\ asked' = asked /\ currentOrg' = currentOrg
        /\ page'.kind = page.kind /\ page.kind = "detail"
        /\ overdrawn /\ asked = "settings" => overdrawn'
        /\ Others(touched, "same", "same")
        /\ \A r \in touched : Op(r) \notin MainOps /\ flight'[r].op \notin MainOps
    BY <1>9, <2>1 DEF DrawsInstances, ShowInv, drawn
  <2>3. MainRight'
    BY <2>2, MainKept
  <2>4. /\ page'.tab = "instances" /\ page'.pane.shows = "instances"
        /\ askedTab' = "instances"
    BY <1>9 DEF DrawsInstances
  <2>7. TabRight'
    BY <2>4 DEF TabRight
  <2> QED  BY <2>3, <2>7
<1>10. ASSUME NEW s \in Slots, DrawsTab(s) PROVE MainRight' /\ TabRight'
  <2>1. PICK touched, tab : touched = {s} /\ tab = Use(s)
    OBVIOUS
  <2>2. /\ MainRight /\ TabRight /\ asked' = asked /\ currentOrg' = currentOrg
        /\ page'.kind = page.kind /\ flight[s].age \in {"new", "old"}
        /\ page.kind = "detail" /\ askedTab' = askedTab
        /\ overdrawn \/ page.tab = "instances" => overdrawn'
    BY <1>10 DEF DrawsTab, ShowInv, Ages
  <2>3. /\ Others(touched, "same", tab)
        /\ \A r \in touched : Op(r) \notin MainOps /\ flight'[r].op \notin MainOps
    BY <1>10, <2>1 DEF DrawsTab
  <2>4. MainRight'
    BY <2>2, <2>3, MainKept
  <2>5. Ageing({s}, Fetched, Use(s)) /\ Op(s) \in Fetched
    BY <1>10, OthersAge DEF DrawsTab, Use
  <2>6. \A r \in Slots \ {s} : Op(r) \in Fetched => flight'[r].op = Op(r)
    BY <1>10 DEF DrawsTab, Others, Alike, Use, Op
  <2>7. flight'[s].op \notin Fetched /\ page'.tab = page.tab /\ page.kind = "detail"
    BY <1>10 DEF DrawsTab
  <2>8. ASSUME NEW r \in Slots, IsNew(r, Fetched)'
        PROVE  flight'[r].op = page'.tab \/ page'.tab = "instances"
    <3>1. r # s /\ IsNew(r, Fetched)
      BY <2>5, <2>7, <2>8 DEF IsNew, Op, Ageing, AgeAfter, Use
    <3> QED  BY <2>2, <2>6, <2>7, <3>1 DEF TabRight, IsNew
  <2>9. ASSUME Quiet(Fetched)', page'.tab # "instances"
        PROVE  page'.pane.shows \in {page'.tab, "failed"}
    <3>1. \A r \in Slots \ {s} : Op(r) \notin Fetched
      BY <2>5, <2>9 DEF Quiet, Op, Ageing
    <3>2. IsNew(s, Fetched)
      BY <1>0, <2>2, <2>5, <3>1 DEF InOrder, IsNew
    <3>3. Op(s) = page.tab
      BY <2>2, <2>7, <2>9, <3>2 DEF TabRight
    <3> QED  BY <1>10, <2>7, <3>3 DEF DrawsTab
  <2>10. TabRight'
    BY <2>2, <2>7, <2>8, <2>9 DEF TabRight, Op
  <2> QED  BY <2>4, <2>10
<1>11. ASSUME Rests PROVE MainRight' /\ TabRight'
  <2>1. /\ MainRight /\ TabRight /\ currentOrg' = currentOrg
        /\ asked' = asked /\ askedTab' = askedTab /\ overdrawn' = overdrawn
        /\ page'.kind = page.kind
        /\ page.kind = "detail" => page'.tab = page.tab /\ page'.pane.shows = page.pane.shows
    BY <1>11 DEF Rests, ShowInv, place, drawn
  <2>2. \A r \in Slots : /\ flight'[r].op \in Draws <=> Op(r) \in Draws
                         /\ Op(r) \in Draws => /\ flight'[r].op = Op(r)
                                               /\ flight'[r].age = flight[r].age
                         /\ Op(r) = "detail" => flight'[r].org = flight[r].org
    BY <1>11 DEF Rests
  <2>3. ASSUME NEW r \in Slots, IsNew(r, MainOps)' PROVE WillDraw(flight[r])'
    <3>1. IsNew(r, MainOps) /\ flight'[r].op = Op(r)
      BY <2>2, <2>3 DEF IsNew, Op
    <3> QED  BY <2>1, <2>2, <3>1 DEF MainRight, WillDraw, Op
  <2>4. ASSUME Quiet(MainOps)'
        PROVE  /\ (asked # "settings" => page.kind \in Wanted)'
               /\ page'.kind = "detail" => currentOrg' # None
    <3>1. Quiet(MainOps)
      BY <2>2, <2>4 DEF Quiet, Op
    <3> QED  BY <2>1, <3>1 DEF MainRight, Wanted
  <2>5. TabRight'
    BY <2>1, <2>2 DEF TabRight, Quiet, IsNew, Op
  <2>6. MainRight'
    BY <2>1, <2>3, <2>4 DEF MainRight
  <2> QED  BY <2>5, <2>6
<1> QED
  BY <1>1, <1>2, <1>3, <1>5, <1>6, <1>7, <1>8, <1>9, <1>10, <1>11 DEF Moves

-----------------------------------------------------------------------------
(* What the rows show: rows that miss a command of this user are about to be  *)
(* drawn again.                                                               *)

\* The reply for the instances, while no later one is asked for.  Once they are
\* listed, nobody who asked earlier may write state.instances.
HeardMain ==
    \A s \in Slots : IsNew(s, {"detail"}) =>
        /\ flight[s].listed =>
              /\ \A t \in Slots \ {s} : Op(t) \in MainOps => flight[t].age = "late"
              /\ ~Owed("instances") => UpToDate(instances) /\ UpToDate(flight[s].rows)
        /\ flight[s].dirty => Owed("instances")

HeardTab == \A s \in Slots : IsNew(s, Fetched) /\ flight[s].dirty => Owed(Op(s))

Drawn ==
    page.kind = "detail" =>
        /\ Quiet(MainOps) => UpToDate(instances) \/ Owed("instances")
        /\ ~UpToDate(page.pane.rows) =>
              \/ page.pane.shows = "instances" /\ (~Quiet(MainOps) \/ Owed("instances"))
              \/ page.pane.shows \in Fetched
                 /\ (~Quiet(Fetched) \/ Owed(page.pane.shows))

FreshInv == ~crossed /\ ~barged /\ ~cut => HeardMain /\ HeardTab /\ Drawn

\* What is needed of the types and of OneOrgPerTab.
Placed ==
    /\ asked \in {"dashboard", "orgs", "settings"} /\ None \notin Orgs
    /\ \A r \in Slots : /\ Op(r) = "detail" => flight[r].org \in Orgs
                        /\ Op(r) \in Fetched => page.kind = "detail"

LEMMA OthersOwe ==
    ASSUME NEW touched, NEW main, NEW tab, Others(touched, main, tab),
           \A r \in touched : Op(r) \in Draws,
           NEW t, Owed(t)
    PROVE  Owed(t)'
<1>1. PICK r \in Slots :
          \/ Op(r) = "command" /\ flight[r].done /\ Subject(flight[r].to.cmd) = t
          \/ t = "instances" /\ flight[r] = Timer
  BY DEF Owed
<1>2. Op(r) \notin Draws
  BY <1>1, Apart DEF Op
<1>3. flight'[r] = flight[r]
  BY <1>2, Apart DEF Others
<1> QED  BY <1>1, <1>3 DEF Owed, Op

\* A move within a tab leaves what was heard of the instances.
LEMMA HeardMainKept ==
    ASSUME HeardMain, instances' = instances,
           Owed("instances") => Owed("instances")',
           NEW touched, NEW tab, Others(touched, "same", tab),
           \A r \in touched : Op(r) \notin MainOps /\ flight'[r].op \notin MainOps
    PROVE  HeardMain' /\ (Quiet(MainOps)' <=> Quiet(MainOps))
<1>1. \A r \in Slots : /\ flight'[r].op \in MainOps <=> Op(r) \in MainOps
                       /\ Op(r) \in MainOps => /\ Alike(flight'[r], flight[r])
                                               /\ flight'[r].age = flight[r].age
  BY Apart DEF Others, Alike, AgeAfter, Op
<1>2. ASSUME NEW s \in Slots, IsNew(s, {"detail"})'
      PROVE  /\ flight'[s].listed =>
                  /\ \A t \in Slots \ {s} : flight'[t].op \in MainOps => flight'[t].age = "late"
                  /\ ~Owed("instances")' => UpToDate(instances)' /\ UpToDate(flight'[s].rows)
             /\ flight'[s].dirty => Owed("instances")'
  <2>1. IsNew(s, {"detail"}) /\ Alike(flight'[s], flight[s]) /\ Op(s) = "detail"
    BY <1>1, <1>2, Apart DEF IsNew, Alike, Op
  <2> QED  BY <1>1, <2>1 DEF HeardMain, Alike, Op
<1>3. Quiet(MainOps)' <=> Quiet(MainOps)
  BY <1>1 DEF Quiet, Op
<1> QED  BY <1>2, <1>3 DEF HeardMain, Op

\* Likewise a move of #main that leaves the tab.
LEMMA HeardTabKept ==
    ASSUME HeardTab, \A t \in Fetched : Owed(t) => Owed(t)',
           NEW touched, NEW main, Others(touched, main, "same"),
           \A r \in touched : Op(r) \notin Fetched /\ flight'[r].op \notin Fetched
    PROVE  HeardTab' /\ (Quiet(Fetched)' <=> Quiet(Fetched))
<1>1. \A r \in Slots : /\ flight'[r].op \in Fetched <=> Op(r) \in Fetched
                       /\ Op(r) \in Fetched => /\ Alike(flight'[r], flight[r])
                                               /\ flight'[r].age = flight[r].age
  BY Apart DEF Others, Alike, AgeAfter, Op
<1>2. ASSUME NEW s \in Slots, IsNew(s, Fetched)', flight'[s].dirty
      PROVE  Owed(Op(s))'
  <2>1. IsNew(s, Fetched) /\ flight[s].dirty /\ flight'[s].op = Op(s) /\ Op(s) \in Fetched
    BY <1>1, <1>2 DEF IsNew, Alike, Op
  <2>2. PICK t \in Fetched : t = Op(s)
    BY <2>1
  <2>3. Owed(t)'
    BY <2>1, <2>2 DEF HeardTab
  <2> QED  BY <2>1, <2>2, <2>3 DEF Owed, Op
<1>3. Quiet(Fetched)' <=> Quiet(Fetched)
  BY <1>1 DEF Quiet, Op
<1> QED  BY <1>2, <1>3 DEF HeardTab

LEMMA FreshKept ==
    ASSUME FreshInv, ShowInv, OrderInv, Placed, Moves
    PROVE  FreshInv'
<1> USE Apart
<1> SUFFICES ASSUME ~crossed', ~barged', ~cut' PROVE HeardMain' /\ HeardTab' /\ Drawn'
  BY DEF FreshInv
<1>0. InOrder(MainOps) /\ InOrder(Fetched)
  BY DEF OrderInv
<1>1. ASSUME page'.kind # "detail",
             \A r \in Slots : flight'[r].op \notin Fetched,
             \A r \in Slots : ~IsNew(r, {"detail"})'
      PROVE  HeardMain' /\ HeardTab' /\ Drawn'
  BY <1>1 DEF HeardMain, HeardTab, Drawn, IsNew, Op
<1>2. ASSUME NEW s \in Slots, EntersMain(s) PROVE HeardMain' /\ HeardTab' /\ Drawn'
  <2>1. /\ Ageing({s}, MainOps, "older")
        /\ \A r \in Slots : flight'[r].op \notin Fetched
        /\ flight'[s].op \in {"dashboard", "orgs"}
    BY <1>2, OthersAge DEF EntersMain
  <2>2. \A r \in Slots : ~IsNew(r, {"detail"})'
    BY <2>1 DEF IsNew, Op, Ageing, AgeAfter
  <2>3. page'.kind # "detail"
    BY <1>2 DEF EntersMain
  <2> QED  BY <1>1, <2>1, <2>2, <2>3
<1>3. ASSUME NEW ended \in SUBSET Slots, EntersSettings(ended)
      PROVE  HeardMain' /\ HeardTab' /\ Drawn'
  <2>1. PICK tab : tab = "gone"
    OBVIOUS
  <2>2. /\ HeardMain /\ instances' = instances
        /\ Owed("instances") => Owed("instances")'
        /\ Others(ended, "same", tab)
        /\ \A r \in ended : Op(r) \notin MainOps /\ flight'[r].op \notin MainOps
    BY <1>3, <2>1 DEF FreshInv, EntersSettings, StillOwed
  <2>3. HeardMain'
    BY <2>2, HeardMainKept
  <2>4. \A r \in Slots : flight'[r].op \notin Fetched
    BY <1>3, OthersAge DEF EntersSettings
  <2>5. page'.kind # "detail"
    BY <1>3 DEF EntersSettings
  <2> QED  BY <2>3, <2>4, <2>5 DEF HeardTab, Drawn, IsNew, Op
<1>4. ASSUME NEW s \in Slots, Leaves(s) PROVE HeardMain' /\ HeardTab' /\ Drawn'
  <2>0. \A t \in Slots \ {s} : Op(t) \notin MainOps
    BY <1>4 DEF Leaves
  <2>1. flight'[s].op = "orgs" /\ page'.kind # "detail"
    BY <1>4 DEF Leaves
  <2>2. /\ Ageing({s}, MainOps, Use(s))
        /\ \A r \in Slots : flight'[r].op \notin Fetched
    BY <1>4, OthersAge DEF Leaves
  <2>3. \A r \in Slots : ~IsNew(r, {"detail"})'
    BY <2>0, <2>1, <2>2 DEF IsNew, Op, Ageing
  <2> QED  BY <1>1, <2>1, <2>2, <2>3
<1>5. ASSUME NEW s \in Slots, Op(s) \in MainOps, flight[s].age \in {"new", "old"},
             HeardMain, NEW tab, Others({s}, Use(s), tab)
      PROVE  /\ \A t : Owed(t) => Owed(t)'
             /\ \A r \in Slots \ {s} : IsNew(r, {"detail"})' =>
                   ~flight'[r].listed /\ (flight'[r].dirty => Owed("instances")')
             /\ (\A r \in Slots \ {s} : flight'[r].op \notin MainOps) =>
                   flight[s].age = "new"
  <2>1. Ageing({s}, MainOps, Use(s))
    BY <1>5, OthersAge
  <2>2. PICK touched, main : touched = {s} /\ main = Use(s)
    OBVIOUS
  <2>3. Others(touched, main, tab) /\ \A r \in touched : Op(r) \in Draws
    BY <1>5, <2>2
  <2>4. ASSUME NEW t, Owed(t) PROVE Owed(t)'
    BY <2>3, <2>4, OthersOwe
  <2>5. ASSUME NEW r \in Slots \ {s}, IsNew(r, {"detail"})'
        PROVE  ~flight'[r].listed /\ (flight'[r].dirty => Owed("instances")')
    <3>1. /\ Op(r) = "detail" /\ IsNew(r, {"detail"}) /\ Alike(flight'[r], flight[r])
          /\ Use(s) = "same"
      BY <1>5, <2>1, <2>5 DEF IsNew, Op, Ageing, AgeAfter, Use, Others, Alike
    <3>2. ~flight[r].listed
      BY <1>5, <3>1 DEF HeardMain, Use
    <3> QED  BY <1>5, <2>4, <3>1, <3>2 DEF HeardMain, Alike, Op
  <2>6. ASSUME \A r \in Slots \ {s} : flight'[r].op \notin MainOps
        PROVE  flight[s].age = "new"
    <3>1. \A r \in Slots \ {s} : ~IsNew(r, MainOps)
      BY <2>1, <2>6 DEF Ageing, IsNew
    <3> QED  BY <1>0, <1>5, <3>1 DEF InOrder, IsNew
  <2> QED  BY <2>4, <2>5, <2>6
<1>6. ASSUME NEW s \in Slots, DrawsMain(s) PROVE HeardMain' /\ HeardTab' /\ Drawn'
  <2>1. HeardMain /\ flight[s].age \in {"new", "old"}
    BY <1>6 DEF FreshInv, DrawsMain, Ages
  <2>2. /\ Op(s) \in MainOps /\ Others({s}, Use(s), "gone") /\ flight'[s].op = "idle"
        /\ instances' = instances
    BY <1>6 DEF DrawsMain
  <2>3. /\ \A t : Owed(t) => Owed(t)'
        /\ \A r \in Slots \ {s} : IsNew(r, {"detail"})' =>
              ~flight'[r].listed /\ (flight'[r].dirty => Owed("instances")')
        /\ (\A r \in Slots \ {s} : flight'[r].op \notin MainOps) => flight[s].age = "new"
    BY <1>5, <2>1, <2>2
  <2>4. \A r \in Slots : flight'[r].op \notin Fetched
    BY <2>2, OthersAge
  <2>5. HeardMain'
    BY <2>2, <2>3 DEF HeardMain, IsNew, Op
  <2>6. HeardTab'
    BY <2>4 DEF HeardTab, IsNew, Op
  <2>7. ASSUME page'.kind = "detail", Quiet(MainOps)'
        PROVE  Owed("instances")' \/ (UpToDate(instances)' /\ UpToDate(page'.pane.rows))
    <3>1. IsNew(s, {"detail"}) /\ flight[s].listed /\ page'.pane.rows = flight[s].rows
      BY <1>6, <2>3, <2>7 DEF DrawsMain, IsNew, Quiet, Op
    <3> QED  BY <2>1, <2>2, <2>3, <3>1 DEF HeardMain
  <2>8. page'.kind = "detail" => page'.pane.shows = "instances"
    BY <1>6 DEF DrawsMain
  <2>9. Drawn'
    BY <2>7, <2>8 DEF Drawn
  <2> QED  BY <2>5, <2>6, <2>9
<1>7. ASSUME NEW s \in Slots, GoesOnMain(s) PROVE HeardMain' /\ HeardTab' /\ Drawn'
  <2>1. HeardMain /\ HeardTab /\ Drawn /\ flight[s].age \in {"new", "old"}
    BY <1>7 DEF FreshInv, GoesOnMain, Ages
  <2>2. /\ Op(s) \in MainOps /\ Others({s}, Use(s), "same") /\ flight'[s].op \in MainOps
        /\ flight'[s].age = flight[s].age /\ page' = page
    BY <1>7 DEF GoesOnMain
  <2>3. /\ \A t : Owed(t) => Owed(t)'
        /\ \A r \in Slots \ {s} : IsNew(r, {"detail"})' =>
              ~flight'[r].listed /\ (flight'[r].dirty => Owed("instances")')
    BY <1>5, <2>1, <2>2
  <2>4. ASSUME IsNew(s, {"detail"})'
        PROVE  /\ flight'[s].listed =>
                     /\ \A t \in Slots \ {s} : flight'[t].op \in MainOps => flight'[t].age = "late"
                     /\ ~Owed("instances")' => UpToDate(instances)' /\ UpToDate(flight'[s].rows)
               /\ flight'[s].dirty => Owed("instances")'
    <3>1. \A t \in Slots \ {s} : flight'[t].op \in MainOps => flight'[t].age = "late"
      <4>1. Ageing({s}, MainOps, Use(s)) /\ Use(s) = "late"
        BY <2>2, <2>4, OthersAge DEF Use, IsNew, Op
      <4> QED  BY <4>1 DEF Ageing, AgeAfter
    <3>2. CASE flight'[s] = OrgDetail(currentOrg, flight[s].age)
      BY <3>2
    <3>3. CASE /\ Op(s) = "detail" /\ flight'[s].dirty = flight[s].dirty
               /\ flight'[s].rows = instances'
               /\ ~flight[s].dirty => UpToDate(instances)'
      <4>1. flight[s].dirty => Owed("instances")
        BY <2>1, <2>2, <2>4, <3>3 DEF HeardMain, IsNew, Op
      <4> QED  BY <2>3, <3>1, <3>3, <4>1
    <3> QED  BY <1>7, <2>4, <3>2, <3>3 DEF GoesOnMain, IsNew, Op
  <2>5. HeardMain'
    BY <2>3, <2>4 DEF HeardMain, IsNew, Op
  <2>6. PICK touched, main : touched = {s} /\ main = Use(s)
    OBVIOUS
  <2>7. HeardTab' /\ (Quiet(Fetched)' <=> Quiet(Fetched))
    <3>1. Others(touched, main, "same")
          /\ \A r \in touched : Op(r) \notin Fetched /\ flight'[r].op \notin Fetched
      BY <2>2, <2>6
    <3> QED  BY <2>1, <2>3, <3>1, HeardTabKept
  <2>8. ~Quiet(MainOps)'
    BY <2>2 DEF Quiet, Op
  <2>9. PICK shows : shows = page.pane.shows
    OBVIOUS
  <2>10. Owed(shows) => Owed(shows)'
    BY <2>3
  <2>11. Drawn'
    BY <2>1, <2>2, <2>7, <2>8, <2>9, <2>10 DEF Drawn, Owed
  <2> QED  BY <2>5, <2>7, <2>11
<1>8. ASSUME NEW s \in Slots, Refreshes(s) PROVE HeardMain' /\ HeardTab' /\ Drawn'
  <2>1. HeardTab /\ Drawn /\ page' = page
    BY <1>8 DEF FreshInv, Refreshes
  <2>2. /\ Ageing({s}, MainOps, "older")
        /\ flight'[s].op = "detail" /\ flight'[s].listed = FALSE /\ flight'[s].dirty = FALSE
        /\ \A t \in Fetched : Owed(t) => Owed(t)'
    BY <1>8, OthersAge DEF Refreshes, StillOwed
  <2>3. \A r \in Slots : IsNew(r, {"detail"})' => r = s
    BY <2>2 DEF IsNew, Op, Ageing, AgeAfter
  <2>4. HeardMain'
    BY <2>2, <2>3 DEF HeardMain
  <2>5. PICK touched : touched = {s}
    OBVIOUS
  <2>6. HeardTab' /\ (Quiet(Fetched)' <=> Quiet(Fetched))
    <3>1. Others(touched, "older", "same")
          /\ \A r \in touched : Op(r) \notin Fetched /\ flight'[r].op \notin Fetched
      BY <1>8, <2>2, <2>5 DEF Refreshes
    <3> QED  BY <2>1, <2>2, <3>1, HeardTabKept
  <2>7. ~Quiet(MainOps)'
    BY <2>2 DEF Quiet, Op
  <2>8. PICK shows : shows = page.pane.shows
    OBVIOUS
  <2>9. shows \in Fetched /\ Owed(shows) => Owed(shows)'
    BY <2>2
  <2>10. Drawn'
    BY <2>1, <2>6, <2>7, <2>8, <2>9 DEF Drawn, Owed
  <2> QED  BY <2>4, <2>6, <2>10
<1>9. ASSUME NEW s \in Slots, NEW t \in Fetched, AsksTab(s, t)
      PROVE  HeardMain' /\ HeardTab' /\ Drawn'
  <2>1. /\ HeardMain /\ Drawn /\ instances' = instances
        /\ page.kind = "detail" /\ UpToDate(page'.pane.rows)
    BY <1>9 DEF FreshInv, AsksTab
  <2>2. Owed("instances") => Owed("instances")'
    BY <1>9 DEF AsksTab, StillOwed
  <2>3. PICK touched : touched = {s}
    OBVIOUS
  <2>4. HeardMain' /\ (Quiet(MainOps)' <=> Quiet(MainOps))
    <3>1. Others(touched, "same", "older")
          /\ \A r \in touched : Op(r) \notin MainOps /\ flight'[r].op \notin MainOps
      BY <1>9, <2>3 DEF AsksTab
    <3> QED  BY <2>1, <2>2, <3>1, HeardMainKept
  <2>5. Ageing({s}, Fetched, "older") /\ flight'[s].dirty = FALSE
    BY <1>9, OthersAge DEF AsksTab
  <2>6. \A r \in Slots : IsNew(r, Fetched)' => r = s
    BY <2>5 DEF IsNew, Op, Ageing, AgeAfter
  <2>7. HeardTab'
    BY <2>5, <2>6 DEF HeardTab
  <2>8. Drawn'
    BY <2>1, <2>2, <2>4 DEF Drawn
  <2> QED  BY <2>4, <2>7, <2>8
<1>10. ASSUME DrawsInstances PROVE HeardMain' /\ HeardTab' /\ Drawn'
  <2>1. PICK touched : touched = {}
    OBVIOUS
  <2>2. /\ HeardMain /\ HeardTab /\ Drawn /\ instances' = instances
        /\ page.kind = "detail"
        /\ page'.pane = [shows |-> "instances", rows |-> instances]
        /\ Others(touched, "same", "same")
    BY <1>10, <2>1 DEF FreshInv, DrawsInstances, drawn
  <2>3. \A t : Owed(t) => Owed(t)'
    BY <2>1, <2>2, OthersOwe
  <2>4. HeardMain' /\ (Quiet(MainOps)' <=> Quiet(MainOps))
    BY <2>1, <2>2, <2>3, HeardMainKept
  <2>7. HeardTab'
    BY <2>1, <2>2, <2>3, HeardTabKept
  <2>8. Drawn'
    BY <2>2, <2>3, <2>4 DEF Drawn
  <2> QED  BY <2>4, <2>7, <2>8
<1>11. ASSUME NEW s \in Slots, DrawsTab(s) PROVE HeardMain' /\ HeardTab' /\ Drawn'
  <2>1. PICK touched, tab : touched = {s} /\ tab = Use(s)
    OBVIOUS
  <2>2. /\ HeardMain /\ HeardTab /\ Drawn /\ instances' = instances
        /\ flight[s].age \in {"new", "old"} /\ Op(s) \in Fetched
        /\ page.kind = "detail" /\ flight'[s].op = "idle"
    BY <1>11 DEF FreshInv, DrawsTab, Ages
  <2>3. /\ Others(touched, "same", tab)
        /\ \A r \in touched : /\ Op(r) \in Draws
                              /\ Op(r) \notin MainOps /\ flight'[r].op \notin MainOps
    BY <1>11, <2>1 DEF DrawsTab
  <2>4. \A t : Owed(t) => Owed(t)'
    BY <2>3, OthersOwe
  <2>5. HeardMain' /\ (Quiet(MainOps)' <=> Quiet(MainOps))
    BY <2>2, <2>3, <2>4, HeardMainKept
  <2>6. Ageing({s}, Fetched, Use(s))
    BY <1>11, OthersAge DEF DrawsTab, Use
  <2>6a. \A r \in Slots \ {s} : Op(r) \in Fetched => Alike(flight'[r], flight[r])
    BY <1>11 DEF DrawsTab, Use, Others
  <2>7. ASSUME NEW r \in Slots, IsNew(r, Fetched)', flight'[r].dirty PROVE Owed(Op(r))'
    <3>1. /\ r # s /\ IsNew(r, Fetched) /\ Op(r) \in Fetched
      BY <2>2, <2>6, <2>7 DEF IsNew, Op, Ageing, AgeAfter, Use
    <3>2. flight'[r].op = Op(r) /\ flight[r].dirty
      BY <2>6a, <2>7, <3>1 DEF Alike, Op
    <3>3. PICK t : t = Op(r)
      OBVIOUS
    <3>4. Owed(t)'
      BY <2>2, <2>4, <3>1, <3>2, <3>3 DEF HeardTab
    <3> QED  BY <3>2, <3>3, <3>4 DEF Owed, Op
  <2>8. HeardTab'
    BY <2>7 DEF HeardTab
  <2>9. ASSUME ~UpToDate(page'.pane.rows), Quiet(Fetched)'
        PROVE  page'.pane.shows \in Fetched /\ Owed(page.pane.shows)'
    <3>1. page'.pane.shows = Op(s) /\ flight[s].dirty
      BY <1>11, <2>9 DEF DrawsTab
    <3>2. \A r \in Slots \ {s} : ~IsNew(r, Fetched)
      BY <2>6, <2>9 DEF Quiet, Op, Ageing, IsNew
    <3>3. IsNew(s, Fetched)
      BY <1>0, <2>2, <3>2 DEF InOrder, IsNew
    <3>4. PICK t : t = Op(s)
      OBVIOUS
    <3>5. Owed(t)'
      BY <2>2, <2>4, <3>1, <3>3, <3>4 DEF HeardTab
    <3> QED  BY <2>2, <3>1, <3>4, <3>5 DEF Owed
  <2>10. ~UpToDate(page'.pane.rows) => page'.pane.shows \in Fetched
    BY <1>11, <2>2 DEF DrawsTab
  <2>11. Drawn'
    BY <2>2, <2>4, <2>5, <2>9, <2>10 DEF Drawn
  <2> QED  BY <2>5, <2>8, <2>11
<1>12. ASSUME Rests PROVE HeardMain' /\ HeardTab' /\ Drawn'
  <2>1. HeardMain /\ HeardTab /\ Drawn /\ MainRight
    BY <1>12 DEF FreshInv, ShowInv, Rests, drawn
  <2>2. \A r \in Slots : /\ flight'[r].op \in Draws <=> Op(r) \in Draws
                         /\ Op(r) \in Draws => /\ flight'[r].op = Op(r)
                                               /\ flight'[r].age = flight[r].age
    BY <1>12 DEF Rests
  <2>3. /\ Quiet(MainOps)' <=> Quiet(MainOps)
        /\ Quiet(Fetched)' <=> Quiet(Fetched)
    BY <2>2 DEF Quiet, Op
  <2>4. Owed("instances") => Owed("instances")' \/ currentOrg = None
    BY <1>12 DEF Rests
  <2>5. \A t \in Fetched : Owed(t) => Owed(t)' \/ page.kind # "detail"
    BY <1>12 DEF Rests
  <2>6. ASSUME NEW s \in Slots, IsNew(s, {"detail"})'
        PROVE  /\ flight'[s].listed =>
                     /\ \A t \in Slots \ {s} : flight'[t].op \in MainOps => flight'[t].age = "late"
                     /\ ~Owed("instances")' => UpToDate(instances)' /\ UpToDate(flight'[s].rows)
               /\ flight'[s].dirty => Owed("instances")'
    <3>1. Op(s) = "detail" /\ IsNew(s, {"detail"}) /\ IsNew(s, MainOps)
      BY <2>2, <2>6 DEF IsNew, Op
    <3>2. currentOrg # None
      BY <2>1, <3>1 DEF MainRight, WillDraw, Placed, Op
    <3>3. /\ flight'[s].listed = flight[s].listed
          /\ \/ flight'[s].dirty = flight[s].dirty /\ flight'[s].rows = flight[s].rows
             \/ Owed("instances")'
          /\ instances' = instances \/ Owed("instances")'
      BY <1>12, <3>1 DEF Rests
    <3>4. /\ flight[s].listed =>
                /\ \A t \in Slots \ {s} : Op(t) \in MainOps => flight[t].age = "late"
                /\ ~Owed("instances") => UpToDate(instances) /\ UpToDate(flight[s].rows)
          /\ flight[s].dirty => Owed("instances")
      BY <2>1, <3>1 DEF HeardMain
    <3>5. flight'[s].listed =>
             \A t \in Slots \ {s} : flight'[t].op \in MainOps => flight'[t].age = "late"
      BY <2>2, <3>3, <3>4 DEF Op
    <3> QED  BY <2>4, <3>2, <3>3, <3>4, <3>5
  <2>7. HeardMain'
    BY <2>6 DEF HeardMain, Op
  <2>8. ASSUME NEW s \in Slots, IsNew(s, Fetched)', flight'[s].dirty PROVE Owed(Op(s))'
    <3>1. /\ Op(s) \in Fetched /\ IsNew(s, Fetched) /\ flight'[s].op = Op(s)
          /\ page.kind = "detail"
      BY <2>2, <2>8 DEF IsNew, Op, Placed
    <3>2. PICK t \in Fetched : t = Op(s)
      BY <3>1
    <3>3. flight'[s].dirty = flight[s].dirty \/ Owed(t)'
      <4>1. flight'[s].dirty = flight[s].dirty \/ Owed(Op(s))'
        BY <1>12, <3>1 DEF Rests
      <4>2. ASSUME Owed(Op(s))' PROVE Owed(t)'
        BY <3>1, <3>2, <4>2 DEF Owed, Op
      <4> QED  BY <4>1, <4>2
    <3>4. Owed(t)'
      BY <2>1, <2>5, <2>8, <3>1, <3>2, <3>3 DEF HeardTab
    <3> QED  BY <3>1, <3>2, <3>4 DEF Owed, Op
  <2>9. HeardTab'
    BY <2>8 DEF HeardTab
  <2>10. ASSUME page.kind = "detail", Quiet(MainOps) PROVE currentOrg # None
    BY <2>1, <2>10 DEF MainRight, Wanted, Placed
  <2>11. PICK shows : shows = page.pane.shows
    OBVIOUS
  <2>12. ASSUME page'.kind = "detail", Quiet(MainOps)'
         PROVE  UpToDate(instances)' \/ Owed("instances")'
    <3>1. page.kind = "detail" /\ (instances' = instances \/ Owed("instances")')
      BY <1>12, <2>12 DEF Rests
    <3> QED  BY <2>1, <2>3, <2>4, <2>10, <2>12, <3>1 DEF Drawn
  <2>13. ASSUME page'.kind = "detail", ~UpToDate(page'.pane.rows)
         PROVE  /\ page'.pane.shows = shows
                /\ \/ shows = "instances" /\ (~Quiet(MainOps)' \/ Owed("instances")')
                   \/ shows \in Fetched /\ (~Quiet(Fetched)' \/ Owed(shows)')
    <3>1. CASE page' = page
      <4>1. \/ shows = "instances" /\ (~Quiet(MainOps) \/ Owed("instances"))
            \/ shows \in Fetched /\ (~Quiet(Fetched) \/ Owed(shows))
        BY <2>1, <2>11, <2>13, <3>1 DEF Drawn
      <4> QED  BY <2>3, <2>4, <2>5, <2>10, <2>11, <2>13, <3>1, <4>1
    <3>2. CASE /\ page'.pane.shows = page.pane.shows
               /\ page.pane.shows \in Fetched \cup {"instances"}
               /\ Owed(page.pane.shows)'
      <4>1. Owed(shows)'
        <5>1. PICK later : later = page'.pane.shows
          OBVIOUS
        <5>2. later = shows
          BY <2>11, <3>2, <5>1
        <5>3. Owed(later)'
          BY <3>2, <5>1 DEF Owed
        <5> QED  BY <5>2, <5>3
      <4> QED  BY <2>11, <3>2, <4>1
    <3> QED  BY <1>12, <3>1, <3>2 DEF Rests
  <2>14. Drawn'
    BY <2>12, <2>13 DEF Drawn, Owed
  <2> QED  BY <2>7, <2>9, <2>14
<1> QED
  BY <1>2, <1>3, <1>4, <1>6, <1>7, <1>8, <1>9, <1>10, <1>11, <1>12 DEF Moves

-----------------------------------------------------------------------------
(* Every step is one of the moves.                                            *)

LEMMA AgeAlike ==
    ASSUME NEW c \in Flights, c.op \in Draws, NEW age
    PROVE  LET d == [c EXCEPT !.age = age] IN Alike(d, c) /\ d.age = age
<1>1. CASE c.op = "dashboard"
  BY <1>1, FlightKinds DEF DashboardCalls, Alike, Fetched
<1>2. CASE c.op = "orgs"
  BY <1>2, FlightKinds DEF OrgsCalls, Alike, Fetched
<1>3. CASE c.op = "detail"
  BY <1>3, FlightKinds DEF DetailCalls, Alike, Fetched
<1>4. CASE c.op \in Fetched
  BY <1>4, FlightKinds DEF TabCalls, Alike, Fetched
<1> QED  BY <1>1, <1>2, <1>3, <1>4, Apart

LEMMA OlderOrLate ==
    ASSUME NEW F \in [Slots -> Flights], NEW ops \in {MainOps, Fetched}, NEW r \in Slots
    PROVE  /\ F[r].op \notin ops => Older(F, ops)[r] = F[r] /\ Late(F, ops)[r] = F[r]
           /\ F[r].op \in ops =>
                 /\ Alike(Older(F, ops)[r], F[r]) /\ Alike(Late(F, ops)[r], F[r])
                 /\ Older(F, ops)[r].age = AgeAfter("older", F[r].age)
                 /\ Late(F, ops)[r].age = AgeAfter("late", F[r].age)
<1>1. /\ Older(F, ops)[r] = IF F[r].op \in ops /\ F[r].age = "new"
                            THEN [F[r] EXCEPT !.age = "old"] ELSE F[r]
      /\ Late(F, ops)[r] = IF F[r].op \in ops
                           THEN [F[r] EXCEPT !.age = "late"] ELSE F[r]
  BY DEF Older, Late
<1>2. ASSUME F[r].op \in ops
      PROVE  /\ Alike([F[r] EXCEPT !.age = "old"], F[r])
             /\ [F[r] EXCEPT !.age = "old"].age = "old"
             /\ Alike([F[r] EXCEPT !.age = "late"], F[r])
             /\ [F[r] EXCEPT !.age = "late"].age = "late"
  <2>1. F[r] \in Flights /\ F[r].op \in Draws
    BY <1>2, Apart
  <2> QED  BY <2>1, AgeAlike
<1>3. Alike(F[r], F[r])
  BY DEF Alike
<1> QED  BY <1>1, <1>2, <1>3 DEF AgeAfter

\* A render of #main starts.
LEMMA StartMainMoves ==
    ASSUME IInv, NEW s \in Slots, NEW f, StartMain(flight, s, f)
    PROVE  Others({s}, "older", "gone") /\ flight'[s] = f /\ page' = Loading
<1> DEFINE D == Detached(flight)
<1>1. /\ flight \in [Slots -> Flights] /\ D \in [Slots -> Flights]
      /\ \A r \in Slots : D[r] = IF flight[r].op \in Fetched THEN Gone ELSE flight[r]
  BY Typed, DetachedFlights
<1>2. flight' = [Older(D, MainOps) EXCEPT ![s] = f] /\ page' = Loading
  BY DEF StartMain
<1> HIDE DEF D
<1>3. Older(D, MainOps) \in [Slots -> Flights]
  BY <1>1, Aged
<1>4. ASSUME NEW r \in Slots \ {s}
      PROVE  /\ Op(r) \in MainOps => /\ Alike(flight'[r], flight[r])
                                     /\ flight'[r].age = AgeAfter("older", flight[r].age)
             /\ Op(r) \in Fetched => flight'[r] = Gone
             /\ Op(r) \notin MainOps \cup Fetched => flight'[r] = flight[r]
  <2>1. flight'[r] = Older(D, MainOps)[r]
    BY <1>2, <1>3
  <2> QED  BY <1>1, <2>1, OlderOrLate, Apart DEF Op
<1> QED  BY <1>2, <1>3, <1>4 DEF Others

\* The settings are drawn, and the functions of some slots end.
LEMMA SettingsMoves ==
    ASSUME IInv, NEW ended \in SUBSET Slots, NEW F \in [Slots -> Flights],
           \A r \in Slots : F[r] = IF r \in ended THEN Idle ELSE flight[r],
           renderSettings(F)
    PROVE  /\ Others(ended, "same", "gone") /\ page' = Settings
           /\ \A r \in ended : flight'[r] = Idle
<1>1. \A r \in Slots : flight'[r] = IF F[r].op \in Fetched THEN Gone ELSE F[r]
  BY DetachedFlights DEF renderSettings
<1>2. \A r \in Slots : Alike(flight[r], flight[r])
                       /\ flight[r].age = AgeAfter("same", flight[r].age)
  BY DEF Alike, AgeAfter
<1>3. \A r \in Slots \ ended :
         /\ Op(r) \in MainOps => /\ Alike(flight'[r], flight[r])
                                 /\ flight'[r].age = AgeAfter("same", flight[r].age)
         /\ Op(r) \in Fetched => flight'[r] = Gone
         /\ Op(r) \notin MainOps \cup Fetched => flight'[r] = flight[r]
  BY <1>1, <1>2, Apart DEF Op
<1>4. page' = Settings /\ \A r \in ended : flight'[r] = Idle
  BY <1>1, Apart DEF renderSettings
<1> QED  BY <1>3, <1>4 DEF Others

\* The reply of slot s is used, for #main or for the tab.
LEMMA UsedMoves ==
    ASSUME IInv, NEW s \in Slots, NEW f \in Flights
    PROVE  /\ flight' = Used(s, MainOps, f) =>
                 flight'[s] = f /\ Others({s}, Use(s), "same")
           /\ flight' = Used(s, Fetched, f) =>
                 flight'[s] = f /\ Others({s}, "same", Use(s))
           /\ flight' = Detached(Used(s, MainOps, f)) /\ f.op \notin Fetched =>
                 flight'[s] = f /\ Others({s}, Use(s), "gone")
<1>0. flight \in [Slots -> Flights]
  BY Typed
<1>1. ASSUME NEW ops \in {MainOps, Fetched}, NEW r \in Slots \ {s}
      PROVE  /\ Op(r) \notin ops => Used(s, ops, f)[r] = flight[r]
             /\ Op(r) \in ops => /\ Alike(Used(s, ops, f)[r], flight[r])
                                 /\ Used(s, ops, f)[r].age = AgeAfter(Use(s), flight[r].age)
  <2>1. Used(s, ops, f)[r] = IF flight[s].age = "new" THEN Late(flight, ops)[r] ELSE flight[r]
    BY <1>0, Aged DEF Used
  <2>2. Alike(flight[r], flight[r])
    BY DEF Alike
  <2> QED  BY <1>0, <2>1, <2>2, OlderOrLate DEF Op, Use, AgeAfter
<1>2. /\ Used(s, MainOps, f) \in [Slots -> Flights] /\ Used(s, MainOps, f)[s] = f
      /\ Used(s, Fetched, f) \in [Slots -> Flights] /\ Used(s, Fetched, f)[s] = f
  BY <1>0, UsedFlights
<1>3. \A r \in Slots : Alike(flight[r], flight[r])
                       /\ flight[r].age = AgeAfter("same", flight[r].age)
  BY DEF Alike, AgeAfter
<1>4. Use(s) # "gone"
  BY DEF Use
<1>5. ASSUME flight' = Used(s, MainOps, f)
      PROVE  flight'[s] = f /\ Others({s}, Use(s), "same")
  BY <1>1, <1>2, <1>3, <1>5, Apart DEF Others
<1>6. ASSUME flight' = Used(s, Fetched, f)
      PROVE  flight'[s] = f /\ Others({s}, "same", Use(s))
  BY <1>1, <1>2, <1>3, <1>4, <1>6, Apart DEF Others
<1>7. ASSUME flight' = Detached(Used(s, MainOps, f)), f.op \notin Fetched
      PROVE  flight'[s] = f /\ Others({s}, Use(s), "gone")
  <2>1. \A r \in Slots : flight'[r] = IF Used(s, MainOps, f)[r].op \in Fetched THEN Gone
                                      ELSE Used(s, MainOps, f)[r]
    BY <1>2, <1>7, DetachedFlights
  <2>2. \A r \in Slots \ {s} : Used(s, MainOps, f)[r].op = Op(r)
    BY <1>1 DEF Alike, Op
  <2> QED  BY <1>1, <1>2, <1>7, <2>1, <2>2, Apart DEF Others
<1> QED  BY <1>5, <1>6, <1>7

\* A later request for the same place is sent.
LEMMA OlderMoves ==
    ASSUME IInv, NEW s \in Slots, NEW f
    PROVE  /\ flight' = [Older(flight, MainOps) EXCEPT ![s] = f] =>
                 flight'[s] = f /\ Others({s}, "older", "same")
           /\ flight' = [Older(flight, Fetched) EXCEPT ![s] = f] =>
                 flight'[s] = f /\ Others({s}, "same", "older")
<1>0. /\ flight \in [Slots -> Flights]
      /\ Older(flight, MainOps) \in [Slots -> Flights]
      /\ Older(flight, Fetched) \in [Slots -> Flights]
  BY Typed, Aged
<1>1. \A r \in Slots : Alike(flight[r], flight[r])
                       /\ flight[r].age = AgeAfter("same", flight[r].age)
  BY DEF Alike, AgeAfter
<1>2. ASSUME flight' = [Older(flight, MainOps) EXCEPT ![s] = f]
      PROVE  flight'[s] = f /\ Others({s}, "older", "same")
  <2>1. flight'[s] = f /\ \A r \in Slots \ {s} : flight'[r] = Older(flight, MainOps)[r]
    BY <1>0, <1>2
  <2> QED  BY <1>0, <1>1, <2>1, OlderOrLate, Apart DEF Others, Op
<1>3. ASSUME flight' = [Older(flight, Fetched) EXCEPT ![s] = f]
      PROVE  flight'[s] = f /\ Others({s}, "same", "older")
  <2>1. flight'[s] = f /\ \A r \in Slots \ {s} : flight'[r] = Older(flight, Fetched)[r]
    BY <1>0, <1>3
  <2> QED  BY <1>0, <1>1, <2>1, OlderOrLate, Apart DEF Others, Op
<1> QED  BY <1>2, <1>3

\* What the commands change.
LEMMA Subjects ==
    /\ \A c \in {"createInstance", "action"} : Subject(c) = "instances"
    /\ \A c \in {"invite", "suspend", "remove", "decide"} : Subject(c) = "members"
    /\ \A c \in {"createWebhook", "toggle", "deleteWebhook"} : Subject(c) = "webhooks"
    /\ \A c \in {"createOrg", "ping"} : Subject(c) = None
    /\ {"members", "webhooks"} \subseteq Fetched
    /\ None \notin Fetched \cup {"instances", "loading", "failed"}
  BY DEF Subject, None, Fetched

\* What slot s does not owe is owed still.
LEMMA OwedElsewhere ==
    ASSUME NEW s \in Slots,
           \A r \in Slots \ {s} : Op(r) \in {"command", "timer"} => flight'[r] = flight[r],
           NEW t, Owed(t),
           ~(Op(s) = "command" /\ Subject(flight[s].to.cmd) = t),
           ~(t = "instances" /\ flight[s] = Timer)
    PROVE  Owed(t)'
<1>1. PICK r \in Slots :
          \/ Op(r) = "command" /\ flight[r].done /\ Subject(flight[r].to.cmd) = t
          \/ t = "instances" /\ flight[r] = Timer
  BY DEF Owed
<1>2. flight'[r] = flight[r]
  BY <1>1, Apart DEF Op
<1> QED  BY <1>1, <1>2 DEF Owed, Op

LEMMA OthersElsewhere ==
    ASSUME NEW s \in Slots, NEW main, NEW tab, Others({s}, main, tab)
    PROVE  \A r \in Slots \ {s} : Op(r) \in {"command", "timer"} => flight'[r] = flight[r]
  BY Apart DEF Others

LEMMA FreeOwesNothing ==
    ASSUME NEW s \in Slots, IsFree(s), NEW main, NEW tab, Others({s}, main, tab)
    PROVE  \A t : Owed(t) => Owed(t)'
<1>1. Op(s) = "idle" /\ flight[s] # Timer
  BY DEF IsFree, Op, Idle, Timer
<1>2. ASSUME NEW t, Owed(t) PROVE Owed(t)'
  BY <1>1, <1>2, OthersElsewhere, OwedElsewhere
<1> QED  BY <1>2

LEMMA GoingMoves ==
    ASSUME IInv, NEW s \in Slots,
           \/ ClickDashboard(s) \/ ClickOrgs(s) \/ backToOrgs(s)
           \/ \E o \in Orgs : selectOrg(s, o)
    PROVE  Moves
<1>1. CASE ClickDashboard(s)
  <2>1. EntersMain(s)
    BY <1>1, StartMainMoves DEF ClickDashboard, renderDashboard, GoTo, Ask, EntersMain
  <2> QED  BY <2>1 DEF Moves
<1>2. CASE ClickOrgs(s) \/ backToOrgs(s) \/ \E o \in Orgs : selectOrg(s, o)
  <2>1. renderOrgs(flight, s) /\ asked' = "orgs"
    BY <1>2 DEF ClickOrgs, backToOrgs, selectOrg, GoTo, Ask
  <2>2. EntersMain(s)
    BY <2>1, StartMainMoves DEF renderOrgs, EntersMain
  <2> QED  BY <2>2 DEF Moves
<1> QED  BY <1>1, <1>2

LEMMA SettingsMove ==
    ASSUME IInv, goToSettings
    PROVE  Moves
<1>1. /\ renderSettings(flight) /\ asked' = "settings" /\ flight \in [Slots -> Flights]
      /\ UNCHANGED <<currentOrg, instances, drawn, cut>>
  BY Typed DEF goToSettings, GoTo, Ask
<1>2. PICK ended \in SUBSET Slots : ended = {}
  OBVIOUS
<1>3. Others(ended, "same", "gone") /\ page' = Settings
  BY <1>1, <1>2, SettingsMoves
<1>4. PICK touched, main, tab : touched = ended /\ main = "same" /\ tab = "gone"
  OBVIOUS
<1>5. StillOwed({"instances"})
  BY <1>2, <1>3, <1>4, OthersOwe DEF StillOwed
<1>6. EntersSettings(ended)
  BY <1>1, <1>2, <1>3, <1>5 DEF EntersSettings, drawn
<1> QED  BY <1>6 DEF Moves

LEMMA SwitchMoves ==
    ASSUME IInv, NEW s \in Slots, NEW t \in ShownTabs, switchTab(s, t)
    PROVE  Moves
<1>1. /\ page.kind = "detail" /\ flight \in [Slots -> Flights]
      /\ page \in [kind : {"detail"}, org : Orgs, tab : Tabs, pane : Panes]
      /\ UNCHANGED <<currentOrg, asked, instances, drawn, cut>>
      /\ askedTab' = t /\ (overdrawn /\ asked = "settings" => overdrawn')
  BY Typed DEF switchTab, store
<1>2. CASE t = "instances"
  <2>1. /\ page' = [page EXCEPT !.tab = "instances",
                                !.pane = [shows |-> "instances", rows |-> instances]]
        /\ flight' = flight
    BY <1>2 DEF switchTab, ShowInstances
  <2>2. \A r \in Slots : Alike(flight[r], flight[r])
                         /\ flight[r].age = AgeAfter("same", flight[r].age)
    BY DEF Alike, AgeAfter
  <2>3. Others({}, "same", "same")
    BY <2>1, <2>2, Apart DEF Others, Op
  <2>4. /\ page'.kind = "detail" /\ page'.org = page.org /\ page'.tab = "instances"
        /\ page'.pane = [shows |-> "instances", rows |-> instances]
    BY <1>1, <2>1
  <2>5. DrawsInstances
    BY <1>1, <1>2, <2>3, <2>4 DEF DrawsInstances
  <2> QED  BY <2>5 DEF Moves
<1>3. CASE t # "instances"
  <2>1. /\ page' = [page EXCEPT !.tab = t, !.pane = Blank("loading")]
        /\ flight' = [Older(flight, Fetched) EXCEPT ![s] = Asking(t)]
        /\ IsFree(s) /\ t \in Fetched
    BY <1>3, TabAssumption DEF switchTab, Tabs
  <2>2. /\ page'.kind = "detail" /\ page'.org = page.org /\ page'.tab = t
        /\ page'.pane = Blank("loading")
    BY <1>1, <2>1
  <2>3. flight'[s] = Asking(t) /\ Others({s}, "same", "older")
    BY <2>1, OlderMoves
  <2>4. \A u : Owed(u) => Owed(u)'
    BY <2>1, <2>3, FreeOwesNothing
  <2>5. Op(s) \notin Draws
    BY <2>1, Apart DEF IsFree, Op
  <2>6. StillOwed((Fetched \cup {"instances"}) \ {t})
    BY <2>4 DEF StillOwed
  <2>7. (barged => barged') /\ UNCHANGED <<currentOrg, asked, instances, crossed, cut>>
    BY <1>1 DEF drawn
  <2>8. AsksTab(s, t)
    BY <1>1, <2>1, <2>2, <2>3, <2>5, <2>6, <2>7 DEF AsksTab
  <2> QED  BY <2>1, <2>8 DEF Moves
<1> QED  BY <1>2, <1>3

\* What waits in slot s.
LEMMA InSlot ==
    ASSUME IInv, NEW s \in Slots
    PROVE  /\ flight[s] \in Flights /\ Op(s) = flight[s].op
           /\ Op(s) \in Draws => flight[s].age \in Ages
           /\ Op(s) = "dashboard" => flight[s] \in DashboardCalls
           /\ Op(s) = "detail" => flight[s] \in DetailCalls
           /\ Op(s) \in Fetched => flight[s] \in TabCalls
           /\ Op(s) = "command" => flight[s] \in CommandCalls
<1>1. flight[s] \in Flights /\ Op(s) = flight[s].op
  BY Typed DEF Op
<1>2. Op(s) \in Draws => flight[s].age \in Ages
  BY <1>1, FlightKinds, Apart DEF DashboardCalls, OrgsCalls, DetailCalls, TabCalls, MainOps
<1> QED  BY <1>1, <1>2, FlightKinds

\* Rows that no command has overtaken show them all.
LEMMA AnswersShow ==
    ASSUME NEW dirty, NEW from, NEW rows \in Answers(dirty, from)
    PROVE  ~dirty => rows.fresh
<1>1. PICK fresh \in IF dirty THEN BOOLEAN ELSE {TRUE} : rows = [from |-> from, fresh |-> fresh]
  BY DEF Answers
<1>2. ASSUME ~dirty PROVE rows.fresh
  <2>1. fresh = TRUE
    BY <1>1, <1>2
  <2> QED  BY <1>1, <2>1
<1> QED  BY <1>2

LEMMA DashboardReplyMoves ==
    ASSUME IInv, NEW s \in Slots, DashboardReply(s)
    PROVE  Moves
<1>1. /\ Op(s) = "dashboard" /\ Op(s) \in MainOps /\ flight[s].age \in Ages
      /\ flight[s] \in DashboardCalls
  BY InSlot, Apart DEF DashboardReply
<1>2. Idle \in Flights /\ Idle.op \notin Fetched
  BY FlightSets, Apart
<1>3. crossed' = (crossed \/ flight[s].age = "late")
  BY DEF DashboardReply, Crosses
<1>4. UNCHANGED <<currentOrg, asked, askedTab, barged, cut, instances>>
  BY DEF DashboardReply
<1>5. CASE /\ page' = Failed \/ page' = [kind |-> "dashboard", offers |-> orgs]
           /\ flight' = Detached(Used(s, MainOps, Idle)) /\ Overdraws(AtSettings)
  <2>1. /\ flight'[s] = Idle /\ Others({s}, Use(s), "gone")
        /\ overdrawn \/ page.kind = "settings" => overdrawn'
    BY <1>2, <1>5, UsedMoves DEF Overdraws, AtSettings
  <2>2. page' = Failed \/ page'.kind = "dashboard"
    BY <1>5
  <2>3. DrawsMain(s)
    BY <1>1, <1>3, <1>4, <2>1, <2>2 DEF DrawsMain
  <2> QED  BY <2>3 DEF Moves
<1>6. CASE /\ flight' = Used(s, MainOps, [flight[s] EXCEPT !.counting = TRUE])
           /\ UNCHANGED <<page, overdrawn>>
  <2>1. /\ [flight[s] EXCEPT !.counting = TRUE] \in Flights
        /\ [flight[s] EXCEPT !.counting = TRUE].age = flight[s].age
        /\ [flight[s] EXCEPT !.counting = TRUE].op = "dashboard"
    BY <1>1, FlightSets DEF DashboardCalls
  <2>2. /\ flight'[s].age = flight[s].age /\ flight'[s].op = "dashboard"
        /\ Others({s}, Use(s), "same")
    BY <1>6, <2>1, UsedMoves
  <2>3. GoesOnMain(s)
    BY <1>1, <1>3, <1>4, <1>6, <2>2 DEF GoesOnMain, place
  <2> QED  BY <2>3 DEF Moves
<1> QED  BY <1>5, <1>6 DEF DashboardReply

LEMMA OrgsReplyMoves ==
    ASSUME IInv, NEW s \in Slots, OrgsReply(s)
    PROVE  Moves
<1>1. Op(s) = "orgs" /\ Op(s) \in MainOps /\ flight[s].age \in Ages
  BY InSlot, Apart DEF OrgsReply
<1>2. Idle \in Flights /\ Idle.op \notin Fetched
  BY FlightSets, Apart
<1>3. crossed' = (crossed \/ flight[s].age = "late")
  BY DEF OrgsReply, Crosses
<1>4. UNCHANGED <<asked, askedTab, cut, instances>>
  BY DEF OrgsReply
<1>5. CASE /\ page' = Failed \/ (currentOrg = None /\ page' = [kind |-> "list", offers |-> orgs'])
           /\ flight' = Detached(Used(s, MainOps, Idle))
           /\ UNCHANGED <<currentOrg, barged>> /\ Overdraws(AtSettings)
  <2>1. /\ flight'[s] = Idle /\ Others({s}, Use(s), "gone")
        /\ overdrawn \/ page.kind = "settings" => overdrawn'
    BY <1>2, <1>5, UsedMoves DEF Overdraws, AtSettings
  <2>2. page' = Failed \/ (currentOrg = None /\ page'.kind = "list")
    BY <1>5
  <2>3. DrawsMain(s)
    BY <1>1, <1>3, <1>4, <1>5, <2>1, <2>2 DEF DrawsMain
  <2> QED  BY <2>3 DEF Moves
<1>6. CASE OpenCurrent(s) /\ orgs' \in SUBSET Orgs
  <2>1. currentOrg \in Orgs /\ OrgDetail(currentOrg, flight[s].age) \in Flights
    BY <1>1, <1>6, StartsTyped DEF OpenCurrent
  <2>2. /\ flight'[s] = OrgDetail(currentOrg, flight[s].age)
        /\ Others({s}, Use(s), "same")
    BY <1>6, <2>1, UsedMoves DEF OpenCurrent
  <2>3. flight'[s].age = flight[s].age
    BY <2>2, Apart
  <2>4. UNCHANGED <<page, currentOrg, overdrawn, barged>>
    BY <1>6 DEF OpenCurrent
  <2>5. GoesOnMain(s)
    BY <1>1, <1>3, <1>4, <2>1, <2>2, <2>3, <2>4 DEF GoesOnMain, place
  <2> QED  BY <2>5 DEF Moves
<1>7. CASE LeaveCurrent(s)
  <2> DEFINE f == [op |-> "orgs", age |-> flight[s].age]
  <2>1. f \in Flights /\ f.op \notin Fetched
    BY <1>1, StartsTyped, Apart
  <2>2. flight'[s] = f /\ Others({s}, Use(s), "gone")
    BY <1>7, <2>1, UsedMoves DEF LeaveCurrent
  <2>3. /\ page' = Loading /\ currentOrg' = None
        /\ barged' = (barged \/ \E t \in Slots \ {s} : Op(t) \in MainOps)
        /\ overdrawn \/ page.kind = "settings" => overdrawn'
    BY <1>7 DEF LeaveCurrent, Overdraws, AtSettings
  <2>4. Leaves(s)
    BY <1>1, <1>3, <1>4, <2>2, <2>3 DEF Leaves
  <2> QED  BY <2>4 DEF Moves
<1> QED  BY <1>5, <1>6, <1>7 DEF OrgsReply, ListAll

LEMMA DetailReplyMoves ==
    ASSUME IInv, NEW s \in Slots, DetailReply(s)
    PROVE  Moves
<1>1. /\ Op(s) = "detail" /\ Op(s) \in MainOps /\ flight[s].age \in Ages
      /\ flight[s] \in DetailCalls /\ flight[s].org \in Orgs
  BY InSlot, Apart DEF DetailReply, DetailCalls
<1>2. crossed' = (crossed \/ flight[s].age = "late")
  BY DEF DetailReply, Crosses
<1>3. UNCHANGED <<currentOrg, asked, askedTab, barged, cut>>
  BY DEF DetailReply
<1>4. CASE ~flight[s].listed
  <2> DEFINE f == [flight[s] EXCEPT !.listed = TRUE, !.rows = instances']
  <2>1. /\ instances' \in Answers(flight[s].dirty, {flight[s].org}) \cup {NoRows}
        /\ flight' = Used(s, MainOps, f) /\ UNCHANGED <<page, overdrawn>>
    BY <1>4 DEF DetailReply
  <2>2. instances' \in Rows
    <3>1. NoRows \in Rows
      BY DEF NoRows, Rows
    <3> QED  BY <1>1, <1>4, <3>1, AnswersTyped DEF DetailReply
  <2>3. ~flight[s].dirty => UpToDate(instances)'
    BY <2>1, AnswersShow DEF NoRows, UpToDate
  <2>4. /\ f \in Flights /\ f.op = "detail" /\ f.org = flight[s].org
        /\ f.dirty = flight[s].dirty /\ f.rows = instances' /\ f.age = flight[s].age
    BY <1>1, <2>2, FlightSets DEF DetailCalls
  <2> HIDE DEF f
  <2>5. flight'[s] = f /\ Others({s}, Use(s), "same")
    BY <2>1, <2>4, UsedMoves
  <2>6. GoesOnMain(s)
    BY <1>1, <1>2, <1>3, <2>1, <2>3, <2>4, <2>5 DEF GoesOnMain, place
  <2> QED  BY <2>6 DEF Moves
<1>5. CASE flight[s].listed
  <2>1. /\ page' = [kind |-> "detail", org |-> flight[s].org, tab |-> "instances",
                    pane |-> [shows |-> "instances", rows |-> flight[s].rows]]
        /\ flight' = Detached(Used(s, MainOps, Idle))
        /\ instances' = instances
        /\ overdrawn \/ page.kind = "settings" \/ askedTab # "instances" => overdrawn'
    BY <1>5 DEF DetailReply, Overdraws, AtSettings
  <2>2. flight'[s] = Idle /\ Others({s}, Use(s), "gone")
    BY <2>1, UsedMoves, FlightSets, Apart
  <2>3. DrawsMain(s)
    BY <1>1, <1>2, <1>3, <1>5, <2>1, <2>2 DEF DrawsMain
  <2> QED  BY <2>3 DEF Moves
<1> QED  BY <1>4, <1>5

LEMMA TabReplyMoves ==
    ASSUME IInv, NEW s \in Slots, TabReply(s)
    PROVE  Moves
<1>1. Op(s) \in Fetched /\ flight[s].age \in Ages /\ Op(s) = flight[s].op
  BY InSlot, Apart DEF TabReply
<1>2. crossed' = (crossed \/ flight[s].age = "late")
  BY DEF TabReply, Crosses
<1>3. /\ UNCHANGED <<currentOrg, asked, askedTab, instances, barged, cut>>
      /\ overdrawn \/ page.tab = "instances" => overdrawn'
  BY DEF TabReply, Overdraws, store
<1>4. page.kind = "detail"
        /\ page \in [kind : {"detail"}, org : Orgs, tab : Tabs, pane : Panes]
  BY <1>1, Typed DEF IInv, OneOrgPerTab
<1>5. PICK pane \in Drawable(s) : DrawTab(s, pane)
  BY DEF TabReply
<1>6. \/ pane = Blank("failed")
      \/ pane.shows = Op(s) /\ (~flight[s].dirty => UpToDate(pane.rows))
  <2>1. pane = Blank("failed") \/ \E from : \E rows \in Answers(flight[s].dirty, from) :
           pane = [shows |-> flight[s].op, rows |-> rows]
    BY <1>5 DEF Drawable
  <2> QED  BY <1>1, <2>1, AnswersShow DEF UpToDate
<1>7. page' = [page EXCEPT !.pane = pane] /\ flight' = Used(s, Fetched, Idle)
  BY <1>5 DEF DrawTab
<1>8. /\ page'.kind = "detail" /\ page'.org = page.org /\ page'.tab = page.tab
      /\ page'.pane = pane
  BY <1>4, <1>7
<1>9. flight'[s] = Idle /\ Others({s}, "same", Use(s))
  BY <1>7, UsedMoves, FlightSets
<1>10. DrawsTab(s)
  BY <1>1, <1>2, <1>3, <1>4, <1>6, <1>8, <1>9 DEF DrawsTab
<1> QED  BY <1>10 DEF Moves

\* Slot s alone goes on, and draws nothing: what it owes it still owes, or the
\* user was not told, or is elsewhere.
Settles(t) ==
    \/ Owed(t)' \/ cut'
    \/ t = "instances" /\ currentOrg = None
    \/ t \in Fetched /\ page.kind # "detail"

LEMMA OneRests ==
    ASSUME NEW s \in Slots, \A r \in Slots \ {s} : flight'[r] = flight[r],
           \/ Op(s) \notin Draws /\ flight'[s].op \notin Draws
           \/ /\ Op(s) \in Fetched /\ Alike(flight'[s], flight[s])
              /\ flight'[s].age = flight[s].age,
           UNCHANGED <<page, instances, currentOrg, place, drawn>>, cut => cut',
           \A t \in Fetched \cup {"instances"} :
              \/ Op(s) = "command" /\ flight[s].done /\ Subject(flight[s].to.cmd) = t
              \/ t = "instances" /\ flight[s] = Timer
              => Settles(t)
    PROVE  Rests
<1>1. ASSUME NEW r \in Slots
      PROVE  /\ flight'[r].op \in Draws <=> Op(r) \in Draws
             /\ Op(r) \in Draws => flight'[r].op = Op(r) /\ flight'[r].age = flight[r].age
             /\ Op(r) = "detail" =>
                   /\ flight'[r].org = flight[r].org /\ flight'[r].listed = flight[r].listed
                   /\ flight'[r].dirty = flight[r].dirty /\ flight'[r].rows = flight[r].rows
             /\ Op(r) \in Fetched => flight'[r].dirty = flight[r].dirty
  BY Apart DEF Op, Alike
<1>2. ASSUME NEW t \in Fetched \cup {"instances"}, Owed(t) PROVE Settles(t)
  <2>1. \A r \in Slots \ {s} : Op(r) \in {"command", "timer"} => flight'[r] = flight[r]
    OBVIOUS
  <2>2. CASE /\ ~(Op(s) = "command" /\ Subject(flight[s].to.cmd) = t)
             /\ ~(t = "instances" /\ flight[s] = Timer)
    BY <1>2, <2>1, <2>2, OwedElsewhere DEF Settles
  <2>3. CASE t = "instances" /\ flight[s] = Timer
    BY <2>3
  <2>4. CASE Op(s) = "command" /\ Subject(flight[s].to.cmd) = t
    <3>1. CASE flight[s].done
      BY <2>4, <3>1
    <3>2. CASE ~flight[s].done
      <4>1. PICK r \in Slots :
                \/ Op(r) = "command" /\ flight[r].done /\ Subject(flight[r].to.cmd) = t
                \/ t = "instances" /\ flight[r] = Timer
        BY <1>2 DEF Owed
      <4>2. r \in Slots \ {s} /\ flight'[r] = flight[r]
        BY <2>4, <3>2, <4>1, Apart DEF Op
      <4>3. Owed(t)'
        BY <4>1, <4>2 DEF Owed, Op
      <4> QED  BY <4>3 DEF Settles
    <3> QED  BY <3>1, <3>2
  <2> QED  BY <2>2, <2>3, <2>4
<1>3. UNCHANGED <<currentOrg, place, drawn>> /\ page' = page /\ instances' = instances
  OBVIOUS
<1> QED  BY <1>1, <1>2, <1>3 DEF Rests, Settles

LEMMA StillRests ==
    ASSUME IInv, UNCHANGED <<flight, page, instances, currentOrg, place, drawn, cut>>
    PROVE  Rests
<1>1. \A t : Owed(t) => Owed(t)'
  BY DEF Owed, Op
<1>2. flight' = flight /\ page' = page /\ instances' = instances /\ cut' = cut
      /\ UNCHANGED <<currentOrg, place, drawn>>
  OBVIOUS
<1> QED  BY <1>1, <1>2 DEF Rests, Op

\* A free slot takes a command.
LEMMA SendRests ==
    ASSUME IInv, NEW s \in Slots, IsFree(s), NEW to, flight' = [flight EXCEPT ![s] = Command(to)],
           UNCHANGED <<page, instances, currentOrg, place, drawn, cut>>
    PROVE  Rests
<1>1. flight'[s].op = "command" /\ \A r \in Slots \ {s} : flight'[r] = flight[r]
  BY Typed DEF Command
<1>2. Op(s) = "idle" /\ flight[s] # Timer
  BY DEF IsFree, Op, Idle, Timer
<1> QED  BY <1>1, <1>2, OneRests, Apart

LEMMA CommandsRest ==
    ASSUME IInv, NEW s \in Slots,
           \/ Submit(s)
           \/ \E o \in Orgs : \/ PressAction(s, o) \/ PressDecide(s, o)
                              \/ PressToggle(s, o) \/ PressTest(s, o)
    PROVE  Moves
<1> USE DEF store, history
<1>1. CASE Submit(s)
  BY <1>1, SendRests DEF Submit, Moves
<1>2. ASSUME NEW c, NEW t, NEW o \in Orgs, Press(s, c, t, o) PROVE Rests
  BY <1>2, SendRests DEF Press
<1>3. CASE \E o \in Orgs : \/ PressAction(s, o) \/ PressDecide(s, o)
                           \/ PressToggle(s, o) \/ PressTest(s, o)
  BY <1>2, <1>3 DEF PressAction, PressDecide, PressToggle, PressTest, Moves
<1> QED  BY <1>1, <1>3

LEMMA OverlaysRest ==
    ASSUME IInv, Overlays \/ Dismiss
    PROVE  Moves
<1>1. UNCHANGED <<flight, page, instances, currentOrg, place, drawn, cut>>
  BY DEF Overlays, Dismiss, showCreateOrg, showCreateInstance, showInviteMember,
         showSuspendMember, removeMember, showCreateWebhook, deleteWebhook,
         showInstanceDetail, confirmAction, modal, store, history
<1> QED  BY <1>1, StillRests DEF Moves

LEMMA AskMoreRests ==
    ASSUME IInv, NEW s \in Slots, AskMore(s)
    PROVE  Moves
<1>1. Op(s) \in Fetched /\ flight[s] \in TabCalls /\ Op(s) = flight[s].op
  BY InSlot DEF AskMore, Fetched
<1>2. flight' = [flight EXCEPT ![s] = [[@ EXCEPT !.from = {flight[s].ask}] EXCEPT !.ask = currentOrg]]
  BY Typed DEF AskMore
<1>3. /\ \A r \in Slots \ {s} : flight'[r] = flight[r]
      /\ flight'[s] = [[flight[s] EXCEPT !.from = {flight[s].ask}] EXCEPT !.ask = currentOrg]
  BY <1>2, Typed
<1>4. Alike(flight'[s], flight[s]) /\ flight'[s].age = flight[s].age
  BY <1>1, <1>3, Apart DEF TabCalls, Alike
<1>5. Op(s) # "command" /\ flight[s] # Timer
  BY <1>1, Apart DEF Op
<1>6. UNCHANGED <<page, instances, currentOrg, place, drawn, cut>>
  BY DEF AskMore, store, history
<1> QED  BY <1>1, <1>3, <1>4, <1>5, <1>6, OneRests DEF Moves

LEMMA GoneReplyRests ==
    ASSUME IInv, NEW s \in Slots, GoneReply(s)
    PROVE  Moves
<1>1. Op(s) = "gone" /\ flight[s] # Timer
  BY DEF GoneReply, Op, Gone, Timer
<1>2. flight'[s] = Idle /\ \A r \in Slots \ {s} : flight'[r] = flight[r]
  BY Typed DEF GoneReply
<1>3. UNCHANGED <<page, instances, currentOrg, place, drawn, cut>>
  BY DEF GoneReply, store, history
<1> QED  BY <1>1, <1>2, <1>3, OneRests, Apart DEF Moves

LEMMA CarryOutRests ==
    ASSUME IInv, NEW s \in Slots, CarryOut(s)
    PROVE  Moves
<1> DEFINE c == flight[s]
<1>1. PICK subject, o : subject = Subject(c.to.cmd) /\ o = c.aim
  OBVIOUS
<1>2. /\ c \in CommandCalls /\ Op(s) = "command" /\ c.op = "command" /\ ~c.done
      /\ flight \in [Slots -> Flights]
  BY InSlot, Typed DEF CarryOut, Op
<1>3. subject \in {"instances", "members", "webhooks", None}
  <2>1. c.to.cmd \in AllCommands
    BY <1>2, CommandAssumption DEF CommandCalls, Targets
  <2> QED  BY <1>1, <2>1, Subjects DEF AllCommands, Forms, Confirmations
<1>4. /\ flight'[s] = [c EXCEPT !.done = TRUE]
      /\ \A r \in Slots \ {s} : flight'[r] = OutdatedFlight(flight[r], subject, o)
      /\ Outdate(subject, o)
      /\ UNCHANGED <<currentOrg, place, drawn>> /\ cut' = cut
  BY <1>1 DEF CarryOut, history
<1>5. /\ flight'[s].op = "command" /\ flight'[s].done = TRUE /\ flight'[s].to = c.to
  BY <1>2, <1>4 DEF CommandCalls
<1>6. Owed(subject)'
  BY <1>1, <1>5 DEF Owed, Op
<1>7. ASSUME NEW r \in Slots, Op(r) \in Draws
      PROVE  /\ flight'[r].op = Op(r) /\ flight'[r].age = flight[r].age
             /\ Op(r) = "detail" =>
                   /\ flight'[r].org = flight[r].org /\ flight'[r].listed = flight[r].listed
                   /\ \/ flight'[r].dirty = flight[r].dirty /\ flight'[r].rows = flight[r].rows
                      \/ subject = "instances"
             /\ Op(r) \in Fetched => flight'[r].dirty = flight[r].dirty \/ subject = Op(r)
  <2>1. /\ r # s /\ flight'[r] = OutdatedFlight(flight[r], subject, o) /\ Op(r) = flight[r].op
        /\ Op(r) = "detail" => flight[r] \in DetailCalls
        /\ Op(r) \in Fetched => flight[r] \in TabCalls
    BY <1>2, <1>4, <1>7, InSlot, Apart
  <2>2. CASE Op(r) = "detail" /\ subject = "instances" /\ flight[r].org = o
    <3>1. flight'[r] = [flight[r] EXCEPT !.dirty = TRUE, !.rows = Overtake(@, o)]
      BY <2>1, <2>2 DEF OutdatedFlight
    <3> QED  BY <2>1, <2>2, <3>1, Apart DEF DetailCalls
  <2>3. CASE Op(r) \in Fetched /\ Op(r) = subject /\ o \in flight[r].from \cup {flight[r].ask}
    <3>1. flight'[r] = [flight[r] EXCEPT !.dirty = TRUE]
      BY <2>1, <2>3, Apart DEF OutdatedFlight
    <3> QED  BY <2>1, <2>3, <3>1, Apart DEF TabCalls
  <2>4. CASE /\ ~(Op(r) = "detail" /\ subject = "instances" /\ flight[r].org = o)
             /\ ~(Op(r) \in Fetched /\ Op(r) = subject
                  /\ o \in flight[r].from \cup {flight[r].ask})
    BY <2>1, <2>4 DEF OutdatedFlight
  <2> QED  BY <2>2, <2>3, <2>4
<1>8. ASSUME NEW r \in Slots, Op(r) \notin Draws
      PROVE  flight'[r].op \notin Draws /\ (r # s => flight'[r] = flight[r])
  <2>1. CASE r = s
    BY <1>5, <2>1, Apart
  <2>2. CASE r # s
    <3>1. flight'[r] = flight[r]
      BY <1>4, <1>8, <2>2, Apart DEF OutdatedFlight, Op
    <3> QED  BY <1>8, <3>1 DEF Op
  <2> QED  BY <2>1, <2>2
<1>9. ASSUME NEW r \in Slots
      PROVE  /\ flight'[r].op \in Draws <=> Op(r) \in Draws
             /\ Op(r) \in Draws => /\ flight'[r].op = Op(r)
                                   /\ flight'[r].age = flight[r].age
             /\ Op(r) = "detail" =>
                   /\ flight'[r].org = flight[r].org /\ flight'[r].listed = flight[r].listed
                   /\ \/ flight'[r].dirty = flight[r].dirty /\ flight'[r].rows = flight[r].rows
                      \/ Owed("instances")'
  BY <1>6, <1>7, <1>8, Apart
<1>10. ASSUME NEW r \in Slots, Op(r) \in Fetched
       PROVE  flight'[r].dirty = flight[r].dirty \/ Owed(Op(r))'
  <2>1. CASE subject = Op(r)
    <3>1. flight'[r].op = subject
      BY <1>7, <1>10, <2>1, Apart
    <3> QED  BY <1>6, <3>1 DEF Owed, Op
  <2> QED  BY <1>7, <1>10, <2>1, Apart
<1>11. \/ page' = page
       \/ /\ page.kind = "detail" /\ page'.kind = "detail"
          /\ page'.org = page.org /\ page'.tab = page.tab
          /\ page'.pane.shows = page.pane.shows
          /\ page.pane.shows \in Fetched \cup {"instances"}
          /\ page.pane.shows = subject
  <2>1. CASE page.kind = "detail" /\ page.pane.shows = subject
    <3>1. page \in [kind : {"detail"}, org : Orgs, tab : Tabs, pane : Panes]
      BY <2>1, Typed
    <3>2. subject \in Fetched \cup {"instances"}
      <4>1. page.pane.shows \in Tabs \cup {"loading", "failed"}
        BY <3>1 DEF Panes
      <4> QED  BY <1>3, <2>1, <4>1, Subjects DEF Tabs
    <3>3. page' = [page EXCEPT !.pane = [page.pane EXCEPT !.rows = Overtake(page.pane.rows, o)]]
      BY <1>4, <2>1 DEF Outdate
    <3>4. page.pane \in Panes
      BY <3>1
    <3>5. [page.pane EXCEPT !.rows = Overtake(page.pane.rows, o)].shows = page.pane.shows
      BY <3>4 DEF Panes
    <3> QED  BY <2>1, <3>1, <3>2, <3>3, <3>5
  <2>2. CASE ~(page.kind = "detail" /\ page.pane.shows = subject)
    BY <1>4, <2>2 DEF Outdate
  <2> QED  BY <2>1, <2>2
<1>12. \/ page' = page
       \/ /\ page.kind = "detail" /\ page'.kind = "detail"
          /\ page'.org = page.org /\ page'.tab = page.tab
          /\ page'.pane.shows = page.pane.shows
          /\ page.pane.shows \in Fetched \cup {"instances"}
          /\ Owed(page.pane.shows)'
  <2>1. CASE page'.pane.shows = subject
    <3>1. Owed(page.pane.shows)'
      BY <1>6, <2>1 DEF Owed, Op
    <3> QED  BY <1>11, <3>1
  <2> QED  BY <1>11, <2>1
<1>13. instances' = instances \/ Owed("instances")'
  BY <1>4, <1>6 DEF Outdate
<1>14. ASSUME NEW t, Owed(t) PROVE Owed(t)'
  <2>1. PICK r \in Slots :
            \/ Op(r) = "command" /\ flight[r].done /\ Subject(flight[r].to.cmd) = t
            \/ t = "instances" /\ flight[r] = Timer
    BY <1>14 DEF Owed
  <2>2. r # s /\ Op(r) \notin Draws
    BY <1>2, <2>1, Apart DEF Op
  <2>3. flight'[r] = flight[r]
    BY <1>8, <2>2
  <2> QED  BY <2>1, <2>3 DEF Owed, Op
<1>15. Rests
  BY <1>4, <1>9, <1>10, <1>12, <1>13, <1>14 DEF Rests
<1> QED  BY <1>15 DEF Moves

\* A command, or the timer, ends: what it owes is settled.
LEMMA EndRests ==
    ASSUME IInv, NEW s \in Slots, Op(s) \in {"command", "timer"}, End(s),
           UNCHANGED <<instances, currentOrg, place, drawn>>, cut => cut',
           \A t \in Fetched \cup {"instances"} :
              \/ Op(s) = "command" /\ flight[s].done /\ Subject(flight[s].to.cmd) = t
              \/ t = "instances" /\ flight[s] = Timer
              => Settles(t)
    PROVE  Moves
<1>1. /\ flight'[s] = Idle /\ \A r \in Slots \ {s} : flight'[r] = flight[r]
      /\ page' = page
  BY Typed DEF End
<1>2. Op(s) \notin Draws /\ flight'[s].op \notin Draws
  BY <1>1, Apart
<1>3. UNCHANGED <<page, instances, currentOrg, place, drawn>>
  BY <1>1
<1> QED  BY <1>1, <1>2, <1>3, OneRests DEF Moves

\* A tab is drawn again after a command that changed it.
LEMMA RefreshTabMoves ==
    ASSUME IInv, NEW s \in Slots, NEW t \in Fetched,
           Op(s) = "command", Subject(flight[s].to.cmd) = t, RefreshTab(s, t),
           UNCHANGED <<instances, currentOrg, place, crossed, cut>>
    PROVE  Moves
<1>0. flight[s] # Timer
  BY Apart DEF Op
<1>1. CASE page.kind # "detail"
  <2>1. End(s) /\ barged' = barged
    BY <1>1 DEF RefreshTab
  <2>2. UNCHANGED <<instances, currentOrg, place, drawn>> /\ (cut => cut')
    BY <2>1 DEF drawn
  <2>3. \A u \in Fetched \cup {"instances"} :
           \/ Op(s) = "command" /\ flight[s].done /\ Subject(flight[s].to.cmd) = u
           \/ u = "instances" /\ flight[s] = Timer
           => Settles(u)
    BY <1>0, <1>1 DEF Settles
  <2> QED  BY <2>1, <2>2, <2>3, EndRests
<1>2. CASE page.kind = "detail"
  <2>1. /\ page' = [page EXCEPT !.pane = Blank("loading")]
        /\ flight' = [Older(flight, Fetched) EXCEPT ![s] = Asking(t)]
        /\ barged' = (barged \/ page.tab # t)
    BY <1>2 DEF RefreshTab, renderTab
  <2>2. flight'[s] = Asking(t) /\ Others({s}, "same", "older")
    BY <2>1, OlderMoves
  <2>3. page \in [kind : {"detail"}, org : Orgs, tab : Tabs, pane : Panes]
    BY <1>2, Typed
  <2>4. /\ page'.kind = "detail" /\ page'.org = page.org /\ page'.tab = page.tab
        /\ page'.pane = Blank("loading")
    BY <2>1, <2>3
  <2>5. page.tab = t \/ barged'
    BY <2>1
  <2>6. barged => barged'
    BY <2>1
  <2>7. ASSUME NEW u \in (Fetched \cup {"instances"}) \ {t}, Owed(u) PROVE Owed(u)'
    BY <1>0, <2>2, <2>7, OthersElsewhere, OwedElsewhere
  <2>8. StillOwed((Fetched \cup {"instances"}) \ {t})
    BY <2>7 DEF StillOwed
  <2>9. Op(s) \notin Draws
    BY Apart
  <2>10. UNCHANGED <<currentOrg, asked, askedTab, overdrawn, instances, crossed, cut>>
    BY DEF place
  <2>11. AsksTab(s, t)
    BY <1>2, <2>2, <2>4, <2>5, <2>6, <2>8, <2>9, <2>10 DEF AsksTab
  <2> QED  BY <2>11 DEF Moves
<1> QED  BY <1>1, <1>2

\* The organization is drawn again after an action, or by the timer.
LEMMA RefreshOrgMoves ==
    ASSUME IInv, NEW s \in Slots,
           \/ Op(s) = "command" /\ Subject(flight[s].to.cmd) = "instances"
           \/ flight[s] = Timer,
           RefreshOrg(s),
           UNCHANGED <<instances, currentOrg, place, crossed>>
    PROVE  Moves
<1>0. Op(s) \in {"command", "timer"} /\ Op(s) \notin Draws
  BY Apart DEF Op
<1>1. CASE ~(currentOrg # None /\ currentOrg \in orgs)
  <2>1. End(s) /\ barged' = barged
    BY <1>1 DEF RefreshOrg
  <2>2. cut' = (cut \/ currentOrg # None)
    BY <1>1 DEF RefreshOrg
  <2>3. UNCHANGED <<instances, currentOrg, place, drawn>>
    BY <2>1 DEF drawn
  <2>4. cut => cut'
    BY <2>2
  <2>5. \A u \in Fetched \cup {"instances"} :
           \/ Op(s) = "command" /\ flight[s].done /\ Subject(flight[s].to.cmd) = u
           \/ u = "instances" /\ flight[s] = Timer
           => u = "instances"
    BY Apart DEF Op
  <2>6. currentOrg = None \/ cut'
    BY <2>2
  <2>7. \A u \in Fetched \cup {"instances"} :
           \/ Op(s) = "command" /\ flight[s].done /\ Subject(flight[s].to.cmd) = u
           \/ u = "instances" /\ flight[s] = Timer
           => Settles(u)
    BY <2>5, <2>6 DEF Settles
  <2> QED  BY <1>0, <2>1, <2>3, <2>4, <2>7, EndRests
<1>2. CASE currentOrg # None /\ currentOrg \in orgs
  <2>1. /\ page' = page
        /\ flight' = [Older(flight, MainOps) EXCEPT ![s] = OrgDetail(currentOrg, "new")]
        /\ barged' = (barged \/ asked # "orgs") /\ cut' = cut
    BY <1>2 DEF RefreshOrg, renderOrgDetail
  <2>2. flight'[s] = OrgDetail(currentOrg, "new") /\ Others({s}, "older", "same")
    BY <2>1, OlderMoves
  <2>3. currentOrg \in Orgs
    BY <1>2, Typed DEF Scalars
  <2>4. ASSUME NEW u \in Fetched, Owed(u) PROVE Owed(u)'
    <3>1. u # "instances"
      BY Apart
    <3>2. ~(Op(s) = "command" /\ Subject(flight[s].to.cmd) = u)
      BY <3>1, Apart DEF Op
    <3> QED  BY <2>2, <2>4, <3>1, <3>2, OthersElsewhere, OwedElsewhere
  <2>5. StillOwed(Fetched)
    BY <2>4 DEF StillOwed
  <2>6. UNCHANGED <<currentOrg, place, instances, crossed, cut>>
    BY <2>1
  <2>7. Refreshes(s)
    BY <1>0, <2>1, <2>2, <2>3, <2>5, <2>6 DEF Refreshes
  <2> QED  BY <2>7 DEF Moves
<1> QED  BY <1>1, <1>2

LEMMA RenderViewMoves ==
    ASSUME IInv, NEW s \in Slots, renderView(s), asked' = asked,
           barged' = (barged \/ view # asked),
           Op(s) = "command", Subject(flight[s].to.cmd) # "instances",
           UNCHANGED <<currentOrg, instances, crossed, cut>>
    PROVE  Moves
<1>1. barged' \/ asked' = view
  OBVIOUS
<1>2. CASE view = "dashboard" /\ renderDashboard(s)
  <2>1. EntersMain(s)
    BY <1>1, <1>2, StartMainMoves DEF renderDashboard, EntersMain
  <2> QED  BY <2>1 DEF Moves
<1>3. CASE view = "orgs" /\ renderOrgs(flight, s)
  <2>1. EntersMain(s)
    BY <1>1, <1>3, StartMainMoves DEF renderOrgs, EntersMain
  <2> QED  BY <2>1 DEF Moves
<1>4. CASE view = "settings" /\ renderSettings([flight EXCEPT ![s] = Idle])
  <2> DEFINE F == [flight EXCEPT ![s] = Idle]
  <2>1. PICK ended \in SUBSET Slots : ended = {s}
    OBVIOUS
  <2>2. F \in [Slots -> Flights] /\ \A r \in Slots : F[r] = IF r \in ended THEN Idle ELSE flight[r]
    BY <2>1, Typed, FlightSets
  <2> HIDE DEF F
  <2>3. renderSettings(F)
    BY <1>4 DEF F
  <2>4. /\ Others(ended, "same", "gone") /\ page' = Settings
        /\ \A r \in ended : flight'[r] = Idle
    BY <2>2, <2>3, SettingsMoves
  <2>5. ASSUME Owed("instances") PROVE Owed("instances")'
    <3>1. Others({s}, "same", "gone") /\ flight[s] # Timer
      BY <2>1, <2>4, Apart DEF Op
    <3> QED  BY <2>5, <3>1, OthersElsewhere, OwedElsewhere
  <2>6. StillOwed({"instances"})
    BY <2>5 DEF StillOwed
  <2>7. EntersSettings(ended)
    BY <1>1, <1>4, <2>1, <2>4, <2>6, Apart DEF EntersSettings
  <2> QED  BY <2>7 DEF Moves
<1> QED  BY <1>2, <1>3, <1>4 DEF renderView

LEMMA CommandReplyMoves ==
    ASSUME IInv, NEW s \in Slots, CommandReply(s)
    PROVE  Moves
<1> USE DEF store
<1>1. CASE CarryOut(s)
  BY <1>1, CarryOutRests
<1>2. CASE CommandFails(s)
  <2>1. Op(s) = "command" /\ End(s) /\ flight[s] # Timer
        /\ UNCHANGED <<instances, currentOrg, place, drawn>>
    BY <1>2, Apart DEF CommandFails, Op
  <2>2. cut' = (cut \/ flight[s].done)
    BY <1>2 DEF CommandFails
  <2>3. flight[s].done => cut'
    BY <2>2
  <2>4. cut => cut'
    BY <2>2
  <2> QED  BY <2>1, <2>3, <2>4, EndRests DEF Settles
<1>3. ASSUME NEW cs, Done(s, cs)
      PROVE  /\ Op(s) = "command" /\ flight[s] # Timer /\ flight[s].to.cmd \in cs
             /\ UNCHANGED <<instances, currentOrg, place, crossed>>
  BY <1>3, Apart DEF Done, Op
<1>4. ASSUME NEW cs, Done(s, cs), Throws(s) PROVE Moves
  <2>1. /\ End(s) /\ Op(s) = "command"
        /\ UNCHANGED <<instances, currentOrg, place, drawn>>
    BY <1>3, <1>4 DEF Throws, drawn
  <2>2. cut'
    BY <1>4 DEF Throws
  <2> QED  BY <2>1, <2>2, EndRests DEF Settles
<1>5. CASE createOrg(s)
  <2>1. CASE Throws(s)
    BY <1>4, <1>5, <2>1 DEF createOrg
  <2>2. CASE renderView(s) /\ barged' = (barged \/ view # asked) /\ cut' = cut
    <3>1. /\ Op(s) = "command" /\ Subject(flight[s].to.cmd) # "instances"
          /\ UNCHANGED <<currentOrg, place, instances, crossed>>
      BY <1>3, <1>5, Subjects DEF createOrg
    <3> QED  BY <2>2, <3>1, RenderViewMoves DEF place
  <2> QED  BY <1>5, <2>1, <2>2 DEF createOrg
<1>6. CASE createInstance(s)
  <2>1. CASE Throws(s)
    BY <1>4, <1>6, <2>1 DEF createInstance
  <2>2. CASE page' = page /\ flight' = [flight EXCEPT ![s] = Timer] /\ barged' = barged
             /\ cut' = cut
    <3>1. /\ Op(s) = "command" /\ flight[s] # Timer
          /\ Subject(flight[s].to.cmd) = "instances"
          /\ UNCHANGED <<page, instances, currentOrg, place, drawn>>
      BY <1>3, <1>6, <2>2, Subjects DEF createInstance, drawn
    <3>2. flight'[s] = Timer /\ \A r \in Slots \ {s} : flight'[r] = flight[r]
      BY <2>2, Typed
    <3>3. Owed("instances")'
      BY <3>2 DEF Owed
    <3>4. Op(s) \notin Draws /\ flight'[s].op \notin Draws
      BY <3>1, <3>2, Apart
    <3>5. \A t \in Fetched \cup {"instances"} :
             \/ Op(s) = "command" /\ flight[s].done /\ Subject(flight[s].to.cmd) = t
             \/ t = "instances" /\ flight[s] = Timer
             => Settles(t)
      BY <3>1, <3>3 DEF Settles
    <3>6. cut => cut'
      BY <2>2
    <3> QED  BY <3>1, <3>2, <3>4, <3>5, <3>6, OneRests DEF Moves
  <2> QED  BY <1>6, <2>1, <2>2 DEF createInstance
<1>7. CASE action(s)
  <2>1. RefreshOrg(s) /\ Op(s) = "command" /\ Subject(flight[s].to.cmd) = "instances"
        /\ UNCHANGED <<instances, currentOrg, place, crossed>>
    BY <1>3, <1>7, Subjects DEF action
  <2> QED  BY <2>1, RefreshOrgMoves
<1>8. CASE testWebhook(s)
  <2>1. /\ Op(s) = "command" /\ flight[s] # Timer /\ Subject(flight[s].to.cmd) = None
        /\ End(s) /\ UNCHANGED <<instances, currentOrg, place, drawn, cut>>
    BY <1>3, <1>8, Subjects DEF testWebhook, drawn
  <2>2. \A t \in Fetched \cup {"instances"} : t # None
    BY Subjects
  <2> QED  BY <2>1, <2>2, EndRests
<1>9. ASSUME NEW cs, Done(s, cs), NEW t \in Fetched, \A c \in cs : Subject(c) = t,
             RefreshTab(s, t), cut' = cut
      PROVE  Moves
  <2>1. /\ Op(s) = "command" /\ Subject(flight[s].to.cmd) = t
        /\ UNCHANGED <<instances, currentOrg, place, crossed, cut>>
    BY <1>3, <1>9
  <2> QED  BY <1>9, <2>1, RefreshTabMoves
<1>10. CASE \/ inviteMember(s) \/ confirmSuspendMember(s)
            \/ acceptJoinRequest(s) \/ confirmRemoveMember(s)
  <2>1. PICK cs \in SUBSET {"invite", "suspend", "remove", "decide"} : Done(s, cs)
    BY <1>10 DEF inviteMember, confirmSuspendMember, acceptJoinRequest, confirmRemoveMember
  <2>2. \A c \in cs : Subject(c) = "members"
    BY Subjects
  <2>3. Throws(s) \/ (RefreshTab(s, "members") /\ cut' = cut)
    BY <1>10 DEF inviteMember, confirmSuspendMember, acceptJoinRequest, confirmRemoveMember
  <2> QED  BY <1>4, <1>9, <2>1, <2>2, <2>3, Subjects
<1>11. CASE createWebhook(s) \/ toggleWebhook(s) \/ confirmDeleteWebhook(s)
  <2>1. PICK cs \in SUBSET {"createWebhook", "toggle", "deleteWebhook"} : Done(s, cs)
    BY <1>11 DEF createWebhook, toggleWebhook, confirmDeleteWebhook
  <2>2. \A c \in cs : Subject(c) = "webhooks"
    BY Subjects
  <2>3. RefreshTab(s, "webhooks") /\ cut' = cut
    BY <1>11 DEF createWebhook, toggleWebhook, confirmDeleteWebhook
  <2> QED  BY <1>9, <2>1, <2>2, <2>3, Subjects
<1> QED  BY <1>1, <1>2, <1>5, <1>6, <1>7, <1>8, <1>10, <1>11 DEF CommandReply

LEMMA TimerMoves ==
    ASSUME IInv, NEW s \in Slots, TimerFires(s)
    PROVE  Moves
<1>1. flight[s] = Timer /\ RefreshOrg(s) /\ UNCHANGED <<instances, currentOrg, place, crossed>>
  BY DEF TimerFires, store
<1> QED  BY <1>1, RefreshOrgMoves

LEMMA StepMoves == IInv /\ [Next]_vars => Moves
<1> SUFFICES ASSUME IInv, [Next]_vars PROVE Moves
  OBVIOUS
<1>1. CASE Act
  BY <1>1, SettingsMove, OverlaysRest, GoingMoves, CommandsRest, SwitchMoves DEF Act, Click
<1>2. ASSUME NEW s \in Slots, Reply(s) PROVE Moves
  BY <1>2, DashboardReplyMoves, OrgsReplyMoves, DetailReplyMoves, TabReplyMoves,
     AskMoreRests, GoneReplyRests, TimerMoves, CommandReplyMoves DEF Reply, RenderReply
<1>3. CASE UNCHANGED vars
  BY <1>3, StillRests DEF vars, Moves, place, drawn
<1> QED  BY <1>1, <1>2, <1>3 DEF Next

-----------------------------------------------------------------------------
(* What the user sees.                                                       *)

DrawnInv == IInv /\ OrderInv /\ ShowInv /\ FreshInv

LEMMA DrawnInit == Init => DrawnInv
<1> SUFFICES ASSUME Init PROVE DrawnInv
  OBVIOUS
<1> DEFINE f == [op |-> "dashboard", counting |-> FALSE, age |-> "new"]
<1>1. PICK s \in Slots : flight = [[t \in Slots |-> Idle] EXCEPT ![s] = f]
  BY DEF Init
<1>2. flight[s] = f /\ \A t \in Slots \ {s} : flight[t] = Idle
  BY <1>1
<1>3. Op(s) = "dashboard" /\ flight[s].age = "new" /\ \A t \in Slots \ {s} : Op(t) = "idle"
  BY <1>2, Apart DEF Op
<1>4. page.kind = "loading" /\ asked = "dashboard"
  BY DEF Init, Loading
<1>5. OrderInv
  BY <1>3, <1>4, Apart DEF OrderInv, InOrder, IsNew, NewDetails, HeaderIsCurrent
<1>6. MainRight
  BY <1>2, <1>3, <1>4, Apart DEF MainRight, IsNew, WillDraw, Quiet, Op
<1>7. TabRight
  BY <1>4 DEF TabRight
<1>8. HeardMain /\ HeardTab /\ Drawn
  BY <1>3, <1>4, Apart DEF HeardMain, HeardTab, Drawn, IsNew
<1>9. IInv
  BY InvInit
<1>10. ShowInv
  BY <1>6, <1>7 DEF ShowInv
<1>11. FreshInv
  BY <1>8 DEF FreshInv
<1> QED  BY <1>5, <1>9, <1>10, <1>11 DEF DrawnInv

LEMMA DrawnStep == DrawnInv /\ [Next]_vars => DrawnInv'
<1> SUFFICES ASSUME DrawnInv, [Next]_vars PROVE DrawnInv'
  OBVIOUS
<1>1. IInv /\ OrderInv /\ ShowInv /\ FreshInv
  BY DEF DrawnInv
<1>2. Moves /\ IInv'
  BY <1>1, StepMoves, InvStep
<1>3. Placed
  BY <1>1, InSlot, NoneAssumption DEF Placed, DetailCalls, IInv, TypeOK, OneOrgPerTab
<1>4. OrderInv' /\ ShowInv' /\ FreshInv'
  BY <1>1, <1>2, <1>3, NoneAssumption, OrderKept, ShowKept, FreshKept
<1> QED  BY <1>2, <1>4 DEF DrawnInv

LEMMA DrawnHolds == Spec => []DrawnInv
  BY DrawnInit, DrawnStep, PTL DEF Spec

\* The header names the organization that commands act on, unless a reply came
\* after the reply to a later request, or until the page is drawn.
THEOREM HeaderNamesCurrent == Spec => []HeaderIsCurrent
<1>1. DrawnInv => HeaderIsCurrent
  BY DEF DrawnInv, OrderInv
<1> QED  BY <1>1, DrawnHolds, PTL

\* When all renders are through, the user sees the page he went to last, on it
\* the tab he went to last, and in the tab what belongs there, unless replies
\* came out of order (crossed), a refresh came when he had left or an organization
\* was deselected that another render will draw (barged), or, since he went there,
\* a late reply drew over the settings or over Instances, or the details were
\* drawn again while he was on another of their tabs (overdrawn).
THEOREM LastAskedIsShown == Spec => []ShowsWhatWasAsked
<1>1. ASSUME DrawnInv PROVE ShowsWhatWasAsked
  <2>1. ShowInv /\ asked \in {"dashboard", "orgs", "settings"}
    BY <1>1 DEF DrawnInv, IInv, TypeOK
  <2>2. ASSUME ~crossed, ~barged, ~overdrawn,
               \A s \in Slots : Op(s) \notin MainOps \cup Fetched
        PROVE  /\ page.kind \in Wanted
               /\ page.kind = "detail" => /\ page.tab = askedTab
                                          /\ page.pane.shows \in {askedTab, "failed"}
    <3>1. MainRight /\ TabRight /\ Quiet(MainOps) /\ Quiet(Fetched)
      BY <2>1, <2>2 DEF ShowInv, Quiet
    <3>2. page.kind \in Wanted
      BY <2>1, <2>2, <3>1 DEF MainRight, Wanted
    <3> QED  BY <2>2, <3>1, <3>2 DEF TabRight
  <2> QED  BY <2>2 DEF ShowsWhatWasAsked
<1> QED  BY <1>1, DrawnHolds, PTL

\* When nothing is in flight, a list that was read shows every command that was
\* carried out, unless replies came out of order (crossed), a refresh came when
\* the user had left or an organization was deselected that another render will
\* draw (barged), or the user was not told of a command or a refresh found that
\* the open organization had gone from state.orgs (cut).  Of a list that could
\* not be read, and is drawn as empty, it says nothing.
THEOREM OwnWritesAreRead == Spec => []ReadsOwnWrites
<1>1. ASSUME DrawnInv PROVE ReadsOwnWrites
  <2>1. FreshInv
    BY <1>1 DEF DrawnInv
  <2>2. ASSUME \A s \in Slots : IsFree(s), ~crossed, ~barged, ~cut, page.kind = "detail"
        PROVE  UpToDate(page.pane.rows) /\ UpToDate(instances)
    <3>1. \A s \in Slots : Op(s) = "idle" /\ flight[s] # Timer
      BY <2>2, Apart DEF IsFree, Op
    <3>2. \A t : ~Owed(t)
      BY <3>1 DEF Owed
    <3>3. Quiet(MainOps) /\ Quiet(Fetched)
      BY <3>1, Apart DEF Quiet
    <3>4. Drawn
      BY <2>1, <2>2 DEF FreshInv
    <3> QED  BY <2>2, <3>2, <3>3, <3>4 DEF Drawn
  <2> QED  BY <2>2 DEF ReadsOwnWrites, UpToDate
<1> QED  BY <1>1, DrawnHolds, PTL
=============================================================================
