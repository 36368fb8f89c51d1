---------------------------- MODULE SessionProofs ----------------------------
(* Type correctness of Session, who is in the shell, and what he sees.       *)
EXTENDS Session, TLAPS

Waits(F, s, t) == F[s].op # "idle" /\ F[s].tab = t

\* A check of the token is all its tab waits for, and no sign-in gets between
\* its request and its reply.
ChecksAlone ==
    \A s \in Slots : call[s].op = "me" =>
        /\ tab[call[s].tab].page = "blank"
        /\ tab[call[s].tab].token = call[s].token
        /\ \A r \in Slots : Waits(call, r, call[s].tab) => r = s

\* Tokens somebody holds have been issued, so that their owner stays the same.
Issued(own, k) == k # None => own[k] # None
TokensIssued ==
    /\ Issued(owner, stored)
    /\ \A t \in BrowserTabs : Issued(owner, tab[t].token)
    /\ \A s \in Slots : call[s].op \in {"me", "list", "open"} => Issued(owner, call[s].token)

\* A page that has just been loaded has no user, and has rendered nothing.
FreshPages ==
    \A t \in BrowserTabs :
        /\ tab[t].page = "closed" => tab[t].token = None
        /\ tab[t].page \in {"closed", "blank", "reset"} => ~tab[t].used
        /\ tab[t].page \in {"blank", "reset"} => tab[t].user = None
        /\ tab[t].page = "blank" =>
              \A s \in Slots : Waits(call, s, t) => call[s].op = "me"
        /\ tab[t].page = "reset" =>
              /\ t \in linked
              /\ \A s \in Slots : Waits(call, s, t) => call[s].op \notin Outliving

\* Whoever still has its #main is in the shell.
HereInShell ==
    \A s \in Slots :
        call[s].op \in {"list", "count"} /\ call[s].here => Shell(call[s].tab)

HeaderInv ==
    /\ TypeOK
    /\ ChecksAlone /\ TokensIssued /\ FreshPages /\ HereInShell
    /\ HeaderNamesOwner

\* What a render on its way will draw is the answer to the one signed in.
Owned(c, now, own) ==
    /\ c.op \in {"list", "open"} => c.token = now.token
    /\ c.op \in Outliving \ {"list"} => now.orgs \subseteq {own[now.token]}
    /\ c.op = "open" => c.of \subseteq {own[now.token]}
OwnRenders ==
    \A t \in BrowserTabs, s \in Slots :
        t \notin mixed /\ Shell(t) /\ Waits(call, s, t) => Owned(call[s], tab[t], owner)

\* A view is drawn, so that commands can be sent, when state.orgs has been read.
OwnOrgs ==
    \A t \in BrowserTabs :
        t \notin mixed /\ Shell(t) /\ tab[t].used =>
            tab[t].orgs \subseteq {owner[tab[t].token]}

OwnSession == OwnRenders /\ OwnOrgs /\ OwnData

DataInv == HeaderInv /\ OwnSession

-----------------------------------------------------------------------------
(* The calls.                                                                *)

\* c is d, but for `here'.
Same(c, d) ==
    /\ c.op = d.op
    /\ d.op # "idle" => c.tab = d.tab
    /\ d.op \in {"me", "list", "open"} => c.token = d.token
    /\ d.op = "open" => c.of = d.of

\* What a call carries follows from its op.
LEMMA CallFields ==
    ASSUME NEW c \in Calls
    PROVE  /\ c.op \in {"idle", "me", "signin", "forgot", "reset"} \cup Outliving
           /\ c.op = "idle" <=> c = Idle
           /\ c.op # "idle" => c.tab \in BrowserTabs
           /\ c.op \in {"me", "list", "command"} => c.token \in Tokens
           /\ c.op = "signin" => c.user \in Users
           /\ c.op \in {"list", "count"} => c.here \in BOOLEAN
           /\ c.op = "open" => c.token \in Tokens \cup {None} /\ c.of \subseteq Users
  BY DEF Calls, Idle, Renders, Outliving

\* A render that loses its #main is a call as before.
LEMMA Loses ==
    ASSUME NEW c \in Calls, c.op \in {"list", "count"}
    PROVE  LET d == [c EXCEPT !.here = FALSE]
           IN  d \in Calls /\ Same(d, c) /\ d.here = FALSE
  <1>1. CASE c.op = "list"
    <2>1. c \in [op : {"list"}, tab : BrowserTabs, token : Tokens, here : BOOLEAN,
                 next : {"draw", "count", "open"}]
      BY <1>1 DEF Calls, Idle
    <2> QED  BY <1>1, <2>1 DEF Calls, Same
  <1>2. CASE c.op = "count"
    <2>1. c \in [op : {"count"}, tab : BrowserTabs, here : BOOLEAN]
      BY <1>2 DEF Calls, Idle
    <2> QED  BY <1>2, <2>1 DEF Calls, Same
  <1> QED  BY <1>1, <1>2

\* #app is replaced: the calls stay what they are, and none of the tab has a
\* #main any more.
LEMMA DetachedCalls ==
    ASSUME NEW F \in [Slots -> Calls], NEW t \in BrowserTabs
    PROVE  /\ Detached(F, t) \in [Slots -> Calls]
           /\ \A r \in Slots :
                 /\ Same(Detached(F, t)[r], F[r])
                 /\ F[r].op \in {"list", "count"} =>
                       Detached(F, t)[r].here = (F[r].here /\ F[r].tab # t)
  <1> SUFFICES ASSUME NEW r \in Slots
               PROVE  /\ Detached(F, t)[r] \in Calls
                      /\ Same(Detached(F, t)[r], F[r])
                      /\ F[r].op \in {"list", "count"} =>
                            Detached(F, t)[r].here = (F[r].here /\ F[r].tab # t)
    BY DEF Detached
  <1>1. F[r] \in Calls
    OBVIOUS
  <1>2. CASE F[r].op \in {"list", "count"} /\ F[r].tab = t
    BY <1>1, <1>2, Loses DEF Detached
  <1>3. CASE ~(F[r].op \in {"list", "count"} /\ F[r].tab = t)
    <2>1. Detached(F, t)[r] = F[r]
      BY <1>3 DEF Detached
    <2>2. F[r].op \in {"list", "count"} => F[r].here \in BOOLEAN
      BY <1>1, CallFields
    <2> QED  BY <1>1, <1>3, <2>1, <2>2 DEF Same
  <1> QED  BY <1>2, <1>3

-----------------------------------------------------------------------------
(* What a render leaves behind.                                              *)

Shown(page, now) == IF page = "settings" THEN now.log ELSE {}

\* `now' is the state of tab t when the function in slot s renders.
Rendered(s, t, now) ==
    \E page \in {"signin", "settings", "loading"} :
        /\ page = "signin" <=> now.token = None
        /\ tab' = [tab EXCEPT ![t] = [now EXCEPT !.page = page, !.data = Shown(page, now)]]
        /\ call' \in [Slots -> Calls]
        /\ \A r \in Slots \ {s} :
              /\ Same(call'[r], call[r])
              /\ call'[r].op \in {"list", "count"} /\ call'[r].here =>
                    call[r].here /\ (call[r].tab # t \/ now.token # None)
        /\ \/ call'[s].op = "idle"
           \/ /\ call'[s].op = "list" /\ call'[s].tab = t
              /\ call'[s].token = now.token /\ now.token # None

LEMMA ViewOutcome ==
    ASSUME NEW s \in Slots, NEW t \in BrowserTabs, NEW now \in TabStates,
           now.token # None,
           NEW F \in [Slots -> Calls],
           \A r \in Slots :
              /\ Same(F[r], call[r])
              /\ F[r].op \in {"list", "count"} /\ F[r].here => call[r].here,
           renderView(F, s, t, now)
    PROVE  Rendered(s, t, now)
  <1>1. now.token \in Tokens
    BY DEF TabStates
  <1>2. CASE /\ tab' = [tab EXCEPT ![t] = [now EXCEPT !.page = "settings", !.data = now.log]]
             /\ call' = [F EXCEPT ![s] = Idle]
    <2>1. Idle \in Calls /\ Idle.op = "idle" /\ now.log = Shown("settings", now)
      BY DEF Calls, Idle, Shown
    <2> QED  BY <1>2, <2>1 DEF Rendered
  <1>3. ASSUME NEW next \in {"draw", "count", "open"},
               tab' = [tab EXCEPT ![t] = [now EXCEPT !.page = "loading", !.data = {}]],
               call' = [F EXCEPT ![s] = [op |-> "list", tab |-> t, token |-> now.token,
                                         here |-> TRUE, next |-> next]]
        PROVE  Rendered(s, t, now)
    <2>1. [op |-> "list", tab |-> t, token |-> now.token, here |-> TRUE, next |-> next]
             \in Calls /\ Shown("loading", now) = {}
      BY <1>1 DEF Calls, Shown
    <2> QED  BY <1>3, <2>1 DEF Rendered
  <1> QED  BY <1>2, <1>3 DEF renderView, renderSettings

LEMMA SameAsItself == ASSUME NEW c PROVE Same(c, c)
  BY DEF Same

LEMMA RenderOutcome ==
    ASSUME TypeOK, NEW s \in Slots, NEW t \in BrowserTabs, NEW now \in TabStates,
           render(call, s, t, now)
    PROVE  Rendered(s, t, now)
  <1> DEFINE F == Detached(call, t)
  <1>1. /\ F \in [Slots -> Calls]
        /\ \A r \in Slots :
              /\ Same(F[r], call[r])
              /\ F[r].op \in {"list", "count"} =>
                    F[r].here = (call[r].here /\ call[r].tab # t)
    BY DetachedCalls DEF TypeOK, Same
  <1> HIDE DEF F
  <1>2. CASE now.token = None
    <2>1. /\ tab' = [tab EXCEPT ![t] = [now EXCEPT !.page = "signin", !.data = {}]]
          /\ call' = [F EXCEPT ![s] = Idle]
      BY <1>2 DEF render, F
    <2>2. Idle \in Calls /\ Idle.op = "idle" /\ Shown("signin", now) = {}
      BY DEF Calls, Idle, Shown
    <2> QED  BY <1>1, <1>2, <2>1, <2>2 DEF Rendered
  <1>3. CASE now.token # None
    <2>1. renderView(F, s, t, now)
      BY <1>3 DEF render, F
    <2> QED  BY <1>1, <1>3, <2>1, ViewOutcome
  <1> QED  BY <1>2, <1>3

-----------------------------------------------------------------------------
(* The invariant of who is in the shell.                                     *)

\* A render of tab t as `now' keeps it: whoever `now' has a token of is its
\* user, and no check of a token is cut short.
LEMMA RenderKeeps ==
    ASSUME HeaderInv, NEW s \in Slots, NEW t \in BrowserTabs, NEW now \in TabStates,
           Rendered(s, t, now),
           stored' \in Tokens \cup {None}, Issued(owner', stored'),
           owner' \in [Tokens -> Users \cup {None}],
           live' \subseteq {k \in Tokens : owner'[k] # None},
           clicks' \in 0..MaxClicks,
           linked' \in {linked, linked \ {t}}, synced' \subseteq BrowserTabs,
           mixed' \subseteq BrowserTabs,
           \A k \in Tokens : owner[k] # None => owner'[k] = owner[k],
           now.token # None =>
              /\ owner'[now.token] # None
              /\ \/ now.user = owner'[now.token]
                 \/ now.user = None /\ t \in linked',
           \A r \in Slots \ {s} : call[r].op = "me" => call[r].tab # t
    PROVE  HeaderInv'
  <1>1. PICK page \in {"signin", "settings", "loading"} :
           /\ page = "signin" <=> now.token = None
           /\ tab' = [tab EXCEPT ![t] = [now EXCEPT !.page = page, !.data = Shown(page, now)]]
           /\ call' \in [Slots -> Calls]
           /\ \A r \in Slots \ {s} :
                 /\ Same(call'[r], call[r])
                 /\ call'[r].op \in {"list", "count"} /\ call'[r].here =>
                       call[r].here /\ (call[r].tab # t \/ now.token # None)
           /\ \/ call'[s].op = "idle"
              \/ /\ call'[s].op = "list" /\ call'[s].tab = t
                 /\ call'[s].token = now.token /\ now.token # None
    BY DEF Rendered
  <1>2. /\ tab \in [BrowserTabs -> TabStates] /\ call \in [Slots -> Calls]
        /\ owner \in [Tokens -> Users \cup {None}]
    BY DEF HeaderInv, TypeOK
  <1>3. /\ tab' \in [BrowserTabs -> TabStates]
        /\ tab'[t].page = page /\ tab'[t].token = now.token /\ tab'[t].user = now.user
        /\ \A x \in BrowserTabs \ {t} : tab'[x] = tab[x]
        /\ page \in {"signin"} \cup Inside
    <2>0. Shown(page, now) \in SUBSET Users
      BY DEF TabStates, Shown
    <2>1. [now EXCEPT !.page = page, !.data = Shown(page, now)] \in TabStates
      BY <2>0 DEF TabStates, PageNames, Outside, Inside
    <2> QED  BY <1>1, <1>2, <2>1 DEF TabStates, Inside
  <1>4. \A r \in Slots : call[r].op # "idle" => call[r].tab \in BrowserTabs
    BY <1>2, CallFields
  <1>5. \A k \in Tokens \cup {None} : Issued(owner, k) => Issued(owner', k)
    BY NoneAssumption DEF Issued
  <1>6. TypeOK'
    BY <1>1, <1>3 DEF HeaderInv, TypeOK
  <1>7. ChecksAlone'
    <2> SUFFICES ASSUME NEW r \in Slots, call'[r].op = "me"
                 PROVE  /\ tab'[call'[r].tab].page = "blank"
                        /\ tab'[call'[r].tab].token = call'[r].token
                        /\ \A q \in Slots : Waits(call', q, call'[r].tab) => q = r
      BY DEF ChecksAlone, Waits
    <2>1. /\ r # s /\ call[r].op = "me"
          /\ call'[r].tab = call[r].tab /\ call'[r].token = call[r].token
      BY <1>1 DEF Same
    <2>2. call[r].tab \in BrowserTabs \ {t}
      BY <1>4, <2>1
    <2>3. \A q \in Slots : Waits(call', q, call'[r].tab) => q = r
      BY <1>1, <2>1, <2>2 DEF HeaderInv, ChecksAlone, Waits, Same
    <2> QED  BY <1>3, <2>1, <2>2, <2>3 DEF HeaderInv, ChecksAlone
  <1>8. TokensIssued'
    <2>1. \A x \in BrowserTabs : Issued(owner', tab'[x].token)
      BY <1>2, <1>3, <1>5 DEF HeaderInv, TokensIssued, Issued, TabStates
    <2>2. ASSUME NEW r \in Slots, call'[r].op \in {"me", "list", "open"}
          PROVE  Issued(owner', call'[r].token)
      <3>1. CASE r = s
        BY <1>1, <2>2, <3>1 DEF Issued
      <3>2. CASE r # s
        <4>1. call[r].op = call'[r].op /\ call[r].token = call'[r].token
          BY <1>1, <2>2, <3>2 DEF Same
        <4>2. call[r].token \in Tokens \cup {None}
          BY <1>2, <2>2, <4>1, CallFields
        <4> QED  BY <1>5, <2>2, <4>1, <4>2 DEF HeaderInv, TokensIssued
      <3> QED  BY <3>1, <3>2
    <2> QED  BY <2>1, <2>2 DEF TokensIssued, Issued
  <1>9. FreshPages'
    <2> SUFFICES ASSUME NEW x \in BrowserTabs
                 PROVE  /\ tab'[x].page = "closed" => tab'[x].token = None
                        /\ tab'[x].page \in {"closed", "blank", "reset"} => ~tab'[x].used
                        /\ tab'[x].page \in {"blank", "reset"} => tab'[x].user = None
                        /\ tab'[x].page = "blank" =>
                              \A r \in Slots : Waits(call', r, x) => call'[r].op = "me"
                        /\ tab'[x].page = "reset" =>
                              /\ x \in linked'
                              /\ \A r \in Slots : Waits(call', r, x) => call'[r].op \notin Outliving
      BY DEF FreshPages, Waits
    <2>1. CASE x = t
      BY <1>3, <2>1 DEF Inside
    <2>2. CASE x # t
      <3>1. \A r \in Slots : Waits(call', r, x) =>
               Waits(call, r, x) /\ call'[r].op = call[r].op
        BY <1>1, <2>2 DEF Waits, Same
      <3> QED  BY <1>3, <2>2, <3>1 DEF HeaderInv, FreshPages
    <2> QED  BY <2>1, <2>2
  <1>10. HereInShell'
    <2> SUFFICES ASSUME NEW r \in Slots, call'[r].op \in {"list", "count"}, call'[r].here
                 PROVE  tab'[call'[r].tab].page \in Inside
      BY DEF HereInShell, Shell
    <2>1. CASE r = s
      BY <1>1, <1>3, <2>1
    <2>2. CASE r # s
      <3>1. /\ call[r].op = call'[r].op /\ call[r].tab = call'[r].tab /\ call[r].here
            /\ call[r].tab # t \/ now.token # None
        BY <1>1, <2>2 DEF Same
      <3>2. tab[call[r].tab].page \in Inside /\ call[r].tab \in BrowserTabs
        BY <1>4, <3>1 DEF HeaderInv, HereInShell, Shell
      <3> QED  BY <1>1, <1>3, <3>1, <3>2
    <2> QED  BY <2>1, <2>2
  <1>11. HeaderNamesOwner'
    <2> SUFFICES ASSUME NEW x \in BrowserTabs
                 PROVE  /\ tab'[x].page \in Outside => tab'[x].token = None
                        /\ tab'[x].page \in Inside =>
                              /\ tab'[x].token # None
                              /\ \/ tab'[x].user = owner'[tab'[x].token]
                                 \/ tab'[x].user = None /\ x \in linked'
      BY DEF HeaderNamesOwner, Shell
    <2>1. CASE x = t
      BY <1>1, <1>3, <2>1 DEF Outside, Inside
    <2>2. CASE x # t
      <3>1. tab'[x] = tab[x] /\ tab[x].token \in Tokens \cup {None} /\ Issued(owner, tab[x].token)
        BY <1>2, <1>3, <2>2 DEF TabStates, HeaderInv, TokensIssued
      <3> QED  BY <2>2, <3>1 DEF HeaderInv, HeaderNamesOwner, Shell, Issued
    <2> QED  BY <2>1, <2>2
  <1> QED  BY <1>6, <1>7, <1>8, <1>9, <1>10, <1>11 DEF HeaderInv

\* So does a step in which nobody signs in or out, no page but those of the
\* login form and of the shell changes, and a function goes on only where a
\* page was drawn before.
LEMMA QuietKeeps ==
    ASSUME HeaderInv, NEW s \in Slots,
           UNCHANGED <<stored, owner, history>>,
           live' \subseteq live, clicks' \in 0..MaxClicks,
           tab' \in [BrowserTabs -> TabStates],
           \A x \in BrowserTabs :
              /\ tab'[x].token = tab[x].token /\ tab'[x].user = tab[x].user
              /\ tab'[x].used = tab[x].used \/ tab[x].page \in Inside
              /\ \/ tab'[x].page = tab[x].page
                 \/ tab'[x].page \in Outside /\ tab[x].page \in Outside
                 \/ tab'[x].page \in Inside /\ tab[x].page \in Inside,
           call' \in [Slots -> Calls],
           \A r \in Slots \ {s} : call'[r] = call[r],
           \/ call'[s].op = "idle" \/ call'[s] = call[s]
           \/ /\ call'[s].op \notin {"idle", "me"}
              /\ tab[call'[s].tab].page # "blank"
              /\ call'[s].op \in Outliving => tab[call'[s].tab].page # "reset"
              /\ call'[s].op \in {"list", "open"} =>
                    call'[s].token = tab[call'[s].tab].token
              /\ call'[s].op \in {"list", "count"} /\ call'[s].here =>
                    tab[call'[s].tab].page \in Inside
    PROVE  HeaderInv'
  <1>1. /\ tab \in [BrowserTabs -> TabStates] /\ call \in [Slots -> Calls]
        /\ owner \in [Tokens -> Users \cup {None}]
    BY DEF HeaderInv, TypeOK
  <1>2. /\ owner' = owner /\ stored' = stored /\ linked' = linked
        /\ synced' = synced /\ mixed' = mixed
    BY DEF history
  <1>3. \A r \in Slots : call'[r].op # "idle" => call'[r].tab \in BrowserTabs
    BY CallFields
  <1>4. \A x \in BrowserTabs : tab[x].page \in {"closed", "blank", "reset"} =>
           tab[x].page \notin Outside \cup Inside
    BY DEF Outside, Inside
  <1>5. \A x \in BrowserTabs : tab'[x].page \in {"closed", "blank", "reset"} =>
           tab'[x].page = tab[x].page
    BY DEF Outside, Inside
  <1>6. TypeOK'
    BY <1>2 DEF HeaderInv, TypeOK
  <1>7. ChecksAlone'
    <2> SUFFICES ASSUME NEW r \in Slots, call'[r].op = "me"
                 PROVE  /\ tab'[call'[r].tab].page = "blank"
                        /\ tab'[call'[r].tab].token = call'[r].token
                        /\ \A q \in Slots : Waits(call', q, call'[r].tab) => q = r
      BY DEF ChecksAlone, Waits
    <2>1. call'[r] = call[r]
      OBVIOUS
    <2>2. /\ tab[call[r].tab].page = "blank" /\ tab[call[r].tab].token = call[r].token
          /\ \A q \in Slots : Waits(call, q, call[r].tab) => q = r
          /\ call[r].tab \in BrowserTabs
      BY <1>3, <2>1 DEF HeaderInv, ChecksAlone
    <2>3. \A q \in Slots : Waits(call', q, call'[r].tab) => q = r
      BY <2>1, <2>2 DEF Waits
    <2> QED  BY <1>4, <2>1, <2>2, <2>3
  <1>8. TokensIssued'
    BY <1>1, <1>2, <1>3 DEF HeaderInv, TokensIssued
  <1>9. FreshPages'
    <2> SUFFICES ASSUME NEW x \in BrowserTabs
                 PROVE  /\ tab'[x].page = "closed" => tab'[x].token = None
                        /\ tab'[x].page \in {"closed", "blank", "reset"} => ~tab'[x].used
                        /\ tab'[x].page \in {"blank", "reset"} => tab'[x].user = None
                        /\ tab'[x].page = "blank" =>
                              \A r \in Slots : Waits(call', r, x) => call'[r].op = "me"
                        /\ tab'[x].page = "reset" =>
                              /\ x \in linked'
                              /\ \A r \in Slots : Waits(call', r, x) => call'[r].op \notin Outliving
      BY DEF FreshPages, Waits
    <2>1. tab'[x].page \in {"closed", "blank", "reset"} =>
             tab'[x].page = tab[x].page /\ tab'[x].used = tab[x].used
      BY <1>4, <1>5
    <2>2. ASSUME NEW r \in Slots, Waits(call', r, x), ~Waits(call, r, x) \/ call'[r] # call[r]
          PROVE  /\ r = s /\ tab[x].page # "blank"
                 /\ call'[r].op \in Outliving => tab[x].page # "reset"
      BY <2>2 DEF Waits
    <2>3. ASSUME NEW r \in Slots, Waits(call', r, x)
          PROVE  /\ tab'[x].page = "blank" => call'[r].op = "me"
                 /\ tab'[x].page = "reset" => call'[r].op \notin Outliving
      BY <2>1, <2>2, <2>3 DEF HeaderInv, FreshPages
    <2> QED  BY <1>2, <2>1, <2>3 DEF HeaderInv, FreshPages
  <1>10. HereInShell'
    BY <1>1, <1>3, CallFields DEF HeaderInv, HereInShell, Shell, Outside, Inside
  <1>11. HeaderNamesOwner'
    BY <1>2 DEF HeaderInv, HeaderNamesOwner, Shell, Outside, Inside
  <1> QED  BY <1>6, <1>7, <1>8, <1>9, <1>10, <1>11 DEF HeaderInv

\* A page that is loaded starts anew.
LEMMA LoadKeeps ==
    ASSUME HeaderInv, NEW s \in Slots, NEW t \in BrowserTabs, NEW link \in BOOLEAN,
           Load(s, t, link), clicks' \in 0..MaxClicks
    PROVE  HeaderInv'
  <1> DEFINE page == IF link THEN "reset" ELSE IF stored = None THEN "signin" ELSE "blank"
             fresh == [Closed EXCEPT !.token = stored, !.page = page]
  <1>1. /\ tab \in [BrowserTabs -> TabStates] /\ call \in [Slots -> Calls]
        /\ owner \in [Tokens -> Users \cup {None}] /\ stored \in Tokens \cup {None}
    BY DEF HeaderInv, TypeOK
  <1>2. /\ UNCHANGED <<stored, owner, live>>
        /\ linked' = IF link THEN linked \cup {t} ELSE linked \ {t}
        /\ synced' = synced \cup {t} /\ mixed' = mixed \ {t}
    BY DEF Load, server
  <1>3. fresh \in TabStates
    BY <1>1 DEF Closed, TabStates, PageNames, Outside
  <1>4. tab' = [tab EXCEPT ![t] = fresh]
    BY DEF Load, Closed
  <1>5. /\ \A x \in BrowserTabs \ {t} : tab'[x] = tab[x]
        /\ tab'[t].token = stored /\ tab'[t].user = None /\ tab'[t].page = page
        /\ tab'[t].used = FALSE
    BY <1>1, <1>4 DEF Closed
  <1> HIDE DEF fresh
  <1>6. Idle \in Calls /\ Idle.op = "idle"
    BY DEF Calls, Idle
  <1>7. /\ Abandoned(t) \in [Slots -> Calls]
        /\ \A r \in Slots : \/ Abandoned(t)[r] = Idle
                            \/ /\ Abandoned(t)[r] = call[r]
                               /\ call[r].op # "idle" /\ call[r].tab # t
    BY <1>1, <1>6, CallFields DEF Abandoned
  <1>8. CASE ~link /\ stored # None
    <2>1. call' = [Abandoned(t) EXCEPT ![s] = [op |-> "me", tab |-> t, token |-> stored]]
      BY <1>8 DEF Load
    <2>2. [op |-> "me", tab |-> t, token |-> stored] \in Calls
      BY <1>1, <1>8 DEF Calls
    <2>3. /\ call' \in [Slots -> Calls]
          /\ call'[s].op = "me" /\ call'[s].tab = t /\ call'[s].token = stored
          /\ \A r \in Slots \ {s} : \/ call'[r].op = "idle"
                                    \/ call'[r] = call[r] /\ call[r].tab # t
      BY <1>6, <1>7, <2>1, <2>2
    <2> HIDE DEF fresh
    <2>4. page = "blank"
      BY <1>8
    <2> HIDE DEF page
    <2>5. TypeOK'
      BY <1>2, <1>3, <1>4, <2>3 DEF HeaderInv, TypeOK
    <2>6. ChecksAlone'
      BY <1>1, <1>5, <2>3, <2>4, CallFields DEF HeaderInv, ChecksAlone, Waits
    <2>7. TokensIssued'
      BY <1>1, <1>2, <1>5, <2>3 DEF HeaderInv, TokensIssued
    <2>8. FreshPages'
      BY <1>2, <1>5, <2>3, <2>4 DEF HeaderInv, FreshPages, Waits
    <2>9. HereInShell'
      BY <1>1, <1>5, <2>3, CallFields DEF HeaderInv, HereInShell, Shell
    <2>10. HeaderNamesOwner'
      BY <1>2, <1>5, <2>4 DEF HeaderInv, HeaderNamesOwner, Shell, Outside, Inside
    <2> QED  BY <2>5, <2>6, <2>7, <2>8, <2>9, <2>10 DEF HeaderInv
  <1>9. CASE link \/ stored = None
    <2>1. call' = Abandoned(t)
      BY <1>9 DEF Load
    <2>2. \A r \in Slots : \/ call'[r].op = "idle"
                           \/ call'[r] = call[r] /\ call[r].tab # t
      BY <1>6, <1>7, <2>1
    <2>3. /\ page \in {"signin", "reset"}
          /\ page = "reset" => t \in linked'
          /\ page = "signin" => stored = None
      BY <1>2, <1>9
    <2> HIDE DEF page
    <2>4. TypeOK'
      BY <1>2, <1>3, <1>4, <1>7, <2>1 DEF HeaderInv, TypeOK
    <2>5. ChecksAlone'
      BY <1>1, <1>5, <2>2, CallFields DEF HeaderInv, ChecksAlone, Waits
    <2>6. TokensIssued'
      BY <1>1, <1>2, <1>5, <2>2 DEF HeaderInv, TokensIssued
    <2>7. FreshPages'
      BY <1>2, <1>5, <2>2, <2>3 DEF HeaderInv, FreshPages, Waits
    <2>8. HereInShell'
      BY <1>1, <1>5, <2>2, CallFields DEF HeaderInv, HereInShell, Shell
    <2>9. HeaderNamesOwner'
      BY <1>2, <1>5, <2>3 DEF HeaderInv, HeaderNamesOwner, Shell, Outside, Inside
    <2> QED  BY <2>4, <2>5, <2>6, <2>7, <2>8, <2>9 DEF HeaderInv
  <1> QED  BY <1>8, <1>9

-----------------------------------------------------------------------------
(* The steps.                                                                *)

\* The calls and tabs of the reply in slot s.
LEMMA Replying ==
    ASSUME HeaderInv, NEW s \in Slots, call[s].op # "idle"
    PROVE  /\ call[s] \in Calls /\ call[s].tab \in BrowserTabs
           /\ Waits(call, s, call[s].tab)
           /\ tab[call[s].tab] \in TabStates
           /\ call[s].op # "me" => tab[call[s].tab].page # "blank"
           /\ call[s].op \in Outliving => tab[call[s].tab].page # "reset"
  <1>1. call[s] \in Calls /\ call[s].tab \in BrowserTabs
    BY CallFields DEF HeaderInv, TypeOK
  <1> QED  BY <1>1 DEF HeaderInv, TypeOK, FreshPages, Waits

\* While a check of the token waits, nothing else of its tab does.
LEMMA NoOtherCheck ==
    ASSUME HeaderInv, NEW s \in Slots, NEW t \in BrowserTabs,
           tab[t].page # "blank" \/ Waits(call, s, t)
    PROVE  \A r \in Slots \ {s} : call[r].op = "me" => call[r].tab # t
  BY DEF HeaderInv, ChecksAlone, Waits

\* What somebody waits for goes on as it is: the tab, the user and the token.
Renamed(t, now, own, links) ==
    now.token # None =>
        /\ own[now.token] # None
        /\ now.user = own[now.token] \/ (now.user = None /\ t \in links)

\* A tab that renders as it is, once it has been drawn.
LEMMA DrawnBefore ==
    ASSUME HeaderInv, NEW t \in BrowserTabs, tab[t].page # "blank"
    PROVE  tab[t] \in TabStates /\ Renamed(t, tab[t], owner, linked)
  BY DEF HeaderInv, TypeOK, TokensIssued, Issued, HeaderNamesOwner, Shell,
         FreshPages, Renamed, TabStates, PageNames

LEMMA RenderStep ==
    ASSUME HeaderInv, NEW s \in Slots, NEW t \in BrowserTabs, NEW now \in TabStates,
           Rendered(s, t, now),
           stored' \in {stored, None}, UNCHANGED server,
           clicks' \in 0..MaxClicks,
           linked' = linked, synced' \in {synced, synced \cup {t}, {t}}, mixed' = mixed,
           Renamed(t, now, owner, linked),
           tab[t].page # "blank" \/ Waits(call, s, t)
    PROVE  HeaderInv'
  <1>1. /\ stored' \in Tokens \cup {None} /\ Issued(owner', stored')
        /\ owner' \in [Tokens -> Users \cup {None}] /\ owner' = owner
        /\ live' \subseteq {k \in Tokens : owner'[k] # None}
        /\ synced' \subseteq BrowserTabs /\ mixed' \subseteq BrowserTabs
    BY DEF HeaderInv, TypeOK, TokensIssued, Issued, server
  <1>2. \A r \in Slots \ {s} : call[r].op = "me" => call[r].tab # t
    BY NoOtherCheck
  <1>3. now.token # None =>
              /\ owner'[now.token] # None
              /\ now.user = owner'[now.token] \/ (now.user = None /\ t \in linked')
    BY <1>1 DEF Renamed
  <1> QED  BY <1>1, <1>2, <1>3, RenderKeeps

LEMMA ActKeeps ==
    ASSUME HeaderInv, clicks' \in 0..MaxClicks, Act
    PROVE  HeaderInv'
  <1> USE DEF history
  <1>1. tab \in [BrowserTabs -> TabStates] /\ call \in [Slots -> Calls]
    BY DEF HeaderInv, TypeOK
  <1>2. ASSUME NEW t \in BrowserTabs, showSignup(t) \/ showForgotPassword(t)
        PROVE  HeaderInv'
    <2>1. PICK page \in {"signup", "forgot"} : Show(t, page)
      BY <1>2 DEF showSignup, showForgotPassword
    <2> USE DEF Show
    <2>2. [tab[t] EXCEPT !.page = page] \in TabStates
      BY <1>1 DEF TabStates, PageNames, Outside
    <2>3. /\ tab' \in [BrowserTabs -> TabStates]
          /\ \A x \in BrowserTabs :
                /\ tab'[x].token = tab[x].token /\ tab'[x].user = tab[x].user
                /\ tab'[x].used = tab[x].used
                /\ \/ tab'[x].page = tab[x].page
                   \/ tab'[x].page \in Outside /\ tab[x].page \in Outside
      BY <1>1, <2>1, <2>2 DEF TabStates, Outside
    <2>4. CASE Slots = {}
      BY <1>1, <2>1, <2>3, <2>4 DEF server, Outside, Inside,
         HeaderInv, TypeOK, ChecksAlone, TokensIssued, FreshPages, HereInShell,
         HeaderNamesOwner, Shell, Outside, Inside
    <2>5. ASSUME NEW s \in Slots PROVE HeaderInv'
      BY <1>1, <2>1, <2>3, QuietKeeps DEF server
    <2> QED  BY <2>4, <2>5
  <1>3. ASSUME NEW t \in BrowserTabs, NEW s \in Slots, BackToSignIn(s, t)
        PROVE  HeaderInv'
    <2>1. tab[t].page # "blank" /\ render(call, s, t, tab[t])
      BY <1>3 DEF BackToSignIn
    <2>2. tab[t] \in TabStates /\ Renamed(t, tab[t], owner, linked)
      BY <2>1, DrawnBefore
    <2>3. Rendered(s, t, tab[t])
      BY <2>1, <2>2, RenderOutcome DEF HeaderInv
    <2> QED  BY <1>3, <2>1, <2>2, <2>3, RenderStep DEF BackToSignIn, server
  <1>4. ASSUME NEW t \in BrowserTabs, NEW s \in Slots, Navigate(s, t)
        PROVE  HeaderInv'
    <2>1. /\ tab[t].page \in Inside /\ tab[t].page # "blank"
          /\ renderView(call, s, t, tab[t])
      BY <1>4 DEF Navigate, Shell, Inside
    <2>2. tab[t] \in TabStates /\ Renamed(t, tab[t], owner, linked)
      BY <2>1, DrawnBefore
    <2>3. tab[t].token # None
      BY <2>1 DEF HeaderInv, HeaderNamesOwner, Shell
    <2>4. Rendered(s, t, tab[t])
      BY <1>1, <2>1, <2>2, <2>3, SameAsItself, ViewOutcome
    <2> QED  BY <1>4, <2>1, <2>2, <2>4, RenderStep DEF Navigate, server
  <1>5. ASSUME NEW t \in BrowserTabs, NEW s \in Slots, logout(s, t)
        PROVE  HeaderInv'
    <2> DEFINE now == SignedOut(t)
    <2>1. now \in TabStates /\ now.token = None
      BY <1>1 DEF TabStates, SignedOut
    <2>2. tab[t].page # "blank" /\ render(call, s, t, now)
      BY <1>5 DEF logout, Shell, Inside
    <2> HIDE DEF now
    <2>3. Rendered(s, t, now)
      BY <2>1, <2>2, RenderOutcome DEF HeaderInv
    <2> QED  BY <1>5, <2>1, <2>2, <2>3, RenderStep DEF logout, server, Renamed
  <1>6. ASSUME NEW t \in BrowserTabs, NEW s \in Slots, NEW request \in Calls,
               Send(s, request), request.tab = t,
               request.op \in {"signin", "forgot", "reset", "command"},
               tab[t].page \in Outside \cup Inside \cup {"reset"},
               request.op = "command" => Shell(t)
        PROVE  HeaderInv'
    <2>1. /\ call' = [call EXCEPT ![s] = request] /\ tab[t].page # "blank"
          /\ request.op \in Outliving => tab[t].page # "reset"
      BY <1>6 DEF Send, Outside, Inside, Shell, Outliving, Renders
    <2> QED  BY <1>1, <1>6, <2>1, QuietKeeps DEF Send, server
  <1>7. ASSUME NEW t \in BrowserTabs, NEW s \in Slots,
               \/ SendForgot(s, t) \/ SendReset(s, t) \/ SendCommand(s, t)
               \/ \E u \in Users : SendSignin(s, t, u)
        PROVE  HeaderInv'
    <2>1. CASE SendForgot(s, t)
      BY <1>6, <2>1 DEF SendForgot, Calls, Outside
    <2>2. CASE SendReset(s, t)
      BY <1>6, <2>2 DEF SendReset, Calls
    <2>3. ASSUME NEW u \in Users, SendSignin(s, t, u) PROVE HeaderInv'
      BY <1>6, <2>3 DEF SendSignin, Calls, Outside
    <2>4. CASE SendCommand(s, t)
      <3>1. Shell(t) /\ tab[t].token \in Tokens
        BY <1>1, <2>4 DEF SendCommand, HeaderInv, HeaderNamesOwner, TabStates
      <3>2. [op |-> "command", tab |-> t, token |-> tab[t].token] \in Calls
        BY <3>1 DEF Calls
      <3> QED  BY <1>6, <2>4, <3>1, <3>2 DEF SendCommand, Shell
    <2> QED  BY <1>7, <2>1, <2>2, <2>3, <2>4
  <1> QED  BY <1>2, <1>3, <1>4, <1>5, <1>7, LoadKeeps DEF Act

\* The replies to a check of the token, a sign-in and a reset.
LEMMA SessionReplyKeeps ==
    ASSUME HeaderInv, clicks' = clicks, NEW s \in Slots,
           MeFails(s) \/ MeSucceeds(s) \/ SigninSucceeds(s) \/ ResetSucceeds(s)
    PROVE  HeaderInv'
  <1> DEFINE t == call[s].tab
  <1> USE DEF history
  <1>1. call[s].op \in {"me", "signin", "reset"}
    BY DEF MeFails, MeSucceeds, SigninSucceeds, ResetSucceeds
  <1>2. /\ call[s] \in Calls /\ t \in BrowserTabs /\ Waits(call, s, t) /\ tab[t] \in TabStates
        /\ call[s].op # "me" => tab[t].page # "blank"
    BY <1>1, Replying
  <1>3. clicks' \in 0..MaxClicks
    BY DEF HeaderInv, TypeOK
  <1>4. CASE MeFails(s)
    <2> DEFINE now == [tab[t] EXCEPT !.token = None]
    <2>1. now \in TabStates /\ now.token = None
      BY <1>2 DEF TabStates
    <2>2. render(call, s, t, now)
      BY <1>4 DEF MeFails
    <2> HIDE DEF now, t
    <2>3. Rendered(s, t, now)
      BY <1>2, <2>1, <2>2, RenderOutcome DEF HeaderInv
    <2>4. /\ stored' = None /\ linked' = linked /\ mixed' = mixed /\ UNCHANGED server
          /\ synced' \in {synced \cup {t}, {t}}
      BY <1>4 DEF MeFails, t
    <2> QED  BY <1>2, <1>3, <2>1, <2>3, <2>4, RenderStep DEF Renamed
  <1>5. CASE MeSucceeds(s)
    <2> DEFINE now == [tab[t] EXCEPT !.user = owner[call[s].token]]
    <2>1. /\ call[s].op = "me" /\ call[s].token \in Tokens
          /\ tab[t].token = call[s].token /\ owner[call[s].token] \in Users
      BY <1>2, <1>5, CallFields DEF MeSucceeds, HeaderInv, ChecksAlone, TypeOK
    <2>2. /\ now \in TabStates /\ now.token = call[s].token
          /\ now.user = owner[now.token] /\ owner[now.token] # None
      BY <1>2, <2>1, NoneAssumption DEF TabStates
    <2>3. render(call, s, t, now)
      BY <1>5 DEF MeSucceeds
    <2> HIDE DEF now, t
    <2>4. Rendered(s, t, now)
      BY <1>2, <2>2, <2>3, RenderOutcome DEF HeaderInv
    <2>5. UNCHANGED <<stored, server, history>>
      BY <1>5 DEF MeSucceeds
    <2> QED  BY <1>2, <1>3, <2>2, <2>4, <2>5, RenderStep DEF Renamed, server
  <1>6. CASE SigninSucceeds(s)
    <2> DEFINE u == call[s].user
    <2>1. PICK k \in Tokens :
             /\ owner[k] = None
             /\ owner' = [owner EXCEPT ![k] = u] /\ live' = live \cup {k}
             /\ stored' = k
             /\ render(call, s, t, SignedIn(t, u, k))
      BY <1>6 DEF SigninSucceeds
    <2> DEFINE now == SignedIn(t, u, k)
    <2>2. call[s].op = "signin" /\ u \in Users /\ u # None /\ k # None
      BY <1>2, <1>6, CallFields, NoneAssumption DEF SigninSucceeds
    <2>3. now \in TabStates /\ now.token = k /\ now.user = u
      BY <1>2, <2>2 DEF TabStates, SignedIn
    <2> HIDE DEF now, u, t
    <2>4. Rendered(s, t, now)
      BY <1>2, <2>1, <2>3, RenderOutcome DEF HeaderInv, now
    <2>5. /\ owner \in [Tokens -> Users \cup {None}]
          /\ live \subseteq {x \in Tokens : owner[x] # None}
          /\ owner' \in [Tokens -> Users \cup {None}] /\ owner'[k] = u
          /\ \A x \in Tokens : owner[x] # None => owner'[x] = owner[x]
      BY <2>1, <2>2 DEF HeaderInv, TypeOK
    <2>6. live' \subseteq {x \in Tokens : owner'[x] # None}
      BY <2>1, <2>2, <2>5
    <2>7. stored' \in Tokens \cup {None} /\ Issued(owner', stored')
      BY <2>1, <2>2, <2>5 DEF Issued
    <2>8. /\ linked' = linked \ {t} /\ synced' = {t}
          /\ mixed' \in {mixed \cup {t}, mixed \ {t}}
      BY <1>6 DEF SigninSucceeds, t
    <2>9. synced' \subseteq BrowserTabs /\ mixed' \subseteq BrowserTabs
      BY <1>2, <2>8 DEF HeaderInv, TypeOK
    <2>10. \A r \in Slots \ {s} : call[r].op = "me" => call[r].tab # t
      BY <1>2, <2>2, NoOtherCheck
    <2>11. now.token # None =>
              /\ owner'[now.token] # None
              /\ now.user = owner'[now.token] \/ (now.user = None /\ t \in linked')
      BY <2>2, <2>3, <2>5
    <2> QED  BY <1>2, <1>3, <2>3, <2>4, <2>5, <2>6, <2>7, <2>8, <2>9, <2>10, <2>11, RenderKeeps
  <1>7. CASE ResetSucceeds(s)
    <2> HIDE DEF t
    <2>1. /\ render(call, s, t, tab[t]) /\ UNCHANGED <<stored, server, history>>
          /\ tab[t].page # "blank"
      BY <1>2, <1>7 DEF ResetSucceeds, t
    <2>2. Rendered(s, t, tab[t])
      BY <1>2, <2>1, RenderOutcome DEF HeaderInv
    <2>3. Renamed(t, tab[t], owner, linked)
      BY <1>2, <2>1, DrawnBefore
    <2> QED  BY <1>2, <1>3, <2>1, <2>2, <2>3, RenderStep DEF server
  <1> QED  BY <1>4, <1>5, <1>6, <1>7

\* The replies that only draw, or end a function.
LEMMA DrawingReplyKeeps ==
    ASSUME HeaderInv, clicks' = clicks, NEW s \in Slots,
           \/ ForgotSucceeds(s) \/ Refused(s)
           \/ ListFails(s) \/ CountReply(s) \/ OpenReply(s)
    PROVE  HeaderInv'
  <1> DEFINE t == call[s].tab
  <1> USE DEF history
  <1>1. call[s].op \notin {"idle", "me"}
    BY DEF ForgotSucceeds, Refused, ListFails, CountReply, OpenReply
  <1>2. /\ call[s] \in Calls /\ t \in BrowserTabs /\ tab[t] \in TabStates
        /\ tab[t].page # "blank"
        /\ call[s].op \in Outliving => tab[t].page # "reset"
    BY <1>1, Replying
  <1>3. /\ tab \in [BrowserTabs -> TabStates] /\ call \in [Slots -> Calls]
        /\ clicks' \in 0..MaxClicks /\ Idle \in Calls /\ Idle.op = "idle"
        /\ owner \in [Tokens -> Users \cup {None}]
        /\ live \subseteq {k \in Tokens : owner[k] # None}
    BY DEF HeaderInv, TypeOK, Calls, Idle
  <1>4. UNCHANGED <<stored, server, history>>
    BY DEF ForgotSucceeds, Refused, ListFails, CountReply, OpenReply
  <1>5. ASSUME NEW now \in {Drawn(tab[t], of) : of \in SUBSET Users}
                            \cup {[tab[t] EXCEPT !.page = "failed", !.data = {}]},
               Shell(t), tab' = [tab EXCEPT ![t] = now], call' = [call EXCEPT ![s] = Idle]
        PROVE  HeaderInv'
    <2>1. /\ now \in TabStates /\ now.token = tab[t].token /\ now.user = tab[t].user
          /\ now.page \in Inside
      BY <1>2 DEF Drawn, TabStates, PageNames, Inside
    <2>2. /\ tab' \in [BrowserTabs -> TabStates]
          /\ \A x \in BrowserTabs :
                /\ tab'[x].token = tab[x].token /\ tab'[x].user = tab[x].user
                /\ tab'[x].used = tab[x].used \/ tab[x].page \in Inside
                /\ \/ tab'[x].page = tab[x].page
                   \/ tab'[x].page \in Inside /\ tab[x].page \in Inside
      BY <1>2, <1>3, <1>5, <2>1 DEF Shell
    <2> QED  BY <1>3, <1>4, <1>5, <2>2, QuietKeeps DEF server
  <1>6. ASSUME tab' = tab, call' = [call EXCEPT ![s] = Idle]
        PROVE  HeaderInv'
    BY <1>3, <1>4, <1>6, QuietKeeps DEF server
  <1>7. CASE Refused(s)
    BY <1>6, <1>7 DEF Refused
  <1>8. CASE ForgotSucceeds(s)
    <2>1. CASE tab[t].page \notin Outside
      BY <1>6, <1>8, <2>1 DEF ForgotSucceeds
    <2>2. CASE tab[t].page \in Outside
      <3>1. [tab[t] EXCEPT !.page = "sent"] \in TabStates
        BY <1>2 DEF TabStates, PageNames, Outside
      <3>2. /\ tab' \in [BrowserTabs -> TabStates]
            /\ \A x \in BrowserTabs :
                  /\ tab'[x].token = tab[x].token /\ tab'[x].user = tab[x].user
                  /\ tab'[x].used = tab[x].used
                  /\ \/ tab'[x].page = tab[x].page
                     \/ tab'[x].page \in Outside /\ tab[x].page \in Outside
        BY <1>2, <1>3, <1>8, <2>2, <3>1 DEF ForgotSucceeds, TabStates, Outside
      <3>3. call' = [call EXCEPT ![s] = Idle]
        BY <1>8 DEF ForgotSucceeds
      <3> QED  BY <1>3, <1>4, <3>2, <3>3, QuietKeeps DEF server
    <2> QED  BY <2>1, <2>2
  <1>9. CASE ListFails(s)
    <2>1. call[s].here => Shell(t)
      BY <1>9 DEF ListFails, HeaderInv, HereInShell
    <2>2. CASE call[s].here
      <3>1. /\ tab' = [tab EXCEPT ![t] = [tab[t] EXCEPT !.page = "failed", !.data = {}]]
            /\ call' = [call EXCEPT ![s] = Idle]
        BY <1>2, <1>3, <1>9, <2>2 DEF ListFails
      <3> QED  BY <1>5, <2>1, <2>2, <3>1
    <2>3. CASE ~call[s].here
      BY <1>6, <1>9, <2>3 DEF ListFails
    <2>4. call[s].here \in BOOLEAN
      BY <1>2, <1>9, CallFields DEF ListFails
    <2> QED  BY <2>2, <2>3, <2>4
  <1>10. CASE CountReply(s)
    <2>1. call[s].here => Shell(t)
      BY <1>10 DEF CountReply, HeaderInv, HereInShell
    <2>2. tab[t].orgs \in SUBSET Users
      BY <1>2 DEF TabStates
    <2> QED  BY <1>5, <1>6, <1>10, <2>1, <2>2 DEF CountReply, Draw
  <1>11. CASE OpenReply(s)
    <2>0. call[s].op = "open"
      BY <1>11 DEF OpenReply
    <2>1. /\ call[s].op = "open" /\ call[s].of \subseteq Users
          /\ call[s] \in [op : {"open"}, tab : BrowserTabs, token : Tokens \cup {None},
                          of : SUBSET Users, last : BOOLEAN]
      BY <1>2, <2>0 DEF Calls, Idle
    <2>2. PICK of \in {call[s].of} \cup {call[s].of \cup Answer(k) : k \in live \cap {call[s].token}} :
              IF ~call[s].last
              THEN /\ call' = [call EXCEPT ![s] = [call[s] EXCEPT !.of = of, !.last = TRUE,
                                                            !.token = tab[t].token]]
                   /\ tab' = tab
              ELSE /\ tab' = IF Shell(t) THEN Draw(t, of) ELSE tab
                   /\ call' = [call EXCEPT ![s] = Idle]
      BY <1>11 DEF OpenReply
    <2>3. of \in SUBSET Users
      BY <1>3, <2>1 DEF Answer
    <2>4. CASE call[s].last
      BY <1>5, <1>6, <2>2, <2>3, <2>4 DEF Draw
    <2>5. CASE ~call[s].last
      <3> DEFINE c == [call[s] EXCEPT !.of = of, !.last = TRUE, !.token = tab[t].token]
      <3>1. c \in Calls /\ c.op = "open" /\ c.tab = t /\ c.token = tab[t].token
        BY <1>2, <2>1, <2>3 DEF Calls, TabStates
      <3>2. call' = [call EXCEPT ![s] = c] /\ tab' = tab
        BY <2>2, <2>5
      <3> HIDE DEF c
      <3> QED  BY <1>2, <1>3, <1>4, <2>1, <3>1, <3>2, QuietKeeps
               DEF server, Renders, Outliving
    <2> QED  BY <2>4, <2>5
  <1> QED  BY <1>7, <1>8, <1>9, <1>10, <1>11

\* GET /orgs has answered: state.orgs is set, and a page may be drawn.
LEMMA ListReplyKeeps ==
    ASSUME HeaderInv, clicks' = clicks, NEW s \in Slots, ListSucceeds(s)
    PROVE  HeaderInv'
  <1> DEFINE c == call[s]
             t == c.tab
             of == Answer(c.token)
             listed == [tab EXCEPT ![t].orgs = of]
             again == [c EXCEPT !.token = tab[t].token, !.here = TRUE, !.next = "draw"]
  <1> USE DEF history
  <1>1. c.op = "list" /\ c.token \in live /\ UNCHANGED <<stored, server, history>>
    BY DEF ListSucceeds
  <1>2. /\ c \in Calls /\ t \in BrowserTabs /\ tab[t] \in TabStates
        /\ tab[t].page \notin {"blank", "reset"}
    BY <1>1, Replying DEF Renders, Outliving
  <1>3. /\ tab \in [BrowserTabs -> TabStates] /\ call \in [Slots -> Calls]
        /\ clicks' \in 0..MaxClicks /\ Idle \in Calls /\ Idle.op = "idle"
        /\ of \in SUBSET Users
    BY <1>1, NoneAssumption DEF HeaderInv, TypeOK, Calls, Idle, Answer
  <1>4. c.here \in BOOLEAN /\ (c.here => Shell(t))
    BY <1>1, <1>2, CallFields DEF HeaderInv, HereInShell
  <1>5. c \in [op : {"list"}, tab : BrowserTabs, token : Tokens, here : BOOLEAN,
               next : {"draw", "count", "open"}]
    BY <1>1, <1>2 DEF Calls, Idle
  <1>6. ASSUME NEW now \in TabStates, NEW f \in Calls,
               tab' = [tab EXCEPT ![t] = now], call' = [call EXCEPT ![s] = f],
               now.token = tab[t].token, now.user = tab[t].user,
               now.used = tab[t].used \/ Shell(t),
               \/ now.page = tab[t].page
               \/ now.page \in Inside /\ tab[t].page \in Inside,
               \/ f.op = "idle"
               \/ /\ f.op \in Renders /\ f.tab = t
                  /\ f.op \in {"list", "open"} => f.token = tab[t].token
                  /\ f.op \in {"list", "count"} /\ f.here => Shell(t)
        PROVE  HeaderInv'
    <2>1. /\ tab' \in [BrowserTabs -> TabStates]
          /\ \A x \in BrowserTabs :
                /\ tab'[x].token = tab[x].token /\ tab'[x].user = tab[x].user
                /\ tab'[x].used = tab[x].used \/ tab[x].page \in Inside
                /\ \/ tab'[x].page = tab[x].page
                   \/ tab'[x].page \in Inside /\ tab[x].page \in Inside
      BY <1>2, <1>3, <1>6 DEF Shell
    <2>2. call' \in [Slots -> Calls] /\ call'[s] = f /\ \A r \in Slots \ {s} : call'[r] = call[r]
      BY <1>3, <1>6
    <2> QED  BY <1>1, <1>2, <1>3, <1>6, <2>1, <2>2, QuietKeeps
             DEF server, Renders, Outliving, Shell
  <1> DEFINE plain == [tab[t] EXCEPT !.orgs = of]
  <1>7. /\ listed = [tab EXCEPT ![t] = plain]
        /\ plain \in TabStates /\ plain.token = tab[t].token /\ plain.user = tab[t].user
        /\ plain.page = tab[t].page /\ plain.used = tab[t].used
    BY <1>2, <1>3 DEF TabStates
  <1>8. CASE /\ c.next = "draw"
             /\ tab' = IF c.here
                       THEN [listed EXCEPT ![t] = Drawn(@, of)]
                       ELSE listed
             /\ call' = [call EXCEPT ![s] = Idle]
    <2>1. CASE ~c.here
      <3> HIDE DEF c, t, of, plain, again
      <3> QED  BY <1>3, <1>6, <1>7, <1>8, <2>1
    <2>2. CASE c.here
      <3> DEFINE now == Drawn(plain, of)
      <3>1. /\ tab' = [tab EXCEPT ![t] = now]
            /\ now \in TabStates /\ now.token = tab[t].token /\ now.user = tab[t].user
            /\ now.page \in Inside
        BY <1>2, <1>3, <1>8, <2>2 DEF TabStates, PageNames, Inside, Drawn
      <3> HIDE DEF now, c, t, of, plain, again, listed
      <3> QED  BY <1>3, <1>4, <1>6, <1>8, <2>2, <3>1 DEF Shell
    <2> QED  BY <1>4, <2>1, <2>2
  <1>9. CASE /\ c.next = "count"
             /\ tab' = listed
             /\ call' = [call EXCEPT ![s] = [op |-> "count", tab |-> t, here |-> c.here]]
    <2> DEFINE f == [op |-> "count", tab |-> t, here |-> c.here]
    <2>1. f \in Calls /\ f.op \in Renders /\ f.op = "count" /\ f.tab = t /\ f.here = c.here
      BY <1>2, <1>4 DEF Calls, Renders
    <2> HIDE DEF c, t, of, plain, again, f
    <2> QED  BY <1>4, <1>6, <1>7, <1>9, <2>1 DEF f
  <1>10. CASE /\ c.next = "open"
              /\ tab' = listed
              /\ call' = [call EXCEPT ![s] = [op |-> "open", tab |-> t, of |-> of,
                                              token |-> tab[t].token, last |-> FALSE]]
    <2> DEFINE f == [op |-> "open", tab |-> t, of |-> of,
                     token |-> tab[t].token, last |-> FALSE]
    <2>1. /\ f \in Calls /\ f.op \in Renders /\ f.op = "open" /\ f.tab = t
          /\ f.token = tab[t].token
      BY <1>2, <1>3 DEF Calls, Renders, TabStates
    <2> HIDE DEF c, t, of, plain, again, f
    <2> QED  BY <1>6, <1>7, <1>10, <2>1 DEF f
  <1>11. CASE /\ c.next = "open" /\ Shell(t)
              /\ tab' = [listed EXCEPT ![t].page = "loading", ![t].data = {}]
              /\ call' = [call EXCEPT ![s] = again]
    <2> DEFINE now == [tab[t] EXCEPT !.orgs = of, !.page = "loading", !.data = {}]
    <2>1. /\ tab' = [tab EXCEPT ![t] = now]
          /\ now \in TabStates /\ now.token = tab[t].token /\ now.user = tab[t].user
          /\ now.page \in Inside /\ now.used = tab[t].used
      BY <1>2, <1>3, <1>11 DEF TabStates, PageNames, Inside
    <2>2. tab[t].token \in Tokens
      BY <1>2, <1>11 DEF HeaderInv, HeaderNamesOwner, TabStates
    <2>3. /\ again \in Calls /\ again.op \in Renders /\ again.op = "list"
          /\ again.tab = t /\ again.token = tab[t].token
      BY <1>5, <2>2 DEF Calls, Renders
    <2> HIDE DEF c, t, of, plain, again, now
    <2> QED  BY <1>6, <1>11, <2>1, <2>3 DEF Shell
  <1>12. CASE /\ c.next = "open" /\ ~Shell(t)
              /\ tab' = listed
              /\ call' = [call EXCEPT ![s] = Idle]
    <2> HIDE DEF c, t, of, plain, again
    <2> QED  BY <1>3, <1>6, <1>7, <1>12
  <1> QED  BY <1>8, <1>9, <1>10, <1>11, <1>12 DEF ListSucceeds

\* A command has been carried out, or the timer of a launch goes off.
LEMMA CommandReplyKeeps ==
    ASSUME HeaderInv, clicks' = clicks, NEW s \in Slots,
           CommandSucceeds(s) \/ TimerFires(s)
    PROVE  HeaderInv'
  <1> DEFINE t == call[s].tab
             noted == [tab[t] EXCEPT !.log = @ \cup {owner[call[s].token]}]
  <1> USE DEF history
  <1>1. call[s].op \in {"command", "timer"} /\ UNCHANGED <<stored, server, history>>
    BY DEF CommandSucceeds, TimerFires
  <1>2. /\ t \in BrowserTabs /\ tab[t] \in TabStates
        /\ tab[t].page \notin {"blank", "reset"}
    BY <1>1, Replying DEF Outliving
  <1>3. /\ tab \in [BrowserTabs -> TabStates] /\ call \in [Slots -> Calls]
        /\ clicks' \in 0..MaxClicks /\ Idle \in Calls /\ Idle.op = "idle"
    BY DEF HeaderInv, TypeOK, Calls, Idle
  <1>4. CommandSucceeds(s) =>
           /\ noted \in TabStates /\ noted.token = tab[t].token
           /\ noted.user = tab[t].user /\ noted.used = tab[t].used
           /\ noted.page = tab[t].page
    <2>1. CommandSucceeds(s) => owner[call[s].token] \in Users
      BY NoneAssumption DEF CommandSucceeds, HeaderInv, TypeOK
    <2> QED  BY <1>2, <2>1 DEF TabStates
  <1>5. ASSUME NEW now \in TabStates, NEW f \in Calls,
               tab' = [tab EXCEPT ![t] = now], call' = [call EXCEPT ![s] = f],
               now.token = tab[t].token, now.user = tab[t].user,
               now.used = tab[t].used, now.page = tab[t].page,
               \/ f.op \in {"idle", "timer"} /\ (f.op = "timer" => f.tab = t)
               \/ f.op = "open" /\ f.tab = t /\ f.token = tab[t].token
        PROVE  HeaderInv'
    <2>1. /\ tab' \in [BrowserTabs -> TabStates]
          /\ \A x \in BrowserTabs :
                /\ tab'[x].token = tab[x].token /\ tab'[x].user = tab[x].user
                /\ tab'[x].used = tab[x].used /\ tab'[x].page = tab[x].page
      BY <1>2, <1>3, <1>5
    <2>2. call' \in [Slots -> Calls] /\ call'[s] = f /\ \A r \in Slots \ {s} : call'[r] = call[r]
      BY <1>3, <1>5
    <2> QED  BY <1>1, <1>2, <1>3, <1>5, <2>1, <2>2, QuietKeeps
             DEF server, Renders, Outliving
  <1>6. ASSUME NEW now \in TabStates, RefreshOrg(s, t, now),
               now.token = tab[t].token, now.user = tab[t].user,
               now.used = tab[t].used, now.page = tab[t].page
        PROVE  HeaderInv'
    <2> DEFINE f == [op |-> "open", tab |-> t, of |-> now.orgs,
                     token |-> now.token, last |-> FALSE]
    <2>1. f \in Calls /\ f.op = "open" /\ f.tab = t /\ f.token = now.token
      BY <1>2 DEF Calls, TabStates
    <2>2. tab' = [tab EXCEPT ![t] = now]
          /\ call' \in {[call EXCEPT ![s] = Idle], [call EXCEPT ![s] = f]}
      BY <1>6 DEF RefreshOrg
    <2> HIDE DEF f, t
    <2> QED  BY <1>3, <1>5, <1>6, <2>1, <2>2
  <1>7. CASE TimerFires(s)
    <2>1. RefreshOrg(s, t, tab[t])
      BY <1>7 DEF TimerFires
    <2> HIDE DEF t
    <2> QED  BY <1>2, <1>6, <2>1
  <1>8. CASE CommandSucceeds(s)
    <2> DEFINE timer == [op |-> "timer", tab |-> t]
    <2>1. timer \in Calls /\ timer.op = "timer" /\ timer.tab = t
      BY <1>2 DEF Calls
    <2>2. /\ noted \in TabStates /\ noted.token = tab[t].token
          /\ noted.user = tab[t].user /\ noted.used = tab[t].used
          /\ noted.page = tab[t].page
      BY <1>4, <1>8
    <2>3. tab = [tab EXCEPT ![t] = tab[t]]
      BY <1>3
    <2>4. CASE /\ tab' \in {tab, [tab EXCEPT ![t] = noted]}
               /\ call' = [call EXCEPT ![s] = Idle]
      <3> HIDE DEF t, noted
      <3>1. CASE tab' = tab
        BY <1>2, <1>3, <1>5, <2>3, <2>4, <3>1
      <3>2. CASE tab' = [tab EXCEPT ![t] = noted]
        BY <1>3, <1>5, <2>2, <2>4, <3>2
      <3> QED  BY <2>4, <3>1, <3>2
    <2>5. CASE /\ tab' = [tab EXCEPT ![t] = noted]
               /\ call' = [call EXCEPT ![s] = timer]
      <3> HIDE DEF t, noted, timer
      <3> QED  BY <1>5, <2>1, <2>2, <2>5
    <2>6. CASE RefreshOrg(s, t, noted)
      <3> HIDE DEF t, noted
      <3> QED  BY <1>6, <2>2, <2>6
    <2>7. CASE Shell(t) /\ renderView(call, s, t, noted)
      <3> HIDE DEF t, noted
      <3>1. Renamed(t, tab[t], owner, linked) /\ tab[t].token # None
        BY <1>2, <2>7, DrawnBefore DEF HeaderInv, HeaderNamesOwner
      <3>2. Rendered(s, t, noted)
        BY <1>2, <1>3, <2>2, <2>7, <3>1, SameAsItself, ViewOutcome
      <3> QED  BY <1>1, <1>2, <1>3, <2>2, <3>1, <3>2, RenderStep DEF Renamed
    <2> QED  BY <1>8, <2>4, <2>5, <2>6, <2>7 DEF CommandSucceeds
  <1> QED  BY <1>7, <1>8

LEMMA StutterKeeps ==
    ASSUME HeaderInv, UNCHANGED vars
    PROVE  HeaderInv'
  BY DEF vars, server, history, HeaderInv, TypeOK, ChecksAlone, TokensIssued,
         FreshPages, HereInShell, HeaderNamesOwner, Shell, Waits

LEMMA ExpireKeeps ==
    ASSUME HeaderInv, clicks' = clicks, Expire
    PROVE  HeaderInv'
  BY DEF Expire, history, HeaderInv, TypeOK, ChecksAlone, TokensIssued,
         FreshPages, HereInShell, HeaderNamesOwner, Shell, Waits

LEMMA HeaderInit == Init => HeaderInv
  <1> SUFFICES ASSUME Init PROVE HeaderInv
    OBVIOUS
  <1>1. /\ (CHOOSE k \in Tokens : TRUE) \in Tokens
        /\ (CHOOSE u \in Users : TRUE) \in Users
    BY NonEmptyAssumption
  <1>2. stored \in Tokens \cup {None} /\ Issued(owner, stored)
    BY <1>1, NoneAssumption DEF Init, Issued
  <1>3. Closed \in TabStates /\ Closed.page = "closed" /\ Closed.token = None
        /\ ~Closed.used
    BY DEF Closed, TabStates, PageNames
  <1>4. Idle \in Calls /\ Idle.op = "idle"
    BY DEF Calls, Idle
  <1>5. TypeOK
    <2>1. owner \in [Tokens -> Users \cup {None}]
      BY <1>1 DEF Init
    <2>2. live \subseteq {k \in Tokens : owner[k] # None}
      BY <1>1, NoneAssumption DEF Init
    <2>3. tab \in [BrowserTabs -> TabStates]
      BY <1>3 DEF Init
    <2>4. call \in [Slots -> Calls]
      BY <1>4 DEF Init
    <2>5. clicks \in 0..MaxClicks
      BY ClickAssumption DEF Init
    <2>6. linked = {} /\ synced = {} /\ mixed = {}
      BY DEF Init
    <2> QED  BY <1>2, <2>1, <2>2, <2>3, <2>4, <2>5, <2>6 DEF TypeOK
  <1> QED  BY <1>2, <1>3, <1>4, <1>5 DEF Init, HeaderInv, ChecksAlone, TokensIssued,
              FreshPages, HereInShell, HeaderNamesOwner, Shell, Waits, Issued,
              Outside, Inside

LEMMA HeaderStep == HeaderInv /\ [Next]_vars => HeaderInv'
  <1> SUFFICES ASSUME HeaderInv, [Next]_vars PROVE HeaderInv'
    OBVIOUS
  <1>1. CASE clicks < MaxClicks /\ clicks' = clicks + 1 /\ Act
    <2>1. clicks' \in 0..MaxClicks
      BY <1>1, ClickAssumption DEF HeaderInv, TypeOK
    <2> QED  BY <1>1, <2>1, ActKeeps
  <1>2. CASE clicks' = clicks /\ Expire
    BY <1>2, ExpireKeeps
  <1>3. ASSUME NEW s \in Slots, React(s) PROVE HeaderInv'
    BY <1>3, SessionReplyKeeps, DrawingReplyKeeps, ListReplyKeeps, CommandReplyKeeps
       DEF React, Reply
  <1>4. CASE UNCHANGED vars
    BY <1>4, StutterKeeps
  <1> QED  BY <1>1, <1>2, <1>3, <1>4 DEF Next

LEMMA HeaderInvHolds == Spec => []HeaderInv
  BY HeaderInit, HeaderStep, PTL DEF Spec

\* The state has its type: a render never sends a token that is not there.
THEOREM TypeCorrect == Spec => []TypeOK
  <1>1. HeaderInv => TypeOK
    BY DEF HeaderInv
  <1> QED  BY <1>1, HeaderInvHolds, PTL

\* Who is in the shell is signed in, with a token of the user in the header.
THEOREM HeaderNames == Spec => []HeaderNamesOwner
  <1>1. HeaderInv => HeaderNamesOwner
    BY DEF HeaderInv
  <1> QED  BY <1>1, HeaderInvHolds, PTL

-----------------------------------------------------------------------------
(* Whose answers a page shows.                                               *)

\* Tokens in a tab keep their owner.
LEMMA OwnersStay ==
    ASSUME HeaderInv,
           \A k \in Tokens : owner[k] # None => owner'[k] = owner[k]
    PROVE  \A t \in BrowserTabs : Shell(t) =>
              /\ tab[t].token \in Tokens
              /\ owner'[tab[t].token] = owner[tab[t].token]
  BY DEF HeaderInv, TypeOK, TabStates, TokensIssued, Issued, HeaderNamesOwner, Shell

\* A render shows nothing, or the settings, and whatever else waits for this tab
\* is of the same session, unless the tab is mixed.
LEMMA RenderOwn ==
    ASSUME DataInv, NEW s \in Slots, NEW t \in BrowserTabs, NEW now \in TabStates,
           Rendered(s, t, now),
           \A k \in Tokens : owner[k] # None => owner'[k] = owner[k],
           mixed' \in {mixed, mixed \cup {t}, mixed \ {t}},
           \/ now.token = None \/ t \in mixed'
           \/ /\ ~now.used
              /\ \A r \in Slots \ {s} : Waits(call, r, t) => call[r].op \notin Outliving
           \/ /\ Shell(t) /\ mixed' = mixed /\ now.token = tab[t].token
              /\ now.orgs = tab[t].orgs /\ now.used = tab[t].used
    PROVE  OwnSession'
  <1>1. PICK page \in {"signin", "settings", "loading"} :
           /\ page = "signin" <=> now.token = None
           /\ tab' = [tab EXCEPT ![t] = [now EXCEPT !.page = page, !.data = Shown(page, now)]]
           /\ call' \in [Slots -> Calls]
           /\ \A r \in Slots \ {s} : Same(call'[r], call[r])
           /\ \/ call'[s].op = "idle"
              \/ /\ call'[s].op = "list" /\ call'[s].tab = t
                 /\ call'[s].token = now.token /\ now.token # None
    BY DEF Rendered
  <1>2. tab \in [BrowserTabs -> TabStates]
    BY DEF DataInv, HeaderInv, TypeOK
  <1>3. /\ tab'[t].page = page /\ tab'[t].token = now.token /\ tab'[t].orgs = now.orgs
        /\ tab'[t].data = Shown(page, now) /\ tab'[t].used = now.used
        /\ \A x \in BrowserTabs \ {t} : tab'[x] = tab[x]
        /\ page \in Inside => now.token # None
    BY <1>1, <1>2 DEF TabStates, Inside
  <1>4. \A x \in BrowserTabs : Shell(x) => owner'[tab[x].token] = owner[tab[x].token]
    BY OwnersStay DEF DataInv
  <1>5. OwnRenders'
    <2> SUFFICES ASSUME NEW x \in BrowserTabs, NEW r \in Slots,
                        x \notin mixed', tab'[x].page \in Inside,
                        call'[r].op # "idle", call'[r].tab = x
                 PROVE  Owned(call'[r], tab'[x], owner')
      BY DEF OwnRenders, Shell, Waits
    <2>1. CASE r = s
      BY <1>1, <1>3, <2>1 DEF Owned
    <2>2. CASE r # s
      <3>1. Waits(call, r, x) /\ Same(call'[r], call[r])
        BY <1>1, <2>2 DEF Waits, Same
      <3>2. CASE call'[r].op \notin Outliving
        BY <3>2 DEF Owned, Renders, Outliving
      <3>3. CASE call'[r].op \in Outliving /\ x = t
        <4>1. call[r].op \in Outliving
          BY <3>1, <3>3 DEF Same
        <4>2. /\ Shell(t) /\ t \notin mixed
              /\ now.token = tab[t].token /\ now.orgs = tab[t].orgs
          BY <1>3, <2>2, <3>1, <3>3, <4>1
        <4>3. Owned(call[r], tab[t], owner)
          BY <3>1, <3>3, <4>2 DEF DataInv, OwnSession, OwnRenders
        <4> QED  BY <1>3, <1>4, <3>1, <3>3, <4>2, <4>3 DEF Owned, Same, Renders, Outliving
      <3>4. CASE x # t
        <4>1. Shell(x) /\ x \notin mixed /\ tab'[x] = tab[x]
          BY <1>3, <3>4 DEF Shell
        <4>2. Owned(call[r], tab[x], owner)
          BY <3>1, <4>1 DEF DataInv, OwnSession, OwnRenders
        <4> QED  BY <1>4, <3>1, <4>1, <4>2 DEF Owned, Same
      <3> QED  BY <3>2, <3>3, <3>4
    <2> QED  BY <2>1, <2>2
  <1>6. OwnData'
    <2> SUFFICES ASSUME NEW x \in BrowserTabs, x \notin mixed', tab'[x].page \in Inside,
                        tab'[x].page # "settings"
                 PROVE  tab'[x].data \subseteq {owner'[tab'[x].token]}
      BY DEF OwnData, Shell
    <2>1. CASE x = t
      BY <1>3, <2>1 DEF Shown
    <2>2. CASE x # t
      <3>1. Shell(x) /\ x \notin mixed /\ tab'[x] = tab[x]
        BY <1>3, <2>2 DEF Shell
      <3> QED  BY <1>4, <3>1 DEF DataInv, OwnSession, OwnData
    <2> QED  BY <2>1, <2>2
  <1>7. OwnOrgs'
    <2> SUFFICES ASSUME NEW x \in BrowserTabs, x \notin mixed', tab'[x].page \in Inside,
                        tab'[x].used
                 PROVE  tab'[x].orgs \subseteq {owner'[tab'[x].token]}
      BY DEF OwnOrgs, Shell
    <2>1. CASE x = t
      <3>1. /\ Shell(t) /\ t \notin mixed /\ tab[t].used
            /\ now.token = tab[t].token /\ now.orgs = tab[t].orgs
        BY <1>3, <2>1
      <3> QED  BY <1>3, <1>4, <2>1, <3>1 DEF DataInv, OwnSession, OwnOrgs
    <2>2. CASE x # t
      <3>1. Shell(x) /\ x \notin mixed /\ tab'[x] = tab[x]
        BY <1>3, <2>2 DEF Shell
      <3> QED  BY <1>4, <3>1 DEF DataInv, OwnSession, OwnOrgs
    <2> QED  BY <2>1, <2>2
  <1> QED  BY <1>5, <1>6, <1>7 DEF OwnSession

\* A step of the function in slot s of tab t that leaves the session alone.
LEMMA QuietOwn ==
    ASSUME DataInv, NEW s \in Slots, NEW t \in BrowserTabs,
           owner' = owner, mixed' = mixed,
           \A x \in BrowserTabs \ {t} : tab'[x] = tab[x],
           tab'[t].token = tab[t].token, tab'[t].page \in Inside => Shell(t),
           \A r \in Slots \ {s} : call'[r] = call[r],
           call'[s].op = "idle" \/ call'[s].tab = t,
           t \notin mixed /\ Shell(t) =>
              /\ tab'[t].page # "settings" => tab'[t].data \subseteq {owner[tab[t].token]}
              /\ tab'[t].used => tab[t].used \/ tab'[t].orgs \subseteq {owner[tab[t].token]}
              /\ tab'[t].orgs = tab[t].orgs \/ tab'[t].orgs \subseteq {owner[tab[t].token]}
              /\ call'[s].op # "idle" => Owned(call'[s], tab'[t], owner)
    PROVE  OwnSession'
  <1>1. OwnRenders'
    <2> SUFFICES ASSUME NEW x \in BrowserTabs, NEW r \in Slots,
                        x \notin mixed, tab'[x].page \in Inside,
                        call'[r].op # "idle", call'[r].tab = x
                 PROVE  Owned(call'[r], tab'[x], owner)
      BY DEF OwnRenders, Shell, Waits
    <2>1. CASE r = s
      BY <2>1
    <2>2. CASE r # s
      <3>1. Shell(x) /\ Waits(call, r, x) /\ call'[r] = call[r]
        BY <2>2 DEF Shell, Waits
      <3>2. Owned(call[r], tab[x], owner)
        BY <3>1 DEF DataInv, OwnSession, OwnRenders
      <3> QED  BY <3>1, <3>2 DEF Owned
    <2> QED  BY <2>1, <2>2
  <1>2. OwnData'
    <2> SUFFICES ASSUME NEW x \in BrowserTabs, x \notin mixed, tab'[x].page \in Inside,
                        tab'[x].page # "settings"
                 PROVE  tab'[x].data \subseteq {owner[tab'[x].token]}
      BY DEF OwnData, Shell
    <2>1. Shell(x)
      BY DEF Shell
    <2> QED  BY <2>1 DEF DataInv, OwnSession, OwnData
  <1>3. OwnOrgs'
    <2> SUFFICES ASSUME NEW x \in BrowserTabs, x \notin mixed, tab'[x].page \in Inside,
                        tab'[x].used
                 PROVE  tab'[x].orgs \subseteq {owner[tab'[x].token]}
      BY DEF OwnOrgs, Shell
    <2>1. Shell(x)
      BY DEF Shell
    <2> QED  BY <2>1 DEF DataInv, OwnSession, OwnOrgs
  <1> QED  BY <1>1, <1>2, <1>3 DEF OwnSession

LEMMA ActOwns ==
    ASSUME DataInv, Act
    PROVE  OwnSession'
  <1> USE DEF history, server
  <1>1. HeaderInv /\ tab \in [BrowserTabs -> TabStates] /\ call \in [Slots -> Calls]
    BY DEF DataInv, HeaderInv, TypeOK
  <1>2. ASSUME NEW t \in BrowserTabs, showSignup(t) \/ showForgotPassword(t)
        PROVE  OwnSession'
    <2>1. PICK page \in {"signup", "forgot"} : Show(t, page)
      BY <1>2 DEF showSignup, showForgotPassword
    <2>2. /\ owner' = owner /\ mixed' = mixed /\ call' = call
          /\ \A x \in BrowserTabs \ {t} : tab'[x] = tab[x]
          /\ tab'[t].page \notin Inside
      BY <1>1, <2>1 DEF Show, TabStates, Inside
    <2> QED  BY <2>2 DEF DataInv, OwnSession, OwnRenders, OwnOrgs, OwnData, Shell, Waits
  <1>3. ASSUME NEW t \in BrowserTabs, NEW s \in Slots, BackToSignIn(s, t)
        PROVE  OwnSession'
    <2>1. /\ tab[t].page \in Outside \cup {"reset"} /\ render(call, s, t, tab[t])
          /\ tab[t] \in TabStates /\ UNCHANGED <<owner, mixed>>
      BY <1>1, <1>3 DEF BackToSignIn, Outside
    <2>2. Rendered(s, t, tab[t])
      BY <1>1, <2>1, RenderOutcome DEF HeaderInv
    <2>3. \/ tab[t].token = None
          \/ /\ ~tab[t].used
             /\ \A r \in Slots : Waits(call, r, t) => call[r].op \notin Outliving
      BY <1>1, <2>1 DEF HeaderInv, FreshPages, HeaderNamesOwner
    <2> QED  BY <2>1, <2>2, <2>3, RenderOwn
  <1>4. ASSUME NEW t \in BrowserTabs, NEW s \in Slots, Navigate(s, t)
        PROVE  OwnSession'
    <2>1. /\ Shell(t) /\ renderView(call, s, t, tab[t])
          /\ tab[t] \in TabStates /\ UNCHANGED <<owner, mixed>>
      BY <1>1, <1>4 DEF Navigate
    <2>2. tab[t].token # None
      BY <1>1, <2>1 DEF HeaderInv, HeaderNamesOwner
    <2>3. Rendered(s, t, tab[t])
      BY <1>1, <2>1, <2>2, SameAsItself, ViewOutcome
    <2> QED  BY <2>1, <2>3, RenderOwn
  <1>5. ASSUME NEW t \in BrowserTabs, NEW s \in Slots, logout(s, t)
        PROVE  OwnSession'
    <2> DEFINE now == SignedOut(t)
    <2>1. now \in TabStates /\ now.token = None
      BY <1>1 DEF TabStates, SignedOut
    <2>2. render(call, s, t, now) /\ UNCHANGED <<owner, mixed>>
      BY <1>5 DEF logout
    <2> HIDE DEF now
    <2>3. Rendered(s, t, now)
      BY <1>1, <2>1, <2>2, RenderOutcome DEF HeaderInv
    <2> QED  BY <2>1, <2>2, <2>3, RenderOwn
  <1>6. ASSUME NEW t \in BrowserTabs, NEW s \in Slots, NEW request,
               Send(s, request), request.tab = t,
               request.op \in {"signin", "forgot", "reset", "command"},
               request.op = "command" => tab[t].used
        PROVE  OwnSession'
    <2>1. /\ tab' = tab /\ owner' = owner /\ mixed' = mixed
          /\ call'[s] = request /\ \A r \in Slots \ {s} : call'[r] = call[r]
      BY <1>1, <1>6 DEF Send
    <2>2. t \notin mixed /\ Shell(t) => Owned(request, tab[t], owner)
      BY <1>6 DEF DataInv, OwnSession, OwnOrgs, Owned, Renders, Outliving
    <2> QED  BY <1>6, <2>1, <2>2, QuietOwn DEF DataInv, OwnSession, OwnData, Shell
  <1>7. ASSUME NEW t \in BrowserTabs, NEW s \in Slots,
               \/ SendForgot(s, t) \/ SendReset(s, t) \/ SendCommand(s, t)
               \/ \E u \in Users : SendSignin(s, t, u)
        PROVE  OwnSession'
    <2>1. CASE SendForgot(s, t)
      BY <1>6, <2>1 DEF SendForgot
    <2>2. CASE SendReset(s, t)
      BY <1>6, <2>2 DEF SendReset
    <2>3. ASSUME NEW u \in Users, SendSignin(s, t, u) PROVE OwnSession'
      BY <1>6, <2>3 DEF SendSignin
    <2>4. CASE SendCommand(s, t)
      BY <1>6, <2>4 DEF SendCommand
    <2> QED  BY <1>7, <2>1, <2>2, <2>3, <2>4
  <1>8. ASSUME NEW t \in BrowserTabs, NEW s \in Slots, NEW link \in BOOLEAN, Load(s, t, link)
        PROVE  OwnSession'
    <2>1. /\ owner' = owner /\ mixed' = mixed \ {t}
          /\ \A x \in BrowserTabs \ {t} : tab'[x] = tab[x]
          /\ tab'[t].page \notin Inside
      BY <1>1, <1>8 DEF Load, Closed, Inside
    <2>2. Idle.op = "idle"
      BY DEF Idle
    <2>3. Abandoned(t) \in [Slots -> Calls] /\ \A r \in Slots : Abandoned(t)[r] \in {Idle, call[r]}
      BY <1>1 DEF Abandoned, Calls
    <2>4. \/ call' = Abandoned(t)
          \/ call' = [Abandoned(t) EXCEPT ![s] = [op |-> "me", tab |-> t, token |-> stored]]
      BY <1>8 DEF Load
    <2>5. ASSUME NEW x \in BrowserTabs \ {t}, NEW r \in Slots, Waits(call', r, x)
          PROVE  Waits(call, r, x) /\ call'[r] = call[r]
      BY <2>2, <2>3, <2>4, <2>5 DEF Waits
    <2>6. \A x \in BrowserTabs : tab'[x].page \in Inside /\ x \notin mixed' =>
             x # t /\ Shell(x) /\ x \notin mixed /\ tab'[x] = tab[x]
      BY <2>1 DEF Shell
    <2>7. OwnRenders'
      <3> SUFFICES ASSUME NEW x \in BrowserTabs, NEW r \in Slots, x \notin mixed',
                          tab'[x].page \in Inside, Waits(call', r, x)
                   PROVE  Owned(call'[r], tab'[x], owner')
        BY DEF OwnRenders, Shell, Waits
      <3>1. Waits(call, r, x) /\ call'[r] = call[r]
        BY <2>5, <2>6
      <3> QED  BY <2>1, <2>6, <3>1 DEF DataInv, OwnSession, OwnRenders
    <2>8. OwnData' /\ OwnOrgs'
      BY <2>1, <2>6 DEF DataInv, OwnSession, OwnOrgs, OwnData, Shell
    <2> QED  BY <2>7, <2>8 DEF OwnSession
  <1> QED  BY <1>2, <1>3, <1>4, <1>5, <1>7, <1>8 DEF Act

LEMMA SessionReplyOwns ==
    ASSUME DataInv, NEW s \in Slots,
           MeFails(s) \/ MeSucceeds(s) \/ SigninSucceeds(s) \/ ResetSucceeds(s)
    PROVE  OwnSession'
  <1> DEFINE t == call[s].tab
  <1> USE DEF history, server
  <1>1. HeaderInv /\ call[s].op \in {"me", "signin", "reset"}
    BY DEF DataInv, MeFails, MeSucceeds, SigninSucceeds, ResetSucceeds
  <1>2. /\ call[s] \in Calls /\ t \in BrowserTabs /\ Waits(call, s, t) /\ tab[t] \in TabStates
        /\ call[s].op # "me" => tab[t].page # "blank"
    BY <1>1, Replying
  <1>3. TypeOK
    BY <1>1 DEF HeaderInv
  <1>4. CASE MeFails(s)
    <2> DEFINE now == [tab[t] EXCEPT !.token = None]
    <2>1. now \in TabStates /\ now.token = None
      BY <1>2 DEF TabStates
    <2>2. render(call, s, t, now) /\ UNCHANGED <<owner, mixed>>
      BY <1>4 DEF MeFails
    <2> HIDE DEF now, t
    <2>3. Rendered(s, t, now)
      BY <1>2, <1>3, <2>1, <2>2, RenderOutcome
    <2> QED  BY <1>2, <2>1, <2>2, <2>3, RenderOwn
  <1>5. CASE MeSucceeds(s)
    <2> DEFINE now == [tab[t] EXCEPT !.user = owner[call[s].token]]
    <2>1. /\ call[s].op = "me" /\ call[s].token \in Tokens
          /\ owner[call[s].token] \in Users \cup {None}
          /\ \A r \in Slots \ {s} : ~Waits(call, r, t)
      BY <1>1, <1>2, <1>3, <1>5, CallFields DEF MeSucceeds, HeaderInv, ChecksAlone, TypeOK
    <2>2. now \in TabStates /\ now.used = tab[t].used
      BY <1>2, <2>1 DEF TabStates
    <2>3. render(call, s, t, now) /\ UNCHANGED <<owner, mixed>>
      BY <1>5 DEF MeSucceeds
    <2> HIDE DEF now, t
    <2>4. Rendered(s, t, now)
      BY <1>2, <1>3, <2>2, <2>3, RenderOutcome
    <2>5. ~tab[t].used
      BY <1>1, <1>2, <2>1 DEF HeaderInv, ChecksAlone, FreshPages, t
    <2> QED  BY <1>2, <2>1, <2>2, <2>3, <2>4, <2>5, RenderOwn
  <1>6. CASE SigninSucceeds(s)
    <2> DEFINE u == call[s].user
    <2>1. PICK k \in Tokens :
             /\ owner[k] = None
             /\ owner' = [owner EXCEPT ![k] = u]
             /\ render(call, s, t, SignedIn(t, u, k))
      BY <1>6 DEF SigninSucceeds
    <2> DEFINE now == SignedIn(t, u, k)
    <2>2. u \in Users
      BY <1>2, <1>6, CallFields DEF SigninSucceeds
    <2>3. now \in TabStates /\ now.used = tab[t].used
      BY <1>2, <2>2 DEF TabStates, SignedIn
    <2>4. \/ mixed' = mixed \cup {t}
          \/ /\ mixed' = mixed \ {t} /\ ~tab[t].used
             /\ \A r \in Slots \ {s} : Waits(call, r, t) => call[r].op \notin Outliving
      BY <1>6 DEF SigninSucceeds, Outlived, Waits
    <2> HIDE DEF now, u, t
    <2>5. Rendered(s, t, now)
      BY <1>2, <1>3, <2>1, <2>3, RenderOutcome DEF now
    <2>6. \A x \in Tokens : owner[x] # None => owner'[x] = owner[x]
      BY <1>3, <2>1 DEF TypeOK
    <2> QED  BY <1>2, <2>3, <2>4, <2>5, <2>6, RenderOwn
  <1>7. CASE ResetSucceeds(s)
    <2> HIDE DEF t
    <2>1. /\ render(call, s, t, tab[t]) /\ UNCHANGED <<owner, mixed>>
          /\ tab[t].page # "blank"
      BY <1>2, <1>7 DEF ResetSucceeds, t
    <2>2. Rendered(s, t, tab[t])
      BY <1>2, <1>3, <2>1, RenderOutcome
    <2>3. \/ tab[t].token = None \/ Shell(t)
          \/ /\ ~tab[t].used
             /\ \A r \in Slots : Waits(call, r, t) => call[r].op \notin Outliving
      BY <1>1, <1>2, <2>1 DEF HeaderInv, FreshPages, HeaderNamesOwner, Shell,
         TabStates, PageNames
    <2> QED  BY <1>2, <2>1, <2>2, <2>3, RenderOwn
  <1> QED  BY <1>4, <1>5, <1>6, <1>7

LEMMA DrawingReplyOwns ==
    ASSUME DataInv, NEW s \in Slots,
           \/ ForgotSucceeds(s) \/ Refused(s)
           \/ ListFails(s) \/ CountReply(s) \/ OpenReply(s)
    PROVE  OwnSession'
  <1> DEFINE t == call[s].tab
  <1> USE DEF history, server
  <1>1. HeaderInv /\ call[s].op # "idle"
    BY DEF DataInv, ForgotSucceeds, Refused, ListFails, CountReply, OpenReply
  <1>2. call[s] \in Calls /\ t \in BrowserTabs /\ Waits(call, s, t) /\ tab[t] \in TabStates
    BY <1>1, Replying
  <1>3. /\ tab \in [BrowserTabs -> TabStates] /\ call \in [Slots -> Calls] /\ Idle.op = "idle"
    BY <1>1 DEF HeaderInv, TypeOK, Idle
  <1>4. owner' = owner /\ mixed' = mixed
    BY DEF ForgotSucceeds, Refused, ListFails, CountReply, OpenReply
  <1>5. t \notin mixed /\ Shell(t) => Owned(call[s], tab[t], owner)
    BY <1>2 DEF DataInv, OwnSession, OwnRenders
  <1>6. ASSUME NEW of, Shell(t), t \notin mixed => of \subseteq {owner[tab[t].token]},
               call[s].op \in {"count", "open"},
               tab' = Draw(t, of), call' = [call EXCEPT ![s] = Idle]
        PROVE  OwnSession'
    <2>1. /\ \A x \in BrowserTabs \ {t} : tab'[x] = tab[x]
          /\ tab'[t].token = tab[t].token /\ tab'[t].orgs = tab[t].orgs /\ tab'[t].data = of
      BY <1>2, <1>3, <1>6 DEF Draw, Drawn, TabStates
    <2>2. t \notin mixed => tab[t].orgs \subseteq {owner[tab[t].token]}
      BY <1>5, <1>6 DEF Owned, Outliving, Renders
    <2> HIDE DEF t
    <2> QED  BY <1>2, <1>3, <1>4, <1>6, <2>1, <2>2, QuietOwn
  <1>7. ASSUME tab' = tab, call' = [call EXCEPT ![s] = Idle]
        PROVE  OwnSession'
    BY <1>2, <1>3, <1>4, <1>7, QuietOwn DEF DataInv, OwnSession, OwnData, Shell
  <1>8. CASE Refused(s)
    BY <1>7, <1>8 DEF Refused
  <1>9. CASE ForgotSucceeds(s)
    <2>1. CASE tab[t].page \notin Outside
      BY <1>7, <1>9, <2>1 DEF ForgotSucceeds
    <2>2. CASE tab[t].page \in Outside
      <3>1. /\ \A x \in BrowserTabs \ {t} : tab'[x] = tab[x]
            /\ tab'[t].token = tab[t].token /\ tab'[t].page \notin Inside
            /\ call' = [call EXCEPT ![s] = Idle]
        BY <1>2, <1>3, <1>9, <2>2 DEF ForgotSucceeds, TabStates, Inside
      <3>2. ~Shell(t)
        BY <2>2 DEF Shell, Inside, Outside
      <3> HIDE DEF t
      <3> QED  BY <1>2, <1>3, <1>4, <3>1, <3>2, QuietOwn
    <2> QED  BY <2>1, <2>2
  <1>10. CASE ListFails(s)
    <2>1. call[s].here => Shell(t)
      BY <1>1, <1>10 DEF ListFails, HeaderInv, HereInShell
    <2>2. CASE call[s].here
      <3>1. /\ \A x \in BrowserTabs \ {t} : tab'[x] = tab[x]
            /\ tab'[t].token = tab[t].token /\ tab'[t].orgs = tab[t].orgs
            /\ tab'[t].used = tab[t].used /\ tab'[t].data = {}
            /\ call' = [call EXCEPT ![s] = Idle]
        BY <1>2, <1>3, <1>10, <2>2 DEF ListFails, TabStates
      <3> HIDE DEF t
      <3> QED  BY <1>2, <1>3, <1>4, <2>1, <2>2, <3>1, QuietOwn
    <2>3. CASE ~call[s].here
      BY <1>7, <1>10, <2>3 DEF ListFails
    <2> QED  BY <2>2, <2>3
  <1>11. CASE CountReply(s)
    <2>1. call[s].here => Shell(t)
      BY <1>1, <1>11 DEF CountReply, HeaderInv, HereInShell
    <2>2. call[s].op = "count" /\ (t \notin mixed /\ Shell(t) => tab[t].orgs \subseteq {owner[tab[t].token]})
      BY <1>5, <1>11 DEF CountReply, Owned, Outliving, Renders
    <2> QED  BY <1>6, <1>7, <1>11, <2>1, <2>2 DEF CountReply
  <1>12. CASE OpenReply(s)
    <2>0. call[s].op = "open"
      BY <1>12 DEF OpenReply
    <2>1. call[s] \in [op : {"open"}, tab : BrowserTabs, token : Tokens \cup {None},
                       of : SUBSET Users, last : BOOLEAN]
      BY <1>2, <2>0 DEF Calls, Idle
    <2>2. PICK of \in {call[s].of} \cup {call[s].of \cup Answer(k) : k \in live \cap {call[s].token}} :
              IF ~call[s].last
              THEN /\ call' = [call EXCEPT ![s] = [call[s] EXCEPT !.of = of, !.last = TRUE,
                                                            !.token = tab[t].token]]
                   /\ tab' = tab
              ELSE /\ tab' = IF Shell(t) THEN Draw(t, of) ELSE tab
                   /\ call' = [call EXCEPT ![s] = Idle]
      BY <1>12 DEF OpenReply
    <2>3. t \notin mixed /\ Shell(t) => of \subseteq {owner[tab[t].token]}
      BY <1>5, <2>0 DEF Answer, Owned
    <2>4. CASE call[s].last
      BY <1>6, <1>7, <2>0, <2>2, <2>3, <2>4
    <2>5. CASE ~call[s].last
      <3> DEFINE c == [call[s] EXCEPT !.of = of, !.last = TRUE, !.token = tab[t].token]
      <3>1. c.op = "open" /\ c.tab = t /\ c.token = tab[t].token /\ c.of = of
        BY <2>1
      <3>2. call' = [call EXCEPT ![s] = c] /\ tab' = tab
        BY <2>2, <2>5
      <3> HIDE DEF c, t
      <3>3. t \notin mixed /\ Shell(t) /\ tab[t].page # "settings" =>
               tab[t].data \subseteq {owner[tab[t].token]}
        BY <1>2 DEF DataInv, OwnSession, OwnData
      <3>4. t \notin mixed /\ Shell(t) => Owned(c, tab[t], owner)
        BY <1>5, <2>0, <2>3, <3>1 DEF Owned, Outliving, Renders
      <3> QED  BY <1>2, <1>3, <1>4, <3>1, <3>2, <3>3, <3>4, QuietOwn DEF Shell
    <2> QED  BY <2>4, <2>5
  <1> QED  BY <1>8, <1>9, <1>10, <1>11, <1>12

LEMMA ListReplyOwns ==
    ASSUME DataInv, NEW s \in Slots, ListSucceeds(s)
    PROVE  OwnSession'
  <1> DEFINE c == call[s]
             t == c.tab
             of == Answer(c.token)
             listed == [tab EXCEPT ![t].orgs = of]
             again == [c EXCEPT !.token = tab[t].token, !.here = TRUE, !.next = "draw"]
  <1> USE DEF history, server
  <1>1. HeaderInv /\ c.op = "list" /\ owner' = owner /\ mixed' = mixed
    BY DEF DataInv, ListSucceeds
  <1>2. c \in Calls /\ t \in BrowserTabs /\ Waits(call, s, t) /\ tab[t] \in TabStates
    BY <1>1, Replying
  <1>3. tab \in [BrowserTabs -> TabStates] /\ call \in [Slots -> Calls] /\ Idle.op = "idle"
    BY <1>1 DEF HeaderInv, TypeOK, Idle
  <1>4. t \notin mixed /\ Shell(t) =>
           /\ of = {owner[tab[t].token]}
           /\ tab[t].page # "settings" => tab[t].data \subseteq {owner[tab[t].token]}
    BY <1>1, <1>2 DEF DataInv, OwnSession, OwnRenders, OwnData, Owned, Answer
  <1>5. c.here => Shell(t)
    BY <1>1 DEF HeaderInv, HereInShell
  <1>6. c \in [op : {"list"}, tab : BrowserTabs, token : Tokens, here : BOOLEAN,
               next : {"draw", "count", "open"}]
    BY <1>1, <1>2 DEF Calls, Idle
  <1>7. ASSUME NEW now, NEW f,
               tab' = [tab EXCEPT ![t] = now], call' = [call EXCEPT ![s] = f],
               now.token = tab[t].token, now.orgs = of,
               now.page \in Inside => Shell(t),
               \/ now.data \in {of, {}}
               \/ now.data = tab[t].data /\ now.page = tab[t].page,
               \/ f.op = "idle"
               \/ /\ f.tab = t /\ f.op \in Renders
                  /\ f.op \in {"list", "open"} => f.token = tab[t].token
                  /\ f.op = "open" => f.of = of
        PROVE  OwnSession'
    <2>1. /\ tab'[t] = now /\ \A x \in BrowserTabs \ {t} : tab'[x] = tab[x]
          /\ call'[s] = f /\ \A r \in Slots \ {s} : call'[r] = call[r]
      BY <1>2, <1>3, <1>7
    <2>2. t \notin mixed /\ Shell(t) =>
             /\ now.page # "settings" => now.data \subseteq {owner[tab[t].token]}
             /\ now.orgs \subseteq {owner[tab[t].token]}
             /\ f.op # "idle" => Owned(f, now, owner)
      BY <1>4, <1>7 DEF Owned
    <2> HIDE DEF t, c, of, listed, again
    <2> QED  BY <1>1, <1>2, <1>7, <2>1, <2>2, QuietOwn
  <1> DEFINE plain == [tab[t] EXCEPT !.orgs = of]
  <1>8. /\ listed = [tab EXCEPT ![t] = plain]
        /\ plain.token = tab[t].token /\ plain.orgs = of
        /\ plain.page = tab[t].page /\ plain.data = tab[t].data
    BY <1>2, <1>3 DEF TabStates
  <1>9. CASE /\ c.next = "draw"
             /\ tab' = IF c.here
                       THEN [listed EXCEPT ![t] = Drawn(@, of)]
                       ELSE listed
             /\ call' = [call EXCEPT ![s] = Idle]
    <2>1. CASE ~c.here
      <3> HIDE DEF c, t, of, plain, again
      <3> QED  BY <1>3, <1>7, <1>8, <1>9, <2>1 DEF Shell
    <2>2. CASE c.here
      <3> DEFINE now == Drawn(plain, of)
      <3>1. /\ tab' = [tab EXCEPT ![t] = now]
            /\ now.token = tab[t].token /\ now.orgs = of /\ now.data = of
        BY <1>2, <1>3, <1>9, <2>2 DEF TabStates, Drawn
      <3> HIDE DEF now, c, t, of, plain, again, listed
      <3> QED  BY <1>3, <1>5, <1>7, <1>9, <2>2, <3>1
    <2> QED  BY <2>1, <2>2
  <1>10. CASE /\ c.next = "count"
              /\ tab' = listed
              /\ call' = [call EXCEPT ![s] = [op |-> "count", tab |-> t, here |-> c.here]]
    <2> DEFINE f == [op |-> "count", tab |-> t, here |-> c.here]
    <2>1. f.op \in Renders /\ f.op = "count" /\ f.tab = t
      BY DEF Renders
    <2> HIDE DEF c, t, of, plain, again, f
    <2> QED  BY <1>7, <1>8, <1>10, <2>1 DEF f, Shell
  <1>11. CASE /\ c.next = "open"
              /\ tab' = listed
              /\ call' = [call EXCEPT ![s] = [op |-> "open", tab |-> t, of |-> of,
                                              token |-> tab[t].token, last |-> FALSE]]
    <2> DEFINE f == [op |-> "open", tab |-> t, of |-> of,
                     token |-> tab[t].token, last |-> FALSE]
    <2>1. f.op \in Renders /\ f.op = "open" /\ f.tab = t /\ f.token = tab[t].token /\ f.of = of
      BY DEF Renders
    <2> HIDE DEF c, t, of, plain, again, f
    <2> QED  BY <1>7, <1>8, <1>11, <2>1 DEF f, Shell
  <1>12. CASE /\ c.next = "open" /\ Shell(t)
              /\ tab' = [listed EXCEPT ![t].page = "loading", ![t].data = {}]
              /\ call' = [call EXCEPT ![s] = again]
    <2> DEFINE now == [tab[t] EXCEPT !.orgs = of, !.page = "loading", !.data = {}]
    <2>1. /\ tab' = [tab EXCEPT ![t] = now]
          /\ now.token = tab[t].token /\ now.orgs = of /\ now.data = {}
      BY <1>2, <1>3, <1>12 DEF TabStates
    <2>2. /\ again.op \in Renders /\ again.op = "list"
          /\ again.tab = t /\ again.token = tab[t].token
      BY <1>6 DEF Renders
    <2> HIDE DEF c, t, of, plain, again, now
    <2> QED  BY <1>7, <1>12, <2>1, <2>2
  <1>13. CASE /\ c.next = "open" /\ ~Shell(t)
              /\ tab' = listed
              /\ call' = [call EXCEPT ![s] = Idle]
    <2> HIDE DEF c, t, of, plain, again
    <2> QED  BY <1>3, <1>7, <1>8, <1>13 DEF Shell
  <1> QED  BY <1>9, <1>10, <1>11, <1>12, <1>13 DEF ListSucceeds

\* What follows a command, or the timer of a launch, is of the session that
\* gave the command, unless the tab is mixed.
LEMMA CommandReplyOwns ==
    ASSUME DataInv, NEW s \in Slots, CommandSucceeds(s) \/ TimerFires(s)
    PROVE  OwnSession'
  <1> DEFINE t == call[s].tab
             noted == [tab[t] EXCEPT !.log = @ \cup {owner[call[s].token]}]
  <1> USE DEF history, server
  <1>1. /\ HeaderInv /\ call[s].op \in {"command", "timer"}
        /\ owner' = owner /\ mixed' = mixed
    BY DEF DataInv, CommandSucceeds, TimerFires
  <1>2. t \in BrowserTabs /\ Waits(call, s, t) /\ tab[t] \in TabStates
    BY <1>1, Replying
  <1>3. /\ tab \in [BrowserTabs -> TabStates] /\ call \in [Slots -> Calls] /\ Idle.op = "idle"
        /\ live \subseteq {k \in Tokens : owner[k] # None}
        /\ owner \in [Tokens -> Users \cup {None}]
    BY <1>1 DEF HeaderInv, TypeOK, Idle
  <1>4. t \notin mixed /\ Shell(t) =>
           /\ tab[t].orgs \subseteq {owner[tab[t].token]}
           /\ tab[t].page # "settings" => tab[t].data \subseteq {owner[tab[t].token]}
    BY <1>1, <1>2 DEF DataInv, OwnSession, OwnRenders, OwnData, Owned, Outliving, Renders
  <1>5. /\ noted.token = tab[t].token /\ noted.orgs = tab[t].orgs
        /\ noted.page = tab[t].page /\ noted.data = tab[t].data
        /\ noted.used = tab[t].used
    BY <1>2 DEF TabStates
  <1>6. ASSUME NEW now, NEW f,
               tab' = [tab EXCEPT ![t] = now], call' = [call EXCEPT ![s] = f],
               now.token = tab[t].token, now.orgs = tab[t].orgs,
               now.page = tab[t].page, now.data = tab[t].data,
               \/ f.op = "idle"
               \/ f.tab = t /\ f.op = "timer"
               \/ /\ f.tab = t /\ f.op = "open"
                  /\ f.token = tab[t].token /\ f.of = tab[t].orgs
        PROVE  OwnSession'
    <2>1. /\ tab'[t] = now /\ \A x \in BrowserTabs \ {t} : tab'[x] = tab[x]
          /\ call'[s] = f /\ \A r \in Slots \ {s} : call'[r] = call[r]
      BY <1>2, <1>3, <1>6
    <2>2. t \notin mixed /\ Shell(t) /\ f.op # "idle" => Owned(f, now, owner)
      BY <1>4, <1>6 DEF Owned
    <2> HIDE DEF t, noted
    <2> QED  BY <1>1, <1>2, <1>4, <1>6, <2>1, <2>2, QuietOwn DEF Shell
  <1>7. ASSUME NEW now, RefreshOrg(s, t, now),
               now.token = tab[t].token, now.orgs = tab[t].orgs,
               now.page = tab[t].page, now.data = tab[t].data
        PROVE  OwnSession'
    <2> DEFINE f == [op |-> "open", tab |-> t, of |-> now.orgs,
                     token |-> now.token, last |-> FALSE]
    <2>1. f.op = "open" /\ f.tab = t /\ f.token = now.token /\ f.of = now.orgs
      OBVIOUS
    <2>2. tab' = [tab EXCEPT ![t] = now]
          /\ call' \in {[call EXCEPT ![s] = Idle], [call EXCEPT ![s] = f]}
      BY <1>7 DEF RefreshOrg
    <2> HIDE DEF f, t, noted
    <2> QED  BY <1>3, <1>6, <1>7, <2>1, <2>2
  <1>8. CASE TimerFires(s)
    <2>1. RefreshOrg(s, t, tab[t])
      BY <1>8 DEF TimerFires
    <2> HIDE DEF t, noted
    <2> QED  BY <1>7, <2>1
  <1>9. CASE CommandSucceeds(s)
    <2> DEFINE timer == [op |-> "timer", tab |-> t]
    <2>1. timer.op = "timer" /\ timer.tab = t
      OBVIOUS
    <2>2. tab = [tab EXCEPT ![t] = tab[t]]
      BY <1>3
    <2>3. CASE /\ tab' \in {tab, [tab EXCEPT ![t] = noted]}
               /\ call' = [call EXCEPT ![s] = Idle]
      <3> HIDE DEF t, noted
      <3>1. CASE tab' = tab
        BY <1>3, <1>6, <2>2, <2>3, <3>1
      <3>2. CASE tab' = [tab EXCEPT ![t] = noted]
        BY <1>3, <1>5, <1>6, <2>3, <3>2
      <3> QED  BY <2>3, <3>1, <3>2
    <2>4. CASE /\ tab' = [tab EXCEPT ![t] = noted]
               /\ call' = [call EXCEPT ![s] = timer]
      <3> HIDE DEF t, noted, timer
      <3> QED  BY <1>5, <1>6, <2>1, <2>4
    <2>5. CASE RefreshOrg(s, t, noted)
      <3> HIDE DEF t, noted
      <3> QED  BY <1>5, <1>7, <2>5
    <2>6. CASE Shell(t) /\ renderView(call, s, t, noted)
      <3>1. owner[call[s].token] \in Users
        BY <1>3, <1>9, NoneAssumption DEF CommandSucceeds
      <3>2. noted \in TabStates
        BY <1>2, <3>1 DEF TabStates
      <3> HIDE DEF t, noted
      <3>3. noted.token # None
        BY <1>1, <1>2, <1>5, <2>6 DEF HeaderInv, HeaderNamesOwner
      <3>4. Rendered(s, t, noted)
        BY <1>2, <1>3, <2>6, <3>2, <3>3, SameAsItself, ViewOutcome
      <3> QED  BY <1>1, <1>2, <1>5, <2>6, <3>2, <3>4, RenderOwn
    <2> QED  BY <1>9, <2>3, <2>4, <2>5, <2>6 DEF CommandSucceeds
  <1> QED  BY <1>8, <1>9

LEMMA DataStep == DataInv /\ [Next]_vars => DataInv'
  <1> SUFFICES ASSUME DataInv, [Next]_vars PROVE DataInv'
    OBVIOUS
  <1>1. HeaderInv'
    BY HeaderStep DEF DataInv
  <1>2. CASE Act
    BY <1>1, <1>2, ActOwns DEF DataInv
  <1>3. ASSUME NEW s \in Slots, React(s) PROVE DataInv'
    BY <1>1, <1>3, SessionReplyOwns, DrawingReplyOwns, ListReplyOwns, CommandReplyOwns
       DEF React, Reply, DataInv
  <1>4. CASE Expire \/ UNCHANGED vars
    BY <1>1, <1>4 DEF Expire, vars, server, history, DataInv, OwnSession, OwnRenders,
       OwnOrgs, OwnData, Owned, Waits, Shell
  <1> QED  BY <1>2, <1>3, <1>4 DEF Next

\* No view but the settings shows anybody's answers but those of the one who is
\* signed in, unless a request, a command, the timer of a launch or a dialog of
\* an earlier session outlived it.
THEOREM ShowsOwnData == Spec => []OwnData
  <1>1. Init => DataInv
    <2> SUFFICES ASSUME Init PROVE DataInv
      OBVIOUS
    <2>1. \A t \in BrowserTabs : ~Shell(t)
      BY DEF Init, Closed, Shell, Inside
    <2> QED  BY <2>1, HeaderInit DEF DataInv, OwnSession, OwnRenders, OwnOrgs, OwnData
  <1>2. DataInv => OwnData
    BY DEF DataInv, OwnSession
  <1> QED  BY <1>1, <1>2, DataStep, PTL DEF Spec

-----------------------------------------------------------------------------
(* The tabs and localStorage.                                                *)

\* A tab that renders as `now' when its token, and that in localStorage, are
\* the same stays in step; the others do when localStorage stays what it was.
LEMMA RenderSyncs ==
    ASSUME TypeOK, InSync, NEW s \in Slots, NEW t \in BrowserTabs, NEW now,
           Rendered(s, t, now),
           \/ synced' = {t} /\ now.token = stored'
           \/ synced' = synced \cup {t} /\ now.token = stored' /\ stored' = stored
           \/ synced' = synced /\ now.token = tab[t].token /\ stored' = stored,
           now \in TabStates
    PROVE  InSync'
  <1>1. \A x \in BrowserTabs : tab'[x].token = IF x = t THEN now.token ELSE tab[x].token
    BY DEF Rendered, TypeOK, TabStates
  <1>2. synced \subseteq BrowserTabs
    BY DEF TypeOK
  <1> QED  BY <1>1, <1>2 DEF InSync

LEMMA SyncStep == HeaderInv /\ InSync /\ [Next]_vars => InSync'
  <1> SUFFICES ASSUME HeaderInv, InSync, [Next]_vars PROVE InSync'
    OBVIOUS
  <1> USE DEF history
  <1>1. TypeOK /\ tab \in [BrowserTabs -> TabStates] /\ synced \subseteq BrowserTabs
    BY DEF HeaderInv, TypeOK
  <1>2. ASSUME UNCHANGED <<stored, history>>,
               \A x \in BrowserTabs : tab'[x].token = tab[x].token
        PROVE  InSync'
    BY <1>1, <1>2 DEF InSync
  <1>3. ASSUME NEW s \in Slots, NEW t \in BrowserTabs, NEW now \in TabStates,
               now.token = tab[t].token,
               render(call, s, t, now) \/ renderView(call, s, t, now)
        PROVE  \A x \in BrowserTabs : tab'[x].token = tab[x].token
    BY <1>1, <1>3 DEF render, renderView, renderSettings, TabStates
  <1>4. ASSUME NEW t \in BrowserTabs, showSignup(t) \/ showForgotPassword(t)
        PROVE  InSync'
    BY <1>1, <1>2, <1>4 DEF showSignup, showForgotPassword, Show, TabStates
  <1>5. ASSUME NEW t \in BrowserTabs, NEW s \in Slots, NEW link \in BOOLEAN, Load(s, t, link)
        PROVE  InSync'
    <2>1. /\ synced' = synced \cup {t} /\ stored' = stored
          /\ tab'[t].token = stored /\ \A x \in BrowserTabs \ {t} : tab'[x] = tab[x]
      BY <1>1, <1>5 DEF Load, Closed
    <2> QED  BY <1>1, <2>1 DEF InSync
  <1>6. ASSUME NEW t \in BrowserTabs, NEW s \in Slots,
               \/ BackToSignIn(s, t) \/ Navigate(s, t)
               \/ SendForgot(s, t) \/ SendReset(s, t) \/ SendCommand(s, t)
               \/ \E u \in Users : SendSignin(s, t, u)
        PROVE  InSync'
    <2>1. CASE BackToSignIn(s, t) \/ Navigate(s, t)
      BY <1>1, <1>2, <1>3, <2>1 DEF BackToSignIn, Navigate
    <2>2. CASE \/ SendForgot(s, t) \/ SendReset(s, t) \/ SendCommand(s, t)
               \/ \E u \in Users : SendSignin(s, t, u)
      BY <1>2, <2>2 DEF SendForgot, SendReset, SendCommand, SendSignin, Send
    <2> QED  BY <1>6, <2>1, <2>2
  <1>7. ASSUME NEW t \in BrowserTabs, NEW s \in Slots, logout(s, t)
        PROVE  InSync'
    <2> DEFINE now == SignedOut(t)
    <2>1. now \in TabStates /\ now.token = None
      BY <1>1 DEF TabStates, SignedOut
    <2>2. render(call, s, t, now) /\ stored' = None
      BY <1>7 DEF logout
    <2>3. synced' = {t} \/ (synced' = synced \cup {t} /\ stored = None)
      BY <1>7 DEF logout
    <2> HIDE DEF now
    <2> QED  BY <1>1, <2>1, <2>2, <2>3, RenderOutcome, RenderSyncs
  <1>8. ASSUME NEW s \in Slots, MeFails(s)
        PROVE  InSync'
    <2> DEFINE t == call[s].tab
               now == [tab[t] EXCEPT !.token = None]
    <2>1. t \in BrowserTabs
      BY <1>8, Replying DEF MeFails
    <2>2. now \in TabStates /\ now.token = None
      BY <1>1, <2>1 DEF TabStates
    <2>3. render(call, s, t, now) /\ stored' = None
      BY <1>8 DEF MeFails
    <2>4. synced' = {t} \/ (synced' = synced \cup {t} /\ stored = None)
      BY <1>8 DEF MeFails
    <2> HIDE DEF now, t
    <2> QED  BY <1>1, <2>1, <2>2, <2>3, <2>4, RenderOutcome, RenderSyncs
  <1>9. ASSUME NEW s \in Slots, SigninSucceeds(s)
        PROVE  InSync'
    <2> DEFINE t == call[s].tab
               u == call[s].user
    <2>1. t \in BrowserTabs /\ u \in Users
      BY <1>1, <1>9, Replying, CallFields DEF SigninSucceeds
    <2>2. PICK k \in Tokens : stored' = k /\ render(call, s, t, SignedIn(t, u, k))
      BY <1>9 DEF SigninSucceeds
    <2> DEFINE now == SignedIn(t, u, k)
    <2>3. now \in TabStates /\ now.token = k
      BY <1>1, <2>1 DEF SignedIn, TabStates
    <2>4. synced' = {t}
      BY <1>9 DEF SigninSucceeds
    <2> HIDE DEF now, t, u
    <2>5. Rendered(s, t, now)
      BY <1>1, <2>1, <2>2, <2>3, RenderOutcome DEF now
    <2> QED  BY <1>1, <2>1, <2>2, <2>3, <2>4, <2>5, RenderSyncs
  <1>10. ASSUME NEW s \in Slots, MeSucceeds(s) \/ ResetSucceeds(s)
        PROVE  InSync'
    <2> DEFINE t == call[s].tab
               now == IF MeSucceeds(s) THEN [tab[t] EXCEPT !.user = owner[call[s].token]]
                                       ELSE tab[t]
    <2>1. t \in BrowserTabs /\ call[s] \in Calls
      BY <1>10, Replying DEF MeSucceeds, ResetSucceeds
    <2>2. MeSucceeds(s) => owner[call[s].token] \in Users \cup {None}
      BY <1>1, <2>1, CallFields DEF MeSucceeds, TypeOK
    <2>3. now \in TabStates /\ now.token = tab[t].token
      BY <1>1, <2>1, <2>2 DEF TabStates
    <2>4. render(call, s, t, now) /\ UNCHANGED <<stored, history>>
      BY <1>10 DEF MeSucceeds, ResetSucceeds
    <2> HIDE DEF now, t
    <2> QED  BY <1>2, <1>3, <2>1, <2>3, <2>4
  <1>11. ASSUME NEW s \in Slots,
                \/ ForgotSucceeds(s) \/ Refused(s) \/ ListFails(s) \/ ListSucceeds(s)
                \/ CountReply(s) \/ OpenReply(s)
         PROVE  InSync'
    <2>1. UNCHANGED <<stored, history>>
      BY <1>11 DEF ForgotSucceeds, Refused, ListFails, ListSucceeds, CountReply, OpenReply
    <2>2. CASE ForgotSucceeds(s) \/ Refused(s)
      BY <1>1, <1>2, <2>1, <2>2 DEF ForgotSucceeds, Refused, TabStates
    <2> DEFINE t == call[s].tab
    <2>3. \A of : \A x \in BrowserTabs : Draw(t, of)[x].token = tab[x].token
      BY <1>1 DEF Draw, Drawn, TabStates
    <2>4. CASE ListFails(s) \/ CountReply(s)
      BY <1>1, <1>2, <2>1, <2>4, <2>3 DEF ListFails, CountReply, TabStates
    <2>5. CASE OpenReply(s)
      <3>1. (\E of : tab' = Draw(t, of)) \/ tab' = tab
        BY <2>5 DEF OpenReply
      <3> HIDE DEF t
      <3> QED  BY <1>2, <2>1, <2>3, <3>1
    <2>6. CASE ListSucceeds(s)
      <3> DEFINE of == Answer(call[s].token)
                 listed == [tab EXCEPT ![t].orgs = of]
      <3>1. tab' \in {[listed EXCEPT ![t] = Drawn(@, of)], listed,
                      [listed EXCEPT ![t].page = "loading", ![t].data = {}]}
        BY <2>6 DEF ListSucceeds
      <3>2. \A x \in BrowserTabs :
               /\ listed[x].token = tab[x].token
               /\ [listed EXCEPT ![t] = Drawn(@, of)][x].token = tab[x].token
               /\ [listed EXCEPT ![t].page = "loading", ![t].data = {}][x].token = tab[x].token
        BY <1>1 DEF Drawn, TabStates
      <3> HIDE DEF listed, of, t
      <3> QED  BY <1>2, <2>1, <3>1, <3>2
    <2> QED  BY <1>11, <2>2, <2>4, <2>5, <2>6
  <1>12. ASSUME NEW s \in Slots, CommandSucceeds(s) \/ TimerFires(s)
         PROVE  InSync'
    <2> DEFINE t == call[s].tab
               noted == [tab[t] EXCEPT !.log = @ \cup {owner[call[s].token]}]
    <2>1. UNCHANGED <<stored, history>> /\ t \in BrowserTabs
      BY <1>12, Replying DEF CommandSucceeds, TimerFires
    <2>2. noted.token = tab[t].token
      BY <1>1, <2>1 DEF TabStates
    <2>3. ASSUME NEW now, now.token = tab[t].token, tab' = [tab EXCEPT ![t] = now]
          PROVE  \A x \in BrowserTabs : tab'[x].token = tab[x].token
      BY <1>1, <2>1, <2>3
    <2>4. CASE TimerFires(s)
      BY <1>2, <2>1, <2>3, <2>4 DEF TimerFires, RefreshOrg
    <2>5. CASE CommandSucceeds(s)
      <3>1. CASE tab' = tab
        BY <1>2, <2>1, <3>1
      <3>2. CASE tab' = [tab EXCEPT ![t] = noted]
        <4> HIDE DEF noted, t
        <4> QED  BY <1>2, <2>1, <2>2, <2>3, <3>2
      <3>3. CASE renderView(call, s, t, noted)
        <4>1. CommandSucceeds(s) => owner[call[s].token] \in Users
          BY <1>1, NoneAssumption DEF CommandSucceeds, TypeOK
        <4>2. noted \in TabStates
          BY <1>1, <2>1, <2>5, <4>1 DEF TabStates
        <4> HIDE DEF noted, t
        <4> QED  BY <1>2, <1>3, <2>1, <2>2, <3>3, <4>2
      <3> HIDE DEF noted
      <3> QED  BY <2>5, <3>1, <3>2, <3>3 DEF CommandSucceeds, RefreshOrg, noted
    <2> QED  BY <1>12, <2>4, <2>5
  <1>13. CASE Expire \/ UNCHANGED vars
    BY <1>13, <1>2 DEF Expire, vars, server
  <1>14. CASE Act
    BY <1>14, <1>4, <1>5, <1>6, <1>7 DEF Act
  <1>15. ASSUME NEW s \in Slots, React(s) PROVE InSync'
    BY <1>15, <1>8, <1>9, <1>10, <1>11, <1>12 DEF React, Reply
  <1> QED  BY <1>13, <1>14, <1>15 DEF Next

\* Loading the page again resumes the session the tab has, unless another tab
\* has written to localStorage since.
THEOREM ResumesSession == Spec => []InSync
  <1>1. Init => InSync
    BY DEF Init, InSync
  <1> QED  BY <1>1, HeaderInvHolds, SyncStep, PTL DEF Spec
=============================================================================
