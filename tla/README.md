# A formal model of the IaaS platform

TLA+ modules, TLC configurations and TLAPS proofs for the control plane of this
repository: a Go server over PostgreSQL that manages organizations, compute
instances, webhooks and billing, and the dashboard it serves, a single JavaScript
page. Paths below are relative to the repository
root. `PROJECT.json` holds the tables behind this text: components, runs,
mutants, the lines each definition models, findings, hazards and theorems.

## 1. The system

Every HTTP request is a goroutine that calls one service operation. A service
operation is a **sequence of separate PostgreSQL statements under the request's
context**; no operation of the services opens a transaction. Two background
goroutines share the tables with the requests: the compute reconciler and the
webhook dispatcher. Whatever is hard about this system follows from that: a check
and the write it protects are different statements, other requests and workers
run in between, any statement may fail (or succeed and lose its reply), and a
cancelled context or a dead process ends an operation half-way.

The dashboard (`internal/dashboard/static/app.js`) is the other half of the code.
One browser thread runs one handler at a time, and every handler that asks the
server for something is an `async` function that stops at its `await`s. Clicks,
timers and other replies run in between, over one global `state` object and one
`#main` element. Nothing cancels a request, numbers it, or compares its reply with
what has been asked for since.

| Component | State | Operations | Talks to | Must hold |
|---|---|---|---|---|
| compute lifecycle (`internal/compute/service.go`, `reconciler.go`, `sim_provider.go`) | `compute_instances.status`, `provider_state` | Create, Start, Stop, Terminate, `Reconciler.Tick` | provider (a second table), audit, webhooks | the row never claims what the provider has not done; rows left alone come to rest; destruction is recorded; nothing leaks |
| admission (`Service.enforceQuota`, `enforceCapacity`) | usage summed over `compute_instances`, limits | the checks of Create | the lifecycle, which frees and revives rows | quota and capacity, up to what overlapping creates can miss |
| webhooks (`internal/webhooks`, `internal/database/webhooks.go`) | `webhooks`, `webhook_deliveries`, the batch in memory | registry calls, Emit, Ping, `DispatchOnce` | every service emits; the endpoints answer | at least once, and once only without faults; delivered is final; nobody starves; a bounded number of attempts |
| rate limiter (`internal/middleware/ratelimit.go`) | visitors map under a mutex | `allow`, `cleanup` | every request | never beyond the rate; a patient client is served |
| organizations and membership (`internal/organizations`, signup in `internal/auth/service.go`) | `organizations`, `organization_members`, `org_join_requests`, `users` | Create, Invite, Accept, Revoke, Remove, Suspend, Unsuspend, Signup | audit, webhooks | an admin remains; a request is answered one way; roles are kept |
| password reset (`internal/auth/service.go`) | `password_resets`, the password hash | request, use | mailer | a token works once, up to overlap; a link that was asked for last works |
| billing (`internal/billing/service.go`) | usage records, invoices, line items | record, generate | audit | the items of an invoice add up; usage is billed in one month; a later invoice of a month stands for the earlier |
| dashboard (`internal/dashboard/static/app.js`) | `state.view`, `currentOrg`, `orgs`, `instances`; the page, its tab and overlay; requests in flight | navigation, renders, tabs, overlays, commands, the refreshes after them | the REST API | nothing is left loading; a tab is of one organization and its buttons act there; what stays is the page, tab and content asked for last, and lists that were read are up to date, but for the late replies and refreshes that the properties name |
| sessions (the same file) | `localStorage.token`, shared by the tabs; `state.token`, `state.user` of each tab | load, sign in, sign up, sign out, forgotten password, reset link | the REST API, the other tabs | the header names the owner of the token; no view but the settings shows another's answers; a reload resumes the session; no tab stays blank |
| migrations (`internal/database/migrate.go`) | `schema_migrations`, the schema | up, at server start | all servers | each migration once, in order |
| start and shutdown (`cmd/server/main.go`) | listener, workers, pool | start, drain, stop | all | nothing runs on a closed pool |
| the rest: login, audit rows, metrics, routing, validation, configuration, CORS and security headers, mailer, health | none, or append-only | | | |

### What is hard

`PROJECT.json` lists the hazards at their lines. The recurring shapes are:

- *check, then write unconditionally*: the lifecycle graph, quotas, `requireAdmin`,
  `FindJoinRequest`. Each check is made on a row that may have changed by the time
  of the write.
- *stale snapshots in workers*: `Tick` compares with a listed status, `fail()`
  counts from a listed number of attempts.
- *half-done operations*: provision without insert, organization without owner,
  POST without recorded outcome, cleanup under a context already cancelled.
- *silent short reads*: the `list` helpers never look at `rows.Err()`.
- *time*: the provider's delay, backoff, suspensions, rounding of refills.
- *replies out of order*: of two renders of the same place the one whose reply comes
  last stays, and the refresh after a command comes when the user may have left.
- *state read after an await*: the path of a second request is made from
  `state.currentOrg` as it is by then; a reply draws `state.orgs` whoever's it is; the
  overlay a reply closes is the one that is open by then.
- *what outlives a session*: requests and commands in flight, launch timers,
  `state.orgs`, the current organization, the activity log, the token in the other tabs.
- *a failure taken for an empty answer*: a list of instances that cannot be read is
  drawn as "No instances".

## 2. The modules

| Module | Models | Kind |
|---|---|---|
| `Lifecycle` | requests, reconciler, provider, faults | component |
| `LifecycleProofs` | | theorems |
| `Admission` | overlapping creates against the limits | component |
| `Outbox` | what those who send, and those who receive, may rely on | abstract specification |
| `Webhooks` | registry, queue, dispatcher, implementing `Outbox` | component |
| `TokenBudget` | what a rate limiter promises | abstract specification |
| `RateLimiter` | the limiter, implementing `TokenBudget` | component |
| `ServerProofs` | the three components above, which share no state | theorems |
| `Membership`, `MembershipProofs` | organizations, members, join requests, signup | component, theorems |
| `PasswordReset`, `PasswordResetProofs` | requests and uses of reset links | component, theorems |
| `Billing`, `BillingProofs` | usage records, invoices, the end of a month | component, theorems |
| `Console`, `ConsoleProofs` | the dashboard of a signed-in user | component, theorems |
| `Session`, `SessionProofs` | signing in and out in the tabs of a browser | component, theorems |
| `SumTheorems` | sums over finite sets, for `ServerProofs` and `BillingProofs` | lemmas |
| `MCxxx` | small instances | model checking |

`ServerProofs` extends three components at once, so the parts that every module has
are named after the component in two of them: `LimiterTypeOK`, `LimiterSpec`,
`limiterVars`, `WebhooksTypeOK`, `WebhooksSpec`, `hookVars` and so on; in `Webhooks`
the requests are `update[c]` of `Updaters`.

In every component of the server a request is a record in `req[c]` whose `pc` names the store
call it will make next; a step of the model is one store call together with
everything the code does up to the next one. Checks that fail end the request.
Operators named `X_Y` with the comment `Mutant` are plausible bugs of `X`; each
property is checked to fail when one of them replaces the original.

**Lifecycle.** `row` is `compute_instances.status`; `desired` and `elapsed` are
`provider_state` (the wall clock matters only as "the delay has passed").
`snap` and `seen` are the locals of one `Tick`: the listed statuses still to be
visited and the state read for the row in hand. A call goes through `Outcome`:
applied and reported, refused by a cancelled context, failed cleanly, or applied
with the reply lost. `Create` is `BeginCreate`, `Provision`, `Insert` and, if the
insert reports an error, `Cleanup`; Start, Stop and Terminate are `Accept`,
`CallProvider`, `UpdateRow`. `Fault` bounds the faults of a behaviour and
remembers in `harsh` whether one of them left the code not knowing what happened.
`reached` is a history variable: every state the provider has had.

**Admission.** Rows, and the creates between their two checks and their insert.
Cores stand for cores, memory and disk, whose checks are the same. `Release` and
`Revive` are what the lifecycle does to a row as far as admission can see it: a
terminated row does come back, when a start, a stop or a tick that checked it before
writes it after. `SizedLimits` is the limit on cores together with the capacity of the
region, `InstanceQuota` that on the number of instances.

**Webhooks.** `next_attempt_at` only orders and delays deliveries, so the queue is
the sequence `line` of those that are due, and a pending delivery outside it waits
for its backoff. `List` is `ListDue` with its filter on active webhooks and its
limit; a batch entry keeps the number of attempts that was listed. `Post` and
`MarkDelivered`/`MarkFailed` are separate steps. An endpoint may accept a delivery
without the dispatcher hearing of it, because the answer is lost or comes after the ten
seconds of the client (`PostUnheard`): the dispatcher records a failure and sends the
delivery again. That is a fault, like a record that is not made and a crash. `attempted`
and `accepted` count, up to a cap, what the endpoint saw. `Among` is what the queries select,
in the order of the line: `SelectSeq` as a function on prefixes, which proofs can reason about.
`Outbox` keeps, of each message, how far it has come and how often it was accepted;
`Promised` is the refinement mapping, which takes rows for stages (`Stage`: a delivery
that failed for good is still owed, since the code goes on attempting it).

**RateLimiter.** The mutex makes each operation one step. `lastSeen` becomes an
age. `TokenBudget` states the promise without timestamps: a level that grows with
time and pays for every request served. `Budget` is the refinement mapping.

**Membership.** One organization stands for all, as they share no rows. UNIQUE
constraints (slug, email, organization and user) decide which of two racing
inserts fails. `strayed`, `orphaned`, `torn` and `answers` are history: an admin
acted after losing the role, a create stopped before its owner was added, an
acceptance ended early or was overtaken, the answers a join request got.

**PasswordReset.** One account stands for all, as tokens belong to one. `token` is
the row of each token, `req` the store call or mail each client makes next; the
find of `ResetPassword` is its first step, `UpdatePassword` and `MarkUsed` the
others. `Expire` may come at any time, so every `resetTTL` is covered. `uses` and
`lost` are history: how often a token changed the password, and how many of those
requests ended before they marked it.

**Billing.** Quantities are multiples of 1/`Scale` hours, which float64 adds exactly;
the clock matters only as the current month. An invoice keeps, as history, the `bill`
it was made from: its month, the month of the read, the records it covers, the
invoices of the time, and whether the read stopped short. `GetSummary` returns one
row per type, so a read that breaks (`rows.Err()` is never looked at) loses whole
types. The invoice is inserted first, then its lines, in the order of the code.

**Console.** A step is what the page does from one `await` to the next: a click, a
reply, or the timer of a launch. `flight[s]` is an asynchronous function that waits,
with the locals it will go on with; starting a render marks the earlier ones of the
same place `old`, using a reply marks those that are still on their way `late`, and
`crossed` remembers that a late one was used. A render whose element has been replaced
is `Gone`: its reply changes nothing. Rows carry the organizations they belong to and
whether they show every command that was carried out; names, states and amounts are
left out. `CarryOut` is the server: a command takes effect at some point between the
click and its reply, whose loss is `CommandFails`. GET /orgs may answer with any set
of organizations, as other users add and remove this one. `asked` and `askedTab` are
the page and the tab the user went to last, whatever replies have drawn since.
`overdrawn`, `barged` and `cut` are history like `crossed`. `overdrawn`: since the user
went there, a reply drew over the settings, or a fetched tab over Instances, or details
drawn again led from another tab back to Instances; no later reply need have been used
for that. `barged`: a refresh drew what the user had left, or a render deselected an
organization that another one will draw. `cut`: the user was not told of a command that
was carried out, or the refresh after it was left out because the list of organizations
that has just come no longer has the one that was open. `NoRows` are the rows of a list
that was not read, also of one whose request failed: they are of no organization and
show no command.

**Session.** The tabs of one browser, which share `stored`, the token in
`localStorage`. What the shell shows is reduced to whose answers or commands they are
(`data`), what the code keeps to whose list `state.orgs` is and whose commands
`state.activityLog` tells of (`orgs`, `log`), and a render to the requests it makes in
turn (`list`, `count`, `open`), each with the token it was sent with. A command adds to
the log and may start a render, a redraw of the current organization, or the timer of a
launch (`CommandSucceeds`, `TimerFires`); a logout drops the token and the user and
nothing else (`SignedOut`). A token is of one user from its issue on, and may
expire at any time. `linked`, `synced` and `mixed` are history: the tab was opened by
the link of a reset mail; nobody else has written `localStorage` since the tab read or
wrote it; requests, commands or timers of an earlier session were on their way, or a
dialog of it may have been open, when the present one began.

## 3. The runs

| Run | Bounds | Distinct states | Shows |
|---|---|---|---|
| `LifecycleRaces` | 1 instance, 2 clients, 3 faults of any kind, fair | 425 721 | `RowNeverAhead`, `TerminatedIsReleased`, `LeakNeedsFaults`, `ComesToRest`, `DestructionIsRecorded` |
| `AdmissionOverlap` | 2 organizations, 1 shared region, 2 clients, 4 rows, sizes 1 and 2 | 205 137 | `InstanceQuota`, `SizedLimits` |
| `WebhooksDelivery` | 2 webhooks, 2 deliveries, batches of 1, 1 dispatcher, 1 update client, 2 attempts, 1 fault, fair | 774 809 | `DuplicatesNeedFaults`, `DeliveredWasAccepted`, `SendsAsPromised`, `KeepsTrying` |
| `LimiterBudget` | 2 keys, burst 4, 2 tokens per 3 units of time | 4 356 | `WithinBudget`, `PauseIsEnough` |
| `MembershipRaces` | 2 users, 2 clients, failures anywhere | 75 425 | `AdminRemains`, `AnsweredOnce` |
| `PasswordReset` | 1 account, 3 tokens, 2 clients, 2 faults | 37 101 | `FewLinks`, `SpentOncePerClient`, `SomeLinkStored` |
| `BillingMonths` | 2 usage records, 2 invoices, 2 clients, 2 months, 3/8 of an hour per record, 1 fault | 556 647 up to symmetry | `ItemsAddUp`, `OneMonth`, `LaterIsMore` |
| `ConsoleRaces` | 2 organizations, 2 requests at a time, all commands and tabs, 6 clicks | 1 465 783 up to symmetry | `LoadingIsAwaited`, `OneOrgPerTab`, `NothingElsewhere`, `HeaderIsCurrent`, `ShowsWhatWasAsked`, `ReadsOwnWrites` |
| `SessionTabs` | 2 users, 2 tokens, 2 tabs, 2 requests at a time, 4 clicks, fair | 668 522 | `HeaderNamesOwner`, `OwnData`, `InSync`, `Settles` |

*Why the bounds are enough to be interesting.* Instances do not share rows, so the
races of the lifecycle are those of two requests and a tick on one instance; three
faults include every pair plus one more, and the cost stated by `LeakNeedsFaults`
is reached and exceeded. In the admission run each limit is reached and, through
overlap, exceeded by exactly the slack. Two attempts make both branches of
`fail()` happen; a batch of one out of two deliveries makes the limit bite; a
burst of four with two tokens per three units makes rounding and the cap differ.
Two users let two admins act on each other, and an outsider join. Three tokens
let a third request follow two that overlap. Three eighths of an hour of CPU and of
memory each leave a fraction of a cent, and together more than a cent. Two requests at
a time are enough for one reply to overtake another and for a command to be carried out
while a render waits; six clicks reach an organization, a tab, a command of one of its
rows and another organization. Two people who use one tab, and two tabs that use one
`localStorage`, meet within four clicks. Every mutant
is found within these bounds. Symmetry is used only in runs without liveness.

`CHECK_DEADLOCK FALSE` is set where the bounded system may really stop: ids and
faults are used up, an organization has nobody left who may act, or the clicks of a
behaviour are used up and every reply has come.

### Disagreements between the code and what is said of it

| Run | Says | The code |
|---|---|---|
| `WebhooksBudget` | `dispatcher.go:35`: retried until `max_attempts` is exhausted | an exhausted delivery is `failed`, due at once, and `ListDue` selects failed rows |
| `WebhooksTwoServers` | `docs/DEPLOYMENT.md:91`: horizontal scaling is fine for correctness | two servers list the same delivery and the later failure puts a delivered one back |
| `LimiterRefill` | `ratelimit.go:63`: refill `rate` tokens per `interval` | every call moves `lastSeen` and the elapsed time is rounded down, so a client that keeps asking is never refilled |

More are visible in the conditions of the properties that do hold. `InstanceQuota` and
`SizedLimits` allow for the creates that overlap, although quotas are "enforced at
creation" (`docs/ARCHITECTURE.md:83`). `TerminatedIsReleased` speaks of rows that say
terminated, and not of rows that ever did, as a start, a stop or a tick whose check is
stale writes over them (`internal/compute/service.go:111` gives terminated no successor).
`AdminRemains` excuses a create that fails between its two inserts
(`organizations/service.go:105`; ARCHITECTURE.md:65 promises the creator is the
first admin) and two admins that remove each other; `AnsweredOnce` excuses a
revocation that overtakes an acceptance (`organizations/service.go:290`): both
report success. `TerminatedIsReleased` excuses an instance that was ever stopped: a
late start brings it back under a row that says terminated, which is never listed
again. `SpentOncePerClient` excuses uses of a reset link that overlap, and uses that
ended before `MarkUsed`; the mail says the link "can only be used once"
(`internal/auth/service.go:344`). `OneMonth` excuses a request for an invoice that
the end of the month overtakes: the read has no end of period, although
"invoice generation bills the current calendar month" (`docs/ARCHITECTURE.md:88`).

In the dashboard, `HeaderIsCurrent` and `ShowsWhatWasAsked` excuse a reply that is used
after the reply to a later request for the same place (the header may then name an
organization that commands do not act on), and `ShowsWhatWasAsked` besides

- the refresh after a command or a launch that comes when the user has gone elsewhere and
  draws its organization over the page he is on (`barged`);
- the lone late reply that draws over what needs no reply: a page over the settings
  (`app.js:262`), a fetched tab over Instances (`app.js:579`) (`overdrawn`);
- the details that are drawn again, by a refresh or by a reply that was still on its way,
  while the user is on another of their tabs: `app.js:569` always leads back to Instances
  (`overdrawn`).

`ReadsOwnWrites` excuses commands that were carried out and reported as failed, forms
that were closed before their reply: the handler looks for an overlay to remove, finds
none and throws before it draws (`app.js:1309`, `1137`, `1380`), and refreshes that are
left out because the open organization is gone from the list. The last was found by the
attempt to prove it; it takes three functions in flight, one more than the run has, and
so does a refresh that finds the user on another page (`barged`). It speaks of lists that were read:
after a refresh that could not read the instances the page shows "No instances" and no
error (`app.js:537`), whatever the user has launched.

`HeaderNamesOwner` excuses tabs opened by a reset link: `init` returns before the check
of the stored token, so that choosing a new password leads to the shell of whoever is
signed in, without a name, and not to the form that the message asks to use. `OwnData`
leaves out the settings, which show the next user of the tab the activity log of the one
before (`app.js:1441`, kept by `app.js:443`). Of the other views it excuses sign-ins that
requests, commands or launch timers of the session before outlive: their answers, and the
list in `state.orgs`, are drawn for whoever signed in. A dialog that is open while two
sign-ins overlap outlives the first of them, too.

Seen while reading, and not checked by a run: an answer of 401 never leads back to the
form to sign in, only a reload does; the sizes that the launch form names and those it
sends differ (`app.js:1257`: "Small" says 2 GB and sends 1024 MB); its estimate
(`app.js:1280`) uses other prices than the invoices (`internal/billing/service.go:38`);
the setting to refresh automatically is stored and never read.

### Fairness

`Lifecycle!FairSpec`: `Reconciler.Run` ticks for ever, a tick visits every listed
row, the provider's delay passes, and a handler that has started runs to its end
(`net/http` never abandons one). Clients need not send anything, no fault has to
happen, and `ListPartial` may replace a listing only while faults last.
`Webhooks!FairSpec`: the dispatcher ticks, every POST ends within the client's
timeout, a backoff passes; an endpoint need never accept anything.
`RateLimiter!FairSpec`: time passes and clients keep asking.
`Session!FairSpec`: `fetch` settles every request, with an answer or an error, and the
browser runs what waits for it; users need not click. Only weak fairness is
used, on actions that stay enabled until they happen.

## 4. The theorems

All hold for every value of the constants that satisfies the named assumptions, which
TLC evaluates in the runs: in `Lifecycle` `OpsAssumption` and `FaultAssumption`; in
`Admission` `SizesAssumption`, `QuotaAssumption` and `FiniteAssumption` (clients, rows
and sizes are finite sets, and there are some clients and sizes); in `Webhooks`
`BoundAssumption` (finitely many ids, at least one attempt, a limit of at least one); in
`RateLimiter` `ParameterAssumption` and `CleanupAssumption`; in `Membership`
`MayFailAssumption`; in `PasswordReset` `FiniteAssumption` and `FaultAssumption`; in
`Billing` `BoundAssumption`, `QuantityAssumption` (quantities are positive) and
`UsageAssumption` (finitely many records); in `Console`
`CommandAssumption`, `TabAssumption`, `ClickAssumption` and `NoneAssumption`; in
`Session` `NoneAssumption`, `NonEmptyAssumption` and `ClickAssumption`. In the last two
the number of requests in flight, of tabs and of clicks is any, so a theorem is about
every behaviour of the page. Three theorems about webhooks assume one dispatcher,
`Dispatchers = {p}`, as the code does; `WebhooksTwoServers` shows that they need it.

- `LifecycleProofs!TypeCorrect`, `ServerProofs!TypeCorrect` (of `Admission`),
  `ServerProofs!LimiterTypeCorrect`, `ServerProofs!WebhooksTypeCorrect`,
  `MembershipProofs!TypeCorrect`, `PasswordResetProofs!TypeCorrect`,
  `BillingProofs!TypesHold`, `ConsoleProofs!TypeCorrect`, `SessionProofs!TypeCorrect`.
- `LifecycleProofs!NeverAhead` (`RowNeverAhead`). Not inductive by itself, since a
  row is written from what a request or a tick holds. `ReachedInv` adds that what a
  tick has listed or read was reached (`TickReached`), that a request about to
  write its row has made the provider reach that state (`RequestsReached`), and
  that what the provider reports of an existing instance has been reached
  (`ProviderReached`). `ReachedGrows`, states are never unreached, carries all of
  them over the steps of other processes.
- `LifecycleProofs!LeakCostsFaults` (`LeakNeedsFaults`). `LeakInv`: until two clean
  errors or a harsh fault are `Paid`, a resource without a row is `Pursued` by a
  create that has still to insert the row, or to clean up after one error already.
  `LifecycleProofs!TerminatedIsGone` (`TerminatedIsReleased`) adds `ReleaseInv` to
  `ReachedInv`: the provider is told to provision only by a create nobody has heard of
  (`FirstCall`, `Untouched`) or a start of what has been stopped (`Restarts`, `Stops`),
  so what was destroyed and neither stopped nor lost stays destroyed (`KeptDestroyed`).
- `ServerProofs!QuotaOvershoot` (`InstanceQuota`). The inductive invariant counts
  the rows of an organization together with the creates that have passed its check:
  usage plus creates on their way never exceeds the limit by more than the creates
  of the other clients. `ServerProofs!SizedOvershoot` (`SizedLimits`) is the same in
  cores, for organizations and for regions at once (`Bounded`): what is rented, plus
  what the creates past the check will rent, stays within the limit plus one largest
  size for every client but the last.
- `ServerProofs!AcceptedFirst` (`DeliveredWasAccepted`), for any number of dispatchers:
  an acceptance that is about to be recorded has been counted (`AnswerCounted`), and an
  answer is of the first delivery of a batch (`PostsFromBatch`).
  `ServerProofs!RepeatsNeedFaults` (`DuplicatesNeedFaults`), `DeliveredStays`
  (`DeliveredIsFinal`) and `ImplementsOutbox` (`SendsAsPromised`), for one dispatcher.
  `LineInv`, which holds for any number: a delivery is in line once, and only if it is
  not delivered. So a batch lists every delivery once, and none that is delivered
  (`BatchInv`), and what was accepted more often than there were faults is either in
  hand, with its acceptance about to be recorded, or delivered or deleted and in no
  batch (`Repeats`). `Enqueues` is what `Emit` and `Ping` have in common. For the
  refinement every step is a step of `Outbox` or a stutter: attempts that fail and
  backoffs stutter, a fault of any kind is one of the outbox, and an acceptance that
  was not heard of is an acceptance and a fault of it at once. `DispatcherSteps`
  reduces the two kinds of POST to one (`Sent`).
- `ServerProofs!KeepsBudget` (`WithinBudget`): `RateLimiter` implements
  `TokenBudget`; initial states map to initial states and every step to a step or a
  stutter. `CleanupAssumption` (a visitor idle long enough to be forgotten has a
  full bucket) is what makes the sweep harmless. `PauseServes` (`PauseIsEnough`).
- `MembershipProofs!KeepsAnAdmin` (`AdminRemains`). `Inv` lets a member, and any
  admin's request in flight, show as well as the organization itself that there is
  an active admin; removals and suspensions need that a request is never on its own
  sender. `MembershipProofs!OneAnswerEach` (`AnsweredOnce`). `Papers`: a user asks once,
  before any answer (`FirstAsk`, `NothingBefore`); after an acceptance a request is left
  only while its acceptance is about to drop it, and after a revocation neither a request
  nor an acceptance that has found it (`OneAnswer`).
- `PasswordResetProofs!FewLinksStored` (`FewLinks`), inductive with the types: a
  request deletes before it creates, so every stored token and every create on its
  way was paid for by a different client. `PasswordResetProofs!SpentOnce`
  (`SpentOncePerClient`). `Accounted`: every earlier use of a token nobody has
  marked is lost or about to mark it, so together with the uses let in they fit
  into the clients; it needs that a request only holds tokens once stored
  (`Issued`), as `MarkUsed` of a deleted row changes nothing.
  `PasswordResetProofs!MailboxHasALink` (`SomeLinkStored`). `Replaced`: once a link was
  created, one is stored and mailed or about to be, or a request that has still to
  create its own is on the way.
- `BillingProofs!BilledInOneMonth` (`OneMonth`) and `LaterCoversMore`. `Sound`: what a
  bill covers was recorded from its month on and until the month of the read, and it
  covers what the earlier invoices of its month do. Records and bills never change
  (`Kept`), which carries it over the steps of others. `LaterBillsMore` (`LaterIsMore`)
  adds that more records, in every type, never cost less. `LineItemsAddUp`
  (`ItemsAddUp`) rests on `ItemsInv`: the amount of an invoice is the sum over the
  quantities of its bill (`Priced`), every line is missing or is the bill's quantity, an
  invoice that was returned misses none (`Full`), and what a request has not added yet
  is what it has still to add.
- `ConsoleProofs!NeverLeftLoading` (`LoadingIsAwaited`), `TabsOfOneOrg` (`OneOrgPerTab`)
  and `CommandsStay` (`NothingElsewhere`) share an inductive invariant. Every step either
  replaces `#main`, and then no render of a tab survives it (`Replaces`), or leaves the
  page and `currentOrg` alone (`Stays`): whatever goes on then `Fits` the tab. To the
  three properties `IInv` adds that the overlay was opened from a row of the current
  organization, unless the user has been removed from it meanwhile (`OverlayRow`), that
  so were the commands on their way (`AllAimed`), actions excepted, which the server
  checks, and that a tab of members is of an organization (`MembersNamed`).
- `ConsoleProofs!HeaderNamesCurrent` (`HeaderIsCurrent`), `LastAskedIsShown`
  (`ShowsWhatWasAsked`) and `OwnWritesAreRead` (`ReadsOwnWrites`) add three invariants,
  each over ten kinds of `Moves` that every step is one of (`StepMoves`). `OrderInv`:
  of the functions that draw one place at most one is `new`, and while one is `old` there
  is one that is `new` (`InOrder`); the organization of a new render of details is the
  current one, or none is (`NewDetails`). So, unless replies `crossed`, the header was
  drawn by the newest. `ShowInv`, unless replies `crossed` or one `barged`: the new render
  of a place will draw what was asked for (`WillDraw`), and with none on its way the place
  shows it. `MainRight` says it of the page, except that a render may be about to draw
  over the settings; until it has, and is `overdrawn`, the settings are what is shown.
  `TabRight` says it of the tab, its highlight and its content, with the same exception
  for Instances. `FreshInv`, unless replies `crossed`, `barged` or a command's redraw was
  lost (`cut`): rows that were read and miss a command that was carried out (`UpToDate`
  fails) are `Owed` a redraw, by the reply of the command or the timer of a launch, or a
  render of them is on its way (`HeardMain`, `HeardTab`, `Drawn`).
- `SessionProofs!HeaderNames` (`HeaderNamesOwner`), `ShowsOwnData` (`OwnData`),
  `ResumesSession` (`InSync`). `HeaderInv` is needed even for the types, as nothing but
  it keeps the shell from sending a request without a token: a check of the token is
  all its tab waits for (`ChecksAlone`), tokens that are held have been issued, so that
  their owner stays the same (`TokensIssued`), a page that has just been loaded has
  rendered nothing (`FreshPages`), and only the shell has renders with a place to draw
  (`HereInShell`). `OwnRenders` and `OwnOrgs` add, of a tab that is not mixed, that
  its renders were sent with the token it has and hold answers of its owner alone, and
  that once a view is drawn, so that there are buttons to send a command with, `state.orgs`
  is a list of his: what a command or a timer draws again is taken from it.
  `RenderKeeps` and `QuietKeeps` carry `HeaderInv` over the two kinds of steps,
  `RenderOwn` and `QuietOwn` the rest.

*Sums and sequences.* The induction theorems of the library take an operator as a
parameter, which the provers cannot instantiate, so two facts about data are proved
without them. `SumTheorems` counts the sum of a function over a set as the set of its
units, pairs of an element and a number below its value, so that what is known of
cardinalities holds of sums; the step from one element to the next is by a smallest
counterexample, which is a theorem about well-founded orders and needs no operator.
`ServerProofs!IntervalInduction` does the same for the lengths of prefixes, from which
`AmongSequence` says what `Among` leaves of a sequence.

Only model-checked: the liveness properties `ComesToRest`, `DestructionIsRecorded`,
`KeepsTrying` and `Settles`, as the prover has no rule for fairness and ENABLED. Every
invariant, action property and refinement of a passing run is a theorem as well.

## 5. Not modelled

Audit rows and events are best effort and read by no decision. Secrets, signatures,
event filters and payloads of webhooks, names, pages, validation and JSON change no
state the properties speak of. `QuotaRepository.Upsert` and
`ComputeRepository.Delete` have no caller, so limits are constants and rows are
never deleted. Deleting an organization or a user does not exist.

*Several servers.* The reconciler and the dispatcher run in every server.
`WebhooksTwoServers` has two dispatchers; `Lifecycle` has one reconciler.

*Migrations* (`internal/database/migrate.go`) are a loop over files, each applied in a
transaction of its own. What two servers that start together do to each other is
decided by PostgreSQL's locks on `schema_migrations` and by whether the text of a
migration fails when run twice, which is not in the code to be modelled.

*Start and shutdown* (`cmd/server/main.go`) are a fixed sequence. A request or a worker
that is cut off there leaves behind what the crashes of `Lifecycle` and the faults of
`Webhooks` do.

*Of the dashboard*: what forms check before they send, overlays and panels that only
inform (invoices, audit details, notifications), the text of toasts, the time a toast
stays, and the two settings that are stored, which nothing reads. The activity log is in
`Session` alone, as whose commands it tells of. That a form that is sent twice is carried
out twice is possible in `Console`, where no button is disabled, but counted by no
property. The page asks for instances per organization to
count them; only that this takes time, and draws when it ends, is modelled.

## 6. What could follow

Several reconcilers in `Lifecycle`; `Lifecycle` composed with the events it emits;
abstract specifications for the reset links and for the session of a tab, as `Outbox` is
for webhooks.
