# HomeStock: a verification project in TLA+

HomeStock is a household inventory server: a Go HTTP API (gin, gorm) over SQLite
or PostgreSQL, a gateway with a cron scheduler, an outbound event dispatcher and
a configuration hot reload, and a React front end. This directory models the
parts of it that are hard to test, checks them with TLC on small instances and
proves every safety property that holds for every instance with TLAPS.

## 1. The system

### Components, their state and their operations

| Component | State | Operations | Interacts with |
|---|---|---|---|
| Inventory service (`internal/service/inventory_service.go`, `stock_lot_repository.go`, the handlers `inventory_stock.go` and `inventory_batch.go`) | tables `materials`, `stock_lots`, `stock_movements`; the rows a request holds in memory | Inbound, Consume, Adjust, VoidLot, UpdateLot, the two batches | database transactions, audit log |
| Catalog (`category_service.go`, `material_service.go`, their repositories, `pkg/database/database.go`) | tables `categories`, `materials` | create, rename, delete a category; create a material; seed the default category at start | inventory (materials), database |
| Audit log (`audit_log_repository.go`) | table `audit_logs` | insert inside the caller's transaction, error dropped; paged list | every service |
| Configuration store (`pkg/config/config.go`) | `config.json`, its `.tmp`, the in-memory `current`, the environment | Load, Get, Save | handlers of API keys, endpoints and cron; hot reload |
| Hot reload (`internal/integration/hotreload`) | last modification time and size seen, `reloading` flag, last configuration | poll, settle, reload, diff; `POST /reload` | configuration store, logger |
| Outbound (`internal/outbound`) | endpoints built at start | Send with retries and back-off, Reload | cron task, test endpoint |
| Cron scheduler (`pkg/cron`) and expiry notifier (`internal/integration/cron`) | jobs with next and last run, running flag, stop and wake channels | Start, Stop, tick, execute; scan and notify | outbound, configuration, inventory tables |
| Process lifecycle (`cmd/server/main.go`, `main.go`, `internal/cli`, `internal/app/server.go`, `pkg/server/server.go`, `internal/gateway`) | open requests, listener, scheduler, database handle, the process | Start, signal, Shutdown, exit | all of the above |
| Authentication (`auth_service.go`, `auth_api.go`, the middlewares) | table `users`, signing key, tokens at clients | Register, Login, ValidateToken, ChangePassword, API keys | configuration, web session |
| Web session (`web/src/store/authStore.ts`, `web/src/lib/api.ts`, `ProtectedRoute.tsx`, `LoginPage.tsx`, `Sidebar.tsx`, `Header.tsx`) | token in localStorage, shared by all tabs; each tab's store, route and requests under way | login, logout, initialize, the listener of `auth:unauthorized`, redirects, navigation, search | HTTP API, pages |
| Inventory page and its dialogs (`pages/inventory`, `useDebounce.ts`) | filters, the two loaded lists, selection, page, open dialog, its fields and pending flags | load, filter, search, turn pages, open and submit dialogs | session, HTTP API |
| History and home pages (`pages/history`, `pages/home`, `useDashboardStats.ts`) | filters, search, two tables; the dashboard's totals | load, filter, search, sum up | session, HTTP API |
| Settings page (`pages/settings`) | section, its list, edited row, flags | load, add, edit, save, delete, test, change the password | session, HTTP API |
| Shopping page (`pages/shopping`) | the items shown; the list in localStorage | add, tick off | other tabs, by localStorage |
| Queries (`match.go`, `material_repository.go` summaries, `audit_log_repository.go` pages, `isWithinTimeWindow`) | none | pure functions | their callers |

The front end and the server meet in requests only: the provider in `api.ts` puts
the stored token on each, the middleware accepts or refuses it, and whatever the
component awaits goes on when the answer arrives. A 401 is also announced to the
auth store by an event. Pages and session meet in the route and in the token; tabs
meet in localStorage.

### Where the difficulty is

* Requests run concurrently, each on its own database connection. Transactions
  are deferred on SQLite (one writer, readers keep it from committing) and READ
  COMMITTED on PostgreSQL, no row is locked when it is read, and a row is saved
  whole: every read-then-save is a possible lost update. `UpdateLot` does not
  even use a transaction.
* Any statement can fail, and the audit insert's error is dropped although it
  runs inside the transaction.
* Configuration is a file and a variable, written under a lock by Save, read
  without one by Load, and polled by the watcher.
* Shutdown is run by a goroutine while `main` returns as soon as the listener is
  closed.
* The browser runs one callback at a time, but whatever happens between a request
  and its answer (another filter, another page, another user in the same browser)
  has changed the state that the code after the `await` acts on. Answers arrive in
  any order or not at all, any 401 logs out, whichever request it answers, and the
  handlers go on with the values their closure saw.

### What makes each component correct

The ledger explains the stock; a consumption takes exactly what was asked for, in
FEFO order; nothing is handed out twice; natural keys and category names are
unique; a category in use is not deleted; the server can always be restarted;
the environment's secrets never reach the file; memory and file agree once
writers stop; a reload is not lost; a job does not overlap itself and stops when
told; requests are drained before the process ends; a token that a user signed out
of is not sent again, and one that the server refuses signs out; a page shows the
answer to its last question, what is pending ends, and what is submitted belongs to
the row it was filled in for.


## 2. Modules and how they correspond to the code

| Module | Models | One action is |
|---|---|---|
| `Inventory` | the inventory service on its tables | one database statement |
| `StockLedger` | what the inventory promises: each request at once, in FEFO order | one request |
| `Catalog` | categories, creation of materials, seeding, restarts | one database statement |
| `CategoryBook` | what the catalog promises | one request |
| `ConfigStore` | Load, Save, hot reload, the administrator's editor, crashes | one file operation, or one section under a lock |
| `Scheduler` | `pkg/cron` | one step of `runLoop` |
| `Lifecycle` | `main`, Shutdown and Stop, requests, watcher, notifier; extends `Scheduler` | one call or wait |
| `WebCalls` | requests of the browser: sent, handled, settled or lost | (definitions for the next) |
| `WebSession` | the auth store of each tab, the route guard, login and logout, the server's tokens; extends `WebCalls` | one callback, or one answer of the server |
| `InventoryView`, `HistoryView`, `SettingsView`, `ShoppingView` | one page each, with the lists the server answers; each extends `WebSession` | one handler, effect, timer or continuation |
| `HomeView` | the dashboard; extends `InventoryView`, whose stock it sums up | its one load |
| `WebApp` | the composition: rendering, routes, other users and tabs | the actions of all of them |
| `MC...` | instances for TLC: start states, refinement mappings, symmetry | |
| `InventoryProofs`, `QuantityProofs`, `CatalogProofs`, `ConfigProofs`, `LifecycleProofs`, `WebProofs`, `WebPageProofs` | theorems (section 4); `SumProofs` the lemmas on finite sums, least elements and sorted lists that they share | |

`Inventory` instantiates `StockLedger` and `Catalog` instantiates `CategoryBook`, so
that the runs and the proofs speak of the same refinement mapping. Constants are
assumed to be what the code makes of them and no more: finite stocks with whole
quantities, markers such as `NoCall`, `None` and `NoRow` that are no value of the kind they
stand for, starts made of known routes, stocks and items.

### Inventory and Catalog

A goroutine `p` serves a request: `pc[p]` names the statement it sends next,
`req[p]` the request, the other per-goroutine variables the locals of the service
method (`mem` the rows it holds, `rest` and `taken` Consume's `remaining` and
results, `pend` the movement of the row just written). `wm`, `wl`, `wd` and `wc`
are the uncommitted writes of its transaction; `mats`, `lots`, `ledger` and `cats`
are committed. A read is committed state overlaid with one's own writes. `Stored`
is what `StockLotRepository.Create` and `Update` do to a row's status on the way to
the table, `Before` is the ORDER BY of `ListConsumableByMaterial`, `LoopPoint` the
head of Consume's loop. The commit publishes everything at once.

The database is external and is modelled by what the services depend on:
`MayInsert`, `MayWrite`, `MayWriteCat`, `MayFile` and `MayCommit` say when a
statement can proceed. SQLite (rollback journal, deferred transactions) has one
writer, which cannot commit while another transaction reads; whoever cannot
proceed gets SQLITE_BUSY (`Busy`). PostgreSQL at READ COMMITTED locks rows that
were written, rows that a foreign key refers to and names about to change in the
unique index, and ends one transaction of a cycle of waits (`DeadlockDetected`).
`StatementFails` lets any request fail anywhere; `AuditFails` is the one failure
the services ignore, and on PostgreSQL it aborts the transaction nevertheless.
`PRAGMA foreign_keys = ON` is executed on one connection of the pool, so on SQLite
each statement runs with or without foreign keys (`ForeignKeys`).

The handlers' validation is the set of requests: `Requests` has positive
quantities for the single endpoints and any quantity for the batches.

### ConfigStore

`file` is what `config.json` decodes to, `Torn` while it is half written, `Absent`
before the first run. `current`, `mu`, `reloading` and `lastCfg` are the variables
of `config.go` and `Orchestrator`; `lastMod` and `seenMod` the watcher's locals;
`held` the `*Config` a goroutine carries between two steps. `Encoded` is
`json.MarshalIndent` followed by decoding over the defaults: a setting that
`omitempty` leaves out comes back as its default. `Overlay` is `applyEnvOverrides`.
Load reads without the lock, Save holds it from its read to its publication.
The administrator replaces the file or rewrites it in place (`EditBegin`,
`EditEnd`), and a crash is possible at every step, also in the middle of the file
the first run creates. That creation may also fail, as its errors are ignored:
`LoadCreate` then leaves no file, or half of one, and Load goes on.

### Scheduler and Lifecycle

`loop` is where `runLoop` is, `due` and `busy` the jobs that `tick` has picked and
the one it runs, `nextRun` and `enabled` the fields of `Job`. `main` is what the
main goroutine does next, `shut` what the goroutine that waits for the signal does
next: drain, stop the watcher, stop the scheduler, close the database. A step of
`shut` that waits (`watch_wait`, `cron_wait`) is a `wg.Wait`. `GatewayFree` is the
gateway's mutex. When `main` returns every goroutine is gone: each action has
`Alive` as its guard. `phase`, `tried` and `result` follow one run of the expiry
notifier through `Manager.Send` and `HTTPEndpoint.Send`; an attempt that is not
acknowledged may have been delivered, and the job's ten minutes may end in any
back-off. An endpoint for which no request can be built is given up without an attempt
(`Refused`): one whose URL does not parse (`Malformed`), or every one if the event
cannot be encoded (`phase = "unfit"`).

### The web front end

`calls[i]` is a request under way together with what its continuation needs: `tab`
is the tab whose code awaits it (`NoTab` once the document is gone), `token` the one
it carries, `arg` what the closure of the handler holds, `live` whether its component
is still mounted, `state` how far the server is and `got` the answer. A handler is
split at its `await`: the click is one action and puts the request in a free slot, the
server's answer is the second, and the code after the `await`, `finally` included, is
the third (`Put(i, NoCall)`, or `Reload` when it goes on with `loadData`). A load of
two parallel requests is answered in two steps in either order (`HandleRows`,
`HandleDetails`), so that the stock may change in between. `Bad` is the continuation
of a request that was answered with an error or was lost, before or after the server
handled it. `newest`, `fresh` and `mine` are history variables: whether a load was
overtaken by another, whether the newest one was answered last, and how many entries
existed when this page's last change was confirmed.

`stored` is localStorage, `held[t]` the token in the store of tab `t`, `init[t]` its
`isInitialized`, `at[t]` its route; `Redirected` is `ProtectedRoute`. `retired` is a
history variable: the tokens a user has signed out of. `valid` and `issued` stand for
the server: `ServeLogin` is `AuthService.Login`, `ServeRefused` and `Heard` the
middleware, `TokensDie` expiry or a restart with a random key. Each login is taken to
give a token of its own; in the code a token holds the user and the times in whole
seconds (`auth_service.go:122-131`), so that two logins of one user within one second
give the same, and signing out of one cannot be told from the other. Tab `Here` renders
pages, of the others only the session and the fact that they send requests is kept.

`inventory`, `history`, `home` and `settings` are records of the `useState` values of
one page; `Render` mounts what the route asks for, with the initial state and the
first load. `table.of` and `asOf` say which filters a table answers and how many
changes it had seen. `Shelves` are the stocks there may be: what a submission does to
them is the subject of `Inventory`, here any stock of the set may follow. `entries` is
the list of changes so far; movements and audit logs are their numbers.

The API the settings page asks for is only partly served: the endpoints' and keys'
sections ask paths without `/v1`, and the cron handler is never mounted. Those requests
are answered 404 before any middleware (`Unrouted`, `ServeUnrouted`). The model keeps the other
outcome as well, that a proxy or a later router serves them, so that the sections'
own handlers are checked in full.

## 3. What is checked

| Run | Shows |
|---|---|
| `inv_sqlite` | two goroutines, three requests, empty or stocked tables, batches that bring in any quantity: the transactions implement `StockLedger`; the ledger explains every lot; statuses, consumptions and natural keys are consistent |
| `inv_postgres` | overlapping transactions, consumptions of any quantity and updates among them: statuses, exact consumption and no negative row survive, and every request is answered |
| `inv_update_race` | **violation**: UpdateLot writes back a quantity that was consumed meanwhile |
| `inv_lost_update` | **violation**: on PostgreSQL two requests read one lot and both save it; the movements of both remain |
| `cat_sqlite` | four requests and a restart: the statements implement `CategoryBook` |
| `cat_postgres` | checks race writes: the unique index and the foreign key keep names unique and references valid; no cycle of lock waits |
| `cat_seed_refused` | **violation**: delete the default category, give its name to another, restart: the server does not start |
| `cfg_watch` | two saves, a reload, an edit and a crash from the first start on: saves are kept, the environment stays out of the file, changes are applied |
| `life_server` | server and gateway command from start to exit, signal at any moment, alerts to two endpoints and one that cannot be asked |
| `life_exit` | **violation**: the process exits while Shutdown still drains |
| `life_gateway` | **violation**: the gateway command exits without a signal |
| `web_app` | the whole front end from thirteen starts: sign-ins, sign-outs, lost and late answers, expired tokens, two tabs, every page and dialog, other users; some 139,000 states |

### Properties

Beyond one type invariant per component: `LedgerBalanced`, `StatusMatchesQuantity`,
`NonNegativeOnHand`, `ConsumeExact`, `NaturalKeyUnique`, `InfoUpdateKeepsQuantity`,
`ImplementsLedger` and `EveryRequestEnds` for the inventory; `CategoryNamesUnique`,
`ReferencesExist`, `ImplementsBook`, `SeedNeverRefused` and `EveryRequestEnds` for
the catalog; `SavesAreKept`, `EnvironmentStaysOut` and `ChangesAreApplied` for the
configuration; `RunsAreSpaced`, `DatabaseClosedLast`, `DueJobsRun`,
`EveryEndpointTried`, `SignalEndsProcess`, `ExitIsGraceful` and
`HeadlessUntilSignalled` for the process;
`SignedOutTokenUnused`, `ShutOutTabsFindOut`, `QuietViewIsCurrent`,
`FiltersAreAnswered`, `TableInRange`, `OneSubmissionAtATime`, `FieldsForTheirRow`,
`StatsAddUp`, `ShoppingListSurvives` and `BusyEnds` for the front end. Each
is stated in words above its definition. For every property of a passing run the
module holds a mutant, a definition marked "Mutant" beside the one it changes,
under which TLC finds the property violated.

Three properties of the server are narrower than their names: `NaturalKeyUnique` is
about inbounds, since `POST /materials` (`material_service.go:15-34`) creates a row
without looking at the key and is modelled in `Catalog` only; `DueJobsRun` is about
the server command while it is neither told to stop nor without a listener; and
`DatabaseClosedLast` about the scheduler and the watcher, not about requests still
open when the drain's five seconds are over.

Some of the front end's properties except what the code really does, and say so in
their definitions:

* `QuietViewIsCurrent` and `FiltersAreAnswered` speak of loads that were not
  overtaken. The code applies answers as they come, so that after a change of filter
  the older answer may come last and stay; and the load after a submission has the
  filters of the time of the click.
* `FiltersAreAnswered` and `ShutOutTabsFindOut` need the requests not to be lost
  (`bound.faults = 0`): neither is repeated by the code.
* `ShutOutTabsFindOut` excepts paths without a route, which are answered before the
  token is looked at.
* `OneSubmissionAtATime` excepts a row of the category section, where the Enter key
  saves although the button is disabled.
* `ShoppingListSurvives` excepts an item that another tab added after the page had
  read the list: the page saves its own list over it.

### Bounds and why they are enough

* Inventory: two goroutines, because every anomaly of these transactions is between
  a reader and a writer of one row; two stocked lots whose FEFO order differs from
  their age and whose quantities (1 and 2) make a request for 1 take part of a lot
  and a request for 3 empty both; room for one more lot; on SQLite two material
  rows, so that a duplicate would fit. Three requests let one set the stage for two that
  race. Quantities are -1, 1 and 3, on PostgreSQL 0 as well; the single endpoints take
  the positive ones.
* Catalog: two goroutines, the seeded category and two more, two names of which one
  is the default's, one restart.
* ConfigStore: three settings, one of each kind that the code treats differently
  (overridden by the environment; saved by a handler; changed by hand only, with a
  default that is not zero); two savers, one reloader, one edit, one crash.
* Lifecycle: two jobs with intervals 1 and 2 over four instants, so that one job
  delays the other and runs are missed; the program registers one, the service
  allows any number. Two endpoints with two attempts each (the code has four), and
  one whose URL does not parse.
* Web front end: two tabs, since tabs meet in one token; two requests at once, the
  least in which answers overtake each other; three materials on pages of two, of two
  categories, with one place chosen or not, a stock in which all have lots in stock
  and one in which a lot is used up and another has moved; a log of one row, less
  than the entries. `bound` has four budgets that users, faults and others use up:
  clicks on a page, visits (documents loaded, sign-ins, navigation), lost requests,
  and changes by other users, other tabs or the passing of time. Each start spends
  them on one part: three clicks and nothing else reach a submission that was dismissed,
  reopened for another row and submitted again; two clicks and a lost request any
  error path; one click and a change by others, or a visit, the rest; the session has
  three visits with one fault, or two with tokens that die.
* `MaxRequests`, `MaxLots`, `MaxCats`, `MaxSaves`, `MaxReloads`, `MaxEdits`,
  `MaxCrashes`, `MaxTime`, `MaxCalls` and `bound` are the only bounds; each appears in a guard and
  counts something the environment does.

### Fairness

* Inventory and Catalog: `WF` of each goroutine's next statement. A goroutine that
  can send its statement does; one that waits for a lock is released by SQLite's
  busy error or PostgreSQL's deadlock detector. Catalog does not assume the
  detector. No fairness for the arrival of requests or for failures.
* ConfigStore: `WF` of each goroutine, the watcher's ticker included. Nothing makes
  an edit, a save, a request or a crash happen.
* Lifecycle: `WF` of main, the shutting goroutine, the scheduler and the notifier;
  `SF` of the watcher's exit, because Go's `select` picks at random among the ready
  cases and cannot prefer the ticker for ever. The clock is not fair: time may
  stand still, and no property depends on its passing.
* Web front end: `WF` of all work without a user together: React renders, timers
  fire, the server answers and the event loop runs continuations. No single request
  is promised an answer before others; since nobody but users and others, whose
  budgets end, start new work, all of it is done in the end. A lost answer settles
  its request (the browser's network error), so that no request hangs for ever; the code sets
  no timeout of its own.

## 4. What is proved

Every invariant and every action property of the passing runs is a theorem, and both
refinements on SQLite. All theorems hold for every value of the constants that
satisfies the modules' named assumptions: any number of goroutines, requests, rows,
settings, jobs, endpoints, tabs, materials and starts. Six have a hypothesis:

| Theorem | Hypothesis | Without it |
|---|---|---|
| `LedgerCorrect`, `LedgerImplemented` | `Serialised`: SQLite, no UpdateLot | violated (`inv_lost_update`, `inv_update_race`) |
| `NaturalKeyCorrect` | SQLite | PostgreSQL keeps no two materials of one key apart |
| `BookImplemented` | SQLite | on PostgreSQL a rename that waits for a delete brings the category back |
| `NonNegativeCorrect` | `NoNegativeBatch`: the batch receives no negative quantity | the batch handler does not look |
| `InfoUpdateCorrect` | `OneAtATime` or `OnlyInbounds` beside the update | violated (`inv_update_race`) |

The runs check these properties where the hypothesis holds: `NonNegativeOnHand` in
`inv_postgres`, whose batches only consume. `InfoUpdateKeepsQuantity` has no passing run,
only the one that shows why its theorem needs a hypothesis.

* `InventoryProofs`: `TypeCorrect`, `StatusCorrect` (both drivers, all operations),
  `LedgerCorrect` and `NaturalKeyCorrect`. `LedgerBalanced` speaks of
  committed rows only and is not inductive. The strengthening says of each
  transaction that a row it holds in memory and has not written yet is the
  committed one, and that its own writes balance up to the movement it has still to
  insert. On SQLite a commit finds no other reader, which is why nobody's memory
  becomes stale. For natural keys (`KeyInv`) it is the name a transaction is about to
  insert, or has inserted, that no committed material has.
* `QuantityProofs`: `NonNegativeCorrect` (`FloorInv`: neither the table, nor a row in memory,
  nor a write, nor a request in progress is below zero), `InfoUpdateCorrect`,
  `ConsumeCorrect` and `LedgerImplemented`. `ExactInv` relates four things at each
  point of Consume's loop: what remains, what was taken, what the movements say and
  that the rows still in memory hold enough. `BookInv` adds what the commit needs: the
  lots before the present one in the order of the query are used up, so that the
  transaction's writes are one FEFO step of `StockLedger`. Each step of `Inventory`
  maps to one of the ledger's (a commit that wrote something) or to none.
* `SumProofs`: what those sums need. The sum over a finite set is a fold, whose recursion the
  library's induction theorems cannot reach (they take an operator as a parameter). The lemmas
  argue with a smallest counterexample instead: a set of finite subsets has a minimal
  member (`SmallestSet`), from which follow the sum without one element and that of a
  changed function. The same gives least elements and the existence of sorted lists
  (`SortedList`).
* `CatalogProofs`: `TypeCorrect`, `NamesUniqueCorrect`, `ReferencesCorrect` (all on both
  drivers) and `BookImplemented`. For names the
  strengthening is that a name which a transaction is about to give is held by no other
  committed row, and no two transactions give the same one. It rests on the unique
  index and its locks and not on `ensureUniqueName`, whose check may be stale. For
  references (`RefInv`) it is that nobody files under a category that another transaction is about to
  delete or that is gone, and that a delete has emptied what it deletes: on PostgreSQL by the foreign
  key's locks, on SQLite because there is one writer. `BookImplemented` adds what the
  checks of a transaction still mean at its commit (`CheckedTx`).
* `ConfigProofs`: `TypeCorrect`, `EnvironmentStaysOutCorrect` (no configuration that
  a goroutine may write to the file holds a value of the environment) and
  `SavesAreKeptCorrect` (one goroutine at most is between the lock and the rename,
  its copy agrees with every setting saved so far, and a Load that will create the
  file at the start exists only when nothing was saved).
* `LifecycleProofs`: `TypeCorrect`, `RunsAreSpacedCorrect` (the next run of an
  enabled job is at least its interval after its last pick),
  `EveryEndpointTriedCorrect` (an endpoint that Send is not done with has attempts
  left, one it gave up has none, and one it refused has no request) and `DatabaseClosedLastCorrect`. The last needs to
  know where Shutdown has come to: before the gateway starts nothing runs; when
  the scheduler is told to stop, the watcher has ended or was never started; past
  the wait, the scheduler has ended; and if the scheduler was never told to stop,
  main cannot be serving.
* `WebProofs`: `SignedOutTokenUnusedCorrect`. The property speaks of
  steps; that the stored token is never a retired one is what it needs, and that is
  not inductive: a login may be answered after a user signed out in another tab.
  The strengthening (`TokenInv`) says that a token on its way to a login page is
  `Unknown`: held by no tab, not stored, asked about by no `me()`, not retired, and
  different from every other on its way. Most steps are `Calm`: they free slots, send
  requests with the stored token, or answer anything but a login; one lemma
  (`CalmStep`) covers them all, and three more the steps that issue a token, store
  it, or retire it.
* `WebPageProofs`: the pages, for any number of requests under way. `WebTypeOKCorrect`
  carries everything else: its invariant gives each request the argument and the answer
  its continuation reads (`CallsOK`), the server and the session their types (`Base`)
  and each page what it is made of (`ViewsOK`). Three theorems are parts of
  it. `FieldsForTheirRowCorrect`: the fields of an open dialog are its row's, because the effect
  that fills them in runs when the row changes. `TableInRangeCorrect` (`Ranged`):
  whatever two lists are joined, the selection and the page are in the result.
  `StatsAddUpCorrect`: after k materials the dashboard's loop has given each to one
  status and one category (`Tallied`), and its bars are a sorted list of what it
  counted; that the loop's recursion has a value at all is proved first (`Loop`).
* Three more have an invariant of their own. `OneSubmissionCorrect` (`OneInv`): what is
  under way is shown as pending, and once; the flags are reset only by the `finally` of the
  same submission. `QuietViewIsCurrentCorrect` (`QuietInv`): while a page is shown, a
  load under way asks for its present filters if no later one was sent, and what the
  newest load answered is not older than this page's last confirmed change (`CurrentInv`);
  the page has it when that load was the last to be answered (`Settled`); and nobody
  signs in beside a page that is shown (`SessionInv`). `ShoppingListSurvivesCorrect`: the list the
  page holds lacks only what was ticked off on it, or came from another tab since.

Two definitions are written for the provers as well as for TLC: the dashboard's loop
(`Stats`) is a recursive function on the number of materials done, and its bars
(`ByQuantity`) the list of all categories that is in order.

## 5. What is only model-checked

* Liveness (`EveryRequestEnds`, `ChangesAreApplied`, `DueJobsRun`,
  `SignalEndsProcess`, `ShutOutTabsFindOut`, `FiltersAreAnswered`, `BusyEnds`): the
  prover has no support for `ENABLED`, hence none for fairness.
* The violations, which are single behaviours.

## 6. What is not modelled, and what the code does against its documents

### Not modelled

* The matching score (`ComputeMatchScore`), the stock summary and dashboard endpoints
  that no page asks for, and the notifier's time window: string scoring and date
  arithmetic without state.
* `MaterialRepository.Update`, the outbound manager's Reload and the scheduler's
  enabling of jobs: no caller.
* Of authentication: registration, password hashes, the claims of a token and the
  signing key. The browser meets them as tokens that are issued, accepted or refused.
* Of the front end: `ExpiringLotsDialog` (opened by nothing), `DeleteConfirmDialog`
  (used by nothing), the widgets, translations, themes, charts and the list of recent
  movements; single keystrokes in a dialog: what is typed belongs to the row
  that the fields were filled in for.
* System settings (a table nothing reads), the logger, the status and version commands.
* Formatting of messages, parsing of requests, logging, migrations run by gorm:
  no state that the properties tell apart.
* Contents of an alert: `Notify` is a message.

### Disagreements met

The five runs marked **violation** each check one sentence of the repository that
the code does not keep: UpdateLot's unprotected read and save, lost updates at
READ COMMITTED, a start-up refused after legal renames, a process that exits
before its shutdown is over, and a gateway command that ends before it has run a job
(`cmd_gateway.go:29-35` promises a headless scheduler that ends on a signal). The rest
follows from the code as it is modelled, and the properties are stated accordingly:

* The batch endpoints have no check of quantities and the services have none either:
  a batch inbound of a negative quantity stores a lot below zero. `inv_sqlite` feeds
  such quantities to the ledger; `NonNegativeOnHand` and its theorem are
  about the requests that the single endpoints let through.
* On PostgreSQL nothing keeps two lots or materials of one natural key apart, and
  a rename that waits for a delete writes the deleted category again.
* The audit insert's error is dropped, but on PostgreSQL it has already aborted
  the transaction: the commit fails and so does the request. The plan of the tests
  (`docs/backend-layering-refactor-plan.md:78`: "审计写入不影响主流程成功返回", the audit
  write does not affect the main flow's success) says otherwise. `AuditFails` has this
  outcome; no property is stated about it.
* `POST /materials` creates a material whose natural key another row may have.
* Requests that outlast the drain's five seconds go on while the database is closed
  (`app/server.go:92-102`).
* When the first creation of `config.json` fails, Load goes on without the file; a
  later reload that finds none creates it, over a Save that came between its two looks.
* `PRAGMA foreign_keys = ON` reaches one connection of the pool.
* The outbound manager and the dashboard keep the configuration of the start.
* A change that the watcher notices while `POST /reload` is under way is not
  applied before the next one (`Collides`). An edit that lands between Load's read and the
  watcher's first look at the file is not seen (`EarlyChanges`).
* A setting saved as zero and marked `omitempty` returns to its default.
* A job with an interval of zero never runs, though `pkg/cron/task.go:18` says it
  runs once; the program registers none.
* The settings page asks paths that the router does not serve (section 2), although
  `README.md:96` of the repository promises that the web interface edits the
  configuration and persists it. What a deployment puts in front of the server may map them.
* The header's search is ignored while the inventory page is shown: its keyword is
  read when the page is mounted.
* A finished consumption or save closes whichever dialog or editor of its kind is
  open by then, also one that was opened for another row meanwhile.
* `initialize()` signs out on any error of `/auth/me`, a lost answer included.

### Hazards without a property

Four of the table in `PROJECT.json` have none, each with its reason there. Besides:

* A hand edit between Save's read and its rename is overwritten: two writers with no
  common lock, which the model allows and no document excludes.
* Two registrations of one name race between the count and the insert after a slow
  hash; the unique index refuses the second.
* A page of the audit log is cut from a list ordered by time only, after a separate
  count: entries of one instant may change places between pages.

## 7. Plan

Done: `Inventory` with `StockLedger`, `Catalog` with `CategoryBook`, `ConfigStore`,
`Scheduler` with `Lifecycle`, `WebApp` with the session and the five pages; the
theorems on every safety property the runs check, and the two refinements.

Next, in this order:

1. The steps that the liveness properties rest on and that need no fairness: that a
   request has finitely many statements left (a variant of `Inventory` and `Catalog`
   that each step of a goroutine lowers), and the same for `Send` and Shutdown.
2. What PostgreSQL still promises of the ledger when no two requests touch one lot,
   and what remains of `BookImplemented` there without a rename beside a delete.
3. `Queries`: the matching score and the time window against a reference definition
   over bounded input.
