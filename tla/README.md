# NetBerth in TLA+

Specifications of [NetBerth](../src), a NAT-traversal and networking toolbox
written in Go: one process that forwards ports, proxies HTTP, keeps DNS records,
certificates, tunnels, cron jobs and mounts, and is administered through a JSON
API with an embedded web UI. The modules below model its concurrent core, what it
keeps on disk and the behaviour of the web UI; TLC
checks them on small instances and TLAPS proves every safety property that a
passing run checks for every value of the constants.

## 1. The system

`main` opens the database (SQLite by default), migrates it, builds the `Wire`
(event bus and engines), starts the engines, then the HTTP server, and waits for
a signal. Everything an administrator does follows one path:

    HTTP request -> middleware -> handler -> SQL statement(s)
                 -> response -> Notifier -> Bus.Publish, in the same goroutine
                 -> subscriber: read the row back -> Engine.Reload / Remove
                 -> WebhookDispatcher.dispatch -> delivery goroutines

Nothing orders two requests between the statement and the engine call, and the
engines run goroutines of their own. That is where most of what can go wrong
does go wrong.

| Component | Source | State | Operations | What is hard |
|---|---|---|---|---|
| Forward engine | `internal/engine/forward` | map of rule instances, contexts, listeners | Start, Reload, Remove, watchdog, Stop | stale snapshots, listeners that close late, requests after Stop |
| TCP data path | same, `listen`, `handleTCP` | shared connection counter | accept, limit, dial, copy, cancel | pre-increment and rollback from several accept loops |
| UDP data path | same, `udpSessionMap`, `handleUDP` | session map, sockets, readers | getOrCreate, reader, cleaner, close | three closers, datagrams in flight at close |
| Database access | `internal/db/db.go`, loaders in `service/wire.go` and the handlers | pool of connections | query, nested query, close | nested reads under an open cursor |
| Event bus and webhooks | `internal/service` | semaphore, wait group | publish, offer, deliver, retry, Stop | shutdown against deliveries |
| Proxy engine | `internal/engine/proxy` | routes by domain | Start, Reload, Remove | a rule has many domains, two rules may share one |
| DDNS, STUN, cron, storage engines | `internal/engine/{ddns,stun,cron,storage}` | map of jobs, tunnels, entries, mounts | Start, Reload, Remove, Stop | work of a cancelled job still under way |
| ACME engine | `internal/engine/acme` | certificate rows, key and certificate files | issue, renew | a long order against a changing row, crash between two files |
| Accounts | `internal/auth`, `auth_handler.go`, `users_handler.go`, auth middleware | users, refresh tokens, failure counters | login, refresh, logout, change and reset password, user administration | check-then-act between requests |
| Backup, restore, migrations | `backup_handler.go`, `backupcrypto`, `internal/db` | database file and its temporaries, schema version | backup, restore, migrate | crash between renames, between steps of a migration |
| Web UI: tables | `web/src/pages/*.tsx` | query cache, form, edits, requests in flight | read, create, edit, toggle, delete, leave, come back | a read that began before a change, a second press, a save that is paused |
| Web UI: session | `web/src/lib/api.ts`, `stores/auth.ts`, `App.tsx` | tokens in the page and in localStorage, user shown | login, logout, refresh, fetchUser, full loads | several calls and several tabs exchange one refresh token |
| Web UI: audit, settings | `pages/Audit.tsx`, `pages/Settings.tsx` | filters, pages, cached answers; two-factor state | choose, page; set up, enable, disable | answers out of order, calls that overlap |
| Request guards | `ratelimit.go`, `bruteforce.go`, `clientip.go` | buckets, failure windows | admit, record, sweep | boundaries of windows |
| Status websocket | `api/websocket/hub.go`, `pages/Dashboard.tsx` | set of connections under a lock, cards of the dashboards | register, broadcast, unregister | a write without a deadline under the lock that everybody needs |
| Pure algorithms | `pkg/acl`, `rebind_driver.go`, `backupcrypto`, `pkg/retry` | none | match, rewrite, frame, delay | boundaries |

## 2. What makes each component correct

* **Forward engine.** Whatever runs can still be reached by `Reload`, `Remove`
  and `Stop`; until `Stop` an entry of the map is a running instance of its own
  rule; a rule never has two configurations in charge of it; once requests that
  come one by one have returned the stored port runs; entries come to agree with
  the rows for good; what is enabled comes to listen, through crashes and reads
  that fail, unless its listener meets a port that another instance still holds;
  what `Stop` ended stays down, but for an update that was under way.
* **TCP data path.** `max_conns` holds across accept loops; every unit of the
  shared counter is given back exactly once; a finished connection frees its
  place; a cancel ends accepting and leaves nobody in a backlog.
* **UDP data path.** Every open backend socket is in the session map, except at
  most one per listener after the map was closed; a session is closed when its
  client fell silent; a cancel ends the loops.
* **Database access.** Connections are neither leaked nor oversubscribed; the pool
  stops only with a list reader's cursor on every connection; with fewer list
  readers than connections every call returns.
* **Webhooks.** At most the queue's size run at once; a delivery makes at most
  the permitted attempts and ends; a graceful exit leaves no delivery behind; the
  wait for the deliveries ends, whatever was dropped.
* **DDNS, STUN, cron, storage.** An instance that is not cancelled is the map's
  entry of its resource; between requests that come one by one DDNS and STUN
  follow the table, except for rows that a start did not read, that could not be
  read back or whose `DELETE` failed; cancelled work ends; the DNS record settles
  on the host's address even though cancelled jobs may still write an older one.
* **Accounts.** The last enabled administrator goes only by a write that another
  one overtook between its check and its statement; a session splits only where a
  refresh went on although its `UPDATE` changed no row; one that is over stays
  over; a user who was deleted is issued nothing by requests that did not read the
  row before. (That there is always an administrator, and that a password change
  ends every session, is what the code says and does not keep.)
* **Certificates.** A certificate that the table calls valid has a key file and a
  certificate file that belong together, unless an order broke off at the files
  and could not say so; one that falls due is renewed or shows an error.
* **Status hub.** A dashboard that reads comes to show what runs, whatever others
  come, go, break or are slow to read, as long as none of them stalls for ever.
  (One that does keeps the status from all others.)
* **Web UI.** A table that the page takes for fresh shows the page's own changes,
  but for an answer that found the table's first read under way or nobody at the
  page; fields are not created twice where Save waits; localStorage never holds a
  pair of tokens that was exchanged; the user shown is the one the tokens belong
  to, unless a login or logout overlapped a call; the audit page shows what is
  selected, on a page that exists; the two-factor badge is true when all is quiet
  if no calls overlapped or failed.
* **Database files.** What SQLite refuses to open never gets the database's name
  or its rollback name; a database is there under one of these at every step and
  after every crash; restores that come one by one put the whole upload in place
  or leave what was there, unless the process dies between the two renames; where
  a migration has changed a database, there is a complete copy of the old one.

## 3. The modules

| Module | Models | Proofs |
|---|---|---|
| `ForwardService` | what the forwarding engine promises: atomic switches, one configuration per rule | |
| `ForwardEngine` | the engine's control plane with its callers: handlers, bus, loader, watchdog, boot, Stop, crash | `ForwardEngineProofs` |
| `ConnPool` | what `max_conns` promises | |
| `ConnLimit` | accept loops, the shared counter, `handleTCP` | `ForwardInstanceProofs` |
| `UDPSessions` | datagram loops, session map, readers, cleaner, close | `ForwardInstanceProofs` |
| `ForwardInstance` | one instance of a rule: `ConnLimit` and `UDPSessions` side by side, by protocol | `ForwardInstanceProofs` |
| `DbPool` | the connections that goroutines hold and wait for | `BackgroundProofs` |
| `WebhookDispatcher` | publish, offer, deliver, retry, shutdown | `BackgroundProofs` |
| `ModuleEngines` | DDNS, STUN, cron and storage: rows, handlers, instances, boot, DNS records | `ModuleEnginesProofs` |
| `Accounts` | users, refresh tokens and the requests that change them, statement by statement | `AccountsProofs` |
| `DatabaseLife` | the SQLite file, its log and its copies through starts, upgrades, restores, crashes | `DataDirProofs` |
| `AcmeEngine` | certificates: rows, orders, account key, key and certificate files, crashes | `DataDirProofs` |
| `DataDir` | what is on disk: `DatabaseLife` and `AcmeEngine` | `DataDirProofs` |
| `StatusHub` | the hub's connections, rounds and lock, and the dashboards at the other end | |
| `Background` | the goroutines beside forwarding: `DbPool`, `WebhookDispatcher`, `StatusHub`, `AcmeEngine` | `BackgroundProofs` |
| `WebTables` | the ten pages that show a table and change it | `WebPagesProofs` |
| `WebAudit` | the audit page | `WebPagesProofs` |
| `WebSession` | tokens and the user shown, in the tabs of one browser | `WebSessionProofs` |
| `WebSettings` | the password and two-factor cards with their handlers | `WebPagesProofs` |
| `WebUI` | the four web modules | `WebPagesProofs` |

The `MC...` modules give the constants their values for TLC. In every module a
constant is commented with what it stands for, and a bound says that it is one.
An operator with a comment that starts with "Mutant" is not used by any
specification: it is a plausible mistake in the definition that follows it, and
each property is known to catch one.

### ForwardEngine

`db` is the table `forward_rules` (a row is its enabled flag and port; an id is
never reused), `rules` is `Engine.rules`, `conf` and `live` are the
`*ruleInstance` cells and their contexts, `sock` the listener goroutines, `mu`
is the part of `Engine.mu` that matters (the watchdog holds it over several
steps; a handler holds it within one), `wd` the watchdog, `req` the request
goroutines. A request is three steps, as in the code: the statement
(`Create`, `Update`, `Delete`), the read back (`Load`), and `Reload` or
`Remove`. The watchdog is read (`WdTick`), lock, one `WdApply` per row, unlock.
`StartRule` is one turn of the loop of `Engine.Start`, which takes no lock and
runs before the server and the watchdog. `Exit` is the end of the process at any
moment, a crash included; `Restart` boots from the rows. With `DbMayFail` a read
may return an error, or, because `GetRules` does not look at `rows.Err()`, only
some of the rows without one; and a `DELETE` may fail and be published all the same.
The history variable `missed` holds the rules whose last change could not be read
back, or whose `DELETE` failed; only properties look at it.

`ForwardService` sees, for each rule, the set of configurations of its
instances whose context is not cancelled. The engine implements it: `Reload` and
the watchdog are `Install` or `Uninstall`, `Stop` and `Exit` are `StopAll`,
everything else changes nothing that can be seen.

### ConnLimit, UDPSessions, ForwardInstance

`ConnLimit` counts as the code does: the accept loop adds to the shared counter
and looks at the result (`Count`), takes its unit back (`Rollback`) and only
then closes the client (`Reject`); two loops interleave between those steps.
A connection's goroutine dials (cancelled with the context), copies both
directions (not cancelled) and gives its unit back once. The abstraction to
`ConnPool` is the set of clients being forwarded.

`UDPSessions` keeps the mutex as the grain of its actions: `getOrCreate`, the
cleaner's sweep, a reader's drop and the closing sweep are one step each, what
happens outside the mutex (`Send`, the reader's blocking read, the check of
`done`) are steps of their own. Two ages per session, `idle` and `quiet`, stand
for `lastUsed` and the reader's deadline.

### DbPool

A goroutine waits for, holds and gives back connections as `database/sql` hands
them out; `Walkers` are the goroutines that read lists under an open cursor.
Nothing in the code keeps the walkers fewer than the connections:
`OnlyWalkersStall` says that as many of them as there are connections is the only
way the pool stops, `ReturnOrStall` that every call returns if it does not stop, and
the run `DbPoolSmall` that it does stop. Which call sites
a goroutine stands for is in the map at `AskCall` and `AskCursor`; taking and giving
back a connection is `database/sql`, outside the repository.

### WebhookDispatcher

One handler per event; a job is an event offered to an endpoint. The order of
the two deferred calls of a delivery (place first, wait group last), the
non-blocking select and the forced exit of `main` after a slow drain are all
there.

### ModuleEngines

The four engines share a control plane and no state, so the variable `engine`
says which one a behaviour is about. `db` is its table, `jobs` the engine's map,
`conf`, `live` and `work` the instances (heap cells), `held` the address that a
DDNS round has fetched and not yet written. The differences are in guards: which
handlers publish (`cron` and `storage` never do, STUN's `Create` does not),
which rows `Start` refuses, whether `StopAll` includes the engine, and which
goroutine a change ends. A loader returns nil for any error (`Load` then changes
nothing), a handler publishes a `DELETE` that failed, and the read of a start may
break off: the history variable `missed` holds the rows whose last change or start
went wrong in one of these ways. `address` and `record` are outside the program: the
host's public address and what the DNS says. A job looks at its context between
two rounds only, hence `Fetch` and `Put` of a cancelled job.

### Accounts

`users` and `tokens` are the two tables, `access` the users and roles of access
tokens, which outlive the row they were issued from. A token says which login it
descends from (`root`) and whether it was revoked. A request is one action per
statement: a refresh is `Refresh` (the checks), `LoadUser`, `Rotate`, `StoreNext`; an update is `Ask`,
`Admit`, `Read`, `Count`, `Write`. Any number of them interleave, on one user and one
token too, and a client may show any token that was ever issued. `Fail` ends a
request at a statement whose error is looked at; `Rotate` and `StoreNext` go on as
the code does. `Crash` ends all requests between two statements. Two history
variables serve the properties only: `overtaken`, the requests that read the users
before another one's write, and `unnoticed`, the sessions in which a refresh's
`UPDATE` changed no row.

### DatabaseLife

A file keeps its identity while its name changes: `db` and `bak` say which file
has which name. The write-ahead log `wal` belongs to the name, which is the whole
point: a restore renames the file and not the log. A content is "whole", "cut"
(it lacks whole pages that its header counts), "junk" (no database), "damaged" (pages
that opening does not read are wrong, or the end of the last one is missing) or
"mixed" (another database's log was written into it).
`Validate` is what `validSQLiteFile` does: SQLite opens the file, refuses "cut" and
"junk" and takes the others (section 6 has the experiment). `proc.open` is the file that
the process's connections have open, `pre` the copy made before an upgrade.
`Start` (with `Bookkeeping`, the table of versions that is made before the copy),
`BeginCopy`, `EndCopy`, `MigrateSome`, `Migrate` are `openSQLite`;
`Upload` to `Done` are the steps of `Restore`; `Truncate` is the checkpoint of
`Download`; `Commit`, `Checkpoint`, `Opens`, `Readable` and `Merged` are SQLite, modelled
from how the program uses it. A failed rename of a file that exists is taken to
have a reason that the next rename meets too.

### AcmeEngine, DataDir

`certs` is the status column of `acme_certificates`; "due" is a valid row that
`renewDue` would pick. `order` is how far the goroutine of an order is. A file is
the key it holds, or is for, or "torn": `os.WriteFile` truncates before it writes,
so a write that fails, a crash, and another order that reads at the wrong moment
all find a damaged file (`CreateAccountKey` is two steps for that reason). Every
error path ends in `EndOrder`, whose `UPDATE` may itself fail unnoticed.
`ProcessEnds` is a crash and an orderly end alike, since `StopAll` leaves the
engine out and nobody waits for an order. `cut` remembers the orders that broke
off at the files without being able to say so; a later order that succeeds
removes the mark. The account key is modelled because an order can fail at it; no
property is about the key itself.

`DataDir` puts the certificates beside the database files, which are the other
thing that outlives the process half done.

### StatusHub, Background

A connection of `StatusHub` is upgraded, registers under the write lock, is written
to by every round, and is unregistered by its own reader, which alone does so: a
write that fails is only logged. A round holds the read lock and writes to one
connection after the other (`pending`); goroutines that want the write lock wait in
`queue`. A write to a peer whose buffers are full (`Room` messages stand for what
they hold) waits, and with it the round, the connections behind it and the queue.
The peer reads in its own time, its connection breaks, or it stalls; nothing is
required to end a stall. A dashboard opens one socket when it is mounted and none
again.

`Background` looks at one of its four parts at a time: they share no variable, so
nothing is lost by letting the others rest, and one run gives each its fairness.
`WebUI`, `DataDir` and `ForwardInstance` are composed in the same way.

### WebTables, WebAudit, WebSettings, WebSession, WebUI

A page of `WebTables` is a record of what its source says: who may use it,
whether Save waits for the last one, what its buttons send, and what their
`onSuccess` does. The cache is external (react-query as the pages use it): a read
joins one under way unless there was data before (`Restarts`), `fresh` is what
the page believes, `cache.lacks` whether the copy lacks a change that the page was
answered for. `lib/api.ts` parses the body of an error like any other, so that
`onSuccess` runs on every answer; only a lost one reaches `onError`. A request that
is pressed may wait for a connection; Save reads the edited id when its request
leaves, so that a paused save goes to the row edited by then (`Resume`). A press is
taken to find the page as it was last rendered: the render that disables a pending
Save comes before the next press.

In `WebSession` a tab has its pair of tokens in two variables (`mine`) and there
is one copy in localStorage (`stored`), read when the page loads. Each call is
sent with the pair of its moment; a refused one is "refresh", then "checked" and
"rotated" on the server, then sent once more; a call may also be answered by
another error at any time. The two writes of `setTokens` are one step: no script of the tab
runs between them, and another tab would have to load in that very moment.
`overlap` remembers that the user
logged in or out while a call was in flight, without which nothing about the user
shown holds.

`WebAudit` caches each pair of filter and page under its own key while the log
grows. `WebSettings` has the two cards and the handlers behind them; `crossed`
remembers that calls overlapped or one failed.

The web modules do not share state: what a call is answered depends on its tokens,
and `WebTables` and `WebSettings` count with a refusal at any time.

## 4. The runs

| Run | Instance | Shows |
|---|---|---|
| `ForwardSafety` | 2 rules, 2 ports, 2 handlers, 3 cells, 2 requests that overlap, shutdown | `NoOrphan`, the implementation of `ForwardService`, `StopHolds` under free interleaving |
| `ForwardReboot` | 1 rule, 2 ports, 2 networks (one cannot be bound), a client that waits for answers, a crash at any moment and a second start, reads and deletions that fail or break off; requests and restarts together 2 | `NoOrphan`, `ConfigFresh`, `Converges`, `UncontestedServes`, `StopEnds` |
| `ForwardSamePort` (violation) | 1 rule, 1 port | an update on the same port may leave the rule without a listener |
| `ForwardDelete` (violation) | 1 rule | the watchdog may bring a deleted rule back |
| `ForwardInstance` | TCP: 2 accept loops, 4 clients, limit 1. UDP: 1 listener, 2 clients, 2 cells, ttl 1 | the implementation of `ConnPool`, `ConnectionsSettle`, `OpenIsRegistered`, `IdleIsClosed`, `CancelEnds` |
| `Background` | pool: 2 walkers, 1 caller, 2 connections, 2 lists; webhooks: 2 events, 2 endpoints, 2 places, 2 attempts; hub: 2 visits, room for 1 message; 1 certificate, 4 turns | the pool loses no connection and stops in one way only, short of which every database call returns; deliveries are bounded, end and are waited for, the wait ends; a dashboard that reads shows what runs; certificates settle |
| `DbPoolSmall` (violation) | 2 walkers, 1 caller, 2 connections, 1 list | two walkers stop every database call for good |
| `ModuleEngines` | 1 resource, 2 values (1 refused), 2 cells, 2 handlers, 2 addresses, 2 events, each of the four engines; reads and deletions that fail | `NoOrphan`, `FollowsTable`, `CancelledWorkEnds`, `RecordConverges` |
| `Accounts` | 2 users, 2 tokens, 2 handlers, 2 events, all that an administrator may ask | `OneActive`, `LastAdminGuarded`, `OverStaysOver`, `IssuedToUsers` |
| `DataDir` | 3 files, 2 restores, 2 versions, 3 starts; 2 certificates, 3 turns | `PathWhole`, `AllOrNothing`, `UpgradeHasCopy`, `PairMatches` |
| `DatabaseRestore` (violation) | the same database | after a restore the next start may not be able to read the database |
| `WebUI` | tables: 1 other row, 2 requests, each of the ten pages; session: 2 tabs, 2 calls, 2 people, 3 pairs, 1 expiry; audit: 1 filter, 2 events; settings: 2 calls, 2 secrets | own changes are shown, no second row, no stale tokens, the right user, the right selection, a true badge |

The bounds are the smallest at which every hazard that a property in `PROJECT.json` is
about takes place. Two rules are enough for one to disturb another (ports, lock, cells),
two handlers for every overtaking of a read by a write, three cells for an old,
a new and another rule's instance; two requests are what the watchdog needs to
hold a snapshot that is two statements old. Two accept loops and three clients
reach "limit, over the limit by two, rolled back by one". Two cells let a
cancelled job work on beside its successor, two addresses make its late write
differ. An event of `Accounts` is a request of an administrator, a password change or
a crash; logins, refreshes and logouts are bounded by the tokens. Two tokens are a
login and a refresh of its token, or the logins of two users; two refreshes of one
token meet before either has stored the next. Two events are what it takes for two
administrators to overtake each other, for a delete or a password change to come
between a refresh's statements, or for a write to follow a role that is outdated.
Three files are a first database and the
two uploads of overlapping restores, or one upload and the empty database of a start
between two renames. A turn of a certificate (`MaxTurns`) is a start, a statement
that fails or a certificate that falls due: three of them in any order are an order,
its crash and the next start, or a renewal that fails. Two certificates are what it
takes to race for the account key; how one settles does not depend on the other, so
one is enough where liveness is checked. Two dashboards are one that reads and one
that disturbs it; two walkers, who also make plain calls, are one for each
connection. In `ForwardReboot` two things happen to a rule, changes or restarts: a
change that is missed and the one that makes up for it, or a change that a crash cuts
short and the start after it.

In `WebUI` two requests in flight are a change and the read or the second press
that overtakes it; three pairs (`MaxPairs`, a login needs one that is left) are two
logins and a rotation between them. An entry of a form is a change (`old # new`).
`SessionEnds` happens once: a session that ended stays so. The user's own row is
not among `Rows` in this run, so that a button that spares it is offered
everywhere. Calls in flight, tabs and people are interchangeable, and all of the
run's properties are safety properties, so the symmetry is sound; so are files and
restore requests of `DataDir`, which has safety properties only.

Deadlock checking is off where the system may stop: requests are bounded, a
process may have exited, all connections may be closed, a page may be left alone.

`Serial` (in `ForwardReboot`) restricts the client, not the server: one request per
rule at a time; `ForwardSafety` is without it. With overlapping requests on one rule the older row may be installed last,
because the read back and `Reload` are separate steps; no document promises
otherwise, so nothing is claimed about it. The variable `serial` of `ModuleEngines`
and `DatabaseLife` covers both kinds of client in one run: `NoOrphan`, `PathWhole` and
`UpgradeHasCopy` do not need it, `FollowsTable` and `AllOrNothing` do. In `Accounts`
requests always overlap as they please.

Type invariants are not among the properties of the runs: those of the modules with
proofs are part of the proved invariants, the others were checked with TLC in
the same instances. `WithinLimit` is proved and implied by `ImplementsPool`;
`EntriesRun`, `CounterExact` and `LeftoversBounded` are proved, the last one is also
part of `CancelEnds`.

### Fairness

Weak fairness is given to steps that the Go runtime takes by itself: a goroutine
that can run runs, a ticker ticks, a network call with a timeout returns. Strong
fairness is given to `Handle` of a request (it needs `Engine.mu`, which the
watchdog takes again and again; `sync.RWMutex` hands the lock to a waiter) and to
`Get` of `DbPool` (`database/sql` serves waiting requests). Requests, clients,
signals, crashes, restarts and cancellations are never required to happen, and
liveness properties are conditional on them: `Converges` and `UncontestedServes`
speak of executions in which the process comes to keep running, `StopEnds` of those in
which it stays stopped. Strong fairness of `WdReads` says that of the watchdog's reads
one returns all rows now and then; where the first read of a start returns an error
there is no watchdog, and `UncontestedServes` supposes a later start.

`ModuleEngines` adds strong fairness for `Return` (a `select` with two ready
cases picks at random, so a cancelled job is not for ever taken by its ticker)
and for `Put` (a provider that is asked again and again answers now and then).
`Background` has the fairness of its parts, each for its own steps. In the hub
goroutines run (`sync.RWMutex` does not let readers pass a waiting writer, so a
registration gets its turn), and a page that is not stalled takes up what has arrived,
also if it stalls again and again (strong fairness of `onmessage`). Nothing ends a
stall: that none lasts for ever is the antecedent of `CardsSettle`. For certificates the ticker ticks and the steps of an
order end: every call to the authority has a timeout. `Accounts`, `DataDir` and `WebUI` state safety
only and assume no fairness.

## 5. The proofs

All theorems hold for every value of the constants that satisfies the named
assumption of the module. They state all invariants and all safety action
properties of the passing runs, and both refinements; each rests on an inductive
invariant that TLC had agreed to on the run's instance before it was proved.

* `ForwardEngineProofs`. `IInv` adds to `NoOrphan` and `EntriesRun` what ties
  them to the steps: an entry always refers to a cell of its own rule
  (`EntriesOwn`, needed because after `Stop` entries outlive their contexts);
  rules that `Start` has not reached have no entry (`BootTodo`, without it
  `StartRule`, which cancels nothing, could orphan an instance); the watchdog
  holds the lock over rows only; nothing runs beside `Start`; a dead process owns
  nothing. The lemmas about `startRule` and `drop` carry the whole argument:
  either leaves at most one live instance of the rule, the one the map names.
  `Refinement` follows: in a state of `IInv` a start is `Install`, a drop is
  `Uninstall`. `ConfigFresh` needs to know why an old snapshot of the watchdog
  does no harm (`Fresh`): a rule that it could still start, because there is no
  entry and its turn is to come, was not written since the snapshot was read.
  `StopHolds` comes from the entries that outlive `Stop`: what the watchdog does
  about a rule that has one is to drop it.
* `ForwardInstanceProofs`. The counter is the number of running handlers plus
  pending rollbacks, and whoever finds itself over the limit is in neither set of
  those who enter; so `WithinLimit`, and the implementation of `ConnPool`. Open
  sockets are registered: a reader drops its session only if it is still the
  registered one. `LeftoversBounded` counts turns: a listener that passed the
  check of its context before the cancel can add at most one session after the
  sweep.
* `ModuleEnginesProofs`. An entry refers to an instance of its own row and what is
  not cancelled is an entry: `NoOrphan`, for the four engines at once. What
  `Start` has looked at agrees with the table, the rows it missed apart
  (`Starting`); of requests that come one by one each still has the row that is
  stored, and the row of a `DELETE` is gone or missed (`OneAtATime`); a row that none
  is about and that was not missed has the entry it asks for (`Following`, so
  `FollowsTable`).
* `BackgroundProofs`. `OnlyWalkersStall` is a counting argument: the connections
  handed out are those of the goroutines that hold one and, once more, of those that
  read a list under a cursor (`UsedExact`). If everybody who holds one waits, each
  holds one and is a walker that wants a list, so there are as many of them as
  connections. The dispatcher counts too: places of
  the semaphore are deliveries in flight, the wait group is deliveries that did
  not sign off (`WaitGroupExact`), an event offers each endpoint once
  (`OfferedOnce`), and main waits when no handler can add one (`StopInOrder`).
* `AccountsProofs`. What a request has read of the users is true as long as no
  write overtook it: it then knows whether its user is an enabled administrator
  (`Known`), and if its count let it take one away, another one is there (`Covered`;
  two members, so one that is not the row's). The id a request creates is still free
  (`Creations`). So a write that is not overtaken leaves an administrator, which is
  `LastAdminGuarded`. For the sessions: every step issues one token or issues none
  (`NextTokens`), and a token descends from one that was issued (`Rooted`). A token is
  issued by a request that has come through its statements; a refresh whose `UPDATE`
  changed a row leaves nothing of the session active, so that `OneActive` is
  inductive, and a session of which no refresh is under way, like a user whom no
  request has read, gets nothing more (`OverStaysOver`, `IssuedToUsers`).
* `DataDirProofs`. What a restore holds past its check is sound (`Validated`), a
  file that has a name exists (`Exist`), the log is not behind its file
  (`LogAhead`), a process that starts is alone with a database that opens
  (`Connected`, `Starting`), and one restore at a time leaves the name free only while
  the old database waits under `.bak` (`Between`); so `PathWhole`, `AllOrNothing` and
  `UpgradeHasCopy`. An order comes to "finish" only with a pair it wrote itself
  (`Written`), every error path changes the row, and whoever cannot do so is in
  `cut`; so `PairMatches`.
* `WebSessionProofs`. A pair that was issued and did not reach its tab yet is known
  to nobody else (`Private`); so nothing in localStorage was exchanged. As long as
  no login or logout overlapped a call, every call of a tab was made with tokens of
  the one user whose tokens the tab has (`Loyal`); so the user shown is theirs.
* `WebPagesProofs`. A fresh table lacks nothing because every button that changes
  the table reads it again: what a copy lacks is owed by a request that has yet to
  be answered (`Owing`). Fields are not taken twice because, where Save waits, one
  request at most still finds its form (`Saving`). For the audit page every answer
  is cached under the key it was asked with (`Filed`) and no answer brings a total
  greater than the log by now (`Counted`). While the two-factor badge is wrong, the
  one call in flight is one that ends in asking for the user (`BadgeComes`).

Where modules are composed, the composition is proved to be a behaviour of each of
its parts (`InstanceIsBoth`, `BackgroundIsEach`, `DirectoryIsBoth`, the lemma
`WebIsEach`), so that a run of the composition and a theorem about the part speak of
the same thing.

Two theorems have a hypothesis beyond the assumptions of the module.

* `ConfigFreshHolds` supposes `Serial`, as the run does. With overlapping requests on
  a rule the older row may be installed last, which is what the code does.
* `LeftoversBoundedHolds` supposes finitely many listeners; an instance has two.

Others say in their own text where the code does not keep them: `FollowsTable` and
`AllOrNothing` speak of a client that waits for its answers (`serial`); these and
`ConfigFresh` except what is `missed` or `torn`, `LastAdminGuarded` and `OneActive` name the one way in which
the last administrator is lost or a session splits, `PairMatches` excepts `cut`,
`SessionAgrees` and `TwoFactorSettles` what overlapped (`overlap`, `crossed`).

Left to TLC: all liveness (fairness and ENABLED are beyond the prover), which
includes all that is claimed of `StatusHub`, and the type invariants of
`StatusHub` and `ForwardService`.

## 6. What the checks found

Four disagreements between the code and its documents, comments or tests have a run
of their own, the violation runs above; `PROJECT.json` quotes the lines.

Five others were met while modelling:

* users_handler.go:146 and :213 promise "last-admin protection" and "blocking [...]
  removal of the last admin". `Update` and `Delete` count in one statement and write in
  another: two requests that demote, disable or delete two administrators at once each
  count two, and none is left. `LastAdminGuarded` says that this is the only way.
* handlers_auth_extra_test.go:311, :341 expect that a refresh after a password change is
  refused. One that checked its token before the change goes on, since nobody looks at
  what its `UPDATE` changed (auth_handler.go:141), and stores a new token: the session
  outlives the change. `OneActive` names this way (`unnoticed`).
* wire.go:371 has "loaders that read a single record by ID for reload on change" for
  cron jobs and storage mounts, but the handlers publish nothing (module_handlers.go:184,
  :323), so that they never run: a change waits for the next start.
* backup_handler.go:151 means to "validate the uploaded file is a valid SQLite
  database". The check opens the file; a database with damaged pages passes and replaces
  the current one (`PathWhole` leaves "damaged" out).
* README.md:101 promises "real-time status streaming (2s interval)". A dashboard that
  takes nothing up while its connection stays, such as a suspended browser, fills its
  buffers, and the write to it, under the lock and without a deadline (hub.go:117), keeps
  the status from all others. `CardsSettle` supposes that none hangs for ever.

More was observed that no document speaks of:

* An active UDP client whose backend is silent loses its socket at the ttl (the
  reader's deadline counts answers, `lastUsed` counts datagrams). Two overlapping
  updates of one rule may leave the older one installed. A `Reload` aborts dials but not
  copies, so that old connections live on beside those of the new instance, whose
  counter starts at zero: `max_conns` holds for one instance (forward.go:377).
* New STUN tunnels wait for the next start like cron jobs and storage mounts. A tunnel
  whose port is busy ends and is not tried again. `Reload`, `Remove` and `Stop` of cron
  and storage are not reachable from a handler. A loader that fails and a `DELETE` that fails are not noticed (wire.go:435,
  ddns_handler.go:117): the engine keeps an old job, or drops one whose row is still
  there.
* A crash between a new password and the end of the sessions leaves the sessions.
  Refreshing does not look at the `enabled` flag. Two refreshes of one token at once
  split its session in two.
* A start that follows a crash between the two renames of a restore begins with
  an empty database and leaves the old one under `.bak`, where the next restore
  replaces it. Overlapping restores can take each other's `.bak`. After a crash
  the pre-upgrade copy lacks rows that are still in the log. A stale `.bak` would
  be put back if a rename of an existing database failed and the next one too.

The write-ahead log's part in `RestoreApplies` was confirmed with SQLite itself:
a database put in place of another one whose log holds a frame is reported as
malformed by the next connection; with an empty log it opens.

So was what `Validate` lets through: opening a database with `_journal_mode=WAL`
reports a file that lacks pages as malformed, since SQLite compares the number of
pages in the header with the file's size; a file that lacks bytes of its last page
only, or has overwritten pages, opens, and only reading those pages fails. (A file of
no bytes is an empty database.)

The certificates:

* Nothing but a start and the renewal loop orders a certificate: one that is
  created waits for the next start (`Issue` has no caller), and the renew button of
  the web UI calls an endpoint that is not registered. A failed order writes
  "error", which neither looks at again; a failed renewal also blanks the paths of
  a certificate whose files are still good, because `GetCertificates` does not read
  them. An update of the domains does not order anything.
* A crash between the key file and the certificate file leaves a pair that does not
  belong together under a row that still says valid, until a renewal. A first start
  with several pending certificates may end some of them with "error", because one
  order reads the account key that another is just writing; two may create a key
  each. A torn account key ends all later orders, as CHANGELOG.md:94-96 has it.

The hub and the web UI:

* Besides the status, a stalled dashboard holds up every registration and removal
  until its connection breaks. `main` never stops the hub. The socket is not opened
  again, although the label says "Connecting...". The STUN card waits for a field
  that the server does not send.
* `api.ts` does not share one refresh among calls: of two that answer 401 at once,
  or of two tabs, the second exchange is refused and the tab goes to /login. A lost
  answer to a refresh logs out as well. The page's logout only forgets its tokens
  (auth.ts:25) and never calls the server, so the refresh token stays valid; a refresh
  or a fetchUser in flight undoes it. The query cache survives a logout.
* Because errors are parsed like answers, a refused password change, a wrong code
  for two-factor and a refused test delivery are reported as successes; after a
  refused read some pages say that nothing is configured and others show nothing;
  `/auth/me` answering an error leaves the spinner on; Users.tsx:48 is never shown.
* On all pages but Webhooks a second press of Save creates a second row. A toggle
  writes back the whole row as shown. The reset after a save of Webhooks wipes an
  edit begun meanwhile, and a save that was paused goes to the row edited when it is
  sent. Pages show the first twenty rows. The first read of a table
  is not given up by `invalidateQueries`, so a change answered meanwhile may not be
  shown (`Overlooked`). Two-factor set up in a stale tab replaces the secret while
  it is enabled.

Others that are not modelled:

* `Reload` of the proxy deletes the route of a rule's first domain and `Remove` one
  route of it: routes under other domains stay (proxy.go:98, 108).
* `LoginMiddleware` checks an address and records the outcome in two critical
  sections: logins under way together all pass the check (bruteforce.go:55, 71).

## 7. What is left to do

In this order:

1. The access lists of a forward rule beside its row: `Update` deletes and inserts
   them in statements of their own (forward_handler.go:141), and a `Reload` in
   between reads a part of them.
2. Calls of one page that are answered 401 at once, as a property of `WebSession`
   (api.ts:77).
3. The routes of the proxy, once `Reload` and `Remove` find a rule by its id.
4. Safety of `StatusHub` worth proving: who holds the lock, and that a connection
   is unregistered once.
5. The pure algorithms (ACL matching, placeholder rewriting, the backup envelope,
   token buckets) against reference definitions.

## 8. What is not modelled

* **Proxy engine.** Its table of routes changes in one critical section per call;
  what would be worth stating, that routes follow the rules, the code does not
  keep, and no document promises it.
* **Login protection and rate limiting.** Counters and timestamps per address; see
  section 6 for the one thing that takes two steps.
* **Access lists** (`pkg/acl`), **placeholder rewriting** (`rebind_driver.go`),
  **validation**, **the backup envelope**, **Wake-on-LAN**: functions of one input
  without state. `pkg/retry` has no caller.
* **Middleware and router**: functions of one request, except the audit log, which
  only grows and is the environment of `WebAudit`.
* **Configuration, TLS files, licensing, tenants, diagnostics, metrics, API docs**:
  read once, constant in this build, or read-only.
* **DNS providers' formats, STUN packets, NAT detection, hole punching, file
  serving, HTTP forwarding, the conversation with the certificate authority**: one
  step that succeeds or fails.
* **Web UI presentation**: dictionaries, styles, layout, the built assets.
* **Build, packaging and QA scripts**: no part of the running program.

PostgreSQL is modelled only where it behaves like SQLite. `PROJECT.json` lists
every component with its status and reason.
