# A TLA+ model of the project-management backend

The repository holds the Go backend of a project-management application, its
database schema, documentation and the package manifest of a web client. What the
backend *does* today is identity: invitations, login, sessions, password resets,
and the limits in front of them, in a server process that loads its
configuration, migrates its database and sends mail. The schema already has
projects, cards and planning, and a package that computes the order keys for
them, but no Go code touches those tables yet. This directory models all of
these, checks them with TLC and proves with TLAPS every safety property the
passing runs check.

Paths below are relative to `src/backend/internal/`; `identity/` stands for
`modules/identity/`.

## Inventory

| Part | State it keeps | Operations | What makes it hard |
|---|---|---|---|
| Invitations (`identity/service/invitation.go`) | `invitations`, `users` rows | Create (supersede, insert, mail), Accept (read, stamp, insert user, session) | concurrent transactions under READ COMMITTED, two clocks, a commit whose answer is lost, mail after the commit |
| Password resets (`identity/service/passwordreset.go`) | `password_resets`, `users.password_hash`, `sessions` | Request, Confirm | the same, and logins in flight: a late rehash, a session opened around the reset |
| Credentials (`identity/service/credentials.go`) | `users.password_hash` | Authenticate, rehash | what was verified may be replaced before the rehash is written |
| Sessions (`identity/service/session.go`, `identity/domain/session.go`) | `sessions` rows, the browser's cookie | Issue, Authenticate with renewal, List, Revoke, RevokeByID, RevokeOthers | a renewal writes what it computed from an earlier read; two windows, a floor, two clocks |
| Rate limiter (`redis/ratelimit.go`, `httpx/ratelimit.go`) | a sorted set and a counter per key and window | Allow, the middleware | window boundaries, hits of one millisecond, lost replies, refusals that must not count |
| Login guard (`identity/service/loginguard.go`, `redis/failures.go`) | three sorted sets per login | Check, RecordFailure, Succeeded | check and record are separate calls with a slow verification between them |
| Transactions (`cmd/api/main.go`, `inTx`) | row locks | begin, rollback, commit | every path out must release the locks |
| Order keys (`fracdex/`) | none (pure); the `position` column of a list | Between, Validate | ends of the key space, changes of width, fractions; two people reordering at once |
| Migrations (`postgres/migrate.go`, `cmd/migrate`) | the schema's version, a mutex, an advisory lock | Migrate, MigrationStatus | several instances at once, goose on other connections than the lock's, cancellation, a lost session, a killed process |
| Server (`cmd/api/main.go`, `httpx/server.go`, `httpx/middleware.go`) | a listener, two goroutines and a channel, requests in flight | run, Serve, Chain, LogRequests, Recover | shutdown racing a listener failure, requests outliving the grace period, panics |
| Mail (`mail/`) | a connection per message | Send | delivered although reported undelivered; what may be said in the clear |
| Configuration (`config/`) | none (pure) | Load | rules that depend on each other and on the environment |
| Database and Redis clients (`postgres/pool.go`, `redis/redis.go`) | pools | New, acquire, Close | exhaustion, closing while requests hold connections |
| Authorization (`authz/`) | none (pure) | Can | a table |
| Client address, CSRF (`httpx/clientip.go`, `httpx/csrf.go`) | none (pure) | ClientIP, the guard | header chains |
| Readiness (`httpx/ready.go`) | none | Ready | concurrent checks with a deadline |
| Generated queries, web client | - | - | no state of their own |

How the parts meet: a request passes a limiter (Redis), then `RequireSession`
or the login guard, then a service that runs its statements in one PostgreSQL
transaction (`inTx`), or one statement at a time, and finally mails or sets a
cookie. Parts share the database rows, Redis's sets and two clocks:
PostgreSQL's `now()` (the start of the transaction) and the application's
`time.Now()`.

`PROJECT.json` lists the components, the hazards at their lines with the
properties that would catch them, and the source lines of every definition.

## Modules

| Module | Models | Runs | Proofs |
|---|---|---|---|
| `Invitations` | Create and Accept, statement by statement | `invitations`, `invitations_one_live` | `InvitationsProofs` |
| `PasswordResets` | Request, Confirm, and the logins and sessions they race with | `resets`, `resets_every_session` | `PasswordResetsProofs` |
| `SingleUseLink` | the abstract promise of a mailed link; `Invitations` and `PasswordResets` implement it | (a property of the two above) | in the two above |
| `Sessions` | sessions, sliding renewal, revocation, the cookie | `sessions`, `sessions_cookie` | `SessionsProofs` |
| `SlidingWindow` | the admission script and the middleware, for one key | `limiter` | `SlidingWindowProofs` |
| `LoginGuard` | the three failure buckets around a login | `login_guard`, `login_guard_retry` | `LoginGuardProofs` |
| `Fracdex` | Between, Validate and all they call, over an alphabet of any size | through `OrderedList` | `OrderedListProofs` |
| `OrderedList` | a list ordered by `Fracdex` keys and people who reorder it; extends `Fracdex` | `order_keys` | `OrderedListProofs` |
| `Migrate` | Migrate and MigrationStatus in several processes | `migrate` | `MigrateProofs` |
| `Config` | Load | through `Server` | `ServerProofs` |
| `Smtp` | NewSMTP, Send and its conversation | through `Server` | `ServerProofs` |
| `Server` | run, Serve, the middleware chain and requests; composes `Config` and `Smtp` with the pool | `server` | `ServerProofs` |
| `MC...` | the instances TLC checks | | |

### The database in `Invitations` and `PasswordResets`

A request is a process; each SQL statement of its transaction is one action, in
the order of the Go code, and a request's control state (`pc`) names the
statement it runs next. READ COMMITTED is modelled by what it does:

* a statement reads the rows committed when it starts. A transaction's own
  writes stay with the request until `Commit...` publishes them;
* an UPDATE that meets a row locked by another transaction waits
  (`LockedByOther`) and then evaluates its WHERE again on the committed row. The
  supersede UPDATE is therefore two kinds of step: a scan that collects the
  visible rows (`todo`), then one `ExpireRow` per row, in any order;
* `now()` in SQL is `start[p]`, when the transaction began; the service's
  `s.now()` is `AppNow == now + Skew`, read when the Go code reads it;
* the unique index on a live address makes the second INSERT wait for the first
  transaction (`AddressPending`) and fail if that one commits;
* `Abort` is any error or a cancelled request: the deferred rollback. The
  disjuncts of a commit include the one that succeeded although the caller saw
  an error.

An invitation or reset row is identified by the request that inserts it, an
account by the Accept that makes it, a session by its login: a 32-byte random
token is never guessed nor repeated, so a token is a model value. Hashes are
records of the password, the cost and a salt unique to whoever made them.
`SoftDeleteUser` is a query without a handler so far; it is an action so that
properties hold once an administrator can call it.

### `Sessions`

Each statement is a transaction of its own. A guarded request reads its row
(`Authenticate`), may write a deadline computed from that read (`TouchSession`),
then runs its handler. `cookie[s]` is when the browser drops the cookie. History
variables (`late`, `before`, `lastUse`, `lapsed`, `ended`) exist for the
properties only. A statement may take effect and lose its answer: a DELETE then ends
sessions although the caller hears of an error and keeps its cookie, and the INSERT of
`Issue` leaves a row whose token nobody was given (`given` holds the others), which
only its owner's other sessions can end. Listing filters by the database's clock, authentication by the
application's; a listing changes nothing, so it is the action `Read`.

### `SlidingWindow` and `LoginGuard`

A Redis script is atomic, hence one action. In `SlidingWindow` a sorted set is a
set of `<<score, n>>` with the sequence counter and the expiry of both keys, since
properties are about members that collide. It is indexed by the tier's *window*,
which is what the key is named after. `NoAnswer` covers a script that never ran
and one whose reply was lost.

In `LoginGuard` every bucket is checked, recorded and cleared by a call of its
own, so each is an action. An attempt is a slot for one login in flight and is
reused. The members of one millisecond are numbered by how many there are, which
keeps them distinct as `INCR` does. Failing to record and failing to clear are
disjuncts, because the code logs those errors and goes on. No key has two tiers over
one window (`TiersAssumption`), as in `DefaultLoginLimits`: `recordFailure` would add
each failure to their common counter twice. `SlidingWindow` does model such tiers.

### `SingleUseLink`

At this level there are no transactions, clocks or statements: publishing a link
supersedes older ones in the same step, a redemption spends its link in the same
step, and whoever presents a superseded link is never let through. The refinement
mapping of `Invitations` (and of `PasswordResets`, with its names) takes
`published` from the committed rows, `superseded` from the rows a committed
Create's scan had seen, `presented` from the token each request came with,
`barred` from the requests that began after a superseding commit, `spent` from
the stamped rows, and `redeemed` from the accounts made (passwords set). The
commit of a transaction is therefore the step that publishes or redeems, and
every other statement, rollback, tick and failure is a stutter.

### `Fracdex` and `OrderedList`

A key is a sequence: a signed width for the header letter, then digits `0 ..
Base-1`. The order of keys is the byte order of the text, which is
lexicographic on these sequences because the header letters sort by signed
width. `Base` and `Widest` are parameters (62 and 26 in the code), and no
definition depends on their values except through them. `Between` answers a key
or one of the three errors, in the order the code tests for them. An error is a
pair that begins with 0, which is no header, so it is never mistaken for a key. The
code's loops over digits are definitions of the digit they stop at (`LastOther`,
`commonPrefixLen`, the `CHOOSE` in `midpointAfter`), so nothing is recursive and
all of it can be reasoned about.

No endpoint calls `Between` yet. `OrderedList` models how the package and the
schema say it will be used: read two neighbours, compute, UPDATE one row, with the
unique index of the list (as for cards, checklists and their items) refusing a
position another row took meanwhile. The steps of the mover are marked external.

### `Migrate`

One action per blocking call of the function, and its deferred functions in
reverse order. The advisory lock belongs to a *session*, which is a variable of
its own: a cancelled wait leaves the session queued on the server, a killed
process leaves it holding the lock, and the server may still grant the lock to a
client that is gone (`GrantQueued`) before it notices (`ReapSession`). goose is
external: it creates its table as version 1, then reads the version and applies
the next migration, each in a transaction on another connection, so
`LoseSession` loses the lock and goose goes on.

### `Config`, `Smtp` and `Server`

`Config` maps an environment to the set of variables Load reports. A value stands
for every text Load treats alike ("otherScheme", "outOfRange"); the parsing of
each is the class it falls into, the rules across variables are kept.

`Smtp` is one action per exchange with the server, each of which may fail. The
verdict on the body may be lost after the server took the message, and a failing
QUIT is reported as the message's failure, as in the code.

`Server` has three kinds of goroutine: `run` and its deferred functions
(`phase`), the one around `srv.Serve` with its channel of capacity one
(`serving`, `serveErr`), and one per request (`pc`). A request arrives on a new
connection; on one that outlives a listener that failed, until the process exits; or
on one accepted earlier while `Shutdown` waits, which then waits for it too. It may
refuse at once, take one of `MaxConns` connections of the pool and give it back, as
often as `MaxTurns` times (`RequireSession`, then the handler), mail without holding
one, panic (before or after it wrote a status, in the middle of a delivery too) or
abort. `Shutdown` returns when none is in flight, with nil or with the listener's
close error, or when the grace period is over. A handler writes one status, as all of
the repository's do; what `recorder` would log of a second one is not modelled, and
200 stands for every status but 500. The chain is applied to a
handler's outcome as the composition of `LogRequests` and `Recover`, which is what
nested handlers amount to.

## Runs

| Run | Instance | Shows |
|---|---|---|
| `invitations` | 2 Creates, 2 Accepts, 2 addresses, application clock behind, fair | one account per link, one live account per address, refusals leave nothing, superseded links are closed and refused, accepted rows are kept, every request that begins is answered, and all of it implements `SingleUseLink` |
| `invitations_one_live` (violation) | 2 Creates, 1 Accept | two invitations created at once stay live together |
| `resets` | 2 Requests, 2 Confirms, 1 login, application clock behind | a link is spent once and a superseded one never, earlier sessions end, passwords never revert, masked accounts are untouched; implements `SingleUseLink` |
| `resets_every_session` (violation) | 1 Request, 1 Confirm, 1 login | a login in flight keeps its session through a reset |
| `sessions` | 2 accounts, 2 sessions, 3 requests, idle 3, absolute 5, floor 1, clock behind | deadlines respect both windows, an ended session stays ended, nobody ends another's |
| `sessions_cookie` (violation) | 1 session, 1 request | the cookie lapses before the session |
| `limiter` | tiers 2 per 2 and 3 per 5 ticks, 6 hits, 9 ticks, failing open and closed | the limits hold over every window, Retry-After is enough, refusals do not count |
| `login_guard` | 2 logins in flight, 2 accounts behind 1 address, 4 logins, 2 ticks | the overshoot is at most the logins in flight; a success forgives only its account; a bucket that is not overfull tells a wait that is long enough |
| `login_guard_retry` (violation) | the same | after an overshoot the wait is too short |
| `order_keys` | base 4, integers of up to 2 digits, 3 rows, 2 movers, 2 moves, any start among 79 keys at the edges | Between never refuses two neighbours, answers strictly between them, and what it answers is a bound of the next call |
| `migrate` | 3 Migrates and 1 status call in 2 processes, 2 migrations and goose's table, any starting version | two upgrades never meet at a version unless a session or a process was lost, nil means the newest version, every call returns or dies |
| `server` | 2 requests of up to 2 turns at 1 connection, every environment within two variables of a working one | requests are cut only after the grace period or a failed listener, nothing goes in the clear in production, every answer is logged as given, a process told to stop does |

Every property of a passing run has a mutant in `PROJECT.json`: a plausible bug
in one definition (a WHERE without its second condition, a DELETE by id only, an
unrounded comparison) under which TLC finds the property violated. Mutated
definitions sit next to the originals and are marked `Mutant`.

### What the violations say

* **One live invitation** - `invitation.go:185-186` promises it. Two Creates that
  scan before either commits both insert. An address still gets only one account.
* **Every session goes** - `passwordreset.go:177,185`. A login that verified the
  old password can insert its session after the reset's DELETE. Sessions open
  when the confirmation *began* do end, which is proved.
* **Sliding sessions** - ADR-0005. The row's deadline slides, the cookie's does
  not, so the browser forgets the session 14 days after login.
* **A wait that is too short** - `failures.go:70-71`. With more failures than the
  limit, the oldest one leaving does not make room.

Smaller disagreements have no run of their own. `password_resets.sql:46-47`
says a link "stops working the moment a new one is sent"; a confirmation whose
transaction began before the newer request may still spend it afterwards
(invitations have the same window), while one that begins after the newer commit
is refused, which is proved. `ratelimit.go:125-128` calls two tiers with one
window harmless, although each hit then counts twice; no limiter in `main.go` is
configured that way. What it costs is early refusals only: the limits and
Retry-After hold all the same, which is proved. And, met while modelling the other parts:

* `fracdex.go:8-9` (and ADR-0003) says two people reordering at once write "two
  different keys". `Between` is a function of its bounds, so two drops into one
  gap compute the same key. Cards, checklists and their items have a unique index
  that refuses the second write; statuses, boards and board columns have none.
* `MigrationStatus` does not take the advisory lock, and goose creates its own
  table for it, so a status call on an empty database can make a first `Migrate`
  fail. `CollisionsExplained` names this as the one exception.
* The comment on `Chain`'s order in `httpx/middleware.go` has `Recover` outside
  the request log; `apiHandler` puts it inside, as the comment in `main.go` says.
  Inside is what `AnswersHonest` needs: it is the mutant that breaks it.
* `httpx/server.go` says that requests are "cut off" after the grace period. They
  are cut when the process exits: `Shutdown` closes no connection in use, and
  `pool.Close` waits for connections that are out, so a request may still finish.
* `mail/smtp.go` reports `ErrUndelivered` for a message the server accepted when
  only QUIT fails; the converse, nil without acceptance, is checked not to happen.
* `config.go` reports "every problem at once", but what depends on `APP_ENV` is
  only looked at when `APP_ENV` is good; and credentials in a local environment
  load, although `NewSMTP` then refuses them.

### Bounds

`MaxTime`, `MaxHits`, `MaxTries`, `MaxMoves` and `MaxLen` stop clocks, counters and
keys; `Terminated` keeps a finished run from counting as a deadlock, so TLC reports
real ones. Request sets are the other bound: two requests of a kind are what a race
needs (one of them may hold the row the other waits for, and then commit or abort),
and three requests are what a session needs for one to renew, one to revoke and one
to arrive late. Windows are 2 to 5 ticks so that deadlines pass, are met exactly,
and are renewed within a run, and `Skew = -1` is the direction that keeps an
expired link usable by the application's check. The session run includes a use
whose renewal is cut by the absolute window. The limiter run lasts longer than
the loose window, so hits age out of both tiers. The `login_guard` run ends when the
tight window has passed once, so a failure leaves the tight tier while the loose
one still counts it.

`order_keys` starts from keys whose integers are both ends of the space, its
middle and both sides of every change of width, with fractions of the lowest
digit's neighbour and the highest digit; four digits are enough for a gap to
have no, one or two digits inside it. `migrate` has a process that migrates twice,
so the mutex matters, and another that also asks for the status. `server` starts
in every environment that differs from a local or a production one in at most two
variables, since every rule of `Load` and `NewSMTP` relates at most two besides
`APP_ENV` (a local one on https is left out: it runs like one on http). One
connection for two requests makes the pool a bottleneck, and `MaxTurns = 2` lets a
request come back to the pool after another, or after the pool was closed.

Requests of one kind, addresses, accounts, rows, movers and attempts are
interchangeable where a cfg declares symmetry; the runs with a liveness property
declare none. Two runs explore states that differ only in what nothing reads
once: `resets` without the answers (`VIEW Unanswered`; no guard and no property but
the type reads them), `sessions` without the columns of rows that are gone, the
cookie, and what an answered request remembers (`VIEW Relevant`).

### Fairness

`FairSpec` of `Invitations` assumes weak fairness of the *next step* of a request
whose transaction has begun, and nothing else: no request is ever obliged to
arrive, to fail or to be masked. The Go runtime schedules runnable goroutines and
PostgreSQL grants a lock to a waiter once its holder ends. The result covers two
creators. With more, two supersede UPDATEs may lock the same rows in opposite
orders; PostgreSQL's deadlock detector then aborts one, which is an `Abort`, so
such an instance is live only under an assumption about `deadlock_timeout` that
the model does not make. `statement_timeout` is likewise an `Abort` that may
happen but need not.

`Migrate` assumes that a call that has been made goes on when it can, and that the
server notices in the end that a client is gone (TCP keepalive); `Server` that its
goroutines are scheduled, that the grace period passes, and that a handler makes
progress, which `statement_timeout` and `sendTimeout` guarantee, a handler having
finitely many statements (at most `MaxTurns` in the model). Neither assumes
that a signal, a request, a panic, a failure or a crash ever comes.

## Proofs

Each `...Proofs` module proves `Inductive`, that an invariant `IInv` is preserved
by every action, and then the theorems for *all* values of the constants: any
sets of requests, accounts and addresses, any windows and clock skew.

* **`InvitationsProofs`**: `IInv` is the type invariant with `LockInv` (a row is
  held by one open transaction and held rows are committed), `CreateInv` (what a
  Create's scan and remaining rows mean at each `pc`, and that handled rows are
  closed or held), `AcceptInv` (an Accept past its stamp holds a row that is still
  open at its `start`), `AddressInv` (an address pending in one transaction is
  neither taken nor pending in another), `AnswerInv` and `ClockInv`. It is needed
  because single use is not inductive: that two Accepts do not both commit rests
  on the row lock between stamp and commit. Theorems: `TypeCorrect`,
  `LinkIsSingleUse`, `AddressIsUnique`, `SupersedeCloses`, `SupersededIsRefused`,
  `RefusalIsClean`, `AcceptedRowsAreKept`.
* **`PasswordResetsProofs`**: the same with `RequestInv`, `ConfirmInv`, `UserInv`
  (a confirmation between hash and commit locks the account), `SessionInv` (what
  its DELETE will remove) and `RehashInv` (a hash is identified by its salt, so a
  compare-and-set on the hash read is a compare-and-set on the password).
  Theorems: `TypeCorrect`, `LinkIsSingleUse`, `SupersededIsRefused`,
  `EarlierSessionsEnd`, `PasswordsNeverRevert`, `MaskedIsFinal`.
* **`SessionsProofs`**: `RequestInv` (what a request that will renew read),
  `UseInv` (every renewal under way was computed from a use no older than
  `MaxDelay`) and `EndedInv`. Theorems: `TypeCorrect`, `CeilingHolds`,
  `IdleWindowKept`, `EndedIsFinal`, `OthersAreEnded`, `OnlyOwnSessionsEnd`.
* **`MigrateProofs`**, for any processes, calls and number of migrations:
  `VersionInv` (what a transaction is creating, by `pc`), `LockInv` (until something
  is lost, an upgrade past the lock holds it, through a session the server will not
  reap) and `NextVersionInv` (until then, what it is creating is the next version,
  unless a status call made goose's table first). `NewestOnSuccess` needs none of
  the locking: the version only grows and goose reads it last. That upgrades do not
  collide needs all of it. Theorems: `TypeCorrect`, `LockSerializes`,
  `SuccessMeansNewest`. That module's type is proved only; the run lists no type
  invariant.

* **`SlidingWindowProofs`**, for any tiers, limits and windows: `MatchInv` (within
  its window, however far back one looks, a sorted set has as many members for each
  admitted hit as there are tiers that share it), which rests on `NumberInv` (no
  two members collide, the sequence number being per window and never reused while
  the set lives) and `LifeInv` (the set, and with it the number, outlives the window
  of every hit in it). `SlackInv` says there was room before the latest hit, and
  `PromiseInv` what every set will have dropped by the time a refused caller may
  come back. `WindowLimit` speaks of any window that ever ended; it is inductive with
  them because only a new hit can fill a window, and that one ends now. Theorems:
  `TypeCorrect`, `LimitHolds`, `FailClosedHolds`, `PromisesKept`, and
  `RefusalsEarned`, whose hypothesis `DistinctWindows` (no two tiers have one
  window) every limiter of `main.go` meets. The others hold without it.
* **`LoginGuardProofs`**, for any accounts, addresses, tiers and logins in flight:
  `MatchInv` as above for the counters, and `SlackInv`, that the failures counted
  plus the logins that have passed their check and may still charge (`Pending`) are
  fewer than the limit plus the attempts. That is what bounds the overshoot: a login
  passes its check only where there is room, and charges a bucket once. Theorems:
  `TypeCorrect`, `OvershootBounded`, `OnlyFailuresSpend`, `WaitIsEnough`.
* **`OrderedListProofs`**, for any base above 1, any widest integer and keys of any
  length, first about `Fracdex` alone. A key splits into an integer part and a
  fraction and is put together from them again (`Decompose`, `Compose`); two keys
  whose integer parts differ are ordered inside those (`IntegersDecide`), two with
  the same part by their fractions (`FractionBelow`); `increment` answers a larger
  integer part or refuses the ceiling only (`IncrementCorrect`), `decrement` a smaller
  one of all but the floor (`DecrementCorrect`), `midpoint` and `midpointAfter`
  answer fractions strictly between or above (`MidpointCorrect`,
  `MidpointAfterCorrect`). From these, `AlwaysRoom`: between two keys that ascend,
  and beyond either end, `Between` answers a key that `Validate` accepts, strictly
  between them. In particular no bounds it accepts make it answer `ErrExhausted`: the
  comment at `fracdex.go:59-61` has it after some 62^26 insertions, but neither
  branch that returns it (`fracdex.go:116`, for `next`'s integer would lie above the
  ceiling, and the one in `before`, behind the test for the floor) can be taken. For the list the invariant is then
  short: what is stored is a key (`PositionsAreKeys`) and what a mover holds lies
  between the two rows it read (`HeldBetween`). Theorems: `AlwaysRoom`,
  `TypeCorrect`, `RoomInEveryGap`.
* **`ServerProofs`**, for any number of requests and connections and every
  environment: `ListenInv` (what the listener, the goroutine that accepts and `run`
  know of each other), `FlightInv` (which requests may be left in each phase, and
  why), `RetInv` (what a nil from `run` stands for), `ConfigInv` (what Load and then
  NewSMTP let through), `MailInv` (what is said in the clear, and that a
  conversation at QUIT was accepted) and `AnswerInv`. Theorems: `TypeCorrect`,
  `ShutdownIsGraceful`, `MailIsPrivate`, `LogIsHonest`. Its type is proved only, like
  that of `MigrateProofs`.

Each `IInv` was checked with TLC on the instance of its component's run (that of
`SlidingWindow` also with two tiers on one window) before it was proved.

The refinement is proved as well: `ImplementsSingleUse` in both modules says
`Spec => Link!Spec`. The initial states map by definition. A commit of the
publishing transaction is shown to be `Publish`, the arrival of a link `Present`,
a commit of the redeeming one `Redeem`, and the rest stutters; most actions leave
the six mapped expressions alone, which one lemma (`LinkFrame`) says once. It needs
`IInv` for `Redeem`, whose guard is the row lock's promise that the link is not
spent yet, and a small strengthening, that a request that is idle has no token,
for `Present`.

Assumptions beyond the types of the constants: request kinds are disjoint; in
`Sessions`, `Idle + Skew <= Absolute` (14 against 90 days) and `MaxDelay <= Floor`,
that a request's renewal reaches the database within the hour of
`sessionRenewalFloor`. The code sets no such bound on a request, but a statement
is cut after 15 seconds; without it a renewal could land hours late and shorten
the deadline. A limiter has finitely many tiers, as has every key of the login guard,
which has at least one account and one address, no two tiers of one key over one
window, and finitely many logins in flight; a
list starts with positions that are keys.

Only model-checked: the liveness properties `RequestsAnswered`, `CallsReturn` and
`ExitsWhenTold`, which rest on fairness and are out of the prover's reach.

## Not modelled

* Argon2id, the PHC format and timing equalisation; JSON, validation messages,
  headers and mail texts (`Render` is one refusal); user agents; request ids and
  the error envelope. No property is about them.
* The authorization table, the client address and the CSRF guard are pure: a table
  compared cell by cell with its document in the tests, and parsing of headers. A
  model would repeat them.
* Readiness runs stateless checks and reports.
* The settings of the pools, and the connection timeouts of the HTTP server, are
  configuration of third-party code.
* Generated queries are modelled as the guards and effects of the actions that call
  them; `ListUsers` and row scanning are left out.
* Projects, cards and planning are tables without code; lists whose position is
  not unique are left until something writes them. The web client is a manifest.
* A limiter with no tiers or an empty key admits everything and has no state.

## Plan

1. An abstract limiter, one bag of admitted hits without sets, numbers or expiry,
   refined by `SlidingWindow`; `MatchInv` is most of its refinement mapping.
2. An abstract ordered list in which a drop is atomic, and what `OrderedList` keeps
   of it: the order of the rows that nobody moves.
3. Lists without a unique index, once there are endpoints that write them.
