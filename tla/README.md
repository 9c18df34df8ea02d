# Verification of the gRPC / Flutter template

This directory holds the TLA+ models of the authentication system in this
repository, the TLC runs that check them and the TLAPS proofs about them.

## 1. The system and its parts

| Part | State it keeps | Operations | What is hard |
| --- | --- | --- | --- |
| **Go auth service** `backend/internal/auth` | none of its own; every handler's locals | `SignUp`, `Login`, `ForgotPassword`, `ResetPassword`, `ValidateToken` | handlers interleave at every SQL statement and Redis command; some store failures are ignored, some answered |
| **User repository** `backend/internal/models`, `backend/migrations` | table `users` (UNIQUE email) | `Create`, `GetByID`, `GetByEmail`, `UpdateLastLogin`, `UpdatePassword`, `EmailExists`; `Update`, `Delete`, `HardDelete`, `List`, `Count` have no caller | check-then-insert race; a row may go while a handler holds its id |
| **Redis cache** `backend/internal/cache` | refresh tokens, reset tokens, login counters, each with a TTL | `Set/Get/Delete…`, `TrackLoginAttempt`, `ClearLoginAttempts` | INCR and EXPIRE are two commands; the client library repeats commands |
| **Passwords and tokens** `backend/pkg` | the RSA key | `Hash`, `Verify`, `CreateAccessToken`, `CreateRefreshToken`, `ValidateToken`, `GetTokenID` | a key generated in memory is lost on restart; the two key files may not belong together |
| **Validation** `backend/internal/auth/validation.go` | none | `ValidateEmail`, `ValidatePassword`, `ValidateName`, `ValidateToken` | validates a trimmed copy and stores the original |
| **Configuration** `backend/internal/config` | the `Config` value | `Load`, `Validate`, `getEnv*` | silent defaults, narrowing conversions, durations of zero; hashes and keys outlive the settings they were made under |
| **Server process** `backend/cmd/server`, `internal/middleware`, `internal/db` | listener, two goroutines, two pools | start-up, graceful shutdown with a deadline, `-health-check` | a signal races the goroutine of `Serve`, the deadline races the last handler, a forced stop the deferred `Close`s |
| **Rust backend** `backend-rust` | the same table and Redis, its own keys | the same five RPCs | supposed to behave like the Go backend (`docs/go-rust-migrate.md`) |
| **Flutter client** `frontend/lib` | `AuthBloc` (a singleton), router, notifications, dashboard and page cubits | sign-in flows, redirects, notification list, loading | one bloc shared by pages that each close it; late results |
| Envoy, Prometheus, Docker | configuration only | | not modelled |

The client calls the backend through Envoy (gRPC-Web); both backends share
PostgreSQL and Redis and keep nothing else between two calls.

### What makes each part correct

- **Go and Rust backends, together with their stores.** One account per
  address. Every reply justified by the accounts, reset grants and sessions of
  one instant of its call, whatever runs beside it. A password changed only
  through a grant that stood. A token vouched for only while its key lives and
  its account is active. No session for a password nobody showed.
- **Throttle.** A bound on the passwords compared in the life of one counter; a
  counter that always goes away; nobody locked out at a first attempt.
- **Client.** The dashboard only behind a login; no spinner without a request;
  a form that can be used again; a login page that takes a sign-in.
- **Server process.** No handler finds a closed pool but after a forced stop; an
  exit with status 0 has closed everything; a signal ends the process.
- **Settings, passwords, keys.** A stored hash verifies its password whatever the
  settings have become; only a number outside its type can panic; nothing is
  stored without a TTL; failures stay counted; key files of one run belong
  together.
- **Field rules and the table.** The client's rules, those of both backends and the
  columns fit each other but for named gaps; who signed up gets in with what was
  typed.
- **Notifications.** The badge counts the unread items of the list, what was tapped
  becomes read, and the list appears, whatever is under way at once.

`PROJECT.json` lists the hazards of the code one by one, each at its line, with
the properties that cover it or the reason none does.

## 2. Modules

| Module | Stands for |
| --- | --- |
| `Backend` | what both backends share: request slots, the users table, password resets, store calls that fail |
| `AuthService` | the Go handlers, the throttle, keys and restarts |
| `AuthContract` | what an authentication service promises its callers (abstract) |
| `AuthRefinement` | the mapping of `AuthService` to the contract |
| `LoginHistory` | `AuthService` with history variables for the throttle |
| `RustAuth` | the Rust handlers |
| `RustRefinement`, `RustParity` | the mapping of `RustAuth` to the contract, and the promises of the Go backend it does not make |
| `AuthClient` | `AuthBloc`, the pages that use it, and the router |
| `Server` | the life of the Go server process, and its health check |
| `ServerContract` | what a server process promises to callers and operators (abstract) |
| `ServerRefinement` | the mapping of `Server` to that contract |
| `Settings` | environment variables, and what they do to hashes, the throttle, sessions and keys |
| `FieldRules` | which texts the server, the Rust backend and the client's forms take |
| `Records` | those texts on their way into the users table and back |
| `Notifications` | the notifications of the client's dashboards |
| `MCAuth`, `MCLoginHistory`, `MCRust`, `MCSettings`, `MCRecords` | instances for TLC: initial tables, environments, forms, symmetry |
| `AuthServiceProofs`, `RustProofs` | theorems about each backend and its refinement, with their proofs |
| `LoginHistoryProofs`, `AuthClientProofs`, `ServerProofs`, `SettingsProofs`, `RecordsProofs`, `NotificationsProofs` | the same for the modules they are named after |

`AuthRefinement` and `LoginHistory` extend `AuthService`, `ServerRefinement` extends
`Server`, and `RustRefinement` extends `RustAuth`; both backends extend `Backend`, and `Records` extends
`FieldRules`. `AuthClient` stands alone: to it the server is a call that is
answered or fails. `Server`, `Settings`, `Records` and `Notifications` each look at
the same program from a side on which the others do not matter: a handler is to
`Server` one that uses both pools until it returns, to `Settings` and `Records` one
step.

### Backend

A handler is a sequence of labelled steps, one for each SQL statement or Redis
command. What it computes between two of them (validating, hashing, comparing,
signing) touches nothing shared and belongs to the step before. `calls` holds
the request slots: the label of each handler, the values it carries and its last
reply. `Query` is a statement that reads: it is answered, or fails. `Command` is
one that writes: it is carried out and answered, or lost, or carried out with
its answer lost. `faults` counts failures and crashes up to `MaxFaults`.
`users` is the table, with the UNIQUE constraint of the migration in `Violates`;
an id is `None` until drawn and `Gone` once its row is deleted.

### AuthService

| Code | Actions, in order |
| --- | --- |
| `SignUp` | `SignUp`, `EmailExists`, `Create` |
| `Login` | `Login`, `Increment` and `Expire` (`TrackLoginAttempt`), `Authenticate` (`GetByEmail`, `IsActive`, `Verify`), `ClearLoginAttempts`, `UpdateLastLogin`, `SetRefreshToken` |
| `ForgotPassword` | `ForgotPassword`, `FindAccount`, `SetPasswordResetToken` |
| `ResetPassword` | `ResetPassword`, `GetPasswordResetToken`, `UpdatePassword`, `DeletePasswordResetToken` |
| `ValidateToken` | `ValidateToken`, `GetByID` |
| any, malformed request | `Reject` |
| Redis | `Tick` (the TTL of a counter), `ResetTokenExpires`, `RefreshTokenExpires` |
| an operator | `Delete` (soft), `HardDelete` |
| the process | `Restart` |

`attempts` holds the login counters with their TTL (0 is a key without one),
`refresh` the session each slot stored last, `issued` the tokens clients hold,
`key` where the signing key comes from and how often it has been generated. The
errors a handler ignores (`TrackLoginAttempt`, `ClearLoginAttempts`,
`UpdateLastLogin`, `DeletePasswordResetToken`) let it go on; the errors it
answers end it. The client library repeats a command whose answer it lost:
`Increment` may count twice and see only the second value.

### AuthContract and its promises

The contract has no stores and no statements. A request is *open* until the
instant that decides it, then *granted*, then perhaps *effected*, then *done*.
`Register`, `Recognise`, `OpenSession`, `Grant`, `Redeem`, `Change`, `Spend` and
`Vouch` say what may happen at each instant and what has to hold then. Only a
step in which a store fails (`Excused`) may refuse a request for a reason the
caller cannot see, or do what its reply denies; with one exception, which the
contract names: a service whose two keys do not belong together (`signing`) ends
every login it has recognised as "internal". `Promises` names what only the
Go backend promises: a login looks at `is_active`, a reset spends its grant, a
reset answered ok has changed a password, and sessions of one account do not
overwrite each other. The contract allows `locked` at any time: the throttle is
not a promise to a single caller and has properties of its own.

Two resets with one grant may both redeem it while both are open: the contract
says so, because the code reads the token in one command and deletes it in
another. What it rules out is a reset with a grant that an earlier reset
answered ok has used.

### LoginHistory

`AuthService` with three histories per address, set back when its login counter
goes away: `guesses`, the passwords compared, `refused`, the logins for which that
was the end, and `carried`, the logins that were past their INCR at that moment
and so are not in the new counter.

### RustAuth

| Code | Actions, in order |
| --- | --- |
| `sign_up` | `SignUp`, `Create` (no look at the table first) |
| `login` | `Login`, `FindByEmail`, `StoreRefreshToken`, `UpdateLastLogin` |
| `forgot_password` | `ForgotPassword`, `FindAccount`, `StoreResetToken` |
| `reset_password` | `ResetPassword`, `GetUserIdFromResetToken`, `UpdatePassword` |
| `validate_token` | `ValidateToken`, `FindById` |

There is no throttle. The key of a refresh token is that of its user, so a login
overwrites the session before it; `refresh` says which slot's token stands. A
future that tonic drops because its client went away is to the stores a call
that failed, and `Fault` stands for both.

### AuthClient

Dart runs one callback at a time. `Submit` is the button of a form, `Answer` the
answer of the server or its failure, `Logout` the menu entry, `Browse` a link or
the back button, `Render` a rebuild of the button, `Unmount` the end of the
animation that takes a page away, `Reload` the browser loading the app again.
`Target` is the redirect of `/dashboard`; `Listeners` are the `BlocListener`s of
the pages, which go on listening until their page is unmounted. `session` is a
history variable: a login was answered ok and no logout came after.

`flutter_bloc` is not in the repository; the model relies on what its use here
shows and its documentation says: `BlocProvider(create:)` closes its bloc when
it is unmounted, `BlocProvider.value` does not, a closed bloc throws on `add` and
drops what its handlers emit, handlers of one bloc run at once, and a state equal
to the last is not emitted.

### Server

`main` is where `main` is, from `load` to the last deferred `Close`; `serve` and
`stopper` are its two goroutines, `signal` the channel, `deadline` the context of
the shutdown, `pool` the two pools, `calls` the handlers, `up` the stores that
answer, `probe` the process that `-health-check` starts. `Exit` is `log.Fatalf`, a
signal that nobody asked to be notified of, or SIGKILL: no deferred call runs. A
pool whose first ping fails is `leaked`: `db.New` and `cache.New` return an error
without it and without closing it (`postgres.go:37`, `redis.go:35`). In `main` and in
the health check the process ends right after, so it costs nothing there; in the
health check it shows in `probe.open`.

| Code | Actions, in order |
| --- | --- |
| `main`, up to the server | `Load`, `OpenDatabase`, `OpenCache`, `RunMigrations`, `Prepare`, `Listen`, `StartServing`, `Notify` |
| the goroutine of `Serve` | `Serve`, `ServeReturns` or `ServeFails`; handlers `Accept`, `Return` |
| shutdown | `TakeSignal`, `BeginStop`, then `GracefulStop`, `Drained` beside `DeadlinePasses`; `Stopped`, or `ForceStop` and `ForceStopReturns` |
| deferred calls | `Sync`, `CloseCache`, `CloseDatabase` |
| `performHealthCheck` | `ProbeStarts`, `ProbeDatabase`, `ProbeCache` |
| around the process | `Signal`, `Kill`, `Restart`, `GoDown`, `ComeUp` |

From grpc-go (v1.68.1 in `go.mod`), which is not in the repository, the model takes
that `Serve` returns an error after `Stop` or `GracefulStop` unless it was
accepting, that `GracefulStop` waits for handlers and `Stop` does not, and that
connections take streams until they have drained. It also takes that a
`GracefulStop` which waits for a handler holds no lock that `Stop` needs. If that
library kept one, a handler that never returns would keep `Stop`, and with it `main`,
from returning: `SignalEnds` depends on this and the safety properties do not.

### ServerContract

A process is *starting*, *serving*, *draining*, *closed* or *forced*, and *ended*. It
takes calls while it serves and drains; it drains and is forced only when told to
stop; it ends with status 0 only when closed, with no call left, or forced; once
it drains it fails only if nobody has been served. The contract has no
goroutines, pools or stores. `ServerRefinement` reads the phase off the process:
`transport` while it listens, `transport` again once `quit` is set, `forced`, `exit`.

### Settings

`Load` turns an environment into the values the code works with: a missing,
empty or garbled variable is its default, and conversions to `uint8` and `uint32`
cut off what does not fit (`Width8`, `Width32`). One account goes through restarts
(`Boot`, `LoadPublicKey`, `Stop`) under any of `Environments`: `SetPassword` hashes or panics,
`RustSetPassword` is the other backend, `Login` counts, verifies and stores a
session, `Expires` is the TTL of the counter. Beside that `Draw`, `WritePrivate`,
`WritePublic` and `Interrupt` are runs of `GenerateKeyPair`, which writes one
file and then the other, at any time: also between the two reads of a process that
starts (`Boot`, `LoadPublicKey`). Nothing in the repository calls `GenerateKeyPair`;
the server reads whatever pair of files it is given, and this function is the one
way the code has to make them. `DisturbReader` is history: it remembers a write
between those reads. Of the store calls of a login only `SetRefreshToken` may fail
here (`unsaved`). Time is counted in half seconds, since the code cuts
durations to seconds in two places (`ExpireSeconds`, `Alive`). `IDKey` keeps its
inputs apart and has no salt: a salt makes more hashes differ, never fewer.

### FieldRules and Records

A text is what a rule can see of it: the blanks around it, its length, and the
classes of its characters; an address also has a mailbox it belongs to,
capitals, and the patterns it matches. `ValidateEmail` to `ValidatePassword` are
the Go rules, `Client…` those of the forms, `Rust…` those of the second backend.
`Records` sends forms through them, from the client or from another program to
either backend, into a table whose columns cut trailing spaces and refuse longer
texts. A request is one step: what happens between its statements is in
`AuthService` and `RustAuth`.

### Notifications

`read` is the list of the mock data source, `cubit` the cubit of each dashboard:
`loading` and `marks` are the answers it waits for, `before` the marks that began
before its load and, with their shorter delay, end before it, `items` and `unread`
what it shows. `Mount` and `Unmount` come from the scaffold, `Leave` is a logout or
a page outside the dashboard, `OpenPopup`, `Tap`, `ClosePopup` are the bell,
`MarkEnds` and `LoadEnds` the timers, `Reload` the browser. A closed cubit lets
its timer change the source and emits nothing.

## 3. Runs

| Run | Question | Result | States |
| --- | --- | --- | --- |
| `accounts` | sign-ups, logins and token checks at once: types, one account per address, counters with a TTL, the contract | holds | 226,000 |
| `reset` | resets and logins of one account at once: the contract | holds | 214,000 |
| `throttle` | logins without end: `GuessBudget`, `LockoutEarned`, `LockoutEnds` | holds | 269,000 |
| `rust` | all five methods of the Rust backend at once: types, the contract with the promises the Rust backend makes | holds | 241,000 |
| `client` | types, `DashboardNeedsLogin`, `SpinnerMeansWaiting`, `ButtonComesBack` | holds | 11,000 |
| `server` | start-up, handlers, shutdown, health check: types, `PoolsOutliveCalls`, `CleanExit`, `LateFailureServedNobody`, `ProbeTells`, `SignalEnds`, the contract of a server process | holds | 11,000 |
| `settings` | restarts under other settings: types, `HashesVerify`, `PanicsAreOutOfRange`, `SessionsExpire`, `RightLoginsEnd`, `FailuresCount` | holds | 141,000 |
| `records` | forms into the table and back: types, `RefusedForms`, `InternalMeansBlanks`, `OwnersGetIn` | holds | 93,000 |
| `notifications` | types, `BadgeTells`, `NothingDropped`, `TapsArrive`, `ListArrives` | holds | 1,700 |
| `lockout_lost_expire` | "please try again later", whatever fails | violated | |
| `rust_parity` | "feature parity with the Go backend" | violated | |
| `client_sign_in` | "Account created! Please sign in." | violated | |

**Bounds.** Two calls at once are enough for every race the code has between two
handlers: no handler waits for a second one, so a third adds no new order of
two, only longer ones; the theorems cover any number. One address is enough where
the properties speak of one address at a time and the stores are keyed by
address; `OneAccountPerEmail` and the contract are proved for any set of them.
Two ids let a removed account's address be taken again. `MaxLoginAttempts = 1`
with a counter cap of 3 keeps apart the values the code tells apart (1, up to
the limit, above it). One fault at any statement, before or after it took
effect, is one lost call, one repeated INCR or one crash. Slots take a new
request as soon as the last one is answered, so runs are not bounded in length:
only ids, reset tokens and faults run out (`Spare`
keeps a request from arriving without an id or token left for it). `LockoutTicks = 1` is a TTL that may
run out at any time after it was set; `throttle` and `lockout_lost_expire` use 2,
so that an attempt that set the TTL anew could put the end of a lockout off for
ever.

`server`: two handlers, one of which may hang while the other goes, and one
outage of a store, at any point of either process. `settings`: widths 8 and 64
stand for 2^8 and 2^32, since the code only tells apart what is below 1, what
fits, and what is cut to zero or to something else; each variable is tried in
turn at the values worth telling apart, because no two of them meet in one
condition but those of Argon2 (where one bad value is enough) and the key paths
with the expiry of sessions (which are tried together); one attempt is allowed
per counter; two key pairs and two writers are enough for every mixture of two
files. `throttle` has two logins at once; three under a limit of two were tried as
well and find nothing new. `records`: limits of 4 to 7 in the place of 255, 128 and
100, keeping apart what the limits tell apart; forms differ from a good one in one field, and
two rows let any two of them meet. `notifications`: three items, one read, and
two dashboards, of which one is being left.

**Key modes.** `accounts` has a key in memory and one in files, `throttle` one in
memory and a pair of files that do not belong together (no login ends well under
those, so the contract has little to say there; the theorem covers it).

**Symmetry.** Slots are interchangeable, and where the table starts empty so are
passwords and ids; so are key writers and passwords in `settings`, and the ids
of rows in `records`. No run that checks a liveness property uses symmetry.

**Deadlock** is checked in every run: some client may always send a request the
validation refuses, or browse, a process that has ended is started again, and an
answer in `records` arrives.

**Fairness.** Backends: a goroutine is scheduled and a store call ends, in an
answer or in the timeout of its client (`WF` on the steps of each slot), and
Redis counts TTLs down (`WF` on `Tick`). Nothing is assumed of clients, operators,
the expiry of tokens or crashes. Client: frames are drawn and animations run to
their end; users owe nothing, and neither does the server: the client sets no
deadline (`grpc_client.dart:8`), `envoy.yaml:34` waits for ever and a handler may hang, so
a call need not end. `ButtonComesBack` therefore speaks of behaviours in which no
request hangs for ever (`Hangs`): with one that does, the button stays off, and the
code has nothing against that. Server: goroutines are scheduled
and time passes (`WF` on the steps of `main`, of the server's goroutines and on
`DeadlinePasses`); handlers may hang for ever, and signals, stores and operators
owe nothing. Notifications: timers run out. Only `LockoutEnds`, `TryAgainLater`,
`ButtonComesBack`, `SignalEnds`, `TapsArrive` and `ListArrives` need fairness.

**Mutants.** Operators that follow the words "Mutated form" are definitions with
a plausible mistake in them. `PROJECT.json` names for each property of each run
one that breaks it, and no specification uses them.

## 4. What the runs found

1. **A counter without a TTL locks an address for ever**
   (`lockout_lost_expire`; `redis.go:158`). INCR and EXPIRE are two commands, only
   the call that saw 1 sends the second, and `Login` ignores its error. Without
   faults the counter always goes away (`LockoutEnds`).
2. **The Rust login does not look at `is_active`** (`rust_parity`, conjunct
   `TurnsInactiveAway`; `main.rs:106`).
3. **The Rust reset does not spend its token** (`rust_parity`, conjunct
   `SpendsGrants`; `main.rs:241`).
4. **The Rust reset is answered ok though no row changed** (`rust_parity`, conjunct
   `ChangesSomething`; `main.rs:242`): the account may be gone, and the rows the
   UPDATE matched are not counted.
5. **A Rust login ends the other session of its account** (`rust_parity`, conjunct
   `KeepsSessions`; `session.rs:22`): there is one key per user, not per token.
   Of 2 to 5 TLC prints the shortest trace; naming another conjunct of
   `KeepsGoPromises` in `rust_parity.cfg` prints its own. `rust` leaves these four
   promises out of the contract, and so does not catch what they forbid.
6. **After a registration nobody can sign in until the app is reloaded**
   (`client_sign_in`; `register_page.dart:22`). The page that goes away closes the
   one bloc the login page uses. The same closes the bloc behind the dashboard's
   logout, and leaves a form whose request was under way with its button off.

One disagreement has no run, because it is seen in a line: `docs/api-spec.md:89` says
that the address of a user is "Lowercase, validated", and neither backend nor the
client makes it lowercase (`service.go:85`, `requests.rs`), so that addresses that differ
in capitals are different accounts. `docs/api-spec.md:90` gives a name
"1-100 characters" where `validation.go:99` asks for two. No property counts either
as right.

The properties that hold name gaps of the code in their own statements. A form
the client takes is refused for one of the maxima, which it does not know, or for
a tab in a name (`RefusedForms`). An address typed with a space passes the check
of its trimmed copy and is stored with the space, so that two spellings are two
accounts and a long one fails in the table as "internal" (`OwnersGetIn`,
`InternalMeansBlanks`). A forced stop closes the pools under handlers
(`PoolsOutliveCalls`). A signal that overtakes the goroutine of `Serve` ends the
process as a failure, before it has served anybody (`LateFailureServedNobody`).
`redis.go:149` speaks of failed login attempts and `Login` counts every attempt
before it looks at the password, so right logins count while they are under way:
they can lock each other out, but only then: once they have ended, a locked
address has had as many logins refused as are allowed (`LockoutEarned`).

## 5. What is proved

All for any finite or infinite sets of calls, addresses, passwords, ids and
tokens and any `MaxFaults`, under the assumptions on constants that the modules
name (`None` and `Gone` are not data; the table found at startup respects its
UNIQUE constraint; `LockoutTicks > 0`; for the throttle that only finitely many
handlers run at once, `HistoryAssumption`; for `Notifications` that the list is
finite; for `Settings` that the widths leave
room for the defaults of the code; for `Records`, `RecordsAssumption`: a text that
matches the pattern of an address has characters, and a text without blanks
around it has no kind of blank there).

- **Types** (`TypeCorrect`, seven times). `TypeOK` is inductive. It says more than
  types: a request at a label has the values that label works with (without that
  no step could be shown to keep the stores well typed), a reset token that is
  being redeemed was handed out, a slot of the Rust backend names at most one
  stored session, no handler of the client outlives its bloc, every row fits its
  columns, and a load of notifications reckons only with marks under way.
- **One account per address** (`AccountsAreUnique`, twice). Inductive together
  with `TypeOK`: only `Create` adds a row, and only where `Violates` is false. The
  look at the table before it plays no part.
- **Counters expire** (`CountersExpire`). Inductive together with `TypeOK`; the
  step that matters is a fault-free `Expire`, which may find its counter gone or
  a second `Expire` under way, and `Increment`, which leaves a creator behind
  whenever it goes from 0 to 1.
- **The backends implement the contract** (`Implements`, twice). Initial states
  map to initial states; then each action is shown to be one named step of the
  contract or a stutter, under `TypeOK` and `OneAccountPerEmail`. The latter is
  needed because the code takes the row of an address and the contract
  any owner of it. For the Rust backend the mapping of sessions needs that a
  slot names at most one stored token, which is in its `TypeOK`.
- **The client** (`DashboardIsGuarded`, `SpinnersWait`). `DashboardNeedsLogin`
  alone is not inductive: the redirect trusts the bloc, so it is strengthened with
  "a bloc that says authenticated stands for a session".
- **The throttle** (`GuessesAreBounded`, `LockoutsAreEarned`). `GuessBudget` is not inductive: a login
  that passes its INCR must be known to have seen a number within the limit. The
  invariant adds that passwords compared, logins on their way and the counter
  stand in the relation `Budget`: together the first two are at most what the
  counter allows, what was carried over and the faults. `StepEffects` says once
  for every action what it does to the set `Pending`; the rest is arithmetic on
  cardinalities. `LockoutsAreEarned` rests on `Earned`: while nothing fails, the
  counter, as far as the limit, is at most the logins that were refused and those
  under way. The step to watch is a login that succeeds: it deletes the counter,
  and with it what others under way have counted.
- **The server process** (`PoolsStayOpen`, `ExitsAreClean`,
  `FailuresServedNobody`, `HealthIsAnswered`). Strengthened with `Order`, which
  says how far each goroutine can be at each point of `main`: what is open when,
  that nobody is served before `Serve` accepts, that only `Stop` closes connections
  with handlers under way. The health check has an invariant of its own,
  `ProbeKnows`: which stores have answered at which step.
- **The server process implements its contract** (`Implements` of `ServerProofs`).
  The mapping needs `Order`, that nobody was told to leave before a signal came
  (`Signalled`), and that connections are closed only after that
  (`ClosedLeaves`). The step to watch is `Drained`, which closes a process whose
  connections are open and nothing of one that was forced or never opened.
- **Settings** (`HashesSurvive`, `PanicsNeedRange`, `SessionsHaveTTL`,
  `RightLoginsSucceed`, `FailuresAreCounted`), for any widths and any
  environments. `HashesVerify` needs `Formed`: a stored hash is the encoding of its
  owner's password under some parameters. `RightLoginsEnd` needs `KeyOrder`: a run
  of `GenerateKeyPair` that is alone at its second file left the first as it wrote
  it, files written whole belong together, and a process between its two reads
  that nobody disturbed still has the first of the pair on disk (`ReadsPair`).
- **Field rules and the table** (`RefusalsAreNamed`, `FailuresAreBlanks`,
  `OwnersEnter`), for any forms and any limits:
  the runs try forms that differ in one field, the theorems any. What is answered
  follows from lemmas about the rules (`ClientEmailEnough` and its like: what the
  client takes the server takes, but for the named gaps). `OwnersGetIn` needs
  `AsTyped`, which says of every row what its owner typed; that and the UNIQUE
  constraint (`Table`) make the row that is found the owner's.
- **Notifications** (`BadgesTell`, `NothingIsDropped`), for any list and any number
  of dashboards. `BadgeTells` says nothing of a dashboard that still waits for its
  list, and the list could arrive before the marks of dashboards left behind.
  `OthersReckoned` is the order the delays give: what others have under way, the
  dashboard in front waits for before its list comes, and nothing of it is left
  after.

**Liveness** is only model-checked (`LockoutEnds`, `ButtonComesBack`, `SignalEnds`,
`TapsArrive`, `ListArrives`): the provers here do neither fairness nor `ENABLED`.
Under each but `SignalEnds` there is a safety property that is proved for every
instance, and that says that what one waits for can still come:

| Liveness, by TLC | Safety under it, proved |
| --- | --- |
| `LockoutEnds` | `CounterExpires`: every counter has a TTL, or a login about to set it |
| `ButtonComesBack` | `SpinnerMeansWaiting`: a bloc that loads waits for an answer |
| `TapsArrive`, `ListArrives` | `NothingDropped`: a tap has its mark under way, a dashboard its load |

What remains to TLC is that fair steps get there. The violations are
counterexamples and need no proof.

## 6. What is left out, and why

- A byte-order mark around a name, which Dart's `trim` takes off
  (`name_input.dart:13`) and Go's does not.
- The characters of a text beyond the classes and patterns a rule asks for; the rule
  for tokens (`validation.go:122`), which are not texts in the models.
- `.env` files, addresses of hosts, the memory and salt length of Argon2 (what a
  huge value costs the machine), and settings without a reader: rate limits, bot
  detection, CORS, sessions, metrics, `BCRYPT_COST`.
- What a TCP probe or an orchestrator makes of the health check, and how long it
  waits after SIGTERM: `Kill` may come at any time.
- Argon2, RSA and JWT encodings: a password verifies against its own hash only, a
  token against the key that signed it only. Expiry of an access token is a check
  that may fail at any time.
- `AuthTokenValidationRequested`, `AuthInterceptor`, `GetRefreshToken`,
  `DeleteRefreshToken`, `SetNX`, `List`, `Count`, `Update`: no caller.
- `docs/plan.md` and `README.md` announce token rotation and per-method rate
  limits; nothing under `backend/` or `backend-rust/` implements them, so there is
  nothing to model.
- The pages under `/dashboard` are one page. The redirect for them depends on
  which address go_router hands to the parent route (`app_router.dart:64`), and the
  repository does not hold that library.
- The dashboard's statistics, students, coaches and classes. Their only data
  source is a mock that answers the same constants after a fixed delay and never
  fails: each cubit loads once, and its error states are not reached.
- The highlighted menu entry, which is set beside the navigation and not by it
  (`navigation_cubit.dart:19`): a property would restate two assignments.
- `expires_in` (`backend-rust/src/main.rs:150` puts the time of expiry where
  `proto/auth.proto:47` says seconds): no client in the repository reads it.
- Connection pools (25 SQL, 10 Redis): a handler holds a connection for one
  statement only and never two at once, so a full pool delays a step and
  cannot block two handlers on each other.
- Envoy, Prometheus, Docker, widgets, generated code.

## 7. What could come next

1. The composition of `Server` with `AuthService`, through `ServerContract`: today a forced stop is to the
   handlers the crash `Restart`, which may come at any of their statements.
2. The dashboard's cubits, once a data source exists that can fail.
