# A verification of pgislet

pgislet gives every user of an application a private PostgreSQL workspace, an
*islet*: a schema and a login role of its own, described by one row of the table
`pgislet_internal.islets`. Any number of processes use the library against the
same database. This directory models the library's engine, its SQL policy and the
session server of its web example in TLA+, checks the models with TLC and proves
theorems about them with TLAPS.

Paths without a directory are relative to `internal/engine/`.

## 1. Inventory

| Component | State | Operations | Hard about it | What makes it correct |
| --- | --- | --- | --- | --- |
| Lifecycle (`lifecycle.go`) | registry row, schema and role of each islet | Create, CreateWithInitialization, Reset, Recover, Reinitialize, Delete | two transactions per initialization; cleanup that can fail half way; callers in other processes | generations fence off old handles; nobody enters a half-initialized islet; a failed cleanup changes nothing but the state |
| Execution (`execute.go`, `bootstrap.go` `enter`/`finish`) | an open transaction of the runtime role | Execute, Batch | the generation is compared before the row is locked; a second connection checks dependencies | a batch runs against the generation of its handle, all or nothing |
| Registry (`registry.go`) | – | `lookup`, `lockMetadata` | `FOR UPDATE NOWAIT`, unlocked reads | no lost update |
| Commit and errors (`connection.go`, `errors.go`) | – | `commit`, `rollback`, `classify` | COMMIT without an answer; sessions whose client is gone | results tell the truth, locks come free |
| Dependency check (`dependencies.go`) | – | `checkDependencies` | check and DROP are two statements | objects outside the islet survive |
| Result budget (`result.go`, `checkSize`, `config.go`) | rows and bytes left | `query` | boundaries shared between statements | limits are exact, a breach rolls back everything |
| Policy (`internal/policy`) | names of local functions, nesting depth | `Check` | recursion over parse trees in map order; functions that change between statements | nothing passes that was not inspected; a refusal has its ground in the statement; the decision about a statement does not vary |
| Bootstrap (`bootstrap.go`) | catalog objects, advisory lock | `bootstrap` | several processes at once; rows it shares with Create and Delete | one of them installs, the others find it, nobody damages it |
| Manager (`manager.go`) | the management pool | New, Open, Close | calls that hold a lock and wait for a connection, or the other way round | no circular wait; Close returns |
| Web error report (`examples/web/errors.go`) | – | `report` | joined errors, looked at in a fixed order | a COMMIT in doubt is never hidden |
| DSN builder, identifiers, façade | – | validation, string building | – | – |
| Web sessions (`examples/web/sessions.go`) | table of sessions, count of starts under way | start, current, end, remove, Cleanup | slow calls between critical sections; a cleanup that puts things back | every islet is accounted for; the limit holds; nobody loses a workspace in use |
| Web server (`examples/web/server.go`, `main.go`, `handlers.go`) | the loop of `run()` | request handlers, ticker, shutdown | shutdown with handlers still running, which may hang | shutdown ends and leaves nothing behind |
| Playground, browser client | – | – | user interfaces | – |

The web server calls the engine's API; the engine talks to PostgreSQL over a
management pool (lifecycle, registry, dependency check) and over one connection
per batch that logs in as the islet's role and must pass `pgislet_api.enter`. The
only state that processes share is in PostgreSQL. The hazards found in the
survey are listed, each at its line, under `hazards` in `PROJECT.json`.

## 2. Modules

| Module | Role |
| --- | --- |
| `IsletEngine` | the engine: registry, transactions, calls, failures, administrators |
| `IsletWorkspace` | abstract specification: what the engine promises about committed state |
| `MCIsletEngine` | model values and symmetry for TLC |
| `IsletEngineProofs` | theorems about `IsletEngine`: types, locks, generations |
| `IsletLifecycleProofs` | theorems about initialization and failure records, and the refinement of `IsletWorkspace` |
| `IsletOutcomeProofs` | theorems about what callers are told: outcomes, handles, Deletes, `WebReport` |
| `WebReport` | what the web example's `report` makes of the engine's errors (extends `IsletEngine`) |
| `SQLPolicy` | the policy's walk over parse trees |
| `ResultBudget` | `Config`'s limits, `checkSize` and the budget of `query` |
| `Execution` | the statements of a batch: composes `SQLPolicy` and `ResultBudget` |
| `PolicyDecisions` | a refused batch is sent again (extends `Execution`) |
| `PolicyTrees` | parse trees for TLC: a text for each rule of the policy |
| `MCExecution` | batches and limits for TLC |
| `ResultBudgetProofs` | what the sums of `ResultBudget` are (lemmas) |
| `ExecutionProofs` | theorems about `Execution`, `SQLPolicy` and `ResultBudget` |
| `Bootstrap` | the bootstrap transaction in several processes |
| `ManagementPool` | what calls wait for: connections, registry rows, catalog rows |
| `SharedDatabase` | several Managers on one database: composes `Bootstrap` and `ManagementPool` |
| `MCSharedDatabase` | the Managers' role for TLC |
| `SharedDatabaseProofs` | theorems about `SharedDatabase` |
| `WebSessions` | the session table, handlers, Cleanup and shutdown of the web example |
| `MCWebSessions` | symmetry for TLC |
| `WebSessionsProofs` | theorems about `WebSessions`: types, accounts, capacity |
| `WebWorkspaceProofs` | theorems about the workspaces of live sessions |

### IsletEngine

*State.* `db[i]` is the committed row of islet `i` together with its schema: state,
generation, initialization token, and the content as a set of marks `[by, gen]`
(which call left something there, with a handle of which generation). `tx[i]` is
the transaction that holds the row lock, with its working copy `ws`, what it is
about to commit (`effect`), and its `phase`: open; orphan (its client is gone and
the server will roll it back); or committing (COMMIT was sent and its client is
gone, so it may still commit). `issued` is the highest generation committed,
`external` and `lost` describe objects of an administrator that depend on the
islet. `pc`, `req`, `res` are the program counter, arguments and result of each
call; `late` holds failure updates that the server may still execute; `did` is a
history variable that records what a call has committed.

*Actions.* One action per stretch of code between two database calls:

| Code | Actions |
| --- | --- |
| `create`, `createSchema` | `CallCreate`, `CreateRow` |
| `lockMetadata` | `LockMetadata`, `Refuse` |
| `reset`, `Delete` | `CheckDependencies`, `Cleanup`, `CleanupFails` (savepoint, `failLifecycle`) |
| `commit` | `CommitSucceeds`, `CommitRejected`, `CommitLost` |
| `Batch`, `execute` | `Lookup`, `ConnectRuntime`, `Enter`, `CheckBatch`, `Statement`, `Finish` |
| `initialize` | the actions of `execute`, then `MarkFailed` or `MarkFails`, and `Reopen` |
| `checkSize` | `CallTooLarge` |
| `rollback`, `closeRuntime`, deadlines | `StepFails`, `Abandon` |
| outside the code | `Crash`, `OrphanAborts`, `OrphanCommits`, `LateMark`, `LateMarkLapses`, `AdminDepend`, `AdminRelease` |

An error is the set of kinds that `errors.Is` finds in it, so `errors.Join` is
set union and `wrap` adds a kind; `FailWith` is what `initialize()` makes of a
failed step. A policy violation or an exceeded result budget fails like a
statement that PostgreSQL rejects; `Execution` looks inside. SQL text, names,
passwords and timestamps are left out.

### WebReport

The cases of `report` as a sequence of pairs of error kinds and what is reported;
`Report` takes the first that applies to an error of the engine, as the `switch`
does. It has no state of its own and is checked on the results of `IsletEngine`.

### SQLPolicy, ResultBudget, Execution, PolicyDecisions

A parse tree is given by its entries: a key, the field a rule looks at, function
names and options, and below it a sequence (JSON arrays) of sets (JSON maps) of
entries. `work` is the stack of what remains to be walked, each part with its
nesting depth; `Visit` takes *any* entry of the set at its top, as Go's `range` over
a map does, and `Leave` returns from a set whose entries have been visited. `Refused`, `Callable` and `Definable` are the rules of `walk`, `function`
and `definition`; `Recorded` and `Below` say that a definition makes its name known
before its body and then its value are walked. The allowlists are constants, the
parser is the constant `Parse`.

In `ResultBudget` a statement is its length, a result the lengths of its column
names and values. `Describe`, `Row` and `RowsEnd` are the three places where `query`
charges or tests the budget. A field of `Config` that is 0 has its default.

`Execution` is the loop of `execute` inside the transaction: `Inspect` reads the
local functions and calls the policy, `PolicyStep` walks, `Send`, `Fetch` and
`Complete` run the statement, whose effects are the functions it makes and drops;
every error rolls back (`RolledBack`). Its assumption that nobody else changes the
functions of the islet is `LockProtects` of `IsletEngine`.

In `PolicyDecisions` a caller whose batch was refused sends it again (`Resend`). The
refusal has rolled everything back, so `Check` gets the arguments it had before, as in
`FuzzPolicySQL`. `Resend` leads back to an initial state of `Execution`, whose theorems
therefore hold for each of the two attempts.

### Bootstrap, ManagementPool, SharedDatabase

`catalog` is the committed state of the six things bootstrap makes (two schemas with
their owner, version, table, privileges on the database, gateway functions), `draft`
what each transaction has changed of it. Each statement of `bootstrap` is an action.
Two transactions that change the same row conflict: against another bootstrap the
statement ends in `"collision"`, against a lifecycle transaction in `"conflict"`
(PostgreSQL says "tuple concurrently updated", a unique violation, or that it found
a deadlock). If the holder rolls back, the statement goes on.

`ManagementPool` follows each call from one wait to the next: `at` says whether it
waits for a connection of the pool, has one, or works on its runtime connection;
`free` counts connections, `rowLock` is the lock on the registry row, `granting` the
catalog rows whose privileges Create and Delete have changed, in the order of their
statements. CreateWithInitialization is not listed as a kind: up to its first COMMIT
it is Create, and afterwards it does what Reinitialize does, on an islet that nobody
else knows. `SharedDatabase` joins the two: New takes a connection for bootstrap and
closes the pool if that fails, and what bootstrap has changed is in the way of
Create and Delete, and conversely.

### IsletWorkspace

State, generation and content of each workspace, and six atomic steps: create,
clear (the generation moves on and nothing survives), run, initialize (batch and
activation in one step, from an empty workspace), mark as failed (nothing else
changes), delete (for good). `ImplementsWorkspace` says that the committed state
of `IsletEngine` behaves like this, whatever locks, crashes and late commits do
underneath.

### WebSessions

A request names also the token and the islet that a start draws. `sessions` is
the table (none, live, expired), `pending` the count of starts under way,
`islets` the state of each islet as the engine's API shows it, `taken` what
Cleanup has taken off the table and not yet removed, `main` where `run()` stands.
Each critical section of the mutex and each API call is an action: `StartCheck`,
`Admit`, `Create`, `Register`, `Release` for `start`; `Current`, `Open` for
`current`; `Remove`, `Forget` for `end`; `Use`, `Reseed`, `ReseedEnds` for the
other handlers; `Tick`, `SweepNext`, `SweepStep`, `SweepEnds` for Cleanup;
`Stop`, `Drain`, `ManagerCloses` for the shutdown and the deferred Close of the
Manager. `RemoveOutcomes` gives the possible outcomes of
each of the three API calls of `remove`, including a Delete that is executed and
reported as failed. When Shutdown has run into its deadline (`main = "overdue"`)
the Cleanup that follows shares the spent deadline and every removal fails.
`Failures` says which calls may fail, whether Shutdown may give up (`"drain"`) and
whether the Open of `current`, which has no deadline, may go unanswered (`"hang"`).
Close waits for the connections of the pool (`main = "closing"`). It can return
whenever no handler happens to have one, and is sure to return only when no handler
is inside a call (`Calling`); handlers that Shutdown has left go on until then.

The engine is used here through its API only: of an islet the state is kept. A
call that meets another operation (`ErrBusy`) or a newer generation
(`ErrStaleGeneration`) is one that fails without effect.

## 3. Runs

| Run | Instance | Properties |
| --- | --- | --- |
| `fencing` | Reset, Reinitialize, Batch; 3 calls, 1 islet; administrators careful | `ContentFenced`, `LockProtects`, `InitializationPrivate`, `OutcomeHonest`, `ExternalSurvives`, `CommitFenced`, `FailureAttributed` |
| `birth_death` | CreateWithInitialization, Recover, Reset, Delete; 3 calls, 1 islet; administrators careful | `DeleteFinal`, `OutcomeHonest`, `HandleFresh`, `DoubtReported`, `ActiveOnlySeeded` |
| `refinement` | all operations and classes of failure; 2 calls, 1 islet; administrators racing | `TypeOK`, `ImplementsWorkspace`, `EveryCallReturns`, `LockReleased` |
| `execution` | 44 texts in batches of up to 4, sent again if refused; 3 configurations; nesting limit 2 | `TypeOK`, `PolicySound`, `NestingBounded`, `RefusalGrounded`, `ExecutedAllowed`, `LimitsExact`, `ErrorLocated`, `DecisionOrdered` |
| `managers` | 2 Managers with pools of 1 connection, 2 calls, 1 islet; databases in 5 conditions | `TypeOK`, `BootstrapsSerialized`, `ReadyComplete`, `NoWaitingCycle`, `NothingLeaked`, `EveryCallFinishes`, `CloseCompletes` |
| `web_sessions` | 3 requests, limit 2, everything may fail or hang | `TypeOK`, `NothingForgotten`, `CleanExit`, `ReconnectPossible`, `WorkspaceKept` |
| `web_capacity` | 3 requests, limit 1, removals reliable | `WithinCapacity`, `ExpiredRemoved` |
| `web_liveness` | 2 requests, everything may fail or hang | `OnlyOpenHangs`, `ShutdownCompletes` |

The properties:

- `ContentFenced`: a schema holds only what was written with handles of the
  row's generation. `CommitFenced`: no transaction, not even an abandoned one,
  commits on another generation than its call's.
- `LockProtects`: a call that relies on the row lock really has it, and the row
  is as it was when the lock was taken.
- `InitializationPrivate`, `ActiveOnlySeeded`: an initializing islet is empty and
  open only to the call that drew its token, and becomes active within its
  generation only by that call's commit.
- `FailureAttributed`: a delayed failure update never marks a newer
  initialization or an islet in use.
- `OutcomeHonest`: nil means committed; an error without `ErrOutcomeUnknown`
  means that a call of one transaction changed nothing and never will, except that
  it may have marked the islet failed, and that an `ErrInitialization` left nothing
  of the batch.
- `DeleteFinal`: after a nil Delete the islet exists only if the COMMIT of its
  creation was reported as unknown and arrived later.
- `ExternalSurvives`: no object outside an islet is destroyed, neither by the
  cleanup of a reset nor by a statement of a batch that drops with CASCADE (for the
  other operations, Delete among them, the theorem of section 4 says so).
- `HandleFresh`: the handle of a successful call is of a committed generation, and
  at least of the one the call made itself, although `initialize()` reads the row
  again after others may have reset the islet. (A *newer* handle is what the code
  means to return, so the property allows it.)
- `DoubtReported`: while a COMMIT of a call that has returned may still be executed,
  the web example reports that the outcome is unknown, whatever other errors were
  joined to it.
- `PolicySound`: a statement that passes was inspected as a whole, bodies of
  functions included; it calls only builtins, functions that were known and
  functions it defines, in whatever order the maps were visited.
  `NestingBounded`: the functions of what passes are not nested deeper, each in the
  text of the one before, than the limit allows. `RefusalGrounded`: a refusal
  has its ground in what was inspected, an entry that is forbidden although
  everything known and every definition around it may be called, or a function that
  really is nested too deep; the walk's own bookkeeping refuses nothing.
- `DecisionStable`: a statement that was refused is refused again.
  It does not hold (`order`): a call in one entry of a map may need what another entry
  of that map defines, and then the order of the map decides. `DecisionOrdered`: this
  is the only way in which a decision can vary; a text body is walked before the rest
  of its definition, arrays in their order, and nothing of the first attempt is left
  when the batch is sent again.
- `ExecutedAllowed`: whatever earlier statements made or dropped, a statement that
  runs was inspected from its root and calls only functions the islet has at that
  moment.
- `LimitsExact`: a batch is too large, or over its result limit, exactly when the
  sums say so. `ErrorLocated`: the index in an error, the results and what was sent
  agree about where the batch stopped.
- `BootstrapsSerialized`: no bootstrap fails because of another one.
  `ReadyComplete`: who gets a Manager has a complete registry of his own role and
  version, and keeps it.
- `NoWaitingCycle`: a connection that is waited for is with another call, which at
  most waits for a row; the holder of such a row has a connection and waits for
  nothing; the advisory lock is with a bootstrap that goes on.
  `EveryCallFinishes`: so every call ends, even with one connection and without any
  deadline, conflicts over catalog rows included.
- `NothingLeaked`: connections that are free and connections of calls and bootstraps
  under way are together all of the pool, and row locks, uncommitted privileges, the
  advisory lock and uncommitted changes of the registry exist only with the call or
  bootstrap that took them: whatever way one of them ends, it leaves nothing behind.
  `CloseCompletes`: Close returns, for this reason.
- `ReconnectPossible`: a session without an islet stands in the way of a
  reconnection only after an end that was answered with an error.
- `NothingForgotten`, `CleanExit`: the web server can account for every islet
  it made, and an exit without an error leaves only islets whose start was
  answered with an error.
- `WorkspaceKept`: while the server runs an islet is destroyed only by an end
  request, an expired session or a failed start. A request that has hung in Open for
  30 minutes does not keep its session from expiring.
- `WithinCapacity`, `ExpiredRemoved`: the limit of the table, and that expired
  sessions leave it.
- `OnlyOpenHangs`: no step of a handler but the Open of `current` can last for ever.
- `ShutdownCompletes`: a server that is told to stop exits, although requests may hang
  in Open and the deferred Close waits for the connections of handlers that Shutdown
  has left running: `server.Close` has cancelled the contexts they wait with.

*Bounds.* Every call and every request happens at most once, so behaviours are
finite without any cap on generations. Three calls on one islet are what the
interesting cases need: one that fails or is abandoned, one that overtakes it,
and one that comes late with a handle of the first; the late failure update and
the late COMMIT are such cases. One islet is enough because no step of the engine reads
or changes the state of two; the theorems are for any number. Three requests are a start, an end or
use of its workspace, and a second start that competes for the slot. Symmetry
permutes calls, islets and requests in the runs without liveness. In `execution`
there is a text for each rule of the policy, bodies nested one deeper than allowed
(2 stands for the code's 16), and every sequence of up to four statements that
make, call and drop a function; lengths and limits are small enough that every limit
is met exactly, missed by one and exceeded. In `managers` a pool of one connection is
the hardest case for circular waits, and two calls are enough for one: a holder of
the row that needs the connection and a holder of the connection that needs the row.

*Fairness.* In `IsletEngine` every step of a call is weakly fair, because every
database call runs under a context deadline and fails when it passes, and so is
the end of an abandoned transaction, because the engine sets
`idle_in_transaction_session_timeout` and `statement_timeout` on every session.
Nothing is assumed about statements, crashes, administrators or late updates. In
`WebSessions` the steps of handlers and of Cleanup are weakly fair for the same
reason, with one exception. `current` passes the context of the request to Open, which
adds no deadline (`sessions.go:49`, `manager.go:54`); `statement_timeout` bounds the
query on a server that is there, but nothing bounds the wait for one that is gone. So
with `"hang"` among the failures Open is fair only once `run()` has called
`server.Close`, which cancels the contexts of its requests (`net/http`, external). The
ticker is fair because it fires every minute, the drain because it has a deadline of
45 seconds, and the end of Close only while no handler is in a call of the Manager. In `SharedDatabase` a statement that can be executed is
executed, a wait for a catalog row ends with its holder or by PostgreSQL's deadlock
detector, and a pool hands out a connection that is free. There deadlines and lock
timeouts are *not* assumed to pass: the point is that nobody needs them.

### Runs that find a disagreement

| Run | What the code does | What is said of it |
| --- | --- | --- |
| `race` | a dependency added between `checkDependencies` and `DROP SCHEMA ... CASCADE` is dropped | `README.md:551` |
| `timeout` | Reinitialize that times out in its batch has already emptied the workspace | `examples/web/errors.go:42` |
| `web_overflow` | sessions that Cleanup puts back exceed `maxSessions` | `README.md:905` |
| `order` | a statement that the policy refused passes when its batch is sent again, as maps are walked in random order | `internal/policy/policy_test.go:218`, `README.md:945` |

Each is described, with the sentence it contradicts, under `findings` in
`PROJECT.json`. Three more exceptions are part of the properties that pass:
`CleanExit`, like `NothingForgotten`, exempts the islet of a failed start whose removal failed as well
(`sessions.go:101` drops that error, while `README.md:918` says that a graceful
shutdown cleans up); `ReconnectPossible` exempts an end that was executed but
reported as failed, after which the session answers 401 to every reconnection until
it has been idle for 30 minutes (`errors.go:39`: "Reconnect to continue"); and
`OnlyOpenHangs` exempts the Open of `current`, to which nobody gives the deadline that
`README.md:316` asks callers for.

## 4. Proofs

All theorems hold for every number of islets, calls, Managers and requests, every
set of operations and failures, every batch, result and configuration. They assume
only what the `ASSUME`s of the modules say, all of which TLC evaluates on the runs:

- sentinels are not members (`Nobody` is no call and no islet, the states of an
  islet in `ManagementPool` are no calls, `NoCookie` no
  request, `NoManager` no Manager, no role is called `"none"`), and the operations,
  faults and failures are those of the code;
- limits are numbers: the session limit, the pool and the least value of each
  field of `Config` are positive, defaults and configured values are integers,
  lengths are natural;
- parse trees, batches and catalogs have their types. Only `RefusalsAreGrounded`
  and `NestingIsBounded` also need that the parse trees at hand are finite.

**`IsletEngineProofs`**: `TypeCorrect`, `ContentIsFenced`, `LockIsExclusive`,
`CommitsAreFenced`, `ExternalObjectsSurvive`.

`ContentFenced` is not inductive: a COMMIT installs the working copy of a
transaction, so one needs to know what working copies look like, and of which
transactions. The inductive invariant `FenceInv` says for every islet that its
transaction belongs to a call for that islet, carries the generation it found
(or the next one, after a cleanup) and holds only marks of that generation
(`Owned`, `Clean`), and for every call that it owns the open transaction of its
islet wherever it relies on it (`Held`) and that the identifier a create has
drawn is used by nobody else (`Fresh`). It covers abandoned transactions as well, because
these may still commit. `ExternalObjectsSurvive` needs one more invariant,
`Spared`: past the check nothing outside depends on the islet for as long as it
is locked. Its assumption that administrators do not race with operations is the
one that `race` shows to be necessary.

**`IsletLifecycleProofs`**: `InitializationIsPrivate`, `FailuresAreAttributed`,
`EngineImplementsWorkspace`.

`FenceInv` says whose a transaction is, not what it would commit. `LifeInv` adds
that a committed row has the highest generation ever committed for its islet, or
is gone for good, and is empty and has a token while it initializes (`Booked`);
what the transaction that holds an islet would make of the row, for each `effect`
(`InWork`: a lifecycle operation the next generation, a failure record the same row
with another state, a batch the row it was admitted to and its own marks); and that
a call's operation and transaction fit the place it has reached, and that a call of
`initialize()`, or its late failure update, is the author of any initialization of
its generation (`Staged`, `Author`). From this the refinement follows action by
action: only a commit, prompt or late, and a failure update change what
`IsletWorkspace` sees, and each of them is one of its steps; every other action is a
stutter.

**`IsletOutcomeProofs`**: `OutcomesAreHonest`, `HandlesAreFresh`,
`OnlySeedingActivates`, `DoubtIsReported`, `DeletesAreFinal`.

`OutcomeInv` adds what was committed so far: an effect that is still to come is not
in `did`, and a COMMIT on its way without a client was reported as unknown
(`Pending`); what a call has committed and which error it carries at each place
(`Reported`); and the generation of the handle it will return (`Handed`).
`DoubtReported` follows because the case of an unknown outcome is the first of
`report`. For `DeletesAreFinal`, `DeleteInv` adds that an identifier is drawn once
(`Sole`), that whoever asks for an islet has it from a creation that was committed
or has returned (`Asked`), and that a nil Delete leaves no islet unless that
creation was in doubt (`Removed`).

**`WebSessionsProofs`**: `TypeCorrect`, `NoIsletForgotten`, `ExitIsClean`,
`CapacityHolds`.

`SessionInv` says of every islet where it came from and who accounts for it, that
only tokens of successful starts are cookies or in the table, that end forgets a
session only when its islet is gone for good, and that `pending` is the number of
starts that hold a slot (that the count never becomes negative follows from
this). `CapacityHolds` assumes `Reliable` (removals succeed, Shutdown does not give
up), and bounds the *union* of the table and the slots, so that a start which has
registered and not yet released its slot is counted once; the rest of
`CapacityInv` shows that nobody interferes with what Cleanup has taken, so that no
removal fails and nothing is put back. `web_overflow` shows that the assumption is
needed.

**`WebWorkspaceProofs`**: `ReconnectIsPossible`, `WorkspacesAreKept`.

`WorkspaceInv` adds to `SessionInv` that a start registers an islet that is there,
that the ticker's Cleanup works on expired sessions only, which are off the table
(`SweepsExpired`), and that a live session without an islet has an end under way or
one that was answered with an error (`Excused`). The last is what
`ReconnectPossible` says of a server at rest, carried through the steps in between.

**`ExecutionProofs`**: `TypeCorrect`, `PolicyIsSound`, `RefusalsAreGrounded`,
`NestingIsBounded`, `ExecutedIsAllowed`, `LimitsAreExact`, `ErrorsAreLocated`.

In the invariant `ExecInv`, `WalkInv` says that everything below an inspected entry
is inspected or waits on `work`, that `local` is what was known and what the
inspected entries define, and that nothing inspected is forbidden; when `work` is
empty this is `PolicySound`. `Stands` ties the walk to the statement in hand: its
roots are inspected or wait, and `known` is what the catalog says. `Accounts` says
that what is left of the budget and what was produced add up to the limits.
`Located` describes outcomes. `RefusalGrounded` has an invariant of its own,
`DepthInv`: an entry that waits at some depth lies in as many functions, each in the
text of the one before, so that the depth is never counted too high. Its proof needs
that `Within` really is closed (`WithinIs`: every round adds an entry or finds nothing
more). `NestingBounded` needs the converse, that the depth is never counted too low,
and this cannot be said of an entry, which may stand in several texts and wait at
several depths. `NestInv` says it of a chain of functions nested too deep: as soon as
the first of them has been visited, some entry that waits at depth *d* holds the
*j*-th of them, with *j* at most *d* + 1 (`Ahead`). A visit hands the chain on, from a
function to its text and from any other entry to one directly below (`ChainHandedOn`;
here `Within` must also hold nothing more than what is below, `WithinLeast`). An empty
`work` has nothing ahead of it, so the walk cannot end with such a chain.

The sums are folds, that is, functions defined by recursion on sets of indices.
`ResultBudgetProofs` shows by induction that these functions exist and what they
compute (`TotalIs`, `LeftIs`), and that the step by step subtraction of `checkSize`
is exact (`LeftExact`). The induction principle is `SetInduction`, stated for a set
of natural numbers and proved from the well-foundedness of `<`: the library's own
induction theorems have an operator as parameter, which the provers cannot
instantiate.

**`SharedDatabaseProofs`**: `BootstrapsAreSerialized`, `ReadyIsComplete`,
`TypeCorrect`, `NothingIsLeaked`, `NobodyWaitsInACircle`, for any number of Managers, connected as any roles, with any
calls going on.

`ReadyComplete` is not inductive: a later bootstrap could commit something else.
`BootInv` adds that only the holder of the advisory lock is past it and that nobody
else has uncommitted changes (`Exclusive`), that a transaction never turns something
committed into something else (`Keeps`: it creates only what it sees missing, and it
sees what is committed), and what it has made sure of at each step (`Ascertained`).
So what it commits is a complete registry, and equal to what an earlier Manager had.

That a count of free connections never exceeds the pool needs to know where the
others are: `Balanced` says that free connections, those of the calls that hold one
and that of the bootstrap add up to the pool. Every step of a call is shown to be a
move from one place to another that takes or returns a connection just when one of
the two places has one (`CallMoves`). `Placed` adds that only Managers that New has
returned are called, so that a bootstrap finds a pool nobody uses.

`WaitInv` says what a call has at each place: the row's lock names a call that is in a
transaction on that row, and every such call has it (`RowsHeld`); a batch is inside an
islet only if that is ready or the batch's own (`BatchesAdmitted`); and the advisory lock is
with a bootstrap that is past taking it (`LockHeld`). Together with `Balanced` and
`Exclusive` this is `NothingLeaked`. `NoWaitingCycle` follows as well: with no
connection free, `Balanced` finds a call that holds one; and a failure update that waits
for its row waits in an islet that is still initializing, so that the holder of the row
is no batch, hence a lifecycle call that has its connection and waits for nothing.

**Checked by TLC only**: the liveness properties `EveryCallReturns`,
`LockReleased`, `EveryCallFinishes`, `CloseCompletes`, `ExpiredRemoved`,
`OnlyOpenHangs` and `ShutdownCompletes`, because the prover has no rules for
fairness and ENABLED; `DecisionOrdered`, which compares two walks; and the four
violations above. `NoWaitingCycle` and `NothingLeaked` are the part of
`EveryCallFinishes` and `CloseCompletes` that does not depend on fairness. They leave out the waits for catalog rows, which end with
their holder or by PostgreSQL's deadlock detector.

## 5. Not modelled

Quoting, the DSN builder, the façade, the playground and the browser client compute
or show texts and keep no state worth a model. The SQL parser is external: `Parse`
is a constant, so that what PostgreSQL would make of a text the parser accepts is
not compared with what the policy saw. The catalog query of the dependency check is
a single predicate; which classes of objects it leaves out (`dependencies.go:39`) is
a question about PostgreSQL's CASCADE. Effects of statements other than on functions
are left out of `Execution`, and handles are current in `ManagementPool`. An abrupt
exit of the web server loses its table, as its README says, and nothing recovers
from it. Delays are not quantified: a deadline may pass at any step, and a web
request that has refreshed its session is over before the session's 30 minutes are,
unless it hangs in Open.

Some details are in one module and left out of another. A COMMIT that is executed
after its caller has given up is in `IsletEngine`; in `WebSessions` only a create is
executed late, an unanswered Delete at once or never. A row lock that outlives a failed
batch, until the server ends the abandoned session, is in `IsletEngine` (`orphan`); in
`ManagementPool`, where no deadline passes, a batch that fails has rolled back.
`pgislet_api.finish` repeats checks of `enter`, which the row lock makes redundant, and
bootstrap revokes privileges on its tables and on schema `public`, of which no property
speaks; neither is modelled.

## 6. Plan

Done: `IsletEngine` and `IsletWorkspace`; `WebSessions`; `SQLPolicy`, `ResultBudget`
and `Execution`; `Bootstrap`, `ManagementPool` and `SharedDatabase`; `WebReport`; the
runs above; the theorems of section 4, which state every safety property of the
passing runs but `DecisionOrdered`.

Left: the dependency query over a small catalog of objects, if CASCADE can be stated
without modelling PostgreSQL.
