# postgresql-mcp in TLA+

A model of `postgresql-mcp`, an MCP server that offers a PostgreSQL database to
language-model clients through 24 tools, written beside its Go source. The
modules are checked with TLC on small instances; what matters most is proved
with TLAPS for every instance. References of the form `tools.go:806` are to
`internal/tools/tools.go` and so on.

## 1. The system

### Components

| Component | State it keeps | Operations |
|---|---|---|
| Configuration (`config.go`) | the `Config` record, read once from the environment | `Load`, `Validate`, `ConnectionString`, `PublicSummary` |
| Database client (`db.go`) | a `database/sql` pool, at most 10 connections | `Query`, `QueryReadOnly`, `ExplainReadOnly`, `Exec`, `ScanRows`, `Close` |
| Tool registry (`tools.go:18-125`) | the names registered for the level | `Register` |
| Mutation tools (`tools.go:746-1050`) | none; the rows and tables of the server | insert, update, delete, create table and index, drop |
| Query tools (`tools.go:470-498`) | none | `read_data`, `explain_query` |
| Catalogue tools (`tools.go:130-742`) | none | 15 tools that read the catalogue, among them `profile_table`; two answer from the configuration |
| SQL scanner (`sqlsafe.go`) | loop variables | `inspectStatement`, `IsReadOnlyQuery`, `AppendLimit`, `LikePattern`, identifier quoting |
| Named parameters (`params.go`) | loop variables, numbers given out | `BindNamedParameters` |
| HTTP life cycle (`cmd/postgresql-mcp/main.go`) | listener, channel, shutdown context | `run`, `runServer`, `serveHTTP` |
| Bearer authentication (`main.go:115-129`) | hash of the token | one comparison per request |
| Demo starter (`demos/.../main.go`) | a container, the file `.env` | `run`: `waitForDatabase`, `execBatches`, `verifySeeded`, `writeDemoEnv` |
| Demo client (`demos/.../client/main.go`) | its environment, one session of an agent | `loadEnv`, `ensureEnv`, `connectMCP`, `runAgent` |

### How they interact

The SDK runs each tool call in a goroutine of its own, with a context that ends
when the client cancels. A handler checks the access level, its arguments and
the confirmation, puts a timeout on the context, and calls the client. Calls
share nothing in the process but the pool. They meet on the pool's slots, and on
the server through row and object locks. `read_data`, `explain_query`,
`update_data` and `delete_data` pass caller text through the scanner; the last
two then through `BindNamedParameters`. Rows come back through `ScanRows`, which
keys them by `uniqueColumnNames`. Around all of it, `serveHTTP` accepts
connections until a signal or a failure, and `run` closes the pool.

Each HTTP request is one tool call, since the handler is stateless. Its context
ends when the client hangs up (`PropagateRequestCancellation`), but not when the
server shuts down: a call that outlasts the shutdown loses the pool under its
feet, and then the process, while PostgreSQL may still be at work for it.

The demo's starter and client meet only in `.env`: the starter writes there which
database it has seeded, the user edits it, the client reads it and passes it to a
server of its own, which loads it as its configuration.

### What is hard

- A call can end in the middle of a round trip, by a deadline, a cancellation
  or a lost connection, while the server goes on with the statement or the COMMIT.
- Error paths have to give back the connection exactly once and leave no
  transaction on it.
- The count of rows and `executed: true` are computed before or without knowing
  the outcome of COMMIT.
- Permission is spread over three places: registration, the gate in each
  handler, and the confirmation, each handler combining them in its own way.
- Two hand-written scanners have to read quotes, nested comments and dollar
  quotes as PostgreSQL does, and as each other do.
- Shutdown races with requests in flight, with a failing listener and with its
  own five seconds.
- The process may end in the middle of a transaction; what the client was told,
  what PostgreSQL does and what the exit code says have to agree all the same.
- Catalogue tools that send several queries see a different snapshot in each.
- `.env` is rewritten by a starter that may be killed, run again, and race with
  the user's editor; the readiness loop compares three lengths of time; seconds
  are multiplied into a 64-bit integer of nanoseconds.

PROJECT.json lists these as hazards, each at its line.

## 2. The modules

### ToolCalls: concurrent calls, the pool and the server

The core. Each call is a small program with a position `pc`:

    idle -> (rejected) | pool -> [begin ->] stmt ... [commit | rollback] -> done

| In the model | In the code |
|---|---|
| `level`, `requireConfirmation` | `Config.AccessLevel`, `Config.RequireConfirmation` |
| `request` | the tool and its arguments: the objects it touches, `confirm`, which argument validation rejects, whether its SELECT or WHERE calls a function that writes |
| `inUse`, `PoolSize` | the connections of the pool, `SetMaxOpenConns(10)` |
| `link` | the call's connection: held, closed by the client but not yet noticed by the server, or none |
| `ask`, `answer` | the message in flight and the answer to it |
| `expired` | the context of the call is done |
| `total`, `reply` | `insertData`'s running count and what the caller hears |
| `sess`, `staged`, `applied`, `holder`, `present` | external: the session, its uncommitted and committed effects, locks, and which objects exist |
| `sideEffect` | external: calls whose SELECT or WHERE wrote |

One action per step of a handler: `Receive` (gates, validation, preview
decision), `Acquire` and `PoolTimeout` (waiting in `DB.conn`), `Begun`, `NextRow`,
`SendCommit`, `Committed` (`insertData` and `queryInReadOnlyTransaction`),
`NextQuery`, `QueryDone` (handlers of one or several `Client.Query`), `ExecDone`
(`Client.Exec`), `DeferredRollback`, `RolledBack` (the deferred `tx.Rollback`),
`ServerError`, `GiveUp`, `LoseConnection`. `Expire` is the deadline or a
cancellation. The `Srv...` actions are the external PostgreSQL backend of a call;
`SrvError` lets any statement or COMMIT fail, which stands for constraints,
deadlocks broken by the server and serialization failures.

What is abstracted: identifiers and values; a row or object is only present or
absent; a reading handler's results; the syntax behind "this argument is
rejected". `profile_table` is in CatalogReads instead, since the number of its
queries depends on what it reads.

Two details deserve a word. After `GiveUp` the connection is closed but the
server keeps working: `link` is "down", `ask` stays, and the server's actions
remain enabled until `SrvClose`. And a context that ends during a rollback loses
the connection, too, which ends the transaction on the server.

### AtomicWrites: what the mutating tools promise

Two actions: `Change(c)`, the whole change of a call at once, and `Tell(c, v)`, the
verdict. A verdict of "executed" comes after the change (or where nothing
matched an update or delete), "failed" and "read" exclude it for good, "inDoubt"
leaves it open. `ToolCalls!KeepsThePromise` is this specification under a
refinement mapping: `changed` is the set of calls with something applied, `wants`
what the request would do, and only a lost COMMIT, or a lost autocommitted
statement, is in doubt.

### CatalogReads: answers made of several queries

`describe_table`, `inspect_relationships`, `show_create_table` and `profile_table`
send several queries, each a transaction of its own, and nothing ties them to one
snapshot. `table` is the table as the catalogue has it, changed by other sessions
(external) at any moment; `Script` lists what each handler asks for, `got` what it
was told. `profile_table` continues with the loop over the columns it found:
`NextColumn`, `StatsAnswered`, `MinMaxAnswered`, then `Profiled` and perhaps
`SamplesAnswered`. `QueryFails` ends the call wherever the handler returns the error;
only the MIN and MAX query goes on, unless the context is done.

One call, since what calls do to each other through the pool is in ToolCalls. A
query and its answer are one step. A column is a name; what matters of it is
whether its type has MIN and MAX and whether `QuoteIdentifier` refuses it. The
field `why` of a summary is the reason behind `minMaxAvailable`, which the caller
does not see.

### ServeHTTP: the process

The main goroutine (`run`, `runServer`, `serveHTTP`), the goroutine of `Serve` with
its one-place channel, and a goroutine per connection. `http.Server` is external
and modelled as documented: `Shutdown` waits for idle connections, `Close` does
not wait. A fresh connection that never sent a request counts as idle after five
seconds, the same span `shutdownCtx` allows, so `Drained` admits it when overdue.
The deferred `client.Close` (`CloseDatabase`) and the end of the process (`Exit`) are
two steps: handlers that `Close` has orphaned still run between them.

### HttpService: calls over the life of the process

The composition of ServeHTTP (`Life`, an instance over the same calls) and
ToolCalls (extended). A connection carries one call. Every action is one of the
parts, or of both at once:

| Action | ServeHTTP | ToolCalls |
|---|---|---|
| `Proceed`, `Outside` | start, signal, select, shutdown, close; connections | |
| `CutOff` | `ShutdownTimeout`, which breaks the connections of running handlers | |
| `Die` | `Exit` | every connection to PostgreSQL is down; the server learns later |
| `Arrive` | `Request` | `Receive` |
| `Work`, `Trouble` | only while the process runs | a handler's step, `Expire`, `LoseConnection` |
| `PoolClosed` | the pool is closed | `Acquire` is refused instead |
| `Leave` | | the client hangs up: the call's context ends |
| `Respond` | `Respond` | only when the handler has returned |
| `Backend` | | PostgreSQL's steps, also after the process is gone |

`told` is what the client of a call knows: an answer, that it left, or that its
connection broke.

### Readiness, Config and Demo

`Readiness` is `waitForDatabase`: a ping with a timeout, a deadline that is looked at
only when a ping has failed, a pause. Time advances by `Tick`.

`Config` has `Load` and `Validate` as operators. A value of the environment is unset,
the text of an integer, or a word; products wrap around in a word whose greatest
integer is `MaxInt`, and `durationSecondsEnv` refuses seconds beyond
`MaxInt \div Second` on either side.

`Demo` puts them together with the starter (`Run` to `Terminate`, `Fails` at every step,
`Kill` anywhere, `Reap` for the process of Testcontainers that removes what was left),
the user (`Edit`) and the client (`LoadEnv` to `AgentEnds`). The file is a sequence of
lines with a key, the author of the value, and a form: `KEY=value`, which both sides
read; `export KEY=value` and `KEY: value`, which godotenv reads and `envLineKey` does
not know; or a line that is none of these, on which godotenv fails (`Readable`) and
after which the client goes on without the file, as `loadEnv` drops the error. Keys
that are always written together are one key. `Truncate` and `WriteEnv` are the two
effects of `os.WriteFile`.

### ColumnNames: uniqueColumnNames

The loop and its inner search, one turn per action, over names that are a base
and a list of numbers, so that generated names and given names collide exactly
when the strings do.

### SqlText and SqlScan: the scanner and the named parameters

`SqlText` holds the helpers over sequences of character classes: `skipQuoted` and
`skipBlockComment` are loops, hence recursive functions of the place (and the
depth), while the searches for a line end, the end of a word and the end of a
dollar quote are the first place of a kind (`First`). Beside them is PostgreSQL's
own reading as an automaton that takes one
character at a time, written from PostgreSQL's lexical rules and not from the
helpers. `SqlScan` has one action per branch of the loops of `inspectStatement` and
`BindNamedParameters`, plus `mutationTarget`'s wrapping and `AppendLimit`.

A character class stands for all characters that the scanners and PostgreSQL both
treat alike; "S" is a whole SELECT or WITH, "U" a whole word of `mutatingKeywords`,
"hi" a character beyond ASCII, which is a letter for PostgreSQL and not for
`isIdentifierStart`. `Characters` is the set of the classes. Trimming white space at
the ends of a text is left out. A clause comes with the number of SET columns in front
of it and with the answer to whether the change executes or is previewed; from them
follow `updateData`'s `Offset` and the arguments it sends (`allArgs`).

The two readings differ in three ways: a backslash in an ordinary string, a dollar
sign inside an identifier, and a character beyond ASCII in the tag of a dollar quote.
PostgreSQL's automaton notes them (`unusual`), and `MatchesPostgres`, `OneStatement`,
`LimitIsEffective` and `QuotedTextIsKept` are about the texts without them (`Usual`).
That they do not hold of all the others is what the run scan_statements shows.
Characters beyond ASCII are usual everywhere else, in words in particular.

## 3. Runs

| Run | Instance | What it shows |
|---|---|---|
| gates | 1 call, every tool, fault, level, confirmation | `OnlyPermittedChanges`, `QueriesWriteNothing` |
| mixed | 2 calls on 2 rows or a table, 2 slots | `InsertAllOrNothing`, `ExecutedTellsTheTruth`, `FailedRowLeavesNothing`, `ReturnedConnectionIsClean`, and the refinement `KeepsThePromise` |
| live | 2 calls, 1 slot, a silent server | `TypeOK`, `PoolAccounting`, `EveryCallReturns`, `LocksAreReleased` |
| http | 3 connections | `CleanExitIsDrained`, `DatabaseOutlivesHandlers`, `ServerClosedIsNeverSelected`, `SignalEndsProcess` |
| service | 1 call, an insert of two rows, a delete, a dropped table or two queries, over the life of the process | `CleanExitLosesNoCall`, `ToldTheTruth`, `ExitReleasesServer`, `EveryClientHears`, and `LivesAsServeHTTP`, the refinement of ServeHTTP with its fairness |
| columns | lists of up to 5 of id, id_2, id_3, id_2_2 | `NamesAreDistinct`, `RenamedOnlyWhenRepeated`, `NumbersLeaveNoGap`, `EveryColumnIsNamed` |
| scan | texts of up to 3 pieces out of 16 | `MatchesPostgres`, `OneStatement`, `LimitIsEffective`, `ScannersAgree`, `NumbersFitArguments`, `QuotedTextIsKept` |
| catalog | one call on a table of up to 2 columns, 2 changes by others | `QuietAnswerIsExact`, `ProfileIsWhole`, `DeadlineIsAnError` |
| demo | 2 runs of the starter, 1 edit, 1 client; words of 4 bits | `WaitIsBounded`, `ReadyInTimeIsFound`, `OnlySeededIsNamed`, `SettingsTakeEffect`, `NoKeyTwice`, `TimeoutsAreExact`, `UserLinesAreKept` |
| catalog_minmax | as catalog | violation, see findings |
| preview | as gates | violation, see findings |
| scan_statements | texts of up to 4 pieces that the two sides read differently | violation, see findings |

In a property's own words, what the less obvious ones say:

- `CleanExitLosesNoCall`: exit code 0 means that every call that arrived was
  answered or abandoned by its own client, and no connection was in use when the
  pool was closed.
- `ToldTheTruth`: an answer that reached a client is true for ever after, also when
  the process has died and PostgreSQL goes on alone.
- `ExitReleasesServer`: once the process is gone, PostgreSQL ends its transactions.
- `OnlySeededIsNamed`: the file, and a client that has read it, never name a
  database that is not completely seeded, whatever was killed and run again.
- `ExecutedTellsTheTruth`: an answer of `executed` stands for a committed change, and
  its count is the number of rows changed. PostgreSQL's command tags for tables and
  indexes have no count, so their answers say 0 although something has changed.
- `DatabaseOutlivesHandlers`: once the pool is closed, the only handlers that still run
  are those that `Close` has orphaned, in a process that is about to fail.
- `SettingsTakeEffect`: what the client reads while the starter waits. A file that
  godotenv cannot read gives it nothing, before the rewrite as after it. In any other
  the target and the level are the starter's, except for a key whose last line has a
  form that the starter does not know and follows one that it does; a plain line of
  the user's for another key counts, and else the starter's default.
- `NoKeyTwice`, `UserLinesAreKept`: running the starter again doubles no key that was
  there once, and what the user wrote stays.
- `NumbersFitArguments`: a placeholder has the number of its argument in the list that
  is sent, with the SET columns in front of the clause when an update executes and
  without them in its preview.

The type invariants of ColumnNames, CatalogReads and ServeHTTP are not in a run,
since they are proved. That an answer never changes is part of the refinement of
AtomicWrites.

### Bounds, and why they are enough

- Calls: every property of ToolCalls relates a call to itself or to one other
  (through a lock or a slot). Two calls give every pairwise race, and one of two
  waits while a single slot is taken. The proofs are for any number.
- Rows: an insert of two rows has a first, a last and a failure between them, and
  two inserts in opposite order deadlock.
- `Requests` in the concurrent runs is one representative of each shape, tables
  included in mixed and service; the gates run has them all. The level is fixed to DDL-RW there, since the gates are over
  before a call meets another.
- Column lists: a collision needs a repeated name, a given name that looks
  generated, and a second level (`id_2_2`), three columns in all; five leave
  room for searches of several turns.
- Catalogue: a column of each kind (ordinary, without MIN and MAX, not quotable),
  two of them in a table, so that a change can hit the column being profiled or
  the other one. `MaxChanges` 2 lets a column, or the table, go and come back.
- Texts: three pieces open, hide and close. The shortest text on which a scanner
  without nesting differs has three (`/* /* */`). `MaxColumns` 1 tells an offset
  from none, and an update from its preview. `scan_statements` has pieces of its
  own (`Differing`).
- Service: what is new there is the race of one call with the process, so one call
  is enough for a violation; two make 350,000 states, which liveness cannot
  afford in five minutes. `NoCallIsLost` is proved for any number.
- Demo: two runs of the starter, since the second finds what the first has left;
  one edit at any moment between their steps. `Deadline` 3, `PingTimeout` 2 and
  `Pause` 1 let a ping straddle the deadline. A second of 3 in a word that ends
  at 7 makes 2 seconds the longest duration, and 3, 6, 7, -2, -5 and -8 wrap
  around to every kind of wrong value. The first files are none, a copy of the
  example, one with an exported line, one with a plain line, an exported one behind
  it and a line in YAML style, and one that godotenv cannot read.

`CHECK_DEADLOCK` is on in every run; the final states stutter through an action of
their own (`AllAnswered`, `Exited`, `Done`, `Ended`).

### Fairness

ToolCalls: weak fairness of each handler (goroutines are scheduled), of `Expire`
(`context.WithTimeout` fires) and of `SrvClose` (the server finds a closed
connection). Nothing is assumed of the server's answers, nor that a connection
works. ServeHTTP: the main goroutine, the timer, the goroutine of `Serve`, and
`Accept` failing once the listener is closed; nothing of clients and handlers.
HttpService: the same for its parts (`Proceed`, `CutOff` and `Die` are the main
goroutine), and a handler that has returned is answered (`Respond`). Nothing is
assumed of signals or of PostgreSQL but that it notices a closed connection.
ColumnNames: the loop runs.

SqlScan, CatalogReads and Demo have no liveness property. Calls return by
ToolCalls; the starter waits for a container and a user without any promise, and
of its loop `WaitIsBounded` says how long it can take.

### Findings

1. `update_data` and `delete_data` without confirmation run their WHERE clause in
   `Client.Query`, which is an ordinary autocommitted statement
   (`tools.go:853`, `tools.go:894`). The comment of `IsReadOnlyQuery`
   (`sqlsafe.go:46`) calls the read-only transaction "the authoritative guard at
   execution time" of what it accepts; the previews have none, so a WHERE clause
   that calls `nextval` writes without being confirmed. Run preview.
2. `skipQuoted` reads a backslash in an ordinary string as an escape
   (`sqlsafe.go:162`). PostgreSQL, with `standard_conforming_strings` on as it has
   been by default since 9.1, does not. With a string that ends in a backslash and a
   quote in a later comment, a query is accepted as one SELECT although a second
   statement lies in between, while the comment of `IsReadOnlyQuery` says that it
   "rejects multiple statements without mistaking strings or comments for SQL"
   (`sqlsafe.go:47`). `read_data` and `explain_query` run what it accepts in a
   read-only transaction, so `QueriesWriteNothing` does not depend on it. Run
   scan_statements.
3. `profile_table` reports `minMaxAvailable: false` for any failure of the MIN and
   MAX query but an expired context (`tools.go:365`). The README promises
   "min/max when supported" (`README.md:105`); a connection lost in that query, or
   a column dropped before it, looks to the caller like a type without an order.
   Run catalog_minmax. The deadline itself is told apart (`DeadlineIsAnError`).

Of the same kind as 2, and without a run of their own:

- A string that ends in a backslash is also refused as unterminated, when no quote
  follows it.
- `isIdentifierStart` (`sqlsafe.go:219`) knows ASCII letters alone, and a dollar quote
  with another letter in its tag, `$é$`, is not seen as one. A quote inside it can hide
  a second statement from `inspectStatement`, and a name inside it is replaced by
  `BindNamedParameters`, which is to leave quoted text untouched (`params.go:12`).
- `inspectStatement` looks for a dollar quote inside an identifier (`sqlsafe.go:135`),
  where PostgreSQL has none; a second statement between two such identifiers is not
  seen.

TLC stops at the shortest text, which is the one of 2. `Differing` without the backslash
has a text of each of the other two kinds: "$hi$" around a comment's "--'", and "a$b$"
with a second "$b$".

Of `.env` there is one more. `envLineKey` (`demos/supply-chain-detective/main.go:248`)
knows one of the three forms of a line that godotenv reads, so a line in another form
behind a plain one of the same key keeps an old target or level in effect, although the
starter "writes the `POSTGRESQL_*` values automatically"
(`demos/supply-chain-detective/README.md:32`). `SettingsTakeEffect` names that case
(`Overridden`), and the demo run has a file that is in it (`PlainFirst`).

## 4. Proofs

Every theorem holds for all values of the constants that satisfy the assumptions
of its component, and is about the specification that the run checks.

| Theorem | Statement |
|---|---|
| `ToolCallsProofs!TypeCorrect` | `Spec => []TypeOK` |
| `ToolCallsProofs!PoolIsAccountedFor` | `Spec => []PoolAccounting` |
| `ToolCallsProofs!InsertIsAtomic` | `Spec => []InsertAllOrNothing` |
| `ToolCallsProofs!FailedInsertIsClean` | `Spec => []FailedRowLeavesNothing` |
| `ToolCallsProofs!ChangesArePermitted` | `Spec => []OnlyPermittedChanges` |
| `ToolCallsProofs!QueriesAreReadOnly` | `Spec => []QueriesWriteNothing` |
| `ToolCallsProofs!ExecutedIsTrue` | `Spec => []ExecutedTellsTheTruth` |
| `ToolCallsProofs!ReturnedIsClean` | `Spec => []ReturnedConnectionIsClean` |
| `PromiseProofs!PromiseIsKept` | `Spec => KeepsThePromise`: ToolCalls implements AtomicWrites |
| `ServeHTTPProofs!ServeTypes` | `Spec => []TypeOK` |
| `ServeHTTPProofs!CleanExit` | `Spec => []CleanExitIsDrained` |
| `ServeHTTPProofs!PoolOutlivesHandlers` | `Spec => []DatabaseOutlivesHandlers` |
| `ServeHTTPProofs!SelectSeesNoClosedServer` | `Spec => ServerClosedIsNeverSelected` |
| `HttpServiceProofs!LivesSafely` | HttpService implements ServeHTTP without its fairness |
| `HttpServiceProofs!NoCallIsLost` | `ServiceSpec => []CleanExitLosesNoCall` |
| `HttpServiceProofs!PromiseOutlivesProcess` | `ServiceSpec => KeepsThePromise`: HttpService implements AtomicWrites |
| `HttpServiceProofs!AnswersAreTrue` | `ServiceSpec => []ToldTheTruth` |
| `CatalogReadsProofs!CatalogTypes` | `Spec => []TypeOK` |
| `CatalogReadsProofs!ProfilesAreWhole` | `Spec => []ProfileIsWhole` |
| `CatalogReadsProofs!DeadlinesAreErrors` | `Spec => []DeadlineIsAnError` |
| `CatalogReadsProofs!QuietAnswers` | `Spec => []QuietAnswerIsExact` |
| `ColumnNamesProofs!ColumnTypes` | `Spec => []TypeOK` |
| `ColumnNamesProofs!DistinctNames` | `Spec => []NamesAreDistinct` |
| `ColumnNamesProofs!RenamedOnlyIfRepeated` | `Spec => []RenamedOnlyWhenRepeated` |
| `ColumnNamesProofs!NoGap` | `Spec => []NumbersLeaveNoGap` |
| `DemoProofs!WaitEnds` | `DemoSpec => []WaitIsBounded` |
| `DemoProofs!ReadyIsFound` | `DemoSpec => []ReadyInTimeIsFound` |
| `DemoProofs!DurationsAreExact` | a duration that is accepted is exact |
| `DemoProofs!OnlySeeded` | `DemoSpec => []OnlySeededIsNamed` |
| `DemoProofs!NoKeyIsTwice` | `DemoSpec => []NoKeyTwice` |
| `DemoProofs!SettingsCount` | `DemoSpec => []SettingsTakeEffect` |
| `DemoProofs!ServerTimeouts` | `DemoSpec => []TimeoutsAreExact` |
| `DemoProofs!LinesAreKept` | `DemoSpec => UserLinesAreKept` |
| `SqlScanProofs!NumbersFit` | `Spec => []NumbersFitArguments` |
| `SqlScanProofs!OneReading` | `Spec => []ScannersAgree` |
| `SqlScanProofs!ReadsAsPostgres` | `Spec => []MatchesPostgres` |
| `SqlScanProofs!AcceptsOne` | `Spec => []OneStatement` |
| `SqlScanProofs!LimitIsRead` | `Spec => []LimitIsEffective` |
| `SqlScanProofs!QuotesAreKept` | `Spec => []QuotedTextIsKept` |

The assumptions: ToolCalls and what is built on it need a pool of at least one
connection (`PoolAssumption`), finitely many calls (`CallsAssumption`), and requests as
the tools take them (`RequestAssumption`: an insert has a row or more, every other
mutation exactly one object, and only texts can hide a function that writes; the
one object is needed by the refinement alone). ServeHTTP needs none. Tables have
distinct column names (`TablesAssumption`), lists of columns are sequences
(`InputsAssumption`), the three lengths of time are natural numbers and two of them
positive (`TimesAssumption`), and a second fits in a word (`WordAssumption`). Texts
are sequences of the characters of SqlText, of any length (`TextsAssumption`), and
the bound on SET columns is a natural number (`ColumnsAssumption`). Of the demo: there is a container,
and none is named like an author of a line (`ContainersAssumption`); the seed script
has finitely many batches (`BatchesAssumption`); before the first run `.env` names
no container of these runs, whatever else its lines are (`FilesAssumption`), what an
edit adds is a line of the user's that sets a key (`UserAssumption`), and an environment is one of texts
(`EnvironmentsAssumption`, `FallbackAssumption` for the client's defaults).

**Types and the pool.** That `inUse` stays within the pool is not inductive: it
needs that `inUse` is the number of calls whose link is up, and that these are the
calls in a round trip. That again needs the step counters to stay in range, for
`Key(c)` to be an object at all. The invariant `Base` has the types, `InRange`
and the accounting. Its pool part is proved through `StepsOfLinks`: with respect
to links and the counter, every action takes a connection, gives one up, or
leaves things as they are.

**Atomic inserts.** `InsertAllOrNothing` needs to know, when the server handles
COMMIT, that every row was staged. The strengthening relates the two ends of a
connection: a handler at row `n` with its answer outstanding has rows `1 .. n-1`
staged, with the answer received `1 .. n`; COMMIT is only in flight after the
last row; a session that failed or was closed has nothing staged and never
commits. The server's steps and the handler's steps keep it separately
(`ServerKeepsInsert`, `HandlerKeepsInsert`), and a step of another call does not
touch it (`OtherCallsKeepLocal`). `FailedRowLeavesNothing` is a conjunct: after
an error before COMMIT no COMMIT is in flight, and none can be sent.

**Sessions.** The other four properties of ToolCalls need to know what may be on its
way to the server. `SessionInv` says so per call: a call that is past its gates, or
has anything applied, was admitted (`Gated`); a round trip has its own message in
flight or an answer to it, and a call without a connection has neither a message
nor a session (`OnTheWay`); only an open transaction has rows and locks, and which
answers have ended it is known (`Session`); a statement of `read_data` or
`explain_query` is only ever in flight in a READ ONLY transaction (`ReadsOnly`); and
the reply of an autocommitted statement counts what it has applied (`Counted`).

**The promise.** The refinement needs three more facts (`PromiseInv`). `Pending`: as
long as a message is in flight, the caller has been told nothing, or an error at
the very message. Without it, a COMMIT handled after a verdict of "failed" would
be a change that the verdict excludes. `Missed`: an answer without rows is
given to updates and deletes only. `Guarded`: the rows staged by a transaction are
locked by it and absent, so its COMMIT changes all of them at once. Then every
step of a handler that finishes a call is `Tell` (`Tells`), a COMMIT or an
autocommitted statement is `Change` (`WholeChange`), and the rest stutters.

**Shutdown.** `ServeInv` follows main through its stages: only the second branch
of select closes the server, so `Serve` can say `ErrServerClosed` only when main is
past select; the pool is open from Open to Close; exit code 0 is returned only
when every connection is drained and none can be opened, which stays so.

**The service.** `StepsOfLife` shows that each step of the whole is one of ServeHTTP or
leaves its variables alone; so ServeInv holds in the composition. What remains,
`CallInv`, ties a call to its connection: a call in progress has a busy connection,
a call that is over has told its client before its connection is anything else,
and connections break only in a failure. With no busy connection at a clean exit,
no call is in progress, hence none is unanswered and none has a link.

**Catalogue reads.** `ReadsInv` keeps the types, the place in the script and the
summaries behind the loop. `QuietInv` says that as long as nothing has changed,
everything read so far is still what the table has; the loop over the columns
keeps the columns of `got`, which is what makes summaries line up with them.

**The wait.** No ping begins later than one pause after the deadline, as it is the
pause after a ping that failed in time; so the loop is over one ping later. And a
ping that begins when the database is up does not fail.

**Column names.** `used` is the set of names given out, and everything in it is
either given by the query or generated; `Take` only takes what is neither used
nor original. A generated number was reached by counting up from 2,
and each number passed over was taken at the time and stays taken (`TriedAreTaken`).

**What the end of the process leaves.** In HttpService the pool is closed and the
process dies with statements and COMMITs on their way. `StepsOfCalls` shows that a
step of the whole is one of ToolCalls while the process runs, a step of the server
after its end, or `Die`, or leaves the calls alone. After the end nothing of a
handler moves any more, so less is needed (`ServiceKnown`): while the process runs,
`SessionInv`, `InsertInv` and `PromiseInv` as in ToolCalls; from then on `Outlived`, which
has what the server still needs of each call, and `Unplugged`. With them every step of
the service is one of AtomicWrites again (`PromiseOutlivesProcess`; the service run
leaves it out, and the mixed run checks it of ToolCalls). `ToldTheTruth` follows from that
refinement: `Answers` says that an answer a client was told is that of a call that is
over, and `PromiseKeepsHonest` that AtomicWrites never goes back on a verdict.

**The demo.** `DemoInv` has three parts. `NamesAreSeeded`: a starter that is past
`seed` has a container with all its batches, and so has every container that is
named in the file, in `draft` or in the client's environment; batches are never taken
back, whoever is killed or reaped. `LinesCount` says
that the file and `draft` have no plain key twice, if the first file had none, and that a
file that was just rewritten is `InEffect`: each line it had is there with its key and its
form, a plain one for the target or the level with the new value, and what was added is
for keys that had no plain line. `RewriteIsRight` and `RewriteTakesEffect` say that the
rewriting does so, `EffectIsRead` what a reader then gets, and `EditLeavesEffect` that an edit of the user, who adds a line only
for a key that has none, takes nothing of it away. `TimeoutsAreExact` rests on `DurationsAreExact`.

**Placeholders.** `Numbered` says that `positions` and `args` are each other's inverse
shifted by the offset, that the offset is the number of values in front of `args` in
the list that is sent, and that every slot has the number of its name. It does not
look into the text at all, which is why it holds for all of them.

**Two loops, one reading.** `ScannersAgree` relates places of two loops that run one
after the other on two different texts, the SELECT around the clause and the clause.
The invariant `TrailInv` carries a third thing between them: a trail, the set of the
places at which inspectStatement began a turn (`IsTrail`). The turn from each of them
ends at another (`TurnEnd`), and one of them has been stepped over only where a quote or a
comment starts (`Covers`). `Follows` says where the second loop is: at a place of
the trail, or inside a word that the first loop read in one turn. So it never starts
inside what the first stepped over, and finds every quote closed (`ClauseTurn`). Three
things make that a proof: a helper gives the same answer for the clause and for the
wrapped clause, up to the shift (`QuotedMoves`, `CommentMoves`, `DelimiterMoves`,
`ClosingMoves`); whatever it returns ends inside the clause, as the two characters
behind it open and close nothing; and the loops in skipQuoted and skipBlockComment
are functions that solve their own equations (`Iteration`), which makes induction over
the places, as sets of natural numbers (`Upwards`, `Downwards`), enough.

**PostgreSQL's reading.** `LexRuns` gives the state of the lexer behind every
character, as a function of the place; the four theorems speak of usual texts. At the
start of each turn of inspectStatement that state is `Ready`: inside nothing that goes
on over the place. A word, a dollar sign that starts no quote, or the first half of a
pair may be behind it, and `Ready` says of the next character that it does not continue
it. One lemma for each kind of turn (`WordReads`, `LineReads`, `QuoteReads`,
`BlockReads`, `DollarReads`, `OtherReads`, joined in `TurnReads`) shows `ReadsTurn`:
the turn ends where the lexer is Ready again, the places of the turn are hidden if and
only if it was one over a quote or a comment, and a turn without an end leaves the
lexer in a quote or a comment to the end of the text. So `LexInv`, that the two
readings have hidden the same so far (`Together`), goes from turn to turn.
`OneStatement` needs besides that the only semicolon outside is the terminator, with
white space and comments behind it (`Sealed`). For `LimitIsEffective` the reading of
the query is kept up to the terminator (`CutInv`), and PostgreSQL reads the wrapper
three places further in states that are the same but for that (`Mirrors`, `CopyRun`,
`LimitReads`); as the query ends where the lexer is Ready, the line end behind it
closes a line comment, and nothing else is open.

**Quoted text under numbering.** `QuotedTextIsKept` compares the readings of two texts
that move further apart with every placeholder. `KeptInv` keeps a map between them: `at`
says where each character of the clause went, and from the last placeholder on (`r`) it
is a shift (`Shifts`), so a copied quote, comment or word is the same text somewhere
else. `Kept` says of the two lexers that the rewritten text has hidden exactly the image
of what the clause has hidden, the same characters in the same order (`Keeps`), and that
the lexers are in the same state (`Mirrors`), but for one difference: behind a placeholder
PostgreSQL is in what could still become the tag of a dollar quote in the clause, and in
plain text behind the "1" of the rewritten one. That difference is harmless because the
name was read to its end: a dollar sign behind it would have made a dollar quote of the
placeholder (`NamedRests`). `Near` says that nothing half read, such as the first half of a
comment's opening, reaches back in front of `r`. BindNamedParameters has no turn for
words and may start one inside a word, so its turns begin at a `Rest`, which is weaker than
Ready. Each kind of turn keeps `Kept` (`KeptOver` for what is copied, `KeptNamed` for a
placeholder, joined in `TurnKeeps`), and a map that keeps the order of a finite set keeps
the text at its places (`TextMoves`).

Only model-checked, because the prover cannot: every liveness property, and the
fairness part of `LivesAsServeHTTP`.

## 5. Not modelled

- Value conversion in `ScanRows` (`normalize`, `fmtUUID`) and the row cap: formatting
  and one comparison.
- Identifier quoting and `validSQLType`: regular expressions; ToolCalls has their
  verdict as a field of the request. `LikePattern`: three replacements.
- The filters of the catalogue tools of one query. They are texts for PostgreSQL.
  One remark, since no module shows it: `list_schemas` and `table_size` leave out
  schemas by `NOT LIKE 'pg_%'` (`tools.go:545`, `tools.go:736`), where `_` matches any
  character, so that a schema named pgboss is left out as well.
- The stdio transport and the SDK: `server.Run` is one call of a library.
- Bearer authentication and cross-origin protection: one stateless comparison, and
  library code.
- `ConnectionString`, `PublicSummary`, the client's endpoint and its durations:
  formatting.
- Two things that Demo shows and no property forbids, as the code promises
  nothing about them: a starter killed inside `os.WriteFile` leaves `.env` empty, and
  an edit between its reading and its writing is lost. And two that
  `SettingsTakeEffect` states as they are: a user's line with "export" or in YAML style
  for a key with a default is overridden by the default that is appended behind it,
  and a line that godotenv cannot read leaves the client without the whole file.
- Values of `.env` that go on over several lines, which godotenv allows in quotes.
- Strings of PostgreSQL with a prefix (`E'...'`, in which a backslash is an escape for
  both sides, and `U&'...'`).

## 6. Plan

What is left, in this order:

1. `LikePattern` against a reference matcher of `LIKE ... ESCAPE`, and the filters of
   the `list_` tools that are built with it.
2. `show_create_table`'s column definitions as an operator, against what PostgreSQL
   would create from them.
3. Two calls in service, for its safety properties alone.
