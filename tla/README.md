# lake-go in TLA+

This directory holds TLA+ models of lake-go, the Go driver (and API client) for
TiDB Cloud Lake, with TLC runs that check them on small instances and proofs
that TLAPS checks for all instances. The models are translated from the Go
source; `PROJECT.json` names the lines behind each definition.

## The system

An application uses the driver through `database/sql`, or uses `APIClient`
directly. A pooled connection, `LakeConn`, owns one `APIClient`. The client
talks HTTP to a query endpoint: `POST /v1/query` starts a statement, and the
answer names a `next_uri` (the next page), a `final_uri` (the client is done)
and a `kill_uri`. The server keeps no session: each statement carries the
session state of the client's last answer.

| Component | State | Operations | What is hard | Model |
|---|---|---|---|---|
| API requests and retries (`client.go`, `arrow.go`, `access_token.go`, `apierrors.go`) | `QuerySeq`, `SessionID`, token loader, the response struct shared by all attempts | `doRetry` around `doRequest`/`doRequestRaw`, `makeHeaders`, `makeURL`, token rotation on 401 | lost and late messages, retries in retries, a context that ends during an attempt, tokens that expire in between | `ApiRequest`, `StatementService` |
| Results and paging (`rows.go`, `connection.go`, `client.go`, `query.go`) | `nextRows.isClosed`, `respData`, `nodeID` | `query`, `exec`, `waitForData`, `pollUntilQueryEnd`, `Next`, `Close`, `KillQuery`, `CloseQuery` | empty pages, errors between pages, ended contexts, several open `Rows` | `QueryRows`, `ResultStream` |
| Transactions and session state (`transaction.go`, `connection.go`, `client.go`) | `sessionState`, `sessionStateRaw`, `routeHint` | `BeginTx`, `Commit`, `Rollback`, `applySessionState` | lost answers, late statements, reuse of the connection from the pool, query IDs taken for retries | `Transaction`, `UnitsOfWork` |
| Connection lifecycle (`connection.go`, `driver.go`, `client.go`) | `connectionInfoInitialized`, `sessionLoggedIn`, Arrow capability, `closed` | `initializeConnectionInfo`, `login`, `Verify`, `Logout`, `Close` | concurrent first uses, failed login | `ConnectionInit` |
| Batch loading (`batch.go`, `client.go`) | temporary CSV file, stage file | `ExecBatch`, `UploadToStage…`, `InsertWithStage` | failure between steps, cleanup, concurrent batches | `BatchLoad` |
| Client state transfer (`clientstate.go`, `cookie_jar.go`) | `APIClientState`: session ID, `QuerySeq`, node, route hint, session state, cookies | `GetState`, `WithState` | a session that changes clients in a transaction or between pages, pages that bring old session states | `SharedSession` |
| Statement text (`interpolate.go`, `encoder.go`, `helpers.go`, `types.go`, `stmt.go`) | – | `placeholders`, `interpolateParams`, `Encode` | the scanner must agree with the server's lexer, and values must stay what they are in the text | `StatementText` |
| Configuration (`dsn.go`) | `Config` | `ParseDSN`, `AddParams`, `FormatDSN` | parameters in the random order of a map, aliases, precedence of scheme, `sslmode` and port, credentials written without escapes | `DataSource` |
| Column types and values (`columntype.go`, `typeparser.go`, `binary.go`, `result_rows.go`), Arrow decoding (`arrow.go`) | – | `ParseTypeDesc`, `NewColumnType`, `materializeJSONQueryRows`, `arrowRecordToRows` | nested nullable types, two transports that must give the same values | `ColumnTypes` |
| Logging, versions, errors; commands and examples | – | – | – | not modelled |

The components meet as follows. `QueryRows` and `Transaction` make requests;
there a request is one step that succeeds, fails with the context's error or
fails with another one. `ApiRequest` is what happens inside such a step, and
its run shows which outcomes there are (`ContextEndIsReported`: the error of an
ended context gets lost only on the last attempt). `database/sql` serializes
the calls of one connection with the lock of its `driverConn`, which is why in
`QueryRows` and `Transaction` only one driver call runs at a time, while
contexts end, and the server acts, at any moment. `SharedSession` is
`APIClient` without `database/sql`: it starts statements and reads pages in any
order, and takes both `QueryRows`' page requests and `Transaction`'s session
states into one model, where pages bring session states. The conversions are
functions that the other components call: `StatementText` makes the text that
`query` and `exec` send, `DataSource` the `Config` a client is built from, and
`ColumnTypes` the values in the rows that `QueryRows` counts.

## Modules

**`ApiRequest`** – one client, logical requests one after the other. `pc` says
where the current one is: `build` (`makeURL`, `makeHeaders`), `send` (top of
the authentication loop), `wait` (in `cli.Do` or reading), `failed` (`doRetry`
looks at the error). `attempt` counts `doRetry`, `authTry` the authentication
loop. Messages stay in `sent` for good, so the server can run a statement late
or see it twice; `known` are the query IDs it has seen. `bodyError` is the
`Error` field of the response struct: on the JSON transport all attempts share
it. Actions: `StartCall`, `BuildRequest`, `Send`, the answers
`TransportError`, `Unauthorized`, `ErrorStatus`, `Undecodable`, `Success`, then
`Retry` or `GiveUp`; the environment ends contexts, runs statements, expires
tokens and rewrites the token file.

**`StatementService`** – what that amounts to for an application: a statement
takes effect at most once, and is confirmed only if it did. `ApiRequest`
implements it (`RefinesStatementService`): `phase` is computed from `outcome`,
`effects` is `ran`.

**`QueryRows`** – several statements on one connection. `layout[q]` is how the
server cuts the result of `q` into pages. `op`, `cur` and `pc` are the running
driver call; `page[q]` and `buf[q]` are `respData` (page 0 is nil) and
`rowsState[q]` is `isClosed`. `answered` are the statements of which the server
keeps a result. `StartUnreadable` is the start that fails after an answer of that
kind, because the first page is not made into rows. The page loop is `PollSucceeds`/`PollFails`, with
`Kill` or `Final` after an error, and `Release` is the deferred `CloseQuery` of
`query` and `exec`. `CallNext` leads to `DeliverRow` or `EndOfRows`; `CallClose`
is the application, or `database/sql` after an error or the end of a context.
`asked` are the statements whose `final_uri` or `kill_uri` was requested on a
live context, which is all the driver can do: the request itself may be lost.
`MCQueryRows` adds the history variable `shared`, the statements whose `Rows`
were open when another one started, for `PollsOwnNode`.

**`ResultStream`** – what an application sees of a result: rows in order, none
twice, none missing, the end only after the last. `QueryRows` implements it
(`RefinesResultStream`).

**`Transaction`** – callers of one pooled connection, one after the other.
`session` is the transaction part of the session state, `hint` the route hint.
Each statement goes into `log` with the session it carries, and into `pending`
until the server takes it, possibly long after the client gave up (`Lost`).
`Return` is the end of `exec`, including what `database/sql` does with the
connection then. A `ROLLBACK` comes from the application (`Rollback`), also after
the context ended, or from `database/sql` because it did (`AwaitDone`,
`abandoned`), whichever is first; only the second makes it discard the connection. Server transactions are numbered by the statement that began
them; `ran` says in which transaction each statement ran.

**`UnitsOfWork`** – what that promises the application: a transaction is a unit
that the server keeps or drops as a whole and for good; "committed" is told only
of a kept unit, "rolled back" only of a dropped one, and a statement confirmed in
between is in the unit. An error promises nothing. `Transaction` implements it
(`RefinesUnitsOfWork`). A unit is the number of the `BEGIN` that opened it;
`place` is `ran`, `unit` is `home`, `kept` is `committed`, and `Dropped` are the
transactions that were begun and are neither open nor committed. `told` and
`confirmed` come from what `Commit`, `Rollback` and `Exec` returned. On a server
that does not report transactions (`serverAge = "old"`) `Commit` returns nil
without sending anything and promises nothing, so there they stay empty.

**`BatchLoad`** – calls of `ExecBatch`, each on a connection of its own. `files`
are the temporary CSV files, `stage` the user stage of the server; a row is
`torn` if its `Flush` failed, an error the code never asks for. Such a row is in the
file in `part` or not at all (`none`), and the row that is appended to a part is
`glued` to it. `stmt` is the
`INSERT` of a batch at the server, which may finish after the driver gave up;
`known` are the query IDs the server has seen, because an `INSERT` that carried
the ID of the `PRESIGN` would be answered as its retry. `PrepareBatch`,
`AppendRow`/`AppendFails`, `OpenFile`, `Presign`, `Put`, `InsertWithStage`, the
polling and `RemoveFile` follow the code step by step. The requests that kill or
release the `INSERT` are in `QueryRows`; here the server may abandon it at any
moment (`ServerFails`).

**`ConnectionInit`** – goroutines that share a new `APIClient`. `Enter`, `Lock`
and the four ends of a login are `initializeConnectionInfo`; `mutex` is
`connectionInitMu`, held while the login request is under way. A statement
records the session ID and the transport it was sent with. `Close` is
`LakeConn.Close` with `Logout`. Since callers pass the mutex before they read
`SessionID` and the transport, these reads are ordered after the login; the
unsynchronized `QuerySeq` is left out (see the hazards).

**`SharedSession`** – several `APIClient`s, one of which has the session.
`client` holds for each what `GetState` and `WithState` move; `raw` is
`sessionStateRaw`, which statements carry, and `parsed` is `sessionState`, which
decides on route hints and stickiness. `GetState` puts the state into `saved`,
`WithState` makes it another client's. `stmts` are the statements with the
session they carried, their node, their route hint and the one their answer named.
An answer is `lost`, `partial` (the statement runs on, and there are pages to
come) or `final`, which may be an error; `finalizeQueryResponse` and
`pollQueryWithTransport` take node, session and hint from errors, too, and a
`COMMIT` that fails may have ended its transaction (`status`).
`expected` is the session after all that the application was told, which is
what the next statement must carry; `stale` notes that a page was read after
the answer of a later statement.

**`StatementText`** – from a query with `?` and values to the text that is sent.
Texts are sequences of characters, where the scanner tells them apart, and of
words. `placeholders` and its parts (`AfterQuoted`, `AfterLine`, ...) follow the
index arithmetic of `interpolate.go`; `Encode` is `encoder.go` by the kind of the
value: a `tmap` is in the wrapper `Map`, a `map` is a Go map that is not and goes to
`fmt.Sprint`, and a `misfit` is what cannot be encoded. The reference is a lexer that reads one character at a time
(`LexerStep`), which says of every position whether it is in the statement
itself or in a literal, a comment or a stage location.

**`DataSource`** – a DSN is the record of its URL parts, a `Config` the record of
its fields. `ParseDSN` yields the set of outcomes over all orders in which Go may
visit the parameters, since in `AddParams` each turn overwrites the error of the
one before. `FormatDSN` goes back, and `apiEndpoint` is where a client of
the `Config` connects.

**`ColumnTypes`** – `ParseTypeDesc` is the scan of the code as a fold over the
tokens of a type name. `dataTypeStringFromArrowField` makes names from an Arrow
schema, `ServerName` is how the server spells them. `JSONCell` and `ArrowCell`
are the two ways of a cell to a driver value (on JSON by `Parse`, which makes the
text NULL of a nullable column nil), and `ServerText` and `ServerCell`
the two forms in which the server sends it.

These three have no state. **`MCConversions`** is a specification around them:
its state is one input, its steps make the input larger (one more character,
parameter, level of nesting), and its invariants are the statements
`ScanFollowsLexer`, `BindingKeepsRegions`, ... of the modules about that input.

**`MCApiRequest`, `MCQueryRows`, `MCTransaction`, `MCBatchLoad`,
`MCSharedSession`** – workloads, page layouts, symmetry sets and bounds for TLC.
**`ApiRequestProofs`, `QueryRowsProofs`, `ConnectionInitProofs`,
`TransactionProofs`, `SharedSessionProofs`, `BatchLoadProofs`,
`UnitsOfWorkProofs`** – theorems about the module each is named after (see
Proofs); **`TransactionUnitsProofs`** – that `Transaction` implements `UnitsOfWork`.

Operators marked `Mutant` or `Not the code` in the modules are variants of the definition below
them, with a plausible bug. `PROJECT.json` pairs each checked property with one
that violates it; no specification uses them.

## Runs

| Run | Question | Bounds |
|---|---|---|
| `ApiRequest` | Does a request stop and report what happened, and can query IDs of different statements or attempts be confused? | one request of any type and transport; or a statement or page request and then a statement (JSON, rotating token) |
| `ApiRequestToken` | Does the retry after a 401 use the rotated token? (violated) | one request |
| `ApiRequestRejected` | Is a refused URI retried? (violated) | one request |
| `QueryRows` | Does every call return, is every result released, and are results right with several open `Rows`? | two statements, one after the other or both open, six layouts |
| `QueryRowsDeadline` | Is a query killed after a timeout? (violated) | one statement |
| `Transaction` | Is a transaction whole or not at all, do `Commit` and `Rollback` say the truth, and do statements stay in their own transaction? | two transactions, five statements |
| `BatchLoad` | Does `nil` mean inserted, are batches whole, are files removed, does every call return? | a batch of up to two rows, and one of up to one |
| `BatchLoadFlush` | Is `RowsAffected` true? (violated) | one batch |
| `ConnectionInit` | One login, one session ID, one transport, a logout, and does every caller get through? | three callers, four calls |
| `SharedSession` | Does a session survive the change of client, in transactions and between pages? | three statements, two nodes, two clients; a hint named by answers to `BEGIN` and to reads (`NamingKinds`) |
| `Conversions` | Do texts, DSNs, type names and cells say what they are made from? | queries of five characters (four with values, at most two), values of nesting two, DSNs of three parameters or five characters of user information, types of four fields, timestamps of 13 instants |
| `ConversionsEmptyBytes` | Is every value written into the statement? (violated) | as `Conversions` |

Why the bounds are enough. A logical request shares only `QuerySeq`, the token
and the server's memory of IDs with the others, so two suffice to confuse them;
all attempts (five or three) and both exchanges are explored, not bounded. The
layouts have empty, one-row and two-row pages at every position. Two results
suffice for one to disturb another. Five statements let one transaction begin,
run and end while a second begins in the session it left. Two batches suffice
to mix rows, and two rows in one of them to lose or reorder one. Three callers are one that
logs in, one that waits and one that comes later, and four calls leave room for
a failed login before. Three statements let a transaction
begin, run and end, or a page of the first be read after the second; two
clients hand a session over at any point of that. Answers to a `BEGIN` and to a read
name a hint at the start of a transaction and inside it; the theorem is about any
choice of kinds and any number of clients. Five characters hold an
opened and closed region with something inside or behind it, of every kind; two
values let one open what the other closes. In a DSN, three parameters are an
invalid one, a valid one and one that interferes; the characters of the user
information are those that separate or escape. Types of four fields nest three
deep and have siblings on every level. The instants lie on both sides of a
change of the clock, and the width of four bits lets the halves of a decimal
wrap around. All
safety properties of the six modules with state are also proved, for any bounds.

Deadlock checking is off: the workloads are bounded, so the models stop when
all is done.

**Fairness.** `ApiRequest`: weak fairness of the client's own steps. It
includes that an exchange ends: with an answer, a broken connection or
`cli.Timeout`. By default `timeout` is unset and the context has no deadline;
then this is an assumption about the network. `QueryRows`: weak fairness of
the driver (requests end, by `CallsReturn` of `ApiRequest`) and of `CallClose`,
because `database/sql` closes `Rows` at their end, after an error and when
their context ends, and the application is obliged to otherwise. No fairness is
assumed of the server or of contexts there. `BatchLoad` also assumes that the
server ends an `INSERT` one way or the other: `PollUntilQueryEnd` polls as long
as the server names a next page. `ConnectionInit` assumes strong fairness of
locking, because `sync.Mutex` hands itself to a waiter that has waited for a
millisecond.

**Assumptions about the server**: a repeated query ID is a retry
(`transaction.go`, comment of `txContext`); an answer with status 200 to a
statement means it ran; a JSON answer carries `"error": null` if there is no
error; every answer with rows has a `final_uri`; a refused statement leaves the
session as it was, except that a `COMMIT` that fails may end its transaction; a
statement that comes with a finished transaction is refused. Query IDs that users put into a context are unique to the call. For
`SharedSession`: a session state has all its fields, so that parsing it into the
state from before (`client.go:591`) leaves nothing behind; the session needs its
node exactly while it is in a transaction. For `StatementText`: the regions of
Lake's lexer are those of `LexerStep`. For `ColumnTypes`: the server writes
binaries in the format it names, and hex in `driver` mode.

**Assumptions about the application.** It stops using a client whose state it
took and gives the state to one client; it reads `BEGIN` and `COMMIT` to their
end before it starts another statement. It does not put a `?` right behind a
minus and bind a number below zero to it (`a-?` with -1 is `a--1`, a comment);
it uses no struct as a tuple whose first field is unexported, or that embeds a
struct with no exported field (the comma before the next field leaves an empty
member); Go maps inside a value are in the wrapper `Map`.
`BoundStatementKeepsItsRegions` and `NestedValuesAreComplete` leave
these cases out, as `DSNRoundTrips` leaves out what a DSN cannot say
(`Expressible`) and a raw `@` in the user information, and
`ResultsDoNotDependOnTransport` what JSON text cannot say (`TextIsExact`).

## What the checks found

* `client.go:338` says the request is retried with a rotated token; the headers
  were built before the loop, so the second exchange carries the old token
  (`arrow.go:150` likewise). Rotation takes effect with the next logical request.
* `README.md` says a rejected URI is not retried; `RetryIf` retries it, since
  `rejectedURIError` unwraps to `ErrDoRequest`.
* `rows.go:35` and `client.go:603` say a query whose context timed out is
  killed; only `context.Canceled` leads there. After a deadline the fallback
  `CloseQuery` runs on the ended context and sends nothing, in `exec` too.
* `batch.go:134` ignores the error of `writer.Flush()`: on a full disk rows
  disappear from the batch while `RowsAffected` counts them. `WholeBatches`
  says that nothing else is lost: each line in the table is the row of its place,
  damaged only where its own `Flush` failed or where the one before it left a part of
  a line. The file is opened with `O_APPEND`, so the next row, whose `Flush` reports
  nothing, is glued to that part.
* `interpolate.go:98` returns the query as it is if the first value is an empty
  slice: `?` stays in the statement, and the number of values is not checked.

Further behaviours of the code that a property states as its exception:

* **A first page that is not made into rows** (`client.go:685`, or an Arrow body that
  is not decoded): `query` and `exec` return before `CloseQuery` is deferred, and
  `finalizeQueryResponse` before it takes over node, session and route hint. The
  query was answered, and nothing releases it (`Unread` in `ReleaseAsked` and
  `StatementsAreReleased`).
* **An application's `Rollback` after its context ended** that comes before
  `database/sql` notices keeps the connection: if it fails, the connection is back in
  the pool in an open transaction (`NoForeignStatements`).
* **A nullable binary column**: bytes whose text is NULL are nil on the JSON transport
  (`checkNull`, `columntype.go:70`) and bytes on Arrow (`NullTexts` in `TextIsExact`).
* **A Go map nested in a value** and not in `Map` is written by `fmt.Sprint`, in
  Go's own notation (`encoder.go:97`, `HoldsGoMap` in `MembersAreParts`).
* **A raw `@` in the user information of a DSN** is accepted: `dsn.go:321` cuts at
  the last one, while `src/README.md:281-283` says that `@` must be encoded and that raw
  separators are no longer reinterpreted as credentials. `CredentialsAreRead` is about
  user information without it.

`FilesAreRemoved` states what cleanup there is: if a row cannot be appended,
`ExecBatch` returns before `BatchInsert`, and the temporary file stays.
`SessionsAreLoggedOut` is about logins whose answer arrived; a session whose
login answer was lost stays open at the server, and the `Logout` in
`buildLakeConn` after a failed login sends nothing, because `sessionLoggedIn` is
still false.

`SessionIsCurrent` and `TransactionsStayPut` hold as long as no page is read
after the answer of a later statement. `applySessionState` takes the session of
every page, so reading on in an older result puts back the session from before
the later statement. `TransactionsStayPut` asks for the hint of `BEGIN` or the
latest one that an answer of the transaction named since: the client follows the
server. `OrderOfParametersIsIrrelevant` says when the order of a Go
map decides whether a DSN is accepted: only if it has an invalid value and
another checked parameter that is valid; then it really does.

`NoForeignStatements` states a limit of the code rather than a virtue: after a
failed `COMMIT` or `ROLLBACK` of the application, or a `BEGIN` that fails after its
answer, the connection returns to the pool with its session still in the
transaction, and the next caller's statements run in it. After a `ROLLBACK` of
`database/sql` none do, whatever becomes of it. `PollsOwnNode` needs the condition that
no other statement runs while `Rows` are open, because `nodeID` belongs to the
client.

## Proofs

Every invariant and action property of the runs of the six modules with state,
and all three refinements, are theorems: they hold for any number of requests,
statements, transactions, clients, goroutines and batches, any layout of pages
and any size of batch. The only assumptions are the `ConstantsAssumption` of
each module: bounds are numbers, the names used for "nobody" and "no node" are no
callers or nodes, and the layouts of `QueryRows` are non-empty sequences of
row counts that do not decrease (a layout gives the rows up to each page).

Each module of proofs has an inductive invariant, which TLC also checked on the
instances of the runs before it was proved, and derives its theorems from it.

**`ApiRequestProofs`**
* `TypeCorrect` includes that a request has at most the attempts of its type and
  that a failed attempt has an error.
* `QueryIdsCorrect`: `IdInvariant` is inductive given `TypeOK`. Requests not yet
  started are blank (`Started`), `QuerySeq` grows with every statement
  (`SeqsGrow`), headers and messages carry the ID of their request
  (`IdsOnTheWire`), and the server knows exactly the IDs of what it ran, once
  each (`KnownMeansRan`). From `SeqsGrow` follows that different statements have
  different IDs (`IdsDistinct`), which makes `KnownMeansRan` inductive when the
  server runs another statement.
* `AtMostOnce`: each step maps to a step of `StatementService` or a stutter:
  `StartCall` to `Submit`, `ServerRuns` to `TakeEffect` (enabled because a fresh
  ID means the statement has not run), `Success` to `Confirm` (enabled because
  the server answers 200 only when it knows the ID), `GiveUp` to `Reject`.
* `EndedContextsAreReported`, `ArrowErrorsAreTheServers`: from `ReportInvariant`.
  A transport failure is reported only when no attempt is left, because `RetryIf`
  accepts all of them; a call on the Arrow transport has no decoded error before
  it succeeds.

**`QueryRowsProofs`** – `RowsInvariant` says, for each statement, which call may be
at work on it (`CallShape`), what its `Rows` can be (`RowsShape`), how its error
decides between kill and final on the way out (`WayOut`), when it may have been
released (`AskedLate`, `Released`), and that the buffer continues the rows handed
out up to the last page received (`Continues`). `Released` is `ReleaseAsked` made
inductive; `WayOut` is what makes it so, because a call in progress has not asked
yet. Both are about every statement the server answered (`answered`), also one whose
first page was `Unread`. `RowsAreStreamed` maps every step to one of `ResultStream` or a stutter and
rests on `Continues` and on lemmas about `RowsUpTo` and `PageRows`.
`OwnNodeIsPolled` is about `MCSpec`, which records the node that runs each
statement.

**`ConnectionInitProofs`** – `InitInvariant`. `OneLogin` is not inductive by
itself: a second login is ruled out because the mutex is held only by callers that
found the client uninitialized (`LoginUnderWay`), and an answered login leaves it
initialized (`AnswersAreRemembered`). Statements are sent only after that
(`ReadyMeansInitialized`), which gives `OneSessionOneTransport`.

**`TransactionProofs`** – `TxInvariant` has three layers. `CallersFit`: the statement
sent last belongs to the caller that has the connection, and nothing the client
keeps has changed since. `ServerFits`: what an answer says of the session follows
from the session the statement carried, and a statement that was answered without
error inside a transaction has done there what it is for (`DoneInside`).
`SessionsFit`: a session state with a transaction, in the client or in any
statement, is one the server began, comes with its route, and is in the hands of
its owner unless that one got an error (`Stray`). The last is the invariant behind
`OnlyErrorsLetStatementsStray` and `OneRouteForEach`. `OutcomesAreTrue` needs
`HomeKept` too: on a server that reports transactions, all statements of a
transaction after `BEGIN` carry the same session.

**`UnitsOfWorkProofs`** – what the promise amounts to. `Promise` adds to
`WholeOrNothing` that confirmed statements have run in some unit
(`ConfirmedInside`), without which `Run` or `Join` could part them from the unit of
their transaction.
`UnitsAreWhole` follows from it; `UnitsAreFinal` holds of each action.

**`TransactionUnitsProofs`** – `TransactionsAreUnits`, step by step. Sending a
statement, a skipped `COMMIT` and the end of a context change nothing that
`UnitsOfWork` sees, and neither do, at the server, a `BEGIN` and a statement outside
any transaction. A statement inside one is `Run`, `COMMIT` is `Keep`, and `ROLLBACK`,
a failed `COMMIT` that ends the transaction and an abort are `Drop`: all of them only
while the transaction is open. When the answer is back, `Return` is `Join` (`BEGIN` succeeded),
`Confirm` (a statement did) or `Tell` (the end of the transaction, or an error of
`BEGIN`, `COMMIT` or `ROLLBACK`); the guard of each is what `TxInvariant` knows of an
answer. `Confirm` needs that the statement ran in the transaction's own session
(`RanAtHome`), and `Tell` that the server has decided (`EndDecides`). The mapping
needs two facts `TxInvariant` does not have (`UnitInvariant`): statements not yet
sent have no result (`Unreturned`), and a transaction that has not begun has no
session (`HomesUnset`), so that `Join` starts from no unit. By `TransactionsAreUnits`
the theorems about `UnitsOfWork` are theorems about the driver:
`TransactionsAreWhole` and `TransactionsAreFinal`.

**`SharedSessionProofs`** – `SessionInvariant`. One client has the session or it is
on its way (`OneHolder`), and whoever has it knows as many statements as there
were, the hint of the last, the node with pages to come and the expected session
with the place of its transaction (`Knows`): its node, and the hint that the last of
its answers to name one named (`HintSince`; `HintStays`, `HintGrows` and `HintStarts`
say how it goes on with a page, a statement and a `BEGIN`). `Knows` is one predicate for clients
and for a state on its way, so that `GetState` and `WithState` preserve it at once.

**`BatchLoadProofs`** – `BatchInvariant`. Files hold the rows appended so far
(`FilesFit`), stage and table complete batches (`StageFits`, `LoadedFits`), where
`RowsFrom` compares lines with the rows whose `Flush` failed, and `IsRow` says which
line may be glued; rows are torn only as
they are appended (`TornBefore`), so that what was uploaded does not change its
meaning. `CallsFit` ties each call to its file and its `INSERT`: the server knows
the query ID of an `INSERT` only once it was sent, hence a finished one has
inserted.

Model-checked only:
* liveness (`CallsReturn` of two modules, `StatementsAreReleased`, `CallersReturn`,
  `BatchesReturn`): TLAPS does not reason about fairness here;
* the conversions of `MCConversions`: their definitions recurse over texts, nested
  values and types or fold over parameters, and the provers cannot do induction
  over data;
* the runs that expect a violation.

## Not modelled

* `valueparser.go` and `tokenizer.go`: nothing in the driver calls them
  (values of nested types are returned as text). `snapshotClientState` is not
  called either.
* `log.go`, `version.go`, `errors.go`: no state the driver depends on. The
  commands, examples and test programs use the driver.
* Text: numbers, times, the wrappers `Date`, `Decimal…`, `Interval`, the
  scalars of Arrow records, headers. The text of a `driver.Value` that is already
  a literal is spliced in as `bytes` in `StatementText`.
* Cookies, the redirect policy inside `http.Client`, TLS configurations, the
  check of the addresses behind a presigned URL (`presign_security.go`): they
  take part in one exchange, which the models take as one step.
* The end of one literal and the start of the next: `BoundStatementKeepsItsRegions`
  compares the region of each character, so it does not tell two literals side by side
  (`''` followed by `?`) from one.
* What becomes of a statement whose answer was lost, in `SharedSession`: no client
  learns of it there (`Transaction` lets it run late).
* DSNs with a bracketed IPv6 host and no port, and other spellings that
  `url.Parse` refuses or normalizes.
* Unsynchronized use of one `APIClient` by several goroutines after the login.

## Plan

1. `ApiRequest`, `QueryRows`, `Transaction` (done), proofs of `ApiRequest` (done).
2. `BatchLoad`, `ConnectionInit`, `SharedSession` (done).
3. The conversions `StatementText`, `DataSource`, `ColumnTypes` against reference
   definitions (done). The first and the last are recursive and stay with TLC.
4. Proofs of the safety properties of `QueryRows`, `ConnectionInit`, `Transaction`,
   `SharedSession`, `BatchLoad`, and of the two left in `ApiRequest` (done).
5. `UnitsOfWork`, and the proof that `Transaction` implements it (done).
6. Left: the cells of `ColumnTypes` that need no recursion, where the halves of a
   decimal wrap around, in a module of their own, so that they can be proved for
   every width.
