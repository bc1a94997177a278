# TLA+ verification of metralert

metralert is a metrics server and an agent, written in Go. This directory holds TLA+ models of both,
configurations that check them with TLC, and theorems about them that are checked by TLAPS. File
names below are relative to the repository, line numbers to this commit.

- [The system](#the-system): components, state, operations, interactions, hard behaviours
- [The modules](#the-modules): how state and actions correspond to the code
- [The runs](#the-runs): what is checked, the bounds, the fairness
- [What the violations show](#what-the-violations-show)
- [The theorems](#the-theorems): what is proved, and along which argument
- [What is not modelled](#what-is-not-modelled)
- [Plan](#plan)

## The system

### Components

| Component | Source | State | Operations |
| --- | --- | --- | --- |
| In-memory storage | `internal/storage/memstorage.go` | a Go map without a lock, the backup file | update, batch, get, page, backup every interval, recovery at start, save at shutdown |
| PostgreSQL storage | `internal/storage/pgstorage.go` | the table `metrics`, the transaction of each batch | the same calls, each under `Retry` and a context of three seconds |
| HTTP handlers | `internal/server/server.go` | none of their own; objects of the pools, the channel | seven routes, middleware for logging, hash, decryption, compression |
| Audit trail | `internal/server/server.go:515-602` | `AuditCh` (50 entries), the audit file, the URL | the batch handler sends, `AuditLogger` writes and posts |
| Object pools | `internal/reset/pool_naive.go`, `internal/metrics/reset.gen.go` | a queue per pool, the objects | Get, Put with Reset |
| Process | `cmd/server/main.go` | goroutines for HTTP, backup and audit | start, signal, shutdown of HTTP, then of the storage |
| What a storage promises | `internal/storage/storage.go` | which metrics of a call have taken effect, what its caller was told | take effect, take effect again, tell, crash |
| Agent | `internal/agent/` | the slice `memoryStatistics`, the poll count | two collectors, a poll and a report ticker, reports in batches, retries, end after a signal; workers that main never gives work |
| Configuration | `config/` | none after the start | flags, environment, JSON file |
| Generators and tools | `internal/reset/reset.go`, `internal/linter`, `cmd/cryptogen` | none | source to source, source to report, a pair of keys |

### How they interact

net/http runs each request in a goroutine. A handler takes an object from a pool, decodes the
body into it, for a batch sends the names on `AuditCh`, calls the storage with the object's
contents, answers, and puts the object back. The in-memory storage keeps the pointers it is
given; the PostgreSQL storage copies the numbers into SQL. Besides the handlers run the backup
goroutine (which saves the map to a file), the audit goroutine and main, which on a signal waits
at most five seconds for the handlers, saves once more and returns: this ends the other two
wherever they are.

The agent runs two collectors, which make a sample and wait to hand it over, a goroutine that takes
one of each when the poll ticker ticks and stores both in a slice, and main, which sends that slice
to `/updates/` when the report ticker ticks. The slice and the poll count are shared without a lock.
What the agent sends passes the server's hash check and decryption and becomes one batch call of a
storage; the HTTP client sends it again when no answer or a 5xx comes.

### What is hard, and what makes it correct

- *The map has no lock.* Updates of a counter are a read and a write; what may be lost, and what
  may never happen in spite of it (a value at another name, an increment counted twice).
- *Saves are not atomic*: create (which truncates), marshal, write; two goroutines save the same
  file, and a kill or a failing disk comes in between. What a clean shutdown leaves behind.
- *The audit channel blocks.* Batches are answered as long as somebody receives; the trail never
  falls more than a channel's length behind what was applied.
- *Pooled objects are shared and reused.* `PoolNaive.Get` leaves the object in the queue; pointers
  into an object outlive the request; a decoder leaves what a body does not name. What the
  storage takes must still be what the client sent.
- *The agent's slice and counter are shared.* A report is read while the next poll is being stored,
  and PollCount through a pointer to the live counter: it must still be of one poll, count no fewer
  polls than it shows, and not be older than the report before it.
- *Delivery is at least once, late, or never.* A sending may take effect after it was given up, or twice
  with its retry; the configurations of the two sides may not go together. What the server holds of
  the polls, what the agent believes to have sent, and what it sends before it ends.
- *The database is remote.* A lost answer looks like a lost statement, a statement may run after
  its caller has gone, contexts end between statements, transactions wait for each other. What a
  caller is told and what the table holds must agree, and no call may wait for ever where it need not.

`PROJECT.json` lists the hazards one by one, each at its line, with the properties that cover it.

## The modules

| Module | What it is |
| --- | --- |
| `MetricStore` | abstract: what a storage promises the handlers, and through them the agent |
| `MemStorage` | the in-memory storage in its process, one map access per step |
| `MCMemStorage`, `MemStorageProofs` | its instances for TLC, its theorems |
| `MemStorageRefines` | the theorem that it implements `MetricStore` |
| `Audit` | the batch handlers, `AuditCh` and `AuditLogger` |
| `MCAudit`, `AuditProofs` | its instances, its theorems |
| `PooledUpdate` | the two pools, the update handlers on their objects, the pointers the storage keeps |
| `MCPooledUpdate`, `PooledUpdateProofs` | its instances, its theorems: what the storage takes, how large a pool grows |
| `PooledGaugesProofs` | its theorems about answers, missing numbers and gauges |
| `PgStorage` | the calls of the PostgreSQL storage against a database that is lost, late or failing |
| `MCPgStorage`, `PgStorageProofs` | its instances, its theorems |
| `PgStorageRefines` | the theorem that it implements `MetricStore` |
| `Agent` | the agent, its HTTP client, and a server whose storage is a `MetricStore` |
| `MCAgent`, `AgentProofs` | its instances, its theorems |

Each module marks the operators that are only there to show that a property can fail as
`Mutant`; they are not part of the specification.

### MetricStore

The abstract specification of both storages. `call` says of each call which of its metrics have a
type the storage knows, how often one may take effect, and whether these are all; `effect` counts
how often each has; `answer` is what the caller was told. The metrics take effect in their order
(`TakeEffect`: a first part of them), one may again (`Again`, within `times`), the caller is told at
most one answer (`Tell`): "ok" only when all have, "refused" only when none has, "error" at any
time; a crash (`Crash`) answers nobody. After "ok" or "refused" nothing more of the call takes
effect for the first time.

It is used three times: `MemStorage` and `PgStorage` implement it (`StoreSpec`, each with a refinement
mapping of its own), and `Agent` relies on it: each sending is a call.

### MemStorage

`db` is `MemStorage.db`, `file` the backup file (missing, empty, torn or JSON of a map), `rpc` and
`base` the program counter and the local variables of each handler, `spc` and `buf` those of the
two goroutines that save (`backup`, and `main` at shutdown).

Numbers are abstracted to their origin: the k-th item of request r is the write `<<r, k>>`, a
counter is the set of the increments added into it, a gauge the set holding the one it keeps. A
union is an addition as long as nothing is added twice, which is itself checked and proved
(`NoDoubleCount`).

`Arrive` is the handler up to the storage call, including every refusal; `Lookup`, `Load`,
`Store`, `Reload` are the four map accesses of `UpdateMetric` (memstorage.go:92, 96, 98, 107),
which `UpdateBatchMetrics` repeats per item; `Reject` is the branch of an unknown type; `Find` and
`PageKey` are the reads. A nil pointer that is dereferenced is a `panic` that net/http recovers, and
what was stored before it stays. `Create`, `Marshal`, `WriteFile` are the steps of `SaveDatabase`;
marshalling reads the map name by name while handlers write. `NewMemstorage` recovers the file, or starts
with an empty map: without `-r`, from a text that is no JSON, and when the file cannot be read, which
creates it anew and so truncates what was there. `MapFault` is the Go runtime's
"concurrent map" error, possible whenever two accesses overlap, one of them a write. `Signal`,
`Drained`, `DrainTimeout`, `Exit`, `Kill`, `Start` are the life of the process.

`made` is history: the writes that were made to the map, be they lost later. The mapping to
`MetricStore` takes it as `effect` (a lost update has taken effect and was overwritten), and a
panic or the end of the process as the answer "error".

### Audit

`ch` is `AuditCh`; a handler is at `sending` (server.go:521) or `updating`; `lpc` is the place of
`AuditLogger`, which returns at once when nothing is configured, opens the file with `O_TRUNC`,
and per entry writes a line, its newline, and posts. An entry is the request it tells of. The
storage update is one step, since `MemStorage` has its interleavings. A send of a goroutine that
waits is served in Go's order; a nil response that is dereferenced (server.go:598) ends the
process (`fault`).

### PooledUpdate

An object is named after the request that created it; `slot` is its contents (an array of slots for a
group), `len` the length of its slice, `cell` the place in memory whose number a gauge of the
storage is: the pointer memstorage.go:88 and :122 keep. `Get`, `Decode` (one item), `Decoded`
(the slice is cut), `Refuse`, `Call`, `UpdateMetric`, `UpdateBatchItem`, `Reload`, `UpdatedBatch`,
`Reply`, `Put` are the handlers of `/update/` and `/updates/`; `UrlUpdate` is that of the URL, which uses
no pool. An item may come without its name (id and type) or without a number: `Written` leaves in the slot
what it does not name. `Reload` is the second read of the map, after the store (memstorage.go:107, :124,
:139): the answer is made from the pointers it finds (`back`), which another request may have replaced
since the store; `passed` remembers for which items one has. `shared` remembers the requests that held
an object while another one did: the properties are about the others, since what two handlers do to one
object at a time is anybody's guess.

What is left of an earlier request in an object of its kind: for a single update nothing, since
`Metrics.Reset` empties the name, so that one without a name is refused, and zeroes the numbers, so that
one without its number adds zero (or is refused when there was none). In a batch, everything:
`MetricsGroup.Reset` only cuts the slice, and an item without a name or a number takes those that an
earlier batch has sent at its place. `TakenAsSent` says both.

Left out: JSON null, an empty array, a body that names only one of id and type, the accesses before the
store of an item (`MemStorage` has them), what the handler of a URL answers, and torn slice headers when
two goroutines append to one queue at the same instant. A name has one type.

### PgStorage

One action per step of a call between its statements. `Try` sends a statement, or fails at once
when the context is done or the connection of the transaction is gone, as database/sql does;
`Receive` is its answer; `Lose` the loss of the connection, or the end of the context while
waiting, after which nobody knows whether the statement runs; `Sleep` is the delay after a failed
try. A call's seconds are counted in `slept`: 1 + 3 seconds end the three-second context before the
third try. `BeginTx`, `SkipItem`, `Commit`, `Committed` are `UpdateBatchMetrics`.

The database is external and modelled by what the code relies on: `DbRun` runs a statement outside of
a transaction, even one nobody waits for; `DbStatement` one inside, taking a lock on the row, or
failing and undoing the transaction; `DbCommit`, `DbUndo` end a transaction. `Upsert` is the SQL of
`pgstorage.go:65-79` with NULL (`Nil`). `Kill` is the end of the process with calls in flight, by a
signal nobody handles or by the shutdown that timed out.

`pend` counts what the open transaction of a call has written, item by item, and `ver` has the rows as
it has written them; `applied` counts what is committed. The mapping to `MetricStore` takes `applied` as
`effect`: a COMMIT lets several metrics take effect at once, and an update whose answer was lost takes
effect again. `TimeoutAssumption` says that the context's seconds are at most four: that, and not the
number of tries, is what bounds an update to two.

### Agent

The collectors: `CollectRuntimeMetrics` counts a sample (`Build`) and waits to hand it over (`Offer`,
into a channel of one); `CollectGopsutilMetrics` has one sample in hand, so its making is part of
`ReceiveGops`. The poll goroutine takes one of each (`ReceiveMem`, `ReceiveGops`) and stores the slice
(agent.go:236): a slice header is several words, stored one after the other, so `StoreLength` and
`StorePointer` are two steps, in the order of the compiled code, which amd64 keeps (the capacity plays
no part in a read). Main chooses between the report
ticker and the signal (`ReportTick`, `Done`), looks at the length (`Check`), copies the header for
json.Marshal (`Header`), follows the pointer to the live `pollCount` when that element is marshalled,
compresses and encrypts (`Encode`), and sends (`Send`, `Receive`, `Lose`, `Retry`). A sample is the
number of its poll; a report is the samples its gauges are of and the count it says.

- A length without its array (`Garbage`) makes json.Marshal read other memory: the agent crashes
  (`crashed`) or sends what no server can use. It happens only while the first poll is being stored.
- Encryption fails for a body that is longer than the RSA key, and ends the agent (`failed`).
- The server verifies the hash before it decrypts (`HashVerified`, `Readable`) and calls the storage.
  What the storage does may come after the client has given the sending up; `Answer` is an answer that
  reaches the client, which takes a 5xx like none, and a 400 or 401 like a 200.
- The server's storage is the one in memory, without a lock, and takes the items of a batch one by one:
  a gauge (`SetGauge`; one stands for all, as each is set in the same way), then PollCount, which is read
  and stored in two steps (`ReadCount`, `StoreCount`; memstorage.go:126, :131, :133). A sending that the
  agent has given up may be at work beside the next one, and one of two additions be lost: `overlap`
  remembers that PollCount was stored while another sending had read it. Every request has an object
  of its own, and the server stays up; the other modules say what happens otherwise.
- `counter` and `shown` are what this storage holds: PollCount, to which every report is added, and the
  poll its gauge is of.
- `atSignal` is history: the poll that was stored when the signal came.

The retrying client is external (retryablehttp), and modelled by what the agent's settings make it do.

## The runs

| Run | Expect | What it shows |
| --- | --- | --- |
| `memstorage_safety` | pass | `Provenance`, `NoDoubleCount`, `ExactUnlessRaced`, `RefusedLeavesNoTrace`, `PanicsExplained`, `ShutdownSaves`, whatever the interleaving of two requests of sixteen kinds, backup, shutdown, kill, failing disk, restart |
| `memstorage_live` | pass | a signalled process exits (`ShutdownEnds`), the file catches up with the map (`BackupCatchesUp`), and `StoreSpec`, the refinement of `MetricStore` |
| `memstorage_lost_update` | violation | `AcceptedKept`: an accepted increment can be lost |
| `memstorage_shutdown` | violation | `ShutdownBacksUp`: the backup goroutine can truncate the file saved at shutdown |
| `audit_trail` | pass | `AuditOrder`, `AuditedFirst`, `AuditLag`, `PostedFollowsFile`, and batches are answered when there is a file |
| `audit_unconfigured` | violation | `BatchesAnswered`: without audit flags batches block for ever once the channel is full |
| `audit_url_only` | violation | `UrlGetsEntries`: with a URL and no file nothing is posted |
| `pooled_update` | pass | `TakenAsSent`, `SingleMissingAddsNothing`, `AnsweredAsSent`, `UrlGaugeKept`, `GaugeKeptTillReuse`, `GaugesKeptSameLayout`, `PoolBounded` |
| `pooled_gauge` | violation | `GaugesRead`: a gauge sent as JSON reads zero once the request has been answered |
| `pg_storage` | pass | `CounterIsSum`, `UpdatedAtMostTwice`, `OkIsCommitted`, `BatchPrefix`, `BatchWhole`, `CallsReturn`, and `StoreSpec`, the refinement of `MetricStore` |
| `pg_page` | violation | `PageHasAll`: the main page can be answered with metrics missing |
| `agent` | pass | `CountAhead`, `ReportsSound`, `PollCountBounds`, `NoStepBack`, `SentUnlessAllTried`, `SignalFlushes`, `AgentEnds`, with sendings lost, late, at work at once, doubled or refused, and a signal at any time |

Each passing run checks the type invariant of its module as well. Deadlock is not checked: every
system here may stop, with all requests answered or the process ended.

### Bounds, and why they are enough

- `memstorage_safety`: two requests with one or two items, two names, both savers, one restart.
  Every race of the map is between two accesses, and every kind of request meets every other;
  what a third adds is covered by the proofs, which hold for any number of requests and names. The
  requests are interchangeable, so symmetry is used, as there is no liveness in this run.
- `memstorage_live`: six kinds chosen for their effect on a backup, for a panic and for a batch refused
  in part, no faults (with them the goroutines end), but a shutdown that may time out. The refinement
  is checked here, where there are fewer states, and proved for all requests and faults.
- `audit_trail`: a channel of one, three batches: the channel is full, a handler waits and another
  comes; all four configurations. `audit_unconfigured` has a channel of two.
- `pooled_update`: three requests of eleven kinds, bodies without a name or a number among them, groups of
  two slots: an object is used, returned, handed out again, and handed out to two requests at once, in
  every order; a third request leaves something for the second to find, or sets a gauge in between.
- `pg_storage`: two calls, an update with a call of any kind, or a batch with another one that locks
  the same rows in the opposite order; the three tries and the three seconds are
  the code's own. Two calls are what locks and lost answers need; other calls meet through rows only.
- `agent`: two polls, so that there is the first (whose storing can be seen half done) and one that
  replaces another; two reports of two sendings each: a sending of the first can arrive after the
  second has taken effect. The bound on reports leaves one for the signal. At most two sendings are
  begun and not answered at once (`MaxBegun`), which two additions that overlap need. Two configurations of
  agent and server: RSA keys alone, with all that encryption can do, and with a common key for the
  hash, where nothing can be read. The theorems hold for every configuration and any numbers.

### Fairness

- `MemStorage`: weak fairness of every goroutine's steps, which the Go scheduler gives; none for
  clients, signals, faults or a restart.
- `Audit`: strong fairness of a blocked send, as the Go runtime queues the senders of a channel
  first come first served, so that one who waits gets his turn when room appears again and again;
  weak fairness of the other goroutines' steps; none for the URL's answers, as the client has no
  timeout (server.go:593).
- `PgStorage`: weak fairness of a call's own steps but for the return of Begin, of its timer, and of
  giving up when the context ends while it waits. The database owes nothing: Begin and COMMIT, which have
  no context (pgstorage.go:132, :180), may wait for it for ever, and `CallsReturn` says that a call stays
  nowhere else, neither at a statement, nor behind a row that another batch has locked, nor in `Retry`.
- `Agent`: weak fairness of main's steps while it makes and sends a report; strong fairness of `Done`,
  since `select` chooses at random among the cases that are ready, so that the signal is heard although
  the report ticker may be ready as well each time. None for ticks, the signal, the server or the
  connection: the request has no context and the client no timeout (agent.go:269), and a server that
  holds the connection, as one whose audit channel is full does, keeps the agent for ever. `AgentEnds`
  says that this is the only thing that does.

## What the violations show

1. *Lost update* (memstorage.go:96). Two updates of a counter read the same sum; both are answered
   200 and one increment is gone. `ExactUnlessRaced` shows that only such a race loses anything.
2. *Shutdown backup* (memstorage.go:169, main.go:63). The save of the shutdown succeeds and logs so;
   the backup goroutine, not stopped, truncates the file again before main returns.
3. *Batches block without audit* (server.go:521). Entries are sent whatever is configured;
   `AuditLogger` returns at once when nothing is. After 50 batches every further one waits for ever.
4. *Audit URL without a file* (server.go:582). The write to the missing file fails, and the loop
   goes on to the next entry before it posts.
5. *Gauges of pooled objects* (server.go:436, reset.gen.go:15). `Reset` writes zero through the
   pointer the storage kept. `UrlGaugeKept`, `GaugeKeptTillReuse` and `GaugesKeptSameLayout` say how
   far gauges can be relied on: always when set by URL, until the object is handed out again when
   set by a batch, and until it is set again if batches come one at a time and all have the same
   layout, as those of a single agent do.
6. *Page with metrics missing* (pgstorage.go:242). `rows.Err` is not asked after the walk.

Some things a reader of the passing properties should notice, since the properties say how far the
code can be relied on and no further:

- *PollCount at the server is no number of polls* (`PollCountBounds`). The agent sends the running
  count, never resets it, and the server adds it: after reports at polls 1, 2 and 3 it usually holds 6
  or more. It is not even at least the polls of the newest report once two sendings have overlapped:
  one of them is given up, both read the same count, and the older one stores last. A report may also count three polls more than its gauges show (`CountAhead`).
- *`SentUnlessAllTried` has an escape*: with a hash key and encryption together every batch is
  refused (the hash is made before the encryption, and checked before the decryption), the agent
  takes 400 for success, and logs "All collected metrics are sent" at the end.
- *The mutex of agent.go:41 is never locked.* `ReportsSound` holds in spite of it, because the new
  array is complete before the header is stored; what is left is the torn header at the first poll.
- *A report that RSA cannot encrypt ends the agent*, without the last report: `SignalFlushes` speaks
  of agents that end without an error.
- *The gauges can step back* (`NoStepBack`), by a sending that arrives after it was given up.
- *The tries of a report fall into one moment*: the waits between them are one to five nanoseconds
  (agent.go:87-88), so that the case "all tries failed" is the normal one in an outage.

- *A batch can take what it was not sent* (`TakenAsSent`): an item without a name, or a counter without
  its delta, takes what an earlier batch has left in the object at its place.
- *The answer need not be what was sent* (`AnsweredAsSent`): the map is read again after the store, and
  another request may have set the gauge in between. For a counter the handler of the URL then follows a
  nil pointer, after it has counted (server.go:360): `PanicsExplained` says that this, and numbers that
  are left out, are the only reasons for a panic.

On the side of the server, `UpdatedAtMostTwice` is the best `PgStorage` gives: an update whose
answer is lost is added again. And `BatchWhole` has to exclude batches whose context has ended: such
a batch is committed up to some item (`BatchPrefix`), the client is told that it failed, and sends
it again.

## The theorems

All are theorems of the specifications without fairness, for every value of the constants that
satisfies the module's assumption. Module by module:

*MemStorageProofs.* `TypeInvariant`, by `Shape`: types, and that a handler at work on an item is
at one its request has (`AtItem`), without which the item a step looks at has no type.
`ProvenanceInvariant` and `NoDoubleCountInvariant`, by `Origins`: what the map, the file and the saves
hold was made for that name, and so was the base each handler has read (`BaseTraced`); a request
that is about to store has not made its write yet, hence it is in no base.
`ExactUnlessRacedInvariant`, by `Counted`: as long as a name has not been raced for, a handler between
load and store has as its base all that has been added (`Exact`), so its store makes the sum exact.
`PanicsExplainedInvariant`, by `Panicked`: every entry of the map, the file and the saves was made by a
write of its name and type (`Justified`), and an entry that a handler has looked up is not gone when it is
read (`Met`), so the nil pointer a handler follows is its own item's or that of an entry made for a gauge.
`ShutdownSavesInvariant`, by `Closing` and `Closed`: from the moment
main saves there are no handlers left, so the text it marshals is the whole map, and it is what the
file holds unless a save failed or the backup goroutine has truncated the file since.

*AuditProofs.* `TypeInvariant`, by `Shape`: a process that does not run has no logger, no entries
and no handlers (`Stopped`). `AuditedFirstInvariant`, by `SentFirst`: who updates has sent.
`AuditLagInvariant`, by `Accounted`: every entry sent is in the channel, in the logger's hand, in
the file or skipped; so what is applied and not in the file is at most what the channel and one hand
hold. `AuditOrderInvariant`: `AuditOrder` is itself what each step keeps, but only on top of `Fresh`: a
batch is sent once (`SentOnce`), and the logger sees only what was sent (`FromSent`). Without it a write
that fails would skip an entry that stands in the file as well, and the order would be lost at once.
`PostedFollowsFileInvariant`, by `Followed`: while the logger has written an entry and not posted
it, the entry is the last one of the file, and neither before it there nor among what was posted
(`Written`), so that posting it appends the same entry to both sides.

*PooledUpdateProofs.* `TypeInvariant`, by `Shape`: types, that the requests at work are
finitely many (`FiniteLoad`), of which cardinalities need to know, and how many items a handler has
stored and read again at each of its places (`Counted`). `PoolBoundedInvariant`: `PoolBounded` is inductive
on top of `Shape`, since every Get that takes from the queue cuts it to one. `TakenAsSentInvariant` and
`SingleMissingAddsNothingInvariant`, by `Fed`: an object is of the kind of its requests (`Kinds`); who
holds an object together with another is in `shared` (`Alone`); an object of a single update that nobody
holds has no name and no number but zero (`Cleared`); whatever stands in a slot of a group's object was
sent at that place by a request that has used it (`Stemmed`); and for the requests that are alone the
decoded slots have what the body names, and what has been taken is as `TakenAsSent` says (`Exact`). The
set of those who have used an object only grows, so what stems from one of them does so for ever.

*PooledGaugesProofs*, on top of `Fed`. What a gauge reads is decided by who writes to the place it
points to, so the lemmas first say who does: the slots of an object are written by its holders, and by
the one request of a URL whose own it is (`Writers`), and by nobody else while a request is alone with it
(`AloneKept`). `AnsweredAsSentInvariant`, by `Told`: from the store of a gauge to its second read the
gauge points to the slot of the item, unless it is set anew, which `passed` notes; what is read again is
then that slot, and at the answer it still has the item's number, since the object is put back after it.
`UrlGaugeKeptInvariant`, by `UrlSet`: such a gauge points to the object
of a request that is done and that no pool has. `GaugeKeptTillReuseInvariant`, by `Owners` (the one
who got an object last is its only holder, or one that shares it) and `BatchSet`: the gauge points to
the slot of its item, and the slot has the number as long as the batch got the object last.
`GaugesKeptSameLayoutInvariant`, by `Rewritten`: between batches of one layout a gauge reads something else
than it was set to only while a batch that has got the object again is still going to set it again
(`Pending`); the property speaks of quiet states, where that is over, and is not inductive without it.

*MemStorageRefines.* `Refinement`: `Spec => StoreSpec`, by `KeptInvariant`: which items of a request
are in `made` is told by how far its handler is (`Effects`), so each store is a `TakeEffect` of the
next metric, each answer a `Tell` that `MetricStore` allows, and the end of the process a `Crash`.
It needs no absence of races, as a lost update has taken effect. `RefusedLeavesNoTraceInvariant`, by
`Sourced`: whatever is in the map, the file or a save was made.

*PgStorageProofs.* `TypeInvariant`, by `Placed`. `UpdatedAtMostTwiceInvariant`, by `Counted`: the
tries that were sent are bounded by the seconds slept (a third one would come after four), and each
try is committed once at most: in flight, answered or applied. `BatchPrefixInvariant`,
`BatchWholeInvariant` and `OkIsCommittedInvariant`, by `Batched`: the transaction has written each
item at most once (`Once`), in their order (`Prefixed`, of what is pending and of what is
committed), not beyond the item the call is at (`Ahead`), and up to it while the context lasts or as
long as no error was swallowed (`Behind`, `NoError`); nil is told only after a COMMIT and without an
error (`Told`), and a batch whose context has not ended is there whole or not at all (`Whole`).
`CounterIsSumInvariant`, by `Summed`: not only is every row the sum of what was committed for it
(`RowsAreSums`), but every row that a transaction has written is that sum with the statements of
the transaction added (`VersAreSums`). A COMMIT replaces the rows by the transaction's, and would undo
what others have added meanwhile, or be undone by what they commit later, were it not that a row is
written by one open transaction at a time (`HeldOnce`) and by none that is not open (`NonePending`).
Both sums also say that a row without a number has been made so, and that only finitely many items
are behind it (`IsSum`), whatever the number of calls.

*PgStorageRefines.* `Refinement`: `Spec => StoreSpec`, on top of these invariants (`Settled`).
`DbRun` and `DbCommit` are `TakeEffect` or `Again`, the returns are `Tell`, everything else is a
stutter.

*AgentProofs.* `TypeInvariant`, and along the way of a sample: `CountAheadInvariant`, by `Polling`:
each holder of a sample (collector, channel, goroutine, array) is one poll ahead of the next one
(`Pipe`). `ReportsSoundInvariant`, by `Sound` on top of `Making` (the place of main, the reports and
the tries). `SentUnlessAllTriedInvariant` and `NoStepBackHolds`, by `Serving`: what took effect was sent, the client is
told nothing else, and the gauge shown is of some report (`Showing`); `Delivered` follows a report from its
last sending on. `PollCountBoundsInvariant`, by `Bounded` and `Held`: what a sending has read of PollCount
is within the bound that the sendings applied so far give, so the sum it stores is within that of one more;
and as long as nothing has overlapped, what it has read is what PollCount still is, so that its store
only adds.
`SignalFlushesInvariant`, by `Flushed`: from the header on, the report of the last round is as new
as the poll at the signal.

*Sequences and sums.* `AuditOrder`, `PostedFollowsFile` and `CounterIsSum` speak of the entries of a
sequence that are in a set (`Those`, a recursive function), and of the sum over a finite set (the
community modules' `SumFunction`, a recursive function as well). What these compute is proved from
their definitions by induction, and without an operator as a parameter: the subsets of Nat have least
elements (`Least`, from `WFMin` and `NatLessThanWellFounded` of the library), so a set that has zero and with
each number the next one has all of them (`NatSteps`); with the set of the lengths, or sizes, up to
which a claim holds, this gives the principles for sequences that grow at their end (`SeqSteps`) and for
subsets of a finite set (`SubsetSteps`). On them rest the lemmas that the invariants need: appending
one entry appends it to those in the set if it is one of them (`ThoseAppend`), leaving one entry out of
the middle (`MiddleLeaves`), that a function with the defining equation of the sum exists and is
unique (`SumsExists`, `SumsUnique`), that any element may be taken out first (`SumTaken`), and that a sum
grows by what one element grows (`SumGrows`).

*Only model-checked*: liveness (`BackupCatchesUp`, `ShutdownEnds`,
`BatchesAnsweredWithFile`, `CallsReturn`, `AgentEnds`), which fairness and ENABLED put out of the prover's
reach. Every other property of a passing run is the statement of a theorem. The properties that a run
shows violated are refuted on the small instance, which is enough.

## What is not modelled

- The agent's mode that sends metrics one by one through workers (agent.go:136-193, 296-312): main
  asks for batches, and the workers it starts never get anything to do.
- The names and numbers of the gauges the agent collects, and the clock: ticks come at any time.
- Routing, logging, gzip: functions of one request; of the hash and the decryption no more than
  whether a batch passes them (`Agent`).
- int64 overflow of counters, and the text of numbers: numbers are unbounded, gauges are abstract.
- `internal/reset/pool.go`: a wrapper over `sync.Pool` that nothing calls.
- The configuration, the generator of `Reset` methods, the linter, the key generator: sequential
  programs without interaction. Two of their defaults differ from the documentation (the server's
  `-r` is false, not true; an interval written `"300s"` in the server's JSON file is read as 0);
  neither is a state machine.
- Ping: it changes nothing. Closing the database pool at shutdown: no call is left then.

## Plan

Done, in this order: `MemStorage`, `Audit`, `PooledUpdate`, `PgStorage`; then `MetricStore` with both
refinements, checked and proved, `Agent` on top of it, and the theorems of `PgStorage` and `Agent`; then
those of the order of the audit trail, of pooled gauges and of the sums in PostgreSQL, with which every
safety property that a run checks is proved. Left:

1. A refinement of the counters: `MemStorage` keeps the origins of a number, `PgStorage` the number
   itself; a common abstraction of both tables would say when a storage can be exchanged for the other.
2. A module of the server's process: the handlers, the audit channel and a `MetricStore` under one
   shutdown, with the question what is in the storage, the file and the trail when main returns, or starts again.
3. The agent against a server that is shut down and started again, with either storage's promise.
