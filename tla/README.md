# TLA+ models of SupaKernel

SupaKernel offers a subset of Supabase (Data, Auth, Storage, Realtime,
Management) over PostgreSQL and the SQLite family, in processes, workers,
lambdas and browsers. Most of its code is request handlers: asynchronous
functions that talk to a database, a blob store or both, one `await` after
another, without a lock. These models are about what happens between the
awaits (other requests, other instances, interruptions, and the recovery that
follows) and about the pure algorithms whose cases are too many to test: rules,
plans, schema differences, ranges, comparisons.

`PROJECT.json` maps every definition to the lines it models and lists
components, runs, mutants, hazards, findings and theorems.

## Inventory

| Component | State it keeps | Operations | What is hard | What makes it correct | Modules |
|---|---|---|---|---|---|
| Storage `packages/storage` | buckets and object rows with a state column; bytes at staged and final keys | upload, upsert, remove, download, copy, move, bucket operations, list, signed URLs, `recover()` | two stores without a common transaction; racing upserts; interruption at any await; recovery beside requests; a check per way to a path | visible rows have bytes; an upsert replaces only older objects; what was taken away stays away; recovery finishes everything; nobody is shown what the policies withhold | `Storage`, `Objects` |
| Blob adapters `blob-fs`, `blob-s3`, `blob-opfs`, R2 | blobs by key, sidecars | putStaged, promote, open, stat, delete, listStaged | promotion by rename, by copy or by filling a file; ranges; a process that dies in between | an open answers the bytes of the whole body | `Blobs`, `Storage` |
| Auth `packages/auth` | users, sessions, refresh tokens, replay cache, one-time tokens, signing and API keys, rate-limit buckets | sign-up, login, refresh, logout, recover, verify, admin | concurrent refresh of one token; lost answers; revocation during a rotation; transactions that differ per adapter | one live token per family; reuse and logout are final; one-time tokens are used once; an ended session is refused | `AuthSessions`, `Accounts`, `Principals`, `RateLimit`, `Kernel` |
| Database adapters `db-sqlite`, `db-postgres`, `db-pglite` | a connection or a pool, transaction depth | execute, transaction, atomicBatch, close, introspect | one SQLite connection for all requests; no transactions on D1; four pooled connections | what was acknowledged is kept, what failed is gone; nobody waits for itself | `Adapter`, `SchemaPlan`, `SchemaExprs` |
| Realtime `packages/realtime` | outbox rows, dispatcher watermark, per-connection queues and joins | trigger writes, pump, gc, join, leave, token, tick, drain | sequence numbers commit out of order on Postgres; awaits inside a join; queue overflow; restart | each committed change reaches each joined client, in order, or the channel is closed | `Realtime`, `ChangeFeed`, `Policy` |
| Schema `packages/schema` | schema hash, journal and lease tables | parse, normalize, diff, plan, apply, resume | stop between steps on D1; stale lease; hash read before the lease; order of the steps | applying a plan reaches the goal; "safe" loses no column, and no value but where it narrows a type; one runner at a time; a check keeps its meaning | `SchemaPlan`, `SchemaExprs`, `Migration` |
| Policy `packages/policy` | none (pure) | validate, combine, plan, translate to SQL | three-valued logic; three evaluators | every enforcement point decides as the contract is written | `Policy`, `PolicyExprs`, `ThreeValued` |
| Data `packages/data` | none of its own | parse a request, plan, execute, shape the answer | pages at their boundaries; checks before and after a write; no rollback on D1 | the answer is the page asked for; what is left behind passes the check | `Data` |
| Kernel `packages/kernel` | instances by project, disposed flags | create, register, unregister, pump, dispose | creations that meet on one database; requests during disposal | tokens and keys in circulation work; the registry hands out live instances | `Kernel`, `Realtime` |
| Upgrade `packages/schema/src/upgrade` | phase journal, target database and objects | plan, export, import, resume, verify | interruption inside a phase; postconditions that count instead of compare; a source that is written meanwhile | a receipt says complete only if everything arrived; a verified export is of one moment | `Upgrade`, `Export` |
| Management `packages/management` | table of migrations | query, migrations, MCP tools | a migration and its record; two within one second | in effect exactly when recorded | `Management` |
| Gateway | none | order of its checks, routing | – | – | `Principals` |
| Runtimes | browser bridge: pending fetches | fetch, message, dispose | answers in any order, a worker that is not ready | a fetch gets its own answer, once | `BrowserBridge`, `Blobs` |
| Labs | observations, verdicts | normalize, compare, classify, reduce | a difference lost on the way | a verdict is right, a reduction still fails | `Conformance` |
| Contracts, ports | none | types, document parsers, interfaces | – | – | – |

How they interact: a runtime hands each HTTP request to the gateway, which calls
one module. Auth, Data, Storage and Management call a database adapter; Storage
also calls a blob adapter. Data changes reach Realtime only through the outbox
table that database triggers fill. Nothing else is shared inside a process but
the adapter instance, its SQLite connection and a few counters; between
processes only the database and the blob store.

## Storage

`Storage` is one bucket. `upload()` mints a row id, an operation id, a version
and a final key together and never again, so the model numbers them with one
*version*. Each row has a `state` (`none`: no row), a `path` and a `created`
time; each version has bytes at its `final` key (`none`, `empty`, `whole`) and
perhaps at its `staged` key. `created` may tie, because the clock has
milliseconds, and `currentReady()` then returns any of the tied rows.

Each request is a record with a program counter; each `await` of
`StorageService` is an action, so requests interleave exactly where the event
loop may switch. The actions follow the code:

- upload and upsert: `StartUpload`, `ReadPrior` (or `RefuseExisting`), `Reserve`,
  `PutStaged` (or `Unreserve`), `Promote` (`Fill` when the adapter promotes by
  copying into a created file), `CommitReady` (a compare-and-set on the state, or
  `Discard` of the bytes when the row is gone), then `MarkDeleting`,
  `DeleteBytes`, `DeleteRow` of the replaced row, `Respond`;
- remove, download, copy and move: `FindTarget`, then the same deletion, or
  `OpenBytes` / `OpenFails` / `FlagCorrupt`, or an upload to the other path;
- buckets: `CreateBucket`, `EmptyBytes`, `EmptyRows`, `DropBucket` (whose cascade
  takes the rows);
- `Stop`: an await rejects or the process ends; nothing else of the request runs;
- `recover()`: `RecoverStart` to `RecoverDone`, one action per await, over the
  snapshot of rows it reads at the start; `RecoverStop` interrupts it.

Three constants choose the environment. `Adapter` decides whether promotion is
atomic (`fs`, `s3`) and whether deleting a *staged* key removes anything (only
`s3`; the others resolve every key below the final objects). `BlobFaults` lets
blob calls fail transiently. `OnlineRecovery` lets `recover()` run beside
requests; the repository itself calls it on a quiet service.

`newest` and `condemned` are history variables: the newest version that became
ready on each path, and the versions a remove, a bucket operation or an
integrity check took away. No guard reads them.

`Objects` takes a request of the storage routes for one step and says what it
may show: `authorize()` over the rules of a bucket, `list()` (which cuts the page
in SQL before it asks row by row), authenticated and public downloads, signed
links that outlive the rules they were made under, upload, remove and copy as
far as they set owners. `Blobs` is the opposite: the service is left out, and the
adapter is taken apart into the writes of its files, chunk by chunk, with a
process that dies between any two of them, and byte ranges resolved by each
adapter's own arithmetic.

## Auth

`AuthSessions`: a session and the family of its refresh tokens are minted
together, and every token of the family copies both ids, so one number stands
for both. `db` holds the rows: session (`none`, `open`, `ended`), tokens
(session, parent, used, revoked), and the replay cache (child and expiry per
parent). Each SQL statement is an action: `Login` and `InsertRoot`
(`issueSession`); `Begin`, `ReadToken`, `CompareAndSet`, `InsertChild`,
`CacheChild`, `Replay`, `RevokeFamily`, `EndFamily`, `Commit` (`rotateRefresh`);
`SignOut`, `EndTarget`, `RevokeTarget`, `AnswerSignOut` (`signOut`, and
`updateUser` with a new password); `Fail`, where any await rejects; `Tick`. The
last step of a login or a refresh includes its answer, which may be lost.

What a transaction means is taken from `packages/db-sqlite/src/core.ts`. With
`Db = "sqlite"` one connection serves the process: `Begin` remembers the rows in
`saved`, statements of other requests change the same `db`, and a failing
rotation restores `saved`. With `Db = "d1"` every statement commits by itself,
and several instances are at work. Either way an instance refuses a second
transaction while one is open. `given`, `answers`, `signedOut` and `reused` are
histories of what clients were told; clients present only tokens they were given.

`Accounts` and `Principals` meet the same connection: the transaction of another
request (a refresh, a write of the Data API) may begin, commit or roll back beside
their statements (`OtherBegins`, `OtherCommits`, `OtherRollsBack`; `RotationBegins`,
`RotationCommits`, `RotationRollsBack`). A rollback takes along what they did since
the beginning: a user whose deletion was answered is there again, an ended session is
open, the row of a spent token is back. `restored`, `revived` and `undone` are
histories of that. A behaviour without such a transaction is one of D1 or PostgreSQL.

Around it: `Accounts` (sign-up, one-time tokens, change of address, verification,
the administration of users: who may get a session at all), `Principals` (the
gateway's checks, the access token and the look at its session's row, the
requests that end sessions), `RateLimit` (the token bucket, in parts of a token),
`Kernel` (signing and API keys made by creations that meet on one database, then
registration, requests, disposal and loss of an instance).

## Database

`Adapter` has the four adapters behind one interface: the shared SQLite
connection with its `txDepth` and a lock other processes may hold, D1's sequence
of autocommits, the Postgres pool, and PGlite, a pool of one. A transaction's
callback may read outside it (as `mintAccess()` does), which on a pool waits for
one more connection.

`Data` follows a request of the Data API from its parsed URL, headers and body
to the answer: plan under the policies, the statements one by one (count, page,
embedded rows; candidates, check before, write, check after), commit or throw,
and the status. The check before an insert sees the body as it was given: a column
that it leaves out is undefined there, which a check may pass, and gets its default or
its merged value only with the statement. `Policy` is how rules combine: the plan that the data layer
applies on SQLite, the native policies generated for PostgreSQL, and the
decision Realtime takes per event. `PolicyExprs` is the expressions below them
in the three evaluators, and `ThreeValued` SQL's logic.

`SchemaPlan` reads the DDL of two schemas, diffs and plans, applies the plan to
tables that may have rows, and reads the database back. The types of columns are
integers of both widths, `float8` (which stands for `numeric` too), text, `timestamptz`,
`date` and an enum; which casts PostgreSQL has and which of them keep every value is
external (`Castable`, `Lossless`). A column's values are `written` until a cast cuts
them, and the enum types of dropped tables stay behind. `SchemaExprs` follows
the expression of a CHECK from the parser's tree through the portable `Expr`,
each dialect's text and the catalogue back to an `Expr`. `Migration` is
`applyMigration()`: hash, lease, journal, steps and postconditions, runners that
stop anywhere and leases that go stale. `Export` reads a source table by table
while it is written to; `Upgrade` plans an import, runs its phases with their
postconditions, is interrupted and resumed, verifies and writes the receipt.
`Management` has the statements of database/query and database/migrations: a body
reads, writes with a word of the list that `read_only` refuses, writes without one, or
holds several statements; only PostgreSQL has a transaction that is read only, SQLite and
D1 refuse a second transaction while one is open, and PGlite makes it wait.

## Realtime and its refinement

`Realtime` has writers whose triggers put rows into the outbox (sequence numbers
handed out when the trigger fires, on SQLite rolled back with the transaction,
on Postgres not), the dispatcher (`PumpRead`, `PumpAnswer`, `PumpFail`, `Gc`,
`CheckDrift`), connections (joins and tokens that wait for `verifyToken()` in
`flight` while other frames and changes pass, leaves, expiry, a queue that
overflows), and the kernel's draining, disposal and restart. `Sees` says which
principals receive which kinds of change; how policies decide that is in
`Policy`.

`ChangeFeed` is what the dispatcher promises: committed changes are handed out
in the order of their numbers, none before every smaller one, and only a restart
goes back. `Realtime` implements it under the mapping `Ids <- Seqs`,
`last <- handed` (`log` and `seen` have the same names): the property `FeedSpec`.

Fairness: weak fairness of `PumpRead` and `PumpAnswer` for each loop. A host
calls `pumpRealtime()` on a timer, and a query that was sent is answered or
fails; `PumpFail` is bounded by `MaxFaults`, because a database that never
answers again delivers nothing. Clients, writers, garbage collection and faults
are under no fairness. `Delivered` holds with this alone: an owed change leads to
its delivery or the end of its channel, unless publishing is disabled or the
kernel goes down. The other modules assume no fairness and claim no liveness:
their operations are finite chains of awaits that a client may abandon anywhere.

## Runs

| Run | Result | What it shows |
|---|---|---|
| `storage_replace` | holds | `TypeOK`, `ReadyBacked`, `NewestStands`, `RecoveredClean`: two requests that upload, upsert, move, remove and download, one path, three uploads, file-system adapter, recovery between requests |
| `storage_bucket` | holds | `NoResurrection`: upserts against bucket operations on OPFS with transient blob errors, recovery beside requests |
| `storage_retry` | violated | `RetryNotDuplicated`: an upsert interrupted after its commit and retried leaves two ready rows |
| `storage_empty` | violated | `ReadyBacked` with `emptyBucket`, which deletes bytes before rows |
| `auth_d1` | holds | `OneActive`, `SameChild`, `SignedOutStays`: two isolates, two sessions, no transactions, stops anywhere |
| `auth_sqlite` | holds | `ReuseKills`, `RetryGetsChild`: three requests of one session, shared connection, rollbacks, the grace window passes |
| `auth_logout` | violated | `SignedOutStays` on the shared SQLite connection: a rollback of somebody's rotation takes an answered logout with it |
| `auth_reuse` | violated | `ReplayKills` on D1: a family is revoked while another isolate's rotation is about to insert its child |
| `realtime` | holds | `NothingSkipped`, `FeedSpec`, `Delivered` on SQLite: one connection, changes of two kinds, faults, restart |
| `realtime_gap` | violated | `NothingSkipped` on Postgres: the watermark passes a number that commits later |
| `serving` | holds | the machines behind a request: `Kernel`, `Accounts`, `Principals`, `RateLimit`, `Adapter`, `Management`, `Storage` (upserts and moves on one path of an S3 store, recovery beside them), `Blobs`, `BrowserBridge` |
| `database` | holds | what lies between a schema and its rows: `Policy`, `PolicyExprs`, `Data`, `Objects`, `SchemaPlan`, `SchemaExprs`, `Migration`, `Upgrade`, `Export`, `Conformance` |

The last two runs check several machines in one search: the variable `part` says
which machine a behaviour is of, and the others rest. `MCServing` extends its
machines and `MCDatabase` those that have theorems (`Policy`, `Data`, `Objects`,
`SchemaPlan`, `Migration`, `Upgrade`, `Export`); a machine at rest stays in an initial state of its
own, so that the properties the runs check are the ones the theorems state.
`MCDatabase` instantiates the other machines, switched off while they rest, and
claims their properties of their own part. Nothing passes between parts; the search
is the sum of the searches, and the instances are small enough for that.

What the properties of the two say:

| Property | Says |
|---|---|
| `ProjectsServe` | creations that meet, fail, register and dispose leave tokens that verify, one instance whose API keys both work, and no disposed instance in a registry |
| `SpentForGood`, `NoGhostSession` | a one-time token a verification was answered for starts no other; a user whose deletion was answered gets no session; either may be brought back by a rollback of another request's transaction, which is named |
| `EndedRefused`, `PasswordEndsOthers` | an access token is refused once the end of its session was answered; a new password ends every other session open when it was written; but for sessions such a rollback has opened again |
| `Throttled` | no more attempts pass since any tick, and so in any stretch of time, than the capacity and what came back |
| `KeptOrGone`, `StallsOnlyOutside` | what was acknowledged is kept, nothing of a failed transaction is; requests wait for each other only when each transaction wants one more connection |
| `RecordedIffApplied` | a migration of the Management API is in effect exactly when it is recorded, under a version of its own; a query that is read only writes nothing on PostgreSQL, and elsewhere only by a statement that the list of words lets through |
| `LiveStagedKept`, `ReapedGone` | a recovery beside requests collects no staged bytes of an upload whose row stands; what it counts as deleted is gone for good (claimed of S3, where alone it deletes) |
| `ShownAsAllowed` | an answer shows the objects the policies, or a signed link, allow |
| `ReadsTrue` | an adapter answers exactly the bytes asked for of the whole body, whatever was interrupted |
| `AnsweredOwn` | a fetch of the page is settled once, with its own answer |
| `RulesDecide`, `EvaluatorsAgree` | rules decide as the contract is written, on Postgres as on SQLite and for Realtime; the three evaluators agree |
| `AnswersTrue`, `ChecksHold` | a select answers its page, count and embedded rows; a row that is left behind passes the check, but for the rows of an incomplete body that D1 refuses too late (`LeftOnD1`) |
| `Converges`, `SafeKeeps`, `CheckKept` | a plan reaches its goal, and a safe one can be applied to empty tables, but for the changes of `Refused`; a safe one takes no column away and cuts values only where it narrows their type; a check keeps its meaning on the way through a database |
| `PlanCarriedOut`, `OneMigrating` | the hash claims no more than the schema shows and a stopped plan can go on; one runner at a time holds the lease |
| `SnapshotOrRefused`, `ReferencedFirst`, `ReceiptTrue` | a verified export is of one moment, tables after those they reference; a complete receipt is true |
| `LabVerdicts` | the laboratory blocks on every difference, its normal form is unique up to renaming, its reduction is minimal |

Where the code is known to do otherwise, the property names the case and leaves
it out (`KnownLimit` in `Blobs`, `InPart`, `Refused` and `Narrowed` in `SchemaPlan`,
`LeftOnD1` in `Data`, `restored` and `revived` in `Accounts`, `undone` in `Principals`, the `apart`
of `SchemaExprs`, the exclusions of `EvaluatorsAgree`); each names what the code
does there.

### Bounds

- Storage: each property is about at most two rows of a path and one request
  that disturbs another, so two requests and three uploads (an object, its
  replacement, and a retry or a rival) reach every case; two uploads suffice
  where recovery runs beside requests, because a version is condemned and revived,
  and its staged key collected, by itself. These runs check deadlock.
- Auth sessions: forking a chain takes two requests with one token; two sessions
  are there for the scopes of a logout. In `auth_d1` the clock stands: families
  are still revoked there, because a rotation that stops half-way leaves a used
  token without a cached child. `auth_sqlite` has four tokens and three clock
  values, so that chains of three rotations see both sides of the window.
  `RetryGetsChild` is not claimed for D1, where a torn rotation is reachable.
- Realtime: a page of one row, a queue of one event and two sequence numbers make
  every boundary (next page, overflow, what is behind the watermark) happen; one
  token that may expire beside the key's principal; one fault. The gap needs two
  writers, which `realtime_gap` has.
- `serving`: two requests or calls (three on a pool of two, where the third must
  wait, and three fetches), one one-time token, which two verifications may present,
  two sessions, one rollback of another request's transaction, two uploads to one
  path, bodies of up to two bytes, so that a range meets the first byte, the last and the one after; a bucket
  of two tokens that gets back two thirds of a token per tick, for five ticks, so that
  it is empty, partly filled and full.
- `database`: sets of up to three rules; expressions with two connectives; two
  requests on three primary keys; two plans in a row, so that a plan meets what
  its predecessor left; two runners, of which one that failed comes back (the
  theorems are of any number), of a plan with a step that fails when it is repeated
  and one that does not; two of everything an upgrade carries where a
  count may be mistaken; three tables in every graph of references; two named
  objects under four sets of storage policies, listed in pages of one row, so that
  LIMIT falls on a row that may not be read; JSON values two levels deep.

Every `Max...` constant is such a bound and guards the action that would pass it.
The runs of services check no deadlock: a service whose tokens are spent, or that
nobody calls, is at rest.

## Proofs

Eight modules hold 38 theorems. Each is of the whole specification of its
module, `Spec => []Property` for every value of the constants, under the named `ASSUME` of
that module; where a theorem has one more hypothesis it is in its statement and
explained here. Every `ASSUME` is evaluated by a run.

A theorem is of its model, and a model has premises beside its `ASSUME`, which its
header states:

- one statement is one step, and so is what a database does with it (the definitions
  that `PROJECT.json` marks external);
- in `Storage`, `Objects` and `Kernel` every statement commits by itself. On the
  connection a SQLite process shares, it may join another request's transaction and
  go with its ROLLBACK; `Adapter` (in general), `AuthSessions`, `Accounts` and
  `Principals` (for what they are about) have those rollbacks, the three do not, so
  their theorems are of D1, of PostgreSQL, and of SQLite while no foreign transaction
  rolls back;
- `Realtime` takes a pump to see committed rows only: on SQLite, a transaction that
  changes captured rows awaits nothing but synchronous drivers, so that no timer
  starts a pump inside it.

Only few of the properties are inductive. The paragraphs say what had to be added
and why.

**Storage** (`StorageProofs`)

- `StorageTypeCorrect`: writing `state[v]` keeps its type only if `v` is a
  version, so `Targets` says that a request about to write names one.
- `StorageNewestStands`, when recovery runs on a quiet service: for every adapter
  and all operations. `OrderInv` is about ownership. A request owns the version
  it uploads until the commit, and nobody looked it up (`Own`, `Distinct`); rows
  that were looked up have been visible (`Found`); what an upsert may delete is
  older than the newest version of its path, and what a remove may delete is
  condemned (`Retire`); versions not yet handed out have left no trace
  (`Unused`, `Staging`); recovery is alone and its snapshot stays accurate
  (`Recovering`). The decisive step is `CommitReady`: the version that becomes
  ready may be older than the newest (a slow upsert), and only `Retire` keeps it
  from hiding the newer one.
- `StorageReadyBacked`, under `SafeProfile`: nobody empties the bucket, recovery
  is on a quiet service, and promotion is atomic. Each conjunct is needed:
  `storage_empty` shows the first; a recovery that aborts a live upload, and a
  promotion that first creates an empty file which a recovery then takes for
  complete, break the others. `BytesInv` adds that bytes are whole before the
  commit and are deleted only behind a hidden row.
- `StorageNoResurrection`, an action property, in every profile, with recovery
  beside requests and failing deletes. A version that was looked up, condemned or
  listed by a recovery is beyond staging (`Seen`), and only a row in staging
  becomes ready; a version is in staging only while its own upload has not yet
  gone on (`Reserving`, `NoTrace`).
- `StorageRecoveredClean`, under `CleanProfile`: no bucket-wide deletes and no
  failing deletes (both leave final keys without a row, which `recover()` does not
  look for), and recovery on a quiet service. `Accounted` follows recovery
  through its stages: no row in an intermediate state is outside what it still
  has to do; `Owned` and `Tidy` say that requests that stopped left no bytes
  without a row for it.
- `StorageLiveStagedKept`, in every profile: a version is uploaded by one request
  (`Apart`), which alone makes its row staging and takes its staged bytes away, and
  the collection spares a key whose row stands (`StagedInv`).
- `StorageReapedGone`, on S3 when its calls do not fail; the other adapters count
  what they do not delete, and a failing delete is counted too. What recovery has
  listed or reaped had been written (`Touched`), so an upload that is still to write
  has a version it has never come upon (`GoneInv`).

**Auth sessions** (`AuthSessionsProofs`)

- `AuthTypeCorrect`, on SQLite and D1.
- `AuthOneActive` and `AuthSameChild`, on SQLite and D1. `ChainInv` is what the
  compare-and-set on `used_at` buys: the request that used a token up owns the
  family, which has no live token until that request inserts its child
  (`HeldInv`, `Apart`), and a cached child never changes (`AnswerInv`). On SQLite
  any statement may be undone by a ROLLBACK, so `TablesInv` and `AnswerInv` are
  claimed of the tables and of the remembered ones, and `TxInv` of which requests
  are inside the transaction.
- `AuthSignedOutStays` on D1: `EndedInv` follows a logout through its targets. It
  is false on SQLite, where `auth_logout` refutes it, hence the hypothesis.
- `AuthReuseKills` and `AuthRetryGetsChild` on SQLite: `TornInv` says how far a
  rotation has come (`Halfway`) and that outside it every used token has its child
  in the cache, before and after a rollback. Both are false on D1 (`auth_reuse`,
  and a rotation that stops half-way).

**Accounts, principals and limits** (`AccessProofs`)

- `AccountsSpentForGood`, `AccountsNoGhostSession`, with any number of rollbacks of
  other requests' transactions: a token answered for has no row, unless it was
  revived, and no later row takes its number (`TokenInv`); what is inserted late has an
  id of its own, so a deleted user is not there unless restored (`CallOf`,
  `LoginInv`). A rollback goes back to rows that fit together and know no user that
  is still to be inserted (`SavedInv`); without that, the user a sign-up inserts could
  be one whom the rollback had brought back.
- `PrincipalsEndedRefused`, `PrincipalsPasswordEndsOthers`: a session whose end was
  answered is over until a rollback opens it again, which takes it off `dead`
  (`Over`, `DeadInv`, and `BeforeInv` for the rows a rollback goes back to); of a list of
  sessions, what has left it is over or has been undone since (`ListOf`), and what a
  password change must end is on its list (`OthersOf`), although others sign in and out
  meanwhile; a request that came after the end is refused by its look at the row, unless
  the row was opened in between (`LateOf`).
- `RateThrottled`, for any capacity and refill: what was let through since a tick
  and what the bucket holds now are together within the bound (`Share`). `Throttled`
  alone is not inductive: what a bucket still holds is yet to be let through.

**Kernel and bridge** (`KernelProofs`)

- `KernelProjectsServe`: a ring is never ahead of the table of signing keys and
  grows with it (`RingInv`); of the API keys the latest deletion decides, and its
  creation keeps what it inserts (`KeeperInv`: with two keys to insert, "somebody
  has both" is not inductive, "somebody deleted last and has what it has inserted"
  is); an instance is disposed of only by an unregistration that then clears the
  registry (`RegistryInv`).
- `BridgeAnsweredOwn`: ids are used once (`IdInv`), so a message with the id of a
  fetch is its own (`OwnInv`); a call made after "sk-ready" is in one of three
  places on its way (`AnswerInv`), which needs that the worker listens by then
  (`ListensInv`).

**Adapters** (`AdaptersProofs`)

- `AdapterKeptOrGone`, `AdapterStallsOnlyOutside`, for every adapter and any pool:
  a transaction has one connection to itself, which holds all it wrote and
  otherwise only what was acknowledged (`OwnInv`, `WritesInv`); a connection has
  one transaction, the depth counter says so (`HolderInv`, `DepthInv`). The
  exceptions of the shared connection and of D1 are part of the properties.
- `BlobsReadsTrue`, for the four blob adapters: an upload is begun once, so nobody
  else touches its staged bytes (`AloneInv`); each place of a call says how many
  bytes stand where (`Sound`); an object has the length of its body, or is OPFS's
  file before it is filled (`ObjectInv`); what an answered open shows is settled by
  the length at the time it looked (`ShownInv`). The arithmetic of the ranges of
  each adapter is done there too, for bodies of any length.

**Schema** (`SchemaProofs`)

- `MigrationOneMigrating`, `MigrationResumable`, `MigrationOnRecord`, and
  `MigrationCarriedOut`, which is `PlanCarriedOut` for plans without comments (a
  comment step has no observable effect, so the hash promises nothing of it; the
  other three are of every plan). The lease does not exclude a runner that lost it
  while paused; `CarriedInv` says why that is harmless: what a runner has passed
  over is in effect, and nothing that is in effect ever goes.
- `PlanSafeKeeps`, for any two schemas, renames and rows, on either dialect, whose
  constraints are of the four kinds the DDL has (`PlanAssumption`): the risk of a plan
  looks at the kinds of its changes only, so the proof goes through the kinds and finds
  that what the statements of one that is not destructive do leaves every table and
  every column (`EffectShape`). Only a change of type touches values, and it cuts them
  only in a column whose type is narrowed from the one it had at the start: of one
  column there is one such change (`AlterIs`), and until it is made the column has its
  old type (`AltersInv`), so that what is lost is what `Narrowed` names (`CastKeeps`,
  `StillThere`). `StepsInv` keeps the kinds and the tables of the steps that are left,
  `ValuesInv` the values that the plan started from; after a rollback they are those it
  started from.
- `UpgradeReceiptTrue`: counts never exceed the bundle's (`ArrivedInv`); a plan
  goes ahead without a mapping only on a target without tables, so the tables
  there are the import's (`PlanInv`); nothing is written behind a receipt
  (`ReceiptInv`).
- `ExportSnapshotOrRefused`: between the last row read and the first fingerprint
  there is a moment that no row read is ahead of and no fingerprint is behind
  (`MomentInv`); if rows and fingerprints agree they are that moment's.
- `ExportReferencedFirst`, for any graph of references: Kahn's order exists and is
  determined place by place, and once no table is ready, those that are left are
  each on a cycle or behind one. The sets of the property's second case are built
  from exactly what is left at that point.

**Rules** (`RulesProofs`): what a policy, an object request and a data request
come to.

- `PolicyRulesDecide`, for any rules of any clauses, rows and columns. The state
  needs only that deployed rules are valid (`PolicyInv`); the argument is about the
  connectives: a conjunction is true when all of it is, a disjunction when some of it
  is, and a clause that is not given drops out of both (`ClauseTrue`). From there
  `DecidesOnTyped`, `SameOnTyped` and `EventsOnTyped` compare the combined plan with
  the contract, with the generated PostgreSQL policies and with what Realtime shows.
- `ObjectsShownAsAllowed`, for any policies, paths, links and pages. That pages of
  any size cover the whole listing (`PagesCover`) is arithmetic on the number of rows
  up to a name: each name has a page (`SomePage`), found as the least number whose
  page reaches it.
- `DataChecksHold`, on each family, for any rows, policies, requests and
  interleaving. The property is of answered requests; `DataInv` says of each place of a
  mutation what has been checked by then (`CheckedOf`), and what holds only until
  another request writes is claimed only until then. A step of one request leaves the
  others' records alone or marks them as raced (`OthersUndisturbed`). The check before the
  write sees bodies that may lack columns, so it proves nothing of the row the statement
  makes; what carries the property is the check afterwards, and on D1, where that one
  cannot undo, that a complete row was checked as it is written.
- `DataAnswersTrue`, from the same invariant: a select's count, page and embedded
  rows are three statements, and `SelectOf` keeps what each has found until the table
  changes. The page itself is a lemma about listing finite sets in a strict total
  order: a key's place in the list is the number of keys before it (`SortedPlaces`),
  so the cut list is the window (`WindowIs`), and the status follows by arithmetic for
  every limit, offset and inclusive range, those past the end included.

**Management** (`KernelProofs`): `ManagementRecorded`, on every dialect. The
property speaks of what is committed; `CarriedInv`, `EffectInv` and `RowsInv`
follow what a request still carries up to there, where D1 differs, and what statement
a request was admitted with.

**Realtime** (`RealtimeProofs`), on SQLite, where one writer at a time makes the
changes commit in the order of their numbers; on Postgres `realtime_gap` refutes
the first theorem.

- `RealtimeNothingSkipped`: what a channel is owed is ahead of the watermark and
  in the outbox, and no page on its way passes it over (`OwedAhead`), also when
  loops overlap.
- `RealtimeFeed`, the refinement: `Spec => FeedSpec`. Each step of `Realtime` is a
  step of `ChangeFeed` or a stutter. It needs `Kept` (what left the outbox or is
  behind the watermark has been handed out) and `Whole` (a page that was read
  lacks nothing up to its last row), and the hypothesis `OnePump`: pumps that
  overlap may hand a page out again after a later one. A host that awaits a pump
  before the next (the Workers example) meets it; one with a timer (Node, Bun, Deno)
  does while its queries are faster than the timer, and otherwise has only the first
  theorem.

What stays with TLC:

- liveness (`Delivered`): liveness under fairness is out of the prover's reach;
- what recursive definitions compute for every input, which takes induction over
  data: expressions and trees (`EvaluatorsAgree`, `CheckKept`, `LabVerdicts`). Where
  the code's recursion or loop yields a list, `Data` and `Export` define the list by
  what stands at each place instead, and the proofs use a least counterexample where
  an induction was meant;
- `Converges`, which is not of every pair of schemas: what `InPart`
  and `Refused` leave out is what the checked schemas meet. In general more would
  have to be left out, such as a constraint that is added under the name of one
  that is kept under another name in the goal, or a column of a primary key that
  is made nullable; and the DDL would have to be known to be well formed (keys and
  references that exist, names that are used once);
- the type invariant of `Realtime` beyond the parts `FeedType` names.

## Disagreements found

1. An interrupted and retried upsert leaves two ready rows
   (`storage_retry`, `service.ts:303`), though the fault tests say a retry must
   not duplicate the object.
2. `emptyBucket` shows metadata without bytes (`storage_empty`,
   `service.ts:198`), against contract section 22.
3. On SQLite a rollback undoes an answered logout (`auth_logout`,
   `core.ts:141`), against contract section 12.2. The same rollback undoes a new
   password's revocations and a deletion of the user: one that is answered while a
   refresh of that user awaits the hash of its new token makes the INSERT of the child
   fail on the foreign key, and the ROLLBACK brings the user and the sessions back.
4. On D1 a replay outside the grace window may leave a live token
   (`auth_reuse`, `session.ts:164`), against contract section 12.3. The child's
   session is over, so its access tokens are refused, but it can be rotated on.
5. On Postgres the dispatcher's watermark may pass a sequence number whose
   transaction commits later (`realtime_gap`, `dispatcher.ts:80`); its change is
   never sent, against the guarantees at the head of `dispatcher.ts`.

Smaller ones are stated where a property leaves them out, and in the notes of
`PROJECT.json` under hazards. Among them:

- a `read_only` query may write: the list of words (`query.ts:20`) has no REPLACE, and
  the SQLite adapters ignore `readOnly` (`core.ts:104`);
- on D1 an insert with an incomplete body that fails the check is answered 403 and
  leaves its row (`execute.ts:216`);
- a plan that narrows a type is "safe" (`plan.ts:303`), and PostgreSQL refuses some
  safe changes of type even on empty tables: a cast it has none of, a default of text
  that the new type cannot take (TYPE comes before DROP DEFAULT, `plan.ts:301`), a
  check or key that makes no sense of the new type.

## Not modelled

- Storage and kernel: a statement of theirs that is undone by the ROLLBACK of another
  request on the shared SQLite connection.
- Storage: the canonical form of a path, MIME types; `move()` removing an object
  that replaced the one it copied (the source is looked up again after the copy).
- Auth: anonymous sign-in, bans, identities, audit log, the rehash of a password
  at sign-in, a mail that is lost when two verifications of one token succeed.
- Realtime: the text of a
  binding's filter, the name pattern by which `checkDrift()` counts triggers.
- Kernel: the installation of the schema, which is reset-on-install and runs once
  per database; requests whose adapter is closed under them are answered with an
  error and no more is said of them.
- Data: text search and JSON operators, the OpenAPI document.
- Schema: views, generated columns, the text of the DDL, messages.
- Upgrade: the archive's format, the import of a legacy signing key.
- Host glue, drivers, error translation, generated API types, scenarios of the
  laboratories, the command line and release scripts: I/O, tables and wiring.

## Plan

The model is as wide as the code allows, and every safety property of requests that
interleave has its theorem. What is left:

1. `Realtime`: `TypeOK` and the state of a channel, as a theorem.
2. `SchemaPlan`: well-formed schemas as an assumption, and what its two exclusions
   leave out in general, so that `Converges` can be proved;
   `Conformance`: its algorithms by place rather than by recursion, as `Export` has
   its order.
3. Storage: a recovery beside live uploads, once the code guards `recover()` with
   the row's state; then the hypothesis of `StorageReadyBacked` can go.
