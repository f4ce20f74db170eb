# Verification of wee-events-go

wee-events-go is an event sourcing library. An *aggregate* is a sequence of
events in an *event store*; an *entity* is the state a reducer makes of them; a
*command* is handled by a function that publishes events. The library has three
event stores, on DynamoDB, EventStoreDB and NATS JetStream, behind one
interface, `we.EventStore` with `Load` and `Publish`. Everything hard is there:
the stores are what concurrent publishers, of several processes, agree through.

This directory holds TLA+ models of the stores, of the service on top of them and
of the two put together, TLC runs that check them on small instances, and TLAPS
proofs about the three stores, the service, and the service on DynamoDB, for every
instance.

## The system

| component | state | operations | interacts with |
|---|---|---|---|
| event store contract, `we/event-store.go` | a log of change sets per aggregate | `Publish` (with or without `ExpectedRevision`), `Load` | implemented by the stores, called by handlers and loaders |
| revision generator, `we/revision.go` | last ULID, entropy, a lock | `NewRevision` | the wall clock; shared by the goroutines of a process |
| DynamoDB store, `stores/ds` | per aggregate: change set items and a `latest-revision` item | `Publish` (transaction, retried), `Load` and `Remove` (paged queries) | DynamoDB, revision generator, `retry.Do` |
| EventStoreDB store, `stores/esbs` | none; streams in the server | `Publish`, `Load` (paged) | EventStoreDB |
| JetStream store, `stores/jetstream`, `internal` | none; one stream in the server | `Publish`, `Load` (consumer) | NATS JetStream |
| entity service, `we/service.go`, `dispatcher.go`, `renderer.go`, `entity-loader.go` | none | `Load`, `Execute` | a store; command handlers and reducers |
| HTTP connector, `connectors/wehttp`, `we/resource-encoder.go` | none | GET, POST `/{type}/{key}` | entity service |
| counter sample, `samples/counter` | the counter | increment, decrement, randomize | service, HTTP connector |
| set-up, telemetry, names and conversions, initializer | none that matters here | | |

What makes them correct:

- **contract**: change sets are recorded whole, in one order per aggregate; one
  published with an `ExpectedRevision` directly follows the change set that
  carries it.
- **generator**: revisions are unique, and increase within a process while its
  clock does not go back.
- **stores**: they implement the contract; no update is lost; a load is what
  the log was at some moment; what `Publish` returns is what happened; the
  revision a load returns is one `Publish` accepts; every call returns.
- **service**: a reply shows the command it answers and what was recorded
  before it, and shows each command once; what a handler published takes effect
  in order and once, all of it or, with an error, a first part; every request is
  answered.

What makes it hard: publishers in several processes whose clocks differ;
requests whose replies are lost after they took effect, or which take effect
after their sender gave up; retries; queries that are eventually consistent and
come in pages while others write; restarts in the middle of a call; a generator
that goroutines share between reading the clock and using what they read; a
command that is a load, several publications and a load again; a revision that is
a number to one side and a string to the other. `PROJECT.json` lists these
hazards line by line under `hazards`.

## The modules

| module | what it is |
|---|---|
| `EventLog` | the abstract specification: what a store promises |
| `RevisionGenerator` | `we.RevisionGenerator` and the wall clocks |
| `DynamoEventStore` | the DynamoDB store, request by request; extends `RevisionGenerator` |
| `DynamoEventStoreProofs` | its theorems: types, the event log, lost updates, what `Publish` returns |
| `DynamoOrderProofs`, `DynamoRemovalProofs` | its theorems about the order of change sets and loads, and about removal; each extends the one before |
| `EsdbEventStore`, `EsdbEventStoreProofs` | the EventStoreDB store and its theorems |
| `JetStreamEventStore`, `JetStreamEventStoreProofs` | the JetStream store and its theorems |
| `EntityService` | HTTP connector, service, dispatcher, loader and renderer, between the calls they make of a store |
| `Counter` | the sample application: commands, events, handlers, reducers |
| `ServiceOnLog` | the service on a store that does what `EventLog` promises: the abstract specification of the service |
| `ServiceOnLogProofs` | its theorems |
| `ServiceOnDynamo` | the service on `DynamoEventStore`, and its refinement of `ServiceOnLog` |
| `ServiceOnDynamoProofs` | that refinement proved, and what it says of loads, replies and the order of commands; extends `DynamoOrderProofs`, instantiates `ServiceOnLogProofs` |
| `InductionLemmas` | lemmas for the proofs: induction and recursion on numbers, and sequences that are concatenated or grow |
| `MC...` | instances of the modules for TLC |

The stores follow one pattern. A *client* is a goroutine: `call[c]` is the call
it is making with its local variables, `loaded[c]` what its last `Load`
returned, `outcome[c]` how its last `Publish` ended. A call is a sequence of
atomic steps, each a request to the server or a use of shared memory, and
everything else may happen between two of them. `UsesOf[c]` says what a client
does: load, remove, and publish with no `ExpectedRevision` (`"any"`), with the
initial revision (`"initial"`) or with the revision it loaded (`"loaded"`).
`log` is a history variable: the change sets in the order of their commits.
`Contract == INSTANCE EventLog` maps it to the abstract log.

A call may also be given up: its context ends (the HTTP connector passes on the
one of the request, which ends when the user disconnects) while its write is on
its way. `GiveUp(c)`, for the clients in `Impatient`, moves the write to
`inflight`; the server may execute it at any later time (`LateCommit`,
`StoredLate`, `AppendedLate`) or never. A write carries, as history, the load it
is based on, so that properties can speak of it after its client has moved on.

### DynamoEventStore

`table[a]` is the partition of aggregate `a`: `sets`, the change set items, and
`latest`, the revision in the `latest-revision` item or `NoRevision`. Revisions
are ULIDs; they compare as strings and are modelled as numbers whose quotient by
`EntropyWidth` is the millisecond. `latest-revision` sorts after every
`change-set#...`, hence `LatestKey`.

- `Publish`: `StartPublish` (`PublishNothing` is the error for no events), one
  `RecordEvent` per event, which draws a revision from the process's generator
  (`makeChangeSet` reads the clock once, at the start of an attempt), then the
  transaction: `Commit` or `ConditionFails`. `Commit` puts both items and its
  reply may be lost. A failed condition is retried (`Retry`) while no
  `ExpectedRevision` was given and tries are left.
- `Load`: `StartLoad`, then `QueryPage`s. A page ends at any item; it is
  answered from `table[a]` or, with `StaleReads`, from `replica[a]`, an earlier
  state that `Replicate` moves on. The query of the code has no
  `ConsistentRead`.
- `Remove`: `StartRemove`, then `ListPage` and `DeletePage` in turn.
- Failures: `RequestFails` (no effect), a lost reply (the alternative results of
  `Commit` and `DeletePage`), `GeneratorPanics`, `Restart` of a process (its
  calls are gone, its generator is new), `GiveUp` and `LateCommit`, `ClockTicks`.
  A restart takes longer than a millisecond: its guard says that the clock has
  left the millisecond of the last revision.

Left out: the payload of events (`ServiceOnDynamo` adds it); marshalling errors,
which are failures without effect; two equal ULIDs from different processes (80
random bits). A panic of
`ulid.MustNew` counts as an error: the HTTP server recovers from it.

### EsdbEventStore

`stream[a]` is the number of events of a stream. A revision is the event number
plus one. The code writes it with `%026x` and reads an `ExpectedRevision` with
base 10: `DecimalReading` is what the hexadecimal digits mean when read as
decimal ones, `Readable` whether they can be.

### JetStreamEventStore

`stream` is the one stream: a sequence of messages with subject and number of
events. A revision is message number and index of the event; the index is a
`uint16` and wraps at `IndexWidth`. The server time in
front of it is left out because only the message number is read back. `Load` asks
for the last message of the subject and consumes until it meets it.

### EntityService, ServiceOnLog

`request[c]` is the request of user `c` under way with the local variables of
`Execute`, the dispatcher and `trackingPublisher`, `reply[c]` the last answer.
`EntityService` says what the code does between two calls of the store, as
operators on these two: `LoadReturns` renders the events (`Reducible`: a reducer
may fail), then a GET is answered (`Encode`: 404 at the initial revision, 500 when
the state does not serialize) and a POST dispatched (`Dispatch`: unknown names and
payloads that do not decode are errors); the handler makes its publications one
after the other (`Proceed`), returns the error of one that fails, and `Execute`
loads again if something was published.

A handler is a *program*: the publications it makes, each with or without the
revision of the entity (`guarded`), to the entity or to another aggregate, and
whether it then fails. `Programs(a, command, entity)` is the set of programs it
may run; `Counter` gives those of the sample.

`ServiceOnLog` adds the store of the contract. `history[a]` is its log, the revision of an
entity the number of change sets it was rendered from; `Publish` appends or is
refused, its reply may be lost; `Load` sees the whole log, or with `StaleReads` a
beginning of it; `ProcessStops` breaks the connections of the users of a process.
`BadRequest` stands for the 400 and 415 answers, which reach no store.

### ServiceOnDynamo

Extends `DynamoEventStore`: the client of the store is the goroutine that works
on a user's request. `CallLoad` and `CallPublish` begin calls when the service
makes them; `StoreStep` is a step of the store, and when the call returns with it,
the operator of `EntityService` for that result (`CallReturns`). `content` is what
the change set items hold. A process that restarts drops its users' requests.

`OnLog == INSTANCE ServiceOnLog` maps it to the abstract service: the log is `log`
with its contents, and a ULID becomes the position of its change set.
`ImplementsServiceOnLog` says that clocks, pages, replicas, retries, lost replies
and restarts show in nothing but stale reads and errors. It is checked with
handlers that publish without `ExpectedRevision`, as the counter's do: with one,
the order of the sort keys may differ from that of the commits, which
`ds_skewed_clocks` and `ds_shared_generator` report. Handlers that publish to a
second entity, and bad requests, are in `ServiceOnLog` only.

## The runs

Times are of a few seconds to about two minutes with two workers.

| run | question | result |
|---|---|---|
| `ds_optimistic` | blind and optimistic publishers in two processes, skewed clocks, stale loads, lost replies, late transactions: `NoLostUpdate`, `PublishOutcome`, `ImplementsEventLog`, `TypeOK` | hold |
| `ds_lifecycle` | one goroutine creates, updates and removes, change sets of none to two events, pages, lost replies, restarts: `RemovedMeansEmpty`, `EventsOrdered`, `OnlyHalfRemovalsConflict`, `ImplementsEventLog`, `CallsReturn` | hold |
| `ds_skewed_clocks` | two optimistic publishers in two processes: `NoNeedlessConflict` | **violated** |
| `ds_shared_generator` | two goroutines of one process, on two aggregates: `NoNeedlessConflict` | **violated** |
| `ds_remove_race` | a removal races a publisher: `NoNeedlessConflict` | **violated** |
| `esdb_updates` | blind and optimistic publishers, pages, late appends, revisions past 9 and up to 16: `NoLostUpdate`, `LoadIsASnapshot`, `ImplementsEventLog` | hold |
| `esdb_tenth_revision` | one goroutine loads and publishes: `LoadedRevisionIsAccepted` | **violated** |
| `js_updates` | two subjects on a stream, empty change sets, an index that wraps, late messages: `NoLostUpdate`, `LoadIsASnapshot`, `OnlyEmptyChangeSetsConflict`, `ImplementsEventLog`, `CallsReturn` | hold |
| `js_empty_change_set` | the same: `NoNeedlessConflict` | **violated** |
| `svc_replies` | a user of the counter and one of another application, lost replies, failures: `RepliesAreCurrent`, `RepliesAreConsistent`, `CommandsTakeEffectInOrder` | hold |
| `svc_on_dynamo` | two processes serve one entity; skewed clocks, pages, stale replicas, a restart: `ImplementsServiceOnLog`, `RequestsAnswered`, `LoadsArePrefixes`, `LoadedRevisionIsLatest`, `RepliesAreConsistent`, `CommandsTakeEffectInOrder` | hold |
| `svc_stale` | the same, one replica that lags behind: `RepliesAreCurrent` | **violated** |

What the violations show (quotes under `findings`):

- *DynamoDB, clocks.* With an `ExpectedRevision`, the condition of the
  transaction is equality only. A publisher whose clock is behind commits a
  revision below its predecessor's. It becomes `latest-revision` but is not the
  last by sort key; `Load` keeps returning the other, which `Publish` keeps
  refusing. The log itself stays right (`ImplementsEventLog`), and no update is
  lost; publishers that load first are locked out until a blind publish.
- *DynamoDB, one process.* Two clocks are not needed. `makeChangeSet` reads the
  clock, then draws from the generator all goroutines share; one that draws late
  passes an earlier time than the last caller did, the monotonic entropy starts
  afresh, and the next change set of another goroutine, on another aggregate even,
  may sort before its last one. The consequence is the same.
- *DynamoDB, removal.* `Remove` deletes what it listed, without a condition. The
  `latest-revision` item of a publish in between goes, its change set stays.
- *EventStoreDB.* From the tenth event on the loaded revision is read back as
  another number or not at all. It never is a number that lets a lost update
  through: that is what `NoLostUpdate` in `esdb_updates` is about.
- *JetStream.* A change set without events moves the last sequence of the
  subject, but no event carries it.
- *Service.* The entity in the reply is loaded after the publish; on DynamoDB the
  load may miss it, and the first command of an entity may be answered with 404.

`OnlyHalfRemovalsConflict` in `ds_lifecycle` is the other side of these: a goroutine
alone, with its own generator, meets a conflict on what it loaded only after its
own removal failed between the last change set and `latest-revision`, until it
removes again. That case occurs in the run.

`RemovedMeansEmpty` fails as well when the keys are listed by stale reads; it is
checked for DynamoDB local, on which the repository's test asserts it.

### Bounds

Two clients (three for JetStream, where one works on another subject), one
aggregate for each kind of sharing there is: aggregates of the DynamoDB and the
EventStoreDB store share nothing but the generator, whose sharing by two
goroutines is in `ds_shared_generator`. `ds_lifecycle` has one goroutine: its
`ImplementsEventLog` and `EventsOrdered` are about removals, batches, pages and
restarts, not about races, which are in the other runs. `MaxTime = 2` and
`EntropyWidth = 2` or 3 bound the revisions: two milliseconds are enough for every order of two clocks
(`MaxSkew = 1`), and several revisions within one for the monotonic entropy.
`Attempts = 2` stands for `retry.Do`'s ten: one retry and its exhaustion.
`Batches` are the sizes of change sets, with none, one and several events where
they matter. ESDB streams go to 16 events with pages of 4, so that revisions cross
9 and pages are full, partly full and empty; batches of 5 and 8 get there
soon. JetStream streams have three messages, the number at which another
subject's message lies between two of one's own; `IndexWidth = 2` with change sets
of 3 makes the index wrap. Late writes are those of both publishers on DynamoDB
and JetStream and of one on EventStoreDB, at most one for each client there.

In `svc_replies` a user sends two requests, so that one follows an error; one of
two users sends the counter's commands, an unknown name, a payload that does not
decode and a command that publishes nothing, the other those of an application
(`MCServiceOnLog`): guarded by the revision of the entity, to two entities, failing
before or after a publication, one whose event no reducer reads. In
`svc_on_dynamo` a user sends one request, of whose handlers one publishes twice
and one nothing: three change sets of two writers, and loads of both in between.

When the revisions are used up (`GeneratorPanics`), the stream is full or
the requests are sent, clients can no longer publish. `CHECK_DEADLOCK FALSE` is
in the service's runs because a user who has sent all requests stops; in the
other runs a call can always be begun or fail.

### Fairness

`FairSpec` has weak fairness of `Step(c)` for every client: the steps of a call
under way, which does not include the beginning of calls, nor `RequestFails`.
The code justifies it: a goroutine blocked in a request is woken by the answer,
`retry.Do` sleeps for bounded times, nothing waits for another client. A request
that is never answered is outside it, and ends with its context. `CallsReturn`
is then about the loops of the code: pages and removals in `ds_lifecycle`, whose
clients all expect a revision so that none retries, and the consumption of
messages until the last one in `js_updates`. That retries end is the matter of
`RequestsAnswered` in `svc_on_dynamo`, where blind publishers are behind a faster
clock, and their number that of `TypeOK` in `ds_optimistic`. `FairSystem` of
`ServiceOnDynamo` adds the calls the service makes; users need not send
anything. `RequestsAnswered` is about the goroutine of a request: whatever the
other process does, retries end, and so do the handler and the second load.

### Mutations

Each property of a passing run has a mutation in the module, a definition whose
comment starts with "Mutation of": the same operator with a plausible mistake,
like a condition that forgets the order, a removal that forgets the
`latest-revision` item or a consumer that stops one message early. The property
is violated with it, so it says something about the code.

## The proofs

Every theorem is about all behaviours of a specification and all values of its
constants that satisfy the named assumptions of the modules: any number of
clients, aggregates and processes, any clocks, page sizes and lengths of logs.
Those assumptions give the constants their types. What a theorem assumes beyond
them is written in it and named here. The definitions take the environment's
promises with them: that a request is atomic in the server, that revisions of
different processes do not collide (`issued`).

An invariant that a run checks is seldom inductive. Each module names the one it
proves instead, a conjunction of parts; its lemmas say what each part needs of a
step; the theorem is the last step, in temporal logic.

### DynamoDB

No further assumption (skew, stale reads, pages, removals, restarts and late
transactions included):

- `TypeCorrect`: `Spec => []TypeOK`. `TypeInv` adds
  `CallInv`: a call that waits for its retry has tries left, one that sends its
  transaction has drafts, and only clients that remove list and delete.
- `ImplementsTheEventLog`: `Spec => ImplementsEventLog`. `StoreInv` adds
  `LatestIsCommitted` (the `latest-revision` item is the last entry of the log)
  and `DraftsAreFresh` (a revision drawn but not yet written is nobody else's and
  in no log), with `LateAreFresh` for the transactions still on their way. The first makes the condition of the transaction the abstract one,
  the second makes the revision new. Without the second a commit could repeat an
  entry, which the condition alone does not exclude: with an expected revision it
  compares for equality only. The proof does not need the clocks to agree.
- `PublishTellsTheTruth`: `Spec => []PublishOutcome`, for what a call records until it
  returns; a transaction executed later is the matter of `ImplementsEventLog` and
  `NoLostUpdate`. `OutcomeInv` adds
  `NothingRecorded`: a call that may still send its transaction has recorded
  nothing. A commit ends its call, so no retry follows one.

With assumptions about what clients do, each of which the statement needs:

- `NoUpdateIsLost`: if aggregates fit in a page and nobody removes, then
  `Spec => []NoLostUpdate`. `UpdateInv` adds that every version of a partition a
  query was or may be answered from contains the latest change set only if it
  contains all (`AllOrOld`), for replicas (`VersionInv`) and loads
  (`LoadedInv`). A load whose revision is the latest is then complete, which is
  what the transaction's condition tells a publisher. Without the first
  assumption the statement is false when clocks differ: a change set that sorts
  into a page already read is missed. Without the second, a removal that
  races a publish takes the `latest-revision` item from above its change set, and
  a publisher that loaded the aggregate before it existed is accepted.
  For a late transaction the load it is based on is part of it (`Faithful`,
  `LateInv`, `SeenInv`): the client's own may be newer by then.
- `EventsAreOrdered`: if no two goroutines share a generator (`OwnGenerator`),
  then `Spec => []EventsOrdered`, with clocks at any pace, removals and restarts.
  `OrderInv` adds `DraftsInOrder`: while an attempt draws revisions, the last one
  its generator issued is its last draft, of the millisecond the attempt began in;
  so the next one is the increment of it. Goroutines that share a
  generator come between two draws: no run checks the property for them, and it
  fails when they draw across two milliseconds (`hazards`).
- `LoadsAreLogPrefixes` and `GreatestRevisionIsLatest`: if nobody removes or
  passes on a loaded revision (`Blind`: publishers without `ExpectedRevision` or
  with the initial one, which is all the counter's handlers do), then
  `LoadsArePrefixes` and `LoadedRevisionIsLatest` are invariants, for any number
  of pages, stale replicas, skewed clocks and late transactions. `BlindInv` adds that a
  log is in the order of its sort keys, because the condition of a blind transaction asks for
  a greater revision (`LogsInOrder`), and the items of the table are those of the
  log; then a replica, what a query has read so far and what a load returned are
  each the change sets up to some revision the aggregate had (`ReplicasInOrder`,
  `QueriesInOrder`). With `ExpectedRevision` both fail: `ds_skewed_clocks`.
- `RemovedIsEmpty`: if every goroutine works on an aggregate of its own (`Own`),
  keys are listed by consistent reads and no transaction is late
  (`Consistent`), then `Spec => []RemovedMeansEmpty`. `RemovalInv` adds
  `RemovalsInOrder`: while keys are listed what is left lies above the cursor,
  while they are deleted what is left was listed or lies above it, and a listed
  page is a beginning of what is left. It survives lost replies, restarts and
  removals that failed half way. Shared aggregates and stale lists falsify it.
- `OnlyHalfRemovalsAreRefused`: with `OwnGenerator` as well,
  `Spec => []OnlyHalfRemovalsConflict`. `ConflictInv` adds that what is recorded
  was issued before anything the goroutine may still draw (`WritersAscend`), so that the
  latest revision is the greatest (`LatestIsGreatest`), and that a load returns
  the revision of a change set it read. What a load returns and nobody changed
  is then the latest revision, unless the change sets went without the
  `latest-revision` item. Shared generators and clocks falsify it
  (`ds_shared_generator`, `ds_skewed_clocks`).

### EventStoreDB

For any page size and any length of streams, with late appends and lost replies:

- `LoadsAreSnapshots`: `Spec => []LoadIsASnapshot`, `NoUpdateIsLost`:
  `Spec => []NoLostUpdate`, and `ImplementsTheEventLog`. The invariant is `StreamInv`: what was read is a
  beginning of the stream, the revision of a load is the number of its events, a
  revision passed on is one the stream has reached, and the log is at the
  stream's revision.
- The core of the last two is arithmetic. The digits the store writes in base 16
  are read in base 10. `DecimalReading` satisfies its recursion equation (by
  `InductionLemmas`), a misread number is never greater than the one that
  was written (`DecimalReadingIsNoGreater`), and so the server, which compares it for
  equality, accepts the revision of a stream that has
  moved on for no length of stream. It refuses too much, never too little.
- `NineRevisionsAreAccepted`: with fewer than ten events
  (`MaxEvents < 10`), `LoadedRevisionIsAccepted`, which `esdb_tenth_revision`
  violates, is an invariant: the tenth event is where the error begins.

### JetStream

For any number of subjects and messages, any index width, empty change sets,
late messages and lost acknowledgements: `LoadsAreSnapshots`, `NoUpdateIsLost`,
`OnlyEmptyOnesConflict` (`OnlyEmptyChangeSetsConflict`) and
`ImplementsTheEventLog`. `StreamInv` says that a load is the
events of its subject up to the message that was the latest when it began, a
consumer has met exactly what lies before the message it is at, and the log is at
the revision of the last event. The message number is read back from any revision
of the message although its index wraps (`RevisionFacts`); events of
a message that is appended come after all others (`InductionLemmas`). A revision
that is accepted has the number of the subject's last message, so that the load it
came from is complete; one that is current is refused only when the last message
has no events.

### Service

`ServiceOnLogProofs` assumes of an application that its handlers make finitely
many publications of finitely many events each (`HandlersArePrograms`), whatever the
command, the entity and the events are. Reducers, serialization and whether
handlers fail are arbitrary. Every step is first reduced to what it does to one
client (`ClientStep`: another's step, a request, an error, a load, a
publication), and each invariant is a predicate of one client and the log. Order
needs less: a `RecordingStep` is a client's step with a load that may show any
entity, and a publication that is recorded on whatever revision. `OrderInv` is kept
by these (`RecordingKeepsOrder`), which is why it also holds on DynamoDB.

- `TakesEffectInOrder`: `Spec => []CommandsTakeEffectInOrder`, with lost replies,
  refused publications, stale loads and processes that stop. `OrderInv`: for a
  request under way, what the log holds for it are the events of exactly the first
  `done` publications of its program, on every aggregate; nothing is recorded
  for a request not yet sent. A publication whose reply is lost adds one
  and ends the request.
- `ConsistentReplies`: `Spec => []RepliesAreConsistent`. `ShownInv`: the entity
  of a request and of a reply is what some beginning of the log renders to, and a
  beginning stays one when the log grows. The fold over the reducers is
  left as it is: two renderings of equal events are equal.
- `CurrentReplies`: if loads are not stale, `Spec => []RepliesAreCurrent`.
  `CurrentInv`: a request was sent when the log was no longer than now, a
  loaded entity is no older than that, and while the handler has published nothing
  (`published` is false) nothing is recorded for the request, so that the first load may be the
  answer. With stale loads it is false: `svc_stale`.

### The service on DynamoDB

`ServiceOnDynamoProofs` puts the two together, for any number of processes, users
and entities and any reducers. Besides those of the store, the module assumes
`RequestAssumption`, which gives the bound `MaxRequests` its type. A process may
restart and leave its requests, but no transaction is late: `System` has no `GiveUp`.

`SystemIsStore`: `System => Spec`, as every step of the system is a step of the
store or none (`StoreSteps`). It assumes nothing of handlers, and with it the
theorems about the store are theorems about the service: `ServiceLoadsPrefixes`
(`LoadsArePrefixes`) and `ServiceLoadsLatest` (`LoadedRevisionIsLatest`) under
`Blind`, `ServiceLosesNoUpdate` (`NoLostUpdate`) for entities of one page and
any clocks.

`ServiceTakesEffectInOrder`: `System => []CommandsTakeEffectInOrder`, if
handlers are programs (`HandlersArePrograms`, as above). Nothing is assumed of clocks, pages,
replicas or of what is published under which revision: a load may miss change
sets, and the handler then works on a state the entity never had, but what it
publishes is still recorded once and in order. The invariant is `CommandsInv`:

- `StoreInv` of the store's proofs, by which a revision that is written is new, so
  that a commit adds its content to the log and changes no other;
- `CallsLinked`: a call of the store belongs to the step its request is at, and a
  call to publish has the publication the handler is at. Without it a commit could be
  anybody's;
- the types and `OrderInv` of `ServiceOnLogProofs`, of an instance of it
  (`Commands`) that has the contents of the log as its history and the requests as
  they are, revisions uncounted.

Each step of the system is then shown to be a recording step of that instance
(`Follows`), whose lemmas do the rest. Retries are safe because a commit ends its
call, whether its reply arrives or not: what is tried again was not recorded.

The theorems below add two assumptions:

- `Blind`, as in `DynamoOrderProofs`: nobody removes, and handlers publish without
  `ExpectedRevision`, or under the initial one for an entity that does not exist
  yet. The counter's handlers do the first. With a loaded revision the order of
  the sort keys may differ from that of the commits (`ds_skewed_clocks`), and
  then a load is no beginning of the log and the refinement is false.
- `HandlersIgnoreRevisions`: a handler is given the entity with its revision
  (`we/command.go:42`) but looks only at its state and at whether it exists; it
  may ask for a publication under the revision, which is `guarded`. A handler
  that computed with the digits of a ULID would not run the same program on
  `ServiceOnLog`, where a revision is a number of change sets. No handler of the
  repository does.

`ServiceImplementsLog`: `System => ImplementsServiceOnLog`. `SystemInv` adds to
`BlindInv`:

- `EntitiesLoaded`: a revision in a request or a reply is one its log has, or the
  initial one. It then keeps its position when the log grows (`LogsGrow`,
  `PositionsKept`), and what the service does with an entity it does with the
  entity counted in positions; there is one lemma for each operator of `EntityService`.
- `CallsLinked`, which says too that a guarded publication expects the revision of
  the handler's entity.

A commit appends the handler's publication; a retry, a page, a draw, a replica
or a clock is a stutter; a query that ends is a load of some version, because
the sort keys of what it returns enumerate a beginning of the log in the order
of the commits (`SortedKeysAre`: a set of keys has one such enumeration).

`ServiceRepliesConsistently`: `System => []RepliesAreConsistent`. `ShownInv` is
the invariant of `ConsistentReplies` on the mapped state, kept by the steps of
`ServiceOnLog` the system is now known to take.

`ConsistentReadsAreCurrent`: `System => []RepliesAreCurrent` if handlers are
programs as well and loads are not stale. It is `CurrentReplies`, of the service on a log
that the system implements (`Replied`). `StaleReads` is true of the code, and there
`svc_stale` reports that a reply may not show its own command; the theorem says
that stale reads are the only reason: with `ConsistentRead` in the query, pages,
clocks, retries, lost replies and restarts could not bring it about.

`CounterIsCorrect` takes the assumptions about handlers back for the sample: those of
`Counter` make one publication of one event and do not look at their entity
(`CounterHandlers`), whatever the randomizer picks, so the counter is a service on a
log, and replies consistently and counts each command once.

### Model-checked only

- Liveness (`CallsReturn`, `RequestsAnswered`), which needs `ENABLED`.
- `NoLostUpdate` and the refinement of `ServiceOnLog` are proved under
  assumptions (one page; `Blind`) and false without them. No assumption about clocks would
  extend the refinement to publications under a loaded revision: two processes that
  draw in the same millisecond have different random bits, so sort keys and
  commits may disagree even when the clocks do not.
- What reducers compute from a sequence of events: a fold takes an operator as a
  parameter.

## The plan

Order: the DynamoDB store first, since concurrency control lives in the library
there and not in the server; then the other two; then the service, alone and on
the DynamoDB store. This is done, and so are the proofs about each part and about
the service on DynamoDB: every invariant that a passing run checks is stated by a
theorem. Next would be the service on the other two stores, if it is to say more
than `ServiceOnLog` and their refinements of `EventLog` do.

## Not modelled

Containers, deployment and telemetry (I/O at start or without effect); the creation
of the local table, which precedes every call of the store (two processes that
start together may meet there: `hazards`); the service on EventStoreDB and
JetStream, whose stores implement the same `EventLog`; a user who disconnects from
the service while a transaction is on its way, which the store's own run has
(`Impatient`); names, encodings and ids (pure functions of strings);
`we/initializer.go` (unused).
