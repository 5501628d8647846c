# A formal model of debshrew

debshrew follows a metashrew indexer, runs a WASM transform on every block,
and sends the change-data-capture (CDC) messages the transform emits to a sink.
When the chain reorganises it sends inverse messages. This directory models that
service in TLA+, checks it with TLC on small instances, and proves its safety
properties with TLAPS for every instance.

**The PostgreSQL sink cannot start.** `PostgresSink::new` (sink/mod.rs:262) and
`apply_messages` (sink/mod.rs:289) call the blocking `postgres` client, which runs a
tokio runtime of its own and panics with "Cannot start a runtime from within a
runtime" on a thread of another. `main` is `#[tokio::main]` (main.rs:69) and creates
the sink at main.rs:208: every accepted PostgreSQL configuration ends the service
there. `Service` has this as the action `StartPanics`. Everything else said below of
PostgreSQL is about a build whose calls return (a thread of their own, or
`tokio-postgres`): it says that batching, transactions and inverses are right or
wrong behind that bug, not that the service can be used with PostgreSQL today.

Contents: [the system](#the-system) · [modules](#the-modules) · [runs](#the-runs) ·
[where code and words part](#where-the-code-and-its-words-part) · [proofs](#the-proofs) ·
[not modelled](#what-is-not-modelled) · [plan](#plan)

## The system

| component | code | state | operations | talks to |
|---|---|---|---|---|
| block synchronizer | `debshrew/src/synchronizer.rs` | `current_height`, `running`; locals of `run`, `process_block`, `handle_reorg` across awaits | `run`, `process_block`, `handle_reorg`, `get_actual_block_count` | calls the client, the runtime, the cache and the sink, from one task |
| block cache | `debshrew/src/block.rs` | `blocks`, a `VecDeque` of at most `max_size` | `add_block`, lookups, queries, `find_common_ancestor`, `rollback` | owned by the synchronizer |
| WASM runtime | `debshrew/src/runtime.rs` | `current_height`, `current_hash`, `state`, `cdc_cache`; per block a fresh store with `view_result` | `process_block` and its host functions, `rollback`, `compute_inverse_messages` | instantiates the transform, calls metashrew views |
| guest library | `debshrew-runtime/src/{lib,imports,exports,transform,wasm}.rs` | `INSTANCE`, one per WASM instance | `view`, `get_height`, `get_block_hash`, state functions, `declare_transform!` | host functions of the runtime |
| message types | `debshrew-support/src/types.rs` | none (`TransformState` is a map) | | all |
| sinks | `debshrew/src/sink/mod.rs` | PostgreSQL: `buffer`; file: the open file; Kafka: the producer | `send`, `flush`, `close` | called by the synchronizer |
| metashrew client | `debshrew/src/client.rs`, `traits.rs` | `request_id`; the HTTP connections it keeps | `get_height`, `get_block_hash`, `call_view`, `is_healthy` | JSON-RPC to metashrew |
| stand-ins for it | `debshrew/src/adapters.rs`, `MockMetashrewClient` | height, hashes, view results, shared by all clones of the adapter | setters, `advance_block`, `simulate_reorg`, `clear` | driven by tests |
| settings | `debshrew/src/config.rs`, `main.rs` | none | options, file, defaults, `validate` | read once by the service |
| service | `debshrew/src/main.rs` | none; what the sink delivered is all that outlives it | start, Ctrl+C, end on error | builds and runs the above |
| minimal transform | `debshrew-minimal/src/lib.rs` | `block_tracker`, `last_height` | `process_block`, `rollback` | the guest library |

What makes the service hard to get right, and what makes each part correct:

* **One task, many awaits.** Every RPC is an await during which the chain may
  grow or reorganise. A hash, a height and a view's answer read at three moments
  may come from three chains. The cache, the messages the runtime keeps and the
  rows at the consumer must nevertheless agree about which block is in force.
* **State kept in four places.** A reorg rolls the block cache back; it leaves
  `cdc_cache` and `current_height` alone. Whatever is sent later must still undo
  exactly what is in force.
* **Failures midway.** Any call may fail and ends the service; Ctrl+C drops the
  task at whatever await it is parked at. A send may have delivered a part.
* **Batches.** The PostgreSQL sink cuts the stream by message count and clears
  its buffer before it tries the transaction. Blocks, and the undo of a reorg,
  must reach the database whole and in order.
* **Restarts.** Nothing of a session is kept. The next one starts over at
  `start_height` and sends again what the sink has, on top of a block half sent, a
  message of unknown fate, a torn line of a file.
* **Answers.** All requests carry the same id, errors are told apart by their text,
  a count is cut to 32 bits, and one request has no timeout. What a call ends with
  must still be an answer to its own question.
* **Boundaries.** Unsigned heights near 0, a cache that evicts, a block count
  that is unknown and replaced by 1.

`PROJECT.json` lists these hazards line by line with the properties that cover
each.

## The modules

```
 CdcStack                     what the stream promises (abstract)
    ^ refinement
 Synchronizer --uses--> BlockCacheOps          MCSynchronizer
    ^                      ^
 SynchronizerProofs     BlockCacheProofs

 MetashrewCalls               what a call of metashrew promises (abstract)
    ^ refinement
 MetashrewClients <-- MetashrewClientProofs    MCMetashrewClients

                    Settings <-- Service       MCService
                                    |
 CdcMessages <-- PostgresTables <---+
    ^               ^      ^---------- CdcPipeline    MCCdcPipeline
    |               |                     ^
 CdcMessageProofs <-- PostgresTableProofs <-- CdcPipelineProofs
                            ^
                         ServiceProofs

 TransformHost <-- TransformHostProofs         MCTransformHost
```

**`BlockCacheOps`** is the block cache as pure operators on a sequence of cached
blocks, oldest first. Lookups return the *first* match, as `Iterator::find` does;
`Rollback` truncates by position. Nothing assumes that heights are distinct or
increasing: that is a theorem about the synchronizer. The queries that no caller
uses (`GetLatestBlock`, `GetBlockWithHash`, `LowestHeight`, `HighestHeight`,
`Between`) are here for the theorem that says what they return.

**`Synchronizer`** is `run`, `process_block` and `handle_reorg` against a metashrew
whose block count is cut to `Width`, whose chain grows (`MineBlock`) and reorganises
(`SwitchBranch`) at any moment. `pc` names the await the one task is parked at; each
action is the code from one await to the next:

| `pc` | parked at | actions |
|---|---|---|
| `poll` | `get_height` (or the sleep before it) | `GetHeight` |
| `count` | `get_actual_block_count` | `GetBlockCount` |
| `check` | `get_block_hash(current_height)` | `CheckTip`, `CheckTipFails` |
| `scan` | `get_block_hash(test_height)` | `ScanDown`, `ScanDownFails` |
| `hash` | `get_block_hash(height)` of `process_block` | `ReadHash`, `ReadHashNotFound`, `ReadHashFails` |
| `transform` | the transform's views | `Transform`, `TransformFails` |
| `send` | `sink.send` of a block | `SendBlock`, `SendBlockFails` |
| `fetch` | `get_block_hash` of `handle_reorg` | `FetchHash`, `FetchHashFails` |
| `invert` | the locks of `handle_reorg` | `ComputeInverse` |
| `undo` | `sink.send` of the inverse messages | `UndoBlocks`, `UndoBlocksFails` |
| any | Ctrl+C | `Shutdown` |

Data is abstracted to what the properties tell apart. A block hash is the branch
the block was mined on (with its height): every reorg starts a new branch, and
the genesis block belongs to all. The transform emits one message per block, as
`debshrew-minimal` does, or none (`QuietHeights`); its content is the block the
views showed, which need not be the block whose hash was read. `rows[k][b]`
counts Creates minus Deletes of version `b` of height `k`: what a consumer that
applies the stream holds, negative when something was deleted that was not
there. `cdc[k]` is the runtime's `cdc_cache`. An "unavailable block" and any
error whose text contains `code: -32000` are the same to `process_block`; both
are `ReadHashNotFound`.

**`CdcStack`** is the abstract specification: the blocks in force are a stack
ordered by height; a block is published on top, a reorg withdraws everything
above a height. `Synchronizer` implements it under the mapping
`inForce <- {<<k, b>> : rows[k][b] > 0}` (property `ImplementsStack`).

**`CdcMessages`** has the messages themselves (operation, key, before, after),
what they do to a table of records, `invert_cdc_message`,
`compute_inverse_messages`, and what `handle_reorg` makes of them for several
heights (`InverseBlocks`). `FitsAll` says that each message of a block is a
change of the records as the earlier ones leave them.

**`PostgresTables`** is the database behind the PostgreSQL sink: the rows, an INSERT
that fails on an existing id, an UPDATE or DELETE that finds a row or does nothing,
and a transaction that is all or nothing. `CdcPipeline` and `Service` use it.

**`CdcPipeline`** follows real messages from the runtime to the database: any block
carries any messages of `Emits`, whether they fit the records of the moment or not,
or is not available and passed over; the runtime caches them, and `Undo` inverts
every height above the ancestor up to the unmoved `current_height`, also heights that
an earlier undo withdrew or that were passed over and have an older block's messages
in the cache (what `sync_twice` shows); the PostgreSQL sink buffers and applies them
in one transaction per full buffer. A lost connection may or may not have committed.
How the ancestor is found and when the chain is looked at is the `Synchronizer`'s
business: here the ancestor is any height in force. `stream`, `direct`, `before`,
`live`, `edges` and `astray` are history variables the properties compare with:
`direct` is what the database would be had every message been executed as it was
sent, `live` the heights in force, and `astray` tells that from some point on messages
did not fit: a transform emitted such, an UPDATE or DELETE named a text id, or a height
was undone that was not in force. What holds of the sink holds regardless of it;
that messages are accepted and undone properly holds until then.

Two things the pipeline takes as given. `after` carries the record's key in a
field `id`, the column the sink's WHERE clauses name; the code demands this of
transforms without saying so. There is one table. (`debshrew-minimal`'s own messages
have no `id` in `after`, and no sink but PostgreSQL's asks for one.) PostgreSQL itself
is external: a transaction is all or nothing, a failed statement aborts it.

**`TransformHost`** is one transform after another: `WasmRuntime::process_block` and
`rollback` with their host functions, and the guest library through which the
transform calls them. Guest and host exchange every result through one
buffer in two host calls (`__view` or `__block_hash` announces a length, `__load`
copies the buffer). A guest library call is one action: the guest is synchronous,
so nothing runs between its two host calls. Bytes are known by where they came from
(run, call), which is what the properties tell apart: `viewResult` is the buffer of
the run's store, `result` what the last call returned, `memory` the runs whose
transform the guest's `INSTANCE` keeps, `origins` the runs of whose answers this run
was given bytes. The announced length is cut to an `i32`: with `MaxLength` standing for
2^31 - 1 and `Width` for 2^32, a length from `MaxLength + 1` on reads as negative, which
the guest takes for an error, and from `Width` on as what is left modulo `Width`; data
of that size never fits the guest's 32-bit memory, so `__load` writes none of it and the
guest gets zeros. Less data than that, but more than the guest made room for, may
overwrite the guest's heap or, at the end of its memory, not be written; after an
overwrite the transform's calls are not followed further. The state functions give
and take nothing. `Finish` decodes what the transform emitted and replaces
`cdc_cache`'s entry; `FinishRollback` caches nothing; `FinishFails` is each way
either function returns an error. Nothing in the service calls `rollback`; it is
here because whatever calls it next must leave `cdc_cache` and the next block alone.

**`MetashrewCalls`** is the abstract specification of asking metashrew something: a
call ends with what metashrew held at a moment between question and answer, or
with the default or error its caller expects, and that only for a reason. This is
what `Synchronizer` assumes of `get_height`, `get_block_hash` and the block count.

**`MetashrewClients`** is `JsonRpcClient` (`backend = "rpc"`), the only client `main`
builds the service with; the mock (`"mock"`), which tests give to a `BlockSynchronizer`;
and the in-memory adapter (`"memory"`), which answers the same questions through traits
of its own but is no `MetashrewClient`, so that no synchronizer can be built with it.
For the first, `pipe` is the connection: the request, then its reply. `NodeReplies`
answers truthfully, `NodeErrs` is everything else a server or a proxy may send (an HTTP
error whose body holds a result, an error about something else, a body that is no
JSON-RPC, a result that is none), `ConnectionLost` loses what was on the connection, and
is also what a timeout does (`Timeout`, which fairness names, is the part of it the
client brings about itself). An error's text is the set of the two phrases
`process_block` looks for. For the stand-ins, `Drive` is a test: the adapter's clones
share their state behind a mutex that each operation holds, so it may move between the
call of another clone and its answer; the mock's setters take `&mut self`. A view is
known by its height.

**`Settings`** is `Config::from_file`, `main`'s options with their defaults, and
`validate`, as operators from a command line to the configuration it loads, if any.
A text is one of the few classes validation tells apart.

**`Service`** is the process over its restarts: `Start`, `StartRefused`, `StartFails`
and `StartPanics` follow `main` down to the sink's creation; a session then sends what
the synchronizer sends, in its order (`Poll`, `NextBlock`, `RedoBlock`, `Undo`,
`UndoFails`; a block that is not there is passed over, as `process_block` does; the
awaits are `Synchronizer`'s business, and the block cache is larger than the
chain); each sink takes `pending` in its own way, Kafka message by message with an
await each, a file in two writes per message, PostgreSQL buffered. Ctrl+C ends a
session at an await, a crash anywhere, a failure inside a send with its part
delivered. `held`, `tail` and `torn` are what a consumer has of the topic or of the
file's finished and unfinished lines; `rows` is the database. One deployment keeps
its sink. `PostgresCalls` says what becomes of a call of the postgres crate: as built
it panics; the runs also let it return, to look behind that bug.

The modules meet in the messages of a height: `TransformHost`'s `cdcCache` is
`Synchronizer`'s `cdc`, `CdcPipeline`'s cache and `Service`'s `cdc`; `FinishFails` is
`Synchronizer`'s `TransformFails`; the answers of `MetashrewCalls` are its calls.
They are checked apart.

## The runs

Passing runs.

* `sync_reorg` (460,906 states): heights up to 4, two reorgs, one fault, a cache of 3,
  starting at 0, height 2 emitting nothing, counts cut at 4. With these the cache
  evicts; a reorg is detected both by a mismatch and by a missing block; a second reorg
  happens during the handling of the first; a height is undone and passed over; a stale
  hash is cached; the node's count is cut to 0. Every action fires. It checks `TypeOK`;
  `CacheOrdered` (heights strictly increase, though `add_block` checks nothing);
  `InverseMatchesCache` (the runtime's messages for a cached height are the cached
  block's); `OneVersionPerHeight` (a consumer never holds two versions of a height, nor
  a row the runtime cannot undo); the inductive invariant `IInv`; `AncestorKept` (a
  completed undo changes nothing at or below the common ancestor and leaves nothing
  cached above); `ImplementsStack`; `PollsAgain` (neither the downward scan nor the
  reprocessing runs for ever); and `CatchesUp` (a chain that has not reorganised, asked
  by calls that have not failed, is caught up with, also while the block count is
  unknown or cut; after a reorg nothing is claimed, see `sync_skip`).
* `pipeline` (5,355,888 states): four heights whose blocks carry up to two messages out
  of a Create, an Update and a Delete of one record with two states, in any order,
  fitting or not, or are passed over; two reorgs, batches of three, one lost connection.
  Batches then span blocks, hold a block and its undo, and split between a reorg's undo
  and the new chain; a second reorg undoes what the first one did. `NothingLost` (the
  rows with the buffer applied are what executing each message as it was sent comes to,
  and the records of the stream as long as messages fitted), `WholeBlocks` (the database
  never holds a part of a block or of an undo, nor after a lost connection, whatever the
  messages are), `NothingRejected` (a transaction fails only for messages that did not
  fit when emitted, or after the undo of a height that was not in force), `UndoRestores`
  (otherwise an undo brings every record back to its state at the common ancestor), and
  the inductive invariant `IInv`. Four heights are the least with a height to stay, two
  to be undone, and one to be passed over.
* `host` (53,509 states): three runs of up to three calls over two heights, answers of 0
  to 7 bytes, the largest `i32` at 2 (so that 3 to 5 read as negative, 6 as 0 and 7 as
  1), and a hash of 2. Answers are then shorter than, as long as and longer than the
  hash, than each other and than the lengths the cut can tell apart; a height is
  processed twice with and without messages, with a rollback between. It checks
  `ViewReturnsAnswer` (a view writes nothing past the guest's buffer, and of an answer
  shorter than 2^32 bytes returns the whole; of a longer one the guest gets zeros and no
  error); `NothingFromEarlierRuns` (no byte of an earlier run's answers reaches a
  transform through the shared buffer, which `get_block_hash` loads with no view before
  it); `CachedIsLatest` (`cdc_cache` holds what was last emitted for the height, a list
  of more than 10,000,000 bytes counting as empty, as the code has it).
* `clients` (113,242 states): heights up to 3, one reorg of the node, simulated reorgs
  of up to two blocks, numbers cut at 3. `ImplementsCalls` (each of the three implements
  `MetashrewCalls`), `SimulatorIsAChain` (a chain made with `advance_block` and
  `simulate_reorg` has hashes at exactly its own heights), `CallReturns` (every call
  with a timeout ends), and in `TypeOK` that a connection carries one call at most,
  without which the equal request ids would matter.
* `service` (1,622,892 states): 15 command lines over all four sinks, valid and not; a
  chain of up to 3 blocks of two messages, two reorgs, two faults, three starts, blocks
  passed over; postgres calls that panic or return. `RestartRepairs`: a session that has
  caught up has repaired at the consumer, from its starting height on, whatever earlier
  sessions left there, an emptied file included; three conditions are part of it: no
  reorg in this session and every block up to the tip transformed as it now is (see
  `sync_skip`), and no garbled line (it may be the repairing message that was glued to
  the torn line). `OneLinePerFailure`: no more lines are garbled than there were
  failures. `KafkaNeverPanics`: no accepted configuration makes the Kafka sink panic,
  which chunks by a batch size only `validate` looks at. `FirstSessionAccepted`:
  PostgreSQL, if its calls return, refuses nothing of a first session, however blocks
  are cut into batches. `IInv`, the inductive invariant of the proof.

Why the bounds are enough: what the synchronizer compares are neighbouring
heights, the ancestor and the front of the cache, so one height more than the
cache holds, with room above and below the ancestor, makes each case happen; two
reorgs are the least with which one interrupts the handling of another and with
which a branch returns to a height undone before. In `service`, two messages per
block are the least of which a part can be sent; two faults and three starts let a
session that repairs a failure fail itself. The safety properties of
all five passing runs are proved without the bounds.

**Fairness.** `Synchronizer`'s `FairSpec` is weak fairness of the one task: tokio
polls a task whose awaited call has completed. That the calls of `JsonRpcClient`
complete is `CallReturns` of `MetashrewClients`, whose fairness is the client's own
steps only: a reply that came is read, the timer set from the configuration
(client.rs:222) fires, a stand-in answers. Nothing makes metashrew reply.
`get_actual_block_count` makes its own client without a timeout
(synchronizer.rs:735), so the synchronizer's liveness assumes that a node that
accepted that request answers or hangs up. `CdcPipeline`'s `FairSpec`, for
`pipeline_drain` only, is weak fairness of processing the blocks there are. The chain is
not fair: it need not grow, and it may reorganise as often as the bound allows.

Each property of a passing run has a mutant in `PROJECT.json`: an operator such as
`RollbackOneTooMany` that slips the way the code might, and under which TLC finds
the property violated.

## Where the code and its words part

Each of these runs checks one sentence of a document or comment, and TLC finds a
behaviour of the code against it. The counterexamples are the reason why some of
the properties above are weaker than one would like.

| run | the words | what happens |
|---|---|---|
| `sync_tip` | architecture.md:85, reorgs are detected "by comparing block hashes" | only the hash at `current_height` is compared; when one reorg falls between two blocks of a range, the lower cached block is of the old branch and goes unnoticed |
| `sync_skip` | synchronizer.rs:294, a missing block is retried later | its height is passed for good |
| `sync_twice` | cdc-concepts.md:139, inverse messages undo previous messages | a second reorg undoes heights already undone: deletes of rows that are gone. `handle_reorg` cannot move `current_height`, though synchronizer.rs:231-232 says it does |
| `pipeline_drain` | configuration.md:100, `flush_interval` flushes messages | nothing flushes by time, nor at the end |
| `host_hash` | wasm-transform-guide.md:165, `get_block_hash()` gets the current block hash | it gets zeros, or what the last view left in the shared buffer |
| `host_state` | wasm-transform-guide.md:195-197, a transform's state is "Persisted between block processing" | each block has a store, an instance and a guest memory of its own (runtime.rs:241); what `declare_transform!` saves (lib.rs:192) is gone at the next block, and `set_state` is a stub |
| `service_again` | cdc-concepts.md:167-168, applying a message again has the same effect | a restarted service sends its Creates again; PostgreSQL refuses the rows it has and the service ends |

Smaller things met on the way, which no run is about:

* The starting block is never processed nor cached (`set_starting_height` makes it
  current), so a reorg of the first processed block ends the service however large
  the cache; progress.md:48 has reorgs up to the cache size handled.
* docs/configuration.md describes environment variables and an order of precedence;
  the code has no environment variables, and a configuration file overrides every
  option. It gives `pretty` a default of true; the code says false.
* The file sink's default path has no directory part, `Path::parent` of it is `""`,
  which does not exist, and `validate` refuses it. What `validate` accepts never needs
  `FileSink::new`'s `create_dir_all`.
* `username`, `password`, `max_retries` and `retry_delay` are read and not used; the
  client the transform's views go through has a timeout of 30 s whatever is configured.
* An `id` that is a JSON string is stored with its quotes and never found again by
  UPDATE or DELETE (sink/mod.rs:312, 368, 380), so a deleted record stays;
  cdc-concepts.md:112 says a delete removes it. `StoredId` and `KeyId` of
  `PostgresTables` are these two forms.
* An inverse message's header names the height below its block and the hash of the
  block processed last (runtime.rs:788, 839).
* The mock answers with the first result set for a view, the adapter with the last.
  The simulator's hashes depend on height, data and index only, so a simulated reorg
  with the same data at the same index gives the same hash.
* `FileSink::new` empties a file that is not appended to before metashrew is first
  asked: if it cannot be reached, the earlier messages are gone until a session
  catches up again.

## The proofs

`SynchronizerProofs` proves, for every value of the constants within
`SynchronizerAssumption` (any cache size of at least 1, any starting height, any
number of reorgs and faults):

* `InvariantHolds`: `Spec => []IInv`. The three safety invariants are not
  inductive. They need, while the task runs: how the locals that live across an
  await relate to `current_height` (`ControlOK`: the range being processed starts
  right above it, or lies below it when it is a reorg's); that nothing cached and
  no row is above the height reached (`NothingAboveReach`, with the one block
  between `add_block` and the end of `send` allowed for), without which
  `add_block` could repeat a height; and that quiet heights have no rows. There is
  one lemma per action; `DataUntouched`, `StopsWithoutSending` and
  `StopsWhileSending` serve the many actions that leave the data alone or end the
  service.
* `TypesCorrect`, `CacheStaysOrdered`, `InversesMatch`, `OneVersion`: its parts.
* `UndoStopsAtAncestor`: the action property `AncestorKept`.
* `StreamImplementsStack`: the refinement of `CdcStack`. Rows change in two ways
  only (`RowSteps`); an insertion finds nothing in force at or above its height,
  and a retraction, partial ones included, takes everything above one height.

`BlockCacheProofs` has what the cache operators return: `AddBlock` keeps the bound
and the order, `Rollback` is the prefix that ends at the height,
`FindCommonAncestor` is the highest height at which cache and chain agree; and
`QueriesOfOrderedCache`, what the other queries return given the order.

`CdcMessageProofs` proves that a well-formed message's inverse is well formed, is its
own inverse's inverse, fits the records the message leaves, and restores them
(`InverseIsInvolution`, `InverseRestores`; of a Create with a `before`, or a Delete with
an `after`, `invert_cdc_message` drops it, and the message does not come back); and the
same of a whole block, of any length (`InverseMessagesRestore`): its inverse messages
fit what the block leaves, one after the other, and take every record back. Replaying a
sequence is a recursive function, and the library's induction theorems are about an
operator, which no prover here can instantiate. Its well-foundedness theorem for sets
(`WFMin`) is not: it gives `SetInduction` (a set that has 0, and i + 1 with every i < n,
has 0 to n), applied to the set of positions at which a fact holds. From it come the
existence and uniqueness of the stages of a replay (`StagesExist`, `ReplayStages`,
`ReplayUnique`), and what a replay of a concatenation is (`ReplayConcat`, `FitsConcat`).

`PostgresTableProofs` does so for a transaction. `TransactionReplays`: a batch of
messages that fit a table, no UPDATE or DELETE naming a text id, is accepted, and the
rows become those of the replay. `TransactionConcat`: messages behind accepted ones are
executed as if the earlier had been a transaction of their own, which is why it does not
matter where the sink cuts its batches. `CreatesAccepted` and `DeletesAccepted` need no
table: Creates of absent rows are accepted, and Deletes always are.

`CdcPipelineProofs` proves all safety properties of `pipeline` (`NothingIsLost`,
`BlocksAreWhole`, `OnlyStraysAreRejected`, `ReorgRestores`, `TypesHold`) for any messages,
keys, text ids and values, any sizes of blocks and batches, and any number of heights,
reorgs, skipped blocks, second undos and lost connections. None of them is inductive.
`IInv` adds: the rows with the buffer executed on top are `direct`, the database of one
message at a time, whose rows are among the `edges` and, until something went astray,
the records of the stream (`RowsAreRecords`); the cache has, for every height in force,
messages that fitted the records that were there before the height, and of two heights
in force the upper was processed upon the lower (`CacheIsWhatWasSent`); between reorgs
the stream is where the current height left it, and during one where the last height in
force left it (`TopIsLast`, `RedoIsNext`). An undo then unwinds the cache from the top,
and the sink's three outcomes keep its part whatever it is handed. Nothing is assumed of
the transform's messages: `astray` in the statements is where they stop fitting.

`TransformHostProofs` proves the safety properties of `host` for any number of runs,
calls and heights and answers of any length (`ViewsAreWhole`, `RunsAreIsolated`,
`CacheIsLatest`, `TypesCorrect`). The invariant needs one fact more to be inductive: the
shared buffer only holds bytes of this run (`OwnBytes`), without which `get_block_hash`
could return an earlier run's.

`MetashrewClientProofs` proves for any heights, reorgs, replies and losses that each of the
three implements `MetashrewCalls` (`ClientsImplementCalls`, by one lemma per action,
each a step or a stutter of the abstract specification), `TypesCorrect` and
`SimulatorWhole`. What makes it inductive: a reply on the connection is a reply to the
call that is under way and shows something in `seen`, or something went wrong.

`ServiceProofs` proves for any command lines, any number of sessions, reorgs and faults,
and any block size: `RestartsRepair`, `LinesArePaidFor`, `KafkaSinkNeverPanics`,
`NothingOfTheFirstSessionIsRefused`, `TypesHold` and the invariant they come from,
`InvariantHolds`. Its parts: `SessionOK` (a session's configuration is valid, and one
that ended is cut off cleanly), `FailuresPaid` (a torn or an unfinished line that nobody
is writing was paid for by a failure), `Underway` (what is pending is the tail of the
current block, and nothing above it was transformed), `Reached` (all of the session's
blocks but that tail have reached the reader), and, for PostgreSQL, `FirstSession`: once
everything pending has been executed, only heights in force have rows, so the next
Create meets none. There it matters that a reorg's Deletes cover every height up to the
current one, also one that was passed over; that they find a row is not needed, and not
true. It is about calls that return. Ids are JSON numbers here too: `Service` has no
text keys.

Only model-checked: liveness (`PollsAgain`, `CatchesUp`, `CallReturns`),
which is beyond the prover. The runs of the section before refute their properties;
there is nothing to prove about them.

## What is not modelled

* `__height`, stdout and stderr touch nothing shared; the sinks' `flush` and `close`,
  the cache's `clear`, `SyncMetashrewClient` and `set_state`: no caller in the service.
  `NullSink`: no configuration makes one. `ResourceLimiter` is never attached.
* The header of messages, the inverse's included, and the snapshots of
  `TransformState`, which stays empty.
* JSON, hex, byte layouts and logging. Among the last, `truncate_response_for_logging`
  cuts at byte 1000 (client.rs:24), which panics inside a multi-byte character; texts
  are not modelled.
* A message that Kafka delivers only after the service was restarted, or twice out of
  order; twice in a row makes no difference to a consumer that stores records.
* A reorg while the service is down: rows above the new tip stay until heights are
  sent again. `RestartRepairs` speaks of heights up to the tip.
* Heights near 2^32 (the block count's cut is modelled), and messages at guest
  addresses above 2^31 other than as a reason of `FinishFails`.
* The locks: one task takes them, always in the order runtime, cache, and gives
  up both before `handle_reorg` calls `process_block`.
* `test_utils` and the adapter's `deep_copy`, tests' own tools.
  `debshrew-runtime/src/host.rs` is in no module tree. `debshrew-test-consumer` and
  the examples are programs around the service.

## Plan

In the order in which it matters:

1. Composition: `Synchronizer` driving `CdcPipeline`, so that it is the code's own
   choice of ancestor, and not any, that meets real messages and a real database.
   `Service` does so for blocks of Creates, where a Delete of a row that is gone does
   no harm.
2. Proofs: that the composition of 1. restores what a single undo does; what a second
   undo leaves of records whose messages were all Creates.
3. The header of inverse messages against cdc-concepts.md:54-55.
4. `Service` with a small block cache, and with rows left above the tip by a reorg
   while it was down.
