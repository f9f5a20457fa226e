# Formal models of go-archiver

These are TLA+ models of the go-archiver archiving pipeline, with TLC configurations and TLAPS proofs. The pipeline walks the ticks of a Qubic node. For each tick it validates the quorum votes, the tick data and the transactions, and then writes them, with their secondary indexes, into a Pebble store. All paths below are relative to the repository root.

## 1. The system

| Part | Source | What it does |
|---|---|---|
| Processor loop | not under `src/` (spec §2, §7) | Calls `ValidateTick` on `lastProcessed+1`. It then does one of three things:<br>• after a fetch error, it retries the same tick;<br>• after a validation error, it records the tick in `SkippedTicksInterval` and moves on;<br>• after success, it appends a new interval when the tick does not follow the last one, then calls `SetLastProcessedTick`. |
| `Validator.ValidateTick` | `src/unnamed/part_001:26-127` | Runs these steps in order: fetch votes → computors (stored, or fetched from the node) → validate and store computors → `quorum.Validate` → the empty-tick shortcut on `quorumVotes[0].TxDigest` → fetch and validate tick data → fetch and `tx.Validate` the transactions → `quorum.Store` → `tick.Store` → `tx.Store`. |
| Package `tx` | `src/validator/tx/validator.go` | `Validate` checks the transaction count against the de-duplicated digest set and checks each transaction's membership in it. `Store` makes three writes: `SetTransactions`, the per-identity transfer index (one `Put` per identity), and the per-identity, per-asset Qx index. |
| `PebbleStore` | `src/unnamed/part_000` | Setters and getters for every record. `SetLastProcessedTick` makes two separate writes: a batch with the per-epoch and global last tick, then the epoch's interval list. `GetLastProcessedTick` reads the global value in the legacy 8-byte format or as protobuf, choosing by length. |
| Migrations | `src/migrations/` | On every start, the QuorumData prefix is cleared. Then the numbered migrations run, each followed by `SetMigrationVersion`. |
| Reverse asset-transaction reader | `src/unnamed/part_000:914-1033` | `GetIdetityAssetTransactionsFromEnd` returns one page of an identity's asset transactions, highest tick first, and a cursor `(nextEndTick, nextIndex)` for the next page. |
| Asset classifiers | `src/unnamed/part_003`, `src/validator/tx` | Two classifiers decide which per-identity, per-asset index buckets a transaction goes to.<br>• `StoreQxAssetTransfers` (`validator.go`) is called by `tx.Store` of `validator.go` and by migration 001. It keeps input type 2 with a decodable Qx payload.<br>• `ParseAssetTransaction` (`part_003`), grouped by `StoreAssetTransactions` (`models.go`), classifies native, send-many and Qx transfers.<br>`src/` mixes two revisions of package `tx`: `validator.go` and `models.go` both define `Validate` and `Store`. The store in `part_000` has `models.go`'s `PutAssetTransactionsPerTickBatch`, not the `PutQxAssetTransfersPerTick` that `validator.go` and migration 001 call. Which one the pipeline runs depends on the revision; both classifiers are modelled. |
| RPC server | `src/rpc/rpc_server.go` | Read-only façade over the store. Each handler calls one `PebbleStore` getter and maps `ErrNotFound` to `NotFound` and any other error to `Internal`. `GetLastProcessedTick` maps every error, `ErrNotFound` included, to `Internal`. `GetIdentityInfo` passes a query through to the node. |
| HTTP gateway | `src/protobuff/archive.pb.gw.go` | Generated REST-to-gRPC forwarding. |

How the parts interact:
- There is one writer, the pipeline task, and many readers: RPC handlers reading the same store.
- Every store write is its own `pebble.Sync` commit, so a crash loses only the task's in-memory state.

**Hard behaviours.** These are listed with their lines under `hazards` in `PROJECT.json`:
- readers observing a tick between its separate commits;
- a crash between two store calls, followed by a restart that resumes from the stored `LastProcessedTick`;
- a source node that answers with forged, missing or repeated transactions, or whose first vote dissents;
- fetch errors retried forever.

## 2. Modules

### `Archiver.tla`: the pipeline

**State.** The store is modelled as these sets:
- `computors`, `quorumData`, `tickData`;
- `tickTx`, `transferIdx`, `assetIdx`: the transactions that have a record in each;
- `lastProcessed`, `lastPerEpoch`, `intervals` (per epoch, a sequence of `[initialProcessedTick, lastProcessedTick]`);
- `skipped`.

The task is modelled as:
- `pc`: which store call comes next;
- `cur`, `validTxs`, `next`, `crashes`.

**Data abstraction.**
- A transaction is its digest: a model value of `TxIds`.
- `Body[t]` is the set of non-zero digests of tick `t`.
- `Transfers` and `AssetTxs` are the transactions that the `Amount != 0` filter and the Qx classifier keep. `AssetClassifier` models which transactions that classifier keeps.

**Actions.** There is one action per step of the code:

| Action | Models |
|---|---|
| `FetchFailed` | A fetch error. Computors may already be stored. |
| `ValidationFailed` | A validation failure. The tick is skipped and `next+1`. The computors are stored or not: `computors.Validate` fails before `computors.Store`, the quorum, tick data and transaction checks after it. |
| `EmptyQuorumTick` | The zero-digest early return. |
| `Validated` | Validation succeeds. The node's answer is any sequence over `Body[t] ∪ {Forged}`, injective unless `NodeMayRepeat`, and it is filtered through `ValidateTxs`, a transliteration of `tx.Validate`. |
| `StoreQuorum`, `StoreTick`, `StoreTxs`, `StoreTransfers`, `StoreAssets` | The store calls. |
| `AppendInterval` | The interval append. |
| `SetLastProcessed`, `SetIntervals` | The two writes of `SetLastProcessedTick`. |
| `CrashRestart` | A crash and restart. QuorumData is cleared, and the task resumes at `lastProcessed.tick+1`. |
| `WaitForTick` | Idle polling after the last tick. |

**Flags.**
- `FirstVoteMayDissent`: `quorumVotes[0]` may come from outside the dominant group.
- `NodeMayRepeat`: the node may repeat a transaction.

**Fairness.** `WF_vars(ProcessTick)` is assumed:
- The pipeline is a single task that always runs its next step.
- A fetch failure is transient (spec §7). This is why `FetchFailed` is outside the fair action.
- Crashes are bounded by `MaxCrashes` and carry no fairness.

### `MC_Archiver.tla` and its configurations

The instance has five ticks:
- tick 1 holds `{a,b}`;
- tick 2 is an empty quorum tick;
- tick 3 holds `{c}`;
- ticks 4 and 5 have empty bodies and fall in epoch `e2`.

So the instance covers an epoch change, an empty tick, gaps after skipped ticks, and a transaction in each index.

`MC_Archiver.cfg` is this instance alone, without a client, and is not one of the runs. The `pipeline` run uses the same constants through `MC_QueryFacade.cfg`.

### `Archiver_proofs.tla`, `ArchiverIntervals_proofs.tla`, `ArchiveIndex_proofs.tla`

These modules hold the TLAPS proofs (section 4).

### `ArchiveIndex.tla`: what the pipeline promises readers

This is an abstract specification with no store call, task state or crash in it. It has the records a reader can find and three actions:
- `WriteTick(t)` adds some records of tick `t`'s body. It is allowed only while `t` lies beyond `LastProcessedTick`.
- `SkipTick(t)` records `t` as skipped, under the same condition.
- `CommitTick(t)` moves `LastProcessedTick` to `t`. It is allowed only if every tick in between is skipped and `t` is empty or fully stored (`FullyStored`).

It has no action that removes a record.

`AbsIndexed` states what the promise gives readers: every tick up to `lastTick` that is neither empty nor skipped is fully stored. It is proved in `ArchiveIndex_proofs`, and under the mapping it is the pipeline's `ProcessedTicksIndexed`.

`Archiver` instantiates it as `Abs == INSTANCE ArchiveIndex WITH lastTick <- lastProcessed.tick, skippedTicks <- skipped`. The other records map by name. `ImplementsArchiveIndex == Abs!AbsSpec` is checked as a PROPERTY by the `pipeline` run.

Under this mapping the steps correspond as follows:
- `StoreTick`, `StoreTxs`, `StoreTransfers` and `StoreAssets` are `WriteTick(cur)`;
- `ValidationFailed` is `SkipTick(next)`;
- `SetLastProcessed` is `CommitTick(cur)`;
- every other step, the computors, QuorumData, intervals and crashes included, leaves the mapped records unchanged.

Both node bugs break the refinement. A dissenting first vote and a repeated transaction each commit a tick that is not fully stored.

### `QueryFacade.tla`: the RPC handlers next to the pipeline

`QueryFacade` EXTENDS `Archiver` and adds one client of `rpc.Server`. The client's state has two parts:
- `reply`: the status code of its last call;
- `seen`: the `LastProcessedTick` it last read.

The two components interact only through the store (spec §5). `FacadeNext` interleaves a pipeline step (facade state unchanged) with a client call (store unchanged), so a call can fall between any two store calls of the pipeline, before or after a crash and restart.

Each handler is an action:
- `RpcGetTickData`, `RpcGetTickTransactions`, `RpcGetTransaction`, `RpcGetQuorumTickData` and `RpcGetComputors` call the getter (`StoreGet*`, from `part_000`) and answer through `Answers`. `Answers` gives `NotFound` when the record is absent and `OK` otherwise. It also allows `Internal`, since any Pebble read may fail with an I/O error.
- `RpcGetTransaction` answers `InvalidArgument` for an id that does not decode (`MalformedId`), before any read.
- `RpcGetLastProcessedTick` answers `OK` and updates `seen` when the record exists. Otherwise it answers `Internal`: the handler maps `ErrNotFound` to `Internal` too (`rpc_server.go:131`), where spec §6 maps NotFound to NotFound.

`StoreGetTickTransactions` is one step, although the code makes one `Get` for the tick data and one per transaction. This is sound because the pipeline's tables only grow, QuorumData aside. A later `Get` therefore sees at least what an earlier one saw, and the answer is the one a single read at the last `Get` would give.

`rpc_server.go` was written against an earlier `PebbleStore` interface: for example, it passes a `uint64` tick where the getters take a `uint32`. The model follows the handlers' control flow over the getters' semantics.

`GetIdentityInfo` and `Start` are not actions, since neither reads nor writes the store. `ClientCall` stands for `Start`'s server, which accepts any call at any time.

**Fairness.** `FacadeSpec` keeps the pipeline's `WF` and gives clients none.

**QuorumData after a restart.** `GetQuorumTickData` answers `NotFound` after every restart for each tick processed before it, because start-up range-deletes the QuorumData prefix. The model reaches these answers. No property is stated about them, because spec §4.10 retires that prefix.

### `ReversePaginator.tla`: the reverse reader and a paginating client

**State.**
- `index`: the records, as a function from tick to its list of ids in insertion order. This is the layout `PutAssetTransactionsPerTickBatch` writes. An id is the pair `<<tick, position>>`.
- `flew`: the ids whose status has `MoneyFlew`.
- `includeFailed`, `limit`, `start`: the client's arguments.
- `cursor`, `collected`, `lastCall`, `calls`, `done`: the client's session.

**Operators.** The reader is translated loop for loop:
- `TicksBelow` is the iterator range under the upper bound `endTick+1`. Ticks are taken modulo `TickModulus`, which stands for 2^32, so that the wrap can happen.
- `ScanKeys` is the backward key loop. It includes the first-tick skip and the decrement of `nextEndTick`.
- `ScanTick` is the inner loop over a reversed record. It includes the status filter (`Qualifies`), the limit check and the returned `nextIndex`.
- `GetFromEnd` adds the defaults: endTick 0 becomes `LastProcessedTick`, and a limit of 0 becomes 1000.
- `RefFrom` and `RefPage` are the reference of spec §4.9. They are written with sets and sequence operators rather than loops.

**Actions.**
- `Call`: the client calls the reader at its cursor. An empty page ends the session. Otherwise the client appends the page and moves to the returned cursor.
- `SessionOver`: the session is finished, or it has made `MaxCalls` calls.

The client is not code of this repository: it is the caller that spec §8 item 6 describes.

**Bounds.** The passing run uses:
- three ticks, with one or two ids each;
- every subset of statuses;
- limits 1, 2 and the default;
- endTick omitted (0) or 2 or 3;
- eight calls.

The start ticks stop below the top of the scaled range. The reason is that `endTick = 2^32-1` makes `endTick+1` wrap to 0 (`part_000:932`), and the page comes back empty. TLC shows this against `PageMatchesReference` as soon as endTick 4 is allowed with `TickModulus = 5`; it is listed as a hazard.

These cover a page that ends mid-tick, at a tick's end, and at the bottom of the key range, as well as a first tick whose start index is past its end. The search reaches about 106,000 distinct states.

### `Migrations.tla`: start-up (`PerformMigrations`)

`migrations.go` registers one migration, `AssetTransactionMigration`, whose definition is not in `src/`. The model takes it to be `AssetTransferMigration` of `001_asset_transfer.go`, the only numbered migration there, so `MigrationCount = 1`.

**State.** The store part that start-up touches:
- `quorumData`;
- `version`: `DbMigrationVersion`, where 0 means absent;
- `stored`: the ticks with TickData;
- `lastProcessed`;
- `assetIdx`: the `<<tick, tx>>` entries of `QxIdentityAssetTransfers`.

The task's state is `pc`, `currentVersion`, `idx`, `lastTick`, `tickNumber` and `crashes`. Body and classifier are constants, as in `Archiver`. `Entries(t)` is what `StoreQxAssetTransfers` writes for tick `t`.

**Actions.** There is one action per store call of the code, in the code's order:
- `DeleteUnusedDataMigration`;
- `GetMigrationVersion` (absent is 0);
- `NextMigration`: the `for idx, migrate := range migrations` loop and its `migrationIndex > currentVersion` test;
- for migration 001: `ClearAssetTransfers`, `GetLastTick`, `FindFirstTickNumber`, `MigrateTick` and `MigrationDone`. `MigrateTick` does one loop turn: `GetTickTransactions`, whose outcome is ok, NotFound or an error, then `processTickData`.
- `SetMigrationVersion`.

`Crash` may fire between any two of them, up to `MaxCrashes` times, and restarts the sequence. `Finished` is the returned state: done or failed.

**Init.** Any store an earlier run leaves:
- `LastProcessedTick` has TickData;
- a migrated store holds the rebuilt index plus entries of ticks past `LastProcessedTick`;
- an unmigrated store holds any old index.

With `FreshStore`, the store may also be empty.

**Fairness.** `WF_vars(Step)` is assumed: start-up is one sequential call that always takes its next step. Crashes are bounded and carry no fairness.

**Bounds.** The instance has:
- three ticks: one with an asset transfer, one empty, and one with an asset transfer and a native transfer;
- two crashes.

This lets a crash fall inside the rebuild loop, between the loop and `SetMigrationVersion`, and after it. It also covers tick ranges with gaps.

### `LastTickCodec.tla`: the last-processed-tick record

`SetLastProcessedTick` (`part_000:374-401`) writes two values in one batch:
- the per-epoch tick, as 4 little-endian bytes;
- the global `ProcessedTick`, as protobuf.

`GetLastProcessedTick` (`part_000:422-460`) reads the global value back in one of two ways:
- **legacy** — any value of length 8 is taken as a little-endian uint64 tick, and its epoch is looked up in `GetLastProcessedTicksPerEpoch`;
- **protobuf** — any other value is unmarshalled.

The module models values as byte sequences:
- `Varint` and `MarshalProcessedTick` model the encoding; zero fields are omitted.
- `VarintValue` and `UnmarshalProcessedTick` model the decoding.
- `LegacyEpochs` is the map loop. Its iteration order is random, so when several epochs match, any one may win.

The `.proto` schema is not in the repository, so its field numbers are the constants `TickField` and `EpochField`. Every field number below 16 has a one-byte tag, and with such a tag the collision below occurs whatever the numbers are.

A tick read back is compared through its four bytes, as `==` on `uint32` does. This keeps every TLC integer below 2^31.

`Init` is either a store without the key, or a store left by an earlier release: a legacy 8-byte value and its per-epoch entry.

`RoundTrip` is an action property. Every read of a stored value must return the tick and epoch that were written last.

A protobuf encoding is 8 bytes long when the varints take 4+2 or 5+1 bytes. The 4+2 case is a tick in [2^21, 2^28) with an epoch in [128, 16384), which is the range of current Qubic ticks and epochs.

The run therefore samples ticks around the varint boundaries: 127, 16384, 2^21-1, 2^21 and 17,000,000. It samples epochs 127, 128 and 150.

As a check of the decoder, the same module with ticks {127, 128, 16384, 2^21-1} and epochs {1, 127, 150} has no 8-byte encodings. Over those values, with three writes, `RoundTrip` holds, including the legacy reads (5,485 states).

`Archiver`'s `CrashRestart` assumes that the tick read back is the one written, which is exactly what this run refutes.

### `AssetClassifier.tla`: the asset classifiers

The module abstracts a transaction to these fields:
- `source`, `dest` and `inputType` (0–3);
- the length class of the input: too short, the 80 bytes of a Qx transfer, or a longer send-many payload;
- what the decoders read from the input: the new owner, the issuer, the asset name and the send-many destinations.

`QxDecodes` is `UnmarshalBinary` (`qx/payloads.go`). Its four `binary.Read`s need 80 bytes and ignore any bytes after them.

`ParseAssetTransaction`, `FindTransactionParticipants` and `FindTransactionCurrency` translate `part_003`. `AssetTransactionBuckets` is their grouping in `models.go`.

`IsQxAssetTransfer` and `QxAssetTransferBuckets` translate `StoreQxAssetTransfers`.

`SpecBuckets` is the table of spec §4.7, read as the buckets of spec §8 item 3.

The state is a single transaction, chosen in `Init` from every one in the set. The run is a check of pure functions over all 1,536 transactions of the instance: two identities, both contracts and one asset name.

The instance has one violation run, `qx_index_any_destination`. `AssetClassifier_proofs` covers the rest.

## 3. Runs

Passing runs:

| Run | cfg | Checks | Shows |
|---|---|---|---|
| pipeline | `MC_QueryFacade.cfg` (the `MC_Archiver` instance, ≤2 crashes, one client) | `FacadeTypeOK`, `ProcessedTicksIndexed`, `NoOrphanTransactions`, `ReadAfterLastProcessedTick`, `EveryTickArchived`, `ImplementsArchiveIndex`, `LastProcessedNeverRegresses` | With an honest node:<br>• ticks up to `LastProcessedTick` are fully indexed;<br>• no record is an orphan;<br>• a client that read `LastProcessedTick` gets no `NotFound` for the tick data, transactions or a transaction of a non-empty, non-skipped tick up to it, even after a crash and restart;<br>• every tick is eventually archived or skipped;<br>• the pipeline implements `ArchiveIndex`;<br>• `LastProcessedTick` never moves back, and an epoch's last tick moves only forward, onto the new `LastProcessedTick` (an action property).<br>The run has about 570,000 distinct states and takes about 2 minutes. |
| intervals_no_crash | `MC_Archiver_NoCrash.cfg` | `IntervalsWellFormed`, `LastPerEpochMatchesIntervals` | Without crashes (`NoCrashSpec`: `Next` without `CrashRestart`, `MaxCrashes = 0`), the interval bookkeeping satisfies spec §8 item 4. |
| startup | `MC_Migrations.cfg` | `TypeOK`, `MigratedIndexComplete`, `StartupCompletes` | Over every non-empty store and up to two crashes, start-up always returns successfully. When reads succeed, a recorded version means the asset index is exactly the rebuild of the processed ticks. Re-running migration 001 after a crash is harmless, because it clears the prefix first. |
| paginator | `ReversePaginator.cfg` | `TypeOK`, `PageMatchesReference`, `NothingSkipped` | Every page equals the reference page from its cursor, and the cursors never skip a qualifying transaction. |

Violation runs (the findings in `PROJECT.json`):

| Run | Property | Counterexample |
|---|---|---|
| first_vote_zero | `ProcessedTicksIndexed` | A dissenting first vote with a zero digest makes a non-empty tick "empty". It is counted as processed with nothing stored (`part_001:71`). |
| repeated_tx | `ProcessedTicksIndexed` | `[a,a]` for body `{a,b}` passes `tx.Validate`, because the count is taken against the de-duplicated digest set (`validator.go:25`). `b` is never stored. |
| half_written_tick | `TickDataComplete` | `TickData` is visible before the tick's transactions, against spec §4.2/§4.8 (one atomic batch). |
| qx_index_any_destination | `QxAssetIndexSound` | A transaction of input type 2 from A to A, with an 80-byte input, is filed as a Qx asset transfer under `(A, issuer ++ name)`. `removeNonQxAssetTransferTransactionsAndConvert` (`validator.go:249`) never checks the destination. |
| paginator_exact_end | `PaginationLaw` | When a page fills on the last id of a tick, the returned cursor is `(tick, 0)`: line 1016 leaves `nextTxnIndexStart` at 0 and the return skips the decrement. The next page repeats the tick. With limit 1 and one-id ticks, the client never advances. This breaks spec §8 item 6 ("exactly once ... terminates"). |
| migration_read_error | `MigratedIndexComplete` | A read error on one tick is logged and skipped (`001_asset_transfer.go:48`). The migration succeeds and version 1 is recorded, so that tick's asset transfers are never indexed. |
| startup_fresh_store | `StartupCompletes` | On an empty store, migration 001 returns `GetLastProcessedTick`'s ErrNotFound (`001_asset_transfer.go:23`). `PerformMigrations` then fails on every start. |
| last_tick_codec | `RoundTrip` | `SetLastProcessedTick(2^21, 128)` stores `<<8,128,128,128,1,16,128,1>>`, which is 8 bytes long. `GetLastProcessedTick` takes it for the legacy format (`part_000:435`) and returns the tick `0x80808008` with epoch 0. |

**Bounds.** Five ticks and two crashes let a crash fall between any two store calls of any tick, including across the epoch boundary. Two ticks with transactions are enough for an orphan or a missing index entry to show. Each property also has a mutant of the code that TLC catches under the same configuration (see `mutants`).

**Interval bookkeeping under crashes.** The interval properties are checked only by `intervals_no_crash`, which has no crashes.

Running that configuration with `MaxCrashes = 1` violates both properties:
- `IntervalsWellFormed` fails through a crash after `AppendProcessedTickInterval` (`part_000:749`), followed by a restart and a skip of the retried tick.
- `LastPerEpochMatchesIntervals` fails through a crash between the two commits of `SetLastProcessedTick` (`part_000:396`).

These two are recorded as hazards, not runs.

## 4. Proofs (TLAPS)

### `Archiver_proofs.tla`

The proofs assume `ConstantsAssumption`, which includes `MaxTick ≥ 1` and that `TxIds` is finite. Under it they prove:

- **`TypeCorrect`**: `Spec => []TypeOK`, for every instance. The proof needs two lemmas: `ValidateTxsSubset` and `ExtendLastIntervalType`.
- **`NoOrphans`**: `Spec => []NoOrphanTransactions`, for every instance and every node behaviour. `NoOrphanTransactions` alone is not inductive: a step of `StoreTxs` needs to know what the task holds. The inductive invariant `OrphanInv` adds two facts:
  - `validTxs ⊆ Body[cur]`;
  - once `tick.Store` has committed, `cur ∈ tickData` whenever `validTxs ≠ {}`.
- **`IndexedUpToLastProcessed`**: `Spec => []ProcessedTicksIndexed`, assuming `~FirstVoteMayDissent` and `~NodeMayRepeat`. The violation runs show the property fails without these assumptions. The inductive invariant `IndexedInv` says:
  - every tick strictly between `LastProcessedTick` and `next` is skipped;
  - while a tick is in flight, `validTxs = Body[cur]`;
  - each store call that has committed holds its part of the body.

  Its key lemma is `ValidatedTxsAreBody`: an injective answer that passes the count and membership checks is the whole body. It is proved with `FS_Injection`.
- **`ArchiverImplementsArchiveIndex`**: `Spec => ImplementsArchiveIndex`, under the same two assumptions. `RefinementInit` maps the initial state to `AbsInit`. `RefinementNext` shows that, under `IndexedInv`, every step is an `ArchiveIndex` step or leaves the mapped records unchanged. It needs three conjuncts of `IndexedInv`:
  - the tick in flight lies beyond `LastProcessedTick`, so `WriteTick` is allowed;
  - the ticks in between are skipped;
  - at `setLastProcessed` every store call of the tick has committed, which makes `FullyStored` hold for `CommitTick`.

  The temporal step combines these with `PTL`.
- **`IndexedByRefinement`**: `ProcessedTicksIndexed` once more, under the same assumptions, this time derived from the refinement. The pipeline implements `ArchiveIndex`, and `ArchiveIndex_proofs` shows that every implementation of it gives readers what `AbsIndexed` says. `ProcessedTicksIndexed` is exactly `AbsIndexed` under the mapping. So a change to the pipeline that keeps the refinement keeps this guarantee, without a new invariant proof.

- **`LastProcessedMonotonic`**: `Spec => LastProcessedNeverRegresses`, the action property of the `pipeline` run. It holds for every instance and every node behaviour, with no assumption on the flags, and across any number of crashes. A restart that resumed below the stored tick would break it: it would record an earlier tick again. The action alone does not follow from one step, because `SetLastProcessed` writes `cur` without comparing it with the stored tick. The inductive invariant `ControlInv` adds what the step needs:
  - `TypeOK`;
  - while a tick is in flight, `next = cur`;
  - before `SetLastProcessed`, `LastProcessedTick < next`; after it, `LastProcessedTick = cur`;
  - every epoch's last tick is at most `LastProcessedTick`.

  `CrashRestart` keeps it because it sets `next` to `LastProcessedTick + 1`. Lemma `OnlySetLastProcessedWrites` says that every other step leaves both records unchanged. `NoRegressNext` turns `ControlInv /\ [Next]_vars` into the allowed step, and `PTL` concludes.

### `ArchiveIndex_proofs.tla`

- **`AbsReadersSeeFullTicks`**: `AbsSpec => []AbsIndexed`, assuming only `MaxTick ∈ Nat`. `AbsIndexed` says that every tick up to `lastTick` that is neither empty nor skipped is fully stored.
  - `AbsIndexed` is inductive once `lastTick ∈ Nat` is added.
  - `WriteTick` only adds records. Lemma `FullyStoredStable` says a fully stored tick stays fully stored.
  - `SkipTick` only weakens what must be stored.
  - `CommitTick` moves `lastTick` only over skipped ticks, onto a tick that is empty or fully stored.

### `ArchiverIntervals_proofs.tla`

These two theorems concern the processor's per-epoch bookkeeping (`AppendProcessedTickInterval`, `SetLastProcessedTick`). They are proved for `NoCrashSpec`, the pipeline without `CrashRestart`, for every instance and every node behaviour. This is the configuration the `intervals_no_crash` run checks. With crashes, both properties are false (section 3), so the theorems state exactly the case in which they hold.

- **`IntervalsWellFormedNoCrash`**: `NoCrashSpec => []IntervalsWellFormed`.
- **`LastPerEpochMatchesIntervalsNoCrash`**: `NoCrashSpec => []LastPerEpochMatchesIntervals`.

Both follow from the inductive invariant `IntervalInv`, which has these parts:
- the control facts of `IndexedInv` that do not depend on the node:
  - a tick in flight is `next`;
  - it lies beyond `LastProcessedTick` until `SetLastProcessed`;
  - in `setIntervals`, `LastProcessedTick` and the epoch's last tick are the tick;
- `IntervalsBelowBound`: no interval ends beyond `LastProcessedTick`, except the `[cur, cur]` just appended, while in `setLastProcessed`. This is what makes the appended interval lie beyond every earlier one.
- `IntervalsWellFormed`;
- `LastPerEpochAtEnd`: `LastPerEpochMatchesIntervals` required for every epoch except the epoch of the tick inside `SetLastProcessedTick`'s two writes. The plain property is vacuous in that window, so it is not inductive: `SetIntervals` would need it for the other epochs.

The step proof has one lemma per group of actions:
- `IntervalControlBeforeBookkeeping` and `IntervalDataFrame` cover the validation and store steps;
- `IntervalAppend`, `IntervalSetLastProcessed` and `IntervalSetIntervals` cover the bookkeeping.

`ExtendLastIntervalFacts` states what `ExtendLastInterval` returns.

TLC checked `IntervalInv` as an invariant before the proof was written. The checks covered the `intervals_no_crash` instance, the same instance with a misbehaving node, and one with alternating epochs.

### `QueryFacade_proofs.tla`

- **`FacadeTypeCorrect`**: `FacadeSpec => []FacadeTypeOK`, for every instance. It follows from `TypeInit` and `TypeNext` of `Archiver_proofs`, together with the handlers' answer sets.
- **`ReadsAfterLastProcessedTickFound`**: `FacadeSpec => []ReadAfterLastProcessedTick`, assuming `~FirstVoteMayDissent` and `~NodeMayRepeat`. The inductive invariant `FacadeInv` is `IndexedInv` plus `seen ≤ lastProcessed.tick`.
  - The second conjunct holds because `LastProcessedTick` never moves back (lemma `LastProcessedMonotone`: `SetLastProcessed` writes the tick in flight, which lies beyond it).
  - The client's `seen` is therefore never ahead of the store, and `ProcessedTicksIndexed` gives every getter's record.
  - Client steps leave the pipeline's variables unchanged, so `IndexedNext` covers them as stuttering steps.

### `Migrations_proofs.tla`

The proofs assume `MigrationsAssumption`: the ticks are a finite set of naturals, and `Body` is a function into sets of digests. Under it they prove:

- **`TypeCorrect`**: `Spec => []TypeOK`. The inductive invariant `TypeInv` adds two facts:
  - migration 001's steps run only while the stored version is 0 and `idx = 1`;
  - the loop over migrations compares with the version it read.

  Without these, `SetMigrationVersion` could be seen to record a number out of range.
- **`MigrationRebuildsIndex`**: `Spec => []MigratedIndexComplete`, assuming `~ReadMayFail`. The violation run shows it fails without this assumption. The inductive invariant `RebuildInv` follows the migration step by step:
  - after the clear, the index is empty;
  - from `FindFirstTickNumber` on, `lastTick = LastProcessedTick`;
  - in the loop, the index is `RebuiltBelow(tickNumber)`: the entries of the processed ticks below the loop variable;
  - at `SetMigrationVersion`, it is the whole rebuild.

  A crash resets only the task's variables, so every conjunct that depends on the task's position becomes vacuous.

  The lemmas are:
  - `RebuiltBelowStep`, `RebuiltBelowAll` and `RebuiltBelowFirst`: the loop's three moments;
  - `MinTickIsLeast`: the lowest TickData key is a least element. It is proved from the library's `WFMin` and `NatLessThanWellFounded`.

Left to TLC:
- the liveness properties `EveryTickArchived` and `StartupCompletes`: they depend on fairness, which the provers here do not handle;
- the interval properties under crashes, where they are false;
- the paginator's `PageMatchesReference` and `NothingSkipped` (and its `TypeOK`). `ReversePaginator` defines the reader's two loops as `RECURSIVE` operators. Proving what they compute for every record set would be induction over data, which the installed provers cannot instantiate, and a module that reaches a `RECURSIVE` operator loses the SMT backend. TLC checks them on every record set of the run's bounds.

### `LastTickCodec_proofs.tla`

`CurrentRecordsLookLegacy` proves a fact about `MarshalProcessedTick`, for any field numbers, every tick in [2^21, 2^28) and every epoch in [128, 2^14): the encoding is exactly 8 bytes long.

So the `last_tick_codec` counterexample is not an isolated value. Every record in the current range reaches the legacy branch of `GetLastProcessedTick`.

The proof rests on two lemmas and `ConcatProperties` from `SequenceTheorems`:
- `VarintLength`: a varint has `VarintLen` bytes;
- `FieldLength`: a one-byte tag plus a varint.

`VarintLen` is 4 for the tick and 2 for the epoch, which gives 5 + 3 whichever field comes first.

What the decoder then returns is not proved. It is shown by the TLC run and by the no-collision check described above.

### `AssetClassifier_proofs.tla`

`AssetParserMatchesSpec` proves that `AssetTransactionBuckets(t) = SpecBuckets(t)` for every transaction and every set of identities and asset names. The proof has one case per arm of the spec's table.

The theorem covers these details of the code:
- the input-type test comes before the contract test;
- a payload that fails to decode is demoted to `ErrNotValidTransaction`;
- send-many uses the native currency.

Replacing `FindTransactionCurrency` by a constant native currency makes the Qx case fail.

`QxIndexAcceptsAnyDestination` exhibits the `qx_index_any_destination` counterexample in every instance that has an identity other than the Qx contract.

## 5. Not modelled yet (plan)

Modules planned next, in this order:

1. The computors epoch check. When the vote epoch's computors are not stored, `ValidateTick` (`part_001:48`) fetches the node's current list. `computors.Store` then files that list under its own epoch. Modelling this needs the epoch of the fetched list as state in `Archiver`.
2. `Uint64ToString`. Its `bytes.Trim` strips zero bytes at both ends, where spec §4.7 strips only trailing zeros. This matters only for asset names that begin with a zero byte, which Qubic asset names do not.

Not planned:
- the protobuf conversions of the classifier and the Qx codec's byte layout: their outcomes are what `AssetClassifier` abstracts to;
- `GetIdentityInfo` and `Server.Start`: a pass-through to the node and listener set-up, touching no store state;
- the HTTP gateway (`archive.pb.gw.go`): generated forwarding code, with no state of its own;
- the per-identity transfer lists as lists. A transfer whose source is its destination is appended twice to that identity's list (`validator.go:180`). The model keeps the index as a set, which the properties need;
- the Dockerfile.
