# Formal models of the tezedge debugger

This directory holds TLA+ models of the parts of the repository under `src/` that have state worth checking. Alongside them are TLC configurations that check the models on small instances, and TLAPS proofs of their main safety properties for every value of the constants. `PROJECT.json` lists, for every definition, the source lines it translates. It also lists the runs, the mutants that show each checked property can fail, the findings and the hazards.

## 1. The system and its parts

| Part | Source | What it does | Model |
|---|---|---|---|
| Chunk-parser state machine | `tezedge-recorder/src/connection/chunk_parser/state.rs` | Each direction (local and remote) of an observed connection is a variant: `Initial`, `HaveCm`, `Uncertain`, `HaveKey`, `HaveNotKey`, `HaveData` or `CannotDecrypt`. Every variant owns an `Inner` (a `Buffer`, a chunk counter and its own copy of the `connection::Item`). `make_key` is the one point where the two directions meet. | `ChunkParser`, refining `Recorder` |
| Buffer, keys, coordinator | not under `src/` (spec §4.A, §4.B, §4.D) | The buffer splits 2-byte-length frames. `Keys::new` and `Key::decrypt` are the crypto. The coordinator routes payloads, runs the `HaveData` iterator, calls `make_key`, and keeps the connection record. | `ChunkParser` (`spec_modelled` in the map) |
| Message store | `src/storage_/store.rs` | `Store` is cloned into every recording thread. All clones share the RocksDB handle, `seq` and `count`. `store_message` reserves an index, evicts `index - limit`, puts the message, then writes its secondary indices. | `Store`, refining `StoreWindow` |
| BPF facade | `bpf-common/src/facade.rs` | `from_rb_slice` turns ring-buffer slices into events, using `SnifferError::code` to validate the `size` field and `parse_socket_address` to read the address of a `Connect`, `Bind` or `Accept` event. `Command` is written with `Display` on a unix stream and read back with `from_str`. | `Facade` |
| Stack resolver | `tezedge-memprof/src/stack.rs` | A loader thread follows a pid, reads its memory map, loads symbol tables, and publishes tables and map under an `RwLock`. `resolve` reads them. | `StackResolver`, refining `SymbolLoader` |
| Not modelled | `src/main.rs`, `src/system/mod.rs`, `src/bin/drone_test_server.rs`, `src/storage_/p2p/mod.rs`, `tezedge-memprof/src/lib.rs` | Process setup (sysctl, iptables, actors, HTTP), a test echo server that runs real crypto, and module declarations. None of them has a state machine of its own: they are pure I/O and wiring. | none |

The parts interact only through data. The parser's chunk records go to a store, and the memory profiler and the BPF facade feed other pipelines. None of them calls another's state-changing code, so each is modelled as a system of its own, with its environment made nondeterministic.

## 2. The modules

### ChunkParser (state.rs plus the spec-modelled buffer and coordinator)

**State.** Each of the following is a function of the direction `d` (`"local"` or `"remote"`):
- `st[d]`: the variant.
- `buf[d]`: the unconsumed bytes of the buffer.
- `counter[d]`: the buffer's chunk counter.
- `error[d]`: `HaveData.error`.
- `cn[d]`: the half's own `connection::Item` copy.
- `emitted[d]`: the chunk records handed to the sink.
- `sent[d]`: every byte captured.
- `closed[d]`.

`conn` is the coordinator's connection record.

**Data abstraction.**
- A byte is `0..Base-1`, and a length prefix `hi, lo` reads `hi*Base+lo`.
- A comment field is a natural number or `NotSet`.
- Plaintext is a tag: `"cm"`, `"dec"` or `"none"`.
- `Keys::new`, `decrypt` and `check_proof_of_work` are nondeterministic outcomes.

**Actions.** There is one action per handler:
- `PayloadInitial`, `PayloadCm` and `PayloadRendezvous` (`Initial::handle_data`, with `make_key` when the other half is in `HaveCm`).
- `PayloadHaveCm` (its two branches, including the overflow to `Uncertain`).
- `PayloadRaw` (`Uncertain`/`HaveNotKey`/`CannotDecrypt::handle_data`).
- `PayloadHaveKey`.
- The iterator and `over()`: `DataDecrypt`, `DataFail`, `DataOverOk` and `DataOverErr`.
- The closes: `CloseInitial` (`Initial::uncertain`) and `CloseOther`.

**Modelling choices.**
- `make_key`'s `Ok` branch (`MakeKeyOk`) applies the `check` closure to both connection messages, on the local half's cloned record.
- While a direction is in `HaveData`, no other event is enabled (`Idle`). This follows spec §5: the coordinator is synchronous and drains the iterator before it takes the next capture event.

### Recorder (the abstract contract, spec §3 and §8)

`Recorder` states what one connection promises its storage sink, with the bytes left out.

**State.** Per direction: `log[d]`, the records handed to the sink, each a counter and a plaintext tag; `counter[d]`; and `mode[d]`, which is `"handshake"`, `"keyed"` or `"raw"`.

**Actions.**
- `KeyAgreed`: both connection messages are recorded at once, and both directions become keyed.
- `KeyRejected`: both directions go raw, each may flush one record.
- `Abandon(d)`: a direction in handshake goes raw.
- `Decrypted(d)`: a keyed direction records plaintext.
- `DecryptFailed(d)`: a keyed direction goes raw, losing one counter.
- `RawData(d)`: a raw direction records a payload.

The counter loss in `DecryptFailed` is what the code does (finding 1). The contract states it so that the refinement holds; `CountersContiguous` records the divergence from the spec.

**Refinement mapping** (in `ChunkParser`, `R == INSTANCE Recorder WITH ...`):
- `log[d]` is `RecordsOf(emitted[d])`: the emitted chunk records without their bytes.
- `mode[d]` is `ModeOf(d)`. It is handshake in `Initial`/`HaveCm`, and keyed in `HaveKey` and in `HaveData` while no chunk has failed. Every other variant is raw.
- `counter` maps to itself.

Under this mapping:
- `MakeKeyOk` is `KeyAgreed`, and `MakeKeyFail` is `KeyRejected`.
- `BecomeUncertain` (overflow, close in `Initial`) is `Abandon`.
- `DataDecrypt` is `Decrypted`, `DataFail` is `DecryptFailed`, and `PayloadRaw` is `RawData`.
- Every other step is a stutter: buffering, `over()`, a close that converts nothing, and the `HaveCm` steps.

### Store (store.rs)

**State.**
- `seq` and `count` (the shared atomics).
- `kv` and `idx`: the indices present in the database and in the secondary indices.
- Per writer: `pc[w]` and `index[w]`.
- `returned`: the indices whose `store_message` returned `Ok`.

**Actions.** Each database call is one atomic step:
- `Reserve`: `fetch_add`, and the `index >= limit` test.
- `DelGet`, `DelIdx`, `DelKv`: the three calls of `delete_message`.
- `Put`, `StoreIdx`, `Inc`.
- `Fail`: any call returns `Err`, and `?` abandons the rest.

### StoreWindow (the abstract contract of the store)

`StoreWindow` states what the shared store promises the threads that use it. It hides the writers' progress through `store_message` and the message `count`.

**State.** `seq`, `kv`, `idx` and `returned`, as in `Store`.

**Actions.**
- `Reserve`: the next index is handed out.
- `StoreMessage(i)`, `StoreIndices(i)`, `Return(i)`: only for an index `i` already handed out.
- `ForgetMessage(j)`, `ForgetIndices(j)`: only for an index out of the window, that is `j + Limit < seq`.

**Refinement mapping** (in `Store`, `W == INSTANCE StoreWindow`). The shared variables map to themselves; `pc`, `index` and `count` are hidden.
- `Reserve` is `Reserve`, and `Put`, `StoreIdx` and `Inc` are `StoreMessage`, `StoreIndices` and `Return` of the writer's index.
- `DelIdx` and `DelKv` are `ForgetIndices` and `ForgetMessage` of `index - limit`.
- `DelGet` and `Fail` are stutters.

The contract does not require a returned index to still be stored: another writer may evict it between `put` and `inc_count` when the limit is small. `RecentKept` says what does hold for recent ones.

### StackResolver (stack.rs)

**State.**
- `pid`.
- The loader's locals: `lastMap`, `tried` (its `HashSet`), `todo` (the for loop) and `lpc`.
- The shared resolver: `rFiles` (keys of `files`) and `rMap`.

**Actions.**
- `SetPid`: the environment stores a pid.
- `Wake(m)`: after the sleep, a readable map different from `last_map` starts the loop.
- `LoadFile(f)`: one iteration. The load may fail, and the file counts as tried either way.
- `Publish`: the map is written after the loop.

### SymbolLoader (the abstract contract of the loader)

`SymbolLoader` states what the loader thread promises the readers that call `resolve`. It hides the loop, the sleep, `last_map` and the for loop's `todo`.

**State.** `pid`, `tried`, `tables` and `shown`.

**Actions.**
- `Follow(p)`: the recorder stores a pid, 0 included.
- `Try(f)`: a file not tried before is loaded once. Its table is added, or, when loads can fail, nothing is added; either way it counts as tried.
- `Show(m)`: a map that `ProcessMap::new` returned for some pid, all of whose files were tried, becomes the one `resolve` uses.

**Refinement mapping** (in `StackResolver`, `L == INSTANCE SymbolLoader WITH tables <- rFiles, shown <- rMap`). `pid` and `tried` map to themselves.
- `SetPid` is `Follow`.
- `LoadFile(f)` is `Try(f)` for a file not tried yet; for a file already tried it is a stutter.
- `Publish` is `Show` of the map in `last_map`.
- `Wake` is a stutter.

### Facade (facade.rs)

**Events.** `Code` is `SnifferError::code`, with its match arms in their order, written as an `IF` chain. A TLA+ `CASE` with overlapping guards (`-14` is also negative) would leave the arm unspecified.

`FromRbSlice` is `from_rb_slice`, which works on the slice length, the tag, the i32 size field and the u16 address-family field. `ParseSocketAddress` is `parse_socket_address(..).unwrap()`. It gives an address for family 2 with at least 8 bytes or family 10 with at least 24, and a panic otherwise: a slice index out of range, or the unwrap of `Err`. `AddressOf` adds Accept's `&data[0..4]` read of `listen_on_fd`.

The BPF program is not under `src/`. The comment at the unwraps says the program has checked the address, and `KernelChecked` states that promise as the guard of `ReadSlice`: an address event carries a whole `sockaddr_in` (16 bytes) or `sockaddr_in6` (28 bytes) after the listen fd.

**Commands.**
- `Words` is `Display` split at spaces, and `FromStr` is `Command::from_str`.
- Parsing a number word into u16 or u32 succeeds exactly on numbers below `2^16` or `2^32`.
- The state machine reads slices, sends commands as lines on the stream, and reads lines back in order.

## 3. Runs

Every cfg sets `CHECK_DEADLOCK FALSE` except the resolver's:
- **Parser:** a connection's traffic ends, and the capture bound (`MaxStream`) makes it end in the model.
- **Store:** the number of reserved indices is bounded (`MaxIndex`).
- **Facade:** the number of commands sent is bounded (`MaxSent`).
- **Resolver:** its loop never stops, so deadlock is checked.

### Passing runs

| Run | Properties | Bounds |
|---|---|---|
| `parser_safety` (`MC_ChunkParser.cfg`) | `TypeOK`, `CountersIncrease`, `PlainFramed`, `TrustedPrefix`; `DrainCompletes` and `RecorderSpec` (`R!Spec`) as properties | `Base=2`, `Limit=2`, `CmMin=2`, `MaxPayload=2`, `MaxStream=5`, decrypt may fail. About 190,000 states. |
| `store_window` (`MC_Store.cfg`) | `TypeOK`, `RecentKept`; `StoreWindowSpec` (`W!Spec`) and the action property `PutFresh` as properties | 3 writers (symmetric), `Limit=2`, `MaxIndex=5`, calls may fail. About 86,000 states. |
| `resolver` (`MC_StackResolver.cfg`) | `MapFilesTried`; `FollowsPid` and `SymbolLoaderSpec` (`L!Spec`) as properties | 2 pids, 3 files; one process has two maps. |
| `facade` (`MC_Facade.cfg`) | `NoPanic`, `CommandsRoundTrip` | i32 extremes, `-14`, `-1`, sizes around the data length. Slice lengths: below the descriptor, short, and whole IPv4/IPv6 addresses with and without the listen fd. Families 1, 2 and 10. Ports 0 and 65535, ids 0 and 2^31-1, 2 commands. About 18,000 states. |

Why these bounds are enough:
- **Parser.** With `Base=2` and 5 bytes per direction:
  - frames of length 2 to 5 occur, and so do payloads that split a prefix, payloads that carry two frames, and frames of length 2 (empty body);
  - both rendezvous orders occur, as do key failure, a decrypt failure in the middle of a payload and the overflow with `Limit=2`.
- **Store.** With 3 writers and `Limit=2`:
  - an eviction can race the put of its target;
  - an eviction can race a store in the middle of its indices;
  - the first index of the window is evicted.

### Violation runs

Each violation run checks one property that the spec or a code comment states, and the code breaks it (section 6).

| Run | Property | Source of the property |
|---|---|---|
| `parser_counter_gap` | `CountersContiguous` | spec §3, §5, §8, scenario 5 |
| `parser_overflow_loss` | `NoLoss` | spec §4.D, scenario 6 |
| `parser_overflow_bound` | `PreHandshakeBound` | spec §8 |
| `parser_comments` | `CommentsPreserved` | spec §9 |
| `parser_too_short` | `TooShortFlagged` | spec §4.B, scenario 2 |
| `store_bounded` | `StoreBounded` | the eviction at store.rs 164 |
| `store_dangling_index` | `IndicesPointToMessages` | doc comment of `delete_message` |
| `parser_close_flush` | `ClosedFlushed` | spec §4.D (`on_close`), §7 (stream abandonment) |

### Mutants

Every property of a passing run has a mutant in the module, next to the definition it replaces. The mutant is a plausible bug in that code, and it makes the property fail:
- `DataOverErrKeepsError` breaks `TypeOK`.
- `CleanupCounterNoInc` breaks `CountersIncrease`.
- `ChunkLenShort` breaks `PlainFramed`.
- `RestSkip` (`Buffer::next` dropping the byte after the chunk) breaks `TrustedPrefix`.
- `DrainedOnEmpty` breaks `DrainCompletes`.
- `ReserveNew` (a fetch_add that returns the new value) breaks the Store's `TypeOK`.
- `FailIgnored` (a database error dropped instead of propagated by `?`) breaks `RecentKept`.
- `EvictTargetLate` breaks `StoreWindowSpec`.
- `ReserveSplit` (`reserve_index` as a load of `seq` and a later store instead of one `fetch_add`) breaks `PutFresh`: two clones put under the same index.
- `PublishEarly` breaks `MapFilesTried`.
- `WakeOnce` breaks `FollowsPid`.
- `LoadFileRetry` (the `!files.contains(&filename)` test dropped) breaks `SymbolLoaderSpec`: a file whose load failed is loaded again.
- `ParseSocketAddressSwapped` (the two family arms swapped) breaks `NoPanic`; so does `CodeNoLenCheck`.
- `MakeKeyFailKeepsKey` breaks `RecorderSpec`: the contract has no step that records plaintext after a rejected key.

`NoPlainAfterRaw` is not checked by a run of its own: the contract's `PlainThenRaw` implies it through the mapping, so every violation of it is a violation of `RecorderSpec`, and `NoPlainAfterRawThm` proves it for all constants.
- `WordsSwapped` breaks `CommandsRoundTrip`.

## 4. Fairness

**`ChunkParser`.** Weak fairness is assumed only for the `HaveData` loop steps (`DataDecrypt`/`DataFail` and `DataOverOk`/`DataOverErr`). The coordinator runs that loop synchronously, before it returns from `on_payload` (spec §4.C, §5). Capture events get no fairness, because traffic may stop at any time.

**`StackResolver`.** Weak fairness is assumed for the loader's steps. It is a dedicated thread looping with a 5-second sleep.

`FollowsPid` also needs a readable map to be read eventually. A map that can never be read keeps the previous map published; section 6 lists this as a hazard.

## 5. Proofs (TLAPS)

| Module | Theorem | Argument |
|---|---|---|
| `ChunkParserProofs` | `TypeCorrect`: `Spec => []TypeOK` | See below. |
| `ChunkParserProofs` | `CountersIncreaseThm`: `Spec => []CountersIncrease` | See below. |
| `StoreProofs` | `RecentKeptThm`: `Spec => []RecentKept` | See below. |
| `StoreProofs` | `StoreTypeCorrect` | The same inductive invariant as `RecentKeptThm`. |
| `StackResolverProofs` | `MapFilesTriedThm` | See below. |
| `StackResolverProofs` | `ResolverTypeCorrect` | The same inductive invariant as `MapFilesTriedThm`. |
| `RecorderProofs` | `PlainThenRawThm`, `CmFirstThm` | See below. |
| `RecorderRefinement` | `RefinesRecorder`: `Spec => RecorderSpec` | See below. |
| `RecorderRefinement` | `NoPlainAfterRawThm`: `Spec => []NoPlainAfterRaw` | The refinement plus `PlainThenRawThm`, read through the mapping. |
| `FacadeProofs` | `NoPanicThm`: `Spec => []NoPanic` | See below. |
| `FacadeProofs` | `CommandsRoundTripThm`: `Spec => []CommandsRoundTrip` | See below. |
| `RecorderProofs` | `PlainAtPositionThm` | See below. |
| `ChunkParserProofs` | `FramedThm`: `Spec => []PlainRawFramed` | See below. |
| `RecorderRefinement` | `PlainFramedThm`: `Spec => []PlainFramed` | See below. |
| `StoreProofs` | `StoreRefinesWindow`: `Spec => StoreWindowSpec` | See below. |
| `StoreProofs` | `PutFreshThm`: `Spec => PutFresh` | See below. |
| `StackResolverProofs` | `ResolverRefinesLoader`: `Spec => SymbolLoaderSpec` | See below. |

**`TypeCorrect`.** `TypeOK` alone is not inductive: `make_key` takes the first frame out of a `HaveCm` buffer. The strengthening `CmBuffered` says a `HaveCm` buffer holds a whole frame.

**`CountersIncreaseThm`.** The invariant is stated with `IncBelow` per direction. It is proved by the lemmas `IncBelowAppend` and `IncBelowCleanup`, with one step per action.

**`RecentKeptThm`.** The strengthening has two parts:
- `EvictingAbove`: an evicting writer's index is at least the limit.
- `InFlightKept`: a writer past `put` has its message, and one past `store_indices` its entries, while its index is recent.

The key lemma, `EvictOld`, says the index a writer evicts is never recent.

**`MapFilesTriedThm`.** The strengthening is `LoopInv`: between sleeps `rMap = lastMap`, and inside the loop every file of `lastMap` is tried or still to visit.

**`PlainThenRawThm`, `CmFirstThm`.** The contract's invariants are proved with `ModeLog`. It says a direction in handshake has an empty log and counter 0, and a keyed one has a log without raw records. The proof goes per direction (`DirInv`), with one lemma per kind of log change (`AgreeDir`, `FlushDir`, `AppendDir`).

**`PlainAtPositionThm`.** A record with plaintext carries its position in the log as counter. This needed `ModeLog` strengthened: a keyed direction's next counter is the length of its log. A decrypt failure skips a counter, but only as the direction goes raw.

**`RefinesRecorder`.** The proof follows the usual refinement scheme:
- `InitRefines`: the initial state maps to `R!Init`.
- `NextRefines`: `IInv /\ [Next]_vars => [R!Next]_R!vars`. It has one case per action, and uses the chunk-parser invariant `IInv` (`TypeOK /\ CmBuffered`).
- The mapping lemmas: `RecordsAppend`, `RecordsCleanup` and `AppendChunk`. They say how `RecordsOf` changes when a chunk or a cleanup flush is emitted.

**`NoPlainAfterRawThm`.** `RP == INSTANCE RecorderProofs WITH ...` carries `PlainThenRawThm` through the mapping. `PlainThenRawMaps` turns the mapped invariant back into `NoPlainAfterRaw`.

**`FramedThm`.** `PlainRawFramed` says every emitted chunk with plaintext satisfies `IsFrame`. It is inductive together with `IInv`, because `CmBuffered` guarantees that `make_key` frames both buffers. The supporting lemmas are:
- `NextChunkFrame`: `Buffer::next` of a buffer that holds a chunk is a frame.
- `FramedAppend` and `FramedCleanup`.

**`PlainFramedThm`.** `PlainFramed` has two halves:
- The numbering half is the contract's `PlainAtPosition` carried through the refinement, in the same way as `NoPlainAfterRawThm`; `PlainAtPositionMaps` turns it back.
- The framing half is `FramedThm`.

**`StoreRefinesWindow`.** The usual scheme: `InitRefines`, then `NextRefines` with one case per action. It uses `RecentKeptThm`'s invariant, and two lemmas:
- `HeldIndex`: a writer inside `store_message` holds an index below `seq`.
- `EvictedOutside`: `EvictingAbove` makes `index - limit` a natural out of the window.

**`PutFreshThm`.** `PutFresh` is the action property `[][\A w \in Writers : Put(w) => index[w] \notin kv]_vars`. It follows from the state invariant `FreshInv`, which has three parts:
- every index in `kv` is below `seq`;
- a writer that has still to put finds no message under its index;
- the writers inside `store_message` hold pairwise different indices.

The third part is what `fetch_add` gives. `Reserve` hands out `seq`, which is above every in-flight index (`TypeOK`) and every stored one. `NextFresh` proves `FreshInv` inductive given `TypeOK`, with one step per action. The step for `Put` uses the third part for the other writers. `PutStepFresh` names the step predicate so that PTL can lift `[]FreshInv` to the action property.

**`ResolverRefinesLoader`.** The usual scheme: `InitRefines`, then `NextRefines` with one case per action. It needs `LoopInv` (from `MapFilesTriedThm`) and one more invariant, `ReadInv`: inside the for loop `last_map` is `Some`, and `last_map` always holds a map read for some pid in `Pids`. With them, `Publish` is `Show(m)` for the `m` in `last_map`. `LoopInv`, with `todo` empty, gives `m \subseteq tried`.

**`NoPanicThm`.** `NoPanic` is inductive. The lemma `FromRbSliceNoPanic` shows that every slice satisfying `KernelChecked` yields an error or an event. It rests on these lemmas:
- `CodeArms`, `CodeErr` and `CodeOk`: the arms of `SnifferError::code`.
- `SockaddrParses` and `AddressParses`.

**`CommandsRoundTripThm`.** The strengthening `ChanInv` says the lines on the stream are, in order, the `Display` of the commands sent after the ones already read. `RoundTrip` shows `from_str` inverts `Display` for each command kind.

The proofs hold for every value of the constants under the named `ASSUME`s: `Base > 0`, `Limit`, `MaxIndex` and the other bounds are naturals, and `0` is not a pid.

What is only model-checked:
- **Liveness** (`DrainCompletes`, `FollowsPid`). TLAPS cannot prove properties that depend on fairness and `ENABLED`.
- **`TrustedPrefix`, `NoLoss` and the other properties stated with the recursive-function `Wire`.** Any fact about `Wire` of a longer record list, such as `Wire(Append(e, x), n + 1) = Wire(e, n) \o x.raw`, needs induction over data, which the provers cannot instantiate. That is why `TrustedPrefix` was split: `PlainFramed` holds the numbering and framing parts and is proved, and `TrustedPrefix` keeps only the byte-prefix part, which stays with TLC.
- **The refinement on larger instances.** It is model-checked on the `parser_safety` bounds and proved for all constants.

## 6. Findings and hazards

The findings are in `PROJECT.json`. In brief:
1. **Counter gap on decrypt failure.** A decrypt failure consumes the failing chunk before `cleanup`. The chunk is never recorded, and its counter is skipped.
2. **Overflow drops a payload.** The `HaveCm` overflow test comes before the append, and the payload that overflows is dropped. A direction can also stay in `HaveCm` above the limit.
3. **Comments overwritten.** The per-direction copies of the connection record overwrite each other's comments.
4. **Too-short check measures the wrong length.** The check includes the 2-byte length prefix.
5. **Store can exceed its limit.** Two concurrent `store_message` calls can leave the store above its limit for good.
6. **Dangling secondary indices.** A `delete_message` racing a `store_message` of the same index leaves index entries that point at nothing.
7. **Close leaves bytes unrecorded.** A close in `HaveCm` or `HaveKey` leaves the buffered bytes unrecorded. In `HaveCm` that is the connection message itself. `HaveData` has no conversion either, but a close cannot arrive inside the coordinator's synchronous loop, so the model does not reach it there. Only `Initial` has a conversion to `Uncertain`.

These hazards have no property yet. The reasons are in `PROJECT.json`:
- `count` is never decremented on eviction, so it is not the number of stored messages its comment names; nothing in `src/` reads it.
- `unwrap` on an empty payload.
- `limit = 0` never evicts (no caller of `Store::new` is under `src/`).
- A failed symbol load is never retried. `SymbolLoaderSpec` states this as the loader's contract (a file is tried at most once), but whether a retry would succeed is outside the model.
- A stale map stays published after the process is gone.
- A `store_message` that fails half way returns `Err` with its earlier effects in place. Nothing documented says it should be undone.
- `parse_socket_address(..).unwrap()` and Accept's `&data[0..4]`. `NoPanic` assumes the BPF program's promise (`KernelChecked`) instead of checking it, because that program is not under `src/`.

Some properties are deliberately not counted as covering a hazard they are close to:
- `CountersIncrease` and `RecorderSpec` hold across the counter gap of finding 1, whose contract builds it in; only the violation run `CountersContiguous` catches it.
- `RecentKept` catches neither the over-retention race (finding 5) nor a half-finished store, which returns `Err`.
- `DrainCompletes` catches a `HaveData` loop that never ends, not one that stops early.
- `CommandsRoundTrip` compares lines as tuples of words, so the newline and the separators of `send_command` are not checked.

## 7. Plan for later work

1. A contract with contiguous counters, refined by `ChunkParser` with the gap fix (finding 1).
2. A non-recursive statement of the byte-prefix part of `TrustedPrefix`, for example with a ghost offset per direction, so that it can be proved.
3. `Store.get_cursor` as a reader racing writers, with what a query may miss.
4. A multi-connection composition of `ChunkParser` with a `Store` sink.
