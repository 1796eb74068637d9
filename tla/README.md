# TLA+ models of curio's WindowPoSt scheduler and neighbours

This directory holds TLA+ models of the code under `src/`, the TLC configurations
that check them, and `PROJECT.json`, which lists the components, the runs, the
mutants, the source lines each definition models, the findings and the hazards.

## Inventory

| Component | Source | State it keeps | Operations |
|---|---|---|---|
| WdPost chain-head watcher | `src/unnamed/part_000` (`processHeadChange`, `addTaskToDB`) | none of its own; writes `wdpost_partition_tasks` | one invocation per applied tipset |
| WdPost bidding admitter | same file, `CanAccept` | none (reads the task rows, the head, the failure history) | bid on a batch of offered task ids |
| WdPost partition prover | same file, `Do`, `wdPostRam.Claim`, `TypeDetails` | per call: the memoised `isTestTask`, the deadline | load, reap, prove, write `harmony_test.result` or `wdpost_proofs` |
| Durable task runtime (harmonytask) | not in `src/`; spec.md 4.4, 5 | task rows, owner, failure history | offer, claim by bid, record completion, release a dead machine's tasks |
| PDP HTTP service | `src/pdp/handlers.go` | proof sets, roots (behind store interfaces), `message_waits_eth`, `pdp_proofset_creates` | ping, create/get/delete proof set, add/get/delete root |
| CurioMembership contract | `src/unnamed/part_001` (Solidity) | admin, funds receiver, exchange rate and its timestamp, payment records | changeFundsReceiver, setExchangeRate, adminUpdateMapping, pay |
| Chain connectivity component | `src/curiosrc/web/static/chain-connectivity.mjs` | `data` (syncer state rows) | loadData, updateData, a periodic timer, render |
| Web API routes | `src/web/api/routes.go` | none | registration at startup only |

**How the scheduler's parts interact.** The chain scheduler calls `processHeadChange`
serially for every applied tipset. For every tracked miner (Go map order) it reads the
current proving deadline and, if the period has started, proposes one task per partition
through the task factory; each proposal is its own transaction, and the identity key
`(sp_id, proving_period_start, deadline_index, partition_index)` rejects a duplicate.
The runtime offers unclaimed tasks to workers; `CanAccept` bids on them (stale tasks
only, at 1000, if there are any; otherwise `len+10-i` in order of deadline Open, minus
the failure count). The winner's `Do` reads the row and the head, reaps a stale task,
shifts a test task whose challenge is in the future back a period, looks the challenge
tipset up, runs `DoPartition`, and writes either the test result or one proof row. The
runtime deletes the task on success, counts a failure otherwise, and gives up at 5.

**What is hard.** Several worker processes share the task table; the head moves forward
and, on reorgs, backward; every chain and database call can fail; workers can die between
two steps of `Do`; the memoised test flag is set before its query succeeds; `processHeadChange`
stops at the first miner that is not proving; tasks must all eventually leave the table.

**What makes each component correct.**
- Watcher: after an invocation that returns nil, every partition of every proving
  miner's current deadline has a task (spec 8.2); re-proposal is idempotent (8.1).
- Admitter: stale tasks alone when present (8.3); earliest Open bids highest (8.4).
- Prover and runtime: at most one proof row per partition (8.5); test tasks never
  produce a proof row (4.3.4); a task is not given up before its challenge epoch
  (4.3.1 step 6); every task is eventually retired.
- PDP service: a sent proof-set creation is tracked; the two tracking tables agree; a
  root is stored whole.
- Membership contract: the rate in force is one the signer signed; it never moves
  back to an older timestamp.

## Modules

### `WdPostTask.tla` (watcher + admitter + prover + runtime)

| Variable | Code |
|---|---|
| `head` | `ChainHead` (height only) |
| `applyQ` | applied tipsets the chain scheduler has yet to deliver (heights) |
| `tasks[t]` | `wdpost_partition_tasks` row (`ident`), `harmony_test` row (`test`), the runtime's status and failure count |
| `wk[w]` | one worker's `Do`: program point, task id, the `isTestTask` memo, the return value |
| `proofs` | `wdpost_proofs` rows in insertion order |
| `testResult` | task ids whose `harmony_test.result` was written |
| `paramsReady` | the `paramsReady()` predicate |
| `lastWatch` | what the last `processHeadChange` returned (for `NoLostDeadlines`) |
| `reorgs`, `crashes`, `faults` | counters bounding reorgs, worker deaths and failing calls |

Actions: `ProcessHeadChange` (the whole handler: map order as any permutation, the
early `return nil`, an error at any miner, the per-partition `addTaskToDB`, and an
insert that fails while the discarded task-factory error lets the call return nil);
`Claim` (runtime offer + `CanAccept` + highest bid; a failing `harmony_task_history`
count query is only logged and leaves that task's penalty at 0, `Penalties`); `ClaimRefused`
(`wdPostRam.Claim` fails after the bid: the task stays offered and counts as a
fault); `DoLoad` (Do up to the challenge
lookup; a test task whose challenge is ahead of the head is moved back one period,
`TestDeadline`; a failing `isTestTask` query of a test task spends a fault), `DoProve` (`DoPartition` + marshalling), `DoPersist` (test result or proof
insert), `DoFail` (every error return of Do); `RecordCompletion` and `Crash`
(runtime, from the spec); `ChainAdvance`, `ChainReorg`, `FetchParams`, `AddTestTask`
(environment). Deadline arithmetic is `dline.NewInfo` (`NewDeadlineInfo`).

`MCWdPostTask.tla` instantiates it: `D = 2` deadlines of `W = 2` epochs (period 4),
lookback 1, `MaxFailures = 5` as in `TypeDetails`. Miner m1 has one partition per
deadline, m2 one partition in deadline 0. `MaxHeight` 4–6 crosses deadlines and
elapses a period; `ReorgDepth = 2` is one more than the lookback, the least that can
put the head under a queued task's challenge epoch. Workers are symmetric.

### `WdPostAbstract.tla` (what the scheduler promises)

Three variables: `queued` (identities that have had a task row), `proved` (the
identities of `wdpost_proofs`, in order) and `retired` (identities whose task finished
for good). `Queue` adds identities, `Prove` appends a pending identity not yet proved,
`Retire` retires a pending one. `WdPostTask` defines `Abs == INSTANCE WdPostAbstract
WITH ...`, mapping the task rows, the proof rows and the tasks in status done or dead
onto them; `AbsRefinement == Abs!Spec` is checked in `core`. A watcher step is a
`Queue`, a live `DoPersist` a `Prove`, a completion that deletes or gives up a
`Retire`, everything else a stutter. It does not hold with worker crashes
(`crash_after_insert` shows why), so `core` has none. The constant `AtMostOnce` keeps
or drops `Prove`'s "not yet proved" guard: `AbsAtLeastOnce` is the same mapping onto
the at-least-once queue, and `AbsAtLeastOnceRefinement` is checked in `live`, which
crashes a worker: a crash may duplicate a proof, but no proof is written for a
retired identity and retiring stays final.

### `PdpService.tla` (PDP HTTP service)

| Variable | Code |
|---|---|
| `req[r]` | one net/http goroutine: route (`kind`), program point, response code, its path parameters and subroots, the loop index |
| `sent` | transactions `SenderETH.Send` has sent (keyed by request) |
| `msgWaits`, `creates` | `message_waits_eth`, `pdp_proofset_creates` rows |
| `proofSets`, `roots` | what the `ProofSetStore` holds (a root row per subroot, with the request that wrote it) |
| `faults` | failing store, database or chain calls so far |

Actions: `Arrive` (a client picks a route of `Routes` and its inputs, ids possibly
unparsable: `Bad`); `CreatePrepare` (JWT, body, `getSenderAddress` (its failure is
`GetSenderAddressFails`), bind, build: no writes, 401/400/500 or on), `CreateSend` (`Send`), `CreateRecord`
(`insertMessageWaitsAndProofsetCreate`, one transaction, then 201 or 500);
`AddRootStart` (id and body), `AddRootStep` (one subroot: `HasPiece`,
`GetPieceRefIDByPieceCID`, `AddProofSetRoot`, stop at the first failure, 201 after the
last); `DeleteRoot`, `DeleteProofSet`; the read handlers `Ping`, `GetProofSet` (store
error 404) and `GetProofSetRoot` (a stub whose lookup is commented out: always 200).
Requests interleave step by step. `Handle(r)` is every step of the goroutine serving
`r`.
The store interface methods the handlers call are operators of their own, named after
them (`HasPiece`, `AddProofSetRoot`, `DeleteProofSetRoot`, `StoreGetProofSet`,
`StoreDeleteProofSet`; `RootRow` is a `PDPProofSetRoot` row): the implementations are
not in the repository, so each does what its name says, and its failure is a fault of
the calling action.

`MCPdpService.tla`: one proof set, one root id, one stored piece `p1` and one missing
`NoPiece`, up to two subroots (enough for a failure after a stored subroot). Requests are
symmetric. `pdp` runs three requests and two faults (enough for every handler step, for
a create racing two other routes, and for every fault path); the violation runs use
one request and two faults, and two requests and none.

### `CurioMembership.tla` (the Solidity contract)

Variables: `now` (`block.timestamp`, in minutes since 2024-01-01), `fundsReceiver`,
`rate`, `updatedTime`, `records` (`paymentRecords`, with `daysSince2024` kept mod 2^16
as the explicit `uint16` conversion does), `balance` (what `transfer` forwarded),
`signed` (what the off-chain signer has signed), and the bounds `pays` and `blocks`.
Each external function is one action whose guards are its `require`s:
`changeFundsReceiver`, `setExchangeRate` (the packed `rateAndTimestamp` is kept as its
two fields, which the mask and shift recover exactly; a valid signature is membership
in `signed`), `adminUpdateMapping` (any `uint8` level: the model's `AdminLevels` are 0, 1, 2 and 255), `pay` (level 2 tested before level 1, else revert);
`Init` is the constructor. `Tick` and `Sign` are the environment. `MCCurioMembership`
deploys in mid-2025 with rates 1 and 2, and lets blocks move by 1 minute, 36 minutes
(just past the 35-minute window) or 65536 days (past the `uint16` day range).

### Runs

| Run | Expect | Checks | Shows |
|---|---|---|---|
| core | pass | `TypeOK`, `WriteOnceProofs`, `BidPolicy`, `AbsRefinement` | two workers, a reorg, 2 failing calls (in Do, the watcher's inserts or a RAM claim), epochs up to 6, no crash: never two proofs of one partition; every batch the runtime can offer is bid on as spec 4.2 says (stale tasks alone; an earlier Open outbids a later one unless its own failure penalty reverses it, also when a history query fails); the scheduler refines `WdPostAbstract` (961k states, 106 s) |
| test_task | pass | `TestTasksAnswered` | one miner, one worker, a test task for either deadline of the current period, no fault: the test task is eventually answered in `harmony_test.result`, also when its challenge epoch is still ahead of the head and Do has to move it back a period (3.6k states, 8 s) |
| live | pass | `TasksRetire`, `AbsAtLeastOnceRefinement` | one worker, a reorg, one crash, epochs up to 5 (a period elapses): every task is eventually reaped, proved or given up; with the crash the scheduler still refines the at-least-once queue (85 s) |
| late_miner | violation | `NoLostDeadlines` | m2 not yet proving and visited first: m1's partition at epoch 1 is never proposed |
| crash_after_insert | violation | `WriteOnceProofs` | a worker dies after inserting the proof; the retry inserts a second |
| test_memo | violation | `NoTestProofOnChain` | the failed harmony_test query (one fault) is memoised as "live"; the test proof lands in `wdpost_proofs` |
| pdp | pass | `TypeOK`, `TrackedIffCreated` | three concurrent requests on every route, two failing calls: both tracking tables hold exactly the creates answered 201, none for a 500 a client may retry (103k states with symmetry, 4 s) |
| pdp_untracked | violation | `CreatedTracked` | the insert after `Send` fails: 500, and the on-chain proof set is tracked nowhere |
| pdp_roots | violation | `RootWhole` | second subroot's piece missing: 400 with the first subroot stored (the run also reaches an add answered 201 interleaved with a delete of the same root) |
| membership | pass | `TypeOK` | any sender, any function, signed and forged rate messages, admin levels up to 255, blocks up to 65536 days apart: every record keeps the `uint16` day and `uint8` level widths (632k states, 12 s) |
| membership_stale_rate | violation | `RateNeverOlder` | two rates signed a minute apart, mined in the other order: the older replaces the newer |
| future_challenge | violation | `NoGiveUpBeforeChallenge` | after a reorg under the challenge epoch Do fails five times, the task is given up and its identity can never be re-queued |

**Fairness.** Weak fairness on the watcher (the scheduler thread delivers every
tipset), on fetching parameters, and on each worker's claim and Do steps and the
runtime's completion record (the runtime polls and `Do` returns). Chain progress,
reorgs, failures and crashes are never assumed. `CHECK_DEADLOCK FALSE`: once the
bounded chain stops and every task is retired the cluster is idle, which it really may be.
`PdpService` and `CurioMembership` have no liveness property and assume no fairness.

## Not modelled, and why

- `DoPartition` (not in `src/`): one step that succeeds or fails.
- The size of the `wdPostRam.Claim` reservation, `TypeDetails`: resource accounting
  for the runtime (only the claim's failure changes what happens to the task).
- `Adder` / the task-factory promise: set once at startup.
- The runtime declaring a machine dead while its `Do` still runs and handing the task
  to another worker: harmonytask is not in the repository, so `Crash` always stops
  the worker (a crash after the insert already duplicates a proof, `crash_after_insert`).
- Routes: wiring only.
- Chain connectivity component: a display copy of the syncer state with no shared
  state; its timer passes `this.update` unbound, which throws on the first tick (a
  hazard in `PROJECT.json`, seen at once in a browser).
- Membership: sub-minute timing (time is in minutes); the downgrade by paying for
  another UUID, which the contract's header lists as a known risk; a zero exchange rate.
- PDP: `handlePiecePost` and
  `handlePieceUpload`, registered by `Routes` but defined in no file under `src/`; the
  store implementations (a store call does what its name says, or fails). The missing
  authorization on the delete and add routes (the code's own TODOs) is not a property.

## Plan

1. (done) `WdPostTask`: watcher, admitter, prover and runtime.
2. (done) `BidPolicy`: `CanAccept` checked against spec 4.2's policy on every batch the
   runtime can offer in `core`.
3. (done) `WdPostAbstract` and the refinement, checked in `core`.
4. (done) `PdpService`, every handler of `handlers.go`.
5. (done) `CurioMembership`.
6. (done) Insert failures in `processHeadChange`. Still open: a liveness property that a
   partition lost this way is re-queued by a later head of the same deadline, which
   needs a bounded chain that keeps several epochs per deadline (W >= 3).
7. (done) `WdPostTask` with crashes refining the at-least-once queue, checked in `live`.
8. (done) The store interface operations as operators, and `TrackedIffCreated`
   relating a create's answer to the tracking rows.
9. (done) Test tasks: `TestTasksAnswered` in `test_task`.

Further properties of the hazards still without one (a proof inserted after its
period elapsed, a root added under a deleted proof set, the chain-connectivity timer)
are violations of what the code does and each needs a run of its own; with twelve runs
they are recorded as hazards in `PROJECT.json` instead.

The project holds twelve runs; new properties join the existing passing runs.
