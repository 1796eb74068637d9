----------------------------- MODULE WdPostTask -----------------------------
(***************************************************************************)
(* The WindowPoSt partition scheduler of curio (window/wdpost_task.go,     *)
(* here src/unnamed/part_000): the chain-head watcher processHeadChange,   *)
(* the bidding admitter CanAccept and the partition prover Do, running     *)
(* against the durable task runtime (harmonytask), the task tables and a   *)
(* chain that advances and reorganises.                                    *)
(*                                                                         *)
(* Data is abstracted to what the properties tell apart: a proof is the    *)
(* identity it proves, DoPartition is one step that succeeds or fails.     *)
(* The runtime is not under src/ and is modelled from spec.md (4.4, 5).    *)
(***************************************************************************)
EXTENDS Integers, Sequences, SequencesExt, FiniteSets

CONSTANTS
  Miners,        \* tracked miner actors (t.actors)
  Workers,       \* worker processes sharing the task table
  FirstPeriod,   \* [Miners -> Nat]: first proving period start of a miner
  NPart,         \* [Miners -> [0..D-1 -> Nat]]: partitions of a deadline
  D,             \* WPoStPeriodDeadlines
  W,             \* WPoStChallengeWindow
  Lookback,      \* WPoStChallengeLookback
  MaxFailures,   \* TaskTypeDetails.MaxFailures
  MaxHeight,     \* bound: highest chain epoch
  ReorgDepth,    \* bound: deepest reorg
  MaxReorgs,     \* bound: number of reorgs
  MaxQueue,      \* bound: applied tipsets waiting for the watcher
  MaxTestTasks,  \* bound: test tasks added from the CLI
  MaxCrashes,    \* bound: worker crashes (0 disables crashes)
  MaxFaults      \* bound: failing chain or database calls (Do, task inserts, RAM claims)

P == D * W    \* WPoStProvingPeriod

ASSUME /\ D > 0 /\ W > 0 /\ Lookback < W
       /\ \A m \in Miners : FirstPeriod[m] >= Lookback

VARIABLES
  head,        \* height of the chain head ChainHead returns
  applyQ,      \* applied tipsets (heights) the chain scheduler will deliver
  reorgs,      \* reorgs so far (bounded)
  lastWatch,   \* result of the last processHeadChange: "none", "ok", "err"
  tasks,       \* task id -> [ident, test, status, fails]
  paramsReady, \* proof parameters fetched
  wk,          \* per worker: the Do call it runs
  proofs,      \* wdpost_proofs rows, in insertion order: [ident, tid]
  testResult,  \* task ids whose harmony_test.result was written
  crashes,     \* worker crashes so far (bounded)
  faults       \* failed chain or database calls so far (bounded)

vars == <<head, applyQ, reorgs, lastWatch, tasks, paramsReady, wk, proofs,
          testResult, crashes, faults>>

TaskIds == DOMAIN tasks

(***************************************************************************)
(* dline.NewInfo, reached through NewDeadlineInfo.                         *)
(***************************************************************************)
NewDeadlineInfo(pps, idx, cur) ==
  [pps |-> pps, index |-> idx, cur |-> cur,
   open |-> pps + idx * W, close |-> pps + idx * W + W,
   challenge |-> pps + idx * W - Lookback]

PeriodStarted(di) == di.cur >= di.pps
PeriodElapsed(di) == di.cur >= di.pps + P

(***************************************************************************)
(* StateMinerProvingDeadline: the miner's current deadline at height h.    *)
(* Before its first period the period has not started.                     *)
(***************************************************************************)
ProvingDeadline(m, h) ==
  IF h < FirstPeriod[m]
  THEN NewDeadlineInfo(FirstPeriod[m], 0, h)
  ELSE LET pps == FirstPeriod[m] + ((h - FirstPeriod[m]) \div P) * P
       IN  NewDeadlineInfo(pps, (h - pps) \div W, h)

Ident(m, pps, dl, p) == [sp |-> m, pps |-> pps, dl |-> dl, part |-> p]

\* the identities processHeadChange proposes for miner m at applied height a
Proposed(m, a) ==
  LET di == ProvingDeadline(m, a)
  IN  {Ident(m, di.pps, di.index, p) : p \in 0..(NPart[m][di.index] - 1)}

\* every identity of a period the chain reaches
Idents ==
  UNION {{Ident(m, ProvingDeadline(m, h).pps, dl, p) : p \in 0..(NPart[m][dl] - 1)} :
           m \in Miners, h \in 0..MaxHeight, dl \in 0..(D - 1)}

HasRow(id) == \E t \in TaskIds : tasks[t].ident = id

(***************************************************************************)
(* addTaskToDB inside the task factory's transaction: the insert of an     *)
(* identity that already has a row violates the identity key and the       *)
(* transaction rolls back, so no task is created.                          *)
(***************************************************************************)
\* mutant: the insert without the identity key
AddTaskToDBNoKey(ts, id, test) ==
  Append(ts, [ident |-> id, test |-> test, status |-> "offered", fails |-> 0])

AddTaskToDB(ts, id, test) ==
  IF \E t \in DOMAIN ts : ts[t].ident = id THEN ts
  ELSE Append(ts, [ident |-> id, test |-> test, status |-> "offered",
                   fails |-> 0])

RECURSIVE AddAll(_, _)
AddAll(ts, ids) ==
  IF ids = <<>> THEN ts ELSE AddAll(AddTaskToDB(ts, Head(ids), FALSE), Tail(ids))

(***************************************************************************)
(* processHeadChange(revert, apply): ranges over t.actors in Go map order  *)
(* (any order); for each actor gets its proving deadline, returns nil at   *)
(* the first actor whose period has not started, returns an error at the   *)
(* actor whose chain call fails, and otherwise proposes every partition.   *)
(* The error of the task-factory call is discarded: an insert that fails   *)
(* (lost) leaves no row and the invocation still returns nil.              *)
(***************************************************************************)
ProcessHeadChange ==
  /\ applyQ # <<>>
  /\ LET a == Head(applyQ) IN
     \E order \in SetToSeqs(Miners), fail \in 1..(Cardinality(Miners) + 1) :
       LET stop == SelectInSeq(order, LAMBDA m : ~PeriodStarted(ProvingDeadline(m, a)))
           last == IF stop = 0 THEN fail - 1 ELSE IF fail <= stop THEN fail - 1 ELSE stop - 1
           done == SubSeq(order, 1, last)
           ids  == FlattenSeq([i \in 1..last |-> SetToSeq(Proposed(done[i], a))])
       IN  \E lost \in SUBSET {id \in ToSet(ids) : ~HasRow(id)} :
             /\ faults + Cardinality(lost) <= MaxFaults
             /\ tasks' = AddAll(tasks, SelectSeq(ids, LAMBDA id : id \notin lost))
             /\ faults' = faults + Cardinality(lost)
             /\ lastWatch' = IF fail <= Len(order) /\ (stop = 0 \/ fail <= stop)
                             THEN "err" ELSE "ok"
  /\ applyQ' = Tail(applyQ)
  /\ UNCHANGED <<head, reorgs, paramsReady, wk, proofs, testResult, crashes>>

(***************************************************************************)
(* The chain: a new head one epoch up, or a reorg onto a lower fork. Each  *)
(* applied tipset is delivered to the watcher.                             *)
(***************************************************************************)
ChainAdvance ==
  /\ head < MaxHeight /\ Len(applyQ) < MaxQueue
  /\ head' = head + 1
  /\ applyQ' = Append(applyQ, head + 1)
  /\ UNCHANGED <<reorgs, lastWatch, tasks, paramsReady, wk, proofs, testResult, crashes, faults>>

ChainReorg ==
  /\ reorgs < MaxReorgs /\ Len(applyQ) < MaxQueue
  /\ \E h \in (head - ReorgDepth)..(head - 1) :
       /\ h >= 0
       /\ head' = h
       /\ applyQ' = Append(applyQ, h)
  /\ reorgs' = reorgs + 1
  /\ UNCHANGED <<lastWatch, tasks, paramsReady, wk, proofs, testResult, crashes, faults>>

\* the paramsReady predicate turns true once the parameters are fetched
FetchParams ==
  /\ ~paramsReady
  /\ paramsReady' = TRUE
  /\ UNCHANGED <<head, applyQ, reorgs, lastWatch, tasks, wk, proofs, testResult, crashes, faults>>

(***************************************************************************)
(* A test task (curio test wd task): a task row for the current deadline   *)
(* with a harmony_test row keyed by its task id.                           *)
(***************************************************************************)
AddTestTask ==
  /\ Cardinality({t \in TaskIds : tasks[t].test}) < MaxTestTasks
  /\ \E m \in Miners, dl \in 0..(D - 1) :
       LET di == ProvingDeadline(m, head)
           id == Ident(m, di.pps, dl, 0)
       IN  /\ PeriodStarted(di) /\ NPart[m][dl] > 0 /\ ~HasRow(id)
           /\ tasks' = AddTaskToDB(tasks, id, TRUE)
  /\ UNCHANGED <<head, applyQ, reorgs, lastWatch, paramsReady, wk, proofs, testResult, crashes, faults>>

(***************************************************************************)
(* CanAccept: nothing while the parameters are not ready; otherwise the    *)
(* tasks of the batch whose period has elapsed, each with bid 1000, if     *)
(* there are any; otherwise every task, sorted by deadline Open, bidding   *)
(* len + 10 - position minus its failure count, or minus 0 when the count  *)
(* query fails, which is only logged. The rows come back from the IN (...) *)
(* query in no particular order and sort.Slice on these small slices keeps *)
(* that order among equal Opens, so each order of the batch sorted by Open *)
(* is a possible result.                                                   *)
(***************************************************************************)
TaskDeadline(t, h) == NewDeadlineInfo(tasks[t].ident.pps, tasks[t].ident.dl, h)

Position(ord, t) == CHOOSE i \in DOMAIN ord : ord[i] = t

\* the failed runs in harmony_task_history, or 0 when the count query fails
Penalties(batch) ==
  {pen \in [batch -> 0..MaxFailures] : \A t \in batch : pen[t] \in {0, tasks[t].fails}}

\* mutant: a batch holding a stale task is declined instead of bid 1000
CanAcceptNoStale(batch, h) ==
  LET stale == {t \in batch : PeriodElapsed(TaskDeadline(t, h))}
      n     == Cardinality(batch)
      ByOpen(x, y) == TaskDeadline(x, h).open <= TaskDeadline(y, h).open
  IN  IF ~paramsReady \/ stale # {} THEN {}
      ELSE {[t \in batch |-> n + 10 - (Position(ord, t) - 1) - pen[t]] :
              ord \in {o \in SetToSeqs(batch) : IsSorted(o, ByOpen)},
              pen \in Penalties(batch)}

\* mutant: the sort.Slice comparator is inverted (latest Open first)
CanAcceptLatestFirst(batch, h) ==
  LET stale == {t \in batch : PeriodElapsed(TaskDeadline(t, h))}
      n     == Cardinality(batch)
      ByOpen(x, y) == TaskDeadline(y, h).open <= TaskDeadline(x, h).open
  IN  IF ~paramsReady THEN {}
      ELSE IF stale # {} THEN {[t \in stale |-> 1000]}
      ELSE {[t \in batch |-> n + 10 - (Position(ord, t) - 1) - pen[t]] :
              ord \in {o \in SetToSeqs(batch) : IsSorted(o, ByOpen)},
              pen \in Penalties(batch)}

CanAccept(batch, h) ==
  LET stale == {t \in batch : PeriodElapsed(TaskDeadline(t, h))}
      n     == Cardinality(batch)
      ByOpen(x, y) == TaskDeadline(x, h).open <= TaskDeadline(y, h).open
  IN  IF ~paramsReady THEN {}
      ELSE IF stale # {} THEN {[t \in stale |-> 1000]}
      ELSE {[t \in batch |-> n + 10 - (Position(ord, t) - 1) - pen[t]] :
              ord \in {o \in SetToSeqs(batch) : IsSorted(o, ByOpen)},
              pen \in Penalties(batch)}

Idle == [pc |-> "idle", tid |-> 0, memo |-> "unset", done |-> FALSE]

(***************************************************************************)
(* The runtime offers the unclaimed tasks to an idle worker and the worker *)
(* takes one with the highest bid CanAccept gave it.                       *)
(***************************************************************************)
Claim(w) ==
  /\ wk[w].pc = "idle"
  /\ LET batch == {t \in TaskIds : tasks[t].status = "offered"} IN
     \E bids \in CanAccept(batch, head) :
       \E t \in DOMAIN bids :
         /\ \A u \in DOMAIN bids : bids[u] <= bids[t]
         /\ tasks' = [tasks EXCEPT ![t].status = "running"]
         /\ wk' = [wk EXCEPT ![w] = [Idle EXCEPT !.pc = "claimed", !.tid = t]]
  /\ UNCHANGED <<head, applyQ, reorgs, lastWatch, paramsReady, proofs, testResult, crashes, faults>>

(***************************************************************************)
(* wdPostRam.Claim, the dynamic RAM reservation, fails after CanAccept has *)
(* bid: the sp_id query, ChainHead, StateMinerInfo or the proof-type       *)
(* lookup returns an error. The runtime does not start the task, which     *)
(* stays offered, and the worker stays idle.                               *)
(***************************************************************************)
ClaimRefused(w) ==
  /\ wk[w].pc = "idle"
  /\ faults < MaxFaults
  /\ LET batch == {t \in TaskIds : tasks[t].status = "offered"} IN
     \E bids \in CanAccept(batch, head) : DOMAIN bids # {}
  /\ faults' = faults + 1
  /\ UNCHANGED <<head, applyQ, reorgs, lastWatch, tasks, paramsReady, wk, proofs, testResult, crashes>>

(***************************************************************************)
(* isTestTask's query: "yes" for a task with a harmony_test row, and "no"  *)
(* without one or when the query fails; a failure of the query for a test  *)
(* task spends the fault budget.                                           *)
(***************************************************************************)
QueryTest(t) ==
  IF ~tasks[t].test THEN {"no"}
  ELSE IF faults < MaxFaults THEN {"yes", "no"} ELSE {"yes"}

QueryFault(t, r) == faults' = faults + IF tasks[t].test /\ r = "no" THEN 1 ELSE 0

\* mutant: a test task in the future is not moved back a period
TestDeadlineUnshifted(id, di, memo) == di

\* a test task whose challenge is ahead of the head is moved back one period
TestDeadline(id, di, memo) ==
  IF di.challenge > head /\ memo = "yes"
  THEN NewDeadlineInfo(id.pps - P, id.dl, head - P) ELSE di

(***************************************************************************)
(* Do up to DoPartition: read the identity and the head, reap a stale      *)
(* non-test task, move a test task whose challenge is ahead of the head    *)
(* back one period, then look the challenge tipset up from the head        *)
(* (ChainGetTipSetAfterHeight fails for a height above the head). The      *)
(* memoised isTestTask is queried only where the && and the if reach it.   *)
(***************************************************************************)
DoLoad(w) ==
  /\ wk[w].pc = "claimed"
  /\ LET t  == wk[w].tid
         id == tasks[t].ident
         di == NewDeadlineInfo(id.pps, id.dl, head)
     IN \E r \in QueryTest(t) :
          LET asked == PeriodElapsed(di) \/ di.challenge > head
              memo  == IF asked THEN r ELSE "unset"
              dl    == TestDeadline(id, di, memo)
          IN  /\ wk' = [wk EXCEPT ![w] =
                   [@ EXCEPT !.memo = memo,
                     !.pc   = IF (PeriodElapsed(di) /\ memo = "no") \/ dl.challenge > head
                              THEN "returned" ELSE "loaded",
                     !.done = PeriodElapsed(di) /\ memo = "no"]]
              /\ IF asked THEN QueryFault(t, r) ELSE UNCHANGED faults
  /\ UNCHANGED <<head, applyQ, reorgs, lastWatch, tasks, paramsReady, proofs, testResult, crashes>>

\* DoPartition and the CBOR marshalling of its result
DoProve(w) ==
  /\ wk[w].pc = "loaded"
  /\ wk' = [wk EXCEPT ![w].pc = "proved"]
  /\ UNCHANGED <<head, applyQ, reorgs, lastWatch, tasks, paramsReady, proofs, testResult, crashes, faults>>

(***************************************************************************)
(* Persist: a test task writes harmony_test.result, any other inserts one  *)
(* wdpost_proofs row; Do returns done.                                     *)
(***************************************************************************)
DoPersist(w) ==
  /\ wk[w].pc = "proved"
  /\ LET t == wk[w].tid IN
     \E r \in IF wk[w].memo = "unset" THEN QueryTest(t) ELSE {wk[w].memo} :
       /\ IF r = "yes"
          THEN /\ testResult' = testResult \cup {t}
               /\ UNCHANGED proofs
          ELSE /\ proofs' = Append(proofs, [ident |-> tasks[t].ident, tid |-> t])
               /\ UNCHANGED testResult
       /\ wk' = [wk EXCEPT ![w] = [@ EXCEPT !.pc = "returned", !.done = TRUE, !.memo = r]]
       /\ IF wk[w].memo = "unset" THEN QueryFault(t, r) ELSE UNCHANGED faults
  /\ UNCHANGED <<head, applyQ, reorgs, lastWatch, tasks, paramsReady, crashes>>

(***************************************************************************)
(* Any failing call of Do (row query, ChainHead, the challenge tipset,     *)
(* DoPartition, marshalling, the final write) returns false with nothing   *)
(* written.                                                                *)
(***************************************************************************)
DoFail(w) ==
  /\ faults < MaxFaults
  /\ wk[w].pc \in {"claimed", "loaded", "proved"}
  /\ wk' = [wk EXCEPT ![w] = [@ EXCEPT !.pc = "returned", !.done = FALSE]]
  /\ faults' = faults + 1
  /\ UNCHANGED <<head, applyQ, reorgs, lastWatch, tasks, paramsReady, proofs, testResult, crashes>>

(***************************************************************************)
(* The runtime records Do's result: done deletes the task, a failure is    *)
(* counted and the task is offered again until MaxFailures.                *)
(***************************************************************************)
\* mutant: a failed task is offered again without the MaxFailures limit
RecordCompletionNoLimit(w) ==
  /\ wk[w].pc = "returned"
  /\ LET t == wk[w].tid IN
     tasks' = [tasks EXCEPT ![t] =
                 IF wk[w].done THEN [@ EXCEPT !.status = "done"]
                 ELSE [@ EXCEPT !.fails = @ + 1, !.status = "offered"]]
  /\ wk' = [wk EXCEPT ![w] = Idle]
  /\ UNCHANGED <<head, applyQ, reorgs, lastWatch, paramsReady, proofs, testResult, crashes, faults>>

\* mutant: a failed task keeps its running status and is never offered again
RecordCompletionNoReset(w) ==
  /\ wk[w].pc = "returned"
  /\ LET t == wk[w].tid IN
     tasks' = [tasks EXCEPT ![t] =
                 IF wk[w].done THEN [@ EXCEPT !.status = "done"]
                 ELSE [@ EXCEPT !.fails = @ + 1]]
  /\ wk' = [wk EXCEPT ![w] = Idle]
  /\ UNCHANGED <<head, applyQ, reorgs, lastWatch, paramsReady, proofs, testResult, crashes, faults>>

RecordCompletion(w) ==
  /\ wk[w].pc = "returned"
  /\ LET t == wk[w].tid IN
     tasks' = [tasks EXCEPT ![t] =
                 IF wk[w].done THEN [@ EXCEPT !.status = "done"]
                 ELSE [@ EXCEPT !.fails = @ + 1,
                                !.status = IF tasks[t].fails + 1 >= MaxFailures
                                           THEN "dead" ELSE "offered"]]
  /\ wk' = [wk EXCEPT ![w] = Idle]
  /\ UNCHANGED <<head, applyQ, reorgs, lastWatch, paramsReady, proofs, testResult, crashes, faults>>

(***************************************************************************)
(* A worker process dies at any point of a Do; the runtime hands its task  *)
(* to the others again without counting a failure.                         *)
(***************************************************************************)
Crash(w) ==
  /\ crashes < MaxCrashes
  /\ wk[w].pc # "idle"
  /\ tasks' = [tasks EXCEPT ![wk[w].tid].status = "offered"]
  /\ wk' = [wk EXCEPT ![w] = Idle]
  /\ crashes' = crashes + 1
  /\ UNCHANGED <<head, applyQ, reorgs, lastWatch, paramsReady, proofs, testResult, faults>>

Init ==
  /\ head = 0
  /\ applyQ = <<>>
  /\ reorgs = 0
  /\ lastWatch = "none"
  /\ tasks = <<>>
  /\ paramsReady = FALSE
  /\ wk = [w \in Workers |-> Idle]
  /\ proofs = <<>>
  /\ testResult = {}
  /\ crashes = 0
  /\ faults = 0

Next ==
  \/ ChainAdvance \/ ChainReorg \/ ProcessHeadChange \/ FetchParams \/ AddTestTask
  \/ \E w \in Workers :
       \/ Claim(w) \/ ClaimRefused(w) \/ DoLoad(w) \/ DoProve(w) \/ DoPersist(w) \/ DoFail(w)
       \/ RecordCompletion(w) \/ Crash(w)

(***************************************************************************)
(* Fairness: the chain scheduler thread delivers every applied tipset, the *)
(* parameters are eventually fetched, the runtime keeps offering tasks to  *)
(* idle workers and a running Do returns. Chain progress, failures and     *)
(* crashes are not assumed.                                                *)
(***************************************************************************)
Fairness ==
  /\ WF_vars(ProcessHeadChange) /\ WF_vars(FetchParams)
  /\ \A w \in Workers :
       /\ WF_vars(Claim(w)) /\ WF_vars(DoLoad(w)) /\ WF_vars(DoProve(w))
       /\ WF_vars(DoPersist(w)) /\ WF_vars(RecordCompletion(w))

Spec == Init /\ [][Next]_vars /\ Fairness

(***************************************************************************)
(* Refinement mapping onto WdPostAbstract: the identities with a task row, *)
(* the identities of the wdpost_proofs rows in order, and the identities   *)
(* whose task the runtime has deleted or given up.                         *)
(***************************************************************************)
AbsQueued  == {tasks[t].ident : t \in TaskIds}
AbsProved  == [i \in DOMAIN proofs |-> proofs[i].ident]
AbsRetired == {tasks[t].ident : t \in {u \in TaskIds : tasks[u].status \in {"done", "dead"}}}

Abs == INSTANCE WdPostAbstract WITH
         Ids <- Idents, AtMostOnce <- TRUE,
         queued <- AbsQueued, proved <- AbsProved, retired <- AbsRetired

\* the same mapping onto the at-least-once queue
AbsAtLeastOnce == INSTANCE WdPostAbstract WITH
         Ids <- Idents, AtMostOnce <- FALSE,
         queued <- AbsQueued, proved <- AbsProved, retired <- AbsRetired

-----------------------------------------------------------------------------
Status == {"offered", "running", "done", "dead"}
Memo == {"unset", "yes", "no"}

TypeOK ==
  /\ head \in 0..MaxHeight
  /\ applyQ \in Seq(0..MaxHeight) /\ Len(applyQ) <= MaxQueue
  /\ lastWatch \in {"none", "ok", "err"}
  /\ \A t \in TaskIds :
       /\ tasks[t].ident \in Idents /\ tasks[t].test \in BOOLEAN
       /\ tasks[t].status \in Status /\ tasks[t].fails \in 0..MaxFailures
  /\ paramsReady \in BOOLEAN
  /\ \A w \in Workers :
       /\ wk[w].pc \in {"idle", "claimed", "loaded", "proved", "returned"}
       /\ wk[w].pc # "idle" => wk[w].tid \in TaskIds
       /\ wk[w].memo \in Memo /\ wk[w].done \in BOOLEAN
  /\ \A i \in DOMAIN proofs : proofs[i].tid \in TaskIds
  /\ testResult \subseteq TaskIds

(***************************************************************************)
(* Write-once proofs (spec 8.5): no two wdpost_proofs rows prove the same  *)
(* (sp_id, proving_period_start, deadline, partition). It rests on the     *)
(* identity key rejecting re-proposals made at every later head, on the    *)
(* runtime running a task once at a time, and on Do's insert being the     *)
(* last thing before the runtime deletes the task.                         *)
(***************************************************************************)
WriteOnceProofs ==
  \A i, j \in DOMAIN proofs : i # j => proofs[i].ident # proofs[j].ident

(***************************************************************************)
(* The scheduler implements its abstract specification: identities only    *)
(* join the queue, each is proved at most once and only while its task is  *)
(* pending, and a retired identity stays retired, over every interleaving  *)
(* of the watcher, the workers, the runtime and the chain.                 *)
(***************************************************************************)
AbsRefinement == Abs!Spec

(***************************************************************************)
(* With worker crashes the scheduler still implements the at-least-once   *)
(* queue: a crash between Do's wdpost_proofs insert and the runtime's      *)
(* completion record may prove an identity twice, but a proof is only      *)
(* written while its identity is pending, never after its task was        *)
(* deleted or given up, and retiring is final.                           *)
(***************************************************************************)
AbsAtLeastOnceRefinement == AbsAtLeastOnce!Spec

(***************************************************************************)
(* The admitter's bids follow the policy of spec 4.2 (8.3, 8.4) for every  *)
(* batch the runtime can offer: if a task of the batch is stale, only      *)
(* stale tasks are bid on; otherwise every task is bid on, and of two      *)
(* tasks the one whose deadline opens first outbids the other unless its   *)
(* own failure penalty reverses the order: its bid plus its failure count  *)
(* exceeds the other's bid, whether or not a history query failed.         *)
(***************************************************************************)
BidPolicy ==
  LET batch == {t \in TaskIds : tasks[t].status = "offered"}
      stale == {t \in batch : PeriodElapsed(TaskDeadline(t, head))}
      open(t) == TaskDeadline(t, head).open
  IN  \A bids \in CanAccept(batch, head) :
        /\ stale # {} => DOMAIN bids = stale
        /\ stale = {} => DOMAIN bids = batch
        /\ \A t, u \in DOMAIN bids :
             stale = {} /\ open(t) < open(u) =>
               bids[t] + tasks[t].fails > bids[u]

(***************************************************************************)
(* Test tasks never reach the chain (spec 4.3.4, S6): no wdpost_proofs row *)
(* comes from a task that has a harmony_test row; Do decides with the      *)
(* memoised isTestTask.                                                    *)
(***************************************************************************)
NoTestProofOnChain ==
  \A i \in DOMAIN proofs : ~tasks[proofs[i].tid].test

(***************************************************************************)
(* No lost deadlines (spec 8.2): a processHeadChange that returns nil      *)
(* leaves a task row for every partition of the current deadline of every *)
(* tracked miner whose proving period has started at the applied tipset,  *)
(* whatever the order in which it visits the miners.                      *)
(***************************************************************************)
NoLostDeadlines ==
  [][ (applyQ # <<>> /\ applyQ' = Tail(applyQ) /\ lastWatch' = "ok") =>
      \A m \in Miners :
        PeriodStarted(ProvingDeadline(m, Head(applyQ))) =>
          \A id \in Proposed(m, Head(applyQ)) :
            \E t \in DOMAIN tasks' : tasks'[t].ident = id ]_vars

(***************************************************************************)
(* Every task row is eventually retired: Do reaps or proves it, or the     *)
(* runtime gives up after MaxFailures; no task is left running or offered *)
(* forever, whatever the bids of the tasks competing with it.              *)
(***************************************************************************)
TasksRetire ==
  \A i \in 1..Cardinality(Idents) :
    (i \in DOMAIN tasks) ~> (i \in DOMAIN tasks /\ tasks[i].status \in {"done", "dead"})

(***************************************************************************)
(* Every test task added by curio test wd task eventually has its          *)
(* harmony_test.result written, also for a deadline of the current period  *)
(* whose challenge epoch the chain has not reached: Do moves such a test   *)
(* task back one proving period instead of failing until it is given up.  *)
(***************************************************************************)
TestTasksAnswered ==
  \A i \in 1..Cardinality(Idents) :
    (i \in DOMAIN tasks /\ tasks[i].test) ~> (i \in testResult)

(***************************************************************************)
(* A task is not given up on before the head has reached its challenge     *)
(* epoch (spec 4.3.1 step 6: such a live task must not run, it becomes     *)
(* runnable on a later head change).                                       *)
(***************************************************************************)
NoGiveUpBeforeChallenge ==
  [][ \A t \in DOMAIN tasks :
        (tasks'[t].status = "dead" /\ tasks[t].status # "dead") =>
          head >= TaskDeadline(t, head).challenge ]_vars
=============================================================================
