# spica: a TLA+ verification project

spica is a workflow engine for a JSONata subset of the Amazon States Language.
It is event-sourced: *Commands* on an append-only log are dispatched one at a
time; a handler reads an overlay of the projection and answers with *Events*,
follow-up *Commands* or a *Reject*; the answer is appended as one batch ending
in a *Noop*, its Events are folded, and the fold is committed together with the
watermark `W` (`last_processed_position`).  This directory models that engine,
checks the model with TLC on small instances and proves parts of it with TLAPS.

## 1. The parts of the system

| Part | Source (under `src/crates/`) | Module |
|---|---|---|
| Leader loop and recovery | `engine/src/stream_processor.rs`, `leader.rs`, `working.rs` | `StreamProcessor`, `Projection` |
| Follower loop | `engine/src/stream_processor.rs`, `follower.rs` | `Follower` |
| Log, both backends | `logstream/`, `engine/src/log.rs` | `LogStream`, `LogEntries` |
| What both loops promise | `docs/durable-execution-recovery-design.md` | `PrefixProjection` |
| Collector, working state | `engine/src/handler.rs`, `working.rs` | `Projection` |
| Appliers of the 25 Events | `engine/src/applier/` | `Appliers` |
| Storage seam and its two backends | `engine-types/src/storage/`, `storage/` | `StoreContents`, `TxnStore`, `MemoryStore`, `StorageKeys`, `RocksStore` |
| Handlers, execution, thread, activity, the eight state types | `engine/src/handlers/`, `engine/src/elements/` | `ExecutionTree` |
| Task row, leases, retry budget | `engine-types/src/types/task.rs`, `engine/src/elements/task.rs` | `TaskLease` |
| Client worker pool | `client/src/worker/` | `WorkerPool` |
| Deadlines and scheduler | `scheduler/`, `server/src/gateway.rs`, `engine/src/elements/` | `Deadlines` |
| Gateway, acknowledgements, flow creation | `server/src/gateway.rs`, `engine/src/engine.rs`, `elements/flow.rs` | `Gateway` |
| Names, references, meta | `machinery/`, `engine-types/src/types/meta.rs` | `Names`, `Wire` |
| Definitions and state paths | `asl/` | `StatePaths`; what steers a run in `ExecutionTree` |
| Query API | `engine/src/query.rs`, `server/src/query.rs` | `Catalog` |

`PROJECT.json` lists every component with its files, the lines each definition
stands for, and the hazards (places where an interleaving, a crash or a limit
could break the code) with the properties that guard them.

How they interact: clients, workers and the scheduler only *append Commands*;
the leader loop is the only one that dispatches; handlers never see a
half-folded batch; the hook tells the gateway and the scheduler what was
committed.  The project is cut along those lines:

- `StreamProcessor` leaves open what a handler decides (`Outcomes`) and keeps
  every durable step apart; `Projection` follows the folds and the store, with
  what the handlers decide given as data (`Steps`).
- `ExecutionTree` takes dispatch as atomic and in log order, which
  `StreamProcessor` justifies as long as the process does not restart.
- `TaskLease` has the part of a task that `ExecutionTree` abstracts (time,
  workers, budgets), `WorkerPool` the processes that work on it, `Deadlines` the
  way of a deadline, `Gateway` what lies between a client's call and the log.

## 2. The modules

Operators named `Mut...` are deliberately wrong variants of the definition that
follows; they are used only to confirm that the properties notice.  The `MC*`
modules define the values of the constants.

### LogEntries, PrefixProjection
`LogEntries` has the four kinds of entries, the batch of a dispatch and the
Noop termination of outside appends.  `PrefixProjection` is the promise: the log
only grows and Storage is always the fold of a prefix that ends at a Noop.

### StreamProcessor
One action per step that is durable or visible by itself:

| Action | Code |
|---|---|
| `Boot`, `RecoverEvent`, `RecoverNoop`, `RecoverSkip`, `StartTailing` | `run`, the arms of `recover_leader`, the hand-off to the loop |
| `Dispatch`, `RejectCommand`, `RetryDispatch` | `process_command`, `dispatch_once`, `reject_command`, then the append |
| `Commit`, `Report` | `work.commit`, `after_commit` and the Rejects |
| `SkipReadBack` | the read-back arms of `run_leader` |
| `AppendCommand` | `Engine::append_command`, by anybody at any time |
| `Halt`, `GoDown` | a backend error that ends the task; crash or `Engine::stop` |

`reported` is a history variable: which entries the hook was told of, after
which Command.

### LogStream, Follower
`LogStream` is the log in its two forms with one tailing reader: positions are
stamped from a counter, the vector is extended under a mutex and its readers are
told *after* it is released (`MemAppend`, `MemNotify`), the RocksDB log writes
entries and counter in one synced batch or not at all (`RocksAppend`), and
reopening takes the counter from disk.  A reader sweeps, and when it finds
nothing waits (`Sweep`, `Park`, `Wake` are separate steps, for the log may grow
between them).  The watch channel is reduced to whether something was sent since
the receiver last looked.  `Follower` composes it with the arms of
`run_follower` and crashes; the leader whose log arrives is external and appends
whole batches.

### StoreContents, TxnStore, MemoryStore, StorageKeys, RocksStore
`StoreContents` has what a store holds (rows, variable scopes, ownership edges,
name counter, watermark) and the writes of a fold.  `TxnStore` is the seam's
promise: a transaction reads its own writes, nobody else does, a commit lands
whole with its watermark, a power loss brings back an earlier commit.
`MemoryStore` and `RocksStore` are the operations of the two backends: maps with
a buffered batch, and one ordered key space under the encoding of `StorageKeys`,
where an iterator is a seek that runs on.  RocksDB itself (transactions,
iterators, byte order) is external.  `RocksList` either lists names or fails, which it
does when the scan meets a key whose text is no name; the code then returns an error or
panics on a slice, and the model does not tell these apart.

### Appliers, Projection
`Appliers` has one operator per Event: the writes its applier makes, with the
conditions under which it makes none.  `Projection` drives a leader over both
backends in lock-step: `Dispatch` decides a batch on the overlay and appends it,
`Commit` commits, `Recover` reads the log back, `Reopen` is a crash that may take
back commits that were not synced.  `MaxFaults` is how many folds may fail while
a batch is decided (the collector logs such a failure and goes on).

### ExecutionTree
One run: `tree` holds the rows (execution, threads, activities, tasks) in
creation order, `kids` the ownership-edge index, `cmds` the Commands not
dispatched yet.  Each handler is an operator from the current state to a `Work`
record (overlay, follow-ups, deadlines to arm and cancel, refusal, panic) and
`Answer` lets that record take effect.  There is one action per Command.
`get_children` is a hash set, so a sweep visits children in any order (`Orders`).
JSON data is dropped; what steers is kept: which evaluation fails (`bad`), the
reason of a teardown, whether a task delivered its result (`raw`).  A definition
is accepted as soon as it parses, so a machine may hold states that validation
would refuse (a Wait with no duration, a Parallel or Map with neither `Next` nor
`End`); the handlers that meet one reach `unreachable!`, the processor's task ends
(`panicked`) and the Command stays unanswered.
A cancelled deadline may still fire (`late` in `Answer`): the scheduler sees the
cancel through its inbox.  `DebugAssertions` is the build: several transitions
are written inside `debug_assert!`.  `GetExecution` is how a client reads the
run: the row, its mirror in the server's answer, and the client's
interpretation of that; the properties about verdicts are stated of it.

### TaskLease, WorkerPool
`TaskLease` is one task row with the clock.  `grants`, `answered` and `released` are
histories: the claims granted, the ones whose own run had a report accepted, and the
ones a report ended.  A report names the worker only, as in the code, and nothing is
assumed about how often a worker claims the task under one id.  The empty worker id
never completes a task, and is taken for the engine's own when it reports a failure:
`FailAny` is such a report, which the RPC lets any caller send.  A backoff that runs past
the last instant opens the gate at once (`GateAfter`).  A completed row keeps the worker
and the lease of its last claim, because its applier folds the status only; a failed or
requeued row gives them up.  `WorkerPool` extends it with the processes: a worker polls
under one id, hands each claim to a handler nobody joins, and reports once.
Polls' answers, reports, handlers and processes may be lost (`PollFails`,
`ReportLost`, `HandlerDies`, `Cancel`, `Crash`), and a run may outlive its lease;
each of these counts as a fault, and `MaxFaults` bounds them.  `Unnamed` is a failure
report from outside the pool.

### Deadlines
From the row to the Command: `Birth` commits a row with the deadline its
definition resolves to (the three `Resolve...Deadline` operators keep the ranges
the code checks), `AfterCommit` tells the hook, which arms or cancels through the
scheduler's inbox; `Drain`, `CollectDue`, `Fire` and `Wait` are the loop, where due
targets are collected before they are triggered one by one; `Fire` calls the sink
(`SinkTrigger`), which finds the engine only once the slot is filled (`FillSlot`) and
ignores an append that fails (`lost`), and `Trigger` acts on the row if it still can.
`Restart` keeps the rows and the log.  When the store came back without its last
commits, recovery folds Events again and the leader keeps the last one
(`recovered`, `Leader::last_applied`); a dispatch that answers replaces it, one that
refuses tells it to the hook (`Refused`), which may arm a deadline again.

### Gateway
Callers in front of the log.  `pc` is how far a call got, `pending` the registry of
the `AckHook`, `mail` what was sent on the one-shot channel of a request, `batch`
the batch the processor has in hand (appended, committed, then reported entry by
entry).

| Action | Code |
|---|---|
| `Begin` | the gRPC method up to its first append-side await: name resolution, the poll's read-first gate, `AckHook::register` |
| `Check` | the optimistic refusals of `Engine::create_flow` and `create_execution` |
| `AppendCommand`, `AppendFails` | `append_command` and its error |
| `Receive`, `Abandon` | `await_event`, `await_tasks`; the call's future is dropped |
| `Dispatch`, `Commit`, `Report` | handler, fold and commit, `on_event_applied` and `on_command_rejected` |
| `Halt` | the processor's task ends; server and registry live on |
| `Lapse` | the clock passes the lease of a running task |

There is no other clock here: the backoff gate is `TaskLease`'s, and `MaxLapses` bounds
how often a task's lease lapses.  Every dispatch may also run out of attempts and be refused.  `CanMisread` says
whether a handler's read of the name it is about to give may fail; the code takes
such a failure for a free name (`if let Ok(Some(_))`).

### Names, Wire, StatePaths, Catalog
Three modules of operators: names and references as text and back, the identity of
an object with its typed owner as it is written and read, the walk of a state
path.  `Catalog` puts them to work: flows, executions and rows are created while a
client session pages through a kind or follows a run's path through its
definition.  Its pages are those of the in-memory store (`ListKind`); how the RocksDB
store lists a kind is `RocksStore`'s `RocksList`.  Text is a sequence of letter codes
because order and prefixes are what the properties are about; numbers are
written to a small radix so that text order and number order part early.

## 3. What TLC checks

Passing runs (distinct states in parentheses):

| Run | Question |
|---|---|
| `stream` (87,833) | With a crash, shutdown or backend failure between any two steps: is Storage a whole-batch prefix, is nothing above `W` skipped, does no Command take effect twice, is each answered and its outcome reported? |
| `follower` (115,077) | Reading either log backend, with failing appends and crashes inside batches: is each entry handed out once and in order, are only whole batches shown, and does the replica converge, so that no wake-up is lost? |
| `projection` (68,536) | Every Event folded live or by a recovery into both backends, with commits taken back by power losses: is the store the fold of the log, do both backends implement one seam and answer alike, is no generated name given twice? |
| `worker_pool` (651,197) | Two workers around one task, with everything lost that can be and failures reported under no id: is a running task's lease the last grant, do leases never overlap, are budgets kept, is each claim accounted for, is the pool an instance of `TaskLease`, does the task settle? |
| `gateway` (419,222) | Three concurrent calls: is no outcome missed or misdelivered, is one name created once, is a task granted again only after a retry or a lapse, is success visible when it is told, does every call return? |
| `deadlines` (830,233) | Two elements, a loop whose inbox races the clock, a late slot, refused appends and a restart: does a deadline fire at most once in a life of the process and never early, and does one the scheduler knows act? |
| `catalog` (50,283) | Are pages of the in-memory store complete while rows are written, do rows and references read back, do paths find their state? |
| `tree_safe` (462,656) | One machine with every state type, a retry, a Catch, timeouts, failing evaluations, fan-outs with room for one, two or all, and unvalidated states, under failing and completing workers, a cancel and late deadlines: are edges, slots and verdicts right, and does a handler panic on unvalidated states only? |
| `tree_live` (23,765) | The same machine with its Maps one by one, completing, failing and silent workers and a cancel: does each teardown drain, and does each served run settle, if no task fails for good in the middle of a teardown? |

Runs that are expected to fail, each showing one disagreement between the code
and what a comment or document says (quoted in `PROJECT.json`):

| Run | What happens |
|---|---|
| `stream_lost` | follow-ups and concurrent Commands below `W` are never dispatched after a restart |
| `storage_scan` | a scan of the committed RocksDB store by the prefix of a kind runs on into the next kinds |
| `tree_map_hang` | refills count rows, not pending spawns: one item is spawned twice and the Map never counts all of them |

Where the passing runs stay clear of those cases they say so.  Both tree runs are
debug builds.  `tree_safe` has Maps with room for two, over a Pass and a Wait, and so
the miscount of `tree_map_hang`: an item may run twice and a Map may hang, and
`FanOutIsWhole` states what holds all the same (a Map that completes has a completed
thread in every slot and none running; each item once, and no more in flight than
allowed, only where items run one by one or all at once).  In `tree_live` Maps run
their items one by one, and `TimelyFailures` is a hypothesis of both properties: the
code loses the step that would resume a drain when a task fails for good under it.
Both kinds of such failure happen in the run.  `ReadsAgree` covers the
scans inside a transaction, which stop at their prefix, and not those of
`storage_scan`.  `NoneSkippedAboveWatermark` and `EveryCommandAnswered` exempt
what `stream_lost` shows to be lost.

**Further disagreements.** The same models show more, without a run of their own
(change the constant named and check the property named):

- A restart dispatches again a Command whose batch had no Events (a Reject, or
  follow-ups only), so it can have two batches;
  `docs/durable-execution-recovery-design.md:173` says "the log does **not** grow a
  duplicate batch".  `AnsweredAtMostOnce` claims the weaker fact that holds: at most
  one of them has an effect.  In the same way `HookReportsOwnBatch` allows, after
  a restart, a recovered Event reported behind a later Command.
- `RunSettles` and `TeardownFinishes` fail without their hypothesis `TimelyFailures`: a
  task that fails for good under a teardown leaves the drain waiting
  (`elements/task.rs:196`, `handlers/terminate_state.rs:53`), and when it has a Catch,
  the Catch is taken and the thread's drain waits for ever.
- `RunSettles` fails with `Machine <- Failing` and `DebugAssertions = FALSE`: the
  transitions in `states/fail.rs:79` and `execution.rs:449` are arguments of
  `debug_assert!`.
- `RunSettles` fails when a catcher's own `Assign` or `Output` cannot be evaluated and the failure matches
  that catcher: the Task catches it for ever.
- "Each item once" fails of Maps with `MaxConcurrency` 2, by the miscount of
  `tree_map_hang`, also where the Map completes; and such a Map may have more items in
  flight than allowed.
- `~panicked` fails of `Every`: `StateMachine::validate` is a TODO (`asl/src/lib.rs:55`),
  so a definition that parses can bring the processor's task to the `unreachable!` at
  `states/wait.rs:362`, `states/map.rs:206` or `states/parallel.rs:196`.
  `PanicsOnlyUnvalidated` says that nothing else does.
- "A completed task has no worker and no lease" fails in `worker_pool`:
  `TaskCompletedApplier` folds the status only, while `types/task.rs:203` says the worker
  is "cleared when the task settles or is re-claimed", `:209` that the lease is "`Some`
  iff `status == Running`", `:312` "The lease is **released here**", and the test at 571-579
  asserts it of `mark_completed`.  `LeaseIsLastGrant` says nothing of a completed row.
- `StaleReportIsRefused` fails: a worker that re-claims its own lapsed task (a worker
  keeps one id, `client/src/worker/in_memory.rs:112`) has its old run's report accepted
  (`types/task.rs:354`, against the comment at 349-350).  What holds is
  `StaleReportNeedsReuse`.
- A failure report with an empty worker id fails any task that is not settled
  (`types/task.rs:366`).  Its doc calls this the engine's own timeout; the engine sends
  none, and the RPC passes on whatever id the caller gave (`server/src/task.rs:104`).
- A lapsed lease is granted again by intent.  The other way to two holders that
  `elements/task.rs:328-330` mentions, a race that "can hand a task to two workers", does
  not happen: `GrantsAreAccountedFor`, `LeasesDoNotOverlap`.
- `StoreIsFold` fails with `MaxFaults = 1`: a failed fold is logged and the batch goes
  on without it, although `handler.rs` says of that place "a projection failure is
  fatal for this command, so it is surfaced rather than swallowed".
- `OneCreator` fails with `CanMisread = TRUE`: a failed read counts as a free name
  (`elements/flow.rs:70`, `elements/execution.rs:653`).
- `EveryCallReturns` fails without its hypothesis `[]up`: the registry outlives the
  processor's task and keeps the senders, so a caller that waits when the task
  ends gets no answer, although the message of `ack_failure_error`
  (`gateway.rs:310`) covers a `StreamProcessor` that "never applied the awaited
  outcome".  A call that fails fast, whose append fails or that is abandoned stays
  in `pending`; only an outcome removes an entry.
- `DeadlineActs` without its two conditions on `slot` fails in two ways: deadlines live
  in the scheduler's memory and are not armed again after a restart (`leader.rs:342`
  marks it as a TODO), and one that a restarted processor arms and that fires before
  `main` has filled the slot is dropped (`main.rs:100`).  It also exempts a fire whose
  append fails: the sink ignores the error, and the deadline is no longer armed
  (`server/src/gateway.rs:264`).
- `FiresOnceWhenDue` counted over restarts fails: `leader.rs:343` says "a replayed fold
  derives no scheduler side effect", but recovery keeps the last Event it folded
  (`leader.rs:371`), and when the first Command after it is refused, `after_commit`
  reports that Event (`stream_processor.rs:320`).  If it is a birth, its deadline is armed
  again, though it may have fired before.

And read off the source while modelling it, where no property is at stake:
`StateLanguageVersion` is untagged, so
`"Version": "1.0"` is refused; `Output: null` reads as no Output though
`asl/src/pass.rs:19-22` says null is accepted; a string whose `{%` and `%}`
overlap counts as an expression without an inside; a `Wait` with negative
`Seconds` is accepted where its doc says non-negative; the client's
`ExecutionSnapshot` says `error_name` is present once a run is terminated, while a
cancelled run has none and one being torn down already has one;
`TerminationReason::TimedOut` is never produced; a failed read of the name counter
counts as zero (`working.rs:104`); a thread's row and its variables are read in
two steps (`server/src/query.rs`).

**Bounds.** Each is a named constant.  `stream`: three Commands and two restarts let
a crash hit recovery itself and a client's Command fall between a Command and its
batch; batches have at most two entries (three for the follower), for an Event
next to an Event and next to a Command are the only adjacent cases the loops tell
apart.  `follower`: nine positions hold three batches and a failed append, two
unsent notifications let one overtake a sweep and one a wait.  `projection`: two
crashes let a recovery be cut off; the seven histories use every Event, the
transitions through a retry gate, a lease that lapses at instant 1, a fan-out with
scopes, a second run whose name extends the first's, and a refused second flow.
`worker_pool`: four claims over one fault and two retries exhaust both; the last instant
of 20 is reached by a backoff that overflows and by nothing else, and a width of 16 lets
a `MaxAttempts` of 17 wrap; the clock moves only while a lease or a gate waits for it.  `gateway`: three calls let two race for one
name, task or registry slot while a third prepares the ground or reads what they
did (calls about flows and calls about tasks share no rows, so only a creation and a poll
are mixed with any third); two tasks let a poll be granted less than it read,
and one lapse of each lets a task have two holders in turn.  `deadlines`: two owners let
one fire while the other is armed or cancelled; time has two instants because only
due and not yet due are told apart.  `catalog`: names of two or three letters in
radix 3 with suffixes to 15 give suffixes of one to three digits, pages of one or
two names.  Trees: one cancel, one report of a task waiting at a time, fan-outs with
two branches or up to five items, so that a Map with room for two refills while its
spawns are on the log.

**Fairness.** In all specifications weak fairness is assumed of tasks the async
runtime polls: the processor's loop (`StreamProcessor`, `Follower`,
`ExecutionTree`, `Gateway`), the tasks serving calls (`Gateway`), an append between
its mutex and its send (`Follower`), the scheduler's loop and the clock
(`Deadlines`), workers' polling, handlers that return, and delivery
(`WorkerPool`).  A dispatch cannot be retried for ever because attempts are
counted, so retry needs no fairness.  None is assumed of clients, crashes, faults,
sweeps or cancels.  What the environment has to do is a hypothesis of the property:
`Served` (workers poll and report, the clock reaches deadlines) in `RunSettles`, a
living processor in `EveryCallReturns`, one worker left in `TaskSettles`.  Deadlock
checking is off: a settled run, or a log with nothing left to read, is a proper end.

## 4. What is proved

`StreamProcessor_proofs`, for every set of outcomes and all bounds, from
`OutcomesAssumption` only: type correctness, `ProjectionIsPrefix`,
`ReadBackIsApplied`, `DurableOnlyGrows` and the refinement of `PrefixProjection`.
`ProjectionIsPrefix` is not inductive: between append and commit, and in the
middle of recovery, what the open transaction holds matters.  `IInv` adds that
`W` is 0 or on a Noop, that the transaction of a recovery holds exactly the
Events between `W` and the read position, that an appended batch is the end of
what is not folded, and that outside recovery all Events lie at or below `W` or
in the batch in hand.  There is one lemma per group of actions.

`Follower_proofs`, for every set of outcomes, log length and number of crashes and
over both log backends, from `FollowerAssumption`: `StreamHasNoGap`, and the
refinement of `PrefixProjection` by the follower reading through the stream.  `IInv`
has three parts: the log is contiguous, its entries carry their own positions and the
counter on disk agrees with the one in memory; what was swept is the stretch of the
log from the cursor on; the projection holds the Events up to `W`, and the held
transaction those between `W` and the cursor.  `StreamHasNoGap` lacks the last of
these, and that buffered positions are on the log, without which an append could
disturb them.

`TaskLease_proofs`, for all worker sets, plans, widths and lease times, from
`LeaseAssumption`: `LeaseIsLastGrant`, `RetriesWithinBudget` (the wrap of the
budget to the counter's width can only lower it), `StaleReportNeedsReuse`, the type
invariant and `LeasesDoNotOverlap`, whichever ids the workers use.  The last is not
inductive: `ApartInv` adds that no claim was granted in the future (`GrantsArePast`) and
that a task back in the queue had its last claim ended by a report
(`RequeuedWasReleased`), so that what makes it claimable again is always a lapse or a
report.

`WorkerPool_proofs`, for any number of workers and faults, from `LeaseAssumption`
and `PoolAssumption` (a lease lasts some time): the pool implements `TaskLease`, so
the theorems above hold of a task worked on by the pool; and
`ClaimsAreAccountedFor`.  The refinement needs `PInv`: every answer awaited, handler
running and report under way belongs to a claim that was granted.  The count is not
inductive by itself; `Accounted` adds that a task which anyone may still take, now
or later, has no claim left over that is not answered by a retry or a fault.

Only model-checked: everything about `ExecutionTree`, `Gateway`, `Projection` with
the storage modules, `Deadlines` and `Catalog`; that the follower `Converges`; of
`StreamProcessor` also `NoCommandSkipped`, `AnsweredAtMostOnce`,
`HookReportsOwnBatch` and `NoneSkippedAboveWatermark`; and all liveness, which is out
of the prover's reach, as is what the recursive folds of `Projection` compute for
every log.

## 5. Not modelled

- Values of JSONata expressions: an external interpreter; whether an evaluation
  fails is an input of `ExecutionTree`.
- Identifiers and the wall clock: random ids are distinct by construction, the
  clock is an action of the modules that read it.
- The byte encodings of rows and log entries, the transport, process arguments,
  the CLI, generated protobuf code and test support.
- The server's mirrors of threads, activities and tasks, which copy fields.
- Failing reads of Storage inside a dispatch, other than the one behind
  `CanMisread`: most end the dispatch, which is retried.  Some are swallowed: a name
  counter that cannot be read counts as zero (`working.rs:104`), and a branch whose
  container cannot be read starts without a scope (`thread_created.rs:26`).
- Log rows that cannot be read or decoded: a reader passes over them
  (`logstream/src/rocks.rs:244`).
- Restarts in the middle of a run's tree: what they lose is shown where it happens,
  by `StreamProcessor` for Commands and by `Deadlines` for deadlines.
- Which JSON values the fields of a definition accept: the Rust types declare it and the
  deserialiser decides.
