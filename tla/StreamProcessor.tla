--------------------------- MODULE StreamProcessor ---------------------------
(***************************************************************************)
(* The leader's log driver: boot, recovery of crash residue, the tailing    *)
(* loop (dispatch, append, commit, report), and the crashes, controlled     *)
(* shutdowns and backend failures that can fall between any two of those    *)
(* steps.  What a handler decides is left open: a dispatch emits any of the *)
(* entry sequences in Outcomes.                                            *)
(***************************************************************************)
EXTENDS LogEntries, FiniteSets

CONSTANTS
    Outcomes,        \* entry-kind sequences a dispatch may collect
    MaxAttempts,     \* MAX_COMMAND_ATTEMPTS
    MaxCommands,     \* bound: Commands the log may hold
    MaxRestarts      \* bound: times the process goes down

ASSUME OutcomesAssumption ==
    /\ Outcomes \subseteq Seq({"command", "event", "reject"})
    /\ MaxAttempts \in Nat \ {0}
    /\ MaxCommands \in Nat
    /\ MaxRestarts \in Nat

VARIABLES
    log,          \* the durable log
    watermark,    \* durable: Storage's last_processed_position
    applied,      \* durable: positions of the Events folded into Storage
    phase,        \* where the driver is
    pos,          \* the position the driver reads next
    txn,          \* Events folded into the open transaction
    batch,        \* <<first, last>>: where the batch in hand was appended
    lastApplied,  \* Leader::last_applied
    attempt,      \* process_command's attempt counter
    reported,     \* <<entry, command>>: the Hook was told of entry after command
    restarts

durable == <<log, watermark, applied>>
vars == <<log, watermark, applied, phase, pos, txn, batch, lastApplied,
          attempt, reported, restarts>>

Phases == {"down", "recovering", "leading", "appended", "committed", "halted"}

\* Every position the driver holds (watermark, read position, batch, folded and
\* reported entries) lies on the log, the read position at most one past it.
TypeOK ==
    /\ log \in Seq(Entry)
    /\ watermark \in 0..Len(log)
    /\ applied \subseteq 1..Len(log)
    /\ phase \in Phases
    /\ pos \in 1..(Len(log) + 1)
    /\ txn \subseteq 1..Len(log)
    /\ batch \in (0..Len(log)) \X (0..Len(log))
    /\ lastApplied \subseteq 1..Len(log)
    /\ attempt \in 1..MaxAttempts
    /\ reported \subseteq (1..Len(log)) \X (1..Len(log))
    /\ restarts \in 0..MaxRestarts

Init ==
    /\ log = <<>>
    /\ watermark = 0
    /\ applied = {}
    /\ phase = "down"
    /\ pos = 1
    /\ txn = {}
    /\ batch = <<0, 0>>
    /\ lastApplied = {}
    /\ attempt = 1
    /\ reported = {}
    /\ restarts = 0

-----------------------------------------------------------------------------
\* EngineInner::append_command: a client, a worker or an expired deadline
\* appends a bare Command.  It needs the process, not the processor task: a
\* halted driver leaves the append path open.
AppendCommand ==
    /\ phase # "down"
    /\ Cardinality(Positions(log, "command")) < MaxCommands
    /\ log' = log \o NoopTerminated(<<[kind |-> "command", cause |-> NoCause]>>)
    /\ UNCHANGED <<watermark, applied, phase, pos, txn, batch, lastApplied,
                   attempt, reported, restarts>>

\* StreamProcessor::run up to recover_leader: a fresh Leader, resuming from the
\* watermark Storage holds.
Boot ==
    /\ phase = "down"
    /\ phase' = "recovering"
    /\ pos' = watermark + 1
    /\ UNCHANGED <<durable, txn, batch, lastApplied, attempt, reported, restarts>>

\* Mutation of RecoverEvent: each Event opens a transaction of its own.
MutRecoverEvent ==
    /\ phase = "recovering"
    /\ pos <= Len(log)
    /\ log[pos].kind = "event"
    /\ txn' = {pos}
    /\ lastApplied' = {pos}
    /\ pos' = pos + 1
    /\ UNCHANGED <<durable, phase, batch, attempt, reported, restarts>>

\* recover_leader, Event arm: open a transaction at the batch's first Event and
\* fold.  apply_event leaves the Event in last_applied.
RecoverEvent ==
    /\ phase = "recovering"
    /\ pos <= Len(log)
    /\ log[pos].kind = "event"
    /\ txn' = txn \union {pos}
    /\ lastApplied' = {pos}
    /\ pos' = pos + 1
    /\ UNCHANGED <<durable, phase, batch, attempt, reported, restarts>>

\* recover_leader, Noop arm: commit the batch at its marker; a Noop that closes
\* no open transaction is stepped over.
RecoverNoop ==
    /\ phase = "recovering"
    /\ pos <= Len(log)
    /\ log[pos].kind = "noop"
    /\ IF txn = {}
       THEN UNCHANGED <<watermark, applied>>
       ELSE /\ watermark' = pos
            /\ applied' = applied \union txn
    /\ txn' = {}
    /\ pos' = pos + 1
    /\ UNCHANGED <<log, phase, batch, lastApplied, attempt, reported, restarts>>

\* recover_leader, Command and Reject arms: skip.
RecoverSkip ==
    /\ phase = "recovering"
    /\ pos <= Len(log)
    /\ log[pos].kind \in {"command", "reject"}
    /\ pos' = pos + 1
    /\ UNCHANGED <<durable, phase, txn, batch, lastApplied, attempt, reported,
                   restarts>>

Tailing(from) ==
    /\ phase = "recovering"
    /\ phase' = "leading"
    /\ pos' = from
    /\ txn' = {}
    /\ UNCHANGED <<durable, batch, lastApplied, attempt, reported, restarts>>

\* Mutation of StartTailing: from the durable tail.
MutStartTailingAtTail == pos > Len(log) /\ Tailing(pos)

\* recover_leader read past the durable tail: re-read the watermark and start
\* tailing one past it.
StartTailing == pos > Len(log) /\ Tailing(watermark + 1)

-----------------------------------------------------------------------------
AtCommand ==
    /\ phase = "leading"
    /\ pos <= Len(log)
    /\ log[pos].kind = "command"

\* The driver's append of `entries ++ [Noop]`, atomic and assigned the next
\* positions; the working transaction holds the Events the dispatch folded.
AppendBatch(kinds) ==
    /\ log' = log \o Batch(kinds, pos)
    /\ batch' = <<Len(log) + 1, Len(log) + Len(kinds) + 1>>
    /\ txn' = {Len(log) + i : i \in {j \in 1..Len(kinds) : kinds[j] = "event"}}
    /\ phase' = "appended"
    /\ attempt' = 1

\* run_leader, Command arm: the dispatch answered; its Events become
\* last_applied.
Dispatch ==
    /\ AtCommand
    /\ \E kinds \in Outcomes :
          /\ Cardinality(Positions(log, "command"))
                + Cardinality({i \in 1..Len(kinds) : kinds[i] = "command"})
                    <= MaxCommands
          /\ AppendBatch(kinds)
    /\ lastApplied' = txn'
    /\ UNCHANGED <<watermark, applied, pos, reported, restarts>>

\* process_command: an unexpected failure below the budget is retried on a
\* fresh overlay; nothing of the failed attempt survives.
RetryDispatch ==
    /\ AtCommand
    /\ attempt < MaxAttempts
    /\ attempt' = attempt + 1
    /\ UNCHANGED <<durable, phase, pos, txn, batch, lastApplied, reported,
                   restarts>>

\* reject_command: a refusal, or a failure that outlived the budget, is recorded
\* as the Command's only entry.  last_applied is not touched.
RejectCommand ==
    /\ AtCommand
    /\ AppendBatch(<<"reject">>)
    /\ UNCHANGED <<watermark, applied, pos, lastApplied, reported, restarts>>

Commits(at) ==
    /\ phase = "appended"
    /\ watermark' = at
    /\ applied' = applied \union txn
    /\ txn' = {}
    /\ phase' = "committed"
    /\ UNCHANGED <<log, pos, batch, lastApplied, attempt, reported, restarts>>

\* Mutations of Commit: at the last entry before the marker; only when there is
\* something to fold.
MutCommitEarly == Commits(batch[2] - 1)
MutCommitFolds == txn # {} /\ Commits(batch[2])

\* work.commit(Some(last)): the fold and the watermark land in one transaction.
Commit == Commits(batch[2])

Reports(entries, queue, next) ==
    /\ phase = "committed"
    /\ reported' = reported \union (entries \X {pos})
    /\ lastApplied' = queue
    /\ pos' = next
    /\ phase' = "leading"
    /\ UNCHANGED <<durable, txn, batch, attempt, restarts>>

Rejects == {p \in batch[1]..batch[2] : log[p].kind = "reject"}

\* Mutations of Report: last_applied is kept; Rejects are not reported; the loop
\* stays at the Command.
MutReportKeeps == Reports(lastApplied \union Rejects, lastApplied, pos + 1)
MutReportEventsOnly == Reports(lastApplied, {}, pos + 1)
MutReportStays == Reports(lastApplied \union Rejects, {}, pos)

\* after_commit drains last_applied to the Hook, then the batch's Rejects are
\* reported; the loop moves to the next entry.
Report == Reports(lastApplied \union Rejects, {}, pos + 1)

\* run_leader, Event, Noop and Reject arms: read back and skip.
SkipReadBack ==
    /\ phase = "leading"
    /\ pos <= Len(log)
    /\ log[pos].kind # "command"
    /\ pos' = pos + 1
    /\ UNCHANGED <<durable, phase, txn, batch, lastApplied, attempt, reported,
                   restarts>>

-----------------------------------------------------------------------------
\* A failed read, append or commit propagates out of the run loop.  The working
\* transaction is dropped; an append that preceded a failed commit stays.
Halt ==
    /\ restarts < MaxRestarts
    /\ \/ phase \in {"recovering", "appended"}
       \/ AtCommand
    /\ phase' = "halted"
    /\ txn' = {}
    /\ UNCHANGED <<durable, pos, batch, lastApplied, attempt, reported, restarts>>

\* The process goes down: a crash at any point, or Engine::stop, whose cancel is
\* seen between two iterations of the loop.  Only log and Storage survive.
GoDown ==
    /\ phase # "down"
    /\ restarts < MaxRestarts
    /\ restarts' = restarts + 1
    /\ phase' = "down"
    /\ pos' = 1
    /\ txn' = {}
    /\ batch' = <<0, 0>>
    /\ lastApplied' = {}
    /\ attempt' = 1
    /\ UNCHANGED <<durable, reported>>

Recover == RecoverEvent \/ RecoverNoop \/ RecoverSkip \/ StartTailing

Lead == Dispatch \/ RejectCommand \/ Commit \/ Report \/ SkipReadBack

Next ==
    \/ AppendCommand
    \/ Boot
    \/ Recover
    \/ Lead
    \/ RetryDispatch
    \/ Halt
    \/ GoDown

Spec == Init /\ [][Next]_vars

\* The runtime polls the spawned processor task whenever it can move; a failing
\* dispatch cannot fail forever because its attempts are counted.
FairSpec == Spec /\ WF_vars(Boot) /\ WF_vars(Recover) /\ WF_vars(Lead)

-----------------------------------------------------------------------------
Commands == Positions(log, "command")

\* Storage is the fold of exactly the Events at or below the watermark, whatever
\* crashed in between (run_leader's commit and recover_leader's Noop arm).
ProjectionIsPrefix == applied = EventsUpTo(log, watermark)

\* run_leader's debug_assert: an Event the tailing loop reads back is already
\* folded (is_already_applied: its position is at or below the watermark).
ReadBackIsApplied ==
    (phase = "leading" /\ pos <= Len(log) /\ log[pos].kind = "event")
        => pos <= watermark /\ pos \in applied

\* Whatever becomes durable stays: the log is only extended, the watermark never
\* moves back, no fold is undone.
DurableOnlyGrows ==
    [][/\ Len(log') >= Len(log)
       /\ \A p \in 1..Len(log) : log'[p] = log[p]
       /\ watermark' >= watermark
       /\ applied \subseteq applied']_durable

\* A Command the loop has passed has its batch on the log: the tail is dispatched
\* in order and nothing is left behind (run_leader, and run's resume from W + 1).
NoCommandSkipped ==
    phase \in {"leading", "appended", "committed"} =>
        \A c \in Commands : c < pos => Answered(log, c)

\* Whatever a restart loses lies at or below the watermark it resumed from: a
\* Command above it is dispatched before the loop moves on (run's resume point).
NoneSkippedAboveWatermark ==
    phase \in {"leading", "committed"} =>
        \A c \in Commands : (watermark < c /\ c < pos) => Answered(log, c)

\* No Command has an effect twice: of the batches the log holds for it, at most one has
\* Events, although a restart dispatches again a Command whose batch had none; and without
\* a restart there is one batch (run's resume point and recover_leader's Noop arm).
AnsweredAtMostOnce ==
    LET Effects(p) == \E e \in Positions(log, "event") :
                         /\ e < p /\ log[e].cause = log[p].cause
                         /\ \A q \in Positions(log, "noop") : q <= e \/ p <= q
    IN  \A c \in Commands : \A p, q \in BatchesOf(log, c) :
            p = q \/ (restarts > 0 /\ ~(Effects(p) /\ Effects(q)))

\* What the Hook is told after a Command was committed is that Command's own outcome
\* (after_commit drains last_applied; rejects come from `produced`).  After a restart it may
\* also be an Event that recovery folded, which is in Storage by then.
HookReportsOwnBatch ==
    \A r \in reported :
        \/ log[r[1]].cause = r[2]
        \/ restarts > 0 /\ r[1] \in applied

\* The longest log when a dispatch collects at most two entries: two entries per appended
\* Command, three per batch, and one batch of a Command's lost again per restart.
MaxLog == 5 * MaxCommands + 3 * MaxRestarts

\* Every Command on the log is eventually answered by a batch, unless a restart resumed
\* behind it or the driver halted on a backend failure.
EveryCommandAnswered ==
    \A c \in 1..MaxLog :
        (c \in Commands) ~>
            (\/ c \in Commands /\ Answered(log, c)
             \/ restarts > 0 /\ c <= watermark
             \/ phase = "halted")

\* Every Event and every Reject of a batch reaches the Hook once it is durable, unless the
\* process went down or the driver halted in between.
EveryOutcomeReported ==
    \A p \in 1..MaxLog :
        (p \in Positions(log, "event") \union Positions(log, "reject"))
            ~> (\/ \E r \in reported : r[1] = p
                \/ restarts > 0
                \/ phase = "halted")

Projection == INSTANCE PrefixProjection
                  WITH log <- log, watermark <- watermark, applied <- applied

\* The leader implements the abstract projection.
RefinesProjection == Projection!Spec

=============================================================================
