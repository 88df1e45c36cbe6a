------------------------------ MODULE Gateway ------------------------------
(***************************************************************************)
(* The server in front of the engine: callers whose requests register with *)
(* the AckHook, pass the engine's optimistic checks, append a Command and   *)
(* wait; and the processor that dispatches, commits and reports outcomes to *)
(* the hook, which wakes the caller whose request the outcome echoes.       *)
(*                                                                         *)
(* A request id is a fresh ULID, minted by the gateway or, for a completion *)
(* report, by the worker: it is the caller's name.  Dispatch and the append *)
(* of its batch are one step here; StreamProcessor has the detail.          *)
(* There is no clock: a lease lapses at any moment.  TaskLease has the time. *)
(***************************************************************************)
EXTENDS Integers, Sequences, FiniteSets, SequencesExt

CONSTANTS
    Callers,      \* each makes one call
    Inputs,       \* the calls they may make: a set of functions on Callers
    Flows, Executions, Tasks, Workers,
    EmptyId,      \* the worker id of a report that names no worker
    MaxLapses,    \* bound: leases of one task that lapse
    CanHalt,      \* whether the processor's task may end with an error
    CanMisread    \* whether a handler's read of the name it creates may fail

Result(as) == [as |-> as, tasks |-> {}]
Nothing == Result("none")
NoBatch == [of |-> "none", entries |-> <<>>, committed |-> FALSE]

VARIABLES
    call,         \* what each caller asks for
    pc,           \* how far the call got
    pending,      \* AckHook::pending, the awaited outcome per request
    mail,         \* what was sent on the one-shot channel of each request
    log,          \* Commands not read by the processor yet
    batch,        \* the batch in hand: appended, then committed, then reported
    store,        \* the projection
    up            \* the processor's task is alive

vars == <<call, pc, pending, mail, log, batch, store, up>>

CallType ==
    [op : {"CreateFlow"}, name : Flows, parses : BOOLEAN]
      \union [op : {"StartExecution"}, name : Executions, flow : Flows, byName : BOOLEAN]
      \union [op : {"PollTasks"}, worker : Workers, max : Nat]
      \union [op : {"CompleteTask", "FailTask"}, task : Tasks, worker : Workers]

ASSUME CallsAssumption ==
    /\ Inputs \subseteq [Callers -> CallType]
    /\ {CanHalt, CanMisread} \subseteq BOOLEAN
    /\ MaxLapses \in Nat

\* What the Command of an op waits for.
Target(op) ==
    [CreateFlow |-> "FlowVersionCreated", StartExecution |-> "ExecutionCreated",
     PollTasks |-> "Grant", CompleteTask |-> "TaskCompleted"][op]

Init ==
    /\ call \in Inputs
    /\ pc = [c \in Callers |-> "idle"]
    /\ pending = <<>>
    /\ mail = [c \in Callers |-> Nothing]
    /\ log = <<>>
    /\ batch = NoBatch
    /\ store = [flows |-> {}, versions |-> {}, executions |-> {},
                tasks |-> [t \in Tasks |->
                             [status |-> "Pending", worker |-> "none", lapsed |-> FALSE,
                              attempts |-> 0, lapses |-> 0]]]
    /\ up = TRUE

-----------------------------------------------------------------------------
(* A caller's steps.                                                         *)

Return(c) == pc' = [pc EXCEPT ![c] = "done"]

Register(c, op) ==
    pending' = [r \in DOMAIN pending \union {c} |-> IF r = c THEN Target(op) ELSE pending[r]]

\* Pending, or running under a lease that has lapsed.  The backoff gate is TaskLease's.
Claimable(s) ==
    {t \in Tasks : \/ s.tasks[t].status = "Pending"
                   \/ s.tasks[t].status = "Running" /\ s.tasks[t].lapsed}

\* A call that is awaited registers before anything else.
Open(c, i) == pc' = [pc EXCEPT ![c] = "registered"] /\ Register(c, i.op)

CallCreateFlow(c, i) == i.op = "CreateFlow" /\ Open(c, i)

\* Whether a start names a version: a reference is taken as it is, a flow's name
\* has to resolve in the projection.
Resolved(i) == i.byName => i.flow \in store.versions

CallStartExecution(c, i) ==
    /\ i.op = "StartExecution"
    /\ IF Resolved(i) THEN Open(c, i) ELSE Return(c) /\ UNCHANGED pending

\* A poll that reads nothing to claim returns at once.
CallPollTasks(c, i) ==
    /\ i.op = "PollTasks"
    /\ IF i.max > 0 /\ Claimable(store) # {} THEN Open(c, i)
       ELSE Return(c) /\ UNCHANGED pending

CallCompleteTask(c, i) == i.op = "CompleteTask" /\ Open(c, i)

\* A failure report is not awaited.
CallFailTask(c, i) ==
    /\ i.op = "FailTask"
    /\ pc' = [pc EXCEPT ![c] = "checked"]
    /\ UNCHANGED pending

Begin(c) ==
    /\ pc[c] = "idle"
    /\ LET i == call[c]
       IN  \/ CallCreateFlow(c, i) \/ CallStartExecution(c, i) \/ CallPollTasks(c, i)
           \/ CallCompleteTask(c, i) \/ CallFailTask(c, i)
    /\ UNCHANGED <<call, mail, log, batch, store, up>>

\* What Engine::create_flow and create_execution refuse before they append.
FlowFailsFast(i) == i.op = "CreateFlow" /\ (~i.parses \/ i.name \in store.flows)
ExecutionFailsFast(i) == i.op = "StartExecution" /\ i.name \in store.executions

Check(c) ==
    /\ pc[c] = "registered"
    /\ IF FlowFailsFast(call[c]) \/ ExecutionFailsFast(call[c]) THEN Return(c)
       ELSE pc' = [pc EXCEPT ![c] = "checked"]
    /\ UNCHANGED <<call, pending, mail, log, batch, store, up>>

\* A caller that is not awaited returns as soon as its Command is on the log.
AppendCommand(c) ==
    /\ pc[c] = "checked"
    /\ log' = Append(log, c)
    /\ IF call[c].op = "FailTask" THEN Return(c)
       ELSE pc' = [pc EXCEPT ![c] = "waiting"]
    /\ UNCHANGED <<call, pending, mail, batch, store, up>>

\* The log refuses the append.
AppendFails(c) ==
    /\ pc[c] = "checked"
    /\ Return(c)
    /\ UNCHANGED <<call, pending, mail, log, batch, store, up>>

Receive(c) ==
    /\ pc[c] = "waiting" /\ mail[c] # Nothing
    /\ Return(c)
    /\ UNCHANGED <<call, pending, mail, log, batch, store, up>>

\* The client goes away and the server drops the call at an await.
Abandon(c) ==
    /\ pc[c] \in {"registered", "checked", "waiting"}
    /\ Return(c)
    /\ UNCHANGED <<call, pending, mail, log, batch, store, up>>

-----------------------------------------------------------------------------
(* What the handlers decide.  An entry names the request it echoes.          *)

Event(kind, c) == [kind |-> kind, request |-> c, tasks |-> {}]
Reject(c) == <<Event("Reject", c)>>

\* `if let Ok(Some(_))`: what a create finds under a name it is about to give.  A read
\* that fails counts as having found nothing.
Found(names) == {names} \union IF CanMisread THEN {{}} ELSE {}

\* Mutation of CreateFlow: the boundary's check is trusted.
MutCreateFlow(c, i, flows) ==
    <<Event("FlowCreated", c), Event("FlowVersionCreated", c)>>

CreateFlow(c, i, flows) ==
    IF ~i.parses \/ i.name \in flows THEN Reject(c)
    ELSE <<Event("FlowCreated", c), Event("FlowVersionCreated", c)>>

\* The run's root thread and first state are ExecutionTree's.
CreateExecution(c, i, executions) ==
    IF i.name \in executions \/ i.flow \notin store.versions THEN Reject(c)
    ELSE <<Event("ExecutionCreated", c)>>

LeasedTo(i) ==
    store.tasks[i.task].status = "Running" /\ store.tasks[i.task].worker = i.worker

\* The empty worker id never completes a task, and fails any that is not settled.
MayComplete(i) == i.worker # EmptyId /\ LeasedTo(i)
MayFail(i) ==
    IF i.worker = EmptyId THEN store.tasks[i.task].status \in {"Pending", "Running"}
    ELSE LeasedTo(i)

CompleteTask(c, i) ==
    IF MayComplete(i) THEN <<Event("TaskCompleted", c)>> ELSE Reject(c)

\* A failure is retried or final, as the retry budget says.  Its request id is nil.
FailTask(i) ==
    IF MayFail(i) THEN {<<Event("TaskFailed", "nil")>>, <<Event("TaskRetried", "nil")>>}
    ELSE {Reject("nil")}

\* Mutation of ClaimTasks: running tasks are granted again.
MutClaimTasks(c, i) ==
    {<<[Event("TasksClaimed", c) EXCEPT !.tasks = ts]>> :
        ts \in {x \in SUBSET Tasks : Cardinality(x) = 1}}

\* Up to max claimable tasks, whichever the store returns first.
ClaimTasks(c, i) ==
    LET free == Claimable(store)
        n == IF Cardinality(free) < i.max THEN Cardinality(free) ELSE i.max
    IN  {<<[Event("TasksClaimed", c) EXCEPT !.tasks = ts]>> :
            ts \in {x \in SUBSET free : Cardinality(x) = n}}

Decisions(c) ==
    LET i == call[c]
    IN  CASE i.op = "CreateFlow" -> {CreateFlow(c, i, fs) : fs \in Found(store.flows)}
          [] i.op = "StartExecution" -> {CreateExecution(c, i, xs) : xs \in Found(store.executions)}
          [] i.op = "PollTasks" -> ClaimTasks(c, i)
          [] i.op = "CompleteTask" -> {CompleteTask(c, i)}
          [] i.op = "FailTask" -> FailTask(i)

\* A dispatch that fails on every attempt, and a claim whose lease overflows the
\* clock, is refused with the id Command::request_id has for it.
OutOfAttempts(c) == Reject(IF call[c].op = "FailTask" THEN "nil" ELSE c)

Dispatch ==
    /\ up /\ batch = NoBatch /\ log # <<>>
    /\ \E entries \in Decisions(Head(log)) \union {OutOfAttempts(Head(log))} :
          batch' = [of |-> Head(log), entries |-> entries, committed |-> FALSE]
    /\ log' = Tail(log)
    /\ UNCHANGED <<call, pc, pending, mail, store, up>>

-----------------------------------------------------------------------------
(* The appliers, the commit, and the reports to the hook.                    *)

VersionCreated(s, i) == [s EXCEPT !.versions = @ \union {i.name}, !.flows = @ \union {i.name}]

\* A claim folds only into a task that is still claimable.
Claimed(s, ts, w) ==
    [s EXCEPT !.tasks = [t \in Tasks |->
        IF t \in ts \intersect Claimable(s)
        THEN [s.tasks[t] EXCEPT !.status = "Running", !.worker = w, !.lapsed = FALSE] ELSE s.tasks[t]]]

Failed(s, t, status) ==
    [s EXCEPT !.tasks[t].status = status, !.tasks[t].worker = "none", !.tasks[t].lapsed = FALSE]

Retried(s, t) == [Failed(s, t, "Pending") EXCEPT !.tasks[t].attempts = @ + 1]

Applied(s, e, i) ==
    CASE e.kind = "FlowCreated" -> [s EXCEPT !.flows = @ \union {i.name}]
      [] e.kind = "FlowVersionCreated" -> VersionCreated(s, i)
      [] e.kind = "ExecutionCreated" -> [s EXCEPT !.executions = @ \union {i.name}]
      [] e.kind = "TasksClaimed" -> Claimed(s, e.tasks, i.worker)
      [] e.kind = "TaskCompleted" -> [s EXCEPT !.tasks[i.task].status = "Completed"]
      [] e.kind = "TaskFailed" -> Failed(s, i.task, "Failed")
      [] e.kind = "TaskRetried" -> Retried(s, i.task)
      [] e.kind = "Reject" -> s

Commit ==
    /\ up /\ batch # NoBatch /\ ~batch.committed
    /\ store' = FoldLeft(LAMBDA s, e : Applied(s, e, call[batch.of]), store, batch.entries)
    /\ batch' = [batch EXCEPT !.committed = TRUE]
    /\ UNCHANGED <<call, pc, pending, mail, log, up>>

\* The target an entry answers; a Reject answers whichever is awaited.
Resolves(e) ==
    CASE e.kind = "TasksClaimed" -> "Grant"
      [] e.kind \in {"FlowVersionCreated", "ExecutionCreated", "TaskCompleted"} -> e.kind
      [] OTHER -> "None"

Outcome(e) ==
    CASE e.kind = "Reject" -> Result("rejected")
      [] e.kind = "TasksClaimed" -> [as |-> "granted", tasks |-> e.tasks]
      [] OTHER -> Result("applied")

\* Mutation of Wake: a refusal wakes nobody.
MutWake(e) ==
    IF Resolves(e) = "None" \/ e.request \notin DOMAIN pending
    THEN UNCHANGED <<pending, mail>>
    ELSE /\ pending' = [q \in DOMAIN pending \ {e.request} |-> pending[q]]
         /\ mail' = [mail EXCEPT ![e.request] = Outcome(e)]

\* AckHook::on_event_applied and on_command_rejected: the entry is taken out of
\* the registry first, and a sender that does not match is dropped.
Wake(e) ==
    LET r == e.request
    IN  IF (Resolves(e) = "None" /\ e.kind # "Reject") \/ r \notin DOMAIN pending
        THEN UNCHANGED <<pending, mail>>
        ELSE /\ pending' = [q \in DOMAIN pending \ {r} |-> pending[q]]
             /\ mail' = [mail EXCEPT ![r] =
                           IF e.kind = "Reject" \/ Resolves(e) = pending[r]
                           THEN Outcome(e) ELSE Result("dropped")]

\* Mutation of Report: told as soon as the batch is on the log.
MutReport ==
    /\ up /\ batch.entries # <<>>
    /\ Wake(Head(batch.entries))
    /\ batch' = IF Len(batch.entries) = 1 THEN NoBatch
                ELSE [batch EXCEPT !.entries = Tail(@)]
    /\ UNCHANGED <<call, pc, log, store, up>>

\* One entry at a time: Events by after_commit, Rejects after them.
Report ==
    /\ up /\ batch.committed
    /\ Wake(Head(batch.entries))
    /\ batch' = IF Len(batch.entries) = 1 THEN NoBatch
                ELSE [batch EXCEPT !.entries = Tail(@)]
    /\ UNCHANGED <<call, pc, log, store, up>>

\* The append of a batch or its commit fails and the task ends; the server and
\* its registry live on.
Halt ==
    /\ CanHalt /\ up
    /\ up' = FALSE
    /\ UNCHANGED <<call, pc, pending, mail, log, batch, store>>

\* Time passes the lease of a running task.
Lapse(t) ==
    /\ store.tasks[t].status = "Running" /\ ~store.tasks[t].lapsed
    /\ store.tasks[t].lapses < MaxLapses
    /\ store' = [store EXCEPT !.tasks[t].lapsed = TRUE, !.tasks[t].lapses = @ + 1]
    /\ UNCHANGED <<call, pc, pending, mail, log, batch, up>>

-----------------------------------------------------------------------------
Advance(c) == Check(c) \/ AppendCommand(c) \/ AppendFails(c) \/ Receive(c)

Process == Dispatch \/ Commit \/ Report

Next ==
    \/ Process
    \/ Halt
    \/ \E t \in Tasks : Lapse(t)
    \/ \E c \in Callers : Begin(c) \/ Advance(c) \/ Abandon(c)

Spec == Init /\ [][Next]_vars

\* The processor's task and the tasks that serve the callers are polled.
FairSpec == Spec /\ WF_vars(Process) /\ \A c \in Callers : WF_vars(Advance(c))
-----------------------------------------------------------------------------
\* A caller that waits has its outcome in its channel, or is registered while its Command is
\* still on the log or its batch has an entry left to report that answers it: registering
\* before the append leaves no way to miss the outcome.  Nor does it see its channel closed
\* without one: of a CreateFlow's two events, which share a request, the one that is not
\* awaited does not take the caller out of the registry (gateway.rs AckRegistry, AckHook).
NoAckMissed ==
    \A c \in Callers :
        /\ mail[c].as # "dropped"
        /\ pc[c] = "waiting" /\ mail[c] = Nothing =>
              /\ c \in DOMAIN pending
              /\ \/ c \in Range(log)
                 \/ \E e \in Range(batch.entries) :
                       e.request = c /\ (e.kind = "Reject" \/ Resolves(e) = pending[c])

\* Of the calls that create one flow, or one execution, at most one is told that
\* it did, although several may have passed the boundary's check together.
OneCreator ==
    \A c, d \in Callers :
        /\ c # d /\ call[c].op = call[d].op
        /\ call[c].op \in {"CreateFlow", "StartExecution"} /\ call[c].name = call[d].name
        => ~(mail[c].as = "applied" /\ mail[d].as = "applied")

\* A caller is told of success only once the projection shows what it asked for,
\* so its next request, or anybody's, can build on it.
AnswerIsVisible ==
    \A c \in Callers : mail[c].as = "applied" =>
        LET i == call[c]
        IN  CASE i.op = "CreateFlow" -> i.name \in store.flows \intersect store.versions
              [] i.op = "StartExecution" -> i.name \in store.executions
              [] i.op = "CompleteTask" -> store.tasks[i.task].status = "Completed"
              [] OTHER -> FALSE

\* A task is handed out once, and once more for each failure that was retried and each
\* lease that lapsed, although several polls may have read it as claimable: the race of
\* elements/task.rs claim ("can hand a task to two workers") does not happen, since
\* every claim is decided on what the one before it committed.
GrantsAreAccountedFor ==
    \A t \in Tasks :
        Cardinality({c \in Callers : t \in mail[c].tasks})
            <= 1 + store.tasks[t].attempts + store.tasks[t].lapses

\* While the processor lives every call returns.
EveryCallReturns ==
    []up => \A c \in Callers : pc[c] # "idle" ~> pc[c] = "done"
=============================================================================
