---------------------------- MODULE ExecutionTree ----------------------------
(***************************************************************************)
(* One execution: its tree of threads, activities and tasks, and the queue  *)
(* of undispatched Commands on the log, dispatched one at a time in log     *)
(* order.  Clients, workers and expired deadlines append at the tail at any *)
(* moment.  A dispatch reads and writes one overlay, so its Events and its  *)
(* follow-up Commands take effect together; a refusal takes no effect.      *)
(* JSON values are dropped except where they steer: which evaluation of a   *)
(* state fails, the reason a node was torn down with, whether a task has    *)
(* delivered its result.                                                   *)
(***************************************************************************)
EXTENDS Naturals, Sequences, FiniteSets, SequencesExt

CONSTANTS
    Machine,          \* state -> its definition, see StateDef
    StartAt,          \* the state the root thread starts at
    HasTimeout,       \* the machine declares TimeoutSeconds
    DebugAssertions,  \* the build evaluates debug_assert!
    Reports,          \* what workers report: "CompleteTask", "FailTask"
    MaxCancels,       \* bound: cancel requests of clients
    MaxDup            \* bound: reports of one task waiting on the log

StateNames == DOMAIN Machine

\* Error names, abstracted to where a failure came from.
Errors == {"Task", "Timeout", "Eval", "Fail", "NoTerminal", "MapItem"}
Reasons == Errors \union {"Cancelled"}

\* next: where a finish may lead ("End" ends the thread, "None" declares
\* neither); start: the branches' or the item processor's first state; bad: the
\* evaluations of this state that fail, and "duration" for a Wait that has not
\* exactly one of Seconds and Timestamp.  A definition is accepted without the
\* validation that would refuse a missing exit or duration.
StateDef ==
    [type : {"Pass", "Choice", "Succeed", "Fail", "Wait", "Task", "Parallel", "Map"},
     next : SUBSET (StateNames \union {"End", "None"}),
     start : Seq(StateNames),
     total : Nat, max : Nat,
     retries : Nat, catch : SUBSET Errors, catchNext : StateNames \union {"End"},
     timeout : BOOLEAN,
     bad : SUBSET {"input", "timeout", "output", "catch", "duration"}]

ASSUME MachineAssumption ==
    /\ \A s \in StateNames : Machine[s] \in StateDef /\ Machine[s].next # {}
    /\ StartAt \in StateNames
    /\ HasTimeout \in BOOLEAN /\ DebugAssertions \in BOOLEAN
    /\ Reports \subseteq {"CompleteTask", "FailTask"}
    /\ MaxCancels \in Nat /\ MaxDup \in Nat

VARIABLES
    tree,      \* the rows in creation order; a node is its index
    cmds,      \* the Commands on the log not dispatched yet
    armed,     \* nodes whose deadline the scheduler holds
    cancels,   \* cancel requests sent so far
    panicked   \* the processor task has panicked

vars == <<tree, cmds, armed, cancels, panicked>>

Exec == 1
Nodes == DOMAIN tree
Settled == {"Completed", "Terminated", "Failed", "Cancelled"}

Row(kind, owner, state, index) ==
    [kind |-> kind, owner |-> owner, state |-> state, index |-> index,
     status |-> IF kind = "task" THEN "Pending" ELSE "Running",
     reason |-> "none", kids |-> {}, slots |-> <<>>, raw |-> FALSE, attempts |-> 0]

Cmd(op, node) ==
    [op |-> op, node |-> node, reason |-> "none", state |-> "none", index |-> 0]
Ending(op, node, reason) == [Cmd(op, node) EXCEPT !.reason = reason]

Init ==
    /\ tree = <<>>
    /\ cmds = <<Cmd("CreateExecution", Exec), Cmd("CreateExecution", Exec)>>
    /\ armed = {}
    /\ cancels = 0
    /\ panicked = FALSE

-----------------------------------------------------------------------------
(* A dispatch in progress: the overlay, the Commands and the deadline changes *)
(* collected so far, and how it ends.                                        *)

Work == [tree |-> tree, emit |-> <<>>, arm |-> {}, disarm |-> {},
         wrote |-> FALSE, ok |-> TRUE, panic |-> FALSE]

\* Mutation of Refuse: the refusal is swallowed.
MutRefuse(w) == w

Refuse(w) == [w EXCEPT !.ok = FALSE]
Panic(w) == [w EXCEPT !.panic = TRUE]
Emit(w, c) == [w EXCEPT !.emit = Append(@, c)]
EmitAll(w, cs) == [w EXCEPT !.emit = @ \o cs]

\* An Event that stores a node's new status, and the edge it drops when the
\* node leaves its owner's children.
Put(w, n, status) == [w EXCEPT !.tree[n].status = status, !.wrote = TRUE]
\* Mutation of Drop: the edge stays.
MutDrop(w, n) == w

Drop(w, n) == [w EXCEPT !.tree[w.tree[n].owner].kids = @ \ {n}]

\* An Event that creates a node under its owner.
Create(w, row) ==
    LET n == Len(w.tree) + 1
        grown == [w EXCEPT !.tree = Append(@, row), !.wrote = TRUE]
    IN  IF row.owner = 0 THEN grown
        ELSE [grown EXCEPT !.tree[row.owner].kids = @ \union {n}]

\* The reference of the node just created.
Created(w) == Len(w.tree)

\* A transition written inside debug_assert!: a release build does not make it,
\* and the Event that follows stores the row as it was.
Marked(w, n, status) ==
    [w EXCEPT !.tree[n].status = IF DebugAssertions THEN status ELSE @, !.wrote = TRUE]

StatusOf(w, n) == w.tree[n].status
OwnerOf(w, n) == w.tree[n].owner
Def(w, a) == Machine[w.tree[a].state]

-----------------------------------------------------------------------------
(* What an owner does when a child of it settles.                            *)

ExecutionAfterChildCompleted(w) ==
    CASE StatusOf(w, Exec) = "Running" -> Emit(w, Cmd("CompleteExecution", Exec))
      [] StatusOf(w, Exec) = "Terminating" -> Emit(w, Cmd("ContinueTerminate", Exec))
      [] OTHER -> Refuse(w)

\* Mutation of ExecutionAfterChildTerminated: every end is a cancellation.
MutExecutionAfterChildTerminated(w, t) ==
    CASE StatusOf(w, Exec) = "Running" ->
            Emit(w, Ending("TerminateExecution", Exec, "Cancelled"))
      [] StatusOf(w, Exec) = "Terminating" -> Emit(w, Cmd("ContinueTerminate", Exec))
      [] OTHER -> Refuse(w)

\* Every settled thread that reaches this carries the reason it ended with.
ExecutionAfterChildTerminated(w, t) ==
    CASE StatusOf(w, Exec) = "Running" ->
            Emit(w, Ending("TerminateExecution", Exec, w.tree[t].reason))
      [] StatusOf(w, Exec) = "Terminating" -> Emit(w, Cmd("ContinueTerminate", Exec))
      [] OTHER -> Refuse(w)

\* The drain of a thread or an activity advances once more.
Advance(w, n) ==
    Emit(w, Cmd([Completing |-> "ContinueComplete",
                 Terminating |-> "ContinueTerminate"][StatusOf(w, n)], n))

ThreadAfterChildCompleted(w, t) ==
    CASE StatusOf(w, t) = "Running" -> Emit(w, Cmd("CompleteThread", t))
      [] StatusOf(w, t) \in Settled -> Refuse(w)
      [] OTHER -> Advance(w, t)

\* A running thread reacts only to a child stored as Terminated.
ThreadAfterChildTerminated(w, t, a) ==
    CASE StatusOf(w, t) = "Running" ->
            IF StatusOf(w, a) = "Terminated"
            THEN Emit(w, Ending("TerminateThread", t, w.tree[a].reason))
            ELSE w
      [] StatusOf(w, t) \in Settled -> Refuse(w)
      [] OTHER -> Advance(w, t)

\* The activity reaches its terminal Event: the row is stored, the edge to the
\* thread is dropped, the deadline is taken off the scheduler.
Close(w, a, status) ==
    [Drop(Marked(w, a, status), a) EXCEPT !.disarm = @ \union {a}]

TerminateInline(w, a, reason) ==
    LET ended == [w EXCEPT !.tree[a].reason = IF DebugAssertions THEN reason ELSE @]
    IN  ThreadAfterChildTerminated(Close(ended, a, "Terminated"), OwnerOf(w, a), a)

Spawn(a, i) == [Cmd("SpawnThread", a) EXCEPT !.index = i]
\* Mutation of Spawns: one short.
MutSpawns(a, from, n) == [k \in 1..(n - 1) |-> Spawn(a, from + k - 1)]

Spawns(a, from, n) == [k \in 1..n |-> Spawn(a, from + k - 1)]
Fail(w, a, reason) == Emit(w, Ending("TerminateState", a, reason))

\* A Parallel fails with the reason of its lowest branch that has one, and
\* converges once it owns no branch any more.
ParallelChildCompleted(w, a) ==
    LET slots == w.tree[a].slots
        ended == {i \in DOMAIN slots : w.tree[slots[i]].reason # "none"}
        first == CHOOSE i \in ended : \A j \in ended : i <= j
        open == \E i \in DOMAIN slots : StatusOf(w, slots[i]) # "Completed"
    IN  IF ended # {} THEN Fail(w, a, w.tree[slots[first]].reason)
        ELSE IF w.tree[a].kids # {} THEN w
        ELSE IF open THEN Fail(w, a, "Cancelled")
        ELSE Emit(w, Cmd("CompleteState", a))

\* Mutation of MapChildCompleted: done once nothing runs.
MutMapChildCompleted(w, a, t) ==
    IF w.tree[a].kids # {} THEN w ELSE Emit(w, Cmd("CompleteState", a))

\* A Map fails with its first failed item, completes when every item has, and
\* otherwise fills the slots it counts as free.
MapChildCompleted(w, a, t) ==
    LET slots == w.tree[a].slots
        def == Def(w, a)
        done == {i \in DOMAIN slots : StatusOf(w, slots[i]) = "Completed"}
        spawned == Cardinality(DOMAIN slots)
        inFlight == spawned - Cardinality(done)
        capacity == IF def.max = 0 THEN def.total ELSE def.max
        free == IF inFlight >= capacity THEN 0 ELSE capacity - inFlight
        left == def.total - spawned
    IN  IF t \notin {slots[i] : i \in DOMAIN slots} THEN w
        ELSE IF StatusOf(w, t) # "Completed" THEN Fail(w, a, "MapItem")
        ELSE IF Cardinality(done) = def.total THEN Emit(w, Cmd("CompleteState", a))
        ELSE EmitAll(w, Spawns(a, spawned, IF free < left THEN free ELSE left))

\* An activity whose child (a task, or a fan-out thread) settled.
ActivityAfterChildSettled(w, a, child) ==
    LET type == Def(w, a).type
    IN  IF StatusOf(w, a) \in Settled THEN w
        ELSE IF StatusOf(w, a) # "Running" THEN Advance(w, a)
        ELSE CASE type = "Task" -> Emit(w, Cmd("CompleteState", a))
               [] type = "Parallel" -> ParallelChildCompleted(w, a)
               [] type = "Map" -> MapChildCompleted(w, a, child)

ThreadSettled(w, t, status) ==
    LET owner == OwnerOf(w, t)
        settled == Drop(Put(w, t, status), t)
    IN  IF owner # Exec THEN ActivityAfterChildSettled(settled, owner, t)
        ELSE IF status = "Completed" THEN ExecutionAfterChildCompleted(settled)
        ELSE ExecutionAfterChildTerminated(settled, t)

-----------------------------------------------------------------------------
(* The steps a state's type decides.                                         *)

\* How many items a Map starts with.
FirstItems(def) ==
    IF def.max = 0 \/ def.max > def.total THEN def.total ELSE def.max

TaskAfterActivated(w, a) ==
    LET invoked == Emit(w, Cmd("ActivateTask", a))
    IN  IF "timeout" \in Def(w, a).bad THEN Fail(invoked, a, "Eval") ELSE invoked

\* A fan-out over nothing completes directly.
ParallelAfterActivated(w, a) ==
    IF Def(w, a).start = <<>> THEN Emit(w, Cmd("CompleteState", a))
    ELSE EmitAll(w, Spawns(a, 0, Len(Def(w, a).start)))
MapAfterActivated(w, a) ==
    IF Def(w, a).total = 0 THEN Emit(w, Cmd("CompleteState", a))
    ELSE EmitAll(w, Spawns(a, 0, FirstItems(Def(w, a))))

\* The resume instant of a Wait reaches the scheduler with StateActivated; without
\* exactly one of Seconds and Timestamp its resolution is declared unreachable.
WaitActivated(w, a) ==
    IF "duration" \in Def(w, a).bad THEN Panic(w) ELSE [w EXCEPT !.arm = @ \union {a}]

AfterActivated(w, a) ==
    CASE Def(w, a).type = "Task" -> TaskAfterActivated(w, a)
      [] Def(w, a).type = "Parallel" -> ParallelAfterActivated(w, a)
      [] Def(w, a).type = "Map" -> MapAfterActivated(w, a)
      [] Def(w, a).type = "Wait" -> WaitActivated(w, a)
      [] OTHER -> Emit(w, Cmd("CompleteState", a))

\* From Completing, along the outcome of the projection: the output cannot be
\* evaluated, the thread ends, or its next state is entered.  A state that
\* declares neither Next nor End takes `silent'.
Leave(w, a, next, silent) ==
    LET completed == Close(w, a, "Completed")
    IN  IF "output" \in Def(w, a).bad THEN Fail(w, a, "Eval")
        ELSE CASE next = "None" -> silent
               [] next = "End" -> Emit(completed, Cmd("CompleteThread", OwnerOf(w, a)))
               [] OTHER -> Emit(completed, [Cmd("ActivateState", OwnerOf(w, a))
                                               EXCEPT !.state = next])

PassAfterCompleting(w, a, next) == Leave(w, a, next, TerminateInline(w, a, "NoTerminal"))
WaitAfterCompleting(w, a, next) == Leave(w, a, next, TerminateInline(w, a, "NoTerminal"))
TaskAfterCompleting(w, a, next) == Leave(w, a, next, TerminateInline(w, a, "NoTerminal"))

\* No rule matched and there is no Default.
ChoiceAfterCompleting(w, a, next) == Leave(w, a, next, Fail(w, a, "Eval"))

\* A fan-out finishes only when it owns no thread any more.
ParallelAfterCompleting(w, a, next) ==
    IF w.tree[a].kids # {} THEN Refuse(w) ELSE Leave(w, a, next, Panic(w))
MapAfterCompleting(w, a, next) ==
    IF w.tree[a].kids # {} THEN Refuse(w) ELSE Leave(w, a, next, Panic(w))

FailAfterCompleting(w, a) ==
    IF "output" \in Def(w, a).bad THEN Fail(w, a, "Eval")
    ELSE TerminateInline(w, a, "Fail")
SucceedAfterCompleting(w, a) ==
    IF "output" \in Def(w, a).bad THEN Fail(w, a, "Eval")
    ELSE ThreadAfterChildCompleted(Close(w, a, "Completed"), OwnerOf(w, a))

AfterCompleting(w, a, next) ==
    CASE Def(w, a).type = "Pass" -> PassAfterCompleting(w, a, next)
      [] Def(w, a).type = "Wait" -> WaitAfterCompleting(w, a, next)
      [] Def(w, a).type = "Task" -> TaskAfterCompleting(w, a, next)
      [] Def(w, a).type = "Choice" -> ChoiceAfterCompleting(w, a, next)
      [] Def(w, a).type = "Parallel" -> ParallelAfterCompleting(w, a, next)
      [] Def(w, a).type = "Map" -> MapAfterCompleting(w, a, next)
      [] Def(w, a).type = "Fail" -> FailAfterCompleting(w, a)
      [] Def(w, a).type = "Succeed" -> SucceedAfterCompleting(w, a)

\* One cancellation per child, in the order the child set is iterated.
Sweep(w, ord) ==
    EmitAll(w, [i \in DOMAIN ord |->
        CASE w.tree[ord[i]].kind = "thread" -> Ending("TerminateThread", ord[i], "Cancelled")
          [] w.tree[ord[i]].kind = "activity" -> Ending("TerminateState", ord[i], "Cancelled")
          [] w.tree[ord[i]].kind = "task" -> Cmd("CancelTask", ord[i])])

\* A torn-down activity stores its terminal and tells its thread.
Gone(w, a) == ThreadAfterChildTerminated(Close(w, a, "Terminated"), OwnerOf(w, a), a)

\* From Terminating: a state that owns no children is gone at once, the others
\* sweep their task or their threads first.
PassAfterTerminating(w, a) == Gone(w, a)
ChoiceAfterTerminating(w, a) == Gone(w, a)
WaitAfterTerminating(w, a) == Gone(w, a)
FailAfterTerminating(w, a) == Gone(w, a)
SucceedAfterTerminating(w, a) == Gone(w, a)
TaskAfterTerminating(w, a, ord) == IF ord # <<>> THEN Sweep(w, ord) ELSE Gone(w, a)
ParallelAfterTerminating(w, a, ord) == IF ord # <<>> THEN Sweep(w, ord) ELSE Gone(w, a)
MapAfterTerminating(w, a, ord) == IF ord # <<>> THEN Sweep(w, ord) ELSE Gone(w, a)

AfterTerminating(w, a, ord) ==
    LET type == Machine[tree[a].state].type
    IN  CASE type = "Task" -> TaskAfterTerminating(w, a, ord)
          [] type = "Parallel" -> ParallelAfterTerminating(w, a, ord)
          [] type = "Map" -> MapAfterTerminating(w, a, ord)
          [] type = "Wait" -> WaitAfterTerminating(w, a)
          [] type = "Pass" -> PassAfterTerminating(w, a)
          [] type = "Choice" -> ChoiceAfterTerminating(w, a)
          [] type = "Fail" -> FailAfterTerminating(w, a)
          [] type = "Succeed" -> SucceedAfterTerminating(w, a)

\* A Task's Catch: the failure becomes a finish along the catcher's Next.
Caught(w, a, reason) ==
    Def(w, a).type = "Task" /\ reason \in Def(w, a).catch

OnFailed(w, a, ord) ==
    LET caught == [Sweep(w, ord) EXCEPT
                      !.tree[a].status = "Completed", !.tree[a].raw = TRUE,
                      !.disarm = @ \union {a}, !.wrote = TRUE]
    IN  IF "catch" \in Def(w, a).bad THEN Fail(w, a, "Eval")
        ELSE Emit(Drop(caught, a),
                  [Cmd("ActivateState", OwnerOf(w, a)) EXCEPT !.state = Def(w, a).catchNext])

-----------------------------------------------------------------------------
(* The handlers.  `c' is the Command, `ord' the iteration order of the       *)
(* target's children, `next' the outcome of a Choice.                        *)

Refused == Refuse(Work)

CreateExecution ==
    LET created == Create(Work, Row("execution", 0, "none", 0))
        rooted == Create(created, Row("thread", Exec, "none", 0))
    IN  IF Exec \in Nodes THEN Refused
        ELSE Emit([rooted EXCEPT !.arm = IF HasTimeout THEN {Exec} ELSE {}],
                  [Cmd("ActivateState", Created(rooted)) EXCEPT !.state = StartAt])

\* The transition methods of a run's and of a thread's row, which refuse to leave
\* any other status.
ExecutionMayBecome(status) ==
    tree[Exec].status = [Completing |-> "Running", Terminating |-> "Running",
                         Completed |-> "Completing", Terminated |-> "Terminating"][status]
ThreadMayTerminate(t) == tree[t].status = "Running"

\* Mutation of TerminateExecution: settled without waiting for the sweep.
MutTerminateExecution(c, ord) ==
    IF Exec \notin Nodes THEN Refused
    ELSE IF tree[Exec].status # "Running" THEN Refused
    ELSE [Put(Work, Exec, "Terminated") EXCEPT !.tree[Exec].reason = c.reason]

TerminateExecution(c, ord) ==
    LET begun == [Put(Work, Exec, "Terminating") EXCEPT !.tree[Exec].reason = c.reason]
    IN  IF Exec \notin Nodes THEN Refused
        ELSE IF ~ExecutionMayBecome("Terminating") THEN Refused
        ELSE IF ord # <<>> THEN Sweep(begun, ord)
        ELSE [Put(begun, Exec, "Terminated") EXCEPT !.disarm = {Exec}]

CompleteExecution ==
    LET begun == Put(Work, Exec, "Completing")
    IN  IF ~ExecutionMayBecome("Completing") \/ tree[Exec].kids # {} THEN Refused
        ELSE [Marked(begun, Exec, "Completed") EXCEPT !.disarm = {Exec}]

TerminateThread(c, ord) ==
    LET begun == [Put(Work, c.node, "Terminating") EXCEPT !.tree[c.node].reason = c.reason]
    IN  IF ~ThreadMayTerminate(c.node) THEN Refused
        ELSE IF ord # <<>> THEN Sweep(begun, ord)
        ELSE ThreadSettled(begun, c.node, "Terminated")

CompleteThread(c) ==
    IF tree[c.node].status # "Running" \/ tree[c.node].kids # {} THEN Refused
    ELSE ThreadSettled(Put(Work, c.node, "Completing"), c.node, "Completed")

SpawnThread(c) ==
    LET def == Machine[tree[c.node].state]
        grown == Create(Work, Row("thread", c.node, "none", c.index))
        t == Created(grown)
        first == IF def.type = "Parallel" THEN def.start[c.index + 1] ELSE def.start[1]
        slotted == [grown EXCEPT !.tree[c.node].slots =
                       [i \in DOMAIN @ \union {c.index} |-> IF i = c.index THEN t ELSE @[i]]]
    IN  IF tree[c.node].status # "Running" THEN Refused
        ELSE Emit(slotted, [Cmd("ActivateState", t) EXCEPT !.state = first])

ActivateState(c) ==
    LET grown == Create(Work, Row("activity", c.node, c.state, 0))
        a == Created(grown)
    IN  IF tree[c.node].status # "Running" THEN Refused
        ELSE IF "input" \in Machine[c.state].bad THEN Fail(grown, a, "Eval")
        ELSE AfterActivated(grown, a)

CompleteState(c, next) ==
    LET a == c.node
        begun == [Put(Work, a, "Completing") EXCEPT !.tree[a].raw = TRUE]
    IN  IF tree[a].status # "Running" \/ tree[tree[a].owner].status # "Running" THEN Refused
        ELSE AfterCompleting(begun, a, next)

\* Mutation of TerminateState: a teardown may begin twice.
MutTerminateState(c, ord) ==
    LET a == c.node
        begun == [Put(Work, a, "Terminating") EXCEPT !.tree[a].reason = c.reason]
    IN  IF tree[a].status \in Settled THEN Refused
        ELSE IF Caught(Work, a, c.reason) THEN OnFailed(Work, a, ord)
        ELSE AfterTerminating(begun, a, ord)

TerminateState(c, ord) ==
    LET a == c.node
        begun == [Put(Work, a, "Terminating") EXCEPT !.tree[a].reason = c.reason]
    IN  IF tree[a].status \notin {"Running", "Completing"} THEN Refused
        ELSE IF Caught(Work, a, c.reason) THEN OnFailed(Work, a, ord)
        ELSE AfterTerminating(begun, a, ord)

\* The next step of a drain, once more children have settled.
ExecutionContinueTerminate(n, ord) ==
    IF ord # <<>> THEN Sweep(Work, ord)
    ELSE IF ~ExecutionMayBecome("Terminated") THEN Refused
    ELSE [Put(Work, n, "Terminated") EXCEPT !.disarm = {n}]
ThreadContinueTerminate(n, ord) ==
    IF ord # <<>> THEN Sweep(Work, ord) ELSE ThreadSettled(Work, n, "Terminated")
ActivityContinueTerminate(n, ord) ==
    IF ord # <<>> THEN Sweep(Work, ord)
    ELSE IF Def(Work, n).type \in {"Task", "Wait", "Parallel", "Map"}
         THEN AfterTerminating(Work, n, ord) ELSE Panic(Work)

ContinueTerminate(c, ord) ==
    LET n == c.node
    IN  IF tree[n].status # "Terminating" THEN Refused
        ELSE CASE tree[n].kind = "execution" -> ExecutionContinueTerminate(n, ord)
               [] tree[n].kind = "thread" -> ThreadContinueTerminate(n, ord)
               [] tree[n].kind = "activity" -> ActivityContinueTerminate(n, ord)

ExecutionContinueComplete(n, ord) ==
    IF ord # <<>> THEN Panic(Work)
    ELSE IF ~ExecutionMayBecome("Completed") THEN Refused
    ELSE [Put(Work, n, "Completed") EXCEPT !.disarm = {n}]
ThreadContinueComplete(n, ord) ==
    IF ord # <<>> THEN Sweep(Work, ord) ELSE ThreadSettled(Work, n, "Completed")
ActivityContinueComplete(n, ord, next) ==
    IF ord # <<>> THEN Sweep(Work, ord)
    ELSE IF Def(Work, n).type \in {"Task", "Parallel", "Map"}
         THEN AfterCompleting(Work, n, next) ELSE Panic(Work)

ContinueComplete(c, ord, next) ==
    LET n == c.node
    IN  IF tree[n].status # "Completing" THEN Refused
        ELSE CASE tree[n].kind = "execution" -> ExecutionContinueComplete(n, ord)
               [] tree[n].kind = "thread" -> ThreadContinueComplete(n, ord)
               [] tree[n].kind = "activity" -> ActivityContinueComplete(n, ord, next)

ActivateTask(c) ==
    LET def == Machine[tree[c.node].state]
        timed == def.timeout /\ "timeout" \notin def.bad
    IN  [Create(Work, Row("task", c.node, "none", 0)) EXCEPT
            !.arm = IF timed THEN {c.node} ELSE {}]

ClaimTasks ==
    [Work EXCEPT !.wrote = TRUE,
                 !.tree = [n \in Nodes |-> IF tree[n].status = "Pending"
                                           THEN [tree[n] EXCEPT !.status = "Running"]
                                           ELSE tree[n]]]

CompleteTask(c) ==
    LET owner == tree[c.node].owner
        done == [Drop(Put(Work, c.node, "Completed"), c.node) EXCEPT !.tree[owner].raw = TRUE]
    IN  IF tree[c.node].status # "Running" THEN Refused
        ELSE ActivityAfterChildSettled(done, owner, c.node)

Requeued(w, n) == [Put(w, n, "Pending") EXCEPT !.tree[n].attempts = @ + 1]

FailTask(c) ==
    LET owner == tree[c.node].owner
        again == tree[c.node].attempts < Machine[tree[owner].state].retries
    IN  IF tree[c.node].status # "Running" THEN Refused
        ELSE IF again THEN Requeued(Work, c.node)
        ELSE Fail(Drop(Put(Work, c.node, "Failed"), c.node), owner, "Task")

\* Mutation of CancelTask: the owner is not told.
MutCancelTask(c) ==
    IF tree[c.node].status \in Settled THEN Refused
    ELSE Drop(Put(Work, c.node, "Cancelled"), c.node)

CancelTask(c) ==
    IF tree[c.node].status \in Settled THEN Refused
    ELSE ActivityAfterChildSettled(Drop(Put(Work, c.node, "Cancelled"), c.node),
                                   tree[c.node].owner, c.node)

ExecutionDeadlineFired(n) ==
    CASE tree[n].status \in Settled -> Refused
      [] tree[n].status = "Running" -> Emit(Work, Ending("TerminateExecution", n, "Timeout"))
      [] OTHER -> Advance(Work, n)

\* A Wait resumes; a Task fails unless its result has been delivered.
ActivityDeadlineFired(n) ==
    LET type == Machine[tree[n].state].type
    IN  CASE tree[n].status \in Settled -> Refused
          [] tree[n].status \in {"Completing", "Terminating"} -> Advance(Work, n)
          [] OTHER ->
                IF type = "Wait" THEN Emit(Work, Cmd("CompleteState", n))
                ELSE IF type = "Task" /\ ~tree[n].raw THEN Fail(Work, n, "Timeout")
                ELSE Refused

TriggerDeadline(c) ==
    IF tree[c.node].kind = "execution" THEN ExecutionDeadlineFired(c.node)
    ELSE ActivityDeadlineFired(c.node)

-----------------------------------------------------------------------------
(* The processor takes the next Command off the log, and the outcome of its  *)
(* dispatch takes effect at once: the overlay is committed, follow-ups join   *)
(* the tail, the hook passes the deadlines on; the scheduler may see a cancel *)
(* too late to keep the deadline from firing.  An accepted dispatch that      *)
(* produced no entry panics, and so does a failed assertion of a handler: the *)
(* Command stays on the log unanswered.                                      *)

Current == Head(cmds)

Incoming(op) == ~panicked /\ cmds # <<>> /\ Current.op = op

Orders(n) == SetToSeqs(IF n \in Nodes THEN tree[n].kids ELSE {})
Exits(n) == IF tree[n].kind = "activity" THEN Machine[tree[n].state].next ELSE {"None"}

Answer(w) ==
    LET panics == w.panic \/ (w.ok /\ ~w.wrote /\ w.emit = <<>>)
        lands == w.ok /\ ~panics
    IN  /\ panicked' = panics
        /\ tree' = IF lands THEN w.tree ELSE tree
        /\ cmds' = IF panics THEN cmds
                   ELSE IF lands THEN Tail(cmds) \o w.emit ELSE Tail(cmds)
        /\ \E late \in SUBSET (w.disarm \intersect armed) :
              armed' = IF lands THEN (armed \union w.arm) \ (w.disarm \ late) ELSE armed
        /\ UNCHANGED cancels

OnCreateExecution == Incoming("CreateExecution") /\ Answer(CreateExecution)
OnTerminateExecution ==
    /\ Incoming("TerminateExecution")
    /\ \E ord \in Orders(Exec) : Answer(TerminateExecution(Current, ord))
OnCompleteExecution == Incoming("CompleteExecution") /\ Answer(CompleteExecution)
OnTerminateThread ==
    /\ Incoming("TerminateThread")
    /\ \E ord \in Orders(Current.node) : Answer(TerminateThread(Current, ord))
OnCompleteThread == Incoming("CompleteThread") /\ Answer(CompleteThread(Current))
OnSpawnThread == Incoming("SpawnThread") /\ Answer(SpawnThread(Current))
OnActivateState == Incoming("ActivateState") /\ Answer(ActivateState(Current))
OnCompleteState ==
    /\ Incoming("CompleteState")
    /\ \E next \in Exits(Current.node) : Answer(CompleteState(Current, next))
OnTerminateState ==
    /\ Incoming("TerminateState")
    /\ \E ord \in Orders(Current.node) : Answer(TerminateState(Current, ord))
OnContinueTerminate ==
    /\ Incoming("ContinueTerminate")
    /\ \E ord \in Orders(Current.node) : Answer(ContinueTerminate(Current, ord))
OnContinueComplete ==
    /\ Incoming("ContinueComplete")
    /\ \E ord \in Orders(Current.node), next \in Exits(Current.node) :
          Answer(ContinueComplete(Current, ord, next))
OnActivateTask == Incoming("ActivateTask") /\ Answer(ActivateTask(Current))
OnClaimTasks == Incoming("ClaimTasks") /\ Answer(ClaimTasks)
OnCompleteTask == Incoming("CompleteTask") /\ Answer(CompleteTask(Current))
OnFailTask == Incoming("FailTask") /\ Answer(FailTask(Current))
OnCancelTask == Incoming("CancelTask") /\ Answer(CancelTask(Current))
OnTriggerDeadline == Incoming("TriggerDeadline") /\ Answer(TriggerDeadline(Current))

Dispatch ==
    \/ OnCreateExecution \/ OnTerminateExecution \/ OnCompleteExecution
    \/ OnTerminateThread \/ OnCompleteThread \/ OnSpawnThread
    \/ OnActivateState \/ OnCompleteState \/ OnTerminateState
    \/ OnContinueTerminate \/ OnContinueComplete
    \/ OnActivateTask \/ OnClaimTasks \/ OnCompleteTask \/ OnFailTask \/ OnCancelTask
    \/ OnTriggerDeadline

-----------------------------------------------------------------------------
(* What reaches the log from outside, at any moment.                         *)

Submit(c) == cmds' = Append(cmds, c) /\ UNCHANGED <<tree, panicked>>
Waiting(ops, n) == SelectSeq(cmds, LAMBDA c : c.op \in ops /\ c.node = n)

\* A client cancels the run.
CancelExecution ==
    /\ ~panicked /\ Exec \in Nodes /\ cancels < MaxCancels
    /\ cancels' = cancels + 1
    /\ Submit(Ending("TerminateExecution", Exec, "Cancelled"))
    /\ UNCHANGED armed

\* A worker polls; the gateway appends the claim only if it reads a task to claim.
PollTasks ==
    /\ ~panicked
    /\ \E n \in Nodes : tree[n].status = "Pending"
    /\ Waiting({"ClaimTasks"}, Exec) = <<>>
    /\ Submit(Cmd("ClaimTasks", Exec))
    /\ UNCHANGED <<armed, cancels>>

\* A worker reports on a task it leases, possibly more than once.
ReportTask ==
    /\ ~panicked
    /\ \E n \in Nodes, op \in Reports :
          /\ tree[n].kind = "task" /\ tree[n].status = "Running"
          /\ Len(Waiting({"CompleteTask", "FailTask"}, n)) < MaxDup
          /\ Submit(Cmd(op, n))
    /\ UNCHANGED <<armed, cancels>>

\* The scheduler fires a deadline it holds, once.
FireDeadline ==
    /\ ~panicked
    /\ \E n \in armed :
          /\ armed' = armed \ {n}
          /\ Submit(Cmd("TriggerDeadline", n))
    /\ UNCHANGED cancels

Next == Dispatch \/ CancelExecution \/ PollTasks \/ ReportTask \/ FireDeadline

Spec == Init /\ [][Next]_vars

\* The processor loop keeps dispatching what is on the log.
FairSpec == Spec /\ WF_vars(Dispatch)

\* Workers keep polling and reporting, and the clock passes deadlines.
Served == WF_vars(PollTasks) /\ WF_vars(ReportTask) /\ WF_vars(FireDeadline)

-----------------------------------------------------------------------------
(* A client's reading of the run: the server mirrors the row onto the wire,    *)
(* the client collapses the mirror.                                          *)

NoReason == [failed |-> "", cancelled |-> FALSE]

ProtoTerminationReason(reason) ==
    [failed |-> IF reason \in Errors THEN reason ELSE "",
     cancelled |-> reason = "Cancelled"]

ToProtoExecution(row) ==
    [status |-> row.status,
     reason |-> IF row.status \in {"Terminating", "Terminated"}
                THEN ProtoTerminationReason(row.reason) ELSE NoReason]

InterpretExecution(e) ==
    [state |-> IF e.status \in {"Completed", "Terminated"} THEN e.status ELSE "Active",
     errorName |-> e.reason.failed]

GetExecution(rows) == InterpretExecution(ToProtoExecution(rows[Exec]))

-----------------------------------------------------------------------------
(* Properties.                                                               *)

Status(n) == tree[n].status
Owned(n) == {m \in Nodes : tree[m].owner = n}
RunIs(statuses) == Exec \in Nodes /\ Status(Exec) \in statuses
ReadAs(states) == Exec \in Nodes /\ GetExecution(tree).state \in states

\* A dispatch panics only at a definition that validation on submission, still to
\* be written, would refuse: on entering a Wait without its one duration, or on
\* leaving a Parallel or a Map that declares neither Next nor End.  No handler
\* meets another assertion it breaks, and every accepted Command leaves an entry
\* (leader.rs asserts that the batch is not empty).
PanicsOnlyUnvalidated ==
    panicked =>
        \/ /\ Current.op = "ActivateState"
           /\ Machine[Current.state].type = "Wait" /\ "duration" \in Machine[Current.state].bad
        \/ /\ Current.op \in {"CompleteState", "ContinueComplete"}
           /\ tree[Current.node].kind = "activity" /\ tree[Current.node].kids = {}
           /\ Machine[tree[Current.node].state].type \in {"Parallel", "Map"}
           /\ "None" \in Machine[tree[Current.node].state].next

\* The child set the sweeps and the drains go by is exactly the set of nodes the
\* owner created that have not settled: no live node is missed by a teardown and
\* no settled one holds a drain open.
EdgesAreLiveNodes ==
    \A n \in Nodes : tree[n].kids = {m \in Owned(n) : Status(m) \notin Settled}

\* A run a client reads as settled leaves nothing running below it, and one it
\* reads as completed did not lose a thread on the way.
RunSettlesWhole ==
    /\ ReadAs({"Completed", "Terminated"}) => \A n \in Nodes : Status(n) \in Settled
    /\ ReadAs({"Completed"}) =>
          \A n \in Nodes : tree[n].kind = "thread" => Status(n) = "Completed"

\* A completed Parallel or Map has a completed thread in the slot of every branch
\* or item and leaves none running, also where refills raced and an item was
\* spawned twice.  A Parallel, and a Map with MaxConcurrency 1 or none, ran each
\* exactly once; one with MaxConcurrency 1 never has two items in flight.
FanOutIsWhole ==
    \A a \in Nodes : tree[a].kind = "activity" =>
        LET def == Machine[tree[a].state]
            width == IF def.type = "Parallel" THEN Len(def.start) ELSE def.total
            slots == tree[a].slots
        IN  /\ def.type \in {"Parallel", "Map"} /\ Status(a) = "Completed" =>
                  /\ DOMAIN slots = 0..(width - 1)
                  /\ \A i \in DOMAIN slots : tree[slots[i]].index = i
                  /\ \A t \in Owned(a) : Status(t) = "Completed"
                  /\ def.max < 2 => Cardinality(Owned(a)) = width
            /\ def.type = "Map" /\ def.max = 1 => Cardinality(tree[a].kids) <= 1

\* A run ends as Cancelled only if a client asked: the cancellations a failure
\* sweeps its siblings with never become the reason the run reports, so a
\* terminated run read without an error name was cancelled by a client.
CancelledOnlyByClient ==
    /\ RunIs({"Terminating"}) /\ tree[Exec].reason = "Cancelled" => cancels > 0
    /\ ReadAs({"Terminated"}) /\ GetExecution(tree).errorName = "" => cancels > 0

\* A verdict is final: a settled node never changes, one being torn down can
\* only finish, and the reason it was given first is the one it keeps; a client
\* that has read the run as settled reads the same for ever.
VerdictIsFinal ==
    [][/\ \A n \in Nodes :
             /\ Status(n) \in Settled => tree'[n].status = Status(n)
             /\ Status(n) = "Terminating" => tree'[n].status \in {"Terminating", "Terminated"}
             /\ tree[n].reason # "none" => tree'[n].reason = tree[n].reason
       /\ ReadAs({"Completed", "Terminated"}) => GetExecution(tree') = GetExecution(tree)]_vars

\* A worker failed a task for good while the activity that owns it was being torn
\* down: the TerminateState that follows is refused and nothing resumes the drain.
FailedUnderTeardown ==
    \E n \in Nodes : /\ tree[n].kind = "task" /\ Status(n) = "Failed"
                     /\ Status(tree[n].owner) = "Terminating"

\* A failed Task was caught while its thread was being torn down: the state its
\* Catch names is refused, so the caught activity is the thread's last one, and
\* nothing resumes the drain.
CaughtUnderTeardown ==
    \E a \in Nodes : /\ tree[a].kind = "activity" /\ Status(a) = "Completed"
                     /\ \E n \in Owned(a) : tree[n].kind = "task" /\ Status(n) # "Completed"
                     /\ Status(tree[a].owner) = "Terminating"
                     /\ \A b \in Owned(tree[a].owner) : b <= a

\* No task fails for good in the middle of a teardown, where the code loses the
\* step that would resume the drain.
TimelyFailures == [](~FailedUnderTeardown /\ ~CaughtUnderTeardown)

\* A teardown that has begun finishes, whatever clients, deadlines and workers do
\* (completing, failing or staying silent), unless a task fails for good in the
\* middle of it or an unvalidated state stops the processor.
TeardownFinishes ==
    TimelyFailures => (RunIs({"Terminating"}) ~> (RunIs({"Terminated"}) \/ panicked))

\* A run served by workers, failing or not, and by the clock settles, with the
\* same two exceptions.
RunSettles == Served /\ TimelyFailures => <>(RunIs(Settled) \/ panicked)

=============================================================================
