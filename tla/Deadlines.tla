------------------------------ MODULE Deadlines ------------------------------
(***************************************************************************)
(* A deadline from the row that records it to the Command that acts on it:  *)
(* the engine commits a row with a deadline and tells the gateway's hook,   *)
(* the hook arms the scheduler through its inbox, the scheduler's loop finds *)
(* the deadline due and calls the sink, the sink appends a TriggerDeadline,  *)
(* and its handler acts on the row if it still can.  Everything but the rows *)
(* and the log is in memory and gone after a restart; of what recovery folds, *)
(* the leader keeps the last Event and tells it to the hook behind the first *)
(* Command it refuses.                                                     *)
(*                                                                         *)
(* An owner is a run, a Wait state or a Task state.  How its thread gets to  *)
(* it and how a finish drains its children is ExecutionTree's subject; which *)
(* Commands a restart skips or dispatches again is StreamProcessor's: here a *)
(* restart may skip any number of those that wait.                          *)
(***************************************************************************)
EXTENDS Integers, Sequences, FiniteSets

CONSTANTS
    Owners,          \* the elements that may own a deadline
    Settings,        \* what their definitions may ask for: [field, n]
    MaxWaitSeconds,  \* MAX_WAIT_SECONDS, scaled to the clock
    MaxTime,         \* bound: the clock
    MaxQueued,       \* bound: Commands waiting when somebody submits one
    MaxRestarts      \* bound: process restarts

ASSUME DeadlinesAssumption ==
    /\ MaxWaitSeconds \in Nat
    /\ MaxTime \in Nat
    /\ MaxQueued \in Nat
    /\ MaxRestarts \in Nat

VARIABLES
    row,       \* [Owners -> [status, kind, deadline, settled]]: the durable rows
    queue,     \* Commands on the log, not yet dispatched
    report,    \* Events committed and not yet told to the hook
    last,      \* <<the last Event on the log>>, <<>> if the hook would not act on it
    recovered, \* Leader::last_applied as recovery left it
    inbox,     \* messages to the scheduler's loop
    armed,     \* the loop's armed deadlines: owner -> instant
    loop,      \* "drain", "due", "fire" or "wait"
    due,       \* the targets of the current round still to trigger
    slot,      \* the sink's engine slot is filled
    fires,     \* [Owners -> Seq([at, life])]: when, and after how many restarts, each
               \* owner's fires were appended
    lost,      \* owners whose fire the log refused in this life of the process
    now, restarts

engineVars == <<row, queue, report, last, recovered>>
schedulerVars == <<inbox, armed, loop, due>>
history == <<fires, lost>>
vars == <<engineVars, schedulerVars, slot, history, now, restarts>>

NoDeadline == -1
Invalid == -2

Kinds == {"execution", "wait", "task"}

Init ==
    /\ row = [o \in Owners |-> [status |-> "none", kind |-> "none",
                             deadline |-> NoDeadline, settled |-> FALSE]]
    /\ queue = <<>>
    /\ report = <<>> /\ last = <<>> /\ recovered = <<>>
    /\ inbox = <<>>
    /\ armed = <<>>
    /\ loop = "drain"
    /\ due = {}
    /\ slot = FALSE
    /\ fires = [o \in Owners |-> <<>>] /\ lost = {}
    /\ now = 0
    /\ restarts = 0

Cmd(op, o) == [op |-> op, owner |-> o]

-----------------------------------------------------------------------------
(* What a definition's setting resolves to at the time of the dispatch.     *)

\* resolve_wait_deadline: Seconds in range counts from now, a Timestamp is absolute.
ResolveWaitDeadline(s) ==
    CASE s.field = "Seconds" /\ s.n \in 0..MaxWaitSeconds -> now + s.n
      [] s.field = "Timestamp" /\ s.n >= 0 -> s.n
      [] OTHER -> Invalid

\* resolve_task_deadline: a TimeoutSeconds must be positive, none is no deadline.
ResolveTaskDeadline(s) ==
    CASE s.field = "none" -> NoDeadline
      [] s.field = "Seconds" /\ s.n > 0 -> now + s.n
      [] OTHER -> Invalid

\* ExecutionElementBehavior::create: a TimeoutSeconds that is not positive is none.
ResolveExecutionDeadline(s) ==
    IF s.field = "Seconds" /\ s.n > 0 THEN now + s.n ELSE NoDeadline

Resolved(kind, s) ==
    CASE kind = "wait" -> ResolveWaitDeadline(s)
      [] kind = "task" -> ResolveTaskDeadline(s)
      [] kind = "execution" -> ResolveExecutionDeadline(s)

-----------------------------------------------------------------------------
(* The engine: one Command at a time, committed, then told.                *)

\* The clients, the run itself and the workers put Commands on the log.
Submit ==
    /\ slot
    /\ Len(queue) < MaxQueued
    /\ \E o \in Owners, op \in {"birth", "finish", "settle"} :
          /\ op = "birth"  => row[o].status = "none"
          /\ op = "finish" => row[o].status = "running" /\ row[o].kind # "wait"
          /\ op = "settle" => row[o].status = "running" /\ row[o].kind = "task"
          /\ \A i \in 1..Len(queue) : queue[i] # Cmd(op, o)
          /\ queue' = Append(queue, Cmd(op, o))
    /\ UNCHANGED <<row, report, last, recovered, schedulerVars, slot, history, now, restarts>>

Dispatching(op) ==
    /\ report = <<>>
    /\ queue # <<>>
    /\ Head(queue).op = op
    /\ UNCHANGED <<schedulerVars, slot, history, now, restarts>>

\* The handler answered: its Events, of which `final` is the last on the log, replace
\* whatever the leader still had to tell.
Answered(events, final) ==
    /\ report' = events
    /\ last' = final
    /\ recovered' = <<>>

\* The handler refused: what recovery left is told behind the refusal.
Refused ==
    /\ report' = recovered
    /\ recovered' = <<>>
    /\ UNCHANGED <<row, last>>
    /\ queue' = Tail(queue)

\* CreateExecution, ActivateState of a Wait, ActivateTask: the row records its
\* deadline.  A setting that does not resolve fails the element.  A run's birth is
\* followed by its first thread's.  Bound: deadlines the clock gets to.
Birth ==
    /\ Dispatching("birth")
    /\ LET o == Head(queue).owner
           born == <<[event |-> "born", owner |-> o]>>
       IN  IF row[o].status # "none" THEN Refused
           ELSE /\ \E kind \in Kinds, s \in Settings :
                     LET at == Resolved(kind, s)
                     IN  /\ at <= MaxTime
                         /\ IF at = Invalid
                            THEN /\ row' = [row EXCEPT ![o].status = "done"]
                                 /\ Answered(<<>>, <<>>)
                            ELSE /\ row' = [row EXCEPT ![o].status = "running", ![o].kind = kind,
                                                       ![o].deadline = at]
                                 /\ Answered(born, IF kind = "execution" THEN <<>> ELSE born)
                /\ queue' = Tail(queue)

\* CompleteTask: the attempt's result lands on the activity.
Settle ==
    /\ Dispatching("settle")
    /\ LET o == Head(queue).owner
       IN  IF row[o].status # "running" \/ row[o].settled THEN Refused
           ELSE /\ row' = [row EXCEPT ![o].settled = TRUE]
                /\ queue' = Append(Tail(queue), Cmd("finish", o))
                /\ Answered(<<>>, <<>>)

\* CompleteState, TerminateState, TerminateExecution: the finish begins.
Finish ==
    /\ Dispatching("finish")
    /\ LET o == Head(queue).owner
       IN  IF row[o].status # "running" THEN Refused
           ELSE /\ row' = [row EXCEPT ![o].status = "finishing"]
                /\ queue' = Append(Tail(queue), Cmd("continue", o))
                /\ Answered(<<>>, <<>>)

\* ContinueComplete, ContinueTerminate: the element reaches its terminal, a state
\* perhaps followed by the transition out of it.
Continue ==
    /\ Dispatching("continue")
    /\ LET o == Head(queue).owner
           ended == <<[event |-> "ended", owner |-> o]>>
       IN  IF row[o].status # "finishing" THEN Refused
           ELSE /\ row' = [row EXCEPT ![o].status = "done"]
                /\ \E final \in {ended} \union (IF row[o].kind = "execution" THEN {} ELSE {<<>>}) :
                     Answered(ended, final)
                /\ queue' = Tail(queue)

\* ExecutionElementBehavior::on_deadline_fired: a running run is terminated, one
\* already finishing only moves on, a terminal one refuses the fire.
ExecutionDeadlineFired(o) ==
    CASE row[o].status = "running"   -> <<Cmd("finish", o)>>
      [] row[o].status = "finishing" -> <<Cmd("continue", o)>>
      [] OTHER -> <<>>

\* ActivityElementBehavior::on_deadline_fired: a Wait resumes; a Task fails unless
\* its result has landed.
ActivityDeadlineFired(o) ==
    CASE row[o].status = "running" /\ ~row[o].settled -> <<Cmd("finish", o)>>
      [] row[o].status = "finishing" -> <<Cmd("continue", o)>>
      [] OTHER -> <<>>

\* fire_deadline: the answer is a Command, no Event.
Trigger ==
    /\ Dispatching("trigger")
    /\ LET o == Head(queue).owner
           follow == IF row[o].kind = "execution" THEN ExecutionDeadlineFired(o)
                     ELSE ActivityDeadlineFired(o)
       IN  IF follow = <<>> THEN Refused
           ELSE queue' = Tail(queue) \o follow /\ Answered(<<>>, last) /\ UNCHANGED row

\* CompositeHook::on_event_applied: a birth with a deadline arms it, a terminal
\* cancels it whether or not one is armed.
Arms(e) ==
    CASE e.event = "ended" -> <<[msg |-> "cancel", owner |-> e.owner, at |-> 0]>>
      [] row[e.owner].deadline = NoDeadline -> <<>>
      [] OTHER -> <<[msg |-> "schedule", owner |-> e.owner, at |-> row[e.owner].deadline]>>

\* Leader::after_commit.
AfterCommit ==
    /\ report # <<>>
    /\ inbox' = inbox \o Arms(Head(report))
    /\ report' = Tail(report)
    /\ UNCHANGED <<row, queue, last, recovered, armed, loop, due, slot, history, now, restarts>>

Engine == Birth \/ Settle \/ Finish \/ Continue \/ Trigger \/ AfterCommit

-----------------------------------------------------------------------------
(* The scheduler's loop.                                                    *)

\* apply: a re-arm replaces, a cancel removes.
Applied(m, a) ==
    LET others == DOMAIN a \ {m.owner}
    IN  IF m.msg = "cancel" THEN [o \in others |-> a[o]]
        ELSE [o \in others \union {m.owner} |-> IF o = m.owner THEN m.at ELSE a[o]]

\* try_recv until the inbox is empty.
Drain ==
    /\ loop = "drain"
    /\ IF inbox = <<>>
       THEN /\ loop' = "due"
            /\ UNCHANGED <<inbox, armed>>
       ELSE /\ armed' = Applied(Head(inbox), armed)
            /\ inbox' = Tail(inbox)
            /\ UNCHANGED loop
    /\ UNCHANGED <<engineVars, due, slot, history, now, restarts>>

\* The targets the clock says are due, collected before any of them is triggered.
CollectDue ==
    /\ loop = "due"
    /\ due' = {o \in DOMAIN armed : armed[o] <= now}
    /\ loop' = IF due' = {} THEN "wait" ELSE "fire"
    /\ UNCHANGED <<engineVars, inbox, armed, slot, history, now, restarts>>

\* Mutation of SinkTrigger: the slot is read when the sink is attached, before it is filled.
MutSinkTrigger(o) == UNCHANGED <<queue, history>>

\* EngineDeadlineSink appends the fire, or drops it while the engine slot is empty; an
\* append the log refuses is ignored.
SinkTrigger(o) ==
    \/ /\ slot
       /\ queue' = Append(queue, Cmd("trigger", o))
       /\ fires' = [fires EXCEPT ![o] = Append(@, [at |-> now, life |-> restarts])]
       /\ UNCHANGED lost
    \/ /\ slot
       /\ lost' = lost \union {o}
       /\ UNCHANGED <<queue, fires>>
    \/ /\ ~slot
       /\ UNCHANGED <<queue, history>>

\* Mutation of Fire: a fired deadline stays armed.
MutFire ==
    /\ loop = "fire"
    /\ \E o \in due :
          /\ due' = due \ {o}
          /\ SinkTrigger(o)
    /\ loop' = IF due' = {} THEN "wait" ELSE "fire"
    /\ UNCHANGED <<row, report, last, recovered, inbox, armed, slot, now, restarts>>

\* One target is taken out of the armed set and triggered.
Fire ==
    /\ loop = "fire"
    /\ \E o \in due :
          /\ due' = due \ {o}
          /\ armed' = [p \in DOMAIN armed \ {o} |-> armed[p]]
          /\ SinkTrigger(o)
    /\ loop' = IF due' = {} THEN "wait" ELSE "fire"
    /\ UNCHANGED <<row, report, last, recovered, inbox, slot, now, restarts>>

\* select: a message is taken and applied, or the earliest deadline's remaining time
\* has been slept out.
Wait ==
    /\ loop = "wait"
    /\ \/ /\ inbox # <<>>
          /\ armed' = Applied(Head(inbox), armed)
          /\ inbox' = Tail(inbox)
       \/ /\ \E o \in DOMAIN armed : armed[o] <= now
          /\ UNCHANGED <<armed, inbox>>
    /\ loop' = "drain"
    /\ UNCHANGED <<engineVars, due, slot, history, now, restarts>>

Scheduler == Drain \/ CollectDue \/ Fire \/ Wait

-----------------------------------------------------------------------------
Tick ==
    /\ now < MaxTime
    /\ now' = now + 1
    /\ UNCHANGED <<engineVars, schedulerVars, slot, history, restarts>>

\* main: the engine is started, and its loop with it, before the slot is filled.
FillSlot ==
    /\ ~slot
    /\ slot' = TRUE
    /\ UNCHANGED <<engineVars, schedulerVars, history, now, restarts>>

\* The process ends and is started again.  The store comes back as it was, or without
\* commits that a crash or a power loss took: then recovery folds the rows again from the
\* log and keeps the last Event.  Commands below the watermark are skipped.
Restart ==
    /\ restarts < MaxRestarts
    /\ restarts' = restarts + 1
    /\ report' = <<>>
    /\ recovered' \in {<<>>, last}
    /\ \E skipped \in 0..Len(queue) : queue' = SubSeq(queue, skipped + 1, Len(queue))
    /\ inbox' = <<>>
    /\ armed' = <<>>
    /\ loop' = "drain"
    /\ due' = {}
    /\ slot' = FALSE
    /\ lost' = {}
    /\ UNCHANGED <<row, last, fires, now>>

Next == Submit \/ Engine \/ Scheduler \/ Tick \/ FillSlot \/ Restart

\* The engine's task and the scheduler's are polled by the runtime, time passes, and
\* main goes on to fill the slot.  Nobody has to submit anything.
Spec ==
    /\ Init /\ [][Next]_vars
    /\ WF_vars(Engine) /\ WF_vars(Scheduler) /\ WF_vars(Tick) /\ WF_vars(FillSlot)

-----------------------------------------------------------------------------
\* In one life of the process a deadline's fire is put on the log at most once, whatever
\* the order of arming, cancelling and expiry, although a birth that recovery folded is
\* told again; and no life fires it before the instant its row records
\* (InMemoryScheduler's loop, Leader::after_commit).
FiresOnceWhenDue ==
    \A o \in Owners :
        /\ \A i, j \in DOMAIN fires[o] : fires[o][i].life = fires[o][j].life => i = j
        /\ \A i \in DOMAIN fires[o] : row[o].deadline \in 0..fires[o][i].at

\* The scheduler knows o's deadline, or is about to.
Known(o) ==
    \/ o \in DOMAIN armed
    \/ \E i \in 1..Len(inbox) : inbox[i].msg = "schedule" /\ inbox[i].owner = o
    \/ report # <<>> /\ Head(report) = [event |-> "born", owner |-> o]
           /\ row[o].deadline # NoDeadline

\* A deadline that reached the scheduler of a wired process acts: its element does
\* not stay running, unless the process goes down first or the log refuses the fire
\* (EngineDeadlineSink, InMemoryScheduler's loop).
DeadlineActs ==
    \A o \in Owners :
        (row[o].status = "running" /\ slot /\ Known(o))
            ~> (row[o].status # "running" \/ ~slot \/ o \in lost)
=============================================================================
