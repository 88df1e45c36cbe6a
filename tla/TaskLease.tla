------------------------------ MODULE TaskLease ------------------------------
(***************************************************************************)
(* The life of one task: claimed by polling workers under a lease, settled  *)
(* or failed by their reports, re-queued behind a backoff gate, cancelled   *)
(* by the teardown of its state.  The engine applies one report at a time;  *)
(* a report may arrive at any moment after the claim it answers, more than  *)
(* once or never, and it names the worker, not the claim.  A failure that   *)
(* names no worker needs no lease.  A refused report changes nothing.        *)
(***************************************************************************)
EXTENDS Integers, Sequences, FiniteSets

CONSTANTS
    Workers,      \* worker ids
    NoWorker,     \* worker_id is None
    EmptyId,      \* the empty worker id
    Errors,       \* error names a worker reports
    Plan,         \* retry_plan: sequence of [errors, max, interval, rate, cap]
    Width,        \* 2^32: retry counts are u32
    LeaseTime,    \* lease_seconds of every claim
    LastInstant,  \* the last instant a Timestamp represents
    MaxTime,      \* bound: the last instant the clock reaches
    MaxGrants     \* bound: claims granted

\* cap = 0: no MaxDelaySeconds (the code treats both alike).
RetryPolicy ==
    [errors : SUBSET Errors, max : Int, interval : Nat, rate : Nat, cap : Nat]

Retriers == 1..Len(Plan)

ASSUME LeaseAssumption ==
    /\ NoWorker \notin Workers
    /\ LeaseTime \in Nat /\ MaxTime \in Nat /\ MaxGrants \in Nat /\ LastInstant \in Nat
    /\ Width \in Nat \ {0}
    /\ Plan \in Seq(RetryPolicy)

VARIABLES
    status,     \* TaskStatus
    holder,     \* worker_id
    lease,      \* lease_expires_at, 0 for None
    gate,       \* next_available_at, 0 for None
    tries,      \* retrier_attempts
    attempts,   \* retry_state.attempts
    now,        \* the engine's clock
    grants,     \* history: the claims granted, in order
    answered,   \* history: the claims whose own run had a report accepted
    released    \* history: the claims a report ended, whoever sent it

row == <<status, holder, lease, gate, tries, attempts>>
vars == <<status, holder, lease, gate, tries, attempts, now, grants, answered, released>>

Terminal == {"Completed", "Failed", "Cancelled"}
Grant == [worker : Workers, at : Nat, until : Nat]

Init ==
    /\ status = "Pending" /\ holder = NoWorker
    /\ lease = 0 /\ gate = 0
    /\ tries = [i \in Retriers |-> 0] /\ attempts = 0
    /\ now = 1 /\ grants = <<>> /\ answered = {} /\ released = {}

\* The clock moves on.
Tick ==
    /\ now < MaxTime
    /\ now' = now + 1
    /\ UNCHANGED <<row, grants, answered, released>>

\* Mutation of IsClaimable: the lease is not looked at.
MutIsClaimable ==
    \/ status = "Pending" /\ ~(gate # 0 /\ now < gate)
    \/ status = "Running"

\* Mutation of IsClaimable: a lapsed lease is never taken over.
MutIsClaimableOnce == status = "Pending" /\ ~(gate # 0 /\ now < gate)

IsClaimable ==
    \/ status = "Pending" /\ ~(gate # 0 /\ now < gate)
    \/ status = "Running" /\ lease # 0 /\ lease <= now

\* Mutation of Claimed: a task taken over keeps the lapsed lease.
MutClaimed(w) ==
    /\ status' = "Running"
    /\ holder' = w
    /\ lease' = IF status = "Running" THEN lease ELSE now + LeaseTime
    /\ gate' = 0
    /\ grants' = Append(grants, [worker |-> w, at |-> now, until |-> now + LeaseTime])
    /\ UNCHANGED <<tries, attempts, now, answered, released>>

Claimed(w) ==
    /\ status' = "Running"
    /\ holder' = w
    /\ lease' = now + LeaseTime
    /\ gate' = 0
    /\ grants' = Append(grants, [worker |-> w, at |-> now, until |-> now + LeaseTime])
    /\ UNCHANGED <<tries, attempts, now, answered, released>>

\* ClaimTasks finds this task claimable and leases it; a lease past the last instant is
\* refused.
ClaimTasks(w) ==
    /\ Len(grants) < MaxGrants
    /\ now + LeaseTime <= LastInstant
    /\ IsClaimable
    /\ Claimed(w)

\* Mutation of LeasedTo: any worker may report.
MutLeasedTo(w) == status = "Running"

\* The lease guard of a report: it names the worker, not the claim.
LeasedTo(w) == status = "Running" /\ holder = w

\* The empty id never settles a task.
MayComplete(w) == w # EmptyId /\ LeasedTo(w)

\* It is taken for the engine's own, though, when it reports a failure: no lease is asked for.
MayFail(w) == status \notin Terminal /\ (w # EmptyId => LeasedTo(w))

\* The claim that holds the task, if any, is over.
Released == released \union (IF status = "Running" THEN {Len(grants)} ELSE {})

\* The run that claim g started reports its result.  The Event carries the row
\* with its lease cleared, but the fold takes over the status only.
CompleteTask(g) ==
    /\ MayComplete(grants[g].worker)
    /\ status' = "Completed"
    /\ answered' = answered \union {g}
    /\ released' = Released
    /\ UNCHANGED <<holder, lease, gate, tries, attempts, now, grants>>

\* The first retrier whose ErrorEquals matches, if any.
Matched(e) ==
    {i \in Retriers : e \in Plan[i].errors /\ \A j \in 1..(i - 1) : e \notin Plan[j].errors}

\* max_attempts.max(0) as u32
Budget(i) == (IF Plan[i].max < 0 THEN 0 ELSE Plan[i].max) % Width

\* Mutation of HasBudget: one retry too many.
MutHasBudget(i) == tries[i] <= Budget(i)

HasBudget(i) == tries[i] < Budget(i)

\* interval * rate^n, capped, at least 1.
Backoff(i, n) ==
    LET raw == Plan[i].interval * Plan[i].rate ^ n
        capped == IF Plan[i].cap > 0 /\ raw > Plan[i].cap THEN Plan[i].cap ELSE raw
    IN  IF capped < 1 THEN 1 ELSE capped

\* A gate past the last instant is no gate: the task is claimable at once.
GateAfter(delay) == now + (IF delay \in 1..(LastInstant - now) THEN delay ELSE 0)

Requeue(i) ==
    /\ status' = "Pending"
    /\ gate' = GateAfter(Backoff(i, tries[i]))
    /\ tries' = [tries EXCEPT ![i] = @ + 1]
    /\ attempts' = attempts + 1

FailForGood ==
    /\ status' = "Failed"
    /\ gate' = 0
    /\ UNCHANGED <<tries, attempts>>

\* A failure e is reported under the id w.
Failed(w, e) ==
    /\ MayFail(w)
    /\ holder' = NoWorker /\ lease' = 0
    /\ \/ \E i \in Matched(e) : HasBudget(i) /\ Requeue(i)
       \/ (\A i \in Matched(e) : ~HasBudget(i)) /\ FailForGood
    /\ released' = Released
    /\ UNCHANGED <<now, grants>>

\* The run that claim g started reports error e.
FailTask(g, e) == Failed(grants[g].worker, e) /\ answered' = answered \union {g}

\* A caller of the FailTask RPC reports error e and names no worker.
FailUnnamed(e) == Failed(EmptyId, e) /\ UNCHANGED answered

\* The sweep of the owning state; the lease is left as it stands.
CancelTask ==
    /\ status \notin Terminal
    /\ status' = "Cancelled"
    /\ UNCHANGED <<holder, lease, gate, tries, attempts, now, grants, answered, released>>

Claim == \E w \in Workers : ClaimTasks(w)
Complete == \E g \in DOMAIN grants : CompleteTask(g)
Fail == \E g \in DOMAIN grants, e \in Errors : FailTask(g, e)
FailAny == \E e \in Errors : FailUnnamed(e)

Next == Tick \/ Claim \/ Complete \/ Fail \/ FailAny \/ CancelTask

Spec == Init /\ [][Next]_vars

-----------------------------------------------------------------------------
\* The fields of the task's row and the history have their types: the attempt
\* counters in particular never go below zero.
TypeOK ==
    /\ status \in {"Pending", "Running"} \union Terminal
    /\ holder \in Workers \union {NoWorker}
    /\ lease \in Nat /\ gate \in Nat
    /\ tries \in [Retriers -> Nat] /\ attempts \in Nat
    /\ now \in Nat
    /\ grants \in Seq(Grant)
    /\ answered \subseteq DOMAIN grants /\ released \subseteq DOMAIN grants

\* A running task is leased to the worker it was granted to last, until the instant that
\* worker was told: no claim, report or cancel leaves a lease of an earlier claim behind.
\* A task back in the queue, or failed, is leased to nobody.  (Of a completed row nothing
\* is said: it keeps its worker and lease, although mark_completed releases both.)
LeaseIsLastGrant ==
    /\ status = "Running" =>
          /\ grants # <<>>
          /\ holder = grants[Len(grants)].worker
          /\ lease = grants[Len(grants)].until
    /\ status \in {"Pending", "Failed"} => holder = NoWorker /\ lease = 0

\* Every retrier stays within its own MaxAttempts.
RetriesWithinBudget ==
    \A i \in Retriers : tries[i] <= IF Plan[i].max < 0 THEN 0 ELSE Plan[i].max

\* Of two claims of the task, the later one was granted only after the earlier one's lease
\* had lapsed or a report had ended it (is_claimable_at): at no instant is more than one
\* lease of the task in force, whichever ids the workers use.
LeasesDoNotOverlap ==
    \A i, j \in DOMAIN grants :
        i < j => grants[i].until <= grants[j].at \/ i \in released

\* Only the run of the current claim moves the task: the report of an earlier
\* run is refused.
StaleReportIsRefused ==
    [][answered' # answered => answered' = answered \union {Len(grants)}]_vars

\* A report is taken only from the worker the task was granted to last, or from one without
\* an id: the late report of an earlier run is taken when, and only when, its worker holds
\* the task again under the same id.
StaleReportNeedsReuse ==
    [][\A g \in answered' \ answered :
          grants[g].worker \in {EmptyId, grants[Len(grants)].worker}]_vars
=============================================================================
