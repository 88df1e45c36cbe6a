--------------------------- MODULE TaskLease_proofs ---------------------------
(***************************************************************************)
(* The lease invariants for every plan, set of workers and lease time.      *)
(***************************************************************************)
EXTENDS TaskLease, TLAPS

\* No claim was granted in the future.
GrantsArePast == \A i \in DOMAIN grants : grants[i].at <= now

\* A task is back in the queue only because a report ended its last claim.
RequeuedWasReleased ==
    status = "Pending" /\ grants # <<>> => Len(grants) \in released

IInv == TypeOK /\ LeaseIsLastGrant /\ RetriesWithinBudget

\* What keeps two leases apart.
ApartInv == GrantsArePast /\ RequeuedWasReleased /\ LeasesDoNotOverlap

\* The cast of a non-negative MaxAttempts to u32 never enlarges it.
LEMMA ModBound ==
    ASSUME NEW m \in Nat, NEW w \in Nat \ {0}
    PROVE  m % w \in Nat /\ m % w <= m
<1>1. m % w \in 0..(w - 1)
  OBVIOUS
<1>2. CASE m < w
  <2>1. m % w = m
    BY <1>2
  <2> QED BY <2>1
<1>3. CASE m >= w
  BY <1>1, <1>3
<1> QED BY <1>2, <1>3

\* A retrier's budget is a natural number, at most its MaxAttempts.
LEMMA BudgetBound ==
    ASSUME NEW i \in Retriers
    PROVE  /\ Budget(i) \in Nat
           /\ Plan[i].max \in Int
           /\ Budget(i) <= IF Plan[i].max < 0 THEN 0 ELSE Plan[i].max
<1>1. Plan[i].max \in Int
  <2>1. Plan[i] \in RetryPolicy
    BY LeaseAssumption DEF Retriers
  <2> QED BY <2>1 DEF RetryPolicy
<1>2. (IF Plan[i].max < 0 THEN 0 ELSE Plan[i].max) \in Nat
  BY <1>1
<1> DEFINE m == IF Plan[i].max < 0 THEN 0 ELSE Plan[i].max
<1>3. m % Width \in Nat /\ m % Width <= m
  <2> HIDE DEF m
  <2>1. m \in Nat
    BY <1>2 DEF m
  <2> QED BY <2>1, ModBound, LeaseAssumption
<1> QED BY <1>1, <1>3 DEF Budget

\* Appending a claim keeps the earlier ones where they were.
LEMMA GrantsAppend ==
    ASSUME NEW s \in Seq(Grant), NEW g \in Grant
    PROVE  /\ Append(s, g) \in Seq(Grant)
           /\ Len(s) \in Nat
           /\ Len(Append(s, g)) = Len(s) + 1
           /\ DOMAIN s = 1..Len(s)
           /\ DOMAIN Append(s, g) = 1..(Len(s) + 1)
           /\ Append(s, g) # <<>>
           /\ Append(s, g)[Len(s) + 1] = g
           /\ \A i \in 1..Len(s) : Append(s, g)[i] = s[i]
  OBVIOUS


-----------------------------------------------------------------------------

LEMMA InitIInv == Init => IInv
<1> SUFFICES ASSUME Init PROVE IInv
  OBVIOUS
<1>1. TypeOK
  BY DEF Init, TypeOK
<1>2. LeaseIsLastGrant
  BY DEF Init, LeaseIsLastGrant
<1>3. RetriesWithinBudget
  BY BudgetBound DEF Init, RetriesWithinBudget
<1> QED BY <1>1, <1>2, <1>3 DEF IInv

\* A claim appends the grant it makes the lease from.
LEMMA ClaimStep ==
    ASSUME IInv, NEW w \in Workers, ClaimTasks(w)
    PROVE  IInv'
<1> DEFINE g == [worker |-> w, at |-> now, until |-> now + LeaseTime]
<1>1. g \in Grant /\ now + LeaseTime \in Nat
  BY LeaseAssumption DEF IInv, TypeOK, Grant
<1>2. grants' = Append(grants, g) /\ grants \in Seq(Grant)
  BY DEF ClaimTasks, Claimed, IInv, TypeOK
<1>g. g.worker = w /\ g.until = now + LeaseTime
  OBVIOUS
<1> HIDE DEF g
<1>3. /\ grants' \in Seq(Grant)
      /\ Len(grants') = Len(grants) + 1
      /\ grants' # <<>>
      /\ grants'[Len(grants')] = g
      /\ DOMAIN grants \subseteq DOMAIN grants'
  BY <1>1, <1>2, GrantsAppend
<1>4. TypeOK'
  BY <1>1, <1>3 DEF ClaimTasks, Claimed, IInv, TypeOK
<1>5. LeaseIsLastGrant'
  BY <1>3, <1>g DEF ClaimTasks, Claimed, LeaseIsLastGrant
<1>6. RetriesWithinBudget'
  BY DEF ClaimTasks, Claimed, IInv, RetriesWithinBudget
<1> QED BY <1>4, <1>5, <1>6 DEF IInv

\* The claim a report ends is one that was made.
LEMMA ReleasedType ==
    ASSUME IInv
    PROVE  Released \subseteq DOMAIN grants
<1>1. status = "Running" => Len(grants) \in DOMAIN grants
  BY DEF IInv, TypeOK, LeaseIsLastGrant
<1> QED BY <1>1 DEF Released, IInv, TypeOK

LEMMA CompleteStep ==
    ASSUME IInv, NEW g \in DOMAIN grants, CompleteTask(g)
    PROVE  IInv'
<1>1. TypeOK'
  BY ReleasedType DEF CompleteTask, IInv, TypeOK, Terminal
<1>2. LeaseIsLastGrant'
  BY DEF CompleteTask, LeaseIsLastGrant
<1>3. RetriesWithinBudget'
  BY DEF CompleteTask, IInv, RetriesWithinBudget
<1> QED BY <1>1, <1>2, <1>3 DEF IInv

\* The backoff gate is an instant.
LEMMA GateType ==
    ASSUME IInv, NEW d
    PROVE  GateAfter(d) \in Nat
  BY LeaseAssumption DEF GateAfter, IInv, TypeOK

\* A failure spends one attempt of the matching retrier, which has it left.
LEMMA FailedStep ==
    ASSUME IInv, NEW w, NEW e \in Errors, Failed(w, e), answered' \subseteq DOMAIN grants
    PROVE  IInv'
<1>1. LeaseIsLastGrant'
  BY DEF Failed, Requeue, FailForGood, LeaseIsLastGrant
<1>r. released' \subseteq DOMAIN grants
  BY ReleasedType DEF Failed
<1>2. CASE \E i \in Matched(e) : HasBudget(i) /\ Requeue(i)
  <2>1. PICK i \in Retriers : HasBudget(i) /\ Requeue(i)
    BY <1>2 DEF Matched
  <2>2. gate' \in Nat
    BY <2>1, GateType DEF Requeue
  <2>3. tries' \in [Retriers -> Nat] /\ attempts' \in Nat
    BY <2>1 DEF Requeue, IInv, TypeOK
  <2>4. TypeOK'
    BY <2>1, <2>2, <2>3, <1>r DEF Failed, Requeue, IInv, TypeOK
  <2>5. RetriesWithinBudget'
    <3> SUFFICES ASSUME NEW j \in Retriers
                 PROVE  tries'[j] <= IF Plan[j].max < 0 THEN 0 ELSE Plan[j].max
      BY DEF RetriesWithinBudget
    <3>1. CASE j = i
      <4>1. tries'[i] = tries[i] + 1 /\ tries[i] \in Nat /\ tries[i] < Budget(i)
        BY <2>1 DEF Requeue, HasBudget, IInv, TypeOK
      <4> QED BY <4>1, <3>1, BudgetBound
    <3>2. CASE j # i
      <4>1. tries'[j] = tries[j]
        BY <2>1, <3>2 DEF Requeue, IInv, TypeOK
      <4> QED BY <4>1 DEF IInv, RetriesWithinBudget
    <3> QED BY <3>1, <3>2
  <2> QED BY <1>1, <2>4, <2>5 DEF IInv
<1>3. CASE FailForGood
  <2>1. TypeOK'
    BY <1>3, <1>r DEF Failed, FailForGood, IInv, TypeOK, Terminal
  <2>2. RetriesWithinBudget'
    BY <1>3 DEF FailForGood, IInv, RetriesWithinBudget
  <2> QED BY <1>1, <2>1, <2>2 DEF IInv
<1> QED BY <1>2, <1>3 DEF Failed

LEMMA NextIInv == IInv /\ [Next]_vars => IInv'
<1> SUFFICES ASSUME IInv, [Next]_vars PROVE IInv'
  OBVIOUS
<1>1. CASE Tick
  BY <1>1 DEF Tick, row, IInv, TypeOK, LeaseIsLastGrant, RetriesWithinBudget
<1>2. CASE Claim
  BY <1>2, ClaimStep DEF Claim
<1>3. CASE Complete
  BY <1>3, CompleteStep DEF Complete
<1>4. CASE Fail
  BY <1>4, FailedStep DEF Fail, FailTask, IInv, TypeOK
<1>7. CASE FailAny
  BY <1>7, FailedStep DEF FailAny, FailUnnamed, IInv, TypeOK
<1>5. CASE CancelTask
  BY <1>5 DEF CancelTask, IInv, TypeOK, Terminal, LeaseIsLastGrant, RetriesWithinBudget
<1>6. CASE UNCHANGED vars
  BY <1>6 DEF vars, IInv, TypeOK, LeaseIsLastGrant, RetriesWithinBudget
<1> QED BY <1>1, <1>2, <1>3, <1>4, <1>5, <1>6, <1>7 DEF Next

\* The inductive invariant holds of every behaviour of the task.
THEOREM Inductive == Spec => []IInv
  BY InitIInv, NextIInv, PTL DEF Spec

\* A running task bears the worker and the lease of its last grant, a queued or failed one
\* bears none (Task::claim, handle_failure).
THEOREM LeaseCorrect == Spec => []LeaseIsLastGrant
<1>1. IInv => LeaseIsLastGrant
  BY DEF IInv
<1> QED BY <1>1, Inductive, PTL

\* No retrier is used more than MaxAttempts times (has_budget_after).
THEOREM BudgetCorrect == Spec => []RetriesWithinBudget
<1>1. IInv => RetriesWithinBudget
  BY DEF IInv
<1> QED BY <1>1, Inductive, PTL

\* Every variable keeps its type.
THEOREM TypeCorrect == Spec => []TypeOK
<1>1. IInv => TypeOK
  BY DEF IInv
<1> QED BY <1>1, Inductive, PTL

-----------------------------------------------------------------------------

LEMMA InitApart == Init => ApartInv
  BY DEF Init, ApartInv, GrantsArePast, RequeuedWasReleased, LeasesDoNotOverlap

\* A claim is granted when every earlier lease has lapsed or was ended by a report.
LEMMA ClaimApart ==
    ASSUME IInv, ApartInv, NEW w \in Workers, ClaimTasks(w)
    PROVE  ApartInv'
<1> DEFINE g == [worker |-> w, at |-> now, until |-> now + LeaseTime]
           n == Len(grants)
<1>1. g \in Grant /\ now \in Nat
  BY LeaseAssumption DEF IInv, TypeOK, Grant
<1>2. grants' = Append(grants, g) /\ grants \in Seq(Grant) /\ now' = now
      /\ released' = released
  BY DEF ClaimTasks, Claimed, IInv, TypeOK
<1>g. g.worker = w /\ g.at = now
  OBVIOUS
<1> HIDE DEF g
<1>3. /\ n \in Nat
      /\ DOMAIN grants = 1..n
      /\ DOMAIN grants' = 1..(n + 1)
      /\ grants'[n + 1] = g
      /\ \A i \in 1..n : grants'[i] = grants[i] /\ grants[i] \in Grant
  BY <1>1, <1>2, GrantsAppend
<1> HIDE DEF n
<1>5. GrantsArePast'
  <2> SUFFICES ASSUME NEW i \in 1..(n + 1) PROVE grants'[i].at <= now
    BY <1>2, <1>3 DEF GrantsArePast
  <2>1. \A k \in 1..n : grants[k].at <= now
    BY <1>3 DEF ApartInv, GrantsArePast
  <2> QED BY <1>1, <1>3, <1>g, <2>1
<1>6. RequeuedWasReleased'
  BY DEF RequeuedWasReleased, ClaimTasks, Claimed
<1>7. \A i \in 1..n : grants[i].until <= now \/ i \in released
  <2> SUFFICES ASSUME NEW i \in 1..n PROVE grants[i].until <= now \/ i \in released
    OBVIOUS
  <2>1. n \in 1..n /\ grants # <<>>
    BY <1>2, <1>3 DEF n
  <2>2. grants[n].at <= now /\ grants[n].at \in Nat /\ grants[i].until \in Nat
    BY <1>3, <2>1 DEF ApartInv, GrantsArePast, Grant
  <2>3. CASE i < n
    BY <1>1, <1>3, <2>1, <2>2, <2>3 DEF ApartInv, LeasesDoNotOverlap
  <2>4. CASE i = n /\ status = "Pending"
    BY <2>1, <2>4 DEF ApartInv, RequeuedWasReleased, n
  <2>5. CASE i = n /\ status = "Running"
    <3>1. lease <= now /\ lease = grants[n].until
      BY <2>5 DEF ClaimTasks, IsClaimable, IInv, LeaseIsLastGrant, n
    <3> QED BY <3>1, <2>5
  <2>6. status \in {"Pending", "Running"}
    BY DEF ClaimTasks, IsClaimable
  <2> QED BY <1>3, <2>3, <2>4, <2>5, <2>6
<1>8. LeasesDoNotOverlap'
  <2> SUFFICES ASSUME NEW i \in 1..(n + 1), NEW j \in 1..(n + 1), i < j
               PROVE  grants'[i].until <= grants'[j].at \/ i \in released
    BY <1>2, <1>3 DEF LeasesDoNotOverlap
  <2>1. i \in 1..n
    BY <1>3
  <2>2. CASE j = n + 1
    BY <1>3, <1>7, <1>g, <2>1, <2>2
  <2>3. CASE j \in 1..n
    BY <1>3, <2>1, <2>3 DEF ApartInv, LeasesDoNotOverlap
  <2> QED BY <1>3, <2>2, <2>3
<1> QED BY <1>5, <1>6, <1>8 DEF ApartInv

\* An accepted report ends the claim that holds the task.
LEMMA ReportApart ==
    ASSUME IInv, ApartInv, released' = Released, UNCHANGED <<now, grants>>,
           status \in {"Pending", "Running"}
    PROVE  ApartInv'
<1>1. released \subseteq released'
  BY DEF Released
<1>2. RequeuedWasReleased'
  <2>1. CASE status = "Running"
    BY <2>1 DEF RequeuedWasReleased, Released
  <2>2. CASE status = "Pending"
    BY <1>1, <2>2 DEF RequeuedWasReleased, ApartInv
  <2> QED BY <2>1, <2>2
<1>3. GrantsArePast' /\ LeasesDoNotOverlap'
  BY <1>1 DEF ApartInv, GrantsArePast, LeasesDoNotOverlap
<1> QED BY <1>2, <1>3 DEF ApartInv

LEMMA NextApart ==
    ASSUME IInv, ApartInv, [Next]_vars
    PROVE  ApartInv'
<1> USE DEF ApartInv, GrantsArePast, RequeuedWasReleased, LeasesDoNotOverlap
<1>1. CASE Tick
  <2>1. now' = now + 1 /\ now \in Nat /\ UNCHANGED <<status, grants, released>>
    BY <1>1 DEF Tick, row, IInv, TypeOK
  <2>2. \A i \in DOMAIN grants : grants[i].at \in Nat
    <3>1. \A i \in DOMAIN grants : grants[i] \in Grant
      BY DEF IInv, TypeOK
    <3> QED BY <3>1 DEF Grant
  <2>3. GrantsArePast'
    BY <2>1, <2>2
  <2>4. (RequeuedWasReleased /\ LeasesDoNotOverlap)'
    BY <2>1
  <2> QED BY <2>3, <2>4
<1>2. CASE Claim
  BY <1>2, ClaimApart DEF Claim
<1>3. CASE Complete
  BY <1>3, ReportApart DEF Complete, CompleteTask, MayComplete, LeasedTo
<1>4. CASE Fail \/ FailAny
  <2>1. status \in {"Pending", "Running"} /\ released' = Released /\ UNCHANGED <<now, grants>>
    BY <1>4 DEF Fail, FailTask, FailAny, FailUnnamed, Failed, MayFail, IInv, TypeOK
  <2> QED BY <2>1, ReportApart
<1>5. CASE CancelTask
  BY <1>5 DEF CancelTask
<1>6. CASE UNCHANGED vars
  BY <1>6 DEF vars
<1> QED BY <1>1, <1>2, <1>3, <1>4, <1>5, <1>6 DEF Next

\* At no instant is more than one lease of the task in force, however workers name
\* themselves and whoever reports a failure (is_claimable_at, handle_failure).
THEOREM NoOverlap == Spec => []LeasesDoNotOverlap
<1>1. Init => IInv /\ ApartInv
  BY InitIInv, InitApart
<1>2. (IInv /\ ApartInv) /\ [Next]_vars => (IInv /\ ApartInv)'
  BY NextIInv, NextApart
<1>3. IInv /\ ApartInv => LeasesDoNotOverlap
  BY DEF ApartInv
<1> QED BY <1>1, <1>2, <1>3, PTL DEF Spec

\* A report is taken only from the worker the task was granted to last, or from one that
\* names none (mark_completed, handle_failure).
THEOREM ReuseNeeded == Spec => StaleReportNeedsReuse
<1> DEFINE Known == \A g \in answered' \ answered :
                       grants[g].worker \in {EmptyId, grants[Len(grants)].worker}
<1>1. IInv /\ [Next]_vars => [Known]_vars
  <2> SUFFICES ASSUME IInv, Next PROVE Known
    OBVIOUS
  <2>1. ASSUME NEW g \in DOMAIN grants,
               MayComplete(grants[g].worker) \/ MayFail(grants[g].worker)
        PROVE  grants[g].worker \in {EmptyId, grants[Len(grants)].worker}
    BY <2>1 DEF MayComplete, MayFail, LeasedTo, IInv, LeaseIsLastGrant
  <2>2. CASE Complete
    BY <2>1, <2>2 DEF Complete, CompleteTask
  <2>3. CASE Fail
    BY <2>1, <2>3 DEF Fail, FailTask, Failed
  <2>4. CASE Tick \/ Claim \/ FailAny \/ CancelTask
    BY <2>4 DEF Tick, Claim, ClaimTasks, Claimed, FailAny, FailUnnamed, CancelTask
  <2> QED BY <2>2, <2>3, <2>4 DEF Next
<1>2. Spec => [][Next]_vars
  BY PTL DEF Spec
<1> QED BY <1>1, <1>2, Inductive, PTL DEF StaleReportNeedsReuse
=============================================================================
