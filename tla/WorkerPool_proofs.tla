--------------------------- MODULE WorkerPool_proofs ---------------------------
(***************************************************************************)
(* The worker pool implements the task's life cycle, and every claim beyond   *)
(* the first is accounted for, for every set of workers, plan and number of    *)
(* faults.                                                                   *)
(***************************************************************************)
EXTENDS WorkerPool, TaskLease_proofs

\* Whatever is in flight belongs to a claim that was made.
FlightType ==
    /\ loop \in [Workers -> {"sleeping", "waiting", "stopped"}]
    /\ asked \in [Workers -> Nat]
    /\ \A w \in Workers : loop[w] = "waiting" => asked[w] \in DOMAIN grants
    /\ running \subseteq DOMAIN grants
    /\ \A r \in sending : r[1] \in DOMAIN grants /\ r[2] \in {"ok"} \cup Errors
    /\ faults \in Nat

\* The task's claim is spent: nobody else may take the task for now.
Spent == status \in Terminal \/ (status = "Running" /\ now < lease /\ InHand)

\* A task that anyone may still take, now or later, has no claim of its own left over.
Accounted ==
    /\ Len(grants) <= 1 + attempts + faults
    /\ ~Spent => Len(grants) <= attempts + faults

PInv == IInv /\ FlightType

\* A step of the pool leaves the claims made so far in place.
LEMMA ClaimGrows ==
    ASSUME IInv, NEW w \in Workers, ClaimTasks(w)
    PROVE  /\ Len(grants) \in Nat /\ Len(grants') = Len(grants) + 1
           /\ Len(grants') \in DOMAIN grants'
           /\ DOMAIN grants \subseteq DOMAIN grants'
           /\ grants'[Len(grants')].worker = w
           /\ grants' # <<>>
<1> DEFINE g == [worker |-> w, at |-> now, until |-> now + LeaseTime]
<1>1. g \in Grant
  BY LeaseAssumption DEF IInv, TypeOK, Grant
<1>2. grants' = Append(grants, g) /\ grants \in Seq(Grant)
  BY DEF ClaimTasks, Claimed, IInv, TypeOK
<1>3. g.worker = w
  OBVIOUS
<1> HIDE DEF g
<1> QED BY <1>1, <1>2, <1>3, GrantsAppend

\* A report changes no claim.
LEMMA DeliverStep ==
    ASSUME PInv, NEW r \in sending, Deliver(r)
    PROVE  [Next]_vars /\ grants' = grants
<1>1. r[1] \in DOMAIN grants /\ r[2] \in {"ok"} \cup Errors
  BY DEF PInv, FlightType
<1>2. CASE UNCHANGED vars
  BY <1>2 DEF vars
<1>3. CASE CompleteTask(r[1])
  BY <1>1, <1>3 DEF Next, Complete, CompleteTask
<1>4. CASE r[2] # "ok" /\ FailTask(r[1], r[2])
  BY <1>1, <1>4 DEF Next, Fail, FailTask, Failed
<1> QED BY <1>2, <1>3, <1>4 DEF Deliver

\* Every step of the pool is a step of the task's life cycle, or leaves the task alone.
LEMMA PoolStep ==
    ASSUME PInv, [PoolNext]_poolVars
    PROVE  [Next]_vars
<1>1. ASSUME NEW w \in Workers,
             Poll(w) \/ PollAnswered(w) \/ PollFails(w) \/ Cancel(w) \/ Crash(w)
      PROVE  [Next]_vars
  BY <1>1 DEF Poll, PollAnswered, PollFails, Cancel, Crash, Next, Claim
<1>2. ASSUME NEW g \in running, HandlerDies(g) PROVE [Next]_vars
  BY <1>2 DEF HandlerDies
<1>3. ASSUME NEW g \in running, NEW result \in {"ok"} \cup Errors, HandlerReturns(g, result)
      PROVE  [Next]_vars
  BY <1>3 DEF HandlerReturns
<1>4. ASSUME NEW r \in sending, Deliver(r) \/ ReportLost(r) PROVE [Next]_vars
  BY <1>4, DeliverStep DEF ReportLost
<1>5. CASE Wait
  BY <1>5 DEF Wait, Next
<1>6. CASE Sweep
  BY <1>6 DEF Sweep, Next
<1>7. CASE Unnamed
  BY <1>7 DEF Unnamed, Next
<1>8. CASE UNCHANGED poolVars
  BY <1>8 DEF poolVars
<1> QED BY <1>1, <1>2, <1>3, <1>4, <1>5, <1>6, <1>7, <1>8 DEF PoolNext

LEMMA InitPInv == PoolInit => PInv
<1> SUFFICES ASSUME PoolInit PROVE PInv
  OBVIOUS
<1>1. IInv
  BY InitIInv DEF PoolInit
<1> QED BY <1>1 DEF PoolInit, PInv, FlightType

LEMMA NextPInv ==
    ASSUME PInv, [PoolNext]_poolVars
    PROVE  PInv'
<1>1. IInv'
  BY PoolStep, NextIInv DEF PInv
<1> USE DEF FlightType, PInv, Fault
<1>2. ASSUME NEW w \in Workers, Poll(w) PROVE FlightType'
  BY <1>2, ClaimGrows DEF Poll
<1>3. ASSUME NEW w \in Workers, PollAnswered(w) \/ PollFails(w) \/ Cancel(w) \/ Crash(w)
      PROVE  FlightType'
  <2>1. grants' = grants
    BY <1>3 DEF PollAnswered, PollFails, Cancel, Crash, vars
  <2>2. CASE PollAnswered(w)
    BY <2>1, <2>2 DEF PollAnswered
  <2>3. CASE PollFails(w)
    BY <2>1, <2>3 DEF PollFails
  <2>4. CASE Cancel(w)
    BY <2>1, <2>4 DEF Cancel
  <2>5. CASE Crash(w)
    BY <2>1, <2>5 DEF Crash
  <2> QED BY <1>3, <2>2, <2>3, <2>4, <2>5
<1>4. ASSUME NEW g \in running, HandlerDies(g) PROVE FlightType'
  BY <1>4 DEF HandlerDies, vars
<1>5. ASSUME NEW g \in running, NEW result \in {"ok"} \cup Errors, HandlerReturns(g, result)
      PROVE  FlightType'
  BY <1>5 DEF HandlerReturns, vars
<1>6. ASSUME NEW r \in sending, Deliver(r) PROVE FlightType'
  <2>1. grants' = grants
    BY <1>6, DeliverStep
  <2> QED BY <1>6, <2>1 DEF Deliver
<1>7. ASSUME NEW r \in sending, ReportLost(r) PROVE FlightType'
  BY <1>7 DEF ReportLost, vars
<1>8. ASSUME Wait PROVE FlightType'
  <2>1. UNCHANGED <<loop, asked, running, sending, grants>>
    BY <1>8 DEF Wait, Tick
  <2>2. faults' \in Nat
    BY <1>8 DEF Wait
  <2> QED BY <2>1, <2>2
<1>9. ASSUME Sweep PROVE FlightType'
  <2>1. UNCHANGED <<loop, asked, running, sending, grants, faults>>
    BY <1>9 DEF Sweep, CancelTask, pool
  <2> QED BY <2>1
<1>10. ASSUME UNCHANGED poolVars PROVE FlightType'
  <2>1. UNCHANGED <<loop, asked, running, sending, grants, faults>>
    BY <1>10 DEF poolVars, pool, vars
  <2> QED BY <2>1
<1>11. ASSUME Unnamed PROVE FlightType'
  <2>1. UNCHANGED <<loop, asked, running, sending, grants, faults>>
    BY <1>11 DEF Unnamed, FailAny, FailUnnamed, Failed, pool
  <2> QED BY <2>1
<1>12. FlightType'
  BY <1>2, <1>3, <1>4, <1>5, <1>6, <1>7, <1>8, <1>9, <1>10, <1>11 DEF PoolNext
<1> QED BY <1>1, <1>12 DEF PInv

\* The worker pool implements the task's life cycle: what is proved of TaskLease holds of a
\* task the pool works on (client/worker/in_memory.rs run and poll against
\* elements/task.rs).
THEOREM PoolImplementsLease == PoolSpec => RefinesLease
<1>1. PoolInit => Init
  BY DEF PoolInit
<1>2. PInv /\ [PoolNext]_poolVars => [Next]_vars
  BY PoolStep
<1>3. PInv /\ [PoolNext]_poolVars => PInv'
  BY NextPInv
<1> QED BY <1>1, <1>2, <1>3, InitPInv, PTL DEF PoolSpec, Spec, RefinesLease

-----------------------------------------------------------------------------

\* The counters are numbers.
LEMMA Numbers ==
    ASSUME PInv
    PROVE  /\ Len(grants) \in Nat /\ attempts \in Nat /\ faults \in Nat
           /\ now \in Nat /\ lease \in Nat
  BY DEF PInv, IInv, TypeOK, FlightType

\* A fault pays for one more claim.
LEMMA FaultPays ==
    ASSUME PInv, Accounted, Fault, UNCHANGED <<grants, attempts>>
    PROVE  Accounted'
  BY Numbers DEF Accounted, Fault

\* What keeps the task spent keeps the account.
LEMMA SpentStays ==
    ASSUME Accounted, Spent => Spent', UNCHANGED <<grants, attempts, faults>>
    PROVE  Accounted'
  BY DEF Accounted

LEMMA PollAccounted ==
    ASSUME PInv, Accounted, NEW w \in Workers, Poll(w)
    PROVE  Accounted'
<1>1. ~Spent
  BY Numbers DEF Poll, ClaimTasks, IsClaimable, Spent, Terminal
<1>2. Len(grants') = Len(grants) + 1 /\ UNCHANGED <<attempts, faults>>
  BY ClaimGrows DEF Poll, ClaimTasks, Claimed, PInv
<1>3. InHand'
  <2>1. grants' # <<>> /\ grants'[Len(grants')].worker = w
    BY ClaimGrows DEF Poll, PInv
  <2>2. asked'[w] = Len(grants')
    BY <1>2 DEF Poll, PInv, FlightType
  <2> QED BY <2>1, <2>2 DEF InHand
<1>4. Spent'
  BY <1>3, Numbers, LeaseAssumption, PoolAssumption DEF Poll, ClaimTasks, Claimed, Spent
<1> QED BY <1>1, <1>2, <1>4, Numbers DEF Accounted

LEMMA HandOver ==
    ASSUME PInv, Accounted,
           \/ \E w \in Workers : PollAnswered(w)
           \/ \E g \in running, result \in {"ok"} \cup Errors : HandlerReturns(g, result)
    PROVE  Accounted'
<1>1. UNCHANGED <<status, now, lease, grants, attempts, faults>>
  BY DEF PollAnswered, HandlerReturns, vars, row
<1>2. InHand => InHand'
  <2> SUFFICES ASSUME InHand PROVE InHand'
    OBVIOUS
  <2> DEFINE n == Len(grants)
  <2>1. ASSUME NEW w \in Workers, PollAnswered(w) PROVE InHand'
    <3>1. sending' = sending /\ Sent' = Sent
      BY <2>1 DEF PollAnswered, Sent
    <3>2. CASE n \in running \cup Sent
      BY <1>1, <2>1, <3>1, <3>2 DEF PollAnswered, InHand
    <3>3. CASE n = asked[grants[n].worker] /\ grants[n].worker = w
      BY <1>1, <2>1, <3>3 DEF PollAnswered, InHand
    <3>4. CASE n = asked[grants[n].worker] /\ grants[n].worker # w
      BY <1>1, <2>1, <3>4 DEF PollAnswered, InHand, PInv, FlightType
    <3> QED BY <3>2, <3>3, <3>4 DEF InHand
  <2>2. ASSUME NEW g \in running, NEW result \in {"ok"} \cup Errors, HandlerReturns(g, result)
        PROVE  InHand'
    <3>1. Sent \subseteq Sent'
      BY <2>2 DEF HandlerReturns, Sent
    <3>2. g \in Sent'
      <4>1. <<g, result>> \in sending' /\ <<g, result>>[1] = g
        BY <2>2 DEF HandlerReturns
      <4> QED BY <4>1 DEF Sent
    <3> QED BY <1>1, <2>2, <3>1, <3>2 DEF HandlerReturns, InHand
  <2> QED BY <2>1, <2>2
<1> QED BY <1>1, <1>2, SpentStays DEF Spent

\* A failure that ends the task spends its claim, one that re-queues it is counted.
LEMMA FailedAccounted ==
    ASSUME PInv, Accounted, NEW w, NEW e, Failed(w, e), UNCHANGED faults
    PROVE  Accounted'
<1>1. grants' = grants
  BY DEF Failed
<1>2. CASE FailForGood
  <2>1. Spent' /\ UNCHANGED attempts
    BY <1>2 DEF FailForGood, Spent, Terminal
  <2> QED BY <1>1, <2>1 DEF Accounted
<1>3. CASE \E i \in Matched(e) : Requeue(i)
  <2>1. attempts' = attempts + 1
    BY <1>3 DEF Requeue
  <2> QED BY <1>1, <2>1, Numbers DEF Accounted
<1> QED BY <1>2, <1>3 DEF Failed

\* The current claim's own report is never refused while the task runs.
LEMMA DeliverAccounted ==
    ASSUME PInv, Accounted, NEW r \in sending, Deliver(r)
    PROVE  Accounted'
<1>1. UNCHANGED <<loop, asked, running, grants, faults>>
  BY DeliverStep DEF Deliver
<1>2. CASE ~Admitted(r) /\ UNCHANGED vars
  <2>1. UNCHANGED <<status, now, lease, attempts>>
    BY <1>2 DEF vars, row
  <2>2. ASSUME status = "Running", InHand PROVE InHand'
    <3>1. r[1] # Len(grants)
      <4> SUFFICES ASSUME r[1] = Len(grants) PROVE FALSE
        OBVIOUS
      <4>1. holder = grants[r[1]].worker /\ status = "Running"
        BY <2>2 DEF PInv, IInv, LeaseIsLastGrant
      <4>2. grants[r[1]] \in Grant
        BY DEF PInv, FlightType, IInv, TypeOK
      <4>3. grants[r[1]].worker # EmptyId
        BY <4>2, PoolAssumption DEF Grant
      <4> QED BY <1>2, <4>1, <4>3 DEF Admitted, MayComplete, MayFail, LeasedTo, Terminal
    <3>2. ASSUME Len(grants) \in Sent PROVE Len(grants) \in Sent'
      <4>1. PICK q \in sending : q[1] = Len(grants)
        BY <3>2 DEF Sent
      <4>2. q \in sending'
        BY <3>1, <4>1 DEF Deliver
      <4> QED BY <4>1, <4>2 DEF Sent
    <3> QED BY <1>1, <2>2, <3>2 DEF InHand
  <2> QED BY <1>1, <2>1, <2>2, SpentStays DEF Spent
<1>3. CASE CompleteTask(r[1])
  <2>1. Spent' /\ UNCHANGED attempts
    BY <1>3 DEF CompleteTask, Spent, Terminal
  <2> QED BY <1>1, <2>1 DEF Accounted
<1>4. CASE FailTask(r[1], r[2])
  BY <1>1, <1>4, FailedAccounted DEF FailTask
<1> QED BY <1>2, <1>3, <1>4 DEF Deliver

LEMMA WaitAccounted ==
    ASSUME PInv, Accounted, Wait
    PROVE  Accounted'
<1>1. UNCHANGED <<status, lease, grants, attempts, asked, running, sending>> /\ now' = now + 1
  BY DEF Wait, Tick, row
<1>2. CASE Fault
  BY <1>1, <1>2, FaultPays
<1>3. CASE UNCHANGED faults /\ ~(status = "Running" /\ now + 1 = lease /\ InHand)
  <2>1. InHand => InHand'
    BY <1>1 DEF InHand, Sent
  <2>2. Spent => Spent'
    BY <1>1, <1>3, <2>1, Numbers DEF Spent
  <2> QED BY <1>1, <1>3, <2>2, SpentStays
<1> QED BY <1>2, <1>3 DEF Wait

LEMMA NextAccounted ==
    ASSUME PInv, Accounted, [PoolNext]_poolVars
    PROVE  Accounted'
<1>1. ASSUME NEW w \in Workers, PollFails(w) \/ Cancel(w) \/ Crash(w) PROVE Accounted'
  BY <1>1, FaultPays DEF PollFails, Cancel, Crash, vars, row
<1>2. ASSUME NEW g \in running, HandlerDies(g) PROVE Accounted'
  BY <1>2, FaultPays DEF HandlerDies, vars, row
<1>3. ASSUME NEW r \in sending, ReportLost(r) PROVE Accounted'
  BY <1>3, FaultPays DEF ReportLost, vars, row
<1>4. CASE Sweep
  <2>1. Spent' /\ UNCHANGED <<grants, attempts, faults>>
    BY <1>4 DEF Sweep, CancelTask, Spent, Terminal, pool
  <2> QED BY <2>1, SpentStays
<1>5. CASE UNCHANGED poolVars
  <2>1. UNCHANGED <<status, now, lease, grants, attempts, asked, running, sending, faults>>
    BY <1>5 DEF poolVars, pool, vars, row
  <2>2. Spent => Spent'
    BY <2>1 DEF Spent, InHand, Sent
  <2> QED BY <2>1, <2>2, SpentStays
<1>6. CASE Unnamed
  BY <1>6, FailedAccounted DEF Unnamed, FailAny, FailUnnamed, pool
<1> QED BY <1>1, <1>2, <1>3, <1>4, <1>5, <1>6, PollAccounted, HandOver, DeliverAccounted,
           WaitAccounted DEF PoolNext

\* A live run that answers in time is never run beside another: every claim beyond the
\* first follows a retry the engine counted, or a fault (client/worker/in_memory.rs poll).
THEOREM ClaimsCorrect == PoolSpec => []ClaimsAreAccountedFor
<1>1. PoolInit => PInv /\ Accounted
  <2>1. PoolInit => Accounted
    BY DEF PoolInit, Init, Accounted
  <2> QED BY <2>1, InitPInv
<1>2. (PInv /\ Accounted) /\ [PoolNext]_poolVars => (PInv /\ Accounted)'
  BY NextPInv, NextAccounted
<1>3. Accounted => ClaimsAreAccountedFor
  BY DEF Accounted, ClaimsAreAccountedFor
<1> QED BY <1>1, <1>2, <1>3, PTL DEF PoolSpec
=============================================================================
