------------------------------ MODULE WorkerPool -----------------------------
(***************************************************************************)
(* The worker processes around one task (client/worker): every run of a      *)
(* worker polls under one id of its own, hands each claimed task to a         *)
(* handler on a task of its own that nobody joins, and reports what the       *)
(* handler returned, once.  A call's answer, a report, a handler or a whole   *)
(* process may be lost; nothing is sent again.  Composes TaskLease, whose      *)
(* ghosts number the claims: a claim's number stands for the run it starts.   *)
(***************************************************************************)
EXTENDS TaskLease

CONSTANT MaxFaults    \* bound: losses, crashes and leases outlived by their run

\* LEASE_SECONDS unless the builder was given another; a lease of no time is left out.
\* The workers' ids are built from a name and a ULID.
ASSUME PoolAssumption == LeaseTime > 0 /\ EmptyId \notin Workers

VARIABLES
    loop,     \* worker -> "sleeping", "waiting" for a poll's answer, or "stopped"
    asked,    \* worker -> the claim whose answer it waits for, 0 for none
    running,  \* claims whose handler runs
    sending,  \* reports under way: <<claim, "ok" or the error>>
    faults    \* how many faults have happened

pool == <<loop, asked, running, sending, faults>>
poolVars == <<vars, pool>>

PoolInit ==
    /\ Init
    /\ loop = [w \in Workers |-> "sleeping"]
    /\ asked = [w \in Workers |-> 0]
    /\ running = {} /\ sending = {}
    /\ faults = 0

Fault == faults < MaxFaults /\ faults' = faults + 1

Sent == { r[1] : r \in sending }

\* The current claim's answer, handler or report is still alive.
InHand ==
    /\ grants # <<>>
    /\ LET g == Len(grants)
       IN  \/ g \in running \cup Sent
           \/ g = asked[grants[g].worker]

\* One poll: the engine leases the task and the worker awaits the answer.  A poll that
\* finds nothing changes nothing.
Poll(w) ==
    /\ loop[w] = "sleeping"
    /\ ClaimTasks(w)
    /\ loop' = [loop EXCEPT ![w] = "waiting"]
    /\ asked' = [asked EXCEPT ![w] = Len(grants) + 1]
    /\ UNCHANGED <<running, sending, faults>>

\* The answer arrives: the handler starts, the loop goes on.
PollAnswered(w) ==
    /\ loop[w] = "waiting"
    /\ loop' = [loop EXCEPT ![w] = "sleeping"]
    /\ running' = running \cup {asked[w]}
    /\ asked' = [asked EXCEPT ![w] = 0]
    /\ UNCHANGED <<vars, sending, faults>>

\* The poll fails on the way back, or one of its tasks cannot be read: the claim stands,
\* nobody runs it.
PollFails(w) ==
    /\ loop[w] = "waiting" /\ Fault
    /\ loop' = [loop EXCEPT ![w] = "sleeping"]
    /\ asked' = [asked EXCEPT ![w] = 0]
    /\ UNCHANGED <<vars, running, sending>>

\* The handler returns its result or an error, "States.Runtime" when there is no handler.
HandlerReturns(g, result) ==
    /\ g \in running
    /\ running' = running \ {g}
    /\ sending' = sending \cup {<<g, result>>}
    /\ UNCHANGED <<vars, loop, asked, faults>>

\* The handler dies with the task it runs on: nothing is reported.
HandlerDies(g) ==
    /\ g \in running /\ Fault
    /\ running' = running \ {g}
    /\ UNCHANGED <<vars, loop, asked, sending>>

\* Mutation of Deliver: the engine takes any worker's result.
MutDeliver(r) ==
    /\ IF r[2] = "ok" /\ status # "Pending"
       THEN /\ status' = "Completed"
            /\ answered' = answered \cup {r[1]}
            /\ released' = Released
            /\ UNCHANGED <<holder, lease, gate, tries, attempts, now, grants>>
       ELSE UNCHANGED vars
    /\ sending' = sending \ {r}
    /\ UNCHANGED <<loop, asked, running, faults>>

Admitted(r) ==
    LET w == grants[r[1]].worker IN IF r[2] = "ok" THEN MayComplete(w) ELSE MayFail(w)

\* The engine takes or refuses the report; a refusal is only logged.
Deliver(r) ==
    /\ IF ~Admitted(r) THEN UNCHANGED vars
       ELSE IF r[2] = "ok" THEN CompleteTask(r[1]) ELSE FailTask(r[1], r[2])
    /\ sending' = sending \ {r}
    /\ UNCHANGED <<loop, asked, running, faults>>

\* The report is lost; it is not sent again.
ReportLost(r) ==
    /\ Fault
    /\ sending' = sending \ {r}
    /\ UNCHANGED <<vars, loop, asked, running>>

\* The worker is cancelled between two polls; the handlers it started go on.
Cancel(w) ==
    /\ loop[w] = "sleeping" /\ Fault
    /\ loop' = [loop EXCEPT ![w] = "stopped"]
    /\ UNCHANGED <<vars, asked, running, sending>>

\* Its process ends: handlers and reports under way end with it.
Crash(w) ==
    /\ loop[w] # "stopped" /\ Fault
    /\ loop' = [loop EXCEPT ![w] = "stopped"]
    /\ asked' = [asked EXCEPT ![w] = 0]
    /\ running' = { g \in running : grants[g].worker # w }
    /\ sending' = { r \in sending : grants[r[1]].worker # w }
    /\ UNCHANGED vars

\* The clock, as far as a lease or a gate waits for it.  A lease that ends while its run is
\* alive counts as a fault.
Wait ==
    /\ \/ status = "Running" /\ now < lease
       \/ status = "Pending" /\ now < gate
    /\ Tick
    /\ IF status = "Running" /\ now + 1 = lease /\ InHand
       THEN Fault ELSE UNCHANGED faults
    /\ UNCHANGED <<loop, asked, running, sending>>

Sweep == CancelTask /\ UNCHANGED pool

\* Somebody outside the pool fails the task without an id.
Unnamed == FailAny /\ UNCHANGED pool

PoolNext ==
    \/ \E w \in Workers : Poll(w) \/ PollAnswered(w) \/ PollFails(w) \/ Cancel(w) \/ Crash(w)
    \/ \E g \in running : HandlerDies(g)
    \/ \E g \in running, result \in {"ok"} \cup Errors : HandlerReturns(g, result)
    \/ \E r \in sending : Deliver(r) \/ ReportLost(r)
    \/ Wait
    \/ Sweep
    \/ Unnamed

\* A live worker polls again and again, what was started goes on, time passes, handlers
\* return.  The faults, the sweep and unnamed reports need not happen.
PoolSpec ==
    /\ PoolInit /\ [][PoolNext]_poolVars
    /\ WF_poolVars(\E w \in Workers : Poll(w))
    /\ \A w \in Workers : WF_poolVars(PollAnswered(w))
    /\ WF_poolVars(\E g \in running, result \in {"ok"} \cup Errors : HandlerReturns(g, result))
    /\ WF_poolVars(\E r \in sending : Deliver(r))
    /\ WF_poolVars(Wait)

-----------------------------------------------------------------------------
(* Properties. *)

\* What the pool does to the task is what the engine's task life cycle allows: the
\* theorems about TaskLease hold of a task that is worked on by this pool.
RefinesLease == Spec

\* Every claim beyond the first answers a retry the engine counted or a fault: a live run
\* that answers in time is never run beside another (client/worker/in_memory.rs poll: "a
\* settle that races lease expiry is exactly the re-claim the at-least-once contract
\* expects").
ClaimsAreAccountedFor == Len(grants) <= 1 + attempts + faults

\* The task settles, whatever is lost on the way: a lost answer, report, handler or process
\* only costs the rest of its lease, as long as one worker is left to poll.
TaskSettles ==
    [](\E w \in Workers : loop[w] # "stopped") => <>(status \in Terminal)
=============================================================================
