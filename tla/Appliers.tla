------------------------------ MODULE Appliers ------------------------------
(***************************************************************************)
(* The fold rule of every Event (engine/src/applier): which writes applying *)
(* event e makes to a store whose readable contents are v.  `at` is the      *)
(* timestamp frozen in e's log entry, the only clock a fold may use.  An     *)
(* Event's `row` is the entity value the handler stamped into it.           *)
(***************************************************************************)
EXTENDS StoreContents

Has(v, ref) == ref \in DOMAIN v.rows

ScopeOf(v, thread) == IF thread \in DOMAIN v.vars THEN v.vars[thread] ELSE {}

\* appliers/mod.rs, bump_generated_seq: the counter passes the suffix of a
\* generated name; a user's name has none.
BumpGeneratedSeq(v, name) ==
    IF Len(name) = 1 THEN <<>> ELSE <<PutSeq(Larger(v.seq, name[2] + 1))>>

\* Only an existing row is written.
WhenPresent(v, e, writes) == IF Has(v, Ref(e.row)) THEN writes ELSE <<>>

\* The row at e's reference, to be rebuilt from.
Base(v, e) == v.rows[Ref(e.row)]

-----------------------------------------------------------------------------
FlowCreatedApplier(v, e, at) == <<PutRow(e.row)>>

\* The version's row, then the owning flow's pointer; a flow whose birth was not
\* folded is rebuilt from the version.
FlowVersionCreatedApplier(v, e, at) ==
    LET flow == <<"flow", e.row.owner>>
        base == IF Has(v, flow)
                THEN v.rows[flow]
                ELSE [kind |-> "flow", name |-> e.row.owner, latest |-> e.row.version,
                      at |-> e.row.at]
    IN  <<PutRow(e.row),
          PutRow([base EXCEPT !.latest = e.row.version, !.at = at])>>

ExecutionCreatedApplier(v, e, at) == <<PutRow(e.row)>>

ExecutionCompletingApplier(v, e, at) ==
    WhenPresent(v, e, <<PutRow([Base(v, e) EXCEPT !.status = "Completing",
                                                  !.output = e.row.output,
                                                  !.at = e.row.at])>>)

ExecutionCompletedApplier(v, e, at) ==
    WhenPresent(v, e, <<PutRow([Base(v, e) EXCEPT !.status = "Completed",
                                                  !.output = e.row.output,
                                                  !.at = e.row.at])>>)

ExecutionTerminatingApplier(v, e, at) ==
    WhenPresent(v, e, <<PutRow([Base(v, e) EXCEPT !.status = e.row.status,
                                                  !.at = e.row.at])>>)

ExecutionTerminatedApplier(v, e, at) ==
    WhenPresent(v, e, <<PutRow([Base(v, e) EXCEPT !.status = e.row.status,
                                                  !.at = e.row.at])>>)

-----------------------------------------------------------------------------
\* A branch starts from a snapshot of the scope its container's thread has now,
\* and takes its place in the container's ordered fan-out.  A container with no
\* activity state yet becomes a Parallel; a Wait has no fan-out.  Reads of the open
\* transaction succeed here; the code takes a failed first read of the container for
\* a missing one, and the branch then starts without a scope.
ThreadCreatedApplier(v, e, at) ==
    LET owner == e.row.owner
        fanOut == owner[1] = "activity" /\ Has(v, owner)
        container == v.rows[owner]
        scope == ScopeOf(v, container.owner[2])
        placed == [container EXCEPT
                      !.state = IF @ = "none" THEN "parallel" ELSE @,
                      !.branches = Upsert(@, e.row.index, e.row.name),
                      !.at = at]
    IN  <<PutRow(e.row)>>
        \o (IF fanOut THEN <<PutVariables(e.row.name, scope)>> ELSE <<>>)
        \o BumpGeneratedSeq(v, e.row.name)
        \o <<AddChild(owner, Ref(e.row))>>
        \o (IF fanOut /\ container.state # "wait" THEN <<PutRow(placed)>> ELSE <<>>)

ThreadCompletingApplier(v, e, at) ==
    WhenPresent(v, e, <<PutRow([Base(v, e) EXCEPT !.status = "Completing",
                                                  !.output = e.row.output,
                                                  !.at = e.row.at])>>)

ThreadCompletedApplier(v, e, at) ==
    WhenPresent(v, e, <<PutRow([Base(v, e) EXCEPT !.status = "Completed",
                                                  !.output = e.row.output,
                                                  !.at = e.row.at]),
                        RemoveChild(Base(v, e).owner, Ref(e.row))>>)

ThreadTerminatingApplier(v, e, at) ==
    WhenPresent(v, e, <<PutRow([Base(v, e) EXCEPT !.status = e.row.status,
                                                  !.at = e.row.at])>>)

ThreadTerminatedApplier(v, e, at) ==
    WhenPresent(v, e, <<PutRow([Base(v, e) EXCEPT !.status = e.row.status,
                                                  !.at = e.row.at]),
                        RemoveChild(Base(v, e).owner, Ref(e.row))>>)

-----------------------------------------------------------------------------
\* Mutation of StateActivatingApplier: the counter is left to the mint.
MutStateActivatingApplier(v, e, at) ==
    <<PutRow(e.row), AddChild(e.row.owner, Ref(e.row))>>

\* The birth of an activity's row.
StateActivatingApplier(v, e, at) ==
    <<PutRow(e.row)>> \o BumpGeneratedSeq(v, e.row.name)
        \o <<AddChild(e.row.owner, Ref(e.row))>>

StateActivatedApplier(v, e, at) == WhenPresent(v, e, <<PutRow(e.row)>>)

StateCompletingApplier(v, e, at) == WhenPresent(v, e, <<PutRow(e.row)>>)

StateCompletedApplier(v, e, at) ==
    WhenPresent(v, e, <<PutRow(e.row), RemoveChild(Base(v, e).owner, Ref(e.row))>>)

StateTerminatingApplier(v, e, at) == WhenPresent(v, e, <<PutRow(e.row)>>)

StateTerminatedApplier(v, e, at) ==
    WhenPresent(v, e, <<PutRow(e.row), RemoveChild(Base(v, e).owner, Ref(e.row))>>)

StateTransitionedApplier(v, e, at) == <<>>

VariablesAssignedApplier(v, e, at) == <<PutVariables(e.thread, e.value)>>

-----------------------------------------------------------------------------
TaskActivatedApplier(v, e, at) ==
    <<PutRow(e.row)>> \o BumpGeneratedSeq(v, e.row.name)
        \o <<AddChild(e.row.owner, Ref(e.row))>>

\* Each claim of the batch folds only while its task is claimable at the entry's
\* own time; the rows of distinct tasks are independent.
TasksClaimedApplier(v, e, at) ==
    LET Stake(claim) ==
            IF Has(v, Ref(claim)) /\ ClaimableAt(v.rows[Ref(claim)], at)
            THEN <<PutRow([v.rows[Ref(claim)] EXCEPT
                              !.status = "Running", !.worker = claim.worker,
                              !.lease = claim.lease, !.gate = claim.gate,
                              !.at = claim.at])>>
            ELSE <<>>
    IN  FlattenSeq([i \in 1..Len(e.claims) |-> Stake(e.claims[i])])

\* The task settles, its payload becomes its activity's raw output, its edge goes.
TaskCompletedApplier(v, e, at) ==
    LET owner == Base(v, e).owner
        settled == PutRow([Base(v, e) EXCEPT !.status = "Completed", !.at = e.row.at])
        result == IF Has(v, owner)
                  THEN <<PutRow([v.rows[owner] EXCEPT !.raw = e.output, !.at = at])>>
                  ELSE <<>>
    IN  WhenPresent(v, e, <<settled>> \o result \o <<RemoveChild(owner, Ref(e.row))>>)

\* A retryable failure keeps the edge and mirrors the attempts on the activity; a
\* terminal one drops the edge.
TaskFailedApplier(v, e, at) ==
    LET owner == Base(v, e).owner
        mirrored == IF Has(v, owner)
                    THEN <<PutRow([v.rows[owner] EXCEPT !.attempts = e.row.attempts,
                                                        !.at = at])>>
                    ELSE <<>>
    IN  WhenPresent(v, e, <<PutRow(e.row)>>
                          \o IF e.row.status = "Pending"
                             THEN mirrored
                             ELSE <<RemoveChild(owner, Ref(e.row))>>)

TaskCancelledApplier(v, e, at) ==
    WhenPresent(v, e, <<PutRow([Base(v, e) EXCEPT !.status = "Cancelled",
                                                  !.at = e.row.at]),
                        RemoveChild(Base(v, e).owner, Ref(e.row))>>)

-----------------------------------------------------------------------------
\* applier.rs, dispatch_event: the one exhaustive match.
DispatchEvent(v, e, at) ==
    CASE e.type = "ExecutionCreated"     -> ExecutionCreatedApplier(v, e, at)
      [] e.type = "ExecutionCompleting"  -> ExecutionCompletingApplier(v, e, at)
      [] e.type = "ExecutionCompleted"   -> ExecutionCompletedApplier(v, e, at)
      [] e.type = "ExecutionTerminating" -> ExecutionTerminatingApplier(v, e, at)
      [] e.type = "ExecutionTerminated"  -> ExecutionTerminatedApplier(v, e, at)
      [] e.type = "FlowCreated"          -> FlowCreatedApplier(v, e, at)
      [] e.type = "FlowVersionCreated"   -> FlowVersionCreatedApplier(v, e, at)
      [] e.type = "StateActivating"      -> StateActivatingApplier(v, e, at)
      [] e.type = "StateActivated"       -> StateActivatedApplier(v, e, at)
      [] e.type = "StateCompleting"      -> StateCompletingApplier(v, e, at)
      [] e.type = "StateCompleted"       -> StateCompletedApplier(v, e, at)
      [] e.type = "StateTerminating"     -> StateTerminatingApplier(v, e, at)
      [] e.type = "StateTerminated"      -> StateTerminatedApplier(v, e, at)
      [] e.type = "VariablesAssigned"    -> VariablesAssignedApplier(v, e, at)
      [] e.type = "StateTransitioned"    -> StateTransitionedApplier(v, e, at)
      [] e.type = "TaskActivated"        -> TaskActivatedApplier(v, e, at)
      [] e.type = "TasksClaimed"         -> TasksClaimedApplier(v, e, at)
      [] e.type = "TaskCompleted"        -> TaskCompletedApplier(v, e, at)
      [] e.type = "TaskFailed"           -> TaskFailedApplier(v, e, at)
      [] e.type = "TaskCancelled"        -> TaskCancelledApplier(v, e, at)
      [] e.type = "ThreadCreated"        -> ThreadCreatedApplier(v, e, at)
      [] e.type = "ThreadCompleting"     -> ThreadCompletingApplier(v, e, at)
      [] e.type = "ThreadCompleted"      -> ThreadCompletedApplier(v, e, at)
      [] e.type = "ThreadTerminating"    -> ThreadTerminatingApplier(v, e, at)
      [] e.type = "ThreadTerminated"     -> ThreadTerminatedApplier(v, e, at)

=============================================================================
