---------------------------- MODULE MCProjection ----------------------------
EXTENDS Projection

Born(type, kind, slot, underKind, under) ==
    [type |-> type, kind |-> kind, slot |-> slot, underKind |-> underKind,
     under |-> under, index |-> 0]
Branch(slot, i) == [Born("ThreadCreated", "thread", slot, "activity", "fan") EXCEPT !.index = i]
To(type, kind, slot, status) ==
    [type |-> type, kind |-> kind, slot |-> slot, under |-> "", status |-> status,
     state |-> "none"]
Bare(type, slot) == [type |-> type, kind |-> "thread", slot |-> slot, under |-> ""]

Ends(thread) == <<To("ThreadCompleting", "thread", thread, "Completing"),
                  To("ThreadCompleted", "thread", thread, "Completed")>>
Leaves(act) == <<To("StateCompleting", "activity", act, "Completing"),
                 To("StateCompleted", "activity", act, "Completed")>>
Finishes == <<To("ExecutionCompleting", "execution", "run", "Completing"),
              To("ExecutionCompleted", "execution", "run", "Completed")>>
Starts == <<Born("ExecutionCreated", "execution", "run", "", ""),
            Born("ThreadCreated", "thread", "root", "execution", "run")>>
Enters(act) == <<Born("StateActivating", "activity", act, "thread", "root"),
                 To("StateActivated", "activity", act, "Activated")>>

Step(emits, then) == [emits |-> emits, then |-> then, mints |-> FALSE]

\* The batches of a few runs: a Task state retried once, the same cancelled or failed,
\* a Parallel whose two branches assign a variable and end, a second run.
RunSteps ==
  [ flow   |-> Step(<<Born("FlowCreated", "flow", "flow", "", ""),
                      Born("FlowVersionCreated", "flowversion", "v", "flow", "flow")>>, <<>>),
    start  |-> Step(Starts, <<"enter">>),
    again  |-> Step(<<Born("ExecutionCreated", "execution", "runs", "", ""),
                      Born("ThreadCreated", "thread", "root2", "execution", "runs")>>, <<>>),
    enter  |-> [Step(Enters("act"), <<"invoke">>) EXCEPT !.mints = TRUE],
    invoke |-> Step(<<Born("TaskActivated", "task", "task", "activity", "act")>>, <<>>),
    poll   |-> Step(<<Bare("TasksClaimed", "")>>, <<>>),
    retry  |-> Step(<<To("TaskFailed", "task", "task", "Pending")>>, <<>>),
    fail   |-> Step(<<To("TaskFailed", "task", "task", "Failed")>>, <<>>),
    report |-> Step(<<To("TaskCompleted", "task", "task", "Completed")>>, <<"leave">>),
    leave  |-> Step(<<Bare("VariablesAssigned", "root")>> \o Leaves("act")
                    \o <<Bare("StateTransitioned", "")>>, <<"end">>),
    end    |-> Step(Ends("root") \o Finishes, <<>>),
    cancel |-> Step(<<To("ExecutionTerminating", "execution", "run", "Terminating"),
                      To("ThreadTerminating", "thread", "root", "Terminating"),
                      To("StateTerminating", "activity", "act", "Terminating"),
                      To("TaskCancelled", "task", "task", "Cancelled"),
                      To("StateTerminated", "activity", "act", "Terminated"),
                      To("ThreadTerminated", "thread", "root", "Terminated"),
                      To("ExecutionTerminated", "execution", "run", "Terminated")>>, <<>>),
    startFan |-> Step(Starts, <<"fan">>),
    fan    |-> Step(<<Bare("VariablesAssigned", "root")>> \o Enters("fan"), <<"left", "right">>),
    left   |-> Step(<<Branch("left", 0), Bare("VariablesAssigned", "left")>> \o Ends("left"), <<>>),
    right  |-> Step(<<Branch("right", 1), Bare("VariablesAssigned", "right")>> \o Ends("right"),
                    <<"join">>),
    join   |-> Step(Leaves("fan"), <<"end">>) ]

RunHistories ==
    { <<"start", "poll", "retry", "poll">>,
      <<"start", "poll", "report">>,
      <<"start", "poll", "cancel">>,
      <<"start", "again">>,
      <<"start", "poll", "fail">>,
      <<"flow", "flow", "again">>,
      <<"startFan">> }

=============================================================================
