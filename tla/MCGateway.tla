----------------------------- MODULE MCGateway -----------------------------
(***************************************************************************)
(* Three concurrent calls on one flow, one execution name and two tasks.    *)
(***************************************************************************)
EXTENDS Gateway

Create(parses) == [op |-> "CreateFlow", name |-> "f", parses |-> parses]
Start(byName) == [op |-> "StartExecution", name |-> "x", flow |-> "f", byName |-> byName]
Poll(w, max) == [op |-> "PollTasks", worker |-> w, max |-> max]
Settle(op, w) == [op |-> op, task |-> "t1", worker |-> w]

\* The first four are about flows and runs, the others about tasks.
SomeCalls ==
    <<Create(TRUE), Create(FALSE), Start(TRUE), Start(FALSE),
      Poll("w1", 1), Poll("w2", 2), Settle("CompleteTask", "w1"), Settle("FailTask", "w1"),
      Settle("FailTask", "")>>

\* Any three about flows and runs, any three about tasks, and a creation and a poll with any
\* third: the two kinds share the registry and the processor, and no rows.  The callers have
\* no part in what happens, so the order in which the calls are dealt out to them does not
\* matter.
ThreeCalls ==
    {[c1 |-> SomeCalls[p[1]], c2 |-> SomeCalls[p[2]], c3 |-> SomeCalls[p[3]]] :
        p \in {q \in (1..Len(SomeCalls)) \X (1..Len(SomeCalls)) \X (1..Len(SomeCalls)) :
                 /\ q[1] <= q[2] /\ q[2] <= q[3]
                 /\ q[1] > 4 \/ q[3] <= 4 \/ {1, 5} \subseteq {q[1], q[2], q[3]}}}
=============================================================================
