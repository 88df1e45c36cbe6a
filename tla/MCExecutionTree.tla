--------------------------- MODULE MCExecutionTree ---------------------------
(***************************************************************************)
(* State machines small enough to explore every interleaving of.           *)
(***************************************************************************)
EXTENDS ExecutionTree

S(type, next) ==
    [type |-> type, next |-> next, start |-> <<>>, total |-> 0, max |-> 0,
     retries |-> 0, catch |-> {}, catchNext |-> "End", timeout |-> FALSE, bad |-> {}]

\* Every state type.  A chooses between a task with a retry and a timeout, a
\* Wait, a Pass that may lack its Next, the terminal states, two branches of which
\* one may fail and sweep the other, a branch with a timeout beside one that fails,
\* Maps that run their items one by one (caught when they fail for good, or not) or
\* two at a time, a fan-out over nothing, states whose input, timeout or output
\* cannot be evaluated, and states that validation would refuse: a Wait without a
\* duration, a Parallel and a Map that may lack their Next.  `two' is the
\* MaxConcurrency of the Maps with room for two.
EveryWithRoom(two) ==
    [A |-> S("Choice", {"T", "X", "Y", "None", "F", "FT", "M", "N", "E", "I", "O", "K",
                      "R", "U", "L", "J"}),
     T |-> [S("Task", {"W"}) EXCEPT !.retries = 1, !.timeout = TRUE],
     W |-> S("Wait", {"P"}),
     P |-> S("Pass", {"End", "None"}),
     X |-> S("Fail", {"End"}),
     Y |-> S("Succeed", {"End"}),
     F |-> [S("Parallel", {"Y", "None"}) EXCEPT !.start = <<"G", "B">>],
     G |-> S("Task", {"End"}),
     B |-> S("Choice", {"V", "X"}),
     V |-> S("Wait", {"End"}),
     M |-> [S("Map", {"End", "None"}) EXCEPT !.start = <<"C">>, !.total = 2, !.max = 1],
     C |-> [S("Task", {"End"}) EXCEPT !.catch = {"Task"}, !.catchNext = "H", !.retries = 1],
     H |-> S("Pass", {"End"}),
     N |-> [S("Map", {"End"}) EXCEPT !.start = <<"D">>, !.total = 2, !.max = 1],
     D |-> S("Task", {"End"}),
     FT |-> [S("Parallel", {"End"}) EXCEPT !.start = <<"GT", "X">>],
     GT |-> [S("Task", {"End"}) EXCEPT !.timeout = TRUE],
     E |-> S("Map", {"Q"}),
     Q |-> S("Parallel", {"End"}),
     I |-> [S("Wait", {"End"}) EXCEPT !.bad = {"input"}],
     O |-> [S("Task", {"End"}) EXCEPT !.bad = {"output"}, !.timeout = TRUE],
     K |-> [S("Task", {"End"}) EXCEPT !.bad = {"timeout"}, !.timeout = TRUE],
     R |-> [S("Map", {"End"}) EXCEPT !.start = <<"Z">>, !.total = 2, !.bad = {"output"}],
     Z |-> S("Pass", {"End"}),
     U |-> [S("Wait", {"End"}) EXCEPT !.bad = {"duration"}],
     L |-> [S("Map", {"End"}) EXCEPT !.start = <<"Z">>, !.total = 5, !.max = two],
     J |-> [S("Map", {"End"}) EXCEPT !.start = <<"V">>, !.total = 3, !.max = two]]

\* With room for two a Map may refill twice before a spawn lands, and hang.
Every == EveryWithRoom(2)
EveryByOne == EveryWithRoom(1)

\* Three items with room for two, each waiting for a worker.
ThreeByTwo ==
    [M |-> [S("Map", {"End"}) EXCEPT !.start = <<"T">>, !.total = 3, !.max = 2],
     T |-> S("Task", {"End"})]

\* A Task alone, which fails for good at its first failure.
Single == [T |-> S("Task", {"End"})]

\* A Fail state alone.
Failing == [X |-> S("Fail", {"End"})]
=============================================================================
