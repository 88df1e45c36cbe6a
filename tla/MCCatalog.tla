------------------------------ MODULE MCCatalog ------------------------------
(***************************************************************************)
(* A small catalogue: short names, a radix of three so that the suffixes' text *)
(* order and number order part early, and definitions whose state names are   *)
(* the words of the path grammar.                                           *)
(***************************************************************************)
EXTENDS Catalog

\* "ab", "ab_", and texts that are no plain name: too short, too long, a reserved '-'.
MCRaws == { <<20, 21>>, <<20, 21, 12>>, <<20>>, <<20, 21, 20, 21>>, <<20, 0, 3>> }

State(type, next) == [type |-> type, next |-> next, branches |-> <<>>, processor |-> {}]
ScopeOf(start, states) == [start |-> start, states |-> states]

\* A scope of two states, told apart from the others by the types of its states.
Leaf(first, second) ==
    ScopeOf("States", "States" :> State(first, "0") @@ "0" :> State(second, "gone"))

\* A Map named ItemProcessor inside a branch of a Parallel named Branches.
Nested ==
    ScopeOf("Branches",
        "Branches" :> [State("Parallel", "States") EXCEPT !.branches =
            <<Leaf("Pass", "Wait"),
              ScopeOf("ItemProcessor",
                 "ItemProcessor" :> [State("Map", "0") EXCEPT !.processor = {Leaf("Wait", "Pass")}] @@
                 "0" :> [State("Parallel", "") EXCEPT !.branches = <<Leaf("Task", "Task")>>])>>] @@
        "States" :> State("Succeed", ""))

MCDocuments == <<Nested>>
=============================================================================
