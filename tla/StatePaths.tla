------------------------------ MODULE StatePaths -----------------------------
(***************************************************************************)
(* The pointer to a state inside a definition and the walk that resolves it *)
(* (asl/state_path.rs).  A path is a sequence of tokens, all strings; a      *)
(* scope is [start, states], a state has a type and, by its type, Next,      *)
(* Branches (a sequence of scopes) and ItemProcessor (a set of at most one). *)
(***************************************************************************)
EXTENDS Naturals, Sequences

\* A branch index as its token.
IndexToken == <<"0", "1", "2">>

RootPath == <<"States">>
StateName(path) == IF path = <<>> THEN "" ELSE path[Len(path)]
PopBack(path) == IF path = <<>> THEN <<>> ELSE SubSeq(path, 1, Len(path) - 1)

\* StatePath::state, branch, item_processor and sibling.
StatePath(path, name) == Append(path, name)
BranchPath(path, index) == path \o <<"Branches", IndexToken[index + 1], "States">>
ItemProcessorPath(path) == path \o <<"ItemProcessor", "States">>
MutSibling(path, next) == Append(path, next)
Sibling(path, next) == Append(PopBack(path), next)

Found(x) == [found |-> {x}, error |-> "none"]
Fails(error) == [found |-> {}, error |-> error]

\* One step of walk_states below a state: the scope it opens and the tokens it takes.
Opens(state, tokens) ==
    CASE state.type = "Parallel" ->
           IF tokens = <<>> \/ tokens[1] # "Branches" THEN Fails("Malformed")
           ELSE IF Len(tokens) = 1 THEN Fails("NotFound")
           ELSE IF \A i \in DOMAIN IndexToken : IndexToken[i] # tokens[2] THEN Fails("Malformed")
           ELSE LET i == CHOOSE k \in DOMAIN IndexToken : IndexToken[k] = tokens[2]
                IN  IF i > Len(state.branches) THEN Fails("NotFound")
                    ELSE Found([states |-> state.branches[i].states, used |-> 2])
      [] state.type = "Map" ->
           IF tokens = <<>> \/ tokens[1] # "ItemProcessor" THEN Fails("Malformed")
           ELSE IF state.processor = {} THEN Fails("Malformed")
           ELSE Found([states |-> (CHOOSE p \in state.processor : TRUE).states, used |-> 1])
      [] OTHER -> Fails("Malformed")

\* StateMachine::walk_states, from token i on: the table the rest of the path names.
\* Every round takes at least two tokens, so as many rounds as tokens are enough.
WalkStates(machine, tokens) ==
    LET Round[n \in 0..Len(tokens)] ==
          IF n = 0
          THEN [at |-> 1, states |-> machine.states, result |-> Fails("walking")]
          ELSE LET r == Round[n - 1]
                   Ends(result) == [r EXCEPT !.result = result]
               IN  IF r.result # Fails("walking") THEN r
                   ELSE IF r.at > Len(tokens) THEN Ends(Found(r.states))
                   ELSE IF tokens[r.at] # "States" THEN Ends(Fails("Malformed"))
                   ELSE IF r.at = Len(tokens) THEN Ends(Found(r.states))
                   ELSE IF tokens[r.at + 1] \notin DOMAIN r.states THEN Ends(Fails("NotFound"))
                   ELSE LET step == Opens(r.states[tokens[r.at + 1]],
                                          SubSeq(tokens, r.at + 2, Len(tokens)))
                        IN  IF step.found = {} THEN Ends(step)
                            ELSE LET to == CHOOSE s \in step.found : TRUE
                                 IN  [r EXCEPT !.at = r.at + 2 + to.used, !.states = to.states]
        last == Round[Len(tokens)]
    IN  IF last.result = Fails("walking") THEN Found(last.states) ELSE last.result

\* StateMachine::state_at: the table the parent names, then the leaf in it.
StateAt(machine, path) ==
    LET table == WalkStates(machine, PopBack(path))
        leaf  == StateName(path)
    IN  IF table.found = {} THEN table
        ELSE LET states == CHOOSE t \in table.found : TRUE
             IN  IF leaf \in DOMAIN states THEN Found(states[leaf]) ELSE Fails("NotFound")
=============================================================================
