---------------------------- MODULE StoreContents ----------------------------
(***************************************************************************)
(* The contents of a store and the writes a fold makes to them, as the      *)
(* Storage and StorageTxn traits name them (engine-types, storage/mod.rs).  *)
(* Contents are a record: rows by reference <<kind, name>>, variable scopes *)
(* by thread name, ownership edges <<parent, child>>, the generated-name    *)
(* counter and the watermark.  A name is <<base>> when a user chose it and  *)
(* <<base, suffix>> when it was generated.                                 *)
(***************************************************************************)
EXTENDS Integers, Sequences, FiniteSets, SequencesExt, TLC

Ref(row) == <<row.kind, row.name>>

\* f with x mapped to v.
Upsert(f, x, v) == [y \in DOMAIN f \union {x} |-> IF y = x THEN v ELSE f[y]]

Larger(m, n) == IF m > n THEN m ELSE n

Empty == [rows |-> <<>>, vars |-> <<>>, edges |-> {}, seq |-> 0, watermark |-> 0]

\* The writes a fold may make: StorageTxn's put_*, put_variables, add_child,
\* remove_child and put_next_generated_seq.
PutRow(row) == [op |-> "row", row |-> row]
PutVariables(thread, value) == [op |-> "vars", thread |-> thread, value |-> value]
AddChild(parent, child) == [op |-> "add", edge |-> <<parent, child>>]
RemoveChild(parent, child) == [op |-> "remove", edge |-> <<parent, child>>]
PutSeq(n) == [op |-> "seq", n |-> n]

\* What one write does to contents.
ApplyWrite(c, w) ==
    CASE w.op = "row"    -> [c EXCEPT !.rows = Upsert(c.rows, Ref(w.row), w.row)]
      [] w.op = "vars"   -> [c EXCEPT !.vars = Upsert(c.vars, w.thread, w.value)]
      [] w.op = "add"    -> [c EXCEPT !.edges = c.edges \union {w.edge}]
      [] w.op = "remove" -> [c EXCEPT !.edges = c.edges \ {w.edge}]
      [] w.op = "seq"    -> [c EXCEPT !.seq = w.n]

\* The writes ws, one after the other.
ApplyWrites(c, ws) ==
    LET After[i \in 0..Len(ws)] == IF i = 0 THEN c ELSE ApplyWrite(After[i - 1], ws[i])
    IN  After[Len(ws)]

\* Task::is_claimable_at: a Pending task whose retry gate has come, or a Running
\* one whose lease has lapsed.
ClaimableAt(task, now) ==
    \/ task.status = "Pending" /\ task.gate <= now
    \/ task.status = "Running" /\ task.lease <= now

=============================================================================
