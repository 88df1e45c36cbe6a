----------------------------- MODULE MemoryStore -----------------------------
(***************************************************************************)
(* The in-memory backend (storage/memory.rs): maps behind one lock, and a   *)
(* transaction that buffers its writes in a batch of its own.  The six       *)
(* name-keyed row maps are one map keyed by <<kind, name>>.                 *)
(***************************************************************************)
EXTENDS StoreContents

None == [none |-> TRUE]

\* InMemoryDb::default.
MemDb == Empty

\* InMemoryBatch::default.  An edge is mapped to the fold's last decision on it.
MemBatch == [rows |-> <<>>, vars |-> <<>>, edges |-> <<>>, seq |-> None]

\* InMemoryTxn::get_execution, get_thread, get_activity, get_task: the batch
\* first, then the committed map.
MemGet(db, b, ref) ==
    CASE ref \in DOMAIN b.rows  -> b.rows[ref]
      [] ref \in DOMAIN db.rows -> db.rows[ref]
      [] OTHER -> None

\* InMemoryTxn::get_flow_by_name, get_flow_version and flow_version_of: the same
\* two places.
MemGetFlow(db, b, ref) == MemGet(db, b, ref)

\* The committed reads of InMemoryStorage, of any kind.
MemDbGet(db, ref) == IF ref \in DOMAIN db.rows THEN db.rows[ref] ELSE None

\* InMemoryDb's flow reads on the committed maps.
MemDbGetFlow(db, ref) == MemDbGet(db, ref)

\* InMemoryTxn::get_variables: an absent scope reads as empty.
MemVariables(db, b, thread) ==
    CASE thread \in DOMAIN b.vars  -> b.vars[thread]
      [] thread \in DOMAIN db.vars -> db.vars[thread]
      [] OTHER -> {}

\* InMemoryDb::children and Storage::get_children.
MemDbChildren(db, parent) == {e[2] : e \in {x \in db.edges : x[1] = parent}}

\* InMemoryBatch::children: the committed edges under this fold's decisions.
MemChildren(db, b, parent) ==
    LET Mine == {e \in DOMAIN b.edges : e[1] = parent}
    IN  (MemDbChildren(db, parent) \ {e[2] : e \in {x \in Mine : ~b.edges[x]}})
            \union {e[2] : e \in {x \in Mine : b.edges[x]}}

\* InMemoryTxn::next_generated_seq: the fold's own bump first.
MemSeq(db, b) == IF b.seq = None THEN db.seq ELSE b.seq.n

\* Storage::activatable_tasks: a scan of the committed task map.  The cap of the
\* caller is left out: any subset of the claimable tasks up to it may come back.
MemDbActivatable(db, now) ==
    {r \in DOMAIN db.rows : r[1] = "task" /\ ClaimableAt(db.rows[r], now)}

\* InMemoryTxn::activatable_tasks: the batch's rows supersede the committed ones.
MemActivatable(db, b, now) ==
    {r \in DOMAIN db.rows \union DOMAIN b.rows :
        r[1] = "task" /\ ClaimableAt(MemGet(db, b, r), now)}

\* Storage::list_kind: the committed names of a kind.
MemList(db, kind) == {r[2] : r \in {x \in DOMAIN db.rows : x[1] = kind}}

\* Everything the transaction can read, as contents.
MemView(db, b) ==
    LET rows == DOMAIN db.rows \union DOMAIN b.rows
        threads == DOMAIN db.vars \union DOMAIN b.vars
        parents == {e[1] : e \in db.edges \union DOMAIN b.edges}
    IN  [rows |-> [r \in rows |-> MemGet(db, b, r)],
         vars |-> [t \in threads |-> MemVariables(db, b, t)],
         edges |-> UNION {{p} \X MemChildren(db, b, p) : p \in parents},
         seq |-> MemSeq(db, b),
         watermark |-> db.watermark]

-----------------------------------------------------------------------------
\* InMemoryTxn::put_*, put_variables, add_child, remove_child: into the batch.
MemWrite(b, w) ==
    CASE w.op = "row"    -> [b EXCEPT !.rows = Upsert(b.rows, Ref(w.row), w.row)]
      [] w.op = "vars"   -> [b EXCEPT !.vars = Upsert(b.vars, w.thread, w.value)]
      [] w.op = "add"    -> [b EXCEPT !.edges = Upsert(b.edges, w.edge, TRUE)]
      [] w.op = "remove" -> [b EXCEPT !.edges = Upsert(b.edges, w.edge, FALSE)]
      [] w.op = "seq"    -> [b EXCEPT !.seq = [n |-> w.n]]

MemWrites(b, ws) ==
    LET After[i \in 0..Len(ws)] == IF i = 0 THEN b ELSE MemWrite(After[i - 1], ws[i])
    IN  After[Len(ws)]

\* Mutation of MemCommit: pending removals are forgotten.
MutMemCommit(db, b, w) ==
    [rows |-> b.rows @@ db.rows,
     vars |-> b.vars @@ db.vars,
     edges |-> db.edges \union {e \in DOMAIN b.edges : b.edges[e]},
     seq |-> IF b.seq = None THEN db.seq ELSE Larger(db.seq, b.seq.n),
     watermark |-> w]

\* InMemoryTxn::commit: the whole batch and the watermark, under the lock.
MemCommit(db, b, w) ==
    [rows |-> b.rows @@ db.rows,
     vars |-> b.vars @@ db.vars,
     edges |-> (db.edges \ {e \in DOMAIN b.edges : ~b.edges[e]})
                   \union {e \in DOMAIN b.edges : b.edges[e]},
     seq |-> IF b.seq = None THEN db.seq ELSE Larger(db.seq, b.seq.n),
     watermark |-> w]

=============================================================================
