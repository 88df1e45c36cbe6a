----------------------------- MODULE RocksStore -----------------------------
(***************************************************************************)
(* The persistent backend (storage/rocks.rs): every row, edge, scope and    *)
(* scalar is one key of one ordered map, and a transaction is RocksDB's own. *)
(* A stored value carries what it decodes as: a row of its kind, a scope, a  *)
(* child reference or an integer.                                          *)
(***************************************************************************)
EXTENDS StorageKeys

Absent == [kind |-> "absent"]

\* External: an OptimisticTransactionDB's transaction resolves a key from its own
\* pending writes, a delete among them, before the committed store.
Overlay(kv, txn) ==
    LET Live == {k \in DOMAIN txn : txn[k] # Absent}
    IN  [k \in Live \union (DOMAIN kv \ DOMAIN txn) |->
            IF k \in Live THEN txn[k] ELSE kv[k]]

\* External: an iterator placed at `prefix` moves forward in key order to the end
\* of the store.  The database is opened with no prefix extractor, so nothing
\* ends the iteration of prefix_iterator at the prefix either.
KeysFrom(kv, prefix) == {k \in DOMAIN kv : KeyBefore(prefix, k)}

-----------------------------------------------------------------------------
\* RocksTxn::get_row.
RocksGet(kv, key) == IF key \in DOMAIN kv THEN kv[key] ELSE Absent

\* The per-kind reads of the transaction: get_execution .. get_task.
RocksRow(kv, txn, ref) == RocksGet(Overlay(kv, txn), RowKey(ref))

\* RocksTxn::get_flow_by_name, get_flow_version, flow_version_of.
RocksFlow(kv, txn, ref) == RocksGet(Overlay(kv, txn), RowKey(ref))

\* RocksStorage::get_execution .. get_task, on the committed store.
RocksDbRow(kv, ref) == RocksGet(kv, RowKey(ref))

\* RocksStorage::get_flow_by_name, get_flow_version, flow_version_of.
RocksDbFlow(kv, ref) == RocksGet(kv, RowKey(ref))

\* An integer cell, 0 when it was never written.
Scalar(kv, key) == IF key \in DOMAIN kv THEN kv[key].n ELSE 0

\* RocksStorage::last_processed_position and next_generated_seq.
RocksPosition(kv) == Scalar(kv, PositionKey)
RocksSeq(kv) == Scalar(kv, SeqKey)

\* RocksTxn::next_generated_seq.
RocksTxnSeq(kv, txn) == Scalar(Overlay(kv, txn), SeqKey)

\* The keys a scan that checks starts_with(prefix) takes: it stops at the first
\* key that does not.
Bounded(keys, prefix) ==
    LET foreign == {k \in keys : ~IsPrefix(prefix, k)}
    IN  {k \in keys \ foreign : \A h \in foreign : KeyBefore(k, h)}

\* Mutation of RocksTxnChildren: the parent's name is not closed by a '/'.
MutRocksTxnChildren(kv, txn, parent) ==
    LET all == Overlay(kv, txn)
    IN  {all[k].to : k \in Bounded(KeysFrom(all, Children(parent)), Children(parent))}

\* RocksTxn::get_children.
RocksTxnChildren(kv, txn, parent) ==
    LET all == Overlay(kv, txn)
    IN  {all[k].to : k \in Bounded(KeysFrom(all, ChildEdgePrefix(parent)),
                                   ChildEdgePrefix(parent))}

\* RocksStorage::get_children.
RocksChildren(kv, parent) ==
    {kv[k].to : k \in Bounded(KeysFrom(kv, ChildEdgePrefix(parent)),
                              ChildEdgePrefix(parent))}

\* RocksTxn::activatable_tasks: bounded by the prefix.
RocksTxnActivatable(kv, txn, now) ==
    LET all == Overlay(kv, txn)
        rows == {all[k] : k \in Bounded(KeysFrom(all, KindPrefix("task")),
                                        KindPrefix("task"))}
    IN  {Ref(r) : r \in {x \in rows : ClaimableAt(x, now)}}

Scanned(tasks) == [ok |-> TRUE, tasks |-> tasks]
DecodeError == [ok |-> FALSE, tasks |-> {}]

\* RocksStorage::activatable_tasks: every key the iterator yields is decoded as a
\* task, and the first that is none fails the scan.
RocksActivatable(kv, now) ==
    LET rows == {kv[k] : k \in KeysFrom(kv, KindPrefix("task"))}
    IN  IF \A r \in rows : r.kind = "task"
        THEN Scanned({Ref(r) : r \in {x \in rows : ClaimableAt(x, now)}})
        ELSE DecodeError

Listed(names) == [ok |-> TRUE, names |-> names]
ListFails == [ok |-> FALSE, names |-> {}]

\* from_parsed, as far as the text of a key can fail it: a name is not empty, starts
\* with a letter and has no '/'.
IsNameText(text) ==
    /\ text # <<>> /\ text[1] # Dash
    /\ \A i \in DOMAIN text : text[i] # Slash

\* RocksStorage::list_kind: what follows as many bytes as the prefix has, in every key
\* the iterator yields, is taken for the name of a row.  One that is no name fails the
\* call; a key shorter than the prefix makes the slice panic, which answers no more.
RocksList(kv, kind) ==
    LET prefix == KindPrefix(kind)
        texts == {SubSeq(k, Len(prefix) + 1, Len(k)) : k \in KeysFrom(kv, prefix)}
    IN  IF \A t \in texts : IsNameText(t) THEN Listed(texts) ELSE ListFails

-----------------------------------------------------------------------------
\* RocksTxn::put_row and delete_row under put_*, put_variables, add_child,
\* remove_child and put_next_generated_seq.
RocksWrite(txn, w) ==
    CASE w.op = "row"    -> Upsert(txn, RowKey(Ref(w.row)), w.row)
      [] w.op = "vars"   -> Upsert(txn, VariablesKey(w.thread),
                                   [kind |-> "vars", thread |-> w.thread, value |-> w.value])
      [] w.op = "add"    -> Upsert(txn, ChildEdge(w.edge[1], w.edge[2]),
                                   [kind |-> "edge", from |-> w.edge[1], to |-> w.edge[2]])
      [] w.op = "remove" -> Upsert(txn, ChildEdge(w.edge[1], w.edge[2]), Absent)
      [] w.op = "seq"    -> Upsert(txn, SeqKey, [kind |-> "int", n |-> w.n])

RocksWrites(txn, ws) ==
    LET After[i \in 0..Len(ws)] == IF i = 0 THEN txn ELSE RocksWrite(After[i - 1], ws[i])
    IN  After[Len(ws)]

\* Mutation of RocksCommit: the watermark is a write of its own, lost here.
MutRocksCommit(kv, txn, w) == Overlay(kv, txn)

\* RocksTxn::commit: the watermark joins the transaction, which lands whole.
RocksCommit(kv, txn, w) ==
    Overlay(kv, Upsert(txn, PositionKey, [kind |-> "int", n |-> w]))

RowKinds == {"execution", "thread", "activity", "task", "flow", "flowversion"}

\* What is stored, read back as contents.
RocksContents(kv) ==
    LET Of(kind) == {k \in DOMAIN kv : kv[k].kind = kind}
        rows == {k \in DOMAIN kv : kv[k].kind \in RowKinds}
    IN  [rows |-> [r \in {Ref(kv[k]) : k \in rows} |-> RocksGet(kv, RowKey(r))],
         vars |-> [t \in {kv[k].thread : k \in Of("vars")} |-> kv[VariablesKey(t)].value],
         edges |-> {<<kv[k].from, kv[k].to>> : k \in Of("edge")},
         seq |-> RocksSeq(kv),
         watermark |-> RocksPosition(kv)]

=============================================================================
