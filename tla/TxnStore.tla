------------------------------ MODULE TxnStore ------------------------------
(***************************************************************************)
(* What the Storage seam promises of a store and its one fold transaction, *)
(* whichever backend holds the rows (engine-types, storage/mod.rs).  Reads  *)
(* of the open transaction see the committed contents overlaid with every   *)
(* write the transaction made so far, the last one winning; a commit lands  *)
(* all of them with the watermark; a dropped transaction leaves no trace.   *)
(* The contents may be ahead of what the machine has written out: a power   *)
(* loss brings back an earlier commit, whole.                               *)
(***************************************************************************)
EXTENDS StoreContents

VARIABLES
    store,     \* committed contents, what every reader outside the fold sees
    disk,      \* the commit a power loss would bring back
    view,      \* what the open transaction reads (the store, when none is open)
    pending    \* the writes of the open transaction, in order

svars == <<store, disk, view, pending>>

Init ==
    /\ store = Empty
    /\ disk = Empty
    /\ view = Empty
    /\ pending = <<>>

\* begin_txn if none is open, then writes.
Work ==
    /\ Len(pending') >= Len(pending)
    /\ SubSeq(pending', 1, Len(pending)) = pending
    /\ view' = ApplyWrites(view, SubSeq(pending', Len(pending) + 1, Len(pending')))
    /\ UNCHANGED <<store, disk>>

\* All or nothing; the disk may catch up with it.
Commit ==
    /\ store'.watermark > store.watermark
    /\ store' = [view EXCEPT !.watermark = store'.watermark]
    /\ view' = store'
    /\ pending' = <<>>
    /\ disk' \in {disk, store'}

\* The transaction is dropped; the contents survive, or fall back to the disk's.
Abandon ==
    /\ store' \in {store, disk}
    /\ view' = store'
    /\ pending' = <<>>
    /\ UNCHANGED disk

Next == Work \/ Commit \/ Abandon

Spec == Init /\ [][Next]_svars

=============================================================================
