------------------------------ MODULE LogStream ------------------------------
(***************************************************************************)
(* The log itself, with one tailing reader, in its two forms: the vector   *)
(* in memory (logstream/memory.rs) and the RocksDB store                   *)
(* (logstream/rocks.rs).  `rows` maps a position to the entry stored there, *)
(* stamped with the `id` the log gave it.  The watch channel is abstracted  *)
(* to what a receiver sees of it: whether something was sent since the      *)
(* receiver last looked.                                                    *)
(***************************************************************************)
EXTENDS LogEntries, FiniteSets

VARIABLES
    backend,    \* "memory" or "rocks"
    rows,       \* position -> stored entry
    nextId,     \* next_entry_id / WriterState.next_id, in memory
    metaNext,   \* META_NEXT_ID, on disk with the rows (RocksDB only)
    unsent,     \* appends in memory past the mutex and before watch.send
    reader,     \* "none", "sweep", "caught_up" or "wait"
    next,       \* the reader's own position
    buffer,     \* entries swept and not yet yielded
    changed     \* the reader's receiver has an unseen version

logVars == <<rows, nextId, metaNext, unsent>>
readerVars == <<reader, next, buffer>>
streamVars == <<backend, logVars, readerVars, changed>>

StreamInit ==
    /\ backend \in {"memory", "rocks"}
    /\ rows = <<>>
    /\ nextId = 1
    /\ metaNext = 1
    /\ unsent = 0
    /\ reader = "none"
    /\ next = 1
    /\ buffer = <<>>
    /\ changed = FALSE

\* The log stamps contiguous positions from its own counter.
Stamped(es) ==
    [i \in 1..Len(es) |->
        [kind |-> es[i].kind, cause |-> es[i].cause, id |-> nextId + i - 1]]

\* The rows once `more` is written over them.
Stored(more) ==
    [p \in DOMAIN rows \union DOMAIN more |-> IF p \in DOMAIN more THEN more[p] ELSE rows[p]]

\* A watch send is seen by the receivers subscribed at that moment.
Send == changed' = (reader # "none")

\* InMemoryLogStream::append up to the end of its critical section: the vector
\* is extended where it ends.
MemAppend(es) ==
    /\ backend = "memory"
    /\ LET end == Cardinality(DOMAIN rows)
       IN rows' = Stored([p \in (end + 1)..(end + Len(es)) |-> Stamped(es)[p - end]])
    /\ nextId' = nextId + Len(es)
    /\ unsent' = unsent + 1
    /\ UNCHANGED <<metaNext, readerVars, changed>>

\* The rest of that append, outside the mutex: the tailing readers are told.
MemNotify ==
    /\ unsent > 0
    /\ unsent' = unsent - 1
    /\ Send
    /\ UNCHANGED <<backend, rows, nextId, metaNext, readerVars>>

\* Mutation of RocksAppend: the counter moves before the write is known to land.
MutRocksAppend(es) ==
    /\ backend = "rocks"
    /\ nextId' = nextId + Len(es)
    /\ \/ /\ rows' = Stored([p \in nextId..(nextId + Len(es) - 1) |-> Stamped(es)[p - nextId + 1]])
          /\ metaNext' = nextId + Len(es)
          /\ Send
       \/ UNCHANGED <<rows, metaNext, changed>>
    /\ UNCHANGED <<unsent, readerVars>>

\* RocksLogStream::append: the entries and the counter in one synced WriteBatch,
\* and the cached counter and the notification only when it was written; a
\* failed append leaves nothing.
RocksAppend(es) ==
    /\ backend = "rocks"
    /\ \/ /\ rows' = Stored([p \in nextId..(nextId + Len(es) - 1) |-> Stamped(es)[p - nextId + 1]])
          /\ metaNext' = nextId + Len(es)
          /\ nextId' = nextId + Len(es)
          /\ Send
       \/ UNCHANGED <<rows, metaNext, nextId, changed>>
    /\ UNCHANGED <<unsent, readerVars>>

\* RocksLogStream::open after a process went down: the counter comes from disk.
RocksOpen == nextId' = IF backend = "rocks" THEN metaNext ELSE nextId

\* stream_read: subscribe now, start sweeping at `from`, nil meaning the start.
StreamRead(from) ==
    /\ reader' = "sweep"
    /\ next' = IF from = 0 THEN 1 ELSE from
    /\ buffer' = <<>>
    /\ changed' = FALSE

\* What one pass over the log finds from the reader's position: a single entry of
\* the vector, or all committed rows of the RocksDB store in position order.  Every
\* row reads back and decodes here; the code passes over one that does not.
Swept ==
    IF backend = "memory"
    THEN IF next \in DOMAIN rows THEN <<rows[next]>> ELSE <<>>
    ELSE LET found == {p \in DOMAIN rows : p >= next}
             nth(i) == CHOOSE p \in found : Cardinality({q \in found : q <= p}) = i
         IN [i \in 1..Cardinality(found) |-> rows[nth(i)]]

\* One round of stream_read's loop: what is there is yielded, and a reader that
\* finds nothing goes on to wait.
Sweep ==
    /\ reader = "sweep"
    /\ buffer = <<>>
    /\ buffer' = Swept
    /\ reader' = IF Swept = <<>> THEN "caught_up" ELSE "sweep"
    /\ UNCHANGED <<backend, logVars, next, changed>>

\* Mutation of Park: what was sent so far counts as seen.
MutPark ==
    /\ reader = "caught_up"
    /\ reader' = "wait"
    /\ changed' = FALSE
    /\ UNCHANGED <<backend, logVars, next, buffer>>

\* rx.changed() is called, after the log was last looked at and not with it.
Park ==
    /\ reader = "caught_up"
    /\ reader' = "wait"
    /\ UNCHANGED <<backend, logVars, next, buffer, changed>>

\* rx.changed().await returns, and marks the version seen.
Wake ==
    /\ reader = "wait"
    /\ changed
    /\ changed' = FALSE
    /\ reader' = "sweep"
    /\ UNCHANGED <<backend, logVars, next, buffer>>

\* The consumer takes the next entry of the stream.
Yield ==
    /\ buffer # <<>>
    /\ next' = next + 1
    /\ buffer' = Tail(buffer)
    /\ UNCHANGED <<backend, logVars, reader, changed>>

Yielded == Head(buffer)

\* The consumer drops its stream.
Drop ==
    /\ reader' = "none"
    /\ next' = 1
    /\ buffer' = <<>>
    /\ changed' = FALSE

\* The log as its users know it: the entry at each position.
Log == [p \in 1..Cardinality(DOMAIN rows) |->
          IF p \in DOMAIN rows THEN [kind |-> rows[p].kind, cause |-> rows[p].cause]
          ELSE Noop(NoCause)]

=============================================================================
