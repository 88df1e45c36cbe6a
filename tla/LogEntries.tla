----------------------------- MODULE LogEntries -----------------------------
(***************************************************************************)
(* The records of the append-only log and what can be read off a log       *)
(* alone.  A position is a 1-based index into the log (`EntryId`).  An     *)
(* entry is a Command, an Event, a Reject or a Noop; its payload is         *)
(* abstracted to that kind.  `cause` is the position of the Command whose   *)
(* dispatch produced the entry, NoCause for an entry appended from outside  *)
(* the processor.                                                          *)
(***************************************************************************)
EXTENDS Naturals, Sequences

NoCause == 0

Kinds == {"command", "event", "reject", "noop"}

Entry == [kind : Kinds, cause : Nat]

Noop(c) == [kind |-> "noop", cause |-> c]

\* NoopTerminatedLogStream::append: an append that does not already end in a
\* Noop gets an inert, causeless one.
NoopTerminated(es) ==
    IF Len(es) > 0 /\ es[Len(es)].kind = "noop"
    THEN es
    ELSE Append(es, Noop(NoCause))

\* The batch the driver appends for the Command at position c: the entries the
\* dispatch collected, stamped with their cause, closed by the commit marker.
Batch(kinds, c) ==
    Append([i \in 1..Len(kinds) |-> [kind |-> kinds[i], cause |-> c]], Noop(c))

Positions(log, kind) == {p \in 1..Len(log) : log[p].kind = kind}

EventsUpTo(log, n) == {p \in Positions(log, "event") : p <= n}

\* The batches a log holds for the Command at position c, each named by the
\* position of its commit marker.
BatchesOf(log, c) == {p \in Positions(log, "noop") : log[p].cause = c}

Answered(log, c) == BatchesOf(log, c) # {}

=============================================================================
