------------------------------ MODULE Follower ------------------------------
(***************************************************************************)
(* The replicate-only role over the log it tails: fold each batch's Events  *)
(* into one held transaction, and commit it at the batch's Noop.  The       *)
(* writer is abstract: it appends whole Noop-terminated batches.            *)
(***************************************************************************)
EXTENDS LogStream

CONSTANTS
    Outcomes,        \* entry-kind sequences a leader's dispatch may collect
    MaxLog,          \* bound: length of the log
    MaxUnsent,       \* bound: appends at once between the mutex and the send
    MaxRestarts      \* bound: times the follower goes down

ASSUME FollowerAssumption ==
    /\ Outcomes \subseteq Seq({"command", "event", "reject"})
    /\ MaxLog \in Nat
    /\ MaxUnsent \in Nat \ {0}
    /\ MaxRestarts \in Nat

VARIABLES watermark, applied, txn, restarts

followerVars == <<watermark, applied, txn, restarts>>
vars == <<streamVars, followerVars>>

Init ==
    /\ StreamInit
    /\ watermark = 0
    /\ applied = {}
    /\ txn = {}
    /\ restarts = 0

\* What a leader appends: a bare Command with its inert Noop, or the batch of a
\* Command already on the log.
Appends ==
    { NoopTerminated(<<[kind |-> "command", cause |-> NoCause]>>) }
        \union { Batch(kinds, c) : kinds \in Outcomes, c \in Positions(Log, "command") }

Replicate ==
    /\ \E es \in Appends :
          /\ nextId - 1 + Len(es) <= MaxLog
          /\ unsent < MaxUnsent
          /\ MemAppend(es) \/ RocksAppend(es)
    /\ UNCHANGED <<backend, followerVars>>

\* StreamProcessor::run, follower branch: tail from one past the watermark.
Boot ==
    /\ reader = "none"
    /\ StreamRead(watermark + 1)
    /\ UNCHANGED <<backend, logVars, followerVars>>

Reads(kinds) ==
    /\ Yield
    /\ Yielded.kind \in kinds
    /\ UNCHANGED restarts

\* run_follower, Command and Reject arms.
Skip ==
    /\ Reads({"command", "reject"})
    /\ UNCHANGED <<watermark, applied, txn>>

\* Mutation of FoldEvent: committed at once.
MutFoldEvent ==
    /\ Reads({"event"})
    /\ watermark' = Yielded.id
    /\ applied' = applied \union {Yielded.id}
    /\ UNCHANGED txn

\* Follower::apply_event: fold into the held transaction, commit nothing.
ApplyEvent ==
    /\ txn' = txn \union {Yielded.id}
    /\ UNCHANGED <<watermark, applied>>

\* run_follower, Event arm.
FoldEvent == Reads({"event"}) /\ ApplyEvent

\* Follower::commit_at_noop: the batch is whole, commit it at the marker's own position.
CommitAtNoop ==
    /\ watermark' = Yielded.id
    /\ applied' = applied \union txn

\* run_follower, Noop arm; a Noop with nothing in flight is skipped.
RoundOff ==
    /\ Reads({"noop"})
    /\ IF txn = {} THEN UNCHANGED <<watermark, applied>> ELSE CommitAtNoop
    /\ txn' = {}

\* A crash or a cancelled loop drops the stream and the held transaction.
GoDown ==
    /\ reader # "none"
    /\ restarts < MaxRestarts
    /\ restarts' = restarts + 1
    /\ txn' = {}
    /\ Drop
    /\ RocksOpen
    /\ UNCHANGED <<backend, rows, metaNext, unsent, watermark, applied>>

TailLog == (Sweep \/ Park \/ Wake) /\ UNCHANGED followerVars

Follow == Boot \/ TailLog \/ Skip \/ FoldEvent \/ RoundOff

Notify == MemNotify /\ UNCHANGED followerVars

Next == Replicate \/ Notify \/ Follow \/ GoDown

Spec == Init /\ [][Next]_vars

\* The tailing task is polled whenever it can move and is restarted after a
\* crash; an append in progress gets to its send.
FairSpec == Spec /\ WF_vars(Follow) /\ WF_vars(Notify)

-----------------------------------------------------------------------------
Projection == INSTANCE PrefixProjection
                WITH log <- Log, watermark <- watermark, applied <- applied

\* The log only grows, and the replica's projection is always the fold of a
\* whole-batch prefix of it: a crash in the middle of a batch leaves none of its
\* Events applied, and a failed append leaves no trace.
RefinesProjection == Projection!Spec

\* A stream hands out every entry under its own position and in order, whatever
\* was appended, failed to append or reopened since its sweep: what it is about
\* to yield is the entry at its cursor, and the positions have no gap.
StreamHasNoGap ==
    /\ DOMAIN rows = 1..(nextId - 1)
    /\ \A i \in 1..Len(buffer) : buffer[i] = rows[next + i - 1]
    /\ \A i \in 1..Len(buffer) : buffer[i].id = next + i - 1

\* A replica that is restarted after each crash ends up reflecting every Event
\* of the log: no wake-up is lost between a sweep that found nothing and the
\* wait that follows it.
Converges == <>[](applied = Positions(Log, "event"))

=============================================================================
