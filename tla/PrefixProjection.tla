-------------------------- MODULE PrefixProjection --------------------------
(***************************************************************************)
(* What a processing role promises about its projection, whoever runs it:  *)
(* the log only grows, and the durable projection is at every moment the    *)
(* fold of exactly the Events of a prefix of the log that ends at a batch   *)
(* boundary.  `watermark` is that boundary (`last_processed_position`), and *)
(* `applied` the positions of the Events the projection reflects.           *)
(***************************************************************************)
EXTENDS LogEntries

VARIABLES log, watermark, applied

pvars == <<log, watermark, applied>>

Init ==
    /\ log = <<>>
    /\ watermark = 0
    /\ applied = {}

\* Some writer appends; nothing already written changes.
Grow ==
    /\ Len(log') >= Len(log)
    /\ \A p \in 1..Len(log) : log'[p] = log[p]
    /\ UNCHANGED <<watermark, applied>>

\* The projection moves to a later batch boundary in one transaction.
Fold ==
    /\ \E n \in (watermark + 1)..Len(log) :
          /\ log[n].kind = "noop"
          /\ watermark' = n
          /\ applied' = EventsUpTo(log, n)
    /\ UNCHANGED log

Next == Grow \/ Fold

Spec == Init /\ [][Next]_pvars

=============================================================================
