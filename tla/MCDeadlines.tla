----------------------------- MODULE MCDeadlines -----------------------------
EXTENDS Deadlines

\* None, in and out of range, a moment already past and one to come.
SomeSettings ==
    { [field |-> "none", n |-> 0],
      [field |-> "Seconds", n |-> 1],
      [field |-> "Seconds", n |-> MaxWaitSeconds + 1],
      [field |-> "Timestamp", n |-> 0] }

=============================================================================
