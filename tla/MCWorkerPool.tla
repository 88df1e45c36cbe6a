---------------------------- MODULE MCWorkerPool -----------------------------
(***************************************************************************)
(* Two retriers: the first matches one error, waits past the end of time    *)
(* and has a MaxAttempts that wraps to 1; the second matches both, capped.  *)
(***************************************************************************)
EXTENDS WorkerPool

TwoRetriers ==
    <<[errors |-> {"e1"}, max |-> 17, interval |-> 100, rate |-> 2, cap |-> 0],
      [errors |-> {"e1", "e2"}, max |-> 1, interval |-> 2, rate |-> 2, cap |-> 1]>>
=============================================================================
