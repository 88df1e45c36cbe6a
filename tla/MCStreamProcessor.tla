-------------------------- MODULE MCStreamProcessor --------------------------
EXTENDS StreamProcessor

\* Every shape a dispatch's batch takes: an event alone, an event with a
\* follow-up Command, two events, a follow-up alone (a deadline fire), an
\* in-band refusal (CreateFlow).
AllOutcomes ==
    { <<"event">>, <<"event", "command">>, <<"event", "event">>,
      <<"command">>, <<"reject">> }

=============================================================================
