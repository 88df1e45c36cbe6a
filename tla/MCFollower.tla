----------------------------- MODULE MCFollower -----------------------------
EXTENDS Follower

\* A refusal, a follow-up alone, one event, and two events around a follow-up.
SomeOutcomes ==
    { <<"reject">>, <<"command">>, <<"event">>, <<"event", "command", "event">> }

=============================================================================
