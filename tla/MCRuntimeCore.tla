---------------------------- MODULE MCRuntimeCore ----------------------------
\* An instance of RuntimeCore for TLC: a path through every kind of wait.
EXTENDS RuntimeCore

EveryWait == <<"USER_TASK", "EXTERNAL_JOB", "TIMER", "MESSAGE">>

=============================================================================
