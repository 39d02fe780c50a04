------------------------------ MODULE MCOutbox ------------------------------
EXTENDS Outbox
\* attempt 1 waits one tick, the attempt at the limit is never retried
MCRetryDelay == [n \in 1..MaxAttempts |-> n]
=============================================================================
