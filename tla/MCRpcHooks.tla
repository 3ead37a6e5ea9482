----------------------------- MODULE MCRpcHooks -----------------------------
EXTENDS RpcHooks

\* Two brokers; on the first a successful and a failed round trip of one API and
\* a dial that fails and one that succeeds, on the second a throttle and a
\* disconnect.  The durations sit on a bucket's bound, below the first and above
\* the last.
MCSaw ==
  <<[kind |-> "e2e", broker |-> 1, api |-> 3, ok |-> TRUE, took |-> 2],
    [kind |-> "e2e", broker |-> 1, api |-> 3, ok |-> FALSE, took |-> 0],
    [kind |-> "connect", broker |-> 1, api |-> 0, ok |-> FALSE, took |-> 0],
    [kind |-> "connect", broker |-> 1, api |-> 0, ok |-> TRUE, took |-> 5],
    [kind |-> "throttle", broker |-> 2, api |-> 0, ok |-> TRUE, took |-> 3],
    [kind |-> "disconnect", broker |-> 2, api |-> 0, ok |-> TRUE, took |-> 0]>>
MCCalls == 1..6
MCBounds == <<2, 4>>
MCCycleTicks == {3}
=============================================================================
