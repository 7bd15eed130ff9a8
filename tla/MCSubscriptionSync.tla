------------------------- MODULE MCSubscriptionSync -------------------------
(***************************************************************************)
(* SubscriptionSync for TLC: up to three requests of two callers.          *)
(***************************************************************************)
EXTENDS SubscriptionSync, TLC

CONSTANTS c1, c2, r1, r2, r3, s1, u1, u2, n1, n2

OneConsumer == {c1}
TwoConsumers == {c1, c2}
TwoRequests == {r1, r2}
ThreeRequests == {r1, r2, r3}
OneSub == {s1}
TwoNames == {n1, n2}
TwoUsers == {u1, u2}
Caller == [r \in Requests |-> IF r = r3 THEN u2 ELSE u1]

RedeliveryFaults == {"crash", "producerRetry"}

SymConsumersNames == Permutations(Consumers) \cup Permutations(Names)
=============================================================================
