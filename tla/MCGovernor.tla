---------------------------- MODULE MCGovernor ----------------------------
EXTENDS Governor, TLC

CONSTANTS t1, t2, t3

Ask1(k, b, tok) == [kind |-> k, background |-> b, token |-> tok]
Limit(n, pauses) == [spacing |-> 1, concurrency |-> n, contract |-> 2, pauses |-> pauses]
TwoOpen  == Limit(2, {})
OneOpen  == Limit(1, {})

\* A cancellable mutation, a foreground read and a background contract read.
Mixed == {Ask1("Mutation", FALSE, TRUE), Ask1("Contract", TRUE, FALSE), Ask1("Read", FALSE, FALSE)}
\* Reads only: the preferred kind against the doubly delayed one.
Reads == {Ask1("Read", FALSE, FALSE), Ask1("Contract", TRUE, FALSE)}
Tightened == {OneOpen, Limit(2, {"background"})}
NoPolicies == {}
ThreadSymmetry == Permutations(Threads)
=============================================================================
