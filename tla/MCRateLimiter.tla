--------------------------- MODULE MCRateLimiter ---------------------------
(* Instances of RateLimiter for TLC: half-second ticks. *)
EXTENDS RateLimiter, TLC

CONSTANTS p, q, e1, e2, e3, e4, e5      \* model values: CPUs, elements

MCCPUs == {p, q}
MCElems == {e1, e2, e3, e4, e5}
ElemSymmetry == Permutations(MCElems)

SetupOf(cs, rate, sleep, time, n) ==
    [cpus |-> cs, rate |-> rate, sleep |-> sleep, maxTime |-> time, maxSyns |-> n]
(* One CPU and two that race, with the daemon asleep; one CPU without a    *)
(* rate; one CPU over two sleeps of the daemon.                            *)
MCSetups == {SetupOf({p}, 2, 60, 6, 6), SetupOf({p, q}, 2, 60, 4, 6),
             SetupOf({p}, 0, 60, 6, 6), SetupOf({p}, 1, 3, 15, 6)}
=============================================================================
