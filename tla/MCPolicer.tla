------------------------------ MODULE MCPolicer ------------------------------
(* Instances of Policer for TLC: three nanoseconds to a microsecond. *)
EXTENDS Policer, TLC

CONSTANTS p, q      \* model values: CPUs

TwoCPUs == {p, q}
Permutation == Permutations(TwoCPUs)

Blind == [cbs |-> 3, ebs |-> 4, toksc_pus |-> 1, tokse_pus |-> 2,
          color_aware |-> FALSE, drop_prio |-> YELLOW]
Aware == [Blind EXCEPT !.color_aware = TRUE]
TwoWorkers == [pol |-> Blind, cpus |-> TwoCPUs, lengths |-> {1, 3}]
OneWorker == [pol |-> Aware, cpus |-> {p}, lengths |-> {1, 3}]
Workers == {TwoWorkers, OneWorker}
=============================================================================
