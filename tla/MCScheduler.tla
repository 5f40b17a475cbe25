----------------------------- MODULE MCScheduler -----------------------------
(* Scheduler for TLC: values of the constants that a .cfg cannot write.      *)
EXTENDS Scheduler

CONSTANTS w1, w2, caller

WorkersOnly == {[workers |-> Workers, caller |-> FALSE]}

\* Two threads run the loop: both workers, or one and the caller in stop().
TwoLoops == WorkersOnly \cup {[workers |-> {w1}, caller |-> TRUE]}

AnyOnly == {AnyThread}
AnyOrEach == {AnyThread} \cup Threads

\* The two workers are alike: it is enough to pin tasks to one of them.
SomePins == {AnyThread, w1, caller}

Symmetry == Permutations(Tasks) \cup Permutations(Workers)

=============================================================================
