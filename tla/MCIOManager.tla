----------------------------- MODULE MCIOManager -----------------------------
(* IOManager for TLC. *)
EXTENDS IOManager

CONSTANTS w1, w2, caller

WorkersOnly == {[workers |-> Workers, caller |-> FALSE]}

AnyOnly == {AnyThread}

Symmetry == Permutations(Tasks) \cup Permutations(Workers) \cup Permutations(Fds)

=============================================================================
