--------------------------- MODULE MCTimerManager ---------------------------
(* TimerManager for TLC. *)
EXTENDS TimerManager, TLC

Symmetry == Permutations(Timers) \cup Permutations(Pollers) \cup Permutations(Users)

=============================================================================
