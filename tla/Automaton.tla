------------------------------ MODULE Automaton ------------------------------
(***************************************************************************)
(* Arcs of a generated parser: one case of its switch leads from a state   *)
(* on a set of characters to another state and performs actions on the     *)
(* way.                                                                    *)
(***************************************************************************)
EXTENDS Integers

\* A goto that several states share.
Go(from, on, to, do) ==
  {[from |-> s, on |-> on, to |-> to, do |-> do] : s \in from}

\* Each of several states goes to the one the same distance ahead.
Ahead(from, on, distance, do) ==
  {[from |-> s, on |-> on, to |-> s + distance, do |-> do] : s \in from}

=============================================================================
