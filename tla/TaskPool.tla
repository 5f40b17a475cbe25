------------------------------ MODULE TaskPool ------------------------------
(***************************************************************************)
(* What the scheduler promises its user: a task handed over is executed    *)
(* once, and stop() returns only when nothing handed over is left.         *)
(***************************************************************************)
CONSTANTS Tasks

VARIABLES
  status,   \* "new", "queued", "begun" or "done", for each task
  stopped   \* stop() has returned

vars == <<status, stopped>>

Init == status = [t \in Tasks |-> "new"] /\ stopped = FALSE

Advance(t, from, to) ==
  /\ ~stopped
  /\ status[t] = from
  /\ status' = [status EXCEPT ![t] = to]
  /\ UNCHANGED stopped

Submit(t) == Advance(t, "new", "queued")
Begin(t)  == Advance(t, "queued", "begun")
End(t)    == Advance(t, "begun", "done")

Stop ==
  /\ \A t \in Tasks : status[t] \in {"new", "done"}
  /\ stopped' = TRUE
  /\ UNCHANGED status

Next == Stop \/ \E t \in Tasks : Submit(t) \/ Begin(t) \/ End(t)

Spec == Init /\ [][Next]_vars

=============================================================================
