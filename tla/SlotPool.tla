------------------------------- MODULE SlotPool -------------------------------
(***************************************************************************)
(* What the runtime promises about slots, seen from outside: a task that   *)
(* was accepted waits, takes one of a fixed number of slots once, keeps it *)
(* while it runs, and gives it back in the very step that ends it, with a  *)
(* verdict that never changes (docs/architecture.md, "任务状态机" and       *)
(* "资源账本与租户配额").                                                   *)
(***************************************************************************)
EXTENDS Naturals, FiniteSets

CONSTANTS Tasks, Slots

VARIABLE stage    \* [Tasks -> Stage]

Verdict == {"success", "failed", "cancelled"}
Stage == {"absent", "waiting", "holding"} \cup Verdict

Holding == {t \in Tasks : stage[t] = "holding"}

Init == stage = [t \in Tasks |-> "absent"]

Moves(t, from, to) == stage[t] = from /\ stage' = [stage EXCEPT ![t] = to]

Enter(t) == Moves(t, "absent", "waiting")

Take(t) == Cardinality(Holding) < Slots /\ Moves(t, "waiting", "holding")

\* A task that never got a slot can only be cancelled.
GiveUp(t) == Moves(t, "waiting", "cancelled")

Finish(t) == \E v \in Verdict : Moves(t, "holding", v)

Next == \E t \in Tasks : Enter(t) \/ Take(t) \/ GiveUp(t) \/ Finish(t)

Spec == Init /\ [][Next]_stage
=============================================================================
