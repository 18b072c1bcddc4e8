---------------------------- MODULE MCTaskRuntime ----------------------------
(* Small instances of TaskRuntime for TLC. *)
EXTENDS TaskRuntime, TLC

\* What the actions read.  result.json and the event counts are only written, so
\* a run that checks nothing about them may identify states that differ in them.
ControlView ==
    <<[t \in Tasks |-> [db[t] EXCEPT !.held = 0]],
      server, [disp EXCEPT !.out = "absent"], [recov EXCEPT !.out = "absent"], kills,
      [t \in Tasks |-> [a \in Attempts |->
          IF shims[t][a].pc = "write" THEN [shims[t][a] EXCEPT !.out = "absent"]
                                      ELSE shims[t][a]]],
      faults>>

\* Task ids are only compared for equality.
Symmetry == Permutations(Tasks) \cup Permutations(Killers)
=============================================================================
