-------------------------- MODULE MCExecutionPolicy --------------------------
(* A small instance of ExecutionPolicy for TLC. *)
EXTENDS ExecutionPolicy

\* One namespace that is on by default and one that is not.
MCNamespaces == {"mount", "net"}

\* Every valid request; namespaces without the sandbox make no difference.
MCRequests ==
    {r \in [sandbox : BOOLEAN, chroot : BOOLEAN, ns : SUBSET MCNamespaces,
            limits : SUBSET {"cpu", "memory", "pids"},
            mode : {{}, {"adaptive"}, {"strict"}}, strict : BOOLEAN] :
        r.sandbox \/ (~r.chroot /\ r.ns = {})}

Described(root, sandboxOn, cgroupOn, modeBits, mayIsolate, mayCgroup) ==
    [root |-> root, sandboxOn |-> sandboxOn, cgroupOn |-> cgroupOn,
     modeBits |-> modeBits, mayIsolate |-> mayIsolate, mayCgroup |-> mayCgroup]

MCHosts ==
    {Described(TRUE, TRUE, TRUE, TRUE, TRUE, TRUE),        \* a privileged host
     Described(TRUE, FALSE, FALSE, TRUE, TRUE, TRUE),      \* the same, all disabled
     Described(TRUE, TRUE, FALSE, TRUE, TRUE, TRUE),       \* the same, no cgroup
     Described(TRUE, FALSE, TRUE, TRUE, TRUE, TRUE),       \* the same, no sandbox
     Described(FALSE, TRUE, TRUE, FALSE, FALSE, FALSE),    \* an ordinary user
     Described(TRUE, TRUE, TRUE, TRUE, FALSE, FALSE),      \* root in a container
     Described(TRUE, TRUE, TRUE, TRUE, TRUE, FALSE)}       \* cgroupfs mounted read-only
=============================================================================
