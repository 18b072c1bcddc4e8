----------------------------- MODULE MCAdmission -----------------------------
(* A small instance of Admission, with the resource view beside it, for TLC. *)
EXTENDS ResourceView, TLC

CONSTANTS t1, t2, t3, acme, guest

MCTenants == {acme, guest}

\* acme has a quota, guest has none.  One request names no memory, one needs more
\* than the quota but not more than the capacity, and two do not fit together.
MCRequests ==
    {[res |-> FromLimits({3}, {}),  tenant |-> acme],
     [res |-> FromLimits({2}, {1}), tenant |-> acme],
     [res |-> FromLimits({5}, {}),  tenant |-> guest],
     [res |-> FromLimits({}, {1}),  tenant |-> guest]}

Limit(slots, memory, pids) ==
    [task_slots |-> slots, memory_bytes |-> memory, pids |-> pids]

Quota(q) == [tn \in MCTenants |-> IF tn = acme THEN {q} ELSE {}]

\* A restart may shrink or lift every limit.
MCConfigs ==
    {[capacity |-> Limit(2, {6}, {}),  quotas |-> Quota(Limit(2, {4}, {1}))],
     [capacity |-> Limit(3, {4}, {2}), quotas |-> Quota(Limit(1, {}, {}))]}
=============================================================================
