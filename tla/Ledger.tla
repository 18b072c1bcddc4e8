-------------------------------- MODULE Ledger --------------------------------
(***************************************************************************)
(* The arithmetic of ledger.rs and of the two helpers of the dispatcher:   *)
(* what a task asks for, what the runtime or a tenant may use, and whether *)
(* the one fits into what is left of the other.                            *)
(*                                                                         *)
(* An Option<u64> is the set of its values: {} is None and {n} is Some(n), *)
(* so that `if let (Some(x), Some(y))` reads as a quantifier over both.    *)
(* ResourceCapacity and TaskResourceReservation have the same fields and   *)
(* are both an Amount.                                                     *)
(***************************************************************************)
EXTENDS Integers, FiniteSets, FiniteSetsExt

CONSTANT MaxU64    \* u64::MAX, where the saturating operations stop

ASSUME MaxU64Assumption == MaxU64 \in Nat \ {0}

U64 == 0..MaxU64
Option == {{}} \cup {{n} : n \in U64}

\* The dimensions that may be unlimited, besides task_slots.
Optional == {"memory_bytes", "pids"}

Amount == [task_slots : U64, memory_bytes : Option, pids : Option]

SaturatingAdd(a, b) == IF a + b > MaxU64 THEN MaxU64 ELSE a + b
SaturatingSub(a, b) == IF a < b THEN 0 ELSE a - b

OrZero(option) == IF option = {} THEN 0 ELSE CHOOSE n \in option : TRUE

\* TaskResourceReservation::from_limits.
FromLimits(memory, pids) == [task_slots |-> 1, memory_bytes |-> memory, pids |-> pids]

\* ensure_within_capacity and ensure_within_tenant_quota: the request alone.
EnsureWithin(limit, request) ==
    /\ request.task_slots <= limit.task_slots
    /\ \A d \in Optional : \A x \in request[d], max \in limit[d] : x <= max

\* Mutated form: the last unit is never given away.
FitsBelow(limit, reserved, request) ==
    /\ SaturatingAdd(reserved.task_slots, request.task_slots) < limit.task_slots
    /\ \A d \in Optional : \A have \in reserved[d], x \in request[d], max \in limit[d] :
         SaturatingAdd(have, x) < max

\* can_reserve and can_reserve_for_tenant: the request on top of what is reserved.
\* A dimension is only compared when all three sides name it.
Fits(limit, reserved, request) ==
    /\ SaturatingAdd(reserved.task_slots, request.task_slots) <= limit.task_slots
    /\ \A d \in Optional : \A have \in reserved[d], x \in request[d], max \in limit[d] :
         SaturatingAdd(have, x) <= max

\* Mutated form: memory is not added.
AddWithoutMemory(current, request) ==
    [current EXCEPT !.task_slots = SaturatingAdd(@, request.task_slots),
                    !.pids = IF request.pids = {} THEN @
                             ELSE {SaturatingAdd(OrZero(@), OrZero(request.pids))}]

AddOption(current, x) == IF x = {} THEN current ELSE {SaturatingAdd(OrZero(current), OrZero(x))}

AddReservation(current, request) ==
    [task_slots   |-> SaturatingAdd(current.task_slots, request.task_slots),
     memory_bytes |-> AddOption(current.memory_bytes, request.memory_bytes),
     pids         |-> AddOption(current.pids, request.pids)]

SubOption(current, x) ==
    IF x = {} \/ current = {} THEN current ELSE {SaturatingSub(OrZero(current), OrZero(x))}

\* Mutated form: the operands of a plain subtraction are swapped.
SubtractFromRequest(current, request) ==
    [current EXCEPT !.task_slots = request.task_slots - @]

SubtractReservation(current, request) ==
    [task_slots   |-> SaturatingSub(current.task_slots, request.task_slots),
     memory_bytes |-> SubOption(current.memory_bytes, request.memory_bytes),
     pids         |-> SubOption(current.pids, request.pids)]

\* Where the sums start: a dimension the limit names starts at Some(0).
ZeroOf(limit) ==
    [task_slots   |-> 0,
     memory_bytes |-> IF limit.memory_bytes = {} THEN {} ELSE {0},
     pids         |-> IF limit.pids = {} THEN {} ELSE {0}]

\* The amounts res[t] of the tasks of S, added to start one after the other.
AddedUp(start, res, S) ==
    FoldFunctionOnSet(LAMBDA x, sum : AddReservation(sum, x), start, res, S)

\* reserved_capacity over the reservations res[t] of the tasks of S.
ReservedCapacity(limit, S, res) == AddedUp(ZeroOf(limit), res, S)
=============================================================================
