---------------------------- MODULE ExecutionPolicy ----------------------------
(***************************************************************************)
(* From what a task asks for to what its workload runs under: the probe a  *)
(* server makes when it starts, the plan submit_task resolves from the     *)
(* request and that probe, and the launch, by a shim and possibly after a  *)
(* restart of the server on a changed host, which follows the plan.        *)
(*                                                                         *)
(* What is asked, planned and applied are sets of measures: "sandbox" for  *)
(* profile linux_sandbox, "chroot", one per namespace, and the limits      *)
(* "cpu", "memory" and "pids".  Their values make no difference here.  The *)
(* build is a Linux one, where cfg!(unix) and cfg!(linux) hold, so that    *)
(* rlimits are always available.                                           *)
(***************************************************************************)
EXTENDS FiniteSets

CONSTANTS
    Namespaces,     \* the namespaces of NamespaceConfig, or some of them
    Requests,       \* the requests a client may send
    Hosts,          \* the hosts and settings a server may be started with
    DefaultMode     \* --default-capability-mode

Limits == {"cpu", "memory", "pids"}
Measure == {"sandbox", "chroot"} \cup Namespaces \cup Limits
Modes == {"adaptive", "strict"}

\* mode is {} when the request has no policy; strict is requires_strict_sandbox.
Request == [sandbox : BOOLEAN, chroot : BOOLEAN, ns : SUBSET Namespaces,
            limits : SUBSET Limits, mode : {{}} \cup {{m} : m \in Modes},
            strict : BOOLEAN]

\* SandboxPolicy::validate.
IsValid(r) == r.chroot => r.sandbox

\* The first four fields are what the probe looks at: geteuid() = 0, the two
\* --disable flags turned round, and the mode bits of the cgroup root.  The last
\* two are what it cannot see: whether unshare and chroot are permitted, and
\* whether the files of a cgroup can be written.
Host == [root : BOOLEAN, sandboxOn : BOOLEAN, cgroupOn : BOOLEAN, modeBits : BOOLEAN,
         mayIsolate : BOOLEAN, mayCgroup : BOOLEAN]

ASSUME ParametersAssumption ==
    /\ Namespaces \cap ({"sandbox", "chroot"} \cup Limits) = {}
    /\ Requests \subseteq Request
    /\ Hosts \subseteq Host
    /\ DefaultMode \in Modes

VARIABLES
    host,       \* where the server runs, and its settings
    task,       \* the row of the task
    applied,    \* the measures its workload runs under
    origin      \* history: the host on which its plan was resolved

vars == <<host, task, applied, origin>>

-----------------------------------------------------------------------------
(* Probe and plan *)

\* probe_runtime_capabilities, in terms of measures, and whether a cgroup is used.
Probe(h) ==
    LET isolation == h.root /\ h.sandboxOn
        cgroup    == h.cgroupOn /\ h.modeBits
    IN  [measures |-> {"cpu", "memory"}
                      \cup (IF isolation THEN {"sandbox", "chroot"} \cup Namespaces ELSE {})
                      \cup (IF cgroup THEN {"pids"} ELSE {}),
         cgroup   |-> cgroup]

\* What a request asks for.  Namespaces count with profile linux_sandbox only.
Asked(r) == r.limits \cup (IF r.sandbox
                             THEN {"sandbox"} \cup r.ns
                                  \cup (IF r.chroot THEN {"chroot"} ELSE {})
                             ELSE {})

\* effective_capability_mode, and the flag of the control context.
EffectiveMode(r) == IF r.mode = {} THEN DefaultMode ELSE CHOOSE m \in r.mode : TRUE
IsStrict(r) == EffectiveMode(r) = "strict" \/ r.strict

\* ExecutionPlan: what it says will be applied, whether the shim makes a cgroup, and
\* whether something asked is missing.
Plan == [measures : SUBSET Measure, cgroup : BOOLEAN, degraded : BOOLEAN]

\* Mutated form: the limits are planned from the capabilities alone.
PlanIgnoringProfile(r, caps) ==
    LET effective == Asked(r) \cap caps.measures
    IN  [measures |-> effective,
         cgroup   |-> "sandbox" \in effective /\ caps.cgroup,
         degraded |-> effective # Asked(r)]

\* Mutated form: what the sandbox brings stays when the sandbox is given up.
PlanKeepingIsolation(r, caps) ==
    LET effective == Asked(r) \cap (caps.measures \cup {"chroot"} \cup Namespaces)
    IN  [measures |-> effective,
         cgroup   |-> "sandbox" \in effective /\ caps.cgroup,
         degraded |-> effective # Asked(r)]

\* The plan of an adaptive request.  Without the sandbox there is neither chroot
\* nor namespace (all three come with it) nor a cgroup, and without a cgroup no
\* limit on pids.  It is degraded when anything asked is missing.
PlanOf(r, caps) ==
    LET isolation == (Asked(r) \cap caps.measures) \ Limits
        cgroup    == "sandbox" \in isolation /\ caps.cgroup
        limits    == {l \in r.limits \cap caps.measures : l = "pids" => cgroup}
        effective == isolation \cup limits
    IN  [measures |-> effective,
         cgroup   |-> cgroup,
         degraded |-> effective # Asked(r)]

\* Mutated form: only the mode of the request makes it strict.
ResolveByMode(r, caps) ==
    LET plan == PlanOf(r, caps)
    IN  IF EffectiveMode(r) = "strict" /\ plan.degraded THEN {} ELSE {plan}

\* Mutated form: the cgroup is listed among the measures.
ResolveNamingCgroup(r, caps) ==
    LET plan == PlanOf(r, caps)
    IN  IF IsStrict(r) /\ plan.degraded
          THEN {}
          ELSE {[plan EXCEPT !.measures = @ \cup (IF plan.cgroup THEN {"cgroup"} ELSE {})]}

\* resolve_execution_plan: {} is the error a strict request gets.
Resolve(r, caps) ==
    LET plan == PlanOf(r, caps)
    IN  IF IsStrict(r) /\ plan.degraded THEN {} ELSE {plan}

\* ExecutionPlan::legacy, for the row of a server that did not store plans yet:
\* nothing is compared with any capability.
Legacy(r) ==
    [measures |-> Asked(r) \ (IF r.sandbox THEN {} ELSE {"pids"}),
     cgroup   |-> r.sandbox,
     degraded |-> FALSE]

-----------------------------------------------------------------------------
(* Submission and launch *)

\* "forked": the workload runs and is not in its cgroup yet.  "failed": there is no
\* workload; "abandoned": the task has failed and its workload runs on.
Stage == {"none", "accepted", "forked", "supervised", "ended", "failed", "abandoned"}

NoTask(r) == [stage |-> "none", request |-> r, plan |-> {}]

\* plan is {} when execution_plan_json is NULL.
LaunchPlan == IF task.plan = {} THEN Legacy(task.request)
                                ELSE CHOOSE p \in task.plan : TRUE

TypeOK ==
    /\ host \in Hosts
    /\ origin \in Hosts
    /\ task \in [stage : Stage, request : Requests, plan : SUBSET Plan]
    /\ applied \subseteq Measure

\* Nothing is submitted yet, or the database holds a row without a plan.
Init ==
    /\ host \in Hosts
    /\ origin = host
    /\ applied = {}
    /\ \E r \in {q \in Requests : IsValid(q)}, stage \in {"none", "accepted"} :
         task = [NoTask(r) EXCEPT !.stage = stage]

\* A request without a plan is refused and leaves no row.
Submit ==
    /\ task.stage = "none"
    /\ \E plan \in Resolve(task.request, Probe(host)) :
         task' = [task EXCEPT !.stage = "accepted", !.plan = {plan}]
    /\ origin' = host
    /\ UNCHANGED <<host, applied>>

\* The server starts again, with other settings or on a host that has changed,
\* while the task waits.  The stored plan is not resolved again.
Restart ==
    /\ task.stage \in {"none", "accepted"}
    /\ \E h \in Hosts : host' = h /\ h # host
    /\ UNCHANGED <<task, applied, origin>>

\* What pre_exec applies, in the child: rlimits first, then unshare and chroot.
BeforeExec(plan) == plan.measures \ {"pids"}

IsolationPermitted(plan) ==
    (plan.measures \cap ({"chroot"} \cup Namespaces) # {}) => host.mayIsolate

\* fork, pre_exec and exec succeed: the workload runs.
Fork ==
    /\ task.stage = "accepted"
    /\ IsolationPermitted(LaunchPlan)
    /\ applied' = BeforeExec(LaunchPlan)
    /\ task' = [task EXCEPT !.stage = IF LaunchPlan.cgroup THEN "forked" ELSE "supervised"]
    /\ UNCHANGED <<host, origin>>

\* pre_exec fails: there is no workload.
ForkFails ==
    /\ task.stage = "accepted"
    /\ ~IsolationPermitted(LaunchPlan)
    /\ task' = [task EXCEPT !.stage = "failed"]
    /\ UNCHANGED <<host, applied, origin>>

\* setup_cgroup, by the shim, while the workload already runs.
SetupCgroup ==
    /\ task.stage = "forked"
    /\ host.mayCgroup
    /\ applied' = applied \cup (LaunchPlan.measures \cap {"pids"})
    /\ task' = [task EXCEPT !.stage = "supervised"]
    /\ UNCHANGED <<host, origin>>

\* The task is failed with sandbox_setup_failed; the workload is left running.
SetupCgroupFails ==
    /\ task.stage = "forked"
    /\ ~host.mayCgroup
    /\ task' = [task EXCEPT !.stage = "abandoned"]
    /\ UNCHANGED <<host, applied, origin>>

Finish ==
    /\ task.stage = "supervised"
    /\ task' = [task EXCEPT !.stage = "ended"]
    /\ UNCHANGED <<host, applied, origin>>

Next ==
    \/ Submit
    \/ Restart
    \/ Fork
    \/ ForkFails
    \/ SetupCgroup
    \/ SetupCgroupFails
    \/ Finish

Spec == Init /\ [][Next]_vars

-----------------------------------------------------------------------------
(* Properties *)

Lacking == Asked(task.request) \ applied

\* The workload of a strict request that was accepted and planned has everything it
\* asks for once the shim supervises it, also when the host lost a capability between
\* the plan and the launch.  From exec until setup_cgroup it runs without its limit on
\* pids, and if setup_cgroup fails it is left running so; nothing else it asks for is
\* missing even then.
StrictIsExact ==
    (task.plan # {} /\ IsStrict(task.request)) =>
        /\ task.stage \in {"supervised", "ended"} => Lacking = {}
        /\ task.stage \in {"forked", "abandoned"} => Lacking \subseteq {"pids"}

\* The stored plan says degraded exactly when the supervised workload lacks
\* something that was asked for.  A row without a plan never says so, and may lack
\* its limit on pids and nothing else.
DegradedTellsAll ==
    task.stage \in {"supervised", "ended"} =>
        IF task.plan = {} THEN Lacking \subseteq {"pids"}
                          ELSE LaunchPlan.degraded <=> Lacking # {}

\* What the probe takes for available really is.
ProbeIsRight(h) == LET caps == Probe(h)
                   IN  /\ "sandbox" \in caps.measures => h.mayIsolate
                       /\ caps.cgroup => h.mayCgroup

\* On the host it was resolved for, and if the probe was right about it, a plan
\* can be launched: no measure is left in it that the host would refuse.
PlanLaunches ==
    (task.stage \in {"failed", "abandoned"} /\ task.plan # {} /\ host = origin)
        => ~ProbeIsRight(host)
=============================================================================
