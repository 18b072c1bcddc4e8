------------------------ MODULE ExecutionPolicy_proofs ------------------------
(***************************************************************************)
(* What ExecutionPolicy promises, for every set of namespaces, requests    *)
(* and hosts and either default mode.                                      *)
(*                                                                         *)
(* The properties speak of a workload under supervision and of a launch    *)
(* that failed.  The invariant follows the plan from its resolution to     *)
(* that point: a stored plan is the one the request and the host of its    *)
(* submission give (PlanIsResolved), what is applied is what the plan says *)
(* (AppliedFollowsPlan), and a launch failed because the host refused      *)
(* something the plan contains (FailureHasCause).                          *)
(***************************************************************************)
EXTENDS ExecutionPolicy, TLAPS

PlanIsResolved ==
    \/ task.plan = {}
    \/ LET plan == PlanOf(task.request, Probe(origin))
       IN  /\ task.plan = {plan}
           /\ IsStrict(task.request) => ~plan.degraded

AppliedFollowsPlan ==
    /\ task.stage \in {"forked", "abandoned"}
          => LaunchPlan.cgroup /\ applied = BeforeExec(LaunchPlan)
    /\ task.stage \in {"supervised", "ended"} => applied = LaunchPlan.measures

FailureHasCause ==
    /\ task.stage = "failed" => ~IsolationPermitted(LaunchPlan)
    /\ task.stage = "abandoned" => ~host.mayCgroup

PlanInv == TypeOK /\ PlanIsResolved /\ AppliedFollowsPlan /\ FailureHasCause

-----------------------------------------------------------------------------
(* Plans *)

\* What is asked of the runtime is made of measures (SandboxPolicy, ResourceLimits).
LEMMA AskedType ==
    ASSUME NEW r \in Requests
    PROVE  Asked(r) \subseteq Measure
BY ParametersAssumption DEF Asked, Measure, Request

\* resolve_execution_plan and ExecutionPlan::legacy make plans.
LEMMA PlanType ==
    ASSUME NEW r \in Requests, NEW h \in Hosts
    PROVE  PlanOf(r, Probe(h)) \in Plan /\ Legacy(r) \in Plan
<1>1. Asked(r) \subseteq Measure
  BY AskedType
<1>2. r \in Request /\ h \in Host
  BY ParametersAssumption
<1>3. Probe(h).cgroup \in BOOLEAN
  BY <1>2 DEF Probe, Host
<1>4. r.limits \subseteq Measure
  BY <1>2 DEF Request, Measure
<1>5. PlanOf(r, Probe(h)) \in Plan
  BY <1>1, <1>3, <1>4 DEF PlanOf, Plan
<1>6. Legacy(r) \in Plan
  BY <1>1, <1>2 DEF Legacy, Plan, Request
<1>7. QED
  BY <1>5, <1>6

\* A plan contains a limit on pids only together with a cgroup (policy.rs).
LEMMA PidsNeedCgroup ==
    ASSUME NEW r \in Requests, NEW h \in Hosts
    PROVE  /\ "pids" \in PlanOf(r, Probe(h)).measures => PlanOf(r, Probe(h)).cgroup
           /\ "pids" \in Legacy(r).measures => Legacy(r).cgroup
<1>1. r \in Request
  BY ParametersAssumption
<1>2. "pids" \in PlanOf(r, Probe(h)).measures => PlanOf(r, Probe(h)).cgroup
  BY DEF PlanOf, Limits
<1>3. "pids" \in Legacy(r).measures => Legacy(r).cgroup
  BY <1>1 DEF Legacy, Request
<1>4. QED
  BY <1>2, <1>3

\* The plan the shim follows is the stored one, or the legacy plan.
LEMMA LaunchPlanIs ==
    ASSUME TypeOK, PlanIsResolved
    PROVE  /\ task.plan = {} => LaunchPlan = Legacy(task.request)
           /\ task.plan # {} => LaunchPlan = PlanOf(task.request, Probe(origin))
           /\ LaunchPlan \in Plan
           /\ "pids" \in LaunchPlan.measures => LaunchPlan.cgroup
<1>1. task.request \in Requests /\ origin \in Hosts
  BY DEF TypeOK
<1>2. task.plan = {} => LaunchPlan = Legacy(task.request)
  BY DEF LaunchPlan
<1>3. task.plan # {} => LaunchPlan = PlanOf(task.request, Probe(origin))
  BY DEF LaunchPlan, PlanIsResolved
<1>4. QED
  BY <1>1, <1>2, <1>3, PlanType, PidsNeedCgroup

-----------------------------------------------------------------------------
(* The invariant *)

\* The rows a server finds when it starts (none, or one without a plan).
LEMMA PlanInit == Init => PlanInv
<1>1. SUFFICES ASSUME Init PROVE PlanInv
  OBVIOUS
<1>2. PICK r \in {q \in Requests : IsValid(q)}, stage \in {"none", "accepted"} :
         task = [NoTask(r) EXCEPT !.stage = stage]
  BY <1>1 DEF Init
<1>3. task = [stage |-> stage, request |-> r, plan |-> {}]
  BY <1>2 DEF NoTask
<1>4. TypeOK
  BY <1>1, <1>3 DEF TypeOK, Init, Stage
<1>5. QED
  BY <1>3, <1>4 DEF PlanInv, PlanIsResolved, AppliedFollowsPlan, FailureHasCause

\* submit_task stores the plan it resolved.
LEMMA SubmitKeeps == PlanInv /\ Submit => PlanInv'
<1>1. SUFFICES ASSUME PlanInv, Submit PROVE PlanInv'
  OBVIOUS
<1> DEFINE resolved == PlanOf(task.request, Probe(host))
<1>2. task \in [stage : Stage, request : Requests, plan : SUBSET Plan] /\ host \in Hosts
  BY <1>1 DEF PlanInv, TypeOK
<1>3. resolved \in Plan
  BY <1>2, PlanType
<1>4. task' = [task EXCEPT !.stage = "accepted", !.plan = {resolved}]
      /\ (IsStrict(task.request) => ~resolved.degraded)
  BY <1>1 DEF Submit, Resolve
<1>5. task'.stage = "accepted" /\ task'.request = task.request /\ task'.plan = {resolved}
  BY <1>2, <1>4
<1>6. TypeOK'
  BY <1>1, <1>2, <1>3, <1>4 DEF PlanInv, TypeOK, Submit, Stage
<1>7. PlanIsResolved'
  <2>1. origin' = host
    BY <1>1 DEF Submit
  <2>2. PlanOf(task'.request, Probe(origin')) = resolved
    BY <1>5, <2>1
  <2>3. IsStrict(task'.request) => ~resolved.degraded
    BY <1>4, <1>5
  <2>4. QED
    BY <1>5, <2>2, <2>3 DEF PlanIsResolved
<1>8. QED
  BY <1>5, <1>6, <1>7 DEF PlanInv, AppliedFollowsPlan, FailureHasCause

\* A restart changes nothing the shim will look at.
LEMMA RestartKeeps == PlanInv /\ Restart => PlanInv'
<1>1. SUFFICES ASSUME PlanInv, Restart PROVE PlanInv'
  OBVIOUS
<1>2. host' \in Hosts /\ UNCHANGED <<task, applied, origin>>
      /\ task.stage \in {"none", "accepted"}
  BY <1>1 DEF Restart
<1>3. QED
  BY <1>1, <1>2 DEF PlanInv, TypeOK, PlanIsResolved, AppliedFollowsPlan, FailureHasCause

\* A step of the launch moves the task to another stage and nothing else of its row.
Advance(stage) ==
    /\ task' = [task EXCEPT !.stage = stage]
    /\ UNCHANGED <<host, origin>>

\* Such a step leaves the plan as it was.
LEMMA AdvanceFrame ==
    ASSUME PlanInv, NEW stage \in Stage, Advance(stage), applied' \subseteq Measure
    PROVE  /\ task'.stage = stage
           /\ LaunchPlan' = LaunchPlan
           /\ TypeOK'
           /\ PlanIsResolved'
<1>1. task \in [stage : Stage, request : Requests, plan : SUBSET Plan]
  BY DEF PlanInv, TypeOK
<1>2. /\ task'.stage = stage /\ task'.request = task.request /\ task'.plan = task.plan
      /\ task' \in [stage : Stage, request : Requests, plan : SUBSET Plan]
  BY <1>1 DEF Advance
<1>3. LaunchPlan' = LaunchPlan
  BY <1>2 DEF LaunchPlan, Legacy, Asked
<1>4. TypeOK'
  BY <1>2 DEF PlanInv, TypeOK, Advance
<1>5. PlanIsResolved'
  BY <1>2 DEF PlanInv, PlanIsResolved, Advance, PlanOf, Probe, Asked, IsStrict, EffectiveMode
<1>6. QED
  BY <1>2, <1>3, <1>4, <1>5

\* spawn_task_process succeeds up to exec.
LEMMA ForkKeeps == PlanInv /\ Fork => PlanInv'
<1>1. SUFFICES ASSUME PlanInv, Fork PROVE PlanInv'
  OBVIOUS
<1> DEFINE next == IF LaunchPlan.cgroup THEN "forked" ELSE "supervised"
<1>2. LaunchPlan \in Plan /\ ("pids" \in LaunchPlan.measures => LaunchPlan.cgroup)
  BY <1>1, LaunchPlanIs DEF PlanInv
<1>3. applied' = BeforeExec(LaunchPlan) /\ Advance(next)
  BY <1>1 DEF Fork, Advance
<1>4. applied' \subseteq Measure /\ next \in Stage
  BY <1>2, <1>3 DEF Plan, BeforeExec, Stage
<1>5. PICK stage \in Stage : stage = next
  BY <1>4
<1>6. Advance(stage)
  BY <1>3, <1>5
<1>7. task'.stage = next /\ LaunchPlan' = LaunchPlan /\ TypeOK' /\ PlanIsResolved'
  BY <1>1, <1>4, <1>5, <1>6, AdvanceFrame
<1>8. AppliedFollowsPlan'
  BY <1>2, <1>3, <1>7 DEF AppliedFollowsPlan, BeforeExec, Plan
<1>9. FailureHasCause'
  BY <1>7 DEF FailureHasCause
<1>10. QED
  BY <1>7, <1>8, <1>9 DEF PlanInv

\* spawn_task_process fails in pre_exec.
LEMMA ForkFailsKeeps == PlanInv /\ ForkFails => PlanInv'
<1>1. SUFFICES ASSUME PlanInv, ForkFails PROVE PlanInv'
  OBVIOUS
<1>2. Advance("failed") /\ applied' = applied /\ ~IsolationPermitted(LaunchPlan)
  BY <1>1 DEF ForkFails, Advance
<1>3. applied' \subseteq Measure /\ "failed" \in Stage
  BY <1>1, <1>2 DEF PlanInv, TypeOK, Stage
<1>4. task'.stage = "failed" /\ LaunchPlan' = LaunchPlan /\ TypeOK' /\ PlanIsResolved'
  BY <1>1, <1>2, <1>3, AdvanceFrame
<1>5. FailureHasCause'
  BY <1>2, <1>4 DEF FailureHasCause, IsolationPermitted, Advance
<1>6. AppliedFollowsPlan'
  BY <1>4 DEF AppliedFollowsPlan
<1>7. QED
  BY <1>4, <1>5, <1>6 DEF PlanInv

\* setup_cgroup succeeds.
LEMMA SetupCgroupKeeps == PlanInv /\ SetupCgroup => PlanInv'
<1>1. SUFFICES ASSUME PlanInv, SetupCgroup PROVE PlanInv'
  OBVIOUS
<1>2. LaunchPlan \in Plan
  BY <1>1, LaunchPlanIs DEF PlanInv
<1>3. Advance("supervised") /\ applied' = applied \cup (LaunchPlan.measures \cap {"pids"})
  BY <1>1 DEF SetupCgroup, Advance
<1>4. applied = BeforeExec(LaunchPlan)
  BY <1>1 DEF PlanInv, AppliedFollowsPlan, SetupCgroup
<1>5. applied' = LaunchPlan.measures
  BY <1>3, <1>4 DEF BeforeExec
<1>6. applied' \subseteq Measure /\ "supervised" \in Stage
  BY <1>2, <1>5 DEF Plan, Stage
<1>7. task'.stage = "supervised" /\ LaunchPlan' = LaunchPlan /\ TypeOK' /\ PlanIsResolved'
  BY <1>1, <1>3, <1>6, AdvanceFrame
<1>8. QED
  BY <1>5, <1>7 DEF PlanInv, AppliedFollowsPlan, FailureHasCause

\* setup_cgroup fails.
LEMMA SetupCgroupFailsKeeps == PlanInv /\ SetupCgroupFails => PlanInv'
<1>1. SUFFICES ASSUME PlanInv, SetupCgroupFails PROVE PlanInv'
  OBVIOUS
<1>2. Advance("abandoned") /\ applied' = applied /\ ~host.mayCgroup /\ host' = host
  BY <1>1 DEF SetupCgroupFails, Advance
<1>3. LaunchPlan.cgroup /\ applied = BeforeExec(LaunchPlan)
  BY <1>1 DEF PlanInv, AppliedFollowsPlan, SetupCgroupFails
<1>4. applied' \subseteq Measure /\ "abandoned" \in Stage
  BY <1>1, <1>2 DEF PlanInv, TypeOK, Stage
<1>5. task'.stage = "abandoned" /\ LaunchPlan' = LaunchPlan /\ TypeOK' /\ PlanIsResolved'
  BY <1>1, <1>2, <1>4, AdvanceFrame
<1>6. QED
  BY <1>2, <1>3, <1>5 DEF PlanInv, AppliedFollowsPlan, FailureHasCause, BeforeExec

\* The workload ends.
LEMMA FinishKeeps == PlanInv /\ Finish => PlanInv'
<1>1. SUFFICES ASSUME PlanInv, Finish PROVE PlanInv'
  OBVIOUS
<1>2. Advance("ended") /\ applied' = applied
  BY <1>1 DEF Finish, Advance
<1>3. applied = LaunchPlan.measures
  BY <1>1 DEF PlanInv, AppliedFollowsPlan, Finish
<1>4. applied' \subseteq Measure /\ "ended" \in Stage
  BY <1>1, <1>2 DEF PlanInv, TypeOK, Stage
<1>5. task'.stage = "ended" /\ LaunchPlan' = LaunchPlan /\ TypeOK' /\ PlanIsResolved'
  BY <1>1, <1>2, <1>4, AdvanceFrame
<1>6. QED
  BY <1>2, <1>3, <1>5 DEF PlanInv, AppliedFollowsPlan, FailureHasCause

\* PlanInv holds of every behaviour of the launch path (policy.rs, runtime.rs).
THEOREM PlanInvariant == Spec => []PlanInv
<1>1. PlanInv /\ [Next]_vars => PlanInv'
  <2>1. SUFFICES ASSUME PlanInv, [Next]_vars PROVE PlanInv'
    OBVIOUS
  <2>2. CASE Submit
    BY <2>1, <2>2, SubmitKeeps
  <2>3. CASE Restart
    BY <2>1, <2>3, RestartKeeps
  <2>4. CASE Fork
    BY <2>1, <2>4, ForkKeeps
  <2>5. CASE ForkFails
    BY <2>1, <2>5, ForkFailsKeeps
  <2>6. CASE SetupCgroup
    BY <2>1, <2>6, SetupCgroupKeeps
  <2>7. CASE SetupCgroupFails
    BY <2>1, <2>7, SetupCgroupFailsKeeps
  <2>8. CASE Finish
    BY <2>1, <2>8, FinishKeeps
  <2>9. CASE UNCHANGED vars
    BY <2>1, <2>9 DEF vars, PlanInv, TypeOK, PlanIsResolved, AppliedFollowsPlan,
                      FailureHasCause, LaunchPlan, IsolationPermitted
  <2>10. QED
    BY <2>1, <2>2, <2>3, <2>4, <2>5, <2>6, <2>7, <2>8, <2>9 DEF Next
<1>2. QED
  BY <1>1, PlanInit, PTL DEF Spec

-----------------------------------------------------------------------------
(* The properties *)

\* Every variable keeps its type.
THEOREM PolicyTypeCorrect == Spec => []TypeOK
<1>1. PlanInv => TypeOK
  BY DEF PlanInv
<1>2. QED
  BY <1>1, PlanInvariant, PTL

\* A plan lacks what it says it lacks (policy.rs: degraded).
LEMMA DegradedIsLack ==
    ASSUME NEW r \in Requests, NEW h \in Hosts
    PROVE  PlanOf(r, Probe(h)).degraded <=> Asked(r) \ PlanOf(r, Probe(h)).measures # {}
<1>1. r \in Request
  BY ParametersAssumption
<1>2. r.limits \subseteq Asked(r)
  BY DEF Asked
<1>3. PlanOf(r, Probe(h)).measures \subseteq Asked(r)
  BY <1>2 DEF PlanOf
<1>4. PlanOf(r, Probe(h)).degraded <=> PlanOf(r, Probe(h)).measures # Asked(r)
  BY DEF PlanOf
<1>5. QED
  BY <1>3, <1>4

\* Once supervised, the workload of a strict request has everything it asks for;
\* before setup_cgroup, and after it failed, it lacks its limit on pids and nothing else
\* (requires_strict_sandbox and capability_mode in resolve_execution_plan,
\* spawn_task_process).
THEOREM StrictExact == Spec => []StrictIsExact
<1>1. PlanInv => StrictIsExact
  <2>1. SUFFICES ASSUME PlanInv, task.plan # {}, IsStrict(task.request)
                 PROVE  /\ task.stage \in {"supervised", "ended"} => Lacking = {}
                        /\ task.stage \in {"forked", "abandoned"} => Lacking \subseteq {"pids"}
    BY DEF StrictIsExact
  <2> DEFINE plan == PlanOf(task.request, Probe(origin))
  <2>2. task.request \in Requests /\ origin \in Hosts
    BY <2>1 DEF PlanInv, TypeOK
  <2>3. ~plan.degraded
    BY <2>1 DEF PlanInv, PlanIsResolved
  <2>4. LaunchPlan = plan
    BY <2>1, LaunchPlanIs DEF PlanInv
  <2>5. /\ task.stage \in {"supervised", "ended"} => applied = plan.measures
        /\ task.stage \in {"forked", "abandoned"} => applied = plan.measures \ {"pids"}
    BY <2>1, <2>4 DEF PlanInv, AppliedFollowsPlan, BeforeExec
  <2>6. Asked(task.request) \ plan.measures = {}
    BY <2>2, <2>3, DegradedIsLack
  <2>7. QED
    BY <2>5, <2>6 DEF Lacking
<1>2. QED
  BY <1>1, PlanInvariant, PTL

\* The stored plan tells whether the workload lacks anything it asked for.
THEOREM DegradedTells == Spec => []DegradedTellsAll
<1>1. PlanInv => DegradedTellsAll
  <2>1. SUFFICES ASSUME PlanInv, task.stage \in {"supervised", "ended"}
                 PROVE  IF task.plan = {} THEN Lacking \subseteq {"pids"}
                        ELSE LaunchPlan.degraded <=> Lacking # {}
    BY DEF DegradedTellsAll
  <2>2. task.request \in Requests /\ origin \in Hosts
    BY <2>1 DEF PlanInv, TypeOK
  <2>3. applied = LaunchPlan.measures
    BY <2>1 DEF PlanInv, AppliedFollowsPlan
  <2>4. CASE task.plan = {}
    <3>1. LaunchPlan = Legacy(task.request)
      BY <2>1, <2>4, LaunchPlanIs DEF PlanInv
    <3>2. QED
      BY <2>3, <2>4, <3>1 DEF Lacking, Legacy
  <2>5. CASE task.plan # {}
    <3>1. LaunchPlan = PlanOf(task.request, Probe(origin))
      BY <2>1, <2>5, LaunchPlanIs DEF PlanInv
    <3>2. QED
      BY <2>2, <2>3, <2>5, <3>1, DegradedIsLack DEF Lacking
  <2>6. QED
    BY <2>4, <2>5
<1>2. QED
  BY <1>1, PlanInvariant, PTL

\* A resolved plan asks of the host only what the probe found (capabilities.rs).
LEMMA PlanWithinProbe ==
    ASSUME NEW r \in Requests, NEW h \in Hosts
    PROVE  /\ (PlanOf(r, Probe(h)).measures \cap ({"chroot"} \cup Namespaces) # {})
                => "sandbox" \in Probe(h).measures
           /\ PlanOf(r, Probe(h)).cgroup => Probe(h).cgroup
<1>1. Namespaces \cap ({"sandbox", "chroot"} \cup Limits) = {}
  BY ParametersAssumption
<1>2. ASSUME NEW m \in PlanOf(r, Probe(h)).measures, m \in {"chroot"} \cup Namespaces
      PROVE  "sandbox" \in Probe(h).measures
  <2>1. m \notin Limits
    BY <1>1, <1>2 DEF Limits
  <2>2. m \in Probe(h).measures
    BY <1>2, <2>1 DEF PlanOf
  <2>3. QED
    BY <2>1, <2>2 DEF Probe, Limits
<1>3. PlanOf(r, Probe(h)).cgroup => Probe(h).cgroup
  BY DEF PlanOf
<1>4. QED
  BY <1>2, <1>3

\* On its own host, rightly probed, a plan launches (spawn_task_process).
THEOREM ResolvedPlanLaunches == Spec => []PlanLaunches
<1>1. PlanInv => PlanLaunches
  <2>1. SUFFICES ASSUME PlanInv, task.stage \in {"failed", "abandoned"},
                        task.plan # {}, host = origin, ProbeIsRight(host)
                 PROVE  FALSE
    BY DEF PlanLaunches
  <2> DEFINE plan == PlanOf(task.request, Probe(origin))
  <2>2. task.request \in Requests /\ origin \in Hosts
    BY <2>1 DEF PlanInv, TypeOK
  <2>3. LaunchPlan = plan
    BY <2>1, LaunchPlanIs DEF PlanInv
  <2>4. /\ "sandbox" \in Probe(origin).measures => host.mayIsolate
        /\ Probe(origin).cgroup => host.mayCgroup
    BY <2>1 DEF ProbeIsRight
  <2>5. IsolationPermitted(plan)
    BY <2>2, <2>4, PlanWithinProbe DEF IsolationPermitted
  <2>6. plan.cgroup => host.mayCgroup
    BY <2>2, <2>4, PlanWithinProbe
  <2>7. QED
    BY <2>1, <2>3, <2>5, <2>6 DEF PlanInv, FailureHasCause, AppliedFollowsPlan
<1>2. QED
  BY <1>1, PlanInvariant, PTL
=============================================================================
