-------------------------- MODULE Supervision_proofs --------------------------
(***************************************************************************)
(* What the supervision of a workload keeps to, for all times, limits and  *)
(* sets of processes: it is stopped in time, no SIGKILL comes before the   *)
(* grace period is over, the verdict tells the cause, and pids.max holds.  *)
(*                                                                         *)
(* SupervisionInv says why.  The next tick is due within a period, and is  *)
(* late by Lag at most (PollInv).  So the wall time or a request is seen   *)
(* by the first tick after it (TimeoutInv, CancelInv), and the end of a    *)
(* grace period by the first tick after that, as long as the leader lives  *)
(* (GraceInv).  The handler of the kill waits for a grace period of its    *)
(* own (AskedInv).  A leader that is gone is waited for within Lag         *)
(* (DiedInv).  A member of the cgroup is born where its parent is, after   *)
(* the limits were written (CgroupInv).                                    *)
(***************************************************************************)
EXTENDS Supervision, FiniteSetTheorems, TLAPS

\* The shim before it has a verdict: no timer runs and nothing was sent before
\* mark_started, and the leader exists from the fork on.
LaunchInv ==
    /\ shim.pc \in Launching => /\ shim.start = Never /\ shim.timeout = Never
                                /\ shim.cancel = Never /\ ~shim.killSent
    /\ shim.pc \in Launching \cup Supervising =>
          /\ shim.code = "none"
          /\ shim.pc = "fork" <=> procs[Leader].state = "none"

\* The next tick is due within a period; it may be late, but not by more than Lag.
PollInv ==
    /\ shim.pc \in Supervising => /\ shim.start \in 0..clock
                                  /\ shim.start <= shim.next
                                  /\ shim.next <= clock + Period
                                  /\ clock <= shim.next + Lag
    /\ shim.pc = "act" => shim.next <= clock

\* The flag, the handler's step and the history of the first request agree, and the
\* escalation waits for a whole grace period.
AskedInv ==
    /\ seen.asked <= clock
    /\ row.kill <=> seen.asked # Never
    /\ killer.pc = "idle" <=> seen.asked = Never
    /\ killer.pc = "sleep" => killer.due >= seen.asked + Grace

\* The wall time is noticed by the first tick that reads the clock after it.
TimeoutInv ==
    /\ shim.timeout # Never => /\ shim.start # Never
                               /\ shim.start + WallTime <= shim.timeout
                               /\ shim.timeout < shim.start + WallTime + Period + Lag
    /\ (shim.pc = "watch" /\ shim.timeout = Never) =>
          shim.next < shim.start + WallTime + Period
    /\ (shim.pc = "act" /\ shim.timeout = Never /\ ~shim.expired) =>
          shim.next < shim.start + WallTime
    /\ (shim.pc = "act" /\ shim.expired) =>
          /\ shim.timeout = Never
          /\ clock >= shim.start + WallTime
          /\ shim.next < shim.start + WallTime + Period

\* A request is noticed by the first tick that reads the row after it.
CancelInv ==
    /\ shim.cancel # Never =>
          /\ seen.asked # Never
          /\ seen.asked <= shim.cancel
          /\ shim.cancel <= Later(shim.start, seen.asked + Period) + Lag
    /\ (shim.pc = "watch" /\ shim.cancel = Never /\ seen.asked # Never) =>
          shim.next <= Later(shim.start, seen.asked + Period)
    /\ (shim.pc = "act" /\ shim.cancel = Never /\ seen.asked # Never /\ ~shim.flag) =>
          shim.next <= seen.asked
    /\ (shim.pc = "act" /\ shim.flag) =>
          /\ seen.asked # Never
          /\ shim.cancel = Never => shim.next <= Later(shim.start, seen.asked + Period)

\* A grace period that began is not over, or the next tick is the first after it.
NotOver(since) == since # Never => shim.next < since + Grace + Period

GraceInv ==
    (shim.pc \in Supervising /\ ~LeaderGone) =>
        ~shim.killSent /\ NotOver(shim.timeout) /\ NotOver(shim.cancel)

\* A leader that is gone is waited for within Lag.  A verdict without its end is that of
\* a failed launch.
DiedInv ==
    /\ seen.died <= clock
    /\ LeaderGone <=> seen.died # Never
    /\ (shim.pc \in Supervising /\ LeaderGone) => clock <= Waitable + Lag
    /\ shim.pc \in {"complete", "done"} =>
          \/ LeaderGone
          \/ shim.start = Never /\ shim.code \in {"launch_failed", "setup_failed"}

\* The cgroup has its limits before it has a member, and a child is where its parent
\* was.
CgroupInv ==
    /\ shim.pc \in {"fork", "limits", "join"} => \A p \in Procs : ~procs[p].inside
    /\ shim.pc = "join" => cgroup.limits
    /\ (\E p \in Procs : procs[p].inside) => cgroup.limits
    /\ (shim.pc \in {"start"} \cup Supervising /\ shim.enforced /\ Leader \in Alive) =>
          procs[Leader].inside
    /\ ~seen.early => \A p \in Alive \ {Leader} : procs[p].inside
    /\ Cardinality(Members) <= PidsMax

SupervisionInv ==
    /\ TypeOK /\ LaunchInv /\ PollInv /\ AskedInv /\ TimeoutInv /\ CancelInv
    /\ GraceInv /\ DiedInv /\ CgroupInv /\ NoEarlySigkill /\ VerdictTellsCause

-----------------------------------------------------------------------------
(* Types *)

LEMMA ExitType ==
    ASSUME TypeOK, NEW S, NEW exit \in Exit, End(S, exit)
    PROVE  /\ procs' \in [Procs -> Proc]
           /\ seen' \in [asked : Time, sigkill : Time, died : Time, exit : Exit,
                         early : BOOLEAN, oom : BOOLEAN]
  BY DEF End, TypeOK, Proc, Time

LEMMA SigKillType ==
    ASSUME TypeOK, SigKill
    PROVE  /\ procs' \in [Procs -> Proc]
           /\ seen' \in [asked : Time, sigkill : Time, died : Time, exit : Exit,
                         early : BOOLEAN, oom : BOOLEAN]
<1>1. procs' \in [Procs -> Proc]
  BY DEF SigKill, TypeOK, Proc
<1>2. clock \in Time /\ "signal" \in Exit
  BY DEF TypeOK, Time, Exit
<1> QED
  BY <1>1, <1>2 DEF SigKill, TypeOK

LEMMA SupervisionTypeInit == Init => TypeOK
  BY TimesAssumption, BoundsAssumption
  DEF Init, TypeOK, InstantsPast, Row, Shim, Killer, Proc, Time, Code, Exit, ShimStep,
      Launching, Supervising, Never, NewRow, NewShim, NoKiller, NoProcs, NothingSeen

LEMMA SupervisionTypeNext == TypeOK /\ [Next]_vars => TypeOK'
<1> SUFFICES ASSUME TypeOK, [Next]_vars PROVE TypeOK'
  OBVIOUS
<1> USE DEF TypeOK
<1>1. CASE Launch
  <2> USE ProcsAssumption
      DEF InstantsPast, Shim, ShimStep, Launching, Supervising, ShimGoes, ShimFails
  <2>1. CASE Fork
    BY <2>1 DEF Fork, Proc
  <2>2. CASE ForkFails \/ SetupFails
    <3>1. row' \in Row /\ shim' \in Shim
      BY <2>2 DEF ForkFails, SetupFails, Code, Row
    <3>2. InstantsPast'
      <4>1. /\ shim'.start = shim.start /\ shim'.timeout = shim.timeout
            /\ shim'.cancel = shim.cancel /\ clock' = clock
        BY <2>2 DEF ForkFails, SetupFails
      <4> QED
        BY <4>1
    <3> QED
      BY <2>2, <3>1, <3>2 DEF ForkFails, SetupFails
  <2>3. CASE SetupLimits
    BY <2>3 DEF SetupLimits
  <2>4. CASE JoinCgroup
    <3>1. procs' \in [Procs -> Proc]
      <4>1. procs' = [procs EXCEPT ![Leader].inside = TRUE] \/ procs' = procs
        BY <2>4 DEF JoinCgroup
      <4>2. [procs EXCEPT ![Leader].inside = TRUE] \in [Procs -> Proc]
        <5>1. procs \in [Procs -> Proc]
          OBVIOUS
        <5> HIDE DEF TypeOK
        <5> QED
          BY <5>1 DEF Proc
      <4> QED
        BY <4>1, <4>2
    <3> QED
      BY <2>4, <3>1 DEF JoinCgroup
  <2>5. CASE MarkStarted
    <3>1. clock \in Time /\ clock \in Int
      BY TimesAssumption DEF Time
    <3>2. shim' \in Shim
      BY <2>5, <3>1 DEF MarkStarted
    <3>3. row' \in Row /\ InstantsPast'
      <4>1. /\ shim'.start = clock /\ shim'.timeout = shim.timeout
            /\ shim'.cancel = shim.cancel /\ clock' = clock
        BY <2>5 DEF MarkStarted
      <4>2. row' \in Row
        BY <2>5 DEF MarkStarted, Row
      <4> QED
        BY <4>1, <4>2
    <3> QED
      BY <2>5, <3>2, <3>3 DEF MarkStarted
  <2> QED
    BY <1>1, <2>1, <2>2, <2>3, <2>4, <2>5 DEF Launch
<1>2. CASE Supervise
  <2>1. CASE PollRead
    <3>1. row.kill \in BOOLEAN
      BY DEF Row
    <3> DEFINE expired == shim.timeout = Never /\ Elapsed(shim.start, WallTime)
    <3>2. shim' = [shim EXCEPT !.pc = "act", !.flag = row.kill, !.expired = expired]
      BY <2>1 DEF PollRead
    <3>3. expired \in BOOLEAN
      OBVIOUS
    <3> HIDE DEF expired
    <3>4. shim' \in Shim
      BY <3>1, <3>2, <3>3 DEF Shim, ShimStep, Supervising
    <3>5. InstantsPast'
      <4>1. /\ shim'.start = shim.start /\ shim'.timeout = shim.timeout
            /\ shim'.cancel = shim.cancel /\ clock' = clock
        BY <2>1, <3>2 DEF PollRead, Shim
      <4> QED
        BY <4>1 DEF InstantsPast
    <3> QED
      BY <2>1, <3>4, <3>5 DEF PollRead
  <2>2. CASE PollAct
    <3>0. clock \in Time
      BY DEF Time
    <3>1. TimeoutStarted \in Time /\ CancelStarted \in Time
      <4>1. shim.timeout \in Time /\ shim.cancel \in Time
        BY DEF Shim
      <4> QED
        BY <3>0, <4>1 DEF TimeoutStarted, CancelStarted
    <3>2. shim' \in Shim /\ InstantsPast'
      <4> DEFINE kills == ShouldEscalate(TimeoutStarted, CancelStarted) /\ ~shim.killSent
      <4>1. (shim.killSent \/ kills) \in BOOLEAN /\ shim.next + Period \in Int
        BY TimesAssumption DEF Shim
      <4>2. shim' = [shim EXCEPT !.pc       = "watch",
                                 !.timeout  = TimeoutStarted,
                                 !.cancel   = CancelStarted,
                                 !.killSent = shim.killSent \/ kills,
                                 !.flag     = FALSE,
                                 !.expired  = FALSE,
                                 !.next     = shim.next + Period]
        BY <2>2 DEF PollAct
      <4>3. clock' = clock
        BY <2>2 DEF PollAct
      <4> HIDE DEF kills
      <4>4. /\ shim'.start = shim.start /\ shim'.timeout = TimeoutStarted
            /\ shim'.cancel = CancelStarted
        BY <4>2 DEF Shim
      <4>5. shim' \in Shim
        BY <3>1, <4>1, <4>2 DEF Shim, ShimStep, Supervising
      <4>6. InstantsPast'
        BY <4>3, <4>4 DEF InstantsPast, TimeoutStarted, CancelStarted
      <4> QED
        BY <4>5, <4>6
    <3> QED
      BY <2>2, <3>2, SigKillType DEF PollAct
  <2>3. CASE Reap
    <3>1. \A timedOut, cancelled \in BOOLEAN, exit \in Exit :
            Classify(timedOut, cancelled, exit) \in Code
      BY DEF Classify, Code, Exit
    <3>2. Classify(shim.timeout # Never, shim.cancel # Never \/ row.kill, seen.exit) \in Code
      BY <3>1 DEF Row
    <3>3. shim' \in Shim /\ InstantsPast'
      <4> DEFINE code == Classify(shim.timeout # Never, shim.cancel # Never \/ row.kill,
                                  seen.exit)
      <4>1. shim' = [NewShim(shim.enforced) EXCEPT
                        !.pc = "complete", !.start = shim.start, !.code = code]
            /\ clock' = clock
        BY <2>3 DEF Reap
      <4>2. code \in Code
        BY <3>2
      <4> HIDE DEF code
      <4>3. shim' = [pc |-> "complete", enforced |-> shim.enforced, start |-> shim.start,
                     timeout |-> Never, cancel |-> Never, killSent |-> FALSE,
                     flag |-> FALSE, expired |-> FALSE, next |-> 0, code |-> code]
        BY <4>1 DEF NewShim
      <4>4. shim' \in Shim
        BY <4>2, <4>3 DEF Shim, ShimStep, Time
      <4>5. /\ shim'.start = shim.start /\ shim'.timeout = Never
            /\ shim'.cancel = Never /\ clock' = clock
        <5>1. clock' = clock
          BY <4>1
        <5> HIDE DEF TypeOK
        <5> QED
          BY <4>3, <5>1
      <4> QED
        BY <4>4, <4>5 DEF InstantsPast
    <3> QED
      BY <2>3, <3>3 DEF Reap
  <2>4. CASE Complete
    BY <2>4 DEF Complete, InstantsPast, Row, Shim, ShimGoes, ShimStep
  <2> QED
    BY <1>2, <2>1, <2>2, <2>3, <2>4 DEF Supervise
<1>3. CASE Kill
  <2>1. CASE KillFlag
    BY <2>1 DEF KillFlag, InstantsPast, Row, Killer, Time
  <2>2. CASE KillSignal
    <3>1. killer' \in Killer
      <4>1. \/ killer' = [pc |-> "sleep", pg |-> row.pg, due |-> clock + Grace]
            \/ killer' = [pc |-> "done", pg |-> FALSE, due |-> 0]
        BY <2>2 DEF KillSignal, KillerDone, NoKiller
      <4>2. row.pg \in BOOLEAN /\ clock + Grace \in Int
        BY TimesAssumption DEF Row
      <4>3. CASE killer' = [pc |-> "sleep", pg |-> row.pg, due |-> clock + Grace]
        BY <4>2, <4>3 DEF Killer
      <4>4. CASE killer' = [pc |-> "done", pg |-> FALSE, due |-> 0]
        BY <4>4 DEF Killer
      <4> QED
        BY <4>1, <4>3, <4>4
    <3> QED
      BY <2>2, <3>1 DEF KillSignal, InstantsPast
  <2>3. CASE KillEscalate
    <3>1. killer' \in Killer
      <4>1. killer' = [pc |-> "done", pg |-> FALSE, due |-> 0]
        BY <2>3 DEF KillEscalate, KillerDone, NoKiller
      <4> QED
        BY <4>1 DEF Killer
    <3> QED
      BY <2>3, <3>1, SigKillType DEF KillEscalate, InstantsPast
  <2> QED
    BY <1>3, <2>1, <2>2, <2>3 DEF Kill
<1>4. ASSUME NEW p \in Procs, Exits(p) PROVE TypeOK'
  BY <1>4, ExitType DEF Exits, InstantsPast
<1>5. ASSUME NEW p \in Procs, OomKill(p) PROVE TypeOK'
  <2>1. procs' \in [Procs -> Proc] /\ cgroup' \in [limits : BOOLEAN, oom : BOOLEAN]
    BY <1>5 DEF OomKill, Proc
  <2>2. clock \in Time /\ "signal" \in Exit
    BY DEF Time, Exit
  <2>3. seen' \in [asked : Time, sigkill : Time, died : Time, exit : Exit,
                   early : BOOLEAN, oom : BOOLEAN]
    BY <1>5, <2>2 DEF OomKill
  <2> QED
    BY <1>5, <2>1, <2>3 DEF OomKill, InstantsPast
<1>6. ASSUME NEW p \in Procs, NEW q \in Procs, ForkChild(p, q) PROVE TypeOK'
  BY <1>6 DEF ForkChild, InstantsPast, Proc, Alive
<1>7. CASE Tick
  BY <1>7, TimesAssumption DEF Tick, InstantsPast
<1>8. CASE Reuse
  <2>1. /\ NewRow \in Row /\ NoKiller \in Killer /\ NoProcs \in [Procs -> Proc]
        /\ \A enforced \in BOOLEAN : NewShim(enforced) \in Shim
    BY DEF NewRow, Row, NoKiller, Killer, NoProcs, Proc, NewShim, Shim, ShimStep,
           Launching, Code, Time, Never
  <2>2. NothingSeen \in [asked : Time, sigkill : Time, died : Time, exit : Exit,
                         early : BOOLEAN, oom : BOOLEAN]
    BY DEF NothingSeen, Time, Never, Exit
  <2> QED
    BY <1>8, <2>1, <2>2, TimesAssumption, BoundsAssumption
    DEF Reuse, InstantsPast, NewShim
<1>9. CASE UNCHANGED vars
  BY <1>9 DEF vars, InstantsPast
<1> QED
  BY <1>1, <1>2, <1>3, <1>4, <1>5, <1>6, <1>7, <1>8, <1>9 DEF Next, Workload

LEMMA Numbers ==
    ASSUME TypeOK
    PROVE  /\ clock \in Nat
           /\ seen.asked \in Int /\ seen.sigkill \in Int /\ seen.died \in Int
           /\ shim.start \in Int /\ shim.timeout \in Int /\ shim.cancel \in Int
           /\ shim.next \in Int /\ killer.due \in Int
           /\ Grace \in Nat /\ WallTime \in Nat /\ WallTime > 0 /\ Never = -1
           /\ Period \in Nat /\ Period > 0 /\ Lag \in Nat
<1>1. Time \subseteq Int /\ clock \in Nat
  BY TimesAssumption DEF TypeOK, Time, Never
<1>2. seen.asked \in Time /\ seen.sigkill \in Time /\ seen.died \in Time
  BY DEF TypeOK
<1>3. shim.start \in Time /\ shim.timeout \in Time /\ shim.cancel \in Time /\ shim.next \in Int
  BY DEF TypeOK, Shim
<1>4. killer.due \in Int
  BY DEF TypeOK, Killer
<1>5. /\ Grace \in Nat /\ WallTime \in Nat /\ WallTime > 0 /\ Never = -1
      /\ Period \in Nat /\ Period > 0 /\ Lag \in Nat
  BY TimesAssumption DEF Never
<1> QED
  BY <1>1, <1>2, <1>3, <1>4, <1>5

-----------------------------------------------------------------------------
(* The processes *)

\* The processes of S end: what this does to the group, the cgroup and the history.
Ended(S) ==
    /\ Alive' = Alive \ S
    /\ Members' = Members \ S
    /\ \A p \in Procs : procs'[p].inside = procs[p].inside
    /\ procs'[Leader].state = "none" <=> procs[Leader].state = "none"
    /\ LeaderGone' <=> LeaderGone \/ Leader \in S
    /\ seen'.asked = seen.asked
    /\ seen'.early = seen.early
    /\ seen'.died = IF Leader \in S THEN clock ELSE seen.died
    /\ Leader \notin S => seen'.exit = seen.exit

LEMMA ProcsEnd ==
    ASSUME TypeOK, NEW S \in SUBSET Alive,
           procs' = [p \in Procs |-> IF p \in S THEN [procs[p] EXCEPT !.state = "gone"]
                                                ELSE procs[p]]
    PROVE  /\ Alive' = Alive \ S
           /\ Members' = Members \ S
           /\ \A p \in Procs : procs'[p].inside = procs[p].inside
           /\ procs'[Leader].state = "none" <=> procs[Leader].state = "none"
           /\ LeaderGone' <=> LeaderGone \/ Leader \in S
<1>1. \A p \in Procs : /\ procs'[p].inside = procs[p].inside
                       /\ procs'[p].state = IF p \in S THEN "gone" ELSE procs[p].state
  BY DEF TypeOK, Proc
<1>2. \A p \in S : p \in Procs /\ procs[p].state = "alive"
  BY DEF Alive
<1> QED
  BY <1>1, <1>2, ProcsAssumption DEF Alive, Members, LeaderGone

LEMMA ExitsEnd ==
    ASSUME TypeOK, NEW p \in Procs, Exits(p)
    PROVE  p \in Alive /\ Ended({p}) /\ seen'.sigkill = seen.sigkill
<1>1. p \in Alive
  BY DEF Exits
<1>2. /\ procs' = [q \in Procs |-> IF q \in {p} THEN [procs[q] EXCEPT !.state = "gone"]
                                              ELSE procs[q]]
      /\ \E exit \in Exit :
            seen' = IF Leader \in {p} THEN [seen EXCEPT !.died = clock, !.exit = exit] ELSE seen
  BY DEF Exits, End
<1>3. /\ seen'.asked = seen.asked /\ seen'.early = seen.early
      /\ seen'.sigkill = seen.sigkill
      /\ seen'.died = IF Leader \in {p} THEN clock ELSE seen.died
      /\ Leader \notin {p} => seen'.exit = seen.exit
  BY <1>2 DEF TypeOK
<1> QED
  BY <1>1, <1>2, <1>3, ProcsEnd DEF Ended

LEMMA OomKillEnd ==
    ASSUME TypeOK, NEW p \in Procs, OomKill(p)
    PROVE  p \in Alive /\ Ended({p}) /\ seen'.sigkill = seen.sigkill
<1>1. p \in Alive
  BY DEF OomKill, Members
<1>2. procs' = [q \in Procs |-> IF q \in {p} THEN [procs[q] EXCEPT !.state = "gone"]
                                              ELSE procs[q]]
  BY DEF OomKill, TypeOK
<1>3. /\ seen'.asked = seen.asked /\ seen'.early = seen.early
      /\ seen'.sigkill = seen.sigkill
      /\ seen'.died = IF Leader \in {p} THEN clock ELSE seen.died
      /\ Leader \notin {p} => seen'.exit = seen.exit
  BY DEF TypeOK, OomKill
<1> QED
  BY <1>1, <1>2, <1>3, ProcsEnd DEF Ended

LEMMA SigKillEnd ==
    ASSUME TypeOK, SigKill
    PROVE  /\ Ended(Alive)
           /\ seen'.sigkill = IF seen.sigkill = Never THEN clock ELSE seen.sigkill
<1>1. procs' = [q \in Procs |-> IF q \in Alive THEN [procs[q] EXCEPT !.state = "gone"]
                                               ELSE procs[q]]
  BY DEF SigKill
<1>2. /\ seen'.asked = seen.asked /\ seen'.early = seen.early
      /\ seen'.sigkill = IF seen.sigkill = Never THEN clock ELSE seen.sigkill
      /\ seen'.died = IF Leader \in Alive THEN clock ELSE seen.died
      /\ Leader \notin Alive => seen'.exit = seen.exit
  BY DEF TypeOK, SigKill
<1> QED
  BY <1>1, <1>2, ProcsEnd DEF Ended

\* A fork touches neither the leader nor what the history says of it.
LEMMA ForkEffect ==
    ASSUME TypeOK, NEW p \in Procs, NEW q \in Procs, ForkChild(p, q)
    PROVE  /\ procs'[Leader] = procs[Leader]
           /\ LeaderGone' <=> LeaderGone
           /\ seen'.asked = seen.asked /\ seen'.died = seen.died
           /\ seen'.exit = seen.exit /\ seen'.sigkill = seen.sigkill
           /\ seen'.early = (seen.early \/ ~procs[p].inside)
<1>1. procs'[Leader] = procs[Leader]
  BY ProcsAssumption DEF ForkChild, TypeOK
<1>2. seen' = [seen EXCEPT !.early = seen.early \/ ~procs[p].inside]
  BY DEF ForkChild
<1> QED
  BY <1>1, <1>2 DEF TypeOK, LeaderGone

-----------------------------------------------------------------------------
(* The invariant, action by action; the types are SupervisionTypeNext's *)

\* What the steps have to preserve.
Kept == /\ LaunchInv /\ PollInv /\ AskedInv /\ TimeoutInv /\ CancelInv
        /\ GraceInv /\ DiedInv /\ CgroupInv /\ NoEarlySigkill /\ VerdictTellsCause

\* Before supervision nothing but the shim's step, the leader's start and where it is.
LEMMA KeptByFork == SupervisionInv /\ Fork => Kept'
<1> SUFFICES ASSUME SupervisionInv, Fork PROVE Kept'
  OBVIOUS
<1> USE DEF Launching, Supervising
<1>1. TypeOK
  BY DEF SupervisionInv
<1>2. /\ shim.pc = "fork"
      /\ shim'.pc \in {"limits", "start"} /\ (shim.enforced => shim'.pc = "limits")
      /\ shim'.enforced = shim.enforced
      /\ shim'.start = shim.start /\ shim'.timeout = shim.timeout
      /\ shim'.cancel = shim.cancel /\ shim'.killSent = shim.killSent
      /\ shim'.code = shim.code
  BY <1>1 DEF Fork, ShimGoes, TypeOK, Shim
<1>3. /\ procs'[Leader].state = "alive"
      /\ \A p \in Procs : procs'[p].inside = procs[p].inside
      /\ \A p \in Procs \ {Leader} : procs'[p] = procs[p]
  BY <1>1, ProcsAssumption DEF Fork, TypeOK, Proc
<1>4. UNCHANGED <<clock, row, killer, cgroup, seen>>
  BY DEF Fork
<1>5. LaunchInv' /\ PollInv'
  BY <1>2, <1>3 DEF SupervisionInv, LaunchInv, PollInv
<1>6. AskedInv' /\ TimeoutInv' /\ CancelInv' /\ GraceInv'
  BY <1>2, <1>4 DEF SupervisionInv, LaunchInv, AskedInv, TimeoutInv, CancelInv,
                    GraceInv
<1>7. DiedInv'
  BY <1>2, <1>3, <1>4 DEF SupervisionInv, DiedInv, Waitable, Later, LaunchInv, LeaderGone
<1>8. CgroupInv'
  <2>1. Members = {} /\ Members' = {}
    BY <1>2, <1>3 DEF SupervisionInv, CgroupInv, Members, Alive
  <2>2. \A p \in Procs : ~procs'[p].inside
    BY <1>2, <1>3 DEF SupervisionInv, CgroupInv
  <2>3. Alive' \ {Leader} = Alive \ {Leader}
    BY <1>3 DEF Alive
  <2>4. Leader \in Alive' => shim'.pc # "start" \/ ~shim'.enforced
    BY <1>2
  <2>5. /\ Cardinality(Members') <= PidsMax
        /\ ~seen.early => \A p \in Alive \ {Leader} : p \in Procs /\ procs'[p].inside
    BY <1>3, <2>1 DEF SupervisionInv, CgroupInv, Alive
  <2> QED
    BY <1>2, <1>4, <2>2, <2>3, <2>4, <2>5 DEF CgroupInv
<1>9. NoEarlySigkill' /\ VerdictTellsCause'
  BY <1>2, <1>4 DEF SupervisionInv, NoEarlySigkill, VerdictTellsCause, Waitable, LaunchInv
<1> QED
  BY <1>5, <1>6, <1>7, <1>8, <1>9 DEF Kept

LEMMA KeptByFailure == SupervisionInv /\ (ForkFails \/ SetupFails) => Kept'
<1> SUFFICES ASSUME SupervisionInv, ForkFails \/ SetupFails PROVE Kept'
  OBVIOUS
<1> USE DEF Launching, Supervising
<1>1. TypeOK
  BY DEF SupervisionInv
<1>2. /\ shim.pc \in Launching /\ shim'.pc = "complete"
      /\ shim'.start = shim.start /\ shim'.timeout = shim.timeout
      /\ shim'.cancel = shim.cancel
      /\ shim'.code \in {"launch_failed", "setup_failed"}
  BY <1>1 DEF ForkFails, SetupFails, ShimFails, TypeOK, Shim
<1>3. UNCHANGED <<clock, row, killer, procs, cgroup, seen>>
  BY DEF ForkFails, SetupFails
<1>4. LaunchInv' /\ PollInv' /\ AskedInv' /\ GraceInv'
  BY <1>2, <1>3 DEF SupervisionInv, LaunchInv, PollInv, AskedInv, GraceInv
<1>5. TimeoutInv' /\ CancelInv' /\ NoEarlySigkill'
  BY <1>2, <1>3 DEF SupervisionInv, TimeoutInv, CancelInv, NoEarlySigkill
<1>6. DiedInv'
  BY <1>2, <1>3 DEF SupervisionInv, DiedInv, Waitable, Later, LaunchInv, LeaderGone
<1>7. CgroupInv'
  BY <1>2, <1>3 DEF SupervisionInv, CgroupInv, Members, Alive
<1>8. VerdictTellsCause'
  BY <1>2, <1>3 DEF SupervisionInv, VerdictTellsCause, LaunchInv
<1> QED
  BY <1>4, <1>5, <1>6, <1>7, <1>8 DEF Kept

LEMMA KeptByCgroup == SupervisionInv /\ (SetupLimits \/ JoinCgroup) => Kept'
<1> SUFFICES ASSUME SupervisionInv, SetupLimits \/ JoinCgroup PROVE Kept'
  OBVIOUS
<1> USE DEF Launching, Supervising
<1>1. TypeOK
  BY DEF SupervisionInv
<1>2. /\ shim.pc \in {"limits", "join"} /\ shim'.pc \in {"join", "start"}
      /\ shim'.enforced = shim.enforced
      /\ shim'.start = shim.start /\ shim'.timeout = shim.timeout
      /\ shim'.cancel = shim.cancel /\ shim'.killSent = shim.killSent
      /\ shim'.code = shim.code
  BY <1>1 DEF SetupLimits, JoinCgroup, ShimGoes, TypeOK, Shim
<1>3. /\ \A p \in Procs : procs'[p].state = procs[p].state
      /\ \A p \in Procs \ {Leader} : procs'[p] = procs[p]
  BY <1>1, ProcsAssumption DEF SetupLimits, JoinCgroup, TypeOK, Proc
<1>4. UNCHANGED <<clock, row, killer, seen>>
  BY DEF SetupLimits, JoinCgroup
<1>5. LaunchInv' /\ PollInv'
  BY <1>2, <1>3, ProcsAssumption DEF SupervisionInv, LaunchInv, PollInv
<1>6. AskedInv' /\ TimeoutInv' /\ CancelInv' /\ GraceInv'
  BY <1>2, <1>4 DEF SupervisionInv, LaunchInv, AskedInv, TimeoutInv, CancelInv,
                    GraceInv
<1>7. DiedInv'
  BY <1>2, <1>3, <1>4, ProcsAssumption DEF SupervisionInv, DiedInv, Waitable, Later, LeaderGone
<1>8. CgroupInv'
  <2>1. Alive' = Alive /\ \A p \in Alive : p \in Procs
    BY <1>3 DEF Alive
  <2>2. \A p \in Procs : ~procs[p].inside
    BY <1>2 DEF SupervisionInv, CgroupInv
  <2>3. CASE SetupLimits
    <3>1. procs' = procs /\ shim'.pc = "join" /\ cgroup'.limits
      BY <1>1, <2>3 DEF SetupLimits, ShimGoes, TypeOK, Shim
    <3>2. Members' = Members
      BY <2>1, <3>1 DEF Members
    <3> QED
      BY <1>2, <1>4, <2>1, <2>2, <3>1, <3>2 DEF SupervisionInv, CgroupInv
  <2>4. CASE JoinCgroup
    <3>1. /\ cgroup.limits /\ cgroup' = cgroup /\ shim'.pc = "start"
          /\ Leader \in Alive => procs'[Leader].inside
      BY <1>1, <2>4, ProcsAssumption
      DEF SupervisionInv, CgroupInv, JoinCgroup, ShimGoes, TypeOK, Shim, Proc
    <3>2. Members' \subseteq {Leader}
      BY <1>3, <2>1, <2>2 DEF Members
    <3>3. Cardinality(Members') <= PidsMax
      <4>1. Cardinality({Leader}) = 1 /\ IsFiniteSet({Leader})
        BY FS_Singleton
      <4>2. Cardinality(Members') <= 1 /\ Cardinality(Members') \in Nat
        BY <3>2, <4>1, FS_Subset, FS_CardinalityType
      <4> QED
        BY <4>2, BoundsAssumption
    <3>4. \A p \in Alive \ {Leader} : procs'[p].inside = procs[p].inside
      BY <1>3, <2>1
    <3> QED
      BY <1>2, <1>4, <2>1, <2>2, <3>1, <3>3, <3>4 DEF SupervisionInv, CgroupInv
  <2> QED
    BY <2>3, <2>4
<1>9. NoEarlySigkill' /\ VerdictTellsCause'
  BY <1>2, <1>4 DEF SupervisionInv, NoEarlySigkill, VerdictTellsCause, Waitable, LaunchInv
<1> QED
  BY <1>5, <1>6, <1>7, <1>8, <1>9 DEF Kept

\* supervise_wait begins with every timer unset and a poll that is due.
LEMMA KeptByMarkStarted == SupervisionInv /\ MarkStarted => Kept'
<1> SUFFICES ASSUME SupervisionInv, MarkStarted PROVE Kept'
  OBVIOUS
<1> USE DEF Launching, Supervising
<1>1. TypeOK
  BY DEF SupervisionInv
<1>2. /\ shim.pc = "start" /\ shim'.pc = "watch"
      /\ shim'.start = clock /\ shim'.next = clock
      /\ shim'.enforced = shim.enforced
      /\ shim'.timeout = Never /\ shim'.cancel = Never /\ ~shim'.killSent
      /\ shim'.code = "none"
  BY <1>1 DEF MarkStarted, TypeOK, Shim, SupervisionInv, LaunchInv
<1>3. row'.kill = row.kill /\ UNCHANGED <<clock, killer, procs, cgroup, seen>>
  BY <1>1 DEF MarkStarted, TypeOK, Row
<1>4. LaunchInv' /\ PollInv' /\ AskedInv'
  BY <1>1, <1>2, <1>3, Numbers
  DEF SupervisionInv, LaunchInv, PollInv, AskedInv
<1>5. TimeoutInv' /\ CancelInv' /\ GraceInv'
  BY <1>1, <1>2, <1>3, Numbers
  DEF SupervisionInv, TimeoutInv, CancelInv, AskedInv, GraceInv, NotOver, Later
<1>6. DiedInv'
  BY <1>1, <1>2, <1>3, Numbers DEF SupervisionInv, DiedInv, Waitable, Later, LeaderGone
<1>7. CgroupInv'
  BY <1>2, <1>3 DEF SupervisionInv, CgroupInv, Members, Alive
<1>8. NoEarlySigkill' /\ VerdictTellsCause'
  <2>1. shim.start = Never
    BY <1>2 DEF SupervisionInv, LaunchInv
  <2> QED
    BY <1>2, <1>3, <2>1 DEF SupervisionInv, NoEarlySigkill, VerdictTellsCause
<1> QED
  BY <1>4, <1>5, <1>6, <1>7, <1>8 DEF Kept

\* Processes that end, or are ended while the shim and the row stay what they are.
LEMMA KeptByEnd ==
    ASSUME SupervisionInv, NEW S \in SUBSET Alive, Ended(S),
           UNCHANGED <<clock, shim>>, row'.kill = row.kill, cgroup'.limits = cgroup.limits
    PROVE  LaunchInv' /\ PollInv' /\ TimeoutInv' /\ CancelInv' /\ GraceInv' /\ DiedInv'
           /\ CgroupInv' /\ VerdictTellsCause'
<1>1. TypeOK
  BY DEF SupervisionInv
<1>2. /\ seen'.asked = seen.asked /\ seen'.early = seen.early
      /\ seen'.died = IF Leader \in S THEN clock ELSE seen.died
      /\ Leader \notin S => seen'.exit = seen.exit
      /\ LeaderGone' <=> LeaderGone \/ Leader \in S
      /\ procs'[Leader].state = "none" <=> procs[Leader].state = "none"
  BY DEF Ended
<1>3. Leader \in S => ~LeaderGone
  BY DEF Alive, LeaderGone
<1>4. LaunchInv' /\ PollInv' /\ TimeoutInv' /\ CancelInv' /\ GraceInv'
  BY <1>2 DEF SupervisionInv, LaunchInv, PollInv, TimeoutInv, CancelInv, GraceInv, NotOver
<1>5. DiedInv'
  BY <1>1, <1>2, <1>3, Numbers DEF SupervisionInv, DiedInv, Waitable, Later
<1>6. CgroupInv'
  <2>1. /\ Alive' = Alive \ S /\ Members' = Members \ S
        /\ \A p \in Procs : procs'[p].inside = procs[p].inside
    BY DEF Ended
  <2>2. Cardinality(Members') <= PidsMax
    <3>1. IsFiniteSet(Members) /\ Members' \subseteq Members
      BY <2>1, ProcsAssumption, FS_Subset DEF Members, Alive
    <3>2. /\ Cardinality(Members') <= Cardinality(Members)
          /\ Cardinality(Members') \in Nat /\ Cardinality(Members) \in Nat
      BY <3>1, FS_Subset, FS_CardinalityType
    <3>3. Cardinality(Members) <= PidsMax /\ PidsMax \in Nat
      BY BoundsAssumption DEF SupervisionInv, CgroupInv
    <3> QED
      BY <3>2, <3>3
  <2>3. \A p \in Alive' : p \in Alive /\ p \in Procs
    BY <2>1 DEF Alive
  <2> QED
    BY <1>2, <2>1, <2>2, <2>3, ProcsAssumption DEF SupervisionInv, CgroupInv
<1>7. VerdictTellsCause'
  <2>1. (shim.code # "none" /\ shim.start # Never) => Leader \notin S
    BY <1>1, <1>3 DEF SupervisionInv, LaunchInv, DiedInv, TypeOK, Shim, ShimStep
  <2> QED
    BY <1>2, <2>1 DEF SupervisionInv, VerdictTellsCause, Waitable
<1> QED
  BY <1>4, <1>5, <1>6, <1>7

LEMMA KeptByWorkload ==
    ASSUME SupervisionInv, NEW p \in Procs, Exits(p) \/ OomKill(p)
    PROVE  Kept'
<1>1. TypeOK
  BY DEF SupervisionInv
<1>2. p \in Alive /\ Ended({p}) /\ seen'.sigkill = seen.sigkill
  BY <1>1, ExitsEnd, OomKillEnd
<1>3. UNCHANGED <<clock, row, shim, killer>> /\ cgroup'.limits = cgroup.limits
  BY <1>1 DEF Exits, OomKill, TypeOK
<1>4. LaunchInv' /\ PollInv' /\ TimeoutInv' /\ CancelInv' /\ GraceInv' /\ DiedInv'
      /\ CgroupInv' /\ VerdictTellsCause'
  BY <1>2, <1>3, KeptByEnd
<1>5. AskedInv' /\ NoEarlySigkill'
  BY <1>2, <1>3 DEF Ended, SupervisionInv, AskedInv, NoEarlySigkill
<1> QED
  BY <1>4, <1>5 DEF Kept

\* A child is in the cgroup of its parent, and there only below pids.max.
LEMMA KeptByForkChild ==
    ASSUME SupervisionInv, NEW p \in Procs, NEW q \in Procs, ForkChild(p, q)
    PROVE  Kept'
<1>1. TypeOK
  BY DEF SupervisionInv
<1>2. UNCHANGED <<clock, row, shim, killer, cgroup>>
  BY DEF ForkChild
<1>3. /\ procs'[Leader] = procs[Leader]
      /\ LeaderGone' <=> LeaderGone
      /\ seen'.asked = seen.asked /\ seen'.died = seen.died
      /\ seen'.exit = seen.exit /\ seen'.sigkill = seen.sigkill
      /\ seen'.early = (seen.early \/ ~procs[p].inside)
  BY <1>1, ForkEffect
<1>4. LaunchInv' /\ PollInv' /\ AskedInv' /\ TimeoutInv' /\ CancelInv'
  BY <1>2, <1>3 DEF SupervisionInv, LaunchInv, PollInv, AskedInv, TimeoutInv, CancelInv
<1>5. GraceInv' /\ DiedInv' /\ NoEarlySigkill' /\ VerdictTellsCause'
  BY <1>2, <1>3
  DEF SupervisionInv, GraceInv, NotOver, DiedInv, Waitable, Later,
      NoEarlySigkill, VerdictTellsCause
<1>6. CgroupInv'
  <2>1. /\ p \in Alive /\ q \notin Alive /\ q # Leader
        /\ (procs[p].inside /\ cgroup.limits) => Cardinality(Members) < PidsMax
    BY DEF ForkChild, Alive
  <2>2. /\ \A r \in Procs \ {q} : procs'[r] = procs[r]
        /\ procs'[q].state = "alive" /\ procs'[q].inside = procs[p].inside
    BY <1>1 DEF ForkChild, TypeOK
  <2>3. /\ Alive' = Alive \cup {q}
        /\ Members' = IF procs[p].inside THEN Members \cup {q} ELSE Members
    BY <2>1, <2>2 DEF Alive, Members
  <2>4. Cardinality(Members') <= PidsMax
    <3>1. IsFiniteSet(Members) /\ q \notin Members
      BY <2>1, ProcsAssumption, FS_Subset DEF Members, Alive
    <3>2. procs[p].inside => Cardinality(Members) < PidsMax
      BY <2>1 DEF SupervisionInv, CgroupInv
    <3>3. /\ Cardinality(Members \cup {q}) = Cardinality(Members) + 1
          /\ Cardinality(Members) \in Nat /\ PidsMax \in Nat
          /\ Cardinality(Members) <= PidsMax
      BY <3>1, FS_AddElement, FS_CardinalityType, BoundsAssumption
      DEF SupervisionInv, CgroupInv
    <3> QED
      BY <2>3, <3>2, <3>3
  <2>5. \A r \in Alive : r \in Procs /\ r # q
    BY <2>1 DEF Alive
  <2>6. /\ shim.pc \in {"fork", "limits", "join"} => \A r \in Procs : ~procs'[r].inside
        /\ (\E r \in Procs : procs'[r].inside) => cgroup.limits
    BY <2>2 DEF SupervisionInv, CgroupInv
  <2>7. ~seen'.early => \A r \in Alive' \ {Leader} : procs'[r].inside
    BY <1>3, <2>2, <2>3, <2>5 DEF SupervisionInv, CgroupInv
  <2> QED
    BY <1>2, <1>3, <2>1, <2>3, <2>4, <2>6, <2>7 DEF SupervisionInv, CgroupInv
<1> QED
  BY <1>4, <1>5, <1>6 DEF Kept

\* The kill handler: the flag dates the first request, and the escalation waits.
LEMMA KeptByKillFlag == SupervisionInv /\ KillFlag => Kept'
<1> SUFFICES ASSUME SupervisionInv, KillFlag PROVE Kept'
  OBVIOUS
<1> USE DEF Launching, Supervising
<1>1. TypeOK
  BY DEF SupervisionInv
<1>2. UNCHANGED <<clock, shim, procs, cgroup>>
  BY DEF KillFlag
<1>3. /\ seen.asked = Never /\ seen'.asked = clock /\ row'.kill
      /\ seen'.died = seen.died /\ seen'.exit = seen.exit
      /\ seen'.sigkill = seen.sigkill /\ seen'.early = seen.early
  BY <1>1 DEF KillFlag, TypeOK, Row, SupervisionInv, AskedInv
<1>4. killer'.pc = "signal"
  BY <1>1 DEF KillFlag, TypeOK, Killer
<1>5. LaunchInv' /\ PollInv' /\ TimeoutInv' /\ GraceInv' /\ CgroupInv'
  BY <1>2, <1>3 DEF SupervisionInv, LaunchInv, PollInv, TimeoutInv, GraceInv, NotOver,
                    LeaderGone, CgroupInv, Members, Alive
<1>6. AskedInv' /\ CancelInv'
  <2>1. killer.pc = "idle" /\ shim.cancel = Never
    BY <1>3 DEF KillFlag, SupervisionInv, CancelInv
  <2>2. AskedInv'
    BY <1>1, <1>2, <1>3, <1>4, Numbers DEF AskedInv
  <2>3. CancelInv'
    BY <1>1, <1>2, <1>3, <2>1, Numbers DEF SupervisionInv, CancelInv, PollInv, AskedInv, Later
  <2> QED
    BY <2>2, <2>3
<1>7. DiedInv' /\ NoEarlySigkill'
  <2>1. DiedInv'
    BY <1>2, <1>3 DEF SupervisionInv, DiedInv, Waitable, Later, LeaderGone
  <2> QED
    BY <1>2, <1>3, <2>1 DEF SupervisionInv, NoEarlySigkill
<1>8. VerdictTellsCause'
  BY <1>2, <1>3 DEF SupervisionInv, VerdictTellsCause, DiedInv, Waitable, Later
<1> QED
  BY <1>5, <1>6, <1>7, <1>8 DEF Kept

LEMMA KeptByKillSignal == SupervisionInv /\ KillSignal => Kept'
<1> SUFFICES ASSUME SupervisionInv, KillSignal PROVE Kept'
  OBVIOUS
<1>1. TypeOK
  BY DEF SupervisionInv
<1>2. UNCHANGED <<clock, row, shim, procs, cgroup, seen>>
  BY DEF KillSignal
<1>3. /\ killer.pc = "signal"
      /\ \/ killer'.pc = "sleep" /\ killer'.due = clock + Grace
         \/ killer'.pc = "done"
  BY <1>1 DEF KillSignal, KillerDone, NoKiller, TypeOK, Killer
<1>4. AskedInv'
  BY <1>1, <1>2, <1>3, Numbers DEF SupervisionInv, AskedInv
<1> QED
  BY <1>2, <1>4
  DEF Kept, SupervisionInv, LaunchInv, PollInv, TimeoutInv, CancelInv, GraceInv, NotOver,
      DiedInv, Waitable, Later, LeaderGone, CgroupInv, Members, Alive, NoEarlySigkill,
      VerdictTellsCause

LEMMA KeptByKillEscalate == SupervisionInv /\ KillEscalate => Kept'
<1> SUFFICES ASSUME SupervisionInv, KillEscalate PROVE Kept'
  OBVIOUS
<1>1. TypeOK
  BY DEF SupervisionInv
<1>2. UNCHANGED <<clock, row, shim, cgroup>>
  BY DEF KillEscalate
<1>3. killer.pc = "sleep" /\ killer'.pc = "done" /\ killer.due <= clock
  BY <1>1 DEF KillEscalate, KillerDone, NoKiller, TypeOK, Killer
<1>4. CASE SigKill
  <2>1. /\ Ended(Alive)
        /\ seen'.sigkill = IF seen.sigkill = Never THEN clock ELSE seen.sigkill
    BY <1>1, <1>4, SigKillEnd
  <2>2. LaunchInv' /\ PollInv' /\ TimeoutInv' /\ CancelInv' /\ GraceInv' /\ DiedInv'
        /\ CgroupInv' /\ VerdictTellsCause'
    BY <1>2, <2>1, KeptByEnd
  <2>3. seen'.asked = seen.asked
    BY <2>1 DEF Ended
  <2>4. AskedInv'
    BY <1>2, <1>3, <2>3 DEF SupervisionInv, AskedInv
  <2>5. NoEarlySigkill'
    BY <1>1, <1>2, <1>3, <2>1, <2>3, Numbers DEF SupervisionInv, AskedInv, NoEarlySigkill
  <2> QED
    BY <2>2, <2>4, <2>5 DEF Kept
<1>5. CASE UNCHANGED <<procs, seen>>
  <2>1. AskedInv'
    BY <1>2, <1>3, <1>5 DEF SupervisionInv, AskedInv
  <2> QED
    BY <1>2, <1>5, <2>1
    DEF Kept, SupervisionInv, LaunchInv, PollInv, TimeoutInv, CancelInv, GraceInv, NotOver,
        DiedInv, Waitable, Later, LeaderGone, CgroupInv, Members, Alive, NoEarlySigkill,
        VerdictTellsCause
<1> QED
  BY <1>4, <1>5 DEF KillEscalate

\* A tick finds the wall time over and the request made, or is before either.
LEMMA KeptByPollRead == SupervisionInv /\ PollRead => Kept'
<1> SUFFICES ASSUME SupervisionInv, PollRead PROVE Kept'
  OBVIOUS
<1>1. TypeOK
  BY DEF SupervisionInv
<1>2. /\ shim.pc = "watch" /\ shim.next <= clock
      /\ UNCHANGED <<clock, row, killer, procs, cgroup, seen>>
  BY DEF PollRead
<1>3. /\ shim'.pc = "act" /\ shim'.enforced = shim.enforced
      /\ shim'.start = shim.start /\ shim'.code = shim.code
      /\ shim'.timeout = shim.timeout /\ shim'.cancel = shim.cancel
      /\ shim'.next = shim.next /\ shim'.killSent = shim.killSent
      /\ shim'.flag = row.kill
      /\ shim'.expired <=> shim.timeout = Never /\ Elapsed(shim.start, WallTime)
  <2> DEFINE expired == shim.timeout = Never /\ Elapsed(shim.start, WallTime)
  <2>1. shim' = [shim EXCEPT !.pc = "act", !.flag = row.kill, !.expired = expired]
    BY DEF PollRead
  <2> HIDE DEF expired
  <2>2. /\ shim'.pc = "act" /\ shim'.enforced = shim.enforced
        /\ shim'.start = shim.start /\ shim'.code = shim.code
        /\ shim'.timeout = shim.timeout /\ shim'.cancel = shim.cancel
        /\ shim'.next = shim.next /\ shim'.killSent = shim.killSent
        /\ shim'.flag = row.kill /\ shim'.expired = expired
    BY <1>1, <2>1 DEF TypeOK, Shim
  <2> QED
    BY <2>2 DEF expired
<1>4. /\ shim.start \in 0..clock
      /\ shim.start # Never
  BY <1>1, <1>2, Numbers DEF SupervisionInv, PollInv, Supervising
<1>5. LaunchInv' /\ PollInv' /\ AskedInv'
  BY <1>1, <1>2, <1>3, Numbers
  DEF SupervisionInv, LaunchInv, PollInv, AskedInv, Launching, Supervising
<1>6. TimeoutInv'
  BY <1>1, <1>2, <1>3, <1>4, Numbers DEF SupervisionInv, TimeoutInv, Elapsed
<1>7. CancelInv'
  BY <1>1, <1>2, <1>3, Numbers DEF SupervisionInv, CancelInv, AskedInv
<1>8. GraceInv' /\ DiedInv' /\ CgroupInv'
  BY <1>2, <1>3
  DEF SupervisionInv, GraceInv, NotOver, DiedInv, Waitable, LeaderGone, CgroupInv, Members,
      Alive, Supervising
<1>9. NoEarlySigkill' /\ VerdictTellsCause'
  BY <1>2, <1>3
  DEF SupervisionInv, LaunchInv, Supervising, NoEarlySigkill, VerdictTellsCause
<1> QED
  BY <1>5, <1>6, <1>7, <1>8, <1>9 DEF Kept

\* The rest of the tick: a timer that starts starts within Lag of the tick, and a tick
\* that finds a grace period over ends the leader.
LEMMA KeptByPollAct == SupervisionInv /\ PollAct => Kept'
<1> SUFFICES ASSUME SupervisionInv, PollAct PROVE Kept'
  OBVIOUS
<1> DEFINE kills == ShouldEscalate(TimeoutStarted, CancelStarted) /\ ~shim.killSent
<1>1. TypeOK
  BY DEF SupervisionInv
<1>2. /\ shim.pc = "act"
      /\ UNCHANGED <<clock, row, killer, cgroup>>
      /\ IF kills THEN SigKill ELSE UNCHANGED <<procs, seen>>
  BY DEF PollAct
<1>3. /\ shim'.pc = "watch" /\ shim'.enforced = shim.enforced
      /\ shim'.start = shim.start /\ shim'.code = shim.code
      /\ shim'.timeout = TimeoutStarted /\ shim'.cancel = CancelStarted
      /\ shim'.next = shim.next + Period
      /\ shim'.killSent <=> shim.killSent \/ kills
  <2> HIDE DEF kills
  <2>1. shim' = [shim EXCEPT !.pc       = "watch",
                             !.timeout  = TimeoutStarted,
                             !.cancel   = CancelStarted,
                             !.killSent = shim.killSent \/ kills,
                             !.flag     = FALSE,
                             !.expired  = FALSE,
                             !.next     = shim.next + Period]
    BY DEF PollAct, kills
  <2> QED
    BY <1>1, <2>1 DEF TypeOK, Shim
<1>4. /\ shim.start \in 0..clock /\ shim.start # Never
      /\ shim.start <= shim.next /\ shim.next <= clock /\ clock <= shim.next + Lag
  BY <1>1, <1>2, Numbers DEF SupervisionInv, PollInv, Supervising
<1>5. /\ \A p \in Procs : procs'[p].inside = procs[p].inside
      /\ procs'[Leader].state = "none" <=> procs[Leader].state = "none"
      /\ seen'.asked = seen.asked /\ seen'.early = seen.early
      /\ LeaderGone => LeaderGone' /\ seen'.died = seen.died /\ seen'.exit = seen.exit
      /\ ~LeaderGone /\ LeaderGone' => seen'.died = clock
      /\ ~LeaderGone /\ ~LeaderGone' => seen'.died = seen.died
      /\ kills => LeaderGone'
      /\ Alive' \subseteq Alive /\ Members' \subseteq Members
  <2>1. CASE kills
    <3>1. Ended(Alive)
      BY <1>1, <1>2, <2>1, SigKillEnd
    <3>2. LeaderGone \/ Leader \in Alive
      BY <1>1, <1>2, ProcsAssumption
      DEF SupervisionInv, LaunchInv, Supervising, TypeOK, Proc, LeaderGone, Alive
    <3>3. LeaderGone => Leader \notin Alive
      BY DEF LeaderGone, Alive
    <3> HIDE DEF kills
    <3> QED
      BY <3>1, <3>2, <3>3 DEF Ended
  <2>2. CASE ~kills
    <3> HIDE DEF kills
    <3>1. UNCHANGED <<procs, seen>>
      BY <1>2, <2>2
    <3> QED
      BY <2>2, <3>1 DEF LeaderGone, Alive, Members
  <2> QED
    BY <2>1, <2>2
<1>7. LaunchInv' /\ PollInv' /\ AskedInv'
  <2> HIDE DEF kills
  <2> QED
    BY <1>1, <1>2, <1>3, <1>4, <1>5, Numbers
    DEF SupervisionInv, LaunchInv, PollInv, AskedInv, Launching, Supervising
<1>8. TimeoutInv'
  <2>1. \/ /\ shim'.timeout = shim.timeout /\ ~shim.expired
        \/ /\ shim'.timeout = clock /\ shim.expired
    BY <1>3 DEF TimeoutStarted
  <2> HIDE DEF kills
  <2> QED
    BY <1>1, <1>2, <1>3, <1>4, <2>1, Numbers DEF SupervisionInv, TimeoutInv
<1>9. CancelInv'
  <2>1. \/ shim'.cancel = shim.cancel /\ (shim.flag => shim.cancel # Never)
        \/ shim'.cancel = clock /\ shim.cancel = Never /\ shim.flag
    BY <1>3 DEF CancelStarted
  <2>2. /\ seen.asked \in Int /\ seen.asked <= clock /\ seen'.asked = seen.asked
        /\ Later(shim.start, seen.asked + Period) \in Int
        /\ Later(shim.start, seen.asked + Period) >= seen.asked + Period
    BY <1>1, <1>5, Numbers DEF SupervisionInv, AskedInv, Later
  <2> HIDE DEF kills
  <2> QED
    BY <1>1, <1>2, <1>3, <1>4, <2>1, <2>2, Numbers DEF SupervisionInv, CancelInv
<1>10. GraceInv'
  <2> SUFFICES ASSUME ~LeaderGone'
               PROVE  ~shim'.killSent /\ NotOver(shim.timeout)' /\ NotOver(shim.cancel)'
    BY DEF GraceInv
  <2>1. ~shim'.killSent /\ ~ShouldEscalate(TimeoutStarted, CancelStarted)
    BY <1>2, <1>3, <1>5 DEF SupervisionInv, GraceInv, Supervising
  <2>2. ~Elapsed(shim'.timeout, Grace) /\ ~Elapsed(shim'.cancel, Grace)
    BY <1>3, <2>1 DEF ShouldEscalate
  <2>3. shim'.timeout \in Int /\ shim'.cancel \in Int
    BY <1>1, <1>3, Numbers DEF TimeoutStarted, CancelStarted
  <2> QED
    BY <1>1, <1>2, <1>3, <1>4, <2>1, <2>2, <2>3, Numbers DEF NotOver, Elapsed
<1>11. DiedInv'
  <2> HIDE DEF kills
  <2> QED
    BY <1>1, <1>2, <1>3, <1>4, <1>5, Numbers
    DEF SupervisionInv, DiedInv, Waitable, Later, Supervising
<1>12. CgroupInv'
  <2>1. Cardinality(Members') <= PidsMax
    <3>1. IsFiniteSet(Members)
      BY ProcsAssumption, FS_Subset DEF Members, Alive
    <3>2. /\ Cardinality(Members') <= Cardinality(Members)
          /\ Cardinality(Members') \in Nat /\ Cardinality(Members) \in Nat
      BY <1>5, <3>1, FS_Subset, FS_CardinalityType
    <3>3. Cardinality(Members) <= PidsMax /\ PidsMax \in Nat
      BY BoundsAssumption DEF SupervisionInv, CgroupInv
    <3> QED
      BY <3>2, <3>3
  <2>2. \A p \in Alive' : p \in Alive /\ p \in Procs
    BY <1>5 DEF Alive
  <2> HIDE DEF kills
  <2> QED
    BY <1>2, <1>3, <1>5, <2>1, <2>2, ProcsAssumption
    DEF SupervisionInv, CgroupInv, Supervising
<1>13. NoEarlySigkill'
  <2>1. CASE kills
    <3>1. seen'.sigkill = IF seen.sigkill = Never THEN clock ELSE seen.sigkill
      BY <1>1, <1>2, <2>1, SigKillEnd
    <3>2. Elapsed(shim'.timeout, Grace) \/ Elapsed(shim'.cancel, Grace)
      BY <1>3, <2>1 DEF ShouldEscalate
    <3> HIDE DEF kills
    <3>3. /\ Elapsed(shim'.timeout, Grace) =>
                /\ shim'.start # Never
                /\ clock >= shim'.start + WallTime + Grace
          /\ Elapsed(shim'.cancel, Grace) =>
                /\ seen'.asked # Never
                /\ clock >= seen'.asked + Grace
      <4>1. TimeoutStarted \in Int /\ CancelStarted \in Int
        BY <1>1, Numbers DEF TimeoutStarted, CancelStarted
      <4> QED
        BY <1>1, <1>2, <1>3, <1>5, <1>8, <1>9, <4>1, Numbers
        DEF TimeoutInv, CancelInv, Elapsed
    <3>4. CASE seen.sigkill = Never
      BY <1>1, <3>1, <3>2, <3>3, <3>4, Numbers DEF NoEarlySigkill
    <3>5. CASE seen.sigkill # Never
      BY <1>3, <1>5, <3>1, <3>5 DEF SupervisionInv, NoEarlySigkill
    <3> QED
      BY <3>4, <3>5
  <2>2. CASE ~kills
    <3> HIDE DEF kills
    <3>1. UNCHANGED seen
      BY <1>2, <2>2
    <3> QED
      BY <1>3, <3>1 DEF SupervisionInv, NoEarlySigkill
  <2> QED
    BY <2>1, <2>2
<1>14. VerdictTellsCause'
  <2>1. shim'.code = "none"
    BY <1>2, <1>3 DEF SupervisionInv, LaunchInv, Supervising
  <2> QED
    BY <2>1 DEF VerdictTellsCause
<1> QED
  BY <1>7, <1>8, <1>9, <1>10, <1>11, <1>12, <1>13, <1>14 DEF Kept

\* What classify_completion goes by.
LEMMA ClassifySays ==
    ASSUME TypeOK, NEW timedOut \in BOOLEAN, NEW cancelled \in BOOLEAN,
           NEW code, code = Classify(timedOut, cancelled, seen.exit)
    PROVE  /\ code = "timeout" <=> timedOut
           /\ code = "cancelled" => cancelled
           /\ code \notin {"timeout", "cancelled"} =>
                 ~cancelled /\ code \in {"memory", OwnVerdict[seen.exit]}
<1>1. seen.exit \in {"zero", "nonzero", "sigxcpu", "signal"}
  BY DEF TypeOK, Exit
<1>2. /\ OwnVerdict["zero"] = "success" /\ OwnVerdict["nonzero"] = "exit"
      /\ OwnVerdict["sigxcpu"] = "cpu" /\ OwnVerdict["signal"] = "signal"
  BY DEF OwnVerdict
<1> QED
  BY <1>1, <1>2 DEF Classify

\* The verdict is taken within Lag of the end of the leader, so that the timers say what
\* had come before, give or take that much.
LEMMA KeptByReap == SupervisionInv /\ Reap => Kept'
<1> SUFFICES ASSUME SupervisionInv, Reap PROVE Kept'
  OBVIOUS
<1> DEFINE timedOut == shim.timeout # Never
           cancelled == shim.cancel # Never \/ row.kill
           code == Classify(timedOut, cancelled, seen.exit)
<1>1. TypeOK /\ row.kill \in BOOLEAN
  BY DEF SupervisionInv, TypeOK, Row
<1>2. /\ shim.pc = "watch" /\ LeaderGone
      /\ UNCHANGED <<clock, row, killer, procs, cgroup, seen>>
  BY DEF Reap
<1>3. /\ shim'.pc = "complete" /\ shim'.code = code
      /\ shim'.start = shim.start /\ shim'.timeout = Never
      /\ shim'.cancel = Never
  <2> HIDE DEF code
  <2>1. shim' = [NewShim(shim.enforced) EXCEPT
                    !.pc = "complete", !.start = shim.start, !.code = code]
    BY DEF Reap, code
  <2> QED
    BY <2>1 DEF NewShim
<1>4. /\ code = "timeout" <=> timedOut
      /\ code = "cancelled" => cancelled
      /\ code \notin {"timeout", "cancelled"} =>
            ~cancelled /\ code \in {"memory", OwnVerdict[seen.exit]}
  <2>1. timedOut \in BOOLEAN /\ cancelled \in BOOLEAN
    BY <1>1
  <2> HIDE DEF timedOut, cancelled
  <2> QED
    BY <1>1, <2>1, ClassifySays
<1> HIDE DEF code
<1>5. LaunchInv' /\ PollInv' /\ AskedInv' /\ GraceInv' /\ CgroupInv'
  BY <1>2, <1>3 DEF SupervisionInv, LaunchInv, PollInv, AskedInv, GraceInv, CgroupInv,
                    Launching, Supervising, Members, Alive
<1>6. TimeoutInv' /\ CancelInv' /\ NoEarlySigkill'
  BY <1>2, <1>3 DEF SupervisionInv, TimeoutInv, CancelInv, NoEarlySigkill
<1>7. DiedInv'
  BY <1>2, <1>3 DEF SupervisionInv, DiedInv, LeaderGone, Supervising
<1>8. VerdictTellsCause'
  <2>1. /\ clock <= Waitable + Lag /\ Waitable' = Waitable /\ Waitable \in Int
        /\ seen.died <= clock /\ clock <= shim.next + Lag
        /\ shim.start \in 0..clock
    BY <1>1, <1>2, <1>3, Numbers
    DEF SupervisionInv, DiedInv, PollInv, Supervising, Waitable, Later
  <2>2. timedOut => Waitable + Lag >= shim.start + WallTime
    BY <1>1, <2>1, Numbers DEF SupervisionInv, TimeoutInv, TypeOK, InstantsPast
  <2>3. seen.died >= shim.start + WallTime + Period + Lag => timedOut
    BY <1>1, <1>2, <2>1, Numbers DEF SupervisionInv, TimeoutInv
  <2>4. /\ cancelled => seen.asked # Never /\ seen.asked <= Waitable + Lag
        /\ ~cancelled => seen.asked = Never
    BY <1>1, <2>1, Numbers DEF SupervisionInv, CancelInv, AskedInv
  <2> HIDE DEF timedOut, cancelled
  <2>5. (shim'.code # "none" /\ shim'.start # Never) =>
          /\ shim'.code = "timeout" => Waitable' + Lag >= shim'.start + WallTime
          /\ seen'.died >= shim'.start + WallTime + Period + Lag => shim'.code = "timeout"
          /\ shim'.code = "cancelled" =>
                seen'.asked # Never /\ seen'.asked <= Waitable' + Lag
          /\ shim'.code \notin {"timeout", "cancelled"} =>
                /\ seen'.asked # Never => seen'.asked >= seen'.died
                /\ shim'.code \in {"memory", OwnVerdict[seen'.exit]}
    BY <1>2, <1>3, <1>4, <2>1, <2>2, <2>3, <2>4
  <2> QED
    BY <2>5 DEF VerdictTellsCause
<1> QED
  BY <1>5, <1>6, <1>7, <1>8 DEF Kept

LEMMA KeptByComplete == SupervisionInv /\ Complete => Kept'
<1> SUFFICES ASSUME SupervisionInv, Complete PROVE Kept'
  OBVIOUS
<1>1. TypeOK
  BY DEF SupervisionInv
<1>2. /\ shim.pc = "complete" /\ shim'.pc = "done"
      /\ shim'.start = shim.start /\ shim'.timeout = shim.timeout
      /\ shim'.cancel = shim.cancel /\ shim'.code = shim.code
  BY <1>1 DEF Complete, ShimGoes, TypeOK, Shim
<1>3. row'.kill = row.kill /\ UNCHANGED <<clock, killer, procs, cgroup, seen>>
  BY <1>1 DEF Complete, TypeOK, Row
<1>4. LaunchInv' /\ PollInv' /\ AskedInv' /\ GraceInv' /\ CgroupInv'
  BY <1>2, <1>3 DEF SupervisionInv, LaunchInv, PollInv, AskedInv, GraceInv, CgroupInv,
                    Launching, Supervising, Members, Alive
<1>5. TimeoutInv' /\ CancelInv' /\ NoEarlySigkill'
  BY <1>2, <1>3 DEF SupervisionInv, TimeoutInv, CancelInv, NoEarlySigkill
<1>6. DiedInv' /\ VerdictTellsCause'
  BY <1>2, <1>3
  DEF SupervisionInv, DiedInv, LeaderGone, Supervising, Waitable, VerdictTellsCause
<1> QED
  BY <1>4, <1>5, <1>6 DEF Kept

\* Time passes only while nothing is overdue, so no tick and no wait4 is later than Lag.
LEMMA KeptByTick == SupervisionInv /\ Tick => Kept'
<1> SUFFICES ASSUME SupervisionInv, Tick PROVE Kept'
  OBVIOUS
<1>1. TypeOK
  BY DEF SupervisionInv
<1>2. clock' = clock + 1 /\ UNCHANGED <<row, shim, killer, procs, cgroup, seen>>
  BY DEF Tick
<1>3. shim.pc \in Supervising => /\ clock < shim.next + Lag
                                 /\ LeaderGone => clock < Waitable + Lag
  BY <1>1, Numbers DEF Tick, Overdue, Waitable, Later
<1>4. LaunchInv' /\ CgroupInv' /\ NoEarlySigkill' /\ VerdictTellsCause' /\ GraceInv'
  BY <1>2 DEF SupervisionInv, LaunchInv, CgroupInv, Members, Alive, NoEarlySigkill,
              VerdictTellsCause, Waitable, GraceInv, NotOver, LeaderGone
<1>5. PollInv' /\ AskedInv'
  <2>1. AskedInv'
    BY <1>1, <1>2, Numbers DEF SupervisionInv, AskedInv
  <2>2. shim'.pc \in Supervising => shim.pc \in Supervising
    BY <1>2 DEF Supervising
  <2>3. shim.pc \in Supervising => /\ shim.start \in Int /\ shim.start >= 0
                                   /\ shim.start <= clock /\ shim.start <= shim.next
                                   /\ shim.next <= clock + Period
    BY <1>1, Numbers DEF SupervisionInv, PollInv
  <2>4. shim.pc = "act" => shim.next <= clock
    BY DEF SupervisionInv, PollInv
  <2> QED
    BY <1>1, <1>2, <1>3, <2>1, <2>2, <2>3, <2>4, Numbers DEF PollInv
<1>6. TimeoutInv'
  BY <1>1, <1>2, <1>3, Numbers DEF SupervisionInv, TimeoutInv
<1>7. CancelInv'
  BY <1>1, <1>2 DEF SupervisionInv, CancelInv
<1>8. DiedInv'
  <2>1. Waitable' = Waitable /\ Waitable \in Int /\ (LeaderGone' <=> LeaderGone)
    BY <1>1, <1>2, Numbers DEF Waitable, Later, LeaderGone
  <2>2. (shim'.pc \in Supervising /\ LeaderGone') => clock' <= Waitable' + Lag
    BY <1>1, <1>2, <1>3, <2>1, Numbers
  <2>3. seen'.died <= clock' /\ (LeaderGone' <=> seen'.died # Never)
    BY <1>1, <1>2, <2>1, Numbers DEF SupervisionInv, DiedInv
  <2>4. shim'.pc \in {"complete", "done"} =>
          \/ LeaderGone'
          \/ shim'.start = Never /\ shim'.code \in {"launch_failed", "setup_failed"}
    BY <1>2, <2>1 DEF SupervisionInv, DiedInv
  <2> QED
    BY <2>2, <2>3, <2>4 DEF DiedInv
<1> QED
  BY <1>4, <1>5, <1>6, <1>7, <1>8 DEF Kept

\* A launch begins, with an id that may have left its cgroup behind.
NewLaunch ==
    /\ clock = 0 /\ row = NewRow /\ killer = NoKiller /\ procs = NoProcs
    /\ seen = NothingSeen
    /\ \E enforced \in BOOLEAN : shim = NewShim(enforced)

LEMMA KeptByLaunch == NewLaunch => Kept
<1> SUFFICES ASSUME NewLaunch PROVE Kept
  OBVIOUS
<1> USE DEF NewLaunch
<1>1. /\ shim.pc = "fork" /\ shim.start = Never /\ shim.timeout = Never
      /\ shim.cancel = Never /\ ~shim.killSent /\ shim.code = "none"
  BY DEF NewShim
<1>2. \A p \in Procs : procs[p].state = "none" /\ ~procs[p].inside
  BY DEF NoProcs
<1>3. /\ seen.asked = Never /\ seen.sigkill = Never /\ seen.died = Never /\ ~row.kill
      /\ killer.pc = "idle"
  BY DEF NothingSeen, NewRow, NoKiller
<1>4. LaunchInv /\ PollInv /\ TimeoutInv /\ CancelInv /\ GraceInv
  BY <1>1, <1>2, <1>3, ProcsAssumption
  DEF LaunchInv, PollInv, TimeoutInv, CancelInv, GraceInv, Launching, Supervising
<1>5. AskedInv /\ DiedInv /\ NoEarlySigkill /\ VerdictTellsCause
  BY <1>1, <1>2, <1>3, ProcsAssumption
  DEF AskedInv, DiedInv, Supervising, LeaderGone, NoEarlySigkill, VerdictTellsCause, Never
<1>6. CgroupInv
  <2>1. Alive = {} /\ Members = {}
    BY <1>2 DEF Alive, Members
  <2>2. Cardinality({}) <= PidsMax
    BY FS_EmptySet, BoundsAssumption
  <2> QED
    BY <1>1, <1>2, <2>1, <2>2 DEF CgroupInv
<1> QED
  BY <1>4, <1>5, <1>6 DEF Kept

LEMMA SupervisionInit == Init => SupervisionInv
  BY SupervisionTypeInit, KeptByLaunch DEF Init, NewLaunch, SupervisionInv, Kept

LEMMA SupervisionNext == SupervisionInv /\ [Next]_vars => SupervisionInv'
<1> SUFFICES ASSUME SupervisionInv, [Next]_vars PROVE SupervisionInv'
  OBVIOUS
<1>1. TypeOK'
  BY SupervisionTypeNext DEF SupervisionInv
<1> SUFFICES Kept'
  BY <1>1 DEF Kept, SupervisionInv
<1>2. CASE Launch
  BY <1>2, KeptByFork, KeptByFailure, KeptByCgroup, KeptByMarkStarted DEF Launch
<1>3. CASE Supervise
  BY <1>3, KeptByPollRead, KeptByPollAct, KeptByReap, KeptByComplete DEF Supervise
<1>4. CASE Kill
  BY <1>4, KeptByKillFlag, KeptByKillSignal, KeptByKillEscalate DEF Kill
<1>5. CASE Workload
  BY <1>5, KeptByWorkload, KeptByForkChild DEF Workload
<1>6. CASE Tick
  BY <1>6, KeptByTick
<1>7. CASE Reuse
  <2>1. NewLaunch'
    BY <1>7 DEF Reuse, NewLaunch
  <2>2. NewLaunch' => Kept'
    BY KeptByLaunch, PTL
  <2> QED
    BY <2>1, <2>2
<1>8. CASE UNCHANGED vars
  BY <1>8
  DEF vars, Kept, SupervisionInv, LaunchInv, PollInv, AskedInv, TimeoutInv, CancelInv,
      GraceInv, NotOver, DiedInv, Waitable, LeaderGone, CgroupInv, Members, Alive,
      NoEarlySigkill, VerdictTellsCause
<1> QED
  BY <1>2, <1>3, <1>4, <1>5, <1>6, <1>7, <1>8 DEF Next

-----------------------------------------------------------------------------
(* Theorems *)

\* All the facts about shim, handler and processes hold throughout: what supervise_wait
\* and the escalation of kill_task are right for.
THEOREM SupervisionInvariant == Spec => []SupervisionInv
<1> QED
  BY SupervisionInit, SupervisionNext, PTL DEF Spec

\* Every field of the shim, the row, the handler and the group keeps its type.
THEOREM SupervisionTypeCorrect == Spec => []TypeOK
<1>1. SupervisionInv => TypeOK
  BY DEF SupervisionInv
<1> QED
  BY <1>1, SupervisionInvariant, PTL

\* supervise_wait ends every workload it started, whatever the workload makes of
\* SIGTERM: within two ticks and their lag of the grace period that follows the wall
\* time or the first kill request, for every wall time, grace period, poll interval, lag
\* and number of processes.
THEOREM WorkloadStoppedInTime == Spec => []StoppedInTime
<1>1. SupervisionInv => StoppedInTime
  <2> SUFFICES ASSUME SupervisionInv, shim.pc \in Supervising, ~LeaderGone
               PROVE  /\ clock < shim.start + WallTime + Grace + 2 * (Period + Lag)
                      /\ seen.asked # Never =>
                            clock < Later(shim.start, seen.asked + Period)
                                      + Grace + Period + 2 * Lag
    BY DEF StoppedInTime
  <2>1. /\ NotOver(shim.timeout) /\ NotOver(shim.cancel)
        /\ clock <= shim.next + Lag
    BY DEF SupervisionInv, GraceInv, PollInv
  <2>2. TypeOK
    BY DEF SupervisionInv
  <2>3. \/ shim.timeout # Never
        \/ shim.next < shim.start + WallTime + Period
    BY <2>2, Numbers DEF SupervisionInv, TimeoutInv, Supervising
  <2>4. clock < shim.start + WallTime + Grace + 2 * (Period + Lag)
    BY <2>1, <2>2, <2>3, Numbers DEF SupervisionInv, NotOver, TimeoutInv
  <2>5. ASSUME seen.asked # Never
        PROVE  clock < Later(shim.start, seen.asked + Period) + Grace + Period + 2 * Lag
    <3>1. /\ Later(shim.start, seen.asked + Period) \in Int
          /\ Later(shim.start, seen.asked + Period) >= seen.asked + Period
      BY <2>2, Numbers DEF Later
    <3>2. \/ shim.cancel # Never
          \/ shim.next <= Later(shim.start, seen.asked + Period)
      BY <2>2, <2>5, <3>1, Numbers DEF SupervisionInv, CancelInv, Supervising
    <3> QED
      BY <2>1, <2>2, <3>1, <3>2, Numbers DEF SupervisionInv, NotOver, CancelInv
  <2> QED
    BY <2>4, <2>5
<1> QED
  BY <1>1, SupervisionInvariant, PTL

\* The escalations of supervise_wait and of kill_task leave every workload a whole
\* grace period before SIGKILL, though each counts its own.
THEOREM NoSigkillBeforeGrace == Spec => []NoEarlySigkill
<1>1. SupervisionInv => NoEarlySigkill
  BY DEF SupervisionInv
<1> QED
  BY <1>1, SupervisionInvariant, PTL

\* classify_completion says what ended the task as far as ticks and lag allow, although
\* it looks at the timers of the ticks and not at when the leader ended.
THEOREM VerdictTrue == Spec => []VerdictTellsCause
<1>1. SupervisionInv => VerdictTellsCause
  BY DEF SupervisionInv
<1> QED
  BY <1>1, SupervisionInvariant, PTL

\* setup_cgroup writes pids.max before it moves the leader, so a workload that forked
\* nothing until then stays within pids_max, for every number of processes.
THEOREM PidsMaxHeld == Spec => []PidsHeld
<1>1. SupervisionInv => PidsHeld
  <2> SUFFICES ASSUME SupervisionInv, shim.pc \in Supervising, shim.enforced, ~seen.early
               PROVE  Cardinality(Alive) <= PidsMax
    BY DEF PidsHeld
  <2>1. \A p \in Alive : procs[p].inside
    BY DEF SupervisionInv, CgroupInv
  <2>2. Alive = Members
    BY <2>1 DEF Members
  <2> QED
    BY <2>2 DEF SupervisionInv, CgroupInv
<1> QED
  BY <1>1, SupervisionInvariant, PTL
=============================================================================
