------------------------- MODULE TargetLease_proofs -------------------------
(* Two live Cargo groups never share a target directory, for any number of    *)
(* jobs, slots and processes.                                                 *)
EXTENDS TargetLease, TLAPS

(* Two held leases are on different slots. *)
LockExclusive == \A j, k \in Jobs :
    j # k /\ holders[j] # {} /\ holders[k] # {} => slot[j] # slot[k]

(* What ties a job's processes to its lease.  The last two conjuncts are the  *)
(* point of the ps walk: processes are numbered as they are forked, so a      *)
(* member the walk has passed is dead and one forked meanwhile lies ahead.    *)
JobInv(j) ==
    /\ launcher[j] \in {"idle", "scanning", "leased"} => supervisor[j] = "none"
    /\ launcher[j] \in {"idle", "scanning"} => holders[j] = {} /\ slot[j] < Slots
    /\ launcher[j] \in {"leased", "spawned", "waiting"} => Launcher \in holders[j]
    /\ supervisor[j] \in {"starting", "ready", "started", "waiting", "polling"}
          => Supervisor \in holders[j]
    /\ supervisor[j] \in {"none", "starting", "ready"}
          => \A i \in Procs : proc[j][i] = "unborn"
    /\ supervisor[j] = "done" => \A i \in Procs : proc[j][i] # "live"
    /\ supervisor[j] \in {"none", "starting", "ready", "started", "waiting"}
          => scan[j] = Cargo
    /\ supervisor[j] = "polling" =>
          \A i \in Procs : i < scan[j] => proc[j][i] = "dead"
    /\ \A m, n \in Procs : m < n /\ proc[j][m] = "unborn" => proc[j][n] = "unborn"

IInv == TypeOK /\ LockExclusive /\ \A j \in Jobs : JobInv(j)

(* What every action of job j does to the others' state, and to j's lease. *)
Frame(j) == \A k \in Jobs : k # j =>
    /\ launcher'[k] = launcher[k] /\ supervisor'[k] = supervisor[k]
    /\ slot'[k] = slot[k] /\ holders'[k] = holders[k]
    /\ proc'[k] = proc[k] /\ scan'[k] = scan[k]
KeepsLease(j) ==
    /\ slot'[j] = slot[j] \/ holders'[j] = {}
    /\ holders'[j] # {} => holders[j] # {} \/ ~Locked(slot[j])

LEMMA StepKeepsIInv ==
    ASSUME IInv, NEW j \in Jobs, TypeOK', Frame(j), JobInv(j)', KeepsLease(j)
    PROVE  IInv'
<1>1. ASSUME NEW k \in Jobs PROVE JobInv(k)'
  <2>1. CASE k = j
    BY <2>1
  <2>2. CASE k # j
    <3>1. JobInv(k)
      BY DEF IInv
    <3> QED BY <2>2, <3>1 DEF Frame, JobInv
  <2> QED BY <2>1, <2>2
<1>2. LockExclusive'
  <2> SUFFICES ASSUME NEW a \in Jobs, NEW b \in Jobs, a # b,
                      holders'[a] # {}, holders'[b] # {}
               PROVE  slot'[a] # slot'[b]
    BY DEF LockExclusive
  <2>1. ASSUME NEW x \in Jobs, x # j, holders'[j] # {}, holders'[x] # {}
        PROVE  slot'[j] # slot'[x]
    BY <2>1 DEF IInv, LockExclusive, Frame, KeepsLease, Locked
  <2>2. CASE a # j /\ b # j
    BY <2>2 DEF IInv, LockExclusive, Frame
  <2> QED BY <2>1, <2>2
<1> QED BY <1>1, <1>2 DEF IInv

LEMMA Inductive == Spec => []IInv
<1> USE LeaseConstants
<1> USE DEF Procs, Cargo, Launcher, Supervisor
<1>1. Init => IInv
  BY DEF Init, IInv, TypeOK, LockExclusive, JobInv
<1>2. IInv /\ [Next]_vars => IInv'
  <2> SUFFICES ASSUME IInv, [Next]_vars PROVE IInv'
    OBVIOUS
  <2>0. TypeOK /\ \A j \in Jobs : JobInv(j)
    BY DEF IInv
  <2>1. ASSUME NEW j \in Jobs, Start(j) PROVE IInv'
    <3>1. TypeOK'
      BY <2>0, <2>1 DEF Start, TypeOK, Moves, Opens, Closes
    <3>2. Frame(j)
      BY <2>0, <2>1 DEF Start, TypeOK, Frame, Moves, Opens, Closes
    <3>3. JobInv(j)'
      BY <2>0, <2>1 DEF Start, TypeOK, JobInv, Moves, Opens, Closes
    <3>4. KeepsLease(j)
      BY <2>0, <2>1 DEF Start, TypeOK, JobInv, KeepsLease, Moves, Opens, Closes
    <3> QED BY <3>1, <3>2, <3>3, <3>4, StepKeepsIInv
  <2>2. ASSUME NEW j \in Jobs, TakeSlot(j) PROVE IInv'
    <3>1. TypeOK'
      BY <2>0, <2>2 DEF TakeSlot, TypeOK, Moves, Opens, Closes
    <3>2. Frame(j)
      BY <2>0, <2>2 DEF TakeSlot, TypeOK, Frame, Moves, Opens, Closes
    <3>3. JobInv(j)'
      BY <2>0, <2>2 DEF TakeSlot, TypeOK, JobInv, Moves, Opens, Closes
    <3>4. KeepsLease(j)
      BY <2>0, <2>2 DEF TakeSlot, TypeOK, JobInv, KeepsLease, Moves, Opens, Closes
    <3> QED BY <3>1, <3>2, <3>3, <3>4, StepKeepsIInv
  <2>3. ASSUME NEW j \in Jobs, SkipSlot(j) PROVE IInv'
    <3>1. TypeOK'
      BY <2>0, <2>3 DEF SkipSlot, TypeOK, JobInv, Moves
    <3>2. Frame(j)
      BY <2>0, <2>3 DEF SkipSlot, TypeOK, Frame, Moves, Opens, Closes
    <3>3. JobInv(j)'
      BY <2>0, <2>3 DEF SkipSlot, TypeOK, JobInv, Moves, Opens, Closes
    <3>4. KeepsLease(j)
      BY <2>0, <2>3 DEF SkipSlot, TypeOK, JobInv, KeepsLease, Moves, Opens, Closes
    <3> QED BY <3>1, <3>2, <3>3, <3>4, StepKeepsIInv
  <2>4. ASSUME NEW j \in Jobs, StartSupervisor(j) PROVE IInv'
    <3>1. TypeOK'
      BY <2>0, <2>4 DEF StartSupervisor, TypeOK, Moves, Opens, Closes
    <3>2. Frame(j)
      BY <2>0, <2>4 DEF StartSupervisor, TypeOK, Frame, Moves, Opens, Closes
    <3>3. JobInv(j)'
      BY <2>0, <2>4 DEF StartSupervisor, TypeOK, JobInv, Moves, Opens, Closes
    <3>4. KeepsLease(j)
      BY <2>0, <2>4 DEF StartSupervisor, TypeOK, JobInv, KeepsLease, Moves, Opens, Closes
    <3> QED BY <3>1, <3>2, <3>3, <3>4, StepKeepsIInv
  <2>5. ASSUME NEW j \in Jobs, InstallForwarding(j) PROVE IInv'
    <3>1. TypeOK'
      BY <2>0, <2>5 DEF InstallForwarding, TypeOK, Moves, Opens, Closes
    <3>2. Frame(j)
      BY <2>0, <2>5 DEF InstallForwarding, TypeOK, Frame, Moves, Opens, Closes
    <3>3. JobInv(j)'
      BY <2>0, <2>5 DEF InstallForwarding, TypeOK, JobInv, Moves, Opens, Closes
    <3>4. KeepsLease(j)
      BY <2>0, <2>5 DEF InstallForwarding, TypeOK, JobInv, KeepsLease, Moves, Opens, Closes
    <3> QED BY <3>1, <3>2, <3>3, <3>4, StepKeepsIInv
  <2>6. ASSUME NEW j \in Jobs, Finish(j) PROVE IInv'
    <3>1. TypeOK'
      BY <2>0, <2>6 DEF Finish, TypeOK, Moves, Opens, Closes
    <3>2. Frame(j)
      BY <2>0, <2>6 DEF Finish, TypeOK, Frame, Moves, Opens, Closes
    <3>3. JobInv(j)'
      BY <2>0, <2>6 DEF Finish, TypeOK, JobInv, Moves, Opens, Closes
    <3>4. KeepsLease(j)
      BY <2>0, <2>6 DEF Finish, TypeOK, JobInv, KeepsLease, Moves, Opens, Closes
    <3> QED BY <3>1, <3>2, <3>3, <3>4, StepKeepsIInv
  <2>7. ASSUME NEW j \in Jobs, LauncherDies(j) PROVE IInv'
    <3>1. TypeOK'
      BY <2>0, <2>7 DEF LauncherDies, TypeOK, Moves, Opens, Closes
    <3>2. Frame(j)
      BY <2>0, <2>7 DEF LauncherDies, TypeOK, Frame, Moves, Opens, Closes
    <3>3. JobInv(j)'
      BY <2>0, <2>7 DEF LauncherDies, TypeOK, JobInv, Moves, Opens, Closes
    <3>4. KeepsLease(j)
      BY <2>0, <2>7 DEF LauncherDies, TypeOK, JobInv, KeepsLease, Moves, Opens, Closes
    <3> QED BY <3>1, <3>2, <3>3, <3>4, StepKeepsIInv
  <2>8. ASSUME NEW j \in Jobs, LauncherTerminated(j) PROVE IInv'
    <3>1. TypeOK'
      BY <2>0, <2>8 DEF LauncherTerminated, TypeOK, Moves, Opens, Closes
    <3>2. Frame(j)
      BY <2>0, <2>8 DEF LauncherTerminated, TypeOK, Frame, Moves, Opens, Closes
    <3>3. JobInv(j)'
      BY <2>0, <2>8 DEF LauncherTerminated, TypeOK, JobInv, Moves, Opens, Closes
    <3>4. KeepsLease(j)
      BY <2>0, <2>8 DEF LauncherTerminated, TypeOK, JobInv, KeepsLease, Moves, Opens, Closes
    <3> QED BY <3>1, <3>2, <3>3, <3>4, StepKeepsIInv
  <2>9. ASSUME NEW j \in Jobs, Forward(j) PROVE IInv'
    <3>1. TypeOK'
      <4>1. CASE supervisor[j] = "starting"
        <5>1. /\ supervisor' = [supervisor EXCEPT ![j] = "done"]
              /\ Closes(j, Supervisor)
              /\ signal' = [signal EXCEPT ![j] = "sent"]
              /\ UNCHANGED <<launcher, slot, proc, scan, pending>>
          BY <2>9, <4>1 DEF Forward, Moves
        <5> QED BY <2>0, <5>1 DEF TypeOK, Closes
      <4>2. CASE supervisor[j] = "ready"
        <5>1. pending' = [pending EXCEPT ![j] = TRUE]
          BY <2>9, <4>2 DEF Forward, Moves
        <5>2. pending' \in [Jobs -> BOOLEAN]
          BY <2>0, <5>1, Zenon DEF TypeOK
        <5> QED BY <2>0, <2>9, <4>2, <5>2 DEF Forward, TypeOK, Moves
      <4>3. CASE supervisor[j] \notin {"starting", "ready"}
        BY <2>0, <2>9, <4>3 DEF Forward, TypeOK, Moves
      <4> QED BY <4>1, <4>2, <4>3
    <3>2. Frame(j)
      BY <2>0, <2>9 DEF Forward, TypeOK, Frame, Moves, Opens, Closes
    <3>3. JobInv(j)'
      BY <2>0, <2>9 DEF Forward, TypeOK, JobInv, Moves, Opens, Closes
    <3>4. KeepsLease(j)
      BY <2>0, <2>9 DEF Forward, TypeOK, JobInv, KeepsLease, Moves, Opens, Closes
    <3> QED BY <3>1, <3>2, <3>3, <3>4, StepKeepsIInv
  <2>10. ASSUME NEW j \in Jobs, CatchSignals(j) PROVE IInv'
    <3>1. TypeOK'
      BY <2>0, <2>10 DEF CatchSignals, TypeOK, Moves, Opens, Closes
    <3>2. Frame(j)
      BY <2>0, <2>10 DEF CatchSignals, TypeOK, Frame, Moves, Opens, Closes
    <3>3. JobInv(j)'
      BY <2>0, <2>10 DEF CatchSignals, TypeOK, JobInv, Moves, Opens, Closes
    <3>4. KeepsLease(j)
      BY <2>0, <2>10 DEF CatchSignals, TypeOK, JobInv, KeepsLease, Moves, Opens, Closes
    <3> QED BY <3>1, <3>2, <3>3, <3>4, StepKeepsIInv
  <2>11. ASSUME NEW j \in Jobs, StartCargo(j) PROVE IInv'
    <3>1. TypeOK'
      BY <2>0, <2>11 DEF StartCargo, TypeOK, Moves, Opens, Closes
    <3>2. Frame(j)
      BY <2>0, <2>11 DEF StartCargo, TypeOK, Frame, Moves, Opens, Closes
    <3>3. JobInv(j)'
      BY <2>0, <2>11 DEF StartCargo, TypeOK, JobInv, Moves, Opens, Closes
    <3>4. KeepsLease(j)
      BY <2>0, <2>11 DEF StartCargo, TypeOK, JobInv, KeepsLease, Moves, Opens, Closes
    <3> QED BY <3>1, <3>2, <3>3, <3>4, StepKeepsIInv
  <2>12. ASSUME NEW j \in Jobs, StartCargoFails(j) PROVE IInv'
    <3>1. TypeOK'
      BY <2>0, <2>12 DEF StartCargoFails, TypeOK, Moves, Opens, Closes
    <3>2. Frame(j)
      BY <2>0, <2>12 DEF StartCargoFails, TypeOK, Frame, Moves, Opens, Closes
    <3>3. JobInv(j)'
      BY <2>0, <2>12 DEF StartCargoFails, TypeOK, JobInv, Moves, Opens, Closes
    <3>4. KeepsLease(j)
      BY <2>0, <2>12 DEF StartCargoFails, TypeOK, JobInv, KeepsLease, Moves, Opens, Closes
    <3> QED BY <3>1, <3>2, <3>3, <3>4, StepKeepsIInv
  <2>13. ASSUME NEW j \in Jobs, ReplayPending(j) PROVE IInv'
    <3>1. TypeOK'
      BY <2>0, <2>13 DEF ReplayPending, TypeOK, Moves, Opens, Closes
    <3>2. Frame(j)
      BY <2>0, <2>13 DEF ReplayPending, TypeOK, Frame, Moves, Opens, Closes
    <3>3. JobInv(j)'
      BY <2>0, <2>13 DEF ReplayPending, TypeOK, JobInv, Moves, Opens, Closes
    <3>4. KeepsLease(j)
      BY <2>0, <2>13 DEF ReplayPending, TypeOK, JobInv, KeepsLease, Moves, Opens, Closes
    <3> QED BY <3>1, <3>2, <3>3, <3>4, StepKeepsIInv
  <2>14. ASSUME NEW j \in Jobs, CargoReaped(j) PROVE IInv'
    <3>1. TypeOK'
      BY <2>0, <2>14 DEF CargoReaped, TypeOK, Moves, Opens, Closes
    <3>2. Frame(j)
      BY <2>0, <2>14 DEF CargoReaped, TypeOK, Frame, Moves, Opens, Closes
    <3>3. JobInv(j)'
      BY <2>0, <2>14 DEF CargoReaped, TypeOK, JobInv, Moves, Opens, Closes
    <3>4. KeepsLease(j)
      BY <2>0, <2>14 DEF CargoReaped, TypeOK, JobInv, KeepsLease, Moves, Opens, Closes
    <3> QED BY <3>1, <3>2, <3>3, <3>4, StepKeepsIInv
  <2>15. ASSUME NEW j \in Jobs, GroupAlive(j) PROVE IInv'
    <3>1. TypeOK'
      BY <2>0, <2>15 DEF GroupAlive, TypeOK, Moves, Opens, Closes
    <3>2. Frame(j)
      BY <2>0, <2>15 DEF GroupAlive, TypeOK, Frame, Moves, Opens, Closes
    <3>3. JobInv(j)'
      BY <2>0, <2>15 DEF GroupAlive, TypeOK, JobInv, Moves, Opens, Closes
    <3>4. KeepsLease(j)
      BY <2>0, <2>15 DEF GroupAlive, TypeOK, JobInv, KeepsLease, Moves, Opens, Closes
    <3> QED BY <3>1, <3>2, <3>3, <3>4, StepKeepsIInv
  <2>16. ASSUME NEW j \in Jobs, GroupGone(j) PROVE IInv'
    <3>1. TypeOK'
      BY <2>0, <2>16 DEF GroupGone, TypeOK, Moves, Opens, Closes
    <3>2. Frame(j)
      BY <2>0, <2>16 DEF GroupGone, TypeOK, Frame, Moves, Opens, Closes
    <3>3. JobInv(j)'
      <4>1. \A i \in Procs : proc[j][i] # "live"
        <5> SUFFICES ASSUME NEW i \in Procs PROVE proc[j][i] # "live"
          OBVIOUS
        <5>1. JobInv(j) /\ scan[j] \in 1..(MaxProcs + 1) /\ supervisor[j] = "polling"
          BY <2>0, <2>16 DEF TypeOK, GroupGone, Moves
        <5>2. CASE i < scan[j]
          BY <5>1, <5>2 DEF JobInv
        <5>3. CASE i >= scan[j]
          <6>1. scan[j] \in Procs /\ proc[j][scan[j]] = "unborn"
            BY <2>16, <5>1, <5>3 DEF GroupGone
          <6>2. proc[j][i] = "unborn"
            BY <5>1, <5>3, <6>1 DEF JobInv
          <6> QED BY <6>2
        <5> QED BY <5>1, <5>2, <5>3
      <4> QED BY <2>0, <2>16, <4>1 DEF GroupGone, TypeOK, JobInv, Moves, Closes
    <3>4. KeepsLease(j)
      BY <2>0, <2>16 DEF GroupGone, TypeOK, JobInv, KeepsLease, Moves, Opens, Closes
    <3> QED BY <3>1, <3>2, <3>3, <3>4, StepKeepsIInv
  <2>17. ASSUME NEW j \in Jobs, SupervisorKilled(j) PROVE IInv'
    <3>1. TypeOK'
      BY <2>0, <2>17 DEF SupervisorKilled, TypeOK, Moves, Opens, Closes
    <3>2. Frame(j)
      BY <2>0, <2>17 DEF SupervisorKilled, TypeOK, Frame, Moves, Opens, Closes
    <3>3. JobInv(j)'
      BY <2>0, <2>17 DEF SupervisorKilled, TypeOK, JobInv, Moves, Opens, Closes
    <3>4. KeepsLease(j)
      BY <2>0, <2>17 DEF SupervisorKilled, TypeOK, JobInv, KeepsLease, Moves, Opens, Closes
    <3> QED BY <3>1, <3>2, <3>3, <3>4, StepKeepsIInv
  <2>18. ASSUME NEW j \in Jobs, NEW i \in Procs, NEW keeps \in BOOLEAN, Fork(j, i, keeps) PROVE IInv'
    <3>1. TypeOK'
      <4> PICK n \in Procs :
            /\ proc' = [proc EXCEPT ![j][n] = "live"]
            /\ IF keeps THEN Opens(j, n) ELSE UNCHANGED holders
            /\ UNCHANGED <<launcher, supervisor, slot, scan, pending, signal>>
        BY <2>18 DEF Fork
      <4>1. proc' \in [Jobs -> [Procs -> {"unborn", "live", "dead"}]]
        BY <2>0 DEF TypeOK
      <4>2. holders' \in [Jobs -> SUBSET ({Launcher, Supervisor} \union Procs)]
        <5>1. CASE keeps
          <6>1. holders' = [holders EXCEPT ![j] = holders[j] \union {n}]
            BY <5>1 DEF Opens
          <6>2. holders[j] \union {n} \in SUBSET ({Launcher, Supervisor} \union Procs)
            BY <2>0 DEF TypeOK
          <6> QED BY <2>0, <6>1, <6>2 DEF TypeOK
        <5>2. CASE ~keeps
          BY <2>0, <5>2 DEF TypeOK
        <5> QED BY <5>1, <5>2
      <4> QED BY <2>0, <4>1, <4>2 DEF TypeOK
    <3>2. Frame(j)
      BY <2>0, <2>18 DEF Fork, Live, TypeOK, Frame, Moves, Opens, Closes
    <3>3. JobInv(j)'
      BY <2>0, <2>18 DEF Fork, Live, TypeOK, JobInv, Moves, Opens, Closes
    <3>4. KeepsLease(j)
      BY <2>0, <2>18 DEF Fork, Live, TypeOK, JobInv, KeepsLease, Moves, Opens, Closes
    <3> QED BY <3>1, <3>2, <3>3, <3>4, StepKeepsIInv
  <2>19. ASSUME NEW j \in Jobs, NEW i \in Procs, Exit(j, i) PROVE IInv'
    <3>1. TypeOK'
      BY <2>0, <2>19 DEF Exit, Live, TypeOK, Moves, Opens, Closes
    <3>2. Frame(j)
      BY <2>0, <2>19 DEF Exit, Live, TypeOK, Frame, Moves, Opens, Closes
    <3>3. JobInv(j)'
      BY <2>0, <2>19 DEF Exit, Live, TypeOK, JobInv, Moves, Opens, Closes
    <3>4. KeepsLease(j)
      BY <2>0, <2>19 DEF Exit, Live, TypeOK, JobInv, KeepsLease, Moves, Opens, Closes
    <3> QED BY <3>1, <3>2, <3>3, <3>4, StepKeepsIInv
  <2>20. CASE UNCHANGED vars
    <3>1. TypeOK'
      BY <2>0, <2>20 DEF vars, TypeOK
    <3>2. LockExclusive'
      BY <2>20 DEF vars, IInv, LockExclusive
    <3>3. ASSUME NEW j \in Jobs PROVE JobInv(j)'
      BY <2>0, <2>20 DEF vars, JobInv
    <3> QED BY <3>1, <3>2, <3>3 DEF IInv
  <2> QED
    BY <2>1, <2>2, <2>3, <2>4, <2>5, <2>6, <2>7, <2>8, <2>9, <2>10, <2>11, <2>12,
       <2>13, <2>14, <2>15, <2>16, <2>17, <2>18, <2>19, <2>20
       DEF Next, LauncherStep, SupervisorStep, Environment
<1> QED BY <1>1, <1>2, PTL DEF Spec

(* A target directory has at most one live, protected Cargo group. *)
THEOREM TargetsAreExclusive == Spec => [](TypeOK /\ ExclusiveTarget)
<1>1. IInv => ExclusiveTarget
  <2> SUFFICES ASSUME IInv, NEW j \in Jobs, Live(j) # {}, Protected(j)
               PROVE  holders[j] # {}
    BY DEF ExclusiveTarget, IInv, LockExclusive
  <2>1. PICK i \in Procs : proc[j][i] = "live"
    BY DEF Live
  <2>2. supervisor[j] \in {"started", "waiting", "polling", "killed"}
    <3>1. supervisor[j] \in {"none", "starting", "ready", "started", "waiting", "polling",
                             "done", "killed"}
      BY DEF IInv, TypeOK
    <3>2. JobInv(j)
      BY DEF IInv
    <3>3. /\ supervisor[j] \in {"none", "starting", "ready"} => proc[j][i] = "unborn"
          /\ supervisor[j] = "done" => proc[j][i] # "live"
      BY <3>2 DEF JobInv
    <3> QED BY <2>1, <3>1, <3>3
  <2> QED BY <2>2 DEF IInv, JobInv, Protected
<1> QED BY <1>1, Inductive, PTL DEF IInv
=============================================================================
