----------------------------- MODULE TargetLease -----------------------------
(***************************************************************************)
(* scripts/dev.py: the pool of leased Cargo target directories.            *)
(*                                                                         *)
(* A launcher tries slots in order and takes the first whose lock file it  *)
(* can flock.  The lock belongs to the open file description, so it lasts  *)
(* while any process - launcher, detached supervisor, Cargo or a child     *)
(* that inherited it - keeps a descriptor of that description open.        *)
(* Processes of Cargo's group are numbered in the order they are forked:   *)
(* process identifiers grow, and ps lists them in that order.              *)
(***************************************************************************)
EXTENDS Integers, FiniteSets

CONSTANTS
    Jobs,       \* concurrent dev.py invocations with one build identity
    Slots,      \* size of the pool (1024 in the code)
    MaxProcs    \* processes Cargo's group may have over its life (bound)

ASSUME LeaseConstants == Slots \in Nat \ {0} /\ MaxProcs \in Nat \ {0}

Procs == 1..MaxProcs
Cargo == 1
Launcher == -1
Supervisor == 0

VARIABLES
    launcher,    \* per job: where execute() is
    supervisor,  \* per job: where supervise() is
    slot,        \* per job: the slot being tried, then the one leased
    holders,     \* per job: processes with the locked description open
    proc,        \* per job: "unborn", "live" or "dead" for each group member
    scan,        \* per job: the process ps looks at next
    pending,     \* per job: a signal waits in supervise()'s pending list
    signal       \* per job: "none", "sent" to the supervisor, "delivered" to the group

vars == <<launcher, supervisor, slot, holders, proc, scan, pending, signal>>

Init ==
    /\ launcher = [j \in Jobs |-> "idle"]
    /\ supervisor = [j \in Jobs |-> "none"]
    /\ slot = [j \in Jobs |-> 0]
    /\ holders = [j \in Jobs |-> {}]
    /\ proc = [j \in Jobs |-> [i \in Procs |-> "unborn"]]
    /\ scan = [j \in Jobs |-> Cargo]
    /\ pending = [j \in Jobs |-> FALSE]
    /\ signal = [j \in Jobs |-> "none"]

Live(j) == {i \in Procs : proc[j][i] = "live"}
Locked(s) == \E k \in Jobs : holders[k] # {} /\ slot[k] = s

Moves(f, j, from, to) == f[j] = from /\ f' = [f EXCEPT ![j] = to]
Opens(j, process) == holders' = [holders EXCEPT ![j] = @ \union {process}]
Closes(j, process) == holders' = [holders EXCEPT ![j] = @ \ {process}]

-----------------------------------------------------------------------------
(* execute(): the launcher.  Lease.__enter__ never waits for an owner.      *)
Start(j) ==
    /\ Moves(launcher, j, "idle", "scanning")
    /\ UNCHANGED <<supervisor, slot, holders, proc, scan, pending, signal>>

TakeSlot(j) ==
    /\ ~Locked(slot[j])
    /\ Moves(launcher, j, "scanning", "leased")
    /\ Opens(j, Launcher)
    /\ UNCHANGED <<supervisor, slot, proc, scan, pending, signal>>

SkipSlot(j) ==
    /\ Locked(slot[j])
    /\ Moves(launcher, j, "scanning",
             IF slot[j] + 1 < Slots THEN "scanning" ELSE "exited")
    /\ slot' = [slot EXCEPT ![j] = @ + 1]
    /\ UNCHANGED <<supervisor, holders, proc, scan, pending, signal>>

StartSupervisor(j) ==
    /\ Moves(launcher, j, "leased", "spawned")
    /\ supervisor' = [supervisor EXCEPT ![j] = "starting"]
    /\ Opens(j, Supervisor)
    /\ UNCHANGED <<slot, proc, scan, pending, signal>>

InstallForwarding(j) ==
    /\ Moves(launcher, j, "spawned", "waiting")
    /\ UNCHANGED <<supervisor, slot, holders, proc, scan, pending, signal>>

(* Mutation: the launcher leaves without closing its descriptor. *)
FinishLeaks(j) ==
    /\ supervisor[j] \in {"done", "killed"}
    /\ Moves(launcher, j, "waiting", "exited")
    /\ UNCHANGED <<supervisor, slot, holders, proc, scan, pending, signal>>

(* worker.wait() returned; restore the handlers and leave the with block. *)
Finish(j) ==
    /\ supervisor[j] \in {"done", "killed"}
    /\ Moves(launcher, j, "waiting", "exited")
    /\ Closes(j, Launcher)
    /\ UNCHANGED <<supervisor, slot, proc, scan, pending, signal>>

(* The launcher dies of SIGKILL, or of an exception such as a failed Popen. *)
LauncherDies(j) ==
    /\ launcher[j] \in {"scanning", "leased", "spawned", "waiting"}
    /\ launcher' = [launcher EXCEPT ![j] = "exited"]
    /\ Closes(j, Launcher)
    /\ UNCHANGED <<supervisor, slot, proc, scan, pending, signal>>

(* SIGINT, SIGTERM or SIGHUP before the handlers are installed. *)
LauncherTerminated(j) ==
    /\ launcher[j] \in {"scanning", "leased", "spawned"}
    /\ launcher' = [launcher EXCEPT ![j] = "terminated"]
    /\ Closes(j, Launcher)
    /\ UNCHANGED <<supervisor, slot, proc, scan, pending, signal>>

(* The same signal once forward() is installed: passed to the supervisor,     *)
(* which dies of it while the interpreter starts, queues it while there is no *)
(* Cargo, and otherwise sends it to Cargo's group.                            *)
Forward(j) ==
    /\ launcher[j] = "waiting"
    /\ \/ /\ Moves(supervisor, j, "starting", "done")
          /\ Closes(j, Supervisor)
          /\ signal' = [signal EXCEPT ![j] = "sent"]
          /\ UNCHANGED pending
       \/ /\ supervisor[j] = "ready"
          /\ pending' = [pending EXCEPT ![j] = TRUE]
          /\ signal' = [signal EXCEPT ![j] = "sent"]
          /\ UNCHANGED <<supervisor, holders>>
       \/ /\ supervisor[j] \in {"started", "waiting", "polling"}
          /\ signal' = [signal EXCEPT ![j] = "delivered"]
          /\ UNCHANGED <<supervisor, holders, pending>>
    /\ UNCHANGED <<launcher, slot, proc, scan>>

-----------------------------------------------------------------------------
(* supervise() *)
CatchSignals(j) ==
    /\ Moves(supervisor, j, "starting", "ready")
    /\ UNCHANGED <<launcher, slot, holders, proc, scan, pending, signal>>

StartCargo(j) ==
    /\ Moves(supervisor, j, "ready", "started")
    /\ proc' = [proc EXCEPT ![j][Cargo] = "live"]
    /\ Opens(j, Cargo)
    /\ UNCHANGED <<launcher, slot, scan, pending, signal>>

StartCargoFails(j) ==
    /\ Moves(supervisor, j, "ready", "done")
    /\ Closes(j, Supervisor)
    /\ UNCHANGED <<launcher, slot, proc, scan, pending, signal>>

(* Mutation: signals queued before Cargo started are forgotten. *)
DropPending(j) ==
    /\ Moves(supervisor, j, "started", "waiting")
    /\ pending' = [pending EXCEPT ![j] = FALSE]
    /\ UNCHANGED <<launcher, slot, holders, proc, scan, signal>>

ReplayPending(j) ==
    /\ Moves(supervisor, j, "started", "waiting")
    /\ signal' = [signal EXCEPT ![j] = IF pending[j] THEN "delivered" ELSE @]
    /\ pending' = [pending EXCEPT ![j] = FALSE]
    /\ UNCHANGED <<launcher, slot, holders, proc, scan>>

CargoReaped(j) ==
    /\ proc[j][Cargo] = "dead"
    /\ Moves(supervisor, j, "waiting", "polling")
    /\ UNCHANGED <<launcher, slot, holders, proc, scan, pending, signal>>

(* group_alive() walks the process table; a live member ends the walk and the *)
(* supervisor sleeps and starts over.                                         *)
GroupAlive(j) ==
    /\ supervisor[j] = "polling"
    /\ scan[j] \in Procs /\ proc[j][scan[j]] # "unborn"
    /\ scan' = [scan EXCEPT ![j] = IF proc[j][@] = "live" THEN Cargo ELSE @ + 1]
    /\ UNCHANGED <<launcher, supervisor, slot, holders, proc, pending, signal>>

(* Mutation: the supervisor leaves when Cargo is reaped, without the walk. *)
CargoGone(j) ==
    /\ Moves(supervisor, j, "polling", "done")
    /\ Closes(j, Supervisor)
    /\ UNCHANGED <<launcher, slot, proc, scan, pending, signal>>

GroupGone(j) ==
    /\ scan[j] \in Procs => proc[j][scan[j]] = "unborn"
    /\ Moves(supervisor, j, "polling", "done")
    /\ Closes(j, Supervisor)
    /\ UNCHANGED <<launcher, slot, proc, scan, pending, signal>>

(* SIGKILL of the supervisor, or ps failing under group_alive(). *)
SupervisorKilled(j) ==
    /\ supervisor[j] \in {"starting", "ready", "started", "waiting", "polling"}
    /\ supervisor' = [supervisor EXCEPT ![j] = "killed"]
    /\ Closes(j, Supervisor)
    /\ UNCHANGED <<launcher, slot, proc, scan, pending, signal>>

-----------------------------------------------------------------------------
(* Cargo's process group: members fork, keep or close the descriptor, exit. *)
Fork(j, i, keeps) == \E n \in Procs :
    /\ i \in Live(j)
    /\ proc[j][n] = "unborn" /\ \A m \in 1..(n - 1) : proc[j][m] # "unborn"
    /\ proc' = [proc EXCEPT ![j][n] = "live"]
    /\ keeps => i \in holders[j]
    /\ IF keeps THEN Opens(j, n) ELSE UNCHANGED holders
    /\ UNCHANGED <<launcher, supervisor, slot, scan, pending, signal>>

Exit(j, i) ==
    /\ i \in Live(j)
    /\ proc' = [proc EXCEPT ![j][i] = "dead"]
    /\ Closes(j, i)
    /\ UNCHANGED <<launcher, supervisor, slot, scan, pending, signal>>

LauncherStep(j) ==
    \/ TakeSlot(j) \/ SkipSlot(j) \/ StartSupervisor(j)
    \/ InstallForwarding(j) \/ Finish(j)
SupervisorStep(j) ==
    \/ CatchSignals(j) \/ StartCargo(j) \/ StartCargoFails(j)
    \/ ReplayPending(j) \/ CargoReaped(j) \/ GroupAlive(j) \/ GroupGone(j)
Environment(j) ==
    \/ Start(j) \/ LauncherDies(j) \/ LauncherTerminated(j) \/ Forward(j)
    \/ SupervisorKilled(j)
    \/ \E i \in Procs : Exit(j, i) \/ \E keeps \in BOOLEAN : Fork(j, i, keeps)

Next == \E j \in Jobs : LauncherStep(j) \/ SupervisorStep(j) \/ Environment(j)

Spec == Init /\ [][Next]_vars

(* Started Python processes keep running; nothing makes Cargo's group exit. *)
FairSpec ==
    /\ Spec
    /\ \A j \in Jobs : WF_vars(LauncherStep(j)) /\ WF_vars(SupervisorStep(j))

-----------------------------------------------------------------------------
TypeOK ==
    /\ launcher \in [Jobs -> {"idle", "scanning", "leased", "spawned", "waiting",
                              "exited", "terminated"}]
    /\ supervisor \in [Jobs -> {"none", "starting", "ready", "started", "waiting",
                                "polling", "done", "killed"}]
    /\ slot \in [Jobs -> 0..Slots]
    /\ holders \in [Jobs -> SUBSET ({Launcher, Supervisor} \union Procs)]
    /\ proc \in [Jobs -> [Procs -> {"unborn", "live", "dead"}]]
    /\ scan \in [Jobs -> 1..(MaxProcs + 1)]
    /\ pending \in [Jobs -> BOOLEAN]
    /\ signal \in [Jobs -> {"none", "sent", "delivered"}]

(* The supervisor vouches for a group until it is killed; after that only a   *)
(* live member that kept the inherited descriptor does.                       *)
Protected(j) == supervisor[j] # "killed" \/ Live(j) \intersect holders[j] # {}

(* Two Cargo groups with live members never share a target directory: through *)
(* killed launchers, children that outlive Cargo after closing the inherited  *)
(* descriptor, forks and exits during the ps walk, and (while some member     *)
(* still holds the descriptor) even a killed supervisor.                      *)
ExclusiveTarget == \A j, k \in Jobs :
    /\ j # k
    /\ Live(j) # {} /\ Protected(j)
    /\ Live(k) # {} /\ Protected(k)
    => slot[j] # slot[k]

(* Kernel locks recover: once a job's group stays empty its lease is released *)
(* for good, whichever of its launcher and supervisor died on the way.        *)
LeaseRecovers == \A j \in Jobs :
    <>[](Live(j) = {}) => <>[](holders[j] = {})

(* A signal handed to the supervisor, even before Cargo exists, reaches       *)
(* Cargo's group unless the supervisor ends first.                            *)
SentSignalArrives == \A j \in Jobs :
    signal[j] = "sent" ~> (signal[j] = "delivered" \/ supervisor[j] \in {"done", "killed"})

(* "SIGINT/SIGTERM/SIGHUP are forwarded to Cargo's group": no launcher ended  *)
(* by such a signal leaves behind a live group that did not get it.           *)
SignalsForwarded == \A j \in Jobs :
    launcher[j] = "terminated" /\ Live(j) # {} => signal[j] = "delivered"
=============================================================================
