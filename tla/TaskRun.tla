------------------------------ MODULE TaskRun -------------------------------
(***************************************************************************)
(* One-shot tasks: the runner in the command line (crates/task-runner),    *)
(* the resource leases it takes (crates/resource-lease), the process group *)
(* of the command, and the guardian process that outlives a runner that    *)
(* disappears (crates/cli/src/main.rs, task_guardian_main).                *)
(*                                                                         *)
(* A run executes one command; the commands of a plan follow each other    *)
(* with the same leases.  A lease file is locked through the runner's open *)
(* descriptor, which the guardian inherits: the lock goes when the runner  *)
(* unlocks it, whoever else has it open, or when both have gone.           *)
(*                                                                         *)
(* A group is a leader, which waits for the gate file before it becomes    *)
(* the command, and strays: members that the command has left in the       *)
(* background without the output pipes, which the runner reads to the end. *)
(* A leader that has ended is a zombie until its parent reaps it, and is   *)
(* still there for whoever asks by pid or by group (Linux).                *)
(*                                                                         *)
(* Waiting times are nondeterminism, and no pid is reused.  Output,        *)
(* artifacts, setup steps and the connection to the supervisor leave no    *)
(* trace, but for the service hold the guardian takes.                     *)
(***************************************************************************)
EXTENDS Naturals

CONSTANTS
  Run,              \* invocations of tasks
  Pool,             \* resources, numbered in the order of their names
  Capacity,         \* [Pool -> how many leases it has]
  Needs,            \* [Run -> the pools its plan declares]
  GuardianDies,     \* whether guardians are killed too
  SlowGuardian,     \* whether a guardian may need more than 15 seconds
  None              \* no run

ASSUME TaskRunAssumption ==
  /\ Pool \subseteq Nat
  /\ Capacity \in [Pool -> Nat \ {0}]
  /\ Needs \in [Run -> SUBSET Pool]
  /\ GuardianDies \in BOOLEAN
  /\ SlowGuardian \in BOOLEAN
  /\ None \notin Run

(* <runtime>/resources/<scope>/<pool>/<id>.lease *)
Lease == UNION {{p} \X (0 .. Capacity[p] - 1) : p \in Pool}

(* What a lease file says: who took it, and the groups it recorded.  A     *)
(* file nobody wrote yet has no owner.                                     *)
Metadata == [owner : Run \cup {None}, children : SUBSET Run]

VARIABLES
  at,           \* where the runner is
  held,         \* the leases it took
  next,         \* the id it tries next in the pool it is at
  lock,         \* per lease: the run through whose descriptor it is locked
  meta,         \* per lease: its metadata
  leader,       \* the leader of the command's process group
  strays,       \* whether the group has other members
  signal,       \* the strongest signal the group was sent
  gate,         \* whether the gate file exists
  completion,   \* whether the completion file exists
  guardian,     \* where the guardian is
  guardianHold, \* whether it has a service hold of its own
  results,      \* the kinds of results persisted
  ran           \* history: the command got to run

runnerVars   == <<at, held, next>>
leaseVars    == <<lock, meta>>
groupVars    == <<leader, strays, signal, ran>>
fileVars     == <<gate, completion>>
guardianVars == <<guardian, guardianHold>>
vars == <<runnerVars, leaseVars, groupVars, fileVars, guardianVars, results>>

RunnerPlace == {"idle", "acquire", "waiting", "recover", "reap", "spawn", "record", "launch", "await",
                "running", "terminating", "abort", "persist", "ack", "drop", "done", "gone"}
GuardianPlace == {"none", "verify", "hold", "verifyAgain", "open", "watch", "end", "gone"}

(* The pools r has no lease of yet, and the one it tries. *)
Missing(r) == {p \in Needs[r] : \A f \in held[r] : f[1] # p}
AtPool(r, p) == p \in Missing(r) /\ \A q \in Missing(r) : p <= q

TypeOK ==
  /\ at \in [Run -> RunnerPlace]
  /\ held \in [Run -> SUBSET Lease]
  /\ next \in [Run -> Nat]
  /\ \A r \in Run, p \in Pool : AtPool(r, p) => next[r] <= Capacity[p]
  /\ lock \in [Lease -> Run \cup {None}]
  /\ meta \in [Lease -> Metadata]
  /\ leader \in [Run -> {"none", "gate", "running", "zombie", "reaped"}]
  /\ strays \in [Run -> BOOLEAN]
  /\ signal \in [Run -> {"none", "term", "kill"}]
  /\ gate \in [Run -> BOOLEAN]
  /\ completion \in [Run -> BOOLEAN]
  /\ guardian \in [Run -> GuardianPlace]
  /\ guardianHold \in [Run -> BOOLEAN]
  /\ results \in [Run -> SUBSET {"final", "interrupted"}]
  /\ ran \in [Run -> BOOLEAN]

Init ==
  /\ at = [r \in Run |-> "idle"]
  /\ held = [r \in Run |-> {}]
  /\ next = [r \in Run |-> 0]
  /\ lock = [f \in Lease |-> None]
  /\ meta = [f \in Lease |-> [owner |-> None, children |-> {}]]
  /\ leader = [r \in Run |-> "none"]
  /\ strays = [r \in Run |-> FALSE]
  /\ signal = [r \in Run |-> "none"]
  /\ gate = [r \in Run |-> FALSE]
  /\ completion = [r \in Run |-> FALSE]
  /\ guardian = [r \in Run |-> "none"]
  /\ guardianHold = [r \in Run |-> FALSE]
  /\ results = [r \in Run |-> {}]
  /\ ran = [r \in Run |-> FALSE]

(* process_identity: the process that was recorded is still there.         *)
OwnerLives(r)    == at[r] \notin {"idle", "gone"}
LeaderExists(r)  == leader[r] \in {"gate", "running", "zombie"}
LeaderLives(r)   == leader[r] \in {"gate", "running"}
GroupExists(r)   == LeaderExists(r) \/ strays[r]
GuardianLives(r) == guardian[r] \notin {"none", "gone"}

Goes(r, place)         == at' = [at EXCEPT ![r] = place]
GuardianGoes(r, place) == guardian' = [guardian EXCEPT ![r] = place]
Records(r, kind)       == results' = [results EXCEPT ![r] = @ \cup {kind}]
Signals(group, s) ==
  signal' = [r \in Run |-> IF r \in group /\ signal[r] # "kill" THEN s ELSE signal[r]]

(* The locks of r that are left once those in fs have been let go.         *)
Unlocked(r, fs) == [f \in Lease |-> IF f \in fs /\ lock[f] = r THEN None ELSE lock[f]]

(***************************************************************************)
(* Leases: try_acquire_detailed_at takes the pools in the order of their   *)
(* names and lets go of everything when one has no lease to give.          *)
(***************************************************************************)
Invoke(r) ==
  /\ at[r] = "idle"
  /\ Goes(r, "acquire")
  /\ UNCHANGED <<held, next, leaseVars, groupVars, fileVars, guardianVars, results>>

(* try_pool: the file opens and its lock is free. *)
TryLock(r) ==
  /\ at[r] = "acquire"
  /\ \E p \in Pool :
       /\ AtPool(r, p) /\ next[r] < Capacity[p]
       /\ \/ /\ lock[<<p, next[r]>>] = None
             /\ lock' = [lock EXCEPT ![<<p, next[r]>>] = r]
             /\ Goes(r, "recover")
             /\ UNCHANGED next
          \/ /\ lock[<<p, next[r]>>] # None
             /\ next' = [next EXCEPT ![r] = @ + 1]
             /\ UNCHANGED <<lock, at>>
  /\ UNCHANGED <<held, meta, groupVars, fileVars, guardianVars, results>>

(* The lease r has just locked and not yet taken. *)
Candidate(r, f) == f \in Lease /\ AtPool(r, f[1]) /\ f[2] = next[r]

LiveChildren(f) == {c \in meta[f].children : LeaderExists(c)}

(* The file says r's now, and the groups recorded in it are forgotten. *)
Takes(r, f) ==
  /\ meta' = [meta EXCEPT ![f] = [owner |-> r, children |-> {}]]
  /\ held' = [held EXCEPT ![r] = @ \cup {f}]
  /\ next' = [next EXCEPT ![r] = 0]
  /\ Goes(r, "acquire")
  /\ UNCHANGED <<lock, groupVars, fileVars, guardianVars, results>>

PassesBy(r, f) ==
  /\ lock' = [lock EXCEPT ![f] = None]
  /\ next' = [next EXCEPT ![r] = @ + 1]
  /\ Goes(r, "acquire")
  /\ UNCHANGED <<held, meta, groupVars, fileVars, guardianVars, results>>

(* Mutation of MayTake: an owner that has gone is enough.                  *)
MayTakeFromTheDead(f) ==
  \/ LiveChildren(f) = {}
  \/ meta[f].owner # None /\ ~OwnerLives(meta[f].owner)

MayTake(f) ==
  \/ meta[f].owner = None
  \/ LiveChildren(f) = {}

(* recover_stale_owner: nobody's, or nobody of it is left. *)
TakeLease(r) ==
  /\ at[r] \in {"recover", "reap"}
  /\ \E f \in Lease : Candidate(r, f) /\ MayTake(f) /\ Takes(r, f)

(* Its owner lives and so does its command. *)
LeaveToOwner(r) ==
  /\ at[r] = "recover"
  /\ \E f \in Lease : /\ Candidate(r, f) /\ ~MayTake(f)
                      /\ OwnerLives(meta[f].owner)
                      /\ PassesBy(r, f)

(* Mutation of KillOrphans: it only waits.                                 *)
WaitForOrphans(r) ==
  /\ at[r] = "recover"
  /\ \E f \in Lease : /\ Candidate(r, f) /\ ~MayTake(f)
                      /\ ~OwnerLives(meta[f].owner)
  /\ Goes(r, "reap")
  /\ UNCHANGED <<held, next, leaseVars, groupVars, fileVars, guardianVars, results>>

(* Its owner has gone: kill what it recorded, and wait two seconds. *)
KillOrphans(r) ==
  /\ at[r] = "recover"
  /\ \E f \in Lease : /\ Candidate(r, f) /\ ~MayTake(f)
                      /\ ~OwnerLives(meta[f].owner)
                      /\ Signals(LiveChildren(f), "kill")
  /\ Goes(r, "reap")
  /\ UNCHANGED <<held, next, leaseVars, leader, strays, ran, fileVars, guardianVars, results>>

OrphansStay(r) ==
  /\ at[r] = "reap"
  /\ \E f \in Lease : Candidate(r, f) /\ ~MayTake(f) /\ PassesBy(r, f)

(* TryAcquire::Blocked: let go, and try again in 100 ms ... *)
Blocked(r) ==
  /\ at[r] = "acquire"
  /\ \E p \in Pool : AtPool(r, p) /\ next[r] = Capacity[p]
  /\ lock' = Unlocked(r, held[r])
  /\ held' = [held EXCEPT ![r] = {}]
  /\ next' = [next EXCEPT ![r] = 0]
  /\ Goes(r, "waiting")
  /\ UNCHANGED <<meta, groupVars, fileVars, guardianVars, results>>

TryAgain(r) ==
  /\ at[r] = "waiting"
  /\ Goes(r, "acquire")
  /\ UNCHANGED <<held, next, leaseVars, groupVars, fileVars, guardianVars, results>>

(* ... unless it is cancelled: the result says so. *)
CancelWait(r) ==
  /\ at[r] = "waiting"
  /\ Records(r, "final")
  /\ Goes(r, "done")
  /\ UNCHANGED <<held, next, leaseVars, groupVars, fileVars, guardianVars>>

Acquired(r) ==
  /\ at[r] = "acquire" /\ Missing(r) = {}
  /\ Goes(r, "spawn")
  /\ UNCHANGED <<held, next, leaseVars, groupVars, fileVars, guardianVars, results>>

(***************************************************************************)
(* The runner: execute_one_attempt, spawn_task_guardian, execute_one.      *)
(***************************************************************************)
Spawn(r) ==
  /\ at[r] = "spawn"
  /\ leader' = [leader EXCEPT ![r] = "gate"]
  /\ Goes(r, "record")
  /\ UNCHANGED <<held, next, leaseVars, strays, signal, ran, fileVars, guardianVars, results>>

(* The lease files that do not name the group yet. *)
Unrecorded(r) == {f \in held[r] : r \notin meta[f].children}

(* record_child, file by file. *)
RecordChild(r) ==
  /\ at[r] = "record"
  /\ \E f \in Unrecorded(r) :
       /\ \A g \in Unrecorded(r) : f[1] <= g[1]
       /\ meta' = [meta EXCEPT ![f].children = @ \cup {r}]
  /\ UNCHANGED <<runnerVars, lock, groupVars, fileVars, guardianVars, results>>

ChildRecorded(r) ==
  /\ at[r] = "record" /\ Unrecorded(r) = {}
  /\ Goes(r, "launch")
  /\ UNCHANGED <<held, next, leaseVars, groupVars, fileVars, guardianVars, results>>

LaunchGuardian(r) ==
  /\ at[r] = "launch"
  /\ GuardianGoes(r, "verify")
  /\ Goes(r, "await")
  /\ UNCHANGED <<held, next, leaseVars, groupVars, fileVars, guardianHold, results>>

GateSeen(r) ==
  /\ at[r] = "await" /\ gate[r]
  /\ Goes(r, "running")
  /\ UNCHANGED <<held, next, leaseVars, groupVars, fileVars, guardianVars, results>>

(* The guardian has exited or, after 15 seconds, is killed, which may be    *)
(* just after it opened the gate; terminate_group.  A guardian that ends    *)
(* the group needs that long: the runner is not reaping the leader.         *)
GuardianFailed(r) ==
  /\ at[r] = "await"
  /\ guardian[r] \in {"gone", "end"} \/ SlowGuardian
  /\ GuardianGoes(r, "gone")
  /\ guardianHold' = [guardianHold EXCEPT ![r] = FALSE]
  /\ Signals({r}, "term")
  /\ Goes(r, "abort")
  /\ UNCHANGED <<held, next, leaseVars, leader, strays, ran, fileVars, results>>

(* The leader went within two seconds, or SIGKILL was sent and not waited for. *)
Aborted(r) ==
  /\ at[r] = "abort"
  /\ \/ leader[r] = "zombie" /\ leader' = [leader EXCEPT ![r] = "reaped"] /\ UNCHANGED signal
     \/ LeaderLives(r) /\ Signals({r}, "kill") /\ UNCHANGED leader
  /\ Records(r, "final")
  /\ Goes(r, "drop")
  /\ UNCHANGED <<held, next, leaseVars, strays, ran, fileVars, guardianVars>>

(* Deadline, interrupt or cancellation. *)
Terminate(r) ==
  /\ at[r] = "running"
  /\ Signals({r}, "term")
  /\ Goes(r, "terminating")
  /\ UNCHANGED <<held, next, leaseVars, leader, strays, ran, fileVars, guardianVars, results>>

(* Two seconds later. *)
TerminateHard(r) ==
  /\ at[r] = "terminating" /\ LeaderLives(r) /\ signal[r] # "kill"
  /\ Signals({r}, "kill")
  /\ UNCHANGED <<runnerVars, leaseVars, leader, strays, ran, fileVars, guardianVars, results>>

(* child.wait() returns; the gate file goes. *)
ChildExited(r) ==
  /\ at[r] \in {"running", "terminating"} /\ leader[r] = "zombie"
  /\ leader' = [leader EXCEPT ![r] = "reaped"]
  /\ gate' = [gate EXCEPT ![r] = FALSE]
  /\ Goes(r, "persist")
  /\ UNCHANGED <<held, next, leaseVars, strays, signal, ran, completion, guardianVars, results>>

Persist(r) ==
  /\ at[r] = "persist"
  /\ Records(r, "final")
  /\ Goes(r, "ack")
  /\ UNCHANGED <<held, next, leaseVars, groupVars, fileVars, guardianVars>>

(* acknowledge_completion writes the completion file ... *)
Complete(r) ==
  /\ at[r] = "ack"
  /\ completion' = [completion EXCEPT ![r] = TRUE]
  /\ Goes(r, "drop")
  /\ UNCHANGED <<held, next, leaseVars, groupVars, gate, guardianVars, results>>

(* ... and waits two seconds for the guardian to remove it.  Either way    *)
(* the run is over: the files are removed and the leases unlocked.         *)
Drop(r) ==
  /\ at[r] = "drop"
  /\ gate' = [gate EXCEPT ![r] = FALSE]
  /\ completion' = [completion EXCEPT ![r] = FALSE]
  /\ lock' = Unlocked(r, held[r])
  /\ Goes(r, "done")
  /\ UNCHANGED <<held, next, meta, groupVars, guardianVars, results>>

(* The process exits, or is killed wherever it is. *)
Leave(r) ==
  /\ OwnerLives(r)
  /\ lock' = IF GuardianLives(r) THEN lock ELSE Unlocked(r, Lease)
  /\ Goes(r, "gone")
  /\ UNCHANGED <<held, next, meta, groupVars, fileVars, guardianVars, results>>

(***************************************************************************)
(* The command's process group.                                            *)
(***************************************************************************)
CommandStarts(r) ==
  /\ leader[r] = "gate" /\ gate[r] /\ signal[r] = "none"
  /\ leader' = [leader EXCEPT ![r] = "running"]
  /\ ran' = [ran EXCEPT ![r] = TRUE]
  /\ UNCHANGED <<runnerVars, leaseVars, strays, signal, fileVars, guardianVars, results>>

LeavesStray(r) ==
  /\ leader[r] = "running" /\ signal[r] # "kill"
  /\ strays' = [strays EXCEPT ![r] = TRUE]
  /\ UNCHANGED <<runnerVars, leaseVars, leader, signal, ran, fileVars, guardianVars, results>>

(* The command ends by itself or by a signal, what waits at the gate by a  *)
(* signal: devme's, or somebody else's.                                    *)
LeaderEnds(r) ==
  /\ LeaderLives(r)
  /\ leader' = [leader EXCEPT ![r] = "zombie"]
  /\ UNCHANGED <<runnerVars, leaseVars, strays, signal, ran, fileVars, guardianVars, results>>

(* A leader the runner did not wait for: the runtime's orphan queue reaps   *)
(* it, or init.                                                             *)
OrphanReaped(r) ==
  /\ leader[r] = "zombie" /\ at[r] \in {"drop", "done", "gone"}
  /\ leader' = [leader EXCEPT ![r] = "reaped"]
  /\ UNCHANGED <<runnerVars, leaseVars, strays, signal, ran, fileVars, guardianVars, results>>

StraysEnd(r) ==
  /\ strays[r]
  /\ strays' = [strays EXCEPT ![r] = FALSE]
  /\ UNCHANGED <<runnerVars, leaseVars, leader, signal, ran, fileVars, guardianVars, results>>

(***************************************************************************)
(* The guardian: task_guardian_main.                                       *)
(***************************************************************************)
(* It exits: its hold goes with its connection, and the locks if the       *)
(* runner has gone as well.                                                *)
GuardianExits(r) ==
  /\ GuardianGoes(r, "gone")
  /\ guardianHold' = [guardianHold EXCEPT ![r] = FALSE]
  /\ lock' = IF OwnerLives(r) THEN lock ELSE Unlocked(r, Lease)

Verified(r) ==
  /\ LeaderExists(r) /\ OwnerLives(r)
  /\ \/ guardian[r] = "verify" /\ GuardianGoes(r, "hold")
     \/ guardian[r] = "verifyAgain" /\ GuardianGoes(r, "open")
  /\ UNCHANGED <<runnerVars, leaseVars, groupVars, fileVars, guardianHold, results>>

NoLeader(r) ==
  /\ guardian[r] \in {"verify", "verifyAgain"} /\ ~LeaderExists(r)
  /\ Records(r, "interrupted")
  /\ GuardianExits(r)
  /\ UNCHANGED <<runnerVars, meta, groupVars, fileVars>>

(* Mutation of EndGroup: a completion file is taken for the end of the     *)
(* group.                                                                  *)
EndGroupUnlessComplete(r) ==
  /\ \/ guardian[r] \in {"verify", "verifyAgain"} /\ LeaderExists(r) /\ ~OwnerLives(r)
     \/ guardian[r] \in {"hold", "open"}
     \/ guardian[r] = "watch" /\ ~OwnerLives(r) /\ ~completion[r]
  /\ Signals({r}, "term")
  /\ GuardianGoes(r, "end")
  /\ UNCHANGED <<runnerVars, leaseVars, leader, strays, ran, fileVars, guardianHold, results>>

(* terminate_task_group_and_wait begins: the owner has gone, the hold was  *)
(* refused, or the gate cannot be written.  A watching guardian may have   *)
(* looked at the group and the completion before they changed.             *)
EndGroup(r) ==
  /\ \/ guardian[r] \in {"verify", "verifyAgain"} /\ LeaderExists(r) /\ ~OwnerLives(r)
     \/ guardian[r] \in {"hold", "open"}
     \/ guardian[r] = "watch" /\ ~OwnerLives(r)
  /\ Signals({r}, "term")
  /\ GuardianGoes(r, "end")
  /\ UNCHANGED <<runnerVars, leaseVars, leader, strays, ran, fileVars, guardianHold, results>>

AcquireGuardianHold(r) ==
  /\ guardian[r] = "hold"
  /\ guardianHold' = [guardianHold EXCEPT ![r] = TRUE]
  /\ GuardianGoes(r, "verifyAgain")
  /\ UNCHANGED <<runnerVars, leaseVars, groupVars, fileVars, results>>

OpenGate(r) ==
  /\ guardian[r] = "open"
  /\ gate' = [gate EXCEPT ![r] = TRUE]
  /\ GuardianGoes(r, "watch")
  /\ UNCHANGED <<runnerVars, leaseVars, groupVars, completion, guardianHold, results>>

(* Mutation of Acknowledge: the end of the group is enough.                *)
AcknowledgeAnyway(r) ==
  /\ guardian[r] = "watch" /\ ~GroupExists(r)
  /\ completion' = [completion EXCEPT ![r] = FALSE]
  /\ gate' = [gate EXCEPT ![r] = FALSE]
  /\ GuardianExits(r)
  /\ UNCHANGED <<runnerVars, meta, groupVars, results>>

Acknowledge(r) ==
  /\ guardian[r] = "watch" /\ ~GroupExists(r) /\ completion[r]
  /\ completion' = [completion EXCEPT ![r] = FALSE]
  /\ gate' = [gate EXCEPT ![r] = FALSE]
  /\ GuardianExits(r)
  /\ UNCHANGED <<runnerVars, meta, groupVars, results>>

(* SIGKILL after two seconds, and again until the group has gone. *)
EndGroupHard(r) ==
  /\ guardian[r] = "end" /\ GroupExists(r) /\ signal[r] # "kill"
  /\ Signals({r}, "kill")
  /\ UNCHANGED <<runnerVars, leaseVars, leader, strays, ran, fileVars, guardianVars, results>>

(* Mutation of RecordInterrupted: the group is signalled and left to end.  *)
RecordAtOnce(r) ==
  /\ guardian[r] = "end"
  /\ Records(r, "interrupted")
  /\ gate' = [gate EXCEPT ![r] = FALSE]
  /\ GuardianExits(r)
  /\ UNCHANGED <<runnerVars, meta, groupVars, completion>>

RecordInterrupted(r) ==
  /\ guardian[r] = "end" /\ ~GroupExists(r)
  /\ Records(r, "interrupted")
  /\ gate' = [gate EXCEPT ![r] = FALSE]
  /\ GuardianExits(r)
  /\ UNCHANGED <<runnerVars, meta, groupVars, completion>>

GuardianKilled(r) ==
  /\ GuardianDies /\ GuardianLives(r)
  /\ GuardianExits(r)
  /\ UNCHANGED <<runnerVars, meta, groupVars, fileVars, results>>

-----------------------------------------------------------------------------
RunnerStep(r) ==
  \/ TryLock(r) \/ TakeLease(r) \/ LeaveToOwner(r) \/ KillOrphans(r) \/ OrphansStay(r)
  \/ Blocked(r) \/ TryAgain(r) \/ Acquired(r)
  \/ Spawn(r) \/ RecordChild(r) \/ ChildRecorded(r) \/ LaunchGuardian(r) \/ GateSeen(r) \/ GuardianFailed(r)
  \/ Aborted(r) \/ TerminateHard(r) \/ ChildExited(r) \/ Persist(r) \/ Complete(r) \/ Drop(r)

GuardianStep(r) ==
  \/ Verified(r) \/ NoLeader(r) \/ EndGroup(r) \/ AcquireGuardianHold(r) \/ OpenGate(r)
  \/ Acknowledge(r) \/ EndGroupHard(r) \/ RecordInterrupted(r)

Next ==
  \E r \in Run :
    \/ Invoke(r) \/ CancelWait(r) \/ Terminate(r) \/ Leave(r) \/ RunnerStep(r)
    \/ CommandStarts(r) \/ LeavesStray(r) \/ LeaderEnds(r) \/ OrphanReaped(r)
    \/ StraysEnd(r) \/ GuardianStep(r) \/ GuardianKilled(r)

Spec == Init /\ [][Next]_vars

(* Processes get to run, SIGKILL ends what it is sent to and SIGTERM what   *)
(* waits at the gate, and the dead are reaped.                              *)
Fairness ==
  \A r \in Run :
    /\ WF_vars(RunnerStep(r))
    /\ WF_vars(GuardianStep(r))
    /\ WF_vars(signal[r] = "kill" /\ LeaderEnds(r))
    /\ WF_vars(leader[r] = "gate" /\ signal[r] # "none" /\ LeaderEnds(r))
    /\ WF_vars(signal[r] = "kill" /\ StraysEnd(r))
    /\ WF_vars(OrphanReaped(r))

FairSpec == Spec /\ Fairness

(* What waits at the gate sees it open, and the commands come to an end.   *)
EndingSpec ==
  /\ FairSpec
  /\ \A r \in Run : WF_vars(CommandStarts(r)) /\ WF_vars(leader[r] = "running" /\ LeaderEnds(r))

-----------------------------------------------------------------------------
(* No two commands run with the same lease: not when runners and guardians *)
(* are killed anywhere, not when a guardian is too slow, and not when a    *)
(* lease is recovered from those who left it (resource-lease               *)
(* recover_stale_owner, record_child before the guardian is launched).     *)
LeaseExclusive ==
  \A r, s \in Run :
    r # s /\ leader[r] = "running" /\ leader[s] = "running" => held[r] \cap held[s] = {}

(* A command that runs without its runner has a guardian that kept its     *)
(* locks and has a service hold of its own (task_guardian_main acquires    *)
(* the hold before it opens the gate).                                     *)
CommandIsOwned ==
  \A r \in Run :
    leader[r] = "running" /\ at[r] = "gone" =>
      GuardianLives(r) /\ guardianHold[r] /\ \A f \in held[r] : lock[f] = r

(* When runner and guardian have both gone, a command that got to run has  *)
(* left a result (persist before the acknowledgement, record_interrupted). *)
RunsAreRecorded ==
  \A r \in Run : ran[r] /\ at[r] = "gone" /\ ~GuardianLives(r) => results[r] # {}

(* A command that got to run never falls between its runner and its        *)
(* guardian: while it runs one of them owns it, and when both have gone    *)
(* one of them has recorded it (task_guardian_main).                       *)
SomebodyAnswers == CommandIsOwned /\ RunsAreRecorded

(* The leases and the service hold of a runner that disappeared are let go *)
(* only when its group has ended (terminate_task_group_and_wait).          *)
OrphansKeepWhatTheyUse ==
  [][\A r \in Run :
       at[r] = "gone" /\ GroupExists(r) =>
         /\ \A f \in Lease : lock[f] = r => lock'[f] = r
         /\ guardianHold[r] => guardianHold'[r]]_vars

(* A guardian whose runner disappeared ends the whole group, members that  *)
(* ignore SIGTERM included.                                                *)
OrphansEnd ==
  \A r \in Run : at[r] = "gone" /\ GuardianLives(r) ~> ~GroupExists(r)

(* Whoever waits for leases gets them, or stops waiting, as long as the    *)
(* commands before it end: whatever crashed, the leases come back.         *)
LeasesComeBack ==
  \A r \in Run : at[r] = "acquire" ~> at[r] \notin {"acquire", "waiting", "recover", "reap"}
=============================================================================
