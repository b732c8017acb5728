----------------------------- MODULE TaskProofs -----------------------------
(***************************************************************************)
(* No two commands run with the same lease, whatever crashes, and none is  *)
(* left without somebody who answers for it: proofs about TaskRun for      *)
(* every set of runs, pools and capacities.  A plan runs in its order and  *)
(* tells how it went, and a file of results keeps the latest: proofs about *)
(* TaskPlan for every finite acyclic set of tasks and every set of         *)
(* invocations.                                                            *)
(***************************************************************************)
EXTENDS TaskRun, TaskPlan, FiniteSetTheorems, WellFoundedInduction, TLAPS

(* Early places: no command yet; and no guardian yet. *)
Unstarted == {"idle", "acquire", "waiting", "recover", "reap", "spawn"}
Unguarded == Unstarted \cup {"record", "launch"}

(* A runner that has not finished has the locks of what it holds, and the  *)
(* lock of what it is about to take.                                       *)
Reserved(r, f) ==
  \/ at[r] \in {"recover", "reap"} /\ Candidate(r, f)
  \/ at[r] \notin {"done", "gone"} /\ f \in held[r]

Locked == \A r \in Run, f \in Lease : Reserved(r, f) => lock[f] = r

(* As long as it has not finished, the files are in its name. *)
Owned ==
  \A r \in Run : at[r] \notin {"done", "gone"} => \A f \in held[r] : meta[f].owner = r

IsRecorded(r) == \A f \in held[r] : meta[f].owner = r /\ r \in meta[f].children

(* A command that may pass its gate is in every lease file its run holds,  *)
(* for as long as its leader exists: recover_stale_owner finds it there.   *)
Recorded ==
  \A r \in Run :
    LeaderExists(r) /\ (guardian[r] # "none" \/ at[r] = "launch") => IsRecorded(r)

(* Nothing starts before its time, and no gate opens without a guardian. *)
InOrder ==
  \A r \in Run :
    /\ at[r] \in Unstarted => leader[r] = "none"
    /\ at[r] \in Unguarded => guardian[r] = "none"
    /\ at[r] = "await" \/ gate[r] \/ leader[r] = "running" => guardian[r] # "none"

IInv == Locked /\ Owned /\ Recorded /\ InOrder

(* The part of TypeOK that is about the ids a run tries, and the rest. *)
IdsOK == \A r \in Run, p \in Pool : AtPool(r, p) => next[r] <= Capacity[p]

-----------------------------------------------------------------------------
(* A lease is the pair of its pool and its id. *)
LEMMA LeaseIsPair ==
  ASSUME NEW f \in Lease
  PROVE  /\ f[1] \in Pool /\ f[2] \in Nat /\ f[2] < Capacity[f[1]]
         /\ f = <<f[1], f[2]>>
BY TaskRunAssumption DEF Lease

(* A run tries one pool at a time: the first that is missing. *)
LEMMA OnePoolAtATime ==
  ASSUME NEW r \in Run, NEW p \in Pool, NEW q \in Pool, AtPool(r, p), AtPool(r, q)
  PROVE  p = q
<1>1. p \in Nat /\ q \in Nat /\ p <= q /\ q <= p
  BY TaskRunAssumption DEF AtPool
<1> QED BY <1>1

(* The lease a run has locked is the only one it may take. *)
LEMMA OneCandidate ==
  ASSUME NEW r \in Run, NEW f \in Lease, NEW g \in Lease, Candidate(r, f), Candidate(r, g)
  PROVE  f = g
BY LeaseIsPair, OnePoolAtATime DEF Candidate

(* It is of a pool the run has nothing of. *)
LEMMA CandidateIsNew ==
  ASSUME NEW r \in Run, NEW f \in Lease, Candidate(r, f)
  PROVE  f \notin held[r]
BY DEF Candidate, AtPool, Missing

(* Nothing has happened yet: the types ... *)
LEMMA InitTypeOK == Init => TypeOK
<1> SUFFICES ASSUME Init PROVE TypeOK OBVIOUS
<1>1. \A p \in Pool : 0 <= Capacity[p]
  BY TaskRunAssumption
<1> QED BY <1>1 DEF Init, TypeOK, RunnerPlace, GuardianPlace, Metadata

(* The ids stay within the pools as long as those of other runs are left    *)
(* alone and those of r begin again or go on by one within the pool.        *)
LEMMA IdsStayOK ==
  ASSUME TypeOK, NEW r \in Run,
         \A s \in Run \ {r} : held'[s] = held[s] /\ next'[s] = next[s],
         \/ next'[r] = 0
         \/ held'[r] = held[r] /\ next'[r] = next[r]
         \/ /\ held'[r] = held[r]
            /\ next'[r] = next[r] + 1
            /\ \E p \in Pool : AtPool(r, p) /\ next[r] < Capacity[p]
  PROVE  IdsOK'
<1> SUFFICES ASSUME NEW s \in Run, NEW q \in Pool, AtPool(s, q)'
             PROVE  next'[s] <= Capacity[q]
  BY DEF IdsOK
<1>1. CASE s # r
  BY <1>1 DEF TypeOK, AtPool, Missing
<1>2. CASE s = r /\ next'[r] = 0
  BY <1>2, TaskRunAssumption
<1>3. CASE s = r /\ held'[r] = held[r] /\ next'[r] = next[r]
  BY <1>3 DEF TypeOK, AtPool, Missing
<1>4. CASE s = r /\ next'[r] # 0 /\ next'[r] # next[r]
  <2>1. PICK p \in Pool : AtPool(r, p) /\ next[r] < Capacity[p]
    BY <1>4
  <2>2. AtPool(r, q)
    BY <1>4 DEF AtPool, Missing
  <2>3. p = q
    BY <2>1, <2>2, OnePoolAtATime
  <2>4. next[r] \in Nat /\ Capacity[q] \in Nat
    BY TaskRunAssumption DEF TypeOK
  <2> QED
    BY <1>4, <2>1, <2>3, <2>4
<1> QED
  BY <1>1, <1>2, <1>3, <1>4

(* A lease passed by is the candidate of its pool. *)
LEMMA PassedBy ==
  ASSUME NEW r \in Run, NEW f \in Lease, Candidate(r, f)
  PROVE  \E p \in Pool : AtPool(r, p) /\ next[r] < Capacity[p]
BY LeaseIsPair DEF Candidate

(* What the actions change keeps its type. *)
LEMMA NextTypeOK == TypeOK /\ [Next]_vars => TypeOK'
<1> SUFFICES ASSUME TypeOK, [Next]_vars PROVE TypeOK'
  OBVIOUS
<1> USE DEF TypeOK, RunnerPlace, GuardianPlace, Metadata, Missing, AtPool, Goes,
    runnerVars, leaseVars, groupVars, fileVars, guardianVars
<1>0. CASE UNCHANGED vars
  BY <1>0 DEF vars
<1>1. ASSUME NEW r \in Run, TryLock(r) PROVE TypeOK'
  <2> DEFINE Tries(p) ==
        /\ AtPool(r, p) /\ next[r] < Capacity[p]
        /\ lock' \in {lock, [lock EXCEPT ![<<p, next[r]>>] = r]}
  <2>1. PICK p \in Pool : Tries(p)
    BY <1>1 DEF TryLock
  <2>2. /\ UNCHANGED <<held, meta, groupVars, fileVars, guardianVars, results>>
        /\ next' = next \/ next' = [next EXCEPT ![r] = @ + 1]
        /\ at' = at \/ at' = [at EXCEPT ![r] = "recover"]
    BY <1>1 DEF TryLock
  <2>3. IdsOK'
    BY <2>1, <2>2, IdsStayOK
  <2>4. lock' \in [Lease -> Run \cup {None}]
    <3> DEFINE f == <<p, next[r]>>
    <3>1. lock' = lock \/ lock' = [lock EXCEPT ![f] = r]
      BY <2>1
    <3> HIDE DEF f
    <3> QED
      BY <3>1
  <2>5. at' \in [Run -> RunnerPlace]
    BY <2>2
  <2>6. next' \in [Run -> Nat]
    BY <2>2
  <2> QED
    BY <2>2, <2>3, <2>4, <2>5, <2>6 DEF IdsOK
<1>2. ASSUME NEW r \in Run, Invoke(r) PROVE TypeOK'
  BY <1>2 DEF Invoke
<1>3. ASSUME NEW r \in Run, CancelWait(r) PROVE TypeOK'
  BY <1>3 DEF CancelWait, Records
<1>4. ASSUME NEW r \in Run, Terminate(r) PROVE TypeOK'
  BY <1>4 DEF Terminate, Signals
<1>5. ASSUME NEW r \in Run, Leave(r) PROVE TypeOK'
  BY <1>5 DEF Leave, Unlocked
<1>6. ASSUME NEW r \in Run, TakeLease(r) PROVE TypeOK'
  <2>1. PICK f \in Lease : Takes(r, f)
    BY <1>6 DEF TakeLease
  <2>2. IdsOK'
    BY <1>6, <2>1, IdsStayOK DEF Takes
  <2> QED
    BY <1>6, <2>1, <2>2 DEF IdsOK, Takes
<1>7. ASSUME NEW r \in Run, LeaveToOwner(r) PROVE TypeOK'
  <2>1. PICK f \in Lease : Candidate(r, f) /\ PassesBy(r, f)
    BY <1>7 DEF LeaveToOwner
  <2>2. IdsOK'
    BY <1>7, <2>1, PassedBy, IdsStayOK DEF PassesBy
  <2> QED
    BY <1>7, <2>1, <2>2 DEF IdsOK, PassesBy
<1>8. ASSUME NEW r \in Run, OrphansStay(r) PROVE TypeOK'
  <2>1. PICK f \in Lease : Candidate(r, f) /\ PassesBy(r, f)
    BY <1>8 DEF OrphansStay
  <2>2. IdsOK'
    BY <1>8, <2>1, PassedBy, IdsStayOK DEF PassesBy
  <2> QED
    BY <1>8, <2>1, <2>2 DEF IdsOK, PassesBy
<1>9. ASSUME NEW r \in Run, KillOrphans(r) PROVE TypeOK'
  BY <1>9 DEF KillOrphans, Signals
<1>10. ASSUME NEW r \in Run, Blocked(r) PROVE TypeOK'
  <2>1. next' = [next EXCEPT ![r] = 0] /\ held' = [held EXCEPT ![r] = {}]
    BY <1>10 DEF Blocked
  <2>2. IdsOK'
    BY <1>10, <2>1, IdsStayOK
  <2> QED
    BY <1>10, <2>1, <2>2 DEF IdsOK, Blocked, Unlocked
<1>11. ASSUME NEW r \in Run, TryAgain(r) PROVE TypeOK'
  BY <1>11 DEF TryAgain
<1>12. ASSUME NEW r \in Run, Acquired(r) PROVE TypeOK'
  BY <1>12 DEF Acquired
<1>13. ASSUME NEW r \in Run, Spawn(r) PROVE TypeOK'
  BY <1>13 DEF Spawn
<1>14. ASSUME NEW r \in Run, RecordChild(r) PROVE TypeOK'
  <2>1. PICK f \in Lease : meta' = [meta EXCEPT ![f].children = @ \cup {r}]
    BY <1>14 DEF RecordChild, Unrecorded
  <2>2. meta' \in [Lease -> Metadata]
    BY <2>1
  <2> QED
    BY <1>14, <2>2 DEF RecordChild
<1>90. ASSUME NEW r \in Run, ChildRecorded(r) PROVE TypeOK'
  BY <1>90 DEF ChildRecorded
<1>15. ASSUME NEW r \in Run, LaunchGuardian(r) PROVE TypeOK'
  BY <1>15 DEF LaunchGuardian, GuardianGoes
<1>16. ASSUME NEW r \in Run, GateSeen(r) PROVE TypeOK'
  BY <1>16 DEF GateSeen
<1>17. ASSUME NEW r \in Run, GuardianFailed(r) PROVE TypeOK'
  BY <1>17 DEF GuardianFailed, GuardianGoes, Signals
<1>18. ASSUME NEW r \in Run, Aborted(r) PROVE TypeOK'
  <2>1. results' \in [Run -> SUBSET {"final", "interrupted"}]
    BY <1>18 DEF Aborted, Records
  <2>2. /\ leader' = leader \/ leader' = [leader EXCEPT ![r] = "reaped"]
        /\ signal' = signal \/ Signals({r}, "kill")
        /\ at' = [at EXCEPT ![r] = "drop"]
        /\ UNCHANGED <<held, next, leaseVars, strays, ran, fileVars, guardianVars>>
    BY <1>18 DEF Aborted
  <2> QED
    BY <2>1, <2>2 DEF Signals
<1>19. ASSUME NEW r \in Run, TerminateHard(r) PROVE TypeOK'
  BY <1>19 DEF TerminateHard, Signals
<1>20. ASSUME NEW r \in Run, ChildExited(r) PROVE TypeOK'
  BY <1>20 DEF ChildExited
<1>21. ASSUME NEW r \in Run, Persist(r) PROVE TypeOK'
  BY <1>21 DEF Persist, Records
<1>22. ASSUME NEW r \in Run, Complete(r) PROVE TypeOK'
  BY <1>22 DEF Complete
<1>23. ASSUME NEW r \in Run, Drop(r) PROVE TypeOK'
  BY <1>23 DEF Drop, Unlocked
<1>24. ASSUME NEW r \in Run, CommandStarts(r) PROVE TypeOK'
  BY <1>24 DEF CommandStarts
<1>25. ASSUME NEW r \in Run, LeavesStray(r) PROVE TypeOK'
  BY <1>25 DEF LeavesStray
<1>26. ASSUME NEW r \in Run, LeaderEnds(r) PROVE TypeOK'
  BY <1>26 DEF LeaderEnds
<1>27. ASSUME NEW r \in Run, OrphanReaped(r) PROVE TypeOK'
  BY <1>27 DEF OrphanReaped
<1>28. ASSUME NEW r \in Run, StraysEnd(r) PROVE TypeOK'
  BY <1>28 DEF StraysEnd
<1>29. ASSUME NEW r \in Run, Verified(r) PROVE TypeOK'
  BY <1>29, SMTT(30) DEF Verified, GuardianGoes
<1>30. ASSUME NEW r \in Run, NoLeader(r) PROVE TypeOK'
  <2>1. results' \in [Run -> SUBSET {"final", "interrupted"}]
    BY <1>30 DEF NoLeader, Records
  <2>2. lock' \in [Lease -> Run \cup {None}]
    BY <1>30 DEF NoLeader, GuardianExits, Unlocked
  <2>3. guardian' \in [Run -> GuardianPlace] /\ guardianHold' \in [Run -> BOOLEAN]
    BY <1>30 DEF NoLeader, GuardianExits, GuardianGoes
  <2> QED
    BY <1>30, <2>1, <2>2, <2>3 DEF NoLeader
<1>31. ASSUME NEW r \in Run, EndGroup(r) PROVE TypeOK'
  BY <1>31 DEF EndGroup, Signals, GuardianGoes
<1>32. ASSUME NEW r \in Run, AcquireGuardianHold(r) PROVE TypeOK'
  BY <1>32 DEF AcquireGuardianHold, GuardianGoes
<1>33. ASSUME NEW r \in Run, OpenGate(r) PROVE TypeOK'
  BY <1>33 DEF OpenGate, GuardianGoes
<1>34. ASSUME NEW r \in Run, Acknowledge(r) PROVE TypeOK'
  BY <1>34 DEF Acknowledge, GuardianExits, GuardianGoes, Unlocked
<1>35. ASSUME NEW r \in Run, EndGroupHard(r) PROVE TypeOK'
  BY <1>35 DEF EndGroupHard, Signals
<1>36. ASSUME NEW r \in Run, RecordInterrupted(r) PROVE TypeOK'
  <2>1. results' \in [Run -> SUBSET {"final", "interrupted"}]
    BY <1>36 DEF RecordInterrupted, Records
  <2>2. lock' \in [Lease -> Run \cup {None}]
    BY <1>36 DEF RecordInterrupted, GuardianExits, Unlocked
  <2>3. guardian' \in [Run -> GuardianPlace] /\ guardianHold' \in [Run -> BOOLEAN]
    BY <1>36 DEF RecordInterrupted, GuardianExits, GuardianGoes
  <2> QED
    BY <1>36, <2>1, <2>2, <2>3 DEF RecordInterrupted
<1>37. ASSUME NEW r \in Run, GuardianKilled(r) PROVE TypeOK'
  BY <1>37 DEF GuardianKilled, GuardianExits, GuardianGoes, Unlocked
<1> QED
  BY <1>0, <1>1, <1>2, <1>3, <1>4, <1>5, <1>6, <1>7, <1>8, <1>9, <1>10, <1>11, <1>12, <1>13, <1>14, <1>15, <1>16, <1>17, <1>18, <1>19, <1>20, <1>21, <1>22, <1>23, <1>24, <1>25, <1>26, <1>27, <1>28, <1>29, <1>30, <1>31, <1>32, <1>33, <1>34, <1>35, <1>36, <1>37, <1>90 DEF Next, RunnerStep, GuardianStep

-----------------------------------------------------------------------------
(* ... and the invariant, which says nothing of runs that have no leases. *)
LEMMA InitIInv == Init => IInv
BY DEF Init, IInv, Locked, Reserved, Owned, Recorded, InOrder, Unstarted, Unguarded, LeaderExists

(* What a run may take depends on what it holds and tries. *)
LEMMA SameCandidate ==
  ASSUME NEW r \in Run, NEW f \in Lease, held'[r] = held[r], next'[r] = next[r]
  PROVE  Candidate(r, f)' <=> Candidate(r, f)
BY DEF Candidate, AtPool, Missing

(* Steps that take nothing, and release the locks of a run that is over.   *)
LEMMA QuietStep ==
  ASSUME TypeOK, IInv, NEW r \in Run, UNCHANGED <<held, next, meta>>,
         \A f \in Lease : lock'[f] = lock[f] \/ (lock[f] = r /\ at'[r] \in {"done", "gone"}),
         \A s \in Run \ {r} : /\ at'[s] = at[s] /\ leader'[s] = leader[s]
                              /\ guardian'[s] = guardian[s] /\ gate'[s] = gate[s],
         at'[r] \in {"recover", "reap"} => at[r] \in {"recover", "reap"},
         at[r] \in {"done", "gone"} => at'[r] \in {"done", "gone"},
         at'[r] = "launch" => at[r] = "launch" \/ IsRecorded(r),
         leader'[r] \in {"gate", "running", "zombie"}
           => leader[r] \in {"gate", "running", "zombie"} \/ (guardian'[r] = "none" /\ at'[r] # "launch"),
         guardian'[r] # "none" => guardian[r] # "none" \/ at[r] = "launch",
         at'[r] \in Unstarted => leader'[r] = "none",
         at'[r] \in Unguarded => guardian'[r] = "none",
         at'[r] = "await" \/ gate'[r] \/ leader'[r] = "running" => guardian'[r] # "none"
  PROVE  IInv'
<1>1. Locked'
  <2> SUFFICES ASSUME NEW s \in Run, NEW f \in Lease, Reserved(s, f)'
               PROVE  lock'[f] = s
    BY DEF Locked
  <2>1. Candidate(s, f)' <=> Candidate(s, f)
    BY SameCandidate
  <2> QED
    BY <2>1 DEF IInv, Locked, Reserved
<1>2. Owned'
  BY DEF IInv, Owned
<1>3. Recorded'
  BY DEF IInv, Recorded, IsRecorded, LeaderExists
<1>4. InOrder'
  BY DEF IInv, InOrder
<1> QED
  BY <1>1, <1>2, <1>3, <1>4 DEF IInv
(* Those that QuietStep is about, one by one. *)
LEMMA QuietSteps ==
  ASSUME TypeOK, IInv, NEW r \in Run,
         \/ Invoke(r)
         \/ ChildRecorded(r)
         \/ TryAgain(r)
         \/ CancelWait(r)
         \/ Acquired(r)
         \/ Spawn(r)
         \/ LaunchGuardian(r)
         \/ GateSeen(r)
         \/ GuardianFailed(r)
         \/ Aborted(r)
         \/ Terminate(r)
         \/ TerminateHard(r)
         \/ ChildExited(r)
         \/ Persist(r)
         \/ Complete(r)
         \/ Drop(r)
         \/ Leave(r)
         \/ KillOrphans(r)
         \/ CommandStarts(r)
         \/ LeavesStray(r)
         \/ LeaderEnds(r)
         \/ OrphanReaped(r)
         \/ StraysEnd(r)
         \/ Verified(r)
         \/ EndGroup(r)
         \/ AcquireGuardianHold(r)
         \/ OpenGate(r)
         \/ EndGroupHard(r)
         \/ NoLeader(r)
         \/ Acknowledge(r)
         \/ RecordInterrupted(r)
         \/ GuardianKilled(r)
  PROVE  IInv'
<1> USE DEF TypeOK, IInv, InOrder, Unstarted, Unguarded, Goes,
    runnerVars, leaseVars, groupVars, fileVars, guardianVars
<1>0. CASE ChildRecorded(r)
  <2>1. IsRecorded(r)
    BY <1>0 DEF ChildRecorded, Unrecorded, Owned, IsRecorded
  <2> QED
    BY <1>0, <2>1, QuietStep DEF ChildRecorded
<1>1. CASE Invoke(r)
  BY <1>1, QuietStep DEF Invoke
<1>2. CASE TryAgain(r)
  BY <1>2, QuietStep DEF TryAgain
<1>3. CASE CancelWait(r)
  BY <1>3, QuietStep DEF CancelWait
<1>4. CASE Acquired(r)
  BY <1>4, QuietStep DEF Acquired
<1>5. CASE Spawn(r)
  BY <1>5, QuietStep DEF Spawn
<1>6. CASE LaunchGuardian(r)
  BY <1>6, QuietStep DEF LaunchGuardian, GuardianGoes
<1>7. CASE GateSeen(r)
  BY <1>7, QuietStep DEF GateSeen
<1>8. CASE GuardianFailed(r)
  BY <1>8, QuietStep DEF GuardianFailed, GuardianGoes
<1>9. CASE Aborted(r)
  BY <1>9, QuietStep DEF Aborted, LeaderLives
<1>10. CASE Terminate(r)
  BY <1>10, QuietStep DEF Terminate
<1>11. CASE TerminateHard(r)
  BY <1>11, QuietStep DEF TerminateHard
<1>12. CASE ChildExited(r)
  BY <1>12, QuietStep, ZenonT(60) DEF ChildExited
<1>13. CASE Persist(r)
  BY <1>13, QuietStep DEF Persist
<1>14. CASE Complete(r)
  BY <1>14, QuietStep DEF Complete
<1>15. CASE Drop(r)
  BY <1>15, QuietStep DEF Drop, Unlocked
<1>16. CASE Leave(r)
  BY <1>16, QuietStep DEF Leave, Unlocked, OwnerLives
<1>17. CASE KillOrphans(r)
  BY <1>17, QuietStep DEF KillOrphans, LeaderLives
<1>18. CASE CommandStarts(r)
  BY <1>18, QuietStep DEF CommandStarts
<1>19. CASE LeavesStray(r)
  BY <1>19, QuietStep DEF LeavesStray
<1>20. CASE LeaderEnds(r)
  BY <1>20, QuietStep DEF LeaderEnds, LeaderLives
<1>21. CASE OrphanReaped(r)
  BY <1>21, QuietStep DEF OrphanReaped
<1>22. CASE StraysEnd(r)
  BY <1>22, QuietStep DEF StraysEnd
<1>23. CASE Verified(r)
  BY <1>23, QuietStep DEF Verified, GuardianGoes
<1>24. CASE EndGroup(r)
  BY <1>24, QuietStep DEF EndGroup, GuardianGoes
<1>25. CASE AcquireGuardianHold(r)
  BY <1>25, QuietStep DEF AcquireGuardianHold, GuardianGoes
<1>26. CASE OpenGate(r)
  BY <1>26, QuietStep DEF OpenGate, GuardianGoes
<1>27. CASE EndGroupHard(r)
  BY <1>27, QuietStep DEF EndGroupHard
<1>28. CASE NoLeader(r)
  BY <1>28, QuietStep DEF NoLeader, GuardianExits, GuardianGoes, GuardianLives, OwnerLives, Unlocked
<1>29. CASE Acknowledge(r)
  BY <1>29, QuietStep DEF Acknowledge, GuardianExits, GuardianGoes, GuardianLives, OwnerLives, Unlocked
<1>30. CASE RecordInterrupted(r)
  BY <1>30, QuietStep DEF RecordInterrupted, GuardianExits, GuardianGoes, GuardianLives, OwnerLives, Unlocked
<1>31. CASE GuardianKilled(r)
  BY <1>31, QuietStep DEF GuardianKilled, GuardianExits, GuardianGoes, GuardianLives, OwnerLives, Unlocked
<1> QED
  BY <1>0, <1>1, <1>2, <1>3, <1>4, <1>5, <1>6, <1>7, <1>8, <1>9, <1>10, <1>11, <1>12, <1>13, <1>14, <1>15, <1>16, <1>17, <1>18, <1>19, <1>20, <1>21, <1>22, <1>23, <1>24, <1>25, <1>26, <1>27, <1>28, <1>29, <1>30, <1>31
-----------------------------------------------------------------------------
(* A run that is acquiring has no command and no guardian, so of itself it *)
(* only has to show its locks and its name in the files.                   *)
LEMMA AcquiringStep ==
  ASSUME TypeOK, IInv, NEW r \in Run,
         at[r] \in Unstarted, at'[r] \in Unstarted,
         UNCHANGED <<leader, guardian, gate>>,
         \A s \in Run \ {r} : at'[s] = at[s] /\ held'[s] = held[s] /\ next'[s] = next[s],
         \A s \in Run \ {r}, f \in Lease : lock[f] = s => lock'[f] = s,
         \A f \in Lease : Reserved(r, f)' => lock'[f] = r,
         \A f \in held'[r] : meta'[f].owner = r,
         \A s \in Run \ {r} : at[s] \notin {"done", "gone"} =>
           \A f \in held[s] : meta'[f].owner = meta[f].owner,
         \A s \in Run \ {r} : LeaderExists(s) /\ IsRecorded(s) =>
           \A f \in held[s] : meta'[f] = meta[f]
  PROVE  IInv'
<1>1. Locked'
  <2> SUFFICES ASSUME NEW s \in Run, NEW f \in Lease, Reserved(s, f)' PROVE lock'[f] = s
    BY DEF Locked
  <2>1. CASE s = r
    BY <2>1
  <2>2. CASE s # r
    <3>1. Candidate(s, f)' <=> Candidate(s, f)
      BY <2>2, SameCandidate
    <3>2. Reserved(s, f)
      BY <2>2, <3>1 DEF Reserved
    <3> QED
      BY <2>2, <3>2 DEF IInv, Locked
  <2> QED
    BY <2>1, <2>2
<1>2. Owned'
  BY DEF IInv, Owned
<1>3. Recorded'
  <2> SUFFICES ASSUME NEW s \in Run, LeaderExists(s)', (guardian[s] # "none" \/ at[s] = "launch")'
               PROVE  IsRecorded(s)'
    BY DEF Recorded
  <2>1. s # r
    BY DEF IInv, InOrder, LeaderExists, Unguarded
  <2>2. LeaderExists(s) /\ IsRecorded(s)
    BY <2>1 DEF IInv, Recorded, LeaderExists
  <2> QED
    BY <2>1, <2>2 DEF IsRecorded
<1>4. InOrder'
  BY DEF IInv, InOrder, Unstarted, Unguarded
<1> QED
  BY <1>1, <1>2, <1>3, <1>4 DEF IInv

(* It locks what nobody has locked, or goes on to the next id. *)
LEMMA TryLockIInv ==
  ASSUME TypeOK, IInv, NEW r \in Run, TryLock(r)
  PROVE  IInv'
<1>1. /\ UNCHANGED <<held, meta, leader, guardian, gate>>
      /\ at[r] = "acquire"
      /\ at' = at \/ at' = [at EXCEPT ![r] = "recover"]
      /\ next' = next \/ next' = [next EXCEPT ![r] = @ + 1]
  BY DEF TryLock, Goes, groupVars, fileVars, guardianVars
<1>2. at'[r] \in {"acquire", "recover"} /\ \A s \in Run \ {r} : at'[s] = at[s]
  BY <1>1 DEF TypeOK
<1>3. \A s \in Run \ {r} : next'[s] = next[s] /\ held'[s] = held[s]
  BY <1>1 DEF TypeOK
<1>4. \A s \in Run \ {r}, f \in Lease : lock[f] = s => lock'[f] = s
  <2> SUFFICES ASSUME NEW s \in Run \ {r}, NEW f \in Lease, lock[f] = s PROVE lock'[f] = s
    OBVIOUS
  <2>1. CASE lock' = lock
    BY <2>1
  <2>2. CASE lock' # lock
    <3>1. PICK g : lock[g] = None /\ lock' = [lock EXCEPT ![g] = r]
      BY <2>2 DEF TryLock
    <3> QED
      BY <3>1, TaskRunAssumption DEF TypeOK
  <2> QED
    BY <2>1, <2>2
<1>5. ASSUME NEW f \in Lease, Reserved(r, f)' PROVE lock'[f] = r
  <2>1. CASE f \in held[r]
    <3>1. lock[f] = r
      BY <1>1, <2>1 DEF IInv, Locked, Reserved
    <3>2. lock' = lock \/ \E g : lock[g] = None /\ lock' = [lock EXCEPT ![g] = r]
      BY DEF TryLock
    <3> QED
      BY <3>1, <3>2, TaskRunAssumption DEF TypeOK
  <2>2. CASE f \notin held[r]
    <3>1. at'[r] = "recover" /\ Candidate(r, f)'
      BY <1>1, <1>2, <1>5, <2>2 DEF Reserved
    <3>2. at' # at
      BY <1>1, <3>1
    <3>3. PICK q \in Pool : /\ AtPool(r, q)
                           /\ lock' = [lock EXCEPT ![<<q, next[r]>>] = r]
                           /\ UNCHANGED next
      BY <3>2 DEF TryLock
    <3>4. Candidate(r, f)
      BY <1>1, <3>1, <3>3, SameCandidate
    <3>5. f = <<q, next[r]>>
      BY <3>3, <3>4, LeaseIsPair, OnePoolAtATime DEF Candidate
    <3> QED
      BY <3>3, <3>5 DEF TypeOK
  <2> QED
    BY <2>1, <2>2
<1>6. \A f \in held'[r] : meta'[f].owner = r
  BY <1>1 DEF IInv, Owned
<1> QED
  BY <1>1, <1>2, <1>3, <1>4, <1>5, <1>6, AcquiringStep DEF Unstarted

(* A lease is taken only when no group recorded in it has a leader left. *)
LEMMA TakeLeaseIInv ==
  ASSUME TypeOK, IInv, NEW r \in Run, TakeLease(r)
  PROVE  IInv'
<1>1. PICK f \in Lease : Candidate(r, f) /\ MayTake(f) /\ Takes(r, f)
  BY DEF TakeLease
<1>2. at[r] \in {"recover", "reap"} /\ at'[r] = "acquire"
  BY <1>1 DEF TakeLease, Takes, Goes, TypeOK
<1>3. lock[f] = r
  BY <1>1, <1>2 DEF IInv, Locked, Reserved
<1>4. /\ UNCHANGED <<lock, leader, guardian, gate>>
      /\ held'[r] = held[r] \cup {f}
      /\ \A s \in Run \ {r} : at'[s] = at[s] /\ held'[s] = held[s] /\ next'[s] = next[s]
      /\ meta'[f] = [owner |-> r, children |-> {}]
      /\ \A g \in Lease \ {f} : meta'[g] = meta[g]
  BY <1>1 DEF Takes, Goes, groupVars, fileVars, guardianVars, TypeOK
<1>5. ASSUME NEW g \in Lease, Reserved(r, g)' PROVE lock'[g] = r
  BY <1>2, <1>3, <1>4, <1>5 DEF IInv, Locked, Reserved
<1>6. \A g \in held'[r] : meta'[g].owner = r
  BY <1>2, <1>4 DEF IInv, Owned, TypeOK
<1>7. ASSUME NEW s \in Run \ {r}, at[s] \notin {"done", "gone"}
      PROVE  \A g \in held[s] : meta'[g].owner = meta[g].owner
  <2>1. f \notin held[s]
    BY <1>3, <1>7 DEF IInv, Locked, Reserved
  <2> QED
    BY <1>4, <2>1 DEF TypeOK
<1>8. ASSUME NEW s \in Run \ {r}, LeaderExists(s), IsRecorded(s)
      PROVE  \A g \in held[s] : meta'[g] = meta[g]
  <2>1. f \notin held[s]
    <3> SUFFICES ASSUME f \in held[s] PROVE FALSE
      OBVIOUS
    <3>1. meta[f].owner = s /\ s \in LiveChildren(f)
      BY <1>8 DEF IsRecorded, LiveChildren
    <3> QED
      BY <1>1, <3>1, TaskRunAssumption DEF MayTake
  <2> QED
    BY <1>4, <2>1 DEF TypeOK
<1> QED
  BY <1>2, <1>4, <1>5, <1>6, <1>7, <1>8, AcquiringStep DEF Unstarted

(* A lease passed by is unlocked, and it was not one that is held. *)
LEMMA PassesByIInv ==
  ASSUME TypeOK, IInv, NEW r \in Run, NEW f \in Lease,
         at[r] \in {"recover", "reap"}, Candidate(r, f), PassesBy(r, f)
  PROVE  IInv'
<1>1. /\ UNCHANGED <<held, meta, leader, guardian, gate>>
      /\ at'[r] = "acquire"
      /\ \A s \in Run \ {r} : at'[s] = at[s] /\ next'[s] = next[s]
      /\ \A g \in Lease \ {f} : lock'[g] = lock[g]
  BY DEF PassesBy, Goes, groupVars, fileVars, guardianVars, TypeOK
<1>2. lock[f] = r
  BY DEF IInv, Locked, Reserved
<1>3. ASSUME NEW g \in Lease, Reserved(r, g)' PROVE lock'[g] = r
  <2>1. g \in held[r] /\ g # f
    BY <1>1, <1>3, CandidateIsNew DEF Reserved
  <2> QED
    BY <1>1, <2>1 DEF IInv, Locked, Reserved
<1>4. \A g \in held'[r] : meta'[g].owner = r
  BY <1>1 DEF IInv, Owned
<1> QED
  BY <1>1, <1>2, <1>3, <1>4, AcquiringStep DEF Unstarted

(* Blocked: everything is let go. *)
LEMMA BlockedIInv ==
  ASSUME TypeOK, IInv, NEW r \in Run, Blocked(r)
  PROVE  IInv'
<1>1. /\ UNCHANGED <<meta, leader, guardian, gate>>
      /\ at[r] = "acquire" /\ at'[r] = "waiting" /\ held'[r] = {}
      /\ \A s \in Run \ {r} : at'[s] = at[s] /\ held'[s] = held[s] /\ next'[s] = next[s]
  BY DEF Blocked, Goes, groupVars, fileVars, guardianVars, TypeOK
<1>2. \A s \in Run \ {r}, f \in Lease : lock[f] = s => lock'[f] = s
  BY DEF Blocked, Unlocked
<1>3. \A f \in Lease : ~Reserved(r, f)'
  BY <1>1 DEF Reserved
<1> QED
  BY <1>1, <1>2, <1>3, AcquiringStep DEF Unstarted

(* Recording the group leaves names and locks as they are. *)
LEMMA RecordChildIInv ==
  ASSUME TypeOK, IInv, NEW r \in Run, RecordChild(r)
  PROVE  IInv'
<1>1. UNCHANGED <<at, held, next, lock, leader, guardian, gate>>
  BY DEF RecordChild, runnerVars, groupVars, fileVars, guardianVars
<1>2. \A f \in Lease : /\ meta'[f].owner = meta[f].owner
                       /\ meta[f].children \subseteq meta'[f].children
  <2>1. PICK f \in Lease : meta' = [meta EXCEPT ![f].children = @ \cup {r}]
    BY DEF RecordChild, Unrecorded, TypeOK
  <2> QED
    BY <2>1 DEF TypeOK, Metadata
<1>3. Locked'
  <2> SUFFICES ASSUME NEW s \in Run, NEW f \in Lease, Reserved(s, f)' PROVE lock'[f] = s
    BY DEF Locked
  <2>1. Candidate(s, f)' <=> Candidate(s, f)
    BY <1>1, SameCandidate
  <2> QED
    BY <1>1, <2>1 DEF IInv, Locked, Reserved
<1>4. Owned'
  BY <1>1, <1>2 DEF IInv, Owned, TypeOK
<1>5. Recorded'
  <2> SUFFICES ASSUME NEW s \in Run, LeaderExists(s)', (guardian[s] # "none" \/ at[s] = "launch")'
               PROVE  IsRecorded(s)'
    BY DEF Recorded
  <2>1. IsRecorded(s)
    BY <1>1 DEF IInv, Recorded, LeaderExists
  <2> QED
    BY <1>1, <1>2, <2>1 DEF IsRecorded, TypeOK
<1>6. InOrder'
  BY <1>1 DEF IInv, InOrder
<1> QED
  BY <1>3, <1>4, <1>5, <1>6 DEF IInv

-----------------------------------------------------------------------------
(* Every step keeps the invariant. *)
LEMMA NextIInv == TypeOK /\ IInv /\ [Next]_vars => IInv'
<1> SUFFICES ASSUME TypeOK, IInv, [Next]_vars PROVE IInv'
  OBVIOUS
<1>1. CASE UNCHANGED vars
  <2>1. UNCHANGED <<at, held, next, lock, meta, leader, guardian, gate>>
    BY <1>1 DEF vars, runnerVars, leaseVars, groupVars, fileVars, guardianVars
  <2>2. \A r \in Run, f \in Lease : Candidate(r, f)' <=> Candidate(r, f)
    BY <2>1, SameCandidate
  <2> QED
    BY <2>1, <2>2 DEF IInv, Locked, Reserved, Owned, Recorded, IsRecorded, InOrder, LeaderExists
<1>2. ASSUME NEW r \in Run, LeaveToOwner(r) \/ OrphansStay(r) PROVE IInv'
  BY <1>2, PassesByIInv DEF LeaveToOwner, OrphansStay
<1>3. ASSUME NEW r \in Run,
             TryLock(r) \/ TakeLease(r) \/ Blocked(r) \/ RecordChild(r)
      PROVE  IInv'
  BY <1>3, TryLockIInv, TakeLeaseIInv, BlockedIInv, RecordChildIInv
<1> QED
  BY <1>1, <1>2, <1>3, QuietSteps DEF Next, RunnerStep, GuardianStep

(* The variables keep their types, and the id a run tries stays within the *)
(* pool it is at.                                                          *)
THEOREM TaskTypes == Spec => []TypeOK
<1> QED BY InitTypeOK, NextTypeOK, PTL DEF Spec

(* What recovery relies on: locks, names and recorded groups agree with    *)
(* what the runs hold.                                                     *)
THEOREM LeasesAreRecorded == Spec => []IInv
<1> QED BY InitTypeOK, NextTypeOK, InitIInv, NextIInv, PTL DEF Spec

(* No two commands run with the same lease, for all runs, pools, and       *)
(* capacities, and wherever runners and guardians are killed: both would   *)
(* be recorded in its file, which has one owner.                           *)
THEOREM LeasesAreExclusive == Spec => []LeaseExclusive
<1>1. IInv => LeaseExclusive
  <2> SUFFICES ASSUME IInv, NEW r \in Run, NEW s \in Run, r # s,
                      leader[r] = "running", leader[s] = "running",
                      NEW f \in held[r] \cap held[s]
               PROVE  FALSE
    BY DEF LeaseExclusive
  <2>1. IsRecorded(r) /\ IsRecorded(s)
    BY DEF IInv, InOrder, Recorded, LeaderExists
  <2> QED
    BY <2>1 DEF IsRecorded
<1> QED BY <1>1, LeasesAreRecorded, PTL

-----------------------------------------------------------------------------
(* No gate opens, and no command runs, before its guardian has a hold.     *)
OpenedAt(r) ==
  /\ gate[r] \/ ran[r] => guardian[r] \in {"watch", "end", "gone"}
  /\ leader[r] = "running" \/ strays[r] => ran[r]

(* A command has a guardian with a hold before it may start, a guardian    *)
(* ends what has not started or has lost its runner only, a runner that is *)
(* over has seen the command end or never let it start, and what goes on   *)
(* without a runner keeps the locks and comes to a result.                 *)
AnswersAt(r) ==
  /\ gate[r] \/ leader[r] = "running" => guardian[r] \in {"watch", "end"} /\ guardianHold[r]
  /\ guardian[r] \in {"verifyAgain", "open", "watch"} => guardianHold[r]
  /\ guardian[r] = "end" /\ OwnerLives(r) => ~gate[r] /\ ~ran[r]
  /\ at[r] \in {"abort", "persist", "ack", "drop", "done"} =>
       leader[r] \in {"none", "reaped"} \/ guardian[r] = "gone"
  /\ at[r] = "gone" /\ GuardianLives(r) /\ LeaderExists(r) => \A f \in held[r] : lock[f] = r
  /\ completion[r] \/ at[r] = "ack" \/ (ran[r] /\ guardian[r] = "gone") => results[r] # {}

(* What a step of r leaves to the others: all but locks that are free.     *)
Others(r) ==
  \A s \in Run \ {r} :
    /\ at'[s] = at[s] /\ held'[s] = held[s] /\ leader'[s] = leader[s] /\ strays'[s] = strays[s]
    /\ guardian'[s] = guardian[s] /\ guardianHold'[s] = guardianHold[s]
    /\ gate'[s] = gate[s] /\ completion'[s] = completion[s]
    /\ results'[s] = results[s] /\ ran'[s] = ran[s]
    /\ \A f \in Lease : lock[f] = s => lock'[f] = s

(* The steps of one run. *)
StepOf(r) ==
    \/ Invoke(r) \/ CancelWait(r) \/ Terminate(r) \/ Leave(r) \/ RunnerStep(r)
    \/ CommandStarts(r) \/ LeavesStray(r) \/ LeaderEnds(r) \/ OrphanReaped(r)
    \/ StraysEnd(r) \/ GuardianStep(r) \/ GuardianKilled(r)

(* A step of a run touches what is its own. *)
LEMMA OnlyItsOwn ==
  ASSUME TypeOK, IInv, NEW r \in Run, StepOf(r)
  PROVE  Others(r)
<1> USE DEF TypeOK, Goes, runnerVars, leaseVars, groupVars, fileVars, guardianVars, Others
<1>1. CASE Invoke(r) \/ TakeLease(r) \/ KillOrphans(r) \/ Blocked(r) \/ TryAgain(r)
             \/ CancelWait(r) \/ Acquired(r)
  BY <1>1 DEF Invoke, TakeLease, KillOrphans, Blocked, TryAgain, CancelWait,
    Acquired, Unlocked, Records, GuardianExits, GuardianGoes, Takes, OwnerLives
<1>2. CASE Spawn(r) \/ RecordChild(r) \/ ChildRecorded(r) \/ LaunchGuardian(r)
  BY <1>2 DEF Spawn, RecordChild, ChildRecorded, LaunchGuardian, Unlocked, Records,
    GuardianExits, GuardianGoes, Takes, OwnerLives
<1>3. CASE GateSeen(r) \/ GuardianFailed(r) \/ Aborted(r) \/ Terminate(r)
             \/ TerminateHard(r)
  BY <1>3 DEF GateSeen, GuardianFailed, Aborted, Terminate, TerminateHard, Unlocked,
    Records, GuardianExits, GuardianGoes, Takes, OwnerLives
<1>4. CASE ChildExited(r) \/ Persist(r) \/ Complete(r) \/ Drop(r) \/ Leave(r)
  BY <1>4 DEF ChildExited, Persist, Complete, Drop, Leave, Unlocked, Records,
    GuardianExits, GuardianGoes, Takes, OwnerLives
<1>5. CASE CommandStarts(r) \/ LeavesStray(r) \/ LeaderEnds(r) \/ OrphanReaped(r)
             \/ StraysEnd(r)
  BY <1>5 DEF CommandStarts, LeavesStray, LeaderEnds, OrphanReaped, StraysEnd,
    Unlocked, Records, GuardianExits, GuardianGoes, Takes, OwnerLives
<1>6. CASE Verified(r) \/ NoLeader(r) \/ EndGroup(r) \/ AcquireGuardianHold(r)
             \/ OpenGate(r)
  BY <1>6 DEF Verified, NoLeader, EndGroup, AcquireGuardianHold, OpenGate, Unlocked,
    Records, GuardianExits, GuardianGoes, Takes, OwnerLives
<1>7. CASE Acknowledge(r) \/ EndGroupHard(r) \/ RecordInterrupted(r)
             \/ GuardianKilled(r)
  BY <1>7 DEF Acknowledge, EndGroupHard, RecordInterrupted, GuardianKilled, Unlocked,
    Records, GuardianExits, GuardianGoes, Takes, OwnerLives
<1>8. CASE TryLock(r)
  <2>1. lock' = lock \/ \E g : lock[g] = None /\ lock' = [lock EXCEPT ![g] = r]
    BY <1>8 DEF TryLock
  <2>2. \A s \in Run, f \in Lease : lock[f] = s => lock'[f] = s
    BY <2>1, TaskRunAssumption
  <2> QED
    BY <1>8, <2>2 DEF TryLock
<1>9. CASE LeaveToOwner(r) \/ OrphansStay(r)
  <2>1. PICK f \in Lease : Candidate(r, f) /\ PassesBy(r, f)
    BY <1>9 DEF LeaveToOwner, OrphansStay
  <2>2. lock[f] = r
    BY <1>9, <2>1 DEF LeaveToOwner, OrphansStay, IInv, Locked, Reserved
  <2> QED
    BY <2>1, <2>2 DEF PassesBy
<1> QED BY <1>1, <1>2, <1>3, <1>4, <1>5, <1>6, <1>7, <1>8, <1>9
        DEF StepOf, RunnerStep, GuardianStep

(* A step of a run opens no gate and starts no command out of order. *)
LEMMA OpenedStep ==
  ASSUME TypeOK, IInv, NEW r \in Run, StepOf(r), OpenedAt(r)
  PROVE  OpenedAt(r)'
<1> USE DEF TypeOK, IInv, InOrder, Unguarded, Unstarted, OpenedAt, Goes,
    runnerVars, leaseVars, groupVars, fileVars, guardianVars
<1>1. CASE Invoke(r) \/ TryLock(r) \/ TakeLease(r) \/ LeaveToOwner(r)
             \/ KillOrphans(r) \/ OrphansStay(r) \/ Blocked(r) \/ TryAgain(r) \/ CancelWait(r)
             \/ Acquired(r)
  BY <1>1, TaskRunAssumption DEF Invoke, TryLock, TakeLease, LeaveToOwner,
    KillOrphans, OrphansStay, Blocked, TryAgain, CancelWait, Acquired, Takes,
    PassesBy, GuardianExits, GuardianGoes, LeaderExists, LeaderLives, GuardianLives,
    GroupExists
<1>2. CASE Spawn(r) \/ RecordChild(r) \/ ChildRecorded(r) \/ LaunchGuardian(r)
  BY <1>2 DEF Spawn, RecordChild, ChildRecorded, LaunchGuardian, Takes, PassesBy,
    GuardianExits, GuardianGoes, LeaderExists, LeaderLives, GuardianLives,
    GroupExists
<1>3. CASE GateSeen(r) \/ GuardianFailed(r) \/ Aborted(r) \/ Terminate(r)
             \/ TerminateHard(r)
  BY <1>3 DEF GateSeen, GuardianFailed, Aborted, Terminate, TerminateHard, Takes,
    PassesBy, GuardianExits, GuardianGoes, LeaderExists, LeaderLives, GuardianLives,
    GroupExists
<1>4. CASE ChildExited(r) \/ Persist(r) \/ Complete(r) \/ Drop(r) \/ Leave(r)
  BY <1>4 DEF ChildExited, Persist, Complete, Drop, Leave, Takes, PassesBy,
    GuardianExits, GuardianGoes, LeaderExists, LeaderLives, GuardianLives,
    GroupExists
<1>5. CASE CommandStarts(r) \/ LeavesStray(r) \/ LeaderEnds(r) \/ OrphanReaped(r)
             \/ StraysEnd(r)
  BY <1>5 DEF CommandStarts, LeavesStray, LeaderEnds, OrphanReaped, StraysEnd, Takes,
    PassesBy, GuardianExits, GuardianGoes, LeaderExists, LeaderLives, GuardianLives,
    GroupExists
<1>6. CASE Verified(r) \/ NoLeader(r) \/ EndGroup(r) \/ AcquireGuardianHold(r)
             \/ OpenGate(r)
  BY <1>6 DEF Verified, NoLeader, EndGroup, AcquireGuardianHold, OpenGate, Takes,
    PassesBy, GuardianExits, GuardianGoes, LeaderExists, LeaderLives, GuardianLives,
    GroupExists
<1>7. CASE Acknowledge(r) \/ EndGroupHard(r) \/ RecordInterrupted(r)
             \/ GuardianKilled(r)
  BY <1>7 DEF Acknowledge, EndGroupHard, RecordInterrupted, GuardianKilled, Takes,
    PassesBy, GuardianExits, GuardianGoes, LeaderExists, LeaderLives, GuardianLives,
    GroupExists
<1> QED BY <1>1, <1>2, <1>3, <1>4, <1>5, <1>6, <1>7
        DEF StepOf, RunnerStep, GuardianStep

(* A step of a run whose guardian is reliable keeps the command answered for. *)
LEMMA AnswersStep ==
  ASSUME TypeOK, IInv, ~GuardianDies, ~SlowGuardian,
         NEW r \in Run, StepOf(r), OpenedAt(r), AnswersAt(r)
  PROVE  AnswersAt(r)'
<1> USE DEF TypeOK, IInv, InOrder, Unguarded, Unstarted, OpenedAt, AnswersAt, Goes,
    runnerVars, leaseVars, groupVars, fileVars, guardianVars
<1>1. CASE Invoke(r) \/ TryAgain(r) \/ CancelWait(r) \/ Acquired(r)
  BY <1>1 DEF Invoke, TryAgain, CancelWait, Acquired, Records, GuardianExits,
    GuardianGoes, Takes, PassesBy, OwnerLives, LeaderExists, LeaderLives,
    GuardianLives, GroupExists, Locked, Reserved, Unlocked
<1>2. CASE TryLock(r) \/ TakeLease(r) \/ LeaveToOwner(r) \/ OrphansStay(r)
             \/ KillOrphans(r) \/ Blocked(r)
  BY <1>2, TaskRunAssumption, ZenonT(60) DEF TryLock, TakeLease, LeaveToOwner, OrphansStay,
    KillOrphans, Blocked, Records, GuardianExits, GuardianGoes, Takes, PassesBy,
    OwnerLives, LeaderExists, LeaderLives, GuardianLives, GroupExists, Locked,
    Reserved, Unlocked
<1>3. CASE Spawn(r) \/ RecordChild(r) \/ ChildRecorded(r) \/ LaunchGuardian(r)
  BY <1>3 DEF Spawn, RecordChild, ChildRecorded, LaunchGuardian, Records,
    GuardianExits, GuardianGoes, Takes, PassesBy, OwnerLives, LeaderExists,
    LeaderLives, GuardianLives, GroupExists, Locked, Reserved, Unlocked
<1>4. CASE GateSeen(r) \/ GuardianFailed(r) \/ Aborted(r) \/ Terminate(r)
             \/ TerminateHard(r)
  BY <1>4 DEF GateSeen, GuardianFailed, Aborted, Terminate, TerminateHard, Records,
    GuardianExits, GuardianGoes, Takes, PassesBy, OwnerLives, LeaderExists,
    LeaderLives, GuardianLives, GroupExists, Locked, Reserved, Unlocked
<1>5. CASE ChildExited(r) \/ Drop(r)
  BY <1>5 DEF ChildExited, Drop, Records, GuardianExits, GuardianGoes, Takes,
    PassesBy, OwnerLives, LeaderExists, LeaderLives, GuardianLives, GroupExists,
    Locked, Reserved, Unlocked
<1>6. CASE Persist(r)
  BY <1>6 DEF Persist, Records, GuardianExits, GuardianGoes, Takes, PassesBy,
    OwnerLives, LeaderExists, LeaderLives, GuardianLives, GroupExists, Locked,
    Reserved, Unlocked
<1>7. CASE Complete(r)
  BY <1>7 DEF Complete, Records, GuardianExits, GuardianGoes, Takes, PassesBy,
    OwnerLives, LeaderExists, LeaderLives, GuardianLives, GroupExists, Locked,
    Reserved, Unlocked
<1>8. CASE Leave(r)
  BY <1>8 DEF Leave, Records, GuardianExits, GuardianGoes, Takes, PassesBy,
    OwnerLives, LeaderExists, LeaderLives, GuardianLives, GroupExists, Locked,
    Reserved, Unlocked
<1>9. CASE CommandStarts(r) \/ LeavesStray(r) \/ LeaderEnds(r) \/ OrphanReaped(r)
             \/ StraysEnd(r)
  BY <1>9 DEF CommandStarts, LeavesStray, LeaderEnds, OrphanReaped, StraysEnd,
    Records, GuardianExits, GuardianGoes, Takes, PassesBy, OwnerLives, LeaderExists,
    LeaderLives, GuardianLives, GroupExists, Locked, Reserved, Unlocked
<1>10. CASE Verified(r) \/ NoLeader(r) \/ EndGroup(r) \/ AcquireGuardianHold(r)
             \/ OpenGate(r)
  BY <1>10 DEF Verified, NoLeader, EndGroup, AcquireGuardianHold, OpenGate, Records,
    GuardianExits, GuardianGoes, Takes, PassesBy, OwnerLives, LeaderExists,
    LeaderLives, GuardianLives, GroupExists, Locked, Reserved, Unlocked
<1>11. CASE Acknowledge(r)
  BY <1>11 DEF Acknowledge, Records, GuardianExits, GuardianGoes, Takes, PassesBy,
    OwnerLives, LeaderExists, LeaderLives, GuardianLives, GroupExists, Locked,
    Reserved, Unlocked
<1>12. CASE RecordInterrupted(r)
  BY <1>12 DEF RecordInterrupted, Records, GuardianExits, GuardianGoes, Takes,
    PassesBy, OwnerLives, LeaderExists, LeaderLives, GuardianLives, GroupExists,
    Locked, Reserved, Unlocked
<1>13. CASE EndGroupHard(r) \/ GuardianKilled(r)
  BY <1>13 DEF EndGroupHard, GuardianKilled, Records, GuardianExits, GuardianGoes,
    Takes, PassesBy, OwnerLives, LeaderExists, LeaderLives, GuardianLives,
    GroupExists, Locked, Reserved, Unlocked
<1> QED BY <1>1, <1>2, <1>3, <1>4, <1>5, <1>6, <1>7, <1>8, <1>9, <1>10, <1>11, <1>12, <1>13
        DEF StepOf, RunnerStep, GuardianStep

Opened == \A r \in Run : OpenedAt(r)
Answers == \A r \in Run : AnswersAt(r)

(* What others do to a run leaves it opened and answered for. *)
LEMMA OthersStay ==
  ASSUME TypeOK, NEW r \in Run, Others(r), NEW s \in Run \ {r}
  PROVE  /\ OpenedAt(s) => OpenedAt(s)'
         /\ AnswersAt(s) => AnswersAt(s)'
BY DEF Others, OpenedAt, AnswersAt, OwnerLives, LeaderExists, GuardianLives, TypeOK

(* Nothing changes. *)
LEMMA StutterStays ==
  ASSUME UNCHANGED vars
  PROVE  (Opened => Opened') /\ (Answers => Answers')
BY DEF vars, runnerVars, leaseVars, groupVars, fileVars, guardianVars,
       Opened, Answers, OpenedAt, AnswersAt, OwnerLives, LeaderExists, GuardianLives

(* No command runs, and nothing is left of one, before its gate opened. *)
LEMMA NothingBeforeTheGate == Spec => []Opened
<1>1. Init => Opened
  BY DEF Init, Opened, OpenedAt
<1>2. TypeOK /\ IInv /\ Opened /\ [Next]_vars => Opened'
  <2> SUFFICES ASSUME TypeOK, IInv, Opened, Next PROVE Opened'
    BY StutterStays
  <2>1. PICK r \in Run : StepOf(r)
    BY DEF Next, StepOf
  <2>2. Others(r) /\ OpenedAt(r)'
    BY <2>1, OnlyItsOwn, OpenedStep DEF Opened
  <2> QED
    BY <2>2, OthersStay DEF Opened
<1> QED BY <1>1, <1>2, TaskTypes, LeasesAreRecorded, PTL DEF Spec

(* A command that got to run never falls between its runner and its        *)
(* guardian, wherever the runner is killed: as long as guardians are not   *)
(* killed themselves and answer within the 15 seconds they are given,      *)
(* every running command has one of them, with its locks and a service     *)
(* hold, and one that both have left behind has its result.                *)
THEOREM SomebodyAlwaysAnswers ==
  ASSUME ~GuardianDies, ~SlowGuardian
  PROVE  Spec => []SomebodyAnswers
<1>1. Init => Answers
  BY DEF Init, Answers, AnswersAt, OwnerLives, LeaderExists, GuardianLives
<1>2. TypeOK /\ IInv /\ Opened /\ Answers /\ [Next]_vars => Answers'
  <2> SUFFICES ASSUME TypeOK, IInv, Opened, Answers, Next PROVE Answers'
    BY StutterStays
  <2>1. PICK r \in Run : StepOf(r)
    BY DEF Next, StepOf
  <2>2. Others(r) /\ AnswersAt(r)'
    BY <2>1, OnlyItsOwn, AnswersStep DEF Opened, Answers
  <2> QED
    BY <2>2, OthersStay DEF Answers
<1>3. Opened /\ Answers => SomebodyAnswers
  BY DEF Opened, OpenedAt, Answers, AnswersAt, SomebodyAnswers, CommandIsOwned,
         RunsAreRecorded, GuardianLives, LeaderExists
<1> QED BY <1>1, <1>2, <1>3, TaskTypes, LeasesAreRecorded, NothingBeforeTheGate, PTL DEF Spec

(* The leases and the service hold of a runner that disappeared are kept   *)
(* until its whole group has ended, as long as guardians are not killed.   *)
THEOREM OrphansKeepTheirs ==
  ASSUME ~GuardianDies
  PROVE  Spec => OrphansKeepWhatTheyUse
<1> DEFINE Keeps == \A r \in Run :
             at[r] = "gone" /\ GroupExists(r) =>
               /\ \A f \in Lease : lock[f] = r => lock'[f] = r
               /\ guardianHold[r] => guardianHold'[r]
<1>1. TypeOK /\ IInv /\ Opened /\ [Next]_vars => Keeps
  <2> SUFFICES ASSUME TypeOK, IInv, Opened, [Next]_vars,
                      NEW r \in Run, at[r] = "gone", GroupExists(r)
               PROVE  /\ \A f \in Lease : lock[f] = r => lock'[f] = r
                      /\ guardianHold[r] => guardianHold'[r]
    OBVIOUS
  <2>1. CASE UNCHANGED vars
    BY <2>1 DEF vars, leaseVars, guardianVars
  <2>2. ASSUME NEW s \in Run \ {r}, StepOf(s)
        PROVE  /\ \A f \in Lease : lock[f] = r => lock'[f] = r
               /\ guardianHold[r] => guardianHold'[r]
    BY <2>2, OnlyItsOwn DEF Others
  <2>3. ASSUME StepOf(r)
        PROVE  UNCHANGED lock /\ (guardianHold[r] => guardianHold'[r])
    <3>1. \/ CommandStarts(r) \/ LeavesStray(r) \/ LeaderEnds(r) \/ OrphanReaped(r)
          \/ StraysEnd(r) \/ Verified(r) \/ NoLeader(r) \/ EndGroup(r)
          \/ AcquireGuardianHold(r) \/ OpenGate(r) \/ EndGroupHard(r)
      BY <2>3 DEF StepOf, RunnerStep, GuardianStep, OwnerLives,
         Invoke, CancelWait, Terminate, Leave, TryLock, TakeLease, LeaveToOwner, KillOrphans,
         OrphansStay, Blocked, TryAgain, Acquired, Spawn, RecordChild, ChildRecorded,
         LaunchGuardian, GateSeen, GuardianFailed, Aborted, TerminateHard, ChildExited,
         Persist, Complete, Drop, Acknowledge, RecordInterrupted, GuardianKilled
    <3>2. ~NoLeader(r)
      BY DEF NoLeader, Opened, OpenedAt, GroupExists
    <3> QED
      BY <3>1, <3>2 DEF CommandStarts, LeavesStray, LeaderEnds, OrphanReaped, StraysEnd,
         Verified, EndGroup, AcquireGuardianHold, OpenGate, EndGroupHard,
         leaseVars, guardianVars, TypeOK
  <2> QED
    BY <2>1, <2>2, <2>3 DEF Next, StepOf
<1> QED BY <1>1, TaskTypes, LeasesAreRecorded, NothingBeforeTheGate, PTL
        DEF Spec, OrphansKeepWhatTheyUse

-----------------------------------------------------------------------------
(* The execution order of a task. *)

(* A set of numbers has a least one. *)
LEMMA LeastNat ==
  ASSUME NEW S \in SUBSET Nat, S # {}
  PROVE  \E n \in S : \A m \in S : n <= m
<1> DEFINE R == {ss \in Nat \X Nat : ss[1] < ss[2]}
<1>1. IsWellFoundedOn(R, Nat)
  BY NatLessThanWellFounded DEF OpToRel
<1>2. PICK x \in S : \A y \in S : ~ (<<y, x>> \in R)
  <2> HIDE DEF R
  <2> QED BY <1>1, WFMin
<1>3. \A y \in S : ~ (y < x)
  BY <1>2
<1> QED BY <1>3

(* The outs of VisitAll, up to the m-th name. *)
VisitStep(v, names, out, d, n) == IF n = 0 THEN out ELSE v[names[n]][d[n - 1]]
Visited(v, names, out, d, m) == d = [n \in 0..m |-> VisitStep(v, names, out, d, n)]

LEMMA VisitedExists ==
  ASSUME NEW v, NEW names, NEW out, NEW l \in Nat
  PROVE  \E d : Visited(v, names, out, d, l)
<1> DEFINE Bad == {m \in Nat : ~ \E d : Visited(v, names, out, d, m)}
<1> SUFFICES ASSUME Bad # {} PROVE FALSE
  OBVIOUS
<1>1. PICK m \in Bad : \A k \in Bad : m <= k
  <2>1. Bad \in SUBSET Nat
    OBVIOUS
  <2> HIDE DEF Bad
  <2> QED BY <2>1, LeastNat
<1>2. CASE m = 0
  <2> DEFINE d == [n \in 0..0 |-> out]
  <2>1. Visited(v, names, out, d, 0)
    BY DEF Visited, VisitStep
  <2> QED BY <1>1, <1>2, <2>1
<1>3. CASE m # 0
  <2>1. m - 1 \in Nat /\ m \in Nat /\ ~(m <= m - 1)
    BY <1>1, <1>3
  <2>2. PICK d : Visited(v, names, out, d, m - 1)
    BY <1>1, <2>1
  <2> DEFINE h == [n \in 0..m |-> VisitStep(v, names, out, d, n)]
  <2>3. \A n \in 0..m - 1 : n \in 0..m /\ h[n] = d[n]
    BY <2>1, <2>2 DEF Visited
  <2>4. ASSUME NEW n \in 0..m PROVE VisitStep(v, names, out, d, n) = VisitStep(v, names, out, h, n)
    <3>1. n = 0 \/ n - 1 \in 0..m - 1
      BY <2>1
    <3> HIDE DEF h
    <3> QED BY <2>3, <3>1 DEF VisitStep
  <2>5. Visited(v, names, out, h, m)
    BY <2>4 DEF Visited
  <2> HIDE DEF h
  <2> QED BY <1>1, <2>5
<1> QED BY <1>2, <1>3

(* VisitAll takes the names one by one. *)
Outs(v, names, out, d) ==
  /\ VisitAll(v, names, out) = d[Len(names)]
  /\ d[0] = out
  /\ \A n \in 1..Len(names) : d[n] = v[names[n]][d[n - 1]]

LEMMA VisitAllSteps ==
  ASSUME NEW v, NEW names, Len(names) \in Nat, NEW out
  PROVE  \E d : Outs(v, names, out, d)
<1>1. VisitAll(v, names, out) = (CHOOSE d : Visited(v, names, out, d, Len(names)))[Len(names)]
  BY DEF VisitAll, Visited, VisitStep
<1>2. PICK d : d = CHOOSE e : Visited(v, names, out, e, Len(names))
  OBVIOUS
<1>3. Visited(v, names, out, d, Len(names))
  BY <1>2, VisitedExists
<1>4. \A n \in 0..Len(names) : d[n] = VisitStep(v, names, out, d, n)
  BY <1>3 DEF Visited
<1>5. d[0] = out /\ \A n \in 1..Len(names) : d[n] = v[names[n]][d[n - 1]]
  BY <1>4 DEF VisitStep
<1>6. Outs(v, names, out, d)
  BY <1>1, <1>2, <1>5 DEF Outs
<1> QED BY <1>6

(* VisitAll needs no more of v than the visits of the names. *)
Alike(T, names, v, w) ==
  \A n \in 1..Len(names), o \in Seq(T) : v[names[n]][o] = w[names[n]][o] /\ v[names[n]][o] \in Seq(T)

LEMMA VisitAllAgrees ==
  ASSUME NEW T, NEW names \in Seq(T), NEW out \in Seq(T), NEW v, NEW w, Alike(T, names, v, w)
  PROVE  VisitAll(v, names, out) = VisitAll(w, names, out) /\ VisitAll(v, names, out) \in Seq(T)
<1>0. Len(names) \in Nat
  OBVIOUS
<1>1. PICK d : Outs(v, names, out, d)
  BY <1>0, VisitAllSteps
<1>2. PICK e : Outs(w, names, out, e)
  BY <1>0, VisitAllSteps
<1> DEFINE Bad == {n \in 0..Len(names) : ~(d[n] = e[n] /\ d[n] \in Seq(T))}
<1>3. Bad = {}
  <2> SUFFICES ASSUME Bad # {} PROVE FALSE
    OBVIOUS
  <2>1. PICK n \in Bad : \A m \in Bad : n <= m
    <3>1. Bad \in SUBSET Nat
      OBVIOUS
    <3> HIDE DEF Bad
    <3> QED BY <3>1, LeastNat
  <2>2. n # 0
    BY <1>1, <1>2, <2>1 DEF Outs
  <2>3. n \in 1..Len(names) /\ n - 1 \in 0..Len(names) /\ ~(n <= n - 1)
    BY <2>1, <2>2
  <2>4. d[n - 1] = e[n - 1] /\ d[n - 1] \in Seq(T)
    BY <2>1, <2>3
  <2>5. d[n] = v[names[n]][d[n - 1]] /\ e[n] = w[names[n]][e[n - 1]]
    BY <1>1, <1>2, <2>3 DEF Outs
  <2>6. d[n] = e[n] /\ d[n] \in Seq(T)
    BY <2>3, <2>4, <2>5 DEF Alike
  <2> QED BY <2>1, <2>6
<1>4. Len(names) \in 0..Len(names)
  BY <1>0
<1> QED BY <1>1, <1>2, <1>3, <1>4 DEF Outs

(* v visits the names of U, which need none but those of U. *)
VisitOf(after, v, x, out) == IF x \in ToSet(out) THEN out ELSE Append(VisitAll(v, after[x], out), x)
Visits(after, T, U, v) ==
  \A x \in U, out \in Seq(T) : v[x][out] \in Seq(T) /\ v[x][out] = VisitOf(after, v, x, out)
Closed(after, U) == \A x \in U : \A n \in 1..Len(after[x]) : after[x][n] \in U

Graph(after, T) ==
  /\ IsFiniteSet(T) /\ after \in [T -> Seq(T)]
  /\ \A U \in SUBSET T : U # {} => \E x \in U : \A n \in 1..Len(after[x]) : after[x][n] \notin U

LEMMA VisitsMore ==
  ASSUME NEW T, NEW after \in [T -> Seq(T)], NEW U \in SUBSET T, Closed(after, U), NEW v, Visits(after, T, U, v),
         NEW x \in T \ U, \A n \in 1..Len(after[x]) : after[x][n] \in U
  PROVE  Closed(after, U \cup {x}) /\ \E w : Visits(after, T, U \cup {x}, w)
<1>1. Closed(after, U \cup {x})
  BY DEF Closed
<1> DEFINE w == [y \in U \cup {x} |-> [out \in Seq(T) |-> IF y = x THEN VisitOf(after, v, x, out) ELSE v[y][out]]]
<1>2. \A y \in U, out \in Seq(T) : w[y][out] = v[y][out]
  OBVIOUS
<1>3. \A out \in Seq(T) : w[x][out] = VisitOf(after, v, x, out)
  OBVIOUS
<1> HIDE DEF w
<1>4. ASSUME NEW y \in U \cup {x}, NEW out \in Seq(T)
      PROVE  VisitAll(v, after[y], out) = VisitAll(w, after[y], out) /\ VisitAll(v, after[y], out) \in Seq(T)
  <2>1. after[y] \in Seq(T) /\ \A n \in 1..Len(after[y]) : after[y][n] \in U
    BY DEF Closed
  <2>2. Alike(T, after[y], v, w)
    BY <1>2, <2>1 DEF Visits, Alike
  <2> QED BY <2>1, <2>2, VisitAllAgrees
<1>5. ASSUME NEW y \in U \cup {x}, NEW out \in Seq(T)
      PROVE  w[y][out] \in Seq(T) /\ w[y][out] = VisitOf(after, w, y, out)
  <2>1. VisitOf(after, v, y, out) = VisitOf(after, w, y, out)
    BY <1>4 DEF VisitOf
  <2>2. VisitOf(after, v, y, out) \in Seq(T)
    <3>1. VisitAll(v, after[y], out) \in Seq(T) /\ y \in T
      BY <1>4
    <3> QED BY <3>1 DEF VisitOf
  <2>3. w[y][out] = VisitOf(after, v, y, out)
    BY <1>2, <1>3 DEF Visits
  <2> QED BY <2>1, <2>2, <2>3
<1> QED BY <1>1, <1>5 DEF Visits

(* The definition of Visit has a solution, and Visit is one. *)
LEMMA VisitExists ==
  ASSUME NEW T, NEW after, Graph(after, T)
  PROVE  \E v : Visits(after, T, T, v)
<1> DEFINE Fine(U) == Closed(after, U) /\ \E v : Visits(after, T, U, v)
           Left == {Cardinality(T \ U) : U \in {V \in SUBSET T : Fine(V)}}
<1>1. \A U \in SUBSET T : IsFiniteSet(T \ U) /\ Cardinality(T \ U) \in Nat
  BY FS_Difference, FS_CardinalityType DEF Graph
<1>2. {} \in SUBSET T /\ Fine({})
  BY DEF Closed, Visits
<1>3. Left \in SUBSET Nat /\ Left # {}
  <2>1. Left \in SUBSET Nat
    BY <1>1
  <2>2. Cardinality(T \ {}) \in Left
    BY <1>2
  <2> QED BY <2>1, <2>2
<1>4. PICK n \in Left : \A m \in Left : n <= m
  <2> HIDE DEF Left
  <2> QED BY <1>3, LeastNat
<1>5. PICK U \in SUBSET T : Fine(U) /\ n = Cardinality(T \ U)
  BY <1>4
<1>6. CASE T \ U = {}
  <2>1. U = T
    BY <1>6
  <2> QED BY <1>5, <2>1
<1>7. CASE T \ U # {}
  <2>1. PICK x \in T \ U : \A k \in 1..Len(after[x]) : after[x][k] \notin T \ U
    BY <1>7 DEF Graph
  <2>2. after \in [T -> Seq(T)]
    BY DEF Graph
  <2>3. \A k \in 1..Len(after[x]) : after[x][k] \in U
    <3>1. after[x] \in Seq(T)
      BY <2>2
    <3>2. \A k \in 1..Len(after[x]) : after[x][k] \in T
      BY <3>1
    <3> QED BY <2>1, <3>2
  <2>4. Fine(U \cup {x})
    <3>1. PICK v : Visits(after, T, U, v)
      BY <1>5
    <3> QED BY <1>5, <2>2, <2>3, <3>1, VisitsMore
  <2>5. T \ (U \cup {x}) = (T \ U) \ {x} /\ U \cup {x} \in SUBSET T
    OBVIOUS
  <2>6. Cardinality(T \ (U \cup {x})) \in Left
    <3> HIDE DEF Fine
    <3> QED BY <2>4, <2>5
  <2>7. Cardinality((T \ U) \ {x}) = Cardinality(T \ U) - 1
    BY <1>1, FS_RemoveElement
  <2>8. n <= Cardinality(T \ (U \cup {x}))
    <3> HIDE DEF Left
    <3> QED BY <1>4, <2>6
  <2>9. n \in Nat /\ Cardinality(T \ (U \cup {x})) = n - 1
    BY <1>1, <1>5, <2>5, <2>7
  <2>10. ~(n <= n - 1)
    BY <2>9
  <2> QED BY <2>8, <2>9, <2>10
<1> QED BY <1>6, <1>7

LEMMA VisitVisits ==
  ASSUME NEW T, NEW after, Graph(after, T)
  PROVE  Visits(after, T, T, Visit(after))
<1>1. DOMAIN after = T /\ after \in [T -> Seq(T)]
  BY DEF Graph
<1> DEFINE Solves(v) == v = [x \in T |-> [out \in Seq(T) |-> VisitOf(after, v, x, out)]]
<1>2. Visit(after) = CHOOSE v : Solves(v)
  BY <1>1 DEF Visit, VisitOf
<1>3. \E v : Solves(v)
  <2>1. PICK u : Visits(after, T, T, u)
    BY VisitExists
  <2> DEFINE v == [x \in T |-> [out \in Seq(T) |-> VisitOf(after, u, x, out)]]
  <2>2. \A x \in T, out \in Seq(T) : v[x][out] = u[x][out] /\ u[x][out] \in Seq(T)
    BY <2>1 DEF Visits
  <2> HIDE DEF v
  <2>3. ASSUME NEW x \in T, NEW out \in Seq(T)
        PROVE  VisitOf(after, u, x, out) = VisitOf(after, v, x, out)
    <3>1. after[x] \in Seq(T) /\ \A n \in 1..Len(after[x]) : after[x][n] \in T
      BY <1>1
    <3>2. Alike(T, after[x], u, v)
      BY <2>2, <3>1 DEF Alike
    <3>3. VisitAll(u, after[x], out) = VisitAll(v, after[x], out)
      BY <3>1, <3>2, VisitAllAgrees
    <3> QED BY <3>3 DEF VisitOf
  <2>4. v = [x \in T |-> [out \in Seq(T) |-> VisitOf(after, v, x, out)]]
    BY <2>3 DEF v
  <2> QED BY <2>4
<1>4. PICK v : v = Visit(after)
  OBVIOUS
<1>5. Solves(v)
  BY <1>2, <1>3, <1>4
<1>6. \A x \in T, out \in Seq(T) : v[x][out] = VisitOf(after, v, x, out)
  BY <1>5
<1> DEFINE Bad == {x \in T : \E out \in Seq(T) : v[x][out] \notin Seq(T)}
<1>7. Bad = {}
  <2> SUFFICES ASSUME Bad # {} PROVE FALSE
    OBVIOUS
  <2>1. PICK x \in Bad : \A n \in 1..Len(after[x]) : after[x][n] \notin Bad
    <3>1. Bad \in SUBSET T
      OBVIOUS
    <3> HIDE DEF Bad
    <3> QED BY <3>1 DEF Graph
  <2>2. after[x] \in Seq(T) /\ \A n \in 1..Len(after[x]) : after[x][n] \in T
    BY <1>1, <2>1
  <2>3. Alike(T, after[x], v, v)
    BY <2>1, <2>2 DEF Alike
  <2>4. PICK out \in Seq(T) : v[x][out] \notin Seq(T)
    BY <2>1
  <2>5. VisitAll(v, after[x], out) \in Seq(T)
    BY <2>2, <2>3, VisitAllAgrees
  <2>6. VisitOf(after, v, x, out) \in Seq(T)
    BY <2>1, <2>5 DEF VisitOf
  <2> QED BY <1>6, <2>1, <2>4, <2>6
<1> QED BY <1>4, <1>6, <1>7 DEF Visits

(* What depends on itself by no way: the names that x needs are in a set   *)
(* of names that need no others, and x is not.                             *)
LEMMA NoneNeedsItself ==
  ASSUME NEW T, NEW after, Graph(after, T), NEW x \in T
  PROVE  \E C \in SUBSET T : Closed(after, C) /\ x \notin C /\ \A k \in 1..Len(after[x]) : after[x][k] \in C
<1> DEFINE N == UNION {C \in SUBSET T : Closed(after, C) /\ x \notin C}
<1>1. N \in SUBSET T /\ x \notin N
  OBVIOUS
<1>2. Closed(after, N)
  BY DEF Closed
<1>3. \A C \in SUBSET T : Closed(after, C) /\ x \notin C => C \subseteq N
  OBVIOUS
<1> HIDE DEF N
<1>4. PICK y \in T \ N : \A k \in 1..Len(after[y]) : after[y][k] \notin T \ N
  <2>1. T \ N \in SUBSET T /\ T \ N # {}
    BY <1>1
  <2> QED BY <2>1 DEF Graph
<1>5. \A k \in 1..Len(after[y]) : after[y][k] \in N
  <2>1. after[y] \in Seq(T)
    BY DEF Graph
  <2>2. \A k \in 1..Len(after[y]) : after[y][k] \in T
    BY <2>1
  <2> QED BY <1>4, <2>2
<1>6. y = x
  <2> SUFFICES ASSUME y # x PROVE FALSE
    OBVIOUS
  <2>1. N \cup {y} \in SUBSET T /\ x \notin N \cup {y}
    BY <1>1
  <2>2. Closed(after, N \cup {y})
    BY <1>2, <1>5 DEF Closed
  <2>3. N \cup {y} \subseteq N
    BY <1>3, <2>1, <2>2
  <2> QED BY <2>3
<1> QED BY <1>1, <1>2, <1>5, <1>6

(* A plan: no name twice, and after every name that it needs. *)
Ordered(after, o) ==
  /\ \A m, n \in 1..Len(o) : o[m] = o[n] => m = n
  /\ \A n \in 1..Len(o) : \A k \in 1..Len(after[o[n]]) : \E m \in 1..Len(o) : m < n /\ o[m] = after[o[n]][k]

Extends(o, r) == Len(o) <= Len(r) /\ \A n \in 1..Len(o) : r[n] = o[n]
Listed(x, r) == \E n \in 1..Len(r) : r[n] = x
Within(o, r, C) == \A n \in 1..Len(r) : n <= Len(o) \/ r[n] \in C

(* What a visit of x makes of the plan o. *)
WellVisited(after, T, x, o, r) ==
  /\ r \in Seq(T) /\ Ordered(after, r) /\ Extends(o, r) /\ Listed(x, r)
  /\ \A C \in SUBSET T : Closed(after, C) /\ x \in C => Within(o, r, C)

AllWellVisited(after, T, names, v) ==
  \A n \in 1..Len(names) : \A o \in Seq(T) :
    Ordered(after, o) => WellVisited(after, T, names[n], o, v[names[n]][o])

LEMMA ExtendsOn ==
  ASSUME NEW T, NEW o \in Seq(T), NEW q \in Seq(T), NEW r \in Seq(T), Extends(o, q), Extends(q, r)
  PROVE  /\ Extends(o, r)
         /\ \A x : Listed(x, q) => Listed(x, r)
         /\ \A C : Within(o, q, C) /\ Within(q, r, C) => Within(o, r, C)
<1>1. Len(o) \in Nat /\ Len(q) \in Nat /\ Len(r) \in Nat
  OBVIOUS
<1>2. Extends(o, r)
  BY <1>1 DEF Extends
<1>3. \A x : Listed(x, q) => Listed(x, r)
  BY <1>1 DEF Extends, Listed
<1>4. ASSUME NEW C, Within(o, q, C), Within(q, r, C) PROVE Within(o, r, C)
  <2> SUFFICES ASSUME NEW n \in 1..Len(r), ~(n <= Len(o)) PROVE r[n] \in C
    BY DEF Within
  <2>1. CASE n <= Len(q)
    <3>1. n \in 1..Len(q)
      BY <1>1, <2>1
    <3>2. q[n] \in C /\ r[n] = q[n]
      BY <1>4, <3>1 DEF Within, Extends
    <3> QED BY <3>2
  <2>2. CASE ~(n <= Len(q))
    BY <1>4, <2>2 DEF Within
  <2> QED BY <2>1, <2>2
<1> QED BY <1>2, <1>3, <1>4

LEMMA AllWell ==
  ASSUME NEW T, NEW after, NEW names \in Seq(T), NEW o \in Seq(T), NEW v,
         Ordered(after, o), AllWellVisited(after, T, names, v),
         NEW r, r = VisitAll(v, names, o)
  PROVE  /\ r \in Seq(T) /\ Ordered(after, r) /\ Extends(o, r)
         /\ \A n \in 1..Len(names) : Listed(names[n], r)
         /\ \A C \in SUBSET T : Closed(after, C) /\ (\A n \in 1..Len(names) : names[n] \in C) => Within(o, r, C)
<1>0. Len(names) \in Nat
  OBVIOUS
<1>1. PICK d : Outs(v, names, o, d)
  BY <1>0, VisitAllSteps
<1> DEFINE Fine(n) ==
             /\ d[n] \in Seq(T) /\ Ordered(after, d[n]) /\ Extends(o, d[n])
             /\ \A m \in 1..n : Listed(names[m], d[n])
             /\ \A C \in SUBSET T : Closed(after, C) /\ (\A m \in 1..Len(names) : names[m] \in C) => Within(o, d[n], C)
           Bad == {n \in 0..Len(names) : ~Fine(n)}
<1>2. Fine(0)
  <2>1. d[0] = o
    BY <1>1 DEF Outs
  <2>2. Len(o) \in Nat
    OBVIOUS
  <2>3. Extends(o, o) /\ \A C \in SUBSET T : Within(o, o, C)
    BY <2>2 DEF Extends, Within
  <2> QED BY <2>1, <2>3
<1>3. ASSUME NEW n \in 1..Len(names), Fine(n - 1) PROVE Fine(n)
  <2>1. d[n] = v[names[n]][d[n - 1]] /\ n \in Nat
    BY <1>1 DEF Outs
  <2>2. PICK q : q = d[n - 1]
    OBVIOUS
  <2>3. PICK p : p = d[n]
    OBVIOUS
  <2>4. q \in Seq(T) /\ Ordered(after, q) /\ Extends(o, q)
    BY <1>3, <2>2
  <2>5. WellVisited(after, T, names[n], q, p)
    BY <2>1, <2>2, <2>3, <2>4 DEF AllWellVisited
  <2>6. p \in Seq(T) /\ Ordered(after, p) /\ Extends(q, p) /\ Listed(names[n], p)
    BY <2>5 DEF WellVisited
  <2>7. Extends(o, p) /\ (\A x : Listed(x, q) => Listed(x, p))
        /\ \A C : Within(o, q, C) /\ Within(q, p, C) => Within(o, p, C)
    BY <2>4, <2>6, ExtendsOn
  <2>8. \A m \in 1..n : Listed(names[m], p)
    <3> SUFFICES ASSUME NEW m \in 1..n PROVE Listed(names[m], p)
      OBVIOUS
    <3>1. m = n \/ m \in 1..n - 1
      BY <2>1
    <3>2. m \in 1..n - 1 => Listed(names[m], q)
      BY <1>3, <2>2
    <3> QED BY <2>6, <2>7, <3>1, <3>2
  <2>9. \A C \in SUBSET T : Closed(after, C) /\ (\A m \in 1..Len(names) : names[m] \in C) => Within(o, p, C)
    <3> SUFFICES ASSUME NEW C \in SUBSET T, Closed(after, C), \A m \in 1..Len(names) : names[m] \in C
                 PROVE  Within(o, p, C)
      OBVIOUS
    <3>1. Within(o, q, C)
      BY <1>3, <2>2
    <3>2. Within(q, p, C)
      BY <2>5 DEF WellVisited
    <3> QED BY <2>7, <3>1, <3>2
  <2> QED BY <2>3, <2>6, <2>7, <2>8, <2>9
<1>4. Bad = {}
  <2> SUFFICES ASSUME Bad # {} PROVE FALSE
    OBVIOUS
  <2> HIDE DEF Fine
  <2>1. PICK n \in Bad : \A m \in Bad : n <= m
    <3>1. Bad \in SUBSET Nat
      OBVIOUS
    <3> HIDE DEF Bad
    <3> QED BY <3>1, LeastNat
  <2>2. n \in 0..Len(names) /\ ~Fine(n)
    BY <2>1
  <2>3. n # 0
    BY <1>2, <2>2
  <2>4. n \in 1..Len(names) /\ n - 1 \in 0..Len(names) /\ ~(n <= n - 1)
    BY <1>0, <2>2, <2>3
  <2>5. Fine(n - 1)
    BY <2>1, <2>4
  <2> QED BY <1>3, <2>2, <2>4, <2>5
<1>5. Fine(Len(names))
  <2> HIDE DEF Fine
  <2>1. Len(names) \in 0..Len(names)
    BY <1>0
  <2> QED BY <1>4, <2>1
<1>6. r = d[Len(names)]
  BY <1>1 DEF Outs
<1> QED BY <1>5, <1>6

LEMMA InSequence ==
  ASSUME NEW T, NEW o \in Seq(T), NEW x
  PROVE  x \in ToSet(o) <=> Listed(x, o)
<1>1. DOMAIN o = 1..Len(o)
  OBVIOUS
<1> QED BY <1>1 DEF ToSet, Listed

(* A visit that appends x to a plan with all it needs. *)
LEMMA AppendedWell ==
  ASSUME NEW T, NEW after, Graph(after, T), NEW x \in T, NEW o \in Seq(T), ~Listed(x, o),
         NEW q \in Seq(T), Ordered(after, q), Extends(o, q),
         \A n \in 1..Len(after[x]) : Listed(after[x][n], q),
         \A C \in SUBSET T : Closed(after, C) /\ (\A n \in 1..Len(after[x]) : after[x][n] \in C) => Within(o, q, C),
         NEW r, r = Append(q, x)
  PROVE  WellVisited(after, T, x, o, r)
<1>1. r \in Seq(T) /\ Len(r) = Len(q) + 1 /\ r[Len(q) + 1] = x /\ \A n \in 1..Len(q) : r[n] = q[n]
  OBVIOUS
<1>2. Len(q) \in Nat /\ Len(o) \in Nat /\ Len(o) <= Len(q) /\ \A n \in 1..Len(o) : q[n] = o[n]
  BY DEF Extends
<1>3. \A n \in 1..Len(r) : n \in 1..Len(q) \/ n = Len(q) + 1
  BY <1>1, <1>2
<1>4. \A n \in 1..Len(q) : q[n] # x
  <2> SUFFICES ASSUME NEW n \in 1..Len(q), q[n] = x PROVE FALSE
    OBVIOUS
  <2>1. PICK C \in SUBSET T : Closed(after, C) /\ x \notin C /\ \A k \in 1..Len(after[x]) : after[x][k] \in C
    BY NoneNeedsItself
  <2>2. Within(o, q, C)
    BY <2>1
  <2>3. n <= Len(o)
    BY <2>1, <2>2 DEF Within
  <2>4. n \in 1..Len(o) /\ o[n] = x
    BY <1>2, <2>3
  <2> QED BY <2>4 DEF Listed
<1>5. \A m, n \in 1..Len(r) : r[m] = r[n] => m = n
  <2> SUFFICES ASSUME NEW m \in 1..Len(r), NEW n \in 1..Len(r), r[m] = r[n] PROVE m = n
    OBVIOUS
  <2>1. CASE m \in 1..Len(q) /\ n \in 1..Len(q)
    BY <1>1, <2>1 DEF Ordered
  <2>2. CASE m = Len(q) + 1 /\ n = Len(q) + 1
    BY <2>2
  <2>3. CASE m \in 1..Len(q) /\ n = Len(q) + 1
    BY <1>1, <1>4, <2>3
  <2>4. CASE m = Len(q) + 1 /\ n \in 1..Len(q)
    BY <1>1, <1>4, <2>4
  <2> QED BY <1>3, <2>1, <2>2, <2>3, <2>4
<1>6. \A n \in 1..Len(r) : \A k \in 1..Len(after[r[n]]) : \E m \in 1..Len(r) : m < n /\ r[m] = after[r[n]][k]
  <2> SUFFICES ASSUME NEW n \in 1..Len(r), NEW k \in 1..Len(after[r[n]])
               PROVE  \E m \in 1..Len(r) : m < n /\ r[m] = after[r[n]][k]
    OBVIOUS
  <2>1. CASE n \in 1..Len(q)
    <3>1. r[n] = q[n]
      BY <1>1, <2>1
    <3>2. PICK m \in 1..Len(q) : m < n /\ q[m] = after[q[n]][k]
      BY <2>1, <3>1 DEF Ordered
    <3>3. m \in 1..Len(r) /\ r[m] = q[m]
      BY <1>1, <1>2
    <3> QED BY <3>1, <3>2, <3>3
  <2>2. CASE n = Len(q) + 1
    <3>1. r[n] = x
      BY <1>1, <2>2
    <3>2. PICK m \in 1..Len(q) : q[m] = after[x][k]
      BY <3>1 DEF Listed
    <3>3. m \in 1..Len(r) /\ r[m] = q[m] /\ m < n
      BY <1>1, <1>2, <2>2
    <3> QED BY <3>1, <3>2, <3>3
  <2> QED BY <1>3, <2>1, <2>2
<1>7. Ordered(after, r)
  BY <1>5, <1>6 DEF Ordered
<1>8. Extends(o, r)
  BY <1>1, <1>2 DEF Extends
<1>9. Listed(x, r)
  <2>1. Len(q) + 1 \in 1..Len(r)
    BY <1>1, <1>2
  <2> QED BY <1>1, <2>1 DEF Listed
<1>10. ASSUME NEW C \in SUBSET T, Closed(after, C), x \in C PROVE Within(o, r, C)
  <2>1. Within(o, q, C)
    BY <1>10 DEF Closed
  <2> SUFFICES ASSUME NEW n \in 1..Len(r), ~(n <= Len(o)) PROVE r[n] \in C
    BY DEF Within
  <2>2. CASE n \in 1..Len(q)
    BY <1>1, <2>1, <2>2 DEF Within
  <2>3. CASE n = Len(q) + 1
    BY <1>1, <1>10, <2>3
  <2> QED BY <1>3, <2>2, <2>3
<1> QED BY <1>1, <1>7, <1>8, <1>9, <1>10 DEF WellVisited

LEMMA VisitsWell ==
  ASSUME NEW T, NEW after, Graph(after, T)
  PROVE  \A x \in T, o \in Seq(T) : Ordered(after, o) => WellVisited(after, T, x, o, Visit(after)[x][o])
<1>1. PICK v : v = Visit(after)
  OBVIOUS
<1>2. Visits(after, T, T, v)
  BY <1>1, VisitVisits
<1> DEFINE Well(x) == \A o \in Seq(T) : Ordered(after, o) => WellVisited(after, T, x, o, v[x][o])
           Bad == {x \in T : ~Well(x)}
<1>3. Bad = {}
  <2> SUFFICES ASSUME Bad # {} PROVE FALSE
    OBVIOUS
  <2>1. PICK x \in Bad : \A n \in 1..Len(after[x]) : after[x][n] \notin Bad
    <3>1. Bad \in SUBSET T
      OBVIOUS
    <3> HIDE DEF Bad
    <3> QED BY <3>1 DEF Graph
  <2>2. x \in T /\ after[x] \in Seq(T)
    BY <2>1 DEF Graph
  <2>3. \A n \in 1..Len(after[x]) : after[x][n] \in T
    BY <2>2
  <2>4. AllWellVisited(after, T, after[x], v)
    <3>1. \A n \in 1..Len(after[x]) : Well(after[x][n])
      BY <2>1, <2>3
    <3> QED BY <3>1 DEF AllWellVisited
  <2>5. PICK o \in Seq(T) : Ordered(after, o) /\ ~WellVisited(after, T, x, o, v[x][o])
    BY <2>1
  <2>6. v[x][o] = VisitOf(after, v, x, o)
    BY <1>2, <2>2 DEF Visits
  <2>7. CASE Listed(x, o)
    <3>1. v[x][o] = o
      BY <2>2, <2>6, <2>7, InSequence DEF VisitOf
    <3>2. Len(o) \in Nat
      OBVIOUS
    <3>3. Extends(o, o) /\ \A C \in SUBSET T : Within(o, o, C)
      BY <3>2 DEF Extends, Within
    <3>4. WellVisited(after, T, x, o, o)
      BY <2>5, <2>7, <3>3 DEF WellVisited
    <3> QED BY <2>5, <3>1, <3>4
  <2>8. CASE ~Listed(x, o)
    <3>1. PICK q : q = VisitAll(v, after[x], o)
      OBVIOUS
    <3>2. v[x][o] = Append(q, x)
      BY <2>2, <2>6, <2>8, <3>1, InSequence DEF VisitOf
    <3>3. /\ q \in Seq(T) /\ Ordered(after, q) /\ Extends(o, q)
          /\ \A n \in 1..Len(after[x]) : Listed(after[x][n], q)
          /\ \A C \in SUBSET T : Closed(after, C) /\ (\A n \in 1..Len(after[x]) : after[x][n] \in C) => Within(o, q, C)
      BY <2>2, <2>4, <2>5, <3>1, AllWell
    <3>4. PICK r : r = v[x][o]
      OBVIOUS
    <3>5. WellVisited(after, T, x, o, r)
      BY <2>2, <2>8, <3>2, <3>3, <3>4, AppendedWell
    <3> QED BY <2>5, <3>4, <3>5
  <2> QED BY <2>7, <2>8
<1> QED BY <1>1, <1>3

(* The order of a plan: no task twice, each after what it depends on, the  *)
(* root at the end, and before it only what it depends on.                 *)
PlanOf(t, s) ==
  /\ s \in Seq(Task) /\ s # <<>> /\ s[Len(s)] = t
  /\ Ordered(DependsOn, s)
  /\ \A C \in SUBSET Task : Closed(DependsOn, C) /\ (\A k \in 1..Len(DependsOn[t]) : DependsOn[t][k] \in C) =>
       \A n \in 1..Len(s) : n < Len(s) => s[n] \in C

LEMMA TasksAreGraph == Graph(DependsOn, Task)
<1>1. IsFiniteSet(Task) /\ DependsOn \in [Task -> Seq(Task)]
  BY PlanAssumption
<1>2. ASSUME NEW U \in SUBSET Task, U # {}
      PROVE  \E x \in U : \A n \in 1..Len(DependsOn[x]) : DependsOn[x][n] \notin U
  <2>1. PICK x \in U : ToSet(DependsOn[x]) \cap U = {}
    BY <1>2, PlanAssumption
  <2>2. DependsOn[x] \in Seq(Task)
    BY <1>1
  <2>3. DOMAIN DependsOn[x] = 1..Len(DependsOn[x])
    BY <2>2
  <2> QED BY <2>1, <2>3 DEF ToSet
<1> QED BY <1>1, <1>2 DEF Graph

LEMMA OrderFacts ==
  ASSUME NEW t \in Task
  PROVE  PlanOf(t, ExecutionOrder(t))
<1>1. PICK v : v = Visit(DependsOn)
  OBVIOUS
<1>2. Graph(DependsOn, Task) /\ Visits(DependsOn, Task, Task, v)
  BY <1>1, TasksAreGraph, VisitVisits
<1>3. <<>> \in Seq(Task) /\ Ordered(DependsOn, <<>>) /\ ~Listed(t, <<>>)
  BY DEF Ordered, Listed
<1>4. PICK s : s = v[t][<<>>]
  OBVIOUS
<1>5. ExecutionOrder(t) = s
  <2>1. PICK names : names = <<t>>
    OBVIOUS
  <2>2. Len(names) = 1 /\ names[1] = t /\ Len(names) \in Nat
    BY <2>1
  <2>3. PICK none : none = <<>>
    OBVIOUS
  <2>4. PICK d : Outs(v, names, none, d)
    BY <2>2, VisitAllSteps
  <2>5. d[0] = none /\ d[1] = v[t][d[0]] /\ VisitAll(v, names, none) = d[1]
    BY <2>2, <2>4 DEF Outs
  <2> QED BY <1>1, <1>4, <2>1, <2>3, <2>5 DEF ExecutionOrder
<1>6. DependsOn[t] \in Seq(Task)
  BY <1>2 DEF Graph
<1>7. AllWellVisited(DependsOn, Task, DependsOn[t], v)
  <2>1. \A n \in 1..Len(DependsOn[t]) : DependsOn[t][n] \in Task
    BY <1>6
  <2> QED BY <1>1, <1>2, <2>1, VisitsWell DEF AllWellVisited
<1>8. PICK q : q = VisitAll(v, DependsOn[t], <<>>)
  OBVIOUS
<1>9. s = Append(q, t)
  <2>1. s = VisitOf(DependsOn, v, t, <<>>)
    BY <1>2, <1>3, <1>4 DEF Visits
  <2>2. t \notin ToSet(<<>>)
    BY <1>3, InSequence
  <2> QED BY <1>8, <2>1, <2>2 DEF VisitOf
<1>10. /\ q \in Seq(Task) /\ Ordered(DependsOn, q) /\ Extends(<<>>, q)
       /\ \A n \in 1..Len(DependsOn[t]) : Listed(DependsOn[t][n], q)
       /\ \A C \in SUBSET Task : Closed(DependsOn, C) /\ (\A n \in 1..Len(DependsOn[t]) : DependsOn[t][n] \in C) =>
            Within(<<>>, q, C)
  BY <1>3, <1>6, <1>7, <1>8, AllWell
<1>11. Ordered(DependsOn, s)
  <2>1. WellVisited(DependsOn, Task, t, <<>>, s)
    BY <1>2, <1>3, <1>9, <1>10, AppendedWell
  <2> QED BY <2>1 DEF WellVisited
<1>12. s \in Seq(Task) /\ s # <<>> /\ Len(s) = Len(q) + 1 /\ s[Len(s)] = t /\ \A n \in 1..Len(q) : s[n] = q[n]
  BY <1>9, <1>10
<1>13. ASSUME NEW C \in SUBSET Task, Closed(DependsOn, C), \A k \in 1..Len(DependsOn[t]) : DependsOn[t][k] \in C,
              NEW n \in 1..Len(s), n < Len(s)
       PROVE  s[n] \in C
  <2>1. Within(<<>>, q, C)
    BY <1>10, <1>13
  <2>2. n \in 1..Len(q) /\ s[n] = q[n]
    BY <1>10, <1>12, <1>13
  <2>3. Len(<<>>) = 0 /\ ~(n <= 0)
    OBVIOUS
  <2> QED BY <2>1, <2>2, <2>3 DEF Within
<1> QED BY <1>5, <1>11, <1>12, <1>13 DEF PlanOf

(* Who is in the front of a sequence.                                      *)
LEMMA InFront ==
  ASSUME NEW T, NEW o \in Seq(T), o # <<>>, NEW x \in ToSet(Front(o))
  PROVE  \E k \in 1..Len(o) : k < Len(o) /\ o[k] = x
<1>1. Len(o) \in Nat /\ Len(o) > 0
  OBVIOUS
<1>2. PICK f, l : f = Front(o) /\ l = Len(o) - 1
  OBVIOUS
<1>3. l \in Nat /\ l < Len(o) /\ \A k \in 1..l : k \in 1..Len(o) /\ k < Len(o)
  BY <1>1, <1>2
<1>4. SubSeq(o, 1, Len(o) - 1) = [k \in 1..Len(o) - 1 |-> o[k]]
  BY <1>1
<1>5. f = [k \in 1..l |-> o[k]]
  BY <1>2, <1>4 DEF Front
<1>6. DOMAIN f = 1..l /\ \A k \in 1..l : f[k] = o[k]
  BY <1>5
<1>7. PICK k \in DOMAIN f : f[k] = x
  BY <1>2 DEF ToSet
<1> QED BY <1>3, <1>6, <1>7

(* What a task depends on by some way comes before it in every plan that   *)
(* it is in.                                                               *)
LEMMA OrderedBefore ==
  ASSUME NEW s \in Seq(Task), Ordered(DependsOn, s), NEW n \in 1..Len(s), NEW d \in ToSet(Front(ExecutionOrder(s[n])))
  PROVE  \E m \in 1..Len(s) : m < n /\ s[m] = d
<1>1. s[n] \in Task /\ Len(s) \in Nat /\ n \in Nat
  OBVIOUS
<1>2. PICK o : o = ExecutionOrder(s[n])
  OBVIOUS
<1>3. PlanOf(s[n], o)
  BY <1>1, <1>2, OrderFacts
<1>4. o \in Seq(Task) /\ o # <<>>
  BY <1>3 DEF PlanOf
<1>5. PICK k \in 1..Len(o) : k < Len(o) /\ o[k] = d
  BY <1>2, <1>4, InFront
<1> DEFINE C == {t \in Task : \E m \in 1..Len(s) : m < n /\ s[m] = t}
<1>6. Closed(DependsOn, C)
  <2> SUFFICES ASSUME NEW t \in C, NEW j \in 1..Len(DependsOn[t]) PROVE DependsOn[t][j] \in C
    BY DEF Closed
  <2>1. PICK m \in 1..Len(s) : m < n /\ s[m] = t
    OBVIOUS
  <2>2. PICK l \in 1..Len(s) : l < m /\ s[l] = DependsOn[t][j]
    BY <2>1 DEF Ordered
  <2>3. s[l] \in Task /\ l < n
    BY <1>1, <2>1, <2>2
  <2> QED BY <2>2, <2>3
<1>7. \A j \in 1..Len(DependsOn[s[n]]) : DependsOn[s[n]][j] \in C
  <2> SUFFICES ASSUME NEW j \in 1..Len(DependsOn[s[n]]) PROVE DependsOn[s[n]][j] \in C
    OBVIOUS
  <2>1. PICK l \in 1..Len(s) : l < n /\ s[l] = DependsOn[s[n]][j]
    BY DEF Ordered
  <2> QED BY <2>1
<1>8. o[k] \in C
  <2>1. C \in SUBSET Task
    OBVIOUS
  <2> HIDE DEF C
  <2> QED BY <1>3, <1>5, <1>6, <1>7, <2>1 DEF PlanOf
<1> QED BY <1>5, <1>8

-----------------------------------------------------------------------------
(* What an action of TaskPlan makes of a plan and of the files. *)

Early == {"off", "steps", "asking", "provision", "services", "readiness", "leases", "blocked"}
Late == {"persist", "read", "truncate", "write", "after"}
PlanPlace == Early \cup {"plan", "command"} \cup Late \cup {"ended", "unacknowledged", "dead"}
Outcome == {"passed", "failed", "timed_out", "cancelled"}
Results == [by : Invocation, task : Task, outcome : Outcome, size : Nat \ {0}]
Entry(S) == [at : PlanPlace, steps : S, tasks : Seq(Task), due : Results \cup {Nothing}, gated : BOOLEAN]
Shaped(S) == plan \in [Invocation -> Entry(S)]

FilesTyped ==
  /\ file \in [Task -> Seq(Results)] /\ told \in [Task -> Seq(Results)]
  /\ copy \in [Invocation -> Seq(Results)]
  /\ amid \in SUBSET Results

(* A result that is due is the runner's own; what is left of a plan is its *)
(* end, and the next of it is what is due.                                 *)
DueOK ==
  \A i \in Invocation :
    /\ plan[i].at \in Late =>
         /\ plan[i].due \in Results /\ plan[i].due.by = i
         /\ plan[i].tasks # <<>> => plan[i].due.task = Head(plan[i].tasks)
    /\ plan[i].at \in {"plan", "command"} => plan[i].tasks # <<>>
    /\ plan[i].at \in {"plan", "command"} \cup Late /\ plan[i].tasks # <<>> =>
         plan[i].tasks[Len(plan[i].tasks)] = Root[i]

PlanTypeOK == (\E S : Shaped(S)) /\ FilesTyped /\ DueOK

(* The plan of i is now at a, with ts left of it and d due.                *)
Turn(i, a, ts, d) ==
  /\ plan'[i].at = a /\ plan'[i].tasks = ts /\ plan'[i].due = d
  /\ \A j \in Invocation \ {i} : plan'[j] = plan[j]

LEMMA Moved ==
  ASSUME NEW S, Shaped(S), NEW i \in Invocation, NEW a \in PlanPlace, Moves(i, a)
  PROVE  Shaped(S)' /\ Turn(i, a, plan[i].tasks, plan[i].due)
<1>1. Shaped(S)'
  BY DEF Shaped, Moves, Entry
<1>2. Turn(i, a, plan[i].tasks, plan[i].due)
  BY DEF Shaped, Moves, Entry, Turn
<1> QED BY <1>1, <1>2

(* Only the place and the steps of one invocation change.                  *)
LEMMA StepsChange ==
  ASSUME NEW S, Shaped(S), NEW i \in Invocation, NEW q,
         plan' = [plan EXCEPT ![i].at = "steps", ![i].steps = q]
  PROVE  (\E Z : Shaped(Z)') /\ Turn(i, "steps", plan[i].tasks, plan[i].due)
<1>1. PICK Z : Z = S \cup {q}
  OBVIOUS
<1>2. "steps" \in PlanPlace /\ q \in Z /\ S \subseteq Z
  BY <1>1 DEF PlanPlace, Early
<1>3. plan \in [Invocation -> Entry(Z)]
  BY <1>2 DEF Shaped, Entry
<1>4. PICK e : e = plan[i]
  OBVIOUS
<1>5. e \in Entry(Z) /\ plan' = [plan EXCEPT ![i] = [e EXCEPT !.at = "steps", !.steps = q]]
  BY <1>3, <1>4
<1>6. PICK r : r = [e EXCEPT !.at = "steps", !.steps = q]
  OBVIOUS
<1>7. r \in Entry(Z) /\ r.at = "steps" /\ r.tasks = e.tasks /\ r.due = e.due
  BY <1>2, <1>5, <1>6 DEF Entry
<1>8. plan' = [plan EXCEPT ![i] = r]
  BY <1>5, <1>6
<1>9. plan' \in [Invocation -> Entry(Z)]
  BY <1>3, <1>7, <1>8
<1>10. Shaped(Z)'
  BY <1>9 DEF Shaped, Entry
<1>11. Turn(i, "steps", plan[i].tasks, plan[i].due)
  BY <1>3, <1>4, <1>7, <1>8 DEF Turn
<1> QED BY <1>10, <1>11

LEMMA Stepped ==
  ASSUME NEW S, Shaped(S), NEW i \in Invocation, NextStep(i)
  PROVE  (\E Z : Shaped(Z)') /\ Turn(i, "steps", plan[i].tasks, plan[i].due)
<1>1. PICK q : q = Tail(plan[i].steps)
  OBVIOUS
<1>2. plan' = [plan EXCEPT ![i].at = "steps", ![i].steps = q]
  BY <1>1 DEF NextStep
<1> QED BY <1>2, StepsChange

LEMMA Prepared ==
  ASSUME NEW S, Shaped(S), NEW i \in Invocation, Prepare(i)
  PROVE  (\E Z : Shaped(Z)') /\ Turn(i, "steps", plan[i].tasks, plan[i].due)
<1>1. PICK q : q = StepsFor(Root[i])
  OBVIOUS
<1>2. plan' = [plan EXCEPT ![i].at = "steps", ![i].steps = q]
  BY <1>1 DEF Prepare
<1> QED BY <1>2, StepsChange

LEMMA Persisted ==
  ASSUME NEW S, Shaped(S), NEW i \in Invocation, NEW r \in Results, NEW rest \in Seq(Task), NEW g \in BOOLEAN,
         Persists(i, r, rest, g)
  PROVE  Shaped(S)' /\ Turn(i, "persist", rest, r)
<1>1. Shaped(S)'
  BY DEF Shaped, Persists, Entry, PlanPlace, Late
<1>2. Turn(i, "persist", rest, r)
  BY DEF Shaped, Persists, Entry, Turn
<1> QED BY <1>1, <1>2

LEMMA Placed ==
  ASSUME NEW S, Shaped(S), NEW i \in Invocation, NEW ts \in Seq(Task),
         plan' = [plan EXCEPT ![i].at = "plan", ![i].tasks = ts]
  PROVE  Shaped(S)' /\ Turn(i, "plan", ts, plan[i].due)
<1>1. Shaped(S)'
  BY DEF Shaped, Entry, PlanPlace
<1>2. Turn(i, "plan", ts, plan[i].due)
  BY DEF Shaped, Entry, Turn
<1> QED BY <1>1, <1>2

LEMMA ResultType ==
  ASSUME NEW i \in Invocation, NEW t \in Task, NEW o \in Outcome, NEW n \in Nat \ {0}
  PROVE  Result(i, t, o, n) \in Results /\ Result(i, t, o, n).by = i /\ Result(i, t, o, n).task = t
         /\ Result(i, t, o, n).outcome = o /\ Result(i, t, o, n).size = n
BY DEF Result, Results

LEMMA GaveUp ==
  ASSUME NEW S, Shaped(S), NEW i \in Invocation, NEW o \in Outcome, GivesUp(i, o)
  PROVE  Shaped(S)' /\ Turn(i, "persist", <<>>, Result(i, Root[i], o, 1))
<1>1. PICK r : r = Result(i, Root[i], o, 1)
  OBVIOUS
<1>2. PICK g \in BOOLEAN : g = FALSE
  OBVIOUS
<1>3. PICK rest : rest = <<>> /\ rest \in Seq(Task)
  <2>1. <<>> \in Seq(Task)
    OBVIOUS
  <2> QED BY <2>1
<1>4. Root[i] \in Task /\ 1 \in Nat \ {0}
  BY PlanAssumption
<1>5. r \in Results
  BY <1>1, <1>4, ResultType
<1>6. Persists(i, r, rest, g)
  BY <1>1, <1>2, <1>3 DEF GivesUp
<1>7. Shaped(S)' /\ Turn(i, "persist", rest, r)
  BY <1>3, <1>5, <1>6, Persisted
<1> QED BY <1>1, <1>3, <1>7

Quiet(i) == plan[i].at \in Early /\ \E a \in Early : Turn(i, a, plan[i].tasks, plan[i].due)
GivenUp(i) ==
  plan[i].at \in Early /\ \E o \in Outcome \ {"passed"} : Turn(i, "persist", <<>>, Result(i, Root[i], o, 1))
Planned(i) == plan[i].at \in Early /\ Turn(i, "plan", ExecutionOrder(Root[i]), plan[i].due)
Commanded(i) == plan[i].at = "plan" /\ Turn(i, "command", plan[i].tasks, plan[i].due)
MadeDue(i) ==
  /\ plan[i].at \in {"plan", "command"}
  /\ \E o \in Outcome, n \in Nat \ {0} : Turn(i, "persist", plan[i].tasks, Result(i, Head(plan[i].tasks), o, n))
Ended(i) ==
  /\ plan[i].at = "after" /\ (plan[i].tasks = <<>> \/ plan[i].due.task = Root[i])
  /\ Turn(i, "ended", plan[i].tasks, plan[i].due)
Unacknowledged(i) == plan[i].at = "after" /\ Turn(i, "unacknowledged", plan[i].tasks, plan[i].due)
Failing(i) ==
  /\ plan[i].at = "after" /\ plan[i].tasks # <<>> /\ plan[i].due.task # Root[i] /\ plan[i].due.outcome # "passed"
  /\ Turn(i, "persist", <<>>, Result(i, Root[i], plan[i].due.outcome, 1))
Continued(i) ==
  /\ plan[i].at = "after" /\ plan[i].tasks # <<>> /\ plan[i].due.task # Root[i] /\ plan[i].due.outcome = "passed"
  /\ Turn(i, "plan", Tail(plan[i].tasks), plan[i].due)

(* The moves of a plan that leave the files alone. *)
PlanMove(i) ==
  Quiet(i) \/ GivenUp(i) \/ Planned(i) \/ Commanded(i) \/ MadeDue(i)
  \/ Ended(i) \/ Unacknowledged(i) \/ Failing(i) \/ Continued(i)

LEMMA EarlyMoves ==
  ASSUME NEW S, Shaped(S), NEW i \in Invocation,
         \/ Prepare(i) \/ Converge(i) \/ Answered(i) \/ Provisioned(i) \/ StepsDone(i)
         \/ HoldServices(i) \/ ServicesDecided(i) \/ TakeLeases(i) \/ TryLeasesAgain(i)
  PROVE  (\E Z : Shaped(Z)') /\ (Quiet(i) \/ GivenUp(i) \/ Planned(i)) /\ UNCHANGED filevars
<1>1. UNCHANGED filevars /\ plan[i].at \in Early
  BY DEF Prepare, Converge, Answered, Provisioned, StepsDone, HoldServices, ServicesDecided, TakeLeases,
         TryLeasesAgain, At, Early
<1>2. ASSUME Prepare(i) PROVE (\E Z : Shaped(Z)') /\ Quiet(i)
  BY <1>1, <1>2, Prepared DEF Quiet, Early
<1>3. ASSUME NextStep(i) PROVE (\E Z : Shaped(Z)') /\ Quiet(i)
  BY <1>1, <1>3, Stepped DEF Quiet, Early
<1>4. ASSUME NEW o \in Outcome \ {"passed"}, GivesUp(i, o) PROVE (\E Z : Shaped(Z)') /\ GivenUp(i)
  <2>1. Shaped(S)' /\ Turn(i, "persist", <<>>, Result(i, Root[i], o, 1))
    BY <1>4, GaveUp
  <2> QED BY <1>1, <2>1 DEF GivenUp
<1>5. ASSUME NEW a \in Early, Moves(i, a) PROVE (\E Z : Shaped(Z)') /\ Quiet(i)
  <2>1. a \in PlanPlace
    BY DEF PlanPlace
  <2> QED BY <1>1, <1>5, <2>1, Moved DEF Quiet
<1>6. ASSUME plan' = [plan EXCEPT ![i].at = "plan", ![i].tasks = ExecutionOrder(Root[i])]
      PROVE  (\E Z : Shaped(Z)') /\ Planned(i)
  <2>1. PICK ts : ts = ExecutionOrder(Root[i])
    OBVIOUS
  <2>2. ts \in Seq(Task)
    BY <2>1, OrderFacts, PlanAssumption DEF PlanOf
  <2>3. Shaped(S)' /\ Turn(i, "plan", ts, plan[i].due)
    BY <1>6, <2>1, <2>2, Placed
  <2> QED BY <1>1, <2>1, <2>3 DEF Planned
<1>7. {"steps", "asking", "provision", "services", "readiness", "leases", "blocked"} \subseteq Early
      /\ {"failed", "cancelled"} \subseteq Outcome \ {"passed"}
  BY DEF Early, Outcome
<1>8. \/ Prepare(i) \/ NextStep(i) \/ (\E o \in {"failed", "cancelled"} : GivesUp(i, o))
      \/ (\E a \in {"steps", "asking", "provision", "services", "readiness", "leases", "blocked"} : Moves(i, a))
      \/ plan' = [plan EXCEPT ![i].at = "plan", ![i].tasks = ExecutionOrder(Root[i])]
  <2>1. CASE Converge(i)
    BY <2>1 DEF Converge
  <2>2. CASE Answered(i)
    BY <2>2 DEF Answered
  <2>3. CASE Provisioned(i)
    BY <2>3 DEF Provisioned
  <2>4. CASE StepsDone(i)
    BY <2>4 DEF StepsDone
  <2>5. CASE HoldServices(i)
    BY <2>5 DEF HoldServices
  <2>6. CASE ServicesDecided(i)
    BY <2>6 DEF ServicesDecided
  <2>7. CASE TakeLeases(i)
    BY <2>7 DEF TakeLeases
  <2>8. CASE TryLeasesAgain(i)
    BY <2>8 DEF TryLeasesAgain
  <2> QED BY <2>1, <2>2, <2>3, <2>4, <2>5, <2>6, <2>7, <2>8
<1> QED BY <1>1, <1>2, <1>3, <1>4, <1>5, <1>6, <1>7, <1>8

LEMMA TaskMoves ==
  ASSUME NEW S, Shaped(S), DueOK, NEW i \in Invocation,
         Aggregates(i) \/ StartTask(i) \/ CommandEnds(i) \/ HeedCancel(i)
  PROVE  (\E Z : Shaped(Z)') /\ (GivenUp(i) \/ Commanded(i) \/ MadeDue(i)) /\ UNCHANGED filevars
<1>1. UNCHANGED filevars
  BY DEF Aggregates, StartTask, CommandEnds, HeedCancel
<1>2. PICK ts : ts = plan[i].tasks
  OBVIOUS
<1>3. ts \in Seq(Task) /\ plan[i].at \in PlanPlace
  BY <1>2 DEF Shaped, Entry
<1>4. ASSUME plan[i].at \in {"plan", "command"}, NEW o \in Outcome, NEW n \in Nat \ {0}, NEW g \in BOOLEAN,
             Persists(i, Result(i, Head(plan[i].tasks), o, n), plan[i].tasks, g)
      PROVE  (\E Z : Shaped(Z)') /\ MadeDue(i)
  <2>1. ts # <<>>
    BY <1>2, <1>4 DEF DueOK
  <2>2. Head(ts) \in Task
    BY <1>3, <2>1
  <2>3. PICK r : r = Result(i, Head(ts), o, n)
    OBVIOUS
  <2>4. r \in Results
    BY <2>2, <2>3, ResultType
  <2>5. Shaped(S)' /\ Turn(i, "persist", ts, r)
    BY <1>2, <1>3, <1>4, <2>3, <2>4, Persisted
  <2> QED BY <1>2, <1>4, <2>3, <2>5 DEF MadeDue
<1>5. PICK yes \in BOOLEAN, no \in BOOLEAN : yes = TRUE /\ no = FALSE
  OBVIOUS
<1>6. {"passed", "failed", "timed_out", "cancelled"} \subseteq Outcome /\ Weight \subseteq Nat \ {0} /\ 1 \in Nat \ {0}
  BY PlanAssumption DEF Outcome
<1>7. CASE Aggregates(i)
  <2>1. plan[i].at = "plan" /\ ts = <<Root[i]>> /\ Persists(i, Result(i, Root[i], "passed", 1), <<Root[i]>>, FALSE)
    BY <1>2, <1>7 DEF Aggregates, At
  <2>2. Head(ts) = Root[i]
    BY <2>1
  <2>3. Persists(i, Result(i, Head(plan[i].tasks), "passed", 1), plan[i].tasks, no)
    BY <1>2, <1>5, <2>1, <2>2
  <2> QED BY <1>1, <1>4, <1>6, <2>1, <2>3
<1>8. CASE StartTask(i)
  <2>1. plan[i].at = "plan"
    BY <1>8 DEF StartTask, At
  <2>2. \/ Persists(i, Result(i, Head(plan[i].tasks), "failed", 1), plan[i].tasks, no)
        \/ Persists(i, Result(i, Head(plan[i].tasks), "passed", 1), plan[i].tasks, no)
        \/ Moves(i, "command")
    BY <1>5, <1>8 DEF StartTask
  <2>3. Moves(i, "command") => Shaped(S)' /\ Commanded(i)
    <3>1. "command" \in PlanPlace
      BY DEF PlanPlace
    <3> QED BY <2>1, <3>1, Moved DEF Commanded
  <2> QED BY <1>1, <1>4, <1>6, <2>1, <2>2, <2>3
<1>9. CASE CommandEnds(i)
  <2>1. plan[i].at = "command"
    BY <1>9 DEF CommandEnds, At
  <2>2. PICK o \in {"passed", "failed", "timed_out"}, n \in Weight :
          Persists(i, Result(i, Head(plan[i].tasks), o, n), plan[i].tasks, yes)
    BY <1>5, <1>9 DEF CommandEnds
  <2>3. o \in Outcome /\ n \in Nat \ {0}
    BY <1>6
  <2> QED BY <1>1, <1>4, <2>1, <2>2, <2>3
<1>10. CASE HeedCancel(i)
  <2>1. CASE plan[i].at = "command" /\ Persists(i, Result(i, Head(plan[i].tasks), "cancelled", 1), plan[i].tasks, yes)
    BY <1>1, <1>4, <1>6, <2>1
  <2>2. CASE plan[i].at \in {"readiness", "blocked"} /\ GivesUp(i, "cancelled")
    <3>1. "cancelled" \in Outcome \ {"passed"} /\ plan[i].at \in Early
      BY <2>2 DEF Outcome, Early
    <3>2. Shaped(S)' /\ Turn(i, "persist", <<>>, Result(i, Root[i], "cancelled", 1))
      BY <2>2, <3>1, GaveUp
    <3> QED BY <1>1, <3>1, <3>2 DEF GivenUp
  <2> QED BY <1>5, <1>10, <2>1, <2>2 DEF HeedCancel, At
<1> QED BY <1>7, <1>8, <1>9, <1>10

LEMMA AfterMoves ==
  ASSUME NEW S, Shaped(S), DueOK, NEW i \in Invocation, AfterResult(i)
  PROVE  (\E Z : Shaped(Z)') /\ (Ended(i) \/ Unacknowledged(i) \/ Failing(i) \/ Continued(i)) /\ UNCHANGED filevars
<1>1. UNCHANGED filevars /\ plan[i].at = "after"
  BY DEF AfterResult, At
<1>2. PICK ts : ts = plan[i].tasks
  OBVIOUS
<1>3. ts \in Seq(Task)
  BY <1>2 DEF Shaped, Entry
<1>4. plan[i].due \in Results
  BY <1>1 DEF DueOK, Late
<1>5. {"ended", "unacknowledged"} \subseteq PlanPlace
  BY DEF PlanPlace
<1>6. CASE Moves(i, "unacknowledged")
  BY <1>1, <1>5, <1>6, Moved DEF Unacknowledged
<1>7. CASE Continue(i)
  <2>1. CASE plan[i].tasks = <<>> \/ plan[i].due.task = Root[i]
    <3>1. Moves(i, "ended")
      BY <1>7, <2>1 DEF Continue
    <3> QED BY <1>1, <1>5, <2>1, <3>1, Moved DEF Ended
  <2>2. CASE plan[i].tasks # <<>> /\ plan[i].due.task # Root[i] /\ plan[i].due.outcome # "passed"
    <3>1. GivesUp(i, plan[i].due.outcome)
      BY <1>7, <2>2 DEF Continue, Failed
    <3>2. PICK o \in Outcome : o = plan[i].due.outcome
      BY <1>4 DEF Results
    <3>3. Shaped(S)' /\ Turn(i, "persist", <<>>, Result(i, Root[i], o, 1))
      BY <3>1, <3>2, GaveUp
    <3> QED BY <1>1, <2>2, <3>2, <3>3 DEF Failing
  <2>3. CASE plan[i].tasks # <<>> /\ plan[i].due.task # Root[i] /\ plan[i].due.outcome = "passed"
    <3>1. PICK rest : rest = Tail(ts) /\ rest \in Seq(Task)
      <4>1. ts # <<>>
        BY <1>2, <2>3
      <4>2. Tail(ts) \in Seq(Task)
        BY <1>3, <4>1
      <4> QED BY <4>2
    <3>2. plan' = [plan EXCEPT ![i].at = "plan", ![i].tasks = rest]
      BY <1>2, <1>7, <2>3, <3>1 DEF Continue, Failed
    <3>3. Shaped(S)' /\ Turn(i, "plan", rest, plan[i].due)
      BY <3>1, <3>2, Placed
    <3> QED BY <1>1, <1>2, <2>3, <3>1, <3>3 DEF Continued
  <2> QED BY <2>1, <2>2, <2>3
<1> QED BY <1>6, <1>7 DEF AfterResult

-----------------------------------------------------------------------------
(* Where lines end, and what is kept of them. *)

EndOf(lines, e, m) == IF m = 0 THEN 0 ELSE e[m - 1] + lines[m].size
Summed(lines, e, n) == e = [m \in 0..n |-> EndOf(lines, e, m)]

LEMMA SummedExists ==
  ASSUME NEW lines, NEW l \in Nat
  PROVE  \E e : Summed(lines, e, l)
<1> DEFINE Bad == {m \in Nat : ~ \E e : Summed(lines, e, m)}
<1> SUFFICES ASSUME Bad # {} PROVE FALSE
  OBVIOUS
<1>1. PICK m \in Bad : \A k \in Bad : m <= k
  <2>1. Bad \in SUBSET Nat
    OBVIOUS
  <2> HIDE DEF Bad
  <2> QED BY <2>1, LeastNat
<1>2. CASE m = 0
  <2> DEFINE e == [n \in 0..0 |-> 0]
  <2>1. Summed(lines, e, 0)
    BY DEF Summed, EndOf
  <2> QED BY <1>1, <1>2, <2>1
<1>3. CASE m # 0
  <2>1. m - 1 \in Nat /\ m \in Nat /\ ~(m <= m - 1)
    BY <1>1, <1>3
  <2>2. PICK e : Summed(lines, e, m - 1)
    BY <1>1, <2>1
  <2> DEFINE h == [n \in 0..m |-> EndOf(lines, e, n)]
  <2>3. \A n \in 0..m - 1 : n \in 0..m /\ h[n] = e[n]
    BY <2>1, <2>2 DEF Summed
  <2>4. ASSUME NEW n \in 0..m PROVE EndOf(lines, e, n) = EndOf(lines, h, n)
    <3>1. n = 0 \/ n - 1 \in 0..m - 1
      BY <2>1
    <3> HIDE DEF h
    <3> QED BY <2>3, <3>1 DEF EndOf
  <2>5. Summed(lines, h, m)
    BY <2>4 DEF Summed
  <2> HIDE DEF h
  <2> QED BY <1>1, <2>5
<1> QED BY <1>2, <1>3

LEMMA EndsSums ==
  ASSUME NEW lines, NEW n \in Nat
  PROVE  \E e : Summed(lines, e, n) /\ Ends(lines, n) = e[n]
<1>1. Ends(lines, n) = (CHOOSE e : Summed(lines, e, n))[n]
  BY DEF Ends, Summed, EndOf
<1>2. PICK e : e = CHOOSE f : Summed(lines, f, n)
  OBVIOUS
<1>3. Summed(lines, e, n)
  BY <1>2, SummedExists
<1> QED BY <1>1, <1>2, <1>3

LEMMA SummedAgree ==
  ASSUME NEW lines, NEW n \in Nat, NEW k \in Nat, k <= n, NEW e, NEW f, Summed(lines, e, n), Summed(lines, f, k),
         NEW m \in 0..k
  PROVE  e[m] = f[m]
<1> DEFINE Bad == {j \in 0..k : e[j] # f[j]}
<1> SUFFICES ASSUME Bad # {} PROVE FALSE
  OBVIOUS
<1>1. PICK j \in Bad : \A i \in Bad : j <= i
  <2>1. Bad \in SUBSET Nat
    OBVIOUS
  <2> HIDE DEF Bad
  <2> QED BY <2>1, LeastNat
<1>2. j \in 0..k /\ j \in 0..n /\ e[j] # f[j]
  BY <1>1
<1>3. e[j] = EndOf(lines, e, j) /\ f[j] = EndOf(lines, f, j)
  BY <1>2 DEF Summed
<1>4. j # 0
  BY <1>2, <1>3 DEF EndOf
<1>5. j - 1 \in 0..k /\ ~(j <= j - 1)
  BY <1>2, <1>4
<1>6. e[j - 1] = f[j - 1]
  BY <1>1, <1>5
<1> QED BY <1>2, <1>3, <1>4, <1>6 DEF EndOf

LEMMA EndsFacts ==
  ASSUME NEW lines \in Seq(Results)
  PROVE  /\ Ends(lines, 0) = 0
         /\ \A n \in 1..Len(lines) : Ends(lines, n) = Ends(lines, n - 1) + lines[n].size
         /\ \A n \in 0..Len(lines) : Ends(lines, n) \in Nat
<1>1. Ends(lines, 0) = 0
  <2>1. PICK e : Summed(lines, e, 0) /\ Ends(lines, 0) = e[0]
    BY EndsSums
  <2> QED BY <2>1 DEF Summed, EndOf
<1>2. ASSUME NEW n \in 1..Len(lines) PROVE Ends(lines, n) = Ends(lines, n - 1) + lines[n].size
  <2>1. n \in Nat /\ n - 1 \in Nat /\ n # 0 /\ n - 1 <= n /\ n - 1 \in 0..n - 1 /\ n \in 0..n
    OBVIOUS
  <2>2. PICK e : Summed(lines, e, n) /\ Ends(lines, n) = e[n]
    BY <2>1, EndsSums
  <2>3. PICK f : Summed(lines, f, n - 1) /\ Ends(lines, n - 1) = f[n - 1]
    BY <2>1, EndsSums
  <2>4. e[n] = e[n - 1] + lines[n].size
    BY <2>1, <2>2 DEF Summed, EndOf
  <2>5. e[n - 1] = f[n - 1]
    BY <2>1, <2>2, <2>3, SummedAgree
  <2> QED BY <2>2, <2>3, <2>4, <2>5
<1> DEFINE Bad == {n \in 0..Len(lines) : Ends(lines, n) \notin Nat}
<1>3. Bad = {}
  <2> SUFFICES ASSUME Bad # {} PROVE FALSE
    OBVIOUS
  <2>1. PICK n \in Bad : \A m \in Bad : n <= m
    <3>1. Bad \in SUBSET Nat
      OBVIOUS
    <3> HIDE DEF Bad
    <3> QED BY <3>1, LeastNat
  <2>2. n \in 0..Len(lines) /\ Ends(lines, n) \notin Nat
    BY <2>1
  <2>3. n # 0
    BY <1>1, <2>2
  <2>4. n \in 1..Len(lines) /\ n - 1 \in 0..Len(lines) /\ ~(n <= n - 1)
    BY <2>2, <2>3
  <2>5. Ends(lines, n - 1) \in Nat
    BY <2>1, <2>4
  <2>6. lines[n].size \in Nat
    <3>1. lines[n] \in Results
      BY <2>4
    <3> QED BY <3>1 DEF Results
  <2> QED BY <1>2, <2>2, <2>4, <2>5, <2>6
<1> QED BY <1>1, <1>2, <1>3

(* A sequence without its first n. *)
LEMMA WithoutFirst ==
  ASSUME NEW R, NEW s \in Seq(R), NEW n \in 0..Len(s), NEW q, q = SubSeq(s, n + 1, Len(s))
  PROVE  q \in Seq(R) /\ Len(q) = Len(s) - n /\ \A k \in 1..Len(q) : q[k] = s[k + n]
<1>1. Len(s) \in Nat /\ n \in Nat
  OBVIOUS
<1>2. PICK l \in Nat : l = Len(s) - n
  BY <1>1
<1>3. \A k \in 1..l : k + n \in 1..Len(s)
  BY <1>1, <1>2
<1>4. q = [k \in 1..l |-> s[k + n]]
  <2>1. SubSeq(s, n + 1, Len(s)) = [k \in 1..(1 + Len(s) - (n + 1)) |-> s[k + (n + 1) - 1]]
    BY <1>1
  <2>2. 1 + Len(s) - (n + 1) = l
    BY <1>1, <1>2
  <2>3. \A k \in 1..l : k + (n + 1) - 1 = k + n
    BY <1>1
  <2> QED BY <2>1, <2>2, <2>3
<1>5. \A k \in 1..l : s[k + n] \in R
  BY <1>3
<1> QED BY <1>2, <1>4, <1>5

LEMMA KeptFacts ==
  ASSUME NEW lines \in Seq(Results), lines # <<>>
  PROVE  \E n \in 1..Len(lines) :
           /\ Ends(lines, n) + Retention > Length(lines)
           /\ \A m \in 1..n - 1 : ~(Ends(lines, m) + Retention > Length(lines))
           /\ Kept(lines) = SubSeq(lines, n + 1, Len(lines))
<1> DEFINE Stays(n) == Ends(lines, n) + Retention > Length(lines)
           First(n) == Stays(n) /\ \A m \in 1..n - 1 : ~Stays(m)
<1>1. Len(lines) \in Nat /\ Len(lines) > 0 /\ Len(lines) \in 1..Len(lines) /\ DOMAIN lines = 1..Len(lines)
  OBVIOUS
<1>2. Stays(Len(lines))
  <2>1. Ends(lines, Len(lines)) \in Nat /\ Retention \in Nat \ {0}
    BY <1>1, EndsFacts, PlanAssumption
  <2> QED BY <2>1 DEF Length
<1>3. \E n \in DOMAIN lines : First(n)
  <2> DEFINE Those == {n \in 1..Len(lines) : Stays(n)}
  <2>1. Those \in SUBSET Nat /\ Those # {}
    BY <1>1, <1>2
  <2>2. PICK n \in Those : \A m \in Those : n <= m
    <3> HIDE DEF Those
    <3> QED BY <2>1, LeastNat
  <2>3. \A m \in 1..n - 1 : m \in 1..Len(lines) /\ ~(n <= m)
    BY <1>1, <2>2
  <2> HIDE DEF Stays
  <2> QED BY <1>1, <2>2, <2>3
<1>4. PICK n : n = CHOOSE k \in DOMAIN lines : First(k)
  OBVIOUS
<1>5. n \in DOMAIN lines /\ First(n)
  <2> HIDE DEF First
  <2> QED BY <1>3, <1>4
<1>6. Kept(lines) = SubSeq(lines, 1 + n, Len(lines))
  BY <1>4 DEF Kept
<1>7. 1 + n = n + 1
  BY <1>1, <1>5
<1> QED BY <1>1, <1>5, <1>6, <1>7

LEMMA KeptType ==
  ASSUME NEW lines \in Seq(Results)
  PROVE  Kept(lines) \in Seq(Results) /\ \E n \in 0..Len(lines) : Kept(lines) = SubSeq(lines, n + 1, Len(lines))
<1>1. Len(lines) \in Nat
  OBVIOUS
<1>2. CASE lines = <<>>
  <2>1. Kept(lines) = lines
    BY <1>2 DEF Kept
  <2>2. 0 \in 0..Len(lines) /\ SubSeq(lines, 0 + 1, Len(lines)) = lines
    BY <1>2
  <2> QED BY <2>1, <2>2
<1>3. CASE lines # <<>>
  <2>1. PICK n \in 1..Len(lines) : Kept(lines) = SubSeq(lines, n + 1, Len(lines))
    BY <1>3, KeptFacts
  <2>2. n \in 0..Len(lines)
    BY <1>1
  <2>3. PICK q : q = SubSeq(lines, n + 1, Len(lines))
    OBVIOUS
  <2>4. q \in Seq(Results)
    BY <2>2, <2>3, WithoutFirst
  <2> QED BY <2>1, <2>2, <2>3, <2>4
<1> QED BY <1>2, <1>3

(* What is written over a file ends with the end of that file. *)
LEMMA OverFacts ==
  ASSUME NEW lines \in Seq(Results), NEW present \in Seq(Results)
  PROVE  /\ Over(lines, present) \in Seq(Results)
         /\ \E c \in 0..Len(present) : Over(lines, present) = lines \o SubSeq(present, c + 1, Len(present))
<1> DEFINE Those == {n \in DOMAIN present : Ends(present, n - 1) < Length(lines)}
<1>1. Len(present) \in Nat /\ DOMAIN present = 1..Len(present)
  OBVIOUS
<1>2. PICK c : c = Cardinality(Those)
  OBVIOUS
<1>3. c \in 0..Len(present)
  <2>1. IsFiniteSet(1..Len(present)) /\ Cardinality(1..Len(present)) = Len(present)
    <3>1. PICK a, b : a = 1 /\ b = Len(present)
      OBVIOUS
    <3>2. IsFiniteSet(a .. b) /\ Cardinality(a .. b) = IF a > b THEN 0 ELSE b - a + 1
      <4>1. a \in Int /\ b \in Int
        BY <1>1, <3>1
      <4> QED BY <4>1, FS_Interval
    <3> QED BY <1>1, <3>1, <3>2
  <2>2. Those \subseteq 1..Len(present)
    BY <1>1
  <2>3. IsFiniteSet(Those) /\ Cardinality(Those) <= Cardinality(1..Len(present))
    <3> HIDE DEF Those
    <3> QED BY <2>1, <2>2, FS_Subset
  <2>4. Cardinality(Those) \in Nat
    <3> HIDE DEF Those
    <3> QED BY <2>3, FS_CardinalityType
  <2> HIDE DEF Those
  <2> QED BY <1>1, <1>2, <2>1, <2>3, <2>4
<1>4. Over(lines, present) = lines \o SubSeq(present, 1 + c, Len(present)) /\ 1 + c = c + 1
  BY <1>2, <1>3 DEF Over
<1>5. PICK q : q = SubSeq(present, c + 1, Len(present))
  OBVIOUS
<1>6. q \in Seq(Results)
  BY <1>3, <1>5, WithoutFirst
<1>7. lines \o q \in Seq(Results)
  BY <1>6
<1> QED BY <1>3, <1>4, <1>5, <1>7

-----------------------------------------------------------------------------
(* The moves of the files, and all moves. *)

Cuts == {"read", "truncate", "write"}
Going(i, a) == Turn(i, a, plan[i].tasks, plan[i].due)

Appended(i) ==
  LET r == plan[i].due  t == r.task IN
  /\ plan[i].at = "persist"
  /\ \/ Going(i, "read") /\ Length(Append(file[t], r)) > Retention
     \/ Going(i, "after")
  /\ file' = [file EXCEPT ![t] = Append(file[t], r)]
  /\ told' = [told EXCEPT ![t] = Append(told[t], r)]
  /\ amid' = IF Cutting(t) # {} THEN amid \cup {r} ELSE amid
  /\ copy' = copy
HasRead(i) ==
  /\ plan[i].at = "read" /\ Going(i, "truncate")
  /\ copy' = [copy EXCEPT ![i] = file[plan[i].due.task]]
  /\ UNCHANGED <<file, told, amid>>
Truncated(i) ==
  /\ plan[i].at = "truncate" /\ Going(i, "write")
  /\ file' = [file EXCEPT ![plan[i].due.task] = <<>>]
  /\ UNCHANGED <<copy, told, amid>>
Rewritten(i) ==
  LET t == plan[i].due.task IN
  /\ plan[i].at = "write" /\ Going(i, "after")
  /\ file' = [file EXCEPT ![t] = Over(Kept(copy[i]), file[t])]
  /\ amid' = IF Cutting(t) # {i} THEN amid \cup ToSet(copy[i]) ELSE amid
  /\ copy' = [copy EXCEPT ![i] = <<>>]
  /\ UNCHANGED told
Killed(i) ==
  /\ ~IsOver(i) /\ Going(i, "dead")
  /\ amid' = IF plan[i].at \in Cuts THEN amid \cup ToSet(told[plan[i].due.task]) ELSE amid
  /\ UNCHANGED <<file, copy, told>>

FileMove(i) == Appended(i) \/ HasRead(i) \/ Truncated(i) \/ Rewritten(i) \/ Killed(i)
Moving(i) == (PlanMove(i) /\ UNCHANGED filevars) \/ FileMove(i)

LEMMA FileMoves ==
  ASSUME NEW S, Shaped(S), DueOK, NEW i \in Invocation,
         AppendResult(i) \/ ReadFile(i) \/ Truncate(i) \/ Rewrite(i)
  PROVE  (\E Z : Shaped(Z)') /\ FileMove(i)
<1>0. {"read", "truncate", "write", "after"} \subseteq PlanPlace
  BY DEF PlanPlace, Late
<1>1. ASSUME NEW a \in {"read", "truncate", "write", "after"}, Moves(i, a) PROVE Shaped(S)' /\ Going(i, a)
  BY <1>0, <1>1, Moved DEF Going
<1>2. CASE AppendResult(i)
  <2>1. PICK a \in {"read", "after"} :
          Moves(i, a) /\ (a = "read" => Length(Append(file[plan[i].due.task], plan[i].due)) > Retention)
    <3>1. CASE Length(Append(file[plan[i].due.task], plan[i].due)) > Retention
      BY <1>2, <3>1 DEF AppendResult
    <3>2. CASE ~(Length(Append(file[plan[i].due.task], plan[i].due)) > Retention)
      BY <1>2, <3>2 DEF AppendResult
    <3> QED BY <3>1, <3>2
  <2>2. Shaped(S)' /\ Going(i, a)
    BY <1>1, <2>1
  <2>3. Appended(i)
    BY <1>2, <2>1, <2>2 DEF AppendResult, Appended, At
  <2> QED BY <2>2, <2>3 DEF FileMove
<1>3. CASE ReadFile(i)
  <2>1. Shaped(S)' /\ Going(i, "truncate")
    BY <1>1, <1>3 DEF ReadFile
  <2> QED BY <1>3, <2>1 DEF ReadFile, HasRead, At, FileMove
<1>4. CASE Truncate(i)
  <2>1. Shaped(S)' /\ Going(i, "write")
    BY <1>1, <1>4 DEF Truncate
  <2> QED BY <1>4, <2>1 DEF Truncate, Truncated, At, FileMove
<1>5. CASE Rewrite(i)
  <2>1. Shaped(S)' /\ Going(i, "after")
    BY <1>1, <1>5 DEF Rewrite
  <2> QED BY <1>5, <2>1 DEF Rewrite, Rewritten, At, FileMove
<1> QED BY <1>2, <1>3, <1>4, <1>5

LEMMA Interrupted ==
  ASSUME NEW S, Shaped(S), DueOK, NEW i \in Invocation, Interrupt(i)
  PROVE  (\E Z : Shaped(Z)') /\ (Killed(i) \/ UNCHANGED <<plan, filevars>>)
<1>1. CASE i \in catching
  BY <1>1 DEF Interrupt, Shaped, filevars
<1>2. CASE i \notin catching
  <2>1. Moves(i, "dead") /\ UNCHANGED <<file, copy, told>> /\ ~IsOver(i)
        /\ amid' = IF \E t \in Task : i \in Cutting(t) THEN amid \cup ToSet(told[plan[i].due.task]) ELSE amid
    BY <1>2 DEF Interrupt
  <2>2. (\E t \in Task : i \in Cutting(t)) <=> plan[i].at \in Cuts
    <3>1. plan[i].at \in Cuts => plan[i].due.task \in Task
      BY DEF DueOK, Cuts, Late, Results
    <3> QED BY <3>1 DEF Cutting, Cuts
  <2>3. "dead" \in PlanPlace
    BY DEF PlanPlace
  <2>4. Shaped(S)' /\ Going(i, "dead")
    BY <2>1, <2>3, Moved DEF Going
  <2> QED BY <2>1, <2>2, <2>4 DEF Killed
<1> QED BY <1>1, <1>2

(* Every step is the move of one plan, or leaves plans and files alone. *)
LEMMA StepMoves ==
  ASSUME PlanTypeOK, [PlanNext]_planvars
  PROVE  (\E Z : Shaped(Z)') /\ (UNCHANGED <<plan, filevars>> \/ \E i \in Invocation : Moving(i))
<1>1. PICK S : Shaped(S)
  BY DEF PlanTypeOK
<1>2. ASSUME UNCHANGED <<plan, filevars>> PROVE Shaped(S)'
  BY <1>1, <1>2 DEF Shaped
<1>3. CASE UNCHANGED planvars \/ StepChanges \/ \E i \in Invocation : CancelToken(i)
  <2>1. UNCHANGED <<plan, filevars>>
    BY <1>3 DEF planvars, StepChanges, CancelToken, filevars
  <2> QED BY <1>2, <2>1
<1>4. ASSUME NEW i \in Invocation,
             Prepare(i) \/ Answered(i) \/ CommandEnds(i) \/ PlanStep(i) \/ Interrupt(i)
      PROVE  (\E Z : Shaped(Z)') /\ (UNCHANGED <<plan, filevars>> \/ Moving(i))
  <2>1. DueOK
    BY DEF PlanTypeOK
  <2>2. CASE \/ Prepare(i) \/ Converge(i) \/ Answered(i) \/ Provisioned(i) \/ StepsDone(i)
             \/ HoldServices(i) \/ ServicesDecided(i) \/ TakeLeases(i) \/ TryLeasesAgain(i)
    <3>1. (\E Z : Shaped(Z)') /\ (Quiet(i) \/ GivenUp(i) \/ Planned(i)) /\ UNCHANGED filevars
      BY <1>1, <2>2, EarlyMoves
    <3> QED BY <3>1 DEF Moving, PlanMove
  <2>3. CASE Aggregates(i) \/ StartTask(i) \/ CommandEnds(i) \/ HeedCancel(i)
    <3>1. (\E Z : Shaped(Z)') /\ (GivenUp(i) \/ Commanded(i) \/ MadeDue(i)) /\ UNCHANGED filevars
      BY <1>1, <2>1, <2>3, TaskMoves
    <3> QED BY <3>1 DEF Moving, PlanMove
  <2>4. CASE AfterResult(i)
    <3>1. (\E Z : Shaped(Z)') /\ (Ended(i) \/ Unacknowledged(i) \/ Failing(i) \/ Continued(i)) /\ UNCHANGED filevars
      BY <1>1, <2>1, <2>4, AfterMoves
    <3> QED BY <3>1 DEF Moving, PlanMove
  <2>5. CASE AppendResult(i) \/ ReadFile(i) \/ Truncate(i) \/ Rewrite(i)
    <3>1. (\E Z : Shaped(Z)') /\ FileMove(i)
      BY <1>1, <2>1, <2>5, FileMoves
    <3> QED BY <3>1 DEF Moving
  <2>6. CASE Interrupt(i)
    <3>1. (\E Z : Shaped(Z)') /\ (Killed(i) \/ UNCHANGED <<plan, filevars>>)
      BY <1>1, <2>1, <2>6, Interrupted
    <3> QED BY <3>1 DEF Moving, FileMove
  <2> QED BY <1>4, <2>2, <2>3, <2>4, <2>5, <2>6 DEF PlanStep
<1>5. \/ UNCHANGED planvars \/ StepChanges \/ (\E i \in Invocation : CancelToken(i))
      \/ \E i \in Invocation : Prepare(i) \/ Answered(i) \/ CommandEnds(i) \/ PlanStep(i) \/ Interrupt(i)
  BY DEF PlanNext
<1> QED BY <1>3, <1>4, <1>5

DueOf(i) ==
  /\ plan[i].at \in Late =>
       /\ plan[i].due \in Results /\ plan[i].due.by = i
       /\ plan[i].tasks # <<>> => plan[i].due.task = Head(plan[i].tasks)
  /\ plan[i].at \in {"plan", "command"} => plan[i].tasks # <<>>
  /\ plan[i].at \in {"plan", "command"} \cup Late /\ plan[i].tasks # <<>> =>
       plan[i].tasks[Len(plan[i].tasks)] = Root[i]

LEMMA PlanFields ==
  ASSUME PlanTypeOK, NEW i \in Invocation
  PROVE  /\ plan[i].at \in PlanPlace /\ plan[i].tasks \in Seq(Task) /\ Root[i] \in Task
         /\ plan[i].due \in Results \cup {Nothing} /\ DueOf(i)
<1>1. PICK S : Shaped(S)
  BY DEF PlanTypeOK
<1>2. plan[i].at \in PlanPlace /\ plan[i].tasks \in Seq(Task) /\ plan[i].due \in Results \cup {Nothing}
  BY <1>1 DEF Shaped, Entry
<1>3. Root[i] \in Task
  BY PlanAssumption
<1>4. DueOf(i)
  BY DEF PlanTypeOK, DueOK, DueOf
<1> QED BY <1>2, <1>3, <1>4

LEMMA LateResult ==
  ASSUME PlanTypeOK, NEW i \in Invocation, plan[i].at \in Late
  PROVE  /\ plan[i].due \in Results /\ plan[i].due.by = i /\ plan[i].due.task \in Task
         /\ plan[i].due.outcome \in Outcome /\ plan[i].due.size \in Nat \ {0}
<1>1. plan[i].due \in Results /\ plan[i].due.by = i
  BY PlanFields DEF DueOf
<1> QED BY <1>1 DEF Results

(* Where the moves lead. *)
LEMMA DueStays ==
  ASSUME PlanTypeOK, NEW i \in Invocation, Moving(i)
  PROVE  DueOf(i)'
<1>0. "persist" \in Late /\ "persist" \notin {"plan", "command"}
      /\ Early \cap ({"plan", "command"} \cup Late) = {}
      /\ {"ended", "unacknowledged", "dead"} \cap ({"plan", "command"} \cup Late) = {}
      /\ {"plan", "command"} \cap Late = {} /\ {"read", "truncate", "write", "after"} \subseteq Late
  BY DEF Early, Late
<1>1. DueOf(i) /\ plan[i].tasks \in Seq(Task) /\ Root[i] \in Task
  BY PlanFields
<1>2. CASE Quiet(i)
  BY <1>0, <1>2 DEF Quiet, Turn, DueOf
<1>3. ASSUME NEW o \in Outcome, Turn(i, "persist", <<>>, Result(i, Root[i], o, 1)) PROVE DueOf(i)'
  <2>1. PICK r : r = Result(i, Root[i], o, 1)
    OBVIOUS
  <2>2. r \in Results /\ r.by = i
    BY <1>1, <2>1, ResultType
  <2>3. plan'[i].at = "persist" /\ plan'[i].due = r /\ plan'[i].tasks = <<>>
    BY <1>3, <2>1 DEF Turn
  <2> QED BY <1>0, <2>2, <2>3 DEF DueOf
<1>4. CASE GivenUp(i)
  BY <1>3, <1>4 DEF GivenUp
<1>5. CASE Failing(i)
  <2>1. plan[i].due.outcome \in Outcome
    BY <1>0, <1>5, LateResult DEF Failing
  <2> QED BY <1>3, <1>5, <2>1 DEF Failing
<1>6. CASE Planned(i)
  <2>1. PICK s : s = ExecutionOrder(Root[i])
    OBVIOUS
  <2>2. s # <<>> /\ s[Len(s)] = Root[i]
    BY <1>1, <2>1, OrderFacts DEF PlanOf
  <2>3. plan'[i].at = "plan" /\ plan'[i].tasks = s
    BY <1>6, <2>1 DEF Planned, Turn
  <2> QED BY <1>0, <2>2, <2>3 DEF DueOf
<1>7. CASE Commanded(i)
  BY <1>0, <1>1, <1>7 DEF Commanded, Turn, DueOf
<1>8. CASE MadeDue(i)
  <2>1. PICK ts : ts = plan[i].tasks
    OBVIOUS
  <2>2. ts # <<>> /\ ts[Len(ts)] = Root[i] /\ ts \in Seq(Task)
    BY <1>1, <1>8, <2>1 DEF MadeDue, DueOf
  <2>3. Head(ts) \in Task
    BY <2>2
  <2>4. PICK o \in Outcome, n \in Nat \ {0} : Turn(i, "persist", ts, Result(i, Head(ts), o, n))
    BY <1>8, <2>1 DEF MadeDue
  <2>5. PICK r : r = Result(i, Head(ts), o, n)
    OBVIOUS
  <2>6. r \in Results /\ r.by = i /\ r.task = Head(ts)
    BY <2>3, <2>5, ResultType
  <2>7. plan'[i].at = "persist" /\ plan'[i].due = r /\ plan'[i].tasks = ts
    BY <2>4, <2>5 DEF Turn
  <2> QED BY <1>0, <2>2, <2>6, <2>7 DEF DueOf
<1>9. CASE Ended(i) \/ Unacknowledged(i) \/ Killed(i)
  <2>1. plan'[i].at \in {"ended", "unacknowledged", "dead"}
    BY <1>9 DEF Ended, Unacknowledged, Killed, Going, Turn
  <2> QED BY <1>0, <2>1 DEF DueOf
<1>10. CASE Continued(i)
  <2>1. PICK ts : ts = plan[i].tasks
    OBVIOUS
  <2>2. /\ ts # <<>> /\ ts[Len(ts)] = Root[i] /\ ts \in Seq(Task) /\ Head(ts) # Root[i]
    BY <1>0, <1>1, <1>10, <2>1 DEF Continued, DueOf
  <2>3. Len(ts) \in Nat /\ Len(ts) > 0 /\ Head(ts) = ts[1]
    BY <2>2
  <2>4. Len(ts) > 1
    BY <2>2, <2>3
  <2>5. PICK q : q = Tail(ts)
    OBVIOUS
  <2>6. Len(q) = Len(ts) - 1 /\ q[Len(ts) - 1] = ts[Len(ts)]
    BY <2>2, <2>4, <2>5
  <2>7. q # <<>> /\ q[Len(q)] = Root[i]
    BY <2>2, <2>4, <2>6
  <2>8. plan'[i].at = "plan" /\ plan'[i].tasks = q
    BY <1>10, <2>1, <2>5 DEF Continued, Turn
  <2> QED BY <1>0, <2>7, <2>8 DEF DueOf
<1>11. CASE Appended(i) \/ HasRead(i) \/ Truncated(i) \/ Rewritten(i)
  <2>1. plan[i].at \in Late /\ plan'[i].at \in Late /\ plan'[i].tasks = plan[i].tasks /\ plan'[i].due = plan[i].due
    BY <1>0, <1>11 DEF Appended, HasRead, Truncated, Rewritten, Going, Turn, Late
  <2> QED BY <1>0, <1>1, <2>1 DEF DueOf
<1> QED BY <1>2, <1>4, <1>5, <1>6, <1>7, <1>8, <1>9, <1>10, <1>11 DEF Moving, PlanMove, FileMove

LEMMA OtherPlansStay ==
  ASSUME NEW i \in Invocation, Moving(i), NEW j \in Invocation \ {i}
  PROVE  plan'[j] = plan[j]
<1>1. CASE Quiet(i) \/ GivenUp(i) \/ Planned(i) \/ Commanded(i) \/ MadeDue(i)
  BY <1>1 DEF Quiet, GivenUp, Planned, Commanded, MadeDue, Turn
<1>2. CASE Ended(i) \/ Unacknowledged(i) \/ Failing(i) \/ Continued(i)
  BY <1>2 DEF Ended, Unacknowledged, Failing, Continued, Turn
<1>3. CASE FileMove(i)
  BY <1>3 DEF FileMove, Appended, HasRead, Truncated, Rewritten, Killed, Going, Turn
<1> QED BY <1>1, <1>2, <1>3 DEF Moving, PlanMove

LEMMA FilesStayTyped ==
  ASSUME PlanTypeOK, NEW i \in Invocation, Moving(i)
  PROVE  FilesTyped'
<1>1. FilesTyped
  BY DEF PlanTypeOK
<1>2. CASE UNCHANGED filevars
  BY <1>1, <1>2 DEF FilesTyped, filevars
<1>3. ASSUME plan[i].at \in Late PROVE plan[i].due \in Results /\ plan[i].due.task \in Task
  BY <1>3, LateResult
<1>4. CASE Appended(i)
  <2>1. plan[i].at \in Late
    BY <1>4 DEF Appended, Late
  <2>2. PICK r, t : r = plan[i].due /\ t = r.task
    OBVIOUS
  <2>3. r \in Results /\ t \in Task
    BY <1>3, <2>1, <2>2
  <2>4. /\ file' = [file EXCEPT ![t] = Append(file[t], r)] /\ told' = [told EXCEPT ![t] = Append(told[t], r)]
        /\ copy' = copy /\ (amid' = amid \/ amid' = amid \cup {r})
    BY <1>4, <2>2 DEF Appended
  <2>5. Append(file[t], r) \in Seq(Results) /\ Append(told[t], r) \in Seq(Results)
    BY <1>1, <2>3 DEF FilesTyped
  <2> QED BY <1>1, <2>3, <2>4, <2>5 DEF FilesTyped
<1>5. CASE HasRead(i)
  <2>1. plan[i].at \in Late
    BY <1>5 DEF HasRead, Late
  <2>2. file[plan[i].due.task] \in Seq(Results)
    BY <1>1, <1>3, <2>1 DEF FilesTyped
  <2> QED BY <1>1, <1>5, <2>2 DEF FilesTyped, HasRead
<1>6. CASE Truncated(i)
  <2>1. <<>> \in Seq(Results)
    OBVIOUS
  <2> QED BY <1>1, <1>6, <2>1 DEF FilesTyped, Truncated
<1>7. CASE Rewritten(i)
  <2>1. plan[i].at \in Late
    BY <1>7 DEF Rewritten, Late
  <2>2. PICK t : t = plan[i].due.task
    OBVIOUS
  <2>3. t \in Task /\ file[t] \in Seq(Results) /\ copy[i] \in Seq(Results)
    BY <1>1, <1>3, <2>1, <2>2 DEF FilesTyped
  <2>4. Kept(copy[i]) \in Seq(Results)
    BY <2>3, KeptType
  <2>5. Over(Kept(copy[i]), file[t]) \in Seq(Results)
    BY <2>3, <2>4, OverFacts
  <2>6. ToSet(copy[i]) \subseteq Results
    BY <2>3 DEF ToSet
  <2>7. <<>> \in Seq(Results)
    OBVIOUS
  <2>8. /\ file' = [file EXCEPT ![t] = Over(Kept(copy[i]), file[t])] /\ copy' = [copy EXCEPT ![i] = <<>>]
        /\ told' = told /\ (amid' = amid \/ amid' = amid \cup ToSet(copy[i]))
    BY <1>7, <2>2 DEF Rewritten
  <2> QED BY <1>1, <2>3, <2>5, <2>6, <2>7, <2>8 DEF FilesTyped
<1>8. CASE Killed(i)
  <2>1. file' = file /\ copy' = copy /\ told' = told
    BY <1>8 DEF Killed
  <2>2. plan[i].at \in Cuts => ToSet(told[plan[i].due.task]) \subseteq Results
    <3> SUFFICES ASSUME plan[i].at \in Cuts PROVE ToSet(told[plan[i].due.task]) \subseteq Results
      OBVIOUS
    <3>1. told[plan[i].due.task] \in Seq(Results)
      BY <1>1, <1>3 DEF FilesTyped, Cuts, Late
    <3> QED BY <3>1 DEF ToSet
  <2>3. amid' \in SUBSET Results
    BY <1>1, <1>8, <2>2 DEF Killed, FilesTyped
  <2> QED BY <1>1, <2>1, <2>3 DEF FilesTyped
<1> QED BY <1>2, <1>4, <1>5, <1>6, <1>7, <1>8 DEF Moving, FileMove

LEMMA PlanTypeKept ==
  ASSUME PlanTypeOK, [PlanNext]_planvars
  PROVE  PlanTypeOK'
<1>1. (\E Z : Shaped(Z)') /\ (UNCHANGED <<plan, filevars>> \/ \E i \in Invocation : Moving(i))
  BY StepMoves
<1>2. CASE UNCHANGED <<plan, filevars>>
  <2>1. FilesTyped' /\ DueOK'
    BY <1>2 DEF PlanTypeOK, FilesTyped, DueOK, filevars
  <2> QED BY <1>1, <2>1 DEF PlanTypeOK
<1>3. ASSUME NEW i \in Invocation, Moving(i) PROVE PlanTypeOK'
  <2>1. FilesTyped'
    BY <1>3, FilesStayTyped
  <2>2. ASSUME NEW j \in Invocation PROVE DueOf(j)'
    <3>1. CASE j = i
      BY <1>3, <3>1, DueStays
    <3>2. CASE j # i
      <4>1. plan'[j] = plan[j]
        <5>1. j \in Invocation \ {i}
          BY <3>2
        <5> QED BY <1>3, <5>1, OtherPlansStay
      <4>2. DueOf(j)
        BY PlanFields
      <4> QED BY <4>1, <4>2 DEF DueOf
    <3> QED BY <3>1, <3>2
  <2>3. DueOK'
    BY <2>2 DEF DueOK, DueOf
  <2> QED BY <1>1, <2>1, <2>3 DEF PlanTypeOK
<1> QED BY <1>1, <1>2, <1>3

LEMMA PlanTypeInit == PlanInit => PlanTypeOK
<1> SUFFICES ASSUME PlanInit PROVE PlanTypeOK
  OBVIOUS
<1>1. PICK no \in BOOLEAN : no = FALSE
  OBVIOUS
<1>2. PICK e : e = <<>>
  OBVIOUS
<1>3. e \in Seq(Task) /\ e \in Seq(Results)
  BY <1>2
<1>4. PICK S : S = {e}
  OBVIOUS
<1>5. plan = [i \in Invocation |-> [at |-> "off", steps |-> e, tasks |-> e, due |-> e, gated |-> no]]
  BY <1>1, <1>2 DEF PlanInit, Nothing
<1>6. "off" \in PlanPlace
  BY DEF PlanPlace, Early
<1>7. Shaped(S)
  BY <1>2, <1>3, <1>4, <1>5, <1>6 DEF Shaped, Entry, Nothing
<1>8. FilesTyped
  BY <1>2, <1>3 DEF PlanInit, FilesTyped
<1>9. DueOK
  BY <1>5 DEF DueOK, Late
<1> QED BY <1>7, <1>8, <1>9 DEF PlanTypeOK

(* Plans, results and files are what they seem, and what is left of a plan *)
(* ends with its root (execute_inner).                                     *)
THEOREM PlansAreTyped == PlanSpec => []PlanTypeOK
BY PlanTypeInit, PlanTypeKept, PTL DEF PlanSpec

-----------------------------------------------------------------------------
(* What a file holds of what was told. *)

(* s has nothing that ts has not, and what is in neither as amid in the    *)
(* order of ts.                                                            *)
Faithful(s, ts, am) ==
  /\ \A m \in 1..Len(s) : \E k \in 1..Len(ts) : ts[k] = s[m]
  /\ \A m, n \in 1..Len(s) :
       m < n /\ s[m] \notin am /\ s[n] \notin am =>
         \E j, k \in 1..Len(ts) : j < k /\ ts[j] = s[m] /\ ts[k] = s[n]

LEMMA FaithfulGrows ==
  ASSUME NEW s, NEW ts \in Seq(Results), NEW us \in Seq(Results), NEW am, NEW bm, am \subseteq bm,
         Extends(ts, us), Faithful(s, ts, am)
  PROVE  Faithful(s, us, bm)
<1>1. \A k \in 1..Len(ts) : k \in 1..Len(us) /\ us[k] = ts[k]
  <2>1. Len(ts) \in Nat /\ Len(us) \in Nat /\ Len(ts) <= Len(us)
    BY DEF Extends
  <2> QED BY <2>1 DEF Extends
<1>2. ASSUME NEW m \in 1..Len(s) PROVE \E k \in 1..Len(us) : us[k] = s[m]
  <2>1. PICK k \in 1..Len(ts) : ts[k] = s[m]
    BY DEF Faithful
  <2> QED BY <1>1, <2>1
<1>3. ASSUME NEW m \in 1..Len(s), NEW n \in 1..Len(s), m < n, s[m] \notin bm, s[n] \notin bm
      PROVE  \E j, k \in 1..Len(us) : j < k /\ us[j] = s[m] /\ us[k] = s[n]
  <2>1. PICK j \in 1..Len(ts), k \in 1..Len(ts) : j < k /\ ts[j] = s[m] /\ ts[k] = s[n]
    BY <1>3 DEF Faithful
  <2> QED BY <1>1, <2>1
<1> QED BY <1>2, <1>3 DEF Faithful

LEMMA FaithfulAppend ==
  ASSUME NEW s \in Seq(Results), NEW ts \in Seq(Results), NEW r \in Results, NEW am, NEW bm, am \subseteq bm,
         Faithful(s, ts, am)
  PROVE  Faithful(Append(s, r), Append(ts, r), bm) /\ Extends(ts, Append(ts, r))
<1>1. PICK q, us : q = Append(s, r) /\ us = Append(ts, r)
  OBVIOUS
<1>2. Len(s) \in Nat /\ Len(ts) \in Nat
  OBVIOUS
<1>3. Len(q) = Len(s) + 1 /\ q[Len(s) + 1] = r /\ \A m \in 1..Len(s) : q[m] = s[m]
  BY <1>1
<1>4. us \in Seq(Results) /\ Len(us) = Len(ts) + 1 /\ us[Len(ts) + 1] = r /\ \A m \in 1..Len(ts) : us[m] = ts[m]
  BY <1>1
<1>5. Extends(ts, us)
  BY <1>2, <1>4 DEF Extends
<1>6. Faithful(s, us, bm)
  BY <1>4, <1>5, FaithfulGrows
<1>7. \A m \in 1..Len(q) : m \in 1..Len(s) \/ m = Len(s) + 1
  BY <1>2, <1>3
<1>8. Len(ts) + 1 \in 1..Len(us)
  BY <1>2, <1>4
<1>9. ASSUME NEW m \in 1..Len(q) PROVE \E k \in 1..Len(us) : us[k] = q[m]
  <2>1. CASE m \in 1..Len(s)
    BY <1>3, <1>6, <2>1 DEF Faithful
  <2>2. CASE m = Len(s) + 1
    BY <1>3, <1>4, <1>8, <2>2
  <2> QED BY <1>7, <2>1, <2>2
<1>10. ASSUME NEW m \in 1..Len(q), NEW n \in 1..Len(q), m < n, q[m] \notin bm, q[n] \notin bm
       PROVE  \E j, k \in 1..Len(us) : j < k /\ us[j] = q[m] /\ us[k] = q[n]
  <2>1. m \in 1..Len(s)
    BY <1>2, <1>3, <1>7, <1>10
  <2>2. CASE n \in 1..Len(s)
    <3>1. q[m] = s[m] /\ q[n] = s[n]
      BY <1>3, <2>1, <2>2
    <3> QED BY <1>6, <1>10, <2>1, <2>2, <3>1 DEF Faithful
  <2>3. CASE n = Len(s) + 1
    <3>1. PICK j \in 1..Len(ts) : ts[j] = s[m]
      BY <2>1 DEF Faithful
    <3>2. j \in 1..Len(us) /\ j < Len(ts) + 1 /\ us[j] = q[m] /\ us[Len(ts) + 1] = q[n]
      BY <1>2, <1>3, <1>4, <2>1, <2>3, <3>1
    <3> QED BY <1>8, <3>2
  <2> QED BY <1>7, <2>2, <2>3
<1>11. Faithful(q, us, bm)
  BY <1>9, <1>10 DEF Faithful
<1> QED BY <1>1, <1>5, <1>11

LEMMA FaithfulEnd ==
  ASSUME NEW s \in Seq(Results), NEW n \in 0..Len(s), NEW q, q = SubSeq(s, n + 1, Len(s)), NEW ts, NEW am,
         Faithful(s, ts, am)
  PROVE  Faithful(q, ts, am)
<1>0. /\ \A m \in 1..Len(s) : \E k \in 1..Len(ts) : ts[k] = s[m]
      /\ \A k, m \in 1..Len(s) : k < m /\ s[k] \notin am /\ s[m] \notin am =>
           \E j, h \in 1..Len(ts) : j < h /\ ts[j] = s[k] /\ ts[h] = s[m]
  BY DEF Faithful
<1>1. q \in Seq(Results) /\ Len(q) = Len(s) - n /\ \A k \in 1..Len(q) : q[k] = s[k + n]
  BY WithoutFirst
<1>2. \A k \in 1..Len(q) : k + n \in 1..Len(s)
  BY <1>1
<1>3. ASSUME NEW m \in 1..Len(q) PROVE \E k \in 1..Len(ts) : ts[k] = q[m]
  <2>1. PICK a : a = m + n
    OBVIOUS
  <2>2. a \in 1..Len(s) /\ s[a] = q[m]
    BY <1>1, <1>2, <2>1
  <2>3. PICK k \in 1..Len(ts) : ts[k] = s[a]
    BY <1>0, <2>2
  <2> QED BY <2>2, <2>3
<1>4. ASSUME NEW l \in 1..Len(q), NEW m \in 1..Len(q), l < m, q[l] \notin am, q[m] \notin am
      PROVE  \E j, k \in 1..Len(ts) : j < k /\ ts[j] = q[l] /\ ts[k] = q[m]
  <2>1. l + n \in 1..Len(s) /\ m + n \in 1..Len(s) /\ q[l] = s[l + n] /\ q[m] = s[m + n]
    BY <1>1, <1>2
  <2>2. l + n < m + n
    BY <1>4
  <2>3. PICK a, b : a = l + n /\ b = m + n
    OBVIOUS
  <2>4. a \in 1..Len(s) /\ b \in 1..Len(s) /\ a < b /\ s[a] = q[l] /\ s[b] = q[m]
    BY <2>1, <2>2, <2>3
  <2>5. \E j, k \in 1..Len(ts) : j < k /\ ts[j] = s[a] /\ ts[k] = s[b]
    BY <1>0, <1>4, <2>4
  <2> QED BY <2>4, <2>5
<1> QED BY <1>3, <1>4 DEF Faithful

LEMMA FaithfulTogether ==
  ASSUME NEW s \in Seq(Results), NEW q \in Seq(Results), NEW ts, NEW am, Faithful(s, ts, am), Faithful(q, ts, am),
         \A m \in 1..Len(q) : q[m] \in am
  PROVE  Faithful(s \o q, ts, am)
<1>1. PICK b : b = s \o q
  OBVIOUS
<1>2. Len(s) \in Nat /\ Len(q) \in Nat
  OBVIOUS
<1>3. /\ Len(b) = Len(s) + Len(q) /\ \A m \in 1..Len(s) : b[m] = s[m]
      /\ \A m \in 1..Len(q) : b[m + Len(s)] = q[m]
  BY <1>1
<1>4. \A m \in 1..Len(b) : m \in 1..Len(s) \/ (m - Len(s) \in 1..Len(q) /\ b[m] = q[m - Len(s)])
  <2> SUFFICES ASSUME NEW m \in 1..Len(b), m \notin 1..Len(s)
               PROVE  m - Len(s) \in 1..Len(q) /\ b[m] = q[m - Len(s)]
    OBVIOUS
  <2>1. m - Len(s) \in 1..Len(q) /\ m = (m - Len(s)) + Len(s)
    BY <1>2, <1>3
  <2> QED BY <1>3, <2>1
<1>5. ASSUME NEW m \in 1..Len(b) PROVE \E k \in 1..Len(ts) : ts[k] = b[m]
  <2>1. CASE m \in 1..Len(s)
    <3>1. b[m] = s[m] /\ \E k \in 1..Len(ts) : ts[k] = s[m]
      BY <1>3, <2>1 DEF Faithful
    <3> QED BY <3>1
  <2>2. CASE m - Len(s) \in 1..Len(q) /\ b[m] = q[m - Len(s)]
    <3>1. PICK a \in 1..Len(q) : b[m] = q[a]
      BY <2>2
    <3>2. \E k \in 1..Len(ts) : ts[k] = q[a]
      BY DEF Faithful
    <3> QED BY <3>1, <3>2
  <2> QED BY <1>4, <2>1, <2>2
<1>6. ASSUME NEW m \in 1..Len(b), NEW n \in 1..Len(b), m < n, b[m] \notin am, b[n] \notin am
      PROVE  \E j, k \in 1..Len(ts) : j < k /\ ts[j] = b[m] /\ ts[k] = b[n]
  <2>1. m \in 1..Len(s) /\ n \in 1..Len(s)
    BY <1>4, <1>6
  <2>2. b[m] = s[m] /\ b[n] = s[n]
    BY <1>3, <2>1
  <2> QED BY <1>6, <2>1, <2>2 DEF Faithful
<1>7. Faithful(b, ts, am)
  BY <1>5, <1>6 DEF Faithful
<1> QED BY <1>1, <1>7

LEMMA FaithfulCut ==
  ASSUME NEW c \in Seq(Results), NEW f \in Seq(Results), NEW ts, NEW am, Faithful(c, ts, am), Faithful(f, ts, am),
         \A m \in 1..Len(f) : f[m] \in am
  PROVE  Faithful(Over(Kept(c), f), ts, am)
<1>1. PICK n \in 0..Len(c) : Kept(c) = SubSeq(c, n + 1, Len(c))
  BY KeptType
<1>2. PICK k : k = Kept(c)
  OBVIOUS
<1>3. Faithful(k, ts, am) /\ k \in Seq(Results)
  BY <1>1, <1>2, FaithfulEnd, KeptType
<1>4. PICK l \in 0..Len(f) : Over(k, f) = k \o SubSeq(f, l + 1, Len(f))
  BY <1>3, OverFacts
<1>5. PICK q : q = SubSeq(f, l + 1, Len(f))
  OBVIOUS
<1>6. Faithful(q, ts, am)
  BY <1>5, FaithfulEnd
<1>7. q \in Seq(Results) /\ \A m \in 1..Len(q) : q[m] \in am
  <2>1. q \in Seq(Results) /\ Len(q) = Len(f) - l /\ \A m \in 1..Len(q) : q[m] = f[m + l]
    BY <1>5, WithoutFirst
  <2>2. \A m \in 1..Len(q) : m + l \in 1..Len(f)
    BY <2>1
  <2> QED BY <2>1, <2>2
<1>8. Faithful(k \o q, ts, am)
  BY <1>3, <1>6, <1>7, FaithfulTogether
<1> QED BY <1>2, <1>4, <1>5, <1>8

(* The files, and what was read of one to be cut, are faithful; what is in *)
(* a file that somebody is about to write was told amid the cut.           *)
FilesFaithful == \A t \in Task : Faithful(file[t], told[t], amid)
CopiesFaithful ==
  \A i \in Invocation : plan[i].at \in {"truncate", "write"} => Faithful(copy[i], told[plan[i].due.task], amid)
WrittenAmid ==
  \A i \in Invocation :
    plan[i].at = "write" => \A m \in 1..Len(file[plan[i].due.task]) : file[plan[i].due.task][m] \in amid

FilesKept == FilesFaithful /\ CopiesFaithful /\ WrittenAmid

LEMMA LateResultThen ==
  ASSUME PlanTypeOK', NEW i \in Invocation, plan'[i].at \in Late
  PROVE  plan'[i].due \in Results /\ plan'[i].due.by = i /\ plan'[i].due.task \in Task
<1>1. plan'[i].due \in Results /\ plan'[i].due.by = i
  BY DEF PlanTypeOK, DueOK
<1> QED BY <1>1 DEF Results

LEMMA ToldGrows ==
  ASSUME PlanTypeOK, NEW i \in Invocation, Moving(i)
  PROVE  amid \subseteq amid' /\ \A t \in Task : Extends(told[t], told'[t])
<1>1. FilesTyped
  BY DEF PlanTypeOK
<1>2. amid \subseteq amid'
  BY DEF Moving, FileMove, Appended, HasRead, Truncated, Rewritten, Killed, filevars
<1>3. ASSUME NEW t \in Task PROVE Extends(told[t], told'[t])
  <2>1. PICK s : s = told[t]
    OBVIOUS
  <2>2. s \in Seq(Results) /\ Len(s) \in Nat
    BY <1>1, <2>1 DEF FilesTyped
  <2>3. CASE told' = told
    <3>1. Extends(s, s)
      BY <2>2 DEF Extends
    <3> QED BY <2>1, <2>3, <3>1
  <2>4. CASE Appended(i)
    <3>1. PICK r : r = plan[i].due
      OBVIOUS
    <3>2. told' = [told EXCEPT ![r.task] = Append(told[r.task], r)]
      BY <2>4, <3>1 DEF Appended
    <3>3. told'[t] = s \/ told'[t] = Append(s, r)
      BY <1>1, <2>1, <3>2 DEF FilesTyped
    <3>4. Extends(s, s) /\ Extends(s, Append(s, r))
      <4>1. PICK q : q = Append(s, r)
        OBVIOUS
      <4>2. Len(q) = Len(s) + 1 /\ \A n \in 1..Len(s) : q[n] = s[n]
        BY <2>2, <4>1
      <4>3. Extends(s, s) /\ Extends(s, q)
        BY <2>2, <4>2 DEF Extends
      <4> QED BY <4>1, <4>3
    <3> QED BY <2>1, <3>3, <3>4
  <2> QED BY <2>3, <2>4 DEF Moving, FileMove, HasRead, Truncated, Rewritten, Killed, filevars
<1> QED BY <1>2, <1>3

(* The moves of a plan do not cut a file, nor begin to.                    *)
LEMMA PlanMovesDoNotCut ==
  ASSUME NEW i \in Invocation, PlanMove(i)
  PROVE  plan[i].at \notin Cuts /\ plan'[i].at \notin Cuts
<1>1. CASE Quiet(i) \/ GivenUp(i) \/ Planned(i) \/ Commanded(i) \/ MadeDue(i)
  BY <1>1 DEF Quiet, GivenUp, Planned, Commanded, MadeDue, Turn, Early, Cuts
<1>2. CASE Ended(i) \/ Unacknowledged(i) \/ Failing(i) \/ Continued(i)
  BY <1>2 DEF Ended, Unacknowledged, Failing, Continued, Turn, Cuts
<1> QED BY <1>1, <1>2 DEF PlanMove

(* A file that changes was appended to, or somebody cut it.                *)
LEMMA FileChanges ==
  ASSUME PlanTypeOK, NEW i \in Invocation, Moving(i), NEW t \in Task
  PROVE  \/ file'[t] = file[t]
         \/ /\ Appended(i) /\ plan[i].due.task = t
            /\ file'[t] = Append(file[t], plan[i].due) /\ told'[t] = Append(told[t], plan[i].due)
         \/ Truncated(i) /\ plan[i].due.task = t /\ file'[t] = <<>>
         \/ Rewritten(i) /\ plan[i].due.task = t /\ file'[t] = Over(Kept(copy[i]), file[t])
<1>1. FilesTyped
  BY DEF PlanTypeOK
<1>2. CASE Appended(i)
  BY <1>1, <1>2 DEF Appended, FilesTyped
<1>3. CASE Truncated(i)
  BY <1>1, <1>3 DEF Truncated, FilesTyped
<1>4. CASE Rewritten(i)
  BY <1>1, <1>4 DEF Rewritten, FilesTyped
<1> QED BY <1>2, <1>3, <1>4 DEF Moving, FileMove, HasRead, Killed, filevars

LEMMA FilesStayFaithful ==
  ASSUME PlanTypeOK, PlanTypeOK', FilesKept, NEW i \in Invocation, Moving(i)
  PROVE  FilesFaithful'
<1> SUFFICES ASSUME NEW t \in Task PROVE Faithful(file'[t], told'[t], amid')
  BY DEF FilesFaithful
<1>1. PICK s, ts, us : s = file[t] /\ ts = told[t] /\ us = told'[t]
  OBVIOUS
<1>2. PICK am, bm : am = amid /\ bm = amid'
  OBVIOUS
<1>3. s \in Seq(Results) /\ ts \in Seq(Results) /\ us \in Seq(Results)
  BY <1>1 DEF PlanTypeOK, FilesTyped
<1>4. am \subseteq bm /\ Extends(ts, us)
  BY <1>1, <1>2, ToldGrows
<1>5. Faithful(s, ts, am)
  BY <1>1, <1>2 DEF FilesKept, FilesFaithful
<1>6. Faithful(s, us, bm)
  BY <1>3, <1>4, <1>5, FaithfulGrows
<1>7. CASE file'[t] = file[t]
  BY <1>1, <1>2, <1>6, <1>7
<1>8. CASE Appended(i) /\ file'[t] = Append(file[t], plan[i].due) /\ told'[t] = Append(told[t], plan[i].due)
  <2>1. PICK r : r = plan[i].due
    OBVIOUS
  <2>2. r \in Results
    BY <1>8, <2>1, LateResult DEF Appended, Late
  <2>3. Faithful(Append(s, r), Append(ts, r), bm)
    BY <1>3, <1>4, <1>5, <2>2, FaithfulAppend
  <2> QED BY <1>1, <1>2, <1>8, <2>1, <2>3
<1>9. CASE file'[t] = <<>>
  <2>1. PICK e : e = <<>>
    OBVIOUS
  <2>2. Len(e) = 0
    BY <2>1
  <2>3. Faithful(e, us, bm)
    BY <2>2 DEF Faithful
  <2> QED BY <1>1, <1>2, <1>9, <2>1, <2>3
<1>10. CASE Rewritten(i) /\ plan[i].due.task = t /\ file'[t] = Over(Kept(copy[i]), file[t])
  <2>1. PICK c : c = copy[i]
    OBVIOUS
  <2>2. c \in Seq(Results)
    BY <2>1 DEF PlanTypeOK, FilesTyped
  <2>3. plan[i].at = "write"
    BY <1>10 DEF Rewritten
  <2>4. Faithful(c, ts, am)
    BY <1>1, <1>2, <1>10, <2>1, <2>3 DEF FilesKept, CopiesFaithful
  <2>5. Faithful(c, us, bm)
    BY <1>3, <1>4, <2>4, FaithfulGrows
  <2>6. \A m \in 1..Len(s) : s[m] \in bm
    BY <1>1, <1>2, <1>4, <1>10, <2>3 DEF FilesKept, WrittenAmid
  <2>7. Faithful(Over(Kept(c), s), us, bm)
    BY <1>3, <1>6, <2>2, <2>5, <2>6, FaithfulCut
  <2> QED BY <1>1, <1>2, <1>10, <2>1, <2>7
<1> QED BY <1>7, <1>8, <1>9, <1>10, FileChanges

LEMMA CopiesStayFaithful ==
  ASSUME PlanTypeOK, PlanTypeOK', FilesKept, NEW i \in Invocation, Moving(i)
  PROVE  CopiesFaithful'
<1> SUFFICES ASSUME NEW j \in Invocation, plan'[j].at \in {"truncate", "write"}
             PROVE  Faithful(copy'[j], told'[plan'[j].due.task], amid')
  BY DEF CopiesFaithful
<1>1. plan'[j].due.task \in Task
  <2>1. plan'[j].at \in Late
    BY DEF Late
  <2> QED BY <2>1, LateResultThen
<1>2. PICK t \in Task : t = plan'[j].due.task
  BY <1>1
<1>3. PICK ts, us, am, bm : ts = told[t] /\ us = told'[t] /\ am = amid /\ bm = amid'
  OBVIOUS
<1>4. ts \in Seq(Results) /\ us \in Seq(Results) /\ am \subseteq bm /\ Extends(ts, us)
  <2>1. ts \in Seq(Results) /\ us \in Seq(Results)
    BY <1>3 DEF PlanTypeOK, FilesTyped
  <2> QED BY <1>3, <2>1, ToldGrows
<1>5. ASSUME NEW s, s = copy'[j], Faithful(s, ts, am) PROVE Faithful(copy'[j], told'[plan'[j].due.task], amid')
  BY <1>2, <1>3, <1>4, <1>5, FaithfulGrows
<1>6. CASE HasRead(i) /\ j = i
  <2>1. copy'[i] = file[t] /\ plan'[i].due = plan[i].due
    BY <1>2, <1>6 DEF HasRead, Going, Turn, PlanTypeOK, FilesTyped
  <2>2. Faithful(file[t], ts, am)
    BY <1>3 DEF FilesKept, FilesFaithful
  <2>3. PICK s : s = copy'[j]
    OBVIOUS
  <2> QED BY <1>5, <1>6, <2>1, <2>2, <2>3
<1>7. CASE ~(HasRead(i) /\ j = i)
  <2>1. plan[j].at \in {"truncate", "write"} /\ plan[j].due.task = t /\ copy'[j] = copy[j]
    <3>1. CASE j # i
      <4>1. j \in Invocation \ {i}
        BY <3>1
      <4>2. plan'[j] = plan[j]
        BY <4>1, OtherPlansStay
      <4>3. copy'[j] = copy[j]
        BY <4>1 DEF Moving, FileMove, Appended, HasRead, Truncated, Rewritten, Killed, filevars, PlanTypeOK, FilesTyped
      <4> QED BY <1>2, <4>2, <4>3
    <3>2. CASE j = i
      <4>1. ~PlanMove(i)
        BY <3>2, PlanMovesDoNotCut DEF Cuts
      <4>2. Truncated(i)
        BY <1>7, <3>2, <4>1 DEF Moving, FileMove, Appended, Rewritten, Killed, Going, Turn
      <4> QED BY <1>2, <3>2, <4>2 DEF Truncated, Going, Turn
    <3> QED BY <3>1, <3>2
  <2>2. Faithful(copy[j], ts, am)
    BY <1>3, <2>1 DEF FilesKept, CopiesFaithful
  <2>3. PICK s : s = copy'[j]
    OBVIOUS
  <2> QED BY <1>5, <2>1, <2>2, <2>3
<1> QED BY <1>6, <1>7

LEMMA InCutting ==
  ASSUME NEW i \in Invocation, NEW t
  PROVE  i \in Cutting(t) <=> plan[i].at \in Cuts /\ plan[i].due.task = t
BY DEF Cutting, Cuts

LEMMA WritesStayAmid ==
  ASSUME PlanTypeOK, PlanTypeOK', FilesKept, NEW i \in Invocation, Moving(i)
  PROVE  WrittenAmid'
<1> SUFFICES ASSUME NEW j \in Invocation, plan'[j].at = "write",
                    NEW m \in 1..Len(file'[plan'[j].due.task])
             PROVE  file'[plan'[j].due.task][m] \in amid'
  BY DEF WrittenAmid
<1>1. plan'[j].due.task \in Task
  <2>1. plan'[j].at \in Late
    BY DEF Late
  <2> QED BY <2>1, LateResultThen
<1>2. PICK t \in Task : t = plan'[j].due.task
  BY <1>1
<1>3. PICK s, q : s = file[t] /\ q = file'[t]
  OBVIOUS
<1>4. s \in Seq(Results) /\ q \in Seq(Results) /\ Len(s) \in Nat /\ m \in 1..Len(q)
  BY <1>2, <1>3 DEF PlanTypeOK, FilesTyped
<1>5. amid \subseteq amid'
  BY ToldGrows
<1> SUFFICES q[m] \in amid'
  BY <1>2, <1>3
<1>6. CASE j = i
  <2>1. ~PlanMove(i)
    BY <1>6, PlanMovesDoNotCut DEF Cuts
  <2>2. Truncated(i)
    BY <1>6, <2>1 DEF Moving, FileMove, Appended, HasRead, Rewritten, Killed, Going, Turn
  <2>3. q = <<>>
    BY <1>2, <1>3, <1>6, <2>2 DEF Truncated, Going, Turn, PlanTypeOK, FilesTyped
  <2> QED BY <1>4, <2>3
<1>7. CASE j # i
  <2>1. plan'[j] = plan[j]
    <3>1. j \in Invocation \ {i}
      BY <1>7
    <3> QED BY <3>1, OtherPlansStay
  <2>2. plan[j].at = "write" /\ plan[j].due.task = t
    BY <1>2, <2>1
  <2>3. \A k \in 1..Len(s) : s[k] \in amid
    BY <1>3, <2>2 DEF FilesKept, WrittenAmid
  <2>4. j \in Cutting(t)
    BY <2>2, InCutting DEF Cuts
  <2>5. CASE file'[t] = file[t]
    BY <1>3, <1>4, <1>5, <2>3, <2>5
  <2>6. CASE Appended(i) /\ plan[i].due.task = t /\ file'[t] = Append(file[t], plan[i].due)
    <3>1. PICK r : r = plan[i].due
      OBVIOUS
    <3>2. amid' = amid \cup {r}
      BY <2>4, <2>6, <3>1 DEF Appended
    <3>3. q = Append(s, r)
      BY <1>3, <2>6, <3>1
    <3>4. m \in 1..Len(s) \/ m = Len(s) + 1
      BY <1>4, <3>3
    <3>5. CASE m \in 1..Len(s)
      BY <1>4, <2>3, <3>2, <3>3, <3>5
    <3>6. CASE m = Len(s) + 1
      BY <1>4, <3>2, <3>3, <3>6
    <3> QED BY <3>4, <3>5, <3>6
  <2>7. CASE file'[t] = <<>>
    BY <1>3, <1>4, <2>7
  <2>8. CASE Rewritten(i) /\ plan[i].due.task = t /\ file'[t] = Over(Kept(copy[i]), file[t])
    <3>1. PICK c : c = copy[i]
      OBVIOUS
    <3>2. c \in Seq(Results)
      BY <3>1 DEF PlanTypeOK, FilesTyped
    <3>3. amid' = amid \cup ToSet(c)
      BY <1>7, <2>4, <2>8, <3>1 DEF Rewritten
    <3>4. PICK n \in 0..Len(c) : Kept(c) = SubSeq(c, n + 1, Len(c))
      BY <3>2, KeptType
    <3>5. PICK k : k = Kept(c)
      OBVIOUS
    <3>6. k \in Seq(Results) /\ Len(k) = Len(c) - n /\ \A a \in 1..Len(k) : k[a] = c[a + n]
      BY <3>2, <3>4, <3>5, WithoutFirst
    <3>7. PICK l \in 0..Len(s) : Over(k, s) = k \o SubSeq(s, l + 1, Len(s))
      BY <1>4, <3>6, OverFacts
    <3>8. PICK e : e = SubSeq(s, l + 1, Len(s))
      OBVIOUS
    <3>9. e \in Seq(Results) /\ Len(e) = Len(s) - l /\ \A a \in 1..Len(e) : e[a] = s[a + l]
      BY <1>4, <3>8, WithoutFirst
    <3>10. q = k \o e
      BY <1>3, <2>8, <3>1, <3>5, <3>7, <3>8
    <3>11. CASE m \in 1..Len(k)
      <4>1. q[m] = c[m + n] /\ m + n \in 1..Len(c)
        BY <3>2, <3>6, <3>9, <3>10, <3>11
      <4>2. q[m] \in ToSet(c)
        BY <3>2, <4>1 DEF ToSet
      <4> QED BY <3>3, <4>2
    <3>12. CASE m \notin 1..Len(k)
      <4>1. m - Len(k) \in 1..Len(e) /\ q[m] = e[m - Len(k)]
        BY <1>4, <3>6, <3>9, <3>10, <3>12
      <4>2. PICK a \in 1..Len(e) : a = m - Len(k) /\ q[m] = e[a]
        BY <4>1
      <4>3. a + l \in 1..Len(s)
        BY <1>4, <3>9
      <4>4. q[m] = s[a + l]
        BY <3>9, <4>2
      <4> QED BY <1>5, <2>3, <4>3, <4>4
    <3> QED BY <3>11, <3>12
  <2> QED BY <2>5, <2>6, <2>7, <2>8, FileChanges
<1> QED BY <1>6, <1>7

(* The last that was told of a task, if it was not told amid a cut, is the *)
(* last of the file; or of what was read of it, if he who told it cuts it. *)
EndsIn(s, r) == s # <<>> /\ s[Len(s)] = r
Long(s, r) == EndsIn(s, r) /\ Length(s) > Retention
CutsAfter(i, t, r) ==
  /\ plan[i].due = r
  /\ plan[i].at = "read" => Long(file[t], r)
  /\ plan[i].at \in {"truncate", "write"} => Long(copy[i], r)
  /\ plan[i].at = "write" => file[t] = <<>>
LatestAt(t, r) ==
  /\ Cutting(t) = {} /\ r.size < Retention => EndsIn(file[t], r)
  /\ \A i \in Invocation : i \in Cutting(t) => CutsAfter(i, t, r)
LatestSafe ==
  \A t \in Task : \A r \in Results : EndsIn(told[t], r) /\ r \notin amid => LatestAt(t, r)

LEMMA LongIsKept ==
  ASSUME NEW c \in Seq(Results), NEW r \in Results, Long(c, r), r.size < Retention, NEW e, e = <<>>
  PROVE  EndsIn(Over(Kept(c), e), r)
<1>1. c # <<>> /\ Len(c) \in Nat /\ Len(c) > 0 /\ c[Len(c)] = r /\ Length(c) > Retention
  BY DEF Long, EndsIn
<1>2. Retention \in Nat /\ r.size \in Nat
  BY PlanAssumption DEF Results
<1>3. PICK n \in 1..Len(c) : /\ Ends(c, n) + Retention > Length(c)
                             /\ \A m \in 1..n - 1 : ~(Ends(c, m) + Retention > Length(c))
                             /\ Kept(c) = SubSeq(c, n + 1, Len(c))
  BY <1>1, KeptFacts
<1>4. PICK l \in Nat : l = Len(c) - 1
  BY <1>1
<1>5. Ends(c, Len(c)) = Ends(c, l) + r.size /\ Ends(c, l) \in Nat
  <2>1. Len(c) \in 1..Len(c) /\ l \in 0..Len(c)
    BY <1>1, <1>4
  <2> QED BY <1>1, <1>4, <2>1, EndsFacts
<1>6. Ends(c, l) + Retention > Length(c)
  BY <1>2, <1>5 DEF Length
<1>7. l # 0
  <2>1. Ends(c, 0) = 0
    BY EndsFacts
  <2> QED BY <1>1, <1>2, <1>5, <2>1 DEF Length
<1>8. n <= l
  <2> SUFFICES ASSUME ~(n <= l) PROVE FALSE
    OBVIOUS
  <2>1. l \in 1..n - 1
    BY <1>3, <1>4, <1>7
  <2> QED BY <1>3, <1>6, <2>1
<1>9. PICK k : k = Kept(c)
  OBVIOUS
<1>10. k \in Seq(Results) /\ Len(k) = Len(c) - n /\ \A m \in 1..Len(k) : k[m] = c[m + n]
  <2>1. n \in 0..Len(c)
    BY <1>1, <1>3
  <2> QED BY <1>3, <1>9, <2>1, WithoutFirst
<1>11. k # <<>> /\ k[Len(k)] = r
  <2>1. Len(k) \in 1..Len(k) /\ Len(k) + n = Len(c)
    BY <1>1, <1>3, <1>4, <1>8, <1>10
  <2>2. k[Len(k)] = c[Len(k) + n]
    BY <1>10, <2>1
  <2>3. k[Len(k)] = r
    BY <1>1, <2>1, <2>2
  <2>4. k # <<>>
    BY <2>1
  <2> QED BY <2>3, <2>4
<1>12. Over(k, e) = k
  <2>1. e \in Seq(Results) /\ Len(e) = 0
    OBVIOUS
  <2>2. PICK a \in 0..Len(e) : Over(k, e) = k \o SubSeq(e, a + 1, Len(e))
    BY <1>10, <2>1, OverFacts
  <2>3. PICK q : q = SubSeq(e, a + 1, Len(e))
    OBVIOUS
  <2>4. q \in Seq(Results) /\ Len(q) = Len(e) - a
    BY <2>1, <2>3, WithoutFirst
  <2>5. q = <<>>
    BY <2>1, <2>2, <2>4
  <2>6. k \o q = k
    BY <1>10, <2>5
  <2> QED BY <2>2, <2>3, <2>6
<1> QED BY <1>9, <1>11, <1>12 DEF EndsIn

(* Who does not move cuts what he cut before.                              *)
LEMMA OthersCut ==
  ASSUME PlanTypeOK, NEW i \in Invocation, Moving(i), NEW j \in Invocation, j # i, NEW t
  PROVE  plan'[j] = plan[j] /\ copy'[j] = copy[j] /\ (j \in Cutting(t)' <=> j \in Cutting(t))
<1>1. j \in Invocation \ {i}
  OBVIOUS
<1>2. plan'[j] = plan[j]
  BY <1>1, OtherPlansStay
<1>3. copy'[j] = copy[j]
  BY <1>1 DEF Moving, FileMove, Appended, HasRead, Truncated, Rewritten, Killed, filevars, PlanTypeOK, FilesTyped
<1>4. j \in Cutting(t)' <=> j \in Cutting(t)
  BY <1>2 DEF Cutting
<1> QED BY <1>2, <1>3, <1>4

LEMMA LatestAfterAppend ==
  ASSUME PlanTypeOK, NEW i \in Invocation, Moving(i), Appended(i), NEW t \in Task, plan[i].due.task = t,
         NEW r \in Results, EndsIn(told'[t], r), r \notin amid'
  PROVE  LatestAt(t, r)'
<1>1. PICK s, ts : s = file[t] /\ ts = told[t]
  OBVIOUS
<1>2. s \in Seq(Results) /\ ts \in Seq(Results)
  BY <1>1 DEF PlanTypeOK, FilesTyped
<1>3. PICK d : d = plan[i].due
  OBVIOUS
<1>4. d \in Results
  BY <1>3, LateResult DEF Appended, Late
<1>5. /\ file'[t] = Append(s, d) /\ told'[t] = Append(ts, d)
      /\ amid' = IF Cutting(t) # {} THEN amid \cup {d} ELSE amid
  BY <1>1, <1>3 DEF Appended, PlanTypeOK, FilesTyped
<1>6. d = r
  <2>1. PICK us : us = Append(ts, d)
    OBVIOUS
  <2>2. Len(us) = Len(ts) + 1 /\ us[Len(ts) + 1] = d
    BY <1>2, <2>1
  <2> QED BY <1>5, <2>1, <2>2 DEF EndsIn
<1>7. Cutting(t) = {}
  BY <1>5, <1>6
<1>8. EndsIn(file'[t], r)
  <2>1. PICK q : q = Append(s, d)
    OBVIOUS
  <2>2. Len(q) = Len(s) + 1 /\ q[Len(s) + 1] = d /\ Len(s) \in Nat
    BY <1>2, <2>1
  <2>3. q # <<>>
    BY <2>2
  <2> QED BY <1>5, <1>6, <2>1, <2>2, <2>3 DEF EndsIn
<1>9. ASSUME NEW j \in Invocation, j \in Cutting(t)' PROVE CutsAfter(j, t, r)'
  <2>1. j = i
    BY <1>7, <1>9, OthersCut
  <2>2. plan'[i].at \in Cuts /\ plan'[i].due = d
    BY <1>3, <1>9, <2>1 DEF Cutting, Cuts, Appended, Going, Turn
  <2>3. plan'[i].at = "read" /\ Length(Append(s, d)) > Retention
    BY <1>1, <1>3, <2>2 DEF Appended, Going, Turn, Cuts
  <2>4. Long(file'[t], r)
    BY <1>5, <1>8, <2>3 DEF Long
  <2> QED BY <1>6, <2>1, <2>2, <2>3, <2>4 DEF CutsAfter
<1> QED BY <1>8, <1>9 DEF LatestAt

(* A move that neither tells anything of t nor cuts its file.              *)
LEMMA LatestElsewhere ==
  ASSUME PlanTypeOK, NEW i \in Invocation, Moving(i), NEW t \in Task, NEW r \in Results, LatestAt(t, r),
         i \notin Cutting(t), i \notin Cutting(t)', file'[t] = file[t]
  PROVE  LatestAt(t, r)'
<1>1. \A j \in Invocation : j \in Cutting(t)' <=> j \in Cutting(t)
  BY OthersCut
<1>2. Cutting(t)' = {} => Cutting(t) = {}
  <2>1. Cutting(t) \subseteq Invocation
    BY DEF Cutting
  <2> QED BY <1>1, <2>1
<1>3. ASSUME NEW j \in Invocation, j \in Cutting(t)' PROVE CutsAfter(j, t, r)'
  <2>1. j # i /\ j \in Cutting(t)
    BY <1>1, <1>3
  <2>2. plan'[j] = plan[j] /\ copy'[j] = copy[j]
    BY <2>1, OthersCut
  <2>3. CutsAfter(j, t, r)
    BY <2>1 DEF LatestAt
  <2> QED BY <2>2, <2>3 DEF CutsAfter
<1>4. Cutting(t)' = {} /\ r.size < Retention => EndsIn(file'[t], r)
  BY <1>2 DEF LatestAt
<1> QED BY <1>3, <1>4 DEF LatestAt

LEMMA LatestWhileCut ==
  ASSUME PlanTypeOK, NEW i \in Invocation, Moving(i), ~Appended(i), NEW t \in Task, i \in Cutting(t),
         NEW r \in Results, EndsIn(told[t], r), r \notin amid', LatestAt(t, r)
  PROVE  LatestAt(t, r)'
<1>1. CutsAfter(i, t, r)
  BY DEF LatestAt
<1>2. plan[i].at \in Cuts /\ plan[i].due.task = t /\ plan[i].due = r /\ r.by = i
  <2>1. plan[i].at \in Cuts /\ plan[i].due.task = t
    BY InCutting
  <2> QED BY <1>1, <2>1, LateResult DEF CutsAfter, Cuts, Late
<1>3. ASSUME NEW j \in Invocation, j \in Cutting(t)' PROVE j = i
  <2> SUFFICES ASSUME j # i PROVE FALSE
    OBVIOUS
  <2>1. j \in Cutting(t)
    BY <1>3, OthersCut
  <2>2. plan[j].at \in Cuts /\ plan[j].due = r
    BY <2>1, InCutting DEF LatestAt, CutsAfter
  <2>3. r.by = j
    BY <2>2, LateResult DEF Cuts, Late
  <2> QED BY <1>2, <2>3
<1>4. ~PlanMove(i)
  BY <1>2, PlanMovesDoNotCut
<1>5. CASE HasRead(i)
  <2>1. plan'[i].at = "truncate" /\ plan'[i].due = r /\ copy'[i] = file[t] /\ Long(file[t], r)
    BY <1>1, <1>2, <1>5 DEF HasRead, Going, Turn, CutsAfter, PlanTypeOK, FilesTyped
  <2>2. CutsAfter(i, t, r)'
    BY <2>1 DEF CutsAfter
  <2>3. i \in Cutting(t)'
    BY <1>2, <2>1 DEF Cutting
  <2> QED BY <1>3, <2>2, <2>3 DEF LatestAt
<1>6. CASE Truncated(i)
  <2>1. plan'[i].at = "write" /\ plan'[i].due = r /\ copy'[i] = copy[i] /\ Long(copy[i], r) /\ file'[t] = <<>>
    BY <1>1, <1>2, <1>6 DEF Truncated, Going, Turn, CutsAfter, PlanTypeOK, FilesTyped
  <2>2. CutsAfter(i, t, r)'
    BY <2>1 DEF CutsAfter
  <2>3. i \in Cutting(t)'
    BY <1>2, <2>1 DEF Cutting
  <2> QED BY <1>3, <2>2, <2>3 DEF LatestAt
<1>7. CASE Rewritten(i)
  <2>1. PICK c, e : c = copy[i] /\ e = file[t]
    OBVIOUS
  <2>2. c \in Seq(Results) /\ Long(c, r) /\ e = <<>> /\ file'[t] = Over(Kept(c), e)
    BY <1>1, <1>2, <1>7, <2>1 DEF Rewritten, CutsAfter, PlanTypeOK, FilesTyped
  <2>3. r.size < Retention => EndsIn(file'[t], r)
    BY <2>2, LongIsKept
  <2>4. i \notin Cutting(t)'
    BY <1>7 DEF Rewritten, Going, Turn, Cutting
  <2> QED BY <1>3, <2>3, <2>4 DEF LatestAt
<1>8. CASE Killed(i)
  <2>1. r \in ToSet(told[t])
    <3>1. PICK ts : ts = told[t]
      OBVIOUS
    <3>2. ts \in Seq(Results) /\ ts # <<>> /\ ts[Len(ts)] = r
      BY <3>1 DEF EndsIn, PlanTypeOK, FilesTyped
    <3>3. Len(ts) \in DOMAIN ts
      BY <3>2
    <3> QED BY <3>1, <3>2, <3>3 DEF ToSet
  <2>2. r \in amid'
    BY <1>2, <1>8, <2>1 DEF Killed
  <2> QED BY <2>2
<1> QED BY <1>4, <1>5, <1>6, <1>7, <1>8 DEF Moving, FileMove

LEMMA LatestStaysSafe ==
  ASSUME PlanTypeOK, LatestSafe, NEW i \in Invocation, Moving(i)
  PROVE  LatestSafe'
<1> SUFFICES ASSUME NEW t \in Task, NEW r \in Results, EndsIn(told'[t], r), r \notin amid'
             PROVE  LatestAt(t, r)'
  BY DEF LatestSafe
<1>1. r \notin amid
  BY ToldGrows
<1>2. CASE Appended(i) /\ plan[i].due.task = t
  BY <1>2, LatestAfterAppend
<1>3. CASE ~(Appended(i) /\ plan[i].due.task = t)
  <2>1. told'[t] = told[t]
    BY <1>3 DEF Moving, FileMove, Appended, HasRead, Truncated, Rewritten, Killed, filevars, PlanTypeOK, FilesTyped
  <2>2. EndsIn(told[t], r) /\ LatestAt(t, r)
    BY <1>1, <2>1 DEF LatestSafe
  <2>3. CASE i \in Cutting(t)
    <3>1. ~Appended(i)
      BY <2>3, InCutting DEF Appended, Cuts
    <3> QED BY <2>2, <2>3, <3>1, LatestWhileCut
  <2>4. CASE i \notin Cutting(t)
    <3>1. ~(plan[i].at \in Cuts /\ plan[i].due.task = t)
      BY <2>4, InCutting
    <3>2. i \notin Cutting(t)'
      <4>1. CASE PlanMove(i)
        BY <4>1, PlanMovesDoNotCut DEF Cutting, Cuts
      <4>2. CASE FileMove(i)
        BY <1>3, <3>1, <4>2 DEF FileMove, Appended, HasRead, Truncated, Rewritten, Killed, Going, Turn, Cutting, Cuts
      <4> QED BY <4>1, <4>2 DEF Moving
    <3>3. file'[t] = file[t]
      BY <1>3, <3>1, FileChanges DEF Truncated, Rewritten, Cuts
    <3> QED BY <2>2, <2>4, <3>2, <3>3, LatestElsewhere
  <2> QED BY <2>3, <2>4
<1> QED BY <1>2, <1>3

FilesInv == FilesKept /\ LatestSafe

LEMMA FilesInvInit == PlanInit => FilesInv
<1> SUFFICES ASSUME PlanInit PROVE FilesInv
  OBVIOUS
<1>1. PICK e : e = <<>> /\ Len(e) = 0
  OBVIOUS
<1>2. file = [t \in Task |-> e] /\ told = [t \in Task |-> e]
  BY <1>1 DEF PlanInit
<1>3. \A i \in Invocation : plan[i].at = "off"
  BY DEF PlanInit
<1>4. FilesFaithful
  BY <1>1, <1>2 DEF FilesFaithful, Faithful
<1>5. CopiesFaithful /\ WrittenAmid
  BY <1>3 DEF CopiesFaithful, WrittenAmid
<1>6. LatestSafe
  BY <1>1, <1>2 DEF LatestSafe, EndsIn
<1> QED BY <1>4, <1>5, <1>6 DEF FilesInv, FilesKept

LEMMA FilesInvKept ==
  ASSUME PlanTypeOK, PlanTypeOK', FilesInv, [PlanNext]_planvars
  PROVE  FilesInv'
<1>1. CASE UNCHANGED <<plan, filevars>>
  <2>1. \A t : Cutting(t)' = Cutting(t)
    BY <1>1 DEF Cutting
  <2>2. FilesKept'
    BY <1>1 DEF FilesInv, FilesKept, FilesFaithful, CopiesFaithful, WrittenAmid, filevars
  <2>3. LatestSafe'
    BY <1>1, <2>1 DEF FilesInv, LatestSafe, LatestAt, CutsAfter, filevars
  <2> QED BY <2>2, <2>3 DEF FilesInv
<1>2. ASSUME NEW i \in Invocation, Moving(i) PROVE FilesInv'
  BY <1>2, FilesStayFaithful, CopiesStayFaithful, WritesStayAmid, LatestStaysSafe DEF FilesInv, FilesKept
<1> QED BY <1>1, <1>2, StepMoves

LEMMA FilesInvMeans ==
  ASSUME PlanTypeOK, FilesInv
  PROVE  LatestIsKept
<1> SUFFICES ASSUME NEW t \in Task
             PROVE  /\ ToSet(file[t]) \subseteq ToSet(told[t])
                    /\ \A m, n \in DOMAIN file[t] :
                         m < n /\ file[t][m] \notin amid /\ file[t][n] \notin amid =>
                           \E j, k \in DOMAIN told[t] : j < k /\ told[t][j] = file[t][m] /\ told[t][k] = file[t][n]
                    /\ told[t] # <<>> /\ Cutting(t) = {} /\ Last(told[t]) \notin amid /\ Last(told[t]).size < Retention =>
                         file[t] # <<>> /\ Last(file[t]) = Last(told[t])
  BY DEF LatestIsKept
<1>1. PICK s, ts : s = file[t] /\ ts = told[t]
  OBVIOUS
<1>2. s \in Seq(Results) /\ ts \in Seq(Results)
  BY <1>1 DEF PlanTypeOK, FilesTyped
<1>3. DOMAIN s = 1..Len(s) /\ DOMAIN ts = 1..Len(ts)
  BY <1>2
<1>4. Faithful(s, ts, amid)
  BY <1>1 DEF FilesInv, FilesKept, FilesFaithful
<1>5. ToSet(s) \subseteq ToSet(ts)
  BY <1>3, <1>4 DEF ToSet, Faithful
<1>6. \A m, n \in DOMAIN s :
        m < n /\ s[m] \notin amid /\ s[n] \notin amid =>
          \E j, k \in DOMAIN ts : j < k /\ ts[j] = s[m] /\ ts[k] = s[n]
  BY <1>3, <1>4 DEF Faithful
<1>7. ASSUME ts # <<>>, Cutting(t) = {}, Last(ts) \notin amid, Last(ts).size < Retention
      PROVE  s # <<>> /\ Last(s) = Last(ts)
  <2>1. PICK r : r = ts[Len(ts)]
    OBVIOUS
  <2>2. Len(ts) \in Nat /\ Len(ts) > 0
    BY <1>2, <1>7
  <2>3. r \in Results /\ r = Last(ts) /\ EndsIn(ts, r)
    BY <1>2, <1>7, <2>1, <2>2 DEF Last, EndsIn
  <2>4. LatestAt(t, r)
    BY <1>1, <1>7, <2>3 DEF FilesInv, LatestSafe
  <2>5. EndsIn(s, r)
    BY <1>1, <1>7, <2>3, <2>4 DEF LatestAt
  <2> QED BY <2>3, <2>5 DEF EndsIn, Last
<1> QED BY <1>1, <1>5, <1>6, <1>7

(* What a file of results keeps: nothing that was not told, nothing twice  *)
(* or out of its order unless two cut it at a time, and the last result,   *)
(* whoever cut the file and how often (persist).                           *)
THEOREM TheLatestResultIsKept == PlanSpec => []LatestIsKept
<1>1. PlanInit => PlanTypeOK /\ FilesInv
  BY PlanTypeInit, FilesInvInit
<1>2. PlanTypeOK /\ FilesInv /\ [PlanNext]_planvars => (PlanTypeOK /\ FilesInv)'
  BY PlanTypeKept, FilesInvKept
<1>3. PlanTypeOK /\ FilesInv => LatestIsKept
  BY FilesInvMeans
<1> QED BY <1>1, <1>2, <1>3, PTL DEF PlanSpec

-----------------------------------------------------------------------------
(* What a plan has told.  O is its order, a where it is, ts what is left   *)
(* of it, d what is due, and M its results: [Task -> SUBSET Results].      *)

Of(i, s) == {r \in ToSet(s) : r.by = i}
Once(i, s) == \A m, n \in 1..Len(s) : s[m].by = i /\ s[n].by = i => m = n

Rest(O, p, ts) == Len(ts) = Len(O) - p + 1 /\ \A k \in 1..Len(ts) : ts[k] = O[p + k - 1]

(* It has come to its p-th task.                                           *)
UpTo(O, p, ts, M) ==
  /\ p \in 1..Len(O) /\ Rest(O, p, ts)
  /\ \A m \in 1..Len(O) : m < p => M[O[m]] # {} /\ \A r \in M[O[m]] : r.outcome = "passed"
  /\ \A m \in 1..Len(O) : m > p => M[O[m]] = {}

SaysOf(O, M, o) == \A m \in 1..Len(O) : m < Len(O) => \A r \in M[O[m]] : r.outcome \in {"passed", o}

EarlyHist(a, M) == a \in Early => \A t \in Task : M[t] = {}
NextHist(O, a, ts, M) ==
  a \in {"plan", "command"} \/ (a = "persist" /\ ts # <<>>) => \E p \in 1..Len(O) : UpTo(O, p, ts, M) /\ M[O[p]] = {}
ToldHist(O, a, ts, d, M) ==
  a \in {"read", "truncate", "write", "after"} /\ ts # <<>> =>
    \E p \in 1..Len(O) : UpTo(O, p, ts, M) /\ M[O[p]] = {d}
LastHist(O, x, a, ts, d, M) ==
  a \in Late /\ ts = <<>> =>
    /\ d.task = x /\ d.outcome # "passed" /\ SaysOf(O, M, d.outcome)
    /\ a = "persist" => M[x] = {}
    /\ a # "persist" => M[x] = {d}
EndHist(O, x, a, M) ==
  a = "ended" =>
    \E r : /\ M[x] = {r} /\ SaysOf(O, M, r.outcome)
           /\ r.outcome = "passed" <=> \A m \in 1..Len(O) : \E e \in M[O[m]] : e.outcome = "passed"

Hist(O, x, a, ts, d, M) ==
  EarlyHist(a, M) /\ NextHist(O, a, ts, M) /\ ToldHist(O, a, ts, d, M) /\ LastHist(O, x, a, ts, d, M)
  /\ EndHist(O, x, a, M)

LEMMA OrderedOnce ==
  ASSUME NEW x \in Task, NEW O, PlanOf(x, O)
  PROVE  /\ O \in Seq(Task) /\ Len(O) \in Nat /\ Len(O) \in 1..Len(O) /\ O[Len(O)] = x
         /\ \A m, n \in 1..Len(O) : O[m] = O[n] => m = n
         /\ \A m \in 1..Len(O) : O[m] \in Task
<1>1. O \in Seq(Task) /\ O # <<>> /\ O[Len(O)] = x /\ Ordered(DependsOn, O)
  BY DEF PlanOf
<1>2. Len(O) \in Nat /\ Len(O) \in 1..Len(O) /\ \A m \in 1..Len(O) : O[m] \in Task
  BY <1>1
<1> QED BY <1>1, <1>2 DEF Ordered

LEMMA HistGivesUp ==
  ASSUME NEW x \in Task, NEW O, PlanOf(x, O), NEW M, \A t \in Task : M[t] = {},
         NEW d, d.task = x, d.outcome # "passed"
  PROVE  Hist(O, x, "persist", <<>>, d, M)
<1>1. \A m \in 1..Len(O) : O[m] \in Task
  BY OrderedOnce
<1>2. SaysOf(O, M, d.outcome)
  BY <1>1 DEF SaysOf
<1> QED BY <1>2 DEF Hist, EarlyHist, NextHist, ToldHist, LastHist, EndHist, Early, Late

LEMMA HistBegins ==
  ASSUME NEW x \in Task, NEW O, PlanOf(x, O), NEW M, \A t \in Task : M[t] = {}, NEW d
  PROVE  Hist(O, x, "plan", O, d, M)
<1>1. O \in Seq(Task) /\ Len(O) \in Nat /\ Len(O) \in 1..Len(O) /\ \A m \in 1..Len(O) : O[m] \in Task
  BY OrderedOnce
<1>2. 1 \in 1..Len(O)
  BY <1>1
<1>3. Rest(O, 1, O)
  BY <1>1 DEF Rest
<1>4. UpTo(O, 1, O, M) /\ M[O[1]] = {}
  BY <1>1, <1>2, <1>3 DEF UpTo
<1>5. NextHist(O, "plan", O, M)
  BY <1>2, <1>4 DEF NextHist
<1> QED BY <1>5 DEF Hist, EarlyHist, ToldHist, LastHist, EndHist, Early, Late

(* Still the same task, or still no result.                                *)
LEMMA HistGoesOn ==
  ASSUME NEW O, NEW x, NEW a, NEW b, NEW ts, NEW d, NEW e, NEW M, Hist(O, x, a, ts, d, M),
         \/ a \in Early /\ b \in Early
         \/ a \in {"plan", "command"} /\ b \in {"command", "persist"} /\ ts # <<>>
         \/ a \in {"read", "truncate", "write"} /\ b \in {"read", "truncate", "write", "after"} /\ d = e
         \/ b \in {"unacknowledged", "dead"}
  PROVE  Hist(O, x, b, ts, e, M)
<1>1. CASE a \in Early /\ b \in Early
  BY <1>1 DEF Hist, EarlyHist, NextHist, ToldHist, LastHist, EndHist, Early, Late
<1>2. CASE a \in {"plan", "command"} /\ b \in {"command", "persist"} /\ ts # <<>>
  BY <1>2 DEF Hist, EarlyHist, NextHist, ToldHist, LastHist, EndHist, Early, Late
<1>3. CASE a \in {"read", "truncate", "write"} /\ b \in {"read", "truncate", "write", "after"} /\ d = e
  BY <1>3 DEF Hist, EarlyHist, NextHist, ToldHist, LastHist, EndHist, Early, Late
<1>4. CASE b \in {"unacknowledged", "dead"}
  BY <1>4 DEF Hist, EarlyHist, NextHist, ToldHist, LastHist, EndHist, Early, Late
<1> QED BY <1>1, <1>2, <1>3, <1>4

LEMMA RestHead ==
  ASSUME NEW x \in Task, NEW O, PlanOf(x, O), NEW p \in 1..Len(O), NEW ts \in Seq(Task), Rest(O, p, ts)
  PROVE  /\ ts # <<>> /\ Head(ts) = O[p]
         /\ p < Len(O) => p + 1 \in 1..Len(O) /\ Rest(O, p + 1, Tail(ts))
<1>1. O \in Seq(Task) /\ Len(O) \in Nat /\ p \in Nat
  BY OrderedOnce
<1>2. Len(ts) = Len(O) - p + 1 /\ \A k \in 1..Len(ts) : ts[k] = O[p + k - 1]
  BY DEF Rest
<1>3. Len(ts) \in Nat /\ Len(ts) >= 1 /\ 1 \in 1..Len(ts) /\ p + 1 - 1 = p
  BY <1>1, <1>2
<1>4. ts # <<>> /\ Head(ts) = ts[1]
  BY <1>3
<1>5. ts[1] = O[p]
  BY <1>2, <1>3
<1>6. ASSUME p < Len(O) PROVE p + 1 \in 1..Len(O) /\ Rest(O, p + 1, Tail(ts))
  <2>1. PICK q : q = Tail(ts)
    OBVIOUS
  <2>2. Len(q) = Len(ts) - 1 /\ \A k \in 1..Len(q) : q[k] = ts[k + 1]
    BY <1>4, <2>1
  <2>3. Len(q) = Len(O) - (p + 1) + 1
    BY <1>1, <1>2, <2>2
  <2>4. ASSUME NEW k \in 1..Len(q) PROVE q[k] = O[p + 1 + k - 1]
    <3>1. k + 1 \in 1..Len(ts) /\ p + (k + 1) - 1 = p + 1 + k - 1
      BY <1>1, <1>3, <2>2
    <3> QED BY <1>2, <2>2, <3>1
  <2>5. Rest(O, p + 1, q)
    BY <2>3, <2>4 DEF Rest
  <2>6. p + 1 \in 1..Len(O)
    BY <1>1, <1>6
  <2> QED BY <2>1, <2>5, <2>6
<1> QED BY <1>4, <1>5, <1>6

Tells(M, N, d) ==
  /\ N[d.task] = M[d.task] \cup {d}
  /\ \A t \in Task : t # d.task => N[t] = M[t]

LEMMA HistTells ==
  ASSUME NEW x \in Task, NEW O, PlanOf(x, O), NEW ts \in Seq(Task), NEW d, NEW M, NEW N,
         Hist(O, x, "persist", ts, d, M),
         ts # <<>> => d.task = Head(ts),
         Tells(M, N, d), NEW b \in {"read", "after"}
  PROVE  Hist(O, x, b, ts, d, N)
<1> USE DEF Tells
<1>1. /\ Len(O) \in Nat /\ Len(O) \in 1..Len(O) /\ O[Len(O)] = x
      /\ \A m, n \in 1..Len(O) : O[m] = O[n] => m = n
      /\ \A m \in 1..Len(O) : O[m] \in Task
  BY OrderedOnce
<1>2. CASE ts = <<>>
  <2>1. d.task = x /\ d.outcome # "passed" /\ SaysOf(O, M, d.outcome) /\ M[x] = {}
    BY <1>2 DEF Hist, LastHist, Late
  <2>2. N[x] = {d}
    BY <2>1
  <2>3. \A m \in 1..Len(O) : m < Len(O) => N[O[m]] = M[O[m]]
    BY <1>1, <2>1
  <2>4. SaysOf(O, N, d.outcome)
    BY <2>1, <2>3 DEF SaysOf
  <2> QED BY <1>2, <2>1, <2>2, <2>4 DEF Hist, EarlyHist, NextHist, ToldHist, LastHist, EndHist, Early, Late
<1>3. CASE ts # <<>>
  <2>1. PICK p \in 1..Len(O) : UpTo(O, p, ts, M) /\ M[O[p]] = {}
    BY <1>3 DEF Hist, NextHist
  <2>2. d.task = O[p]
    BY <1>3, <2>1, RestHead DEF UpTo
  <2>3. N[O[p]] = {d}
    BY <2>1, <2>2
  <2>4. \A m \in 1..Len(O) : m # p => N[O[m]] = M[O[m]]
    BY <1>1, <2>2
  <2>5. \A m \in 1..Len(O) : (m < p => m # p) /\ (m > p => m # p)
    BY <1>1
  <2>6. UpTo(O, p, ts, N)
    BY <2>1, <2>4, <2>5 DEF UpTo
  <2> QED BY <1>3, <2>3, <2>6 DEF Hist, EarlyHist, NextHist, ToldHist, LastHist, EndHist, Early, Late
<1> QED BY <1>2, <1>3

LEMMA HistEnds ==
  ASSUME NEW x \in Task, NEW O, PlanOf(x, O), NEW ts \in Seq(Task), NEW d, NEW M, Hist(O, x, "after", ts, d, M),
         ts # <<>> => d.task = Head(ts),
         ts = <<>> \/ d.task = x
  PROVE  Hist(O, x, "ended", ts, d, M)
<1>1. /\ Len(O) \in Nat /\ Len(O) \in 1..Len(O) /\ O[Len(O)] = x
      /\ \A m, n \in 1..Len(O) : O[m] = O[n] => m = n
  BY OrderedOnce
<1>2. ASSUME M[x] = {d}, SaysOf(O, M, d.outcome),
             d.outcome = "passed" <=> \A m \in 1..Len(O) : \E e \in M[O[m]] : e.outcome = "passed"
      PROVE  Hist(O, x, "ended", ts, d, M)
  BY <1>2 DEF Hist, EarlyHist, NextHist, ToldHist, LastHist, EndHist, Early, Late
<1>3. CASE ts = <<>>
  <2>1. d.outcome # "passed" /\ SaysOf(O, M, d.outcome) /\ M[x] = {d}
    BY <1>3 DEF Hist, LastHist, Late
  <2>2. ~ \E e \in M[O[Len(O)]] : e.outcome = "passed"
    BY <1>1, <2>1
  <2> QED BY <1>1, <1>2, <2>1, <2>2
<1>4. CASE ts # <<>>
  <2>1. PICK p \in 1..Len(O) : UpTo(O, p, ts, M) /\ M[O[p]] = {d}
    BY <1>4 DEF Hist, ToldHist
  <2>2. p = Len(O)
    BY <1>1, <1>4, <2>1, RestHead DEF UpTo
  <2>3. \A m \in 1..Len(O) : m < p \/ m = p
    BY <1>1, <2>2
  <2>4. SaysOf(O, M, d.outcome)
    BY <2>1, <2>2 DEF SaysOf, UpTo
  <2>5. \A m \in 1..Len(O) : m < p => \E e \in M[O[m]] : e.outcome = "passed"
    BY <2>1 DEF UpTo
  <2>6. d.outcome = "passed" <=> \A m \in 1..Len(O) : \E e \in M[O[m]] : e.outcome = "passed"
    BY <2>1, <2>3, <2>5
  <2>7. M[x] = {d}
    BY <1>1, <2>1, <2>2
  <2> QED BY <1>2, <2>4, <2>6, <2>7
<1> QED BY <1>3, <1>4

LEMMA HistFails ==
  ASSUME NEW x \in Task, NEW O, PlanOf(x, O), NEW ts \in Seq(Task), ts # <<>>, NEW d, NEW M,
         Hist(O, x, "after", ts, d, M), d.task = Head(ts), d.task # x, d.outcome # "passed",
         NEW e, e.task = x, e.outcome = d.outcome
  PROVE  Hist(O, x, "persist", <<>>, e, M)
<1>1. Len(O) \in Nat /\ Len(O) \in 1..Len(O) /\ O[Len(O)] = x
  BY OrderedOnce
<1>2. PICK p \in 1..Len(O) : UpTo(O, p, ts, M) /\ M[O[p]] = {d}
  BY DEF Hist, ToldHist
<1>3. p # Len(O)
  BY <1>1, <1>2, RestHead DEF UpTo
<1>4. Len(O) > p /\ \A m \in 1..Len(O) : m < p \/ m = p \/ m > p
  BY <1>1, <1>3
<1>5. M[x] = {}
  BY <1>1, <1>2, <1>4 DEF UpTo
<1>6. SaysOf(O, M, e.outcome)
  <2> SUFFICES ASSUME NEW m \in 1..Len(O), NEW r \in M[O[m]] PROVE r.outcome \in {"passed", e.outcome}
    BY DEF SaysOf
  <2>1. CASE m < p
    BY <1>2, <2>1 DEF UpTo
  <2>2. CASE m = p
    BY <1>2, <2>2
  <2>3. CASE m > p
    BY <1>2, <2>3 DEF UpTo
  <2> QED BY <1>4, <2>1, <2>2, <2>3
<1> QED BY <1>5, <1>6 DEF Hist, EarlyHist, NextHist, ToldHist, LastHist, EndHist, Early, Late

LEMMA HistContinues ==
  ASSUME NEW x \in Task, NEW O, PlanOf(x, O), NEW ts \in Seq(Task), ts # <<>>, NEW d, NEW M,
         Hist(O, x, "after", ts, d, M), d.task = Head(ts), d.task # x, d.outcome = "passed",
         NEW q, q = Tail(ts)
  PROVE  Hist(O, x, "plan", q, d, M)
<1>1. Len(O) \in Nat /\ Len(O) \in 1..Len(O) /\ O[Len(O)] = x
  BY OrderedOnce
<1>2. PICK p \in 1..Len(O) : UpTo(O, p, ts, M) /\ M[O[p]] = {d}
  BY DEF Hist, ToldHist
<1>3. p # Len(O)
  BY <1>1, <1>2, RestHead DEF UpTo
<1>4. p < Len(O) /\ p \in Nat
  BY <1>1, <1>3
<1>5. p + 1 \in 1..Len(O) /\ Rest(O, p + 1, q)
  BY <1>2, <1>4, RestHead DEF UpTo
<1>6. PICK n : n = p + 1
  OBVIOUS
<1>7. \A m \in 1..Len(O) : (m < n => m < p \/ m = p) /\ (m > n => m > p) /\ n > p
  BY <1>1, <1>4, <1>6
<1>8. UpTo(O, n, q, M)
  BY <1>2, <1>5, <1>6, <1>7 DEF UpTo
<1>9. M[O[n]] = {}
  BY <1>2, <1>5, <1>6, <1>7 DEF UpTo
<1>10. NextHist(O, "plan", q, M)
  BY <1>5, <1>6, <1>8, <1>9 DEF NextHist
<1> QED BY <1>10 DEF Hist, EarlyHist, ToldHist, LastHist, EndHist, Early, Late

(* Every invocation has told each task once at most, and what its plan,    *)
(* come this far, can have told.                                           *)
Heard(i) == [t \in Task |-> Of(i, told[t])]
HistAt(i) == Hist(ExecutionOrder(Root[i]), Root[i], plan[i].at, plan[i].tasks, plan[i].due, Heard(i))
OnceAt(i) == \A t \in Task : Once(i, told[t])
PlanHist == \A i \in Invocation : OnceAt(i) /\ HistAt(i)

LEMMA OfAppend ==
  ASSUME NEW i, NEW s \in Seq(Results), NEW r \in Results
  PROVE  /\ r.by = i => Of(i, Append(s, r)) = Of(i, s) \cup {r}
         /\ r.by # i => Of(i, Append(s, r)) = Of(i, s)
         /\ Once(i, s) /\ (r.by = i => Of(i, s) = {}) => Once(i, Append(s, r))
<1>1. PICK q : q = Append(s, r)
  OBVIOUS
<1>2. /\ Len(s) \in Nat /\ q \in Seq(Results) /\ Len(q) = Len(s) + 1 /\ q[Len(q)] = r
      /\ \A n \in 1..Len(s) : q[n] = s[n] /\ n \in 1..Len(q)
      /\ \A n \in 1..Len(q) : n \in 1..Len(s) \/ n = Len(q)
  BY <1>1
<1>3. DOMAIN s = 1..Len(s) /\ DOMAIN q = 1..Len(q) /\ Len(q) \in 1..Len(q)
  BY <1>2
<1>4. ToSet(q) = ToSet(s) \cup {r}
  BY <1>2, <1>3 DEF ToSet
<1>5. ASSUME Once(i, s), r.by = i => Of(i, s) = {} PROVE Once(i, q)
  <2> SUFFICES ASSUME NEW m \in 1..Len(q), NEW n \in 1..Len(q), q[m].by = i, q[n].by = i PROVE m = n
    BY DEF Once
  <2>1. CASE r.by = i
    <3>1. \A k \in 1..Len(s) : s[k].by # i
      BY <1>3, <1>5, <2>1 DEF Of, ToSet
    <3>2. m \notin 1..Len(s) /\ n \notin 1..Len(s)
      BY <1>2, <3>1
    <3> QED BY <1>2, <3>2
  <2>2. CASE r.by # i
    <3>1. m \in 1..Len(s) /\ n \in 1..Len(s)
      BY <1>2, <2>2
    <3>2. s[m].by = i /\ s[n].by = i
      BY <1>2, <3>1
    <3> QED BY <1>5, <3>1, <3>2 DEF Once
  <2> QED BY <2>1, <2>2
<1>6. r.by = i => Of(i, q) = Of(i, s) \cup {r}
  BY <1>4 DEF Of
<1>7. r.by # i => Of(i, q) = Of(i, s)
  BY <1>4 DEF Of
<1> QED BY <1>1, <1>5, <1>6, <1>7

(* Nothing more is told by a move that does not append.                    *)
LEMMA MovesKeepHist ==
  ASSUME PlanTypeOK, NEW i \in Invocation, HistAt(i), Moving(i), ~Appended(i)
  PROVE  told' = told /\ HistAt(i)'
<1>1. told' = told
  BY DEF Moving, FileMove, HasRead, Truncated, Rewritten, Killed, filevars
<1> SUFFICES HistAt(i)'
  BY <1>1
<1>2. PICK O, x, a, ts, d, M :
        O = ExecutionOrder(Root[i]) /\ x = Root[i] /\ a = plan[i].at /\ ts = plan[i].tasks /\ d = plan[i].due /\ M = Heard(i)
  OBVIOUS
<1>3. x \in Task /\ ts \in Seq(Task) /\ DueOf(i)
  BY <1>2, PlanFields
<1>4. PlanOf(x, O)
  BY <1>2, <1>3, OrderFacts
<1>5. Hist(O, x, a, ts, d, M)
  BY <1>2 DEF HistAt
<1>6. /\ a \in Late /\ ts # <<>> => d.task = Head(ts)
      /\ a \in {"plan", "command"} => ts # <<>>
  BY <1>2, <1>3 DEF DueOf
<1>7. ASSUME NEW b, NEW us, NEW e, plan'[i].at = b, plan'[i].tasks = us, plan'[i].due = e, Hist(O, x, b, us, e, M)
      PROVE  HistAt(i)'
  <2>1. Heard(i)' = M
    BY <1>1, <1>2 DEF Heard
  <2> QED BY <1>2, <1>7, <2>1 DEF HistAt
<1>8. ASSUME a \in Early PROVE \A t \in Task : M[t] = {}
  BY <1>5, <1>8 DEF Hist, EarlyHist
<1>9. CASE Quiet(i)
  <2>1. PICK b \in Early : plan'[i].at = b /\ plan'[i].tasks = ts /\ plan'[i].due = d
    BY <1>2, <1>9 DEF Quiet, Turn
  <2>2. Hist(O, x, b, ts, d, M)
    BY <1>2, <1>5, <1>9, <2>1, HistGoesOn DEF Quiet
  <2> QED BY <1>7, <2>1, <2>2
<1>10. CASE GivenUp(i)
  <2>1. PICK o \in Outcome \ {"passed"} : Turn(i, "persist", <<>>, Result(i, Root[i], o, 1))
    BY <1>10 DEF GivenUp
  <2>2. PICK e, us : e = Result(i, x, o, 1) /\ us = <<>>
    OBVIOUS
  <2>3. e.task = x /\ e.outcome # "passed"
    BY <1>3, <2>2, ResultType
  <2>4. Hist(O, x, "persist", <<>>, e, M)
    BY <1>2, <1>3, <1>4, <1>8, <1>10, <2>3, HistGivesUp DEF GivenUp
  <2>5. plan'[i].at = "persist" /\ plan'[i].tasks = us /\ plan'[i].due = e
    BY <1>2, <2>1, <2>2 DEF Turn
  <2> QED BY <1>7, <2>2, <2>4, <2>5
<1>11. CASE Planned(i)
  <2>1. plan'[i].at = "plan" /\ plan'[i].tasks = O /\ plan'[i].due = d
    BY <1>2, <1>11 DEF Planned, Turn
  <2>2. Hist(O, x, "plan", O, d, M)
    BY <1>2, <1>3, <1>4, <1>8, <1>11, HistBegins DEF Planned
  <2> QED BY <1>7, <2>1, <2>2
<1>12. CASE Commanded(i)
  <2>1. a = "plan" /\ plan'[i].at = "command" /\ plan'[i].tasks = ts /\ plan'[i].due = d
    BY <1>2, <1>12 DEF Commanded, Turn
  <2>2. Hist(O, x, "command", ts, d, M)
    BY <1>5, <1>6, <2>1, HistGoesOn
  <2> QED BY <1>7, <2>1, <2>2
<1>13. CASE MadeDue(i)
  <2>1. PICK e : a \in {"plan", "command"} /\ plan'[i].at = "persist" /\ plan'[i].tasks = ts /\ plan'[i].due = e
    BY <1>2, <1>13 DEF MadeDue, Turn
  <2>2. Hist(O, x, "persist", ts, e, M)
    BY <1>5, <1>6, <2>1, HistGoesOn
  <2> QED BY <1>7, <2>1, <2>2
<1>14. CASE Ended(i)
  <2>1. /\ a = "after" /\ (ts = <<>> \/ d.task = x)
        /\ plan'[i].at = "ended" /\ plan'[i].tasks = ts /\ plan'[i].due = d
    BY <1>2, <1>14 DEF Ended, Turn
  <2>2. ts # <<>> => d.task = Head(ts)
    BY <1>6, <2>1 DEF Late
  <2>3. Hist(O, x, "ended", ts, d, M)
    BY <1>3, <1>4, <1>5, <2>1, <2>2, HistEnds
  <2> QED BY <1>7, <2>1, <2>3
<1>15. CASE Unacknowledged(i) \/ Killed(i)
  <2>1. PICK b \in {"unacknowledged", "dead"} : plan'[i].at = b /\ plan'[i].tasks = ts /\ plan'[i].due = d
    BY <1>2, <1>15 DEF Unacknowledged, Killed, Going, Turn
  <2>2. Hist(O, x, b, ts, d, M)
    BY <1>5, HistGoesOn
  <2> QED BY <1>7, <2>1, <2>2
<1>16. CASE Failing(i)
  <2>1. /\ a = "after" /\ ts # <<>> /\ d.task # x /\ d.outcome # "passed"
        /\ Turn(i, "persist", <<>>, Result(i, x, d.outcome, 1))
    BY <1>2, <1>16 DEF Failing
  <2>2. d.outcome \in Outcome /\ d.task = Head(ts)
    BY <1>2, <1>6, <2>1, LateResult DEF Late
  <2>3. PICK e, us : e = Result(i, x, d.outcome, 1) /\ us = <<>>
    OBVIOUS
  <2>4. e.task = x /\ e.outcome = d.outcome
    BY <1>3, <2>2, <2>3, ResultType
  <2>5. Hist(O, x, "persist", <<>>, e, M)
    BY <1>3, <1>4, <1>5, <2>1, <2>2, <2>4, HistFails
  <2>6. plan'[i].at = "persist" /\ plan'[i].tasks = us /\ plan'[i].due = e
    BY <2>1, <2>3 DEF Turn
  <2> QED BY <1>7, <2>3, <2>5, <2>6
<1>17. CASE Continued(i)
  <2>1. PICK q : q = Tail(ts)
    OBVIOUS
  <2>2. /\ a = "after" /\ ts # <<>> /\ d.task # x /\ d.outcome = "passed"
        /\ plan'[i].at = "plan" /\ plan'[i].tasks = q /\ plan'[i].due = d
    BY <1>2, <1>17, <2>1 DEF Continued, Turn
  <2>3. d.task = Head(ts)
    BY <1>6, <2>2 DEF Late
  <2>4. Hist(O, x, "plan", q, d, M)
    BY <1>3, <1>4, <1>5, <2>1, <2>2, <2>3, HistContinues
  <2> QED BY <1>7, <2>2, <2>4
<1>18. CASE HasRead(i) \/ Truncated(i) \/ Rewritten(i)
  <2>1. PICK b \in {"read", "truncate", "write", "after"} :
          a \in {"read", "truncate", "write"} /\ plan'[i].at = b /\ plan'[i].tasks = ts /\ plan'[i].due = d
    BY <1>2, <1>18 DEF HasRead, Truncated, Rewritten, Going, Turn
  <2>2. Hist(O, x, b, ts, d, M)
    BY <1>5, <2>1, HistGoesOn
  <2> QED BY <1>7, <2>1, <2>2
<1> QED
  BY <1>9, <1>10, <1>11, <1>12, <1>13, <1>14, <1>15, <1>16, <1>17, <1>18 DEF Moving, PlanMove, FileMove

(* A result is told when there is none of its task yet.                    *)
LEMMA AppendsOnce ==
  ASSUME PlanTypeOK, NEW i \in Invocation, OnceAt(i), HistAt(i), Appended(i)
  PROVE  OnceAt(i)' /\ HistAt(i)'
<1>1. PICK O, x, ts, d, M :
        O = ExecutionOrder(Root[i]) /\ x = Root[i] /\ ts = plan[i].tasks /\ d = plan[i].due /\ M = Heard(i)
  OBVIOUS
<1>2. plan[i].at = "persist" /\ x \in Task /\ ts \in Seq(Task) /\ DueOf(i)
  BY <1>1, PlanFields DEF Appended
<1>3. PlanOf(x, O)
  BY <1>1, <1>2, OrderFacts
<1>4. Hist(O, x, "persist", ts, d, M)
  BY <1>1, <1>2 DEF HistAt
<1>5. d \in Results /\ d.by = i /\ d.task \in Task /\ (ts # <<>> => d.task = Head(ts))
  BY <1>1, <1>2, LateResult DEF DueOf, Late
<1>6. M[d.task] = {}
  <2>1. CASE ts = <<>>
    BY <1>4, <2>1 DEF Hist, LastHist, Late
  <2>2. CASE ts # <<>>
    <3>1. PICK p \in 1..Len(O) : UpTo(O, p, ts, M) /\ M[O[p]] = {}
      BY <1>4, <2>2 DEF Hist, NextHist
    <3>2. d.task = O[p]
      BY <1>2, <1>3, <1>5, <2>2, <3>1, RestHead DEF UpTo
    <3> QED BY <3>1, <3>2
  <2> QED BY <2>1, <2>2
<1>7. PICK s : s = told[d.task]
  OBVIOUS
<1>8. told \in [Task -> Seq(Results)] /\ s \in Seq(Results)
  BY <1>5, <1>7 DEF PlanTypeOK, FilesTyped
<1>9. Of(i, s) = {} /\ Once(i, s)
  BY <1>1, <1>5, <1>6, <1>7 DEF Heard, OnceAt
<1>10. told' = [told EXCEPT ![d.task] = Append(s, d)]
  BY <1>1, <1>7 DEF Appended
<1>11. told'[d.task] = Append(s, d) /\ \A t \in Task : t # d.task => told'[t] = told[t]
  BY <1>5, <1>8, <1>10
<1>12. Once(i, Append(s, d)) /\ Of(i, Append(s, d)) = {d}
  BY <1>5, <1>8, <1>9, OfAppend
<1>13. OnceAt(i)'
  BY <1>11, <1>12 DEF OnceAt
<1>14. PICK N : N = [t \in Task |-> Of(i, told'[t])]
  OBVIOUS
<1>15. Tells(M, N, d)
  <2>1. N[d.task] = {d}
    BY <1>5, <1>11, <1>12, <1>14
  <2>2. \A t \in Task : t # d.task => N[t] = M[t]
    BY <1>1, <1>11, <1>14 DEF Heard
  <2> QED BY <1>6, <2>1, <2>2 DEF Tells
<1>16. PICK b \in {"read", "after"} : plan'[i].at = b /\ plan'[i].tasks = ts /\ plan'[i].due = d
  BY <1>1 DEF Appended, Going, Turn
<1>17. Hist(O, x, b, ts, d, N)
  BY <1>2, <1>3, <1>4, <1>5, <1>15, <1>16, HistTells
<1>18. Heard(i)' = N
  BY <1>14 DEF Heard
<1>19. HistAt(i)'
  BY <1>1, <1>16, <1>17, <1>18 DEF HistAt
<1> QED BY <1>13, <1>19

LEMMA OthersTellNothing ==
  ASSUME PlanTypeOK, NEW i \in Invocation, Moving(i), NEW j \in Invocation \ {i}, OnceAt(j), HistAt(j)
  PROVE  OnceAt(j)' /\ HistAt(j)'
<1>1. plan'[j] = plan[j]
  BY OtherPlansStay
<1>2. \A t \in Task : Of(j, told'[t]) = Of(j, told[t]) /\ Once(j, told'[t])
  <2>1. CASE told' = told
    BY <2>1 DEF OnceAt
  <2>2. CASE Appended(i)
    <3>1. PICK d : d = plan[i].due
      OBVIOUS
    <3>2. d \in Results /\ d.by = i /\ d.task \in Task /\ d.by # j
      BY <2>2, <3>1, LateResult DEF Appended, Late
    <3>3. PICK s : s = told[d.task]
      OBVIOUS
    <3>4. told \in [Task -> Seq(Results)] /\ s \in Seq(Results)
      BY <3>2, <3>3 DEF PlanTypeOK, FilesTyped
    <3>5. told' = [told EXCEPT ![d.task] = Append(s, d)]
      BY <2>2, <3>1, <3>3 DEF Appended
    <3>6. told'[d.task] = Append(s, d) /\ \A t \in Task : t # d.task => told'[t] = told[t]
      BY <3>2, <3>4, <3>5
    <3>7. Once(j, s)
      BY <3>2, <3>3 DEF OnceAt
    <3>8. Once(j, Append(s, d)) /\ Of(j, Append(s, d)) = Of(j, s)
      BY <3>2, <3>4, <3>7, OfAppend
    <3> QED BY <3>3, <3>6, <3>8 DEF OnceAt
  <2> QED BY <2>1, <2>2 DEF Moving, FileMove, HasRead, Truncated, Rewritten, Killed, filevars
<1>3. OnceAt(j)'
  BY <1>2 DEF OnceAt
<1>4. Heard(j)' = Heard(j)
  BY <1>2 DEF Heard
<1> QED BY <1>1, <1>3, <1>4 DEF HistAt

LEMMA PlanHistKept ==
  ASSUME PlanTypeOK, PlanHist, [PlanNext]_planvars
  PROVE  PlanHist'
<1>1. UNCHANGED <<plan, filevars>> \/ \E i \in Invocation : Moving(i)
  BY StepMoves
<1>2. CASE UNCHANGED <<plan, filevars>>
  <2> SUFFICES ASSUME NEW j \in Invocation PROVE OnceAt(j)' /\ HistAt(j)'
    BY DEF PlanHist
  <2>1. OnceAt(j) /\ HistAt(j) /\ plan' = plan /\ told' = told
    BY <1>2 DEF PlanHist, filevars
  <2>2. Heard(j)' = Heard(j)
    BY <2>1 DEF Heard
  <2> QED BY <2>1, <2>2 DEF OnceAt, HistAt
<1>3. ASSUME NEW i \in Invocation, Moving(i) PROVE PlanHist'
  <2> SUFFICES ASSUME NEW j \in Invocation PROVE OnceAt(j)' /\ HistAt(j)'
    BY DEF PlanHist
  <2>1. OnceAt(j) /\ HistAt(j) /\ OnceAt(i) /\ HistAt(i)
    BY DEF PlanHist
  <2>2. CASE j # i
    <3>1. j \in Invocation \ {i}
      BY <2>2
    <3> QED BY <1>3, <2>1, <3>1, OthersTellNothing
  <2>3. CASE j = i /\ Appended(i)
    BY <2>1, <2>3, AppendsOnce
  <2>4. CASE j = i /\ ~Appended(i)
    <3>1. told' = told /\ HistAt(i)'
      BY <1>3, <2>1, <2>4, MovesKeepHist
    <3>2. OnceAt(i)'
      BY <2>1, <3>1 DEF OnceAt
    <3> QED BY <2>4, <3>1, <3>2
  <2> QED BY <2>2, <2>3, <2>4
<1> QED BY <1>1, <1>2, <1>3

LEMMA PlanHistInit == PlanInit => PlanHist
<1> SUFFICES ASSUME PlanInit, NEW i \in Invocation PROVE OnceAt(i) /\ HistAt(i)
  BY DEF PlanHist
<1>1. PICK e : e = <<>>
  OBVIOUS
<1>2. Len(e) = 0 /\ DOMAIN e = 1..Len(e) /\ 1..Len(e) = {}
  BY <1>1
<1>3. told = [t \in Task |-> e] /\ plan[i].at = "off"
  BY <1>1 DEF PlanInit
<1>4. \A t \in Task : Of(i, told[t]) = {} /\ Once(i, told[t])
  <2>1. ToSet(e) = {}
    BY <1>2 DEF ToSet
  <2>2. Of(i, e) = {} /\ Once(i, e)
    BY <1>2, <2>1 DEF Of, Once
  <2> QED BY <1>3, <2>2
<1>5. OnceAt(i)
  BY <1>4 DEF OnceAt
<1>6. PICK M : M = Heard(i)
  OBVIOUS
<1>7. \A t \in Task : M[t] = {}
  BY <1>4, <1>6 DEF Heard
<1>8. HistAt(i)
  BY <1>3, <1>6, <1>7 DEF HistAt, Hist, EarlyHist, NextHist, ToldHist, LastHist, EndHist, Early, Late
<1> QED BY <1>5, <1>8

LEMMA OrderKept ==
  ASSUME PlanTypeOK, PlanHist
  PROVE  PlansInOrder
<1> SUFFICES ASSUME NEW i \in Invocation
             PROVE  At(i, "command") =>
                      \A d \in ToSet(Front(ExecutionOrder(Head(plan[i].tasks)))) :
                        \E r \in ToSet(told[d]) : r.by = i /\ r.outcome = "passed"
  BY DEF PlansInOrder
<1> HAVE At(i, "command")
<1> TAKE e \in ToSet(Front(ExecutionOrder(Head(plan[i].tasks))))
<1>1. PICK O, x, ts, d, M :
        O = ExecutionOrder(Root[i]) /\ x = Root[i] /\ ts = plan[i].tasks /\ d = plan[i].due /\ M = Heard(i)
  OBVIOUS
<1>2. x \in Task /\ ts \in Seq(Task)
  BY <1>1, PlanFields
<1>3. PlanOf(x, O)
  BY <1>1, <1>2, OrderFacts
<1>4. Hist(O, x, "command", ts, d, M)
  BY <1>1 DEF PlanHist, HistAt, At
<1>5. PICK p \in 1..Len(O) : UpTo(O, p, ts, M) /\ M[O[p]] = {}
  BY <1>4 DEF Hist, NextHist
<1>6. Head(ts) = O[p]
  BY <1>2, <1>3, <1>5, RestHead DEF UpTo
<1>7. O \in Seq(Task) /\ Ordered(DependsOn, O) /\ e \in ToSet(Front(ExecutionOrder(O[p])))
  BY <1>1, <1>3, <1>6 DEF PlanOf
<1>8. PICK m \in 1..Len(O) : m < p /\ O[m] = e
  BY <1>7, OrderedBefore
<1>9. e \in Task
  BY <1>7, <1>8
<1>10. M[e] # {} /\ \A r \in M[e] : r.outcome = "passed"
  BY <1>5, <1>8 DEF UpTo
<1>11. M[e] = Of(i, told[e])
  BY <1>1, <1>9 DEF Heard
<1> QED BY <1>10, <1>11 DEF Of

LEMMA WordKept ==
  ASSUME PlanTypeOK, PlanHist
  PROVE  PlansAreTold
<1> SUFFICES ASSUME NEW i \in Invocation
             PROVE  LET OfI(t) == {r \in ToSet(told[t]) : r.by = i}
                        order == ExecutionOrder(Root[i]) IN
                    /\ \A t \in Task : \A m, n \in DOMAIN told[t] : told[t][m].by = i /\ told[t][n].by = i => m = n
                    /\ At(i, "ended") =>
                         \E r \in OfI(Root[i]) :
                           /\ r.outcome = "passed" <=> \A t \in ToSet(order) : \E d \in OfI(t) : d.outcome = "passed"
                           /\ \A t \in ToSet(Front(order)) : \A d \in OfI(t) : d.outcome \in {"passed", r.outcome}
  BY DEF PlansAreTold
<1>1. ASSUME NEW t \in Task, NEW m \in DOMAIN told[t], NEW n \in DOMAIN told[t],
             told[t][m].by = i, told[t][n].by = i
      PROVE  m = n
  <2>1. PICK s : s = told[t]
    OBVIOUS
  <2>2. s \in Seq(Results)
    BY <2>1 DEF PlanTypeOK, FilesTyped
  <2>3. Once(i, s) /\ DOMAIN s = 1..Len(s)
    BY <2>1, <2>2 DEF PlanHist, OnceAt
  <2> QED BY <1>1, <2>1, <2>3 DEF Once
<1>2. ASSUME plan[i].at = "ended"
      PROVE  \E r \in Of(i, told[Root[i]]) :
               /\ r.outcome = "passed" <=>
                    \A t \in ToSet(ExecutionOrder(Root[i])) : \E d \in Of(i, told[t]) : d.outcome = "passed"
               /\ \A t \in ToSet(Front(ExecutionOrder(Root[i]))) :
                    \A d \in Of(i, told[t]) : d.outcome \in {"passed", r.outcome}
  <2>1. PICK O, x, ts, d, M :
          O = ExecutionOrder(Root[i]) /\ x = Root[i] /\ ts = plan[i].tasks /\ d = plan[i].due /\ M = Heard(i)
    OBVIOUS
  <2>2. x \in Task
    BY <2>1, PlanFields
  <2>3. PlanOf(x, O)
    BY <2>1, <2>2, OrderFacts
  <2>4. /\ O \in Seq(Task) /\ O # <<>> /\ Len(O) \in 1..Len(O) /\ O[Len(O)] = x
        /\ \A m \in 1..Len(O) : O[m] \in Task
    BY <2>2, <2>3, OrderedOnce DEF PlanOf
  <2>5. Hist(O, x, "ended", ts, d, M)
    BY <1>2, <2>1 DEF PlanHist, HistAt
  <2>6. PICK r : /\ M[x] = {r} /\ SaysOf(O, M, r.outcome)
                 /\ r.outcome = "passed" <=> \A m \in 1..Len(O) : \E e \in M[O[m]] : e.outcome = "passed"
    BY <2>5 DEF Hist, EndHist
  <2>7. \A t \in Task : M[t] = Of(i, told[t])
    BY <2>1 DEF Heard
  <2>8. r \in Of(i, told[x])
    BY <2>2, <2>6, <2>7
  <2>9. \A t : t \in ToSet(O) <=> \E m \in 1..Len(O) : O[m] = t
    BY <2>4, InSequence DEF Listed
  <2>10. r.outcome = "passed" <=> \A t \in ToSet(O) : \E e \in Of(i, told[t]) : e.outcome = "passed"
    BY <2>4, <2>6, <2>7, <2>9
  <2>11. ASSUME NEW t \in ToSet(Front(O)), NEW e \in Of(i, told[t]) PROVE e.outcome \in {"passed", r.outcome}
    <3>1. PICK m \in 1..Len(O) : m < Len(O) /\ O[m] = t
      BY <2>4, InFront
    <3>2. e \in M[O[m]]
      BY <2>4, <2>7, <2>11, <3>1
    <3> QED BY <2>6, <3>1, <3>2 DEF SaysOf
  <2> QED BY <2>1, <2>8, <2>10, <2>11
<1> QED BY <1>1, <1>2 DEF At, Of

(* Every plan keeps its order and its word, whatever the tasks and however *)
(* many invocations: no command runs on top of what has not passed, no     *)
(* task is told twice, and the result of the root is that of the plan      *)
(* (execute_inner, dependency_failure_result, record_preflight_result).    *)
THEOREM PlansKeepTheirWord == PlanSpec => []PlansAreKept
<1>1. PlanInit => PlanTypeOK /\ PlanHist
  BY PlanTypeInit, PlanHistInit
<1>2. PlanTypeOK /\ PlanHist /\ [PlanNext]_planvars => (PlanTypeOK /\ PlanHist)'
  BY PlanTypeKept, PlanHistKept
<1>3. PlanTypeOK /\ PlanHist => PlansAreKept
  <2> SUFFICES ASSUME PlanTypeOK, PlanHist PROVE PlansInOrder /\ PlansAreTold
    BY DEF PlansAreKept
  <2>1. PlansInOrder
    BY OrderKept
  <2>2. PlansAreTold
    BY WordKept
  <2> QED BY <2>1, <2>2
<1> QED BY <1>1, <1>2, <1>3, PTL DEF PlanSpec
=============================================================================
