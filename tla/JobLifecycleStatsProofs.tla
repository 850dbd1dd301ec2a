----------------------- MODULE JobLifecycleStatsProofs -----------------------
(***************************************************************************)
(* The pool's ActiveWorkers gauge, for every set of workers and every     *)
(* bound on failures and restarts.  Every worker step moves only its own  *)
(* goroutine into or out of processJob, and runWorker's                   *)
(* incrementActiveWorkers / decrementActiveWorkers move the gauge with    *)
(* it; a restart resets both.                                             *)
(***************************************************************************)
EXTENDS JobLifecycleProofs, FiniteSetTheorems

(* The goroutines inside processJob. *)
BusySet == {w \in Workers : Busy(w)}

(* The invariant, with the type invariant it is proved from. *)
AInv == TypeOK /\ ActiveWorkersAccurate

-----------------------------------------------------------------------------
(* How one worker's pc update moves the busy set. *)

LEMMA BusySetFinite == IsFiniteSet(BusySet) /\ Cardinality(BusySet) \in Nat
<1>1. IsFiniteSet(BusySet)
  BY ConstAssumption, FS_Subset DEF BusySet
<1>2. QED
  BY <1>1, FS_CardinalityType

(* A step that moves w into processJob adds one to the gauge. *)
LEMMA EnterBusy ==
    ASSUME NEW w \in Workers, ~Busy(w),
           BusySet' = BusySet \cup {w},
           activeWorkers = Cardinality(BusySet),
           activeWorkers' = activeWorkers + 1
    PROVE  ActiveWorkersAccurate'
<1>1. w \notin BusySet
  BY DEF BusySet
<1>2. Cardinality(BusySet \cup {w}) = Cardinality(BusySet) + 1
  BY <1>1, BusySetFinite, FS_AddElement
<1>3. QED
  BY <1>2 DEF ActiveWorkersAccurate, BusySet

(* A step that moves w out of processJob takes one from the gauge; the   *)
(* clamp in decrementActiveWorkers never applies, since w is counted.    *)
LEMMA LeaveBusy ==
    ASSUME NEW w \in Workers, Busy(w),
           BusySet' = BusySet \ {w},
           activeWorkers = Cardinality(BusySet),
           activeWorkers' = DecActive
    PROVE  ActiveWorkersAccurate'
<1>1. w \in BusySet
  BY DEF BusySet
<1>2. Cardinality(BusySet \ {w}) = Cardinality(BusySet) - 1
  BY <1>1, BusySetFinite, FS_RemoveElement
<1>3. Cardinality(BusySet) > 0
  BY <1>1, BusySetFinite, FS_EmptySet
<1>4. QED
  BY <1>2, <1>3 DEF ActiveWorkersAccurate, BusySet, DecActive

(* A step that leaves the busy set and the gauge as they are. *)
LEMMA KeepBusy ==
    ASSUME BusySet' = BusySet,
           activeWorkers = Cardinality(BusySet),
           activeWorkers' = activeWorkers
    PROVE  ActiveWorkersAccurate'
BY DEF ActiveWorkersAccurate, BusySet

(* A busy worker moving between places inside processJob. *)
LEMMA StayBusy ==
    ASSUME NEW w \in Workers, NEW p \in PC \ {"idle", "stopped"},
           pc \in [Workers -> PC], Busy(w),
           pc' = [pc EXCEPT ![w] = p],
           activeWorkers = Cardinality(BusySet),
           activeWorkers' = activeWorkers
    PROVE  ActiveWorkersAccurate'
<1>1. BusySet' = BusySet \cup {w}
  BY DEF BusySet, Busy
<1>2. BusySet \cup {w} = BusySet
  BY DEF BusySet
<1>3. QED
  BY <1>1, <1>2, KeepBusy

(* A worker leaving processJob for the loop top: Release and the clamped *)
(* decrementActiveWorkers.                                                *)
LEMMA ReleaseBusy ==
    ASSUME NEW w \in Workers, pc \in [Workers -> PC], Busy(w),
           Release(w),
           activeWorkers = Cardinality(BusySet),
           activeWorkers' = DecActive
    PROVE  ActiveWorkersAccurate'
<1>1. BusySet' = BusySet \ {w}
  BY DEF Release, BusySet, Busy
<1>2. QED
  BY <1>1, LeaveBusy

-----------------------------------------------------------------------------
(* Every step keeps the gauge equal to the number of busy goroutines. *)

LEMMA AccurateStep ==
    ASSUME TypeOK, ActiveWorkersAccurate, [Next]_vars
    PROVE  ActiveWorkersAccurate'
<1> USE DEF TypeOK
<1>0. activeWorkers = Cardinality(BusySet)
  BY DEF ActiveWorkersAccurate, BusySet
<1>1. ASSUME NEW j \in Jobs, NEW m \in MaxAttemptsReq, CreateJob(j, m)
      PROVE  ActiveWorkersAccurate'
  <2>1. pc' = pc /\ activeWorkers' = activeWorkers
    BY <1>1 DEF CreateJob, stats
  <2>2. QED
    BY <2>1, <1>0, KeepBusy DEF BusySet, Busy
<1>2. ASSUME NEW w \in Workers, Dequeue(w)
      PROVE  ActiveWorkersAccurate'
  <2>1. ~Busy(w) /\ BusySet' = BusySet \cup {w}
    BY <1>2 DEF Dequeue, BusySet, Busy
  <2>2. QED
    BY <2>1, <1>0, <1>2, EnterBusy DEF Dequeue
<1>3. ASSUME NEW w \in Workers, WorkerExit(w)
      PROVE  ActiveWorkersAccurate'
  <2>1. BusySet' = BusySet \ {w}
    BY <1>3 DEF WorkerExit, BusySet, Busy
  <2>2. w \notin BusySet
    BY <1>3 DEF WorkerExit, BusySet, Busy
  <2>3. activeWorkers' = activeWorkers
    BY <1>3 DEF WorkerExit, stats
  <2>4. QED
    BY <2>1, <2>2, <2>3, <1>0, KeepBusy
<1>4. ASSUME NEW w \in Workers, MarkProcessing(w)
      PROVE  ActiveWorkersAccurate'
  <2>1. Busy(w)
    BY <1>4 DEF MarkProcessing, Busy
  <2>2. CASE pc' = [pc EXCEPT ![w] = "start"] /\ UNCHANGED stats
    <3>1. "start" \in PC \ {"idle", "stopped"}
      BY DEF PC
    <3>2. QED
      BY <3>1, <2>1, <2>2, <1>0, StayBusy DEF stats
  <2>3. CASE Release(w) /\ activeWorkers' = DecActive
    BY <2>1, <2>3, <1>0, ReleaseBusy
  <2>4. QED
    BY <1>4, <2>2, <2>3 DEF MarkProcessing
<1>5. ASSUME NEW w \in Workers,
             \/ UpdateJobToProcessing(w)
             \/ UpdateJobToCompleted(w)
             \/ UpdateJobToFailedOrRetrying(w)
      PROVE  ActiveWorkersAccurate'
  <2>1. /\ Busy(w)
        /\ \E p \in PC \ {"idle", "stopped"} : pc' = [pc EXCEPT ![w] = p]
        /\ activeWorkers' = activeWorkers
    BY <1>5 DEF UpdateJobToProcessing, UpdateJobToCompleted,
                UpdateJobToFailedOrRetrying, Busy, PC, stats
  <2>2. QED
    BY <2>1, <1>0, StayBusy
<1>6. ASSUME NEW w \in Workers, Handle(w)
      PROVE  ActiveWorkersAccurate'
  <2>1. /\ Busy(w)
        /\ \E p \in PC \ {"idle", "stopped"} : pc' = [pc EXCEPT ![w] = p]
        /\ activeWorkers' = activeWorkers
    BY <1>6 DEF Handle, Busy, PC, stats
  <2>2. QED
    BY <2>1, <1>0, StayBusy
<1>7. ASSUME NEW w \in Workers, MarkCompleted(w) \/ MarkFailed(w)
      PROVE  ActiveWorkersAccurate'
  <2>1. Busy(w) /\ Release(w) /\ activeWorkers' = DecActive
    BY <1>7 DEF MarkCompleted, MarkFailed, Busy
  <2>2. QED
    BY <2>1, <1>0, ReleaseBusy
<1>8. CASE Stop \/ UNCHANGED vars
  <2>1. pc' = pc /\ activeWorkers' = activeWorkers
    BY <1>8 DEF Stop, vars, stats
  <2>2. QED
    BY <2>1, <1>0, KeepBusy DEF BusySet, Busy
<1>9. CASE Crash
  <2>1. BusySet' = {} /\ activeWorkers' = 0
    BY <1>9 DEF Crash, BusySet, Busy
  <2>2. QED
    BY <2>1, FS_EmptySet DEF ActiveWorkersAccurate, BusySet
<1>10. QED
  BY <1>1, <1>2, <1>3, <1>4, <1>5, <1>6, <1>7, <1>8, <1>9
     DEF Next, WorkerStep

(* PoolStats.ActiveWorkers equals the number of worker goroutines inside *)
(* processJob in every reachable state: runWorker's increment after       *)
(* BRPOP, the decrement on MarkProcessing's early return and after both  *)
(* completion paths, and the reset of a restarted process keep it exact, *)
(* so the clamp in decrementActiveWorkers never hides a lost decrement.  *)
THEOREM ActiveWorkersAccurateThm == Spec => []ActiveWorkersAccurate
<1>1. Init => ActiveWorkersAccurate
  <2> SUFFICES ASSUME Init PROVE ActiveWorkersAccurate
    OBVIOUS
  <2>1. BusySet = {} /\ activeWorkers = 0
    BY DEF Init, BusySet, Busy
  <2>2. QED
    BY <2>1, FS_EmptySet DEF ActiveWorkersAccurate, BusySet
<1>2. TypeOK /\ ActiveWorkersAccurate /\ [Next]_vars => ActiveWorkersAccurate'
  BY AccurateStep
<1>3. QED
  BY <1>1, <1>2, TypeCorrect, PTL DEF Spec

====
