--------------------------- MODULE ProcessLockProofs ---------------------------
(***************************************************************************)
(* What the process lock guarantees for any number of processes.           *)
(***************************************************************************)
EXTENDS ProcessLock, TLAPS

(* The processes that believe the lock is theirs. *)
Holding == {"writing", "running"}

(* Until a file is stolen, the file at the path is that of every holder;   *)
(* a removal is decided for a process that has been there and is gone.     *)
Held == ~stolen => \A p \in Procs : pc[p] \in Holding => path = p
Doomed == \A p \in Procs : pc[p] = "removing" => pc[recorded[p]] = "gone"
Born == \A p \in written : pc[p] # "unborn"

(* While the pre-rename process runs, its lock holds every start back. *)
BeyondLegacy == Steps \ {"unborn", "legacy", "gone"}
LegacyHeld ==
  legacy = "running" => /\ legacyFile = "pid"
                        /\ \A p \in Procs : pc[p] \notin BeyondLegacy

IInv == TypeOK /\ Held /\ Doomed /\ Born /\ LegacyHeld

-----------------------------------------------------------------------------
(* The initial states satisfy the invariant (prepare has not begun). *)
LEMMA InitInv == Init => IInv
  BY NoFileAssumption DEF Init, IInv, TypeOK, Held, Doomed, Born, LegacyHeld, Holding, In, Steps,
     Preparing, BeyondLegacy

(* Each system call of a start keeps the invariant: the checks of the      *)
(* legacy lock, and the loop of try_acquire_lock.                          *)
LEMMA PrepareInv == ASSUME IInv, NEW p \in Procs, Prepare(p) PROVE IInv'
  <1> USE DEF IInv, Goto, Refuse
  <1>1. CASE CheckLegacyLock(p)
    <2>1. TypeOK'
      BY <1>1 DEF CheckLegacyLock, TypeOK, In, Steps, Preparing
    <2>2. Held' /\ Doomed' /\ Born'
      BY <1>1 DEF CheckLegacyLock, TypeOK, Held, Doomed, Born, Holding, In, Steps, Preparing
    <2>3. LegacyHeld'
      BY <1>1 DEF CheckLegacyLock, TypeOK, LegacyHeld, BeyondLegacy, Steps, Preparing
    <2> QED BY <2>1, <2>2, <2>3
  <1>2. CASE UnlinkLegacy(p)
    <2>1. TypeOK'
      BY <1>2 DEF UnlinkLegacy, TypeOK, In, Steps, Preparing
    <2>2. Held' /\ Doomed' /\ Born'
      BY <1>2 DEF UnlinkLegacy, TypeOK, Held, Doomed, Born, Holding, In, Steps, Preparing
    <2>3. LegacyHeld'
      BY <1>2 DEF UnlinkLegacy, TypeOK, LegacyHeld, BeyondLegacy, Steps, Preparing
    <2> QED BY <2>1, <2>2, <2>3
  <1>3. CASE Create(p)
    <2>1. TypeOK'
      BY <1>3 DEF Create, TypeOK, In, Steps, Preparing
    <2>2. Held'
      BY <1>3, NoFileAssumption DEF Create, TypeOK, Held, Holding
    <2>3. Doomed' /\ Born'
      BY <1>3 DEF Create, TypeOK, Doomed, Born, In, Steps, Preparing
    <2>4. LegacyHeld'
      BY <1>3 DEF Create, TypeOK, LegacyHeld, BeyondLegacy, Steps, Preparing
    <2> QED BY <2>1, <2>2, <2>3, <2>4
  <1>4. CASE WritePid(p)
    <2>1. TypeOK'
      BY <1>4 DEF WritePid, TypeOK, In, Steps, Preparing
    <2>2. Held' /\ Doomed' /\ Born'
      BY <1>4 DEF WritePid, TypeOK, Held, Doomed, Born, Holding, In, Steps, Preparing
    <2>3. LegacyHeld'
      BY <1>4 DEF WritePid, TypeOK, LegacyHeld, BeyondLegacy, Steps, Preparing
    <2> QED BY <2>1, <2>2, <2>3
  <1>5. CASE ReadLock(p)
    <2>1. TypeOK'
      BY <1>5 DEF ReadLock, TypeOK, In, Steps, Preparing
    <2>2. Held' /\ Born'
      BY <1>5 DEF ReadLock, TypeOK, Held, Born, Holding, Steps, Preparing
    <2>3. Doomed'
      BY <1>5 DEF ReadLock, TypeOK, Doomed, In, Steps, Preparing
    <2>4. LegacyHeld'
      BY <1>5 DEF ReadLock, TypeOK, LegacyHeld, BeyondLegacy, Steps, Preparing
    <2> QED BY <2>1, <2>2, <2>3, <2>4
  <1>6. CASE CheckPid(p)
    <2>1. TypeOK'
      BY <1>6 DEF CheckPid, TypeOK, In, Steps, Preparing
    <2>2. Held' /\ Born'
      BY <1>6 DEF CheckPid, TypeOK, Held, Born, Holding, Steps, Preparing
    <2>3. Doomed'
      BY <1>6 DEF CheckPid, TypeOK, Doomed, Born, Alive, In, Steps, Preparing
    <2>4. LegacyHeld'
      BY <1>6 DEF CheckPid, TypeOK, LegacyHeld, BeyondLegacy, Steps, Preparing
    <2> QED BY <2>1, <2>2, <2>3, <2>4
  <1>7. CASE RemoveStale(p)
    <2>1. TypeOK'
      BY <1>7 DEF RemoveStale, TypeOK, In, Steps, Preparing
    <2>2. Held'
      BY <1>7 DEF RemoveStale, TypeOK, Held, Doomed, Holding, In
    <2>3. Doomed' /\ Born'
      BY <1>7 DEF RemoveStale, TypeOK, Doomed, Born, In, Steps, Preparing
    <2>4. LegacyHeld'
      BY <1>7 DEF RemoveStale, TypeOK, LegacyHeld, BeyondLegacy, Steps, Preparing
    <2> QED BY <2>1, <2>2, <2>3, <2>4
  <1> QED BY <1>1, <1>2, <1>3, <1>4, <1>5, <1>6, <1>7 DEF Prepare

(* Starts, ends and deaths keep the invariant: LockGuard::drop removes the *)
(* holder's own file, or steals one.                                       *)
LEMMA LifeInv ==
  ASSUME IInv, NEW p \in Procs, Start(p) \/ DropGuard(p) \/ Exit(p) \/ Crash(p)
  PROVE  IInv'
  <1> USE DEF IInv, Goto
  <1>1. CASE Start(p)
    <2>1. TypeOK'
      BY <1>1 DEF Start, TypeOK, In, Steps, Preparing
    <2>2. Held' /\ Doomed' /\ Born'
      BY <1>1 DEF Start, TypeOK, Held, Doomed, Born, Holding, In, Steps, Preparing
    <2>3. LegacyHeld'
      BY <1>1 DEF Start, TypeOK, LegacyHeld, BeyondLegacy, Steps, Preparing
    <2> QED BY <2>1, <2>2, <2>3
  <1>2. CASE DropGuard(p)
    <2>1. TypeOK'
      BY <1>2 DEF DropGuard, TypeOK, In, Steps, Preparing
    <2>2. Held'
      BY <1>2, NoFileAssumption DEF DropGuard, TypeOK, Held, Holding
    <2>3. Doomed' /\ Born'
      BY <1>2 DEF DropGuard, TypeOK, Doomed, Born, In, Steps, Preparing
    <2>4. LegacyHeld'
      BY <1>2 DEF DropGuard, TypeOK, LegacyHeld, BeyondLegacy, Steps, Preparing
    <2> QED BY <2>1, <2>2, <2>3, <2>4
  <1>3. CASE Exit(p) \/ Crash(p)
    <2>1. TypeOK'
      BY <1>3 DEF Exit, Crash, TypeOK, In, Steps, Preparing
    <2>2. Held' /\ Doomed' /\ Born'
      BY <1>3 DEF Exit, Crash, TypeOK, Held, Doomed, Born, Holding, In, Steps, Preparing
    <2>3. LegacyHeld'
      BY <1>3 DEF Exit, Crash, TypeOK, LegacyHeld, BeyondLegacy, Steps, Preparing
    <2> QED BY <2>1, <2>2, <2>3
  <1> QED BY <1>1, <1>2, <1>3

(* The invariant holds in every reachable state of the lock. *)
THEOREM Invariance == Spec => []IInv
  <1>1. IInv /\ [Next]_vars => IInv'
    <2> SUFFICES ASSUME IInv, [Next]_vars PROVE IInv'
      OBVIOUS
    <2>1. CASE \E p \in Procs : Start(p) \/ Prepare(p) \/ DropGuard(p) \/ Exit(p) \/ Crash(p)
      BY <2>1, PrepareInv, LifeInv
    <2>2. CASE LegacyEnds
      BY <2>2 DEF LegacyEnds, IInv, TypeOK, Held, Doomed, Born, LegacyHeld, Holding, In
    <2>3. CASE UNCHANGED vars
      BY <2>3 DEF vars, IInv, TypeOK, Held, Doomed, Born, LegacyHeld, Holding, In
    <2> QED BY <2>1, <2>2, <2>3 DEF Next
  <1> QED BY InitInv, <1>1, PTL DEF Spec

(* The variables of the lock keep their types (try_acquire_lock). *)
THEOREM LockTypes == Spec => []TypeOK
  BY Invariance, PTL DEF IInv

(* Two relays run only after a removal took a file it was not decided for. *)
THEOREM Exclusive == Spec => []ExclusiveUnlessStolen
  <1>1. IInv => ExclusiveUnlessStolen
    BY DEF IInv, Held, Holding, ExclusiveUnlessStolen, AtMostOneRuns, Running, In
  <1> QED BY Invariance, <1>1, PTL

(* No relay runs beside a live pre-rename process (check_legacy_lock). *)
THEOREM LegacyRespected == Spec => []NeverBesideLegacy
  <1>1. IInv => NeverBesideLegacy
    BY DEF IInv, LegacyHeld, BeyondLegacy, Steps, NeverBesideLegacy, Running, In
  <1> QED BY Invariance, <1>1, PTL

-----------------------------------------------------------------------------
(* Starts that do not overlap: one process prepares at a time, so the file *)
(* it has read stays at the path until it removes it or its owner does.    *)
Alone == \A p, q \in In(Preparing) : p = q
ReadIsCurrent == \A p \in In({"checking", "removing"}) : path \in {recorded[p], NoFile}
Sequential == ~overlapped => ~stolen /\ Alone /\ ReadIsCurrent

LEMMA SequentialStep == ASSUME IInv, Sequential, Next PROVE Sequential'
  <1> USE DEF Sequential, IInv, Goto, Refuse
  <1> SUFFICES ASSUME ~overlapped' PROVE (~stolen /\ Alone /\ ReadIsCurrent)'
    OBVIOUS
  <1>1. ASSUME NEW p \in Procs, Start(p) PROVE (~stolen /\ Alone /\ ReadIsCurrent)'
    BY <1>1 DEF Start, TypeOK, Alone, ReadIsCurrent, In, Preparing
  <1>2. ASSUME NEW p \in Procs, Prepare(p) PROVE (~stolen /\ Alone /\ ReadIsCurrent)'
    <2>1. ~overlapped /\ ~stolen /\ Alone /\ ReadIsCurrent
      BY <1>2 DEF Prepare, CheckLegacyLock, UnlinkLegacy, Create, WritePid, ReadLock, CheckPid,
                  RemoveStale
    <2>2. p \in In(Preparing) /\ \A q \in Procs : q # p => pc[q] \notin Preparing
      BY <1>2, <2>1 DEF Prepare, CheckLegacyLock, UnlinkLegacy, Create, WritePid, ReadLock,
                        CheckPid, RemoveStale, Alone, In, Preparing
    <2>3. /\ \A q \in Procs : q # p => pc'[q] = pc[q]
          /\ pc'[p] \in Steps
      BY <1>2 DEF Prepare, CheckLegacyLock, UnlinkLegacy, Create, WritePid, ReadLock, CheckPid,
                  RemoveStale, TypeOK, Steps, Preparing
    <2>4. Alone'
      BY <2>2, <2>3 DEF Alone, In
    <2>5. ~stolen'
      BY <1>2, <2>1 DEF Prepare, CheckLegacyLock, UnlinkLegacy, Create, WritePid, ReadLock,
                        CheckPid, RemoveStale, ReadIsCurrent, In
    <2>6. pc'[p] \in {"checking", "removing"} => path' \in {recorded'[p], NoFile}
      BY <1>2, <2>1 DEF Prepare, CheckLegacyLock, UnlinkLegacy, Create, WritePid, ReadLock,
                        CheckPid, RemoveStale, ReadIsCurrent, In, TypeOK
    <2>7. ReadIsCurrent'
      BY <2>2, <2>3, <2>6 DEF ReadIsCurrent, In, Preparing
    <2> QED BY <2>4, <2>5, <2>7
  <1>3. ASSUME NEW p \in Procs, DropGuard(p) PROVE (~stolen /\ Alone /\ ReadIsCurrent)'
    <2>1. path = p
      BY <1>3 DEF DropGuard, Held, Holding
    <2> QED BY <1>3, <2>1 DEF DropGuard, TypeOK, Alone, ReadIsCurrent, In, Preparing
  <1>4. ASSUME NEW p \in Procs, Exit(p) \/ Crash(p) PROVE (~stolen /\ Alone /\ ReadIsCurrent)'
    BY <1>4 DEF Exit, Crash, TypeOK, Alone, ReadIsCurrent, In, Preparing
  <1>5. CASE LegacyEnds
    BY <1>5 DEF LegacyEnds, Alone, ReadIsCurrent, In
  <1> QED BY <1>1, <1>2, <1>3, <1>4, <1>5 DEF Next

(* Starts that never overlap keep the single instance: crashes, failed     *)
(* writes and reused pids alone do not break it.                           *)
THEOREM SequentialStartsExclude == Spec => []ExclusiveWithoutOverlap
  <1>1. Init => Sequential
    BY DEF Init, Sequential, Alone, ReadIsCurrent, In, Preparing
  <1>2. IInv /\ Sequential /\ [Next]_vars => Sequential'
    <2> SUFFICES ASSUME IInv, Sequential, [Next]_vars PROVE Sequential'
      OBVIOUS
    <2>1. CASE UNCHANGED vars
      BY <2>1 DEF vars, Sequential, Alone, ReadIsCurrent, In
    <2> QED BY <2>1, SequentialStep
  <1>3. IInv /\ Sequential => ExclusiveWithoutOverlap
    BY DEF IInv, Sequential, Held, Holding, ExclusiveWithoutOverlap, AtMostOneRuns, Running, In
  <1> QED BY Invariance, <1>1, <1>2, <1>3, PTL DEF Spec

(* A lock that names no process is never cleared by a start that meant it. *)
THEOREM AmbiguousStays == Spec => AmbiguousLockStays
  <1>1. IInv /\ [Next]_vars =>
          [path # NoFile /\ path \notin written /\ ~Alive(path) /\ ~stolen' => path' = path]_vars
    <2> SUFFICES ASSUME IInv, Next, path # NoFile, path \notin written, ~Alive(path), ~stolen'
                 PROVE  path' = path
      BY DEF vars
    <2>1. ASSUME NEW p \in Procs, Start(p) \/ Exit(p) \/ Crash(p) PROVE path' = path
      BY <2>1 DEF Start, Exit, Crash
    <2>2. ASSUME NEW p \in Procs, Prepare(p) PROVE path' = path
      <3>1. CASE RemoveStale(p)
        <4>1. recorded[p] \in written
          BY <3>1 DEF RemoveStale, IInv, TypeOK, In
        <4>2. path # recorded[p]
          BY <4>1
        <4> QED BY <3>1, <4>2 DEF RemoveStale
      <3>2. CASE Create(p)
        BY <3>2 DEF Create
      <3>3. CASE CheckLegacyLock(p) \/ UnlinkLegacy(p) \/ WritePid(p) \/ ReadLock(p) \/ CheckPid(p)
        BY <3>3 DEF CheckLegacyLock, UnlinkLegacy, WritePid, ReadLock, CheckPid
      <3> QED BY <2>2, <3>1, <3>2, <3>3 DEF Prepare
    <2>3. ASSUME NEW p \in Procs, DropGuard(p) PROVE path' = path
      BY <2>3 DEF DropGuard, Alive
    <2>4. CASE LegacyEnds
      BY <2>4 DEF LegacyEnds
    <2> QED BY <2>1, <2>2, <2>3, <2>4 DEF Next
  <1> QED BY Invariance, <1>1, PTL DEF Spec, AmbiguousLockStays
===============================================================================
