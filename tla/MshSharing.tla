----------------------------- MODULE MshSharing -----------------------------
(***************************************************************************)
(* Proofs about the sharing protocol of Msh: scav_table_lock, the          *)
(* reallocatable flags, the lists and SCAV_TABLE.  SharingInv falls in two *)
(* halves.  The first, over lock, flags and program counters, is inductive *)
(* by itself; the second, over lists and table, uses the first to know     *)
(* that nobody else is in a critical section and that a victim is parked.  *)
(***************************************************************************)
EXTENDS MshTypes

ControlInv == LockHeld /\ FlagParked /\ ThiefExclusive

TableInv ==
    /\ ListedHosted
    /\ ListedOnce
    /\ PoppedUnlisted
    /\ PickedInPool
    /\ RetiresListed

-----------------------------------------------------------------------------
(* Lock and flags.                                                         *)

Parking == {"blocked", "exit"}
Stealing == {"steal", "push", "release"}

\* A step of t that neither takes nor drops lock or flags, and enters no
\* critical section, parking place or theft, keeps ControlInv.
LEMMA ControlFrame ==
    ASSUME ControlInv, NEW t \in Threads, NEW l \in Labels,
           pc \in [Threads -> Labels],
           pc' = [pc EXCEPT ![t] = l],
           l \in Critical => pc[t] \in Critical,
           l \in Stealing => pc[t] \in Stealing /\ tid'[t] = tid[t],
           pc[t] \in Parking => l \in Parking,
           \A u \in Threads \ {t} : tid'[u] = tid[u],
           UNCHANGED <<scav_table_lock, reallocatable>>
    PROVE  ControlInv'
<1> USE DEF ControlInv, Parking, Stealing
<1>1. LockHeld'
  BY DEF LockHeld
<1>2. FlagParked'
  BY DEF FlagParked
<1>3. ThiefExclusive'
  BY DEF ThiefExclusive
<1> QED
  BY <1>1, <1>2, <1>3

\* Taking the lock for a critical section that is not a theft.
LEMMA ControlLock ==
    ASSUME ControlInv, NEW t \in Threads, NEW l \in Labels \ Stealing,
           pc \in [Threads -> Labels],
           pc' = [pc EXCEPT ![t] = l],
           pc[t] \notin Parking \cup Stealing,
           SpinLock(t),
           \A u \in Threads \ {t} : tid'[u] = tid[u],
           UNCHANGED reallocatable
    PROVE  ControlInv'
<1> USE DEF ControlInv, Parking, Stealing, SpinLock
<1>1. FREE \notin Threads
  BY DEF FREE, Threads
<1>2. LockHeld'
  BY <1>1 DEF LockHeld
<1>3. FlagParked'
  BY DEF FlagParked
<1>4. ThiefExclusive'
  BY <1>1 DEF ThiefExclusive
<1> QED
  BY <1>2, <1>3, <1>4

\* Dropping it from a critical section that is not a theft.
LEMMA ControlUnlock ==
    ASSUME ControlInv, NEW t \in Threads, NEW l \in Labels \ Critical,
           pc \in [Threads -> Labels],
           pc' = [pc EXCEPT ![t] = l],
           pc[t] \in Critical \ Stealing,
           SpinUnlock,
           UNCHANGED <<tid, reallocatable>>
    PROVE  ControlInv'
<1> USE DEF ControlInv, Parking, Stealing, SpinUnlock
<1>1. \A u \in Threads \ {t} : pc[u] \notin Critical
  BY DEF LockHeld
<1>2. LockHeld'
  BY <1>1 DEF LockHeld
<1>3. FlagParked'
  BY DEF FlagParked, Critical
<1>4. ThiefExclusive'
  BY <1>1 DEF ThiefExclusive, Critical
<1> QED
  BY <1>2, <1>3, <1>4

\* What the control lemmas need of a jump.
LEMMA JumpControl ==
    ASSUME NEW t \in Threads, NEW c, Jump(t, c)
    PROVE  \E l \in {"app", "wild"} : pc' = [pc EXCEPT ![t] = l]
  BY DEF Jump, Goto

\* Every step keeps the first half of SharingInv.
LEMMA StepControl ==
    ASSUME TypeOK, ControlInv, NEW t \in Threads, Runtime(t) \/ Program(t)
    PROVE  ControlInv'
<1>0. /\ pc \in [Threads -> Labels]
      /\ tid \in [Threads -> 0 .. MAX_THREAD_NUM]
      /\ reallocatable \in [Threads -> BOOLEAN]
  BY DEF TypeOK
<1> USE <1>0
<1>1. CASE MshAllocCtx(t)
  <2>1. /\ pc[t] = "new"
        /\ pc' = [pc EXCEPT ![t] = "alloc"]
        /\ UNCHANGED <<tid, scav_table_lock, reallocatable>>
    BY <1>1 DEF MshAllocCtx, Goto, primVars, flagVars, innerVars, allocVars
  <2> QED
    BY <2>1, ControlFrame DEF Labels, Critical, Stealing, Parking
<1>2. CASE AllocateScav(t)
  <2>1. /\ pc[t] = "alloc"
        /\ \E l \in {"resume", "lock"} : pc' = [pc EXCEPT ![t] = l]
        /\ UNCHANGED <<tid, scav_table_lock, reallocatable>>
    BY <1>2 DEF AllocateScav, Goto, primVars, flagVars
  <2> QED
    BY <2>1, ControlFrame DEF Labels, Critical, Stealing, Parking
<1>3. CASE ScanEnd(t)
  <2>1. /\ pc[t] = "scan"
        /\ pc' = [pc EXCEPT ![t] = "pool"]
        /\ UNCHANGED <<tid, scav_table_lock, reallocatable>>
    BY <1>3 DEF ScanEnd, Goto, primVars, flagVars, innerVars, allocVars
  <2> QED
    BY <2>1, ControlFrame DEF Labels, Critical, Stealing, Parking
<1>4. CASE StealPop(t)
  <2>1. /\ pc[t] = "steal"
        /\ pc' = [pc EXCEPT ![t] = "push"]
        /\ UNCHANGED <<tid, scav_table_lock, reallocatable>>
    BY <1>4 DEF StealPop, Goto, flagVars
  <2> QED
    BY <2>1, ControlFrame DEF Labels, Critical, Stealing, Parking
<1>5. CASE StealPush(t)
  <2>1. /\ pc[t] = "push"
        /\ pc' = [pc EXCEPT ![t] = "steal"]
        /\ UNCHANGED <<tid, scav_table_lock, reallocatable>>
    BY <1>5 DEF StealPush, Goto
  <2> QED
    BY <2>1, ControlFrame DEF Labels, Critical, Stealing, Parking
<1>6. CASE StealRollback(t)
  <2>1. /\ pc[t] = "push"
        /\ pc' = [pc EXCEPT ![t] = "release"]
        /\ UNCHANGED <<tid, scav_table_lock, reallocatable>>
    BY <1>6 DEF StealRollback, Goto, flagVars
  <2> QED
    BY <2>1, ControlFrame DEF Labels, Critical, Stealing, Parking
<1>7. CASE StealEnd(t)
  <2>1. /\ pc[t] = "steal"
        /\ pc' = [pc EXCEPT ![t] = "release"]
        /\ UNCHANGED <<tid, scav_table_lock, reallocatable>>
    BY <1>7 DEF StealEnd, Goto, primVars, flagVars, innerVars, allocVars
  <2> QED
    BY <2>1, ControlFrame DEF Labels, Critical, Stealing, Parking
<1>8. CASE PoolPick(t)
  <2>1. /\ pc[t] = "pool"
        /\ pc' = [pc EXCEPT ![t] = "take"]
        /\ UNCHANGED <<tid, scav_table_lock, reallocatable>>
    BY <1>8 DEF PoolPick, Goto, primVars, flagVars
  <2> QED
    BY <2>1, ControlFrame DEF Labels, Critical, Stealing, Parking
<1>9. CASE PoolTake(t)
  <2>1. /\ pc[t] = "take"
        /\ \E l \in {"unlock", "pool"} : pc' = [pc EXCEPT ![t] = l]
        /\ UNCHANGED <<tid, scav_table_lock, reallocatable>>
    BY <1>9 DEF PoolTake, Goto, flagVars
  <2> QED
    BY <2>1, ControlFrame DEF Labels, Critical, Stealing, Parking
<1>10. CASE PoolEnd(t)
  <2>1. /\ pc[t] = "pool"
        /\ pc' = [pc EXCEPT ![t] = "unlock"]
        /\ UNCHANGED <<tid, scav_table_lock, reallocatable>>
    BY <1>10 DEF PoolEnd, Goto, primVars, flagVars, innerVars, allocVars
  <2> QED
    BY <2>1, ControlFrame DEF Labels, Critical, Stealing, Parking
<1>11. CASE CallInit(t)
  <2>1. /\ pc[t] = "init"
        /\ pc' = [pc EXCEPT ![t] = "resume"]
        /\ UNCHANGED <<tid, scav_table_lock, reallocatable>>
    BY <1>11 DEF CallInit, Goto, flagVars, innerVars, allocVars
  <2> QED
    BY <2>1, ControlFrame DEF Labels, Critical, Stealing, Parking
<1>12. CASE FinishPrimary(t)
  <2>1. /\ pc[t] = "finish"
        /\ pc' = [pc EXCEPT ![t] = "pack"]
        /\ UNCHANGED <<tid, scav_table_lock, reallocatable>>
    BY <1>12 DEF FinishPrimary, Goto, flagVars, innerVars, allocVars
  <2> QED
    BY <2>1, ControlFrame DEF Labels, Critical, Stealing, Parking
<1>13. CASE PackEnd(t)
  <2>1. /\ pc[t] = "pack"
        /\ pc' = [pc EXCEPT ![t] = "alloc"]
        /\ UNCHANGED <<tid, scav_table_lock, reallocatable>>
    BY <1>13 DEF PackEnd, Goto, flagVars, allocVars
  <2> QED
    BY <2>1, ControlFrame DEF Labels, Critical, Stealing, Parking
<1>14. CASE PackSkip(t)
  <2>1. /\ pc[t] = "pack"
        /\ pc' = [pc EXCEPT ![t] = "dispatch"]
        /\ UNCHANGED <<tid, scav_table_lock, reallocatable>>
    BY <1>14 DEF PackSkip, Goto, primVars, flagVars, innerVars, allocVars
  <2> QED
    BY <2>1, ControlFrame DEF Labels, Critical, Stealing, Parking
<1>15. CASE DispatchNext(t)
  <2>1. /\ pc[t] = "dispatch"
        /\ \E l \in {"app", "wild"} : pc' = [pc EXCEPT ![t] = l]
        /\ UNCHANGED <<tid, scav_table_lock, reallocatable>>
    BY <1>15, JumpControl
       DEF DispatchNext, Goto, primVars, flagVars, innerVars, allocVars
  <2> QED
    BY <2>1, ControlFrame DEF Labels, Critical, Stealing, Parking
<1>16. CASE DispatchCleanup(t)
  <2>1. /\ pc[t] = "dispatch"
        /\ \E l \in {"app", "wild", "cleanup"} : pc' = [pc EXCEPT ![t] = l]
        /\ UNCHANGED <<tid, scav_table_lock, reallocatable>>
    BY <1>16, JumpControl
       DEF DispatchCleanup, Goto, primVars, flagVars, innerVars, allocVars
  <2> QED
    BY <2>1, ControlFrame DEF Labels, Critical, Stealing, Parking
<1>17. CASE CleanupLoop(t)
  <2>1. /\ pc[t] = "cleanup"
        /\ \E l \in {"finish", "done", "app"} : pc' = [pc EXCEPT ![t] = l]
        /\ UNCHANGED <<tid, scav_table_lock, reallocatable>>
    BY <1>17 DEF CleanupLoop, Goto, flagVars, innerVars, allocVars
  <2> QED
    BY <2>1, ControlFrame DEF Labels, Critical, Stealing, Parking
<1>18. CASE PrimaryYield(t)
  <2>1. /\ pc[t] = "app"
        /\ \E l \in {"app", "wild"} : pc' = [pc EXCEPT ![t] = l]
        /\ UNCHANGED <<tid, scav_table_lock, reallocatable>>
    BY <1>18, JumpControl
       DEF PrimaryYield, Goto, flagVars, innerVars, allocVars, RunsPrimary
  <2> QED
    BY <2>1, ControlFrame DEF Labels, Critical, Stealing, Parking
<1>19. CASE ScavYield(t)
  <2>1. /\ pc[t] = "app"
        /\ \E l \in {"app", "wild"} : pc' = [pc EXCEPT ![t] = l]
        /\ UNCHANGED <<tid, scav_table_lock, reallocatable>>
    BY <1>19, JumpControl
       DEF ScavYield, Goto, flagVars, innerVars, allocVars, RunsScav
  <2> QED
    BY <2>1, ControlFrame DEF Labels, Critical, Stealing, Parking
<1>20. CASE ScavReturn(t)
  <2>1. /\ pc[t] = "app"
        /\ pc' = [pc EXCEPT ![t] = "finish"]
        /\ UNCHANGED <<tid, scav_table_lock, reallocatable>>
    BY <1>20
       DEF ScavReturn, Goto, primVars, flagVars, innerVars, allocVars,
           RunsScav
  <2> QED
    BY <2>1, ControlFrame DEF Labels, Critical, Stealing, Parking
<1>21. CASE Unblock(t)
  <2>1. /\ pc[t] = "blocked"
        /\ pc' = [pc EXCEPT ![t] = "exit"]
        /\ UNCHANGED <<tid, scav_table_lock, reallocatable>>
    BY <1>21 DEF Unblock, Goto, primVars, flagVars, innerVars, allocVars
  <2> QED
    BY <2>1, ControlFrame DEF Labels, Critical, Stealing, Parking
<1>22. CASE PthreadJoin(t)
  <2>1. /\ pc[t] = "app"
        /\ \E l \in {"app", "cleanup"} : pc' = [pc EXCEPT ![t] = l]
        /\ UNCHANGED <<tid, scav_table_lock, reallocatable>>
    <3>1. CASE SKIP_CLEANUP
      <4>1. pc' = pc /\ pc[t] = "app"
        BY <1>22, <3>1 DEF PthreadJoin, RunsPrimary
      <4> QED
        BY <1>22, <4>1 DEF PthreadJoin, flagVars, innerVars, allocVars
    <3>2. CASE ~SKIP_CLEANUP
      BY <1>22, <3>2
         DEF PthreadJoin, Goto, flagVars, innerVars, allocVars, BeginCleanup,
             RunsPrimary
    <3> QED
      BY <3>1, <3>2
  <2> QED
    BY <2>1, ControlFrame DEF Labels, Critical, Stealing, Parking
<1>23. CASE StartRoutineReturns(t)
  <2>1. /\ pc[t] = "app"
        /\ \E l \in {"done", "cleanup"} : pc' = [pc EXCEPT ![t] = l]
        /\ UNCHANGED <<tid, scav_table_lock, reallocatable>>
    BY <1>23
       DEF StartRoutineReturns, Goto, flagVars, innerVars, allocVars,
           BeginCleanup, RunsPrimary
  <2> QED
    BY <2>1, ControlFrame DEF Labels, Critical, Stealing, Parking
<1>24. CASE AllocLock(t)
  <2>1. /\ pc[t] = "lock"
        /\ pc' = [pc EXCEPT ![t] = "scan"]
        /\ SpinLock(t)
        /\ \A u \in Threads \ {t} : tid'[u] = tid[u]
        /\ UNCHANGED reallocatable
    BY <1>24 DEF AllocLock, Goto, primVars, flagVars
  <2> QED
    BY <2>1, ControlLock DEF Labels, Stealing, Parking
<1>25. CASE FinishLock(t)
  <2>1. /\ pc[t] = "close"
        /\ pc' = [pc EXCEPT ![t] = "retire"]
        /\ SpinLock(t)
        /\ \A u \in Threads \ {t} : tid'[u] = tid[u]
        /\ UNCHANGED reallocatable
    BY <1>25 DEF FinishLock, Goto, innerVars, allocVars, primVars, flagVars
  <2> QED
    BY <2>1, ControlLock DEF Labels, Stealing, Parking
<1>26. CASE PackLock(t)
  <2>1. /\ pc[t] = "pack"
        /\ pc' = [pc EXCEPT ![t] = "swap"]
        /\ SpinLock(t)
        /\ \A u \in Threads \ {t} : tid'[u] = tid[u]
        /\ UNCHANGED reallocatable
    BY <1>26 DEF PackLock, Goto, innerVars, allocVars, primVars, flagVars
  <2> QED
    BY <2>1, ControlLock DEF Labels, Stealing, Parking
<1>27. CASE AllocUnlock(t)
  <2>1. /\ pc[t] = "unlock"
        /\ pc' = [pc EXCEPT ![t] = "init"]
        /\ SpinUnlock
        /\ UNCHANGED <<tid, reallocatable>>
    BY <1>27 DEF AllocUnlock, Goto, innerVars, allocVars, primVars, flagVars
  <2> QED
    BY <2>1, ControlUnlock DEF Labels, Critical, Stealing
<1>28. CASE RetireScav(t)
  <2>1. /\ pc[t] = "retire"
        /\ pc' = [pc EXCEPT ![t] = "pack"]
        /\ SpinUnlock
        /\ UNCHANGED <<tid, reallocatable>>
    BY <1>28 DEF RetireScav, Goto, innerVars, allocVars, flagVars
  <2> QED
    BY <2>1, ControlUnlock DEF Labels, Critical, Stealing
<1>29. CASE SwapCrts(t)
  <2>1. /\ pc[t] = "swap"
        /\ pc' = [pc EXCEPT ![t] = "pack"]
        /\ SpinUnlock
        /\ UNCHANGED <<tid, reallocatable>>
    BY <1>29 DEF SwapCrts, Goto, innerVars, allocVars, flagVars
  <2> QED
    BY <2>1, ControlUnlock DEF Labels, Critical, Stealing
<1>30. CASE ResumeSched(t)
  <2>1. /\ pc[t] = "resume"
        /\ pc' = [pc EXCEPT ![t] = "dispatch"]
        /\ \A u \in Threads \ {t} : tid'[u] = tid[u]
        /\ UNCHANGED <<scav_table_lock, reallocatable>>
    BY <1>30 DEF ResumeSched, Goto, DropAllocLocals, flagVars
  <2> QED
    BY <2>1, ControlFrame DEF Labels, Critical, Stealing, Parking
<1>31. CASE ResumeExit(t)
  <2>1. /\ pc[t] = "resume"
        /\ pc' = [pc EXCEPT ![t] = "app"]
        /\ \A u \in Threads \ {t} : tid'[u] = tid[u]
        /\ UNCHANGED <<scav_table_lock, reallocatable>>
    BY <1>31 DEF ResumeExit, Goto, DropAllocLocals
  <2> QED
    BY <2>1, ControlFrame DEF Labels, Critical, Stealing, Parking
<1>32. CASE ScanSkip(t)
  BY <1>32 DEF ScanSkip, primVars, flagVars, ControlInv, LockHeld, FlagParked,
     ThiefExclusive
<1>33. CASE ResumeStart(t)
  <2>1. /\ pc' = [pc EXCEPT ![t] = "app"]
        /\ \A u \in Threads \ {t} : tid'[u] = tid[u]
        /\ reallocatable' = [reallocatable EXCEPT ![t] = FALSE]
        /\ UNCHANGED scav_table_lock
        /\ pc[t] = "resume"
    BY <1>33 DEF ResumeStart, Goto, DropAllocLocals
  <2> QED
    BY <2>1 DEF ControlInv, LockHeld, FlagParked, ThiefExclusive, Critical
<1>34. CASE ScanCapture(t)
  <2> DEFINE v == tid[t]
  <2>1. /\ pc' = [pc EXCEPT ![t] = "steal"]
        /\ reallocatable' = [reallocatable EXCEPT ![v] = FALSE]
        /\ UNCHANGED <<tid, scav_table_lock>>
        /\ pc[t] = "scan" /\ v \in Threads /\ reallocatable[v]
    BY <1>34 DEF ScanCapture, TakeFlag, Goto
  <2>2. pc[v] \in {"blocked", "exit"} /\ v # t
    BY <2>1 DEF ControlInv, FlagParked
  <2>3. \A u \in Threads \ {t} : pc[u] \notin Critical
    BY <2>1 DEF ControlInv, LockHeld, Critical
  <2>4. LockHeld'
    BY <2>1 DEF ControlInv, LockHeld, Critical
  <2>5. FlagParked'
    BY <2>1, <2>2 DEF ControlInv, FlagParked
  <2>6. ThiefExclusive'
    BY <2>1, <2>2, <2>3 DEF ControlInv, LockHeld, ThiefExclusive, Critical
  <2> QED
    BY <2>4, <2>5, <2>6 DEF ControlInv
<1>35. CASE ReleaseVictim(t)
  <2> DEFINE v == tid[t]
  <2>1. /\ \E l \in {"unlock", "scan"} : pc' = [pc EXCEPT ![t] = l]
        /\ reallocatable' = [reallocatable EXCEPT ![v] = TRUE]
        /\ \A u \in Threads \ {t} : tid'[u] = tid[u]
        /\ UNCHANGED scav_table_lock
        /\ pc[t] = "release"
    BY <1>35 DEF ReleaseVictim, GiveFlag, Goto
  <2>2. v \in Threads \ {t} /\ pc[v] \in {"blocked", "exit"}
    BY <2>1 DEF ControlInv, ThiefExclusive
  <2>3. \A u \in Threads \ {t} : pc[u] \notin Critical
    BY <2>1 DEF ControlInv, LockHeld, Critical
  <2>4. LockHeld'
    BY <2>1 DEF ControlInv, LockHeld, Critical
  <2>5. FlagParked'
    BY <2>1, <2>2 DEF ControlInv, FlagParked
  <2>6. ThiefExclusive'
    BY <2>1, <2>3 DEF ThiefExclusive, Critical
  <2> QED
    BY <2>4, <2>5, <2>6 DEF ControlInv
<1>36. CASE EnterBlockableCall(t)
  <2>1. /\ pc' = [pc EXCEPT ![t] = "blocked"]
        /\ reallocatable' = [reallocatable EXCEPT ![t] = TRUE]
        /\ UNCHANGED <<tid, scav_table_lock>>
        /\ pc[t] = "app"
    BY <1>36 DEF EnterBlockableCall, RunsPrimary, Goto, innerVars, allocVars
  <2> QED
    BY <2>1 DEF ControlInv, LockHeld, FlagParked, ThiefExclusive, Critical
<1>37. CASE ExitBlockableCall(t)
  <2>1. /\ \E l \in {"alloc", "app"} : pc' = [pc EXCEPT ![t] = l]
        /\ reallocatable' = [reallocatable EXCEPT ![t] = FALSE]
        /\ UNCHANGED <<tid, scav_table_lock>>
        /\ pc[t] = "exit" /\ reallocatable[t]
    BY <1>37 DEF ExitBlockableCall, TakeFlag, Goto, allocVars
  <2>2. \A u \in Threads : pc[u] \in {"steal", "push", "release"} => tid[u] # t
    BY <2>1 DEF ControlInv, ThiefExclusive
  <2> QED
    BY <2>1, <2>2 DEF ControlInv, LockHeld, FlagParked, ThiefExclusive,
                      Critical
<1>38. CASE CallInitLost(t)
  <2>1. /\ pc[t] = "init"
        /\ pc' = [pc EXCEPT ![t] = "wild"]
        /\ UNCHANGED <<tid, scav_table_lock, reallocatable>>
    BY <1>38 DEF CallInitLost, Goto, primVars, flagVars, innerVars, allocVars
  <2> QED
    BY <2>1, ControlFrame DEF Labels, Critical, Stealing, Parking
<1>39. CASE FinishScav(t)
  <2>1. /\ pc[t] = "finish"
        /\ pc' = [pc EXCEPT ![t] = "close"]
        /\ UNCHANGED <<tid, scav_table_lock, reallocatable>>
    BY <1>39 DEF FinishScav, Goto, flagVars, innerVars, allocVars
  <2> QED
    BY <2>1, ControlFrame DEF Labels, Critical, Stealing, Parking
<1> QED
  BY <1>1, <1>2, <1>3, <1>4, <1>5, <1>6, <1>7, <1>8, <1>9, <1>10, <1>11,
     <1>12, <1>13, <1>14, <1>15, <1>16, <1>17, <1>18, <1>19, <1>20, <1>21,
     <1>22, <1>23, <1>24, <1>25, <1>26, <1>27, <1>28, <1>29, <1>30, <1>31,
     <1>32, <1>33, <1>34, <1>35, <1>36, <1>37, <1>38, <1>39
  DEF Runtime, Program

-----------------------------------------------------------------------------
(* Lists and table.                                                        *)

\* A step of t that leaves lists and table alone, and enters no place where
\* TableInv says something of the thread, keeps TableInv.
LEMMA TableFrame ==
    ASSUME TableInv, NEW t \in Threads,
           NEW l \in Labels \ {"push", "take", "close", "retire"},
           pc \in [Threads -> Labels],
           pc' = [pc EXCEPT ![t] = l],
           \A u \in Threads \ {t} : /\ tid'[u] = tid[u]
                                    /\ item'[u] = item[u]
                                    /\ ret_pos'[u] = ret_pos[u]
                                    /\ crt_idx'[u] = crt_idx[u],
           UNCHANGED <<idx_list, yc, finished>>
    PROVE  TableInv'
<1>1. ListedHosted' /\ ListedOnce'
  BY DEF TableInv, ListedHosted, ListedOnce
<1>2. PoppedUnlisted'
  BY DEF TableInv, PoppedUnlisted
<1>3. PickedInPool'
  BY DEF TableInv, PickedInPool, InPool
<1>4. RetiresListed'
  BY DEF TableInv, RetiresListed
<1> QED
  BY <1>1, <1>2, <1>3, <1>4 DEF TableInv

\* While t is in a critical section nobody else is, so of the popped and the
\* picked scavengers only t's own is left to show.
LEMMA TableCritical ==
    ASSUME ControlInv, NEW t \in Threads, pc \in [Threads -> Labels],
           pc[t] \in Critical, NEW l \in Labels,
           pc' = [pc EXCEPT ![t] = l],
           l \notin {"push", "take"}
    PROVE  PoppedUnlisted' /\ PickedInPool'
<1>1. \A u \in Threads \ {t} : pc[u] \notin Critical
  BY DEF ControlInv, LockHeld
<1>2. \A u \in Threads : pc'[u] \notin {"push", "take"}
  BY <1>1 DEF Critical
<1> QED
  BY <1>2 DEF PoppedUnlisted, PickedInPool

\* A step of t keeps RetiresListed when it leaves alone the lists of the other
\* threads that are about to retire a scavenger, who are not parked.
LEMMA RetiresFrame ==
    ASSUME TableInv, NEW t \in Threads, pc \in [Threads -> Labels],
           NEW l \in Labels \ {"close", "retire"},
           pc' = [pc EXCEPT ![t] = l],
           \A u \in Threads \ {t} :
               pc[u] \notin Parking => idx_list'[u] = idx_list[u],
           UNCHANGED <<ret_pos, crt_idx>>
    PROVE  RetiresListed'
  BY DEF TableInv, RetiresListed, Parking

\* pop_back_from_list on a parked victim unlists one scavenger.
LEMMA StealPopTable ==
    ASSUME TypeOK, ControlInv, TableInv, NEW t \in Threads, StealPop(t)
    PROVE  TableInv'
<1> DEFINE v == tid[t]
<1>0. /\ pc \in [Threads -> Labels]
      /\ item \in [Threads -> Scavs \cup {EMPTY}]
      /\ idx_list \in [Threads -> [Slots -> Scavs \cup {EMPTY}]]
  BY DEF TypeOK
<1>1. /\ pc[t] = "steal"
      /\ pc' = [pc EXCEPT ![t] = "push"]
      /\ UNCHANGED <<tid, yc, finished>>
  BY DEF StealPop, Goto, tableVars
<1>2. PICK p \in Positions :
        /\ idx_list[v][p] # EMPTY
        /\ item' = [item EXCEPT ![t] = idx_list[v][p]]
        /\ idx_list' = [idx_list EXCEPT ![v][p] = EMPTY]
  BY DEF StealPop, IsLastOccupied, Occupied
<1>3. v \in Threads \ {t} /\ p \in Slots
  BY <1>1, Ranges DEF ControlInv, ThiefExclusive
<1>4. \A u \in Threads \ {t} : pc[u] \notin Critical
  BY <1>1 DEF ControlInv, LockHeld, Critical
<1>5. \A u \in Threads : \A q \in Slots :
        idx_list'[u][q] = IF u = v /\ q = p THEN EMPTY ELSE idx_list[u][q]
  BY <1>0, <1>2, <1>3
<1>6. ListedHosted'
  BY <1>1, <1>5 DEF TableInv, ListedHosted
<1>7. ListedOnce'
  BY <1>5 DEF TableInv, ListedOnce
<1>8. PoppedUnlisted'
  <2> DEFINE s == idx_list[v][p]
  <2>1. s \in Scavs /\ s # EMPTY
    BY <1>0, <1>2, <1>3
  <2>2. ~finished[s] /\ yc[s] # NULL /\ yc[s][1] = v
    BY <1>2, <1>3 DEF TableInv, ListedHosted
  <2>3. \A u \in Threads : \A q \in Slots : idx_list'[u][q] # s
    BY <1>2, <1>3, <1>5, <2>1 DEF TableInv, ListedOnce
  <2>4. item'[t] = s /\ tid'[t] = v
    BY <1>0, <1>1, <1>2
  <2>5. \A u \in Threads : pc'[u] = "push" => u = t
    BY <1>0, <1>1, <1>4 DEF Critical
  <2> QED
    BY <1>1, <2>1, <2>2, <2>3, <2>4, <2>5 DEF PoppedUnlisted
<1>9. PickedInPool'
  BY <1>0, <1>1, <1>4 DEF PickedInPool, Critical
<1>10. RetiresListed'
  <2>1. pc[v] \in Parking
    BY <1>1 DEF ControlInv, ThiefExclusive, Parking
  <2>2. \A u \in Threads \ {t} : pc[u] \notin Parking => idx_list'[u] = idx_list[u]
    BY <1>0, <1>2, <1>3, <2>1
  <2>3. UNCHANGED <<ret_pos, crt_idx>>
    BY DEF StealPop, outerVars, schedVars
  <2> QED
    BY <1>0, <1>1, <2>2, <2>3, RetiresFrame DEF Labels
<1> QED
  BY <1>6, <1>7, <1>8, <1>9, <1>10 DEF TableInv

\* push_back_to_list gives an unlisted scavenger one slot, and the yc pointer
\* follows: the thief's push and the pool's take.
LEMMA ListedPush ==
    ASSUME TypeOK, ListedHosted, ListedOnce, NEW u \in Threads,
           NEW p \in Slots, NEW s \in Scavs,
           ~finished[s],
           \A w \in Threads : \A q \in Slots : idx_list[w][q] # s,
           idx_list[u][p] = EMPTY,
           idx_list' = [idx_list EXCEPT ![u][p] = s],
           NEW c \in Positions, yc' = [yc EXCEPT ![s] = <<u, c>>],
           UNCHANGED finished
    PROVE  ListedHosted' /\ ListedOnce'
<1>0. /\ idx_list \in [Threads -> [Slots -> Scavs \cup {EMPTY}]]
      /\ yc \in [Scavs -> (Threads \X Positions) \cup {NULL}]
  BY DEF TypeOK
<1>1. \A w \in Threads : \A q \in Slots :
        idx_list'[w][q] = IF w = u /\ q = p THEN s ELSE idx_list[w][q]
  BY <1>0
<1>2. \A r \in Scavs : yc'[r] = IF r = s THEN <<u, c>> ELSE yc[r]
  BY <1>0
<1>3. <<u, c>> # NULL /\ <<u, c>>[1] = u
  BY DEF NULL, Threads
<1>4. ListedHosted'
  BY <1>0, <1>1, <1>2, <1>3 DEF ListedHosted
<1>5. ListedOnce'
  BY <1>0, <1>1 DEF ListedOnce
<1> QED
  BY <1>4, <1>5

\* realloc_scav hands the popped scavenger to the thief.
LEMMA StealPushTable ==
    ASSUME TypeOK, ControlInv, TableInv, NEW t \in Threads, StealPush(t)
    PROVE  TableInv'
<1>0. pc \in [Threads -> Labels]
  BY DEF TypeOK
<1>1. /\ pc[t] = "push"
      /\ pc' = [pc EXCEPT ![t] = "steal"]
      /\ UNCHANGED finished
  BY DEF StealPush, Goto
<1>2. PICK p \in Positions :
        /\ idx_list[t][p] = EMPTY
        /\ idx_list' = [idx_list EXCEPT ![t][p] = item[t]]
        /\ yc' = [yc EXCEPT ![item[t]] = <<t, p>>]
  BY DEF StealPush, IsFirstFree, Occupied
<1>3. /\ item[t] \in Scavs
      /\ ~finished[item[t]]
      /\ \A u \in Threads : \A q \in Slots : idx_list[u][q] # item[t]
  BY <1>1 DEF TableInv, PoppedUnlisted
<1>4. p \in Slots
  BY Ranges
<1>5. ListedHosted' /\ ListedOnce'
  BY <1>1, <1>2, <1>3, <1>4, ListedPush DEF TableInv
<1>6. PoppedUnlisted' /\ PickedInPool'
  BY <1>0, <1>1, TableCritical DEF Labels, Critical
<1>7. RetiresListed'
  <2>1. \A u \in Threads \ {t} : idx_list'[u] = idx_list[u]
    BY <1>2 DEF TypeOK
  <2>2. UNCHANGED <<ret_pos, crt_idx>>
    BY DEF StealPush, outerVars, schedVars
  <2> QED
    BY <1>0, <1>1, <2>1, <2>2, RetiresFrame DEF Labels
<1> QED
  BY <1>5, <1>6, <1>7 DEF TableInv

\* The rollback lists the popped scavenger with its old host again.
LEMMA StealRollbackTable ==
    ASSUME TypeOK, ControlInv, TableInv, NEW t \in Threads, StealRollback(t)
    PROVE  TableInv'
<1> DEFINE v == tid[t]
           s == item[t]
<1>0. /\ pc \in [Threads -> Labels]
      /\ idx_list \in [Threads -> [Slots -> Scavs \cup {EMPTY}]]
  BY DEF TypeOK
<1>1. /\ pc[t] = "push"
      /\ pc' = [pc EXCEPT ![t] = "release"]
      /\ UNCHANGED <<yc, finished>>
  BY DEF StealRollback, Goto, tableVars
<1>2. v \in Threads
  BY <1>1 DEF ControlInv, ThiefExclusive
<1>3. PICK p \in Positions : idx_list' = [idx_list EXCEPT ![v][p] = s]
  BY <1>0, <1>2 DEF StealRollback, PutBack
<1>4. /\ s \in Scavs
      /\ ~finished[s]
      /\ yc[s] # NULL
      /\ yc[s][1] = v
      /\ \A u \in Threads : \A q \in Slots : idx_list[u][q] # s
  BY <1>1 DEF TableInv, PoppedUnlisted
<1>5. \A w \in Threads : \A q \in Slots :
        idx_list'[w][q] = IF w = v /\ q = p THEN s ELSE idx_list[w][q]
  BY <1>0, <1>2, <1>3, Ranges
<1>6. ListedHosted'
  BY <1>1, <1>4, <1>5 DEF TableInv, ListedHosted
<1>7. ListedOnce'
  BY <1>4, <1>5 DEF TableInv, ListedOnce
<1>8. PoppedUnlisted' /\ PickedInPool'
  BY <1>0, <1>1, TableCritical DEF Labels, Critical
<1>9. RetiresListed'
  <2>1. pc[v] \in Parking
    BY <1>1 DEF ControlInv, ThiefExclusive, Parking
  <2>2. \A u \in Threads \ {t} : pc[u] \notin Parking => idx_list'[u] = idx_list[u]
    BY <1>0, <1>2, <1>3, <2>1
  <2>3. UNCHANGED <<ret_pos, crt_idx>>
    BY DEF StealRollback, outerVars, schedVars
  <2> QED
    BY <1>0, <1>1, <2>2, <2>3, RetiresFrame DEF Labels
<1> QED
  BY <1>6, <1>7, <1>8, <1>9 DEF TableInv

\* The pool loop looks at an entry ...
LEMMA PoolPickTable ==
    ASSUME TypeOK, ControlInv, TableInv, NEW t \in Threads, PoolPick(t)
    PROVE  TableInv'
<1>0. pc \in [Threads -> Labels] /\ item \in [Threads -> Scavs \cup {EMPTY}]
  BY DEF TypeOK
<1>1. /\ pc[t] = "pool"
      /\ pc' = [pc EXCEPT ![t] = "take"]
      /\ UNCHANGED <<idx_list, yc, finished>>
      /\ \E s \in Scavs : InPool(s) /\ item' = [item EXCEPT ![t] = s]
  BY DEF PoolPick, Goto, primVars, ctxVars, slotVars, tableVars
<1>2. \A u \in Threads \ {t} : pc[u] \notin Critical
  BY <1>1 DEF ControlInv, LockHeld, Critical
<1>3. ListedHosted' /\ ListedOnce'
  BY <1>1 DEF TableInv, ListedHosted, ListedOnce
<1>4. PoppedUnlisted' /\ RetiresListed'
  <2>1. PoppedUnlisted'
    BY <1>0, <1>1, <1>2 DEF PoppedUnlisted, Critical
  <2>2. UNCHANGED <<ret_pos, crt_idx>>
    BY DEF PoolPick, outerVars, schedVars
  <2>3. RetiresListed'
    BY <1>0, <1>1, <2>2, RetiresFrame DEF Labels
  <2> QED
    BY <2>1, <2>3
<1>5. PickedInPool'
  BY <1>0, <1>1, <1>2 DEF PickedInPool, InPool, Critical
<1> QED
  BY <1>3, <1>4, <1>5 DEF TableInv

\* ... and hosts it; an entry of the pool is in no list.
LEMMA PoolTakeTable ==
    ASSUME TypeOK, ControlInv, TableInv, NEW t \in Threads, PoolTake(t)
    PROVE  TableInv'
<1>0. pc \in [Threads -> Labels]
  BY DEF TypeOK
<1>1. /\ pc[t] = "take"
      /\ \E l \in {"unlock", "pool"} : pc' = [pc EXCEPT ![t] = l]
      /\ UNCHANGED finished
  BY DEF PoolTake, Goto
<1>2. PICK p \in Positions :
        /\ idx_list[t][p] = EMPTY
        /\ idx_list' = [idx_list EXCEPT ![t][p] = item[t]]
        /\ yc' = [yc EXCEPT ![item[t]] = <<t, p>>]
  BY DEF PoolTake, IsFirstFree, Occupied
<1>3. item[t] \in Scavs /\ yc[item[t]] = NULL /\ ~finished[item[t]]
  BY <1>1 DEF TableInv, PickedInPool, InPool
<1>4. \A u \in Threads : \A q \in Slots : idx_list[u][q] # item[t]
  <2>1. item[t] # EMPTY
    BY <1>3 DEF Scavs, EMPTY
  <2> QED
    BY <1>3, <2>1 DEF TableInv, ListedHosted
<1>5. p \in Slots
  BY Ranges
<1>6. ListedHosted' /\ ListedOnce'
  BY <1>1, <1>2, <1>3, <1>4, <1>5, ListedPush DEF TableInv
<1>7. PoppedUnlisted' /\ PickedInPool'
  BY <1>0, <1>1, TableCritical DEF Labels, Critical
<1>8. RetiresListed'
  <2>1. \A u \in Threads \ {t} : idx_list'[u] = idx_list[u]
    BY <1>2 DEF TypeOK
  <2>2. UNCHANGED <<ret_pos, crt_idx>>
    BY DEF PoolTake, outerVars, schedVars
  <2>3. PICK l \in {"unlock", "pool"} : pc' = [pc EXCEPT ![t] = l]
    BY <1>1
  <2> QED
    BY <1>0, <2>1, <2>2, <2>3, RetiresFrame DEF Labels
<1> QED
  BY <1>6, <1>7, <1>8 DEF TableInv

\* tl_finish_crt looks at the slot before it locks ...
LEMMA FinishScavTable ==
    ASSUME TypeOK, ControlInv, TableInv, NEW t \in Threads, FinishScav(t)
    PROVE  TableInv'
<1>0. /\ pc \in [Threads -> Labels]
      /\ crt_idx \in [Threads -> Scavs \cup {EMPTY}]
      /\ ret_pos \in [Threads -> Slots]
      /\ idx_list \in [Threads -> [Slots -> Scavs \cup {EMPTY}]]
  BY DEF TypeOK
<1>1. /\ idx_list[t][ret_pos[t]] # EMPTY
      /\ crt_idx' = [crt_idx EXCEPT ![t] = idx_list[t][ret_pos[t]]]
      /\ pc' = [pc EXCEPT ![t] = "close"]
      /\ UNCHANGED <<idx_list, yc, finished, item, tid, ret_pos>>
  BY DEF FinishScav, CrtIdxAt, Goto, slotVars, tableVars, innerVars, allocVars
<1>2. ListedHosted' /\ ListedOnce'
  BY <1>1 DEF TableInv, ListedHosted, ListedOnce
<1>3. PoppedUnlisted' /\ PickedInPool'
  BY <1>0, <1>1 DEF TableInv, PoppedUnlisted, PickedInPool, InPool
<1>4. RetiresListed'
  <2> SUFFICES ASSUME NEW u \in Threads, pc'[u] \in {"close", "retire"}
               PROVE  /\ crt_idx'[u] \in Scavs
                      /\ idx_list'[u][ret_pos'[u]] = crt_idx'[u]
    BY DEF RetiresListed
  <2>1. CASE u = t
    BY <1>0, <1>1, <2>1
  <2>2. CASE u # t
    BY <1>0, <1>1, <2>2 DEF TableInv, RetiresListed
  <2> QED
    BY <2>1, <2>2
<1> QED
  BY <1>2, <1>3, <1>4 DEF TableInv

\* ... and no thief can empty it while it waits for the lock, because the
\* thread is not parked.
LEMMA FinishLockTable ==
    ASSUME TypeOK, ControlInv, TableInv, NEW t \in Threads, FinishLock(t)
    PROVE  TableInv'
<1>0. pc \in [Threads -> Labels]
  BY DEF TypeOK
<1>1. /\ pc[t] = "close"
      /\ pc' = [pc EXCEPT ![t] = "retire"]
      /\ UNCHANGED <<idx_list, yc, finished, item, tid, ret_pos, crt_idx>>
  BY DEF FinishLock, Goto, primVars, ctxVars, slotVars, tableVars, innerVars,
         allocVars, outerVars, schedVars
<1>2. ListedHosted' /\ ListedOnce'
  BY <1>1 DEF TableInv, ListedHosted, ListedOnce
<1>3. PoppedUnlisted' /\ PickedInPool'
  BY <1>0, <1>1 DEF TableInv, PoppedUnlisted, PickedInPool, InPool
<1>4. RetiresListed'
  BY <1>0, <1>1 DEF TableInv, RetiresListed
<1> QED
  BY <1>2, <1>3, <1>4 DEF TableInv

\* tl_finish_crt unlists the scavenger it marks as finished.
LEMMA RetireScavTable ==
    ASSUME TypeOK, ControlInv, TableInv, NEW t \in Threads, RetireScav(t)
    PROVE  TableInv'
<1> DEFINE p == ret_pos[t]
           s == crt_idx[t]
<1>0. /\ pc \in [Threads -> Labels]
      /\ ret_pos \in [Threads -> Slots]
      /\ idx_list \in [Threads -> [Slots -> Scavs \cup {EMPTY}]]
      /\ yc \in [Scavs -> (Threads \X Positions) \cup {NULL}]
      /\ finished \in [Scavs -> BOOLEAN]
  BY DEF TypeOK
<1>1. /\ pc[t] = "retire"
      /\ pc' = [pc EXCEPT ![t] = "pack"]
      /\ idx_list' = [idx_list EXCEPT ![t][p] = EMPTY]
      /\ yc' = [yc EXCEPT ![s] = NULL]
      /\ finished' = [finished EXCEPT ![s] = TRUE]
  BY DEF RetireScav, Goto
<1>2. p \in Slots /\ s # EMPTY /\ s \in Scavs /\ idx_list[t][p] = s
  BY <1>0, <1>1 DEF TableInv, RetiresListed, Scavs, EMPTY
<1>3. \A u \in Threads : \A q \in Slots :
        /\ idx_list'[u][q] = IF u = t /\ q = p THEN EMPTY ELSE idx_list[u][q]
        /\ idx_list'[u][q] # s
  <2>1. \A u \in Threads : \A q \in Slots :
          idx_list'[u][q] = IF u = t /\ q = p THEN EMPTY ELSE idx_list[u][q]
    BY <1>0, <1>1, <1>2
  <2> QED
    BY <1>2, <2>1 DEF TableInv, ListedOnce
<1>4. \A r \in Scavs \ {s} : yc'[r] = yc[r] /\ finished'[r] = finished[r]
  BY <1>0, <1>1
<1>5. ListedHosted'
  BY <1>0, <1>3, <1>4 DEF TableInv, ListedHosted
<1>6. ListedOnce'
  BY <1>3 DEF TableInv, ListedOnce
<1>7. PoppedUnlisted' /\ PickedInPool'
  BY <1>0, <1>1, TableCritical DEF Labels, Critical
<1>8. RetiresListed'
  <2>1. \A u \in Threads \ {t} : idx_list'[u] = idx_list[u]
    BY <1>0, <1>1
  <2>2. UNCHANGED <<ret_pos, crt_idx>>
    BY DEF RetireScav, outerVars, schedVars
  <2> QED
    BY <1>0, <1>1, <2>1, <2>2, RetiresFrame DEF Labels
<1> QED
  BY <1>5, <1>6, <1>7, <1>8 DEF TableInv

\* tl_swap_crts permutes the list of its own thread.
LEMMA SwapCrtsTable ==
    ASSUME TypeOK, ControlInv, TableInv, NEW t \in Threads, SwapCrts(t)
    PROVE  TableInv'
<1>0. /\ pc \in [Threads -> Labels]
      /\ idx_list \in [Threads -> [Slots -> Scavs \cup {EMPTY}]]
      /\ yc \in [Scavs -> (Threads \X Positions) \cup {NULL}]
  BY DEF TypeOK
<1>1. /\ pc[t] = "swap"
      /\ pc' = [pc EXCEPT ![t] = "pack"]
      /\ UNCHANGED finished
  BY DEF SwapCrts, Goto
<1>2. PICK a \in Positions, b \in Positions :
        /\ a # b
        /\ idx_list[t][a] = EMPTY
        /\ idx_list[t][b] # EMPTY
        /\ idx_list' = [idx_list EXCEPT ![t] = Swap(idx_list[t], a, b)]
        /\ yc' = [yc EXCEPT ![idx_list[t][b]] = <<t, a>>]
  BY DEF SwapCrts, IsSwapPair, IsFirstFree, Occupied, Positions
<1> DEFINE s == idx_list[t][b]
<1>3. a \in Slots /\ b \in Slots /\ s \in Scavs
  BY <1>0, <1>2, Ranges
<1>4. \A u \in Threads : \A q \in Slots :
        idx_list'[u][q] = IF u = t /\ q = a THEN s
                          ELSE IF u = t /\ q = b THEN EMPTY
                          ELSE idx_list[u][q]
  <2>1. \A q \in Slots : Swap(idx_list[t], a, b)[q] =
          IF q = b THEN EMPTY ELSE IF q = a THEN s ELSE idx_list[t][q]
    BY <1>0, <1>2, <1>3 DEF Swap
  <2> QED
    BY <1>0, <1>2, <2>1
<1>5. \A r \in Scavs : yc'[r] = IF r = s THEN <<t, a>> ELSE yc[r]
  BY <1>0, <1>2, <1>3
<1>6. <<t, a>> # NULL /\ <<t, a>>[1] = t
  BY DEF NULL, Threads
<1>7. \A u \in Threads : \A q \in Slots :
        idx_list[u][q] = s => u = t /\ q = b
  BY <1>2, <1>3 DEF TableInv, ListedOnce
<1>8. ListedHosted'
  BY <1>0, <1>1, <1>2, <1>3, <1>4, <1>5, <1>6, <1>7 DEF TableInv, ListedHosted
<1>9. ListedOnce'
  BY <1>2, <1>3, <1>4, <1>7 DEF TableInv, ListedOnce
<1>10. PoppedUnlisted' /\ PickedInPool'
  BY <1>0, <1>1, TableCritical DEF Labels, Critical
<1>11. RetiresListed'
  <2>1. \A u \in Threads \ {t} : idx_list'[u] = idx_list[u]
    BY <1>0, <1>2
  <2>2. UNCHANGED <<ret_pos, crt_idx>>
    BY DEF SwapCrts, outerVars, schedVars
  <2> QED
    BY <1>0, <1>1, <2>1, <2>2, RetiresFrame DEF Labels
<1> QED
  BY <1>8, <1>9, <1>10, <1>11 DEF TableInv

\* A step of t that leaves lists and table alone, and after which t is at no
\* place where TableInv or HostedListed says something of it.
Quiet(t) ==
    /\ pc[t] # "push"
    /\ \E l \in Labels \ {"push", "take", "close", "retire"} :
          pc' = [pc EXCEPT ![t] = l]
    /\ \A u \in Threads \ {t} : /\ tid'[u] = tid[u]
                                /\ item'[u] = item[u]
                                /\ ret_pos'[u] = ret_pos[u]
                                /\ crt_idx'[u] = crt_idx[u]
    /\ UNCHANGED <<idx_list, yc, finished>>

\* The steps that change lists or table, or prepare to.
Busy(t) ==
    \/ StealPop(t) \/ StealPush(t) \/ StealRollback(t)
    \/ PoolPick(t) \/ PoolTake(t)
    \/ FinishScav(t) \/ FinishLock(t) \/ RetireScav(t)
    \/ SwapCrts(t)

\* All others are quiet.
LEMMA StepQuiet ==
    ASSUME TypeOK, NEW t \in Threads, Runtime(t) \/ Program(t)
    PROVE  Busy(t) \/ Quiet(t)
<1>0. /\ pc \in [Threads -> Labels]
      /\ tid \in [Threads -> 0 .. MAX_THREAD_NUM]
      /\ item \in [Threads -> Scavs \cup {EMPTY}]
      /\ ret_pos \in [Threads -> Slots]
      /\ crt_idx \in [Threads -> Scavs \cup {EMPTY}]
  BY DEF TypeOK
<1> USE <1>0
<1>1. CASE MshAllocCtx(t)
  <2>1. /\ pc[t] = "new"
        /\ pc' = [pc EXCEPT ![t] = "alloc"]
        /\ \A u \in Threads \ {t} : /\ tid'[u] = tid[u]
                                    /\ item'[u] = item[u]
                                    /\ ret_pos'[u] = ret_pos[u]
                                    /\ crt_idx'[u] = crt_idx[u]
        /\ UNCHANGED <<idx_list, yc, finished>>
    BY <1>1
       DEF MshAllocCtx, Goto, primVars, ctxVars, slotVars, innerVars,
           allocVars, outerVars, schedVars, tableVars
  <2> QED
    BY <2>1 DEF Labels, Quiet
<1>2. CASE AllocateScav(t)
  <2>1. /\ pc[t] = "alloc"
        /\ \E l \in {"resume", "lock"} : pc' = [pc EXCEPT ![t] = l]
        /\ \A u \in Threads \ {t} : /\ tid'[u] = tid[u]
                                    /\ item'[u] = item[u]
                                    /\ ret_pos'[u] = ret_pos[u]
                                    /\ crt_idx'[u] = crt_idx[u]
        /\ UNCHANGED <<idx_list, yc, finished>>
    BY <1>2
       DEF AllocateScav, Goto, primVars, ctxVars, slotVars, outerVars,
           schedVars, tableVars
  <2> QED
    BY <2>1 DEF Labels, Quiet
<1>3. CASE AllocLock(t)
  <2>1. /\ pc[t] = "lock"
        /\ pc' = [pc EXCEPT ![t] = "scan"]
        /\ \A u \in Threads \ {t} : /\ tid'[u] = tid[u]
                                    /\ item'[u] = item[u]
                                    /\ ret_pos'[u] = ret_pos[u]
                                    /\ crt_idx'[u] = crt_idx[u]
        /\ UNCHANGED <<idx_list, yc, finished>>
    BY <1>3
       DEF AllocLock, Goto, primVars, ctxVars, slotVars, outerVars,
           schedVars, tableVars
  <2> QED
    BY <2>1 DEF Labels, Quiet
<1>4. CASE ScanCapture(t)
  <2>1. /\ pc[t] = "scan"
        /\ pc' = [pc EXCEPT ![t] = "steal"]
        /\ \A u \in Threads \ {t} : /\ tid'[u] = tid[u]
                                    /\ item'[u] = item[u]
                                    /\ ret_pos'[u] = ret_pos[u]
                                    /\ crt_idx'[u] = crt_idx[u]
        /\ UNCHANGED <<idx_list, yc, finished>>
    BY <1>4
       DEF ScanCapture, Goto, ctxVars, slotVars, outerVars, schedVars,
           tableVars
  <2> QED
    BY <2>1 DEF Labels, Quiet
<1>5. CASE ScanEnd(t)
  <2>1. /\ pc[t] = "scan"
        /\ pc' = [pc EXCEPT ![t] = "pool"]
        /\ \A u \in Threads \ {t} : /\ tid'[u] = tid[u]
                                    /\ item'[u] = item[u]
                                    /\ ret_pos'[u] = ret_pos[u]
                                    /\ crt_idx'[u] = crt_idx[u]
        /\ UNCHANGED <<idx_list, yc, finished>>
    BY <1>5
       DEF ScanEnd, Goto, primVars, ctxVars, slotVars, innerVars,
           allocVars, outerVars, schedVars, tableVars
  <2> QED
    BY <2>1 DEF Labels, Quiet
<1>6. CASE StealEnd(t)
  <2>1. /\ pc[t] = "steal"
        /\ pc' = [pc EXCEPT ![t] = "release"]
        /\ \A u \in Threads \ {t} : /\ tid'[u] = tid[u]
                                    /\ item'[u] = item[u]
                                    /\ ret_pos'[u] = ret_pos[u]
                                    /\ crt_idx'[u] = crt_idx[u]
        /\ UNCHANGED <<idx_list, yc, finished>>
    BY <1>6
       DEF StealEnd, Goto, primVars, ctxVars, slotVars, innerVars,
           allocVars, outerVars, schedVars, tableVars
  <2> QED
    BY <2>1 DEF Labels, Quiet
<1>7. CASE ReleaseVictim(t)
  <2>1. /\ pc[t] = "release"
        /\ \E l \in {"unlock", "scan"} : pc' = [pc EXCEPT ![t] = l]
    BY <1>7 DEF ReleaseVictim, Goto
  <2>2. /\ \A u \in Threads \ {t} : /\ tid'[u] = tid[u]
                                    /\ item'[u] = item[u]
                                    /\ ret_pos'[u] = ret_pos[u]
                                    /\ crt_idx'[u] = crt_idx[u]
        /\ UNCHANGED <<idx_list, yc, finished>>
    BY <1>7
       DEF ReleaseVictim, ctxVars, slotVars, outerVars, schedVars,
           tableVars
  <2> QED
    BY <2>1, <2>2 DEF Labels, Quiet
<1>8. CASE PoolEnd(t)
  <2>1. /\ pc[t] = "pool"
        /\ pc' = [pc EXCEPT ![t] = "unlock"]
        /\ \A u \in Threads \ {t} : /\ tid'[u] = tid[u]
                                    /\ item'[u] = item[u]
                                    /\ ret_pos'[u] = ret_pos[u]
                                    /\ crt_idx'[u] = crt_idx[u]
        /\ UNCHANGED <<idx_list, yc, finished>>
    BY <1>8
       DEF PoolEnd, Goto, primVars, ctxVars, slotVars, innerVars,
           allocVars, outerVars, schedVars, tableVars
  <2> QED
    BY <2>1 DEF Labels, Quiet
<1>9. CASE AllocUnlock(t)
  <2>1. /\ pc[t] = "unlock"
        /\ pc' = [pc EXCEPT ![t] = "init"]
        /\ \A u \in Threads \ {t} : /\ tid'[u] = tid[u]
                                    /\ item'[u] = item[u]
                                    /\ ret_pos'[u] = ret_pos[u]
                                    /\ crt_idx'[u] = crt_idx[u]
        /\ UNCHANGED <<idx_list, yc, finished>>
    BY <1>9
       DEF AllocUnlock, Goto, primVars, ctxVars, slotVars, innerVars,
           allocVars, outerVars, schedVars, tableVars
  <2> QED
    BY <2>1 DEF Labels, Quiet
<1>10. CASE CallInit(t)
  <2>1. /\ pc[t] = "init"
        /\ pc' = [pc EXCEPT ![t] = "resume"]
        /\ \A u \in Threads \ {t} : /\ tid'[u] = tid[u]
                                    /\ item'[u] = item[u]
                                    /\ ret_pos'[u] = ret_pos[u]
                                    /\ crt_idx'[u] = crt_idx[u]
        /\ UNCHANGED <<idx_list, yc, finished>>
    BY <1>10
       DEF CallInit, Goto, slotVars, innerVars, allocVars, outerVars,
           schedVars
  <2> QED
    BY <2>1 DEF Labels, Quiet
<1>11. CASE ResumeStart(t)
  <2>1. /\ pc[t] = "resume"
        /\ pc' = [pc EXCEPT ![t] = "app"]
        /\ \A u \in Threads \ {t} : /\ tid'[u] = tid[u]
                                    /\ item'[u] = item[u]
                                    /\ ret_pos'[u] = ret_pos[u]
                                    /\ crt_idx'[u] = crt_idx[u]
        /\ UNCHANGED <<idx_list, yc, finished>>
    BY <1>11
       DEF ResumeStart, Goto, DropAllocLocals, outerVars, schedVars,
           tableVars
  <2> QED
    BY <2>1 DEF Labels, Quiet
<1>12. CASE ResumeSched(t)
  <2>1. /\ pc[t] = "resume"
        /\ pc' = [pc EXCEPT ![t] = "dispatch"]
        /\ \A u \in Threads \ {t} : /\ tid'[u] = tid[u]
                                    /\ item'[u] = item[u]
                                    /\ ret_pos'[u] = ret_pos[u]
                                    /\ crt_idx'[u] = crt_idx[u]
        /\ UNCHANGED <<idx_list, yc, finished>>
    BY <1>12
       DEF ResumeSched, Goto, DropAllocLocals, slotVars, outerVars,
           schedVars, tableVars
  <2> QED
    BY <2>1 DEF Labels, Quiet
<1>13. CASE ResumeExit(t)
  <2>1. /\ pc[t] = "resume"
        /\ pc' = [pc EXCEPT ![t] = "app"]
        /\ \A u \in Threads \ {t} : /\ tid'[u] = tid[u]
                                    /\ item'[u] = item[u]
                                    /\ ret_pos'[u] = ret_pos[u]
                                    /\ crt_idx'[u] = crt_idx[u]
        /\ UNCHANGED <<idx_list, yc, finished>>
    BY <1>13
       DEF ResumeExit, Goto, DropAllocLocals, slotVars, outerVars,
           schedVars, tableVars
  <2> QED
    BY <2>1 DEF Labels, Quiet
<1>14. CASE ExitBlockableCall(t)
  <2>1. /\ pc[t] = "exit"
        /\ \E l \in {"alloc", "app"} : pc' = [pc EXCEPT ![t] = l]
        /\ \A u \in Threads \ {t} : /\ tid'[u] = tid[u]
                                    /\ item'[u] = item[u]
                                    /\ ret_pos'[u] = ret_pos[u]
                                    /\ crt_idx'[u] = crt_idx[u]
        /\ UNCHANGED <<idx_list, yc, finished>>
    BY <1>14
       DEF ExitBlockableCall, Goto, ctxVars, slotVars, allocVars,
           outerVars, schedVars, tableVars
  <2> QED
    BY <2>1 DEF Labels, Quiet
<1>15. CASE FinishPrimary(t)
  <2>1. /\ pc[t] = "finish"
        /\ pc' = [pc EXCEPT ![t] = "pack"]
        /\ \A u \in Threads \ {t} : /\ tid'[u] = tid[u]
                                    /\ item'[u] = item[u]
                                    /\ ret_pos'[u] = ret_pos[u]
                                    /\ crt_idx'[u] = crt_idx[u]
        /\ UNCHANGED <<idx_list, yc, finished>>
    BY <1>15
       DEF FinishPrimary, Goto, slotVars, innerVars, allocVars, outerVars,
           schedVars, tableVars
  <2> QED
    BY <2>1 DEF Labels, Quiet
<1>16. CASE PackLock(t)
  <2>1. /\ pc[t] = "pack"
        /\ pc' = [pc EXCEPT ![t] = "swap"]
        /\ \A u \in Threads \ {t} : /\ tid'[u] = tid[u]
                                    /\ item'[u] = item[u]
                                    /\ ret_pos'[u] = ret_pos[u]
                                    /\ crt_idx'[u] = crt_idx[u]
        /\ UNCHANGED <<idx_list, yc, finished>>
    BY <1>16
       DEF PackLock, Goto, primVars, ctxVars, slotVars, innerVars,
           allocVars, outerVars, schedVars, tableVars
  <2> QED
    BY <2>1 DEF Labels, Quiet
<1>17. CASE PackEnd(t)
  <2>1. /\ pc[t] = "pack"
        /\ pc' = [pc EXCEPT ![t] = "alloc"]
        /\ \A u \in Threads \ {t} : /\ tid'[u] = tid[u]
                                    /\ item'[u] = item[u]
                                    /\ ret_pos'[u] = ret_pos[u]
                                    /\ crt_idx'[u] = crt_idx[u]
        /\ UNCHANGED <<idx_list, yc, finished>>
    BY <1>17
       DEF PackEnd, Goto, slotVars, allocVars, outerVars, schedVars,
           tableVars
  <2> QED
    BY <2>1 DEF Labels, Quiet
<1>18. CASE PackSkip(t)
  <2>1. /\ pc[t] = "pack"
        /\ pc' = [pc EXCEPT ![t] = "dispatch"]
        /\ \A u \in Threads \ {t} : /\ tid'[u] = tid[u]
                                    /\ item'[u] = item[u]
                                    /\ ret_pos'[u] = ret_pos[u]
                                    /\ crt_idx'[u] = crt_idx[u]
        /\ UNCHANGED <<idx_list, yc, finished>>
    BY <1>18
       DEF PackSkip, Goto, primVars, ctxVars, slotVars, innerVars,
           allocVars, outerVars, schedVars, tableVars
  <2> QED
    BY <2>1 DEF Labels, Quiet
<1>19. CASE DispatchNext(t)
  <2>1. /\ pc[t] = "dispatch"
        /\ \E l \in {"app", "wild"} : pc' = [pc EXCEPT ![t] = l]
        /\ \A u \in Threads \ {t} : /\ tid'[u] = tid[u]
                                    /\ item'[u] = item[u]
                                    /\ ret_pos'[u] = ret_pos[u]
                                    /\ crt_idx'[u] = crt_idx[u]
        /\ UNCHANGED <<idx_list, yc, finished>>
    BY <1>19, JumpControl
       DEF DispatchNext, Goto, DropSchedLocals, primVars, ctxVars,
           slotVars, innerVars, allocVars, tableVars
  <2> QED
    BY <2>1 DEF Labels, Quiet
<1>20. CASE DispatchCleanup(t)
  <2>1. /\ pc[t] = "dispatch"
        /\ \E l \in {"app", "wild", "cleanup"} : pc' = [pc EXCEPT ![t] = l]
        /\ \A u \in Threads \ {t} : /\ tid'[u] = tid[u]
                                    /\ item'[u] = item[u]
                                    /\ ret_pos'[u] = ret_pos[u]
                                    /\ crt_idx'[u] = crt_idx[u]
        /\ UNCHANGED <<idx_list, yc, finished>>
    BY <1>20, JumpControl
       DEF DispatchCleanup, Goto, DropSchedLocals, primVars, ctxVars,
           slotVars, innerVars, allocVars, tableVars
  <2> QED
    BY <2>1 DEF Labels, Quiet
<1>21. CASE CleanupLoop(t)
  <2>1. /\ pc[t] = "cleanup"
        /\ \E l \in {"finish", "done", "app"} : pc' = [pc EXCEPT ![t] = l]
    BY <1>21 DEF CleanupLoop, Goto
  <2>2. /\ \A u \in Threads \ {t} : /\ tid'[u] = tid[u]
                                    /\ item'[u] = item[u]
                                    /\ ret_pos'[u] = ret_pos[u]
                                    /\ crt_idx'[u] = crt_idx[u]
        /\ UNCHANGED <<idx_list, yc, finished>>
    BY <1>21
       DEF CleanupLoop, slotVars, schedVars, innerVars, allocVars,
           tableVars
  <2> QED
    BY <2>1, <2>2 DEF Labels, Quiet
<1>22. CASE PrimaryYield(t)
  <2>1. /\ pc[t] = "app"
        /\ \E l \in {"app", "wild"} : pc' = [pc EXCEPT ![t] = l]
        /\ \A u \in Threads \ {t} : /\ tid'[u] = tid[u]
                                    /\ item'[u] = item[u]
                                    /\ ret_pos'[u] = ret_pos[u]
                                    /\ crt_idx'[u] = crt_idx[u]
        /\ UNCHANGED <<idx_list, yc, finished>>
    BY <1>22, JumpControl
       DEF PrimaryYield, RunsPrimary, Goto, innerVars, allocVars, schedVars, tableVars
  <2> QED
    BY <2>1 DEF Labels, Quiet
<1>23. CASE ScavYield(t)
  <2>1. /\ pc[t] = "app"
        /\ \E l \in {"app", "wild"} : pc' = [pc EXCEPT ![t] = l]
        /\ \A u \in Threads \ {t} : /\ tid'[u] = tid[u]
                                    /\ item'[u] = item[u]
                                    /\ ret_pos'[u] = ret_pos[u]
                                    /\ crt_idx'[u] = crt_idx[u]
        /\ UNCHANGED <<idx_list, yc, finished>>
    BY <1>23, JumpControl
       DEF ScavYield, RunsScav, Goto, innerVars, allocVars, schedVars, tableVars
  <2> QED
    BY <2>1 DEF Labels, Quiet
<1>24. CASE ScavReturn(t)
  <2>1. /\ pc[t] = "app"
        /\ pc' = [pc EXCEPT ![t] = "finish"]
        /\ \A u \in Threads \ {t} : /\ tid'[u] = tid[u]
                                    /\ item'[u] = item[u]
                                    /\ ret_pos'[u] = ret_pos[u]
                                    /\ crt_idx'[u] = crt_idx[u]
        /\ UNCHANGED <<idx_list, yc, finished>>
    BY <1>24
       DEF ScavReturn, RunsScav, Goto, primVars, ctxVars, slotVars, innerVars,
           allocVars, tableVars
  <2> QED
    BY <2>1 DEF Labels, Quiet
<1>25. CASE EnterBlockableCall(t)
  <2>1. /\ pc[t] = "app"
        /\ pc' = [pc EXCEPT ![t] = "blocked"]
        /\ \A u \in Threads \ {t} : /\ tid'[u] = tid[u]
                                    /\ item'[u] = item[u]
                                    /\ ret_pos'[u] = ret_pos[u]
                                    /\ crt_idx'[u] = crt_idx[u]
        /\ UNCHANGED <<idx_list, yc, finished>>
    BY <1>25
       DEF EnterBlockableCall, RunsPrimary, Goto, ctxVars, slotVars,
           innerVars,
           allocVars, outerVars, schedVars, tableVars
  <2> QED
    BY <2>1 DEF Labels, Quiet
<1>26. CASE Unblock(t)
  <2>1. /\ pc[t] = "blocked"
        /\ pc' = [pc EXCEPT ![t] = "exit"]
        /\ \A u \in Threads \ {t} : /\ tid'[u] = tid[u]
                                    /\ item'[u] = item[u]
                                    /\ ret_pos'[u] = ret_pos[u]
                                    /\ crt_idx'[u] = crt_idx[u]
        /\ UNCHANGED <<idx_list, yc, finished>>
    BY <1>26
       DEF Unblock, Goto, primVars, ctxVars, slotVars, innerVars,
           allocVars, outerVars, schedVars, tableVars
  <2> QED
    BY <2>1 DEF Labels, Quiet
<1>27. CASE StartRoutineReturns(t)
  <2>1. /\ pc[t] = "app"
        /\ \E l \in {"done", "cleanup"} : pc' = [pc EXCEPT ![t] = l]
        /\ \A u \in Threads \ {t} : /\ tid'[u] = tid[u]
                                    /\ item'[u] = item[u]
                                    /\ ret_pos'[u] = ret_pos[u]
                                    /\ crt_idx'[u] = crt_idx[u]
        /\ UNCHANGED <<idx_list, yc, finished>>
    BY <1>27
       DEF StartRoutineReturns, RunsPrimary, Goto, BeginCleanup, slotVars,
           innerVars,
           allocVars, schedVars, tableVars
  <2> QED
    BY <2>1 DEF Labels, Quiet
<1>28. CASE PthreadJoin(t)
  <2>1. /\ UNCHANGED <<tid, item, ret_pos, crt_idx, idx_list, yc, finished>>
        /\ pc[t] = "app"
    BY <1>28 DEF PthreadJoin, RunsPrimary, slotVars, innerVars, allocVars,
                 schedVars, tableVars
  <2>2. pc' = pc \/ pc' = [pc EXCEPT ![t] = "cleanup"]
    BY <1>28 DEF PthreadJoin, BeginCleanup, Goto
  <2>3. \E l \in {"app", "cleanup"} : pc' = [pc EXCEPT ![t] = l]
    BY <2>1, <2>2
  <2> QED
    BY <2>1, <2>3 DEF Labels, Quiet
<1>29. CASE ScanSkip(t)
  <2>1. /\ pc[t] = "scan"
        /\ UNCHANGED <<pc, item, ret_pos, crt_idx, idx_list, yc, finished>>
        /\ \A u \in Threads \ {t} : tid'[u] = tid[u]
    BY <1>29 DEF ScanSkip, primVars, ctxVars, slotVars, outerVars, schedVars,
                   tableVars
  <2>2. pc' = [pc EXCEPT ![t] = "scan"]
    BY <2>1
  <2> QED
    BY <2>1, <2>2 DEF Labels, Quiet
<1>30. CASE CallInitLost(t)
  <2>1. /\ pc[t] = "init"
        /\ pc' = [pc EXCEPT ![t] = "wild"]
        /\ \A u \in Threads \ {t} : /\ tid'[u] = tid[u]
                                    /\ item'[u] = item[u]
                                    /\ ret_pos'[u] = ret_pos[u]
                                    /\ crt_idx'[u] = crt_idx[u]
        /\ UNCHANGED <<idx_list, yc, finished>>
    BY <1>30
       DEF CallInitLost, Goto, primVars, ctxVars, slotVars, innerVars,
           allocVars, outerVars, schedVars, tableVars
  <2> QED
    BY <2>1 DEF Labels, Quiet
<1> QED
  BY <1>1, <1>2, <1>3, <1>4, <1>5, <1>6, <1>7, <1>8, <1>9, <1>10, <1>11,
  <1>12, <1>13, <1>14, <1>15, <1>16, <1>17, <1>18, <1>19, <1>20, <1>21,
  <1>22, <1>23, <1>24, <1>25, <1>26, <1>27, <1>28, <1>29, <1>30
  DEF Runtime, Program, Busy

\* Every step keeps the second half of SharingInv.
LEMMA StepTable ==
    ASSUME TypeOK, ControlInv, TableInv, NEW t \in Threads,
           Runtime(t) \/ Program(t)
    PROVE  TableInv'
<1>1. CASE StealPop(t)
  BY <1>1, StealPopTable
<1>2. CASE StealPush(t)
  BY <1>2, StealPushTable
<1>3. CASE StealRollback(t)
  BY <1>3, StealRollbackTable
<1>4. CASE PoolPick(t)
  BY <1>4, PoolPickTable
<1>5. CASE PoolTake(t)
  BY <1>5, PoolTakeTable
<1>6. CASE FinishScav(t)
  BY <1>6, FinishScavTable
<1>7. CASE FinishLock(t)
  BY <1>7, FinishLockTable
<1>8. CASE RetireScav(t)
  BY <1>8, RetireScavTable
<1>9. CASE SwapCrts(t)
  BY <1>9, SwapCrtsTable
<1>10. CASE Quiet(t)
  <2>1. PICK l \in Labels \ {"push", "take", "close", "retire"} :
          pc' = [pc EXCEPT ![t] = l]
    BY <1>10 DEF Quiet
  <2> QED
    BY <1>10, <2>1, TableFrame DEF Quiet, TypeOK
<1> QED
  BY <1>1, <1>2, <1>3, <1>4, <1>5, <1>6, <1>7, <1>8, <1>9, <1>10, StepQuiet
  DEF Busy

-----------------------------------------------------------------------------
(* The invariant, and what follows from it.                                *)

\* The empty tables of init_prim_table satisfy it.
LEMMA InitSharing == Init => SharingInv
<1> SUFFICES ASSUME Init PROVE SharingInv
  OBVIOUS
<1>1. LockHeld /\ ThiefExclusive /\ PoppedUnlisted /\ PickedInPool
        /\ RetiresListed
  BY DEF Init, LockHeld, Critical, ThiefExclusive, PoppedUnlisted,
         PickedInPool, RetiresListed
<1>2. FlagParked
  BY DEF Init, FlagParked
<1>3. ListedHosted /\ ListedOnce
  BY DEF Init, ListedHosted, ListedOnce
<1> QED
  BY <1>1, <1>2, <1>3 DEF SharingInv

\* Lock, flags, lists and table agree in every reachable state: SharingInv
\* is an invariant of allocation, theft, retirement and packing.
THEOREM Sharing == Spec => []SharingInv
<1>1. Init => SharingInv
  BY InitSharing
<1>2. SharingInv /\ TypeOK /\ [Next]_vars => SharingInv'
  <2> SUFFICES ASSUME SharingInv, TypeOK, [Next]_vars
               PROVE  SharingInv'
    OBVIOUS
  <2>1. ControlInv /\ TableInv
    BY DEF SharingInv, ControlInv, TableInv
  <2>2. CASE \E t \in Threads : Runtime(t) \/ Program(t)
    <3>1. ControlInv' /\ TableInv'
      BY <2>1, <2>2, StepControl, StepTable
    <3> QED
      BY <3>1 DEF SharingInv, ControlInv, TableInv
  <2>3. CASE UNCHANGED vars
    <3>1. UNCHANGED <<pc, tid, item, ret_pos, crt_idx, idx_list, reallocatable,
                      yc, finished, scav_table_lock>>
      BY <2>3 DEF vars, innerVars, outerVars, allocVars, schedVars, slotVars,
                  ctxVars, flagVars, primVars, tableVars
    <3> QED
      BY <3>1 DEF SharingInv, LockHeld, FlagParked, ThiefExclusive,
                  ListedHosted, ListedOnce, PoppedUnlisted, PickedInPool,
                  InPool, RetiresListed, Occupied
  <2> QED
    BY <2>2, <2>3 DEF Next, Terminated
<1> QED
  BY <1>1, <1>2, TypeCorrect, PTL DEF Spec

\* Whatever is taken, stolen, rolled back, packed or retired, a scavenger has
\* at most one host and one slot there, and none once it is finished.
THEOREM HostUnique == Spec => []UniqueHost
<1>1. SharingInv => UniqueHost
  BY DEF SharingInv, ListedHosted, ListedOnce, UniqueHost
<1> QED
  BY <1>1, Sharing, PTL

\* A thread whose context a thief is working on is another one, parked, and
\* cannot win the CAS of msh_exit_blockable_call.
THEOREM VictimParked == Spec => []ThiefExclusive
<1>1. SharingInv => ThiefExclusive
  BY DEF SharingInv
<1> QED
  BY <1>1, Sharing, PTL

-----------------------------------------------------------------------------
(* No scavenger is lost.                                                   *)

\* Who is hosted is listed by its host, except between the pop and the push of
\* a theft.
HostedListed ==
    \A s \in Scavs : yc[s] # NULL =>
        \/ \E p \in Positions : idx_list[yc[s][1]][p] = s
        \/ \E t \in Threads : pc[t] = "push" /\ item[t] = s

\* The steps that change no list keep it.
LEMMA QuietListed ==
    ASSUME TypeOK, HostedListed, NEW t \in Threads, pc[t] # "push",
           NEW l \in Labels, pc' = [pc EXCEPT ![t] = l],
           \A u \in Threads \ {t} : item'[u] = item[u],
           UNCHANGED <<idx_list, yc>>
    PROVE  HostedListed'
<1> SUFFICES ASSUME NEW s \in Scavs, yc[s] # NULL,
                    ~\E p \in Positions : idx_list[yc[s][1]][p] = s
             PROVE  \E u \in Threads : pc'[u] = "push" /\ item'[u] = s
  BY DEF HostedListed
<1>1. PICK u \in Threads : pc[u] = "push" /\ item[u] = s
  BY DEF HostedListed
<1>2. pc'[u] = "push" /\ item'[u] = s
  BY <1>1 DEF TypeOK
<1> QED
  BY <1>2

\* When t gives s a slot of host u, s is listed there, and every scavenger
\* that another slot lists stays listed.
LEMMA PlacedListed ==
    ASSUME TypeOK, HostedListed, NEW t \in Threads, NEW u \in Threads,
           NEW s \in Scavs, NEW p \in Positions,
           \A w \in Threads \ {t} : pc[w] # "push",
           pc[t] = "push" => item[t] = s,
           idx_list[u][p] = EMPTY,
           idx_list' = [idx_list EXCEPT ![u][p] = s],
           yc'[s][1] = u,
           \A r \in Scavs \ {s} : yc'[r] = yc[r]
    PROVE  HostedListed'
<1>0. /\ idx_list \in [Threads -> [Slots -> Scavs \cup {EMPTY}]]
      /\ yc \in [Scavs -> (Threads \X Positions) \cup {NULL}]
      /\ p \in Slots
  BY Ranges DEF TypeOK
<1> SUFFICES ASSUME NEW r \in Scavs, yc'[r] # NULL
             PROVE  \E q \in Positions : idx_list'[yc'[r][1]][q] = r
  BY DEF HostedListed
<1>1. CASE r = s
  BY <1>0, <1>1
<1>2. CASE r # s
  <2>1. yc[r] # NULL /\ yc'[r] = yc[r] /\ yc[r][1] \in Threads
    BY <1>0, <1>2
  <2>2. PICK q \in Positions : idx_list[yc[r][1]][q] = r
    BY <1>2, <2>1 DEF HostedListed
  <2>3. r # EMPTY
    BY DEF Scavs, EMPTY
  <2>4. q \in Slots /\ idx_list'[yc[r][1]][q] = r
    BY <1>0, <2>1, <2>2, <2>3, Ranges
  <2> QED
    BY <2>1, <2>4
<1> QED
  BY <1>1, <1>2

\* Every step keeps it: a theft takes, hands over or gives back, packing moves
\* within a list, and what is unlisted for good loses its yc pointer too.
LEMMA StepListed ==
    ASSUME TypeOK, ControlInv, TableInv, HostedListed, NEW t \in Threads,
           Runtime(t) \/ Program(t)
    PROVE  HostedListed'
<1>0. /\ pc \in [Threads -> Labels]
      /\ item \in [Threads -> Scavs \cup {EMPTY}]
      /\ ret_pos \in [Threads -> Slots]
      /\ idx_list \in [Threads -> [Slots -> Scavs \cup {EMPTY}]]
      /\ yc \in [Scavs -> (Threads \X Positions) \cup {NULL}]
  BY DEF TypeOK
<1>a. ASSUME pc[t] \in Critical
      PROVE  \A w \in Threads \ {t} : pc[w] # "push"
  BY <1>a DEF ControlInv, LockHeld, Critical
<1>1. CASE StealPop(t)
  <2> DEFINE v == tid[t]
  <2>1. pc[t] = "steal" /\ pc' = [pc EXCEPT ![t] = "push"] /\ UNCHANGED yc
    BY <1>1 DEF StealPop, Goto, tableVars
  <2>2. PICK p \in Positions :
          /\ item' = [item EXCEPT ![t] = idx_list[v][p]]
          /\ idx_list' = [idx_list EXCEPT ![v][p] = EMPTY]
    BY <1>1 DEF StealPop
  <2>3. \A w \in Threads : pc[w] # "push"
    BY <1>a, <2>1 DEF Critical
  <2>4. v \in Threads
    BY <2>1 DEF ControlInv, ThiefExclusive
  <2> SUFFICES ASSUME NEW r \in Scavs, yc'[r] # NULL
               PROVE  \/ \E q \in Positions : idx_list'[yc'[r][1]][q] = r
                      \/ \E u \in Threads : pc'[u] = "push" /\ item'[u] = r
    BY DEF HostedListed
  <2>5. yc[r] # NULL /\ yc'[r] = yc[r] /\ yc[r][1] \in Threads
    BY <1>0, <2>1
  <2>6. PICK q \in Positions : idx_list[yc[r][1]][q] = r
    BY <2>3, <2>5 DEF HostedListed
  <2>7. CASE yc[r][1] = v /\ q = p
    <3>1. pc'[t] = "push" /\ item'[t] = r
      BY <1>0, <2>1, <2>2, <2>6, <2>7
    <3> QED
      BY <3>1
  <2>8. CASE ~(yc[r][1] = v /\ q = p)
    <3>1. idx_list'[yc[r][1]][q] = r
      BY <1>0, <2>2, <2>4, <2>5, <2>6, <2>8, Ranges
    <3> QED
      BY <2>5, <3>1
  <2> QED
    BY <2>7, <2>8
<1>2. CASE StealPush(t)
  <2>1. pc[t] = "push" /\ item[t] \in Scavs
    BY <1>2 DEF StealPush, TableInv, PoppedUnlisted
  <2>2. PICK p \in Positions :
          /\ idx_list[t][p] = EMPTY
          /\ idx_list' = [idx_list EXCEPT ![t][p] = item[t]]
          /\ yc' = [yc EXCEPT ![item[t]] = <<t, p>>]
    BY <1>2 DEF StealPush, IsFirstFree, Occupied
  <2>3. yc'[item[t]][1] = t /\ \A r \in Scavs \ {item[t]} : yc'[r] = yc[r]
    BY <1>0, <2>1, <2>2
  <2>4. \A w \in Threads \ {t} : pc[w] # "push"
    BY <1>a, <2>1 DEF Critical
  <2> QED
    BY <2>1, <2>2, <2>3, <2>4, PlacedListed
<1>3. CASE StealRollback(t)
  <2> DEFINE v == tid[t]
  <2>1. pc[t] = "push" /\ v \in Threads
    BY <1>3 DEF StealRollback, ControlInv, ThiefExclusive
  <2>2. item[t] \in Scavs /\ yc[item[t]][1] = v
    BY <2>1 DEF TableInv, PoppedUnlisted
  <2>3. PICK p \in Positions :
          /\ idx_list[v][p] = EMPTY
          /\ idx_list' = [idx_list EXCEPT ![v][p] = item[t]]
    BY <1>0, <1>3, <2>1 DEF StealRollback, PutBack, IsFirstFree, Occupied
  <2>4. UNCHANGED yc
    BY <1>3 DEF StealRollback, tableVars
  <2>5. \A w \in Threads \ {t} : pc[w] # "push"
    BY <1>a, <2>1 DEF Critical
  <2> QED
    BY <2>1, <2>2, <2>3, <2>4, <2>5, PlacedListed
<1>4. CASE PoolTake(t)
  <2>1. pc[t] = "take" /\ item[t] \in Scavs
    BY <1>4 DEF PoolTake, TableInv, PickedInPool
  <2>2. PICK p \in Positions :
          /\ idx_list[t][p] = EMPTY
          /\ idx_list' = [idx_list EXCEPT ![t][p] = item[t]]
          /\ yc' = [yc EXCEPT ![item[t]] = <<t, p>>]
    BY <1>4 DEF PoolTake, IsFirstFree, Occupied
  <2>3. yc'[item[t]][1] = t /\ \A r \in Scavs \ {item[t]} : yc'[r] = yc[r]
    BY <1>0, <2>1, <2>2
  <2>4. \A w \in Threads \ {t} : pc[w] # "push"
    BY <1>a, <2>1 DEF Critical
  <2> QED
    BY <2>1, <2>2, <2>3, <2>4, PlacedListed
<1>5. CASE RetireScav(t)
  <2> DEFINE p == ret_pos[t]
             s == crt_idx[t]
  <2>1. /\ pc[t] = "retire"
        /\ idx_list' = [idx_list EXCEPT ![t][p] = EMPTY]
        /\ yc' = [yc EXCEPT ![s] = NULL]
    BY <1>5 DEF RetireScav
  <2>2. p \in Slots /\ s \in Scavs /\ idx_list[t][p] = s
    BY <1>0, <2>1 DEF TableInv, RetiresListed
  <2>3. \A w \in Threads : pc[w] # "push"
    BY <1>a, <2>1 DEF Critical
  <2> SUFFICES ASSUME NEW r \in Scavs, yc'[r] # NULL
               PROVE  \E q \in Positions : idx_list'[yc'[r][1]][q] = r
    BY DEF HostedListed
  <2>4. r # s /\ yc[r] # NULL /\ yc'[r] = yc[r] /\ yc[r][1] \in Threads
    BY <1>0, <2>1, <2>2
  <2>5. PICK q \in Positions : idx_list[yc[r][1]][q] = r
    BY <2>3, <2>4 DEF HostedListed
  <2>6. idx_list'[yc[r][1]][q] = r
    BY <1>0, <2>1, <2>2, <2>4, <2>5, Ranges
  <2> QED
    BY <2>4, <2>6
<1>6. CASE SwapCrts(t)
  <2>1. pc[t] = "swap"
    BY <1>6 DEF SwapCrts
  <2>2. PICK a \in Positions, b \in Positions :
          /\ idx_list[t][a] = EMPTY
          /\ idx_list[t][b] # EMPTY
          /\ idx_list' = [idx_list EXCEPT ![t] = Swap(idx_list[t], a, b)]
          /\ yc' = [yc EXCEPT ![idx_list[t][b]] = <<t, a>>]
    BY <1>6 DEF SwapCrts, IsSwapPair, IsFirstFree, Occupied
  <2> DEFINE s == idx_list[t][b]
  <2>3. a \in Slots /\ b \in Slots /\ s \in Scavs /\ a # b
    BY <1>0, <2>2, Ranges
  <2>4. \A q \in Slots : idx_list'[t][q] =
          IF q = b THEN EMPTY ELSE IF q = a THEN s ELSE idx_list[t][q]
    BY <1>0, <2>2, <2>3 DEF Swap
  <2>5. \A w \in Threads : pc[w] # "push"
    BY <1>a, <2>1 DEF Critical
  <2> SUFFICES ASSUME NEW r \in Scavs, yc'[r] # NULL
               PROVE  \E q \in Positions : idx_list'[yc'[r][1]][q] = r
    BY DEF HostedListed
  <2>6. CASE r = s
    <3>1. yc'[r] = <<t, a>> /\ idx_list'[t][a] = r
      BY <1>0, <2>2, <2>3, <2>4, <2>6
    <3> QED
      BY <3>1
  <2>7. CASE r # s
    <3>1. yc[r] # NULL /\ yc'[r] = yc[r] /\ yc[r][1] \in Threads
      BY <1>0, <2>2, <2>3, <2>7
    <3>2. PICK q \in Positions : idx_list[yc[r][1]][q] = r
      BY <2>5, <3>1 DEF HostedListed
    <3>3. q \in Slots /\ r # EMPTY
      BY Ranges DEF Scavs, EMPTY
    <3>4. CASE yc[r][1] = t
      BY <2>2, <2>4, <2>7, <3>1, <3>2, <3>3, <3>4
    <3>5. CASE yc[r][1] # t
      BY <1>0, <2>2, <3>1, <3>2, <3>5
    <3> QED
      BY <3>4, <3>5
  <2> QED
    BY <2>6, <2>7
<1>7. CASE PoolPick(t)
  <2>1. /\ pc[t] = "pool" /\ pc' = [pc EXCEPT ![t] = "take"]
        /\ \A u \in Threads \ {t} : item'[u] = item[u]
        /\ UNCHANGED <<idx_list, yc>>
    BY <1>0, <1>7
    DEF PoolPick, Goto, primVars, ctxVars, slotVars, tableVars
  <2> QED
    BY <2>1, QuietListed DEF Labels
<1>8. CASE FinishScav(t)
  <2>1. /\ pc[t] = "finish" /\ pc' = [pc EXCEPT ![t] = "close"]
        /\ UNCHANGED <<item, idx_list, yc>>
    BY <1>8 DEF FinishScav, Goto, slotVars, tableVars, innerVars, allocVars
  <2> QED
    BY <2>1, QuietListed DEF Labels
<1>9. CASE FinishLock(t)
  <2>1. /\ pc[t] = "close" /\ pc' = [pc EXCEPT ![t] = "retire"]
        /\ UNCHANGED <<item, idx_list, yc>>
    BY <1>9 DEF FinishLock, Goto, primVars, ctxVars, slotVars, tableVars,
                innerVars, allocVars
  <2> QED
    BY <2>1, QuietListed DEF Labels
<1>10. CASE Quiet(t)
  <2>1. PICK l \in Labels \ {"push", "take", "close", "retire"} :
          pc' = [pc EXCEPT ![t] = l]
    BY <1>10 DEF Quiet
  <2> QED
    BY <1>10, <2>1, QuietListed DEF Quiet
<1> QED
  BY <1>1, <1>2, <1>3, <1>4, <1>5, <1>6, <1>7, <1>8, <1>9, <1>10, StepQuiet
  DEF Busy

\* Whatever the constants, no scavenger is lost: with the lock free, the thread
\* a scavenger's yc pointer leads to lists it.  A theft that finds no room
\* gives the scavenger back.
THEOREM NoneLost == Spec => []NotLost
<1>1. Init => HostedListed
  BY DEF Init, HostedListed
<1>2. HostedListed /\ SharingInv /\ TypeOK /\ [Next]_vars => HostedListed'
  <2> SUFFICES ASSUME HostedListed, SharingInv, TypeOK, [Next]_vars
               PROVE  HostedListed'
    OBVIOUS
  <2>1. ControlInv /\ TableInv
    BY DEF SharingInv, ControlInv, TableInv
  <2>2. CASE \E t \in Threads : Runtime(t) \/ Program(t)
    BY <2>1, <2>2, StepListed
  <2>3. CASE UNCHANGED vars
    <3>1. UNCHANGED <<pc, item, idx_list, yc>>
      BY <2>3 DEF vars, innerVars, allocVars, slotVars, ctxVars, primVars,
                  tableVars
    <3> QED
      BY <3>1 DEF HostedListed
  <2> QED
    BY <2>2, <2>3 DEF Next, Terminated
<1>3. HostedListed /\ SharingInv => NotLost
  <2> SUFFICES ASSUME HostedListed, LockHeld, scav_table_lock = FREE
               PROVE  \A s \in Scavs : yc[s] # NULL =>
                          \E p \in Positions : idx_list[yc[s][1]][p] = s
    BY DEF NotLost, SharingInv
  <2>1. \A t \in Threads : pc[t] # "push"
    BY DEF LockHeld, Critical, Threads, FREE
  <2> QED
    BY <2>1 DEF HostedListed
<1> QED
  BY <1>1, <1>2, <1>3, Sharing, TypeCorrect, PTL DEF Spec

=============================================================================
