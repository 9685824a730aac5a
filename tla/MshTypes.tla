------------------------------ MODULE MshTypes ------------------------------
(***************************************************************************)
(* Type correctness of Msh for every number of threads, slots and          *)
(* scavengers: no link, list entry or local ever leaves its range.         *)
(***************************************************************************)
EXTENDS MshProperties, FiniteSetTheorems, TLAPS

-----------------------------------------------------------------------------
(* What the helpers return.                                                *)

\* need_more_scav returns a count.
LEMMA NeedMoreScavType ==
    ASSUME NEW list
    PROVE  NeedMoreScav(list) \in Nat
<1> DEFINE S == {p \in Positions : Occupied(list, p)}
<1>1. IsFiniteSet(Positions)
  BY FS_Interval, ConstantsAssumption DEF Positions
<1>2. IsFiniteSet(S)
  BY <1>1, FS_Subset
<1>3. Cardinality(S) \in Nat
  BY <1>2, FS_CardinalityType
<1> QED
  BY <1>3, ConstantsAssumption DEF NeedMoreScav

\* A slot's byte offset, and the slot itself, are offsets of the context.
LEMMA SlotOffset ==
    ASSUME NEW p \in Slots
    PROVE  /\ YC * p \in Offsets
           /\ YC * p \in 0 .. YC * MAX_CRT_PER_THREAD
           /\ YC * (p + 1) \in Offsets
           /\ p \in Offsets
           /\ p \in 0 .. YC * MAX_CRT_PER_THREAD
  BY ConstantsAssumption DEF YC, Slots, Offsets

\* tl_sched_next_crt turns any value of crt_pos into a slot.
LEMMA OffsetSlot ==
    ASSUME NEW off \in 0 .. YC * MAX_CRT_PER_THREAD
    PROVE  off \div YC \in Slots
  BY ConstantsAssumption DEF YC, Slots

LinkMaps == [Slots -> Offsets \cup {FIN}]

\* tl_update_next_map returns links of the same type.
LEMMA UpdateNextMapType ==
    ASSUME NEW links \in LinkMaps, NEW new \in UpdateNextMap(links)
    PROVE  new \in LinkMaps
<1>1. CASE links[0] = FIN
  BY <1>1 DEF UpdateNextMap
<1>2. CASE links[0] # FIN
  <2>1. PICK p \in Slots : new = [links EXCEPT ![0] = YC * p]
    BY <1>2 DEF UpdateNextMap
  <2>2. YC * p \in Offsets
    BY SlotOffset
  <2> QED
    BY <2>1, <2>2 DEF LinkMaps
<1> QED
  BY <1>1, <1>2

\* set_special_next returns byte offsets, the last of them past the context.
LEMMA SetSpecialNextType ==
    ASSUME NEW list, NEW num, NEW links \in [Slots -> Offsets]
    PROVE  SetSpecialNext(list, num, links) \in [Slots -> Offsets]
<1>1. 0 \in Slots /\ 0 \in Offsets
  BY ConstantsAssumption DEF Slots, Offsets, YC
<1>2. \A p \in Slots : YC * (p + 1) \in Offsets
  BY SlotOffset
<1> QED
  BY <1>1, <1>2 DEF SetSpecialNext

\* msh_cleanup links slots to themselves.
LEMMA SelfLinksType ==
    ASSUME NEW normal, NEW R, Offsets \subseteq R, NEW links \in [Slots -> R]
    PROVE  SelfLinks(links, normal) \in [Slots -> R]
<1>1. \A p \in Slots : YC * p \in R
  BY SlotOffset
<1> QED
  BY <1>1 DEF SelfLinks

\* tl_swap_crts keeps the range of what it exchanges.
LEMMA SwapType ==
    ASSUME NEW R, NEW f \in [Slots -> R], NEW a \in Positions,
           NEW b \in Positions
    PROVE  Swap(f, a, b) \in [Slots -> R]
<1>1. a \in Slots /\ b \in Slots
  BY ConstantsAssumption DEF Slots, Positions
<1> QED
  BY <1>1 DEF Swap

LEMMA RenameLinksType ==
    ASSUME NEW links \in LinkMaps, NEW a \in Positions, NEW b \in Positions
    PROVE  RenameLinks(links, a, b) \in LinkMaps
<1>1. a \in Slots /\ b \in Slots
  BY ConstantsAssumption DEF Slots, Positions
<1>2. a \in Offsets /\ b \in Offsets
  BY <1>1, SlotOffset
<1> QED
  BY <1>2 DEF RenameLinks, LinkMaps

\* The slot computed from a link is an integer, if only a negative one.
LEMMA NextOfType ==
    ASSUME NEW link \in Offsets \cup {FIN}
    PROVE  NextOf(link) \in Int
  BY ConstantsAssumption DEF NextOf, Offsets, YC, FIN

-----------------------------------------------------------------------------
(* The invariant.  A thief's tid names a thread: needed because the loop   *)
(* variable itself runs one past the last thread.                          *)

TidInRange ==
    \A t \in Threads :
        pc[t] \in {"steal", "push", "release"} => tid[t] \in Threads

\* Slot 0 and the links that name it or slot 1 exist.
LEMMA Ranges ==
    /\ 0 \in Slots
    /\ Positions \subseteq Slots
    /\ 0 \in Offsets
    /\ YC \in Offsets
    /\ 0 \in 0 .. MAX_THREAD_NUM
  BY ConstantsAssumption DEF Slots, Positions, Offsets, YC

\* The loop over PRIM_TABLE stops one past the last thread.
LEMMA NextTidType ==
    ASSUME NEW v \in Threads
    PROVE  NextTid(v) \in 0 .. MAX_THREAD_NUM
  BY ConstantsAssumption DEF NextTid, Threads

\* A jump runs a coroutine or loses the thread.
LEMMA JumpType ==
    ASSUME NEW t \in Threads, NEW c, Jump(t, c), pc \in [Threads -> Labels],
           run \in [Threads -> Scavs \cup {PRIM}]
    PROVE  pc' \in [Threads -> Labels] /\ run' \in [Threads -> Scavs \cup {PRIM}]
<1>1. CASE Resumable(t, c)
  BY <1>1 DEF Jump, Resumable, Goto, Labels
<1>2. CASE ~Resumable(t, c)
  BY <1>2 DEF Jump, Goto, Labels
<1> QED
  BY <1>1, <1>2

\* The initial tables and locals are in range.
LEMMA InitType == Init => TypeOK /\ TidInRange
  BY ConstantsAssumption
     DEF Init, TypeOK, TidInRange, Labels, Slots, Offsets, Threads, YC, FIN,
         EMPTY, PRIM, ZERO, FREE, NULL

\* Only a successful CAS enters the code that steals.
LEMMA StepTid ==
    ASSUME TypeOK, TidInRange, NEW t \in Threads, Runtime(t) \/ Program(t)
    PROVE  TidInRange'
<1>0. pc \in [Threads -> Labels] /\ tid \in [Threads -> 0 .. MAX_THREAD_NUM]
  BY DEF TypeOK
<1> USE <1>0 DEF TidInRange, Goto, innerVars, allocVars
<1>1. CASE ScanCapture(t)
  BY <1>1 DEF ScanCapture
<1>2. CASE StealPop(t) \/ StealPush(t) \/ StealRollback(t) \/ StealEnd(t)
  BY <1>2 DEF StealPop, StealPush, StealRollback, StealEnd
<1>3. CASE ReleaseVictim(t)
  BY <1>3 DEF ReleaseVictim
<1>4. CASE ScanSkip(t) \/ AllocLock(t) \/ ScanEnd(t)
  BY <1>4 DEF ScanSkip, AllocLock, ScanEnd
<1>5. CASE ResumeStart(t) \/ ResumeSched(t) \/ ResumeExit(t)
  BY <1>5 DEF ResumeStart, ResumeSched, ResumeExit, DropAllocLocals
<1>6. CASE MshAllocCtx(t) \/ AllocateScav(t) \/ PoolPick(t) \/ PoolTake(t) \/
         PoolEnd(t) \/ AllocUnlock(t) \/ CallInit(t) \/ CallInitLost(t)
  BY <1>6 DEF MshAllocCtx, AllocateScav, PoolPick, PoolTake, PoolEnd,
     AllocUnlock, CallInit, CallInitLost
<1>7. CASE ExitBlockableCall(t) \/ FinishPrimary(t) \/ FinishScav(t) \/
         FinishLock(t) \/ RetireScav(t)
  BY <1>7 DEF ExitBlockableCall, FinishPrimary, FinishScav, FinishLock,
     RetireScav
<1>8. CASE PackLock(t) \/ SwapCrts(t) \/ PackEnd(t) \/ PackSkip(t)
  BY <1>8 DEF PackLock, SwapCrts, PackEnd, PackSkip
<1>9. CASE DispatchNext(t) \/ DispatchCleanup(t) \/ CleanupLoop(t)
  BY <1>9 DEF DispatchNext, DispatchCleanup, CleanupLoop, Jump
<1>10. CASE PrimaryYield(t) \/ ScavYield(t) \/ ScavReturn(t) \/
         EnterBlockableCall(t) \/ Unblock(t)
  BY <1>10 DEF PrimaryYield, ScavYield, ScavReturn, EnterBlockableCall,
     Unblock, Jump
<1>11. CASE PthreadJoin(t) \/ StartRoutineReturns(t)
  BY <1>11 DEF PthreadJoin, StartRoutineReturns, BeginCleanup
<1> QED
  BY <1>1, <1>2, <1>3, <1>4, <1>5, <1>6, <1>7, <1>8, <1>9, <1>10, <1>11 DEF Runtime, Program

\* Every step of a thread keeps the types.
LEMMA StepType ==
    ASSUME TypeOK, TidInRange, NEW t \in Threads, Runtime(t) \/ Program(t)
    PROVE  TypeOK'
<1> USE DEF TypeOK, vars, innerVars, outerVars, allocVars, schedVars, progVars,
            linkVars, slotVars, ctxVars, flagVars, primVars, tableVars, Goto
<1>1. CASE MshAllocCtx(t)
  BY <1>1, ConstantsAssumption DEF MshAllocCtx, Labels
<1>2. CASE AllocateScav(t)
  BY <1>2, NeedMoreScavType, ConstantsAssumption DEF AllocateScav, Labels
<1>3. CASE AllocLock(t)
  BY <1>3, ConstantsAssumption DEF AllocLock, SpinLock, Labels
<1>4. CASE ScanSkip(t)
  BY <1>4, NextTidType, ConstantsAssumption DEF ScanSkip, Labels
<1>5. CASE ScanCapture(t)
  BY <1>5, ConstantsAssumption DEF ScanCapture, TakeFlag, Labels
<1>6. CASE ScanEnd(t)
  BY <1>6, ConstantsAssumption DEF ScanEnd, Labels
<1>7. CASE StealPop(t)
  <2>1. PICK p \in Positions :
          /\ item' = [item EXCEPT ![t] = idx_list[tid[t]][p]]
          /\ from_pos' = [from_pos EXCEPT ![t] = p]
          /\ idx_list' = [idx_list EXCEPT ![tid[t]][p] = EMPTY]
    BY <1>7 DEF StealPop
  <2>2. tid[t] \in Threads /\ p \in Slots
    BY <1>7, <2>1, Ranges DEF StealPop, TidInRange
  <2>3. idx_list' \in [Threads -> [Slots -> Scavs \cup {EMPTY}]]
    BY <2>1, <2>2
  <2> QED
    BY <1>7, <2>1, <2>2, <2>3 DEF StealPop, Labels
<1>8. CASE StealPush(t)
  <2> DEFINE v == tid[t]
  <2>1. PICK p \in Positions :
          /\ idx_list' = [idx_list EXCEPT ![t][p] = item[t]]
          /\ saved' = [saved EXCEPT ![t][p] = saved[v][from_pos[t]]]
          /\ normal_next' = [normal_next EXCEPT ![t][p] = 0,
                                                ![t][0] = YC,
                                                ![v][from_pos[t]] = FIN]
          /\ crt_pos' = [crt_pos EXCEPT ![LibOf[item[t]]] = p]
          /\ yc' = [yc EXCEPT ![item[t]] = <<t, p>>]
    BY <1>8 DEF StealPush, CopyCtx
  <2>2. v \in Threads /\ p \in Slots
    BY <1>8, Ranges DEF StealPush, TidInRange
  <2>3. idx_list' \in [Threads -> [Slots -> Scavs \cup {EMPTY}]]
    BY <2>1, <2>2
  <2>4. saved' \in [Threads -> [Slots -> Scavs \cup {PRIM, ZERO}]]
    BY <2>1, <2>2
  <2>5. normal_next' \in [Threads -> [Slots -> Offsets \cup {FIN}]]
    BY <2>1, <2>2, Ranges
  <2>6. crt_pos' \in [Libs -> 0 .. YC * MAX_CRT_PER_THREAD]
    BY <2>1, <2>2, SlotOffset
  <2>7. yc' \in [Scavs -> (Threads \X Positions) \cup {NULL}]
    BY <2>1
  <2>8. cnt' \in [Threads -> Nat] /\ reallocated' \in [Threads -> BOOLEAN]
    <3>1. cnt' = [cnt EXCEPT ![t] = cnt[t] + 1]
      BY <1>8 DEF StealPush
    <3>2. reallocated' = [reallocated EXCEPT ![v] = TRUE]
      BY <1>8 DEF StealPush
    <3>3. cnt[t] + 1 \in Nat
      OBVIOUS
    <3> QED
      BY <3>1, <3>2, <3>3
  <2>9. item' \in [Threads -> Scavs \cup {EMPTY}] /\ pc' \in [Threads -> Labels]
    BY <1>8 DEF StealPush, Labels
  <2> QED
    BY <1>8, <2>3, <2>4, <2>5, <2>6, <2>7, <2>8, <2>9 DEF StealPush
<1>9. CASE StealRollback(t)
  <2>1. PICK list \in PutBack(idx_list[tid[t]], item[t]) :
          idx_list' = [idx_list EXCEPT ![tid[t]] = list]
    BY <1>9 DEF StealRollback
  <2>2. PICK p \in Positions : list = [idx_list[tid[t]] EXCEPT ![p] = item[t]]
    BY DEF PutBack
  <2>3. tid[t] \in Threads
    BY <1>9 DEF StealRollback, TidInRange
  <2>4. list \in [Slots -> Scavs \cup {EMPTY}]
    BY <2>2, <2>3
  <2>5. idx_list' \in [Threads -> [Slots -> Scavs \cup {EMPTY}]]
    BY <2>1, <2>4
  <2> QED
    BY <1>9, <2>5 DEF StealRollback, Labels
<1>10. CASE StealEnd(t)
  BY <1>10, ConstantsAssumption DEF StealEnd, Labels
<1>11. CASE ReleaseVictim(t)
  <2>1. tid[t] \in Threads
    BY <1>11 DEF ReleaseVictim, TidInRange
  <2>2. NextTid(tid[t]) \in 0 .. MAX_THREAD_NUM
    BY <2>1, NextTidType
  <2> QED
    BY <1>11, <2>1, <2>2 DEF ReleaseVictim, GiveFlag, Labels
<1>12. CASE PoolPick(t)
  BY <1>12, ConstantsAssumption DEF PoolPick, Labels
<1>13. CASE PoolTake(t)
  <2>1. PICK p \in Positions :
          /\ idx_list' = [idx_list EXCEPT ![t][p] = item[t]]
          /\ saved' = [saved EXCEPT ![t][p] = item[t]]
          /\ normal_next' = [normal_next EXCEPT ![t][p] = 0]
          /\ crt_pos' = [crt_pos EXCEPT ![LibOf[item[t]]] = YC * p]
          /\ yc' = [yc EXCEPT ![item[t]] = <<t, p>>]
    BY <1>13 DEF PoolTake, ScavSymbol
  <2>2. p \in Slots
    BY Ranges
  <2>3. idx_list' \in [Threads -> [Slots -> Scavs \cup {EMPTY}]]
    BY <2>1, <2>2
  <2>4. saved' \in [Threads -> [Slots -> Scavs \cup {PRIM, ZERO}]]
    BY <2>1, <2>2 DEF EMPTY, PRIM
  <2>5. normal_next' \in [Threads -> [Slots -> Offsets \cup {FIN}]]
    BY <2>1, <2>2, Ranges
  <2>6. crt_pos' \in [Libs -> 0 .. YC * MAX_CRT_PER_THREAD]
    BY <2>1, <2>2, SlotOffset
  <2>7. yc' \in [Scavs -> (Threads \X Positions) \cup {NULL}]
    BY <2>1
  <2> QED
    BY <1>13, <2>3, <2>4, <2>5, <2>6, <2>7 DEF PoolTake, Labels
<1>14. CASE PoolEnd(t)
  BY <1>14, ConstantsAssumption DEF PoolEnd, Labels
<1>15. CASE AllocUnlock(t)
  BY <1>15, ConstantsAssumption DEF AllocUnlock, SpinUnlock, Labels
<1>16. CASE CallInit(t)
  <2>1. SetSpecialNext(idx_list[t], scav_num[t], special_next[t])
          \in [Slots -> Offsets]
    BY SetSpecialNextType
  <2>2. special_next' \in [Threads -> [Slots -> Offsets]]
    BY <1>16, <2>1 DEF CallInit
  <2>3. inited' \in [Scavs -> BOOLEAN]
    BY <1>16 DEF CallInit
  <2> QED
    BY <1>16, <2>2, <2>3 DEF CallInit, Labels
<1>17. CASE ResumeStart(t)
  <2>1. normal_next' \in [Threads -> [Slots -> Offsets \cup {FIN}]]
    BY <1>17, Ranges DEF ResumeStart
  <2> QED
    BY <1>17, <2>1, Ranges DEF ResumeStart, DropAllocLocals, Labels
<1>18. CASE ResumeSched(t)
  <2>1. PICK links \in UpdateNextMap(normal_next[t]) :
          normal_next' = [normal_next EXCEPT ![t] = links]
    BY <1>18 DEF ResumeSched
  <2>2. links \in LinkMaps
    BY UpdateNextMapType DEF LinkMaps
  <2>3. normal_next' \in [Threads -> [Slots -> Offsets \cup {FIN}]]
    BY <2>1, <2>2 DEF LinkMaps
  <2> QED
    BY <1>18, <2>3, Ranges DEF ResumeSched, DropAllocLocals, Labels
<1>19. CASE ResumeExit(t)
  <2>1. PICK links \in UpdateNextMap(normal_next[t]) :
          normal_next' = [normal_next EXCEPT ![t] = links]
    BY <1>19 DEF ResumeExit
  <2>2. links \in LinkMaps
    BY UpdateNextMapType DEF LinkMaps
  <2>3. normal_next' \in [Threads -> [Slots -> Offsets \cup {FIN}]]
    BY <2>1, <2>2 DEF LinkMaps
  <2> QED
    BY <1>19, <2>3, Ranges DEF ResumeExit, DropAllocLocals, Labels
<1>20. CASE ExitBlockableCall(t)
  BY <1>20, ConstantsAssumption DEF ExitBlockableCall, TakeFlag, StolenFrom,
     Labels
<1>21. CASE FinishPrimary(t)
  <2> DEFINE links == [normal_next[t] EXCEPT ![ret_pos[t]] = FIN]
  <2>1. PICK new \in UpdateNextMap(links) :
          normal_next' = [normal_next EXCEPT ![t] = new]
    BY <1>21 DEF FinishPrimary
  <2>2. links \in LinkMaps
    BY DEF LinkMaps
  <2>3. new \in LinkMaps
    BY <2>2, UpdateNextMapType
  <2>4. normal_next' \in [Threads -> [Slots -> Offsets \cup {FIN}]]
    BY <2>1, <2>3 DEF LinkMaps
  <2> QED
    BY <1>21, <2>4 DEF FinishPrimary, Labels
<1>22. CASE FinishLock(t)
  BY <1>22, ConstantsAssumption DEF FinishLock, SpinLock, Labels
<1>23. CASE RetireScav(t)
  <2>1. PICK links \in UpdateNextMap(normal_next[t]) :
          normal_next' = [normal_next EXCEPT ![t] = links]
    BY <1>23 DEF RetireScav
  <2>2. links \in LinkMaps
    BY UpdateNextMapType DEF LinkMaps
  <2>3. normal_next' \in [Threads -> [Slots -> Offsets \cup {FIN}]]
    BY <2>1, <2>2 DEF LinkMaps
  <2>4. idx_list' \in [Threads -> [Slots -> Scavs \cup {EMPTY}]]
    BY <1>23 DEF RetireScav
  <2> QED
    BY <1>23, <2>3, <2>4 DEF RetireScav, SpinUnlock, Labels
<1>24. CASE PackLock(t)
  BY <1>24, ConstantsAssumption DEF PackLock, SpinLock, Labels
<1>25. CASE SwapCrts(t)
  <2>1. PICK a \in Positions, b \in Positions :
          /\ idx_list' = [idx_list EXCEPT ![t] = Swap(@, a, b)]
          /\ saved' = [saved EXCEPT ![t] = Swap(@, a, b)]
          /\ special_next' = [special_next EXCEPT ![t] = Swap(@, a, b)]
          /\ normal_next' = [normal_next EXCEPT
                                ![t] = RenameLinks(Swap(@, a, b), a, b)]
          /\ yc' = [yc EXCEPT ![idx_list[t][b]] = <<t, a>>]
          /\ crt_pos' = [crt_pos EXCEPT ![LibOf[idx_list[t][b]]] = a]
    BY <1>25 DEF SwapCrts
  <2>2. a \in Slots
    BY Ranges
  <2>3. idx_list' \in [Threads -> [Slots -> Scavs \cup {EMPTY}]]
    BY <2>1, SwapType
  <2>4. saved' \in [Threads -> [Slots -> Scavs \cup {PRIM, ZERO}]]
    BY <2>1, SwapType
  <2>5. special_next' \in [Threads -> [Slots -> Offsets]]
    BY <2>1, SwapType
  <2>6. Swap(normal_next[t], a, b) \in LinkMaps
    BY SwapType DEF LinkMaps
  <2>7. RenameLinks(Swap(normal_next[t], a, b), a, b) \in LinkMaps
    BY <2>6, RenameLinksType
  <2>8. normal_next' \in [Threads -> [Slots -> Offsets \cup {FIN}]]
    BY <2>1, <2>7 DEF LinkMaps
  <2>9. crt_pos' \in [Libs -> 0 .. YC * MAX_CRT_PER_THREAD]
    BY <2>1, <2>2, SlotOffset
  <2>10. yc' \in [Scavs -> (Threads \X Positions) \cup {NULL}]
    BY <2>1
  <2> QED
    BY <1>25, <2>3, <2>4, <2>5, <2>8, <2>9, <2>10
       DEF SwapCrts, SpinUnlock, Labels
<1>26. CASE PackEnd(t)
  <2>1. SetSpecialNext(idx_list[t], scav_num[t], special_next[t])
          \in [Slots -> Offsets]
    BY SetSpecialNextType
  <2>2. special_next' \in [Threads -> [Slots -> Offsets]]
    BY <1>26, <2>1 DEF PackEnd
  <2> QED
    BY <1>26, <2>2 DEF PackEnd, Labels
<1>27. CASE PackSkip(t)
  BY <1>27, ConstantsAssumption DEF PackSkip, Labels
<1>28. CASE DispatchNext(t)
  <2>1. pc' \in [Threads -> Labels] /\ run' \in [Threads -> Scavs \cup {PRIM}]
    BY <1>28, JumpType DEF DispatchNext
  <2>2. /\ ret_pos' \in [Threads -> Slots]
        /\ next' \in [Threads -> Int]
        /\ crt_idx' \in [Threads -> Scavs \cup {EMPTY}]
    BY <1>28, Ranges DEF DispatchNext, DropSchedLocals
  <2> QED
    BY <1>28, <2>1, <2>2 DEF DispatchNext
<1>29. CASE DispatchCleanup(t)
  <2>1. PICK p \in Slots :
          \/ Jump(t, saved[t][p])
          \/ /\ run' = [run EXCEPT ![t] = PRIM]
             /\ \E l \in {"wild", "cleanup"} : pc' = [pc EXCEPT ![t] = l]
    BY <1>29 DEF DispatchCleanup
  <2>2. pc' \in [Threads -> Labels] /\ run' \in [Threads -> Scavs \cup {PRIM}]
    <3>1. CASE Jump(t, saved[t][p])
      BY <3>1, JumpType
    <3>2. CASE /\ run' = [run EXCEPT ![t] = PRIM]
               /\ \E l \in {"wild", "cleanup"} : pc' = [pc EXCEPT ![t] = l]
      BY <3>2 DEF Labels
    <3> QED
      BY <2>1, <3>1, <3>2
  <2>3. /\ ret_pos' \in [Threads -> Slots]
        /\ next' \in [Threads -> Int]
        /\ crt_idx' \in [Threads -> Scavs \cup {EMPTY}]
    BY <1>29, Ranges DEF DispatchCleanup, DropSchedLocals
  <2> QED
    BY <1>29, <2>2, <2>3 DEF DispatchCleanup
<1>30. CASE CleanupLoop(t)
  <2>1. CASE HasOccupied(idx_list[t])
    <3>1. NextOf(normal_next[t][0]) \in Int
      BY NextOfType, Ranges
    <3>2. /\ ret_pos' = [ret_pos EXCEPT ![t] = 0]
          /\ next' = [next EXCEPT ![t] = NextOf(normal_next[t][0])]
          /\ pc' = [pc EXCEPT ![t] = "finish"]
          /\ UNCHANGED <<cleanup, normal_next, crt_idx, innerVars, tableVars,
                         slotVars, flagVars, run, special_next, ended,
                         scav_table_lock, first_join>>
      BY <1>30, <2>1 DEF CleanupLoop, Goto
    <3>3. ret_pos' \in [Threads -> Slots] /\ next' \in [Threads -> Int]
      BY <3>1, <3>2, Ranges
    <3>4. pc' \in [Threads -> Labels]
      BY <3>2 DEF Labels
    <3> QED
      BY <3>2, <3>3, <3>4
  <2>2. CASE ~HasOccupied(idx_list[t])
    <3>1. normal_next' = [normal_next EXCEPT ![t][0] = 0]
      BY <1>30, <2>2 DEF CleanupLoop
    <3>2. normal_next' \in [Threads -> [Slots -> Offsets \cup {FIN}]]
      BY <3>1, Ranges
    <3> QED
      BY <1>30, <2>2, <3>2 DEF CleanupLoop, Labels
  <2> QED
    BY <2>1, <2>2
<1>31. CASE PrimaryYield(t)
  <2>1. saved' \in [Threads -> [Slots -> Scavs \cup {PRIM, ZERO}]]
    BY <1>31 DEF PrimaryYield
  <2>2. pc' \in [Threads -> Labels] /\ run' \in [Threads -> Scavs \cup {PRIM}]
    BY <1>31, JumpType DEF PrimaryYield
  <2> QED
    BY <1>31, <2>1, <2>2 DEF PrimaryYield
<1>32. CASE ScavYield(t)
  <2> DEFINE off == crt_pos[LibOf[run[t]]]
             p == off \div YC
             ctxs == [saved[t] EXCEPT ![p] = run[t]]
  <2>1. CASE off = YC * p
    <3>1. saved' = [saved EXCEPT ![t] = ctxs]
      BY <1>32, <2>1 DEF ScavYield
    <3>2. ctxs \in [Slots -> Scavs \cup {PRIM, ZERO}]
      BY <1>32 DEF ScavYield, RunsScav
    <3>3. saved' \in [Threads -> [Slots -> Scavs \cup {PRIM, ZERO}]]
      BY <3>1, <3>2
    <3>4. PICK link : Jump(t, AtOffset(ctxs, link))
      BY <1>32, <2>1 DEF ScavYield
    <3>5. pc' \in [Threads -> Labels] /\ run' \in [Threads -> Scavs \cup {PRIM}]
      BY <3>4, JumpType
    <3> QED
      BY <1>32, <3>3, <3>5 DEF ScavYield
  <2>2. CASE off # YC * p
    BY <1>32, <2>2 DEF ScavYield, Labels
  <2> QED
    BY <2>1, <2>2
<1>33. CASE ScavReturn(t)
  <2> DEFINE p == crt_pos[LibOf[run[t]]] \div YC
  <2>1. run[t] \in Scavs
    BY <1>33 DEF ScavReturn, RunsScav
  <2>2. p \in Slots
    BY <2>1, ConstantsAssumption, OffsetSlot
  <2>3. NextOf(normal_next[t][p]) \in Int
    BY <2>2, NextOfType
  <2> QED
    BY <1>33, <2>1, <2>2, <2>3 DEF ScavReturn, Labels
<1>34. CASE EnterBlockableCall(t)
  BY <1>34, ConstantsAssumption DEF EnterBlockableCall, Labels
<1>35. CASE Unblock(t)
  BY <1>35, ConstantsAssumption DEF Unblock, Labels
<1>36. CASE PthreadJoin(t)
  <2>1. CASE SKIP_CLEANUP
    BY <1>36, <2>1 DEF PthreadJoin, Labels
  <2>2. CASE ~SKIP_CLEANUP
    <3>1. BeginCleanup(t, "join")
      BY <1>36, <2>2 DEF PthreadJoin
    <3>2. SelfLinks(normal_next[t], normal_next[t])
            \in [Slots -> Offsets \cup {FIN}]
      BY SelfLinksType
    <3>3. SelfLinks(special_next[t], normal_next[t]) \in [Slots -> Offsets]
      BY SelfLinksType
    <3>4. normal_next' \in [Threads -> [Slots -> Offsets \cup {FIN}]]
      BY <3>1, <3>2 DEF BeginCleanup
    <3>5. special_next' \in [Threads -> [Slots -> Offsets]]
      BY <3>1, <3>3 DEF BeginCleanup
    <3> QED
      BY <1>36, <3>1, <3>4, <3>5 DEF PthreadJoin, BeginCleanup, Labels
  <2> QED
    BY <2>1, <2>2
<1>37. CASE StartRoutineReturns(t)
  <2>1. CASE SKIP_CLEANUP
    BY <1>37, <2>1 DEF StartRoutineReturns, Labels
  <2>2. CASE ~SKIP_CLEANUP
    <3>1. BeginCleanup(t, "exit")
      BY <1>37, <2>2 DEF StartRoutineReturns
    <3>2. SelfLinks(normal_next[t], normal_next[t])
            \in [Slots -> Offsets \cup {FIN}]
      BY SelfLinksType
    <3>3. SelfLinks(special_next[t], normal_next[t]) \in [Slots -> Offsets]
      BY SelfLinksType
    <3>4. normal_next' \in [Threads -> [Slots -> Offsets \cup {FIN}]]
      BY <3>1, <3>2 DEF BeginCleanup
    <3>5. special_next' \in [Threads -> [Slots -> Offsets]]
      BY <3>1, <3>3 DEF BeginCleanup
    <3> QED
      BY <1>37, <3>1, <3>4, <3>5 DEF StartRoutineReturns, BeginCleanup, Labels
  <2> QED
    BY <2>1, <2>2
<1>38. CASE CallInitLost(t)
  BY <1>38, ConstantsAssumption DEF CallInitLost, Labels
<1>39. CASE FinishScav(t)
  <2>1. normal_next' \in [Threads -> [Slots -> Offsets \cup {FIN}]]
    BY <1>39 DEF FinishScav
  <2>2. crt_idx' \in [Threads -> Scavs \cup {EMPTY}]
    BY <1>39 DEF FinishScav, CrtIdxAt
  <2> QED
    BY <1>39, <2>1, <2>2 DEF FinishScav, Labels
<1> QED
  BY <1>1, <1>2, <1>3, <1>4, <1>5, <1>6, <1>7, <1>8, <1>9, <1>10, <1>11,
     <1>12, <1>13, <1>14, <1>15, <1>16, <1>17, <1>18, <1>19, <1>20, <1>21,
     <1>22, <1>23, <1>24, <1>25, <1>26, <1>27, <1>28, <1>29, <1>30, <1>31,
     <1>32, <1>33, <1>34, <1>35, <1>36, <1>37, <1>38, <1>39
     DEF Runtime, Program

\* TypeOK is an invariant: whatever the interleaving, no list entry, link,
\* saved context or scheduler local leaves the range its table gives it.
THEOREM TypeCorrect == Spec => []TypeOK
<1>1. Init => TypeOK /\ TidInRange
  BY InitType
<1>2. (TypeOK /\ TidInRange) /\ [Next]_vars => (TypeOK /\ TidInRange)'
  <2> SUFFICES ASSUME TypeOK, TidInRange, [Next]_vars
               PROVE  (TypeOK /\ TidInRange)'
    OBVIOUS
  <2>1. CASE \E t \in Threads : Runtime(t) \/ Program(t)
    BY <2>1, StepType, StepTid
  <2>2. CASE UNCHANGED vars
    BY <2>2 DEF TypeOK, TidInRange, vars, innerVars, outerVars, allocVars,
                schedVars, progVars, linkVars, slotVars, ctxVars, flagVars,
                primVars, tableVars
  <2> QED
    BY <2>1, <2>2 DEF Next, Terminated
<1> QED
  BY <1>1, <1>2, PTL DEF Spec

=============================================================================
