--------------------------- MODULE MshRefinement ---------------------------
(***************************************************************************)
(* Msh implements ScavHosting: under the mapping of MshProperties every    *)
(* step of the runtime is a step of the abstract specification or leaves   *)
(* the host of every scavenger and the set of parked threads alone.        *)
(***************************************************************************)
EXTENDS MshSharing

\* Hosts are a function of yc and finished, parked threads one of pc.
LEMMA HostingStutter ==
    ASSUME UNCHANGED <<yc, finished>>,
           \A u \in Threads : pc'[u] \in Parking <=> pc[u] \in Parking
    PROVE  UNCHANGED Hosting!vars
<1>1. \A s \in Scavs : HostOf(s)' = HostOf(s)
  BY DEF HostOf
<1>2. Parked' = Parked
  BY DEF Parked, Parking
<1> QED
  BY <1>1, <1>2 DEF Hosting!vars

\* The six kinds of steps that the abstract specification sees.
Visible(t) ==
    \/ PoolTake(t) \/ StealPush(t) \/ RetireScav(t) \/ SwapCrts(t)
    \/ EnterBlockableCall(t) \/ ExitBlockableCall(t)

\* All other steps keep the table and do not park or release a thread.
LEMMA HiddenStep ==
    ASSUME TypeOK, NEW t \in Threads, Runtime(t) \/ Program(t), ~Visible(t)
    PROVE  /\ UNCHANGED <<yc, finished>>
           /\ \A u \in Threads : pc'[u] \in Parking <=> pc[u] \in Parking
<1>0. pc \in [Threads -> Labels]
  BY DEF TypeOK
<1> USE <1>0 DEF Goto, tableVars, Parking
<1>1. CASE MshAllocCtx(t) \/ AllocateScav(t) \/ AllocLock(t)
  BY <1>1 DEF MshAllocCtx, AllocateScav, AllocLock
<1>2. CASE ScanSkip(t) \/ ScanCapture(t) \/ ScanEnd(t)
  BY <1>2 DEF ScanSkip, ScanCapture, ScanEnd
<1>3. CASE StealPop(t) \/ StealRollback(t) \/ StealEnd(t)
  BY <1>3 DEF StealPop, StealRollback, StealEnd
<1>4. CASE ReleaseVictim(t)
  BY <1>4 DEF ReleaseVictim
<1>5. CASE PoolPick(t) \/ PoolEnd(t) \/ AllocUnlock(t) \/ CallInit(t)
             \/ CallInitLost(t)
  BY <1>5 DEF PoolPick, PoolEnd, AllocUnlock, CallInit, CallInitLost
<1>6. CASE ResumeStart(t) \/ ResumeSched(t) \/ ResumeExit(t)
  BY <1>6 DEF ResumeStart, ResumeSched, ResumeExit
<1>7. CASE FinishPrimary(t) \/ FinishScav(t) \/ FinishLock(t)
             \/ PackLock(t) \/ PackEnd(t) \/ PackSkip(t)
  BY <1>7 DEF FinishPrimary, FinishScav, FinishLock, PackLock, PackEnd,
              PackSkip
<1>8. CASE DispatchNext(t) \/ DispatchCleanup(t)
  BY <1>8, JumpControl DEF DispatchNext, DispatchCleanup
<1>9. CASE CleanupLoop(t)
  BY <1>9 DEF CleanupLoop
<1>10. CASE PrimaryYield(t) \/ ScavYield(t)
  BY <1>10, JumpControl DEF PrimaryYield, ScavYield, RunsPrimary, RunsScav
<1>11. CASE ScavReturn(t) \/ Unblock(t)
  BY <1>11 DEF ScavReturn, Unblock, RunsScav
<1>12. CASE PthreadJoin(t) \/ StartRoutineReturns(t)
  BY <1>12 DEF PthreadJoin, StartRoutineReturns, BeginCleanup, RunsPrimary
<1> QED
  BY <1>1, <1>2, <1>3, <1>4, <1>5, <1>6, <1>7, <1>8, <1>9, <1>10, <1>11,
     <1>12 DEF Runtime, Program, Visible

\* A thread that changes the table is not parked, before and after.
LEMMA NotParked ==
    ASSUME pc \in [Threads -> Labels], NEW t \in Threads, NEW l \in Labels,
           pc' = [pc EXCEPT ![t] = l], l \notin Parking, pc[t] \notin Parking
    PROVE  t \notin Parked /\ Parked' = Parked
  BY DEF Parked, Parking

\* The host of one scavenger changes.
LEMMA OneHost ==
    ASSUME NEW s \in Scavs, NEW h,
           \A r \in Scavs \ {s} : yc'[r] = yc[r] /\ finished'[r] = finished[r],
           HostOf(s)' = h
    PROVE  [r \in Scavs |-> HostOf(r)]' =
              [[r \in Scavs |-> HostOf(r)] EXCEPT ![s] = h]
<1>1. \A r \in Scavs \ {s} : HostOf(r)' = HostOf(r)
  BY DEF HostOf
<1> QED
  BY <1>1

\* Taking an entry from the pool.
LEMMA PoolTakeHosts ==
    ASSUME TypeOK, SharingInv, NEW t \in Threads, PoolTake(t)
    PROVE  \E s \in Scavs : Hosting!Take(s, t)
<1>0. /\ pc \in [Threads -> Labels]
      /\ yc \in [Scavs -> (Threads \X Positions) \cup {NULL}]
  BY DEF TypeOK
<1>1. /\ pc[t] = "take"
      /\ \E l \in {"unlock", "pool"} : pc' = [pc EXCEPT ![t] = l]
      /\ \E p \in Positions : yc' = [yc EXCEPT ![item[t]] = <<t, p>>]
      /\ UNCHANGED finished
  BY DEF PoolTake, Goto
<1>2. PICK s \in Scavs : s = item[t] /\ yc[s] = NULL /\ ~finished[s]
  BY <1>1 DEF SharingInv, PickedInPool, InPool
<1>3. t \notin Parked /\ Parked' = Parked
  BY <1>0, <1>1, NotParked DEF Labels, Parking
<1>4. HostOf(s) = -1 /\ HostOf(s)' = t
  BY <1>0, <1>1, <1>2 DEF HostOf, NULL, Threads
<1>5. [r \in Scavs |-> HostOf(r)]' =
         [[r \in Scavs |-> HostOf(r)] EXCEPT ![s] = t]
  BY <1>0, <1>1, <1>2, <1>4, OneHost
<1> QED
  BY <1>2, <1>3, <1>4, <1>5 DEF Hosting!Take, Hosting!POOL

\* A theft moves an entry away from a parked thread.
LEMMA StealPushHosts ==
    ASSUME TypeOK, SharingInv, NEW t \in Threads, StealPush(t)
    PROVE  \E s \in Scavs, v \in Threads : Hosting!Move(s, v, t)
<1>0. /\ pc \in [Threads -> Labels]
      /\ yc \in [Scavs -> (Threads \X Positions) \cup {NULL}]
  BY DEF TypeOK
<1>1. /\ pc[t] = "push"
      /\ pc' = [pc EXCEPT ![t] = "steal"]
      /\ \E p \in Positions : yc' = [yc EXCEPT ![item[t]] = <<t, p>>]
      /\ UNCHANGED finished
  BY DEF StealPush, Goto
<1>2. PICK s \in Scavs : /\ s = item[t]
                         /\ ~finished[s]
                         /\ yc[s] # NULL
                         /\ yc[s][1] = tid[t]
  BY <1>1 DEF SharingInv, PoppedUnlisted
<1>3. PICK v \in Threads : v = tid[t] /\ v \in Parked
  BY <1>1 DEF SharingInv, ThiefExclusive, Parked
<1>4. t \notin Parked /\ Parked' = Parked
  BY <1>0, <1>1, NotParked DEF Labels, Parking
<1>5. HostOf(s) = v /\ HostOf(s)' = t
  BY <1>0, <1>1, <1>2, <1>3 DEF HostOf, NULL, Threads
<1>6. [r \in Scavs |-> HostOf(r)]' =
         [[r \in Scavs |-> HostOf(r)] EXCEPT ![s] = t]
  BY <1>0, <1>1, <1>2, <1>5, OneHost
<1> QED
  BY <1>2, <1>3, <1>4, <1>5, <1>6 DEF Hosting!Move

\* Retirement ends the hosting by the thread itself.
LEMMA RetireScavHosts ==
    ASSUME TypeOK, SharingInv, NEW t \in Threads, RetireScav(t)
    PROVE  \E s \in Scavs : Hosting!Retire(s, t)
<1>0. /\ pc \in [Threads -> Labels]
      /\ ret_pos \in [Threads -> Slots]
      /\ idx_list \in [Threads -> [Slots -> Scavs \cup {EMPTY}]]
      /\ yc \in [Scavs -> (Threads \X Positions) \cup {NULL}]
      /\ finished \in [Scavs -> BOOLEAN]
  BY DEF TypeOK
<1>1. /\ pc[t] = "retire"
      /\ pc' = [pc EXCEPT ![t] = "pack"]
      /\ yc' = [yc EXCEPT ![crt_idx[t]] = NULL]
      /\ finished' = [finished EXCEPT ![crt_idx[t]] = TRUE]
  BY DEF RetireScav, Goto
<1>2. PICK s \in Scavs : s = crt_idx[t] /\ s = idx_list[t][ret_pos[t]]
  BY <1>0, <1>1 DEF SharingInv, RetiresListed
<1>3. ~finished[s] /\ yc[s] # NULL /\ yc[s][1] = t
  BY <1>0, <1>2 DEF SharingInv, ListedHosted, Scavs, EMPTY
<1>4. t \notin Parked /\ Parked' = Parked
  BY <1>0, <1>1, NotParked DEF Labels, Parking
<1>5. HostOf(s) = t /\ HostOf(s)' = -2
  BY <1>0, <1>1, <1>2, <1>3 DEF HostOf
<1>6. [r \in Scavs |-> HostOf(r)]' =
         [[r \in Scavs |-> HostOf(r)] EXCEPT ![s] = -2]
  BY <1>0, <1>1, <1>2, <1>5, OneHost
<1>7. Hosting!Retire(s, t)
  BY <1>2, <1>4, <1>5, <1>6 DEF Hosting!Retire, Hosting!RETIRED
<1> QED
  BY <1>2, <1>7

\* Packing moves a scavenger within its host.
LEMMA SwapCrtsHosts ==
    ASSUME TypeOK, SharingInv, NEW t \in Threads, SwapCrts(t)
    PROVE  UNCHANGED Hosting!vars
<1>0. /\ pc \in [Threads -> Labels]
      /\ idx_list \in [Threads -> [Slots -> Scavs \cup {EMPTY}]]
      /\ yc \in [Scavs -> (Threads \X Positions) \cup {NULL}]
  BY DEF TypeOK
<1>1. /\ pc[t] = "swap"
      /\ pc' = [pc EXCEPT ![t] = "pack"]
      /\ UNCHANGED finished
  BY DEF SwapCrts, Goto
<1>2. PICK a \in Positions, b \in Positions :
        /\ idx_list[t][b] # EMPTY
        /\ yc' = [yc EXCEPT ![idx_list[t][b]] = <<t, a>>]
  BY DEF SwapCrts, IsSwapPair, Occupied
<1>3. PICK s \in Scavs : s = idx_list[t][b]
  BY <1>0, <1>2, Ranges
<1>4. yc[s] # NULL /\ yc[s][1] = t
  BY <1>2, <1>3, Ranges DEF SharingInv, ListedHosted
<1>5. \A r \in Scavs : HostOf(r)' = HostOf(r)
  <2>1. \A r \in Scavs \ {s} : HostOf(r)' = HostOf(r)
    <3>1. \A r \in Scavs \ {s} : yc'[r] = yc[r] /\ finished'[r] = finished[r]
      BY <1>0, <1>1, <1>2, <1>3
    <3> QED
      BY <3>1 DEF HostOf
  <2>2. yc'[s] # NULL /\ yc'[s][1] = t
    BY <1>0, <1>2, <1>3 DEF NULL, Threads
  <2>3. HostOf(s)' = HostOf(s)
    BY <1>1, <1>4, <2>2 DEF HostOf, NULL
  <2> QED
    BY <2>1, <2>3
<1>6. Parked' = Parked
  BY <1>0, <1>1, NotParked DEF Labels, Parking
<1> QED
  BY <1>5, <1>6 DEF Hosting!vars

\* Entering and leaving a blocking call.
LEMMA ParkHosts ==
    ASSUME TypeOK, NEW t \in Threads,
           EnterBlockableCall(t) \/ ExitBlockableCall(t)
    PROVE  Hosting!Park(t) \/ Hosting!Unpark(t)
<1>0. pc \in [Threads -> Labels]
  BY DEF TypeOK
<1>1. UNCHANGED <<yc, finished>>
  BY DEF EnterBlockableCall, ExitBlockableCall, tableVars
<1>2. \A s \in Scavs : HostOf(s)' = HostOf(s)
  BY <1>1 DEF HostOf
<1>3. CASE EnterBlockableCall(t)
  <2>1. pc[t] = "app" /\ pc' = [pc EXCEPT ![t] = "blocked"]
    BY <1>3 DEF EnterBlockableCall, RunsPrimary, Goto
  <2>2. t \notin Parked /\ Parked' = Parked \cup {t}
    BY <1>0, <2>1 DEF Parked
  <2> QED
    BY <1>2, <2>2 DEF Hosting!Park
<1>4. CASE ExitBlockableCall(t)
  <2>1. /\ pc[t] = "exit"
        /\ \E l \in {"alloc", "app"} : pc' = [pc EXCEPT ![t] = l]
    BY <1>4 DEF ExitBlockableCall, Goto
  <2>2. t \in Parked /\ Parked' = Parked \ {t}
    BY <1>0, <2>1 DEF Parked
  <2> QED
    BY <1>2, <2>2 DEF Hosting!Unpark
<1> QED
  BY <1>3, <1>4

\* The runtime implements the abstract hosting protocol: a scavenger leaves
\* the pool once, changes host only while its host is parked in a blocking
\* call and only to a thread that is not, is retired by its own host, and is
\* never hosted again.
THEOREM Implements == Spec => HostingSpec
<1>1. Init => Hosting!Init
  <2> SUFFICES ASSUME Init PROVE Hosting!Init
    OBVIOUS
  <2>1. \A s \in Scavs : HostOf(s) = -1
    BY DEF Init, HostOf
  <2>2. Parked = {}
    BY DEF Init, Parked
  <2> QED
    BY <2>1, <2>2 DEF Hosting!Init, Hosting!POOL
<1>2. TypeOK /\ SharingInv /\ [Next]_vars => [Hosting!Next]_Hosting!vars
  <2> SUFFICES ASSUME TypeOK, SharingInv, [Next]_vars
               PROVE  [Hosting!Next]_Hosting!vars
    OBVIOUS
  <2>1. CASE UNCHANGED vars
    <3>1. UNCHANGED <<pc, yc, finished>>
      BY <2>1 DEF vars, tableVars
    <3> QED
      BY <3>1, HostingStutter
  <2>2. ASSUME NEW t \in Threads, Runtime(t) \/ Program(t)
        PROVE  [Hosting!Next]_Hosting!vars
    <3>1. CASE ~Visible(t)
      BY <2>2, <3>1, HiddenStep, HostingStutter
    <3>2. CASE PoolTake(t)
      BY <3>2, PoolTakeHosts DEF Hosting!Next
    <3>3. CASE StealPush(t)
      BY <3>3, StealPushHosts DEF Hosting!Next
    <3>4. CASE RetireScav(t)
      BY <3>4, RetireScavHosts DEF Hosting!Next
    <3>5. CASE SwapCrts(t)
      BY <3>5, SwapCrtsHosts
    <3>6. CASE EnterBlockableCall(t) \/ ExitBlockableCall(t)
      BY <3>6, ParkHosts DEF Hosting!Next
    <3> QED
      BY <3>1, <3>2, <3>3, <3>4, <3>5, <3>6 DEF Visible
  <2> QED
    BY <2>1, <2>2 DEF Next, Terminated
<1> QED
  BY <1>1, <1>2, TypeCorrect, Sharing, PTL DEF Spec, HostingSpec, Hosting!Spec

=============================================================================
