------------------------------ MODULE ShimLock ------------------------------
(***************************************************************************)
(* The spin lock is a lock, by itself and as the pthread wrappers use it.  *)
(***************************************************************************)
EXTENDS ShimProperties, TLAPS

\* The byte and the threads past spin_lock agree at the start.
LEMMA SpinStart == SpinInit => SpinInv
  BY DEF SpinInit, SpinInv, SPINLOCK_INITIALIZER, BUSY

\* Every memory access of the lock keeps SpinInv: an xchg wins only a free
\* byte, and only the thread that won frees it.
LEMMA SpinStep == SpinInv /\ [SpinNext]_spinVars => SpinInv'
  <1> SUFFICES ASSUME SpinInv, [SpinNext]_spinVars
               PROVE  SpinInv'
    OBVIOUS
  <1>1. ASSUME NEW t \in Threads, SpinCall(t)
        PROVE  SpinInv'
    BY <1>1 DEF SpinInv, SpinCall, BUSY
  <1>2. ASSUME NEW t \in Threads, Xchg8(t)
        PROVE  SpinInv'
    <2>1. CASE lock = 0
      BY <1>2, <2>1 DEF SpinInv, Xchg8, Won, BUSY
    <2>2. CASE lock = BUSY
      BY <1>2, <2>2 DEF SpinInv, Xchg8, Won, BUSY
    <2> QED
      BY <2>1, <2>2 DEF SpinInv
  <1>3. ASSUME NEW t \in Threads, Relax(t)
        PROVE  SpinInv'
    BY <1>3 DEF SpinInv, Relax, BUSY
  <1>4. ASSUME NEW t \in Threads, SpinUnlock(t)
        PROVE  SpinInv'
    BY <1>4 DEF SpinInv, SpinUnlock, BUSY
  <1>5. CASE UNCHANGED spinVars
    BY <1>5 DEF spinVars, SpinInv
  <1> QED
    BY <1>1, <1>2, <1>3, <1>4, <1>5 DEF SpinNext

\* Holder is the thread past spin_lock.
LEMMA HolderIs ==
    ASSUME SpinInv, NEW t \in Threads, spin[t] = "in"
    PROVE  Holder = t
  BY DEF SpinInv, Holder

\* Without one there is no holder.
LEMMA HolderNone ==
    ASSUME \A t \in Threads : spin[t] # "in"
    PROVE  Holder = Nobody
  BY DEF Holder

\* A won xchg is Acquire, spin_unlock is Release, and the calls, the lost xchg
\* and the reads are stutters.
LEMMA SpinMaps ==
    ASSUME SpinInv, SpinInv', [SpinNext]_spinVars
    PROVE  [Atomic!Next]_Holder
  <1>1. ASSUME NEW t \in Threads, SpinCall(t)
        PROVE  UNCHANGED Holder
    <2>1. \A u \in Threads : (spin'[u] = "in") <=> (spin[u] = "in")
      BY <1>1 DEF SpinCall, SpinInv
    <2> QED
      BY <2>1 DEF Holder
  <1>2. ASSUME NEW t \in Threads, Xchg8(t)
        PROVE  [Atomic!Next]_Holder
    <2>1. CASE lock = 0
      <3>1. \A u \in Threads : spin[u] # "in"
        BY <2>1 DEF SpinInv, BUSY
      <3>2. spin'[t] = "in"
        BY <1>2, <2>1 DEF Xchg8, Won, SpinInv
      <3>3. Holder = Nobody
        BY <3>1, HolderNone
      <3>4. Holder' = t
        BY <3>2 DEF Holder, SpinInv
      <3> QED
        BY <3>3, <3>4 DEF Atomic!Next, Atomic!Acquire
    <2>2. CASE lock = BUSY
      <3>1. \A u \in Threads : (spin'[u] = "in") <=> (spin[u] = "in")
        BY <1>2, <2>2 DEF Xchg8, Won, SpinInv, BUSY
      <3> QED
        BY <3>1 DEF Holder
    <2> QED
      BY <2>1, <2>2 DEF SpinInv
  <1>3. ASSUME NEW t \in Threads, Relax(t)
        PROVE  UNCHANGED Holder
    <2>1. \A u \in Threads : (spin'[u] = "in") <=> (spin[u] = "in")
      BY <1>3 DEF Relax, SpinInv
    <2> QED
      BY <2>1 DEF Holder
  <1>4. ASSUME NEW t \in Threads, SpinUnlock(t)
        PROVE  [Atomic!Next]_Holder
    <2>1. Holder = t
      BY <1>4, HolderIs DEF SpinUnlock
    <2>2. \A u \in Threads : spin'[u] # "in"
      BY <1>4 DEF SpinUnlock, SpinInv
    <2>3. Holder' = Nobody
      BY <2>2 DEF Holder
    <2> QED
      BY <2>1, <2>3 DEF Atomic!Next, Atomic!Release
  <1>5. CASE UNCHANGED spinVars
    BY <1>5 DEF spinVars, Holder
  <1> QED
    BY <1>1, <1>2, <1>3, <1>4, <1>5 DEF SpinNext

\* spin_lock and spin_unlock: at most one thread is between them, and the byte
\* is busy exactly then.
THEOREM SpinCorrect == SpinSpec => []SpinInv
  BY SpinStart, SpinStep, PTL DEF SpinSpec

\* The loop of xchg and reads implements TableLock.
THEOREM SpinAtomic == SpinSpec => AtomicSpec
  <1>1. SpinInit => Atomic!Init
    BY HolderNone DEF SpinInit, Atomic!Init
  <1>2. SpinInv /\ SpinInv' /\ [SpinNext]_spinVars => [Atomic!Next]_Holder
    BY SpinMaps
  <1> QED
    BY <1>1, <1>2, SpinCorrect, PTL DEF SpinSpec, AtomicSpec, Atomic!Spec

\* The wrappers and the registration code call spin_lock and spin_unlock and
\* touch the byte in no other way.
LEMMA ShimUsesLock == Next => [SpinNext]_spinVars
  <1> SUFFICES ASSUME NEW t \in Threads, Runtime(t) \/ Program(t)
               PROVE  [SpinNext]_spinVars
    BY DEF Next
  <1>1. CASE Acquire(t)
    BY <1>1 DEF Acquire, SpinNext
  <1>2. CASE LoadPool(t)
    BY <1>2 DEF LoadPool, SpinNext
  <1>3. CASE Allocate(t)
    BY <1>3 DEF Allocate, SpinNext
  <1>4. CASE MshInit(t) \/ RegisterCaller(t) \/ TakeNumber(t) \/ Spawn(t)
             \/ StartRoutine(t) \/ InitPrimaryCtx(t) \/ Cleanup(t)
             \/ JoinReturn(t) \/ LookReallocated(t)
    BY <1>4 DEF MshInit, RegisterCaller, TakeNumber, Spawn, StartRoutine,
                InitPrimaryCtx, Cleanup, JoinReturn, LookReallocated
  <1>5. CASE Program(t)
    BY <1>5 DEF Program, CreateCall, JoinCall, Return, EnterBlockableCall,
                ExitBlockableCall
  <1> QED
    BY <1>1, <1>2, <1>3, <1>4, <1>5 DEF Runtime

\* Under any program, the threads that load the pool or allocate scavengers
\* see an atomic lock.
THEOREM ShimLocked == Spec => AtomicSpec
  <1>1. Init => SpinInit
    BY DEF Init
  <1>2. [Next]_vars => [SpinNext]_spinVars
    BY ShimUsesLock DEF vars, spinVars
  <1>3. Spec => SpinSpec
    BY <1>1, <1>2, PTL DEF Spec, SpinSpec
  <1> QED
    BY <1>3, SpinAtomic, PTL

=============================================================================
