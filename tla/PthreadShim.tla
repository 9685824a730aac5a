---------------------------- MODULE PthreadShim ----------------------------
(***************************************************************************)
(* The preloaded pthread functions (libmsh/pthread.c) and the registration *)
(* of threads they drive (msh_init, msh_alloc_ctx, init_primary_ctx and    *)
(* the blockable-call functions of libmsh/msh.c).                          *)
(*                                                                         *)
(* What a thread does with its scavengers is the subject of Msh; here      *)
(* allocation is one critical section of scav_table_lock, msh_cleanup one  *)
(* step, and nobody steals, so the reallocated flag of a context stays     *)
(* down.  A program creates and joins threads and makes blocking calls in  *)
(* any order; a thread is joined by its creator, at most once, and only    *)
(* when its creation succeeded.                                            *)
(***************************************************************************)
EXTENDS SpinLock

CONSTANTS
    Main,                \* the thread that exists when the program starts
    MAX_THREAD_NUM,      \* entries of PRIM_TABLE
    MAX_SCAV             \* MAX_SCAV_PER_THREAD

ASSUME ShimAssumption ==
    /\ Main \in Threads
    /\ MAX_THREAD_NUM \in Nat \ {0}
    /\ MAX_SCAV \in Nat

Contexts == 0 .. MAX_THREAD_NUM - 1
DUMMY == -1         \* the static flag both pointers start at
NO_TID == -1        \* msh_tid of a thread that never registered

\* The environment variables that are set; getenv always finds the same.
Environments == SUBSET {"SKIP_FIRST_THREAD", "SKIP_CLEANUP",
                        "MSH_SCAV_POOL_PATH"}

VARIABLES
    env,
    pc,             \* where each thread is
    target,         \* the thread its pthread_create or pthread_join is about
    creator,        \* who created it
    thread_id,      \* number in the msh_start_routine_arg of a thread
    msh_tid,        \* thread-local number
    ptr,            \* msh_reallocatable and msh_reallocated: whose flags
    flag,           \* the reallocatable flags, and dummy
    ctx,            \* PRIM_TABLE[n]: "raw", "clear" (initialised) or "live"
    pool,           \* init_scav_table has filled SCAV_TABLE
    thread_cnt, first_join

idVars == <<target, creator, thread_id, msh_tid>>
flagVars == <<ptr, flag>>
globalVars == <<ctx, pool, thread_cnt, first_join>>
vars == <<env, pc, idVars, flagVars, globalVars, spinVars>>

Init ==
    /\ SpinInit
    /\ env \in Environments
    /\ pc = [t \in Threads |-> IF t = Main THEN "app" ELSE "none"]
    /\ target = [t \in Threads |-> Nobody]
    /\ creator = [t \in Threads |-> Nobody]
    /\ thread_id = [t \in Threads |-> NO_TID]
    /\ msh_tid = [t \in Threads |-> NO_TID]
    /\ ptr = [t \in Threads |-> DUMMY]
    /\ flag = [n \in Contexts \cup {DUMMY} |-> FALSE]
    /\ ctx = [n \in Contexts |-> "raw"]
    /\ pool = FALSE
    /\ thread_cnt = 0
    /\ first_join = TRUE

Goto(t, label) == pc' = [pc EXCEPT ![t] = label]

Getenv(name) == name \in env

-----------------------------------------------------------------------------
(* pthread_create                                                          *)

\* Mutant of FirstCreate: every pthread_create initialises.
FirstCreateAlways == TRUE

FirstCreate == thread_cnt = 0

CreateCall(t, c) ==
    /\ pc[t] = "app"
    /\ pc[c] = "none"
    /\ \A u \in Threads : target[u] # c
    /\ target' = [target EXCEPT ![t] = c]
    /\ Goto(t, IF FirstCreate THEN "init" ELSE "number")
    /\ UNCHANGED <<creator, thread_id, msh_tid, flagVars, globalVars,
                   spinVars>>

\* msh_init up to the pool path: init_prim_table, then -1 when the path is
\* not set, which pthread_create passes on.
MshInit(t) ==
    /\ pc[t] = "init"
    /\ ctx' = [n \in Contexts |-> "clear"]
    /\ flag' = [n \in Contexts \cup {DUMMY} |-> n = DUMMY /\ flag[n]]
    /\ IF Getenv("MSH_SCAV_POOL_PATH")
       THEN Goto(t, "load") /\ target' = target
       ELSE Goto(t, "app") /\ target' = [target EXCEPT ![t] = Nobody]
    /\ UNCHANGED <<creator, thread_id, msh_tid, ptr, pool, thread_cnt,
                   first_join, spinVars>>

\* spin_lock, called by init_scav_table and by allocate_scav.
Acquire(t) ==
    /\ pc[t] \in {"load", "alloc"}
    /\ SpinCall(t) \/ Xchg8(t) \/ Relax(t)
    /\ UNCHANGED <<pc, idVars, flagVars, globalVars>>

\* init_scav_table.
LoadPool(t) ==
    /\ pc[t] = "load"
    /\ SpinUnlock(t)
    /\ pool' = TRUE
    /\ Goto(t, IF Getenv("SKIP_FIRST_THREAD") THEN "number" ELSE "own")
    /\ UNCHANGED <<idVars, flagVars, ctx, thread_cnt, first_join>>

\* Mutant of FetchAdd: the counter is read and not advanced.
FetchAddNot == thread_cnt' = thread_cnt

\* thread_cnt++ on an _Atomic int.
FetchAdd == thread_cnt' = thread_cnt + 1

\* Mutant of Exceeds: the bound itself is let through.
ExceedsLate(n) == n > MAX_THREAD_NUM

\* Mutant of Exceeds: the last entry is not used.
ExceedsEarly(n) == n >= MAX_THREAD_NUM - 1

\* tid >= MAX_THREAD_NUM
Exceeds(n) == n >= MAX_THREAD_NUM

\* msh_alloc_ctx up to allocate_scav, which takes the lock unless the cap is
\* 0.  Beyond the table msh_tid is set all the same and the call fails.
AllocCtx(t, n, failed) ==
    /\ msh_tid' = [msh_tid EXCEPT ![t] = n]
    /\ Goto(t, IF Exceeds(n) THEN failed
               ELSE IF MAX_SCAV = 0 THEN "live" ELSE "alloc")

\* The first pthread_create registers its caller: msh_alloc_ctx(thread_cnt++).
RegisterCaller(t) ==
    /\ pc[t] = "own"
    /\ FetchAdd
    /\ AllocCtx(t, thread_cnt, "app")
    /\ target' = IF Exceeds(thread_cnt)
                 THEN [target EXCEPT ![t] = Nobody] ELSE target
    /\ UNCHANGED <<creator, thread_id, flagVars, ctx, pool, first_join,
                   spinVars>>

\* The argument of the new thread gets its number.
TakeNumber(t) ==
    /\ pc[t] = "number"
    /\ thread_id' = [thread_id EXCEPT ![target[t]] = thread_cnt]
    /\ FetchAdd
    /\ Goto(t, "spawn")
    /\ UNCHANGED <<target, creator, msh_tid, flagVars, ctx, pool,
                   first_join, spinVars>>

\* original_pthread_create succeeds, or fails and the number is lost.
Spawn(t) ==
    /\ pc[t] = "spawn"
    /\ \E label \in {"start", "failed"} :
          pc' = [pc EXCEPT ![t] = "app", ![target[t]] = label]
    /\ creator' = [creator EXCEPT ![target[t]] = t]
    /\ target' = [target EXCEPT ![t] = Nobody]
    /\ UNCHANGED <<thread_id, msh_tid, flagVars, globalVars, spinVars>>

-----------------------------------------------------------------------------
(* msh_start_routine, and the rest of msh_alloc_ctx                        *)

\* A thread without a context returns NULL; its start routine never runs.
StartRoutine(t) ==
    /\ pc[t] = "start"
    /\ AllocCtx(t, thread_id[t], "done")
    /\ UNCHANGED <<target, creator, thread_id, flagVars, globalVars,
                   spinVars>>

\* _allocate_scav under the lock.
Allocate(t) ==
    /\ pc[t] = "alloc"
    /\ SpinUnlock(t)
    /\ Goto(t, "live")
    /\ UNCHANGED <<idVars, flagVars, globalVars>>

\* Mutant of Own: the pointers stay where they are.
OwnNot(t) == ptr' = ptr

\* msh_reallocatable = &ctx->reallocatable
Own(t) == ptr' = [ptr EXCEPT ![t] = msh_tid[t]]

\* init_primary_ctx; then the program runs, or pthread_create goes on.
InitPrimaryCtx(t) ==
    /\ pc[t] = "live"
    /\ ctx' = [ctx EXCEPT ![msh_tid[t]] = "live"]
    /\ flag' = [flag EXCEPT ![msh_tid[t]] = FALSE]
    /\ Own(t)
    /\ Goto(t, IF target[t] = Nobody THEN "app" ELSE "number")
    /\ UNCHANGED <<idVars, pool, thread_cnt, first_join, spinVars>>

\* The start routine returns and msh_cleanup follows.
Return(t) ==
    /\ pc[t] = "app"
    /\ t # Main
    /\ Goto(t, IF Getenv("SKIP_CLEANUP") THEN "done" ELSE "cleanup")
    /\ UNCHANGED <<idVars, flagVars, globalVars, spinVars>>

Cleanup(t) ==
    /\ pc[t] = "cleanup"
    /\ Goto(t, IF target[t] = Nobody THEN "done" ELSE "join")
    /\ UNCHANGED <<idVars, flagVars, globalVars, spinVars>>

-----------------------------------------------------------------------------
(* pthread_join and the blockable calls                                    *)

\* Mutant of CleansUp: SKIP_FIRST_THREAD is not asked.
CleansUpAnyway == first_join

\* !getenv("SKIP_FIRST_THREAD") && CAS(&first_join, true, false)
CleansUp == ~Getenv("SKIP_FIRST_THREAD") /\ first_join

JoinCall(t, c) ==
    /\ pc[t] = "app"
    /\ creator[c] = t
    /\ pc[c] # "failed"
    /\ target' = [target EXCEPT ![t] = c]
    /\ first_join' = (first_join /\ ~CleansUp)
    /\ Goto(t, IF CleansUp /\ ~Getenv("SKIP_CLEANUP") THEN "cleanup" ELSE "join")
    /\ UNCHANGED <<creator, thread_id, msh_tid, flagVars, ctx, pool,
                   thread_cnt, spinVars>>

\* original_pthread_join returns when the thread has ended.
JoinReturn(t) ==
    /\ pc[t] = "join"
    /\ pc[target[t]] = "done"
    /\ creator' = [creator EXCEPT ![target[t]] = Nobody]
    /\ target' = [target EXCEPT ![t] = Nobody]
    /\ Goto(t, "app")
    /\ UNCHANGED <<thread_id, msh_tid, flagVars, globalVars, spinVars>>

\* pthread_mutex_lock, pthread_cond_wait, pthread_cond_timedwait and
\* pthread_barrier_wait begin with msh_enter_blockable_call.
EnterBlockableCall(t) ==
    /\ pc[t] = "app"
    /\ flag' = [flag EXCEPT ![ptr[t]] = TRUE]
    /\ Goto(t, "blocked")
    /\ UNCHANGED <<idVars, ptr, globalVars, spinVars>>

\* The call returns and msh_exit_blockable_call takes the flag back.
ExitBlockableCall(t) ==
    /\ pc[t] = "blocked"
    /\ flag[ptr[t]]
    /\ flag' = [flag EXCEPT ![ptr[t]] = FALSE]
    /\ Goto(t, "look")
    /\ UNCHANGED <<idVars, ptr, globalVars, spinVars>>

\* *msh_reallocated: FALSE in a context, but for a thread that has none the
\* same byte as *msh_reallocatable.
Reallocated(t) == ptr[t] = DUMMY /\ flag[DUMMY]

\* The slow path would index PRIM_TABLE with msh_tid.
LookReallocated(t) ==
    /\ pc[t] = "look"
    /\ Goto(t, IF Reallocated(t) THEN "slow" ELSE "app")
    /\ UNCHANGED <<idVars, flagVars, globalVars, spinVars>>

-----------------------------------------------------------------------------

Runtime(t) ==
    \/ MshInit(t) \/ Acquire(t) \/ LoadPool(t) \/ RegisterCaller(t)
    \/ TakeNumber(t) \/ Spawn(t) \/ StartRoutine(t) \/ Allocate(t)
    \/ InitPrimaryCtx(t) \/ Cleanup(t) \/ JoinReturn(t)
    \/ LookReallocated(t)

Program(t) ==
    \/ \E c \in Threads : CreateCall(t, c) \/ JoinCall(t, c)
    \/ Return(t) \/ EnterBlockableCall(t) \/ ExitBlockableCall(t)

Next ==
    /\ \E t \in Threads : Runtime(t) \/ Program(t)
    /\ env' = env

Spec == Init /\ [][Next]_vars

=============================================================================
