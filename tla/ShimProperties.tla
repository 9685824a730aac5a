--------------------------- MODULE ShimProperties ---------------------------
(***************************************************************************)
(* What the pthread wrappers guarantee to the runtime, which indexes       *)
(* PRIM_TABLE with msh_tid and dereferences gsbase without a check.        *)
(***************************************************************************)
EXTENDS PthreadShim

Labels == {"none", "failed", "start", "app", "init", "load", "own", "number",
           "spawn", "alloc", "live", "cleanup", "join", "blocked", "look",
           "slow", "done"}

\* Numbers only grow, contexts and flags are those of the table, and the
\* pointers lead to a context or to dummy.
TypeOK ==
    /\ env \in Environments
    /\ pc \in [Threads -> Labels]
    /\ target \in [Threads -> Threads \cup {Nobody}]
    /\ creator \in [Threads -> Threads \cup {Nobody}]
    /\ thread_id \in [Threads -> Nat \cup {NO_TID}]
    /\ msh_tid \in [Threads -> Nat \cup {NO_TID}]
    /\ ptr \in [Threads -> Contexts \cup {DUMMY}]
    /\ flag \in [Contexts \cup {DUMMY} -> BOOLEAN]
    /\ ctx \in [Contexts -> {"raw", "clear", "live"}]
    /\ pool \in BOOLEAN
    /\ thread_cnt \in Nat
    /\ first_join \in BOOLEAN

-----------------------------------------------------------------------------
(* Safety.                                                                 *)

\* A thread is between its registration and its end.
Registered(t) ==
    /\ msh_tid[t] # NO_TID
    /\ pc[t] \notin {"alloc", "live", "done"}

\* "PRIM_TABLE[tid] is yours from now on" (msh_alloc_ctx): a registered
\* thread has a context of the table, made ready by init_primary_ctx and not
\* initialised again since, its flag pointers lead there, and nobody else has
\* that number.
OwnsContext ==
    \A t \in Threads : Registered(t) =>
        /\ msh_tid[t] \in Contexts
        /\ ctx[msh_tid[t]] = "live"
        /\ ptr[t] = msh_tid[t]
        /\ \A u \in Threads : msh_tid[u] = msh_tid[t] => u = t

\* The busy wait of msh_exit_blockable_call is for thieves only: nobody else
\* takes a blocked thread's flag, so two threads never share dummy, and a
\* thread without a context never enters the slow path, which would index
\* PRIM_TABLE with -1.
FlagPrivate ==
    \A t \in Threads :
        /\ pc[t] = "blocked" => flag[ptr[t]]
        /\ pc[t] # "slow"

\* msh_cleanup, from the first pthread_join or from msh_start_routine, is
\* called by registered threads only: gsbase of any other is a null pointer.
CleanupRegistered == \A t \in Threads : pc[t] = "cleanup" => Registered(t)

\* Nobody looks for a scavenger before the pool is loaded, and whoever loads
\* it or initialises PRIM_TABLE is the only thread of the process.
InitAlone ==
    /\ \A t \in Threads : pc[t] = "alloc" => pool
    /\ \A t \in Threads : pc[t] \in {"init", "load", "own"} =>
          \A u \in Threads \ {t} : pc[u] = "none"

-----------------------------------------------------------------------------
(* Liveness.  The kernel schedules every thread, so a runtime call that    *)
(* can go on does.  A thread takes the spin lock at most twice, so the     *)
(* unfair lock lets everybody in.  Nothing is assumed of the program.      *)

Fairness == \A t \in Threads : WF_vars(Runtime(t) /\ env' = env)

FairSpec == Spec /\ Fairness

\* A created thread runs its start routine if its number is below the limit,
\* whatever the other threads do, and ends at once otherwise: pthread_create
\* reports success for both.
StartRuns ==
    \A t \in Threads :
        pc[t] = "start" ~>
            IF thread_id[t] < MAX_THREAD_NUM THEN pc[t] = "app"
                                             ELSE pc[t] = "done"

=============================================================================
