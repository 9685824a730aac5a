---------------------------- MODULE ShimRegistry ----------------------------
(***************************************************************************)
(* Thread numbers, contexts and flags under any program: the properties of *)
(* ShimProperties for every number of threads and every size of            *)
(* PRIM_TABLE.                                                             *)
(***************************************************************************)
EXTENDS ShimProperties, TLAPS

Skip == "SKIP_FIRST_THREAD" \in env

Creating == {"init", "load", "own", "number", "spawn"}

-----------------------------------------------------------------------------
(* Control: who exists, who creates whom.                                  *)

\* Only the main thread finds thread_cnt = 0 in pthread_create.
FirstIsMain ==
    /\ pc[Main] \notin {"none", "start", "failed", "done"}
    /\ thread_cnt = 0 => \A t \in Threads \ {Main} : pc[t] = "none"
    /\ \A t \in Threads :
          pc[t] \in {"init", "load", "own"} => t = Main /\ thread_cnt = 0

\* A thread that is being created exists for nobody but its creator.
Targets ==
    /\ \A t \in Threads :
          /\ pc[t] \in Creating => target[t] # Nobody
          /\ pc[t] \in {"none", "failed", "start", "app", "blocked", "look"} =>
                target[t] = Nobody
          /\ pc[t] = "cleanup" /\ t = Main => target[t] # Nobody
          /\ pc[t] \in {"alloc", "live"} /\ t # Main => target[t] = Nobody
          /\ pc[t] \in Creating \cup {"alloc", "live"} /\ target[t] # Nobody =>
                pc[target[t]] = "none"
    /\ \A t, u \in Threads :
          target[t] = target[u] /\ target[t] # Nobody
             /\ pc[target[t]] = "none" => t = u

\* Created threads are not the main thread.
Creators ==
    \A t \in Threads : creator[t] # Nobody => pc[t] # "none" /\ t # Main

\* A thread has its number before it starts, and goes on only if that is an
\* index of PRIM_TABLE.
Started ==
    \A t \in Threads :
        /\ pc[t] = "spawn" => thread_cnt > 0 /\ thread_id[target[t]] # NO_TID
        /\ pc[t] = "start" => thread_id[t] # NO_TID
        /\ pc[t] \in {"alloc", "live"} => msh_tid[t] \in Contexts

ControlInv == TypeOK /\ FirstIsMain /\ Targets /\ Creators /\ Started

-----------------------------------------------------------------------------
(* Registration: numbers and contexts.                                     *)

\* A number is given out once.
Numbers ==
    /\ \A t \in Threads :
          thread_id[t] < thread_cnt /\ msh_tid[t] < thread_cnt
    /\ \A t, u \in Threads :
          /\ thread_id[t] = thread_id[u] /\ thread_id[t] # NO_TID => t = u
          /\ msh_tid[t] = msh_tid[u] /\ msh_tid[t] # NO_TID => t = u
          /\ msh_tid[t] = thread_id[u] /\ msh_tid[t] # NO_TID => t = u

\* A thread starts without a context, and its pointers then lead to dummy.
Fresh ==
    \A t \in Threads :
        /\ pc[t] \in {"none", "failed", "start"} => msh_tid[t] = NO_TID
        /\ msh_tid[t] = NO_TID => ptr[t] = DUMMY

\* Every thread that runs is registered, but the main thread may not be if
\* SKIP_FIRST_THREAD is set or nothing was created yet.
AllRegistered ==
    /\ \A t \in Threads \ {Main} :
          pc[t] \in {"none", "failed", "start", "alloc", "live", "done"}
             \/ msh_tid[t] # NO_TID
    /\ ~Skip /\ (thread_cnt > 0
                    \/ \E t \in Threads : pc[t] \in {"number", "spawn"})
          => msh_tid[Main] # NO_TID

\* The pool is loaded before the first number is given out.
Pool ==
    thread_cnt > 0 \/ (\E t \in Threads : pc[t] \in {"own", "number", "spawn"})
        => pool

RegistryInv ==
    /\ ControlInv /\ Numbers /\ Fresh /\ AllRegistered /\ Pool
    /\ OwnsContext /\ CleanupRegistered

-----------------------------------------------------------------------------
(* Flags.                                                                  *)

\* The dummy flag is up only while the main thread blocks without a context.
DummyFlag == flag[DUMMY] => pc[Main] = "blocked" /\ ptr[Main] = DUMMY

ShimInv == RegistryInv /\ FlagPrivate /\ DummyFlag
-----------------------------------------------------------------------------
(* One step of one thread.                                                 *)

\* Only the main thread initialises, and a thread under construction belongs
\* to its creator.
LEMMA StepControl ==
    ASSUME ControlInv, NEW t \in Threads,
           Runtime(t) \/ Program(t), env' = env
    PROVE  ControlInv'
  <1> USE NobodyAssumption, ShimAssumption
  <1>0. TypeOK /\ FirstIsMain /\ Targets /\ Creators /\ Started
    BY DEF ControlInv
  <1>1. ASSUME MshInit(t)
        PROVE  ControlInv'
    <2>1. TypeOK'
      BY <1>0, <1>1 DEF MshInit, Goto, Getenv, TypeOK, Labels, Contexts, DUMMY,
         NO_TID, Started, idVars, flagVars, globalVars
    <2>2. FirstIsMain'
      BY <1>0, <1>1 DEF MshInit, Goto, Getenv, FirstIsMain, TypeOK
    <2>3. Targets'
      BY <1>0, <1>1 DEF MshInit, Goto, Getenv, Targets, TypeOK, Creating
    <2>4. Creators'
      BY <1>0, <1>1 DEF MshInit, Goto, Getenv, Creators, TypeOK
    <2>5. Started'
      BY <1>0, <1>1 DEF MshInit, Goto, Getenv, Started, TypeOK, Contexts,
         NO_TID
    <2> QED
      BY <2>1, <2>2, <2>3, <2>4, <2>5 DEF ControlInv
  <1>2. ASSUME Acquire(t)
        PROVE  ControlInv'
    <2>1. TypeOK'
      BY <1>0, <1>2 DEF Acquire, TypeOK, idVars, flagVars, globalVars
    <2>2. FirstIsMain'
      BY <1>0, <1>2 DEF Acquire, FirstIsMain, TypeOK, globalVars
    <2>3. Targets'
      BY <1>0, <1>2 DEF Acquire, Targets, TypeOK, Creating, idVars
    <2>4. Creators'
      BY <1>0, <1>2 DEF Acquire, Creators, TypeOK, idVars
    <2>5. Started'
      BY <1>0, <1>2 DEF Acquire, Started, TypeOK, Contexts, NO_TID, idVars,
         globalVars
    <2> QED
      BY <2>1, <2>2, <2>3, <2>4, <2>5 DEF ControlInv
  <1>3. ASSUME LoadPool(t)
        PROVE  ControlInv'
    <2>1. TypeOK'
      BY <1>0, <1>3 DEF LoadPool, Goto, Getenv, TypeOK, Labels, Contexts,
         DUMMY, NO_TID, Started, idVars, flagVars, globalVars
    <2>2. FirstIsMain'
      BY <1>0, <1>3 DEF LoadPool, Goto, Getenv, FirstIsMain, TypeOK
    <2>3. Targets'
      BY <1>0, <1>3 DEF LoadPool, Goto, Getenv, Targets, TypeOK, Creating,
         idVars
    <2>4. Creators'
      BY <1>0, <1>3 DEF LoadPool, Goto, Getenv, Creators, TypeOK, idVars
    <2>5. Started'
      BY <1>0, <1>3 DEF LoadPool, Goto, Getenv, Started, TypeOK, Contexts,
         NO_TID, idVars
    <2> QED
      BY <2>1, <2>2, <2>3, <2>4, <2>5 DEF ControlInv
  <1>4. ASSUME RegisterCaller(t)
        PROVE  ControlInv'
    <2>1. TypeOK'
      BY <1>0, <1>4 DEF RegisterCaller, Goto, AllocCtx, FetchAdd, Exceeds,
         TypeOK, Labels, Contexts, DUMMY, NO_TID, Started, idVars, flagVars,
         globalVars
    <2>2. FirstIsMain'
      BY <1>0, <1>4 DEF RegisterCaller, Goto, AllocCtx, FetchAdd, Exceeds,
         FirstIsMain, TypeOK
    <2>3. Targets'
      BY <1>0, <1>4 DEF RegisterCaller, Goto, AllocCtx, FetchAdd, Exceeds,
         Targets, TypeOK, FirstIsMain, Creating
    <2>4. Creators'
      BY <1>0, <1>4 DEF RegisterCaller, Goto, AllocCtx, FetchAdd, Exceeds,
         Creators, TypeOK
    <2>5. Started'
      BY <1>0, <1>4 DEF RegisterCaller, Goto, AllocCtx, FetchAdd, Exceeds,
         Started, TypeOK, Contexts, NO_TID
    <2> QED
      BY <2>1, <2>2, <2>3, <2>4, <2>5 DEF ControlInv
  <1>5. ASSUME TakeNumber(t)
        PROVE  ControlInv'
    <2>1. TypeOK'
      <3>1. "spawn" \in Labels
        BY DEF Labels
      <3>2. pc' \in [Threads -> Labels]
        BY <1>0, <3>1, <1>5 DEF TypeOK, TakeNumber, Goto
      <3>3. thread_cnt' \in Nat
        BY <1>0, <1>5 DEF TypeOK, TakeNumber, FetchAdd
      <3>4. thread_id' \in [Threads -> Nat \cup {NO_TID}]
        BY <1>0, <1>5 DEF TypeOK, TakeNumber
      <3>5. UNCHANGED <<target, creator, msh_tid, flagVars, ctx, pool,
                        first_join>>
        BY <1>5 DEF TakeNumber
      <3> QED
        BY <1>0, <3>2, <3>3, <3>4, <3>5 DEF TypeOK, flagVars
    <2>2. FirstIsMain'
      BY <1>0, <1>5 DEF TakeNumber, Goto, FetchAdd, FirstIsMain, TypeOK
    <2>3. Targets'
      BY <1>0, <1>5 DEF TakeNumber, Goto, FetchAdd, Targets, TypeOK, Creating
    <2>4. Creators'
      BY <1>0, <1>5 DEF TakeNumber, Goto, FetchAdd, Creators, TypeOK
    <2>5. Started'
      BY <1>0, <1>5 DEF TakeNumber, Goto, FetchAdd, Started, TypeOK, Targets,
         Creating, Contexts, NO_TID
    <2> QED
      BY <2>1, <2>2, <2>3, <2>4, <2>5 DEF ControlInv
  <1>6. ASSUME Spawn(t)
        PROVE  ControlInv'
    <2>1. TypeOK'
      <3>1. PICK label \in {"start", "failed"} :
               pc' = [pc EXCEPT ![t] = "app", ![target[t]] = label]
        BY <1>6 DEF Spawn
      <3>2. label \in Labels /\ "app" \in Labels
        BY DEF Labels
      <3>3. pc' \in [Threads -> Labels]
        BY <1>0, <3>1, <3>2 DEF TypeOK
      <3> QED
        BY <1>0, <3>3, <1>6 DEF TypeOK, Spawn, flagVars, globalVars
    <2>2. FirstIsMain'
      <3>1. thread_cnt > 0 /\ target[t] # Main
        BY <1>0, <1>6
           DEF Spawn, Started, Targets, Creating, FirstIsMain, TypeOK
      <3>2. \A u \in Threads : u # t /\ u # target[t] => pc'[u] = pc[u]
        BY <1>0, <1>6 DEF Spawn, TypeOK
      <3> QED
        BY <1>0, <3>1, <3>2, <1>6 DEF FirstIsMain, Spawn, TypeOK, globalVars
    <2>3. Targets'
      BY <1>0, <1>6 DEF Spawn, Targets, TypeOK, Creating
    <2>4. Creators'
      BY <1>0, <1>6 DEF Spawn, Creators, TypeOK, Targets, FirstIsMain,
         Creating, globalVars
    <2>5. Started'
      BY <1>0, <1>6 DEF Spawn, Started, TypeOK, Contexts, NO_TID, globalVars
    <2> QED
      BY <2>1, <2>2, <2>3, <2>4, <2>5 DEF ControlInv
  <1>7. ASSUME StartRoutine(t)
        PROVE  ControlInv'
    <2>1. TypeOK'
      BY <1>0, <1>7 DEF StartRoutine, Goto, AllocCtx, Exceeds, TypeOK, Labels,
         Contexts, DUMMY, NO_TID, Started, idVars, flagVars, globalVars
    <2>2. FirstIsMain'
      BY <1>0, <1>7 DEF StartRoutine, Goto, AllocCtx, Exceeds, FirstIsMain,
         TypeOK, globalVars
    <2>3. Targets'
      BY <1>0, <1>7 DEF StartRoutine, Goto, AllocCtx, Exceeds, Targets, TypeOK,
         Creating
    <2>4. Creators'
      BY <1>0, <1>7 DEF StartRoutine, Goto, AllocCtx, Exceeds, Creators, TypeOK
    <2>5. Started'
      BY <1>0, <1>7 DEF StartRoutine, Goto, AllocCtx, Exceeds, Started, TypeOK,
         Contexts, NO_TID, globalVars
    <2> QED
      BY <2>1, <2>2, <2>3, <2>4, <2>5 DEF ControlInv
  <1>8. ASSUME Allocate(t)
        PROVE  ControlInv'
    <2>1. TypeOK'
      BY <1>0, <1>8 DEF Allocate, Goto, TypeOK, Labels, Contexts, DUMMY,
         NO_TID, Started, idVars, flagVars, globalVars
    <2>2. FirstIsMain'
      BY <1>0, <1>8 DEF Allocate, Goto, FirstIsMain, TypeOK, globalVars
    <2>3. Targets'
      BY <1>0, <1>8 DEF Allocate, Goto, Targets, TypeOK, Creating, idVars
    <2>4. Creators'
      BY <1>0, <1>8 DEF Allocate, Goto, Creators, TypeOK, idVars
    <2>5. Started'
      BY <1>0, <1>8 DEF Allocate, Goto, Started, TypeOK, Contexts, NO_TID,
         idVars, globalVars
    <2> QED
      BY <2>1, <2>2, <2>3, <2>4, <2>5 DEF ControlInv
  <1>9. ASSUME InitPrimaryCtx(t)
        PROVE  ControlInv'
    <2>1. TypeOK'
      BY <1>0, <1>9 DEF InitPrimaryCtx, Goto, Own, TypeOK, Labels, Contexts,
         DUMMY, NO_TID, Started, idVars, flagVars, globalVars
    <2>2. FirstIsMain'
      BY <1>0, <1>9 DEF InitPrimaryCtx, Goto, Own, FirstIsMain, TypeOK
    <2>3. Targets'
      BY <1>0, <1>9 DEF InitPrimaryCtx, Goto, Own, Targets, TypeOK, Creating,
         idVars
    <2>4. Creators'
      BY <1>0, <1>9 DEF InitPrimaryCtx, Goto, Own, Creators, TypeOK, idVars
    <2>5. Started'
      BY <1>0, <1>9 DEF InitPrimaryCtx, Goto, Own, Started, TypeOK, Contexts,
         NO_TID, idVars
    <2> QED
      BY <2>1, <2>2, <2>3, <2>4, <2>5 DEF ControlInv
  <1>10. ASSUME Cleanup(t)
        PROVE  ControlInv'
    <2>1. TypeOK'
      BY <1>0, <1>10 DEF Cleanup, Goto, TypeOK, Labels, Contexts, DUMMY,
         NO_TID, Started, idVars, flagVars, globalVars
    <2>2. FirstIsMain'
      BY <1>0, <1>10 DEF Cleanup, Goto, FirstIsMain, TypeOK, Targets, Creating,
         idVars, globalVars
    <2>3. Targets'
      BY <1>0, <1>10 DEF Cleanup, Goto, Targets, TypeOK, Creating, idVars
    <2>4. Creators'
      BY <1>0, <1>10 DEF Cleanup, Goto, Creators, TypeOK, idVars
    <2>5. Started'
      BY <1>0, <1>10 DEF Cleanup, Goto, Started, TypeOK, Contexts, NO_TID,
         idVars, globalVars
    <2> QED
      BY <2>1, <2>2, <2>3, <2>4, <2>5 DEF ControlInv
  <1>11. ASSUME JoinReturn(t)
        PROVE  ControlInv'
    <2>1. TypeOK'
      BY <1>0, <1>11 DEF JoinReturn, Goto, TypeOK, Labels, Contexts, DUMMY,
         NO_TID, Started, idVars, flagVars, globalVars
    <2>2. FirstIsMain'
      BY <1>0, <1>11 DEF JoinReturn, Goto, FirstIsMain, TypeOK, globalVars
    <2>3. Targets'
      BY <1>0, <1>11 DEF JoinReturn, Goto, Targets, TypeOK, Creating
    <2>4. Creators'
      BY <1>0, <1>11 DEF JoinReturn, Goto, Creators, TypeOK
    <2>5. Started'
      BY <1>0, <1>11 DEF JoinReturn, Goto, Started, TypeOK, Contexts, NO_TID,
         globalVars
    <2> QED
      BY <2>1, <2>2, <2>3, <2>4, <2>5 DEF ControlInv
  <1>12. ASSUME LookReallocated(t)
        PROVE  ControlInv'
    <2>1. TypeOK'
      BY <1>0, <1>12 DEF LookReallocated, Goto, TypeOK, Labels, Contexts,
         DUMMY, NO_TID, Started, idVars, flagVars, globalVars
    <2>2. FirstIsMain'
      BY <1>0, <1>12 DEF LookReallocated, Goto, FirstIsMain, TypeOK, globalVars
    <2>3. Targets'
      BY <1>0, <1>12 DEF LookReallocated, Goto, Targets, TypeOK, Creating,
         idVars
    <2>4. Creators'
      BY <1>0, <1>12 DEF LookReallocated, Goto, Creators, TypeOK, idVars
    <2>5. Started'
      BY <1>0, <1>12 DEF LookReallocated, Goto, Started, TypeOK, Contexts,
         NO_TID, idVars, globalVars
    <2> QED
      BY <2>1, <2>2, <2>3, <2>4, <2>5 DEF ControlInv
  <1>13. ASSUME NEW c \in Threads, CreateCall(t, c)
        PROVE  ControlInv'
    <2>1. TypeOK'
      BY <1>0, <1>13 DEF CreateCall, Goto, FirstCreate, TypeOK, Labels,
         Contexts, DUMMY, NO_TID, Started, idVars, flagVars, globalVars
    <2>2. FirstIsMain'
      BY <1>0, <1>13 DEF CreateCall, Goto, FirstCreate, FirstIsMain, TypeOK,
         globalVars
    <2>3. Targets'
      BY <1>0, <1>13 DEF CreateCall, Goto, FirstCreate, Targets, TypeOK,
         Creating
    <2>4. Creators'
      BY <1>0, <1>13 DEF CreateCall, Goto, FirstCreate, Creators, TypeOK
    <2>5. Started'
      BY <1>0, <1>13 DEF CreateCall, Goto, FirstCreate, Started, TypeOK,
         Contexts, NO_TID, globalVars
    <2> QED
      BY <2>1, <2>2, <2>3, <2>4, <2>5 DEF ControlInv
  <1>14. ASSUME NEW c \in Threads, JoinCall(t, c)
        PROVE  ControlInv'
    <2>1. TypeOK'
      BY <1>0, <1>14 DEF JoinCall, Goto, CleansUp, Getenv, TypeOK, Labels,
         Contexts, DUMMY, NO_TID, Started, idVars, flagVars, globalVars
    <2>2. FirstIsMain'
      BY <1>0, <1>14 DEF JoinCall, Goto, CleansUp, Getenv, FirstIsMain, TypeOK
    <2>3. Targets'
      BY <1>0, <1>14 DEF JoinCall, Goto, CleansUp, Getenv, Targets, TypeOK,
         Creators, Creating
    <2>4. Creators'
      BY <1>0, <1>14 DEF JoinCall, Goto, CleansUp, Getenv, Creators, TypeOK
    <2>5. Started'
      BY <1>0, <1>14 DEF JoinCall, Goto, CleansUp, Getenv, Started, TypeOK,
         Contexts, NO_TID
    <2> QED
      BY <2>1, <2>2, <2>3, <2>4, <2>5 DEF ControlInv
  <1>15. ASSUME Return(t)
        PROVE  ControlInv'
    <2>1. TypeOK'
      BY <1>0, <1>15 DEF Return, Goto, Getenv, TypeOK, Labels, Contexts, DUMMY,
         NO_TID, Started, idVars, flagVars, globalVars
    <2>2. FirstIsMain'
      BY <1>0, <1>15 DEF Return, Goto, Getenv, FirstIsMain, TypeOK, globalVars
    <2>3. Targets'
      BY <1>0, <1>15 DEF Return, Goto, Getenv, Targets, TypeOK, Creating,
         idVars
    <2>4. Creators'
      BY <1>0, <1>15 DEF Return, Goto, Getenv, Creators, TypeOK, idVars
    <2>5. Started'
      BY <1>0, <1>15 DEF Return, Goto, Getenv, Started, TypeOK, Contexts,
         NO_TID, idVars, globalVars
    <2> QED
      BY <2>1, <2>2, <2>3, <2>4, <2>5 DEF ControlInv
  <1>16. ASSUME EnterBlockableCall(t)
        PROVE  ControlInv'
    <2>1. TypeOK'
      BY <1>0, <1>16 DEF EnterBlockableCall, Goto, TypeOK, Labels, Contexts,
         DUMMY, NO_TID, Started, idVars, flagVars, globalVars
    <2>2. FirstIsMain'
      BY <1>0, <1>16 DEF EnterBlockableCall, Goto, FirstIsMain, TypeOK,
         globalVars
    <2>3. Targets'
      BY <1>0, <1>16 DEF EnterBlockableCall, Goto, Targets, TypeOK, Creating,
         idVars
    <2>4. Creators'
      BY <1>0, <1>16 DEF EnterBlockableCall, Goto, Creators, TypeOK, idVars
    <2>5. Started'
      BY <1>0, <1>16 DEF EnterBlockableCall, Goto, Started, TypeOK, Contexts,
         NO_TID, idVars, globalVars
    <2> QED
      BY <2>1, <2>2, <2>3, <2>4, <2>5 DEF ControlInv
  <1>17. ASSUME ExitBlockableCall(t)
        PROVE  ControlInv'
    <2>1. TypeOK'
      BY <1>0, <1>17 DEF ExitBlockableCall, Goto, TypeOK, Labels, Contexts,
         DUMMY, NO_TID, Started, idVars, flagVars, globalVars
    <2>2. FirstIsMain'
      BY <1>0, <1>17 DEF ExitBlockableCall, Goto, FirstIsMain, TypeOK,
         globalVars
    <2>3. Targets'
      BY <1>0, <1>17 DEF ExitBlockableCall, Goto, Targets, TypeOK, Creating,
         idVars
    <2>4. Creators'
      BY <1>0, <1>17 DEF ExitBlockableCall, Goto, Creators, TypeOK, idVars
    <2>5. Started'
      BY <1>0, <1>17 DEF ExitBlockableCall, Goto, Started, TypeOK, Contexts,
         NO_TID, idVars, globalVars
    <2> QED
      BY <2>1, <2>2, <2>3, <2>4, <2>5 DEF ControlInv
  <1> QED
    BY <1>1, <1>2, <1>3, <1>4, <1>5, <1>6, <1>7, <1>8, <1>9, <1>10, <1>11,
       <1>12, <1>13, <1>14, <1>15, <1>16, <1>17 DEF Runtime, Program

\* A number is given out once, to a thread that has no context yet, and the
\* tables are initialised only while nobody has one.
LEMMA StepRegistry ==
    ASSUME RegistryInv, ControlInv', NEW t \in Threads,
           Runtime(t) \/ Program(t), env' = env
    PROVE  RegistryInv'
  <1> USE NobodyAssumption, ShimAssumption
  <1>0. /\ TypeOK /\ FirstIsMain /\ Targets /\ Creators /\ Started
        /\ Numbers /\ Fresh /\ AllRegistered /\ Pool /\ OwnsContext
        /\ CleanupRegistered
    BY DEF RegistryInv, ControlInv
  <1>1. ASSUME MshInit(t)
        PROVE  RegistryInv'
    <2>1. Numbers'
      BY <1>0, <1>1 DEF MshInit, Goto, Getenv, Numbers, TypeOK, NO_TID
    <2>2. Fresh'
      BY <1>0, <1>1 DEF MshInit, Goto, Getenv, Fresh, TypeOK, Contexts, NO_TID
    <2>3. AllRegistered'
      BY <1>0, <1>1 DEF MshInit, Goto, Getenv, AllRegistered, TypeOK, Contexts,
         NO_TID, Skip
    <2>4. Pool'
      BY <1>0, <1>1 DEF MshInit, Goto, Getenv, Pool, TypeOK
    <2>5. OwnsContext'
      BY <1>0, <1>1 DEF MshInit, Goto, Getenv, OwnsContext, TypeOK, Numbers,
         Fresh, FirstIsMain, Started, Targets, Creating, Contexts, NO_TID,
         Registered
    <2>6. CleanupRegistered'
      BY <1>0, <1>1 DEF MshInit, Goto, Getenv, CleanupRegistered, TypeOK,
         NO_TID, Registered
    <2> QED
      BY <2>1, <2>2, <2>3, <2>4, <2>5, <2>6 DEF RegistryInv
  <1>2. ASSUME Acquire(t)
        PROVE  RegistryInv'
    <2>1. Numbers'
      BY <1>0, <1>2 DEF Acquire, Numbers, TypeOK, NO_TID, idVars, globalVars
    <2>2. Fresh'
      BY <1>0, <1>2 DEF Acquire, Fresh, TypeOK, NO_TID, idVars, flagVars
    <2>3. AllRegistered'
      BY <1>0, <1>2 DEF Acquire, AllRegistered, TypeOK, NO_TID, Skip, idVars,
         globalVars
    <2>4. Pool'
      BY <1>0, <1>2 DEF Acquire, Pool, TypeOK, globalVars
    <2>5. OwnsContext'
      BY <1>0, <1>2 DEF Acquire, OwnsContext, TypeOK, Contexts, NO_TID,
         Registered, idVars, flagVars, globalVars
    <2>6. CleanupRegistered'
      BY <1>0, <1>2 DEF Acquire, CleanupRegistered, TypeOK, AllRegistered,
         NO_TID, Registered, Skip, idVars, globalVars
    <2> QED
      BY <2>1, <2>2, <2>3, <2>4, <2>5, <2>6 DEF RegistryInv
  <1>3. ASSUME LoadPool(t)
        PROVE  RegistryInv'
    <2>1. Numbers'
      BY <1>0, <1>3 DEF LoadPool, Goto, Getenv, Numbers, TypeOK, NO_TID, idVars
    <2>2. Fresh'
      BY <1>0, <1>3 DEF LoadPool, Goto, Getenv, Fresh, TypeOK, NO_TID, idVars,
         flagVars
    <2>3. AllRegistered'
      BY <1>0, <1>3 DEF LoadPool, Goto, Getenv, AllRegistered, TypeOK, NO_TID,
         Skip, idVars
    <2>4. Pool'
      BY <1>0, <1>3 DEF LoadPool, Goto, Getenv, Pool, TypeOK
    <2>5. OwnsContext'
      BY <1>0, <1>3 DEF LoadPool, Goto, Getenv, OwnsContext, TypeOK, Contexts,
         NO_TID, Registered, idVars, flagVars
    <2>6. CleanupRegistered'
      BY <1>0, <1>3 DEF LoadPool, Goto, Getenv, CleanupRegistered, TypeOK,
         AllRegistered, NO_TID, Registered, Skip, idVars
    <2> QED
      BY <2>1, <2>2, <2>3, <2>4, <2>5, <2>6 DEF RegistryInv
  <1>4. ASSUME RegisterCaller(t)
        PROVE  RegistryInv'
    <2>1. Numbers'
      BY <1>0, <1>4 DEF RegisterCaller, Goto, AllocCtx, FetchAdd, Exceeds,
         Numbers, TypeOK, NO_TID
    <2>2. Fresh'
      BY <1>0, <1>4 DEF RegisterCaller, Goto, AllocCtx, FetchAdd, Exceeds,
         Fresh, TypeOK, NO_TID, flagVars
    <2>3. AllRegistered'
      BY <1>0, <1>4 DEF RegisterCaller, Goto, AllocCtx, FetchAdd, Exceeds,
         AllRegistered, TypeOK, FirstIsMain, NO_TID, Skip
    <2>4. Pool'
      BY <1>0, <1>4 DEF RegisterCaller, Goto, AllocCtx, FetchAdd, Exceeds,
         Pool, TypeOK
    <2>5. OwnsContext'
      BY <1>0, <1>4 DEF RegisterCaller, Goto, AllocCtx, FetchAdd, Exceeds,
         OwnsContext, TypeOK, Numbers, Fresh, FirstIsMain, Started, Targets,
         Creating, Contexts, NO_TID, Registered, flagVars
    <2>6. CleanupRegistered'
      BY <1>0, <1>4 DEF RegisterCaller, Goto, AllocCtx, FetchAdd, Exceeds,
         CleanupRegistered, TypeOK, NO_TID, Registered
    <2> QED
      BY <2>1, <2>2, <2>3, <2>4, <2>5, <2>6 DEF RegistryInv
  <1>5. ASSUME TakeNumber(t)
        PROVE  RegistryInv'
    <2>1. Numbers'
      BY <1>0, <1>5 DEF TakeNumber, Goto, FetchAdd, Numbers, TypeOK, NO_TID
    <2>2. Fresh'
      BY <1>0, <1>5 DEF TakeNumber, Goto, FetchAdd, Fresh, TypeOK, NO_TID,
         flagVars
    <2>3. AllRegistered'
      BY <1>0, <1>5 DEF TakeNumber, Goto, FetchAdd, AllRegistered, TypeOK,
         NO_TID, Skip
    <2>4. Pool'
      BY <1>0, <1>5 DEF TakeNumber, Goto, FetchAdd, Pool, TypeOK
    <2>5. OwnsContext'
      BY <1>0, <1>5 DEF TakeNumber, Goto, FetchAdd, OwnsContext, TypeOK,
         Contexts, NO_TID, Registered, flagVars
    <2>6. CleanupRegistered'
      BY <1>0, <1>5 DEF TakeNumber, Goto, FetchAdd, CleanupRegistered, TypeOK,
         NO_TID, Registered
    <2> QED
      BY <2>1, <2>2, <2>3, <2>4, <2>5, <2>6 DEF RegistryInv
  <1>6. ASSUME Spawn(t)
        PROVE  RegistryInv'
    <2>1. Numbers'
      BY <1>0, <1>6 DEF Spawn, Numbers, TypeOK, NO_TID, globalVars
    <2>2. Fresh'
      BY <1>0, <1>6 DEF Spawn, Fresh, TypeOK, Targets, Creating, NO_TID,
         flagVars
    <2>3. AllRegistered'
      BY <1>0, <1>6 DEF Spawn, AllRegistered, TypeOK, NO_TID, Skip, globalVars
    <2>4. Pool'
      BY <1>0, <1>6 DEF Spawn, Pool, TypeOK, globalVars
    <2>5. OwnsContext'
      BY <1>0, <1>6 DEF Spawn, OwnsContext, TypeOK, Targets, Creating,
         Contexts, NO_TID, Registered, flagVars, globalVars
    <2>6. CleanupRegistered'
      BY <1>0, <1>6 DEF Spawn, CleanupRegistered, TypeOK, NO_TID, Registered
    <2> QED
      BY <2>1, <2>2, <2>3, <2>4, <2>5, <2>6 DEF RegistryInv
  <1>7. ASSUME StartRoutine(t)
        PROVE  RegistryInv'
    <2>1. Numbers'
      BY <1>0, <1>7 DEF StartRoutine, Goto, AllocCtx, Exceeds, Numbers, TypeOK,
         NO_TID, globalVars
    <2>2. Fresh'
      BY <1>0, <1>7 DEF StartRoutine, Goto, AllocCtx, Exceeds, Fresh, TypeOK,
         NO_TID, flagVars
    <2>3. AllRegistered'
      BY <1>0, <1>7 DEF StartRoutine, Goto, AllocCtx, Exceeds, AllRegistered,
         TypeOK, FirstIsMain, NO_TID, Skip, globalVars
    <2>4. Pool'
      BY <1>0, <1>7 DEF StartRoutine, Goto, AllocCtx, Exceeds, Pool, TypeOK,
         globalVars
    <2>5. OwnsContext'
      BY <1>0, <1>7 DEF StartRoutine, Goto, AllocCtx, Exceeds, OwnsContext,
         TypeOK, Numbers, Contexts, NO_TID, Registered, flagVars, globalVars
    <2>6. CleanupRegistered'
      BY <1>0, <1>7 DEF StartRoutine, Goto, AllocCtx, Exceeds,
         CleanupRegistered, TypeOK, NO_TID, Registered
    <2> QED
      BY <2>1, <2>2, <2>3, <2>4, <2>5, <2>6 DEF RegistryInv
  <1>8. ASSUME Allocate(t)
        PROVE  RegistryInv'
    <2>1. Numbers'
      BY <1>0, <1>8 DEF Allocate, Goto, Numbers, TypeOK, NO_TID, idVars,
         globalVars
    <2>2. Fresh'
      BY <1>0, <1>8 DEF Allocate, Goto, Fresh, TypeOK, NO_TID, idVars, flagVars
    <2>3. AllRegistered'
      BY <1>0, <1>8 DEF Allocate, Goto, AllRegistered, TypeOK, NO_TID, Skip,
         idVars, globalVars
    <2>4. Pool'
      BY <1>0, <1>8 DEF Allocate, Goto, Pool, TypeOK, globalVars
    <2>5. OwnsContext'
      BY <1>0, <1>8 DEF Allocate, Goto, OwnsContext, TypeOK, Contexts, NO_TID,
         Registered, idVars, flagVars, globalVars
    <2>6. CleanupRegistered'
      BY <1>0, <1>8 DEF Allocate, Goto, CleanupRegistered, TypeOK,
         AllRegistered, NO_TID, Registered, Skip, idVars, globalVars
    <2> QED
      BY <2>1, <2>2, <2>3, <2>4, <2>5, <2>6 DEF RegistryInv
  <1>9. ASSUME InitPrimaryCtx(t)
        PROVE  RegistryInv'
    <2>1. Numbers'
      BY <1>0, <1>9 DEF InitPrimaryCtx, Goto, Own, Numbers, TypeOK, NO_TID,
         idVars
    <2>2. Fresh'
      BY <1>0, <1>9 DEF InitPrimaryCtx, Goto, Own, Fresh, TypeOK, Started,
         Contexts, NO_TID, idVars
    <2>3. AllRegistered'
      BY <1>0, <1>9 DEF InitPrimaryCtx, Goto, Own, AllRegistered, TypeOK,
         Targets, FirstIsMain, Started, Creating, Contexts, NO_TID, Skip,
         idVars
    <2>4. Pool'
      <3>1. thread_cnt > 0
        BY <1>0, <1>9 DEF InitPrimaryCtx, Started, Contexts, Numbers, TypeOK
      <3> QED
        BY <1>0, <3>1, <1>9 DEF InitPrimaryCtx, Pool
    <2>5. OwnsContext'
      BY <1>0, <1>9 DEF InitPrimaryCtx, Goto, Own, OwnsContext, TypeOK,
         Numbers, Fresh, FirstIsMain, Started, Targets, Creating, Contexts,
         NO_TID, Registered, idVars
    <2>6. CleanupRegistered'
      BY <1>0, <1>9 DEF InitPrimaryCtx, Goto, Own, CleanupRegistered, TypeOK,
         AllRegistered, NO_TID, Registered, Skip, idVars
    <2> QED
      BY <2>1, <2>2, <2>3, <2>4, <2>5, <2>6 DEF RegistryInv
  <1>10. ASSUME Cleanup(t)
        PROVE  RegistryInv'
    <2>1. Numbers'
      BY <1>0, <1>10 DEF Cleanup, Goto, Numbers, TypeOK, NO_TID, idVars,
         globalVars
    <2>2. Fresh'
      BY <1>0, <1>10 DEF Cleanup, Goto, Fresh, TypeOK, NO_TID, idVars, flagVars
    <2>3. AllRegistered'
      BY <1>0, <1>10 DEF Cleanup, Goto, AllRegistered, TypeOK, NO_TID, Skip,
         idVars, globalVars
    <2>4. Pool'
      BY <1>0, <1>10 DEF Cleanup, Goto, Pool, TypeOK, globalVars
    <2>5. OwnsContext'
      BY <1>0, <1>10 DEF Cleanup, Goto, OwnsContext, TypeOK, Contexts, NO_TID,
         Registered, idVars, flagVars, globalVars
    <2>6. CleanupRegistered'
      BY <1>0, <1>10 DEF Cleanup, Goto, CleanupRegistered, TypeOK,
         AllRegistered, NO_TID, Registered, Skip, idVars, globalVars
    <2> QED
      BY <2>1, <2>2, <2>3, <2>4, <2>5, <2>6 DEF RegistryInv
  <1>11. ASSUME JoinReturn(t)
        PROVE  RegistryInv'
    <2>1. Numbers'
      BY <1>0, <1>11 DEF JoinReturn, Goto, Numbers, TypeOK, NO_TID, globalVars
    <2>2. Fresh'
      BY <1>0, <1>11 DEF JoinReturn, Goto, Fresh, TypeOK, NO_TID, flagVars
    <2>3. AllRegistered'
      BY <1>0, <1>11 DEF JoinReturn, Goto, AllRegistered, TypeOK, NO_TID, Skip,
         globalVars
    <2>4. Pool'
      BY <1>0, <1>11 DEF JoinReturn, Goto, Pool, TypeOK, globalVars
    <2>5. OwnsContext'
      BY <1>0, <1>11 DEF JoinReturn, Goto, OwnsContext, TypeOK, Contexts,
         NO_TID, Registered, flagVars, globalVars
    <2>6. CleanupRegistered'
      BY <1>0, <1>11 DEF JoinReturn, Goto, CleanupRegistered, TypeOK, NO_TID,
         Registered
    <2> QED
      BY <2>1, <2>2, <2>3, <2>4, <2>5, <2>6 DEF RegistryInv
  <1>12. ASSUME LookReallocated(t)
        PROVE  RegistryInv'
    <2>1. Numbers'
      BY <1>0, <1>12 DEF LookReallocated, Goto, Numbers, TypeOK, NO_TID,
         idVars, globalVars
    <2>2. Fresh'
      BY <1>0, <1>12 DEF LookReallocated, Goto, Fresh, TypeOK, NO_TID, idVars,
         flagVars
    <2>3. AllRegistered'
      BY <1>0, <1>12 DEF LookReallocated, Goto, AllRegistered, TypeOK, NO_TID,
         Skip, idVars, globalVars
    <2>4. Pool'
      BY <1>0, <1>12 DEF LookReallocated, Goto, Pool, TypeOK, globalVars
    <2>5. OwnsContext'
      BY <1>0, <1>12 DEF LookReallocated, Goto, OwnsContext, TypeOK, Contexts,
         NO_TID, Registered, idVars, flagVars, globalVars
    <2>6. CleanupRegistered'
      BY <1>0, <1>12 DEF LookReallocated, Goto, CleanupRegistered, TypeOK,
         AllRegistered, NO_TID, Registered, Skip, idVars, globalVars
    <2> QED
      BY <2>1, <2>2, <2>3, <2>4, <2>5, <2>6 DEF RegistryInv
  <1>13. ASSUME NEW c \in Threads, CreateCall(t, c)
        PROVE  RegistryInv'
    <2>1. Numbers'
      BY <1>0, <1>13 DEF CreateCall, Goto, FirstCreate, Numbers, TypeOK,
         NO_TID, globalVars
    <2>2. Fresh'
      BY <1>0, <1>13 DEF CreateCall, Goto, FirstCreate, Fresh, TypeOK, NO_TID,
         flagVars
    <2>3. AllRegistered'
      BY <1>0, <1>13 DEF CreateCall, Goto, FirstCreate, AllRegistered, TypeOK,
         NO_TID, Skip, globalVars
    <2>4. Pool'
      BY <1>0, <1>13 DEF CreateCall, Goto, FirstCreate, Pool, TypeOK,
         globalVars
    <2>5. OwnsContext'
      BY <1>0, <1>13 DEF CreateCall, Goto, FirstCreate, OwnsContext, TypeOK,
         Contexts, NO_TID, Registered, flagVars, globalVars
    <2>6. CleanupRegistered'
      BY <1>0, <1>13 DEF CreateCall, Goto, FirstCreate, CleanupRegistered,
         TypeOK, NO_TID, Registered
    <2> QED
      BY <2>1, <2>2, <2>3, <2>4, <2>5, <2>6 DEF RegistryInv
  <1>14. ASSUME NEW c \in Threads, JoinCall(t, c)
        PROVE  RegistryInv'
    <2>1. Numbers'
      BY <1>0, <1>14 DEF JoinCall, Goto, CleansUp, Getenv, Numbers, TypeOK,
         NO_TID
    <2>2. Fresh'
      BY <1>0, <1>14 DEF JoinCall, Goto, CleansUp, Getenv, Fresh, TypeOK,
         NO_TID, flagVars
    <2>3. AllRegistered'
      BY <1>0, <1>14 DEF JoinCall, Goto, CleansUp, Getenv, AllRegistered,
         TypeOK, NO_TID, Skip
    <2>4. Pool'
      BY <1>0, <1>14 DEF JoinCall, Goto, CleansUp, Getenv, Pool, TypeOK
    <2>5. OwnsContext'
      BY <1>0, <1>14 DEF JoinCall, Goto, CleansUp, Getenv, OwnsContext, TypeOK,
         Contexts, NO_TID, Registered, flagVars
    <2>6. CleanupRegistered'
      BY <1>0, <1>14 DEF JoinCall, Goto, CleansUp, Getenv, CleanupRegistered,
         TypeOK, AllRegistered, Creators, FirstIsMain, Targets, Creating,
         NO_TID, Registered, Skip
    <2> QED
      BY <2>1, <2>2, <2>3, <2>4, <2>5, <2>6 DEF RegistryInv
  <1>15. ASSUME Return(t)
        PROVE  RegistryInv'
    <2>1. Numbers'
      BY <1>0, <1>15 DEF Return, Goto, Getenv, Numbers, TypeOK, NO_TID, idVars,
         globalVars
    <2>2. Fresh'
      BY <1>0, <1>15 DEF Return, Goto, Getenv, Fresh, TypeOK, NO_TID, idVars,
         flagVars
    <2>3. AllRegistered'
      BY <1>0, <1>15 DEF Return, Goto, Getenv, AllRegistered, TypeOK, NO_TID,
         Skip, idVars, globalVars
    <2>4. Pool'
      BY <1>0, <1>15 DEF Return, Goto, Getenv, Pool, TypeOK, globalVars
    <2>5. OwnsContext'
      BY <1>0, <1>15 DEF Return, Goto, Getenv, OwnsContext, TypeOK, Contexts,
         NO_TID, Registered, idVars, flagVars, globalVars
    <2>6. CleanupRegistered'
      BY <1>0, <1>15 DEF Return, Goto, Getenv, CleanupRegistered, TypeOK,
         AllRegistered, NO_TID, Registered, Skip, idVars, globalVars
    <2> QED
      BY <2>1, <2>2, <2>3, <2>4, <2>5, <2>6 DEF RegistryInv
  <1>16. ASSUME EnterBlockableCall(t)
        PROVE  RegistryInv'
    <2>1. Numbers'
      BY <1>0, <1>16 DEF EnterBlockableCall, Goto, Numbers, TypeOK, NO_TID,
         idVars, globalVars
    <2>2. Fresh'
      BY <1>0, <1>16 DEF EnterBlockableCall, Goto, Fresh, TypeOK, NO_TID,
         idVars
    <2>3. AllRegistered'
      BY <1>0, <1>16 DEF EnterBlockableCall, Goto, AllRegistered, TypeOK,
         NO_TID, Skip, idVars, globalVars
    <2>4. Pool'
      BY <1>0, <1>16 DEF EnterBlockableCall, Goto, Pool, TypeOK, globalVars
    <2>5. OwnsContext'
      BY <1>0, <1>16 DEF EnterBlockableCall, Goto, OwnsContext, TypeOK,
         Contexts, NO_TID, Registered, idVars, globalVars
    <2>6. CleanupRegistered'
      BY <1>0, <1>16 DEF EnterBlockableCall, Goto, CleanupRegistered, TypeOK,
         AllRegistered, NO_TID, Registered, Skip, idVars, globalVars
    <2> QED
      BY <2>1, <2>2, <2>3, <2>4, <2>5, <2>6 DEF RegistryInv
  <1>17. ASSUME ExitBlockableCall(t)
        PROVE  RegistryInv'
    <2>1. Numbers'
      BY <1>0, <1>17 DEF ExitBlockableCall, Goto, Numbers, TypeOK, NO_TID,
         idVars, globalVars
    <2>2. Fresh'
      BY <1>0, <1>17 DEF ExitBlockableCall, Goto, Fresh, TypeOK, NO_TID, idVars
    <2>3. AllRegistered'
      BY <1>0, <1>17 DEF ExitBlockableCall, Goto, AllRegistered, TypeOK,
         NO_TID, Skip, idVars, globalVars
    <2>4. Pool'
      BY <1>0, <1>17 DEF ExitBlockableCall, Goto, Pool, TypeOK, globalVars
    <2>5. OwnsContext'
      BY <1>0, <1>17 DEF ExitBlockableCall, Goto, OwnsContext, TypeOK,
         Contexts, NO_TID, Registered, idVars, globalVars
    <2>6. CleanupRegistered'
      BY <1>0, <1>17 DEF ExitBlockableCall, Goto, CleanupRegistered, TypeOK,
         AllRegistered, NO_TID, Registered, Skip, idVars, globalVars
    <2> QED
      BY <2>1, <2>2, <2>3, <2>4, <2>5, <2>6 DEF RegistryInv
  <1> QED
    BY <1>1, <1>2, <1>3, <1>4, <1>5, <1>6, <1>7, <1>8, <1>9, <1>10, <1>11,
       <1>12, <1>13, <1>14, <1>15, <1>16, <1>17 DEF Runtime, Program

\* Blocked threads have contexts of their own, but for one at most, which is
\* then alone with dummy.
LEMMA StepFlags ==
    ASSUME ShimInv, RegistryInv', NEW t \in Threads,
           Runtime(t) \/ Program(t), env' = env
    PROVE  ShimInv'
  <1> USE NobodyAssumption, ShimAssumption
  <1>0. /\ TypeOK /\ FirstIsMain /\ Targets /\ Started /\ Fresh
        /\ AllRegistered /\ OwnsContext /\ FlagPrivate /\ DummyFlag
    BY DEF ShimInv, RegistryInv, ControlInv
  <1>1. ASSUME MshInit(t)
        PROVE  ShimInv'
    <2>1. FlagPrivate'
      BY <1>0, <1>1 DEF MshInit, Goto, Getenv, FlagPrivate, TypeOK,
         FirstIsMain, Contexts, DUMMY
    <2>2. DummyFlag'
      BY <1>0, <1>1 DEF MshInit, Goto, Getenv, DummyFlag, TypeOK, Contexts,
         DUMMY
    <2> QED
      BY <2>1, <2>2 DEF ShimInv
  <1>2. ASSUME Acquire(t)
        PROVE  ShimInv'
    <2>1. FlagPrivate'
      BY <1>0, <1>2 DEF Acquire, FlagPrivate, TypeOK, flagVars
    <2>2. DummyFlag'
      BY <1>0, <1>2 DEF Acquire, DummyFlag, TypeOK, DUMMY, flagVars
    <2> QED
      BY <2>1, <2>2 DEF ShimInv
  <1>3. ASSUME LoadPool(t)
        PROVE  ShimInv'
    <2>1. FlagPrivate'
      BY <1>0, <1>3 DEF LoadPool, Goto, Getenv, FlagPrivate, TypeOK, flagVars
    <2>2. DummyFlag'
      BY <1>0, <1>3 DEF LoadPool, Goto, Getenv, DummyFlag, TypeOK, DUMMY,
         flagVars
    <2> QED
      BY <2>1, <2>2 DEF ShimInv
  <1>4. ASSUME RegisterCaller(t)
        PROVE  ShimInv'
    <2>1. FlagPrivate'
      BY <1>0, <1>4 DEF RegisterCaller, Goto, AllocCtx, FetchAdd, Exceeds,
         FlagPrivate, TypeOK, flagVars
    <2>2. DummyFlag'
      BY <1>0, <1>4 DEF RegisterCaller, Goto, AllocCtx, FetchAdd, Exceeds,
         DummyFlag, TypeOK, DUMMY, flagVars
    <2> QED
      BY <2>1, <2>2 DEF ShimInv
  <1>5. ASSUME TakeNumber(t)
        PROVE  ShimInv'
    <2>1. FlagPrivate'
      BY <1>0, <1>5 DEF TakeNumber, Goto, FetchAdd, FlagPrivate, TypeOK,
         flagVars
    <2>2. DummyFlag'
      BY <1>0, <1>5 DEF TakeNumber, Goto, FetchAdd, DummyFlag, TypeOK, DUMMY,
         flagVars
    <2> QED
      BY <2>1, <2>2 DEF ShimInv
  <1>6. ASSUME Spawn(t)
        PROVE  ShimInv'
    <2>1. FlagPrivate'
      BY <1>0, <1>6 DEF Spawn, FlagPrivate, TypeOK, flagVars
    <2>2. DummyFlag'
      <3>1. target[t] # Main
        BY <1>0, <1>6 DEF Spawn, Targets, Creating, FirstIsMain, TypeOK
      <3>2. pc[Main] = "blocked" => pc'[Main] = "blocked"
        BY <1>0, <3>1, <1>6 DEF Spawn, TypeOK
      <3> QED
        BY <1>0, <3>2, <1>6 DEF Spawn, DummyFlag, flagVars
    <2> QED
      BY <2>1, <2>2 DEF ShimInv
  <1>7. ASSUME StartRoutine(t)
        PROVE  ShimInv'
    <2>1. FlagPrivate'
      BY <1>0, <1>7 DEF StartRoutine, Goto, AllocCtx, Exceeds, FlagPrivate,
         TypeOK, flagVars
    <2>2. DummyFlag'
      BY <1>0, <1>7 DEF StartRoutine, Goto, AllocCtx, Exceeds, DummyFlag,
         TypeOK, DUMMY, flagVars
    <2> QED
      BY <2>1, <2>2 DEF ShimInv
  <1>8. ASSUME Allocate(t)
        PROVE  ShimInv'
    <2>1. FlagPrivate'
      BY <1>0, <1>8 DEF Allocate, Goto, FlagPrivate, TypeOK, flagVars
    <2>2. DummyFlag'
      BY <1>0, <1>8 DEF Allocate, Goto, DummyFlag, TypeOK, DUMMY, flagVars
    <2> QED
      BY <2>1, <2>2 DEF ShimInv
  <1>9. ASSUME InitPrimaryCtx(t)
        PROVE  ShimInv'
    <2>1. FlagPrivate'
      BY <1>0, <1>9 DEF InitPrimaryCtx, Goto, Own, FlagPrivate, TypeOK,
         DummyFlag, OwnsContext, AllRegistered, Fresh, FirstIsMain, Started,
         Contexts, NO_TID, DUMMY, Registered, idVars
    <2>2. DummyFlag'
      BY <1>0, <1>9 DEF InitPrimaryCtx, Goto, Own, DummyFlag, TypeOK, DUMMY
    <2> QED
      BY <2>1, <2>2 DEF ShimInv
  <1>10. ASSUME Cleanup(t)
        PROVE  ShimInv'
    <2>1. FlagPrivate'
      BY <1>0, <1>10 DEF Cleanup, Goto, FlagPrivate, TypeOK, flagVars
    <2>2. DummyFlag'
      BY <1>0, <1>10 DEF Cleanup, Goto, DummyFlag, TypeOK, DUMMY, flagVars
    <2> QED
      BY <2>1, <2>2 DEF ShimInv
  <1>11. ASSUME JoinReturn(t)
        PROVE  ShimInv'
    <2>1. FlagPrivate'
      BY <1>0, <1>11 DEF JoinReturn, Goto, FlagPrivate, TypeOK, flagVars
    <2>2. DummyFlag'
      BY <1>0, <1>11 DEF JoinReturn, Goto, DummyFlag, TypeOK, DUMMY, flagVars
    <2> QED
      BY <2>1, <2>2 DEF ShimInv
  <1>12. ASSUME LookReallocated(t)
        PROVE  ShimInv'
    <2>1. FlagPrivate'
      BY <1>0, <1>12 DEF LookReallocated, Goto, FlagPrivate, TypeOK, DummyFlag,
         OwnsContext, AllRegistered, Fresh, FirstIsMain, Started, Contexts,
         NO_TID, DUMMY, Registered, Reallocated, idVars, flagVars, globalVars
    <2>2. DummyFlag'
      BY <1>0, <1>12 DEF LookReallocated, Goto, DummyFlag, TypeOK, DUMMY,
         flagVars
    <2> QED
      BY <2>1, <2>2 DEF ShimInv
  <1>13. ASSUME NEW c \in Threads, CreateCall(t, c)
        PROVE  ShimInv'
    <2>1. FlagPrivate'
      BY <1>0, <1>13 DEF CreateCall, Goto, FirstCreate, FlagPrivate, TypeOK,
         flagVars
    <2>2. DummyFlag'
      BY <1>0, <1>13 DEF CreateCall, Goto, FirstCreate, DummyFlag, TypeOK,
         DUMMY, flagVars
    <2> QED
      BY <2>1, <2>2 DEF ShimInv
  <1>14. ASSUME NEW c \in Threads, JoinCall(t, c)
        PROVE  ShimInv'
    <2>1. FlagPrivate'
      BY <1>0, <1>14 DEF JoinCall, Goto, CleansUp, Getenv, FlagPrivate, TypeOK,
         flagVars
    <2>2. DummyFlag'
      BY <1>0, <1>14 DEF JoinCall, Goto, CleansUp, Getenv, DummyFlag, TypeOK,
         DUMMY, flagVars
    <2> QED
      BY <2>1, <2>2 DEF ShimInv
  <1>15. ASSUME Return(t)
        PROVE  ShimInv'
    <2>1. FlagPrivate'
      BY <1>0, <1>15 DEF Return, Goto, Getenv, FlagPrivate, TypeOK, flagVars
    <2>2. DummyFlag'
      BY <1>0, <1>15 DEF Return, Goto, Getenv, DummyFlag, TypeOK, DUMMY,
         flagVars
    <2> QED
      BY <2>1, <2>2 DEF ShimInv
  <1>16. ASSUME EnterBlockableCall(t)
        PROVE  ShimInv'
    <2>1. FlagPrivate'
      BY <1>0, <1>16 DEF EnterBlockableCall, Goto, FlagPrivate, TypeOK
    <2>2. DummyFlag'
      BY <1>0, <1>16 DEF EnterBlockableCall, Goto, DummyFlag, TypeOK,
         OwnsContext, AllRegistered, Fresh, FirstIsMain, Started, Contexts,
         NO_TID, DUMMY, Registered, idVars, globalVars
    <2> QED
      BY <2>1, <2>2 DEF ShimInv
  <1>17. ASSUME ExitBlockableCall(t)
        PROVE  ShimInv'
    <2>1. FlagPrivate'
      BY <1>0, <1>17 DEF ExitBlockableCall, Goto, FlagPrivate, TypeOK,
         DummyFlag, OwnsContext, AllRegistered, Fresh, FirstIsMain, Started,
         Contexts, NO_TID, DUMMY, Registered, idVars, globalVars
    <2>2. DummyFlag'
      BY <1>0, <1>17 DEF ExitBlockableCall, Goto, DummyFlag, TypeOK, DUMMY
    <2> QED
      BY <2>1, <2>2 DEF ShimInv
  <1> QED
    BY <1>1, <1>2, <1>3, <1>4, <1>5, <1>6, <1>7, <1>8, <1>9, <1>10, <1>11,
       <1>12, <1>13, <1>14, <1>15, <1>16, <1>17 DEF Runtime, Program

-----------------------------------------------------------------------------
(* The theorems.                                                           *)

\* The invariant holds when the program starts.
LEMMA ShimStart == Init => ShimInv
  <1> SUFFICES ASSUME Init
               PROVE  ShimInv
    OBVIOUS
  <1> USE NobodyAssumption, ShimAssumption
  <1>1. TypeOK
    BY DEF Init, TypeOK, Labels, Contexts, DUMMY, NO_TID
  <1>2. FirstIsMain /\ Targets /\ Creators /\ Started
    BY DEF Init, FirstIsMain, Targets, Creating, Creators, Started
  <1>3. Numbers /\ Fresh /\ AllRegistered /\ Pool
    BY DEF Init, Numbers, Fresh, AllRegistered, Pool, NO_TID
  <1>4. OwnsContext /\ CleanupRegistered
    BY DEF Init, OwnsContext, CleanupRegistered, Registered
  <1>5. FlagPrivate /\ DummyFlag
    BY DEF Init, FlagPrivate, DummyFlag, DUMMY, Contexts
  <1> QED
    BY <1>1, <1>2, <1>3, <1>4, <1>5 DEF ShimInv, RegistryInv, ControlInv

\* The invariant is inductive.
LEMMA ShimStep == ShimInv /\ [Next]_vars => ShimInv'
  <1> SUFFICES ASSUME ShimInv, [Next]_vars
               PROVE  ShimInv'
    OBVIOUS
  <1>1. CASE Next
    <2>1. PICK t \in Threads : (Runtime(t) \/ Program(t)) /\ env' = env
      BY <1>1 DEF Next
    <2>2. ControlInv'
      BY <2>1, StepControl DEF ShimInv, RegistryInv
    <2>3. RegistryInv'
      BY <2>1, <2>2, StepRegistry DEF ShimInv
    <2> QED
      BY <2>1, <2>3, StepFlags
  <1>2. CASE UNCHANGED vars
    <2>1. /\ UNCHANGED <<env, pc, target, creator, thread_id, msh_tid>>
          /\ UNCHANGED <<ptr, flag, ctx, pool, thread_cnt, first_join>>
      BY <1>2 DEF vars, idVars, flagVars, globalVars
    <2>2. ControlInv'
      BY <2>1 DEF ShimInv, RegistryInv, ControlInv, TypeOK, FirstIsMain,
                  Targets, Creators, Started
    <2>3. (Numbers /\ Fresh /\ AllRegistered /\ Pool)'
      BY <2>1 DEF ShimInv, RegistryInv, Numbers, Fresh, AllRegistered, Skip,
                  Pool
    <2>4. (OwnsContext /\ CleanupRegistered)'
      BY <2>1 DEF ShimInv, RegistryInv, OwnsContext, CleanupRegistered,
                  Registered
    <2>5. (FlagPrivate /\ DummyFlag)'
      BY <2>1 DEF ShimInv, FlagPrivate, DummyFlag
    <2> QED
      BY <2>2, <2>3, <2>4, <2>5 DEF ShimInv, RegistryInv
  <1> QED
    BY <1>1, <1>2

\* Whatever threads are created, joined and blocked, numbers, contexts and
\* flags of the wrappers stay consistent.
THEOREM ShimCorrect == Spec => []ShimInv
  BY ShimStart, ShimStep, PTL DEF Spec

\* The wrappers' state keeps its types: no flag pointer leaves PRIM_TABLE.
THEOREM ShimTypes == Spec => []TypeOK
  <1>1. ShimInv => TypeOK
    BY DEF ShimInv, RegistryInv, ControlInv
  <1> QED
    BY <1>1, ShimCorrect, PTL

\* msh_alloc_ctx: PRIM_TABLE[msh_tid] is ready and the caller's alone.
THEOREM ContextOwned == Spec => []OwnsContext
  <1>1. ShimInv => OwnsContext
    BY DEF ShimInv, RegistryInv
  <1> QED
    BY <1>1, ShimCorrect, PTL

\* msh_exit_blockable_call finds its flag as it left it, dummy included.
THEOREM FlagsPrivate == Spec => []FlagPrivate
  <1>1. ShimInv => FlagPrivate
    BY DEF ShimInv
  <1> QED
    BY <1>1, ShimCorrect, PTL

\* msh_cleanup is called by registered threads only.
THEOREM CleanupOfRegistered == Spec => []CleanupRegistered
  <1>1. ShimInv => CleanupRegistered
    BY DEF ShimInv, RegistryInv
  <1> QED
    BY <1>1, ShimCorrect, PTL

\* msh_init runs while the main thread is alone, and before any allocation.
THEOREM InitialisedAlone == Spec => []InitAlone
  <1>1. ShimInv => InitAlone
    <2> SUFFICES ASSUME ShimInv
                 PROVE  InitAlone
      OBVIOUS
    <2>1. TypeOK /\ FirstIsMain /\ Started /\ Numbers /\ Pool
      BY DEF ShimInv, RegistryInv, ControlInv
    <2>2. ASSUME NEW t \in Threads, pc[t] = "alloc"
          PROVE  pool
      BY <2>1, <2>2, ShimAssumption
         DEF Started, Contexts, Numbers, Pool, TypeOK
    <2>3. ASSUME NEW t \in Threads, pc[t] \in {"init", "load", "own"}
          PROVE  \A u \in Threads \ {t} : pc[u] = "none"
      BY <2>1, <2>3 DEF FirstIsMain
    <2> QED
      BY <2>2, <2>3 DEF InitAlone
  <1> QED
    BY <1>1, ShimCorrect, PTL

=============================================================================
