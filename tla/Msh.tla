-------------------------------- MODULE Msh --------------------------------
(***************************************************************************)
(* The MSH runtime (libmsh/msh.c): primary threads host scavenger          *)
(* coroutines in the slots of their context, run them whenever the         *)
(* instrumented primary yields, steal them from threads that are parked in *)
(* a blocking call, and run them to completion when the primary ends.      *)
(*                                                                         *)
(* A step is a maximal piece of code that touches only the thread's own    *)
(* context, or one access to what threads share: scav_table_lock, the      *)
(* reallocatable flags, SCAV_TABLE and the context of a parked thread.     *)
(* Stack pointer, instruction pointer and saved registers of a slot are    *)
(* abstracted to the coroutine they resume ("saved").  Byte offsets are    *)
(* kept: a link or crt_pos is sizeof(struct yield_ctx) times a slot, or,   *)
(* where the code forgets the factor, the slot itself.                     *)
(***************************************************************************)
EXTENDS Integers, FiniteSets

CONSTANTS
    MAX_THREAD_NUM,      \* entries of PRIM_TABLE
    MAX_CRT_PER_THREAD,  \* scavenger slots of a primary
    SCAV_NUM,            \* entries the pool file filled in SCAV_TABLE
    MAX_SCAV,            \* max_scav_per_thread, from MAX_SCAV_PER_THREAD
    Libs,                \* shared objects the pool names
    LibOf,               \* SCAV_TABLE[s].lib_handle: the object of entry s
    HasInit,             \* entries whose object exports an init function
    Blockers,            \* threads whose program makes blocking pthread calls
    SKIP_FIRST_THREAD,   \* environment: the main thread is not a primary
    SKIP_CLEANUP         \* environment: msh_cleanup does nothing

Threads == 0 .. MAX_THREAD_NUM - 1
Scavs == 0 .. SCAV_NUM - 1
Slots == 0 .. MAX_CRT_PER_THREAD        \* slot 0 belongs to the primary
Positions == 1 .. MAX_CRT_PER_THREAD

YC == 20                                \* sizeof(struct yield_ctx), packed
EMPTY == -1                             \* free entry of idx_list
FIN == -1                               \* normal_next of a finished slot
PRIM == -1                              \* the primary, as a coroutine
ZERO == -2                              \* a context nobody has saved yet
FREE == -1                              \* scav_table_lock is not held
NULL == <<-1, -1>>                 \* SCAV_TABLE[s].yc of an unhosted entry

ASSUME ConstantsAssumption ==
    /\ MAX_THREAD_NUM \in Nat \ {0}
    /\ MAX_CRT_PER_THREAD \in Nat \ {0}
    /\ SCAV_NUM \in Nat
    /\ MAX_SCAV \in Nat
    /\ LibOf \in [Scavs -> Libs]
    /\ HasInit \subseteq Scavs
    /\ Blockers \subseteq Threads
    /\ SKIP_FIRST_THREAD \in BOOLEAN
    /\ SKIP_CLEANUP \in BOOLEAN

VARIABLES
    \* control of each thread
    pc,              \* where the thread is
    run,             \* the coroutine whose code it executes at pc = "app"
    cont,            \* which caller allocate_scav returns to
    cleanup,         \* whether it is inside msh_cleanup, and called by whom
    \* locals of allocate_scav, _allocate_scav and realloc_scav
    demands, got, cnt, tid, item, from_pos,
    \* locals of tl_sched_next_crt and tl_finish_crt
    ret_pos, next, crt_idx,
    \* PRIM_TABLE
    idx_list, normal_next, special_next, saved, scav_num,
    reallocatable, reallocated,
    \* SCAV_TABLE and the crt_pos symbol of each shared object
    yc, finished, inited, crt_pos,
    \* scavengers whose entry function has returned
    ended,
    \* globals
    scav_table_lock, first_join

allocVars == <<demands, got, cnt, tid, item, from_pos>>
innerVars == <<allocVars, cont>>
schedVars == <<ret_pos, next, crt_idx>>
progVars == <<run, cleanup, ended, first_join>>
outerVars == <<progVars, schedVars>>
linkVars == <<normal_next, special_next>>
slotVars == <<idx_list, saved, scav_num>>
ctxVars == <<slotVars, linkVars>>
flagVars == <<reallocatable, reallocated>>
primVars == <<ctxVars, flagVars>>
tableVars == <<yc, finished, inited, crt_pos>>
vars == <<pc, innerVars, outerVars, primVars, tableVars, scav_table_lock>>

-----------------------------------------------------------------------------
(* The list macros and the searches of a thread's own context.             *)

Occupied(list, p) == list[p] # EMPTY

\* push_back_to_list takes the lowest free slot above 0.
IsFirstFree(list, p) ==
    /\ p \in Positions
    /\ ~Occupied(list, p)
    /\ \A q \in Positions : q < p => Occupied(list, q)

HasFree(list) == \E p \in Positions : ~Occupied(list, p)

\* pop_back_from_list takes the highest occupied slot above 0.
IsLastOccupied(list, p) ==
    /\ p \in Positions
    /\ Occupied(list, p)
    /\ \A q \in Positions : q > p => ~Occupied(list, q)

HasOccupied(list) == \E p \in Positions : Occupied(list, p)

\* need_more_scav: how many scavengers the thread is short of the static cap.
NeedMoreScav(list) ==
    LET counts == Cardinality({p \in Positions : Occupied(list, p)})
    IN  IF counts < MAX_SCAV THEN MAX_SCAV - counts ELSE 0

\* Mutant of IsUnfinishedCrt: the search finds nothing.
IsUnfinishedCrtNever(list, p) == p = 0

\* tl_find_unfinished_crt: the lowest occupied slot, 0 if there is none.
IsUnfinishedCrt(list, p) ==
    \/ /\ p = 0
       /\ ~HasOccupied(list)
    \/ /\ p \in Positions
       /\ Occupied(list, p)
       /\ \A q \in Positions : q < p => ~Occupied(list, q)

\* tl_next_available_crt: the lowest slot that is not finished, 0 if none.
IsNextAvailableCrt(links, p) ==
    \/ /\ p = 0
       /\ \A q \in Positions : links[q] = FIN
    \/ /\ p \in Positions
       /\ links[p] # FIN
       /\ \A q \in Positions : q < p => links[q] = FIN

\* Mutant of UpdateNextMap: the primary keeps its link.
UpdateNextMapNot(links) == {links}

\* tl_update_next_map recomputes the primary's link unless the primary is
\* finished.  The set has one element, the links after the call.
UpdateNextMap(links) ==
    IF links[0] = FIN
    THEN {links}
    ELSE {[links EXCEPT ![0] = YC * p] :
             p \in {q \in Slots : IsNextAvailableCrt(links, q)}}

\* set_special_next: the word after idx_list is scav_num, and the last slot
\* reads it because its own case does not skip the rest of the loop body.
IdxAfter(list, num, p) == IF p < MAX_CRT_PER_THREAD THEN list[p + 1] ELSE num

\* Mutant of SetSpecialNext: every link is one slot too far.
SetSpecialNextFar(list, num, links) ==
    [p \in Slots |-> IF p = 0 THEN links[0] ELSE YC * (p + 2)]

SetSpecialNext(list, num, links) ==
    [p \in Slots |-> IF p = 0 THEN links[0]
                     ELSE IF IdxAfter(list, num, p) = EMPTY THEN 0
                     ELSE YC * (p + 1)]

-----------------------------------------------------------------------------
(* msh_init has run: init_prim_table cleared the contexts and              *)
(* init_scav_table loaded the pool.                                        *)

Init ==
    /\ pc = [t \in Threads |-> "new"]
    /\ run = [t \in Threads |-> PRIM]
    /\ cont = [t \in Threads |-> "start"]
    /\ cleanup = [t \in Threads |-> "no"]
    /\ demands = [t \in Threads |-> 0]
    /\ got = [t \in Threads |-> 0]
    /\ cnt = [t \in Threads |-> 0]
    /\ tid = [t \in Threads |-> 0]
    /\ item = [t \in Threads |-> EMPTY]
    /\ from_pos = [t \in Threads |-> 0]
    /\ ret_pos = [t \in Threads |-> 0]
    /\ next = [t \in Threads |-> 0]
    /\ crt_idx = [t \in Threads |-> EMPTY]
    /\ idx_list = [t \in Threads |-> [p \in Slots |-> EMPTY]]
    /\ normal_next = [t \in Threads |-> [p \in Slots |-> FIN]]
    /\ special_next = [t \in Threads |-> [p \in Slots |-> 0]]
    /\ saved = [t \in Threads |-> [p \in Slots |-> ZERO]]
    /\ scav_num = [t \in Threads |-> 0]
    /\ reallocatable = [t \in Threads |-> FALSE]
    /\ reallocated = [t \in Threads |-> FALSE]
    /\ yc = [s \in Scavs |-> NULL]
    /\ finished = [s \in Scavs |-> FALSE]
    /\ inited = [s \in Scavs |-> FALSE]
    /\ crt_pos = [l \in Libs |-> 0]
    /\ ended = {}
    /\ scav_table_lock = FREE
    /\ first_join = TRUE

Goto(t, label) == pc' = [pc EXCEPT ![t] = label]

\* Mutant of SpinLock: does not wait for the holder.
SpinLockAtOnce(t) == scav_table_lock' = t

\* spin_lock and spin_unlock on scav_table_lock.
SpinLock(t) ==
    /\ scav_table_lock = FREE
    /\ scav_table_lock' = t

SpinUnlock == scav_table_lock' = FREE

\* Mutant of TakeFlag: a store instead of a compare-and-swap.
TakeFlagAtOnce(u) == reallocatable' = [reallocatable EXCEPT ![u] = FALSE]

\* CAS(&u->reallocatable, true, false) succeeds.
TakeFlag(u) ==
    /\ reallocatable[u]
    /\ reallocatable' = [reallocatable EXCEPT ![u] = FALSE]

\* t->reallocatable = true: the thief is done with its victim.
GiveFlag(u) == reallocatable' = [reallocatable EXCEPT ![u] = TRUE]

\* Locals of a call that is over.
DropAllocLocals(t) ==
    /\ demands' = [demands EXCEPT ![t] = 0]
    /\ got' = [got EXCEPT ![t] = 0]
    /\ cnt' = [cnt EXCEPT ![t] = 0]
    /\ tid' = [tid EXCEPT ![t] = 0]
    /\ item' = [item EXCEPT ![t] = EMPTY]
    /\ from_pos' = [from_pos EXCEPT ![t] = 0]

DropSchedLocals(t) ==
    /\ ret_pos' = [ret_pos EXCEPT ![t] = 0]
    /\ next' = [next EXCEPT ![t] = 0]
    /\ crt_idx' = [crt_idx EXCEPT ![t] = EMPTY]

-----------------------------------------------------------------------------
(* Allocation: msh_alloc_ctx, and allocate_scav with its three callers.    *)

\* The new thread takes its context.  Unless SKIP_FIRST_THREAD, thread 0 is
\* the main thread and allocates inside the first pthread_create, before any
\* other thread exists.
MshAllocCtx(t) ==
    /\ pc[t] = "new"
    /\ SKIP_FIRST_THREAD \/ t = 0 \/ cont[0] # "start"
    /\ Goto(t, "alloc")
    /\ UNCHANGED <<primVars, innerVars, outerVars, tableVars,
                   scav_table_lock>>

\* allocate_scav: nothing more happens when the thread is at its cap.
AllocateScav(t) ==
    /\ pc[t] = "alloc"
    /\ demands' = [demands EXCEPT ![t] = NeedMoreScav(idx_list[t])]
    /\ got' = [got EXCEPT ![t] = 0]
    /\ Goto(t, IF NeedMoreScav(idx_list[t]) = 0 THEN "resume" ELSE "lock")
    /\ UNCHANGED <<primVars, outerVars, tableVars, cont, cnt, tid, item,
                   from_pos, scav_table_lock>>

AllocLock(t) ==
    /\ pc[t] = "lock"
    /\ SpinLock(t)
    /\ tid' = [tid EXCEPT ![t] = 0]
    /\ Goto(t, "scan")
    /\ UNCHANGED <<primVars, outerVars, tableVars, cont, demands, got, cnt,
                   item, from_pos>>

\* Mutant of NextTid: the loop over PRIM_TABLE does not advance.
NextTidSame(v) == v

NextTid(v) == v + 1

\* The loop over PRIM_TABLE: CAS(&t->reallocatable, true, false) fails.
ScanSkip(t) ==
    /\ pc[t] = "scan"
    /\ tid[t] \in Threads
    /\ ~reallocatable[tid[t]]
    /\ tid' = [tid EXCEPT ![t] = NextTid(@)]
    /\ UNCHANGED <<primVars, outerVars, tableVars, pc, cont, demands, got,
                   cnt, item, from_pos, scav_table_lock>>

\* ... or succeeds, and the parked thread cannot leave until it is undone.
ScanCapture(t) ==
    /\ pc[t] = "scan"
    /\ tid[t] \in Threads
    /\ TakeFlag(tid[t])
    /\ cnt' = [cnt EXCEPT ![t] = 0]
    /\ Goto(t, "steal")
    /\ UNCHANGED <<outerVars, ctxVars, tableVars, cont, demands, got, tid,
                   item, from_pos, reallocated, scav_table_lock>>

ScanEnd(t) ==
    /\ pc[t] = "scan"
    /\ tid[t] = MAX_THREAD_NUM
    /\ Goto(t, "pool")
    /\ UNCHANGED <<primVars, innerVars, outerVars, tableVars,
                   scav_table_lock>>

\* realloc_scav: pop_back_from_list on the victim's list.
StealPop(t) ==
    /\ pc[t] = "steal"
    /\ cnt[t] < demands[t]
    /\ \E p \in Positions :
          /\ IsLastOccupied(idx_list[tid[t]], p)
          /\ item' = [item EXCEPT ![t] = idx_list[tid[t]][p]]
          /\ from_pos' = [from_pos EXCEPT ![t] = p]
          /\ idx_list' = [idx_list EXCEPT ![tid[t]][p] = EMPTY]
    /\ Goto(t, "push")
    /\ UNCHANGED <<outerVars, tableVars, linkVars, flagVars, cont, demands,
                   got, cnt, tid, saved, scav_num, scav_table_lock>>

\* Mutant of CopyCtx: source and destination are exchanged.
CopyCtxBack(v, q, t, p) == [saved EXCEPT ![v][q] = saved[t][p]]

\* realloc_scav: sp, ip and registers of slot q of v are copied to slot p of t.
CopyCtx(v, q, t, p) == [saved EXCEPT ![t][p] = saved[v][q]]

\* realloc_scav: push_back_to_list on the thief's list, then the context
\* moves with it.  crt_pos gets the slot, not its byte offset.
StealPush(t) ==
    LET v == tid[t]
        s == item[t]
    IN  /\ pc[t] = "push"
        /\ \E p \in Positions :
              /\ IsFirstFree(idx_list[t], p)
              /\ idx_list' = [idx_list EXCEPT ![t][p] = s]
              /\ saved' = CopyCtx(v, from_pos[t], t, p)
              /\ normal_next' = [normal_next EXCEPT ![t][p] = 0,
                                                    ![t][0] = YC,
                                                    ![v][from_pos[t]] = FIN]
              /\ crt_pos' = [crt_pos EXCEPT ![LibOf[s]] = p]
              /\ yc' = [yc EXCEPT ![s] = <<t, p>>]
        /\ reallocated' = [reallocated EXCEPT ![v] = TRUE]
        /\ cnt' = [cnt EXCEPT ![t] = @ + 1]
        /\ item' = [item EXCEPT ![t] = EMPTY]
        /\ Goto(t, "steal")
        /\ UNCHANGED <<outerVars, cont, demands, got, tid, from_pos,
                       special_next, scav_num, reallocatable, finished,
                       inited, scav_table_lock>>

\* Mutant of PutBack: the scavenger is dropped.
PutBackNot(list, s) == {list}

\* push_back_to_list on the victim's list.  One element, the list afterwards.
PutBack(list, s) ==
    {[list EXCEPT ![p] = s] : p \in {q \in Positions : IsFirstFree(list, q)}}

\* realloc_scav: the thief's list is full, the scavenger goes back to the
\* lowest free slot of the victim, its context stays in the slot it left.
StealRollback(t) ==
    LET v == tid[t]
    IN  /\ pc[t] = "push"
        /\ ~HasFree(idx_list[t])
        /\ \E list \in PutBack(idx_list[v], item[t]) :
              idx_list' = [idx_list EXCEPT ![v] = list]
        /\ item' = [item EXCEPT ![t] = EMPTY]
        /\ Goto(t, "release")
        /\ UNCHANGED <<outerVars, tableVars, linkVars, flagVars, cont,
                       demands, got, cnt, tid, from_pos, saved, scav_num,
                       scav_table_lock>>

StealEnd(t) ==
    /\ pc[t] = "steal"
    /\ cnt[t] >= demands[t] \/ ~HasOccupied(idx_list[tid[t]])
    /\ Goto(t, "release")
    /\ UNCHANGED <<primVars, innerVars, outerVars, tableVars,
                   scav_table_lock>>

\* t->reallocatable = true, and on to the next thread unless satisfied.
ReleaseVictim(t) ==
    LET sum == got[t] + cnt[t]
    IN  /\ pc[t] = "release"
        /\ GiveFlag(tid[t])
        /\ got' = [got EXCEPT ![t] = sum]
        /\ tid' = [tid EXCEPT ![t] = NextTid(@)]
        /\ Goto(t, IF sum >= demands[t] THEN "unlock" ELSE "scan")
        /\ UNCHANGED <<outerVars, ctxVars, tableVars, cont, demands, cnt,
                       item, from_pos, reallocated, scav_table_lock>>

\* Mutant of InPool: a finished entry is taken for a free one.
InPoolAgain(s) == yc[s] = NULL

\* The loop over SCAV_TABLE: an entry that is neither hosted nor finished.
InPool(s) == yc[s] = NULL /\ ~finished[s]

PoolPick(t) ==
    /\ pc[t] = "pool"
    /\ \E s \in Scavs :
          /\ InPool(s)
          /\ \A r \in Scavs : r < s => ~InPool(r)
          /\ item' = [item EXCEPT ![t] = s]
    /\ HasFree(idx_list[t])
    /\ Goto(t, "take")
    /\ UNCHANGED <<primVars, outerVars, tableVars, cont, demands, got, cnt,
                   tid, from_pos, scav_table_lock>>

\* set_scav_symbol: the byte offset that the object of a new scavenger gets.
ScavSymbol(p) == YC * p

\* Host the entry; set_scav_symbol gives its object the byte offset.
PoolTake(t) ==
    LET s == item[t]
    IN  /\ pc[t] = "take"
        /\ \E p \in Positions :
              /\ IsFirstFree(idx_list[t], p)
              /\ idx_list' = [idx_list EXCEPT ![t][p] = s]
              /\ saved' = [saved EXCEPT ![t][p] = s]
              /\ normal_next' = [normal_next EXCEPT ![t][p] = 0]
              /\ crt_pos' = [crt_pos EXCEPT ![LibOf[s]] = ScavSymbol(p)]
              /\ yc' = [yc EXCEPT ![s] = <<t, p>>]
        /\ got' = [got EXCEPT ![t] = @ + 1]
        /\ item' = [item EXCEPT ![t] = EMPTY]
        /\ Goto(t, IF got[t] + 1 >= demands[t] THEN "unlock" ELSE "pool")
        /\ UNCHANGED <<outerVars, flagVars, cont, demands, cnt, tid, from_pos,
                       special_next, scav_num, finished, inited,
                       scav_table_lock>>

PoolEnd(t) ==
    /\ pc[t] = "pool"
    /\ ~HasFree(idx_list[t]) \/ \A s \in Scavs : ~InPool(s)
    /\ Goto(t, "unlock")
    /\ UNCHANGED <<primVars, innerVars, outerVars, tableVars,
                   scav_table_lock>>

AllocUnlock(t) ==
    /\ pc[t] = "unlock"
    /\ SpinUnlock
    /\ Goto(t, "init")
    /\ UNCHANGED <<primVars, innerVars, outerVars, tableVars>>

\* call_init_for_new_scav, outside the lock, then set_special_next.  The init
\* function yields to itself, so the links it finds are put back unchanged.
CallInit(t) ==
    /\ pc[t] = "init"
    /\ inited' = [s \in Scavs |->
                     \/ inited[s]
                     \/ /\ s \in HasInit
                        /\ \E p \in Positions : idx_list[t][p] = s]
    /\ special_next' = [special_next EXCEPT
                           ![t] = SetSpecialNext(idx_list[t], scav_num[t], @)]
    /\ Goto(t, "resume")
    /\ UNCHANGED <<innerVars, outerVars, slotVars, flagVars, normal_next, yc,
                   finished, crt_pos, scav_table_lock>>

\* The slot is linked to itself while init runs, but init yields through the
\* crt_pos of its object.  When a scavenger that shares the object has
\* changed it, the yield leaves through another slot.
CallInitLost(t) ==
    /\ pc[t] = "init"
    /\ \E p \in Positions :
          LET s == idx_list[t][p]
          IN  /\ s \in HasInit
              /\ ~inited[s]
              /\ crt_pos[LibOf[s]] # YC * p
    /\ Goto(t, "wild")
    /\ UNCHANGED <<primVars, innerVars, outerVars, tableVars,
                   scav_table_lock>>

\* allocate_scav returns to msh_alloc_ctx: init_primary_ctx, and the program
\* starts.
ResumeStart(t) ==
    /\ pc[t] = "resume"
    /\ cont[t] = "start"
    /\ DropAllocLocals(t)
    /\ normal_next' = [normal_next EXCEPT
                          ![t][0] = IF got[t] > 0 THEN YC ELSE 0]
    /\ scav_num' = [scav_num EXCEPT ![t] = got[t]]
    /\ reallocatable' = [reallocatable EXCEPT ![t] = FALSE]
    /\ reallocated' = [reallocated EXCEPT ![t] = FALSE]
    /\ cont' = [cont EXCEPT ![t] = "none"]
    /\ Goto(t, "app")
    /\ UNCHANGED <<outerVars, tableVars, idx_list, special_next, saved,
                   scav_table_lock>>

\* ... to tl_sched_next_crt, which recomputes the primary's link.
ResumeSched(t) ==
    /\ pc[t] = "resume"
    /\ cont[t] = "sched"
    /\ DropAllocLocals(t)
    /\ \E links \in UpdateNextMap(normal_next[t]) :
          normal_next' = [normal_next EXCEPT ![t] = links]
    /\ cont' = [cont EXCEPT ![t] = "none"]
    /\ Goto(t, "dispatch")
    /\ UNCHANGED <<outerVars, tableVars, slotVars, flagVars, special_next,
                   scav_table_lock>>

\* ... or to the slow path of msh_exit_blockable_call.
ResumeExit(t) ==
    /\ pc[t] = "resume"
    /\ cont[t] = "exit"
    /\ DropAllocLocals(t)
    /\ \E links \in UpdateNextMap(normal_next[t]) :
          normal_next' = [normal_next EXCEPT ![t] = links]
    /\ reallocated' = [reallocated EXCEPT ![t] = FALSE]
    /\ cont' = [cont EXCEPT ![t] = "none"]
    /\ Goto(t, "app")
    /\ UNCHANGED <<outerVars, tableVars, slotVars, special_next,
                   reallocatable, scav_table_lock>>

-----------------------------------------------------------------------------
(* The program: instrumented yields and the intercepted pthread calls.     *)

\* What a jump through byte offset off of the context finds in the slots.
AtOffset(ctxs, off) ==
    IF \E q \in Slots : off = YC * q THEN ctxs[off \div YC] ELSE ZERO

\* A context worth jumping to: the primary's unless it is inside msh_cleanup
\* (it would run on from its last yield), or that of a scavenger that has not
\* returned.
Resumable(t, c) == (c = PRIM /\ cleanup[t] = "no") \/ c \in Scavs \ ended

\* After any other jump the thread executes at an arbitrary address, and the
\* model does not follow it.
Jump(t, c) ==
    IF Resumable(t, c)
    THEN /\ run' = [run EXCEPT ![t] = c]
         /\ Goto(t, "app")
    ELSE /\ run' = run
         /\ Goto(t, "wild")

RunsPrimary(t) == pc[t] = "app" /\ run[t] = PRIM
RunsScav(t) == pc[t] = "app" /\ run[t] \in Scavs

\* The primary saves its context in slot 0 and jumps through normal_next.
PrimaryYield(t) ==
    LET ctxs == [saved[t] EXCEPT ![0] = PRIM]
    IN  /\ RunsPrimary(t)
        /\ saved' = [saved EXCEPT ![t] = ctxs]
        /\ Jump(t, AtOffset(ctxs, normal_next[t][0]))
        /\ UNCHANGED <<innerVars, tableVars, linkVars, flagVars, schedVars,
                       cleanup, idx_list, scav_num, ended, scav_table_lock,
                       first_join>>

\* A scavenger saves its context at gs:[crt_pos] and jumps through the
\* special_next of that slot (default) or its normal_next (a yield that
\* bounds a loop).  An offset that is no slot tramples the context.
ScavYield(t) ==
    LET off == crt_pos[LibOf[run[t]]]
        p == off \div YC
        ctxs == [saved[t] EXCEPT ![p] = run[t]]
    IN  /\ RunsScav(t)
        /\ IF off = YC * p
           THEN /\ saved' = [saved EXCEPT ![t] = ctxs]
                /\ \E link \in {special_next[t][p], normal_next[t][p]} :
                      Jump(t, AtOffset(ctxs, link))
           ELSE /\ Goto(t, "wild")
                /\ UNCHANGED <<run, saved>>
        /\ UNCHANGED <<innerVars, tableVars, linkVars, flagVars, schedVars,
                       cleanup, idx_list, scav_num, ended, scav_table_lock,
                       first_join>>

\* msh_enter_blockable_call, in the pthread wrappers.
EnterBlockableCall(t) ==
    /\ RunsPrimary(t)
    /\ t \in Blockers
    /\ reallocatable' = [reallocatable EXCEPT ![t] = TRUE]
    /\ Goto(t, "blocked")
    /\ UNCHANGED <<innerVars, outerVars, ctxVars, tableVars, reallocated,
                   scav_table_lock>>

\* The original pthread call returns.
Unblock(t) ==
    /\ pc[t] = "blocked"
    /\ Goto(t, "exit")
    /\ UNCHANGED <<primVars, innerVars, outerVars, tableVars,
                   scav_table_lock>>

\* Mutant of StolenFrom: the thread never looks.
StolenFromNever(t) == FALSE

\* *msh_reallocated, read after the busy wait.
StolenFrom(t) == reallocated[t]

\* msh_exit_blockable_call: the CAS that ends the busy wait, then the test
\* that selects the slow path.
ExitBlockableCall(t) ==
    /\ pc[t] = "exit"
    /\ TakeFlag(t)
    /\ IF StolenFrom(t)
       THEN /\ cont' = [cont EXCEPT ![t] = "exit"]
            /\ Goto(t, "alloc")
       ELSE /\ cont' = cont
            /\ Goto(t, "app")
    /\ UNCHANGED <<outerVars, allocVars, ctxVars, tableVars, reallocated,
                   scav_table_lock>>

-----------------------------------------------------------------------------
(* tl_sched_next_crt: a coroutine returned, or msh_cleanup retires the     *)
(* primary.                                                                *)

\* normal_next / sizeof(struct yield_ctx), an unsigned division narrowed to
\* short: -1 becomes -13108.
NextOf(link) == IF link = FIN THEN -13108 ELSE link \div YC

\* entry returns crt_pos to ret_to_scheduler, which turns it into a slot.
ScavReturn(t) ==
    LET p == crt_pos[LibOf[run[t]]] \div YC
    IN  /\ RunsScav(t)
        /\ ended' = ended \cup {run[t]}
        /\ ret_pos' = [ret_pos EXCEPT ![t] = p]
        /\ next' = [next EXCEPT ![t] = NextOf(normal_next[t][p])]
        /\ Goto(t, "finish")
        /\ UNCHANGED <<primVars, innerVars, tableVars, run, cleanup, crt_idx,
                       scav_table_lock, first_join>>

\* Mutant of CrtIdxAt: the list of the first thread, whoever calls.
CrtIdxAtFirst(t, p) == idx_list[0][p]

\* tl_get_crt_idx_at
CrtIdxAt(t, p) == idx_list[t][p]

\* tl_finish_crt on a slot without scavenger, taken for the primary, then
\* tl_update_next_map.
FinishPrimary(t) ==
    LET links == [normal_next[t] EXCEPT ![ret_pos[t]] = FIN]
    IN  /\ pc[t] = "finish"
        /\ CrtIdxAt(t, ret_pos[t]) = EMPTY
        /\ \E new \in UpdateNextMap(links) :
              normal_next' = [normal_next EXCEPT ![t] = new]
        /\ Goto(t, "pack")
        /\ UNCHANGED <<innerVars, outerVars, tableVars, slotVars, flagVars,
                       special_next, scav_table_lock>>

\* tl_finish_crt on a scavenger: crt_idx is read, and the slot marked, before
\* the lock is taken.
FinishScav(t) ==
    /\ pc[t] = "finish"
    /\ CrtIdxAt(t, ret_pos[t]) # EMPTY
    /\ crt_idx' = [crt_idx EXCEPT ![t] = CrtIdxAt(t, ret_pos[t])]
    /\ normal_next' = [normal_next EXCEPT ![t][ret_pos[t]] = FIN]
    /\ Goto(t, "close")
    /\ UNCHANGED <<innerVars, progVars, ret_pos, next, tableVars, slotVars,
                   flagVars, special_next, scav_table_lock>>

FinishLock(t) ==
    /\ pc[t] = "close"
    /\ SpinLock(t)
    /\ Goto(t, "retire")
    /\ UNCHANGED <<primVars, innerVars, outerVars, tableVars>>

\* The rest of tl_finish_crt, then tl_update_next_map.
RetireScav(t) ==
    /\ pc[t] = "retire"
    /\ idx_list' = [idx_list EXCEPT ![t][ret_pos[t]] = EMPTY]
    /\ yc' = [yc EXCEPT ![crt_idx[t]] = NULL]
    /\ finished' = [finished EXCEPT ![crt_idx[t]] = TRUE]
    /\ SpinUnlock
    /\ \E links \in UpdateNextMap(normal_next[t]) :
          normal_next' = [normal_next EXCEPT ![t] = links]
    /\ Goto(t, "pack")
    /\ UNCHANGED <<innerVars, outerVars, flagVars, special_next, saved,
                   scav_num, inited, crt_pos>>

\* tl_pack_crts: the lowest free slot with a scavenger behind it, and the
\* first such scavenger.
IsSwapPair(list, a, b) ==
    /\ IsFirstFree(list, a)
    /\ b \in Positions
    /\ a < b
    /\ Occupied(list, b)
    /\ \A q \in Positions : a < q /\ q < b => ~Occupied(list, q)

\* f with its values at a and b exchanged.
Swap(f, a, b) == [f EXCEPT ![a] = f[b], ![b] = f[a]]

\* tl_swap_crts compares the links, which are byte offsets, with the slots.
RenameLinks(links, a, b) ==
    [p \in Slots |-> IF links[p] = a THEN b
                     ELSE IF links[p] = b THEN a
                     ELSE links[p]]

PackLock(t) ==
    /\ pc[t] = "pack"
    /\ normal_next[t][0] # FIN
    /\ \E a, b \in Positions : IsSwapPair(idx_list[t], a, b)
    /\ SpinLock(t)
    /\ Goto(t, "swap")
    /\ UNCHANGED <<primVars, innerVars, outerVars, tableVars>>

\* tl_swap_crts(a, b) with a free and b occupied.  It also stores to
\* SCAV_TABLE[-1].yc, memory outside this model, and gives crt_pos the slot,
\* not its byte offset.
SwapCrts(t) ==
    /\ pc[t] = "swap"
    /\ \E a, b \in Positions :
          LET s == idx_list[t][b]
          IN  /\ IsSwapPair(idx_list[t], a, b)
              /\ idx_list' = [idx_list EXCEPT ![t] = Swap(@, a, b)]
              /\ saved' = [saved EXCEPT ![t] = Swap(@, a, b)]
              /\ special_next' = [special_next EXCEPT ![t] = Swap(@, a, b)]
              /\ normal_next' = [normal_next EXCEPT
                                    ![t] = RenameLinks(Swap(@, a, b), a, b)]
              /\ yc' = [yc EXCEPT ![s] = <<t, a>>]
              /\ crt_pos' = [crt_pos EXCEPT ![LibOf[s]] = a]
    /\ SpinUnlock
    /\ Goto(t, "pack")
    /\ UNCHANGED <<innerVars, outerVars, flagVars, scav_num, finished,
                   inited>>

\* tl_pack_crts ends with set_special_next; the primary is not finished, so
\* allocate_scav follows.
PackEnd(t) ==
    /\ pc[t] = "pack"
    /\ normal_next[t][0] # FIN
    /\ ~\E a, b \in Positions : IsSwapPair(idx_list[t], a, b)
    /\ special_next' = [special_next EXCEPT
                           ![t] = SetSpecialNext(idx_list[t], scav_num[t], @)]
    /\ cont' = [cont EXCEPT ![t] = "sched"]
    /\ Goto(t, "alloc")
    /\ UNCHANGED <<outerVars, allocVars, tableVars, slotVars, flagVars,
                   normal_next, scav_table_lock>>

\* tl_pack_crts and allocate_scav are skipped when the primary is finished.
PackSkip(t) ==
    /\ pc[t] = "pack"
    /\ normal_next[t][0] = FIN
    /\ Goto(t, "dispatch")
    /\ UNCHANGED <<primVars, innerVars, outerVars, tableVars,
                   scav_table_lock>>

\* The primary is not finished: run the slot the returned one was linked to.
DispatchNext(t) ==
    /\ pc[t] = "dispatch"
    /\ normal_next[t][0] # FIN
    /\ DropSchedLocals(t)
    /\ Jump(t, IF next[t] \in Slots THEN saved[t][next[t]] ELSE ZERO)
    /\ UNCHANGED <<primVars, innerVars, tableVars, cleanup, ended,
                   scav_table_lock, first_join>>

\* The primary is finished: run a remaining scavenger, or longjmp back into
\* msh_cleanup, whose jump buffer is valid only while it is active.
DispatchCleanup(t) ==
    /\ pc[t] = "dispatch"
    /\ normal_next[t][0] = FIN
    /\ DropSchedLocals(t)
    /\ \E p \in Slots :
          /\ IsUnfinishedCrt(idx_list[t], p)
          /\ IF p # 0
             THEN Jump(t, saved[t][p])
             ELSE /\ run' = [run EXCEPT ![t] = PRIM]
                  /\ Goto(t, IF cleanup[t] = "no" THEN "wild" ELSE "cleanup")
    /\ UNCHANGED <<primVars, innerVars, tableVars, cleanup, ended,
                   scav_table_lock, first_join>>

-----------------------------------------------------------------------------
(* msh_cleanup, called by the first pthread_join of the process and by     *)
(* msh_start_routine when the start routine returns.                       *)

\* Mutant of SelfLinks: the links are left as they are.
SelfLinksNot(links, normal) == links

\* Every slot that is not finished is linked to itself.
SelfLinks(links, normal) ==
    [p \in Slots |-> IF p # 0 /\ normal[p] # FIN THEN YC * p ELSE links[p]]

BeginCleanup(t, caller) ==
    /\ normal_next' = [normal_next EXCEPT ![t] = SelfLinks(@, normal_next[t])]
    /\ special_next' =
          [special_next EXCEPT ![t] = SelfLinks(@, normal_next[t])]
    /\ cleanup' = [cleanup EXCEPT ![t] = caller]
    /\ Goto(t, "cleanup")

\* pthread_join: whichever primary gets here first.
PthreadJoin(t) ==
    /\ RunsPrimary(t)
    /\ ~SKIP_FIRST_THREAD
    /\ first_join
    /\ first_join' = FALSE
    /\ IF SKIP_CLEANUP
       THEN UNCHANGED <<pc, cleanup, linkVars>>
       ELSE BeginCleanup(t, "join")
    /\ UNCHANGED <<innerVars, tableVars, slotVars, flagVars, schedVars, run,
                   ended, scav_table_lock>>

\* The start routine of a created thread returns.
StartRoutineReturns(t) ==
    /\ RunsPrimary(t)
    /\ SKIP_FIRST_THREAD \/ t # 0
    /\ IF SKIP_CLEANUP
       THEN /\ Goto(t, "done")
            /\ UNCHANGED <<linkVars, cleanup>>
       ELSE BeginCleanup(t, "exit")
    /\ UNCHANGED <<innerVars, tableVars, slotVars, flagVars, schedVars, run,
                   ended, scav_table_lock, first_join>>

\* The setjmp point of msh_cleanup: tl_sched_next_crt(0) while a scavenger is
\* left, else the primary's link is reset and the call returns.
CleanupLoop(t) ==
    /\ pc[t] = "cleanup"
    /\ IF HasOccupied(idx_list[t])
       THEN /\ ret_pos' = [ret_pos EXCEPT ![t] = 0]
            /\ next' = [next EXCEPT ![t] = NextOf(normal_next[t][0])]
            /\ Goto(t, "finish")
            /\ UNCHANGED <<cleanup, normal_next, crt_idx>>
       ELSE /\ normal_next' = [normal_next EXCEPT ![t][0] = 0]
            /\ cleanup' = [cleanup EXCEPT ![t] = "no"]
            /\ Goto(t, IF cleanup[t] = "exit" THEN "done" ELSE "app")
            /\ UNCHANGED schedVars
    /\ UNCHANGED <<innerVars, tableVars, slotVars, flagVars, run,
                   special_next, ended, scav_table_lock, first_join>>

-----------------------------------------------------------------------------

Runtime(t) ==
    \/ MshAllocCtx(t) \/ AllocateScav(t) \/ AllocLock(t)
    \/ ScanSkip(t) \/ ScanCapture(t) \/ ScanEnd(t)
    \/ StealPop(t) \/ StealPush(t) \/ StealRollback(t) \/ StealEnd(t)
    \/ ReleaseVictim(t)
    \/ PoolPick(t) \/ PoolTake(t) \/ PoolEnd(t)
    \/ AllocUnlock(t) \/ CallInit(t) \/ CallInitLost(t)
    \/ ResumeStart(t) \/ ResumeSched(t) \/ ResumeExit(t)
    \/ ExitBlockableCall(t)
    \/ FinishPrimary(t) \/ FinishScav(t) \/ FinishLock(t) \/ RetireScav(t)
    \/ PackLock(t) \/ SwapCrts(t) \/ PackEnd(t) \/ PackSkip(t)
    \/ DispatchNext(t) \/ DispatchCleanup(t)
    \/ CleanupLoop(t)

Program(t) ==
    \/ PrimaryYield(t) \/ ScavYield(t) \/ ScavReturn(t)
    \/ EnterBlockableCall(t) \/ Unblock(t)
    \/ PthreadJoin(t) \/ StartRoutineReturns(t)

\* Every thread has ended, or is lost to the model.
Terminated ==
    /\ \A t \in Threads : pc[t] \in {"done", "wild"}
    /\ UNCHANGED vars

Next == (\E t \in Threads : Runtime(t) \/ Program(t)) \/ Terminated

Spec == Init /\ [][Next]_vars

=============================================================================
