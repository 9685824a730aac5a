--------------------------- MODULE MshProperties ---------------------------
(***************************************************************************)
(* What the runtime modelled in Msh guarantees, and what its comments say  *)
(* but its code does not keep.                                             *)
(***************************************************************************)
EXTENDS Msh

-----------------------------------------------------------------------------
(* Safety.                                                                 *)

Labels == {"new", "alloc", "lock", "scan", "steal", "push", "release", "pool",
           "take", "unlock", "init", "resume", "app", "blocked", "exit",
           "finish", "close", "retire", "pack", "swap", "dispatch",
           "cleanup", "done", "wild"}

Offsets == 0 .. YC * (MAX_CRT_PER_THREAD + 1)

\* Every link stays a finished mark or an offset of at most one slot past the
\* context, every list entry an index of SCAV_TABLE or EMPTY, every local in
\* the range its loop gives it.
TypeOK ==
    /\ pc \in [Threads -> Labels]
    /\ run \in [Threads -> Scavs \cup {PRIM}]
    /\ cont \in [Threads -> {"none", "start", "sched", "exit"}]
    /\ cleanup \in [Threads -> {"no", "join", "exit"}]
    /\ demands \in [Threads -> Nat]
    /\ got \in [Threads -> Nat]
    /\ cnt \in [Threads -> Nat]
    /\ tid \in [Threads -> 0 .. MAX_THREAD_NUM]
    /\ item \in [Threads -> Scavs \cup {EMPTY}]
    /\ from_pos \in [Threads -> Slots]
    /\ ret_pos \in [Threads -> Slots]
    /\ next \in [Threads -> Int]
    /\ crt_idx \in [Threads -> Scavs \cup {EMPTY}]
    /\ idx_list \in [Threads -> [Slots -> Scavs \cup {EMPTY}]]
    /\ normal_next \in [Threads -> [Slots -> Offsets \cup {FIN}]]
    /\ special_next \in [Threads -> [Slots -> Offsets]]
    /\ saved \in [Threads -> [Slots -> Scavs \cup {PRIM, ZERO}]]
    /\ scav_num \in [Threads -> Nat]
    /\ reallocatable \in [Threads -> BOOLEAN]
    /\ reallocated \in [Threads -> BOOLEAN]
    /\ yc \in [Scavs -> (Threads \X Positions) \cup {NULL}]
    /\ finished \in [Scavs -> BOOLEAN]
    /\ inited \in [Scavs -> BOOLEAN]
    /\ crt_pos \in [Libs -> 0 .. YC * MAX_CRT_PER_THREAD]
    /\ ended \subseteq Scavs
    /\ scav_table_lock \in Threads \cup {FREE}
    /\ first_join \in BOOLEAN

\* A scavenger is hosted by at most one primary, in one slot ("a scavenger is
\* assinged uniquely to this primary", call_init_for_new_scav): pool, steal,
\* rollback and swap never duplicate an index, and a finished entry is never
\* hosted again.
UniqueHost ==
    /\ \A t, u \in Threads : \A p, q \in Slots :
          /\ idx_list[t][p] # EMPTY
          /\ idx_list[t][p] = idx_list[u][q]
          => t = u /\ p = q
    /\ \A t \in Threads : \A p \in Slots :
          idx_list[t][p] # EMPTY => ~finished[idx_list[t][p]]

\* "The access must be protected by reallocatable flag" (_allocate_scav): a
\* thief that works on another thread's context holds scav_table_lock, and
\* its victim is parked with the flag taken, so it cannot run or leave.
ThiefExclusive ==
    \A t \in Threads : pc[t] \in {"steal", "push", "release"} =>
        /\ scav_table_lock = t
        /\ tid[t] \in Threads \ {t}
        /\ pc[tid[t]] \in {"blocked", "exit"}
        /\ ~reallocatable[tid[t]]

\* The strengthening from which UniqueHost and ThiefExclusive follow.

\* Labels between spin_lock and spin_unlock on scav_table_lock.
Critical == {"scan", "steal", "push", "release", "pool", "take", "unlock",
             "retire", "swap"}

\* A critical section is entered by the holder of the lock only.
LockHeld == \A t \in Threads : pc[t] \in Critical => scav_table_lock = t

\* The flag of a thread is up only while the thread is parked.
FlagParked ==
    \A t \in Threads : reallocatable[t] => pc[t] \in {"blocked", "exit"}

\* SCAV_TABLE agrees with the lists: a listed scavenger is not finished, and
\* its yc points into the context of the thread that lists it.
ListedHosted ==
    \A t \in Threads : \A p \in Slots :
        idx_list[t][p] # EMPTY =>
            /\ ~finished[idx_list[t][p]]
            /\ yc[idx_list[t][p]] # NULL
            /\ yc[idx_list[t][p]][1] = t

\* No index is listed twice.
ListedOnce ==
    \A t, u \in Threads : \A p, q \in Slots :
        idx_list[t][p] # EMPTY /\ idx_list[t][p] = idx_list[u][q]
            => t = u /\ p = q

\* A popped scavenger is in no list and its yc still points to the victim.
PoppedUnlisted ==
    \A t \in Threads : pc[t] = "push" =>
        /\ item[t] \in Scavs
        /\ ~finished[item[t]]
        /\ yc[item[t]] # NULL
        /\ yc[item[t]][1] = tid[t]
        /\ \A u \in Threads : \A p \in Slots : idx_list[u][p] # item[t]

\* A scavenger picked from the pool is still there when it is taken.
PickedInPool ==
    \A t \in Threads : pc[t] = "take" => item[t] \in Scavs /\ InPool(item[t])

\* tl_finish_crt retires what it read before it took the lock: the slot still
\* lists that scavenger, although the test was made outside.
RetiresListed ==
    \A t \in Threads : pc[t] \in {"close", "retire"} =>
        /\ crt_idx[t] \in Scavs
        /\ idx_list[t][ret_pos[t]] = crt_idx[t]

\* The inductive invariant of the sharing protocol: lock, flag and lists.
SharingInv ==
    /\ LockHeld
    /\ FlagParked
    /\ ThiefExclusive
    /\ ListedHosted
    /\ ListedOnce
    /\ PoppedUnlisted
    /\ PickedInPool
    /\ RetiresListed

\* While the primary runs and is not marked finished, its yield finds a live
\* context: itself, or the scavenger hosted in the linked slot.  In particular
\* the slow path of msh_exit_blockable_call has removed links to stolen slots.
PrimaryLinkLive ==
    \A t \in Threads : RunsPrimary(t) /\ normal_next[t][0] # FIN =>
        \/ normal_next[t][0] = 0
        \/ \E p \in Positions : /\ normal_next[t][0] = YC * p
                                /\ Occupied(idx_list[t], p)
                                /\ saved[t][p] = idx_list[t][p]

\* A scavenger's code is executed only by the thread that hosts it, so never
\* by two at once, and only after call_init_for_new_scav has initialised it.
RunsHosted ==
    \A t \in Threads : RunsScav(t) =>
        /\ \E p \in Positions : /\ idx_list[t][p] = run[t]
                                /\ yc[run[t]] = <<t, p>>
        /\ run[t] \in HasInit => inited[run[t]]

\* With the default cap of one scavenger: the context saved in a hosting slot,
\* and the yc pointer of SCAV_TABLE, are those of the scavenger listed there,
\* and its link is live until tl_finish_crt marks it.  A theft moves list
\* entry, context, link and pointer in separate stores.
SlotHoldsOwner ==
    \A t \in Threads : \A p \in Positions :
        Occupied(idx_list[t], p) =>
            /\ saved[t][p] = idx_list[t][p]
            /\ yc[idx_list[t][p]] = <<t, p>>
            /\ \/ normal_next[t][p] # FIN
               \/ pc[t] \in {"close", "retire"} /\ ret_pos[t] = p

\* No scavenger is lost: outside the critical sections, whoever's context the
\* yc pointer of SCAV_TABLE leads to lists the scavenger, so that a thief or
\* msh_cleanup of that thread finds it.  In particular a theft that fails half
\* way gives the scavenger back to its victim.
NotLost ==
    scav_table_lock = FREE =>
        \A s \in Scavs : yc[s] # NULL =>
            \E p \in Positions : idx_list[yc[s][1]][p] = s

\* With the default cap: tl_finish_crt retires the scavenger that returned,
\* never another one, also after thefts and when the test it made before
\* locking is old.
FinishedReturned == \A s \in Scavs : finished[s] => s \in ended

\* Without blocking calls and with the default cap of one scavenger, no jump
\* of a yield or of the scheduler ever misses: the links, the saved contexts
\* and the jump buffer of msh_cleanup are always those of a live coroutine.
NeverWild == \A t \in Threads : pc[t] # "wild"

\* A scavenger is not moved or retired by another thread while its code runs.
PinnedWhileRunning ==
    [][\A t \in Threads :
          RunsScav(t) /\ pc'[t] = "app" /\ run'[t] = run[t] =>
              yc'[run[t]] = yc[run[t]]]_vars

\* The runtime implements ScavHosting: yc and finished tell where a scavenger
\* is, and a thread is parked from msh_enter_blockable_call to the CAS that
\* ends msh_exit_blockable_call.
HostOf(s) == IF finished[s] THEN -2 ELSE IF yc[s] = NULL THEN -1 ELSE yc[s][1]

Parked == {t \in Threads : pc[t] \in {"blocked", "exit"}}

Hosting == INSTANCE ScavHosting
              WITH host <- [s \in Scavs |-> HostOf(s)], parked <- Parked

HostingSpec == Hosting!Spec

-----------------------------------------------------------------------------
(* Statements of the source's comments that the code does not keep.        *)

\* "keeps the link made through special_next to be a ring" (set_special_next):
\* from every hosting slot of a thread that runs a scavenger, special_next
\* leads to the primary or to a hosting slot.
RingClosed ==
    \A t \in Threads : RunsScav(t) =>
        \A p \in Positions : Occupied(idx_list[t], p) =>
            \/ special_next[t][p] = 0
            \/ \E q \in Positions : /\ special_next[t][p] = YC * q
                                    /\ Occupied(idx_list[t], q)

\* "This static cap version" (need_more_scav): no thread hosts more than
\* max_scav_per_thread scavengers.
WithinCap ==
    \A t \in Threads :
        Cardinality({p \in Positions : Occupied(idx_list[t], p)}) <= MAX_SCAV

\* "primary is finished / we are running cleanup routine" (tl_sched_next_crt):
\* the scheduler finds the primary marked finished only inside msh_cleanup.
FinishedOnlyInCleanup ==
    \A t \in Threads :
        pc[t] = "dispatch" /\ normal_next[t][0] = FIN => cleanup[t] # "no"

\* "no more space, rollback and return" (realloc_scav): a theft that stops with
\* scavengers left to take has put the last one back where it popped it.
RollbackRestores ==
    \A t \in Threads :
        /\ pc[t] = "release"
        /\ cnt[t] < demands[t]
        /\ HasOccupied(idx_list[tid[t]])
        => Occupied(idx_list[tid[t]], from_pos[t])

-----------------------------------------------------------------------------
(* Liveness.  The kernel schedules every thread, so a runtime call that    *)
(* can go on does; a scavenger is a finite program, so one that is never   *)
(* switched out returns.  Nothing is assumed of the primary.               *)

Fairness ==
    \A t \in Threads : WF_vars(Runtime(t)) /\ WF_vars(ScavReturn(t))

FairSpec == Spec /\ Fairness

\* No runtime call waits forever, neither for scav_table_lock nor for a thief
\* to give the reallocatable flag back.
CallReturns ==
    \A t \in Threads :
        pc[t] \notin {"app", "blocked", "done", "wild"}
            ~> pc[t] \in {"app", "blocked", "done", "wild"}

\* msh_cleanup runs the scavengers of its thread to completion.
CleanupRetires ==
    \A t \in Threads, s \in Scavs :
        (cleanup[t] # "no" /\ HostOf(s) = t) ~> finished[s]

=============================================================================
