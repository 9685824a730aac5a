--------------------------- MODULE MshDefaultCap ---------------------------
(***************************************************************************)
(* Msh with the cap on scavengers per thread that msh.c starts with:       *)
(* max_scav_per_thread = 1 (or 0, from the environment).  For every number *)
(* of threads, slots, pool entries and shared objects, with thefts, each   *)
(* scavenger lives in slot 1 of its thread; then links, saved contexts and *)
(* SCAV_TABLE agree, although crt_pos of a stolen scavenger is wrong.  If  *)
(* there are no blocking calls either, no jump ever misses.                *)
(***************************************************************************)
EXTENDS MshSharing

-----------------------------------------------------------------------------
(* The invariant.                                                          *)

\* The slot of the one scavenger is 1.
Free(t) == idx_list[t][1] = EMPTY

\* Nothing is hosted, linked or saved behind slot 1, and slot 0 is the
\* primary's.
OnlyFirst(t) ==
    /\ \A p \in Slots \ {1} : idx_list[t][p] = EMPTY
    /\ \A p \in Slots \ {0, 1} : normal_next[t][p] = FIN /\ saved[t][p] = ZERO
    /\ saved[t][0] \in {PRIM, ZERO}

\* allocate_scav asks for one scavenger, when it has none, and stops when it
\* has got one.
Demand(t) ==
    /\ pc[t] \in {"lock", "scan", "pool", "take", "push"} =>
          Free(t) /\ demands[t] = 1 /\ got[t] = 0
    /\ pc[t] = "push" => cnt[t] = 0 /\ from_pos[t] = 1
    /\ pc[t] \in {"steal", "release"} =>
          /\ demands[t] = 1 /\ got[t] = 0
          /\ cnt[t] \in {0, 1} /\ (cnt[t] = 0 <=> Free(t))
    /\ pc[t] \in {"unlock", "init", "resume"} => (got[t] > 0 => ~Free(t))

AllocLabels == {"alloc", "lock", "scan", "steal", "push", "release", "pool",
                "take", "unlock", "init", "resume"}
SchedLabels == {"finish", "close", "retire", "pack", "dispatch"}

\* allocate_scav has a caller, msh_cleanup allocates nothing, and nothing is
\* packed.
Calls(t) ==
    /\ pc[t] # "swap"
    /\ pc[t] # "wild" =>
          (pc[t] \in AllocLabels <=> cont[t] # "none" /\ pc[t] # "new")
    /\ pc[t] = "new" => cont[t] = "start"
    /\ \/ pc[t] \in {"new", "blocked", "exit", "cleanup"}
       \/ cont[t] \in {"start", "exit"}
       => run[t] = PRIM
    /\ cleanup[t] # "no" =>
          \/ pc[t] \in SchedLabels \cup {"cleanup", "wild"}
          \/ RunsScav(t)

\* Inside the scheduler.
InSched(t) == pc[t] \in SchedLabels \/ cont[t] = "sched"

\* The primary is finished once msh_cleanup runs scavengers, and otherwise
\* the scheduler goes on with slot 0.
SchedNext(t) ==
    /\ cleanup[t] # "no" =>
          \/ pc[t] = "cleanup"
          \/ pc[t] = "finish" /\ ret_pos[t] = 0
          \/ normal_next[t][0] = FIN
    /\ InSched(t) => ret_pos[t] \in {0, 1}
    /\ cont[t] = "sched" => next[t] = 0
    /\ pc[t] \in SchedLabels => \/ next[t] = 0
                                \/ normal_next[t][0] = FIN
                                \/ pc[t] = "finish" /\ ret_pos[t] = 0

\* The scavenger that returned is in the slot it is retired from.
Returned(t) ==
    /\ pc[t] \in {"finish", "close", "retire"} /\ ret_pos[t] = 1 =>
          ~Free(t) /\ idx_list[t][1] \in ended
    /\ pc[t] \in {"close", "retire"} => ret_pos[t] = 1

\* The context, the link and the ring of the hosted scavenger.
Holds(t) ==
    ~Free(t) =>
        /\ saved[t][1] = idx_list[t][1]
        /\ normal_next[t][1] = IF pc[t] \in {"close", "retire"} THEN FIN
                               ELSE IF cleanup[t] = "no" THEN 0 ELSE YC

RingBack(t) ==
    MAX_CRT_PER_THREAD > 1 /\ ~Free(t) /\ cleanup[t] = "no" =>
        \/ special_next[t][1] = 0
        \/ pc[t] \in {"steal", "release", "unlock", "init", "wild"}

Initialised(t) ==
    ~Free(t) /\ idx_list[t][1] \in HasInit =>
        inited[idx_list[t][1]] \/ pc[t] \in {"unlock", "init", "wild"}

RunsFirst(t) == RunsScav(t) => run[t] = idx_list[t][1]

\* The links that a theft leaves are those of an empty slot, or the thread
\* has been told to recompute them.
Robbed(t) ==
    Free(t) => /\ normal_next[t][1] = FIN
               /\ normal_next[t][0] = YC => reallocated[t]

\* Nobody is working on the thread's context.
Settled(t) == pc[t] \in {"blocked", "exit"} => reallocatable[t]

Links(t) ==
    /\ normal_next[t][0] \in {0, YC, FIN}
    /\ Settled(t) => Robbed(t)
    /\ reallocated[t] => pc[t] \in {"blocked", "exit"} \/ cont[t] = "exit"

\* What a thief has left of its victim.
Robs(t) ==
    /\ pc[t] \in {"steal", "release"} => Robbed(tid[t])
    /\ pc[t] = "push" =>
          /\ saved[tid[t]][1] = item[t]
          /\ item[t] \in HasInit => inited[item[t]]

\* The list of a thread agrees with SCAV_TABLE, but for one on its way.
Placed ==
    \A s \in Scavs : yc[s] # NULL =>
        /\ yc[s][2] = 1
        /\ \/ idx_list[yc[s][1]][1] = s
           \/ \E t \in Threads : pc[t] = "push" /\ item[t] = s

\* A hosted scavenger returns slot 1 or, if it was stolen, slot 0.
Symbols == \A s \in Scavs : yc[s] # NULL => crt_pos[LibOf[s]] \in {1, YC}

Local(t) ==
    /\ OnlyFirst(t) /\ Demand(t) /\ Calls(t) /\ SchedNext(t) /\ Returned(t)
    /\ Holds(t) /\ RingBack(t) /\ Initialised(t) /\ RunsFirst(t) /\ Links(t)

CapInv ==
    /\ \A t \in Threads : Local(t)
    /\ \A t \in Threads : Robs(t)
    /\ Placed
    /\ Symbols
    /\ FinishedReturned

\* Without blocking calls nothing is stolen, so a scavenger that returned is
\* retired, and only msh_cleanup marks the primary finished.
Calm(t) ==
    /\ pc[t] \notin {"blocked", "exit", "steal", "push", "release", "wild"}
    /\ ~Free(t) /\ idx_list[t][1] \in ended =>
          pc[t] \in {"finish", "close", "retire"} /\ ret_pos[t] = 1
    /\ normal_next[t][0] = FIN => cleanup[t] # "no" \/ cont[t] = "start"
    /\ cleanup[t] # "no" /\ ~Free(t) => special_next[t][1] = YC
    /\ cleanup[t] = "no" =>
          /\ run[t] \in Scavs => saved[t][0] = PRIM
          /\ InSched(t) => run[t] \in Scavs
          /\ pc[t] = "finish" => ret_pos[t] = 1
          /\ pc[t] # "cleanup"

CalmTable ==
    /\ \A s \in Scavs : yc[s] # NULL => crt_pos[LibOf[s]] = YC
    /\ \A s \in ended : finished[s] \/ yc[s] # NULL

CalmInv == (\A t \in Threads : Calm(t)) /\ CalmTable


-----------------------------------------------------------------------------
(* What the helpers return when only slot 1 is used.                       *)

\* Slot 1 exists.
LEMMA FirstSlot ==
    /\ 1 \in Slots /\ 0 \in Slots /\ 1 \in Positions
    /\ \A p \in Positions : p \in Slots \ {0}
    /\ \A p \in Slots : p # 0 => p \in Positions
    /\ EMPTY \notin Scavs /\ PRIM \notin Scavs /\ ZERO \notin Scavs
    /\ FREE \notin Threads /\ PRIM # ZERO
    /\ YC # 0 /\ YC # FIN /\ FIN # 0 /\ 1 # YC
  BY ConstantsAssumption
     DEF Slots, Positions, Scavs, Threads, EMPTY, PRIM, ZERO, FREE, YC, FIN

\* push_back_to_list finds slot 1, pop_back_from_list too.
LEMMA FirstIsSlot ==
    ASSUME NEW list, \A p \in Slots \ {1} : list[p] = EMPTY,
           NEW p \in Positions
    PROVE  /\ IsFirstFree(list, p) /\ list[1] = EMPTY => p = 1
           /\ IsLastOccupied(list, p) => p = 1 /\ list[1] # EMPTY
           /\ HasFree(list) \/ list[1] # EMPTY
           /\ HasOccupied(list) <=> list[1] # EMPTY
           /\ ~\E a, b \in Positions : IsSwapPair(list, a, b)
<1>1. Positions = 1 .. MAX_CRT_PER_THREAD /\ 1 \in Positions
  BY FirstSlot DEF Positions
<1>2. \A q \in Positions \ {1} : list[q] = EMPTY /\ q > 1
  BY <1>1, FirstSlot, ConstantsAssumption
<1>3. IsFirstFree(list, p) /\ list[1] = EMPTY => p = 1
  BY <1>1, <1>2 DEF IsFirstFree, Occupied
<1>4. IsLastOccupied(list, p) => p = 1 /\ list[1] # EMPTY
  BY <1>2 DEF IsLastOccupied, Occupied
<1>5. /\ HasFree(list) \/ list[1] # EMPTY
      /\ HasOccupied(list) <=> list[1] # EMPTY
  BY <1>1, <1>2 DEF HasFree, HasOccupied, Occupied
<1>6. ~\E a, b \in Positions : IsSwapPair(list, a, b)
  BY <1>1, <1>2, ConstantsAssumption DEF IsSwapPair, Occupied
<1> QED
  BY <1>3, <1>4, <1>5, <1>6

\* need_more_scav asks for one scavenger, and only for an empty slot.
LEMMA NeedsOne ==
    ASSUME MAX_SCAV <= 1, NEW list
    PROVE  /\ NeedMoreScav(list) \in {0, 1}
           /\ NeedMoreScav(list) = 1 => list[1] = EMPTY
<1> DEFINE S == {p \in Positions : Occupied(list, p)}
<1>1. IsFiniteSet(S)
  <2>1. IsFiniteSet(Positions)
    BY FS_Interval, ConstantsAssumption DEF Positions
  <2> QED
    BY <2>1, FS_Subset
<1>2. Cardinality(S) \in Nat
  BY <1>1, FS_CardinalityType
<1>3. Cardinality(S) = 0 => S = {}
  BY <1>1, FS_EmptySet
<1>4. list[1] # EMPTY => S # {}
  BY FirstSlot DEF Occupied
<1>5. MAX_SCAV \in {0, 1}
  BY ConstantsAssumption
<1> HIDE DEF S
<1>6. NeedMoreScav(list) =
        IF Cardinality(S) < MAX_SCAV THEN MAX_SCAV - Cardinality(S) ELSE 0
  BY DEF NeedMoreScav, S
<1> QED
  BY <1>2, <1>3, <1>4, <1>5, <1>6

\* tl_update_next_map links the primary to slot 1 or to itself.
LEMMA UpdatesLink ==
    ASSUME NEW links \in LinkMaps, NEW new \in UpdateNextMap(links),
           \A p \in Slots \ {0, 1} : links[p] = FIN
    PROVE  /\ new \in LinkMaps
           /\ \A p \in Slots \ {0} : new[p] = links[p]
           /\ new[0] = IF links[0] = FIN THEN FIN
                       ELSE IF links[1] = FIN THEN 0 ELSE YC
<1>0. new \in LinkMaps
  BY UpdateNextMapType
<1>1. CASE links[0] = FIN
  BY <1>0, <1>1 DEF UpdateNextMap
<1>2. CASE links[0] # FIN
  <2>1. PICK q \in Slots : /\ IsNextAvailableCrt(links, q)
                           /\ new = [links EXCEPT ![0] = YC * q]
    BY <1>2 DEF UpdateNextMap
  <2>2. q = IF links[1] = FIN THEN 0 ELSE 1
    <3>1. Positions = 1 .. MAX_CRT_PER_THREAD
      BY DEF Positions
    <3> QED
      BY <2>1, <3>1, FirstSlot, ConstantsAssumption DEF IsNextAvailableCrt
  <2>3. YC * q = IF links[1] = FIN THEN 0 ELSE YC
    BY <2>2 DEF YC
  <2> QED
    BY <1>0, <1>2, <2>1, <2>3, FirstSlot DEF LinkMaps
<1> QED
  BY <1>1, <1>2

\* set_special_next closes the ring after slot 1.
LEMMA RingOfOne ==
    ASSUME NEW list, \A p \in Slots \ {1} : list[p] = EMPTY, NEW num, NEW links
    PROVE  MAX_CRT_PER_THREAD > 1 => SetSpecialNext(list, num, links)[1] = 0
<1>1. MAX_CRT_PER_THREAD > 1 => 2 \in Slots
  BY ConstantsAssumption DEF Slots
<1> QED
  BY <1>1, FirstSlot DEF SetSpecialNext, IdxAfter

\* msh_cleanup links slot 1 to itself.
LEMMA SelfLinksFirst ==
    ASSUME NEW links, NEW normal, \A p \in Slots \ {0, 1} : normal[p] = FIN
    PROVE  /\ \A p \in Slots \ {1} : SelfLinks(links, normal)[p] = links[p]
           /\ SelfLinks(links, normal)[1] = IF normal[1] = FIN THEN links[1]
                                            ELSE YC
<1>1. YC * 1 = YC
  BY DEF YC
<1> QED
  BY <1>1, FirstSlot DEF SelfLinks

\* Where a jump through a link lands.
LEMMA Lands ==
    ASSUME NEW ctxs, \A p \in Slots \ {0, 1} : ctxs[p] = ZERO, NEW off
    PROVE  /\ AtOffset(ctxs, off) \in {ctxs[0], ctxs[1], ZERO}
           /\ off = 0 => AtOffset(ctxs, off) = ctxs[0]
           /\ off = YC => AtOffset(ctxs, off) = ctxs[1]
           /\ off = FIN => AtOffset(ctxs, off) = ZERO
<1>1. \A q \in Slots : q \in Nat
  BY ConstantsAssumption DEF Slots
<1>2. CASE \E q \in Slots : off = YC * q
  <2>1. PICK q \in Slots : off = YC * q
    BY <1>2
  <2>2. off \div YC = q
    BY <1>1, <2>1 DEF YC
  <2>3. AtOffset(ctxs, off) = ctxs[q]
    BY <2>1, <2>2 DEF AtOffset
  <2>4. /\ off = 0 => q = 0
        /\ off = YC => q = 1
        /\ off # FIN
    BY <1>1, <2>1 DEF YC, FIN
  <2> QED
    BY <2>3, <2>4
<1>3. CASE ~\E q \in Slots : off = YC * q
  <2>1. off # 0 /\ off # YC
    <3>1. YC * 0 = 0 /\ YC * 1 = YC
      BY DEF YC
    <3> QED
      BY <1>3, <3>1, FirstSlot
  <2> QED
    BY <1>3, <2>1 DEF AtOffset
<1> QED
  BY <1>2, <1>3

\* The types of the variables, to cite in one name.
LEMMA Types ==
    ASSUME TypeOK
    PROVE  /\ pc \in [Threads -> Labels]
           /\ run \in [Threads -> Scavs \cup {PRIM}]
           /\ cont \in [Threads -> {"none", "start", "sched", "exit"}]
           /\ cleanup \in [Threads -> {"no", "join", "exit"}]
           /\ demands \in [Threads -> Nat]
           /\ got \in [Threads -> Nat]
           /\ cnt \in [Threads -> Nat]
           /\ tid \in [Threads -> 0 .. MAX_THREAD_NUM]
           /\ item \in [Threads -> Scavs \cup {EMPTY}]
           /\ from_pos \in [Threads -> Slots]
           /\ ret_pos \in [Threads -> Slots]
           /\ next \in [Threads -> Int]
           /\ crt_idx \in [Threads -> Scavs \cup {EMPTY}]
           /\ idx_list \in [Threads -> [Slots -> Scavs \cup {EMPTY}]]
           /\ normal_next \in [Threads -> [Slots -> Offsets \cup {FIN}]]
           /\ special_next \in [Threads -> [Slots -> Offsets]]
           /\ saved \in [Threads -> [Slots -> Scavs \cup {PRIM, ZERO}]]
           /\ reallocatable \in [Threads -> BOOLEAN]
           /\ reallocated \in [Threads -> BOOLEAN]
           /\ yc \in [Scavs -> (Threads \X Positions) \cup {NULL}]
           /\ finished \in [Scavs -> BOOLEAN]
           /\ inited \in [Scavs -> BOOLEAN]
           /\ crt_pos \in [Libs -> 0 .. YC * MAX_CRT_PER_THREAD]
           /\ LibOf \in [Scavs -> Libs]
           /\ ended \subseteq Scavs
  BY ConstantsAssumption DEF TypeOK

-----------------------------------------------------------------------------
(* One thread's step and its own context.                                  *)

\* The steps of allocation, up to the search for scavengers, keep the
\* invariant of the thread that takes them.
LEMMA OwnAlloc ==
    ASSUME MAX_SCAV <= 1, TypeOK, SharingInv, CapInv, NEW t \in Threads,
           \/ MshAllocCtx(t) \/ AllocateScav(t) \/ AllocLock(t) \/ ScanSkip(t)
           \/ ScanEnd(t) \/ PoolPick(t) \/ PoolTake(t) \/ PoolEnd(t)
           \/ AllocUnlock(t) \/ CallInit(t) \/ CallInitLost(t)
           \/ ResumeStart(t) \/ ResumeSched(t)
           \/ ResumeExit(t)
    PROVE  Local(t)'
<1>0. /\ \A u \in Threads : Local(u)
      /\ Local(t) /\ Robs(t) /\ Placed /\ Symbols
  BY DEF CapInv
<1> USE <1>0
<1>1. CASE MshAllocCtx(t)
  <2>1. /\ pc[t] = "new" /\ pc'[t] = "alloc"
        /\ UNCHANGED <<run, cont, cleanup, demands, got, cnt, from_pos,
                       ret_pos, next, idx_list, normal_next, special_next,
                       saved, reallocatable, reallocated, inited, ended>>
    BY Types, <1>1
       DEF MshAllocCtx, Goto, allocVars, innerVars, schedVars, progVars,
           outerVars, linkVars, slotVars, ctxVars, flagVars, primVars,
           tableVars
  <2>2. /\ OnlyFirst(t)'
        /\ Demand(t)'
        /\ Calls(t)'
        /\ SchedNext(t)'
        /\ Returned(t)'
    BY <2>1
       DEF Local, OnlyFirst, Demand, Calls, RunsScav, AllocLabels,
           SchedLabels, SchedNext, InSched, Returned
  <2>3. /\ Holds(t)'
        /\ RingBack(t)'
        /\ Initialised(t)'
        /\ RunsFirst(t)'
        /\ Links(t)'
    BY <2>1
       DEF Local, Holds, Free, RunsScav, RingBack, Initialised, RunsFirst,
           Links, Robbed, Settled
  <2> QED
    BY <2>2, <2>3 DEF Local
<1>2. CASE AllocateScav(t)
  <2>1. /\ pc[t] = "alloc"
        /\ pc'[t] = IF NeedMoreScav(idx_list[t]) = 0 THEN "resume" ELSE "lock"
        /\ demands'[t] = NeedMoreScav(idx_list[t]) /\ got'[t] = 0
        /\ UNCHANGED <<run, cont, cleanup, cnt, from_pos, ret_pos, next,
                       idx_list, normal_next, special_next, saved,
                       reallocatable, reallocated, inited, ended>>
    BY Types, <1>2
       DEF AllocateScav, Goto, schedVars, progVars, outerVars, linkVars,
           slotVars, ctxVars, flagVars, primVars, tableVars
  <2>2. /\ OnlyFirst(t)'
        /\ Demand(t)'
        /\ Calls(t)'
        /\ SchedNext(t)'
        /\ Returned(t)'
    BY <2>1, NeedsOne
       DEF Local, OnlyFirst, Demand, Free, Calls, RunsScav, AllocLabels,
           SchedLabels, SchedNext, InSched, Returned
  <2>3. /\ Holds(t)'
        /\ RingBack(t)'
        /\ Initialised(t)'
        /\ RunsFirst(t)'
        /\ Links(t)'
    BY <2>1
       DEF Local, Holds, Free, RunsScav, RingBack, Initialised, RunsFirst,
           Links, Robbed, Settled
  <2> QED
    BY <2>2, <2>3 DEF Local
<1>3. CASE AllocLock(t)
  <2>1. /\ pc[t] = "lock" /\ pc'[t] = "scan"
        /\ UNCHANGED <<run, cont, cleanup, demands, got, cnt, from_pos,
                       ret_pos, next, idx_list, normal_next, special_next,
                       saved, reallocatable, reallocated, inited, ended>>
    BY Types, <1>3
       DEF AllocLock, Goto, schedVars, progVars, outerVars, linkVars,
           slotVars,
           ctxVars, flagVars, primVars, tableVars
  <2>2. /\ OnlyFirst(t)'
        /\ Demand(t)'
        /\ Calls(t)'
        /\ SchedNext(t)'
        /\ Returned(t)'
    BY <2>1
       DEF Local, OnlyFirst, Demand, Free, Calls, RunsScav, AllocLabels,
           SchedLabels, SchedNext, InSched, Returned
  <2>3. /\ Holds(t)'
        /\ RingBack(t)'
        /\ Initialised(t)'
        /\ RunsFirst(t)'
        /\ Links(t)'
    BY <2>1
       DEF Local, Holds, Free, RunsScav, RingBack, Initialised, RunsFirst,
           Links, Robbed, Settled
  <2> QED
    BY <2>2, <2>3 DEF Local
<1>4. CASE ScanSkip(t)
  <2>1. /\ pc[t] = "scan"
        /\ UNCHANGED <<pc, run, cont, cleanup, demands, got, cnt, from_pos,
                       ret_pos, next, idx_list, normal_next, special_next,
                       saved, reallocatable, reallocated, inited, ended>>
    BY Types, <1>4
       DEF ScanSkip, Goto, schedVars, progVars, outerVars, linkVars, slotVars,
           ctxVars, flagVars, primVars, tableVars
  <2>2. /\ OnlyFirst(t)'
        /\ Demand(t)'
        /\ Calls(t)'
        /\ SchedNext(t)'
        /\ Returned(t)'
    BY <2>1
       DEF Local, OnlyFirst, Demand, Free, Calls, RunsScav, SchedNext,
           InSched, Returned
  <2>3. /\ Holds(t)'
        /\ RingBack(t)'
        /\ Initialised(t)'
        /\ RunsFirst(t)'
        /\ Links(t)'
    BY <2>1
       DEF Local, Holds, Free, RunsScav, RingBack, Initialised, RunsFirst,
           Links, Robbed, Settled
  <2> QED
    BY <2>2, <2>3 DEF Local
<1>5. CASE ScanEnd(t)
  <2>1. /\ pc[t] = "scan" /\ pc'[t] = "pool"
        /\ UNCHANGED <<run, cont, cleanup, demands, got, cnt, from_pos,
                       ret_pos, next, idx_list, normal_next, special_next,
                       saved, reallocatable, reallocated, inited, ended>>
    BY Types, <1>5
       DEF ScanEnd, Goto, allocVars, innerVars, schedVars, progVars,
           outerVars,
           linkVars, slotVars, ctxVars, flagVars, primVars, tableVars
  <2>2. /\ OnlyFirst(t)'
        /\ Demand(t)'
        /\ Calls(t)'
        /\ SchedNext(t)'
        /\ Returned(t)'
    BY <2>1
       DEF Local, OnlyFirst, Demand, Free, Calls, RunsScav, AllocLabels,
           SchedLabels, SchedNext, InSched, Returned
  <2>3. /\ Holds(t)'
        /\ RingBack(t)'
        /\ Initialised(t)'
        /\ RunsFirst(t)'
        /\ Links(t)'
    BY <2>1
       DEF Local, Holds, Free, RunsScav, RingBack, Initialised, RunsFirst,
           Links, Robbed, Settled
  <2> QED
    BY <2>2, <2>3 DEF Local
<1>6. CASE PoolPick(t)
  <2>1. /\ pc[t] = "pool" /\ pc'[t] = "take"
        /\ UNCHANGED <<run, cont, cleanup, demands, got, cnt, from_pos,
                       ret_pos, next, idx_list, normal_next, special_next,
                       saved, reallocatable, reallocated, inited, ended>>
    BY Types, <1>6
       DEF PoolPick, Goto, schedVars, progVars, outerVars, linkVars, slotVars,
           ctxVars, flagVars, primVars, tableVars
  <2>2. /\ OnlyFirst(t)'
        /\ Demand(t)'
        /\ Calls(t)'
        /\ SchedNext(t)'
        /\ Returned(t)'
    BY <2>1
       DEF Local, OnlyFirst, Demand, Free, Calls, RunsScav, AllocLabels,
           SchedLabels, SchedNext, InSched, Returned
  <2>3. /\ Holds(t)'
        /\ RingBack(t)'
        /\ Initialised(t)'
        /\ RunsFirst(t)'
        /\ Links(t)'
    BY <2>1
       DEF Local, Holds, Free, RunsScav, RingBack, Initialised, RunsFirst,
           Links, Robbed, Settled
  <2> QED
    BY <2>2, <2>3 DEF Local
<1>7. CASE PoolTake(t)
  <2>0. item[t] \in Scavs /\ pc[t] = "take" /\ Free(t) /\ got[t] = 0
        /\ demands[t] = 1
    BY <1>7 DEF PoolTake, SharingInv, PickedInPool, Local, Demand
  <2>1. /\ pc[t] = "take" /\ pc'[t] = "unlock" /\ got'[t] = 1
        /\ idx_list'[t][1] = item[t]
        /\ \A p \in Slots \ {1} : idx_list'[t][p] = idx_list[t][p]
        /\ saved'[t][1] = item[t]
        /\ \A p \in Slots \ {1} : saved'[t][p] = saved[t][p]
        /\ normal_next'[t][1] = 0
        /\ \A p \in Slots \ {1} : normal_next'[t][p] = normal_next[t][p]
        /\ UNCHANGED <<run, cont, cleanup, demands, cnt, from_pos, ret_pos,
                       next, special_next, reallocatable, reallocated, inited,
                       ended>>
    <3>1. PICK p \in Positions :
            /\ IsFirstFree(idx_list[t], p)
            /\ idx_list' = [idx_list EXCEPT ![t][p] = item[t]]
            /\ saved' = [saved EXCEPT ![t][p] = item[t]]
            /\ normal_next' = [normal_next EXCEPT ![t][p] = 0]
      BY <1>7 DEF PoolTake
    <3>2. p = 1
      BY <2>0, <3>1, FirstIsSlot DEF Local, OnlyFirst, Free
    <3> QED
      BY Types, <1>7, <2>0, <3>1, <3>2, FirstSlot
         DEF PoolTake, Goto, schedVars, progVars, outerVars, flagVars
  <2>2. /\ OnlyFirst(t)'
        /\ Demand(t)'
        /\ Calls(t)'
        /\ SchedNext(t)'
        /\ Returned(t)'
    BY <2>1, FirstSlot, <2>0
       DEF Local, OnlyFirst, Demand, Free, Calls, RunsScav, AllocLabels,
           SchedLabels, SchedNext, InSched, Returned
  <2>3. /\ Holds(t)'
        /\ RingBack(t)'
        /\ Initialised(t)'
        /\ RunsFirst(t)'
        /\ Links(t)'
    BY <2>1, FirstSlot, <2>0
       DEF Local, Holds, Free, Calls, SchedLabels, RunsScav, RingBack,
           Initialised, RunsFirst, Links, Robbed
  <2> QED
    BY <2>2, <2>3 DEF Local
<1>8. CASE PoolEnd(t)
  <2>1. /\ pc[t] = "pool" /\ pc'[t] = "unlock"
        /\ UNCHANGED <<run, cont, cleanup, demands, got, cnt, from_pos,
                       ret_pos, next, idx_list, normal_next, special_next,
                       saved, reallocatable, reallocated, inited, ended>>
    BY Types, <1>8
       DEF PoolEnd, Goto, allocVars, innerVars, schedVars, progVars,
           outerVars,
           linkVars, slotVars, ctxVars, flagVars, primVars, tableVars
  <2>2. /\ OnlyFirst(t)'
        /\ Demand(t)'
        /\ Calls(t)'
        /\ SchedNext(t)'
        /\ Returned(t)'
    BY <2>1
       DEF Local, OnlyFirst, Demand, Calls, RunsScav, AllocLabels,
           SchedLabels, SchedNext, InSched, Returned
  <2>3. /\ Holds(t)'
        /\ RingBack(t)'
        /\ Initialised(t)'
        /\ RunsFirst(t)'
        /\ Links(t)'
    BY <2>1
       DEF Local, Holds, Free, RunsScav, RingBack, Initialised, RunsFirst,
           Links, Robbed, Settled
  <2> QED
    BY <2>2, <2>3 DEF Local
<1>9. CASE AllocUnlock(t)
  <2>1. /\ pc[t] = "unlock" /\ pc'[t] = "init"
        /\ UNCHANGED <<run, cont, cleanup, demands, got, cnt, from_pos,
                       ret_pos, next, idx_list, normal_next, special_next,
                       saved, reallocatable, reallocated, inited, ended>>
    BY Types, <1>9
       DEF AllocUnlock, Goto, allocVars, innerVars, schedVars, progVars,
           outerVars, linkVars, slotVars, ctxVars, flagVars, primVars,
           tableVars
  <2>2. /\ OnlyFirst(t)'
        /\ Demand(t)'
        /\ Calls(t)'
        /\ SchedNext(t)'
        /\ Returned(t)'
    BY <2>1
       DEF Local, OnlyFirst, Demand, Free, Calls, RunsScav, AllocLabels,
           SchedLabels, SchedNext, InSched, Returned
  <2>3. /\ Holds(t)'
        /\ RingBack(t)'
        /\ Initialised(t)'
        /\ RunsFirst(t)'
        /\ Links(t)'
    BY <2>1
       DEF Local, Holds, Free, RunsScav, RingBack, Initialised, RunsFirst,
           Links, Robbed, Settled
  <2> QED
    BY <2>2, <2>3 DEF Local
<1>10. CASE CallInit(t)
  <2>1. /\ pc[t] = "init" /\ pc'[t] = "resume"
        /\ special_next'[t] =
              SetSpecialNext(idx_list[t], scav_num[t], special_next[t])
        /\ UNCHANGED <<run, cont, cleanup, demands, got, cnt, from_pos,
                       ret_pos, next, idx_list, normal_next, saved,
                       reallocatable, reallocated, ended>>
    BY Types, <1>10
       DEF CallInit, Goto, allocVars, innerVars, schedVars, progVars,
           outerVars, slotVars, flagVars
  <2>2. OnlyFirst(t)' /\ Demand(t)' /\ Calls(t)' /\ SchedNext(t)'
    BY <2>1
       DEF Local, OnlyFirst, Demand, Free, Calls, RunsScav, AllocLabels,
           SchedLabels, SchedNext, InSched
  <2>3. Returned(t)' /\ Holds(t)' /\ RunsFirst(t)' /\ Links(t)'
    BY <2>1
       DEF Local, Returned, RunsFirst, RunsScav, Free, Holds, Links, Robbed,
           Settled
  <2>4. RingBack(t)'
    <3>1. MAX_CRT_PER_THREAD > 1 => special_next'[t][1] = 0
      BY <2>1, RingOfOne DEF Local, OnlyFirst
    <3> QED
      BY <3>1 DEF RingBack
  <2>5. Initialised(t)'
    <3>1. \A s \in HasInit : idx_list[t][1] = s => inited'[s]
      BY <1>10, FirstSlot, ConstantsAssumption DEF CallInit
    <3> QED
      BY <2>1, <3>1 DEF Initialised, Free
  <2> QED
    BY <2>2, <2>3, <2>4, <2>5 DEF Local
<1>11. CASE ResumeStart(t)
  <2>1. /\ pc[t] = "resume" /\ cont[t] = "start" /\ pc'[t] = "app"
        /\ cont'[t] = "none"
        /\ normal_next'[t][0] = IF got[t] > 0 THEN YC ELSE 0
        /\ \A p \in Slots \ {0} : normal_next'[t][p] = normal_next[t][p]
        /\ ~reallocated'[t] /\ ~reallocatable'[t]
        /\ UNCHANGED <<run, cleanup, ret_pos, next, idx_list, special_next,
                       saved, inited, ended>>
    BY Types, <1>11, FirstSlot
       DEF ResumeStart, Goto, schedVars, progVars, outerVars, tableVars
  <2>2. /\ OnlyFirst(t)'
        /\ Demand(t)'
        /\ Calls(t)'
        /\ SchedNext(t)'
        /\ Returned(t)'
    BY <2>1
       DEF Local, OnlyFirst, Demand, Calls, RunsScav, AllocLabels,
           SchedLabels, SchedNext, InSched, Returned
  <2>3. /\ Holds(t)'
        /\ RingBack(t)'
        /\ Initialised(t)'
        /\ RunsFirst(t)'
        /\ Links(t)'
    BY <2>1, FirstSlot
       DEF Local, Holds, Free, Calls, RunsScav, RingBack, Demand,
           Initialised, RunsFirst, Links, Robbed, Settled
  <2> QED
    BY <2>2, <2>3 DEF Local
<1>12. CASE ResumeSched(t)
  <2>1. /\ pc[t] = "resume" /\ cont[t] = "sched" /\ pc'[t] = "dispatch"
        /\ cont'[t] = "none"
        /\ normal_next'[t][0] = IF normal_next[t][0] = FIN THEN FIN
                                ELSE IF normal_next[t][1] = FIN THEN 0 ELSE YC
        /\ \A p \in Slots \ {0} : normal_next'[t][p] = normal_next[t][p]
        /\ UNCHANGED <<run, cleanup, ret_pos, next, idx_list, special_next,
                       saved, reallocatable, reallocated, inited, ended>>
    <3>1. PICK links \in UpdateNextMap(normal_next[t]) :
            normal_next' = [normal_next EXCEPT ![t] = links]
      BY <1>12 DEF ResumeSched
    <3>2. /\ \A p \in Slots \ {0} : links[p] = normal_next[t][p]
          /\ links[0] = IF normal_next[t][0] = FIN THEN FIN
                        ELSE IF normal_next[t][1] = FIN THEN 0 ELSE YC
      <4>1. /\ normal_next[t] \in LinkMaps
            /\ \A p \in Slots \ {0, 1} : normal_next[t][p] = FIN
        BY Types DEF LinkMaps, Local, OnlyFirst
      <4> QED
        BY <4>1, UpdatesLink
    <3> QED
      BY Types, <1>12, <3>1, <3>2
         DEF ResumeSched, Goto, schedVars, progVars, outerVars, slotVars,
             flagVars, tableVars
  <2>2. /\ OnlyFirst(t)'
        /\ Demand(t)'
        /\ Calls(t)'
        /\ SchedNext(t)'
        /\ Returned(t)'
    BY <2>1
       DEF Local, OnlyFirst, Demand, Calls, AllocLabels, SchedLabels,
           SchedNext, InSched, Returned
  <2>3. /\ Holds(t)'
        /\ RingBack(t)'
        /\ Initialised(t)'
        /\ RunsFirst(t)'
        /\ Links(t)'
    BY <2>1, FirstSlot
       DEF Local, Holds, Free, RunsScav, RingBack, Initialised, RunsFirst,
           Links, Robbed, Settled
  <2> QED
    BY <2>2, <2>3 DEF Local
<1>13. CASE ResumeExit(t)
  <2>1. /\ pc[t] = "resume" /\ cont[t] = "exit" /\ pc'[t] = "app"
        /\ cont'[t] = "none" /\ ~reallocated'[t]
        /\ normal_next'[t][0] = IF normal_next[t][0] = FIN THEN FIN
                                ELSE IF normal_next[t][1] = FIN THEN 0 ELSE YC
        /\ \A p \in Slots \ {0} : normal_next'[t][p] = normal_next[t][p]
        /\ UNCHANGED <<run, cleanup, ret_pos, next, idx_list, special_next,
                       saved, reallocatable, inited, ended>>
    <3>1. PICK links \in UpdateNextMap(normal_next[t]) :
            normal_next' = [normal_next EXCEPT ![t] = links]
      BY <1>13 DEF ResumeExit
    <3>2. /\ \A p \in Slots \ {0} : links[p] = normal_next[t][p]
          /\ links[0] = IF normal_next[t][0] = FIN THEN FIN
                        ELSE IF normal_next[t][1] = FIN THEN 0 ELSE YC
      <4>1. /\ normal_next[t] \in LinkMaps
            /\ \A p \in Slots \ {0, 1} : normal_next[t][p] = FIN
        BY Types DEF LinkMaps, Local, OnlyFirst
      <4> QED
        BY <4>1, UpdatesLink
    <3> QED
      BY Types, <1>13, <3>1, <3>2
         DEF ResumeExit, Goto, schedVars, progVars, outerVars, slotVars,
             tableVars
  <2>2. /\ OnlyFirst(t)'
        /\ Demand(t)'
        /\ Calls(t)'
        /\ SchedNext(t)'
        /\ Returned(t)'
    BY <2>1
       DEF Local, OnlyFirst, Demand, Calls, RunsScav, AllocLabels,
           SchedLabels, SchedNext, InSched, Returned
  <2>3. /\ Holds(t)'
        /\ RingBack(t)'
        /\ Initialised(t)'
        /\ RunsFirst(t)'
        /\ Links(t)'
    BY <2>1, FirstSlot
       DEF Local, Holds, Free, Calls, RunsScav, RingBack, Initialised,
           RunsFirst, Links, Robbed, Settled
  <2> QED
    BY <2>2, <2>3 DEF Local
<1>14. CASE CallInitLost(t)
  <2>1. /\ pc[t] = "init" /\ pc'[t] = "wild"
        /\ UNCHANGED <<run, cont, cleanup, demands, got, cnt, from_pos,
                       ret_pos, next, idx_list, normal_next, special_next,
                       saved, reallocatable, reallocated, inited, ended>>
    BY Types, <1>14
       DEF CallInitLost, Goto, allocVars, innerVars, schedVars, progVars,
           outerVars, linkVars, slotVars, ctxVars, flagVars, primVars,
           tableVars
  <2>2. /\ OnlyFirst(t)'
        /\ Demand(t)'
        /\ Calls(t)'
        /\ SchedNext(t)'
        /\ Returned(t)'
    BY <2>1
       DEF Local, OnlyFirst, Demand, Calls, RunsScav, AllocLabels,
           SchedLabels, SchedNext, InSched, Returned
  <2>3. /\ Holds(t)'
        /\ RingBack(t)'
        /\ Initialised(t)'
        /\ RunsFirst(t)'
        /\ Links(t)'
    BY <2>1
       DEF Local, Holds, Free, RunsScav, RingBack, Initialised, RunsFirst,
           Links, Robbed, Settled
  <2> QED
    BY <2>2, <2>3 DEF Local
<1> QED
  BY <1>1, <1>2, <1>3, <1>4, <1>5, <1>6, <1>7, <1>8, <1>9, <1>10, <1>11,
     <1>12,
     <1>13, <1>14

\* The steps of a theft, seen by the thief, and of parking keep the
\* invariant of the thread that takes them.
LEMMA OwnTheft ==
    ASSUME MAX_SCAV <= 1, TypeOK, SharingInv, CapInv, NEW t \in Threads,
           \/ ScanCapture(t) \/ StealPop(t) \/ StealPush(t) \/ StealRollback(t)
           \/ StealEnd(t) \/ ReleaseVictim(t) \/ EnterBlockableCall(t)
           \/ Unblock(t) \/ ExitBlockableCall(t)
    PROVE  Local(t)'
<1>0. /\ \A u \in Threads : Local(u)
      /\ Local(t) /\ Robs(t) /\ Placed /\ Symbols
  BY DEF CapInv
<1> USE <1>0
<1>1. CASE ScanCapture(t)
  <2>1. /\ pc[t] = "scan" /\ pc'[t] = "steal" /\ cnt'[t] = 0
        /\ UNCHANGED <<run, cont, cleanup, demands, got, from_pos, ret_pos,
                       next, idx_list, normal_next, special_next, saved,
                       reallocated, inited, ended>>
    BY Types, <1>1
       DEF ScanCapture, Goto, schedVars, progVars, outerVars, linkVars,
           slotVars, ctxVars, tableVars
  <2>2. /\ OnlyFirst(t)'
        /\ Demand(t)'
        /\ Calls(t)'
        /\ SchedNext(t)'
        /\ Returned(t)'
    BY <2>1
       DEF Local, OnlyFirst, Demand, Free, Calls, RunsScav, AllocLabels,
           SchedLabels, SchedNext, InSched, Returned
  <2>3. /\ Holds(t)'
        /\ RingBack(t)'
        /\ Initialised(t)'
        /\ RunsFirst(t)'
        /\ Links(t)'
    BY <2>1
       DEF Local, Holds, Free, RunsScav, RingBack, Initialised, RunsFirst,
           Links, Robbed, Settled
  <2> QED
    BY <2>2, <2>3 DEF Local
<1>2. CASE StealPop(t)
  <2>0. tid[t] \in Threads \ {t}
    BY <1>2 DEF StealPop, SharingInv, ThiefExclusive
  <2>1. /\ pc[t] = "steal" /\ cnt[t] < demands[t] /\ pc'[t] = "push"
        /\ from_pos'[t] = 1 /\ idx_list'[t] = idx_list[t]
        /\ UNCHANGED <<run, cont, cleanup, demands, got, cnt, ret_pos, next,
                       normal_next, special_next, saved, reallocatable,
                       reallocated, inited, ended>>
    <3>1. PICK p \in Positions :
            /\ IsLastOccupied(idx_list[tid[t]], p)
            /\ from_pos' = [from_pos EXCEPT ![t] = p]
            /\ idx_list' = [idx_list EXCEPT ![tid[t]][p] = EMPTY]
      BY <1>2 DEF StealPop
    <3>2. p = 1
      BY <2>0, <3>1, FirstIsSlot DEF Local, OnlyFirst
    <3> QED
      BY Types, <1>2, <2>0, <3>1, <3>2
         DEF StealPop, Goto, schedVars, progVars, outerVars, linkVars,
             flagVars, tableVars
  <2>2. /\ OnlyFirst(t)'
        /\ Demand(t)'
        /\ Calls(t)'
        /\ SchedNext(t)'
        /\ Returned(t)'
    BY <2>1
       DEF Local, OnlyFirst, Demand, Free, Calls, RunsScav, AllocLabels,
           SchedLabels, SchedNext, InSched, Returned
  <2>3. /\ Holds(t)'
        /\ RingBack(t)'
        /\ Initialised(t)'
        /\ RunsFirst(t)'
        /\ Links(t)'
    BY <2>1
       DEF Local, Holds, Free, RunsScav, RingBack, Demand, Initialised,
           RunsFirst, Links, Robbed, Settled
  <2> QED
    BY <2>2, <2>3 DEF Local
<1>3. CASE StealPush(t)
  <2>0. /\ pc[t] = "push" /\ tid[t] \in Threads \ {t} /\ item[t] \in Scavs
        /\ saved[tid[t]][1] = item[t] /\ from_pos[t] = 1 /\ Free(t)
        /\ item[t] \in HasInit => inited[item[t]]
    BY <1>3 DEF StealPush, SharingInv, ThiefExclusive, PoppedUnlisted, Robs,
            Local, Demand
  <2>1. /\ pc[t] = "push" /\ pc'[t] = "steal" /\ cnt'[t] = cnt[t] + 1
        /\ idx_list'[t][1] = item[t]
        /\ \A p \in Slots \ {1} : idx_list'[t][p] = idx_list[t][p]
        /\ saved'[t][1] = item[t]
        /\ \A p \in Slots \ {1} : saved'[t][p] = saved[t][p]
        /\ normal_next'[t][0] = YC /\ normal_next'[t][1] = 0
        /\ \A p \in Slots \ {0, 1} : normal_next'[t][p] = normal_next[t][p]
        /\ reallocated'[t] = reallocated[t]
        /\ UNCHANGED <<run, cont, cleanup, demands, got, from_pos, ret_pos,
                       next, special_next, reallocatable, inited, ended>>
    <3>1. PICK p \in Positions :
            /\ IsFirstFree(idx_list[t], p)
            /\ idx_list' = [idx_list EXCEPT ![t][p] = item[t]]
            /\ saved' = [saved EXCEPT ![t][p] = saved[tid[t]][from_pos[t]]]
            /\ normal_next' = [normal_next EXCEPT ![t][p] = 0,
                                                  ![t][0] = YC,
                                                  ![tid[t]][from_pos[t]] = FIN]
      BY <1>3 DEF StealPush, CopyCtx
    <3>2. p = 1
      BY <2>0, <3>1, FirstIsSlot DEF Local, OnlyFirst, Free
    <3>3. /\ normal_next'[t][0] = YC /\ normal_next'[t][1] = 0
          /\ \A q \in Slots \ {0, 1} : normal_next'[t][q] = normal_next[t][q]
      <4>1. normal_next'[t] = [normal_next[t] EXCEPT ![1] = 0, ![0] = YC]
        BY Types, <2>0, <3>1, <3>2, FirstSlot
      <4> QED
        BY Types, <4>1, FirstSlot
    <3>4. /\ idx_list'[t] = [idx_list[t] EXCEPT ![1] = item[t]]
          /\ saved'[t] = [saved[t] EXCEPT ![1] = item[t]]
      BY Types, <2>0, <3>1, <3>2, FirstSlot
    <3>5. /\ idx_list'[t][1] = item[t] /\ saved'[t][1] = item[t]
          /\ \A q \in Slots \ {1} : /\ idx_list'[t][q] = idx_list[t][q]
                                    /\ saved'[t][q] = saved[t][q]
      BY Types, <3>4, FirstSlot
    <3>6. /\ pc'[t] = "steal" /\ cnt'[t] = cnt[t] + 1
          /\ reallocated'[t] = reallocated[t]
          /\ UNCHANGED <<run, cont, cleanup, demands, got, from_pos, ret_pos,
                         next, special_next, reallocatable, inited, ended>>
      <4>1. /\ pc' = [pc EXCEPT ![t] = "steal"]
            /\ cnt' = [cnt EXCEPT ![t] = @ + 1]
            /\ reallocated' = [reallocated EXCEPT ![tid[t]] = TRUE]
        BY <1>3 DEF StealPush, Goto
      <4>2. UNCHANGED <<run, cont, cleanup, demands, got, from_pos, ret_pos,
                        next, special_next, reallocatable, inited, ended>>
        BY <1>3 DEF StealPush, schedVars, progVars, outerVars
      <4> QED
        BY Types, <2>0, <4>1, <4>2
    <3> QED
      BY <2>0, <3>3, <3>5, <3>6
  <2>2. /\ OnlyFirst(t)'
        /\ Demand(t)'
        /\ Calls(t)'
        /\ SchedNext(t)'
        /\ Returned(t)'
    BY <2>1, FirstSlot, <2>0
       DEF Local, OnlyFirst, Demand, Free, Calls, RunsScav, AllocLabels,
           SchedLabels, SchedNext, InSched, Returned
  <2>3. /\ Holds(t)'
        /\ RingBack(t)'
        /\ Initialised(t)'
        /\ RunsFirst(t)'
        /\ Links(t)'
    BY <2>1, FirstSlot, <2>0
       DEF Local, Holds, Free, Calls, SchedLabels, RunsScav, RingBack,
           Initialised, RunsFirst, Links, Robbed
  <2> QED
    BY <2>2, <2>3 DEF Local
<1>4. CASE StealRollback(t)
  <2>1. pc[t] = "push" /\ ~HasFree(idx_list[t]) /\ Free(t)
    BY <1>4 DEF StealRollback, Local, Demand
  <2> QED
    BY <2>1, FirstIsSlot, FirstSlot DEF Local, OnlyFirst, Free
<1>5. CASE StealEnd(t)
  <2>1. /\ pc[t] = "steal" /\ pc'[t] = "release"
        /\ UNCHANGED <<run, cont, cleanup, demands, got, cnt, from_pos,
                       ret_pos, next, idx_list, normal_next, special_next,
                       saved, reallocatable, reallocated, inited, ended>>
    BY Types, <1>5
       DEF StealEnd, Goto, allocVars, innerVars, schedVars, progVars,
           outerVars, linkVars, slotVars, ctxVars, flagVars, primVars,
           tableVars
  <2>2. /\ OnlyFirst(t)'
        /\ Demand(t)'
        /\ Calls(t)'
        /\ SchedNext(t)'
        /\ Returned(t)'
    BY <2>1
       DEF Local, OnlyFirst, Demand, Free, Calls, RunsScav, AllocLabels,
           SchedLabels, SchedNext, InSched, Returned
  <2>3. /\ Holds(t)'
        /\ RingBack(t)'
        /\ Initialised(t)'
        /\ RunsFirst(t)'
        /\ Links(t)'
    BY <2>1
       DEF Local, Holds, Free, RunsScav, RingBack, Initialised, RunsFirst,
           Links, Robbed, Settled
  <2> QED
    BY <2>2, <2>3 DEF Local
<1>6. CASE ReleaseVictim(t)
  <2>1. /\ pc[t] = "release"
        /\ pc'[t] = IF got[t] + cnt[t] >= demands[t] THEN "unlock" ELSE "scan"
        /\ got'[t] = got[t] + cnt[t]
        /\ UNCHANGED <<run, cont, cleanup, demands, cnt, from_pos, ret_pos,
                       next, idx_list, normal_next, special_next, saved,
                       reallocated, inited, ended>>
    BY Types, <1>6
       DEF ReleaseVictim, Goto, schedVars, progVars, outerVars, linkVars,
           slotVars, ctxVars, tableVars
  <2>2. /\ OnlyFirst(t)'
        /\ Demand(t)'
        /\ Calls(t)'
        /\ SchedNext(t)'
        /\ Returned(t)'
    BY <2>1
       DEF Local, OnlyFirst, Demand, Free, Calls, RunsScav, AllocLabels,
           SchedLabels, SchedNext, InSched, Returned
  <2>3. /\ Holds(t)'
        /\ RingBack(t)'
        /\ Initialised(t)'
        /\ RunsFirst(t)'
        /\ Links(t)'
    BY <2>1
       DEF Local, Holds, Free, RunsScav, RingBack, Demand, Initialised,
           RunsFirst, Links, Robbed, Settled
  <2> QED
    BY <2>2, <2>3 DEF Local
<1>7. CASE EnterBlockableCall(t)
  <2>1. /\ pc[t] = "app" /\ run[t] = PRIM /\ pc'[t] = "blocked"
        /\ reallocatable'[t]
        /\ UNCHANGED <<run, cont, cleanup, demands, got, cnt, from_pos,
                       ret_pos, next, idx_list, normal_next, special_next,
                       saved, reallocated, inited, ended>>
    BY Types, <1>7
       DEF EnterBlockableCall, Goto, RunsPrimary, allocVars, innerVars,
           schedVars, progVars, outerVars, linkVars, slotVars, ctxVars,
           tableVars
  <2>2. /\ OnlyFirst(t)'
        /\ Demand(t)'
        /\ Calls(t)'
        /\ SchedNext(t)'
        /\ Returned(t)'
    BY <2>1, FirstSlot
       DEF Local, OnlyFirst, Demand, Calls, RunsScav, AllocLabels,
           SchedLabels, SchedNext, InSched, Returned
  <2>3. /\ Holds(t)'
        /\ RingBack(t)'
        /\ Initialised(t)'
        /\ RunsFirst(t)'
        /\ Links(t)'
    BY <2>1
       DEF Local, Holds, Free, RunsScav, RingBack, Initialised, RunsFirst,
           Links, Robbed, Settled
  <2> QED
    BY <2>2, <2>3 DEF Local
<1>8. CASE Unblock(t)
  <2>1. /\ pc[t] = "blocked" /\ pc'[t] = "exit"
        /\ UNCHANGED <<run, cont, cleanup, demands, got, cnt, from_pos,
                       ret_pos, next, idx_list, normal_next, special_next,
                       saved, reallocatable, reallocated, inited, ended>>
    BY Types, <1>8
       DEF Unblock, Goto, allocVars, innerVars, schedVars, progVars,
           outerVars,
           linkVars, slotVars, ctxVars, flagVars, primVars, tableVars
  <2>2. /\ OnlyFirst(t)'
        /\ Demand(t)'
        /\ Calls(t)'
        /\ SchedNext(t)'
        /\ Returned(t)'
    BY <2>1
       DEF Local, OnlyFirst, Demand, Calls, RunsScav, AllocLabels,
           SchedLabels, SchedNext, InSched, Returned
  <2>3. /\ Holds(t)'
        /\ RingBack(t)'
        /\ Initialised(t)'
        /\ RunsFirst(t)'
        /\ Links(t)'
    BY <2>1
       DEF Local, Holds, Free, RunsScav, RingBack, Initialised, RunsFirst,
           Links, Robbed, Settled
  <2> QED
    BY <2>2, <2>3 DEF Local
<1>9. CASE ExitBlockableCall(t)
  <2>1. /\ pc[t] = "exit" /\ reallocatable[t]
        /\ pc'[t] = IF reallocated[t] THEN "alloc" ELSE "app"
        /\ cont'[t] = IF reallocated[t] THEN "exit" ELSE cont[t]
        /\ ~reallocatable'[t]
        /\ UNCHANGED <<run, cleanup, demands, got, cnt, from_pos, ret_pos,
                       next, idx_list, normal_next, special_next, saved,
                       reallocated, inited, ended>>
    BY Types, <1>9
       DEF ExitBlockableCall, Goto, TakeFlag, StolenFrom, allocVars,
           schedVars,
           progVars, outerVars, linkVars, slotVars, ctxVars, tableVars
  <2>2. /\ OnlyFirst(t)'
        /\ Demand(t)'
        /\ Calls(t)'
        /\ SchedNext(t)'
        /\ Returned(t)'
    BY <2>1
       DEF Local, OnlyFirst, Demand, Calls, RunsScav, AllocLabels,
           SchedLabels, SchedNext, InSched, Returned
  <2>3. /\ Holds(t)'
        /\ RingBack(t)'
        /\ Initialised(t)'
        /\ RunsFirst(t)'
        /\ Links(t)'
    BY <2>1, FirstSlot
       DEF Local, Holds, Free, Calls, RunsScav, RingBack, Initialised,
           RunsFirst, Links, Robbed, Settled
  <2> QED
    BY <2>2, <2>3 DEF Local
<1> QED
  BY <1>1, <1>2, <1>3, <1>4, <1>5, <1>6, <1>7, <1>8, <1>9

\* The steps of the scheduler keep the invariant of the thread that
\* takes them.
LEMMA OwnSched ==
    ASSUME MAX_SCAV <= 1, TypeOK, SharingInv, CapInv, NEW t \in Threads,
           \/ ScavReturn(t) \/ FinishPrimary(t) \/ FinishScav(t)
           \/ FinishLock(t) \/ RetireScav(t) \/ PackLock(t) \/ SwapCrts(t)
           \/ PackEnd(t) \/ PackSkip(t) \/ DispatchNext(t) \/ DispatchCleanup(t)
    PROVE  Local(t)'
<1>0. /\ \A u \in Threads : Local(u)
      /\ Local(t) /\ Robs(t) /\ Placed /\ Symbols
  BY DEF CapInv
<1> USE <1>0
<1>1. CASE ScavReturn(t)
  <2>1. /\ pc[t] = "app" /\ run[t] \in Scavs /\ pc'[t] = "finish"
        /\ ended' = ended \cup {run[t]}
        /\ ret_pos'[t] = crt_pos[LibOf[run[t]]] \div YC
        /\ next'[t] = NextOf(normal_next[t][crt_pos[LibOf[run[t]]] \div YC])
        /\ UNCHANGED <<run, cont, cleanup, demands, got, cnt, from_pos,
                       idx_list, normal_next, special_next, saved,
                       reallocatable, reallocated, inited>>
    BY Types, <1>1
       DEF ScavReturn, Goto, RunsScav, allocVars, innerVars, linkVars,
           slotVars, ctxVars, flagVars, primVars, tableVars
  <2>2. OnlyFirst(t)' /\ Demand(t)' /\ Calls(t)' /\ Returned(t)'
    BY <2>1, FirstSlot
       DEF Local, OnlyFirst, Demand, Free, Calls, RunsScav, AllocLabels,
           SchedLabels, Returned, RunsFirst
  <2>3. /\ Holds(t)'
        /\ RingBack(t)'
        /\ Initialised(t)'
        /\ RunsFirst(t)'
        /\ Links(t)'
    BY <2>1, FirstSlot
       DEF Local, Holds, Free, RunsScav, RingBack, Initialised, RunsFirst,
           Links, Robbed
  <2>4. SchedNext(t)'
    <3>1. run[t] = idx_list[t][1] /\ run[t] \in Scavs /\ ~Free(t)
      BY <2>1, FirstSlot DEF Local, RunsFirst, RunsScav, Free
    <3>2. crt_pos[LibOf[run[t]]] \in {1, YC}
      BY <3>1, FirstSlot DEF SharingInv, ListedHosted, Symbols, Free
    <3>3. 1 \div YC = 0 /\ YC \div YC = 1 /\ 0 \div YC = 0
      BY DEF YC
    <3>4. ret_pos'[t] \in {0, 1}
      BY <2>1, <3>2, <3>3
    <3>5. cleanup[t] # "no" => normal_next[t][0] = FIN
      BY <2>1 DEF Local, SchedNext, RunsScav
    <3>6. cleanup[t] = "no" => normal_next[t][1] = 0
      BY <2>1, <3>1 DEF Local, Holds, RunsScav
    <3>7. ret_pos'[t] = 0 \/ next'[t] = 0 \/ normal_next[t][0] = FIN
      BY <2>1, <3>2, <3>3, <3>5, <3>6, FirstSlot DEF NextOf
    <3> QED
      BY <2>1, <3>4, <3>5, <3>7, FirstSlot
         DEF Local, SchedNext, Calls, InSched, SchedLabels, AllocLabels
  <2> QED
    BY <2>2, <2>3, <2>4 DEF Local
<1>2. CASE FinishPrimary(t)
  <2>0. pc[t] = "finish" /\ ret_pos[t] = 0
    BY <1>2
       DEF FinishPrimary, CrtIdxAt, Local, SchedNext, Returned, InSched,
           SchedLabels, Free
  <2>1. /\ pc[t] = "finish" /\ ret_pos[t] = 0 /\ pc'[t] = "pack"
        /\ normal_next'[t][0] = FIN
        /\ \A p \in Slots \ {0} : normal_next'[t][p] = normal_next[t][p]
        /\ UNCHANGED <<run, cont, cleanup, demands, got, cnt, from_pos,
                       ret_pos, next, idx_list, special_next, saved,
                       reallocatable, reallocated, inited, ended>>
    <3> DEFINE links == [normal_next[t] EXCEPT ![0] = FIN]
    <3>1. PICK new \in UpdateNextMap(links) :
            normal_next' = [normal_next EXCEPT ![t] = new]
      BY <1>2, <2>0 DEF FinishPrimary
    <3>2. links \in LinkMaps /\ \A p \in Slots \ {0, 1} : links[p] = FIN
      BY Types DEF LinkMaps, Local, OnlyFirst
    <3>3. links[0] = FIN /\ \A p \in Slots \ {0} : links[p] = normal_next[t][p]
      BY Types, FirstSlot
    <3>4. new[0] = FIN /\ \A p \in Slots \ {0} : new[p] = normal_next[t][p]
      BY <3>1, <3>2, <3>3, UpdatesLink
    <3> QED
      BY Types, <1>2, <2>0, <3>1, <3>4
         DEF FinishPrimary, Goto, allocVars, innerVars, schedVars, progVars,
             outerVars, slotVars, flagVars, tableVars
  <2>2. /\ OnlyFirst(t)'
        /\ Demand(t)'
        /\ Calls(t)'
        /\ SchedNext(t)'
        /\ Returned(t)'
    BY <2>1
       DEF Local, OnlyFirst, Demand, Calls, AllocLabels, SchedLabels,
           SchedNext, Returned
  <2>3. /\ Holds(t)'
        /\ RingBack(t)'
        /\ Initialised(t)'
        /\ RunsFirst(t)'
        /\ Links(t)'
    BY <2>1, FirstSlot
       DEF Local, Holds, Free, RunsScav, RingBack, Initialised, RunsFirst,
           Links, Robbed, Settled
  <2> QED
    BY <2>2, <2>3 DEF Local
<1>3. CASE FinishLock(t)
  <2>1. /\ pc[t] = "close" /\ pc'[t] = "retire"
        /\ UNCHANGED <<run, cont, cleanup, demands, got, cnt, from_pos,
                       ret_pos, next, idx_list, normal_next, special_next,
                       saved, reallocatable, reallocated, inited, ended>>
    BY Types, <1>3
       DEF FinishLock, Goto, allocVars, innerVars, schedVars, progVars,
           outerVars, linkVars, slotVars, ctxVars, flagVars, primVars,
           tableVars
  <2>2. /\ OnlyFirst(t)'
        /\ Demand(t)'
        /\ Calls(t)'
        /\ SchedNext(t)'
        /\ Returned(t)'
    BY <2>1, Types
       DEF Local, OnlyFirst, Demand, Free, Calls, AllocLabels, SchedLabels,
           SchedNext, InSched, Returned
  <2>3. /\ Holds(t)'
        /\ RingBack(t)'
        /\ Initialised(t)'
        /\ RunsFirst(t)'
        /\ Links(t)'
    BY <2>1
       DEF Local, Holds, Free, RunsScav, RingBack, Initialised, RunsFirst,
           Links, Robbed, Settled
  <2> QED
    BY <2>2, <2>3 DEF Local
<1>4. CASE RetireScav(t)
  <2>0. pc[t] = "retire" /\ ret_pos[t] = 1 /\ idx_list[t][1] \in Scavs
    BY Types, <1>4, FirstSlot
       DEF RetireScav, SharingInv, RetiresListed, Local, OnlyFirst
  <2>1. /\ pc[t] = "retire" /\ ret_pos[t] = 1 /\ pc'[t] = "pack"
        /\ idx_list'[t][1] = EMPTY
        /\ \A p \in Slots \ {1} : idx_list'[t][p] = idx_list[t][p]
        /\ normal_next'[t][0] = IF normal_next[t][0] = FIN THEN FIN ELSE 0
        /\ normal_next'[t][1] = FIN
        /\ \A p \in Slots \ {0, 1} : normal_next'[t][p] = normal_next[t][p]
        /\ UNCHANGED <<run, cont, cleanup, demands, got, cnt, from_pos,
                       ret_pos, next, special_next, saved, reallocatable,
                       reallocated, inited, ended>>
    <3> DEFINE links == normal_next[t]
    <3>1. PICK new \in UpdateNextMap(links) :
            normal_next' = [normal_next EXCEPT ![t] = new]
      BY <1>4 DEF RetireScav
    <3>2. links \in LinkMaps /\ \A p \in Slots \ {0, 1} : links[p] = FIN
      BY Types DEF LinkMaps, Local, OnlyFirst
    <3>3. links[1] = FIN
      BY <2>0, FirstSlot DEF Local, Holds, Free
    <3>4. /\ new[0] = IF normal_next[t][0] = FIN THEN FIN ELSE 0
          /\ new[1] = FIN
          /\ \A p \in Slots \ {0, 1} : new[p] = normal_next[t][p]
      BY <3>1, <3>2, <3>3, UpdatesLink, FirstSlot
    <3> HIDE DEF links
    <3> QED
      BY Types, <1>4, <2>0, <3>1, <3>4, FirstSlot
         DEF RetireScav, Goto, allocVars, innerVars, schedVars, progVars,
             outerVars, flagVars
  <2>2. /\ OnlyFirst(t)'
        /\ Demand(t)'
        /\ Calls(t)'
        /\ SchedNext(t)'
        /\ Returned(t)'
    BY <2>1
       DEF Local, OnlyFirst, Demand, Calls, AllocLabels, SchedLabels,
           SchedNext, Returned
  <2>3. /\ Holds(t)'
        /\ RingBack(t)'
        /\ Initialised(t)'
        /\ RunsFirst(t)'
        /\ Links(t)'
    BY <2>1, FirstSlot
       DEF Local, Holds, Free, RunsScav, RingBack, Initialised, RunsFirst,
           Links, Robbed
  <2> QED
    BY <2>2, <2>3 DEF Local
<1>5. CASE PackLock(t)
  <2>1. \E a, b \in Positions : IsSwapPair(idx_list[t], a, b)
    BY <1>5 DEF PackLock
  <2> QED
    BY <2>1, FirstIsSlot DEF Local, OnlyFirst
<1>6. CASE SwapCrts(t)
  BY <1>6 DEF SwapCrts, Local, Calls
<1>7. CASE PackEnd(t)
  <2>1. /\ pc[t] = "pack" /\ normal_next[t][0] # FIN /\ pc'[t] = "alloc"
        /\ cont'[t] = "sched"
        /\ special_next'[t] =
              SetSpecialNext(idx_list[t], scav_num[t], special_next[t])
        /\ UNCHANGED <<run, cleanup, demands, got, cnt, from_pos, ret_pos,
                       next, idx_list, normal_next, saved, reallocatable,
                       reallocated, inited, ended>>
    BY Types, <1>7
       DEF PackEnd, Goto, allocVars, schedVars, progVars, outerVars, slotVars,
           flagVars, tableVars
  <2>2. OnlyFirst(t)' /\ Demand(t)' /\ Calls(t)' /\ SchedNext(t)'
    BY <2>1
       DEF Local, OnlyFirst, Demand, Calls, SchedNext, AllocLabels,
           SchedLabels, InSched
  <2>3. /\ Returned(t)'
        /\ Holds(t)'
        /\ Initialised(t)'
        /\ RunsFirst(t)'
        /\ Links(t)'
    BY <2>1
       DEF Local, Returned, RunsFirst, RunsScav, Free, Holds, Calls,
           Initialised, Links, Robbed, Settled, AllocLabels
  <2>4. RingBack(t)'
    <3>1. MAX_CRT_PER_THREAD > 1 => special_next'[t][1] = 0
      BY <2>1, RingOfOne DEF Local, OnlyFirst
    <3> QED
      BY <3>1 DEF RingBack
  <2> QED
    BY <2>2, <2>3, <2>4 DEF Local
<1>8. CASE PackSkip(t)
  <2>1. /\ pc[t] = "pack" /\ normal_next[t][0] = FIN /\ pc'[t] = "dispatch"
        /\ UNCHANGED <<run, cont, cleanup, demands, got, cnt, from_pos,
                       ret_pos, next, idx_list, normal_next, special_next,
                       saved, reallocatable, reallocated, inited, ended>>
    BY Types, <1>8
       DEF PackSkip, Goto, allocVars, innerVars, schedVars, progVars,
           outerVars, linkVars, slotVars, ctxVars, flagVars, primVars,
           tableVars
  <2>2. /\ OnlyFirst(t)'
        /\ Demand(t)'
        /\ Calls(t)'
        /\ SchedNext(t)'
        /\ Returned(t)'
    BY <2>1
       DEF Local, OnlyFirst, Demand, Calls, AllocLabels, SchedLabels,
           SchedNext, InSched, Returned
  <2>3. /\ Holds(t)'
        /\ RingBack(t)'
        /\ Initialised(t)'
        /\ RunsFirst(t)'
        /\ Links(t)'
    BY <2>1
       DEF Local, Holds, Free, RunsScav, RingBack, Initialised, RunsFirst,
           Links, Robbed, Settled
  <2> QED
    BY <2>2, <2>3 DEF Local
<1>9. CASE DispatchNext(t)
  <2>0. pc[t] = "dispatch" /\ normal_next[t][0] # FIN /\ next[t] = 0
    BY <1>9 DEF DispatchNext, Local, SchedNext, InSched, SchedLabels
  <2>1. /\ pc[t] = "dispatch" /\ normal_next[t][0] # FIN
        /\ \/ pc'[t] = "wild" /\ run'[t] = run[t]
           \/ /\ pc'[t] = "app" /\ run'[t] = saved[t][0]
              /\ Resumable(t, run'[t])
        /\ UNCHANGED <<cont, cleanup, demands, got, cnt, from_pos, idx_list,
                       normal_next, special_next, saved, reallocatable,
                       reallocated, inited, ended>>
    BY Types, <1>9, <2>0, FirstSlot
       DEF DispatchNext, Jump, Goto, allocVars, innerVars, linkVars, slotVars,
           ctxVars, flagVars, primVars, tableVars
  <2>2. /\ OnlyFirst(t)'
        /\ Demand(t)'
        /\ Calls(t)'
        /\ SchedNext(t)'
        /\ Returned(t)'
    BY <2>1
       DEF Local, OnlyFirst, Demand, Calls, AllocLabels, SchedLabels,
           SchedNext, InSched, Returned
  <2>3. /\ Holds(t)'
        /\ RingBack(t)'
        /\ Initialised(t)'
        /\ RunsFirst(t)'
        /\ Links(t)'
    BY <2>1, FirstSlot
       DEF Local, Holds, OnlyFirst, Free, RunsScav, RingBack, Initialised,
           RunsFirst, Links, Robbed, Settled
  <2> QED
    BY <2>2, <2>3 DEF Local
<1>10. CASE DispatchCleanup(t)
  <2>1. /\ pc[t] = "dispatch" /\ normal_next[t][0] = FIN
        /\ \/ pc'[t] = "wild" /\ run'[t] \in {run[t], PRIM}
           \/ /\ pc'[t] = "app" /\ run'[t] = saved[t][1] /\ ~Free(t)
              /\ Resumable(t, run'[t])
           \/ /\ pc'[t] = "cleanup" /\ run'[t] = PRIM
              /\ cleanup[t] # "no" /\ Free(t)
        /\ UNCHANGED <<cont, cleanup, demands, got, cnt, from_pos, idx_list,
                       normal_next, special_next, saved, reallocatable,
                       reallocated, inited, ended>>
    <3>1. PICK p \in Slots :
            /\ IsUnfinishedCrt(idx_list[t], p)
            /\ IF p # 0
               THEN Jump(t, saved[t][p])
               ELSE /\ run' = [run EXCEPT ![t] = PRIM]
                    /\ Goto(t, IF cleanup[t] = "no" THEN "wild" ELSE "cleanup")
      BY <1>10 DEF DispatchCleanup
    <3>2. p = IF Free(t) THEN 0 ELSE 1
      BY Types, <3>1, FirstSlot, FirstIsSlot
         DEF IsUnfinishedCrt, Local, OnlyFirst, Free, Occupied
    <3>3. /\ pc[t] = "dispatch" /\ normal_next[t][0] = FIN
          /\ UNCHANGED <<cont, cleanup, demands, got, cnt, from_pos, idx_list,
                         normal_next, special_next, saved, reallocatable,
                         reallocated, inited, ended>>
      BY <1>10
         DEF DispatchCleanup, allocVars, innerVars, linkVars, slotVars,
             ctxVars, flagVars, primVars, tableVars
    <3> QED
      BY Types, <3>1, <3>2, <3>3 DEF Jump, Goto
  <2>2. /\ OnlyFirst(t)'
        /\ Demand(t)'
        /\ Calls(t)'
        /\ SchedNext(t)'
        /\ Returned(t)'
    BY <2>1
       DEF Local, OnlyFirst, Resumable, Demand, Calls, RunsScav, AllocLabels,
           SchedLabels, SchedNext, InSched, Returned
  <2>3. /\ Holds(t)'
        /\ RingBack(t)'
        /\ Initialised(t)'
        /\ RunsFirst(t)'
        /\ Links(t)'
    BY <2>1
       DEF Local, Holds, Free, RunsScav, RingBack, Initialised, RunsFirst,
           Links, Robbed, Settled
  <2> QED
    BY <2>2, <2>3 DEF Local
<1>11. CASE FinishScav(t)
  <2>0. pc[t] = "finish" /\ ret_pos[t] = 1 /\ ~Free(t)
    BY Types, <1>11
       DEF FinishScav, CrtIdxAt, Local, OnlyFirst, Free
  <2>1. /\ pc'[t] = "close"
        /\ normal_next'[t][1] = FIN
        /\ \A p \in Slots \ {1} : normal_next'[t][p] = normal_next[t][p]
        /\ UNCHANGED <<run, cont, cleanup, demands, got, cnt, from_pos,
                       ret_pos, next, idx_list, special_next, saved,
                       reallocatable, reallocated, inited, ended>>
    BY Types, <1>11, <2>0, FirstSlot
       DEF FinishScav, Goto, allocVars, innerVars, progVars, slotVars,
           flagVars, tableVars
  <2>2. /\ OnlyFirst(t)'
        /\ Demand(t)'
        /\ Calls(t)'
        /\ SchedNext(t)'
        /\ Returned(t)'
    BY <2>0, <2>1, FirstSlot
       DEF Local, OnlyFirst, Demand, Free, Calls, AllocLabels, SchedLabels,
           SchedNext, InSched, Returned
  <2>3. /\ Holds(t)'
        /\ RingBack(t)'
        /\ Initialised(t)'
        /\ RunsFirst(t)'
        /\ Links(t)'
    BY <2>0, <2>1, FirstSlot
       DEF Local, Holds, Free, RunsScav, RingBack, Initialised, RunsFirst,
           Links, Robbed, Settled
  <2> QED
    BY <2>2, <2>3 DEF Local
<1> QED
  BY <1>1, <1>2, <1>3, <1>4, <1>5, <1>6, <1>7, <1>8, <1>9, <1>10, <1>11

\* Yields and the steps of msh_cleanup keep the invariant of the
\* thread that takes them.
LEMMA OwnProgram ==
    ASSUME MAX_SCAV <= 1, TypeOK, SharingInv, CapInv, NEW t \in Threads,
           \/ PrimaryYield(t) \/ ScavYield(t) \/ PthreadJoin(t)
           \/ StartRoutineReturns(t) \/ CleanupLoop(t)
    PROVE  Local(t)'
<1>0. /\ \A u \in Threads : Local(u)
      /\ Local(t) /\ Robs(t) /\ Placed /\ Symbols
  BY DEF CapInv
<1> USE <1>0
<1>1. CASE PrimaryYield(t)
  <2>0. /\ pc[t] = "app" /\ run[t] = PRIM
        /\ saved' = [saved EXCEPT ![t] = [saved[t] EXCEPT ![0] = PRIM]]
        /\ Jump(t, AtOffset([saved[t] EXCEPT ![0] = PRIM], normal_next[t][0]))
    BY <1>1 DEF PrimaryYield, RunsPrimary
  <2>1. /\ pc[t] = "app" /\ run[t] = PRIM /\ saved'[t][0] = PRIM
        /\ \A p \in Slots \ {0} : saved'[t][p] = saved[t][p]
        /\ \/ pc'[t] = "wild" /\ run'[t] = run[t]
           \/ /\ pc'[t] = "app" /\ run'[t] = PRIM
              /\ Resumable(t, run'[t])
           \/ /\ pc'[t] = "app" /\ run'[t] = saved[t][1]
              /\ normal_next[t][0] = YC
              /\ Resumable(t, run'[t])
        /\ UNCHANGED <<cont, cleanup, demands, got, cnt, from_pos, ret_pos,
                       next, idx_list, normal_next, special_next,
                       reallocatable, reallocated, inited, ended>>
    <3> DEFINE ctxs == [saved[t] EXCEPT ![0] = PRIM]
    <3>1. /\ ctxs[0] = PRIM
          /\ \A p \in Slots \ {0} : ctxs[p] = saved[t][p]
          /\ \A p \in Slots \ {0, 1} : ctxs[p] = ZERO
      BY Types, FirstSlot DEF Local, OnlyFirst
    <3> DEFINE c == AtOffset(ctxs, normal_next[t][0])
    <3>2. c \in {PRIM, ZERO} \/ (c = saved[t][1] /\ normal_next[t][0] = YC)
      <4> HIDE DEF ctxs
      <4> QED
        BY <3>1, Lands, FirstSlot DEF Local, Links
    <3>3. saved'[t] = ctxs
      BY Types, <2>0
    <3>4. Jump(t, c)
      BY <2>0
    <3> HIDE DEF ctxs, c
    <3>5. \/ pc'[t] = "wild" /\ run'[t] = run[t]
          \/ pc'[t] = "app" /\ run'[t] = c /\ Resumable(t, c)
      BY Types, <3>4 DEF Jump, Goto
    <3>6. ~Resumable(t, ZERO)
      BY FirstSlot DEF Resumable
    <3>7. UNCHANGED <<cont, cleanup, demands, got, cnt, from_pos, ret_pos,
                      next,
                      idx_list, normal_next, special_next, reallocatable,
                      reallocated, inited, ended>>
      BY <1>1
         DEF PrimaryYield, allocVars, innerVars, schedVars, linkVars,
             flagVars,
             tableVars
    <3> QED
      BY <2>0, <3>1, <3>2, <3>3, <3>5, <3>6, <3>7
  <2>2. /\ OnlyFirst(t)'
        /\ Demand(t)'
        /\ Calls(t)'
        /\ SchedNext(t)'
        /\ Returned(t)'
    BY <2>1, FirstSlot
       DEF Local, OnlyFirst, Resumable, Demand, Calls, AllocLabels,
           SchedLabels, SchedNext, InSched, Returned
  <2>3. /\ Holds(t)'
        /\ RingBack(t)'
        /\ Initialised(t)'
        /\ RunsFirst(t)'
        /\ Links(t)'
    BY <2>1, FirstSlot
       DEF Local, Holds, Free, Calls, RunsScav, RingBack, Initialised,
           RunsFirst, Links, Robbed, Settled, AllocLabels
  <2> QED
    BY <2>2, <2>3 DEF Local
<1>2. CASE ScavYield(t)
  <2>0. /\ pc[t] = "app" /\ run[t] \in Scavs
        /\ run[t] = idx_list[t][1] /\ ~Free(t)
        /\ crt_pos[LibOf[run[t]]] \in {1, YC}
        /\ saved[t][1] = run[t]
    <3>1. /\ pc[t] = "app" /\ run[t] \in Scavs
          /\ run[t] = idx_list[t][1] /\ ~Free(t)
      BY Types, <1>2, FirstSlot DEF ScavYield, Local, RunsFirst, RunsScav, Free
    <3>2. yc[run[t]] # NULL /\ run[t] \in Scavs
      BY <3>1, FirstSlot DEF SharingInv, ListedHosted, Free, RunsScav
    <3> QED
      BY <3>1, <3>2 DEF Symbols, Local, Holds
  <2>1. /\ pc[t] = "app" /\ run[t] \in Scavs /\ run[t] = idx_list[t][1]
        /\ saved'[t] = saved[t]
        /\ \/ pc'[t] = "wild" /\ run'[t] = run[t]
           \/ /\ pc'[t] = "app" /\ run'[t] = PRIM
              /\ Resumable(t, run'[t])
           \/ pc'[t] = "app" /\ run'[t] = run[t]
        /\ UNCHANGED <<cont, cleanup, demands, got, cnt, from_pos, ret_pos,
                       next, idx_list, normal_next, special_next,
                       reallocatable, reallocated, inited, ended>>
    <3>1. UNCHANGED <<cont, cleanup, demands, got, cnt, from_pos, ret_pos,
                      next,
                      idx_list, normal_next, special_next, reallocatable,
                      reallocated, inited, ended>>
      BY <1>2
         DEF ScavYield, allocVars, innerVars, schedVars, linkVars, flagVars,
             tableVars
    <3>2. CASE crt_pos[LibOf[run[t]]] = 1
      <4>1. 1 \div YC = 0 /\ 1 # YC * 0
        BY DEF YC
      <4>2. pc' = [pc EXCEPT ![t] = "wild"] /\ UNCHANGED <<run, saved>>
        BY <1>2, <3>2, <4>1 DEF ScavYield, Goto
      <4> QED
        BY Types, <2>0, <3>1, <4>2
    <3>3. CASE crt_pos[LibOf[run[t]]] = YC
      <4> DEFINE ctxs == [saved[t] EXCEPT ![1] = run[t]]
      <4>1. YC \div YC = 1 /\ YC = YC * 1
        BY DEF YC
      <4>2. PICK link : /\ saved' = [saved EXCEPT ![t] = ctxs]
                        /\ Jump(t, AtOffset(ctxs, link))
        BY <1>2, <3>3, <4>1 DEF ScavYield
      <4>3. ctxs = saved[t]
        BY Types, <2>0, FirstSlot
      <4>4. AtOffset(saved[t], link) \in {PRIM, ZERO, run[t]}
        BY <2>0, Lands DEF Local, OnlyFirst
      <4> HIDE DEF ctxs
      <4>5. PICK c \in {PRIM, ZERO, run[t]} : Jump(t, c)
        BY <4>2, <4>3, <4>4
      <4>6. \/ pc'[t] = "wild" /\ run'[t] = run[t]
            \/ pc'[t] = "app" /\ run'[t] = c /\ Resumable(t, c)
        BY Types, <4>5 DEF Jump, Goto
      <4>7. ~Resumable(t, ZERO)
        BY FirstSlot DEF Resumable
      <4>8. saved'[t] = saved[t]
        BY Types, <4>2, <4>3
      <4> QED
        BY <2>0, <3>1, <4>6, <4>7, <4>8
    <3> QED
      BY <2>0, <3>2, <3>3
  <2>2. /\ OnlyFirst(t)'
        /\ Demand(t)'
        /\ Calls(t)'
        /\ SchedNext(t)'
        /\ Returned(t)'
    BY <2>1
       DEF Local, OnlyFirst, Resumable, Demand, Calls, RunsScav, AllocLabels,
           SchedLabels, SchedNext, InSched, Returned
  <2>3. /\ Holds(t)'
        /\ RingBack(t)'
        /\ Initialised(t)'
        /\ RunsFirst(t)'
        /\ Links(t)'
    BY <2>1, FirstSlot
       DEF Local, Holds, Free, RunsScav, RingBack, Initialised, RunsFirst,
           Links, Robbed
  <2> QED
    BY <2>2, <2>3 DEF Local
<1>3. CASE PthreadJoin(t) /\ SKIP_CLEANUP
  <2>1. /\ pc[t] = "app"
        /\ UNCHANGED <<pc, run, cont, cleanup, demands, got, cnt, from_pos,
                       ret_pos, next, idx_list, normal_next, special_next,
                       saved, reallocatable, reallocated, inited, ended>>
    BY <1>3
       DEF PthreadJoin, RunsPrimary, allocVars, innerVars, schedVars,
           linkVars,
           slotVars, flagVars, tableVars
  <2>2. /\ OnlyFirst(t)'
        /\ Demand(t)'
        /\ Calls(t)'
        /\ SchedNext(t)'
        /\ Returned(t)'
    BY <2>1
       DEF Local, OnlyFirst, Demand, Calls, RunsScav, SchedNext, InSched,
           Returned
  <2>3. /\ Holds(t)'
        /\ RingBack(t)'
        /\ Initialised(t)'
        /\ RunsFirst(t)'
        /\ Links(t)'
    BY <2>1
       DEF Local, Holds, Free, RunsScav, RingBack, Initialised, RunsFirst,
           Links, Robbed, Settled
  <2> QED
    BY <2>2, <2>3 DEF Local
<1>4. CASE StartRoutineReturns(t) /\ SKIP_CLEANUP
  <2>1. /\ pc[t] = "app" /\ run[t] = PRIM /\ pc'[t] = "done"
        /\ UNCHANGED <<run, cont, cleanup, demands, got, cnt, from_pos,
                       ret_pos, next, idx_list, normal_next, special_next,
                       saved, reallocatable, reallocated, inited, ended>>
    BY Types, <1>4
       DEF StartRoutineReturns, Goto, RunsPrimary, allocVars, innerVars,
           schedVars, linkVars, slotVars, flagVars, tableVars
  <2>2. /\ OnlyFirst(t)'
        /\ Demand(t)'
        /\ Calls(t)'
        /\ SchedNext(t)'
        /\ Returned(t)'
    BY <2>1, FirstSlot
       DEF Local, OnlyFirst, Demand, Calls, RunsScav, AllocLabels,
           SchedLabels, SchedNext, InSched, Returned
  <2>3. /\ Holds(t)'
        /\ RingBack(t)'
        /\ Initialised(t)'
        /\ RunsFirst(t)'
        /\ Links(t)'
    BY <2>1
       DEF Local, Holds, Free, RunsScav, RingBack, Initialised, RunsFirst,
           Links, Robbed, Settled
  <2> QED
    BY <2>2, <2>3 DEF Local
<1>5. CASE (PthreadJoin(t) \/ StartRoutineReturns(t)) /\ ~SKIP_CLEANUP
  <2>1. /\ pc[t] = "app" /\ run[t] = PRIM /\ pc'[t] = "cleanup"
        /\ cleanup'[t] # "no"
        /\ \A p \in Slots \ {1} : normal_next'[t][p] = normal_next[t][p]
        /\ normal_next'[t][1] = IF normal_next[t][1] = FIN THEN FIN ELSE YC
        /\ UNCHANGED <<run, cont, demands, got, cnt, from_pos, ret_pos, next,
                       idx_list, saved, reallocatable, reallocated, inited,
                       ended>>
    <3>1. /\ pc[t] = "app" /\ run[t] = PRIM
          /\ UNCHANGED <<run, cont, demands, got, cnt, from_pos, ret_pos, next,
                         idx_list, saved, reallocatable, reallocated, inited,
                         ended>>
      BY <1>5
         DEF PthreadJoin, StartRoutineReturns, RunsPrimary, allocVars,
             innerVars, schedVars, linkVars, slotVars, flagVars, tableVars
    <3>2. /\ pc'[t] = "cleanup" /\ cleanup'[t] # "no"
          /\ normal_next'[t] = SelfLinks(normal_next[t], normal_next[t])
      BY Types, <1>5 DEF PthreadJoin, StartRoutineReturns, BeginCleanup, Goto
    <3> QED
      BY <3>1, <3>2, SelfLinksFirst, FirstSlot DEF Local, OnlyFirst
  <2>2. /\ OnlyFirst(t)'
        /\ Demand(t)'
        /\ Calls(t)'
        /\ SchedNext(t)'
        /\ Returned(t)'
    BY <2>1
       DEF Local, OnlyFirst, Demand, Calls, AllocLabels, SchedLabels,
           SchedNext, InSched, Returned
  <2>3. /\ Holds(t)'
        /\ RingBack(t)'
        /\ Initialised(t)'
        /\ RunsFirst(t)'
        /\ Links(t)'
    BY <2>1, FirstSlot
       DEF Local, Holds, Free, RunsScav, RingBack, Initialised, RunsFirst,
           Links, Robbed, Settled
  <2> QED
    BY <2>2, <2>3 DEF Local
<1>6. CASE CleanupLoop(t)
  <2>0. HasOccupied(idx_list[t]) <=> ~Free(t)
    BY FirstIsSlot, FirstSlot DEF Local, OnlyFirst, Free
  <2>1. /\ pc[t] = "cleanup"
        /\ \/ /\ pc'[t] = "finish" /\ ret_pos'[t] = 0
              /\ UNCHANGED <<cleanup, normal_next>>
           \/ /\ Free(t) /\ pc'[t] \in {"done", "app"} /\ cleanup'[t] = "no"
              /\ normal_next'[t][0] = 0
              /\ \A p \in Slots \ {0} : normal_next'[t][p] = normal_next[t][p]
              /\ UNCHANGED <<ret_pos, next>>
        /\ UNCHANGED <<run, cont, demands, got, cnt, from_pos, idx_list,
                       special_next, saved, reallocatable, reallocated, inited,
                       ended>>
    BY Types, <2>0, <1>6, FirstSlot
       DEF CleanupLoop, Goto, allocVars, innerVars, schedVars, slotVars,
           flagVars, tableVars
  <2>2. /\ OnlyFirst(t)'
        /\ Demand(t)'
        /\ Calls(t)'
        /\ SchedNext(t)'
        /\ Returned(t)'
    BY <2>1
       DEF Local, OnlyFirst, Demand, Calls, AllocLabels, SchedLabels,
           SchedNext, InSched, Returned
  <2>3. /\ Holds(t)'
        /\ RingBack(t)'
        /\ Initialised(t)'
        /\ RunsFirst(t)'
        /\ Links(t)'
    BY <2>1, FirstSlot
       DEF Local, Holds, Free, Calls, RunsScav, RingBack, Initialised,
           RunsFirst, Links, Robbed, Settled
  <2> QED
    BY <2>2, <2>3 DEF Local
<1> QED
  BY <1>1, <1>2, <1>3, <1>4, <1>5, <1>6

-----------------------------------------------------------------------------
(* One thread's step and the others.                                       *)

\* A step leaves the context and the locals of thread u alone; what it
\* initialises or ends stays so.
Untouched(u) ==
    /\ pc'[u] = pc[u] /\ run'[u] = run[u] /\ cont'[u] = cont[u]
    /\ cleanup'[u] = cleanup[u] /\ demands'[u] = demands[u]
    /\ got'[u] = got[u] /\ cnt'[u] = cnt[u] /\ tid'[u] = tid[u]
    /\ item'[u] = item[u] /\ from_pos'[u] = from_pos[u]
    /\ ret_pos'[u] = ret_pos[u] /\ next'[u] = next[u]
    /\ idx_list'[u] = idx_list[u] /\ saved'[u] = saved[u]
    /\ normal_next'[u] = normal_next[u] /\ special_next'[u] = special_next[u]
    /\ reallocatable'[u] = reallocatable[u]
    /\ reallocated'[u] = reallocated[u]

\* What is initialised or has returned stays so.
Monotone ==
    /\ \A s \in Scavs : inited[s] => inited'[s]
    /\ ended \subseteq ended'

\* The steps of realloc_scav that write to the victim's context or flag.
Robbing(t) ==
    \/ ScanCapture(t) \/ StealPop(t) \/ StealPush(t) \/ StealRollback(t)
    \/ ReleaseVictim(t)

\* Only a thief writes to the context of another thread, its victim's.
LEMMA OthersUntouched ==
    ASSUME TypeOK, NEW t \in Threads, Runtime(t) \/ Program(t)
    PROVE  /\ \A u \in Threads \ {t} :
                 /\ pc'[u] = pc[u]
                 /\ Untouched(u) \/ (u = tid[t] /\ Robbing(t))
           /\ Monotone
<1>1. CASE MshAllocCtx(t) \/ AllocateScav(t) \/ AllocLock(t) \/ ScanSkip(t) \/
   ScanEnd(t) \/ StealEnd(t)
  BY Types, <1>1 DEF Untouched, Monotone, MshAllocCtx, AllocateScav,
     AllocLock,
     ScanSkip, ScanEnd, StealEnd, Goto, allocVars, innerVars, schedVars,
     progVars, outerVars, linkVars, slotVars, ctxVars, flagVars, primVars,
     tableVars
<1>2. CASE PoolPick(t) \/ PoolTake(t) \/ PoolEnd(t) \/ AllocUnlock(t) \/
   CallInit(t) \/ CallInitLost(t)
  BY Types, <1>2 DEF Untouched, Monotone, PoolPick, PoolTake, PoolEnd,
     AllocUnlock, CallInit, CallInitLost, Goto, allocVars, innerVars,
     schedVars, progVars,
     outerVars, linkVars, slotVars, ctxVars, flagVars, primVars, tableVars
<1>3. CASE ResumeStart(t) \/ ResumeSched(t) \/ ResumeExit(t)
  BY Types, <1>3 DEF Untouched, Monotone, ResumeStart, ResumeSched,
     ResumeExit,
     Goto, DropAllocLocals, allocVars, innerVars, schedVars, progVars,
     outerVars, linkVars, slotVars, ctxVars, flagVars, primVars, tableVars
<1>4. CASE EnterBlockableCall(t) \/ Unblock(t) \/ ExitBlockableCall(t)
  BY Types, <1>4 DEF Untouched, Monotone, EnterBlockableCall, Unblock,
     ExitBlockableCall, Goto, TakeFlag, allocVars, innerVars, schedVars,
     progVars, outerVars, linkVars, slotVars, ctxVars, flagVars, primVars,
     tableVars
<1>5. CASE FinishPrimary(t) \/ FinishScav(t) \/ FinishLock(t) \/ RetireScav(t) \/
   PackLock(t) \/ SwapCrts(t) \/ PackEnd(t) \/ PackSkip(t)
  BY Types, <1>5
     DEF Untouched, Monotone, FinishPrimary, FinishScav, FinishLock,
         RetireScav,
     PackLock, SwapCrts, PackEnd, PackSkip, Goto, allocVars, innerVars,
     schedVars, progVars, outerVars, linkVars, slotVars, ctxVars, flagVars,
     primVars, tableVars
<1>6. CASE DispatchNext(t) \/ DispatchCleanup(t) \/ PrimaryYield(t) \/
   ScavYield(t) \/ ScavReturn(t)
  BY Types, <1>6 DEF Untouched, Monotone, DispatchNext, DispatchCleanup,
     PrimaryYield, ScavYield, ScavReturn, Goto, Jump, DropSchedLocals,
     allocVars, innerVars, schedVars, progVars, outerVars, linkVars, slotVars,
     ctxVars, flagVars, primVars, tableVars
<1>7. CASE PthreadJoin(t) \/ StartRoutineReturns(t) \/ CleanupLoop(t)
  BY Types, <1>7 DEF Untouched, Monotone, PthreadJoin, StartRoutineReturns,
     CleanupLoop, Goto, BeginCleanup, allocVars, innerVars, schedVars,
     progVars, outerVars, linkVars, slotVars, ctxVars, flagVars, primVars,
     tableVars
<1>8. CASE ScanCapture(t) \/ ReleaseVictim(t)
  BY Types, <1>8 DEF Untouched, Monotone, ScanCapture, ReleaseVictim, Goto,
     TakeFlag, GiveFlag, Robbing, allocVars, innerVars, schedVars, progVars,
     outerVars, linkVars, slotVars, ctxVars, flagVars, primVars, tableVars
<1>9. CASE StealPop(t) \/ StealRollback(t)
  BY Types, <1>9 DEF Untouched, Monotone, StealPop, StealRollback, Goto,
     Robbing, allocVars, innerVars, schedVars, progVars, outerVars, linkVars,
     slotVars, ctxVars, flagVars, primVars, tableVars
<1>10. CASE StealPush(t)
  <2>1. Monotone
    BY <1>10
       DEF Monotone, StealPush, allocVars, innerVars, schedVars, progVars,
           outerVars, linkVars, slotVars, ctxVars, flagVars, primVars,
           tableVars
  <2>2. ASSUME NEW u \in Threads \ {t, tid[t]}
        PROVE  Untouched(u)
    <3>1. /\ idx_list'[u] = idx_list[u] /\ saved'[u] = saved[u]
          /\ normal_next'[u] = normal_next[u]
      BY Types, <1>10 DEF StealPush, CopyCtx
    <3>2. UNCHANGED <<run, cont, cleanup, demands, got, tid, from_pos, ret_pos,
                      next, special_next, reallocatable>>
      BY <1>10
         DEF StealPush, allocVars, innerVars, schedVars, progVars, outerVars,
             linkVars, slotVars, ctxVars, flagVars, primVars, tableVars
    <3>3. /\ pc'[u] = pc[u] /\ cnt'[u] = cnt[u] /\ item'[u] = item[u]
          /\ reallocated'[u] = reallocated[u]
      <4>1. /\ pc' = [pc EXCEPT ![t] = "steal"]
            /\ cnt' = [cnt EXCEPT ![t] = cnt[t] + 1]
            /\ item' = [item EXCEPT ![t] = EMPTY]
            /\ reallocated' = [reallocated EXCEPT ![tid[t]] = TRUE]
        BY <1>10 DEF StealPush, Goto
      <4> QED
        BY Types, <4>1
    <3> QED
      BY <3>1, <3>2, <3>3 DEF Untouched
  <2> QED
    BY Types, <1>10, <2>1, <2>2 DEF Robbing, StealPush, Goto
<1> QED
  BY <1>1, <1>2, <1>3, <1>4, <1>5, <1>6, <1>7, <1>8, <1>9, <1>10 DEF Runtime,
     Program

\* A thread that is left alone keeps its invariant.
LEMMA Bystander ==
    ASSUME TypeOK, NEW u \in Threads, Local(u), Untouched(u), Monotone
    PROVE  Local(u)'
<1>1. idx_list[u][1] \in Scavs \cup {EMPTY}
  BY FirstSlot DEF TypeOK
<1>2. OnlyFirst(u)' /\ Demand(u)'
  BY DEF Local, Untouched, OnlyFirst, Demand, Free
<1>3. Calls(u)' /\ SchedNext(u)'
  BY DEF Local, Untouched, Calls, SchedNext, InSched, RunsScav
<1>4. Returned(u)' /\ Initialised(u)'
  BY <1>1, FirstSlot
     DEF Local, Untouched, Monotone, Returned, Initialised, Free
<1>5. Holds(u)' /\ RingBack(u)' /\ RunsFirst(u)'
  BY DEF Local, Untouched, Holds, RingBack, RunsFirst, RunsScav, Free
<1>6. Links(u)'
  BY DEF Local, Untouched, Links, Settled, Robbed, Free
<1> QED
  BY <1>2, <1>3, <1>4, <1>5, <1>6 DEF Local

\* The victim of a theft is parked: its flag, its list and its links change
\* under it, and when the flag is given back they are in order.
LEMMA Victim ==
    ASSUME MAX_SCAV <= 1, TypeOK, SharingInv, CapInv, NEW t \in Threads,
           NEW v \in Threads \ {t}, v = tid[t], Robbing(t)
    PROVE  Local(v)'
<1>0. Local(v) /\ Local(t) /\ Robs(t) /\ pc[v] \in {"blocked", "exit"}
  BY DEF Robbing, ScanCapture, TakeFlag, StealPop, StealPush, StealRollback,
         ReleaseVictim, SharingInv, ThiefExclusive, FlagParked, CapInv
<1>2. ASSUME pc'[v] = pc[v], idx_list'[v][1] \in {idx_list[v][1], EMPTY},
             normal_next'[v][0] = normal_next[v][0],
             UNCHANGED <<run, cont, cleanup, ret_pos, next, special_next,
                         inited, ended>>,
             OnlyFirst(v)', Holds(v)', Links(v)'
      PROVE  Local(v)'
  <2>1. Demand(v)' /\ Returned(v)' /\ RunsFirst(v)'
    BY <1>0, <1>2 DEF Demand, Returned, RunsFirst, RunsScav
  <2>2. Calls(v)' /\ SchedNext(v)'
    BY <1>0, <1>2 DEF Local, Calls, SchedNext, InSched, RunsScav, SchedLabels
  <2>3. RingBack(v)' /\ Initialised(v)'
    BY <1>0, <1>2 DEF Local, RingBack, Initialised, Free
  <2> QED
    BY <1>2, <2>1, <2>2, <2>3 DEF Local
<1>3. ASSUME pc'[v] = pc[v], UNCHANGED <<idx_list, normal_next, saved, run,
                                         reallocated, cont, cleanup, ret_pos,
                                         next, special_next, inited, ended>>,
             reallocatable'[v] => Robbed(v)
      PROVE  Local(v)'
  <2>1. OnlyFirst(v)' /\ Holds(v)'
    BY <1>0, <1>3 DEF Local, OnlyFirst, Holds, Free
  <2>2. Links(v)'
    BY <1>0, <1>3 DEF Local, Links, Settled, Robbed, Free
  <2> QED
    BY <1>2, <1>3, <2>1, <2>2
<1>4. CASE ScanCapture(t)
  <2>1. pc'[v] = pc[v] /\ ~reallocatable'[v]
    BY Types, <1>4 DEF ScanCapture, TakeFlag, Goto
  <2>2. UNCHANGED <<idx_list, normal_next, saved, run, reallocated, cont,
                    cleanup, ret_pos, next, special_next, inited, ended>>
    BY <1>4
       DEF ScanCapture, allocVars, innerVars, schedVars, progVars, outerVars,
           linkVars,
             slotVars, ctxVars, flagVars, primVars, tableVars
  <2> QED
    BY <1>3, <2>1, <2>2
<1>5. CASE StealPop(t)
  <2>1. PICK p \in Positions :
          /\ IsLastOccupied(idx_list[v], p)
          /\ idx_list' = [idx_list EXCEPT ![v][p] = EMPTY]
    BY <1>5 DEF StealPop
  <2>2. p = 1
    BY <1>0, <2>1, FirstIsSlot DEF Local, OnlyFirst
  <2>3. /\ idx_list'[v][1] = EMPTY
        /\ \A q \in Slots \ {1} : idx_list'[v][q] = idx_list[v][q]
    BY Types, <2>1, <2>2, FirstSlot
  <2>4. /\ pc'[v] = pc[v] /\ ~reallocatable'[v]
        /\ UNCHANGED <<normal_next, saved, run, reallocated, cont, cleanup,
                       ret_pos, next, special_next, inited, ended>>
    BY Types, <1>5
       DEF StealPop, Goto, SharingInv, ThiefExclusive, allocVars, innerVars,
           schedVars, progVars, outerVars, linkVars,
             slotVars, ctxVars, flagVars, primVars, tableVars
  <2>5. OnlyFirst(v)' /\ Holds(v)'
    BY <1>0, <2>3, <2>4 DEF Local, OnlyFirst, Holds, Free
  <2>6. Links(v)'
    BY <1>0, <2>4 DEF Local, Links, Settled
  <2> QED
    BY <1>2, <2>3, <2>4, <2>5, <2>6
<1>6. CASE StealPush(t)
  <2>1. /\ pc[t] = "push" /\ from_pos[t] = 1 /\ item[t] \in Scavs
        /\ ~reallocatable[v] /\ Free(v)
    BY <1>0, <1>6, FirstSlot
       DEF StealPush, Local, Demand, Robs, Holds, Free, SharingInv,
           PoppedUnlisted, ThiefExclusive
  <2>2. PICK p \in Positions :
          /\ idx_list' = [idx_list EXCEPT ![t][p] = item[t]]
          /\ saved' = [saved EXCEPT ![t][p] = saved[v][from_pos[t]]]
          /\ normal_next' = [normal_next EXCEPT ![t][p] = 0, ![t][0] = YC,
                                                ![v][from_pos[t]] = FIN]
    BY <1>6 DEF StealPush, CopyCtx
  <2>3. idx_list'[v] = idx_list[v] /\ saved'[v] = saved[v]
    BY Types, <2>2
  <2>4. normal_next'[v] = [normal_next[v] EXCEPT ![1] = FIN]
    BY Types, <2>1, <2>2
  <2>5. /\ normal_next'[v][1] = FIN
        /\ \A q \in Slots \ {1} : normal_next'[v][q] = normal_next[v][q]
    BY Types, <2>4, FirstSlot
  <2>6. /\ UNCHANGED <<run, reallocatable, cont, cleanup, ret_pos, next,
                       special_next, inited, ended>>
        /\ pc' = [pc EXCEPT ![t] = "steal"]
    BY <1>6
       DEF StealPush, Goto, allocVars, innerVars, schedVars, progVars,
           outerVars, linkVars,
             slotVars, ctxVars, flagVars, primVars, tableVars
  <2>7. OnlyFirst(v)' /\ Holds(v)'
    BY <1>0, <2>1, <2>3, <2>5, <2>6 DEF Local, OnlyFirst, Holds, Free
  <2>8. Links(v)'
    BY <1>0, Types, <2>1, <2>5, <2>6, FirstSlot DEF Local, Links, Settled
  <2> QED
    BY Types, <1>2, <2>3, <2>5, <2>6, <2>7, <2>8, FirstSlot
<1>7. CASE StealRollback(t)
  <2>1. pc[t] = "push" /\ ~HasFree(idx_list[t]) /\ Free(t)
    BY <1>0, <1>7 DEF StealRollback, Local, Demand
  <2> QED
    BY <1>0, <2>1, FirstIsSlot, FirstSlot DEF Local, OnlyFirst, Free
<1>8. CASE ReleaseVictim(t)
  <2>1. pc'[v] = pc[v] /\ Robbed(v)
    BY <1>0, Types, <1>8 DEF ReleaseVictim, Goto, Robs
  <2>2. UNCHANGED <<idx_list, normal_next, saved, run, reallocated, cont,
                    cleanup, ret_pos, next, special_next, inited, ended>>
    BY <1>8
       DEF ReleaseVictim, allocVars, innerVars, schedVars, progVars,
           outerVars,
           linkVars,
             slotVars, ctxVars, flagVars, primVars, tableVars
  <2> QED
    BY <1>3, <2>1, <2>2
<1> QED
  BY <1>4, <1>5, <1>6, <1>7, <1>8 DEF Robbing

\* A parked thread without its flag can only come back from the pthread call.
LEMMA ParkedStays ==
    ASSUME NEW t \in Threads, Runtime(t) \/ Program(t),
           pc[t] \in {"blocked", "exit"}, ~reallocatable[t]
    PROVE  Unblock(t)
<1>1. Runtime(t) => ExitBlockableCall(t)
  BY DEF Runtime, MshAllocCtx, AllocateScav, AllocLock, ScanSkip, ScanCapture,
         ScanEnd, StealPop, StealPush, StealRollback, StealEnd, ReleaseVictim,
         PoolPick, PoolTake, PoolEnd, AllocUnlock, CallInit, CallInitLost,
         ResumeStart, ResumeSched, ResumeExit, FinishPrimary, FinishScav,
         FinishLock, RetireScav,
         PackLock, SwapCrts, PackEnd, PackSkip, DispatchNext, DispatchCleanup,
         CleanupLoop
<1>2. Program(t) => Unblock(t)
  BY DEF Program, PrimaryYield, ScavYield, ScavReturn, EnterBlockableCall,
         PthreadJoin, StartRoutineReturns, RunsPrimary, RunsScav
<1> QED
  BY <1>1, <1>2 DEF ExitBlockableCall, TakeFlag

\* A theft begins with ScanCapture and goes on with its own steps.
LEMMA TheftSteps ==
    ASSUME TypeOK, NEW t \in Threads, Runtime(t) \/ Program(t),
           pc'[t] \in {"steal", "push", "release"}
    PROVE  \/ ScanCapture(t) \/ StealPop(t) \/ StealPush(t)
           \/ StealRollback(t) \/ StealEnd(t)
<1>1. ~\/ MshAllocCtx(t) \/ AllocateScav(t) \/ AllocLock(t) \/ ScanSkip(t)
       \/ ScanEnd(t) \/ ReleaseVictim(t) \/ PoolPick(t) \/ PoolTake(t)
       \/ PoolEnd(t) \/ AllocUnlock(t) \/ CallInit(t) \/ CallInitLost(t)
  BY Types DEF MshAllocCtx, AllocateScav, AllocLock, ScanSkip, ScanEnd,
              ReleaseVictim, PoolPick, PoolTake, PoolEnd, AllocUnlock,
              CallInit, CallInitLost, Goto
<1>2. ~\/ ResumeStart(t) \/ ResumeSched(t) \/ ResumeExit(t)
       \/ ExitBlockableCall(t) \/ FinishPrimary(t) \/ FinishScav(t)
       \/ FinishLock(t) \/ RetireScav(t) \/ PackLock(t) \/ SwapCrts(t) \/ PackEnd(t)
       \/ PackSkip(t) \/ DispatchNext(t) \/ DispatchCleanup(t)
       \/ CleanupLoop(t)
  BY Types DEF ResumeStart, ResumeSched, ResumeExit, ExitBlockableCall,
              FinishPrimary, FinishScav, FinishLock, RetireScav, PackLock,
              SwapCrts,
              PackEnd, PackSkip, DispatchNext, DispatchCleanup, CleanupLoop,
              Jump, Goto
<1>3. ~Program(t)
  BY Types DEF Program, PrimaryYield, ScavYield, ScavReturn,
              EnterBlockableCall, Unblock, PthreadJoin, StartRoutineReturns,
              BeginCleanup, RunsPrimary, RunsScav, Jump, Goto
<1> QED
  BY <1>1, <1>2, <1>3 DEF Runtime

\* A thief leaves no link of its victim to the slot it emptied, or tells it.
LEMMA StepRobs ==
    ASSUME MAX_SCAV <= 1, TypeOK, SharingInv, CapInv, NEW t \in Threads,
           Runtime(t) \/ Program(t), NEW u \in Threads
    PROVE  Robs(u)'
<1>1. SUFFICES ASSUME pc'[u] \in {"steal", "push", "release"}
               PROVE  Robs(u)'
  BY DEF Robs
<1>2. CASE u # t
  <2>w. PICK w : w = tid[u]
    OBVIOUS
  <2>1. pc'[u] = pc[u]
    BY <1>2, OthersUntouched
  <2>2. /\ scav_table_lock = u /\ w \in Threads \ {u} /\ ~reallocatable[w]
        /\ pc[w] \in {"blocked", "exit"} /\ Robs(u)
    BY <1>1, <2>1, <2>w DEF SharingInv, ThiefExclusive, CapInv
  <2>3. ~Robbing(t)
    BY <1>2, <2>2 DEF Robbing, ScanCapture, StealPop, StealPush,
       StealRollback, ReleaseVictim, SharingInv, LockHeld, Critical
  <2>4. Untouched(u) /\ Monotone
    BY <1>2, <2>3, OthersUntouched
  <2>5. /\ idx_list'[w] = idx_list[w] /\ normal_next'[w] = normal_next[w]
        /\ saved'[w] = saved[w] /\ reallocated'[w] = reallocated[w]
    <3>1. CASE w = t
      <4>1. Unblock(t)
        BY <2>2, <3>1, ParkedStays
      <4> QED
        BY <3>1, <4>1
           DEF Unblock, primVars, ctxVars, slotVars, linkVars, flagVars
    <3>2. CASE w # t
      BY <2>2, <2>3, <3>2, OthersUntouched DEF Untouched
    <3> QED
      BY <3>1, <3>2
  <2>6. pc[u] = "push" => item[u] \in Scavs
    BY DEF SharingInv, PoppedUnlisted
  <2>7. tid'[u] = w
    BY <2>4, <2>w DEF Untouched
  <2>8. Robbed(w) => Robbed(w)'
    BY <2>5 DEF Robbed, Free
  <2> QED
    BY <2>2, <2>4, <2>5, <2>6, <2>7, <2>8, <2>w DEF Robs, Untouched, Monotone
<1>3. CASE u = t
  <2>v. PICK v : v = tid[t]
    OBVIOUS
  <2>0. Local(t) /\ Robs(t) /\ \A x \in Threads : Local(x)
    BY DEF CapInv
  <2>1. CASE ScanCapture(t)
    <3>1. v \in Threads /\ reallocatable[v] /\ tid'[t] = v /\ pc'[t] = "steal"
      BY Types, <2>1, <2>v DEF ScanCapture, TakeFlag, Goto
    <3>2. UNCHANGED <<idx_list, normal_next, reallocated>>
      BY <2>1 DEF ScanCapture, ctxVars, slotVars, linkVars
    <3>3. Robbed(v)
      BY <2>0, <3>1 DEF Local, Links, Settled
    <3>4. Robbed(v)'
      BY <3>2, <3>3 DEF Robbed, Free
    <3> QED
      BY <1>3, <3>1, <3>4 DEF Robs
  <2>2. CASE StealPop(t)
    <3>1. /\ v \in Threads \ {t} /\ pc[v] \in {"blocked", "exit"}
          /\ \A q \in Slots \ {1} : idx_list[v][q] = EMPTY
      BY <2>0, <2>2, <2>v
         DEF StealPop, SharingInv, ThiefExclusive, Local, OnlyFirst
    <3>2. PICK p \in Positions :
            /\ IsLastOccupied(idx_list[v], p)
            /\ item' = [item EXCEPT ![t] = idx_list[v][p]]
      BY <2>2, <2>v DEF StealPop
    <3>3. p = 1 /\ idx_list[v][1] # EMPTY
      BY <3>1, <3>2, FirstIsSlot
    <3>4. /\ saved[v][1] = idx_list[v][1]
          /\ idx_list[v][1] \in HasInit => inited[idx_list[v][1]]
      BY <2>0, <3>1, <3>3 DEF Local, Holds, Initialised, Free
    <3>5. /\ pc'[t] = "push" /\ tid'[t] = v /\ UNCHANGED <<saved, inited>>
          /\ item'[t] = idx_list[v][1]
      BY Types, <2>2, <2>v, <3>2, <3>3 DEF StealPop, Goto, tableVars
    <3> QED
      BY <1>3, <3>4, <3>5 DEF Robs
  <2>3. CASE StealPush(t)
    <3>1. /\ pc[t] = "push" /\ v \in Threads \ {t} /\ from_pos[t] = 1
      BY <2>0, <2>3, <2>v
         DEF StealPush, SharingInv, ThiefExclusive, Local, Demand
    <3>2. PICK p \in Positions :
            normal_next' = [normal_next EXCEPT ![t][p] = 0, ![t][0] = YC,
                                               ![v][from_pos[t]] = FIN]
      BY <2>3, <2>v DEF StealPush
    <3>3. normal_next'[v][1] = FIN
      BY Types, <3>1, <3>2, FirstSlot
    <3>4. reallocated'[v]
      BY Types, <2>3, <2>v, <3>1 DEF StealPush
    <3>5. pc'[t] = "steal" /\ tid'[t] = v
      BY Types, <2>3, <2>v DEF StealPush, Goto
    <3> QED
      BY <1>3, <3>3, <3>4, <3>5 DEF Robs, Robbed
  <2>4. CASE StealRollback(t)
    <3>1. pc[t] = "push" /\ ~HasFree(idx_list[t]) /\ Free(t)
      BY <2>0, <2>4 DEF StealRollback, Local, Demand
    <3> QED
      BY <2>0, <3>1, FirstIsSlot, FirstSlot DEF Local, OnlyFirst, Free
  <2>5. CASE StealEnd(t)
    <3>1. /\ pc[t] = "steal" /\ pc'[t] = "release" /\ tid'[t] = v
          /\ UNCHANGED <<idx_list, normal_next, reallocated>>
      BY Types, <2>5, <2>v
         DEF StealEnd, Goto, primVars, ctxVars, slotVars, linkVars, flagVars,
             innerVars, allocVars
    <3>2. Robbed(v)'
      BY <2>0, <2>v, <3>1 DEF Robs, Robbed, Free
    <3> QED
      BY <1>3, <3>1, <3>2 DEF Robs
  <2> QED
    BY <1>1, <1>3, <2>1, <2>2, <2>3, <2>4, <2>5, TheftSteps
<1> QED
  BY <1>2, <1>3

-----------------------------------------------------------------------------
(* SCAV_TABLE.                                                             *)

TableSteps(t) ==
    StealPop(t) \/ StealPush(t) \/ PoolTake(t) \/ RetireScav(t)

\* The other steps do not touch lists, SCAV_TABLE or crt_pos.
LEMMA TableKept ==
    ASSUME MAX_SCAV <= 1, TypeOK, SharingInv, CapInv, NEW t \in Threads,
           Runtime(t) \/ Program(t), ~TableSteps(t)
    PROVE  /\ UNCHANGED <<idx_list, yc, finished, crt_pos>>
           /\ \A u \in Threads : pc[u] = "push" =>
                 pc'[u] = "push" /\ item'[u] = item[u]
<1>0. pc \in [Threads -> Labels] /\ Local(t)
  BY DEF TypeOK, CapInv
<1>1. ~StealRollback(t) /\ ~SwapCrts(t)
  <2>1. ~SwapCrts(t)
    BY <1>0 DEF SwapCrts, Local, Calls
  <2>2. ~StealRollback(t)
    BY <1>0, FirstIsSlot, FirstSlot
       DEF StealRollback, Local, Demand, OnlyFirst, Free
  <2> QED
    BY <2>1, <2>2
<1>2. ASSUME Runtime(t)
      PROVE  UNCHANGED <<idx_list, yc, finished, crt_pos>> /\ pc[t] # "push"
  BY <1>1, <1>2 DEF TableSteps, Runtime, MshAllocCtx, AllocateScav, AllocLock,
     ScanSkip, ScanCapture, ScanEnd, StealEnd, ReleaseVictim, PoolPick,
     PoolEnd, AllocUnlock, CallInit, CallInitLost, ResumeStart, ResumeSched,
     ResumeExit, ExitBlockableCall, FinishPrimary, FinishScav, FinishLock,
     PackLock, PackEnd,
     PackSkip, DispatchNext, DispatchCleanup, CleanupLoop, primVars, ctxVars,
     slotVars, tableVars
<1>3. ASSUME Program(t)
      PROVE  UNCHANGED <<idx_list, yc, finished, crt_pos>> /\ pc[t] # "push"
  BY <1>3 DEF Program, PrimaryYield, ScavYield, ScavReturn,
     EnterBlockableCall, Unblock, PthreadJoin, StartRoutineReturns,
     RunsPrimary, RunsScav, primVars, ctxVars, slotVars, tableVars
<1>4. ASSUME NEW u \in Threads \ {t}, pc[u] = "push"
      PROVE  pc'[u] = "push" /\ item'[u] = item[u]
  <2>1. pc'[u] = pc[u] /\ (Untouched(u) \/ (u = tid[t] /\ Robbing(t)))
    BY OthersUntouched
  <2>2. ~(u = tid[t] /\ Robbing(t))
    BY <1>4 DEF Robbing, ScanCapture, TakeFlag, StealPop, StealPush,
       StealRollback, ReleaseVictim, SharingInv, ThiefExclusive, FlagParked
  <2> QED
    BY <1>4, <2>1, <2>2 DEF Untouched
<1> QED
  BY <1>2, <1>3, <1>4

\* Theft, allocation and retirement keep lists, SCAV_TABLE and crt_pos
\* together.
LEMMA StepPlaced ==
    ASSUME MAX_SCAV <= 1, TypeOK, SharingInv, CapInv, NEW t \in Threads,
           Runtime(t) \/ Program(t)
    PROVE  Placed' /\ Symbols' /\ FinishedReturned'
<1>1. /\ \A u \in Threads : Local(u)
      /\ Local(t) /\ Placed /\ Symbols /\ FinishedReturned
  BY DEF CapInv
<1>2. ended \subseteq ended'
  BY OthersUntouched DEF Monotone
<1>3. CASE ~TableSteps(t)
  <2>1. /\ UNCHANGED <<idx_list, yc, finished, crt_pos>>
        /\ \A u \in Threads : pc[u] = "push" =>
              pc'[u] = "push" /\ item'[u] = item[u]
    BY <1>3, TableKept
  <2>2. Placed'
    BY <1>1, <2>1 DEF Placed
  <2>3. Symbols' /\ FinishedReturned'
    BY <1>1, <1>2, <2>1 DEF Symbols, FinishedReturned
  <2> QED
    BY <2>2, <2>3
<1>4. CASE StealPop(t)
  <2>1. /\ pc[t] = "steal" /\ tid[t] \in Threads \ {t}
        /\ scav_table_lock = t
    BY <1>4 DEF StealPop, SharingInv, ThiefExclusive
  <2>2. PICK p \in Positions :
          /\ IsLastOccupied(idx_list[tid[t]], p)
          /\ item' = [item EXCEPT ![t] = idx_list[tid[t]][p]]
          /\ idx_list' = [idx_list EXCEPT ![tid[t]][p] = EMPTY]
    BY <1>4 DEF StealPop
  <2>3. p = 1
    BY <1>1, <2>1, <2>2, FirstIsSlot DEF Local, OnlyFirst
  <2>4. /\ pc'[t] = "push" /\ UNCHANGED <<yc, finished, crt_pos>>
        /\ item'[t] = idx_list[tid[t]][1]
        /\ \A u \in Threads \ {tid[t]} : idx_list'[u] = idx_list[u]
    BY Types, <1>4, <2>1, <2>2, <2>3 DEF StealPop, Goto, tableVars
  <2>5. \A u \in Threads : pc[u] # "push"
    BY <2>1 DEF SharingInv, LockHeld, Critical
  <2>6. Placed'
    <3>1. \A s \in Scavs : yc[s] # NULL =>
             yc[s][1] \in Threads /\ yc[s][2] = 1 /\ idx_list[yc[s][1]][1] = s
      BY Types, <1>1, <2>5 DEF Placed
    <3> QED
      BY <2>4, <3>1 DEF Placed
  <2>7. Symbols' /\ FinishedReturned'
    BY <1>1, <1>2, <2>4 DEF Symbols, FinishedReturned
  <2> QED
    BY <2>6, <2>7
<1>5. ASSUME NEW s \in Scavs, NEW c \in {1, YC}, Free(t),
             \A u \in Threads \ {t} : pc[u] # "push",
             pc[t] = "push" => item[t] = s,
             idx_list' = [idx_list EXCEPT ![t][1] = s],
             yc' = [yc EXCEPT ![s] = <<t, 1>>],
             crt_pos' = [crt_pos EXCEPT ![LibOf[s]] = c],
             UNCHANGED finished
      PROVE  Placed' /\ Symbols' /\ FinishedReturned'
  <2>1. /\ idx_list'[t][1] = s
        /\ \A u \in Threads \ {t} : idx_list'[u] = idx_list[u]
    BY Types, <1>5, FirstSlot
  <2>2. /\ yc'[s][1] = t /\ yc'[s][2] = 1
        /\ \A r \in Scavs \ {s} : yc'[r] = yc[r]
    BY Types, <1>5
  <2>3. \A r \in Scavs \ {s} : yc[r] # NULL =>
           /\ yc[r][2] = 1 /\ yc[r][1] \in Threads \ {t}
           /\ idx_list[yc[r][1]][1] = r
    BY Types, <1>1, <1>5, FirstSlot DEF Placed, Free, NULL
  <2>4. Placed'
    BY <2>1, <2>2, <2>3 DEF Placed
  <2>5. Symbols' /\ FinishedReturned'
    BY Types, <1>1, <1>2, <1>5, <2>2 DEF Symbols, FinishedReturned
  <2> QED
    BY <2>4, <2>5
<1>6. CASE StealPush(t)
  <2>1. /\ pc[t] = "push" /\ scav_table_lock = t /\ item[t] \in Scavs
        /\ Free(t)
    BY <1>1, <1>6 DEF StealPush, SharingInv, ThiefExclusive, PoppedUnlisted,
                      Local, Demand
  <2>2. PICK p \in Positions :
          /\ IsFirstFree(idx_list[t], p)
          /\ idx_list' = [idx_list EXCEPT ![t][p] = item[t]]
          /\ crt_pos' = [crt_pos EXCEPT ![LibOf[item[t]]] = p]
          /\ yc' = [yc EXCEPT ![item[t]] = <<t, p>>]
    BY <1>6 DEF StealPush
  <2>3. p = 1
    BY <1>1, <2>1, <2>2, FirstIsSlot DEF Local, OnlyFirst, Free
  <2>4. \A u \in Threads \ {t} : pc[u] # "push"
    BY <2>1 DEF SharingInv, LockHeld, Critical
  <2>5. UNCHANGED finished
    BY <1>6 DEF StealPush
  <2> QED
    BY <1>5, <2>1, <2>2, <2>3, <2>4, <2>5
<1>7. CASE PoolTake(t)
  <2>1. /\ pc[t] = "take" /\ scav_table_lock = t /\ item[t] \in Scavs
        /\ Free(t)
    BY <1>1, <1>7 DEF PoolTake, SharingInv, LockHeld, Critical, PickedInPool,
                      Local, Demand
  <2>2. PICK p \in Positions :
          /\ IsFirstFree(idx_list[t], p)
          /\ idx_list' = [idx_list EXCEPT ![t][p] = item[t]]
          /\ crt_pos' = [crt_pos EXCEPT ![LibOf[item[t]]] = ScavSymbol(p)]
          /\ yc' = [yc EXCEPT ![item[t]] = <<t, p>>]
    BY <1>7 DEF PoolTake
  <2>3. p = 1
    BY <1>1, <2>1, <2>2, FirstIsSlot DEF Local, OnlyFirst, Free
  <2>4. ScavSymbol(1) = YC
    BY DEF ScavSymbol, YC
  <2>5. \A u \in Threads \ {t} : pc[u] # "push"
    BY <2>1 DEF SharingInv, LockHeld, Critical
  <2>6. UNCHANGED finished
    BY <1>7 DEF PoolTake
  <2> QED
    BY <1>5, <2>1, <2>2, <2>3, <2>4, <2>5, <2>6
<1>8. CASE RetireScav(t)
  <2>1. /\ pc[t] = "retire" /\ scav_table_lock = t /\ ret_pos[t] = 1
        /\ idx_list[t][1] \in Scavs \cap ended
    <3>1. pc[t] = "retire" /\ scav_table_lock = t
      BY <1>8 DEF RetireScav, SharingInv, LockHeld, Critical
    <3>2. ret_pos[t] = 1 /\ idx_list[t][1] # EMPTY
      BY <1>1, <3>1 DEF Local, Returned, Free
    <3> QED
      BY Types, <1>1, <3>1, <3>2, FirstSlot DEF Local, Returned
  <2>s. PICK s \in Scavs : s = idx_list[t][1] /\ s = crt_idx[t]
    BY <2>1 DEF SharingInv, RetiresListed
  <2>2. /\ idx_list' = [idx_list EXCEPT ![t][1] = EMPTY]
        /\ yc' = [yc EXCEPT ![s] = NULL]
        /\ finished' = [finished EXCEPT ![s] = TRUE]
        /\ UNCHANGED crt_pos
    BY <1>8, <2>1, <2>s DEF RetireScav
  <2>3. \A u \in Threads : pc[u] # "push"
    BY <2>1 DEF SharingInv, LockHeld, Critical
  <2>4. \A r \in Scavs : yc'[r] # NULL =>
           /\ yc'[r] = yc[r] /\ yc[r][2] = 1 /\ yc[r][1] \in Threads \ {t}
           /\ idx_list[yc[r][1]][1] = r
    <3>1. yc'[s] = NULL /\ \A r \in Scavs \ {s} : yc'[r] = yc[r]
      BY Types, <2>2, <2>s
    <3>2. \A r \in Scavs :
             yc[r] # NULL => yc[r][2] = 1 /\ idx_list[yc[r][1]][1] = r
      BY <1>1, <2>3 DEF Placed
    <3>3. \A r \in Scavs : yc[r] # NULL => yc[r][1] \in Threads
      BY Types
    <3> QED
      BY <2>s, <3>1, <3>2, <3>3
  <2>5. \A u \in Threads \ {t} : idx_list'[u] = idx_list[u]
    BY Types, <2>2
  <2>6. Placed'
    BY <2>4, <2>5 DEF Placed
  <2>7. Symbols'
    BY <1>1, <2>2, <2>4 DEF Symbols
  <2>8. FinishedReturned'
    BY Types, <1>1, <1>2, <2>1, <2>2, <2>s DEF FinishedReturned
  <2> QED
    BY <2>6, <2>7, <2>8
<1> QED
  BY <1>3, <1>4, <1>6, <1>7, <1>8 DEF TableSteps

-----------------------------------------------------------------------------
(* The invariant, and what follows from it.                                *)

\* The cleared tables of init_prim_table satisfy it.
LEMMA InitCap == Init => CapInv
<1> SUFFICES ASSUME Init PROVE CapInv
  OBVIOUS
<1>1. ASSUME NEW t \in Threads
      PROVE  Local(t) /\ Robs(t)
  <2>1. /\ pc[t] = "new" /\ cont[t] = "start" /\ cleanup[t] = "no"
        /\ run[t] = PRIM /\ ~reallocated[t]
        /\ \A p \in Slots : /\ idx_list[t][p] = EMPTY /\ saved[t][p] = ZERO
                            /\ normal_next[t][p] = FIN
    BY DEF Init
  <2>2. OnlyFirst(t) /\ Demand(t) /\ Calls(t) /\ Robs(t)
    BY <2>1, FirstSlot DEF OnlyFirst, Demand, Calls, AllocLabels, Robs
  <2>3. SchedNext(t) /\ Returned(t) /\ RunsFirst(t)
    BY <2>1 DEF SchedNext, InSched, SchedLabels, Returned, RunsFirst, RunsScav
  <2>4. Holds(t) /\ RingBack(t) /\ Initialised(t) /\ Links(t)
    BY <2>1, FirstSlot DEF Holds, RingBack, Initialised, Links, Robbed, Free
  <2> QED
    BY <2>2, <2>3, <2>4 DEF Local
<1>2. Placed /\ Symbols /\ FinishedReturned
  BY DEF Init, Placed, Symbols, FinishedReturned
<1> QED
  BY <1>1, <1>2 DEF CapInv

\* Every step keeps it.
LEMMA StepCap ==
    ASSUME MAX_SCAV <= 1, TypeOK, SharingInv, CapInv, NEW t \in Threads,
           Runtime(t) \/ Program(t)
    PROVE  CapInv'
<1>1. Local(t)'
  BY OwnAlloc, OwnTheft, OwnSched, OwnProgram DEF Runtime, Program
<1>2. ASSUME NEW u \in Threads \ {t}
      PROVE  Local(u)'
  <2>1. Monotone /\ (Untouched(u) \/ (u = tid[t] /\ Robbing(t)))
    BY OthersUntouched
  <2>2. CASE Untouched(u)
    BY <2>1, <2>2, Bystander DEF CapInv
  <2>3. CASE u = tid[t] /\ Robbing(t)
    BY <2>3, Victim
  <2> QED
    BY <2>1, <2>2, <2>3
<1>3. \A u \in Threads : Robs(u)'
  BY StepRobs
<1> QED
  BY <1>1, <1>2, <1>3, StepPlaced DEF CapInv

\* The cap that msh.c starts with keeps lists, contexts, links, flags and
\* SCAV_TABLE together, whatever threads, slots and shared objects there are.
THEOREM CapCorrect ==
    ASSUME MAX_SCAV <= 1
    PROVE  Spec => []CapInv
<1>1. Init => CapInv
  BY InitCap
<1>2. TypeOK /\ SharingInv /\ CapInv /\ [Next]_vars => CapInv'
  <2> SUFFICES ASSUME TypeOK, SharingInv, CapInv, [Next]_vars
               PROVE  CapInv'
    OBVIOUS
  <2>1. CASE \E t \in Threads : Runtime(t) \/ Program(t)
    BY <2>1, StepCap
  <2>2. CASE UNCHANGED vars
    <3>1. UNCHANGED <<pc, run, cont, cleanup, demands, got, cnt, tid, item,
                      from_pos, ret_pos, next, idx_list, saved, normal_next,
                      special_next, reallocatable, reallocated, yc, finished,
                      inited, crt_pos, ended>>
      BY <2>2 DEF vars, allocVars, innerVars, schedVars, progVars, outerVars,
         linkVars, slotVars, ctxVars, flagVars, primVars, tableVars
    <3>2. ASSUME NEW u \in Threads
          PROVE  Local(u)' /\ Robs(u)'
      <4>1. Local(u)'
        BY <3>1, Bystander DEF Untouched, Monotone, CapInv
      <4>2. Robs(u)'
        BY <3>1 DEF CapInv, Robs, Robbed, Free
      <4> QED
        BY <4>1, <4>2
    <3>3. Placed' /\ Symbols' /\ FinishedReturned'
      BY <3>1 DEF CapInv, Placed, Symbols, FinishedReturned
    <3> QED
      BY <3>2, <3>3 DEF CapInv
  <2> QED
    BY <2>1, <2>2 DEF Next, Terminated
<1> QED
  BY <1>1, <1>2, TypeCorrect, Sharing, PTL DEF Spec

\* What the invariant says of one hosted scavenger.
LEMMA HostedFirst ==
    ASSUME TypeOK, SharingInv, CapInv, NEW t \in Threads, NEW p \in Positions,
           Occupied(idx_list[t], p)
    PROVE  /\ p = 1 /\ idx_list[t][1] \in Scavs
           /\ yc[idx_list[t][1]] = <<t, 1>>
           /\ ~Free(t)
<1>1. p = 1 /\ idx_list[t][1] \in Scavs /\ ~Free(t)
  BY FirstSlot DEF CapInv, Local, OnlyFirst, Occupied, TypeOK, Free
<1>2. /\ yc[idx_list[t][1]] \in Threads \X Positions
      /\ yc[idx_list[t][1]] # NULL /\ yc[idx_list[t][1]][1] = t
  BY <1>1, FirstSlot DEF SharingInv, ListedHosted, TypeOK, Free
<1>3. yc[idx_list[t][1]][2] = 1
  BY <1>1, <1>2 DEF CapInv, Placed
<1> QED
  BY <1>1, <1>2, <1>3

\* List entry, saved context and yc pointer stay together: theft moves them
\* in one piece although crt_pos goes wrong.
THEOREM OwnerInSlot ==
    ASSUME MAX_SCAV <= 1
    PROVE  Spec => []SlotHoldsOwner
<1>1. TypeOK /\ SharingInv /\ CapInv => SlotHoldsOwner
  BY HostedFirst, FirstSlot DEF SlotHoldsOwner, CapInv, Local, Holds, Returned
<1> QED
  BY <1>1, TypeCorrect, Sharing, CapCorrect, PTL

\* tl_finish_crt retires the scavenger that has returned: a stolen one
\* returns slot 0 and is not retired, but no neighbour is taken for it.
THEOREM RetiresReturned ==
    ASSUME MAX_SCAV <= 1
    PROVE  Spec => []FinishedReturned
<1>1. CapInv => FinishedReturned
  BY DEF CapInv
<1> QED
  BY <1>1, CapCorrect, PTL

\* The primary's yield finds itself or the hosted scavenger, also after it
\* was robbed while parked: the slow path has recomputed its link.
THEOREM LinkLive ==
    ASSUME MAX_SCAV <= 1
    PROVE  Spec => []PrimaryLinkLive
<1>1. TypeOK /\ SharingInv /\ CapInv => PrimaryLinkLive
  <2> SUFFICES ASSUME TypeOK, CapInv, NEW t \in Threads, RunsPrimary(t),
                      normal_next[t][0] # FIN, normal_next[t][0] # 0
               PROVE  \E p \in Positions : /\ normal_next[t][0] = YC * p
                                           /\ Occupied(idx_list[t], p)
                                           /\ saved[t][p] = idx_list[t][p]
    BY DEF PrimaryLinkLive
  <2>1. pc[t] = "app" /\ Local(t)
    BY DEF RunsPrimary, CapInv
  <2>2. normal_next[t][0] = YC /\ ~Free(t) /\ saved[t][1] = idx_list[t][1]
    BY <2>1 DEF Local, Links, Settled, Robbed, Holds, Calls, AllocLabels
  <2>3. YC = YC * 1
    BY DEF YC
  <2> QED
    BY <2>2, <2>3, FirstSlot DEF Free, Occupied
<1> QED
  BY <1>1, TypeCorrect, Sharing, CapCorrect, PTL

\* Scavenger code runs in the thread that hosts it, after its init function.
THEOREM HostRuns ==
    ASSUME MAX_SCAV <= 1
    PROVE  Spec => []RunsHosted
<1>1. TypeOK /\ SharingInv /\ CapInv => RunsHosted
  <2> SUFFICES ASSUME TypeOK, SharingInv, CapInv, NEW t \in Threads,
                      RunsScav(t)
               PROVE  /\ \E p \in Positions : /\ idx_list[t][p] = run[t]
                                              /\ yc[run[t]] = <<t, p>>
                      /\ run[t] \in HasInit => inited[run[t]]
    BY DEF RunsHosted
  <2>1. /\ pc[t] = "app" /\ run[t] = idx_list[t][1] /\ Local(t)
        /\ Occupied(idx_list[t], 1)
    BY FirstSlot DEF CapInv, Local, RunsFirst, RunsScav, Occupied
  <2>2. yc[run[t]] = <<t, 1>> /\ ~Free(t)
    BY <2>1, HostedFirst, FirstSlot
  <2>3. run[t] \in HasInit => inited[run[t]]
    BY <2>1, <2>2 DEF Local, Initialised
  <2> QED
    BY <2>1, <2>2, <2>3, FirstSlot
<1> QED
  BY <1>1, TypeCorrect, Sharing, CapCorrect, PTL

\* A running scavenger keeps its yc pointer: nobody moves or retires it.
THEOREM RunningPinned ==
    ASSUME MAX_SCAV <= 1
    PROVE  Spec => PinnedWhileRunning
<1> DEFINE Pinned == \A t \in Threads :
        RunsScav(t) /\ pc'[t] = "app" /\ run'[t] = run[t] =>
            yc'[run[t]] = yc[run[t]]
<1>1. TypeOK /\ SharingInv /\ CapInv /\ [Next]_vars => [Pinned]_vars
  <2> SUFFICES ASSUME TypeOK, SharingInv, CapInv, NEW u \in Threads,
                      Runtime(u) \/ Program(u), NEW t \in Threads,
                      RunsScav(t)
               PROVE  yc'[run[t]] = yc[run[t]]
    BY DEF Next, Terminated
  <2>1. run[t] \in Scavs /\ run[t] = idx_list[t][1] /\ pc[t] = "app"
    BY DEF RunsScav, CapInv, Local, RunsFirst
  <2>2. /\ yc[run[t]] # NULL
        /\ yc \in [Scavs -> (Threads \X Positions) \cup {NULL}]
    BY <2>1, FirstSlot DEF SharingInv, ListedHosted, TypeOK
  <2>3. CASE ~TableSteps(u)
    BY <2>3, TableKept
  <2>4. CASE StealPop(u)
    BY <2>4 DEF StealPop, tableVars
  <2>5. CASE StealPush(u)
    <3>1. item[u] # run[t]
      BY <2>1, <2>5, FirstSlot DEF StealPush, SharingInv, PoppedUnlisted
    <3>2. \E z : yc' = [yc EXCEPT ![item[u]] = z]
      BY <2>5 DEF StealPush
    <3> QED
      BY <2>1, <2>2, <3>1, <3>2
  <2>6. CASE PoolTake(u)
    <3>1. item[u] # run[t]
      BY <2>1, <2>2, <2>6
         DEF PoolTake, SharingInv, PickedInPool, InPool
    <3>2. \E z : yc' = [yc EXCEPT ![item[u]] = z]
      BY <2>6 DEF PoolTake
    <3> QED
      BY <2>1, <2>2, <3>1, <3>2
  <2>7. CASE RetireScav(u)
    <3>1. /\ u # t /\ ret_pos[u] \in Slots /\ crt_idx[u] # EMPTY
          /\ idx_list[u][ret_pos[u]] = crt_idx[u]
      BY <2>1, <2>7, FirstSlot
         DEF RetireScav, SharingInv, RetiresListed, TypeOK
    <3>2. crt_idx[u] # run[t]
      BY <2>1, <3>1, FirstSlot DEF SharingInv, ListedOnce
    <3>3. yc' = [yc EXCEPT ![crt_idx[u]] = NULL]
      BY <2>7 DEF RetireScav
    <3> QED
      BY <2>1, <2>2, <3>2, <3>3
  <2> QED
    BY <2>3, <2>4, <2>5, <2>6, <2>7 DEF TableSteps
<1>2. [][Pinned]_vars => PinnedWhileRunning
  BY DEF PinnedWhileRunning
<1> QED
  BY <1>1, <1>2, TypeCorrect, Sharing, CapCorrect, PTL DEF Spec

\* "This static cap version": no thread hosts more than the cap.
THEOREM CapKept ==
    ASSUME MAX_SCAV = 1
    PROVE  Spec => []WithinCap
<1>1. CapInv => WithinCap
  <2> SUFFICES ASSUME CapInv, NEW t \in Threads
               PROVE  Cardinality({p \in Positions :
                                      Occupied(idx_list[t], p)}) <= MAX_SCAV
    BY DEF WithinCap
  <2> DEFINE S == {p \in Positions : Occupied(idx_list[t], p)}
  <2>1. S \subseteq {1}
    BY FirstSlot DEF CapInv, Local, OnlyFirst, Occupied
  <2>2. IsFiniteSet({1}) /\ Cardinality({1}) = 1
    BY FS_Singleton
  <2> QED
    BY <2>1, <2>2, FS_Subset, FS_CardinalityType
<1>2. MAX_SCAV <= 1
  OBVIOUS
<1> QED
  BY <1>1, <1>2, CapCorrect, PTL

-----------------------------------------------------------------------------
(* Without blocking calls.                                                 *)

\* Nobody is parked, so nobody can be robbed.
LEMMA NobodyRobs ==
    ASSUME Blockers = {}, SharingInv, CalmInv, NEW t \in Threads
    PROVE  /\ ~Robbing(t) /\ ~StealEnd(t)
           /\ ~EnterBlockableCall(t) /\ ~Unblock(t) /\ ~ExitBlockableCall(t)
<1>1. /\ \A u \in Threads : ~reallocatable[u]
      /\ pc[t] \notin {"blocked", "exit", "steal", "push", "release"}
  BY DEF CalmInv, Calm, SharingInv, FlagParked
<1> QED
  BY <1>1 DEF Robbing, ScanCapture, TakeFlag, StealPop, StealPush,
     StealRollback, StealEnd, ReleaseVictim, EnterBlockableCall, Unblock,
     ExitBlockableCall

\* The runtime's own steps.
LEMMA CalmRuntime ==
    ASSUME Blockers = {}, MAX_SCAV <= 1, MAX_CRT_PER_THREAD > 1, TypeOK,
           SharingInv, CapInv, CalmInv, NEW t \in Threads, Runtime(t)
    PROVE  Calm(t)'
<1>1. Local(t) /\ Calm(t)
  BY DEF CapInv, CalmInv
<1>2. ASSUME UNCHANGED <<idx_list, ended, ret_pos, normal_next, cleanup, run,
                         saved>>,
             pc'[t] \notin {"blocked", "exit", "steal", "push", "release",
                            "wild", "finish", "cleanup"},
             pc'[t] = "retire" <=> pc[t] = "close",
             pc'[t] = "close" <=> pc[t] = "finish",
             cont'[t] = cont[t] \/ (cont'[t] = "sched" /\ cont[t] = "none"),
             cleanup[t] # "no" => special_next'[t] = special_next[t],
             (cont'[t] = "sched" \/ pc'[t] \in SchedLabels) => InSched(t),
             pc[t] # "retire"
      PROVE  Calm(t)'
  BY <1>1, <1>2 DEF Calm, InSched, Free
<1>3. CASE \/ MshAllocCtx(t) \/ AllocateScav(t) \/ AllocLock(t)
           \/ ScanSkip(t) \/ ScanEnd(t) \/ PoolPick(t) \/ PoolEnd(t)
           \/ AllocUnlock(t)
  <2>1. /\ UNCHANGED <<idx_list, ended, ret_pos, normal_next, cleanup, run,
                       saved, special_next, cont>>
        /\ pc[t] \in {"new", "alloc", "lock", "scan", "pool", "unlock"}
        /\ pc'[t] \in {"alloc", "resume", "lock", "scan", "pool", "take",
                       "unlock", "init"}
    BY Types, <1>3
       DEF MshAllocCtx, AllocateScav, AllocLock, ScanSkip, ScanEnd, PoolPick,
           PoolEnd, AllocUnlock, Goto, allocVars, innerVars, schedVars,
           progVars, outerVars, linkVars, slotVars, ctxVars, primVars
  <2> QED
    BY <1>2, <2>1 DEF SchedLabels, InSched
<1>4. CASE FinishLock(t) \/ PackSkip(t) \/ PackLock(t)
  <2>1. /\ UNCHANGED <<idx_list, ended, ret_pos, normal_next, cleanup, run,
                       saved, special_next, cont>>
        /\ pc[t] \in {"close", "pack"}
        /\ pc'[t] = "retire" <=> pc[t] = "close"
        /\ pc'[t] \in {"retire", "swap", "dispatch"}
    BY Types, <1>4
       DEF FinishLock, PackSkip, PackLock, Goto, allocVars, innerVars,
           schedVars, progVars, outerVars, linkVars, slotVars, ctxVars,
           primVars
  <2> QED
    BY <1>2, <2>1 DEF SchedLabels, InSched
<1>5. CASE PackEnd(t)
  <2>1. /\ UNCHANGED <<idx_list, ended, ret_pos, normal_next, cleanup, run,
                       saved>>
        /\ pc[t] = "pack" /\ pc'[t] = "alloc" /\ cont'[t] = "sched"
        /\ normal_next[t][0] # FIN
    BY Types, <1>5 DEF PackEnd, Goto, schedVars, progVars, outerVars, slotVars
  <2>2. cleanup[t] = "no" /\ cont[t] = "none" /\ InSched(t)
    BY Types, <1>1, <2>1 DEF Local, SchedNext, Calls, AllocLabels,
       SchedLabels,
                            InSched
  <2> QED
    BY <1>2, <2>1, <2>2
<1>6. CASE CallInit(t)
  <2>1. /\ UNCHANGED <<idx_list, ended, ret_pos, normal_next, cleanup, run,
                       saved, cont>>
        /\ pc[t] = "init" /\ pc'[t] = "resume"
    BY Types, <1>6 DEF CallInit, Goto, innerVars, schedVars, progVars,
                      outerVars, slotVars
  <2>2. cleanup[t] = "no"
    BY Types, <1>1, <2>1 DEF Local, Calls, SchedLabels, RunsScav
  <2> QED
    BY <1>2, <2>1, <2>2 DEF SchedLabels, InSched
<1>7. CASE PoolTake(t)
  <2>1. item[t] \in Scavs \ ended /\ pc[t] = "take"
    BY <1>7 DEF PoolTake, SharingInv, PickedInPool, InPool, CalmInv, CalmTable
  <2>2. PICK p \in Positions :
          /\ idx_list' = [idx_list EXCEPT ![t][p] = item[t]]
          /\ saved' = [saved EXCEPT ![t][p] = item[t]]
          /\ normal_next' = [normal_next EXCEPT ![t][p] = 0]
    BY <1>7 DEF PoolTake
  <2>3. /\ idx_list'[t][1] \in {idx_list[t][1], item[t]}
        /\ saved'[t][0] = saved[t][0] /\ normal_next'[t][0] = normal_next[t][0]
    BY Types, <2>2, FirstSlot
  <2>4. /\ UNCHANGED <<ended, ret_pos, cleanup, run, special_next, cont>>
        /\ pc'[t] \in {"unlock", "pool"}
    BY Types, <1>7 DEF PoolTake, Goto, schedVars, progVars, outerVars
  <2>5. cleanup[t] = "no"
    BY Types, <1>1, <2>1 DEF Local, Calls, SchedLabels, RunsScav
  <2> QED
    BY <1>1, <2>1, <2>3, <2>4, <2>5 DEF Calm, InSched, SchedLabels, Free
<1>8. CASE ResumeStart(t) \/ ResumeSched(t) \/ ResumeExit(t)
  <2>1. /\ UNCHANGED <<ended, ret_pos, cleanup, run, special_next, idx_list,
                       saved>>
        /\ pc[t] = "resume" /\ pc'[t] \in {"app", "dispatch"}
        /\ pc'[t] = "dispatch" => cont[t] = "sched"
        /\ cont'[t] = "none"
    BY Types, <1>8
       DEF ResumeStart, ResumeSched, ResumeExit, Goto, schedVars, progVars,
           outerVars, slotVars
  <2>2. cleanup[t] = "no"
    BY Types, <1>1, <2>1 DEF Local, Calls, SchedLabels, RunsScav
  <2>3. normal_next'[t][0] # FIN
    <3>1. CASE ResumeStart(t)
      BY Types, <3>1, FirstSlot DEF ResumeStart
    <3>2. CASE ResumeSched(t) \/ ResumeExit(t)
      <4>1. normal_next[t][0] # FIN
        BY <1>1, <2>2, <3>2 DEF ResumeSched, ResumeExit, Calm
      <4>2. PICK links \in UpdateNextMap(normal_next[t]) :
              normal_next' = [normal_next EXCEPT ![t] = links]
        BY <3>2 DEF ResumeSched, ResumeExit
      <4>3. PICK q \in Slots : links = [normal_next[t] EXCEPT ![0] = YC * q]
        BY <4>1, <4>2 DEF UpdateNextMap
      <4>4. YC * q # FIN
        BY DEF YC, FIN, Slots
      <4> QED
        BY Types, <4>2, <4>3, <4>4, FirstSlot
    <3> QED
      BY <1>8, <3>1, <3>2
  <2> QED
    BY <1>1, <2>1, <2>2, <2>3 DEF Calm, InSched, SchedLabels, Free
<1>9. CASE FinishPrimary(t)
  <2>1. /\ pc[t] = "finish" /\ pc'[t] = "pack"
        /\ idx_list[t][ret_pos[t]] = EMPTY
        /\ UNCHANGED <<ended, ret_pos, cleanup, run, special_next, idx_list,
                       saved, cont>>
    BY Types, <1>9 DEF FinishPrimary, CrtIdxAt, Goto, innerVars, schedVars,
       progVars,
                      outerVars, slotVars
  <2>2. ret_pos[t] # 1
    BY <1>1, <2>1 DEF Local, Returned, Free
  <2>3. cleanup[t] # "no"
    BY <1>1, <2>1, <2>2 DEF Calm
  <2> QED
    BY <1>1, <2>1, <2>2, <2>3 DEF Calm, Free
<1>10. CASE RetireScav(t)
  <2>1. /\ pc[t] = "retire" /\ pc'[t] = "pack"
        /\ UNCHANGED <<ended, ret_pos, cleanup, run, special_next, saved,
                       cont>>
    BY Types, <1>10 DEF RetireScav, Goto, innerVars, schedVars, progVars,
                       outerVars
  <2>2. ret_pos[t] = 1
    BY <1>1, <2>1 DEF Local, Returned
  <2>3. idx_list'[t][1] = EMPTY
    BY Types, <1>10, <2>2, FirstSlot DEF RetireScav
  <2>4. normal_next'[t][0] = FIN => normal_next[t][0] = FIN
    <3> DEFINE links == normal_next[t]
    <3>1. PICK new \in UpdateNextMap(links) :
            normal_next' = [normal_next EXCEPT ![t] = new]
      BY <1>10 DEF RetireScav
    <3>2. links \in [Slots -> Offsets \cup {FIN}]
          /\ links[0] = normal_next[t][0]
      BY Types, FirstSlot
    <3>3. ASSUME normal_next[t][0] # FIN
          PROVE  new[0] # FIN
      <4>1. PICK q \in Slots : new = [links EXCEPT ![0] = YC * q]
        BY <3>1, <3>2, <3>3 DEF UpdateNextMap
      <4>2. YC * q # FIN
        BY DEF YC, FIN, Slots
      <4> QED
        BY <3>2, <4>1, <4>2, FirstSlot
    <3> HIDE DEF links
    <3> QED
      BY Types, <3>1, <3>3
  <2> QED
    BY <1>1, <2>1, <2>3, <2>4 DEF Calm, InSched, SchedLabels, Free
<1>11. CASE DispatchNext(t) \/ DispatchCleanup(t)
  <2>1. /\ pc[t] = "dispatch" /\ cont[t] = "none" /\ InSched(t)
        /\ UNCHANGED <<ended, cleanup, special_next, saved, cont, idx_list,
                       normal_next>>
    BY Types, <1>1, <1>11
       DEF DispatchNext, DispatchCleanup, innerVars, linkVars, slotVars,
           ctxVars, primVars, Local, Calls, AllocLabels, InSched, SchedLabels
  <2>2. CASE DispatchNext(t)
    <3>1. normal_next[t][0] # FIN /\ cleanup[t] = "no" /\ next[t] = 0
      BY <1>1, <2>1, <2>2 DEF DispatchNext, Local, SchedNext, SchedLabels
    <3>2. saved[t][0] = PRIM
      BY <1>1, <2>1, <3>1 DEF Calm
    <3>3. Jump(t, PRIM)
      BY <2>2, <3>1, <3>2, FirstSlot DEF DispatchNext
    <3>4. pc'[t] = "app" /\ run'[t] = PRIM
      BY Types, <3>1, <3>3 DEF Jump, Resumable, Goto
    <3> QED
      BY <1>1, <2>1, <3>1, <3>4, FirstSlot
         DEF Calm, InSched, SchedLabels, Free
  <2>3. CASE DispatchCleanup(t)
    <3>1. normal_next[t][0] = FIN /\ cleanup[t] # "no"
      BY <1>1, <2>1, <2>3 DEF DispatchCleanup, Calm
    <3>2. PICK p \in Slots :
            /\ IsUnfinishedCrt(idx_list[t], p)
            /\ IF p # 0
               THEN Jump(t, saved[t][p])
               ELSE Goto(t, IF cleanup[t] = "no" THEN "wild" ELSE "cleanup")
      BY <2>3 DEF DispatchCleanup
    <3>3. pc'[t] \in {"app", "cleanup"}
      <4>1. CASE p = 0
        BY Types, <3>1, <3>2, <4>1 DEF Goto
      <4>2. CASE p # 0
        <5>1. p = 1 /\ ~Free(t)
          BY <1>1, <3>2, <4>2
             DEF IsUnfinishedCrt, Local, OnlyFirst, Free, Occupied
        <5>2. saved[t][p] \in Scavs \ ended
          BY Types, <1>1, <2>1, <5>1, FirstSlot DEF Local, Holds, Calm, Free
        <5> QED
          BY Types, <3>2, <4>2, <5>2 DEF Jump, Resumable, Goto
      <4> QED
        BY <4>1, <4>2
    <3> QED
      BY <1>1, <2>1, <3>1, <3>3 DEF Calm, Free
  <2> QED
    BY <1>11, <2>2, <2>3
<1>12. CASE CleanupLoop(t)
  <2>1. /\ pc[t] = "cleanup" /\ run[t] = PRIM /\ cont[t] = "none"
        /\ UNCHANGED <<ended, run, special_next, saved, cont, idx_list>>
    BY Types, <1>1, <1>12
       DEF CleanupLoop, innerVars, slotVars, Local, Calls, AllocLabels
  <2>2. CASE HasOccupied(idx_list[t])
    <3>1. /\ pc'[t] = "finish" /\ UNCHANGED <<cleanup, normal_next>>
      BY Types, <1>12, <2>2 DEF CleanupLoop, Goto
    <3> QED
      BY <1>1, <2>1, <3>1 DEF Calm, InSched, SchedLabels, Free
  <2>3. CASE ~HasOccupied(idx_list[t])
    <3>1. /\ pc'[t] \in {"done", "app"} /\ cleanup'[t] = "no"
          /\ normal_next'[t][0] = 0
      BY Types, <1>12, <2>3, FirstSlot DEF CleanupLoop, Goto
    <3> QED
      BY <1>1, <2>1, <3>1, FirstSlot DEF Calm, InSched, SchedLabels, Free
  <2> QED
    BY <2>2, <2>3
<1>13. ~SwapCrts(t)
  BY <1>1 DEF SwapCrts, Local, Calls
<1>14. CASE FinishScav(t)
  <2>1. /\ pc[t] = "finish" /\ pc'[t] = "close" /\ ret_pos[t] = 1
        /\ normal_next'[t][0] = normal_next[t][0]
        /\ UNCHANGED <<idx_list, ended, ret_pos, cleanup, run, saved,
                       special_next, cont>>
    BY Types, <1>1, <1>14, FirstSlot
       DEF FinishScav, CrtIdxAt, Goto, innerVars, progVars, slotVars, Local,
           OnlyFirst
  <2> QED
    BY <1>1, <2>1 DEF Calm, InSched, SchedLabels, Free
<1>15. ~CallInitLost(t)
  <2> SUFFICES ASSUME NEW p \in Positions, idx_list[t][p] \in Scavs
               PROVE  crt_pos[LibOf[idx_list[t][p]]] = YC * p
    BY Types, ConstantsAssumption DEF CallInitLost
  <2>1. p = 1 /\ yc[idx_list[t][1]] # NULL
    BY <1>1, FirstSlot
       DEF Local, OnlyFirst, SharingInv, ListedHosted
  <2>2. YC = YC * 1
    BY DEF YC
  <2> QED
    BY <2>1, <2>2 DEF CalmInv, CalmTable
<1> QED
  BY <1>3, <1>4, <1>5, <1>6, <1>7, <1>8, <1>9, <1>10, <1>11, <1>12, <1>13,
     <1>14, <1>15, NobodyRobs DEF Runtime, Robbing

\* The program's steps.
LEMMA CalmProgram ==
    ASSUME Blockers = {}, MAX_SCAV <= 1, MAX_CRT_PER_THREAD > 1, TypeOK,
           SharingInv, CapInv, CalmInv, NEW t \in Threads, Program(t)
    PROVE  Calm(t)'
<1>1. Local(t) /\ Calm(t)
  BY DEF CapInv, CalmInv
<1>2. /\ pc[t] = "app" /\ cont[t] = "none"
      /\ run[t] = PRIM => cleanup[t] = "no"
      /\ ~Free(t) => idx_list[t][1] \in Scavs \ ended
                     /\ saved[t][1] = idx_list[t][1]
  <2>1. pc[t] = "app"
    BY NobodyRobs DEF Program, PrimaryYield, ScavYield, ScavReturn,
       PthreadJoin, StartRoutineReturns, RunsPrimary, RunsScav
  <2>2. cont[t] = "none" /\ (run[t] = PRIM => cleanup[t] = "no")
    BY Types, <1>1, <2>1, FirstSlot
       DEF Local, Calls, AllocLabels, SchedLabels, RunsScav
  <2>3. ~Free(t) => idx_list[t][1] \in Scavs \ ended
                    /\ saved[t][1] = idx_list[t][1]
    BY Types, <1>1, <2>1, FirstSlot DEF Calm, Local, Holds, Free
  <2> QED
    BY <2>1, <2>2, <2>3
<1>3. CASE PrimaryYield(t)
  <2> DEFINE ctxs == [saved[t] EXCEPT ![0] = PRIM]
             c == AtOffset(ctxs, normal_next[t][0])
  <2>1. /\ run[t] = PRIM /\ cleanup[t] = "no"
        /\ saved' = [saved EXCEPT ![t] = ctxs] /\ Jump(t, c)
        /\ UNCHANGED <<ended, cleanup, special_next, cont, idx_list,
                       normal_next>>
    BY <1>2, <1>3 DEF PrimaryYield, RunsPrimary, innerVars, linkVars
  <2>2. /\ ctxs[0] = PRIM /\ ctxs[1] = saved[t][1]
        /\ \A p \in Slots \ {0, 1} : ctxs[p] = ZERO
        /\ saved'[t][0] = PRIM
    BY Types, <1>1, <2>1, FirstSlot DEF Local, OnlyFirst
  <2>3. \/ normal_next[t][0] = 0
        \/ normal_next[t][0] = YC /\ ~Free(t)
    BY <1>1, <1>2, <2>1
       DEF Local, Links, Settled, Robbed, Calm
  <2> HIDE DEF ctxs
  <2>4. c \in {PRIM} \cup (Scavs \ ended)
    BY <1>2, <2>2, <2>3, Lands
  <2> HIDE DEF c
  <2>5. pc'[t] = "app"
    BY Types, <2>1, <2>4 DEF Jump, Resumable, Goto
  <2> QED
    BY <1>1, <1>2, <2>1, <2>2, <2>5 DEF Calm, InSched, SchedLabels, Free
<1>4. CASE ScavYield(t) \/ ScavReturn(t)
  <2>1. /\ run[t] \in Scavs /\ run[t] = idx_list[t][1] /\ ~Free(t)
        /\ saved[t][1] = run[t] /\ run[t] \notin ended
    BY <1>1, <1>2, <1>4, FirstSlot
       DEF ScavYield, ScavReturn, RunsScav, Local, RunsFirst, Free
  <2>2. crt_pos[LibOf[run[t]]] = YC
    BY <2>1, FirstSlot
       DEF SharingInv, ListedHosted, CalmInv, CalmTable, Free
  <2>3. YC \div YC = 1 /\ YC = YC * 1
    BY DEF YC
  <2>4. CASE ScavYield(t)
    <3> DEFINE ctxs == [saved[t] EXCEPT ![1] = run[t]]
    <3>1. PICK link \in {special_next[t][1], normal_next[t][1]} :
            /\ saved' = [saved EXCEPT ![t] = ctxs]
            /\ Jump(t, AtOffset(ctxs, link))
      BY <2>2, <2>3, <2>4 DEF ScavYield
    <3>2. UNCHANGED <<ended, cleanup, special_next, cont, idx_list,
                      normal_next>>
      BY <2>4 DEF ScavYield, innerVars, linkVars
    <3>3. ctxs = saved[t]
      BY Types, <2>1, FirstSlot
    <3>4. link = IF cleanup[t] = "no" THEN 0 ELSE YC
      BY <1>1, <1>2, <2>1, <3>1 DEF Local, Holds, RingBack, Calm
    <3> HIDE DEF ctxs
    <3>5. AtOffset(saved[t], link) =
             IF cleanup[t] = "no" THEN PRIM ELSE run[t]
      <4>1. cleanup[t] = "no" => saved[t][0] = PRIM
        BY <1>1, <2>1 DEF Calm
      <4> QED
        BY <1>1, <2>1, <3>4, <4>1, Lands DEF Local, OnlyFirst
    <3>6. PICK c \in {PRIM, run[t]} :
            Jump(t, c) /\ (c = PRIM => cleanup[t] = "no")
      BY <2>1, <3>1, <3>3, <3>5, FirstSlot
    <3>7. pc'[t] = "app"
      BY Types, <2>1, <3>6 DEF Jump, Resumable, Goto
    <3>8. saved'[t] = saved[t]
      BY Types, <3>1, <3>3
    <3> QED
      BY <1>1, <1>2, <2>1, <3>2, <3>7, <3>8
         DEF Calm, InSched, SchedLabels, Free
  <2>5. CASE ScavReturn(t)
    <3>1. /\ pc'[t] = "finish" /\ ret_pos'[t] = 1
          /\ UNCHANGED <<run, cleanup, special_next, cont, idx_list, saved,
                         normal_next>>
      BY Types, <2>2, <2>3, <2>5
         DEF ScavReturn, Goto, innerVars, primVars, ctxVars, slotVars,
             linkVars
    <3> QED
      BY <1>1, <1>2, <2>1, <3>1 DEF Calm
  <2> QED
    BY <1>4, <2>4, <2>5
<1>5. CASE PthreadJoin(t) \/ StartRoutineReturns(t)
  <2>1. /\ run[t] = PRIM
        /\ UNCHANGED <<ended, run, saved, cont, idx_list>>
    BY <1>5 DEF PthreadJoin, StartRoutineReturns, RunsPrimary, innerVars,
                slotVars
  <2>2. CASE SKIP_CLEANUP
    <3>1. /\ pc'[t] \in {"app", "done"}
          /\ UNCHANGED <<cleanup, normal_next, special_next>>
      BY Types, <1>2, <1>5, <2>2
         DEF PthreadJoin, StartRoutineReturns, linkVars, Goto
    <3> QED
      BY <1>1, <1>2, <2>1, <3>1, FirstSlot
         DEF Calm, InSched, SchedLabels, Free
  <2>3. CASE ~SKIP_CLEANUP
    <3>1. /\ pc'[t] = "cleanup" /\ cleanup'[t] # "no"
          /\ special_next'[t] = SelfLinks(special_next[t], normal_next[t])
      BY Types, <1>5, <2>3
         DEF PthreadJoin, StartRoutineReturns, BeginCleanup, Goto
    <3>2. ~Free(t) => special_next'[t][1] = YC
      BY <1>1, <1>2, <2>1, <3>1, SelfLinksFirst, FirstSlot
         DEF Local, OnlyFirst, Holds
    <3> QED
      BY <1>1, <1>2, <2>1, <3>1, <3>2 DEF Calm, Free
  <2> QED
    BY <2>2, <2>3
<1> QED
  BY <1>3, <1>4, <1>5, NobodyRobs DEF Program

\* A scavenger that returns was hosted, and it is retired from there.
LEMMA StepCalm ==
    ASSUME Blockers = {}, MAX_SCAV <= 1, MAX_CRT_PER_THREAD > 1, TypeOK,
           SharingInv, CapInv, CalmInv, NEW t \in Threads,
           Runtime(t) \/ Program(t)
    PROVE  CalmInv'
<1>1. Local(t) /\ ~Robbing(t) /\ CalmTable
  BY NobodyRobs DEF CapInv, CalmInv
<1>2. CASE ScavReturn(t)
  <2>1. /\ run[t] \in Scavs /\ run[t] = idx_list[t][1]
        /\ idx_list[t][1] # EMPTY /\ yc[run[t]] # NULL
        /\ ended' = ended \cup {run[t]}
        /\ UNCHANGED <<yc, finished, crt_pos>>
    BY <1>1, <1>2, FirstSlot
       DEF ScavReturn, RunsScav, Local, RunsFirst, SharingInv, ListedHosted,
           tableVars
  <2>2. ASSUME NEW u \in Threads \ {t}
        PROVE  Calm(u)'
    <3>1. Untouched(u) /\ Calm(u)
      BY <1>1, OthersUntouched DEF CalmInv
    <3>2. idx_list[u][1] # run[t]
      BY <2>1, FirstSlot DEF SharingInv, ListedOnce
    <3> QED
      BY <2>1, <3>1, <3>2 DEF Untouched, Calm, InSched, Free
  <2>3. CalmTable'
    BY <1>1, <2>1 DEF CalmTable
  <2> QED
    BY <2>2, <2>3, CalmRuntime, CalmProgram DEF CalmInv
<1>3. CASE ~ScavReturn(t)
  <2>1. ended' = ended
    <3>1. Runtime(t) => ended' = ended
      BY DEF Runtime, MshAllocCtx, AllocateScav, AllocLock, ScanSkip,
         ScanCapture, ScanEnd, StealPop, StealPush, StealRollback, StealEnd,
         ReleaseVictim, PoolPick, PoolTake, PoolEnd, AllocUnlock, CallInit,
         CallInitLost, ResumeStart, ResumeSched, ResumeExit,
         ExitBlockableCall, FinishPrimary, FinishScav, FinishLock, RetireScav,
         PackLock, SwapCrts, PackEnd,
         PackSkip, DispatchNext, DispatchCleanup, CleanupLoop, outerVars,
         progVars
    <3>2. Program(t) => ended' = ended
      BY <1>3 DEF Program, PrimaryYield, ScavYield, EnterBlockableCall,
         Unblock, PthreadJoin, StartRoutineReturns, outerVars, progVars
    <3> QED
      BY <3>1, <3>2
  <2>2. ASSUME NEW u \in Threads \ {t}
        PROVE  Calm(u)'
    <3>1. Untouched(u) /\ Calm(u)
      BY <1>1, OthersUntouched DEF CalmInv
    <3> QED
      BY <2>1, <3>1 DEF Untouched, Calm, InSched, Free
  <2>3. CalmTable'
    <3>1. CASE ~TableSteps(t)
      BY <1>1, <2>1, <3>1, TableKept DEF CalmTable
    <3>2. CASE PoolTake(t)
      <4>1. item[t] \in Scavs /\ UNCHANGED finished
        BY <3>2 DEF PoolTake, SharingInv, PickedInPool
      <4>2. PICK p \in Positions :
              /\ IsFirstFree(idx_list[t], p)
              /\ crt_pos' = [crt_pos EXCEPT ![LibOf[item[t]]] = ScavSymbol(p)]
              /\ yc' = [yc EXCEPT ![item[t]] = <<t, p>>]
        BY <3>2 DEF PoolTake
      <4>3. p = 1 /\ ScavSymbol(1) = YC
        BY <1>1, <3>2, <4>2, FirstIsSlot
           DEF PoolTake, Local, OnlyFirst, Demand, Free, ScavSymbol, YC
      <4>4. /\ \A r \in Scavs : yc'[r] = IF r = item[t] THEN <<t, 1>>
                                         ELSE yc[r]
            /\ \A l \in Libs : crt_pos'[l] = IF l = LibOf[item[t]] THEN YC
                                             ELSE crt_pos[l]
        BY Types, <4>1, <4>2, <4>3
      <4>5. <<t, 1>> # NULL
        BY DEF NULL
      <4> QED
        BY Types, <1>1, <2>1, <4>1, <4>4, <4>5 DEF CalmTable
    <3>3. CASE RetireScav(t)
      <4>1. /\ yc' = [yc EXCEPT ![crt_idx[t]] = NULL]
            /\ finished' = [finished EXCEPT ![crt_idx[t]] = TRUE]
            /\ UNCHANGED crt_pos
        BY <3>3 DEF RetireScav
      <4> QED
        BY Types, <1>1, <2>1, <4>1 DEF CalmTable
    <3> QED
      BY <1>1, <3>1, <3>2, <3>3 DEF TableSteps, Robbing
  <2> QED
    BY <2>2, <2>3, CalmRuntime, CalmProgram DEF CalmInv
<1> QED
  BY <1>2, <1>3

\* Without blocking calls, with the default cap and more than one slot, every
\* jump of a yield or of the scheduler lands in a live coroutine.
THEOREM NothingWild ==
    ASSUME Blockers = {}, MAX_SCAV <= 1, MAX_CRT_PER_THREAD > 1
    PROVE  Spec => []NeverWild
<1>1. Init => CalmInv
  <2> SUFFICES ASSUME Init PROVE CalmInv
    OBVIOUS
  <2>1. ASSUME NEW t \in Threads
        PROVE  Calm(t)
    BY FirstSlot DEF Init, Calm, Free, InSched, SchedLabels
  <2> QED
    BY <2>1 DEF Init, CalmInv, CalmTable
<1>2. TypeOK /\ SharingInv /\ CapInv /\ CalmInv /\ [Next]_vars => CalmInv'
  <2> SUFFICES ASSUME TypeOK, SharingInv, CapInv, CalmInv, [Next]_vars
               PROVE  CalmInv'
    OBVIOUS
  <2>1. CASE \E t \in Threads : Runtime(t) \/ Program(t)
    BY <2>1, StepCalm
  <2>2. CASE UNCHANGED vars
    <3>1. UNCHANGED <<pc, run, cont, cleanup, ret_pos, idx_list, saved,
                      normal_next, special_next, yc, finished, crt_pos,
                      ended>>
      BY <2>2 DEF vars, innerVars, schedVars, progVars, outerVars, linkVars,
         slotVars, ctxVars, primVars, tableVars
    <3> QED
      BY <3>1 DEF CalmInv, Calm, CalmTable, InSched, Free
  <2> QED
    BY <2>1, <2>2 DEF Next, Terminated
<1>3. CalmInv => NeverWild
  BY DEF CalmInv, Calm, NeverWild
<1> QED
  BY <1>1, <1>2, <1>3, TypeCorrect, Sharing, CapCorrect, PTL DEF Spec

=============================================================================
