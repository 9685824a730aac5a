----------------------------- MODULE ScavObject -----------------------------
(***************************************************************************)
(* The life of the pool entries ScavPool loads: primaries host them        *)
(* (allocate_scav with set_scav_symbol, libmsh/msh.c), their coroutines    *)
(* execute entry and compute of the example scavenger                      *)
(* apps/src/scavengers/compute.cpp, and tl_sched_next_crt retires them.    *)
(* dlopen returns one handle per object, so entries that name the same     *)
(* object share its symbols and statics.  The coroutines of a primary take *)
(* turns in any order.  No primary makes a blockable call: thefts, and the *)
(* steps inside the scheduler, are the subject of Msh.                     *)
(***************************************************************************)
EXTENDS ScavPool

CONSTANTS
    Primaries,
    MaxScav,        \* bound: max_scav_per_thread, at most MAX_CRT_PER_THREAD
    DefaultReps     \* bound: total_reps of an object nobody gave arguments

ASSUME ObjectAssumption ==
    /\ NONE \notin Primaries
    /\ MaxScav \in Nat \ {0}
    /\ DefaultReps \in Nat \ {0}

Entries == 0 .. MAX_ACTIVE_CRT_NUM - 1
YC == 20            \* sizeof(struct yield_ctx)
IDLE == 0           \* slot of an entry that is in the pool
FINISHED == -1      \* ... and of one tl_finish_crt has retired

VARIABLES
    max_scav_per_thread,
    prim,           \* a primary wants ("alloc") or has ("take") the lock of
                    \* the table, works ("run"), or cleans up ("over")
    host,           \* the primary whose idx_list an entry is or was in
    slot,           \* where in the list
    co,             \* its coroutine: "entry", "loop", "report", or how it ended
    rep,            \* local of its compute
    words,          \* symbols argc and argv: the entry they describe
    crt_pos,        \* symbol crt_pos
    total_reps      \* static of the object

objVars == <<words, crt_pos, total_reps>>
listVars == <<host, slot>>
crtVars == <<co, rep>>
poolVars == <<file, piece, table, scav_counts, max_scav_per_thread>>
allVars == <<vars, max_scav_per_thread, prim, listVars, crtVars, objVars>>

LifeInit ==
    /\ Init
    /\ max_scav_per_thread \in 1 .. MaxScav
    /\ prim = [t \in Primaries |-> "alloc"]
    /\ host = [i \in Entries |-> NONE]
    /\ slot = [i \in Entries |-> IDLE]
    /\ co = [i \in Entries |-> "entry"]
    /\ rep = [i \in Entries |-> 0]
    /\ words = [o \in Objects |-> 0]
    /\ crt_pos = [o \in Objects |-> 0]
    /\ total_reps = [o \in Objects |-> DefaultReps]

Loading ==
    /\ SkipComment \/ LoadEntry \/ Fail \/ Ready
    /\ UNCHANGED <<max_scav_per_thread, prim, listVars, crtVars, objVars>>

\* The command, and the shared object, of a table entry.
Command(i) == file[table[i]]
ObjOf(i) == Command(i).obj

-----------------------------------------------------------------------------
(* allocate_scav.                                                          *)

Places == 1 .. max_scav_per_thread

\* Mutant of InPool: the loop over SCAV_TABLE ends one entry early.
InPoolShort(i) ==
    i < MAX_ACTIVE_CRT_NUM - 1 /\ table[i] # NONE /\ slot[i] = IDLE

\* !lib_handle, yc and finished are looked at.
InPool(i) == table[i] # NONE /\ slot[i] = IDLE

At(t, p, i) == host[i] = t /\ slot[i] = p
Holds(t, p) == \E i \in Entries : At(t, p, i)

\* scav_table_lock
LockFree == \A t \in Primaries : prim[t] # "take"

\* need_more_scav has counted less than max_scav_per_thread, in msh_alloc_ctx
\* and after a return alike.
LockPool(t) ==
    /\ status = "ready"
    /\ prim[t] = "alloc"
    /\ LockFree
    /\ prim' = [prim EXCEPT ![t] = "take"]
    /\ UNCHANGED <<status, poolVars, listVars, crtVars, objVars>>

\* Mutant of SetScavSymbol: the slot is not scaled.
SetScavSymbolUnscaled(i, p) ==
    /\ words' = [words EXCEPT ![ObjOf(i)] = i]
    /\ crt_pos' = [crt_pos EXCEPT ![ObjOf(i)] = p]

\* Mutant of SetScavSymbol: argc and argv are not set.
SetScavSymbolNoWords(i, p) ==
    /\ words' = words
    /\ crt_pos' = [crt_pos EXCEPT ![ObjOf(i)] = YC * p]

SetScavSymbol(i, p) ==
    /\ words' = [words EXCEPT ![ObjOf(i)] = i]
    /\ crt_pos' = [crt_pos EXCEPT ![ObjOf(i)] = YC * p]

\* One turn of the loop over SCAV_TABLE: the first free entry gets the first
\* free slot.
Host(t, i, p) ==
    /\ status = "ready"
    /\ prim[t] = "take"
    /\ InPool(i)
    /\ \A j \in Entries : j < i => ~InPool(j)
    /\ ~Holds(t, p)
    /\ \A q \in Places : q < p => Holds(t, q)
    /\ host' = [host EXCEPT ![i] = t]
    /\ slot' = [slot EXCEPT ![i] = p]
    /\ SetScavSymbol(i, p)
    /\ UNCHANGED <<status, poolVars, prim, crtVars, total_reps>>

\* The demand is met, or the pool is empty.
AllocEnd(t) ==
    /\ status = "ready"
    /\ prim[t] = "take"
    /\ (\A i \in Entries : ~InPool(i)) \/ (\A p \in Places : Holds(t, p))
    /\ prim' = [prim EXCEPT ![t] = "run"]
    /\ UNCHANGED <<status, poolVars, listVars, crtVars, objVars>>

Allocation(t) ==
    \/ LockPool(t) \/ AllocEnd(t)
    \/ \E i \in Entries, p \in Places : Host(t, i, p)

\* The primary enters msh_cleanup: what it hosts runs to completion.
Finish(t) ==
    /\ status = "ready"
    /\ prim[t] = "run"
    /\ prim' = [prim EXCEPT ![t] = "over"]
    /\ UNCHANGED <<status, poolVars, listVars, crtVars, objVars>>

-----------------------------------------------------------------------------
(* The coroutine of an entry.                                              *)

Hosted(i) == slot[i] > 0

\* The coroutine of entry i has the processor of its primary.
Runs(i, label) ==
    /\ status = "ready"
    /\ Hosted(i)
    /\ prim[host[i]] \in {"run", "over"}
    /\ co[i] = label

Crash(i) ==
    /\ status' = "crash"
    /\ co' = [co EXCEPT ![i] = "crashed"]
    /\ UNCHANGED <<poolVars, prim, listVars, rep, objVars>>

\* entry reads the words its object has been given; with two words argv[2]
\* is the null pointer and std::stoull has nothing to convert.
Entry(i) ==
    LET c == Command(words[ObjOf(i)])
    IN  /\ Runs(i, "entry")
        /\ c.argc # 2
        /\ total_reps' = IF c.argc > 1
                         THEN [total_reps EXCEPT ![ObjOf(i)] = c.reps]
                         ELSE total_reps
        /\ co' = [co EXCEPT ![i] = "loop"]
        /\ UNCHANGED <<status, poolVars, prim, listVars, rep, words, crt_pos>>

EntryCrash(i) ==
    /\ Runs(i, "entry")
    /\ Command(words[ObjOf(i)]).argc = 2
    /\ Crash(i)

\* while (++rep < total_reps)
MoreRounds(i) == rep[i] + 1 < total_reps[ObjOf(i)]

\* A round saves the context at gs:[crt_pos] and yields; the slot there has
\* to be the coroutine's own.
Compute(i) ==
    /\ Runs(i, "loop")
    /\ MoreRounds(i)
    /\ rep' = [rep EXCEPT ![i] = @ + 1]
    /\ status' = IF crt_pos[ObjOf(i)] = YC * slot[i] THEN status ELSE "lost"
    /\ UNCHANGED <<poolVars, prim, listVars, co, objVars>>

ComputeEnd(i) ==
    /\ Runs(i, "loop")
    /\ ~MoreRounds(i)
    /\ rep' = [rep EXCEPT ![i] = @ + 1]
    /\ co' = [co EXCEPT ![i] = "report"]
    /\ UNCHANGED <<status, poolVars, prim, listVars, objVars>>

\* The time per round is divided by total_reps.
ReturnCrash(i) ==
    /\ Runs(i, "report")
    /\ total_reps[ObjOf(i)] = 0
    /\ Crash(i)

\* entry returns crt_pos.
ReturnPos(i) == crt_pos[ObjOf(i)] \div YC

\* tl_pack_crts after slot p of t was freed: the entries behind it move down.
Behind(t, p) == {j \in Entries : host[j] = t /\ slot[j] > p}

\* tl_swap_crts stores the new slot of each in its object, lowest first.
PackSymbols(t, p) ==
    [o \in Objects |->
        LET new == {slot[j] - 1 : j \in {k \in Behind(t, p) : ObjOf(k) = o}}
        IN  IF new = {} THEN crt_pos[o] ELSE Max(new)]

\* tl_finish_crt
Retired(t, p) ==
    [j \in Entries |-> IF At(t, p, j) THEN FINISHED ELSE slot[j]]

Packed(t, p) ==
    [j \in Entries |-> IF j \in Behind(t, p) THEN slot[j] - 1
                       ELSE Retired(t, p)[j]]

\* tl_sched_next_crt retires the entry in the slot it was given, packs the
\* list and allocates again; in msh_cleanup it only retires.
Return(i) ==
    LET t == host[i]
        p == ReturnPos(i)
    IN  /\ Runs(i, "report")
        /\ total_reps[ObjOf(i)] # 0
        /\ LockFree
        /\ p # 0
        /\ Holds(t, p)
        /\ co' = [co EXCEPT ![i] = "returned"]
        /\ \/ /\ prim[t] = "run"
              /\ slot' = Packed(t, p)
              /\ crt_pos' = PackSymbols(t, p)
              /\ prim' = [prim EXCEPT ![t] = "alloc"]
           \/ /\ prim[t] = "over"
              /\ slot' = Retired(t, p)
              /\ UNCHANGED <<crt_pos, prim>>
        /\ UNCHANGED <<status, poolVars, host, rep, words, total_reps>>

\* The slot holds no entry: the primary is taken to be finished.
ReturnLost(i) ==
    /\ Runs(i, "report")
    /\ total_reps[ObjOf(i)] # 0
    /\ ReturnPos(i) = 0 \/ ~Holds(host[i], ReturnPos(i))
    /\ co' = [co EXCEPT ![i] = "returned"]
    /\ status' = "lost"
    /\ UNCHANGED <<poolVars, prim, listVars, rep, objVars>>

\* The scheduler or a yield jumps to a coroutine that has returned.
RunsDead(i) ==
    /\ Runs(i, "returned")
    /\ status' = "lost"
    /\ UNCHANGED <<poolVars, prim, listVars, crtVars, objVars>>

Coroutine(i) ==
    \/ Entry(i) \/ EntryCrash(i) \/ Compute(i) \/ ComputeEnd(i)
    \/ ReturnCrash(i) \/ Return(i) \/ ReturnLost(i) \/ RunsDead(i)

-----------------------------------------------------------------------------

\* The program stopped, or every primary has run what it hosted.
Over ==
    /\ status # "loading"
    /\ status = "ready" =>
          /\ \A t \in Primaries : prim[t] = "over"
          /\ \A i \in Entries : ~Hosted(i)
    /\ UNCHANGED allVars

LifeNext ==
    \/ Loading
    \/ \E t \in Primaries : Allocation(t) \/ Finish(t)
    \/ \E i \in Entries : Coroutine(i)
    \/ Over

LifeSpec == LifeInit /\ [][LifeNext]_allVars

\* A primary goes on yielding or cleans up, so that the coroutines it hosts
\* get their turns; it need not ever end.
FairLife ==
    /\ LifeSpec
    /\ WF_allVars(Loading)
    /\ \A t \in Primaries : WF_allVars(Allocation(t))
    /\ \A i \in Entries : WF_allVars(Coroutine(i))

-----------------------------------------------------------------------------

\* The default of max_scav_per_thread.
DefaultCap == max_scav_per_thread = 1

Loaded == {i \in Entries : table[i] # NONE}

\* No two entries of the table name the same object.
Distinct == \A i, j \in Loaded : ObjOf(i) = ObjOf(j) => i = j

\* total_reps as the entry's own line asks for it.
OwnReps(i) == IF Command(i).argc = 3 THEN Command(i).reps ELSE DefaultReps

\* At the default cap an entry is retired by the return of its own coroutine
\* and of no other, whichever primary hosts it; and with an object of its own
\* this coroutine has computed what its own line asks for, although entry
\* reads argc and argv long after set_scav_symbol stored them.
OwnWork ==
    DefaultCap => \A i \in Loaded :
        /\ co[i] = "returned" <=> slot[i] = FINISHED
        /\ Distinct /\ co[i] = "returned" =>
              rep[i] = IF OwnReps(i) > 1 THEN OwnReps(i) ELSE 1

\* At the default cap the runtime loses no coroutine (every yield saves the
\* context in the slot of the one that yields, no return is taken for that of
\* the primary, and none that has returned is run again), and with objects of
\* their own scavengers crash the program only through their own line: two
\* words, or a number of rounds that is 0.
CrashOwn ==
    DefaultCap =>
        /\ status # "lost"
        /\ Distinct => \A i \in Loaded :
              co[i] = "crashed" => Command(i).argc = 2 \/ OwnReps(i) = 0

\* "Coroutine at pos %d is finished -- Scavenger index = %d"
\* (tl_sched_next_crt): an entry is retired when its coroutine has returned.
RetiresReturned ==
    \A i \in Entries : slot[i] = FINISHED => co[i] = "returned"

\* At the default cap every entry of the pool is hosted, runs and is retired in
\* the end, unless a scavenger crashes the program or every primary has ended
\* before it could be hosted; what a primary hosts is retired in any case.
PoolDrained ==
    status = "ready" /\ DefaultCap ~>
        \/ status = "crash"
        \/ \A i \in Loaded :
              \/ slot[i] = FINISHED
              \/ slot[i] = IDLE /\ \A t \in Primaries : prim[t] = "over"

=============================================================================
