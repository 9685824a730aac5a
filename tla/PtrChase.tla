------------------------------ MODULE PtrChase ------------------------------
(***************************************************************************)
(* The example primary apps/src/primary/ptrchase.cpp: main links an array  *)
(* of nodes into a random cycle, creates THREAD_NUM threads that follow    *)
(* the links, and joins them.  An index stands for the address of a node;  *)
(* one core and one job (CORE_NUM = JOBS_PER_CORE = 1), so one cycle.      *)
(* Timing and printouts are left out.                                      *)
(***************************************************************************)
EXTENDS Integers

CONSTANTS
    MaxLen,        \* bound: arr_len
    REPS,          \* rounds a thread makes
    THREAD_NUM

ASSUME ChaseAssumption ==
    /\ MaxLen \in Nat
    /\ REPS \in Nat
    /\ THREAD_NUM \in Nat \ {0}

Tasks == 0 .. THREAD_NUM - 1
NULL == -1         \* what a fresh page holds
JUNK == -2         \* what malloc returns

VARIABLES
    arr_len,       \* from the command line
    pc,            \* where main is
    perm, idx,     \* locals of gen_cycle
    cycle,         \* the array it fills for init_run
    next, cur,     \* data_arr[i].next, and the node init_run links
    task,          \* thread that main creates or joins next
    state,         \* of each created thread
    at, reps,      \* locals cur and reps of ptrchase_tq
    visits         \* history: how often a thread has left each node

genVars == <<perm, idx, cycle>>
dataVars == <<next, cur>>
taskVars == <<state, at, reps, visits>>
vars == <<arr_len, pc, task, genVars, dataVars, taskVars>>

Nodes == 0 .. arr_len - 1

Init ==
    /\ arr_len \in 0 .. MaxLen
    /\ pc = "mmap"
    /\ perm = [i \in Nodes |-> JUNK]
    /\ idx = 0
    /\ cycle = [i \in Nodes |-> JUNK]
    /\ next = [i \in Nodes |-> NULL]
    /\ cur = 0
    /\ task = 0
    /\ state = [w \in Tasks |-> "none"]
    /\ at = [w \in Tasks |-> 0]
    /\ reps = [w \in Tasks |-> 0]
    /\ visits = [w \in Tasks |-> [i \in Nodes |-> 0]]

-----------------------------------------------------------------------------
(* init_run and gen_cycle                                                  *)

\* mmap may fail and does for length 0; else perm starts as the identity.
Mmap ==
    /\ pc = "mmap"
    /\ \/ pc' = "exit" /\ perm' = perm
       \/ /\ arr_len > 0
          /\ pc' = "shuffle"
          /\ perm' = [i \in Nodes |-> i]
    /\ UNCHANGED <<arr_len, idx, cycle, dataVars, task, taskVars>>

\* Mutant of Exchange: tmp is forgotten.
ExchangeOneWay(i, j) == [perm EXCEPT ![i] = perm[j]]

\* tmp = perm[i]; perm[i] = perm[j]; perm[j] = tmp
Exchange(i, j) == [perm EXCEPT ![i] = perm[j], ![j] = perm[i]]

\* Mutant of InLoop: the last element is left out.
InLoopShort == idx + 1 < arr_len

\* idx < out_len
InLoop == idx < arr_len

\* One round of the shuffle; rand() may return anything.
Shuffle ==
    /\ pc = "shuffle"
    /\ InLoop
    /\ \E dst_idx \in Nodes : perm' = Exchange(idx, dst_idx)
    /\ idx' = idx + 1
    /\ UNCHANGED <<arr_len, pc, cycle, dataVars, task, taskVars>>

ShuffleEnd ==
    /\ pc = "shuffle"
    /\ ~InLoop
    /\ idx' = 0
    /\ pc' = "link"
    /\ UNCHANGED <<arr_len, perm, cycle, dataVars, task, taskVars>>

\* Mutant of After: the last element does not lead back to the first.
AfterNoWrap(i) == IF i + 1 < arr_len THEN i + 1 ELSE i

\* (idx + 1) % out_len
After(i) == (i + 1) % arr_len

\* out[perm[idx]] = perm[(idx + 1) % out_len]
Link ==
    /\ pc = "link"
    /\ InLoop
    /\ cycle' = [cycle EXCEPT ![perm[idx]] = perm[After(idx)]]
    /\ idx' = idx + 1
    /\ UNCHANGED <<arr_len, pc, perm, dataVars, task, taskVars>>

LinkEnd ==
    /\ pc = "link"
    /\ ~InLoop
    /\ pc' = "fill"
    /\ UNCHANGED <<arr_len, genVars, dataVars, task, taskVars>>

\* One round of the do-while loop, which ends when it is back at node 0.
Fill ==
    /\ pc = "fill"
    /\ next' = [next EXCEPT ![cur] = cycle[cur]]
    /\ cur' = cycle[cur]
    /\ pc' = IF cycle[cur] = 0 THEN "create" ELSE "fill"
    /\ UNCHANGED <<arr_len, genVars, task, taskVars>>

-----------------------------------------------------------------------------
(* run and ptrchase_tq                                                     *)

\* pthread_create; an error ends the program.
Create ==
    /\ pc = "create"
    /\ task < THREAD_NUM
    /\ \/ /\ state' = [state EXCEPT ![task] = "run"]
          /\ task' = task + 1
          /\ pc' = pc
       \/ pc' = "exit" /\ UNCHANGED <<state, task>>
    /\ UNCHANGED <<arr_len, genVars, dataVars, at, reps, visits>>

CreateEnd ==
    /\ pc = "create"
    /\ task = THREAD_NUM
    /\ task' = 0
    /\ pc' = "join"
    /\ UNCHANGED <<arr_len, genVars, dataVars, taskVars>>

\* Mutant of Joined: the loop stops one thread early.
JoinedEarly == task = THREAD_NUM - 1

\* i < THREAD_NUM fails.
Joined == task = THREAD_NUM

Join ==
    /\ pc = "join"
    /\ ~Joined
    /\ state[task] = "end"
    /\ task' = task + 1
    /\ UNCHANGED <<arr_len, pc, genVars, dataVars, taskVars>>

\* run returns, and its array targ is gone.
RunReturns ==
    /\ pc = "join"
    /\ Joined
    /\ pc' = "done"
    /\ UNCHANGED <<arr_len, task, genVars, dataVars, taskVars>>

\* A thread stops with the process.
Alive == pc # "exit"

RepPerTask == arr_len * REPS

\* cur = cur->next
Chase(w) ==
    /\ Alive
    /\ state[w] = "run"
    /\ reps[w] < RepPerTask
    /\ visits' = [visits EXCEPT ![w][at[w]] = @ + 1]
    /\ at' = [at EXCEPT ![w] = next[@]]
    /\ reps' = [reps EXCEPT ![w] = @ + 1]
    /\ UNCHANGED <<arr_len, pc, task, genVars, dataVars, state>>

ChaseEnd(w) ==
    /\ Alive
    /\ state[w] = "run"
    /\ reps[w] = RepPerTask
    /\ state' = [state EXCEPT ![w] = "end"]
    /\ UNCHANGED <<arr_len, pc, task, genVars, dataVars, at, reps, visits>>

Stopped ==
    /\ pc \in {"exit", "done"}
    /\ UNCHANGED vars

MainStep ==
    \/ Mmap \/ Shuffle \/ ShuffleEnd \/ Link \/ LinkEnd \/ Fill
    \/ Create \/ CreateEnd \/ Join \/ RunReturns

TaskStep(w) == Chase(w) \/ ChaseEnd(w)

Next == MainStep \/ (\E w \in Tasks : TaskStep(w)) \/ Stopped

Spec == Init /\ [][Next]_vars

\* The kernel runs main and the threads.
FairSpec ==
    /\ Spec
    /\ WF_vars(MainStep)
    /\ \A w \in Tasks : WF_vars(TaskStep(w))

-----------------------------------------------------------------------------

\* Every array holds nodes of the array or what it held when it was new.
TypeOK ==
    /\ arr_len \in 0 .. MaxLen
    /\ pc \in {"mmap", "shuffle", "link", "fill", "create", "join", "done",
               "exit"}
    /\ perm \in [Nodes -> Nodes \cup {JUNK}]
    /\ idx \in 0 .. arr_len
    /\ cycle \in [Nodes -> Nodes \cup {JUNK}]
    /\ next \in [Nodes -> Nodes \cup {NULL, JUNK}]
    /\ cur \in Nodes \cup {0}
    /\ task \in 0 .. THREAD_NUM
    /\ state \in [Tasks -> {"none", "run", "end"}]
    /\ at \in [Tasks -> Nodes \cup {0}]
    /\ reps \in [Tasks -> Nat]
    /\ visits \in [Tasks -> [Nodes -> Nat]]

\* The shuffle loses no element: whatever rand() returns, perm holds every
\* node once.
IsPermutation ==
    pc \notin {"mmap", "exit"} =>
        /\ \A i \in Nodes : perm[i] \in Nodes
        /\ \A i, j \in Nodes : perm[i] = perm[j] => i = j

\* init_run has linked every node when it comes back to node 0, so no thread
\* follows the null pointer of a fresh page.
AllLinked ==
    pc \in {"create", "join", "done"} => \A i \in Nodes : next[i] \in Nodes

\* The links form one cycle: a thread visits all nodes equally often, never
\* one twice before another once, and ends where it started.
VisitsEven ==
    \A w \in Tasks :
        /\ \A i, j \in Nodes : visits[w][i] <= visits[w][j] + 1
        /\ state[w] = "end" =>
              /\ at[w] = 0
              /\ \A i \in Nodes : visits[w][i] = REPS

\* The threads read targ on the stack of run, which has not returned.
TargAlive == pc = "done" => \A w \in Tasks : state[w] # "run"

\* The walk over the cycle is finite, the threads end and run returns.
Returns == <>(pc \in {"done", "exit"})

=============================================================================
