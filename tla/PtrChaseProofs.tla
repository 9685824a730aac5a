--------------------------- MODULE PtrChaseProofs ---------------------------
(***************************************************************************)
(* The walk of ptrchase.cpp for every length of the array, every number of *)
(* threads and rounds, and every result of rand().                         *)
(***************************************************************************)
EXTENDS PtrChase, TLAPS

\* The element k places after the p-th of the cycle.
Pos(p, k) == IF p + k < arr_len THEN p + k ELSE p + k - arr_len

\* perm holds every node once.
Bijection ==
    /\ perm \in [Nodes -> Nodes]
    /\ \A i, j \in Nodes : perm[i] = perm[j] => i = j
    /\ \A n \in Nodes : \E i \in Nodes : perm[i] = n

\* perm is in order from the end of mmap on.
Shuffled ==
    pc \notin {"mmap", "exit"} \/ (\E w \in Tasks : state[w] # "none") =>
        arr_len > 0 /\ Bijection

\* gen_cycle has linked the first idx elements of perm, and in the end all.
Cycled ==
    /\ pc = "link" =>
          \A k \in Nodes : k < idx => cycle[perm[k]] = perm[After(k)]
    /\ pc \in {"fill", "create", "join", "done"} =>
          \A k \in Nodes : cycle[perm[k]] = perm[After(k)]

\* init_run starts at node 0; it is n links on and has set those n.
Fills(p, n) ==
    /\ perm[p] = 0
    /\ cur = perm[Pos(p, n)]
    /\ \A k \in Nodes : k < n => next[perm[Pos(p, k)]] = cycle[perm[Pos(p, k)]]

Filling ==
    /\ pc \in {"mmap", "shuffle", "link"} => cur = 0
    /\ pc = "fill" => \E p, n \in Nodes : Fills(p, n)

\* Threads find the links of gen_cycle.
Filled ==
    pc \in {"create", "join", "done"} => \A i \in Nodes : next[i] = cycle[i]

\* A thread has made q rounds and r steps of the next one.
Walk(w, p, q, r) ==
    /\ perm[p] = 0
    /\ at[w] = perm[Pos(p, r)]
    /\ reps[w] = q * arr_len + r
    /\ \A k \in Nodes :
          visits[w][perm[Pos(p, k)]] = IF k < r THEN q + 1 ELSE q

Walking ==
    \A w \in Tasks :
        /\ state[w] = "none" => /\ at[w] = 0 /\ reps[w] = 0
                                /\ \A i \in Nodes : visits[w][i] = 0
        /\ state[w] # "none" =>
              /\ pc \in {"create", "join", "done", "exit"}
              /\ \E p, r \in Nodes, q \in Nat : Walk(w, p, q, r)
        /\ state[w] = "end" => reps[w] = RepPerTask

\* Joined threads have ended.
JoinedEnded ==
    /\ pc = "join" => \A w \in Tasks : w < task => state[w] = "end"
    /\ pc = "done" => \A w \in Tasks : state[w] = "end"

ChaseInv ==
    /\ TypeOK /\ Shuffled /\ Cycled /\ Filling /\ Filled /\ Walking
    /\ JoinedEnded

-----------------------------------------------------------------------------
(* Positions on the cycle.                                                 *)

\* (i + 1) % arr_len is the next index, and 0 after the last.
LEMMA AfterIs ==
    ASSUME arr_len \in Nat \ {0}, NEW i \in Nodes
    PROVE  After(i) = IF i + 1 < arr_len THEN i + 1 ELSE 0
  BY DEF After, Nodes

\* Pos(p, _) is an index and hits every index once.
LEMMA PosIs ==
    ASSUME arr_len \in Nat \ {0}, NEW p \in Nodes
    PROVE  /\ \A k \in Nodes : Pos(p, k) \in Nodes
           /\ \A k, j \in Nodes : Pos(p, k) = Pos(p, j) => k = j
           /\ \A i \in Nodes : \E k \in Nodes : Pos(p, k) = i
           /\ Pos(p, 0) = p
  <1>1. /\ \A k \in Nodes : Pos(p, k) \in Nodes
        /\ \A k, j \in Nodes : Pos(p, k) = Pos(p, j) => k = j
        /\ Pos(p, 0) = p
    BY DEF Pos, Nodes
  <1>2. ASSUME NEW i \in Nodes
        PROVE  \E k \in Nodes : Pos(p, k) = i
    <2>1. CASE i >= p
      <3>1. i - p \in Nodes /\ Pos(p, i - p) = i
        BY <2>1 DEF Pos, Nodes
      <3> QED
        BY <3>1
    <2>2. CASE i < p
      <3>1. i + arr_len - p \in Nodes /\ Pos(p, i + arr_len - p) = i
        BY <2>2 DEF Pos, Nodes
      <3> QED
        BY <3>1
    <2> QED
      BY <2>1, <2>2 DEF Nodes
  <1> QED
    BY <1>1, <1>2

\* One element on is one place on; after the last place comes p again.
LEMMA PosAfter ==
    ASSUME arr_len \in Nat \ {0}, NEW p \in Nodes, NEW k \in Nodes
    PROVE  /\ After(Pos(p, k)) \in Nodes
           /\ k + 1 < arr_len => After(Pos(p, k)) = Pos(p, k + 1)
           /\ k + 1 = arr_len => After(Pos(p, k)) = p
  <1>1. Pos(p, k) \in Nodes
    BY PosIs
  <1>2. After(Pos(p, k)) =
           IF Pos(p, k) + 1 < arr_len THEN Pos(p, k) + 1 ELSE 0
    BY <1>1, AfterIs
  <1> QED
    BY <1>1, <1>2 DEF Pos, Nodes

\* An exchange keeps every node in perm once.
LEMMA ExchangeKeeps ==
    ASSUME Bijection, NEW i \in Nodes, NEW j \in Nodes,
           perm' = Exchange(i, j), arr_len' = arr_len
    PROVE  Bijection'
  <1>1. perm' \in [Nodes -> Nodes]
    BY DEF Bijection, Exchange
  <1>2. \A k \in Nodes : perm'[k] = IF k = j THEN perm[i]
                                    ELSE IF k = i THEN perm[j] ELSE perm[k]
    BY DEF Bijection, Exchange
  <1>3. \A k, l \in Nodes : perm'[k] = perm'[l] => k = l
    BY <1>2 DEF Bijection
  <1>4. \A n \in Nodes : \E k \in Nodes : perm'[k] = n
    BY <1>2 DEF Bijection
  <1>5. Nodes' = Nodes
    BY DEF Nodes
  <1> QED
    BY <1>1, <1>3, <1>4, <1>5 DEF Bijection

-----------------------------------------------------------------------------
(* The steps of main.                                                      *)

\* Before the threads exist, nobody walks.
LEMMA NobodyWalks ==
    ASSUME Walking, pc \notin {"create", "join", "done", "exit"}
    PROVE  \A w \in Tasks : state[w] = "none"
  BY DEF Walking

\* perm stays as it is.
LEMMA BijectionKept ==
    ASSUME Bijection, UNCHANGED <<arr_len, perm>>
    PROVE  Bijection'
  <1>1. Nodes' = Nodes
    BY DEF Nodes
  <1> QED
    BY <1>1 DEF Bijection

\* A step that leaves perm, the links and the walkers alone.
LEMMA WalkingKept ==
    ASSUME Walking, UNCHANGED <<arr_len, perm, taskVars>>,
           pc \in {"create", "join", "done", "exit"} =>
              pc' \in {"create", "join", "done", "exit"}
    PROVE  Walking'
  <1>1. UNCHANGED <<state, at, reps, visits>>
    BY DEF taskVars
  <1> QED
    BY <1>1 DEF Walking, Walk, Pos, Nodes, RepPerTask

\* While nobody walks, perm may change.
LEMMA WalkingIdle ==
    ASSUME Walking, UNCHANGED <<arr_len, taskVars>>,
           pc \notin {"create", "join", "done", "exit"}
    PROVE  Walking'
  <1>1. UNCHANGED <<state, at, reps, visits>>
    BY DEF taskVars
  <1>2. \A w \in Tasks : state[w] = "none"
    BY NobodyWalks
  <1> QED
    BY <1>1, <1>2 DEF Walking, Nodes

\* mmap, and the identity to start from.
LEMMA StepMmap == ChaseInv /\ Mmap => ChaseInv'
  <1> SUFFICES ASSUME ChaseInv, Mmap
               PROVE  ChaseInv'
    OBVIOUS
  <1>1. TypeOK /\ Walking
    BY DEF ChaseInv
  <1>2. Walking'
    BY <1>1, WalkingIdle DEF Mmap
  <1>3. \A w \in Tasks : state'[w] = "none"
    BY <1>1, NobodyWalks DEF Mmap, taskVars
  <1>4. CASE pc' = "exit" /\ perm' = perm
    <2>1. TypeOK'
      BY <1>1, <1>4 DEF Mmap, TypeOK, Nodes, dataVars, taskVars
    <2>2. Shuffled'
      BY <1>3, <1>4 DEF Shuffled
    <2> QED
      BY <1>2, <1>4, <2>1, <2>2
         DEF Mmap, ChaseInv, Cycled, Filling, Filled, JoinedEnded, dataVars
  <1>5. CASE arr_len > 0 /\ pc' = "shuffle" /\ perm' = [i \in Nodes |-> i]
    <2>1. TypeOK'
      BY <1>1, <1>5 DEF Mmap, TypeOK, Nodes, dataVars, taskVars
    <2>2. Shuffled'
      BY <1>1, <1>5 DEF Mmap, Shuffled, Bijection, Nodes
    <2> QED
      BY <1>2, <1>5, <2>1, <2>2
         DEF Mmap, ChaseInv, Cycled, Filling, Filled, JoinedEnded, dataVars
  <1> QED
    BY <1>4, <1>5 DEF Mmap

\* One exchange of the shuffle.
LEMMA StepShuffle == ChaseInv /\ Shuffle => ChaseInv'
  <1> SUFFICES ASSUME ChaseInv, Shuffle
               PROVE  ChaseInv'
    OBVIOUS
  <1>1. TypeOK /\ Walking /\ Bijection /\ arr_len \in Nat \ {0}
    BY DEF ChaseInv, TypeOK, Shuffled, Shuffle
  <1>2. PICK dst_idx \in Nodes : perm' = Exchange(idx, dst_idx)
    BY DEF Shuffle
  <1>3. idx \in Nodes
    BY <1>1 DEF Shuffle, InLoop, TypeOK, Nodes
  <1>4. Bijection'
    BY <1>1, <1>2, <1>3, ExchangeKeeps DEF Shuffle
  <1>5. TypeOK'
    <2>1. Nodes' = Nodes
      BY DEF Shuffle, Nodes
    <2>2. perm' \in [Nodes -> Nodes \cup {JUNK}]
      BY <1>4, <2>1 DEF Bijection
    <2>3. idx' \in 0 .. arr_len
      BY <1>1, <1>3 DEF Shuffle, Nodes
    <2> QED
      BY <1>1, <2>1, <2>2, <2>3 DEF Shuffle, TypeOK, dataVars, taskVars
  <1>6. Walking'
    BY <1>1, WalkingIdle DEF Shuffle
  <1> QED
    BY <1>1, <1>4, <1>5, <1>6
       DEF Shuffle, ChaseInv, Shuffled, Cycled, Filling, Filled, JoinedEnded,
           dataVars

\* The shuffle is over.
LEMMA StepShuffleEnd == ChaseInv /\ ShuffleEnd => ChaseInv'
  <1> SUFFICES ASSUME ChaseInv, ShuffleEnd
               PROVE  ChaseInv'
    OBVIOUS
  <1>1. TypeOK /\ Walking /\ Bijection /\ arr_len \in Nat \ {0}
    BY DEF ChaseInv, TypeOK, Shuffled, ShuffleEnd
  <1>2. TypeOK'
    BY <1>1 DEF ShuffleEnd, TypeOK, Nodes, dataVars, taskVars
  <1>3. Walking'
    BY <1>1, WalkingIdle DEF ShuffleEnd
  <1>4. Shuffled'
    BY <1>1, BijectionKept DEF ShuffleEnd, Shuffled
  <1>5. Cycled'
    BY DEF ShuffleEnd, Cycled, Nodes
  <1> QED
    BY <1>2, <1>3, <1>4, <1>5
       DEF ShuffleEnd, ChaseInv, Filling, Filled, JoinedEnded, dataVars

\* out[perm[idx]] gets its successor; perm has no element twice, so no link is
\* overwritten.
LEMMA StepLink == ChaseInv /\ Link => ChaseInv'
  <1> SUFFICES ASSUME ChaseInv, Link
               PROVE  ChaseInv'
    OBVIOUS
  <1>1. /\ TypeOK /\ Walking /\ Bijection /\ arr_len \in Nat \ {0}
        /\ \A k \in Nodes : k < idx => cycle[perm[k]] = perm[After(k)]
    BY DEF ChaseInv, TypeOK, Shuffled, Cycled, Link
  <1>2. idx \in Nodes
    BY <1>1 DEF Link, InLoop, TypeOK, Nodes
  <1>3. perm[After(idx)] \in Nodes /\ perm[idx] \in Nodes
    <2>1. After(idx) \in Nodes
      BY <1>1, <1>2, AfterIs DEF Nodes
    <2> QED
      BY <1>1, <1>2, <2>1 DEF Bijection
  <1>4. TypeOK'
    <2>1. Nodes' = Nodes
      BY DEF Link, Nodes
    <2>2. idx' \in 0 .. arr_len
      BY <1>1, <1>2 DEF Link, Nodes
    <2>3. cycle' \in [Nodes -> Nodes \cup {JUNK}]
      BY <1>1, <1>3 DEF Link, TypeOK
    <2> QED
      BY <1>1, <2>1, <2>2, <2>3 DEF Link, TypeOK, dataVars, taskVars
  <1>5. Walking'
    BY <1>1, WalkingIdle DEF Link
  <1>6. Shuffled'
    BY <1>1, BijectionKept DEF Link, Shuffled
  <1>7. ASSUME NEW k \in Nodes, k < idx + 1
        PROVE  cycle'[perm[k]] = perm[After(k)]
    <2>1. perm[k] \in Nodes /\ cycle \in [Nodes -> Nodes \cup {JUNK}]
      BY <1>1 DEF Bijection, TypeOK
    <2>2. CASE k = idx
      BY <1>3, <2>1, <2>2 DEF Link
    <2>3. CASE k # idx
      <3>1. perm[k] # perm[idx]
        BY <1>1, <1>2, <2>3 DEF Bijection
      <3>2. k < idx
        BY <1>2, <1>7, <2>3 DEF Nodes
      <3> QED
        BY <1>1, <2>1, <3>1, <3>2 DEF Link
    <2> QED
      BY <2>2, <2>3
  <1>8. Cycled'
    BY <1>7 DEF Link, Cycled, After, Nodes
  <1> QED
    BY <1>4, <1>5, <1>6, <1>8
       DEF Link, ChaseInv, Filling, Filled, JoinedEnded, dataVars

\* gen_cycle returns and init_run starts at node 0.
LEMMA StepLinkEnd == ChaseInv /\ LinkEnd => ChaseInv'
  <1> SUFFICES ASSUME ChaseInv, LinkEnd
               PROVE  ChaseInv'
    OBVIOUS
  <1>1. /\ TypeOK /\ Walking /\ Bijection /\ arr_len \in Nat \ {0} /\ cur = 0
        /\ \A k \in Nodes : k < idx => cycle[perm[k]] = perm[After(k)]
    BY DEF ChaseInv, TypeOK, Shuffled, Cycled, Filling, LinkEnd
  <1>2. UNCHANGED <<arr_len, perm, idx, cycle, next, cur, task, taskVars>>
    BY DEF LinkEnd, genVars, dataVars
  <1>3. Nodes' = Nodes
    BY <1>2 DEF Nodes
  <1>4. TypeOK'
    BY <1>1, <1>2, <1>3 DEF LinkEnd, TypeOK, taskVars
  <1>5. Walking'
    BY <1>1, <1>2, WalkingIdle DEF LinkEnd
  <1>6. Shuffled'
    BY <1>1, <1>2, BijectionKept DEF LinkEnd, Shuffled
  <1>7. Cycled'
    <2>1. \A k \in Nodes : k < idx
      BY <1>1 DEF LinkEnd, InLoop, TypeOK, Nodes
    <2> QED
      BY <1>1, <1>2, <1>3, <2>1 DEF LinkEnd, Cycled, After
  <1>8. \E p, n \in Nodes : Fills(p, n)
    <2>1. 0 \in Nodes
      BY <1>1 DEF Nodes
    <2>2. PICK p \in Nodes : perm[p] = 0
      BY <1>1, <2>1 DEF Bijection
    <2>3. Pos(p, 0) = p /\ \A k \in Nodes : ~(k < 0)
      BY <1>1, PosIs DEF Nodes
    <2>4. Fills(p, 0)
      BY <1>1, <2>2, <2>3 DEF Fills
    <2> QED
      BY <2>1, <2>4
  <1>9. Filling'
    BY <1>2, <1>3, <1>8 DEF LinkEnd, Filling, Fills, Pos
  <1> QED
    BY <1>4, <1>5, <1>6, <1>7, <1>9
       DEF LinkEnd, ChaseInv, Filled, JoinedEnded

\* init_run sets one link; back at node 0 it has set them all, because the
\* places from node 0 on are as many as there are nodes.
LEMMA StepFill == ChaseInv /\ Fill => ChaseInv'
  <1> SUFFICES ASSUME ChaseInv, Fill
               PROVE  ChaseInv'
    OBVIOUS
  <1>1. /\ TypeOK /\ Walking /\ Bijection /\ arr_len \in Nat \ {0}
        /\ \A k \in Nodes : cycle[perm[k]] = perm[After(k)]
    BY DEF ChaseInv, TypeOK, Shuffled, Cycled, Fill
  <1>2. PICK p \in Nodes, n \in Nodes : Fills(p, n)
    BY DEF ChaseInv, Filling, Fill
  <1>3. UNCHANGED <<arr_len, perm, idx, cycle, task, taskVars>>
    BY DEF Fill, genVars
  <1>4. Nodes' = Nodes
    BY <1>3 DEF Nodes
  <1>5. /\ Pos(p, n) \in Nodes
        /\ After(Pos(p, n)) \in Nodes
        /\ n + 1 < arr_len => After(Pos(p, n)) = Pos(p, n + 1)
        /\ n + 1 = arr_len => After(Pos(p, n)) = p
    BY <1>1, <1>2, PosIs, PosAfter
  <1>6. /\ cur \in Nodes /\ cycle[cur] \in Nodes
        /\ cycle[cur] = perm[After(Pos(p, n))]
    BY <1>1, <1>2, <1>5 DEF Fills, Bijection
  <1>7. TypeOK'
    <2>1. next' \in [Nodes -> Nodes \cup {NULL, JUNK}] /\ cur' \in Nodes
      BY <1>1, <1>6 DEF Fill, TypeOK
    <2>2. pc' \in {"create", "fill"}
      BY DEF Fill
    <2> QED
      BY <1>1, <1>3, <1>4, <2>1, <2>2 DEF TypeOK, taskVars
  <1>8. Walking'
    BY <1>1, <1>3, WalkingIdle DEF Fill
  <1>9. Shuffled' /\ Cycled'
    <2>1. Bijection'
      BY <1>1, <1>3, BijectionKept
    <2>2. \A k \in Nodes' : (cycle[perm[k]] = perm[After(k)])'
      BY <1>1, <1>3, <1>4 DEF After
    <2> QED
      BY <1>1, <1>3, <2>1, <2>2 DEF Shuffled, Cycled, Fill
  <1>10. \A k \in Nodes : k <= n =>
            next'[perm[Pos(p, k)]] = cycle[perm[Pos(p, k)]]
    <2> SUFFICES ASSUME NEW k \in Nodes, k <= n
                 PROVE  next'[perm[Pos(p, k)]] = cycle[perm[Pos(p, k)]]
      OBVIOUS
    <2>1. Pos(p, k) \in Nodes /\ perm[Pos(p, k)] \in Nodes
      BY <1>1, PosIs DEF Bijection
    <2>2. next \in [Nodes -> Nodes \cup {NULL, JUNK}]
      BY <1>1 DEF TypeOK
    <2>3. CASE k = n
      BY <1>2, <2>1, <2>2, <2>3 DEF Fills, Fill
    <2>4. CASE k < n
      <3>1. next[perm[Pos(p, k)]] = cycle[perm[Pos(p, k)]]
        BY <1>2, <2>4 DEF Fills
      <3> QED
        BY <2>1, <2>2, <3>1 DEF Fill
    <2> QED
      BY <2>3, <2>4 DEF Nodes
  <1>11. CASE n + 1 < arr_len
    <2>1. n + 1 \in Nodes
      BY <1>1, <1>11 DEF Nodes
    <2>2. cycle[cur] # 0
      <3>1. /\ Pos(p, n + 1) # Pos(p, 0) /\ Pos(p, 0) = p
            /\ Pos(p, n + 1) \in Nodes
        <4>1. 0 \in Nodes /\ n + 1 # 0
          BY <1>1 DEF Nodes
        <4> QED
          BY <1>1, <2>1, <4>1, PosIs
      <3> QED
        BY <1>1, <1>2, <1>5, <1>6, <1>11, <3>1 DEF Fills, Bijection
    <2>3. pc' = "fill" /\ cur' = perm[Pos(p, n + 1)]
      BY <1>5, <1>6, <1>11, <2>2 DEF Fill
    <2>4. \A k \in Nodes : k < n + 1 => k <= n
      BY DEF Nodes
    <2>5. Fills(p, n + 1)'
      BY <1>2, <1>3, <1>4, <1>10, <2>3, <2>4 DEF Fills, Pos
    <2>6. Filling'
      BY <1>4, <2>1, <2>3, <2>5 DEF Filling
    <2> QED
      BY <1>7, <1>8, <1>9, <2>3, <2>6 DEF ChaseInv, Filled, JoinedEnded
  <1>12. CASE n + 1 = arr_len
    <2>1. pc' = "create"
      BY <1>2, <1>5, <1>6, <1>12 DEF Fill, Fills
    <2>2. ASSUME NEW i \in Nodes
          PROVE  next'[i] = cycle[i]
      <3>1. PICK j \in Nodes : perm[j] = i
        BY <1>1 DEF Bijection
      <3>2. PICK k \in Nodes : Pos(p, k) = j
        BY <1>1, PosIs
      <3>3. k <= n
        BY <1>12 DEF Nodes
      <3> QED
        BY <1>10, <3>1, <3>2, <3>3
    <2>3. Filled'
      BY <1>3, <1>4, <2>2 DEF Filled
    <2> QED
      BY <1>7, <1>8, <1>9, <2>1, <2>3 DEF ChaseInv, Filling, JoinedEnded
  <1> QED
    BY <1>1, <1>11, <1>12 DEF Nodes

\* A new thread starts at node 0 with nothing counted.
LEMMA StepCreate == ChaseInv /\ Create => ChaseInv'
  <1> SUFFICES ASSUME ChaseInv, Create
               PROVE  ChaseInv'
    OBVIOUS
  <1>1. /\ TypeOK /\ Walking /\ Bijection /\ arr_len \in Nat \ {0}
        /\ Cycled /\ Filled /\ Shuffled /\ THREAD_NUM \in Nat \ {0}
    BY ChaseAssumption DEF ChaseInv, TypeOK, Shuffled, Create
  <1>2. UNCHANGED <<arr_len, perm, idx, cycle, next, cur, at, reps, visits>>
    BY DEF Create, genVars, dataVars
  <1>3. Nodes' = Nodes
    BY <1>2 DEF Nodes
  <1>4. Bijection'
    BY <1>1, <1>2, BijectionKept
  <1>5. CASE pc' = "exit" /\ UNCHANGED <<state, task>>
    <2>1. TypeOK'
      BY <1>1, <1>2, <1>3, <1>5 DEF TypeOK
    <2>2. Walking'
      BY <1>1, <1>2, <1>5, WalkingKept DEF taskVars
    <2> QED
      BY <1>1, <1>2, <1>4, <1>5, <2>1, <2>2
         DEF ChaseInv, Shuffled, Cycled, Filling, Filled, JoinedEnded
  <1>6. CASE /\ state' = [state EXCEPT ![task] = "run"]
             /\ task' = task + 1
             /\ pc' = pc
    <2>1. TypeOK'
      <3>1. task' \in 0 .. THREAD_NUM
        BY <1>1, <1>6 DEF Create, TypeOK
      <3>2. state' \in [Tasks -> {"none", "run", "end"}]
        BY <1>1, <1>6 DEF TypeOK
      <3> QED
        BY <1>1, <1>2, <1>3, <1>6, <3>1, <3>2 DEF TypeOK
    <2>2. 0 \in Nodes
      BY <1>1 DEF Nodes
    <2>3. PICK p \in Nodes : perm[p] = 0
      BY <1>1, <2>2 DEF Bijection
    <2>4. ASSUME NEW w \in Tasks, state[w] = "none"
          PROVE  Walk(w, p, 0, 0)
      <3>1. at[w] = 0 /\ reps[w] = 0 /\ \A i \in Nodes : visits[w][i] = 0
        BY <1>1, <2>4 DEF Walking
      <3>2. Pos(p, 0) = p
        BY <1>1, PosIs
      <3>3. 0 = 0 * arr_len + 0
        BY <1>1
      <3>4. \A k \in Nodes : perm[Pos(p, k)] \in Nodes
        BY <1>1, PosIs DEF Bijection
      <3>5. \A k \in Nodes : ~(k < 0)
        BY DEF Nodes
      <3> QED
        BY <2>3, <3>1, <3>2, <3>3, <3>4, <3>5 DEF Walk
    <2>5. ASSUME NEW w \in Tasks
          PROVE  \E q \in Nodes, r \in Nodes, n \in Nat : Walk(w, q, n, r)
      <3>1. CASE state[w] = "none"
        BY <2>2, <2>4, <3>1
      <3>2. CASE state[w] # "none"
        BY <1>1, <3>2 DEF Walking
      <3> QED
        BY <3>1, <3>2
    <2>6. Walking'
      <3> SUFFICES ASSUME NEW w \in Tasks
                   PROVE  /\ (state[w] = "none" =>
                                 /\ at[w] = 0 /\ reps[w] = 0
                                 /\ \A i \in Nodes : visits[w][i] = 0)'
                          /\ (\E q, r \in Nodes, n \in Nat : Walk(w, q, n, r))'
                          /\ (state[w] = "end" => reps[w] = RepPerTask)'
        BY <1>6 DEF Walking, Create
      <3>1. state'[w] \in {state[w], "run"}
        BY <1>1, <1>6 DEF TypeOK
      <3>2. (\E q, r \in Nodes, n \in Nat : Walk(w, q, n, r))'
        BY <1>2, <1>3, <2>5 DEF Walk, Pos
      <3> QED
        BY <1>1, <1>2, <1>3, <3>1, <3>2 DEF Walking, RepPerTask
    <2>7. Filled' /\ Cycled'
      BY <1>1, <1>2, <1>3, <1>6 DEF Filled, Cycled, After, Create
    <2> QED
      BY <1>1, <1>2, <1>4, <1>6, <2>1, <2>6, <2>7
         DEF ChaseInv, Shuffled, Filling, JoinedEnded, Create
  <1> QED
    BY <1>5, <1>6 DEF Create

\* The steps of main that only count threads.
LEMMA StepJoin ==
    ChaseInv /\ (CreateEnd \/ Join \/ RunReturns) => ChaseInv'
  <1> SUFFICES ASSUME ChaseInv, CreateEnd \/ Join \/ RunReturns
               PROVE  ChaseInv'
    OBVIOUS
  <1>1. /\ TypeOK /\ Walking /\ Bijection /\ Cycled /\ Filled /\ JoinedEnded
        /\ arr_len \in Nat \ {0} /\ THREAD_NUM \in Nat \ {0}
    BY ChaseAssumption
       DEF ChaseInv, TypeOK, Shuffled, CreateEnd, Join, RunReturns
  <1>2. UNCHANGED <<arr_len, perm, idx, cycle, next, cur, taskVars>>
    BY DEF CreateEnd, Join, RunReturns, genVars, dataVars
  <1>3. Nodes' = Nodes
    BY <1>2 DEF Nodes
  <1>4. pc \in {"create", "join"} /\ pc' \in {"join", "done"}
    BY DEF CreateEnd, Join, RunReturns
  <1>5. TypeOK'
    <2>1. task' \in 0 .. THREAD_NUM
      BY <1>1 DEF TypeOK, CreateEnd, Join, Joined, RunReturns
    <2> QED
      BY <1>1, <1>2, <1>3, <1>4, <2>1 DEF TypeOK, taskVars
  <1>6. Walking'
    BY <1>1, <1>2, <1>4, WalkingKept
  <1>7. Shuffled'
    BY <1>1, <1>2, BijectionKept DEF Shuffled
  <1>8. Cycled' /\ Filled'
    BY <1>1, <1>2, <1>3, <1>4 DEF Cycled, Filled, After
  <1>9. JoinedEnded'
    <2>1. state' = state
      BY <1>2 DEF taskVars
    <2>2. CASE CreateEnd
      BY <1>1, <2>1, <2>2 DEF CreateEnd, JoinedEnded, Tasks
    <2>3. CASE Join
      BY <1>1, <2>1, <2>3 DEF Join, JoinedEnded, Tasks, TypeOK
    <2>4. CASE RunReturns
      BY <1>1, <2>1, <2>4 DEF RunReturns, Joined, JoinedEnded, Tasks
    <2> QED
      BY <2>2, <2>3, <2>4
  <1> QED
    BY <1>4, <1>5, <1>6, <1>7, <1>8, <1>9 DEF ChaseInv, Filling

-----------------------------------------------------------------------------
(* The steps of a thread.                                                  *)

\* Following one link is one place on, or the end of a round.
LEMMA WalkOn ==
    ASSUME TypeOK, Bijection, arr_len \in Nat \ {0},
           \A k \in Nodes : next[perm[k]] = perm[After(k)],
           NEW w \in Tasks, NEW p \in Nodes, NEW r \in Nodes, NEW q \in Nat,
           Walk(w, p, q, r), Chase(w)
    PROVE  \E s \in Nodes, n \in Nat : Walk(w, p, n, s)'
  <1>1. UNCHANGED <<arr_len, perm>> /\ Nodes' = Nodes
    BY DEF Chase, genVars, Nodes
  <1>2. /\ Pos(p, r) \in Nodes
        /\ r + 1 < arr_len => After(Pos(p, r)) = Pos(p, r + 1)
        /\ r + 1 = arr_len => After(Pos(p, r)) = p
    BY PosIs, PosAfter
  <1>3. at[w] \in Nodes /\ at'[w] = perm[After(Pos(p, r))]
    BY <1>2 DEF Walk, Chase, TypeOK, Bijection
  <1>4. reps'[w] = q * arr_len + r + 1
    <2>1. q * arr_len \in Int
      OBVIOUS
    <2> QED
      BY <2>1 DEF Walk, Chase, TypeOK, Nodes
  <1>5. ASSUME NEW k \in Nodes
        PROVE  visits'[w][perm[Pos(p, k)]] = IF k < r + 1 THEN q + 1 ELSE q
    <2>1. Pos(p, k) \in Nodes /\ perm[Pos(p, k)] \in Nodes
      BY PosIs DEF Bijection
    <2>2. visits[w] \in [Nodes -> Nat]
      BY DEF TypeOK
    <2>3. visits'[w] = [visits[w] EXCEPT ![at[w]] = @ + 1]
      BY DEF Chase, TypeOK
    <2>4. CASE k = r
      <3>1. visits[w][perm[Pos(p, k)]] = q /\ at[w] = perm[Pos(p, k)]
        BY <2>4 DEF Walk, Nodes
      <3> QED
        BY <2>1, <2>2, <2>3, <2>4, <3>1 DEF Nodes
    <2>5. CASE k # r
      <3>1. Pos(p, k) # Pos(p, r)
        BY <2>5, PosIs
      <3>2. perm[Pos(p, k)] # at[w]
        BY <1>2, <2>1, <3>1 DEF Walk, Bijection
      <3>3. visits'[w][perm[Pos(p, k)]] = visits[w][perm[Pos(p, k)]]
        BY <2>1, <2>2, <2>3, <3>2
      <3>4. (k < r + 1) <=> (k < r)
        BY <2>5 DEF Nodes
      <3> QED
        BY <3>3, <3>4 DEF Walk
    <2> QED
      BY <2>4, <2>5
  <1>6. perm[p] = 0
    BY DEF Walk
  <1>7. CASE r + 1 < arr_len
    <2>1. r + 1 \in Nodes /\ q * arr_len + r + 1 = q * arr_len + (r + 1)
      BY <1>7 DEF Nodes
    <2>2. Walk(w, p, q, r + 1)'
      BY <1>1, <1>2, <1>3, <1>4, <1>5, <1>6, <1>7, <2>1 DEF Walk, Pos
    <2> QED
      BY <1>1, <2>1, <2>2
  <1>8. CASE r + 1 = arr_len
    <2>1. 0 \in Nodes /\ Pos(p, 0) = p
      BY PosIs DEF Nodes
    <2>2. q + 1 \in Nat /\ (q + 1) * arr_len + 0 = q * arr_len + r + 1
      BY <1>8 DEF Nodes
    <2>3. \A k \in Nodes : k < r + 1 /\ ~(k < 0)
      BY <1>8 DEF Nodes
    <2>4. Walk(w, p, q + 1, 0)'
      BY <1>1, <1>2, <1>3, <1>4, <1>5, <1>6, <1>8, <2>1, <2>2, <2>3
         DEF Walk, Pos
    <2> QED
      BY <1>1, <2>1, <2>2, <2>4
  <1> QED
    BY <1>7, <1>8 DEF Nodes

\* A thread follows a link while the others stand still.
LEMMA StepChase ==
    ASSUME ChaseInv, NEW w \in Tasks, Chase(w)
    PROVE  ChaseInv'
  <1>1. /\ TypeOK /\ Walking /\ Cycled /\ Filled /\ Shuffled /\ JoinedEnded
        /\ Bijection /\ arr_len \in Nat \ {0}
        /\ pc \in {"create", "join", "done"}
    BY DEF ChaseInv, TypeOK, Shuffled, Walking, Chase, Alive
  <1>2. UNCHANGED <<arr_len, pc, task, perm, idx, cycle, next, cur, state>>
    BY DEF Chase, genVars, dataVars
  <1>3. Nodes' = Nodes
    BY <1>2 DEF Nodes
  <1>4. \A k \in Nodes : next[perm[k]] = perm[After(k)]
    BY <1>1 DEF Cycled, Filled, Bijection
  <1>5. PICK p, r \in Nodes, q \in Nat : Walk(w, p, q, r)
    BY <1>1 DEF Walking, Chase
  <1>6. TypeOK'
    <2>1. After(Pos(p, r)) \in Nodes /\ Pos(p, r) \in Nodes
      BY <1>1, <1>5, PosIs, PosAfter
    <2>2. next[at[w]] \in Nodes
      BY <1>1, <1>4, <1>5, <2>1 DEF Walk, Bijection
    <2>3. at' \in [Tasks -> Nodes \cup {0}]
      BY <1>1, <2>2 DEF Chase, TypeOK
    <2>4. reps' \in [Tasks -> Nat]
      BY <1>1 DEF Chase, TypeOK
    <2>5. visits' \in [Tasks -> [Nodes -> Nat]]
      <3>1. visits[w] \in [Nodes -> Nat] /\ at[w] \in Nodes
        BY <1>1, <1>5, <2>1 DEF TypeOK, Walk, Bijection
      <3>2. [visits[w] EXCEPT ![at[w]] = @ + 1] \in [Nodes -> Nat]
        BY <3>1
      <3> QED
        BY <1>1, <3>2 DEF Chase, TypeOK
    <2> QED
      BY <1>1, <1>2, <1>3, <2>3, <2>4, <2>5 DEF TypeOK
  <1>7. Walking'
    <2>1. \E i, s \in Nodes, n \in Nat : Walk(w, i, n, s)'
      BY <1>1, <1>4, <1>5, WalkOn
    <2>2. ASSUME NEW v \in Tasks, v # w
          PROVE  at'[v] = at[v] /\ reps'[v] = reps[v] /\ visits'[v] = visits[v]
      BY <1>1, <2>2 DEF Chase, TypeOK
    <2> SUFFICES ASSUME NEW v \in Tasks
                 PROVE  /\ (state[v] = "none" =>
                               /\ at[v] = 0 /\ reps[v] = 0
                               /\ \A i \in Nodes : visits[v][i] = 0)'
                        /\ (state[v] # "none" =>
                             \E i, s \in Nodes, n \in Nat : Walk(v, i, n, s))'
                        /\ (state[v] = "end" => reps[v] = RepPerTask)'
      BY <1>1, <1>2 DEF Walking
    <2>3. CASE v = w
      BY <1>2, <1>3, <2>1, <2>3 DEF Chase
    <2>4. CASE v # w
      <3>1. (state[v] # "none" =>
                \E i, s \in Nodes, n \in Nat : Walk(v, i, n, s))'
        <4> SUFFICES ASSUME state[v] # "none"
                     PROVE  (\E i, s \in Nodes, n \in Nat : Walk(v, i, n, s))'
          BY <1>2
        <4>1. PICK i, s \in Nodes, n \in Nat : Walk(v, i, n, s)
          BY <1>1 DEF Walking
        <4>2. Walk(v, i, n, s)'
          BY <1>2, <1>3, <2>2, <2>4, <4>1 DEF Walk, Pos
        <4> QED
          BY <1>3, <4>2
      <3> QED
        BY <1>1, <1>2, <1>3, <2>2, <2>4, <3>1 DEF Walking, RepPerTask
    <2> QED
      BY <2>3, <2>4
  <1>8. Shuffled'
    BY <1>1, <1>2, BijectionKept DEF Shuffled
  <1>9. Cycled' /\ Filled'
    BY <1>1, <1>2, <1>3 DEF Cycled, Filled, After
  <1> QED
    BY <1>1, <1>2, <1>6, <1>7, <1>8, <1>9 DEF ChaseInv, Filling, JoinedEnded

\* A thread ends after its last step.
LEMMA StepChaseEnd ==
    ASSUME ChaseInv, NEW w \in Tasks, ChaseEnd(w)
    PROVE  ChaseInv'
  <1>1. /\ TypeOK /\ Walking /\ Cycled /\ Filled /\ Shuffled /\ JoinedEnded
        /\ Bijection /\ arr_len \in Nat \ {0}
        /\ pc \in {"create", "join", "done"}
    BY DEF ChaseInv, TypeOK, Shuffled, Walking, ChaseEnd, Alive
  <1>2. /\ UNCHANGED <<arr_len, pc, task, perm, idx, cycle, next, cur>>
        /\ UNCHANGED <<at, reps, visits>>
    BY DEF ChaseEnd, genVars, dataVars
  <1>3. Nodes' = Nodes
    BY <1>2 DEF Nodes
  <1>4. \A v \in Tasks : state'[v] = IF v = w THEN "end" ELSE state[v]
    BY <1>1 DEF ChaseEnd, TypeOK
  <1>5. TypeOK'
    <2>1. state' \in [Tasks -> {"none", "run", "end"}]
      BY <1>1 DEF ChaseEnd, TypeOK
    <2> QED
      BY <1>1, <1>2, <1>3, <2>1 DEF TypeOK
  <1>6. Walking'
    <2> SUFFICES ASSUME NEW v \in Tasks
                 PROVE  /\ (state[v] = "none" =>
                               /\ at[v] = 0 /\ reps[v] = 0
                               /\ \A i \in Nodes : visits[v][i] = 0)'
                        /\ (state[v] # "none" =>
                             \E i, s \in Nodes, n \in Nat : Walk(v, i, n, s))'
                        /\ (state[v] = "end" => reps[v] = RepPerTask)'
      BY <1>1, <1>2 DEF Walking
    <2>1. (state[v] # "none" =>
              \E i, s \in Nodes, n \in Nat : Walk(v, i, n, s))'
      BY <1>1, <1>2, <1>3, <1>4 DEF Walking, Walk, Pos, ChaseEnd
    <2> QED
      BY <1>1, <1>2, <1>3, <1>4, <2>1 DEF Walking, RepPerTask, ChaseEnd
  <1>7. Shuffled'
    BY <1>1, <1>2, BijectionKept DEF Shuffled
  <1>8. Cycled' /\ Filled'
    BY <1>1, <1>2, <1>3 DEF Cycled, Filled, After
  <1>9. JoinedEnded'
    BY <1>1, <1>2, <1>4 DEF JoinedEnded
  <1> QED
    BY <1>1, <1>2, <1>5, <1>6, <1>7, <1>8, <1>9 DEF ChaseInv, Filling

-----------------------------------------------------------------------------
(* The theorems.                                                           *)

\* The invariant holds when main starts.
LEMMA ChaseStart == Init => ChaseInv
  <1> SUFFICES ASSUME Init
               PROVE  ChaseInv
    OBVIOUS
  <1>1. TypeOK
    BY ChaseAssumption DEF Init, TypeOK, Nodes
  <1>2. Shuffled /\ Walking
    BY DEF Init, Shuffled, Walking
  <1> QED
    BY <1>1, <1>2
       DEF Init, ChaseInv, Cycled, Filling, Filled, JoinedEnded

\* The invariant is inductive.
LEMMA ChaseStep == ChaseInv /\ [Next]_vars => ChaseInv'
  <1> SUFFICES ASSUME ChaseInv, [Next]_vars
               PROVE  ChaseInv'
    OBVIOUS
  <1>1. CASE MainStep
    BY <1>1, StepMmap, StepShuffle, StepShuffleEnd, StepLink, StepLinkEnd,
       StepFill, StepCreate, StepJoin DEF MainStep
  <1>2. CASE \E w \in Tasks : TaskStep(w)
    BY <1>2, StepChase, StepChaseEnd DEF TaskStep
  <1>3. CASE UNCHANGED vars
    <2>1. /\ UNCHANGED <<arr_len, pc, task, perm, idx, cycle, next, cur>>
          /\ UNCHANGED <<state, at, reps, visits>>
      BY <1>3 DEF vars, genVars, dataVars, taskVars
    <2>2. Nodes' = Nodes
      BY <2>1 DEF Nodes
    <2>3. TypeOK'
      BY <2>1, <2>2 DEF ChaseInv, TypeOK
    <2>4. Walking'
      BY <2>1, WalkingKept DEF ChaseInv, taskVars
    <2>5. Shuffled'
      BY <2>1, BijectionKept DEF ChaseInv, Shuffled
    <2>6. (Cycled /\ Filled /\ JoinedEnded)'
      BY <2>1, <2>2 DEF ChaseInv, Cycled, Filled, JoinedEnded, After
    <2>7. Filling'
      BY <2>1, <2>2 DEF ChaseInv, Filling, Fills, Pos
    <2> QED
      BY <2>3, <2>4, <2>5, <2>6, <2>7 DEF ChaseInv
  <1> QED
    BY <1>1, <1>2, <1>3 DEF Next, Stopped

\* What gen_cycle, init_run and the threads have done so far, in every state.
THEOREM ChaseCorrect == Spec => []ChaseInv
  BY ChaseStart, ChaseStep, PTL DEF Spec

\* Indices, links and positions stay inside the array.
THEOREM ChaseTypes == Spec => []TypeOK
  <1>1. ChaseInv => TypeOK
    BY DEF ChaseInv
  <1> QED
    BY <1>1, ChaseCorrect, PTL

\* The shuffle of gen_cycle yields a permutation for every rand().
THEOREM ShufflePermutes == Spec => []IsPermutation
  <1>1. ChaseInv => IsPermutation
    BY DEF ChaseInv, Shuffled, Bijection, IsPermutation
  <1> QED
    BY <1>1, ChaseCorrect, PTL

\* The loop of init_run sets every link before it meets node 0 again.
THEOREM LinksAll == Spec => []AllLinked
  <1>1. ChaseInv => AllLinked
    <2> SUFFICES ASSUME ChaseInv, pc \in {"create", "join", "done"},
                        NEW i \in Nodes
                 PROVE  next[i] \in Nodes
      BY DEF AllLinked
    <2>1. /\ Bijection /\ arr_len \in Nat \ {0}
          /\ next[i] = cycle[i]
          /\ \A k \in Nodes : cycle[perm[k]] = perm[After(k)]
      BY DEF ChaseInv, TypeOK, Shuffled, Filled, Cycled
    <2>2. PICK k \in Nodes : perm[k] = i
      BY <2>1 DEF Bijection
    <2>3. After(k) \in Nodes
      BY <2>1, AfterIs DEF Nodes
    <2> QED
      BY <2>1, <2>2, <2>3 DEF Bijection
  <1> QED
    BY <1>1, ChaseCorrect, PTL

\* ptrchase_tq visits all nodes equally often: the links are one cycle.
THEOREM WalkEven == Spec => []VisitsEven
  <1>1. ChaseInv => VisitsEven
    <2> SUFFICES ASSUME ChaseInv, NEW w \in Tasks
                 PROVE  /\ \A i, j \in Nodes : visits[w][i] <= visits[w][j] + 1
                        /\ state[w] = "end" =>
                              /\ at[w] = 0
                              /\ \A i \in Nodes : visits[w][i] = REPS
      BY DEF VisitsEven
    <2>1. CASE state[w] = "none"
      BY <2>1 DEF ChaseInv, Walking
    <2>2. CASE state[w] # "none"
      <3>1. /\ Bijection /\ arr_len \in Nat \ {0}
            /\ state[w] = "end" => reps[w] = arr_len * REPS
        BY <2>2 DEF ChaseInv, TypeOK, Shuffled, Walking, RepPerTask
      <3>2. PICK p, r \in Nodes, q \in Nat : Walk(w, p, q, r)
        BY <2>2 DEF ChaseInv, Walking
      <3>3. ASSUME NEW i \in Nodes
            PROVE  \E k \in Nodes :
                      visits[w][i] = IF k < r THEN q + 1 ELSE q
        <4>1. PICK j \in Nodes : perm[j] = i
          BY <3>1 DEF Bijection
        <4>2. PICK k \in Nodes : Pos(p, k) = j
          BY <3>1, PosIs
        <4> QED
          BY <3>2, <4>1, <4>2 DEF Walk
      <3>4. \A i, j \in Nodes : visits[w][i] <= visits[w][j] + 1
        <4> SUFFICES ASSUME NEW i \in Nodes, NEW j \in Nodes
                     PROVE  visits[w][i] <= visits[w][j] + 1
          OBVIOUS
        <4>1. visits[w][i] \in {q, q + 1} /\ visits[w][j] \in {q, q + 1}
          BY <3>3
        <4> QED
          BY <4>1
      <3>5. ASSUME state[w] = "end"
            PROVE  at[w] = 0 /\ \A i \in Nodes : visits[w][i] = REPS
        <4>1. arr_len * REPS = q * arr_len + r /\ REPS \in Nat
          BY <3>1, <3>2, <3>5, ChaseAssumption DEF Walk
        <4>2. q = REPS /\ r = 0
          <5>1. ASSUME NEW n \in Nat \ {0}, NEW a \in Nat, NEW b \in Nat,
                       NEW c \in Nat, c < n, n * a = b * n + c
                PROVE  b = a /\ c = 0
            <6>1. n * (a - b) = c
              BY <5>1
            <6>2. a - b >= 1 => n * (a - b) >= n
              BY <5>1
            <6>3. a - b <= -1 => n * (a - b) <= -n
              BY <5>1
            <6>4. a - b = 0
              BY <5>1, <6>1, <6>2, <6>3
            <6> QED
              BY <6>1, <6>4
          <5>2. r \in Nat /\ r < arr_len
            BY <3>1 DEF Nodes
          <5> QED
            BY <3>1, <4>1, <5>1, <5>2
        <4>3. at[w] = 0
          BY <3>1, <3>2, <4>2, PosIs DEF Walk
        <4>4. \A k \in Nodes : ~(k < r)
          BY <4>2 DEF Nodes
        <4> QED
          BY <3>3, <4>2, <4>3, <4>4
      <3> QED
        BY <3>4, <3>5
    <2> QED
      BY <2>1, <2>2
  <1> QED
    BY <1>1, ChaseCorrect, PTL

\* run has joined every thread before its array targ goes away.
THEOREM TargOutlives == Spec => []TargAlive
  <1>1. ChaseInv => TargAlive
    BY DEF ChaseInv, JoinedEnded, TargAlive
  <1> QED
    BY <1>1, ChaseCorrect, PTL

=============================================================================
