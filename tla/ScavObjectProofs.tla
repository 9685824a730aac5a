-------------------------- MODULE ScavObjectProofs --------------------------
(***************************************************************************)
(* Loading the pool, for every file and every table size, and the life of  *)
(* its entries at the default cap, for every number of primaries and every *)
(* assignment of objects to commands.                                      *)
(***************************************************************************)
EXTENDS ScavObject, TLAPS, FiniteSetTheorems

-----------------------------------------------------------------------------
(* The inductive invariant of the loading loop.                            *)

\* Pieces that were read and not taken for a comment.
Scanned == {l \in Uncommented : l < piece}

LoadTypes ==
    /\ file \in Seq(Pieces)
    /\ piece \in 1 .. Len(file) + 1
    /\ table \in [Cells -> Nat]
    /\ scav_counts \in 0 .. MAX_ACTIVE_CRT_NUM + 1

\* The cells below scav_counts hold the scanned commands in their order.
Filled ==
    /\ \A l \in Scanned : file[l].kind = "command"
    /\ scav_counts = Cardinality(Scanned)
    /\ {table[i] : i \in 0 .. scav_counts - 1} = Scanned
    /\ \A i, j \in 0 .. scav_counts - 1 : i < j => table[i] < table[j]
    /\ \A i \in Cells : i >= scav_counts => table[i] = NONE

\* The primaries host entries of a file that was read to its end.
ReadAll == status \notin {"loading", "exit"} => AtEnd

LoadInv == LoadTypes /\ Filled /\ ReadAll

-----------------------------------------------------------------------------
(* The invariant of the entries' lives.                                    *)

Coroutines == {"entry", "loop", "report", "returned", "crashed"}

LifeTypes ==
    /\ status \in {"loading", "exit", "ready", "crash"}
    /\ prim \in [Primaries -> {"alloc", "take", "run", "over"}]
    /\ host \in [Entries -> Primaries \cup {NONE}]
    /\ slot \in [Entries -> {1, IDLE, FINISHED}]
    /\ co \in [Entries -> Coroutines]
    /\ rep \in [Entries -> Nat]
    /\ words \in [Objects -> Entries]
    /\ crt_pos \in [Objects -> Nat]
    /\ total_reps \in [Objects -> Nat]

\* Nothing has happened to an entry that is in the pool, nor to any object
\* before the file is read.
Fresh ==
    /\ status \in {"loading", "exit"} =>
          /\ \A i \in Entries : slot[i] = IDLE
          /\ \A o \in Objects : total_reps[o] = DefaultReps
    /\ \A i \in Entries : slot[i] = IDLE => co[i] = "entry"
    /\ \A i \in Entries : co[i] = "entry" => rep[i] = 0

\* A primary hosts one entry, one of the table, and its object has the words
\* of an entry of the table and the offset of slot 1.
OneHosted ==
    /\ \A i, j \in Entries :
          slot[i] = 1 /\ slot[j] = 1 /\ host[i] = host[j] => i = j
    /\ \A i \in Entries : slot[i] # IDLE =>
          i \in Loaded /\ words[ObjOf(i)] \in Loaded
    /\ \A i \in Entries : slot[i] = 1 =>
          host[i] \in Primaries /\ crt_pos[ObjOf(i)] = YC

\* Entries are retired by their own return.
OwnEnd == \A i \in Entries : co[i] = "returned" <=> slot[i] = FINISHED

\* What the object of a hosted entry knows is about this entry.
OwnWords == \A i \in Loaded : slot[i] = 1 => words[ObjOf(i)] = i

\* total_reps is the default until entry has run, then what the line says.
OwnTotal ==
    \A i \in Loaded :
        /\ co[i] = "entry" => total_reps[ObjOf(i)] = DefaultReps
        /\ co[i] \in {"loop", "report", "returned"} =>
              Command(i).argc # 2 /\ total_reps[ObjOf(i)] = OwnReps(i)

\* The counter of compute.
OwnRounds ==
    \A i \in Loaded :
        /\ co[i] = "loop" => rep[i] = 0 \/ rep[i] < OwnReps(i)
        /\ co[i] \in {"report", "returned"} =>
              rep[i] = IF OwnReps(i) > 1 THEN OwnReps(i) ELSE 1

OwnCrash ==
    \A i \in Loaded :
        co[i] = "crashed" => Command(i).argc = 2 \/ OwnReps(i) = 0

Own == OwnWords /\ OwnTotal /\ OwnRounds /\ OwnCrash

CapInv == LifeTypes /\ Fresh /\ OneHosted /\ OwnEnd /\ (Distinct => Own)

LifeInv == LoadInv /\ (DefaultCap => CapInv)

-----------------------------------------------------------------------------
(* Loading.                                                                *)

\* A file is a sequence of pieces.
LEMMA FileSeq ==
    ASSUME NEW f \in Files
    PROVE  f \in Seq(Pieces)
<1>1. PICK m \in 0 .. MaxPieces : f \in [1 .. m -> Pieces]
  BY PoolAssumption DEF Files, BoundedSeq, SeqOf
<1>2. m \in Nat
  BY PoolAssumption
<1> QED
  BY <1>1, <1>2

\* The loop starts with nothing scanned.
LEMMA LoadInit == LifeInit => LoadInv
<1> SUFFICES ASSUME LifeInit PROVE LoadInv
  OBVIOUS
<1>1. file \in Seq(Pieces)
  BY FileSeq DEF LifeInit, Init
<1>2. LoadTypes
  BY <1>1, PoolAssumption DEF LifeInit, Init, LoadTypes, Cells, NONE
<1>3. Scanned = {}
  BY <1>1 DEF LifeInit, Init, Scanned, Uncommented
<1>4. Filled
  BY <1>3, FS_EmptySet DEF LifeInit, Init, Filled, Cells
<1>5. ReadAll
  BY DEF LifeInit, Init, ReadAll
<1> QED
  BY <1>2, <1>4, <1>5 DEF LoadInv

\* The pieces read so far are finitely many.
LEMMA ScannedFinite ==
    ASSUME LoadTypes
    PROVE  IsFiniteSet(Scanned)
<1>1. Scanned \subseteq 1 .. Len(file)
  BY DEF Scanned, Uncommented
<1>2. IsFiniteSet(1 .. Len(file))
  BY FS_Interval DEF LoadTypes
<1> QED
  BY <1>1, <1>2, FS_Subset

\* A comment takes no entry.
LEMMA SkipCommentStep ==
    ASSUME LoadInv, SkipComment
    PROVE  LoadInv'
<1>1. piece \in 1 .. Len(file) /\ Len(file) \in Nat
  BY DEF LoadInv, LoadTypes, SkipComment, AtEnd
<1>2. UNCHANGED <<file, table, scav_counts, status>> /\ piece' = piece + 1
  BY DEF SkipComment
<1>3. LoadTypes'
  BY <1>1, <1>2 DEF LoadInv, LoadTypes
<1>4. Scanned' = Scanned
  <2>1. file[piece].kind = "comment"
    BY DEF SkipComment, IsComment
  <2> QED
    BY <1>1, <1>2, <2>1 DEF Scanned, Uncommented
<1>5. Filled'
  BY <1>2, <1>4 DEF LoadInv, Filled
<1>6. ReadAll'
  BY <1>2 DEF ReadAll, SkipComment
<1> QED
  BY <1>3, <1>5, <1>6 DEF LoadInv

\* A command takes the next one.
LEMMA LoadEntryStep ==
    ASSUME LoadInv, LoadEntry
    PROVE  LoadInv'
<1> DEFINE n == scav_counts
<1>1. piece \in 1 .. Len(file) /\ Len(file) \in Nat
  BY DEF LoadInv, LoadTypes, LoadEntry, AtEnd
<1>2. n \in 0 .. MAX_ACTIVE_CRT_NUM /\ n \in Cells
  BY PoolAssumption DEF LoadInv, LoadTypes, LoadEntry, TooMany, Cells
<1>3. /\ UNCHANGED <<file, status>>
      /\ scav_counts' = n + 1
      /\ table' = [table EXCEPT ![n] = piece]
      /\ piece' = piece + 1
  BY DEF LoadEntry
<1>4. table \in [Cells -> Nat]
  BY DEF LoadInv, LoadTypes
<1>5. LoadTypes'
  <2>1. table' \in [Cells -> Nat]
    BY <1>1, <1>2, <1>3, <1>4
  <2>2. scav_counts' \in 0 .. MAX_ACTIVE_CRT_NUM + 1
    BY <1>2, <1>3, PoolAssumption
  <2> QED
    BY <1>1, <1>3, <2>1, <2>2 DEF LoadInv, LoadTypes
<1>6. /\ Scanned' = Scanned \cup {piece} /\ piece \notin Scanned
      /\ file[piece].kind = "command"
  <2>1. file[piece].kind = "command"
    BY DEF LoadEntry, Loads
  <2> QED
    BY <1>1, <1>3, <2>1 DEF Scanned, Uncommented
<1>7. Filled'
  <2>1. scav_counts' = Cardinality(Scanned')
    <3>1. IsFiniteSet(Scanned)
      BY ScannedFinite DEF LoadInv
    <3> QED
      BY <1>3, <1>6, <3>1, FS_AddElement DEF LoadInv, Filled
  <2>2. \A i \in 0 .. n - 1 : table'[i] = table[i] /\ table[i] \in Scanned
    BY <1>2, <1>3, <1>4 DEF LoadInv, Filled, Cells
  <2>3. table'[n] = piece
    BY <1>2, <1>3, <1>4
  <2>4. \A i \in 0 .. n : i \in 0 .. n - 1 \/ i = n
    BY <1>2
  <2>5. {table'[i] : i \in 0 .. n} = Scanned'
    <3>1. Scanned = {table[i] : i \in 0 .. n - 1}
      BY DEF LoadInv, Filled
    <3>2. n \in 0 .. n /\ \A i \in 0 .. n - 1 : i \in 0 .. n
      BY <1>2
    <3> QED
      BY <1>6, <2>2, <2>3, <2>4, <3>1, <3>2
  <2>6. \A l \in Scanned : l < piece
    BY DEF Scanned
  <2>7. \A i, j \in 0 .. n : i < j => table'[i] < table'[j]
    <3> TAKE i, j \in 0 .. n
    <3> HAVE i < j
    <3>1. i \in 0 .. n - 1
      BY <1>2
    <3>2. CASE j = n
      BY <2>2, <2>3, <2>6, <3>1, <3>2
    <3>3. CASE j \in 0 .. n - 1
      BY <2>2, <3>1, <3>3 DEF LoadInv, Filled
    <3> QED
      BY <2>4, <3>2, <3>3
  <2>8. \A i \in Cells : i >= n + 1 => table'[i] = NONE
    BY <1>2, <1>3, <1>4 DEF LoadInv, Filled, Cells
  <2>9. 0 .. scav_counts' - 1 = 0 .. n
    BY <1>2, <1>3
  <2>10. \A l \in Scanned' : file'[l].kind = "command"
    BY <1>3, <1>6 DEF LoadInv, Filled
  <2> HIDE DEF n
  <2>11. \A i \in Cells : i >= scav_counts' => table'[i] = NONE
    BY <1>3, <2>8
  <2> QED
    BY <2>1, <2>5, <2>7, <2>9, <2>10, <2>11 DEF Filled
<1>8. ReadAll'
  BY <1>3 DEF ReadAll, LoadEntry
<1> QED
  BY <1>5, <1>7, <1>8 DEF LoadInv

\* Nothing else moves the position or writes the table.
LEMMA LoadFrame ==
    ASSUME LoadInv, UNCHANGED poolVars,
           status' \in {"loading", "exit"} \/ status \notin {"loading", "exit"}
           \/ AtEnd
    PROVE  LoadInv'
<1>1. UNCHANGED <<file, piece, table, scav_counts>>
  BY DEF poolVars
<1>2. LoadTypes'
  BY <1>1 DEF LoadInv, LoadTypes
<1>3. Filled'
  <2>1. Scanned' = Scanned
    BY <1>1 DEF Scanned, Uncommented
  <2> QED
    BY <1>1, <2>1 DEF LoadInv, Filled
<1>4. ReadAll'
  BY <1>1 DEF LoadInv, ReadAll, AtEnd
<1> QED
  BY <1>2, <1>3, <1>4 DEF LoadInv

\* Hosting and running entries leave the table alone.
LEMMA PoolKept ==
    ASSUME \/ \E t \in Primaries : Allocation(t) \/ Finish(t)
           \/ \E i \in Entries : Coroutine(i)
    PROVE  UNCHANGED poolVars /\ status = "ready"
<1>1. ASSUME NEW t \in Primaries, Allocation(t) \/ Finish(t)
      PROVE  UNCHANGED poolVars /\ status = "ready"
  BY <1>1 DEF Allocation, LockPool, AllocEnd, Host, Finish
<1>2. ASSUME NEW i \in Entries, Coroutine(i)
      PROVE  UNCHANGED poolVars /\ status = "ready"
  BY <1>2
     DEF Coroutine, Entry, EntryCrash, Compute, ComputeEnd, ReturnCrash,
         Return, ReturnLost, RunsDead, Runs, Crash
<1> QED
  BY <1>1, <1>2

\* LoadInv is inductive.
LEMMA LoadStep ==
    ASSUME LoadInv, [LifeNext]_allVars
    PROVE  LoadInv'
<1>1. CASE Loading
  <2>1. UNCHANGED max_scav_per_thread
    BY <1>1 DEF Loading
  <2>2. CASE SkipComment
    BY <2>2, SkipCommentStep
  <2>3. CASE LoadEntry
    BY <2>3, LoadEntryStep
  <2>4. CASE Fail
    BY <2>1, <2>4, LoadFrame DEF Fail, poolVars
  <2>5. CASE Ready
    BY <2>1, <2>5, LoadFrame DEF Ready, poolVars
  <2> QED
    BY <1>1, <2>2, <2>3, <2>4, <2>5 DEF Loading
<1>2. CASE \/ \E t \in Primaries : Allocation(t) \/ Finish(t)
           \/ \E i \in Entries : Coroutine(i)
  BY <1>2, PoolKept, LoadFrame
<1>3. CASE UNCHANGED allVars
  <2>1. UNCHANGED poolVars /\ status' = status
    BY <1>3 DEF allVars, vars, poolVars
  <2> QED
    BY <2>1, LoadFrame
<1> QED
  BY <1>1, <1>2, <1>3 DEF LifeNext, Over

\* init_scav_table: a table that was loaded without an error holds each piece
\* of the file that is no comment once and in order, for every file and table
\* size.
THEOREM PoolLoaded == LifeSpec => []LoadedInOrder
<1>1. LifeInit => LoadInv
  BY LoadInit
<1>2. LoadInv /\ [LifeNext]_allVars => LoadInv'
  BY LoadStep
<1>3. LoadInv => LoadedInOrder
  <2> SUFFICES ASSUME LoadInv, status = "ready" PROVE
                   /\ \A l \in Uncommented : file[l].kind = "command"
                   /\ scav_counts = Cardinality(Uncommented)
                   /\ {table[i] : i \in 0 .. scav_counts - 1} = Uncommented
                   /\ \A i, j \in 0 .. scav_counts - 1 :
                         i < j => table[i] < table[j]
    BY DEF LoadedInOrder
  <2>1. Scanned = Uncommented
    BY DEF LoadInv, LoadTypes, ReadAll, AtEnd, Scanned, Uncommented
  <2> QED
    BY <2>1 DEF LoadInv, Filled
<1> QED
  BY <1>1, <1>2, <1>3, PTL DEF LifeSpec

-----------------------------------------------------------------------------
(* The life of an entry.                                                   *)

\* Slots are numbered from 1.
LEMMA SlotNumbers == 1 # IDLE /\ 1 # FINISHED /\ IDLE # FINISHED
  BY DEF IDLE, FINISHED

\* An entry of the table is a command of the file.
LEMMA EntryCommand ==
    ASSUME LoadInv, NEW i \in Loaded
    PROVE  /\ ObjOf(i) \in Objects
           /\ Command(i).argc \in 1 .. 3
           /\ Command(i).reps \in Nat
<1>1. i \in Cells /\ i \in Nat
  BY PoolAssumption DEF Loaded, Entries, Cells
<1>2. i \in 0 .. scav_counts - 1
  BY <1>1 DEF LoadInv, LoadTypes, Filled, Loaded
<1>3. table[i] \in Scanned
  BY <1>2 DEF LoadInv, Filled
<1>4. file[table[i]] \in Pieces /\ file[table[i]].kind = "command"
  BY <1>3 DEF LoadInv, LoadTypes, Filled, Scanned, Uncommented
<1>5. file[table[i]] \in Commands
  BY <1>4 DEF Pieces, Remarks
<1> QED
  BY <1>5, PoolAssumption DEF Command, ObjOf, Commands

\* The same, in a form that can be used of the next state.
LEMMA EntryObjects == LoadInv => \A i \in Loaded : ObjOf(i) \in Objects
  BY EntryCommand

\* ... and asks for a number of rounds.
LEMMA OwnRepsNat ==
    ASSUME LoadInv, NEW i \in Loaded
    PROVE  OwnReps(i) \in Nat
  BY EntryCommand, ObjectAssumption DEF OwnReps

\* Once the file is read, what the table says of an entry does not change.
LEMMA TableFixed ==
    ASSUME UNCHANGED poolVars
    PROVE  /\ Loaded' = Loaded
           /\ \A i \in Loaded : i \in Entries
           /\ Distinct' = Distinct
           /\ \A i \in Entries : /\ Command(i)' = Command(i)
                                 /\ ObjOf(i)' = ObjOf(i)
                                 /\ OwnReps(i)' = OwnReps(i)
<1>1. table' = table /\ file' = file
  BY DEF poolVars
<1>2. Loaded' = Loaded /\ \A i \in Loaded : i \in Entries
  BY <1>1 DEF Loaded
<1>3. \A i : Command(i)' = Command(i)
  BY <1>1 DEF Command
<1>4. \A i : ObjOf(i)' = ObjOf(i) /\ OwnReps(i)' = OwnReps(i)
  BY <1>3 DEF ObjOf, OwnReps
<1> QED
  BY <1>2, <1>3, <1>4 DEF Distinct

\* A coroutine that has the processor is that of an entry in slot 1.
LEMMA RunsFirst ==
    ASSUME CapInv, NEW i \in Entries, NEW l, Runs(i, l)
    PROVE  /\ slot[i] = 1 /\ co[i] = l /\ status = "ready"
           /\ host[i] \in Primaries /\ i \in Loaded
           /\ words[ObjOf(i)] \in Loaded /\ crt_pos[ObjOf(i)] = YC
<1>1. slot[i] = 1
  BY DEF CapInv, LifeTypes, Runs, Hosted, IDLE, FINISHED
<1> QED
  BY <1>1, SlotNumbers DEF CapInv, OneHosted, Runs

\* Before the first entry is hosted.
LEMMA LifeInitial == LifeInit => LifeInv
<1> SUFFICES ASSUME LifeInit PROVE LoadInv /\ CapInv
  BY DEF LifeInv
<1> USE DEF LifeInit
<1>1. LoadInv
  BY LoadInit
<1>2. LifeTypes
  BY PoolAssumption, ObjectAssumption
     DEF Init, LifeTypes, Entries, Coroutines
<1>3. Fresh /\ OneHosted /\ OwnEnd
  BY SlotNumbers DEF Fresh, OneHosted, OwnEnd
<1>4. Own
  <2>1. \A i \in Loaded : i \in Entries /\ ObjOf(i) \in Objects
    BY <1>1, EntryCommand DEF Loaded
  <2> QED
    BY <2>1, SlotNumbers DEF Own, OwnWords, OwnTotal, OwnRounds, OwnCrash
<1> QED
  BY <1>1, <1>2, <1>3, <1>4 DEF CapInv

\* The loading loop leaves entries and objects alone.
LEMMA LoadingStep ==
    ASSUME CapInv, Loading, LoadInv'
    PROVE  CapInv'
<1>1. /\ status = "loading" /\ status' \in {"loading", "exit", "ready"}
      /\ UNCHANGED <<prim, host, slot, co, rep, words, crt_pos, total_reps>>
  BY DEF Loading, SkipComment, LoadEntry, Fail, Ready, listVars, crtVars,
         objVars
<1>2. LifeTypes'
  BY <1>1 DEF CapInv, LifeTypes
<1>3. /\ \A i \in Entries : slot[i] = IDLE /\ co[i] = "entry" /\ rep[i] = 0
      /\ \A o \in Objects : total_reps[o] = DefaultReps
  BY <1>1 DEF CapInv, Fresh
<1>4. Fresh' /\ OneHosted' /\ OwnEnd'
  BY <1>1, <1>3, SlotNumbers DEF Fresh, OneHosted, OwnEnd
<1>5. Own'
  <2>1. /\ Loaded' \subseteq Entries
        /\ \A i \in Loaded' : ObjOf(i)' \in Objects
    <3>1. (LoadInv => \A i \in Loaded : ObjOf(i) \in Objects)'
      BY EntryObjects, PTL
    <3> QED
      BY <3>1 DEF Loaded
  <2> QED
    BY <1>1, <1>3, <2>1, SlotNumbers
       DEF Own, OwnWords, OwnTotal, OwnRounds, OwnCrash
<1> QED
  BY <1>2, <1>4, <1>5 DEF CapInv

\* Only the state of a primary changes, or nothing.
LEMMA CapFrame ==
    ASSUME CapInv, UNCHANGED poolVars, status' = status,
           UNCHANGED <<host, slot, co, rep, words, crt_pos, total_reps>>,
           prim' \in [Primaries -> {"alloc", "take", "run", "over"}]
    PROVE  CapInv'
<1>1. /\ Loaded' = Loaded /\ Distinct' = Distinct
      /\ \A i \in Loaded : i \in Entries
      /\ \A i \in Entries : /\ Command(i)' = Command(i)
                            /\ ObjOf(i)' = ObjOf(i)
                            /\ OwnReps(i)' = OwnReps(i)
  BY TableFixed
<1>2. LifeTypes' /\ Fresh' /\ OneHosted' /\ OwnEnd'
  BY <1>1 DEF CapInv, LifeTypes, Fresh, OneHosted, OwnEnd
<1>3. Own => Own'
  BY <1>1 DEF Own, OwnWords, OwnTotal, OwnRounds, OwnCrash
<1> QED
  BY <1>1, <1>2, <1>3 DEF CapInv

\* set_scav_symbol tells the object of the new entry about it.
LEMMA HostStep ==
    ASSUME LoadInv, CapInv, DefaultCap,
           NEW t \in Primaries, NEW h \in Entries, NEW p \in Places,
           Host(t, h, p)
    PROVE  CapInv'
<1>0. /\ slot \in [Entries -> {1, IDLE, FINISHED}]
      /\ host \in [Entries -> Primaries \cup {NONE}]
      /\ words \in [Objects -> Entries]
      /\ crt_pos \in [Objects -> Nat]
      /\ h \in Loaded
      /\ slot[h] = IDLE /\ co[h] = "entry"
  BY DEF CapInv, LifeTypes, Fresh, Host, InPool, Loaded
<1>1. p = 1
  BY DEF DefaultCap, Places
<1>2. /\ status' = status /\ status = "ready"
      /\ host' = [host EXCEPT ![h] = t]
      /\ slot' = [slot EXCEPT ![h] = 1]
      /\ words' = [words EXCEPT ![ObjOf(h)] = h]
      /\ crt_pos' = [crt_pos EXCEPT ![ObjOf(h)] = YC]
      /\ UNCHANGED <<prim, co, rep, total_reps>>
      /\ UNCHANGED poolVars
      /\ \A j \in Entries : ~(host[j] = t /\ slot[j] = 1)
  BY <1>1 DEF Host, SetScavSymbol, Holds, At, crtVars, YC
<1>3. ObjOf(h) \in Objects /\ YC \in Nat
  BY <1>0, EntryCommand DEF YC
<1>4. LifeTypes'
  <2>1. /\ slot' \in [Entries -> {1, IDLE, FINISHED}]
        /\ host' \in [Entries -> Primaries \cup {NONE}]
    BY <1>0, <1>2
  <2>2. words' \in [Objects -> Entries] /\ crt_pos' \in [Objects -> Nat]
    BY <1>0, <1>2, <1>3
  <2> QED
    BY <1>2, <2>1, <2>2 DEF CapInv, LifeTypes
<1>5. /\ Loaded' = Loaded /\ Distinct' = Distinct
      /\ \A i \in Loaded : i \in Entries /\ ObjOf(i) \in Objects
      /\ \A i \in Entries : /\ Command(i)' = Command(i)
                            /\ ObjOf(i)' = ObjOf(i)
                            /\ OwnReps(i)' = OwnReps(i)
  BY <1>2, TableFixed, EntryCommand
<1>6. /\ slot'[h] = 1 /\ host'[h] = t
      /\ \A i \in Entries \ {h} : slot'[i] = slot[i] /\ host'[i] = host[i]
  BY <1>0, <1>2
<1>7. Fresh' /\ OwnEnd'
  BY <1>0, <1>2, <1>6, SlotNumbers DEF CapInv, Fresh, OwnEnd
<1>8. OneHosted'
  <2>1. \A i, j \in Entries :
           slot'[i] = 1 /\ slot'[j] = 1 /\ host'[i] = host'[j] => i = j
    BY <1>2, <1>6 DEF CapInv, OneHosted
  <2>2. ASSUME NEW i \in Entries, slot'[i] # IDLE
        PROVE  i \in Loaded /\ words'[ObjOf(i)] \in Loaded
    BY <1>0, <1>2, <1>3, <1>5, <1>6, <2>2 DEF CapInv, OneHosted
  <2>3. ASSUME NEW i \in Entries, slot'[i] = 1
        PROVE  host'[i] \in Primaries /\ crt_pos'[ObjOf(i)] = YC
    <3>1. i \in Loaded
      BY <2>2, <2>3, SlotNumbers
    <3> QED
      BY <1>0, <1>2, <1>3, <1>5, <1>6, <2>3, <3>1 DEF CapInv, OneHosted
  <2> QED
    BY <1>5, <2>1, <2>2, <2>3 DEF OneHosted
<1>9. ASSUME Distinct
      PROVE  Own'
  <2>1. Own /\ \A i \in Loaded : ObjOf(i) = ObjOf(h) => i = h
    BY <1>0, <1>9 DEF CapInv, Distinct
  <2>2. OwnWords'
    BY <1>0, <1>2, <1>3, <1>5, <1>6, <2>1 DEF Own, OwnWords
  <2>3. OwnTotal' /\ OwnRounds' /\ OwnCrash'
    BY <1>2, <1>5, <2>1 DEF Own, OwnTotal, OwnRounds, OwnCrash
  <2> QED
    BY <2>2, <2>3 DEF Own
<1> QED
  BY <1>4, <1>5, <1>7, <1>8, <1>9 DEF CapInv

\* entry of a hosted coroutine reads the words of its own line.
LEMMA EntryStep ==
    ASSUME LoadInv, CapInv, NEW h \in Entries, Entry(h)
    PROVE  CapInv'
<1> DEFINE c == Command(words[ObjOf(h)])
<1>0. /\ co \in [Entries -> Coroutines]
      /\ total_reps \in [Objects -> Nat]
      /\ slot[h] = 1 /\ co[h] = "entry" /\ h \in Loaded
      /\ words[ObjOf(h)] \in Loaded
  BY RunsFirst DEF CapInv, LifeTypes, Entry
<1>1. /\ status' = status /\ status = "ready"
      /\ co' = [co EXCEPT ![h] = "loop"]
      /\ total_reps' = IF c.argc > 1
                       THEN [total_reps EXCEPT ![ObjOf(h)] = c.reps]
                       ELSE total_reps
      /\ c.argc # 2
      /\ UNCHANGED <<prim, host, slot, rep, words, crt_pos>>
      /\ UNCHANGED poolVars
  BY DEF Entry, Runs, listVars
<1>2. /\ \A i \in Loaded : i \in Entries /\ ObjOf(i) \in Objects
      /\ c.reps \in Nat /\ c.argc \in 1 .. 3
  BY <1>0, EntryCommand DEF Loaded
<1>3. LifeTypes'
  <2>1. co' \in [Entries -> Coroutines]
    BY <1>0, <1>1 DEF Coroutines
  <2>2. total_reps' \in [Objects -> Nat]
    BY <1>0, <1>1, <1>2
  <2> QED
    BY <1>1, <2>1, <2>2 DEF CapInv, LifeTypes
<1>4. /\ Loaded' = Loaded /\ Distinct' = Distinct
      /\ \A i \in Entries : /\ Command(i)' = Command(i)
                            /\ ObjOf(i)' = ObjOf(i)
                            /\ OwnReps(i)' = OwnReps(i)
  BY <1>1, TableFixed
<1>5. Fresh' /\ OneHosted' /\ OwnEnd'
  BY <1>0, <1>1, <1>4, SlotNumbers DEF CapInv, Fresh, OneHosted, OwnEnd
<1>6. ASSUME Distinct
      PROVE  Own'
  <2>1. Own /\ \A i \in Loaded : ObjOf(i) = ObjOf(h) => i = h
    BY <1>0, <1>6 DEF CapInv, Distinct
  <2>2. c = Command(h) /\ total_reps[ObjOf(h)] = DefaultReps /\ rep[h] = 0
    BY <1>0, <2>1 DEF Own, OwnWords, OwnTotal, CapInv, Fresh
  <2>3. total_reps'[ObjOf(h)] = OwnReps(h)
    BY <1>0, <1>1, <1>2, <2>2 DEF OwnReps
  <2>4. \A i \in Loaded \ {h} :
            co'[i] = co[i] /\ total_reps'[ObjOf(i)] = total_reps[ObjOf(i)]
    BY <1>0, <1>1, <1>2, <2>1
  <2>5. co'[h] = "loop"
    BY <1>0, <1>1
  <2> HIDE DEF c
  <2>6. OwnWords'
    BY <1>1, <1>2, <1>4, <2>1 DEF Own, OwnWords
  <2>7. OwnTotal'
    BY <1>1, <1>2, <1>4, <2>1, <2>2, <2>3, <2>4, <2>5 DEF Own, OwnTotal
  <2>8. OwnRounds' /\ OwnCrash'
    BY <1>0, <1>1, <1>2, <1>4, <2>1, <2>2, <2>4, <2>5
       DEF Own, OwnRounds, OwnCrash
  <2> QED
    BY <2>6, <2>7, <2>8 DEF Own
<1> QED
  BY <1>3, <1>4, <1>5, <1>6 DEF CapInv

\* A round of compute, or its end: the context is saved in slot 1.
LEMMA ComputeStep ==
    ASSUME LoadInv, CapInv, NEW h \in Entries, Compute(h) \/ ComputeEnd(h)
    PROVE  CapInv'
<1> DEFINE n == rep[h] + 1
           l == IF MoreRounds(h) THEN "loop" ELSE "report"
<1>0. /\ co \in [Entries -> Coroutines]
      /\ rep \in [Entries -> Nat]
      /\ slot[h] = 1 /\ co[h] = "loop" /\ h \in Loaded
      /\ crt_pos[ObjOf(h)] = YC * slot[h]
  <2>1. crt_pos[ObjOf(h)] = YC /\ slot[h] = 1 /\ co[h] = "loop" /\ h \in Loaded
    BY RunsFirst DEF Compute, ComputeEnd
  <2> QED
    BY <2>1 DEF CapInv, LifeTypes, YC
<1>1. /\ status' = status /\ status = "ready"
      /\ co' = [co EXCEPT ![h] = l]
      /\ rep' = [rep EXCEPT ![h] = n]
      /\ UNCHANGED <<prim, host, slot, words, crt_pos, total_reps>>
      /\ UNCHANGED poolVars
  <2>1. CASE Compute(h)
    <3>1. co' = [co EXCEPT ![h] = "loop"]
      BY <1>0, <2>1 DEF Compute
    <3> QED
      BY <1>0, <2>1, <3>1 DEF Compute, Runs, listVars, objVars
  <2>2. CASE ComputeEnd(h)
    BY <2>2 DEF ComputeEnd, Runs, listVars, objVars
  <2> QED
    BY <2>1, <2>2
<1>2. n \in Nat /\ l \in {"loop", "report"}
  BY <1>0
<1>3. \A i \in Loaded : i \in Entries /\ OwnReps(i) \in Nat
  BY OwnRepsNat DEF Loaded
<1>4. /\ Loaded' = Loaded /\ Distinct' = Distinct
      /\ \A i \in Entries : /\ Command(i)' = Command(i)
                            /\ ObjOf(i)' = ObjOf(i)
                            /\ OwnReps(i)' = OwnReps(i)
  BY <1>1, TableFixed
<1>5. ASSUME Distinct
      PROVE  /\ Own
             /\ l = "loop" => n < OwnReps(h)
             /\ l = "report" => n = IF OwnReps(h) > 1 THEN OwnReps(h) ELSE 1
  <2>1. Own
    BY <1>5 DEF CapInv
  <2>2. /\ total_reps[ObjOf(h)] = OwnReps(h)
        /\ rep[h] = 0 \/ rep[h] < OwnReps(h)
    BY <1>0, <2>1 DEF Own, OwnTotal, OwnRounds
  <2> QED
    BY <1>0, <1>3, <2>1, <2>2 DEF MoreRounds
<1> HIDE DEF n, l
<1>6. LifeTypes'
  <2>1. co' \in [Entries -> Coroutines] /\ rep' \in [Entries -> Nat]
    BY <1>0, <1>1, <1>2 DEF Coroutines
  <2> QED
    BY <1>1, <2>1 DEF CapInv, LifeTypes
<1>7. Fresh' /\ OneHosted' /\ OwnEnd'
  BY <1>0, <1>1, <1>2, <1>4, SlotNumbers DEF CapInv, Fresh, OneHosted, OwnEnd
<1>8. ASSUME Distinct
      PROVE  Own'
  <2>1. OwnWords' /\ OwnTotal'
    BY <1>0, <1>1, <1>2, <1>3, <1>4, <1>5, <1>8
       DEF Own, OwnWords, OwnTotal
  <2>2. OwnRounds'
    BY <1>0, <1>1, <1>2, <1>3, <1>4, <1>5, <1>8 DEF Own, OwnRounds
  <2>3. OwnCrash'
    BY <1>0, <1>1, <1>2, <1>3, <1>4, <1>5, <1>8 DEF Own, OwnCrash
  <2> QED
    BY <2>1, <2>2, <2>3 DEF Own
<1> QED
  BY <1>4, <1>6, <1>7, <1>8 DEF CapInv

\* A coroutine that returns names slot 1, which is its own; nothing is behind
\* it to be packed.
LEMMA ReturnStep ==
    ASSUME LoadInv, CapInv, NEW h \in Entries, Return(h)
    PROVE  CapInv'
<1>0. /\ co \in [Entries -> Coroutines]
      /\ slot \in [Entries -> {1, IDLE, FINISHED}]
      /\ prim \in [Primaries -> {"alloc", "take", "run", "over"}]
      /\ crt_pos \in [Objects -> Nat]
      /\ slot[h] = 1 /\ co[h] = "report" /\ h \in Loaded
      /\ host[h] \in Primaries /\ status = "ready"
      /\ crt_pos[ObjOf(h)] = YC
  BY RunsFirst DEF CapInv, LifeTypes, Return
<1>1. ReturnPos(h) = 1
  BY <1>0 DEF ReturnPos, YC
<1>2. Behind(host[h], 1) = {}
  BY <1>0 DEF Behind, IDLE, FINISHED
<1>3. PackSymbols(host[h], 1) = crt_pos
  <2>1. PackSymbols(host[h], 1) = [o \in Objects |-> crt_pos[o]]
    BY <1>2 DEF PackSymbols
  <2> QED
    BY <1>0, <2>1
<1>4. /\ Retired(host[h], 1) = [slot EXCEPT ![h] = FINISHED]
      /\ Packed(host[h], 1) = [slot EXCEPT ![h] = FINISHED]
  <2>1. \A j \in Entries : At(host[h], 1, j) <=> j = h
    BY <1>0 DEF At, CapInv, OneHosted
  <2>2. Retired(host[h], 1) = [slot EXCEPT ![h] = FINISHED]
    BY <1>0, <2>1 DEF Retired
  <2>3. Packed(host[h], 1) = [j \in Entries |-> Retired(host[h], 1)[j]]
    BY <1>2 DEF Packed
  <2> QED
    BY <1>0, <2>2, <2>3
<1>5. /\ status' = status
      /\ co' = [co EXCEPT ![h] = "returned"]
      /\ slot' = [slot EXCEPT ![h] = FINISHED]
      /\ UNCHANGED <<host, rep, words, crt_pos, total_reps>>
      /\ UNCHANGED poolVars
      /\ prim' \in [Primaries -> {"alloc", "take", "run", "over"}]
  BY <1>0, <1>1, <1>3, <1>4 DEF Return
<1>6. /\ slot'[h] = FINISHED /\ co'[h] = "returned"
      /\ \A i \in Entries \ {h} : slot'[i] = slot[i] /\ co'[i] = co[i]
  BY <1>0, <1>5
<1>7. LifeTypes'
  <2>1. co' \in [Entries -> Coroutines]
    BY <1>0, <1>5 DEF Coroutines
  <2>2. slot' \in [Entries -> {1, IDLE, FINISHED}]
    BY <1>0, <1>5
  <2> QED
    BY <1>5, <2>1, <2>2 DEF CapInv, LifeTypes
<1>8. /\ Loaded' = Loaded /\ Distinct' = Distinct
      /\ \A i \in Loaded : i \in Entries
      /\ \A i \in Entries : /\ Command(i)' = Command(i)
                            /\ ObjOf(i)' = ObjOf(i)
                            /\ OwnReps(i)' = OwnReps(i)
  BY <1>5, TableFixed
<1>9. Fresh' /\ OwnEnd'
  BY <1>0, <1>5, <1>6, SlotNumbers DEF CapInv, Fresh, OwnEnd
<1>10. OneHosted'
  BY <1>0, <1>5, <1>6, <1>8, SlotNumbers DEF CapInv, OneHosted
<1>11. Own => Own'
  <2>1. SUFFICES ASSUME Own PROVE Own'
    OBVIOUS
  <2>2. OwnWords'
    BY <1>5, <1>6, <1>8, <2>1, SlotNumbers DEF Own, OwnWords
  <2>3. OwnTotal' /\ OwnRounds' /\ OwnCrash'
    BY <1>0, <1>5, <1>6, <1>8, <2>1 DEF Own, OwnTotal, OwnRounds, OwnCrash
  <2> QED
    BY <2>2, <2>3 DEF Own
<1> QED
  BY <1>7, <1>8, <1>9, <1>10, <1>11 DEF CapInv

\* entry and compute crash for a reason of their own line.
LEMMA CrashStep ==
    ASSUME CapInv, NEW h \in Entries, EntryCrash(h) \/ ReturnCrash(h)
    PROVE  CapInv'
<1>0. /\ co \in [Entries -> Coroutines]
      /\ slot[h] = 1 /\ h \in Loaded /\ co[h] \in {"entry", "report"}
  BY RunsFirst DEF CapInv, LifeTypes, EntryCrash, ReturnCrash
<1>1. /\ status' = "crash"
      /\ co' = [co EXCEPT ![h] = "crashed"]
      /\ UNCHANGED <<prim, host, slot, rep, words, crt_pos, total_reps>>
      /\ UNCHANGED poolVars
  BY DEF EntryCrash, ReturnCrash, Crash, objVars, listVars
<1>2. /\ Loaded' = Loaded /\ Distinct' = Distinct
      /\ \A i \in Loaded : i \in Entries
      /\ \A i \in Entries : /\ Command(i)' = Command(i)
                            /\ ObjOf(i)' = ObjOf(i)
                            /\ OwnReps(i)' = OwnReps(i)
  BY <1>1, TableFixed
<1>3. LifeTypes'
  <2>1. co' \in [Entries -> Coroutines]
    BY <1>0, <1>1 DEF Coroutines
  <2> QED
    BY <1>1, <2>1 DEF CapInv, LifeTypes
<1>4. Fresh' /\ OneHosted' /\ OwnEnd'
  BY <1>0, <1>1, <1>2, SlotNumbers DEF CapInv, Fresh, OneHosted, OwnEnd
<1>5. ASSUME Distinct
      PROVE  Own'
  <2>1. Own
    BY <1>5 DEF CapInv
  <2>2. Command(h).argc = 2 \/ OwnReps(h) = 0
    <3>1. CASE EntryCrash(h)
      BY <1>0, <2>1, <3>1 DEF EntryCrash, Own, OwnWords
    <3>2. CASE ReturnCrash(h)
      BY <1>0, <2>1, <3>2 DEF ReturnCrash, Runs, Own, OwnTotal
    <3> QED
      BY <3>1, <3>2
  <2>3. OwnWords' /\ OwnTotal' /\ OwnRounds'
    BY <1>0, <1>1, <1>2, <2>1 DEF Own, OwnWords, OwnTotal, OwnRounds
  <2>4. OwnCrash'
    BY <1>0, <1>1, <1>2, <2>1, <2>2 DEF Own, OwnCrash
  <2> QED
    BY <2>3, <2>4 DEF Own
<1> QED
  BY <1>2, <1>3, <1>4, <1>5 DEF CapInv

\* No return is taken for that of the primary, and no coroutine that has
\* returned is run again.
LEMMA NoneLost ==
    ASSUME CapInv, NEW h \in Entries
    PROVE  ~ReturnLost(h) /\ ~RunsDead(h)
<1>1. ASSUME ReturnLost(h) PROVE FALSE
  <2>1. /\ slot[h] = 1 /\ crt_pos[ObjOf(h)] = YC
    BY <1>1, RunsFirst DEF ReturnLost
  <2>2. ReturnPos(h) = 1
    BY <2>1 DEF ReturnPos, YC
  <2> QED
    BY <1>1, <2>1, <2>2 DEF ReturnLost, Holds, At
<1>2. ASSUME RunsDead(h) PROVE FALSE
  <2>1. slot[h] = 1 /\ co[h] = "returned"
    BY <1>2, RunsFirst DEF RunsDead
  <2> QED
    BY <2>1, SlotNumbers DEF CapInv, OwnEnd
<1> QED
  BY <1>1, <1>2

\* LifeInv is inductive.
LEMMA LifeStep ==
    ASSUME LifeInv, [LifeNext]_allVars
    PROVE  LifeInv'
<1>1. LoadInv /\ LoadInv'
  BY LoadStep DEF LifeInv
<1>2. DefaultCap' = DefaultCap
  <2>1. UNCHANGED max_scav_per_thread
    BY PoolKept DEF LifeNext, Loading, Over, allVars, poolVars
  <2> QED
    BY <2>1 DEF DefaultCap
<1> SUFFICES ASSUME DefaultCap, CapInv PROVE CapInv'
  BY <1>1, <1>2 DEF LifeInv
<1>3. CASE Loading
  BY <1>1, <1>3, LoadingStep
<1>4. ASSUME NEW t \in Primaries, Allocation(t) \/ Finish(t)
      PROVE  CapInv'
  <2>1. prim \in [Primaries -> {"alloc", "take", "run", "over"}]
    BY DEF CapInv, LifeTypes
  <2>2. CASE LockPool(t) \/ AllocEnd(t) \/ Finish(t)
    <3>1. /\ UNCHANGED <<host, slot, co, rep, words, crt_pos, total_reps>>
          /\ UNCHANGED poolVars /\ status' = status
          /\ \E l \in {"take", "run", "over"} : prim' = [prim EXCEPT ![t] = l]
      BY <2>2 DEF LockPool, AllocEnd, Finish, listVars, crtVars, objVars
    <3>2. prim' \in [Primaries -> {"alloc", "take", "run", "over"}]
      BY <2>1, <3>1
    <3> QED
      BY <3>1, <3>2, CapFrame
  <2>3. ASSUME NEW i \in Entries, NEW p \in Places, Host(t, i, p)
        PROVE  CapInv'
    BY <1>1, <2>3, HostStep
  <2> QED
    BY <1>4, <2>2, <2>3 DEF Allocation
<1>5. ASSUME NEW i \in Entries, Coroutine(i)
      PROVE  CapInv'
  BY <1>1, <1>5, EntryStep, ComputeStep, ReturnStep, CrashStep, NoneLost
     DEF Coroutine
<1>6. CASE UNCHANGED allVars
  <2>1. /\ UNCHANGED <<prim, host, slot, co, rep, words, crt_pos, total_reps>>
        /\ UNCHANGED poolVars /\ status' = status
    BY <1>6 DEF allVars, vars, poolVars, listVars, crtVars, objVars
  <2>2. prim' \in [Primaries -> {"alloc", "take", "run", "over"}]
    BY <2>1 DEF CapInv, LifeTypes
  <2> QED
    BY <2>1, <2>2, CapFrame
<1> QED
  BY <1>3, <1>4, <1>5, <1>6 DEF LifeNext, Over

\* The invariant of pool and entries.
THEOREM LifeCorrect == LifeSpec => []LifeInv
<1>1. LifeInit => LifeInv
  BY LifeInitial
<1>2. LifeInv /\ [LifeNext]_allVars => LifeInv'
  BY LifeStep
<1> QED
  BY <1>1, <1>2, PTL DEF LifeSpec

\* entry, compute and tl_sched_next_crt: at the default cap an entry is retired
\* by the return of its own coroutine, and with an object of its own it has
\* made the rounds its own line asks for, for every number of primaries.
THEOREM WorkOwn == LifeSpec => []OwnWork
<1>1. LifeInv => OwnWork
  BY DEF LifeInv, CapInv, Own, OwnRounds, OwnEnd, OwnWork, Loaded
<1> QED
  BY <1>1, LifeCorrect, PTL

\* argv[2], the division by total_reps and the yields: at the default cap no
\* coroutine is lost, whatever objects the entries share, and with objects of
\* their own they crash the program only through their own line.
THEOREM CrashesOwn == LifeSpec => []CrashOwn
<1>1. LifeInv => CrashOwn
  BY DEF LifeInv, CapInv, LifeTypes, Own, OwnCrash, CrashOwn
<1> QED
  BY <1>1, LifeCorrect, PTL

=============================================================================
