------------------------------ MODULE ScavPool ------------------------------
(***************************************************************************)
(* init_scav_table (libmsh/msh.c): the pool file is read into SCAV_TABLE.  *)
(* fgets returns at most MAX_SCV_CMD_LEN - 1 characters, so a long line    *)
(* arrives in several pieces, and the loop takes every piece for a line of *)
(* its own: what it does with one depends on its first character and its   *)
(* words alone.  The file is therefore the sequence of the pieces fgets    *)
(* returns, and a piece is abstracted to its kind and, for a command, to   *)
(* the object it names and to what the object reads of its words.  The     *)
(* rest of a long comment may be a piece of any kind.                      *)
(***************************************************************************)
EXTENDS Integers, FiniteSets, Sequences, SequencesExt

CONSTANTS
    MAX_ACTIVE_CRT_NUM,   \* MAX_ACTIVE_CRT_NUM_PER_APPLICATION
    Objects,              \* shared objects
    MaxPieces,            \* bound: fgets calls until the end of the file
    MaxReps               \* bound: number in the third word of a command

ASSUME PoolAssumption ==
    /\ MAX_ACTIVE_CRT_NUM \in Nat \ {0}
    /\ MaxPieces \in Nat
    /\ MaxReps \in Nat

\* "comment": its first character is '#'; "broken": dlopen or dlsym rejects
\* it (an empty piece opens the program itself, which has no entry function).
Remarks == [kind : {"comment", "broken"}]

\* "command": its first word is a shared object with an entry function.
\* parse_command: argc words, of which the first is the object and the third,
\* if there is one, the number reps.
Commands == {c \in [kind : {"command"}, obj : Objects, argc : 1 .. 3,
                    reps : 0 .. MaxReps] : c.argc < 3 => c.reps = 0}

Pieces == Remarks \cup Commands
Files == BoundedSeq(Pieces, MaxPieces)

NONE == 0   \* no lib_handle

VARIABLES
    file,         \* the pool file
    piece,        \* the position of scav_pool_fp
    table,        \* SCAV_TABLE: the piece each entry was loaded from
    scav_counts,
    status        \* "loading", "ready", or "exit" after err_check

vars == <<file, piece, table, scav_counts, status>>

\* The cells the loop may store to; the last one is past the end of SCAV_TABLE.
Cells == 0 .. MAX_ACTIVE_CRT_NUM

Init ==
    /\ file \in Files
    /\ piece = 1
    /\ table = [i \in Cells |-> NONE]
    /\ scav_counts = 0
    /\ status = "loading"

AtEnd == piece > Len(file)

\* line_buf[0] == '#'
IsComment == file[piece].kind = "comment"

\* dlopen finds an object and dlsym its entry.
Loads == file[piece].kind = "command"

\* Mutant of SkipComment: a comment uses up an entry.
SkipCommentCounted ==
    /\ status = "loading"
    /\ ~AtEnd
    /\ IsComment
    /\ piece' = piece + 1
    /\ scav_counts' = scav_counts + 1
    /\ UNCHANGED <<file, table, status>>

SkipComment ==
    /\ status = "loading"
    /\ ~AtEnd
    /\ IsComment
    /\ piece' = piece + 1
    /\ UNCHANGED <<file, table, scav_counts, status>>

\* err_check(scav_counts > MAX_ACTIVE_CRT_NUM_PER_APPLICATION, ...)
TooMany == scav_counts > MAX_ACTIVE_CRT_NUM

LoadEntry ==
    /\ status = "loading"
    /\ ~AtEnd
    /\ ~IsComment
    /\ ~TooMany
    /\ Loads
    /\ table' = [table EXCEPT ![scav_counts] = piece]
    /\ scav_counts' = scav_counts + 1
    /\ piece' = piece + 1
    /\ UNCHANGED <<file, status>>

\* err_check calls exit(1): too many entries, or no shared object to load.
Fail ==
    /\ status = "loading"
    /\ ~AtEnd
    /\ ~IsComment
    /\ TooMany \/ ~Loads
    /\ status' = "exit"
    /\ UNCHANGED <<file, piece, table, scav_counts>>

Ready ==
    /\ status = "loading"
    /\ AtEnd
    /\ status' = "ready"
    /\ UNCHANGED <<file, piece, table, scav_counts>>

Stopped ==
    /\ status # "loading"
    /\ UNCHANGED vars

Next == SkipComment \/ LoadEntry \/ Fail \/ Ready \/ Stopped

Spec == Init /\ [][Next]_vars

-----------------------------------------------------------------------------

\* The pieces that are not taken for a comment.
Uncommented == {l \in 1 .. Len(file) : file[l].kind # "comment"}

\* A table that was loaded without an error holds one entry for each piece of
\* the file that does not start with '#', in the order of the file, and each
\* of these pieces is a command: comments take no entry, and no command is
\* skipped or loaded twice.  Where every line fits the buffer, these are the
\* lines that are no comments; of a longer line every piece counts, so that
\* the rest of a long comment becomes an entry if it names an object, and
\* ends the program if it does not.
LoadedInOrder ==
    status = "ready" =>
        /\ \A l \in Uncommented : file[l].kind = "command"
        /\ scav_counts = Cardinality(Uncommented)
        /\ {table[i] : i \in 0 .. scav_counts - 1} = Uncommented
        /\ \A i, j \in 0 .. scav_counts - 1 : i < j => table[i] < table[j]

\* "Too many scavengers in the pool" (init_scav_table): a pool that does not
\* fit is rejected before anything is stored past the end of SCAV_TABLE.
StaysInTable == table[MAX_ACTIVE_CRT_NUM] = NONE

=============================================================================
