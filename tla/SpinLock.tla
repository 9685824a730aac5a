------------------------------ MODULE SpinLock ------------------------------
(***************************************************************************)
(* The spin lock of libmsh/spinlock.h at the grain of its memory accesses: *)
(* an xchg that always stores BUSY, a loop that only reads, and a plain    *)
(* store that frees the lock.                                              *)
(***************************************************************************)
EXTENDS Integers

CONSTANTS
    Threads,
    Nobody       \* stands for "no thread"

ASSUME NobodyAssumption == Nobody \notin Threads

BUSY == 1
SPINLOCK_INITIALIZER == 0

VARIABLES
    lock,        \* the byte
    spin         \* where each thread is in spin_lock and spin_unlock

spinVars == <<lock, spin>>

SpinInit ==
    /\ lock = SPINLOCK_INITIALIZER
    /\ spin = [t \in Threads |-> "out"]

\* spin_lock is called.
SpinCall(t) ==
    /\ spin[t] = "out"
    /\ spin' = [spin EXCEPT ![t] = "xchg"]
    /\ lock' = lock

\* Mutant of Won: the old value is not looked at.
WonAlways(old) == TRUE

\* xchg_8 returned the value it replaced.
Won(old) == old = 0

\* if (!xchg_8(lock, BUSY)) return
Xchg8(t) ==
    /\ spin[t] = "xchg"
    /\ lock' = BUSY
    /\ spin' = [spin EXCEPT ![t] = IF Won(lock) THEN "in" ELSE "relax"]

\* while (*lock) cpu_relax() ends; nothing is taken yet.
Relax(t) ==
    /\ spin[t] = "relax"
    /\ lock = 0
    /\ spin' = [spin EXCEPT ![t] = "xchg"]
    /\ lock' = lock

\* spin_unlock does not look at the byte it overwrites.
SpinUnlock(t) ==
    /\ spin[t] = "in"
    /\ spin' = [spin EXCEPT ![t] = "out"]
    /\ lock' = 0

SpinNext ==
    \E t \in Threads : SpinCall(t) \/ Xchg8(t) \/ Relax(t) \/ SpinUnlock(t)

SpinSpec == SpinInit /\ [][SpinNext]_spinVars

-----------------------------------------------------------------------------

\* The byte is BUSY exactly while some thread is past spin_lock, and that is
\* one thread: the xchg of a thread that loses leaves no trace.
SpinInv ==
    /\ lock \in {0, BUSY}
    /\ spin \in [Threads -> {"out", "xchg", "relax", "in"}]
    /\ lock = BUSY <=> \E t \in Threads : spin[t] = "in"
    /\ \A t, u \in Threads : spin[t] = "in" /\ spin[u] = "in" => t = u

\* The loop of xchg and reads implements the lock the runtime relies on.
Holder ==
    IF \E t \in Threads : spin[t] = "in"
    THEN CHOOSE t \in Threads : spin[t] = "in"
    ELSE Nobody

Atomic == INSTANCE TableLock WITH holder <- Holder

AtomicSpec == Atomic!Spec

=============================================================================
