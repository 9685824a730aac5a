---------------------------- MODULE ScavHosting ----------------------------
(***************************************************************************)
(* What the MSH runtime promises about scavengers, without contexts, slots,*)
(* locks or flags: a scavenger waits in the pool, is hosted by one primary *)
(* at a time, changes host only while its host is parked in a blocking     *)
(* call, is retired by its host alone, and never comes back.               *)
(***************************************************************************)
EXTENDS Integers

CONSTANTS Threads, Scavs

POOL == -1
RETIRED == -2

VARIABLES
    host,     \* where each scavenger is: POOL, RETIRED or a thread
    parked    \* the threads inside a blocking call

vars == <<host, parked>>

Init ==
    /\ host = [s \in Scavs |-> POOL]
    /\ parked = {}

\* _allocate_scav takes an entry from the pool.
Take(s, t) ==
    /\ host[s] = POOL
    /\ t \notin parked
    /\ host' = [host EXCEPT ![s] = t]
    /\ UNCHANGED parked

\* realloc_scav moves an entry from one primary to another.
Move(s, v, t) ==
    /\ host[s] = v
    /\ v \in parked
    /\ t \notin parked
    /\ host' = [host EXCEPT ![s] = t]
    /\ UNCHANGED parked

\* tl_finish_crt retires an entry of the calling primary.
Retire(s, t) ==
    /\ host[s] = t
    /\ t \notin parked
    /\ host' = [host EXCEPT ![s] = RETIRED]
    /\ UNCHANGED parked

\* msh_enter_blockable_call and msh_exit_blockable_call.
Park(t) ==
    /\ t \notin parked
    /\ parked' = parked \cup {t}
    /\ UNCHANGED host

Unpark(t) ==
    /\ t \in parked
    /\ parked' = parked \ {t}
    /\ UNCHANGED host

Next ==
    \/ \E t \in Threads : Park(t) \/ Unpark(t)
    \/ \E s \in Scavs, t \in Threads : Take(s, t) \/ Retire(s, t)
    \/ \E s \in Scavs, v, t \in Threads : Move(s, v, t)

Spec == Init /\ [][Next]_vars
=============================================================================
