----------------------------- MODULE TableLock -----------------------------
(***************************************************************************)
(* What the runtime expects of scav_table_lock: one thread at a time has   *)
(* it, and only its holder gives it back.                                  *)
(***************************************************************************)
CONSTANTS Threads, Nobody
VARIABLE holder

Init == holder = Nobody

Acquire(t) == holder = Nobody /\ holder' = t

Release(t) == holder = t /\ holder' = Nobody

Next == \E t \in Threads : Acquire(t) \/ Release(t)

Spec == Init /\ [][Next]_holder

=============================================================================
