# TLA+ models of the MSH runtime

MSH runs *scavenger* coroutines in the stall time of *primary* threads. The
primary's binary and the scavengers' shared objects are instrumented with
yields by a patched BOLT; `libmsh.so`, attached with `LD_PRELOAD`, keeps the
contexts, hands scavengers to primaries, moves them between primaries, and
schedules them. This directory models that runtime (`libmsh/`) and its example
programs (`apps/src/`), model-checks them on small instances with TLC and proves
the sharing protocol, the links and contexts under the default cap, the
registration of threads, the lock, the pool and the example programs with TLAPS.

## Inventory of the system

| part | state it keeps | operations | hard behaviour |
|---|---|---|---|
| allocation (`msh.c`) | `PRIM_TABLE[t].idx_list`, `ycs[].normal_next/special_next`, saved contexts; `SCAV_TABLE[s].yc/finished/inited`; the `crt_pos` symbol of each object | `msh_alloc_ctx`, `allocate_scav`, `_allocate_scav`, `set_scav_symbol`, `call_init_for_new_scav`, `init_primary_ctx` | two threads at the pool at once; `init` outside the lock |
| reallocation (`msh.c`) | `reallocatable`, `reallocated` | `msh_enter_blockable_call`, `msh_exit_blockable_call`, `realloc_scav` | a thief works on another thread's context; the victim busy-waits; rollback; stale links after a theft |
| scheduler (`msh.c`) | the links, `cur_crt_pos` | `ret_to_scheduler`, `tl_sched_next_crt`, `tl_finish_crt`, `tl_update_next_map`, `tl_pack_crts`, `tl_swap_crts`, `set_special_next` | index read and tested before the lock in `tl_finish_crt`; units of `crt_pos`; last slot; free slot in a swap |
| cleanup (`msh.c`) | `cleanup_jmpbuf` | `msh_cleanup` | leaves by `longjmp`, repeated; runs again after the first join |
| pool (`msh.c`) | `SCAV_TABLE[].lib_handle` | `init_scav_table`, `init_scav_table_entry`, `parse_command` | the limit; every piece of a line longer than the buffer is taken for a line; one handle for equal names |
| pthread wrappers (`pthread.c`) | `thread_cnt`, `first_join`; `msh_tid` and the flag pointers of each thread | `pthread_create`, `pthread_join`, `pthread_mutex_lock`, `cond_wait`, `cond_timedwait`, `barrier_wait`, `msh_start_routine` | initialisation without a lock, numbers used in another thread, unregistered threads on one dummy flag, first join |
| spin lock (`spinlock.h`) | one byte | `spin_lock`, `spin_unlock` | a losing xchg stores too; the release is a plain store |
| yields (`msh_bolt.diff`, `createYieldInstrs`) | slot 0 or the slot at `gs:[crt_pos]` | save the context, jump through a link | a jump through a bad link runs arbitrary code |
| example primary (`ptrchase.cpp`) | the array of nodes, `targ` on the stack of `run` | `gen_cycle`, `init_run`, `run`, `ptrchase_tq` | one cycle through all nodes; threads that outlive `run` |
| example scavenger (`compute.cpp`) | `crt_pos`, `argc`, `argv`, `total_reps` of the object | `entry`, `compute` | symbols set long before they are read, shared by all pool lines that name the object |
| profiling scripts | files | batch | none at run time |

The parts interact through shared memory only. Wrappers call the runtime;
yields and returns of scavengers enter it by jumps; threads meet at
`scav_table_lock`, at the flags, at `SCAV_TABLE`, and inside the context of a
parked thread. Correct means: a scavenger is hosted by one primary and executed
by its host only; nobody touches a context whose owner may run; whatever a
yield or the scheduler jumps to is a live coroutine; no scavenger is lost; a
thread has a context of its own before it is used; calls return, created threads
run, and cleanup completes.

## Modules

| module | what it is |
|---|---|
| `Msh` | the runtime: allocation, reallocation, scheduler, cleanup, yields and the pthread calls that enter it |
| `MshProperties` | what `Msh` guarantees, the refinement mapping, fairness, and the statements of comments that the code does not keep |
| `MCMsh` | instance for TLC |
| `ScavHosting` | abstract specification: where a scavenger is, and who is parked |
| `PthreadShim` | the pthread wrappers, `msh_init` and the registration of threads; extends `SpinLock` |
| `ShimProperties` | what the wrappers guarantee, fairness |
| `SpinLock` | the xchg lock, access by access, with the mapping to `TableLock` |
| `TableLock` | abstract specification: a lock |
| `ScavPool` | loading of the pool file, piece by piece as `fgets` returns it, with its properties |
| `ScavObject` | the loaded entries hosted, run, retired and packed by several primaries: `set_scav_symbol` and `compute.cpp`; extends `ScavPool` |
| `PtrChase` | `ptrchase.cpp`, with its properties |
| `MshTypes`, `MshSharing`, `MshRefinement` | theorems and proofs about `Msh` |
| `MshDefaultCap` | theorems and proofs about `Msh` with at most one scavenger per thread |
| `ShimLock`, `ShimRegistry` | theorems and proofs about `SpinLock` and `PthreadShim` |
| `ScavObjectProofs` | theorems and proofs about `ScavPool` and `ScavObject` |
| `PtrChaseProofs` | theorems and proofs about `PtrChase` |

`Msh` starts where registration ends, with threads that have their number and a
lock that is atomic; `PthreadShim` shows that registration gives them both, and
`TableLock` is the lock in the form `Msh` uses. `PthreadShim` in turn leaves out
what `Msh` models: scavengers, thefts, and the inside of `msh_cleanup`.

### How `Msh` corresponds to the code

*State.* Variables have the names of the code's fields. `saved[t][p]` abstracts
stack pointer, instruction pointer and saved registers of slot `p` to the
coroutine they resume: the primary (`PRIM`), a scavenger, or nothing yet
(`ZERO`). Links and `crt_pos` are byte offsets as in the code (`YC` = 20 =
`sizeof(struct yield_ctx)`, packed), because the code mixes offsets and slot
numbers. `pc`, `run`, `cont` and `cleanup` are the control state of a thread:
where it is, whose code it executes, to which caller `allocate_scav` returns,
and whether `msh_cleanup` is active. `ended` is history: scavengers whose
entry function has returned. Locals are dropped when their call is over.

*Steps.* Code that touches only the thread's own context is one step; a step
ends at each access to what threads share: taking the lock, a compare-and-swap,
the pop and the push of a theft, the test and the store of the pool loop.
`tl_finish_crt` is three steps: `FinishScav` reads the index in the slot into
`crt_idx` and tests it, `FinishLock` takes the lock, and `RetireScav` retires
the index that was read before, whatever the list holds by then. That the list
still holds it is not built in; it is the part `RetiresListed` of `SharingInv`.

*Shared objects.* Pool entries may name the same object (`LibOf`), and then
share its `crt_pos`. `init` of a new scavenger runs outside the lock and yields
through that symbol: `CallInit` is the case in which it still names the slot,
`CallInitLost` the one in which another thread has changed it meanwhile.

*Yields.* `PrimaryYield` and `ScavYield` are what the instructions emitted by
`createYieldInstrs` do: save in slot 0 or at `gs:[crt_pos]`, load the link, load
the context found there. A primary uses `normal_next`; a scavenger uses
`special_next` at an ordinary yield and `normal_next` at a yield that bounds a
loop. A jump to anything but a live coroutine makes the thread `"wild"`: the
code executes at an arbitrary address and the model stops following it.

*Program.* A primary may yield, make a blocking call, join or return at any
point; a scavenger may yield or return. Scavengers make no intercepted pthread
call: their objects are opened with `RTLD_DEEPBIND`, which binds such calls to
the C library before the preloaded runtime.

*Left out.* Loop counters, printouts, `finished_scav_cnt`, `dlclose`,
`prim_table_lock` (never taken), the power-management file.

### How `PthreadShim` and `SpinLock` correspond to the code

`pc` follows a thread through `pthread_create` (`init`, `load`, `own`, `number`,
`spawn`), `msh_start_routine` (`start`, `alloc`, `live`, then `app`, the
program), `pthread_join` and the blocking wrappers. A step ends where another
thread can see a difference: the test of `thread_cnt`, each increment, each
access to the lock byte, each flag. `env` is the set of environment variables
that are set; it is chosen at the start and never changes. `ptr[t]` says whose
flags `msh_reallocatable` and `msh_reallocated` of a thread lead to; for a
thread without a context both lead to the one static `dummy`, which is why the
slow path of `msh_exit_blockable_call`, which would index `PRIM_TABLE` with -1,
has to be shown unreachable. `ctx` tells a context that was only cleared from one
that is ready. `original_pthread_create` may fail; the number it was given is
lost. The program is any program in which a thread is joined by its creator, at
most once and only if its creation succeeded, and in which threads come from
`pthread_create`. In `SpinLock` a thread is outside, before an xchg, in the
reading loop, or inside; `PthreadShim` calls it to load the pool and to
allocate.

### How `ScavObject` and `PtrChase` correspond to the code

The pool file is the sequence of pieces that `fgets` returns, because the loop
of `init_scav_table` has no memory of where a line began: it looks at the first
character of each piece and hands the others to `dlopen`. A piece is a comment,
something `dlopen` or `dlsym` rejects, or a command: its object, how many words
it has, and the number in the third. A line that fits the buffer is one piece; a
longer one is several, of any kinds.

`words[o]`, `crt_pos[o]` and `total_reps[o]` belong to the object, because
`dlopen` returns one handle per object; `co` and `rep` belong to the coroutine
of an entry. Several primaries take entries from the pool under the lock
(`LockPool`, `Host`, `AllocEnd`), run their coroutines, allocate again after
each return, and enter `msh_cleanup` at any time (`Finish`).
`max_scav_per_thread` is chosen at the start. Between two rounds of `compute`
any other hosted coroutine may run. `Return` is what `tl_sched_next_crt` makes
of the returned `crt_pos`: it retires the entry in that slot and moves the ones
behind it down (`Packed`), which leaves their `crt_pos` unscaled
(`PackSymbols`). The status is `"lost"` from the moment a coroutine saves its
context elsewhere than in its slot, is taken for the primary when it returns, or
is run after it has returned: the program goes astray there. Thefts are the
subject of `Msh`.

`PtrChase` has main (the shuffle, the links, creating and joining) and the
threads that follow the links; a node is its index. `visits` is history. `rand`
returns anything, `mmap` and `pthread_create` may fail. `CORE_NUM` and
`JOBS_PER_CORE` are 1.

Searches of the lists (`IsFirstFree`, `IsLastOccupied`, `IsNextAvailableCrt`)
are relations between a list and the position found. Operators named as mutants
are deliberately wrong variants of the operator that follows them; nothing in
the specification uses them.

## Runs

| run | instance | shows |
|---|---|---|
| `steal` | 2 threads, 2 slots, 3 scavengers, cap 1 | unique hosting, exclusive theft, repaired links, list and context and pointer move together, a running scavenger is not moved, the one that returned is retired, refinement of `ScavHosting`, the inductive invariant, every call returns |
| `pack` | 2 threads, 3 slots, 6 scavengers, two of one object, cap 4 | with full lists, rollback into a lower hole and packing, the sharing invariant and the refinement hold and no scavenger is lost |
| `main` | 2 threads, main thread is a primary, nobody blocks, cap 1 | no jump misses; cleanup completes |
| `pool` | table of 3, files of up to 3 pieces, 2 objects, 2 primaries, cap 1 or 2 | the table holds the pieces that are no comments, in order; at the default cap scavengers do their own work and retire themselves, none is lost, and the pool is used up |
| `shim` | 4 threads, table of 2 contexts, every environment | contexts and flags are private, initialisation is alone, cleanup is registered, the xchg loop is a lock, created threads run |
| `chase` | arrays of up to 5 nodes, 2 rounds, 2 threads | the shuffle permutes, one cycle, even walks, `run` outlives its threads and returns |
| `finished` | 1 thread, 3 slots, cap 2 | violation: a moved scavenger's return marks the primary finished |
| `ring_closed` | 1 thread, 2 slots, cap 2 | violation: with the last slot hosted the ring does not close |
| `rollback` | 2 threads, 3 slots, 6 scavengers, cap 4 | violation: a rollback puts the scavenger into another slot than the one with its context |
| `cap` | 3 threads, 3 slots, cap 2 | violation: two victims raise a thief above the cap |
| `pool_full` | table of 2, 3 pieces | violation: one entry is stored past the table |
| `shared` | table of 2, 3 pieces, 2 objects, 2 primaries | violation: a return retires another entry of the same object |

*Bounds.* Two slots are the least with a slot that is the last one and with one
that is not; three are the least with a hole below an occupied slot, which
packing and the misplaced rollback need; two threads give thief and victim; a
third gives a second victim or a bystander at the pool. A cap above the number of
slots (the environment variable is not checked) makes the rollback reachable.
More scavengers than slots keep the pool in play. The code's values are 128
threads, 128 slots, 512 scavengers, and a cap of 1 unless
`MAX_SCAV_PER_THREAD` is set.

What a run claims it claims of the code's values too, for one of two reasons.
`pack` checks only what holds for every cap and every number of slots, and each
of its properties is a theorem without a hypothesis on the constants. The
properties of `steal` about links, contexts and retirement, and those of `pool`
about coroutines, are about the default cap; with it a thread never uses a slot
above 1, whatever the number of slots, so that the smaller instance leaves no
case out, and those that are invariants are theorems for every number of slots
and threads. What goes wrong above the default cap is the subject of `finished`,
`rollback`, `cap`, `ring_closed` and of *Why the cap matters* below.

Except in `pack` and the pool runs, every pool entry has its own object.
`CallReturns` is limited to two threads on purpose (see *Fairness*). `NeverWild`
is checked without blocking calls: with them a stolen scavenger's next yield
goes wild, which is the defect of `finished` seen from the yield.

Four threads over two contexts make numbers run out while creations overlap, and
leave one creation to fail; the main thread is with or without a context. Three
pieces hold a comment or a rejected piece among commands, two commands with one
object and one with another, and more entries than a primary hosts; a pool
larger than the table is the subject of `pool_full`, and of the theorem
`PoolLoaded`. In `OwnWork` and `CrashOwn`, what a scavenger computes and why it
crashes is said of files whose commands name different objects; the others are
what `shared` is about. A default of two rounds is told apart from one and zero
given as words. Arrays of 0 to 5 nodes include the two that are special (none,
and one node that leads to itself); the theorems cover the rest.

*Fairness.* `FairSpec` asks weak fairness of every thread's runtime steps (the
kernel schedules every thread) and of the return of a running scavenger (it is
a finite program). Nothing is asked of the primary: it may block or compute for
ever. With three threads weak fairness would not do, since the spin lock and the
compare-and-swap are not fair; the code promises nothing there either.
In `shim` weak fairness of each thread's runtime steps is enough for four
threads, because a thread takes the lock at most twice (to load the pool, to
allocate) and so cannot be overtaken for ever; nothing is asked of the program.
`FairLife` asks that the loader goes on, that each primary finishes its
allocations, and that each hosted coroutine gets its turn, which the ring of the
scheduler gives it as long as the primary yields. No primary has to end.
`PtrChase` asks that the kernel runs main and every thread.

## Proofs

Each theorem holds for every value of the constants that the named assumption of
its module allows: `ConstantsAssumption` for `Msh` (pool entries may share
objects), `NobodyAssumption` and `ShimAssumption` for the wrappers,
`PoolAssumption` and `ObjectAssumption` for the pool, `ChaseAssumption` for
`PtrChase`. The theorems of `MshDefaultCap` add a hypothesis of their own.

* `MshTypes!TypeCorrect`: `Spec => []TypeOK`. Inductive together with
  `TidInRange`: the loop variable of `_allocate_scav` runs one past the last
  thread, but never inside a theft.
* `MshSharing!Sharing`: `Spec => []SharingInv`. `UniqueHost` is not inductive:
  between the pop and the push of a theft the scavenger is in no list, and the
  push keeps uniqueness only if it is still in none; the pool's store only if
  the picked entry is still free; and `tl_finish_crt`, which retires the index
  it read before it had the lock, only if the slot still holds that index. Those
  facts (`PoppedUnlisted`, `PickedInPool`, `RetiresListed`, `ListedHosted`) rest
  on mutual exclusion (`LockHeld`) and on the flag protocol (`FlagParked`,
  `ThiefExclusive`). The proof goes in two halves: lock and flags, which are
  inductive by themselves (`StepControl`), then lists and table (`StepTable`).
* `HostUnique`, `VictimParked`: the two properties a reader cares about.
* `MshSharing!NoneLost`: `Spec => []NotLost`, also for every cap. The invariant
  gives one direction: what is listed is hosted. The other, that a hosted
  scavenger is listed by its host unless a thief is between its pop and its push
  (`HostedListed`), is an invariant on top of it (`StepListed`): most steps touch
  neither lists nor pointers (`QuietListed`), and the ones that give a scavenger a
  host also list it there (`PlacedListed`).
* `MshRefinement!Implements`: `Spec => HostingSpec`. Six kinds of steps are
  visible, `SwapCrts` maps to a stutter because a swap stays within its host.
* `MshDefaultCap!CapCorrect`: `MAX_SCAV <= 1` implies `Spec => []CapInv`. One is
  the cap that `pthread_create` passes to `msh_init` when
  `MAX_SCAV_PER_THREAD` is not set; threads, slots, pool, objects, thefts and
  `init` functions are arbitrary. From it follow `OwnerInSlot`,
  `RetiresReturned`, `LinkLive`, `HostRuns`, `RunningPinned` and, for a cap of
  exactly one, `CapKept`. None of these properties is inductive.
  `CapInv` says that a scavenger is only ever in slot 1 (`OnlyFirst`), because
  `allocate_scav` asks for one and only when there is none (`Demand`); that this
  slot's context and link are its owner's (`Holds`), its ring is closed
  (`RingBack`) and its `init` has run (`Initialised`), except between taking it
  and returning from `allocate_scav`; that where the scheduler goes next is slot
  0 unless the primary is finished (`SchedNext`); that a stolen scavenger leaves
  no link behind, or a thread that has been told so (`Robbed`), which holds
  again whenever nobody works on the thread (`Settled`, `Links`) and is what the
  thief must restore before it gives the flag back (`Robs`); and that
  `SCAV_TABLE` points to slot 1 of the thread that lists the scavenger, unless a
  thief has it in hand (`Placed`). The proof takes the acting thread
  (`OwnAlloc`, `OwnTheft`, `OwnSched`, `OwnProgram`), the victim of a theft
  (`Victim`) and everybody else (`OthersUntouched`, `Bystander`) apart.
* `MshDefaultCap!NothingWild`: if moreover nobody makes blocking calls and there
  are at least two slots, `Spec => []NeverWild`. A second layer, `CalmInv`, adds
  that `crt_pos` of a hosted scavenger is the offset of its slot, so that what
  returned is retired at once (`Calm`), and that only `msh_cleanup` marks the
  primary finished.

* `ShimLock!SpinCorrect`, `SpinAtomic`: the lock by itself satisfies `SpinInv`
  and implements `TableLock`. `ShimLocked` carries that over to the wrappers:
  every step of `PthreadShim` is a step of `SpinLock` or leaves it alone.
* `ShimRegistry!ShimCorrect`: `Spec => []ShimInv`, and from it `ShimTypes`,
  `ContextOwned`, `FlagsPrivate`, `CleanupOfRegistered` and `InitialisedAlone`.
  None of these is inductive. Behind them is the fact that `thread_cnt = 0` means
  the main thread is alone (`FirstIsMain`), which makes the unlocked test in
  `pthread_create` safe; that a number, once taken, is below `thread_cnt` and
  belongs to one thread, also while it waits in an argument (`Numbers`,
  `Targets`); and that at most the main thread runs without a context
  (`AllRegistered`), so that `dummy` has one user (`DummyFlag`). The proof goes
  in three layers: control, numbers and contexts, flags.
* `ScavObjectProofs!PoolLoaded`: `LifeSpec => []LoadedInOrder`, for every file
  and table size. The invariant `LoadInv` says that the cells below
  `scav_counts` hold exactly the pieces read so far that are no comments, in
  order (`Filled`).
* `ScavObjectProofs!LifeCorrect`: `LifeSpec => []LifeInv`, and from it `WorkOwn`
  and `CrashesOwn`, for every number of primaries and every `max_scav_per_thread`
  (the two properties speak of behaviours in which it is 1). Behind them is that
  a primary hosts one entry, in slot 1 (`OneHosted`); hence the symbol `crt_pos`
  of every hosted object is the offset of slot 1 even if objects are shared, a
  return retires the entry that returned (`OwnEnd`), and packing finds nothing to
  move. With objects of their own, an object's words and rounds are those of its
  one entry from hosting to return (`Own`).
* `PtrChaseProofs!ChaseCorrect`: `Spec => []ChaseInv`, and from it
  `ShufflePermutes`, `LinksAll`, `WalkEven`, `TargOutlives` and `ChaseTypes`. The
  invariant names places on the cycle: after `n` rounds `init_run` stands `n`
  places from node 0 and has set the links of those places (`Fills`), so it is
  back only when all are set; a thread that has made `q` rounds and `r` steps has
  left the first `r` places `q + 1` times and the others `q` times (`Walk`).

The runs check the same formulas on instances.

*Why the cap matters.* With a larger cap the properties of `MshDefaultCap` do
not hold of the code, and no run claims them. A thief that goes on to the next
victim counts anew and ends above its cap (`cap`); a rollback puts the scavenger
into the lowest hole of the victim while its context stays where it was
(`rollback`); a packed or stolen scavenger has an unscaled `crt_pos`, so that its
return is taken for the primary's (`finished`) and, with 20 slots or more, may
name a neighbour; a hosted last slot breaks the ring (`ring_closed`); and a
victim above its cap that is robbed down to it skips `set_special_next`. The last
two have one more consequence that no property states: yields jump through the
broken ring. With a cap of one and blocking calls `NeverWild` fails: a stolen
scavenger's next yield saves to offset 1. With one slot it fails too, since the
ring of the last slot reads `scav_num`.

*Only model-checked:* liveness (`CallReturns`, `CleanupRetires` and those of the
other modules), which the prover does not treat.

## Findings

Six statements of comments or messages are contradicted by the code; each has a
run above and an entry in `PROJECT.json` with the quoted line: units of
`crt_pos` (`msh.c:294`), the last slot of the ring (`msh.c:330`), the slot of a
rollback (`msh.c:493`), the demand that is not reduced between victims
(`msh.c:556`), the limit of the pool (`msh.c:200`), and pool lines that share an
object (`msh.c:150`). One more is listed as a hazard without a run: `tl_swap_crts`
is always called with a free first slot, so that `SCAV_TABLE` is indexed with -1
at `msh.c:258`; the store goes to memory the model does not have.

## Not modelled, and the plan

What is left to do:

1. Proofs for larger caps: what holds of links and contexts when nothing is
   stolen and nothing is packed.
2. `ScavObject` with blocking calls, so that an object's symbols are also written
   by thefts.

Not modelled:

* loop counters: instrumented code alone reads them, the runtime stores their
  address once;
* programs that join a thread whose creation failed (`template.cpp` would, without
  a pool path), and threads made outside `pthread_create`: `CleanupRegistered`
  says nothing of a join after a failed `msh_init`;
* the profile scripts (`compute_ld_prob.py` and the readers): sequential parsing
  and counting of text;
* the BOLT passes: liveness and distance analysis over LLVM data structures, most
  of it outside the patch;
* the shell scripts: I/O.
