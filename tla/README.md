# A TLA+ model of HThread

HThread is a library that replaces the pthread functions of a program: what the
program takes for threads are *vthreads*, user-space contexts that a fixed pool
of kernel threads runs. This directory models the library's scheduler, its run
queue down to the blocks and the free list, its synchronisation primitives, the
creation of vthreads and the way processes share the processors, as the Makefile
builds them (`SPIN_LOCK_STYLE`, `BLOCKING_QUEUE`, `BLOCKED_BARRIER`,
`USE_SEMAPHORE` on; `LOCKFREE_COND`, `MUST_WAKE` off). Where another build is a
small step away it is modelled as well: the barrier of `LOCKFREE_BARRIER`, the
run queues of `LOCKFREE_QUEUE` and `HLOCKFREEQUEUE`, and the raw-thread form of
the queued mutex. TLC model-checks the models and TLAPS proves the central
results.

## 1. Inventory

| Component | State | Operations | What is hard |
|---|---|---|---|
| Scheduler: `worker_routine` (mgr_thread.cpp), `vthreads` | `vs_queue`; per vthread `runnable`, `cur_status`, `ctx`, `owner_ctx`; per worker `pvth`, `ret` | take, put back, resume, act on the code the vthread yields with | several workers, a signaller and the vthread itself touch one vthread; a vthread is in a queue before its context is saved |
| Mutex (strategy.h) | `c` | lock, trylock, unlock | retry by yielding; the worker releases it for `pthread_cond_wait` |
| Condition variable (strategy.h) | `blocked_vths`, `waiter_num` | wait, signal, broadcast, init | lazy allocation, hand-over of the mutex, lost or doubled wake-ups |
| Barrier (strategy.h) | `cur_waiters`, `cur_round`, two queues | init, wait | reuse while the last round is still being woken |
| Read-write lock (hthread.cpp) | `r`, `w` | (try)rdlock, (try)wrlock, unlock | no common lock between readers and writers |
| Semaphore (strategy.h) | `c` | wait, trywait, post | decrement first, undo later |
| Join and exit (vthread.hpp, strategy.h) | `join_mutex`, `join_waiters_num`, `join_wait_queue`, `retval`, `routine_ret`, `join_sem` | join (vthread, raw thread), exit, end | the end races the joiner; the worker releases `join_mutex`; futex sleep races the post |
| Creation, slots, stacks (vthreads.cpp, vthread.hpp) | `vid`, `vid_to_pvth`, `sp`, `ctx` | load, create, start, end | wrap-around, reuse of a slot, the context is made before the stack |
| Shared task number and gate (hinit.cpp, mgr_thread.cpp, tthreads.cpp, clean_shm.cpp) | `*ptask_number`, `N_THREADS_ALLOWED`, `core_id` | init, update, fini, clean, gate | processes that are killed, a number that is read twice, a `core_id` that is used before it is set |
| Context switch (asm/) | `ctx`, `jump_lock` | safe_jump, try_jump, make | jump to a context that is not saved |
| Run queue `vs_queue` (blockingconcurrentqueue.h, concurrentqueue.h) | per thread a producer: `tailIndex`, `headIndex`, two counters, block index; hash tables of producers; free list of blocks; a semaphore | enqueue(_bulk), wait_dequeue(_bulk), destructor | lock-free throughout: tables, index and blocks are replaced and recycled under readers; allocations fail half-way |
| Kernel semaphores (blockingconcurrentqueue.h, htypes.hpp) | `m_count`; `fut`; `spinlock`, `tthread_num` | wait, tryWait, signal; lock, trylock, unlock | a wake-up that comes before the sleep |
| Single-producer queue (readerwriterqueue.h, atomicops.h) | a ring of blocks, each with two indices and a copy of each | enqueue, try_enqueue, dequeue, peek, pop, wait, destructor | both sides act on old copies |
| `concurrent_set` | buckets and their locks | insert, erase, empty, get_all | unlocked scans |
| `hlockfreequeue` | a bounded queue | enqueue, dequeue | enqueue spins when it is full |
| Preemption and cancellation (mgr_thread.cpp) | `to_be_cancelled`, `uninteruptable` | SIGUSR1 handler | its guard compares the stack pointer with the vthread object, but the stack is a separate allocation, so its body is not reached |
| Thread-specific data, pthread wrapping, `hsem`, pool counters | | | private to one thread, forwarding, or not compiled |

Components interact through three things: `vs_queue`, into which every wake-up
puts a vthread; the code with which a vthread yields to its worker
(`STATUS_*`, or the address of a mutex that the worker must release); and the
fields `runnable` and `cur_status` of the vthread. A *raw thread* is a kernel
thread that the library did not create, such as the main thread. For it the key
`cur_hcoroutine` holds null, so `me` is null in every call it makes.

`PROJECT.json` lists the hazards at their lines.

## 2. Modules

| Module | Models | Uses |
|---|---|---|
| `Scheduler` | `vs_queue`, `worker_routine`, `resume` and `yield_myself` | |
| `MutexCond` | mutex, condition variable, `sched_yield`, end of a vthread nobody joins | `Scheduler` |
| `Barrier` | `pthread_barrier_init`, both forms of `pthread_barrier_wait` | `Scheduler` |
| `Join` | `vthread::join`, `pthread_exit`, `wake_up_joined`, `hthread_bin_sema_t` | `Scheduler` |
| `RWLock` | `pthread_rwlock_*` | |
| `Sem` | `sem_wait`, `sem_trywait`, `sem_post` | `CountingSemaphore` |
| `Slots` | loading, `pthread_create`, `vid_to_pvth`, stacks, the bounded run queue `hlockfreequeue` | |
| `VsQueue` | `vs_queue`: implicit producers, block index, block pool, semaphore, destructors | `ProducerHash`, `RunQueue` |
| `ProducerHash` | `get_or_add_implicit_producer` and its hash tables | |
| `FreeList` | the lock-free free list of blocks, with its reference counts | |
| `KernelSem` | `LightweightSemaphore`; `hthread_bin_sema_t` and `hspin_lock` under the queued mutex | `CountingSemaphore` |
| `SpscQueue` | `ReaderWriterQueue`, `BlockingReaderWriterQueue` | `FifoQueue` |
| `ConcurrentSet` | `concurrent_set` | |
| `TaskNum` | the task number in shared memory, the pool's numbering, the gate, `clean_shm` | |
| `CountingSemaphore`, `RunQueue`, `FifoQueue` | what a counting semaphore, a run queue and a FIFO queue promise (abstract) | |
| `MutexCondProofs`, `BarrierProofs`, `JoinProofs`, `RWLockProofs` | theorems | their component |
| `ContainerProofs` | theorems | `SpscQueue`, `ConcurrentSet` |
| `SemProofs` | theorems | `Sem`, `KernelSem` |
| `ProcessProofs` | theorems | `TaskNum`, `Slots` |
| `RunQueueProofs` | theorems | `FreeList`, and the hash tables of `VsQueue` |
| `MC*` | the programs, join graph and initial values for TLC; `MCProcess`, `MCSem`, `MCVsQueue` and `MCSpscQueue` hold two components each, of which the initial state picks one | their components |

**State.** Variables carry the names of the fields and locals they stand for
(`runq` is `vs_queue`). `pc` gives the position of an actor in the library call
it is in; one label is one access to shared memory or one access under a lock
that protects it. `holds`, `arrived`, `left`, `serials`, `taken`, `held` and `result` are what
the calling program knows; they are there for the properties only.

**Scheduler.** `vs_queue` is a bag (`runq` counts each vthread): the blocking
queue keeps no order between the elements of two producers. A worker goes
through `GetAndWork`, then `PutBack` or `Accept`, `Resume`, and after the yield
one of `RetBlocked`, `RetSuspended`, `RetMutex`, `MarkRunnable`,
`EnqueueIfSuspended` and the end of the vthread. The three steps after the
release of a mutex are separate, since others see the state between them.
`Resume` asks for `HasContext`: the context of a vthread that runs, or that has
ended, is not there to be jumped to, and `fault` records the error. A null `me`
that is dereferenced is the other `fault`; both end the program.

**MutexCond.** Most general client: each vthread and raw thread makes up to
`MaxCalls` calls of the allowed operations in any order, unlocks and waits only
with the mutex held, and signals at any time. The queue of waiters is a
sequence (the lock-free queue is linearizable), `None` until somebody
allocates it. `waiter_num` is another shared variable: a waiter increments it
(`CondWaitCount`) three steps before it pushes itself, and a signaller pops
(`CondPop`) before it decrements it (`CondPopCount`).

**Barrier.** `Setups` gives the builds and programs that are looked at: the form
of the library, the count given to `pthread_barrier_init` and how many times
each actor passes the barrier (`MaxRounds` at most). `Parity` selects one of the
two queues. `setup.build` is the form of the library that runs: a waiter of
`BLOCKED_BARRIER` pushes itself and blocks, one of `LOCKFREE_BARRIER` looks at
`cur_round` and yields (`LookAgain`). The branches that print "should not run
to here" are in `ResetWaiters` and `LookReleased` and set `misfired`.

**Join.** `Joins` says who joins whom, `Exiters` who ends with `pthread_exit`;
the lock of `v` in `c` is its `join_mutex`. What a joiner does between the
test-and-set on `join_mutex` and its release is one step, for all the others
touch that state under the same lock. `wake_up_joined` has its own positions
`fpc` on the worker. When it finds `join_mutex` taken it calls `yield_myself` from the
worker's own stack; the frame it saves is the one `owner_ctx` points to, so the
call returns to itself and acts as a retry.

**RWLock, Sem.** The callers only interleave, so they are modelled without the
scheduler. A yield lets others run and changes nothing else.

**Slots.** A creation is named by the value of `vid` it took; `SlotOf` wraps it
as the code does. `vthread::init` is three steps (`InitFields`, `MakeContext`,
`NewStack`), since workers run between them. The blocks of the heap stand for
stacks and the allocator may return any free one. While the library is loaded
the constructor of every slot calls `make_fcontext` on an `sp` that has no
value yet: what that writes to is undefined, so `Construct` either ends the
process or goes on. A vthread runs from start to end on one worker here; what
happens in between is the subject of `Scheduler`. `MaxAlive` says how many
vthreads the program has at a time.

**TaskNum.** `init_task_num` reads the shared number again after it has added
itself, once for the division and once for the remainder: `AddTask`,
`DivideTask`, `RoundTask`. The manager thread's handler sets
`N_THREADS_ALLOWED` and then rounds it up, and the gate of `worker_routine`
(`Passing`) can be looked at in between. `core_id` is arbitrary (`FirstIds`)
when `add_pthread` first uses it. A killed process stays counted (`leaked`)
until `clean_shm`, which is itself a process of the library, is run; it is
taken to be run with the true number of the other processes.

**VsQueue, ProducerHash, FreeList.** A program (`Programs`) says how often each
thread enqueues and dequeues, in which build, and how many allocations fail. A
thread registers in the hash tables (`HashStep`; the control of
`get_or_add_implicit_producer` with the racing replacement of the table), gets
an index entry and a block for the elements that need one (`InsertKey`,
`InsertTail`, `Requisition`), writes and publishes them, and signals. When an
allocation fails, `enqueue` returns false, and `enqueue_bulk` first takes its
blocks out of the index again (`Undo`, `GiveBack`). `enqueue` and `dequeue` are
the steps of their bulk forms for one element, so the two are one set of
actions. A consumer takes units of the semaphore, claims elements through the
two counters (`Read` to `Overcommit`), loads header and tail of the index
(`LoadHeader`), computes the place of its block, reads, and gives the block
back if it was the last to be done with it. A header of the index shares its
entries with the header it replaced; this is why entries are positions in `key`
and `value`. The free list is a set in `VsQueue`; `FreeList` is the list itself
with reference counts, one atomic instruction per step, and shows that a set is
what it is (`ListCorrect`). Indices are unbounded integers: the code uses 64-bit counters. The library
never destroys `vs_queue` and never uses the bulk calls; they are operations of
the component all the same. `Scheduler` uses the queue as a bag; `IsRunQueue`
says that this is sound, and more: the order of each enqueuer is kept.

**KernelSem.** Each run uses one kind: the `LightweightSemaphore` (the counter,
the partial spinning, the kernel semaphore it sleeps on, `waitMany`), or the
mutex of raw threads behind `acquire_acess`: `hspin_lock`, `tthread_num`, and
the futex of `bin_sema`, with an interrupt that ends the process.

**SpscQueue.** One producer and one consumer. Blocks have an index of their own
and an old copy of the other's; `Reuse`, `Alloc` and `Link` are the ways to the
next block. The blocking form adds the semaphore of atomicops.h. The n-th element
put in is the number n, and a slot without an element holds 0, so the data that the
blocks hold shows what was lost, doubled or overtaken; `Contents` is what a FIFO
queue would hold after the puts and takes so far.

**ConcurrentSet.** `Hash` is the code's, signed char and shift included.
`steady` and `ever` record, for a scan, what was in the set all the time and at
some time.

**Memory model.** Steps are sequentially consistent. The accesses that matter
between threads are locked read-modify-write instructions on x86-64, or plain
accesses ordered by them; in `RWLock` the announcement is such an instruction
and so comes before the second look.

**Control flow.** `pthread_rwlock_unlock`, `pthread_rwlock_init` and `sched_yield` have no return
statement; the models take it that they return.

## 3. Runs

Deadlock is not an error in any run: workers wait for ever on an empty queue, a
program may end, and vthreads may wait for a signal that nobody sends.

| Run | Instance | Shows |
|---|---|---|
| `mc_one_worker` | 3 vthreads, 1 worker, 3 calls, all operations | `ExactlyOnePlace` |
| `mc_two_workers` | 2 vthreads that lock, wait and signal, 1 raw thread that tries, waits, broadcasts and yields, 2 workers, 2 calls, fair | `MutexOwned`, `NoVthreadLost`, `CondInv`, `AllEndOrWait` |
| `mc_double_resume` | 2 vthreads, 2 workers | violated: `JumpsToContextData` |
| `barrier_rounds` | 3 vthreads, 3 workers, count 3, 3 rounds, both builds; 3 vthreads, or a vthread and a raw thread, at a barrier for 2; fair | `BarrierSync`, `OneSerialPerRound`, `GroupRelease`, `BarrierInv`, `AllPass` |
| `barrier_misfire` | 3 vthreads, count 2 | violated: `NeverReached` |
| `rwlock` | 3 vthreads, 2 calls, all operations, fair | `RWExclusion`, `ReadersCounted`, `FreeAtRest`, `ServedOrConflicting` |
| `sem_counts` | 2 vthreads and a raw thread at `sem_t`, 3 calls; 3 threads at either kernel semaphore, 2 turns, an interrupt; 1 unit, fair | `IsCountingSemaphore`, `WaitersServed`, `KernelSemCounts`, `LightServes` |
| `join` | v2 joins v1, v3 and the main thread join v2, the main thread joins v3, 2 workers, fair | `JoinInv`, `JoinMutexOwned`, `JoinsReturn` |
| `process` | 2 processes and `clean_shm`, 3 processors, 4 starts, 1 crash; or 2 creators, 2 workers, 3 slots, 3 creations that wrap around, a queue of 3; fair | `TaskInv`, `GateStaysOpen`, `SharesSettle`; `SlotsInv`, `CreatedEnds` |
| `slots_reuse` | 1 creator, 1 worker, 2 slots, 3 creations one after the other | violated: `OwnStack` |
| `vsqueue` | 3 threads, blocks of 2, an index of 2, a pool of 1 block, 8 programs; or 2 blocks on the free list, 3 users, 4 calls; fair | `TablesInv`, `UnitsHaveElements`, `BlocksInv`, `DestroyedOnce`, `IsRunQueue`, `ElementsFound`; `ListInv`, `CallsReturn` |
| `spsc` | 5 enqueues, 4 dequeues, blocks of 2 and 4, five programs; or a set of 2 buckets, 3 values, 2 threads, 5 calls; fair | `SidesInv`, `HoldsMaxSize`, `NothingLeaks`, `IsFifo`, `ConsumerServed`; `SetInv` |

The invariants whose names end in `Inv` are conjunctions of the type invariant
of their module, where it has one, and of named parts that are described where
they are defined.

**Bounds.** Two workers are enough for every race between the worker that
releases a mutex and the one that resumes the woken vthread; three vthreads on
one worker let a signaller, a waiter and a competitor for the mutex meet. Three
calls let a vthread lock, wait and then signal. Two rounds are enough for a
fast vthread to meet the last arriver of the round before; three rounds let a
parity come back, and with a worker for each vthread any of them may be delayed
anywhere. Three callers of the semaphore let one hide a unit from another. The
join graph has a chain, a vthread with two joiners of different kinds, and both
ways to end. Three creations from `FirstVid = 2` wrap around an array of three;
a fourth would use a slot again, which is what `slots_reuse` is about. Three
processes on three processors give shares of 3, 1 (rounded up to 2) and 1, and
four starts let a process come back. Five elements in blocks of two make the
index of two entries grow while its first block is emptied and comes back; all
thread ids collide in the hash tables, and tables of 1 and 2 places are replaced
by two threads at once; one failing allocation hits every allocation of an
enqueue in turn. Four calls on the free list are enough for a block to be taken, its
successor to be taken, and the first to be put back, while another thread has
loaded the successor. Five elements go twice round a ring of two blocks. The
proofs have no bounds.

**Fairness.** Weak fairness for each actor and worker: the kernel runs every
real thread, and a worker that has resumed a vthread goes on with it. Nothing is
assumed of the order in which `vs_queue` gives vthreads out, nor could it be:
`try_dequeue` takes the largest of the first three producers that are not empty,
the newest of equal ones (concurrentqueue.h:1033-1065), so a vthread that is put
back again and again may keep passing one in an older producer. The liveness
properties hold in every order all the same, because nobody is put back without
end: the number of calls is bounded, a mutex is held by a vthread that runs or is
released by a worker, and a waiter that is not runnable becomes so when its own
worker goes on. A waiter in `LOCKFREE_BARRIER` is the exception, since it comes
back until the last has arrived, so `AllPass` is about `BLOCKED_BARRIER`. The mutex itself is not
assumed to be fair: the retry loops come to an end.
In `Slots` a creator finishes the call it is in and the workers go on taking
vthreads; in `TaskNum` a process that loads the library goes on and its manager
thread keeps waking up, but nobody has to exit.
In the queues and kernel semaphores every kernel thread runs on (weak fairness
for each); a kernel semaphore or futex that is posted wakes some sleeper.
Blocking readers and writers of the read-write lock can back off from each
other for ever under weak fairness; `ServedOrConflicting` says that nothing
else keeps a call from returning.

## 4. Disagreements between code and comments

1. **Double resume through a condition variable** (`mc_double_resume`). A
   waiter pushes itself, yields with the mutex, and its worker releases the
   mutex. A signaller pops the waiter, sets `STATUS_SUSPENDED` and enqueues it;
   the worker then finds `STATUS_SUSPENDED` and enqueues it again
   (mgr_thread.cpp:161). Two workers resume it, the second while it runs.
   A joiner that `wake_up_joined` enqueues meets the same test; `vthread::join`
   never clears `runnable`, so nothing holds the other worker back either.
2. **A barrier used by more threads than it counts** (`barrier_misfire`): a
   further arrival before the reset makes the compare-and-swap fail, and
   `cur_waiters` is never reset (strategy.h:211).
3. **A slot that is used again** (`slots_reuse`): `vthread::init` makes the
   context on the stack of the vthread that had the slot before, which
   `wake_up_joined` has deleted, and then allocates a stack that the next
   vthread of the slot gets (vthread.hpp:147).

With one worker the first does not happen (`mc_one_worker`).

More effects that no comment or test denies, and that have no run of their own:

* A raw thread that finds a mutex taken dereferences a null `me`
  (strategy.h:580; the fault `nullptr` of `MutexCond`).
* `join_sem` is binary, so of two raw threads that join one vthread the second
  can stay asleep (vthread.hpp:284); the `join` run has one raw joiner per
  vthread.
* A waiter of `LOCKFREE_BARRIER` yields and comes back until the last has arrived.
  As `vs_queue` keeps no order between producers it can pass a vthread that has
  not arrived for ever; strategy.h:149 says that this form does not work on the
  queue.
* In the `LOCKFREE_BARRIER` build a thread that read `cur_round` before a round
  ended and was counted after it is released at once, so `GroupRelease` is
  checked for `BLOCKED_BARRIER` only; with as many threads as the barrier counts
  this does not happen.
* An `enqueue` of `vs_queue` whose allocation fails returns false, and no caller
  looks at the result: the vthread is lost. The constructor of `ImplicitProducer`
  ignores a failing `new_block_index` and leaves a null index behind
  (concurrentqueue.h:2341); the model's allocations fail after that.
* In the queued mutex `tthread_num` is decremented by `unlock`, not by the thread
  that wakes up: it can reach 0 while a thread still sleeps, and later unlocks
  then wake nobody. `KernelSemCounts` is about mutual exclusion only.
* In the `HLOCKFREEQUEUE` build the workers enqueue as well as dequeue, and
  `enqueue` spins while the queue is full: with all of them in it nobody makes
  room. In `Slots` only creators enqueue.
* An interrupted futex wait ends the process (htypes.hpp:440).

## 5. Proofs

For any sets of vthreads, raw threads and workers and any number of calls:

* `MutexCondProofs`
  * `TypeCorrect`: types, together with control facts (`ControlOK`): a position
    that uses the waiters' queue finds it allocated, one that uses a popped
    waiter finds it, and only vthreads pass the first step of `pthread_cond_wait`.
  * `MutexOwnership` (`MutexOwned`): inductive given the types, except that a vthread in
    `pthread_cond_wait` must be known to hold the mutex until it yields, and
    not to hold it until it has taken it back.
  * `NobodyLost` (`NoVthreadLost`): the property is not inductive, because a worker at
    `marked` that does not enqueue its vthread relies on somebody else having
    it. The invariant `PlacedInv` adds where a blocked vthread is: in the
    queue, with a signaller, in `vs_queue`, or resumed.
  * `WaitersCounted` (`CondInv`): `waiter_num` and the queue are changed in
    separate steps. The difference is made up by the waiters that have added
    themselves and are not in the queue yet (`Coming`) and the signallers that have
    popped one and not subtracted it yet (`Going`). It holds in every state, those
    after a dereferenced null `me` included.
  * `OnePlaceEach` (`ExactlyOnePlace`), for one real thread and no raw thread
    (`OneWorker`): with a second kernel thread the property is false, as
    `mc_double_resume` shows (section 4). `PlacedInv` gives one place at least;
    `SingleInv` gives one at most: the queue has no duplicates, a vthread is in
    the queue and on its worker only between its push and its yield, and the
    `cur_status` of a waiter stays other than SUSPENDED until the worker that released
    the mutex for it has looked, because the only signaller would have to run on
    that worker. TLC confirms `SingleInv` on the instance of `mc_one_worker`.
* `JoinProofs`
  * `TypeCorrect`, and `JoinMutexOwnership` (`JoinMutexOwned`), for every program.
    The owners of a `join_mutex` are of four kinds; `OwnInv` says which one there
    is, if any, by four sets of which at most one is not empty.
  * `JoinKeepsPromise` (`JoinInv`), for the programs of `Simple`: a vthread joins
    at most once, and no two raw threads join the same vthread. Who joins whom,
    and in which way a vthread ends, is otherwise free; the program of the `join`
    run is one of them. Without either half `JoinInv` is false, as TLC shows: a
    joiner may be enqueued both by the worker that released `join_mutex` for it
    and by the one that ended its target (section 4), and its second join then
    returns at once; and two posts of the binary `join_sem` fall together.
    The invariant `JoinIInv` has six parts, each of which needs the ones
    before it: `TargetInv` (a call is about a vthread of the program);
    `EndInv` (a vthread runs on one worker and ends once; this rests on
    `HasContext` in `Resume`); `ListInv` (a vthread is in the list of its target, or in
    the list its target's worker took over, and woken only after the target
    has finished); `PlaceInv` (before it blocks it is in one place, while it
    sleeps nothing resumes it, afterwards it is on its way to a worker);
    `CountInv` (`join_waiters_num` and `waiters` are the lengths of the lists
    plus the raw thread that waits, and a raw thread that waits for a vthread
    that has finished has its post, or a worker that owes it); `ResultInv`
    (`retval` names the sole joiner until its target finishes, and then it has the result).
* `BarrierProofs`, for both builds and any setup
  * `TypeCorrect`: types, and how often an actor has arrived and left by its
    control point.
  * `BarrierInductive`: the invariant `BarrierIInv`. `PlaceInv` says that a
    vthread that does not run is in one place from which it can be resumed; a
    waiter that has pushed itself and still runs is in such a place too, and
    then it does not look runnable. This holds however the barrier is used.
    `RoundInv` is about barriers used by as many as they count (`Matched`):
    everybody is in the current round or in the one before, `cur_waiters` counts
    those who have arrived in it, there is one last arriver at most, and a
    queue holds waiters of its parity only, those of the current round among
    them.
  * `RoundsSynchronise` (`BarrierSync`), `SerialPerRound` (`OneSerialPerRound`)
    and `BarrierCorrect` (`BarrierInv`) follow. Without `Matched` they are false:
    `barrier_misfire` is an example.
  * `GroupsReleased` (`GroupRelease`), for any number of users of
    `BLOCKED_BARRIER`. A second induction over `BarrierIInv` shows `GroupInv`, two
    balances. Those who have left, those who were taken out of a queue and not
    returned (`Called`), and the returns the last arrivers still stand for
    (`Owed`) are together `Count * cur_round`. The arrivals are those of the rounds
    completed or about to be, and `cur_waiters`; after a reset has failed,
    `cur_waiters` counts one round twice and stays above `Count`, so that nobody takes
    itself for the last again. TLC confirms `GroupInv` on the instances of
    `barrier_rounds` and on barriers for 1 and for 2.
* `RunQueueProofs`
  * `ListInductive` and `ListCorrect` (`ListInv`): the free list, for any blocks
    and threads. The nodes from `freeListHead` on are a chain without repetition
    (`IsChain`); the reference count of a node is the number of threads that
    refer to it, and one more while it is in the list, on its way into it or just
    taken out of it; whoever
    has a reference to the head finds its `next` as it was loaded, because a node
    that is referred to is not put back.
  * `TablesInductive` and `TablesCorrect` (`TablesInv`): the hash tables, for any
    hash and any failing allocations. The hard part is that no table fills up,
    although a thread that was counted may join any table that was the newest
    when it looked. `CountsSeen` gives the reason: of any threads that are
    counted, one has seen them all in its `newCount`; a thread adds itself only
    to a table of which its `newCount` is less than three quarters, and
    capacities only grow, so those in a table are fewer than its places.
* `ProcessProofs`
  * `TaskNumberExact` (`TaskInv`) and `GateOpen` (`GateStaysOpen`), for two or more
    processors.
    A process that has added itself is counted until it is killed or exits, so
    the number it divides by is at least 1; of `NThreads` consecutive numbers,
    wherever `core_id` starts, one is 0 or less, and that thread passes the gate
    while at least one is allowed.
  * `SlotsInductive` and `SlotsCorrect` (`SlotsInv`), under `Fits`: no more
    creations than slots, `vid` does not overflow, and the bounded queue has room
    for the vthreads there are at a time. The creations may wrap around the
    array. `Fits` is the limit of what the code promises: as soon as a slot is
    used again `OwnStack` is false (`slots_reuse`), and a queue that is full makes
    `enqueue` spin. The instance of the `process` run satisfies it. The invariant
    has a part for each creator, slot, worker and creation, which says whose a
    creation is from the value of `vid` to the end of its vthread, and one for
    the heap.
* `ContainerProofs`
  * `SetAnswersSound` (`SetInv`). A bucket holds only values
    that hash to it and changes only under its lock; a scan has seen what was
    steady in the buckets it has passed, and what it returns was in the set at
    some time, without repetition since buckets do not overlap.
  * `QueueInductive`, for a `ReaderWriterQueue` of any size, blocking or not, with
    any number of calls and of allocations that fail. While the queue exists `Alive`
    holds: the blocks are a ring, given by a sequence `s` from `frontBlock` on of
    which the `t`-th is `tailBlock` (`RingOK`); the blocks between the two are not
    empty, those behind the tail are, except the one the producer is about to
    advance to (`FillOK`); every block has a number `base`, that of its front
    element, and the numbers go on from block to block (`BaseOK`); and each slot
    holds the number its place says, or nothing (`SlotsOK`). The old copies are
    harmless because a copy of the other's index can only be behind it
    (`BlockOK`): `localFront` shows less room and `localTail` fewer elements
    than there are. `SemOK` balances the units of the semaphore against the
    elements that are not claimed yet.
  * `QueueIsFifo` (`IsFifo`), the refinement of `FifoQueue`: elements come out once
    each and in order. What the calls answer is not part of it.
  * `SidesAgree` (`SidesInv`): a dequeue or peek that finds nothing first looked
    when there was nothing, a blocking one does not fail, peek shows what comes
    out next, and the assertions of the source hold. That `try_enqueue` refuses
    only when there are `maxSize` elements (`HoldsMaxSize`) is not proved.
  * `QueueLeavesNothing` (`NothingLeaks`): the ring reaches every block, so the
    destructor does, and no slot of any holds an element afterwards.
* `RWLockProofs`: `RWExclusionHolds`, `ReadersCountedHolds`,
  `FreeAtRestHolds`, from the invariant that `w` names exactly the thread that
  has put itself there and `r` is the cardinality of the announced readers.
* `SemProofs`
  * `SemImplementsCounting`, the refinement, with the available units mapped to
    `c` plus the decrements that wait to be undone.
  * `KernelSemInductive` and `KernelSemImplementsCounting` (`KernelSemCounts`),
    the refinement for both kinds of kernel semaphore. For the
    `LightweightSemaphore` the invariant is a balance (`LightInv`): what
    `m_count` is below zero is the number of sleepers less the posts that were
    made or are owed (`Owed`), so a post never lets a thread in for which there is no
    unit, and a sleeper's unit is not given away while it wakes up.

Assumptions: vthreads, raw threads and null are different, a mutex is not a
status code, null is not a queue, there are at least two processors, and these
are finite sets: the processes, the threads of `RWLock`, `Sem`, `KernelSem` and
`ProducerHash`, the actors of `Barrier`, the nodes and users of `FreeList`. The
queued mutex starts with one unit, and the heap has blocks enough for every slot
and every creation (`new` does not fail).
`HashAssumption` of `ConcurrentSet` says that the hash of every value is the number
of a bucket: the hash ends in a mask, but it adds up the bytes of the value, so the fact
is an induction over the length of the value, which the prover cannot do; TLC evaluates
it for the values of the `spsc` run. `CeilAssumption` of `SpscQueue` says that
`ceilToPow2(maxSize + 1)` is more than `maxSize`: the provers know nothing of powers;
TLC evaluates it for the programs of that run. It is false only where the
arithmetic of `size_t` overflows.

Only model-checked:

* liveness, which is out of the prover's reach;
* `UnitsHaveElements`, `BlocksInv`, `DestroyedOnce` and `IsRunQueue` of `VsQueue`:
  they relate sums over all producers and the sequence that an index of blocks holds to
  counters, and those sums and flattened sequences are folds, of which nothing can
  be proved for every length without induction over data;
* `HoldsMaxSize` of `SpscQueue`: it sums the room of the blocks of the
  ring, however many there are, which is the same kind of induction.

## 6. Not modelled

* `ExplicitProducer`, producer and consumer tokens, and the swap and move of
  queues (concurrentqueue.h): the library uses none of them. The branches for
  element types whose constructor or assignment may throw are not compiled for
  pointers.
* The condition variable of `LOCKFREE_COND`, and the vthread form of the queued
  mutex with the list `typed_node` (strategy.h:586-608): not compiled.
* Preemption and cancellation: the body of `sig_handler` is never reached, since
  its guard compares the stack pointer with the address of the vthread object.
* `hsem` (`USE_HSEM`, off): it keeps no count of its units and loses a wake-up
  between its test and its sleep.
* `p`, `v` and the active count of the pool, which only `cond_timedwait` calls,
  and that is not exported; the maps of `join_vthread` and `end_vthread`, which
  nobody uses.
* Thread-specific data, a map that only its own vthread touches; the wrapping of
  the pthread symbols; `jump_lock` and the registers of a context switch;
  `pthread_barrier_destroy`.

## 7. Plan

In this order:

1. `FreeList` put under `VsQueue`, shown to implement its set of free blocks.
2. An abstract barrier that `Barrier` implements, from `RoundInv` and `GroupInv`.
3. The blocks of `VsQueue` described by functions of the index instead of folds, as
   those of `SpscQueue` are in its proofs, so that `BlocksInv` can be proved.
