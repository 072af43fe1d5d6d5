----------------------------- MODULE KernelSem -----------------------------
(***************************************************************************)
(* The semaphores that put kernel threads to sleep:                        *)
(*                                                                         *)
(*  - "light", the LightweightSemaphore of blockingconcurrentqueue.h on    *)
(*    which workers wait for the run queue: a counter, and a POSIX         *)
(*    semaphore for those who have found no unit;                          *)
(*  - "queued", the pthread_mutex of strategy.h in a build without         *)
(*    SPIN_LOCK_STYLE, called by raw threads: a flag under a spin lock,    *)
(*    and a futex, hthread_bin_sema_t.  It is a semaphore of one unit that *)
(*    is posted by whoever holds it.                                       *)
(*                                                                         *)
(* A load and the compare_exchange that confirms it are one step: when the *)
(* latter fails, the code starts again with the new value.  The futex and  *)
(* the POSIX semaphore are the kernel's.                                   *)
(***************************************************************************)
EXTENDS Integers, FiniteSets

CONSTANTS
  Threads,     \* the kernel threads
  Kinds,       \* the kinds of semaphore that are looked at; other than these
               \* two, nothing happens here
  Start,       \* the units there are at the start; a mutex has one
  MaxTurns,    \* how many calls a thread makes
  Counts,      \* how many units a call may ask for, or give
  Interrupts   \* how many sleeps a signal ends

ASSUME KernelSemAssumption ==
  /\ IsFiniteSet(Threads)
  /\ Start \in Nat
  /\ "queued" \in Kinds => Start = 1
  /\ MaxTurns \in Nat
  /\ Counts \subseteq Nat \ {0}
  /\ Interrupts \in Nat

VARIABLES
  kind,      \* the kind of semaphore
  count,     \* LightweightSemaphore::m_count, or the unit of the mutex:
             \* 1 - hthread_mutex_t::c
  sema,      \* LightweightSemaphore::m_sema
  fut,       \* hthread_bin_sema_t::fut
  spinlock,  \* hthread_mutex_t::spinlock
  tthread_num, \* hthread_mutex_t::tthread_num
  asleep,    \* the threads that sleep in FUTEX_WAIT
  at,        \* where each thread is
  arg,       \* max or toRelease of each
  has,       \* how many units each thread has been given
  turns,     \* how many more calls it may make
  signals    \* how many more sleeps a signal may end

kvars == <<kind, count, sema, fut, spinlock, tthread_num, asleep, at, arg, has,
           turns, signals>>

KInit ==
  /\ kind \in Kinds
  /\ count = Start
  /\ sema = 0
  /\ fut = 0
  /\ spinlock = 0
  /\ tthread_num = 0
  /\ asleep = {}
  /\ at = [t \in Threads |-> "ready"]
  /\ arg = [t \in Threads |-> 0]
  /\ has = [t \in Threads |-> 0]
  /\ turns = [t \in Threads |-> MaxTurns]
  /\ signals = Interrupts

-----------------------------------------------------------------------------

\* A thread that neither sleeps nor has ended the program.
IsAt(t, l) ==
  /\ at[t] = l
  /\ t \notin asleep
  /\ \A s \in Threads : at[s] # "exited"

Goto(t, l) == at' = [at EXCEPT ![t] = l]

\* Thread t goes on at l with the local value n.
GotoSet(t, l, n) == Goto(t, l) /\ arg' = [arg EXCEPT ![t] = n]

\* The call returns with n units, to the program at l.
Given(t, n, l) ==
  /\ has' = [has EXCEPT ![t] = @ + n]
  /\ GotoSet(t, l, 0)

\* Thread t calls an operation of kind k.
KCall(t, k, l) ==
  /\ kind = k
  /\ IsAt(t, l)
  /\ turns[t] > 0
  /\ turns' = [turns EXCEPT ![t] = @ - 1]

Least(m, n) == IF m < n THEN m ELSE n

(***************************************************************************)
(* Faulty forms of steps below.                                            *)
(***************************************************************************)

\* Every unit is posted to the kernel, also those nobody sleeps for.
SignalAll(t, n) ==
  /\ KCall(t, "light", "ready")
  /\ count' = count + n
  /\ GotoSet(t, "s_post", n)
  /\ UNCHANGED <<sema, has>>

\* toRelease is computed from the new value: the last sleeper is left out.
SignalLate(t, n) ==
  /\ KCall(t, "light", "ready")
  /\ count' = count + n
  /\ LET toRelease == Least(-count', n)
     IN  IF toRelease > 0 THEN GotoSet(t, "s_post", toRelease)
                          ELSE UNCHANGED <<at, arg>>
  /\ UNCHANGED <<sema, has>>

-----------------------------------------------------------------------------
(***************************************************************************)
(* LightweightSemaphore                                                    *)
(***************************************************************************)

\* tryWait and tryWaitMany(max): all there is, up to max, or nothing.
TryWait(t, max) ==
  /\ KCall(t, "light", "ready")
  /\ LET n == Least(count, max)
     IN  \/ n > 0 /\ count' = count - n /\ has' = [has EXCEPT ![t] = @ + n]
         \/ n <= 0 /\ UNCHANGED <<count, has>>
  /\ UNCHANGED <<sema, at, arg>>

\* wait and waitMany(max): tryWait, and when it fails waitWithPartialSpinning.
Wait(t, max) ==
  /\ KCall(t, "light", "ready")
  /\ LET n == Least(count, max)
     IN  \/ n > 0 /\ count' = count - n /\ Given(t, n, "ready")
         \/ n <= 0 /\ GotoSet(t, "w_spin", max) /\ UNCHANGED <<count, has>>
  /\ UNCHANGED sema

\* A turn of the spinning loop that finds units.
SpinTake(t) ==
  /\ IsAt(t, "w_spin")
  /\ count > 0
  /\ count' = count - Least(count, arg[t])
  /\ Given(t, Least(count, arg[t]), "ready")
  /\ UNCHANGED <<sema, turns>>

\* The loop is over: m_count.fetch_sub(1).
SpinEnd(t) ==
  /\ IsAt(t, "w_spin")
  /\ count' = count - 1
  /\ Goto(t, IF count <= 0 THEN "w_sleep" ELSE "w_more")
  /\ UNCHANGED <<sema, arg, has, turns>>

\* m_sema.wait()
SemaWait(t) ==
  /\ IsAt(t, "w_sleep")
  /\ sema > 0
  /\ sema' = sema - 1
  /\ Goto(t, "w_more")
  /\ UNCHANGED <<count, arg, has, turns>>

\* waitManyWithPartialSpinning adds what tryWaitMany(max - 1) finds.
WaitMore(t) ==
  /\ IsAt(t, "w_more")
  /\ LET n == IF count > 0 THEN Least(count, arg[t] - 1) ELSE 0
     IN  count' = count - n /\ Given(t, n + 1, "ready")
  /\ UNCHANGED <<sema, turns>>

\* signal(n): m_count.fetch_add(n), and toRelease of them to m_sema.
Signal(t, n) ==
  /\ KCall(t, "light", "ready")
  /\ count' = count + n
  /\ LET toRelease == Least(-count, n)
     IN  IF toRelease > 0 THEN GotoSet(t, "s_post", toRelease)
                          ELSE UNCHANGED <<at, arg>>
  /\ UNCHANGED <<sema, has>>

\* Semaphore::signal(count) posts one by one.
SemaPost(t) ==
  /\ IsAt(t, "s_post")
  /\ sema' = sema + 1
  /\ GotoSet(t, IF arg[t] = 1 THEN "ready" ELSE "s_post", arg[t] - 1)
  /\ UNCHANGED <<count, has, turns>>

LightStep(t) ==
  /\ \/ \E n \in Counts : TryWait(t, n) \/ Wait(t, n) \/ Signal(t, n)
     \/ SpinTake(t) \/ SpinEnd(t) \/ SemaWait(t) \/ WaitMore(t) \/ SemaPost(t)
  /\ UNCHANGED <<fut, spinlock, tthread_num, asleep, signals>>

-----------------------------------------------------------------------------
(***************************************************************************)
(* The mutex of strategy.h without SPIN_LOCK_STYLE; me is null.            *)
(***************************************************************************)

\* pthread_mutex_lock, _trylock and _unlock begin with acquire_acess.
MutexCall(t) ==
  /\ \/ KCall(t, "queued", "ready") /\ (Goto(t, "l_spin") \/ Goto(t, "t_spin"))
     \/ KCall(t, "queued", "held") /\ Goto(t, "u_spin")
  /\ UNCHANGED <<count, fut, spinlock, tthread_num, asleep, has, signals>>

\* hspin_lock: xchg has found the lock free.
HspinLock(t) ==
  /\ \/ IsAt(t, "l_spin") /\ Goto(t, "l_in")
     \/ IsAt(t, "t_spin") /\ Goto(t, "t_in")
     \/ IsAt(t, "u_spin") /\ Goto(t, "u_in")
  /\ spinlock = 0
  /\ spinlock' = 1
  /\ UNCHANGED <<count, fut, tthread_num, asleep, has, turns, signals>>

\* hspin_unlock
HspinUnlock == spinlock' = 0

TakeMutex(t) ==
  /\ count' = 0
  /\ has' = [has EXCEPT ![t] = @ + 1]
  /\ Goto(t, "held")

\* pthread_mutex_lock: while (hm->c == 1)
LockIn(t) ==
  /\ IsAt(t, "l_in")
  /\ \/ count = 1 /\ TakeMutex(t) /\ UNCHANGED tthread_num
     \/ /\ count = 0
        /\ tthread_num' = tthread_num + 1
        /\ Goto(t, "l_fut")
        /\ UNCHANGED <<count, has>>
  /\ HspinUnlock
  /\ UNCHANGED <<fut, asleep, turns, signals>>

\* bin_sema.wait(): compare_and_swap(&fut, 1, 0), else FUTEX_WAIT.
BinWait(t) ==
  /\ IsAt(t, "l_fut")
  /\ fut' = 0
  /\ Goto(t, IF fut = 1 THEN "l_spin" ELSE "l_sleep")
  /\ UNCHANGED <<count, spinlock, tthread_num, asleep, has, turns, signals>>

BinSleep(t) ==
  /\ IsAt(t, "l_sleep")
  /\ IF fut = 0 THEN asleep' = asleep \cup {t} /\ UNCHANGED at
     ELSE Goto(t, "l_fut") /\ UNCHANGED asleep
  /\ UNCHANGED <<count, fut, spinlock, tthread_num, has, turns, signals>>

\* A signal ends the sleep (EINTR): exit(EXIT_FAILURE).
BinInterrupt(t) ==
  /\ t \in asleep /\ at[t] = "l_sleep"
  /\ signals > 0 /\ signals' = signals - 1
  /\ asleep' = asleep \ {t}
  /\ Goto(t, "exited")
  /\ UNCHANGED <<count, fut, spinlock, tthread_num, has, turns>>

TryIn(t) ==
  /\ IsAt(t, "t_in")
  /\ \/ count = 1 /\ TakeMutex(t)
     \/ count = 0 /\ Goto(t, "ready") /\ UNCHANGED <<count, has>>
  /\ HspinUnlock
  /\ UNCHANGED <<fut, tthread_num, asleep, turns, signals>>

\* pthread_mutex_unlock posts when a thread has been counted as waiting.
UnlockIn(t) ==
  /\ IsAt(t, "u_in")
  /\ count' = 1
  /\ tthread_num' = IF tthread_num > 0 THEN tthread_num - 1 ELSE 0
  /\ Goto(t, IF tthread_num > 0 THEN "u_post" ELSE "ready")
  /\ HspinUnlock
  /\ UNCHANGED <<fut, asleep, has, turns, signals>>

\* bin_sema.post(): compare_and_swap(&fut, 0, 1), then FUTEX_WAKE.
BinPost(t) ==
  /\ IsAt(t, "u_post")
  /\ fut' = 1
  /\ Goto(t, IF fut = 0 THEN "u_wake" ELSE "ready")
  /\ UNCHANGED <<count, spinlock, tthread_num, asleep, has, turns, signals>>

BinWake(t) ==
  /\ IsAt(t, "u_wake")
  /\ \/ \E s \in asleep :
          /\ asleep' = asleep \ {s}
          /\ at' = [at EXCEPT ![s] = "l_fut", ![t] = "ready"]
     \/ asleep = {} /\ Goto(t, "ready") /\ UNCHANGED asleep
  /\ UNCHANGED <<count, fut, spinlock, tthread_num, has, turns, signals>>

MutexStep(t) ==
  /\ \/ MutexCall(t) \/ HspinLock(t) \/ LockIn(t) \/ TryIn(t) \/ UnlockIn(t)
     \/ BinWait(t) \/ BinSleep(t) \/ BinInterrupt(t) \/ BinPost(t) \/ BinWake(t)
  /\ UNCHANGED <<sema, arg>>

-----------------------------------------------------------------------------

KStep(t) == (LightStep(t) \/ MutexStep(t)) /\ UNCHANGED kind

KNext == \E t \in Threads : KStep(t)

KSpec == KInit /\ [][KNext]_kvars

\* The scheduler of the kernel is fair.
KFairness == \A t \in Threads : WF_kvars(KStep(t))

-----------------------------------------------------------------------------
(***************************************************************************)
(* Properties.                                                             *)
(***************************************************************************)

\* The threads that have decremented the counter and have no unit yet.
Pending == {t \in Threads : at[t] \in {"w_sleep", "w_more"}}

Units == INSTANCE CountingSemaphore WITH
  Callers <- Threads, Units <- Start, taken <- has,
  avail <- count + Cardinality(Pending)

\* Each of the two is a counting semaphore: no unit is given to two threads,
\* whether it goes through the counter or through the kernel's semaphore; for the mutex
\* this is mutual exclusion.
KernelSemCounts == Units!Spec

\* No thread goes on sleeping in LightweightSemaphore::wait while a unit is
\* available: the counter and the kernel's semaphore never disagree for good
\* on who is to be woken.
LightServes ==
  <>[](kind = "light" =>
         \/ count + Cardinality(Pending) = 0
         \/ \A t \in Threads : at[t] = "ready")

=============================================================================
