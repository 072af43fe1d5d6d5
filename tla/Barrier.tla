------------------------------ MODULE Barrier ------------------------------
(***************************************************************************)
(* The two pthread_barrier_wait of strategy.h, running on the scheduler of *)
(* module Scheduler.  The Makefile chooses BLOCKED_BARRIER; the other is   *)
(* LOCKFREE_BARRIER.  Every actor passes the same barrier some number of   *)
(* times and then ends.                                                    *)
(*                                                                         *)
(* An arriving vthread reads cur_round and increments cur_waiters.  The    *)
(* last one resets cur_waiters and increments cur_round.  The others push  *)
(* themselves on the queue of their round's parity and block until the     *)
(* last one wakes them (BLOCKED_BARRIER), or look at cur_round again and   *)
(* again (LOCKFREE_BARRIER).                                               *)
(***************************************************************************)
EXTENDS Scheduler, Integers, Sequences, FiniteSets

CONSTANTS
  Setups,    \* the builds and programs that are looked at: see Setup
  MaxRounds  \* how many times an actor passes the barrier at most

\* The build of the library, the count given to pthread_barrier_init, and how
\* many times each actor passes the barrier.
Setup == [build : {"BLOCKED_BARRIER", "LOCKFREE_BARRIER"}, waiters : Nat \ {0},
          rounds : [Actors -> 0..MaxRounds]]

ASSUME BarrierAssumption ==
  /\ IsFiniteSet(Actors)
  /\ MaxRounds \in Nat
  /\ \A s \in Setups : s \in Setup

PCs ==
  { "ready",     \* in the program; the call reads cur_round
    "b_add",     \* increments cur_waiters
    "b_hide",    \* not the last: sets runnable
    "b_push",    \* pushes me
    "b_yield",   \* yields
    "b_blocked", \* has yielded
    "b_look",    \* not the last, LOCKFREE_BARRIER: looks at cur_round
    "b_cas",     \* the last: resets cur_waiters
    "b_inc",     \* increments cur_round
    "b_pop",     \* pops a waiter, or is done
    "b_enq",     \* enqueues the waiter
    "ended" }    \* the vthread has returned from start_routine

VARIABLES
  setup,        \* the build and the program that run
  cur_waiters,  \* hthread_barrier_t::cur_waiters
  cur_round,    \* hthread_barrier_t::cur_round
  blocked_vths, \* hthread_barrier_t::blocked_vths: two queues
  pc,           \* where each actor is
  round,        \* its local variable cur_round
  cur_waiter,   \* its local variable cur_waiter
  got,          \* its local variable blocked_v
  arrived,      \* how many times it has incremented cur_waiters
  left,         \* how many times it has returned from the call
  serials,      \* how often the call has returned SERIAL_THREAD
  misfired      \* the branch "should not run to here" has been taken

barrierVars == <<setup, cur_waiters, cur_round, blocked_vths, pc, round,
                 cur_waiter, got, arrived, left, serials, misfired>>
vars == <<schedVars, barrierVars>>

TypeOK ==
  /\ SchedTypeOK
  /\ setup \in Setups
  /\ cur_waiters \in Nat
  /\ cur_round \in Nat
  /\ blocked_vths \in [{0, 1} -> Seq(VThreads)]
  /\ pc \in [Actors -> PCs]
  /\ round \in [Actors -> Nat]
  /\ cur_waiter \in [Actors -> Nat]
  /\ got \in [Actors -> VThreads \cup {None}]
  /\ arrived \in [Actors -> 0..MaxRounds]
  /\ left \in [Actors -> 0..MaxRounds]
  /\ serials \in Nat
  /\ misfired \in BOOLEAN

\* pthread_barrier_init(barrier, attr, setup.waiters)
Init ==
  /\ SchedInit
  /\ setup \in Setups
  /\ cur_waiters = 0
  /\ cur_round = 0
  /\ blocked_vths = [i \in {0, 1} |-> <<>>]
  /\ pc = [a \in Actors |-> "ready"]
  /\ round = [a \in Actors |-> 0]
  /\ cur_waiter = [a \in Actors |-> 0]
  /\ got = [a \in Actors |-> None]
  /\ arrived = [a \in Actors |-> 0]
  /\ left = [a \in Actors |-> 0]
  /\ serials = 0
  /\ misfired = FALSE

-----------------------------------------------------------------------------

\* hthread_barrier_t::waiters
Count == setup.waiters

At(a, l) == pc[a] = l /\ Executing(a)

Move(a, l) == pc' = [pc EXCEPT ![a] = l]

\* Where an actor that is not the last goes on.
Waiting == IF setup.build = "BLOCKED_BARRIER" THEN "b_hide" ELSE "b_look"

(***************************************************************************)
(* Faulty forms of steps below.                                            *)
(***************************************************************************)

\* One queue for all rounds.
OneQueue(a) == 0

\* An arrival after which the last one is told by the test last.
Arrive(a, n, last) ==
  /\ At(a, "b_add")
  /\ cur_waiters' = n
  /\ cur_waiter' = [cur_waiter EXCEPT ![a] = n]
  /\ arrived' = [arrived EXCEPT ![a] = @ + 1]
  /\ Move(a, IF last THEN "b_cas" ELSE Waiting)
  /\ UNCHANGED <<schedVars, cur_round, blocked_vths, round, got, left,
                 serials, misfired>>

\* The last but one takes itself for the last, as the last does.
AddEarly(a) == Arrive(a, cur_waiters + 1, cur_waiters + 1 >= Count - 1)

\* A waiter goes into the queue while it looks runnable.
HideNot(a) ==
  /\ At(a, "b_hide")
  /\ Move(a, "b_push")
  /\ UNCHANGED <<schedVars, cur_waiters, cur_round, blocked_vths, round,
                 cur_waiter, got, arrived, left, serials, misfired>>

\* while ((cur_waiter--) > 0): one waiter too many is woken.
PopOneMore(a) ==
  /\ At(a, "b_pop")
  /\ cur_waiter[a] > 0
  /\ blocked_vths[round[a] % 2] # <<>>
  /\ got' = [got EXCEPT ![a] = Head(blocked_vths[round[a] % 2])]
  /\ blocked_vths' = [blocked_vths EXCEPT ![round[a] % 2] = Tail(@)]
  /\ cur_waiter' = [cur_waiter EXCEPT ![a] = @ - 1]
  /\ Move(a, "b_enq")
  /\ UNCHANGED <<schedVars, cur_waiters, cur_round, round, arrived, left,
                 serials, misfired>>

-----------------------------------------------------------------------------

\* The queue of the round the actor is in: blocked_vths[1&cur_round].
Parity(a) == round[a] % 2

\* The call returns; round and cur_waiter are dead from here on.
Leave(a) ==
  /\ left' = [left EXCEPT ![a] = @ + 1]
  /\ round' = [round EXCEPT ![a] = 0]
  /\ cur_waiter' = [cur_waiter EXCEPT ![a] = 0]
  /\ Move(a, "ready")

ReadRound(a) ==
  /\ At(a, "ready")
  /\ left[a] < setup.rounds[a]
  /\ round' = [round EXCEPT ![a] = cur_round]
  /\ Move(a, "b_add")
  /\ UNCHANGED <<schedVars, cur_waiters, cur_round, blocked_vths, cur_waiter,
                 got, arrived, left, serials, misfired>>

\* cur_waiter = __sync_add_and_fetch(&hb->cur_waiters, 1)
AddWaiter(a) ==
  /\ At(a, "b_add")
  /\ cur_waiters' = cur_waiters + 1
  /\ cur_waiter' = [cur_waiter EXCEPT ![a] = cur_waiters + 1]
  /\ arrived' = [arrived EXCEPT ![a] = @ + 1]
  /\ Move(a, IF cur_waiters + 1 # Count THEN Waiting ELSE "b_cas")
  /\ UNCHANGED <<schedVars, cur_round, blocked_vths, round, got, left,
                 serials, misfired>>

\* me->runnable = false; me is null for a raw thread.
Hide(a) ==
  /\ At(a, "b_hide")
  /\ \/ /\ a \in VThreads
        /\ runnable' = [runnable EXCEPT ![a] = FALSE]
        /\ Move(a, "b_push")
        /\ UNCHANGED fault
     \/ /\ a \in RawThreads
        /\ fault' = "nullptr"
        /\ UNCHANGED <<runnable, pc>>
  /\ UNCHANGED <<runq, cur_status, c, workerVars, cur_waiters, cur_round,
                 blocked_vths, round, cur_waiter, got, arrived, left, serials,
                 misfired>>

\* The queue has room for twice the count; push is retried while it is full.
Capacity == 2 * Count

Push(a) ==
  /\ At(a, "b_push")
  /\ Len(blocked_vths[Parity(a)]) < Capacity
  /\ blocked_vths' = [blocked_vths EXCEPT ![Parity(a)] = Append(@, a)]
  /\ Move(a, "b_yield")
  /\ UNCHANGED <<schedVars, cur_waiters, cur_round, round, cur_waiter, got,
                 arrived, left, serials, misfired>>

Block(a) ==
  /\ At(a, "b_yield")
  /\ YieldMyself(a, "BLOCKED")
  /\ Move(a, "b_blocked")
  /\ UNCHANGED <<runq, runnable, cur_status, c, cur_waiters, cur_round,
                 blocked_vths, round, cur_waiter, got, arrived, left, serials,
                 misfired>>

\* Resumed: return 0.
Released(a) ==
  /\ At(a, "b_blocked")
  /\ Leave(a)
  /\ UNCHANGED <<schedVars, cur_waiters, cur_round, blocked_vths, got, arrived,
                 serials, misfired>>

(***************************************************************************)
(* A waiter of LOCKFREE_BARRIER looks at cur_round.                        *)
(***************************************************************************)

\* It is the waiter's round still: me->yield_myself().
LookAgain(a) ==
  /\ At(a, "b_look")
  /\ cur_round = round[a]
  /\ YieldMyself(a, "SUSPENDED")
  /\ UNCHANGED <<runq, runnable, cur_status, c, barrierVars>>

\* It is the next round: return 0.  Any other round "should not run to here",
\* and is printed for ever.
LookReleased(a) ==
  /\ At(a, "b_look")
  /\ cur_round # round[a]
  /\ IF cur_round = round[a] + 1
     THEN Leave(a) /\ UNCHANGED misfired
     ELSE misfired' = TRUE /\ UNCHANGED <<pc, round, cur_waiter, left>>
  /\ UNCHANGED <<schedVars, cur_waiters, cur_round, blocked_vths, got, arrived,
                 serials>>

\* __sync_bool_compare_and_swap(&hb->cur_waiters, cur_waiter, 0); when it fails
\* the code prints "should not run to here" and goes on.
ResetWaiters(a) ==
  /\ At(a, "b_cas")
  /\ \/ cur_waiters = cur_waiter[a] /\ cur_waiters' = 0 /\ UNCHANGED misfired
     \/ cur_waiters # cur_waiter[a] /\ misfired' = TRUE /\ UNCHANGED cur_waiters
  /\ Move(a, "b_inc")
  /\ UNCHANGED <<schedVars, cur_round, blocked_vths, round, cur_waiter, got,
                 arrived, left, serials>>

NextRound(a) ==
  /\ At(a, "b_inc")
  /\ cur_round' = cur_round + 1
  /\ Move(a, "b_pop")
  /\ UNCHANGED <<schedVars, cur_waiters, blocked_vths, round, cur_waiter, got,
                 arrived, left, serials, misfired>>

\* The condition of while ((--cur_waiter) > 0), a loop of BLOCKED_BARRIER.
Waking(a) == setup.build = "BLOCKED_BARRIER" /\ cur_waiter[a] > 1

\* One turn of the loop that finds a waiter in the queue.
PopWaiter(a) ==
  /\ At(a, "b_pop")
  /\ Waking(a)
  /\ blocked_vths[Parity(a)] # <<>>
  /\ got' = [got EXCEPT ![a] = Head(blocked_vths[Parity(a)])]
  /\ blocked_vths' = [blocked_vths EXCEPT ![Parity(a)] = Tail(@)]
  /\ cur_waiter' = [cur_waiter EXCEPT ![a] = @ - 1]
  /\ Move(a, "b_enq")
  /\ UNCHANGED <<schedVars, cur_waiters, cur_round, round, arrived, left,
                 serials, misfired>>

\* The waiter has not pushed itself yet: me->yield_myself(), then pop again.
PopEmpty(a) ==
  /\ At(a, "b_pop")
  /\ Waking(a)
  /\ blocked_vths[Parity(a)] = <<>>
  /\ YieldMyself(a, "SUSPENDED")
  /\ UNCHANGED <<runq, runnable, cur_status, c, barrierVars>>

EnqueueWaiter(a) ==
  /\ At(a, "b_enq")
  /\ Enqueue(got[a])
  /\ got' = [got EXCEPT ![a] = None]
  /\ Move(a, "b_pop")
  /\ UNCHANGED <<runnable, cur_status, c, workerVars, fault, cur_waiters,
                 cur_round, blocked_vths, round, cur_waiter, arrived, left,
                 serials, misfired>>

\* All are woken: return PTHREAD_BARRIER_SERIAL_THREAD.
ReturnSerial(a) ==
  /\ At(a, "b_pop")
  /\ ~Waking(a)
  /\ serials' = serials + 1
  /\ Leave(a)
  /\ UNCHANGED <<schedVars, cur_waiters, cur_round, blocked_vths, got, arrived,
                 misfired>>

\* vthread::manage: start_routine returns, yield_myself(STATUS_FINISHED).
End(a) ==
  /\ a \in VThreads
  /\ At(a, "ready")
  /\ left[a] = setup.rounds[a]
  /\ YieldMyself(a, "FINISHED")
  /\ Move(a, "ended")
  /\ UNCHANGED <<runq, runnable, cur_status, c, cur_waiters, cur_round,
                 blocked_vths, round, cur_waiter, got, arrived, left, serials,
                 misfired>>

-----------------------------------------------------------------------------

ActorStep(a) ==
  /\ UNCHANGED setup
  /\ \/ ReadRound(a)
     \/ AddWaiter(a)
     \/ Hide(a)
     \/ Push(a)
     \/ Block(a)
     \/ Released(a)
     \/ LookAgain(a)
     \/ LookReleased(a)
     \/ ResetWaiters(a)
     \/ NextRound(a)
     \/ PopWaiter(a)
     \/ PopEmpty(a)
     \/ EnqueueWaiter(a)
     \/ ReturnSerial(a)
     \/ End(a)

\* One step of the real thread w in worker_routine.
Work(w) == WorkerStep(w) /\ UNCHANGED barrierVars

Next ==
  \/ \E a \in Actors : ActorStep(a)
  \/ \E w \in Workers : Work(w)

Spec == Init /\ [][Next]_vars

\* As in MutexCond: the real threads run on.  Nothing is said of the order in which
\* vthreads come out of vs_queue.
Fairness ==
  /\ \A a \in Actors : WF_vars(ActorStep(a))
  /\ \A w \in Workers : WF_vars(Work(w))

FairSpec == Spec /\ Fairness

-----------------------------------------------------------------------------
(***************************************************************************)
(* Properties.                                                             *)
(***************************************************************************)

\* Those who use the barrier.
Parties == {a \in Actors : setup.rounds[a] > 0}

\* The barrier is used by as many as it counts, equally often.
Matched ==
  /\ Cardinality(Parties) = Count
  /\ \A a, b \in Parties : setup.rounds[a] = setup.rounds[b]

\* Nobody returns from its n-th pthread_barrier_wait before everybody has
\* arrived in its n-th: a fast vthread that comes back for the next round
\* neither counts for the old one nor is woken by its last arriver.
BarrierSync == Matched => \A a, b \in Parties : left[a] <= arrived[b]

\* Exactly one caller of each round gets PTHREAD_BARRIER_SERIAL_THREAD.
OneSerialPerRound ==
  Matched =>
    /\ \A a \in Parties : serials <= arrived[a]
    /\ \A n \in 0..MaxRounds : (\A a \in Parties : left[a] = n) => serials = n

\* The sum of f[a] over the actors: how many times they did together what f[a]
\* says a did.
Times(f) == Cardinality(UNION {{a} \X (1..f[a]) : a \in Actors})

\* However many actors share the barrier of BLOCKED_BARRIER, they leave it in
\* groups of Count: no more return than the completed rounds admit, and a round
\* is completed only by Count arrivals of its own.
GroupRelease ==
  setup.build = "BLOCKED_BARRIER" =>
    /\ Times(left) <= Count * cur_round
    /\ Count * cur_round <= Times(arrived)

\* The last arriver always finds cur_waiters as it left it, and a waiter that
\* looks at cur_round never finds it more than one round ahead of its own.
NeverMisfires == Matched => ~misfired

\* Neither queue ever holds more than the other callers of one round, so that
\* the retry loop around push, which keeps its worker, never turns.
QueuesBounded == Matched => \A i \in {0, 1} : Len(blocked_vths[i]) < Count

\* No worker jumps to a context that does not hold a suspended vthread: a
\* waiter that has pushed itself but not yielded yet is put back.
JumpsToContextData == fault # "stale_context"

\* The assertion of the source, "should not run to here", for every use of the
\* barrier: cur_waiters is as the last arriver left it.
NeverReached == ~misfired

\* When the barrier of BLOCKED_BARRIER is used by as many vthreads as it counts,
\* every one of them gets through all its rounds and ends, whatever the order in
\* which vs_queue gives them out: nobody keeps coming back to it while another has
\* not arrived.  A waiter of LOCKFREE_BARRIER does keep coming back.
AllPass ==
  <>(setup.build = "BLOCKED_BARRIER" /\ Matched /\ Parties \subseteq VThreads
       => \A v \in VThreads : pc[v] = "ended")

\* What the steps of the barrier rely on: its counters are as their last writer
\* left them, its queues have room, and a waiter is resumed only when it has
\* yielded.
BarrierInv ==
  /\ TypeOK
  /\ NeverMisfires
  /\ QueuesBounded
  /\ JumpsToContextData

=============================================================================
