------------------------------- MODULE Slots -------------------------------
(***************************************************************************)
(* How a vthread is created and what it runs on: pthread_create            *)
(* (strategy.h), vthreads::add_vthread (vthreads.cpp), vthread::init and   *)
(* the deletion of the stack in wake_up_joined (vthread.hpp), and the      *)
(* array vid_to_pvth the vthreads live in (hglobal.cpp).                   *)
(*                                                                         *)
(* A creation is named by the value of vid it took.  A vthread runs from   *)
(* its start to its end without leaving its worker: Scheduler is about     *)
(* what happens in between.  Heap blocks stand for stacks.                 *)
(*                                                                         *)
(* vs_queue has a bounded size here, as it has in the HLOCKFREEQUEUE build *)
(* (hlockfreequeue.hpp); in the other builds it has room for everything.   *)
(***************************************************************************)
EXTENDS Integers, FiniteSets

CONSTANTS
  Creators,     \* the threads that call pthread_create
  Workers,      \* the real threads
  MaxVThreads,  \* MAX_VTHREADS, the length of vid_to_pvth
  FirstVid,     \* the first value of vid, 15 in the code
  Width,        \* the bits of an unsigned int, which cur_vid is
  MaxCreates,   \* bound: the creations of a run
  MaxAlive,     \* how many vthreads the program has at a time
  NBlocks,      \* bound: the blocks of the heap
  QueueSize,    \* the size of vs_queue, 1 << 14 in the code
  None

ASSUME SlotsAssumption ==
  /\ MaxVThreads \in Nat \ {0}
  /\ FirstVid \in Nat
  /\ Width \in Nat
  /\ MaxCreates \in Nat
  /\ MaxAlive \in Nat
  /\ QueueSize \in Nat
  /\ NBlocks \in Nat /\ NBlocks >= MaxVThreads + MaxCreates

Slot == 0..(MaxVThreads - 1)
Creation == FirstVid..(FirstVid + MaxCreates - 1)
Blocks == 1..NBlocks

VARIABLES
  state,          \* of the process: "load", "run" or "fault"
  vid,            \* vthreads::vid
  queue,          \* vs_queue: how often each slot is in it
  sp,             \* vthread::sp, a block
  ctx,            \* vthread::ctx: the block the context is on
  start_routine,  \* vthread::start_routine and arg: whose they are
  heap,           \* the allocated blocks
  cpc,            \* where each creator is
  number,         \* the creation it is at
  cur_vid,        \* its local variable cur_vid
  wpc,            \* where each worker is
  pvth,           \* the slot it runs
  runs,           \* the creation whose routine it runs
  stack,          \* the block it runs on
  starts,         \* how often the routine of each creation has been started
  ended           \* the creations whose vthread has ended

creatorVars == <<cpc, number, cur_vid>>
workerVars == <<wpc, pvth, runs, stack, starts, ended>>
slotVars == <<state, vid, queue, sp, ctx, start_routine, heap, creatorVars,
          workerVars>>

SlotsTypeOK ==
  /\ state \in {"load", "run", "fault"}
  /\ vid \in FirstVid..(FirstVid + MaxCreates)
  /\ queue \in [Slot -> Nat]
  /\ sp \in [Slot -> Blocks \cup {None}]
  /\ ctx \in [Slot -> Blocks \cup {None}]
  /\ start_routine \in [Slot -> Creation \cup {None}]
  /\ heap \in SUBSET Blocks
  /\ cpc \in [Creators -> {"ready", "init", "make", "new", "enq"}]
  /\ number \in [Creators -> Creation \cup {None}]
  /\ cur_vid \in [Creators -> Slot]
  /\ wpc \in [Workers -> {"idle", "run", "end"}]
  /\ pvth \in [Workers -> Slot]
  /\ runs \in [Workers -> Creation \cup {None}]
  /\ stack \in [Workers -> Blocks \cup {None}]
  /\ starts \in [Creation -> Nat]
  /\ ended \in SUBSET Creation

SlotsInit ==
  /\ state = "load"
  /\ vid = FirstVid
  /\ queue = [s \in Slot |-> 0]
  /\ sp = [s \in Slot |-> None]
  /\ ctx = [s \in Slot |-> None]
  /\ start_routine = [s \in Slot |-> None]
  /\ heap = {}
  /\ cpc = [t \in Creators |-> "ready"]
  /\ number = [t \in Creators |-> None]
  /\ cur_vid = [t \in Creators |-> 0]
  /\ wpc = [w \in Workers |-> "idle"]
  /\ pvth = [w \in Workers |-> 0]
  /\ runs = [w \in Workers |-> None]
  /\ stack = [w \in Workers |-> None]
  /\ starts = [n \in Creation |-> 0]
  /\ ended = {}

\* The creations whose vthread has not ended.
Alive == (FirstVid..(vid - 1)) \ ended

\* What is in vs_queue, one pair for each time a slot is in it.
Queued == UNION {{s} \X (1..queue[s]) : s \in Slot}

\* m_q.push, of the lock-free queue of boost, succeeds while it is not full.
HasRoom == Cardinality(Queued) < QueueSize

-----------------------------------------------------------------------------
(***************************************************************************)
(* Faulty forms of steps below.                                            *)
(***************************************************************************)

\* The remainder is taken by the last index instead of the length.
SlotOffByOne(n) == (n % (2 ^ Width)) % (MaxVThreads - 1)

\* The vthread is left out of the queue.
EnqueueNot(t) ==
  /\ state = "run" /\ cpc[t] = "enq"
  /\ cpc' = [cpc EXCEPT ![t] = "ready"]
  /\ UNCHANGED <<state, vid, queue, sp, ctx, start_routine, heap, number,
                 cur_vid, workerVars>>

-----------------------------------------------------------------------------
(***************************************************************************)
(* Loading the library.  The constructor of every element of vid_to_pvth   *)
(* calls init, which makes a context on sp before it gives sp a value:     *)
(* what make_fcontext then writes to is undefined, and the process either  *)
(* stops there or goes on, its contexts worthless.                         *)
(***************************************************************************)

Construct ==
  /\ state = "load"
  /\ \/ state' = "fault" /\ UNCHANGED <<sp, heap>>
     \/ /\ state' = "run"
        /\ sp' = [s \in Slot |-> s + 1]
        /\ heap' = 1..MaxVThreads
  /\ UNCHANGED <<vid, queue, ctx, start_routine, creatorVars, workerVars>>

(***************************************************************************)
(* vthreads::add_vthread.                                                  *)
(***************************************************************************)

Creator(t, from, to) ==
  /\ state = "run"
  /\ cpc[t] = from
  /\ cpc' = [cpc EXCEPT ![t] = to]

\* The slot of creation n: vid is read as an unsigned int.
SlotOf(n) == (n % (2 ^ Width)) % MaxVThreads

\* vid is read and incremented in one step.
FetchVid(t) ==
  /\ vid < FirstVid + MaxCreates
  /\ Cardinality(Alive) < MaxAlive
  /\ Creator(t, "ready", "init")
  /\ number' = [number EXCEPT ![t] = vid]
  /\ cur_vid' = [cur_vid EXCEPT ![t] = SlotOf(vid)]
  /\ vid' = vid + 1
  /\ UNCHANGED <<state, queue, sp, ctx, start_routine, heap, workerVars>>

\* vthread::init up to the context: whatever is in the slot is overwritten.
InitFields(t) ==
  /\ Creator(t, "init", "make")
  /\ start_routine' = [start_routine EXCEPT ![cur_vid[t]] = number[t]]
  /\ UNCHANGED <<state, vid, queue, sp, ctx, heap, number, cur_vid, workerVars>>

\* make_fcontext, on the stack sp points to so far.
MakeContext(t) ==
  /\ Creator(t, "make", "new")
  /\ ctx' = [ctx EXCEPT ![cur_vid[t]] = sp[cur_vid[t]]]
  /\ UNCHANGED <<state, vid, queue, sp, start_routine, heap, number, cur_vid,
                 workerVars>>

\* The rest of init allocates a stack, which the next init of the slot uses.
NewStack(t) ==
  /\ Creator(t, "new", "enq")
  /\ \E b \in Blocks \ heap :
       /\ heap' = heap \cup {b}
       /\ sp' = [sp EXCEPT ![cur_vid[t]] = b]
  /\ UNCHANGED <<state, vid, queue, ctx, start_routine, number, cur_vid,
                 workerVars>>

\* hlockfreequeue::enqueue repeats the push until it succeeds.
Push(s) == HasRoom /\ queue' = [queue EXCEPT ![s] = @ + 1]

EnqueueNew(t) ==
  /\ Creator(t, "enq", "ready")
  /\ Push(cur_vid[t])
  /\ UNCHANGED <<state, vid, sp, ctx, start_routine, heap, number, cur_vid,
                 workerVars>>

Create(t) ==
  \/ FetchVid(t)
  \/ InitFields(t)
  \/ MakeContext(t)
  \/ NewStack(t)
  \/ EnqueueNew(t)

-----------------------------------------------------------------------------
(***************************************************************************)
(* A worker.                                                               *)
(***************************************************************************)

Worker(w, from, to) ==
  /\ state = "run"
  /\ wpc[w] = from
  /\ wpc' = [wpc EXCEPT ![w] = to]

\* hlockfreequeue::dequeue repeats the pop until there is a vthread.
Pop(s) == queue[s] > 0 /\ queue' = [queue EXCEPT ![s] = @ - 1]

\* get_and_work and the jump to the context: manage calls the routine.
StartRoutine(w) ==
  /\ Worker(w, "idle", "run")
  /\ \E s \in Slot :
       /\ Pop(s)
       /\ pvth' = [pvth EXCEPT ![w] = s]
       /\ runs' = [runs EXCEPT ![w] = start_routine[s]]
       /\ stack' = [stack EXCEPT ![w] = ctx[s]]
       /\ starts' = [starts EXCEPT ![start_routine[s]] = @ + 1]
  /\ UNCHANGED <<state, vid, sp, ctx, start_routine, heap, creatorVars, ended>>

\* The routine has returned, and wake_up_joined deletes the stack sp points to;
\* deleting a block that is not allocated ends the process.
DeleteStack(w) ==
  /\ Worker(w, "run", "end")
  /\ heap' = heap \ {sp[pvth[w]]}
  /\ state' = IF sp[pvth[w]] \in heap THEN state ELSE "fault"
  /\ UNCHANGED <<vid, queue, sp, ctx, start_routine, creatorVars, pvth, runs,
                 stack, starts, ended>>

\* wake_up_joined publishes STATUS_FINISHED.
Publish(w) ==
  /\ Worker(w, "end", "idle")
  /\ ended' = ended \cup {runs[w]}
  /\ UNCHANGED <<state, vid, queue, sp, ctx, start_routine, heap, creatorVars,
                 pvth, runs, stack, starts>>

Work(w) == StartRoutine(w) \/ DeleteStack(w) \/ Publish(w)

SlotsNext ==
  \/ Construct
  \/ \E t \in Creators : Create(t)
  \/ \E w \in Workers : Work(w)

SlotsSpec == SlotsInit /\ [][SlotsNext]_slotVars

\* A creator finishes the call it has begun; a worker goes on taking vthreads.
SlotsFairness ==
  /\ \A t \in Creators : WF_slotVars(Create(t) /\ cpc[t] # "ready")
  /\ \A w \in Workers : WF_slotVars(Work(w))

SlotsFairSpec == SlotsSpec /\ SlotsFairness

-----------------------------------------------------------------------------
(***************************************************************************)
(* Properties.                                                             *)
(***************************************************************************)

\* Two vthreads that have not ended have different slots, so pthread_join and
\* pthread_self tell them apart, however their creations are interleaved.
HandlesDistinct ==
  \A m, n \in Alive : m # n => SlotOf(m) # SlotOf(n)

\* A vthread runs on a stack that is allocated and on which no other runs:
\* the context make_fcontext built is on memory of its own until its routine
\* has returned.
OwnStack ==
  \A w \in Workers : wpc[w] = "run" =>
    /\ stack[w] \in heap
    /\ \A x \in Workers \ {w} : wpc[x] = "run" => stack[x] # stack[w]

\* The routine given to a pthread_create is started once: no slot is run with
\* the routine of another creation, and none is run twice.
StartedOnce == \A n \in Creation : starts[n] <= 1

\* A pthread_create never waits for room in vs_queue.  The workers enqueue as
\* well, and were all of them to wait in enqueue nobody would dequeue; it is
\* enough that the queue has room for all the vthreads there are, since a
\* vthread is in it once.
EnqueueFindsRoom == \A t \in Creators : cpc[t] = "enq" => HasRoom

\* Every vthread that is created is run to its end, unless the process stops
\* while it loads the library.
CreatedEnds == <>[](\A n \in Creation : n < vid => n \in ended)

\* What pthread_create promises for as many vthreads as there are slots: each has
\* a handle and a stack of its own and is started once, and the call does not
\* wait.
SlotsInv ==
  /\ SlotsTypeOK
  /\ HandlesDistinct
  /\ OwnStack
  /\ StartedOnce
  /\ EnqueueFindsRoom

=============================================================================
