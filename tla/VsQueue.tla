------------------------------ MODULE VsQueue ------------------------------
(***************************************************************************)
(* vs_queue, the run queue, as the Makefile builds it: the                 *)
(* BlockingConcurrentQueue of blockingconcurrentqueue.h over the           *)
(* ConcurrentQueue of concurrentqueue.h (BLOCKING_QUEUE), or that          *)
(* ConcurrentQueue alone, polled (LOCKFREE_QUEUE).  Kernel threads enqueue *)
(* runnable vthreads and dequeue them.                                     *)
(*                                                                         *)
(* Every thread enqueues into a producer of its own (module ProducerHash). *)
(* A producer keeps its elements in blocks of BlockSize, found through a   *)
(* block index: a ring of entries (first element's index, block) that is   *)
(* replaced by one twice as large when it is full.  The consumer that      *)
(* empties a block gives it back to the free list (module FreeList), from  *)
(* where any producer may take it.                                         *)
(*                                                                         *)
(* The library calls enqueue and get_wait.  enqueue_bulk puts several      *)
(* elements into a producer or none, and gives back the blocks it has got  *)
(* when it cannot have all; dequeue_bulk takes several.  A call for one    *)
(* element does the same steps, so both are modelled together.             *)
(*                                                                         *)
(* The semaphore of the blocking queue is the counting semaphore that      *)
(* module KernelSem shows LightweightSemaphore to be.                      *)
(***************************************************************************)
EXTENDS ProducerHash, SequencesExt

CONSTANTS
  Programs,          \* what the threads do: see Program
  BlockSize,         \* BLOCK_SIZE
  InitialIndexSize,  \* IMPLICIT_INITIAL_INDEX_SIZE
  PoolSize           \* initialBlockPoolSize

\* The build of the library, INITIAL_IMPLICIT_PRODUCER_HASH_SIZE, how often each
\* thread enqueues and dequeues, how many elements a call of enqueue_bulk puts
\* and one of wait_dequeue_bulk takes at most (one: enqueue and get_wait), and
\* how many allocations fail.
Program == [build : {"BLOCKING_QUEUE", "LOCKFREE_QUEUE"},
            size : {1, 2, 4, 8, 16, 32}, enq : [Threads -> Nat],
            deq : [Threads -> Nat], put : Nat \ {0}, take : Nat \ {0},
            fails : Nat]

ASSUME QueueAssumption ==
  /\ Programs \subseteq Program
  /\ BlockSize \in {2, 4, 8, 16, 32}
  /\ InitialIndexSize \in {2, 4, 8, 16, 32}
  /\ PoolSize \in Nat

VARIABLES
  program,  \* the program that runs
  prod,     \* the producers, by the thread that created them
  blocks,   \* the blocks: elements, and elementsCompletelyDequeued
  poolIndex,\* initialBlockPoolIndex
  free,     \* the blocks on freeList
  sema,     \* the units of the semaphore
  loc,      \* where each thread is, and its local variables
  puts,     \* how often each thread has called enqueue
  gets,     \* how often each thread has called get_wait
  hist,     \* what has been enqueued into each producer, in order
  out,      \* what get_wait has returned to each thread, in order
  released  \* the blocks and the elements the destructor has destroyed, in order

memory == <<blocks, poolIndex, free>>
calls == <<puts, gets, hist, out, released>>
vars == <<hashVars, program, prod, memory, sema, loc, calls>>

-----------------------------------------------------------------------------
(***************************************************************************)
(* The block index of a producer.  A header is a ring of entries; headers  *)
(* share entries with the ones they replace.  An entry is its position in  *)
(* the sequences key and value of the producer.                            *)
(***************************************************************************)

Invalid == -1  \* INVALID_BLOCK_BASE

\* new_block_index: the entries of the last header, oldest first, and as many
\* new ones.
NewBlockIndex(p) ==
  LET n == Len(p.key)
      old == Last(p.headers)
      ring == [i \in 1..n |-> old.index[((old.tail + i) % n) + 1]]
  IN  [p EXCEPT !.headers = Append(@, [index |-> ring \o [i \in 1..n |-> n + i],
                                       tail |-> n - 1]),
                !.key = @ \o [i \in 1..n |-> Invalid],
                !.value = @ \o [i \in 1..n |-> 0]]

\* The constructor of ImplicitProducer.
NewProducer ==
  [ tailIndex |-> 0, headIndex |-> 0, optimistic |-> 0, overcommit |-> 0,
    tailBlock |-> 0,
    headers |-> <<[index |-> [i \in 1..InitialIndexSize |-> i],
                   tail |-> InitialIndexSize - 1]>>,
    key |-> [i \in 1..InitialIndexSize |-> Invalid],
    value |-> [i \in 1..InitialIndexSize |-> 0] ]

\* The entry after the tail of the newest header.
NextTail(p) == (Last(p.headers).tail + 1) % Len(p.key)
NextEntry(p) == Last(p.headers).index[NextTail(p) + 1]

\* That entry holds no block.
IndexHasRoom(p) ==
  p.key[NextEntry(p)] = Invalid \/ p.value[NextEntry(p)] = 0

\* get_block_index_index_for_index, once header h and its tail are loaded: the
\* tail's key tells how far back the entry of the element is.
PosOf(p, h, tail, i) ==
  LET ring == p.headers[h].index
      base == i - (i % BlockSize)
      offset == (base - p.key[ring[tail + 1]]) \div BlockSize
  IN  (tail + offset) % Len(ring)

\* get_block_index_entry_for_index
EntryOf(p, i) ==
  LET h == Last(p.headers)
  IN  h.index[PosOf(p, Len(p.headers), h.tail, i) + 1]

-----------------------------------------------------------------------------

\* The locals of enqueue: the blocks it has got and how many of them it has taken
\* out of the index again; of get_wait: how many elements it is to get still; of
\* dequeue: how many it wants, or has claimed and not returned, and where.
Idle == [ pc |-> "ready", fresh |-> <<>>, undone |-> 0,
          left |-> 0, p |-> None, todo |-> <<>>, tail |-> 0, over |-> 0,
          count |-> 0, index |-> 0, header |-> 0, pos |-> 0, block |-> 0,
          items |-> <<>> ]

Init ==
  /\ program \in Programs
  /\ HashInit(program.size, program.fails)
  /\ prod = [t \in Threads |-> NewProducer]
  /\ blocks = [b \in 1..PoolSize |->
                 [el |-> [i \in 0..(BlockSize - 1) |-> None], done |-> 0]]
  /\ poolIndex = 0
  /\ free = {}
  /\ sema = 0
  /\ loc = [t \in Threads |-> Idle]
  /\ puts = [t \in Threads |-> 0]
  /\ gets = [t \in Threads |-> 0]
  /\ hist = [t \in Threads |-> <<>>]
  /\ out = [t \in Threads |-> <<>>]
  /\ released = [blocks |-> <<>>, items |-> [t \in Threads |-> <<>>]]

At(t, l) == loc[t].pc = l
Move(t, l) == loc' = [loc EXCEPT ![t].pc = l]

\* The n-th vthread that thread t enqueues, and those of its current call.
Item(t, n) == <<t, n>>
Batch(t) == [k \in 1..program.put |-> Item(t, (puts[t] - 1) * program.put + k)]

\* The block of a producer, counted from 0, that element i belongs to.
BlockNo(i) == i \div BlockSize

(***************************************************************************)
(* Faulty forms of steps below.                                            *)
(***************************************************************************)

\* The consumer of a block's last element gives the block back, though earlier
\* elements may still be being read.
EmptyAtLast(t) ==
  /\ At(t, "d_empty")
  /\ blocks' = [blocks EXCEPT ![loc[t].block].done = @ + Len(loc[t].items)]
  /\ IF (loc[t].index + Len(loc[t].items)) % BlockSize = 0
     THEN Move(t, "d_unlink") /\ UNCHANGED out
     ELSE /\ out' = [out EXCEPT ![t] = @ \o loc[t].items]
          /\ loc' = [loc EXCEPT ![t] = Idle]

\* A failed attempt is not recorded in dequeueOvercommit.
OvercommitNot(t) ==
  /\ At(t, "d_over")
  /\ UNCHANGED prod
  /\ Move(t, "d_next")

\* The entries of the blocks that are given back stay in the index.
UndoNot(t) ==
  /\ At(t, "e_undo")
  /\ Move(t, "e_free")
  /\ UNCHANGED prod

\* The semaphore is signalled though enqueue has failed.
SignalAlways(t) ==
  /\ hpc[t] = "failed"
  /\ hpc' = [hpc EXCEPT ![t] = "out"]
  /\ Move(t, "e_signal")

-----------------------------------------------------------------------------
(***************************************************************************)
(* enqueue: the thread finds its producer, then ImplicitProducer::enqueue. *)
(***************************************************************************)

Enqueue(t) ==
  /\ At(t, "ready")
  /\ puts[t] < program.enq[t]
  /\ puts' = [puts EXCEPT ![t] = @ + 1]
  /\ Lookup(t)
  /\ Move(t, "e_find")

FindProducer(t) ==
  /\ At(t, "e_find")
  /\ HashStep(t)
  /\ UNCHANGED loc

\* get_or_add_implicit_producer has returned nullptr: enqueue returns false.
NoProducer(t) ==
  /\ hpc[t] = "failed"
  /\ hpc' = [hpc EXCEPT ![t] = "out"]
  /\ Move(t, "ready")

\* How many new blocks the elements of the call need.
Needed(t) == BlockNo(prod[t].tailIndex + program.put - 1)
               - BlockNo(prod[t].tailIndex - 1)

Begin(t) ==
  /\ hpc[t] = "found"
  /\ hpc' = [hpc EXCEPT ![t] = "out"]
  /\ Move(t, IF Needed(t) > 0 THEN "e_index" ELSE "e_write")

\* The first element's index of the k-th of them.
NewBase(t, k) == (BlockNo(prod[t].tailIndex - 1) + k) * BlockSize

\* enqueue fails: enqueue_bulk has to give back the blocks it has got.
Fail(t) == Move(t, IF loc[t].fresh = <<>> THEN "ready" ELSE "e_undo")

\* insert_block_index_entry stores the key, in a larger index if this one is
\* full; when that cannot be allocated, enqueue fails.
InsertKey(t) ==
  /\ At(t, "e_index")
  /\ \/ /\ LET p == IF IndexHasRoom(prod[t]) THEN prod[t]
                    ELSE NewBlockIndex(prod[t])
           IN  prod' = [prod EXCEPT
                 ![t] = [p EXCEPT !.key[NextEntry(p)] =
                                    NewBase(t, Len(loc[t].fresh) + 1)]]
        /\ Move(t, "e_tail")
        /\ UNCHANGED fails
     \/ /\ ~IndexHasRoom(prod[t])
        /\ AllocationFails
        /\ Fail(t)
        /\ UNCHANGED prod

\* It stores the tail of the index.
InsertTail(t) ==
  /\ At(t, "e_tail")
  /\ prod' = [prod EXCEPT ![t].headers[Len(prod[t].headers)].tail =
                            NextTail(prod[t])]
  /\ Move(t, "e_block")

\* The entry at the tail of the newest header.
TailEntry(p) == Last(p.headers).index[Last(p.headers).tail + 1]

\* Block b, which reset_empty has cleared, is the value of the entry, and the
\* last of the new blocks.
Install(t, b) ==
  /\ prod' = [prod EXCEPT ![t].value[TailEntry(prod[t])] = b]
  /\ loc' = [loc EXCEPT
       ![t].fresh = Append(@, b),
       ![t].pc = IF Len(loc[t].fresh) + 1 = Needed(t) THEN "e_write"
                                                      ELSE "e_index"]

\* requisition_block: the initial pool, else the free list, else a new block.
\* That the pool has a block is loaded before its index is incremented; a thread
\* that finds it used up in between leaves it larger, which changes nothing.
Requisition(t) ==
  /\ At(t, "e_block")
  /\ \/ /\ poolIndex < PoolSize
        /\ poolIndex' = poolIndex + 1
        /\ blocks' = [blocks EXCEPT ![poolIndex + 1].done = 0]
        /\ Install(t, poolIndex + 1)
        /\ UNCHANGED free
     \/ /\ poolIndex >= PoolSize
        /\ \E b \in free :
             /\ free' = free \ {b}
             /\ blocks' = [blocks EXCEPT ![b].done = 0]
             /\ Install(t, b)
        /\ UNCHANGED poolIndex
     \/ /\ poolIndex >= PoolSize /\ free = {}
        /\ blocks' = Append(blocks,
             [el |-> [i \in 0..(BlockSize - 1) |-> None], done |-> 0])
        /\ Install(t, Len(blocks) + 1)
        /\ UNCHANGED <<poolIndex, free>>

\* rewind_block_index_tail, and the value of entry e is null again.
Rewind(t, e) ==
  prod' = [prod EXCEPT
    ![t].headers[Len(prod[t].headers)].tail = (@ - 1) % Len(prod[t].key),
    ![t].value[e] = 0]

\* No block can be had.
NoBlock(t) ==
  /\ At(t, "e_block")
  /\ poolIndex >= PoolSize /\ free = {}
  /\ AllocationFails
  /\ Rewind(t, TailEntry(prod[t]))
  /\ Fail(t)

\* enqueue_bulk takes its blocks out of the index, first to last ...
Undo(t) ==
  /\ At(t, "e_undo")
  /\ LET p == prod[t]
         k == loc[t].undone + 1
     IN  /\ Rewind(t, EntryOf(p, NewBase(t, k)))
         /\ loc' = [loc EXCEPT
              ![t].undone = k,
              ![t].pc = IF k = Len(loc[t].fresh) THEN "e_free" ELSE "e_undo"]

\* ... and puts them on the free list: add_blocks_to_free_list.
GiveBack(t) ==
  /\ At(t, "e_free")
  /\ free' = free \cup {Head(loc[t].fresh)}
  /\ loc' = [loc EXCEPT
       ![t] = IF Len(@.fresh) = 1 THEN Idle ELSE [@ EXCEPT !.fresh = Tail(@)]]

\* The elements are written to the tail block, while it has room, and then to
\* the new ones.
Write(t) ==
  /\ At(t, "e_write")
  /\ LET start == prod[t].tailIndex
         Target(i) == LET k == BlockNo(i) - BlockNo(start - 1)
                      IN  IF k = 0 THEN prod[t].tailBlock ELSE loc[t].fresh[k]
     IN  blocks' = [b \in DOMAIN blocks |->
           [blocks[b] EXCEPT !.el = [j \in DOMAIN @ |->
              LET new == {k \in 1..program.put :
                            /\ Target(start + k - 1) = b
                            /\ (start + k - 1) % BlockSize = j}
              IN  IF new = {} THEN @[j] ELSE Batch(t)[CHOOSE k \in new : TRUE]]]]
  /\ Move(t, "e_publish")

\* tailIndex.store(newTailIndex): the elements can be dequeued from here on.
Publish(t) ==
  /\ At(t, "e_publish")
  /\ prod' = [prod EXCEPT ![t].tailIndex = @ + program.put,
       ![t].tailBlock = IF loc[t].fresh = <<>> THEN @ ELSE Last(loc[t].fresh)]
  /\ hist' = [hist EXCEPT ![t] = @ \o Batch(t)]
  /\ loc' = [loc EXCEPT ![t] = [Idle EXCEPT !.pc = "e_signal"]]

\* BlockingConcurrentQueue::enqueue: sema->signal()
Signal(t) ==
  /\ At(t, "e_signal")
  /\ sema' = IF program.build = "BLOCKING_QUEUE" THEN sema + program.put ELSE sema
  /\ Move(t, "ready")

-----------------------------------------------------------------------------
(***************************************************************************)
(* get_wait: sema->wait() and try_dequeue until it succeeds.               *)
(***************************************************************************)

\* wait_dequeue_bulk takes more than one unit if it can, and goes through the
\* producers at once, newest first.
GetWait(t) ==
  /\ At(t, "ready")
  /\ gets[t] < program.deq[t]
  /\ \E n \in 1..program.take :
       /\ IF program.build = "BLOCKING_QUEUE" THEN sema >= n /\ sema' = sema - n
                                              ELSE UNCHANGED sema
       /\ loc' = [loc EXCEPT
            ![t] = [@ EXCEPT !.left = n,
                             !.pc = IF program.take = 1 THEN "d_scan" ELSE "d_next"]]
  /\ gets' = [gets EXCEPT ![t] = @ + 1]

\* try_dequeue looks for the fullest producer.  It reads their sizes at
\* different moments: any that is not empty may come out best.  When all look
\* empty it returns false, and is called again.
Scan(t) ==
  /\ At(t, "d_scan")
  /\ \E p \in ToSet(producers) :
       /\ prod[p].headIndex < prod[p].tailIndex
       /\ loc' = [loc EXCEPT ![t].pc = "d_read", ![t].p = p]

\* ImplicitProducer::dequeue: tailIndex and dequeueOvercommit are loaded.
Read(t) ==
  /\ At(t, "d_read")
  /\ LET p == prod[loc[t].p]
     IN  loc' = [loc EXCEPT ![t].pc = "d_check", ![t].tail = p.tailIndex,
                            ![t].over = p.overcommit]

\* How many elements the producer seems to have.
Check(t) ==
  /\ At(t, "d_check")
  /\ LET n == loc[t].tail - (prod[loc[t].p].optimistic - loc[t].over)
     IN  IF n > 0
         THEN loc' = [loc EXCEPT ![t].pc = "d_claim",
                                 ![t].count = Min({n, loc[t].left})]
         ELSE Move(t, "d_next")

\* myDequeueCount = dequeueOptimisticCount.fetch_add(desiredCount)
Claim(t) ==
  /\ At(t, "d_claim")
  /\ prod' = [prod EXCEPT ![loc[t].p].optimistic = @ + loc[t].count]
  /\ loc' = [loc EXCEPT ![t].pc = "d_head",
                        ![t].index = prod[loc[t].p].optimistic]

\* headIndex.fetch_add(n): the n elements from there on are the thread's.
TakeFrom(t, n) ==
  /\ prod' = [prod EXCEPT ![loc[t].p].headIndex = @ + n]
  /\ loc' = [loc EXCEPT ![t].pc = "d_header", ![t].index = prod[loc[t].p].headIndex,
                        ![t].tail = 0, ![t].over = 0, ![t].count = n]

\* tailIndex is loaded again.  If the count is in bounds still, there are as many
\* elements for this thread.
TakeHead(t) ==
  /\ At(t, "d_head")
  /\ LET n == prod[loc[t].p].tailIndex - (loc[t].index - loc[t].over)
     IN  \/ n >= loc[t].count /\ TakeFrom(t, loc[t].count)
         \/ n <= 0 /\ Move(t, "d_over") /\ UNCHANGED prod
         \/ /\ 0 < n /\ n < loc[t].count
            /\ prod' = [prod EXCEPT ![loc[t].p].overcommit = @ + loc[t].count - n]
            /\ loc' = [loc EXCEPT ![t].pc = "d_fewer", ![t].count = n]

\* dequeue_bulk has recorded that there are fewer than it wanted.
TakeFewer(t) == At(t, "d_fewer") /\ TakeFrom(t, loc[t].count)

Overcommit(t) ==
  /\ At(t, "d_over")
  /\ prod' = [prod EXCEPT ![loc[t].p].overcommit = @ + loc[t].count]
  /\ Move(t, "d_next")

\* dequeue has returned false, or too few: the other producers are tried in turn,
\* newest first, and after the last one all are once more.
NextProducer(t) ==
  /\ At(t, "d_next")
  /\ LET others == IF loc[t].todo = <<>>
                   THEN SelectSeq(Reverse(producers), LAMBDA p : p # loc[t].p)
                          \o <<None>>
                   ELSE loc[t].todo
         again == IF program.take = 1 THEN "d_scan" ELSE "d_next"
     IN  loc' = [loc EXCEPT ![t] =
           IF Head(others) = None THEN [Idle EXCEPT !.pc = again, !.left = loc[t].left]
           ELSE [Idle EXCEPT !.pc = "d_read", !.left = loc[t].left,
                             !.p = Head(others), !.todo = Tail(others)]]

\* get_block_index_index_for_index: blockIndex and its tail are loaded.
LoadHeader(t) ==
  /\ At(t, "d_header")
  /\ LET p == prod[loc[t].p]
     IN  loc' = [loc EXCEPT ![t].pc = "d_index", ![t].header = Len(p.headers),
                            ![t].tail = Last(p.headers).tail]

\* The entry at position i of the header.
EntryAt(t, i) == prod[loc[t].p].headers[loc[t].header].index[i + 1]

\* The block of the entry there is loaded.
LoadBlock(t, i) ==
  loc' = [loc EXCEPT ![t].pc = "d_item", ![t].tail = 0, ![t].pos = i,
                     ![t].block = prod[loc[t].p].value[EntryAt(t, i)]]

FindBlock(t) ==
  /\ At(t, "d_index")
  /\ LoadBlock(t, PosOf(prod[loc[t].p], loc[t].header, loc[t].tail, loc[t].index))

\* dequeue_bulk comes to the next block.
NextBlock(t) ==
  /\ At(t, "d_more")
  /\ LoadBlock(t, (loc[t].pos + 1)
                    % Len(prod[loc[t].p].headers[loc[t].header].index))

\* element = std::move(el), for each element the thread has in this block; a null
\* block would end the program here.
ReadItems(t) ==
  /\ At(t, "d_item")
  /\ LET b == loc[t].block
         i == loc[t].index
         n == Min({loc[t].count, BlockSize - (i % BlockSize)})
     IN  /\ b # 0
         /\ loc' = [loc EXCEPT ![t].pc = "d_empty",
              ![t].items = [k \in 1..n |-> blocks[b].el[(i + k - 1) % BlockSize]]]

\* The thread is done with the block: it goes on to the next entry, to the next
\* producer, or get_wait returns.
Leave(t) ==
  LET l == loc[t]
      n == Len(l.items)
  IN  /\ out' = [out EXCEPT ![t] = @ \o l.items]
      /\ loc' = [loc EXCEPT ![t] =
           IF n < l.count
           THEN [l EXCEPT !.pc = "d_more", !.left = @ - n, !.count = @ - n,
                          !.index = @ + n, !.block = 0, !.items = <<>>]
           ELSE IF n < l.left
           THEN [Idle EXCEPT !.pc = "d_next", !.left = l.left - n, !.p = l.p,
                             !.todo = l.todo]
           ELSE Idle]

\* set_empty: whoever counts the last element of the block gives it back.
SetEmpty(t) ==
  /\ At(t, "d_empty")
  /\ LET done == blocks[loc[t].block].done + Len(loc[t].items)
     IN  /\ blocks' = [blocks EXCEPT ![loc[t].block].done = done]
         /\ IF done = BlockSize THEN Move(t, "d_unlink") /\ UNCHANGED out
                                ELSE Leave(t)

\* entry->value.store(nullptr)
Unlink(t) ==
  /\ At(t, "d_unlink")
  /\ prod' = [prod EXCEPT ![loc[t].p].value[EntryAt(t, loc[t].pos)] = 0]
  /\ Move(t, "d_free")

\* add_block_to_free_list
FreeBlock(t) ==
  /\ At(t, "d_free")
  /\ free' = free \cup {loc[t].block}
  /\ Leave(t)

-----------------------------------------------------------------------------
(***************************************************************************)
(* The destructors, which assume that every call has returned.             *)
(***************************************************************************)

\* The block of element i, through the newest header.
BlockOf(p, i) == p.value[EntryOf(p, i)]

\* The blocks in which elements are left, first to last.
BlocksLeft(p) ==
  LET first == p.headIndex \div BlockSize
      n == IF p.headIndex = p.tailIndex THEN 0
           ELSE (p.tailIndex - 1) \div BlockSize - first + 1
  IN  [k \in 1..n |-> BlockOf(p, (first + k - 1) * BlockSize)]

\* A faulty form of the next definition: the tail block is given back only when
\* it is not full.
FreedUnforced(p) ==
  (IF BlocksLeft(p) = <<>> THEN <<>> ELSE Front(BlocksLeft(p)))
  \o (IF p.tailBlock # 0 /\ p.tailIndex % BlockSize # 0
      THEN <<p.tailBlock>> ELSE <<>>)

\* ~ImplicitProducer gives back each of these blocks as it comes to the next
\* one, so not the last.  That one is the tail block, which has to go as well,
\* unless it is full and was given back when its last element was dequeued.
FreedBy(p) ==
  (IF BlocksLeft(p) = <<>> THEN <<>> ELSE Front(BlocksLeft(p)))
  \o (IF /\ p.tailBlock # 0
         /\ p.headIndex # p.tailIndex \/ p.tailIndex % BlockSize # 0
      THEN <<p.tailBlock>> ELSE <<>>)

\* It destroys the elements that are left, where it finds them.
DroppedBy(p) ==
  [k \in 1..(p.tailIndex - p.headIndex) |->
     LET i == p.headIndex + k - 1
     IN  blocks[BlockOf(p, i)].el[i % BlockSize]]

\* ~ConcurrentQueue destroys the producers, newest first, the blocks on the free
\* list, and the initial pool.  The state it leaves is not used again.
Destroy ==
  /\ \A t \in Threads : At(t, "ready") /\ hpc[t] = "out"
  /\ LET list == FlattenSeq([k \in DOMAIN producers |->
                   FreedBy(prod[Reverse(producers)[k]])]) \o SetToSeq(free)
     IN  released' =
           [ blocks |-> SelectSeq(list, LAMBDA b : b > PoolSize)
                          \o [b \in 1..PoolSize |-> b],
             items |-> [t \in Threads |->
                          IF t \in ToSet(producers) THEN DroppedBy(prod[t])
                          ELSE <<>>] ]
  /\ loc' = [t \in Threads |-> [Idle EXCEPT !.pc = "gone"]]
  /\ UNCHANGED <<hashVars, program, prod, memory, sema, puts, gets, hist, out>>

-----------------------------------------------------------------------------

(***************************************************************************)
(* The steps, with what each group of them leaves alone.                   *)
(***************************************************************************)

EnqueueStep(t) ==
  /\ UNCHANGED <<program, gets, out, released>>
  /\ \/ Enqueue(t) /\ UNCHANGED <<prod, memory, sema, hist>>
     \/ FindProducer(t) /\ UNCHANGED <<prod, memory, sema, puts, hist>>
     \/ /\ UNCHANGED <<tableVars, fails, prod, memory, sema, puts, hist>>
        /\ NoProducer(t) \/ Begin(t)
     \/ /\ UNCHANGED <<tableVars, hpc, memory, sema, puts, hist>>
        /\ \/ InsertKey(t) \/ NoBlock(t)
           \/ UNCHANGED fails /\ (InsertTail(t) \/ Undo(t))
     \/ GiveBack(t) /\ UNCHANGED <<hashVars, prod, blocks, poolIndex, sema, puts, hist>>
     \/ Requisition(t) /\ UNCHANGED <<hashVars, sema, puts, hist>>
     \/ Write(t) /\ UNCHANGED <<hashVars, prod, poolIndex, free, sema, puts, hist>>
     \/ Publish(t) /\ UNCHANGED <<hashVars, memory, sema, puts>>
     \/ Signal(t) /\ UNCHANGED <<hashVars, prod, memory, puts, hist>>

DequeueStep(t) ==
  /\ UNCHANGED <<hashVars, program, poolIndex, puts, hist, released>>
  /\ \/ GetWait(t) /\ UNCHANGED <<prod, blocks, free, out>>
     \/ /\ UNCHANGED <<prod, blocks, free, sema, gets, out>>
        /\ \/ Scan(t) \/ Read(t) \/ Check(t) \/ NextProducer(t)
           \/ LoadHeader(t) \/ FindBlock(t) \/ NextBlock(t) \/ ReadItems(t)
     \/ /\ UNCHANGED <<blocks, free, sema, gets, out>>
        /\ Claim(t) \/ TakeHead(t) \/ TakeFewer(t) \/ Overcommit(t) \/ Unlink(t)
     \/ SetEmpty(t) /\ UNCHANGED <<prod, free, sema, gets>>
     \/ FreeBlock(t) /\ UNCHANGED <<prod, blocks, sema, gets>>

ThreadStep(t) == EnqueueStep(t) \/ DequeueStep(t)

Next == Destroy \/ \E t \in Threads : ThreadStep(t)

Spec == Init /\ [][Next]_vars

\* Kernel threads run on.
FairSpec == Spec /\ \A t \in Threads : WF_vars(ThreadStep(t))

-----------------------------------------------------------------------------
(***************************************************************************)
(* Properties.                                                             *)
(***************************************************************************)

\* What is in producer p and not claimed by a thread yet, in order.
Queued(p) == SubSeq(hist[p], prod[p].headIndex + 1, prod[p].tailIndex)

\* A thread that has claimed elements and not returned them yet.
Claimed(t) == loc[t].pc \in {"d_header", "d_index", "d_more", "d_item", "d_empty",
                             "d_unlink", "d_free"}

\* A thread that has called get_wait and is about to claim an element.
Searching(t) == loc[t].pc \in {"d_scan", "d_read", "d_check", "d_claim",
                               "d_head", "d_fewer", "d_over", "d_next"}

\* How many elements a thread has units for and has not claimed.
Due(t) == IF Claimed(t) THEN loc[t].left - loc[t].count ELSE loc[t].left

Queue == INSTANCE RunQueue WITH
  queue <- [p \in Threads |-> Queued(p)],
  held <- [t \in Threads |-> IF Claimed(t)
                             THEN SubSeq(hist[loc[t].p], loc[t].index + 1,
                                         loc[t].index + loc[t].count)
                             ELSE <<>>]

\* The queue is a queue: every thread gets each vthread that was enqueued at
\* most once, and those of one enqueuer in its order, though consumers find
\* their element through an index that grows and is rewritten meanwhile, in a
\* block that goes to another producer as soon as it is empty.
IsRunQueue == Queue!Spec

\* A thread that has taken a unit of the semaphore finds an element: the units,
\* those of threads that still search included, are never more than the elements
\* that are there.
UnitsHaveElements ==
  program.build = "BLOCKING_QUEUE" =>
    sema + MapThenSumSet(Due, Threads)
      <= MapThenSumSet(LAMBDA p : Len(Queued(p)), Threads)

\* A block has one place: the initial pool, an index entry of one producer, the
\* hands of the thread that frees it, or the free list.
BlockPlaces(b) ==
  (IF b \in (poolIndex + 1)..PoolSize THEN {"pool"} ELSE {})
  \cup (IF b \in free THEN {"free"} ELSE {})
  \cup UNION {{<<p, e>> : e \in {i \in DOMAIN prod[p].value : prod[p].value[i] = b}} :
               p \in Threads}
  \cup {t \in Threads : At(t, "d_free") /\ loc[t].block = b}
  \cup {t \in Threads : \/ At(t, "e_free") /\ b \in ToSet(loc[t].fresh)
                        \/ /\ At(t, "e_undo")
                           /\ b \in ToSet(SubSeq(loc[t].fresh, 1, loc[t].undone))}

BlocksInOnePlace ==
  \A b \in DOMAIN blocks : Cardinality(BlockPlaces(b)) = 1

\* The assertion of get_block_index_index_for_index: the entry a consumer has
\* computed from the tail is the one of its element, and holds a block.
IndexFinds ==
  \A t \in Threads : At(t, "d_item") =>
    /\ prod[loc[t].p].key[EntryAt(t, loc[t].pos)] =
         loc[t].index - (loc[t].index % BlockSize)
    /\ loc[t].block # 0

\* Consumers, producers and the free list agree on who has a block: it has one
\* place, and a consumer finds it there.
BlocksInv == BlocksInOnePlace /\ IndexFinds

\* The destructors free every block exactly once, and destroy exactly the
\* elements that are left: whether the last block is the free list's or the
\* producer's is told by the two indices alone, whatever calls have failed.
DestroyedOnce ==
  (\A t \in Threads : At(t, "gone")) =>
    /\ \A b \in DOMAIN blocks :
         Cardinality({i \in DOMAIN released.blocks : released.blocks[i] = b}) = 1
    /\ \A p \in Threads : released.items[p] = Queued(p)

\* No element stays in the queue while a thread searches for one: with the
\* attempts that fail, neither dequeueOptimisticCount nor dequeueOvercommit
\* drifts so that an element is never claimed.
ElementsFound ==
  []<>((\E t \in Threads : Searching(t)) =>
         \A p \in Threads : Queued(p) = <<>>)

=============================================================================
