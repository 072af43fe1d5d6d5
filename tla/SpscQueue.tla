----------------------------- MODULE SpscQueue -----------------------------
(***************************************************************************)
(* ReaderWriterQueue and BlockingReaderWriterQueue of readerwriterqueue.h, *)
(* the queue between one producer and one consumer, with the semaphore of  *)
(* atomicops.h that the blocking one adds.                                 *)
(*                                                                         *)
(* The queue is a ring of blocks, and each block a ring of slots.  The     *)
(* producer owns the tails, the consumer the fronts; each keeps in the     *)
(* block a copy of the other's index and looks at the real one only when   *)
(* the copy says there is no room, or nothing.  One step is one access to  *)
(* what the other thread writes, with the accesses to the thread's own     *)
(* fields before the next such one; the fences keep them in that order.    *)
(***************************************************************************)
EXTENDS Integers, Sequences

CONSTANTS
  Programs,  \* how the queue is made: see Program
  MaxPuts,   \* how many calls the producer makes
  MaxTakes   \* how many calls the consumer makes

\* A queue with the blocking operations or without, the argument maxSize of its
\* constructor, its MAX_BLOCK_SIZE, and how many times malloc succeeds once it
\* is constructed.
Program == [blocking : BOOLEAN, maxSize : Nat \ {0},
            maxBlock : {2, 4, 8, 16, 32, 64, 128, 256, 512}, mallocs : Nat]

ASSUME SpscAssumption ==
  /\ \A g \in Programs : g \in Program
  /\ MaxPuts \in Nat
  /\ MaxTakes \in Nat

VARIABLES
  prog,        \* the program
  blocks,      \* the blocks, in the order they were allocated
  frontBlock,
  tailBlock,
  largestBlockSize,
  mallocs,     \* how many more allocations succeed
  m_count,     \* the counter of the semaphore
  m_sema,      \* and its kernel semaphore
  p,           \* the producer
  c,           \* the consumer
  out          \* the elements the consumer has removed

vars == <<prog, blocks, frontBlock, tailBlock, largestBlockSize, mallocs, m_count,
          m_sema, p, c, out>>
ring == <<blocks, frontBlock, tailBlock, largestBlockSize, mallocs>>
semaphore == <<m_count, m_sema>>

Empty == 0

\* A new Block.
MakeBlock(capacity) ==
  [front |-> 0, localTail |-> 0, tail |-> 0, localFront |-> 0, next |-> 0,
   size |-> capacity, data |-> [i \in 0..capacity - 1 |-> Empty]]

CeilToPow2(x) == 2 ^ (CHOOSE k \in 0..x : 2^k >= x /\ \A j \in 0..k - 1 : 2^j < x)

\* A fact about powers of 2 that no prover here has arithmetic for.
ASSUME CeilAssumption ==
  \A g \in Programs :
    CeilToPow2(g.maxSize + 1) \in Nat /\ CeilToPow2(g.maxSize + 1) > g.maxSize

\* A faulty form of the next: the spare block is left out.
NoSpareBlock(g) == (g.maxSize + g.maxBlock - 2) \div (g.maxBlock - 1)

\* (maxSize + MAX_BLOCK_SIZE * 2 - 3) / (MAX_BLOCK_SIZE - 1)
InitialBlockCount(g) == (g.maxSize + g.maxBlock * 2 - 3) \div (g.maxBlock - 1)

\* The constructor: one block, or a ring of blocks of MAX_BLOCK_SIZE each.
Construct(g) ==
  LET wanted == CeilToPow2(g.maxSize + 1)
      many   == wanted > g.maxBlock * 2
      n      == IF many THEN InitialBlockCount(g) ELSE 1
      size   == IF many THEN g.maxBlock ELSE wanted
  IN  /\ blocks = [i \in 1..n |-> [MakeBlock(size) EXCEPT !.next = (i % n) + 1]]
      /\ largestBlockSize = size

Init ==
  /\ prog \in Programs
  /\ Construct(prog)
  /\ frontBlock = 1
  /\ tailBlock = 1
  /\ mallocs = prog.mallocs
  /\ m_count = 0
  /\ m_sema = 0
  /\ p = [at |-> "ready", canAlloc |-> FALSE, sent |-> 0, seen |-> 0, left |-> MaxPuts]
  /\ c = [at |-> "ready", op |-> "none", next |-> 0, val |-> Empty, seen |-> 0,
          left |-> MaxTakes]
  /\ out = <<>>

-----------------------------------------------------------------------------
\* The index after i in block b.
After(b, i) == (i + 1) % blocks[b].size

\* The elements that were put in and not taken out: the n-th one is n.  An element
\* the consumer has read is out, though front is not advanced yet.
Contents == [i \in 1..(p.sent - Len(out)) |-> Len(out) + i]

\* How many slots are taken.
Filled == Len(Contents) + IF c.at = "front" THEN 1 ELSE 0

-----------------------------------------------------------------------------

PGoto(l) == p' = [p EXCEPT !.at = l]
CGoto(l) == c' = [c EXCEPT !.at = l]

\* The element is in the queue: enqueue returns true, and the blocking one
\* calls sema.signal().
Published == p' = [p EXCEPT !.at = IF prog.blocking THEN "signal" ELSE "ready",
                            !.sent = @ + 1]

\* The element the producer enqueues.
Element == p.sent + 1

(***************************************************************************)
(* Faulty forms of steps below.                                            *)
(***************************************************************************)

\* The tail block is compared before the front block is looked at again, and
\* the second look is left out.
LookAtTailBlockOnce ==
  /\ c.at = "block"
  /\ IF frontBlock = tailBlock
     THEN CGoto("empty")
     ELSE c' = [c EXCEPT !.at = "next", !.next = blocks[frontBlock].next]
  /\ UNCHANGED <<prog, ring, semaphore, p, out>>

\* The real tail is not looked at.
LookAtCopy ==
  /\ c.at = "look"
  /\ LET B == blocks[frontBlock]
     IN  c' = [c EXCEPT !.at = IF B.front # B.localTail THEN "element" ELSE "block",
                        !.seen = Len(Contents)]
  /\ UNCHANGED <<prog, ring, semaphore, p, out>>

\* Only the front block is cleared.
DestroyFront ==
  /\ p.at = "ready" /\ c.at = "ready"
  /\ blocks' = [blocks EXCEPT ![frontBlock].data = [i \in DOMAIN @ |-> Empty]]
  /\ PGoto("gone")
  /\ CGoto("gone")
  /\ UNCHANGED <<prog, frontBlock, tailBlock, largestBlockSize, mallocs, semaphore, out>>

\* A consumer that has just gone to sleep is not counted.
SignalLate ==
  /\ p.at = "signal"
  /\ m_count' = m_count + 1
  /\ PGoto(IF m_count + 1 < 0 THEN "post" ELSE "ready")
  /\ UNCHANGED <<prog, ring, m_sema, c, out>>

-----------------------------------------------------------------------------
(***************************************************************************)
(* inner_enqueue                                                           *)
(***************************************************************************)

\* The front of the tail block that the producer goes by: the copy, or the real
\* one when the copy leaves no room.
FrontSeen ==
  LET B == blocks[tailBlock]
  IN  IF After(tailBlock, B.tail) # B.localFront THEN B.localFront ELSE B.front

\* try_enqueue, with CannotAlloc, and enqueue, with CanAlloc: is there room in
\* the tail block?
Enqueue(canAlloc) ==
  /\ p.at = "ready" /\ p.left > 0
  /\ LET room == After(tailBlock, blocks[tailBlock].tail) # FrontSeen
     IN  p' = [p EXCEPT !.at = IF room THEN "write" ELSE "next", !.canAlloc = canAlloc,
                        !.seen = Filled, !.left = @ - 1]
  /\ blocks' = [blocks EXCEPT ![tailBlock].localFront = FrontSeen]
  /\ UNCHANGED <<prog, frontBlock, tailBlock, largestBlockSize, mallocs, semaphore,
                 c, out>>

\* new (location) T(element)
Write ==
  /\ p.at = "write"
  /\ blocks' = [blocks EXCEPT ![tailBlock].data[blocks[tailBlock].tail] = Element]
  /\ PGoto("tail")
  /\ UNCHANGED <<prog, frontBlock, tailBlock, largestBlockSize, mallocs, semaphore,
                 c, out>>

\* tailBlock_->tail = nextBlockTail
StoreTail ==
  /\ p.at = "tail"
  /\ blocks' = [blocks EXCEPT ![tailBlock].tail = After(tailBlock, @)]
  /\ Published
  /\ UNCHANGED <<prog, frontBlock, tailBlock, largestBlockSize, mallocs, semaphore,
                 c, out>>

\* tailBlock_->next.load() != frontBlock
NextBlock ==
  /\ p.at = "next"
  /\ PGoto(IF blocks[tailBlock].next # frontBlock THEN "reuse"
           ELSE IF p.canAlloc THEN "alloc" ELSE "full")
  /\ UNCHANGED <<prog, ring, semaphore, c, out>>

\* The free block ahead is filled, before anybody looks for it.
Reuse ==
  /\ p.at = "reuse"
  /\ LET n == blocks[tailBlock].next
         B == blocks[n]
     IN  blocks' = [blocks EXCEPT ![n] =
           [B EXCEPT !.localFront = B.front, !.data[B.tail] = Element,
                     !.tail = After(n, B.tail)]]
  /\ PGoto("advance")
  /\ UNCHANGED <<prog, frontBlock, tailBlock, largestBlockSize, mallocs, semaphore,
                 c, out>>

\* make_block: the new block holds the element and leads on to the next one.
Alloc ==
  /\ p.at = "alloc"
  /\ mallocs > 0 /\ mallocs' = mallocs - 1
  /\ LET size == largestBlockSize * IF largestBlockSize >= prog.maxBlock THEN 1 ELSE 2
     IN  /\ largestBlockSize' = size
         /\ blocks' = Append(blocks,
              [MakeBlock(size) EXCEPT !.data[0] = Element, !.tail = 1,
                 !.localTail = 1, !.next = blocks[tailBlock].next])
  /\ PGoto("link")
  /\ UNCHANGED <<prog, frontBlock, tailBlock, semaphore, c, out>>

\* make_block fails: enqueue returns false.
AllocFails ==
  /\ p.at = "alloc"
  /\ mallocs = 0
  /\ PGoto("ready")
  /\ UNCHANGED <<prog, ring, semaphore, c, out>>

\* tailBlock_->next = newBlock
Link ==
  /\ p.at = "link"
  /\ blocks' = [blocks EXCEPT ![tailBlock].next = Len(blocks)]
  /\ PGoto("advance")
  /\ UNCHANGED <<prog, frontBlock, tailBlock, largestBlockSize, mallocs, semaphore,
                 c, out>>

\* tailBlock = tailBlockNext, or newBlock
Advance ==
  /\ p.at = "advance"
  /\ tailBlock' = blocks[tailBlock].next
  /\ Published
  /\ UNCHANGED <<prog, blocks, frontBlock, largestBlockSize, mallocs, semaphore,
                 c, out>>

\* try_enqueue returns false.
Full ==
  /\ p.at = "full"
  /\ PGoto("ready")
  /\ UNCHANGED <<prog, ring, semaphore, c, out>>

(***************************************************************************)
(* try_dequeue, pop and peek                                               *)
(***************************************************************************)

Ops == {"try_dequeue", "pop", "peek"}

\* A thread calls an operation of the queue without a semaphore; peek of the
\* blocking one is the same.
Call(op) ==
  /\ c.at = "ready" /\ c.left > 0
  /\ ~prog.blocking \/ op = "peek"
  /\ c' = [c EXCEPT !.at = "look", !.op = op, !.left = @ - 1]
  /\ UNCHANGED <<prog, ring, semaphore, p, out>>

\* The tail of the front block that the consumer goes by: the copy, or the real
\* one when the copy leaves no element.
TailSeen ==
  LET B == blocks[frontBlock]
  IN  IF B.front # B.localTail THEN B.localTail ELSE B.tail

\* Is there an element in the front block?
Look ==
  /\ c.at = "look"
  /\ LET any == blocks[frontBlock].front # TailSeen
     IN  c' = [c EXCEPT !.at = IF any THEN "element" ELSE "block", !.seen = Len(Contents)]
  /\ blocks' = [blocks EXCEPT ![frontBlock].localTail = TailSeen]
  /\ UNCHANGED <<prog, frontBlock, tailBlock, largestBlockSize, mallocs, semaphore,
                 p, out>>

\* frontBlock_ != tailBlock.load()
LookAtTailBlock ==
  /\ c.at = "block"
  /\ CGoto(IF frontBlock = tailBlock THEN "empty" ELSE "again")
  /\ UNCHANGED <<prog, ring, semaphore, p, out>>

\* The producer may have filled the front block before it moved on.
LookAgain ==
  /\ c.at = "again"
  /\ LET B == blocks[frontBlock]
     IN  /\ c' = IF B.front # B.tail THEN [c EXCEPT !.at = "element"]
                 ELSE [c EXCEPT !.at = "next", !.next = B.next]
         /\ blocks' = [blocks EXCEPT ![frontBlock].localTail = B.tail]
  /\ UNCHANGED <<prog, frontBlock, tailBlock, largestBlockSize, mallocs, semaphore,
                 p, out>>

\* nextBlock->localTail = nextBlock->tail.load(); peek only looks at its front.
LookAtNext ==
  /\ c.at = "next"
  /\ IF c.op = "peek"
     THEN /\ c' = [c EXCEPT !.at = "peeked",
                            !.val = blocks[c.next].data[blocks[c.next].front]]
          /\ UNCHANGED blocks
     ELSE /\ CGoto("forward")
          /\ blocks' = [blocks EXCEPT ![c.next].localTail = blocks[c.next].tail]
  /\ UNCHANGED <<prog, frontBlock, tailBlock, largestBlockSize, mallocs, semaphore,
                 p, out>>

\* frontBlock = frontBlock_ = nextBlock: the producer may use the old one.
Forward ==
  /\ c.at = "forward"
  /\ frontBlock' = c.next
  /\ CGoto("element")
  /\ UNCHANGED <<prog, blocks, tailBlock, largestBlockSize, mallocs, semaphore, p, out>>

\* The element at the front is read, and but for peek it is destroyed.
ReadElement ==
  /\ c.at = "element"
  /\ LET f == blocks[frontBlock].front
         e == blocks[frontBlock].data[f]
     IN  IF c.op = "peek"
         THEN c' = [c EXCEPT !.at = "peeked", !.val = e] /\ UNCHANGED <<blocks, out>>
         ELSE /\ CGoto("front")
              /\ blocks' = [blocks EXCEPT ![frontBlock].data[f] = Empty]
              /\ out' = Append(out, e)
  /\ UNCHANGED <<prog, frontBlock, tailBlock, largestBlockSize, mallocs, semaphore, p>>

\* frontBlock_->front = blockFront
StoreFront ==
  /\ c.at = "front"
  /\ blocks' = [blocks EXCEPT ![frontBlock].front = After(frontBlock, @)]
  /\ CGoto("ready")
  /\ UNCHANGED <<prog, frontBlock, tailBlock, largestBlockSize, mallocs, semaphore,
                 p, out>>

\* The call returns false or null, or peek the element it has seen.
Return ==
  /\ c.at \in {"empty", "peeked"}
  /\ c' = [c EXCEPT !.at = "ready", !.val = Empty]
  /\ UNCHANGED <<prog, ring, semaphore, p, out>>

-----------------------------------------------------------------------------
(***************************************************************************)
(* The semaphore of BlockingReaderWriterQueue.  Only the consumer takes    *)
(* units, so that m_count stays positive between its load and fetch_add.   *)
(***************************************************************************)

TakeUnit == m_count > 0 /\ m_count' = m_count - 1

\* try_dequeue and pop: sema.tryWait()
TryWait(op) ==
  /\ prog.blocking
  /\ c.at = "ready" /\ c.left > 0
  /\ op # "peek"
  /\ \/ /\ TakeUnit
        /\ c' = [c EXCEPT !.at = "look", !.op = op, !.left = @ - 1]
     \/ /\ m_count <= 0
        /\ c' = [c EXCEPT !.left = @ - 1]
        /\ UNCHANGED m_count
  /\ UNCHANGED <<prog, ring, m_sema, p, out>>

\* wait_dequeue: sema.wait()
Wait ==
  /\ prog.blocking
  /\ c.at = "ready" /\ c.left > 0
  /\ \/ TakeUnit /\ c' = [c EXCEPT !.at = "look", !.op = "try_dequeue", !.left = @ - 1]
     \/ /\ m_count <= 0
        /\ c' = [c EXCEPT !.at = "spin", !.op = "try_dequeue", !.left = @ - 1]
        /\ UNCHANGED m_count
  /\ UNCHANGED <<prog, ring, m_sema, p, out>>

\* A turn of waitWithPartialSpinning that finds a unit.
Spin ==
  /\ c.at = "spin"
  /\ TakeUnit
  /\ CGoto("look")
  /\ UNCHANGED <<prog, ring, m_sema, p, out>>

\* The loop is over: oldCount = m_count.fetch_add_acquire(-1)
SpinEnd ==
  /\ c.at = "spin"
  /\ m_count' = m_count - 1
  /\ CGoto(IF m_count <= 0 THEN "sleep" ELSE "look")
  /\ UNCHANGED <<prog, ring, m_sema, p, out>>

\* m_sema.wait() returns.
WakeUp ==
  /\ c.at = "sleep"
  /\ m_sema > 0 /\ m_sema' = m_sema - 1
  /\ CGoto("look")
  /\ UNCHANGED <<prog, ring, m_count, p, out>>

\* sema.signal()
Signal ==
  /\ p.at = "signal"
  /\ m_count' = m_count + 1
  /\ PGoto(IF m_count < 0 THEN "post" ELSE "ready")
  /\ UNCHANGED <<prog, ring, m_sema, c, out>>

Post ==
  /\ p.at = "post"
  /\ m_sema' = m_sema + 1
  /\ PGoto("ready")
  /\ UNCHANGED <<prog, ring, m_count, c, out>>

-----------------------------------------------------------------------------

\* The blocks that the destructor visits: from frontBlock on to the next one,
\* until it comes back.
Visited ==
  {b \in DOMAIN blocks :
     \A S \in SUBSET DOMAIN blocks :
       frontBlock \in S /\ (\A x \in S : blocks[x].next \in S) => b \in S}

\* Is slot i of block b between its front and its tail?
Live(b, i) == (i - blocks[b].front) % blocks[b].size
                < (blocks[b].tail - blocks[b].front) % blocks[b].size

\* ~ReaderWriterQueue: the elements between front and tail of every block of the
\* ring are destroyed, and the block is freed.  Nobody is in a call.
Destroy ==
  /\ p.at = "ready" /\ c.at = "ready"
  /\ blocks' = [b \in DOMAIN blocks |->
                  [blocks[b] EXCEPT !.data =
                     [i \in DOMAIN @ |-> IF b \in Visited /\ Live(b, i) THEN Empty
                                         ELSE @[i]]]]
  /\ PGoto("gone")
  /\ CGoto("gone")
  /\ UNCHANGED <<prog, frontBlock, tailBlock, largestBlockSize, mallocs, semaphore, out>>

ProducerStep ==
  \/ \E canAlloc \in BOOLEAN : Enqueue(canAlloc)
  \/ Write \/ StoreTail \/ NextBlock \/ Reuse \/ Alloc \/ AllocFails \/ Link
  \/ Advance \/ Full \/ Signal \/ Post

ConsumerStep ==
  \/ \E op \in Ops : Call(op) \/ TryWait(op)
  \/ Look \/ LookAtTailBlock \/ LookAgain \/ LookAtNext \/ Forward \/ ReadElement
  \/ StoreFront \/ Return \/ Wait \/ Spin \/ SpinEnd \/ WakeUp

Next == ProducerStep \/ ConsumerStep \/ Destroy

\* Both threads go on.
Spec ==
  /\ Init
  /\ [][Next]_vars
  /\ WF_vars(ProducerStep)
  /\ WF_vars(ConsumerStep)

-----------------------------------------------------------------------------
(***************************************************************************)
(* Properties.                                                             *)
(***************************************************************************)

Fifo == INSTANCE FifoQueue WITH
  contents <- IF p.at = "gone" THEN <<>> ELSE Contents, alive <- p.at # "gone"

\* The elements come out once each and in order, although each thread acts on
\* an old copy of the other's index, blocks are used again, and a block is put
\* into the ring while the consumer goes round it.
IsFifo == Fifo!Spec

\* A dequeue that finds nothing first looked when there was nothing: the producer
\* filling the front block and moving on while the consumer looks does not hide
\* an element, and the unit the semaphore has given stands for an element.
\* The blocking operations assert that they succeed.
DequeueFinds ==
  c.at = "empty" =>
    /\ c.seen = 0
    /\ prog.blocking => c.op = "peek"

\* What has come out are the first elements, each once and in order.
InOrder == \A i \in DOMAIN out : out[i] = i

\* peek shows the element that is removed next.
PeekShows == c.at = "peeked" => Contents # <<>> /\ c.val = Head(Contents)

\* "Constructs a queue that can hold maxSize elements without further
\* allocations": try_enqueue fails only when there are that many.
HoldsMaxSize == p.at = "full" => p.seen >= prog.maxSize

\* The assertions of the source: the next block of the producer is empty, that
\* of the consumer is not, and the producer signals to one sleeper at most.
AssertionsHold ==
  /\ p.at = "reuse" =>
       LET B == blocks[blocks[tailBlock].next] IN B.front = B.tail
  /\ c.at = "next" => blocks[c.next].front # blocks[c.next].tail
  /\ p.at = "signal" => m_count >= -1

\* What the two sides see of each other is right: a consumer finds what is there,
\* and the assertions of both hold.
SidesInv ==
  /\ InOrder
  /\ DequeueFinds
  /\ PeekShows
  /\ AssertionsHold

\* The destructor comes to every block that was ever allocated, each of which it
\* frees, and leaves no element in any of them, also after blocks were put into the
\* ring out of order.
NothingLeaks ==
  p.at = "gone" =>
    /\ Visited = DOMAIN blocks
    /\ \A b \in DOMAIN blocks : \A i \in DOMAIN blocks[b].data : blocks[b].data[i] = Empty

\* A consumer does not sleep for ever while the queue holds an element.
ConsumerServed == <>[](c.at = "sleep" => Contents = <<>>)

=============================================================================
