---------------------------- MODULE ProducerHash ----------------------------
(***************************************************************************)
(* How a kernel thread finds its own sub-queue of the run queue:           *)
(* get_or_add_implicit_producer of concurrentqueue.h.  Every thread that   *)
(* has ever enqueued owns one producer, which it finds in a chain of hash  *)
(* tables under its thread id.  Tables are never changed but by filling    *)
(* free slots, and never freed; a thread that finds the newest table half  *)
(* full allocates a table twice as large, while the others go on with the  *)
(* older one.                                                              *)
(*                                                                         *)
(* The slots of a table are only ever filled, and a key only by the thread *)
(* it names, so that looking a key up, and probing for the first free slot *)
(* and claiming it with compare_exchange, are one step each.               *)
(*                                                                         *)
(* The producer that thread t creates is called t.  The library compiles   *)
(* concurrentqueue.h without MOODYCAMEL_CPP11_THREAD_LOCAL_SUPPORTED, so   *)
(* no producer ever becomes inactive and none is recycled.                 *)
(***************************************************************************)
EXTENDS Integers, Sequences, FiniteSets, FiniteSetsExt

CONSTANTS
  Threads,  \* the kernel threads: workers and others
  HashOf,   \* hash_thread_id(thread_id()) of each
  None      \* invalid_thread_id, and every other null

ASSUME HashAssumption ==
  /\ IsFiniteSet(Threads) /\ None \notin Threads
  /\ HashOf \in [Threads -> Nat]

VARIABLES
  tables,     \* implicitProducerHash and its chain of prev, oldest first
  count,      \* implicitProducerHashCount
  resizing,   \* implicitProducerHashResizeInProgress
  producers,  \* the list that starts at producerListTail, oldest first
  main,       \* local variable mainHash of each thread
  newCount,   \* local variable newCount of each thread
  hpc,        \* where each thread is
  fails       \* how many more allocations may fail

tableVars == <<tables, count, resizing, producers, main, newCount>>
hashVars == <<tableVars, hpc, fails>>

EmptyTable(n) == [i \in 0..(n - 1) |-> None]

\* populate_initial_implicit_producer_hash, with a table of n slots.  Of the
\* allocations to come, f may fail.
HashInit(n, f) ==
  /\ tables = <<EmptyTable(n)>>
  /\ count = 0
  /\ resizing = FALSE
  /\ producers = <<>>
  /\ main = [t \in Threads |-> 0]
  /\ newCount = [t \in Threads |-> 0]
  /\ hpc = [t \in Threads |-> "out"]
  /\ fails = f

-----------------------------------------------------------------------------

Capacity(k) == Cardinality(DOMAIN tables[k])

\* The slot that the d-th probe of thread t looks at in table k.
Probe(k, t, d) == tables[k][(HashOf[t] + d) % Capacity(k)]

\* The id of t is met in table k before a free slot is.
Holds(k, t) ==
  \E d \in 0..(Capacity(k) - 1) :
    /\ Probe(k, t, d) = t
    /\ \A e \in 0..(d - 1) : Probe(k, t, e) # None

\* t claims the first free slot it probes in table k.  In a full table it
\* would probe for ever.
Insert(k, t) ==
  LET free == {d \in 0..(Capacity(k) - 1) : Probe(k, t, d) = None}
  IN  /\ free # {}
      /\ tables' = [tables EXCEPT ![k][(HashOf[t] + Min(free)) % Capacity(k)] = t]

\* 1 << i
Shift[i \in Nat] == IF i = 0 THEN 1 ELSE 2 * Shift[i - 1]

\* The capacity of the table that a thread with newCount = n allocates.
NewCapacity(cap, n) ==
  Min({c \in {cap * Shift[i] : i \in 1..(n + 1)} : n < c \div 2})

HMove(t, l) == hpc' = [hpc EXCEPT ![t] = l]

AllocationFails == fails > 0 /\ fails' = fails - 1

\* get_or_add_implicit_producer returns nullptr.
GiveUp(t) ==
  /\ AllocationFails
  /\ count' = count - 1
  /\ HMove(t, "failed")

(***************************************************************************)
(* Faulty forms of steps below.                                            *)
(***************************************************************************)

\* Only the newest table is searched.
LookupMainOnly(t) ==
  /\ main' = [main EXCEPT ![t] = Len(tables)]
  /\ HMove(t, IF Holds(Len(tables), t) THEN "found" ELSE "count")
  /\ UNCHANGED <<tables, count, resizing, producers, newCount, fails>>

-----------------------------------------------------------------------------

\* implicitProducerHash is loaded, and its chain searched for the id.
Lookup(t) ==
  LET top == Len(tables)
      hits == {k \in 1..top : Holds(k, t)}
  IN  /\ main' = [main EXCEPT ![t] = top]
      /\ HMove(t, CASE hits = {} -> "count"
                    [] top \in hits -> "found"
                    [] OTHER -> "lazy")
      /\ UNCHANGED <<tables, count, resizing, producers, newCount, fails>>

\* Found in an older table: added to the newest.
Lazy(t) ==
  /\ hpc[t] = "lazy"
  /\ Insert(main[t], t)
  /\ HMove(t, "found")
  /\ UNCHANGED <<count, resizing, producers, main, newCount, fails>>

\* newCount = 1 + implicitProducerHashCount.fetch_add(1)
Count(t) ==
  /\ hpc[t] = "count"
  /\ count' = count + 1
  /\ newCount' = [newCount EXCEPT ![t] = count + 1]
  /\ HMove(t, "full")
  /\ UNCHANGED <<tables, resizing, producers, main, fails>>

\* Table k is less than three quarters full: the thread adds itself here.
\* Otherwise it looks for the table that somebody else is allocating.
GoOn(t, k) ==
  IF newCount[t] < Capacity(k) \div 2 + Capacity(k) \div 4
  THEN HMove(t, "create") /\ UNCHANGED main
  ELSE HMove(t, "full") /\ main' = [main EXCEPT ![t] = Len(tables)]

\* The table is half full and nobody else resizes: test_and_set succeeds.
Full(t) ==
  /\ hpc[t] = "full"
  /\ LET half == newCount[t] >= Capacity(main[t]) \div 2
     IN  /\ resizing' = (half \/ resizing)
         /\ IF half /\ ~resizing
            THEN HMove(t, "resize") /\ UNCHANGED main
            ELSE GoOn(t, main[t])
  /\ UNCHANGED <<tables, count, producers, newCount, fails>>

\* implicitProducerHash is loaded again, under the lock: another thread may
\* have replaced it meanwhile.
Resize(t) ==
  /\ hpc[t] = "resize"
  /\ LET top == Len(tables)
         cap == Capacity(top)
     IN  \/ /\ newCount[t] < cap \div 2
            /\ main' = [main EXCEPT ![t] = top]
            /\ HMove(t, "clear")
            /\ UNCHANGED <<tables, count, resizing, fails>>
         \/ /\ newCount[t] >= cap \div 2
            /\ tables' = Append(tables, EmptyTable(NewCapacity(cap, newCount[t])))
            /\ main' = [main EXCEPT ![t] = top + 1]
            /\ HMove(t, "clear")
            /\ UNCHANGED <<count, resizing, fails>>
         \/ /\ newCount[t] >= cap \div 2
            /\ GiveUp(t)
            /\ resizing' = FALSE
            /\ UNCHANGED <<tables, main>>
  /\ UNCHANGED <<producers, newCount>>

Clear(t) ==
  /\ hpc[t] = "clear"
  /\ resizing' = FALSE
  /\ GoOn(t, main[t])
  /\ UNCHANGED <<tables, count, producers, newCount, fails>>

\* recycle_or_create_producer; add_producer pushes it on the list.  The
\* constructor of ImplicitProducer does not look whether its new_block_index
\* has failed: enqueue then dereferences the null blockIndex.
Create(t) ==
  /\ hpc[t] = "create"
  /\ \/ /\ producers' = Append(producers, t)
        /\ HMove(t, "slot")
        /\ UNCHANGED <<count, fails>>
     \/ GiveUp(t) /\ UNCHANGED producers
     \/ /\ AllocationFails
        /\ producers' = Append(producers, t)
        /\ HMove(t, "crashed")
        /\ UNCHANGED count
  /\ UNCHANGED <<tables, resizing, main, newCount>>

Slot(t) ==
  /\ hpc[t] = "slot"
  /\ Insert(main[t], t)
  /\ HMove(t, "found")
  /\ UNCHANGED <<count, resizing, producers, main, newCount, fails>>

\* A step inside get_or_add_implicit_producer.
HashStep(t) ==
  \/ Lazy(t)
  \/ Count(t)
  \/ Full(t)
  \/ Resize(t)
  \/ Clear(t)
  \/ Create(t)
  \/ Slot(t)

-----------------------------------------------------------------------------
(***************************************************************************)
(* Properties.                                                             *)
(***************************************************************************)

\* A thread that comes back finds the producer it created, however the tables
\* have been replaced since: it never creates a second one, which would break
\* the order of what it enqueues.
OneProducerPerThread ==
  \A i, j \in 1..Len(producers) : producers[i] = producers[j] => i = j

\* "Not an infinite loop because at least one slot is free in the hash table":
\* late arrivals, which still fill a table that has been replaced, never fill
\* it up.
TablesHaveRoom ==
  \A k \in 1..Len(tables) : \E i \in DOMAIN tables[k] : tables[k][i] = None

\* The chain of tables leads every thread to its producer, and searches end.
TablesInv == OneProducerPerThread /\ TablesHaveRoom

=============================================================================
