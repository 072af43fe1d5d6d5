--------------------------- MODULE ConcurrentSet ---------------------------
(***************************************************************************)
(* concurrent_set of concurrent_set.hpp: a hash set with a spin lock for   *)
(* each bucket.  signals_set, the set of the vthreads whose preemption is  *)
(* asked for, is one.                                                      *)
(*                                                                         *)
(* insert and erase hold the lock of the value's bucket.  empty and        *)
(* get_all, which the code marks unsafe, look at one bucket after the      *)
(* other; they ask whether a bucket is empty without its lock.             *)
(***************************************************************************)
EXTENDS Integers, FiniteSets, SequencesExt

CONSTANTS
  SetThreads,  \* the kernel threads
  Values,      \* the values: sequences of their bytes
  Size,        \* SIZE, a power of 2
  MaxCalls     \* bound: the calls of all threads

ASSUME ConcurrentSetAssumption ==
  /\ Values \subseteq Seq(0..255)
  /\ Size \in {1, 2, 4, 8, 16, 32}
  /\ MaxCalls \in Nat

VARIABLES
  buckets,  \* the values in each bucket
  locked,   \* whether the spin lock of each bucket is taken
  spc,      \* where each thread is
  my,       \* its call, and its local variables
  calls,    \* how many calls there have been
  balance,  \* of each value: inserts less erases that have returned true
  steady,   \* the values that have been in the set for all of the thread's call
  ever      \* the values that have been in it for some of the call

setVars == <<buckets, locked, spc, my, calls, balance, steady, ever>>

Bucket == 0..(Size - 1)

\* hash: the sum of the bytes, times 179425823, in a signed char; shifted right
\* by 3, which keeps the sign, and masked.
Hash(v) ==
  LET sum == FoldLeft(LAMBDA a, b : (a + b) % 256, 0, v)
      char == (sum * (179425823 % 256)) % 256
  IN  ((IF char < 128 THEN char ELSE char - 256) \div 8) % Size

\* The mask keeps the hash of every value in the range of the buckets.
ASSUME HashAssumption == \A v \in Values : Hash(v) \in Bucket

Content == UNION {buckets[i] : i \in Bucket}

NewCall(op, v, i) == [op |-> op, v |-> v, i |-> i, found |-> FALSE, ret |-> <<>>]

NoCall == NewCall("none", <<>>, 0)

SetInit ==
  /\ buckets = [i \in Bucket |-> {}]
  /\ locked = [i \in Bucket |-> FALSE]
  /\ spc = [t \in SetThreads |-> "ready"]
  /\ my = [t \in SetThreads |-> NoCall]
  /\ calls = 0
  /\ balance = [v \in Values |-> 0]
  /\ steady = [t \in SetThreads |-> {}]
  /\ ever = [t \in SetThreads |-> {}]

-----------------------------------------------------------------------------

SetMove(t, from, to) == spc[t] = from /\ spc' = [spc EXCEPT ![t] = to]

SetCall(t, op, v, i, to) ==
  /\ SetMove(t, "ready", to)
  /\ calls < MaxCalls
  /\ calls' = calls + 1
  /\ my' = [my EXCEPT ![t] = NewCall(op, v, i)]
  /\ steady' = [steady EXCEPT ![t] = Content]
  /\ ever' = [ever EXCEPT ![t] = Content]
  /\ UNCHANGED <<buckets, locked, balance>>

CallInsert(t, v) == SetCall(t, "insert", v, Hash(v), "lock")
CallErase(t, v) == SetCall(t, "erase", v, Hash(v), "lock")
CallEmpty(t) == SetCall(t, "empty", <<>>, 0, "scan")
CallGetAll(t) == SetCall(t, "get_all", <<>>, 0, "scan")

(***************************************************************************)
(* Faulty forms of steps below.                                            *)
(***************************************************************************)

\* The lock is taken whether it is free or not.
LockTaken(t) ==
  /\ SetMove(t, "lock", "in")
  /\ locked' = [locked EXCEPT ![my[t].i] = TRUE]
  /\ UNCHANGED <<buckets, my, calls, balance, steady, ever>>

-----------------------------------------------------------------------------

\* pthread_spin_lock(buckets_locks + i)
Lock(t) ==
  /\ SetMove(t, "lock", "in")
  /\ ~locked[my[t].i]
  /\ locked' = [locked EXCEPT ![my[t].i] = TRUE]
  /\ UNCHANGED <<buckets, my, calls, balance, steady, ever>>

\* insert and erase look for the value.
Find(t) ==
  /\ my[t].op \in {"insert", "erase"}
  /\ SetMove(t, "in", IF (my[t].v \in buckets[my[t].i]) = (my[t].op = "insert")
                      THEN "unlock" ELSE "change")
  /\ UNCHANGED <<buckets, locked, my, calls, balance, steady, ever>>

\* The value is not there, and inserted; or it is, and erased.
Change(t) ==
  /\ SetMove(t, "change", "unlock")
  /\ LET v == my[t].v
         i == my[t].i
     IN  \/ /\ my[t].op = "insert"
            /\ buckets' = [buckets EXCEPT ![i] = @ \cup {v}]
            /\ balance' = [balance EXCEPT ![v] = @ + 1]
            /\ ever' = [u \in SetThreads |-> ever[u] \cup {v}]
            /\ UNCHANGED steady
         \/ /\ my[t].op = "erase"
            /\ buckets' = [buckets EXCEPT ![i] = @ \ {v}]
            /\ balance' = [balance EXCEPT ![v] = @ - 1]
            /\ steady' = [u \in SetThreads |-> steady[u] \ {v}]
            /\ UNCHANGED ever
  /\ UNCHANGED <<locked, my, calls>>

\* get_all copies the bucket.
Copy(t) ==
  /\ my[t].op = "get_all"
  /\ SetMove(t, "in", "unlock")
  /\ my' = [my EXCEPT ![t].ret = @ \o SetToSeq(buckets[my[t].i])]
  /\ UNCHANGED <<buckets, locked, calls, balance, steady, ever>>

\* pthread_spin_unlock: insert and erase return, get_all goes on.
Unlock(t) ==
  /\ locked' = [locked EXCEPT ![my[t].i] = FALSE]
  /\ IF my[t].op = "get_all"
     THEN SetMove(t, "unlock", "scan") /\ my' = [my EXCEPT ![t].i = @ + 1]
     ELSE SetMove(t, "unlock", "done") /\ UNCHANGED my
  /\ UNCHANGED <<buckets, calls, balance, steady, ever>>

\* empty and get_all ask for the next bucket, without its lock, whether it is
\* empty.  If it is not, empty returns false and get_all locks it.
Scan(t) ==
  /\ IF my[t].i = Size
     THEN SetMove(t, "scan", "done") /\ UNCHANGED my
     ELSE IF buckets[my[t].i] = {}
     THEN SetMove(t, "scan", "scan") /\ my' = [my EXCEPT ![t].i = @ + 1]
     ELSE /\ SetMove(t, "scan", IF my[t].op = "empty" THEN "done" ELSE "lock")
          /\ my' = [my EXCEPT ![t].found = TRUE]
  /\ UNCHANGED <<buckets, locked, calls, balance, steady, ever>>

SetReturn(t) ==
  /\ SetMove(t, "done", "ready")
  /\ my' = [my EXCEPT ![t] = NoCall]
  /\ steady' = [steady EXCEPT ![t] = {}]
  /\ ever' = [ever EXCEPT ![t] = {}]
  /\ UNCHANGED <<buckets, locked, calls, balance>>

SetNext ==
  \E t \in SetThreads :
    \/ \E v \in Values : CallInsert(t, v) \/ CallErase(t, v)
    \/ CallEmpty(t) \/ CallGetAll(t)
    \/ Lock(t) \/ Find(t) \/ Change(t) \/ Copy(t) \/ Unlock(t)
    \/ Scan(t) \/ SetReturn(t)

SetSpec == SetInit /\ [][SetNext]_setVars

-----------------------------------------------------------------------------
(***************************************************************************)
(* Properties.                                                             *)
(***************************************************************************)

\* insert and erase of a value are answered with true in turn: of the threads
\* that insert or erase it at a time one is told so, since its bytes always
\* lead to the same lock.
TrueInTurn ==
  \A v \in Values : balance[v] = IF v \in Content THEN 1 ELSE 0

\* What remains of empty and get_all, which other calls run into: a value that
\* is in the set all the time is returned, once, and keeps empty from returning
\* true; no value is returned that was not in the set at any time.
ScansSound ==
  \A t \in SetThreads : spc[t] = "done" =>
    /\ my[t].op = "get_all" => /\ steady[t] \subseteq ToSet(my[t].ret)
                               /\ ToSet(my[t].ret) \subseteq ever[t]
                               /\ IsInjective(my[t].ret)
    /\ my[t].op = "empty" => IF my[t].found THEN ever[t] # {} ELSE steady[t] = {}

\* What the answers of the set may be relied on for.
SetInv == TrueInTurn /\ ScansSound

=============================================================================
