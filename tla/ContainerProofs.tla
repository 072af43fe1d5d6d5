-------------------------- MODULE ContainerProofs --------------------------
(***************************************************************************)
(* Proofs about the containers that threads share.                         *)
(*                                                                         *)
(* ConcurrentSet: what the answers of concurrent_set may be relied on for, *)
(* for any set of threads, any values and any number of calls.             *)
(*                                                                         *)
(* SpscQueue: the queue between one producer and one consumer is a FIFO    *)
(* queue, for any sizes of its blocks and any number of calls.             *)
(***************************************************************************)
EXTENDS ConcurrentSet, SpscQueue, FiniteSetTheorems, SequenceTheorems,
        NaturalsInduction, WellFoundedInduction, TLAPS

-----------------------------------------------------------------------------
(***************************************************************************)
(* The concurrent set: the inductive invariant.                            *)
(***************************************************************************)

Operations == {"none", "insert", "erase", "empty", "get_all"}

SetPCs == {"ready", "lock", "in", "change", "unlock", "scan", "done"}

\* The type of a thread's call.
CallType ==
  [op : Operations, v : Values \cup {<<>>}, i : 0..Size, found : BOOLEAN,
   ret : Seq(Values)]

SetTypeOK ==
  /\ buckets \in [Bucket -> SUBSET Values]
  /\ \A i \in Bucket : IsFiniteSet(buckets[i])
  /\ locked \in [Bucket -> BOOLEAN]
  /\ spc \in [SetThreads -> SetPCs]
  /\ my \in [SetThreads -> CallType]
  /\ balance \in [Values -> Int]
  /\ steady \in [SetThreads -> SUBSET Values]
  /\ ever \in [SetThreads -> SUBSET Values]

\* The thread has the lock of its bucket.
Holds(t) == spc[t] \in {"in", "change", "unlock"}

\* Where a call can be.
CallOK(t) ==
  /\ my[t].op \in {"insert", "erase"} =>
       /\ my[t].v \in Values
       /\ my[t].i = Hash(my[t].v)
       /\ spc[t] \in {"lock", "in", "change", "unlock", "done"}
  /\ spc[t] = "change" => my[t].op \in {"insert", "erase"}
  /\ spc[t] \in {"lock", "in", "unlock"} => my[t].op \in {"insert", "erase", "get_all"}
  /\ spc[t] = "scan" => my[t].op \in {"empty", "get_all"}
  /\ spc[t] = "ready" => my[t].op = "none"
  /\ Holds(t) \/ spc[t] = "lock" => my[t].i \in Bucket

\* The spin lock of a bucket has one holder.
LocksOK ==
  /\ \A t \in SetThreads : Holds(t) => locked[my[t].i]
  /\ \A t, u \in SetThreads : Holds(t) /\ Holds(u) /\ my[t].i = my[u].i => t = u

\* A value is in the bucket of its hash, and nowhere else.
BucketsOK == \A i \in Bucket : \A v \in buckets[i] : Hash(v) = i

\* What insert or erase has found is still so when it changes the bucket.
ChangeOK(t) ==
  spc[t] = "change" => (my[t].v \in buckets[my[t].i] <=> my[t].op = "erase")

\* The buckets get_all has copied.
Passed(t) == IF spc[t] = "unlock" THEN my[t].i + 1 ELSE my[t].i

\* get_all has, of the buckets it has passed, what stayed there.
GetAllOK(t) ==
  my[t].op = "get_all" =>
    /\ ToSet(my[t].ret) \subseteq ever[t]
    /\ IsInjective(my[t].ret)
    /\ \A v \in ToSet(my[t].ret) : Hash(v) < Passed(t)
    /\ \A v \in steady[t] : Hash(v) < Passed(t) => v \in ToSet(my[t].ret)
    /\ spc[t] = "done" => my[t].i = Size

\* empty has passed only buckets in which nothing stayed.
EmptyOK(t) ==
  my[t].op = "empty" =>
    /\ my[t].found => ever[t] # {}
    /\ ~my[t].found => \A v \in steady[t] : Hash(v) >= my[t].i
    /\ spc[t] = "done" => my[t].found \/ my[t].i = Size

\* The recorded sets are what they are said to be.
RecordsOK(t) ==
  spc[t] # "ready" => steady[t] \subseteq Content /\ Content \subseteq ever[t]

SetIInv ==
  /\ SetTypeOK
  /\ LocksOK
  /\ BucketsOK
  /\ TrueInTurn
  /\ \A t \in SetThreads :
       CallOK(t) /\ ChangeOK(t) /\ GetAllOK(t) /\ EmptyOK(t) /\ RecordsOK(t)

-----------------------------------------------------------------------------
(***************************************************************************)
(* Sequences without repetition.                                           *)
(***************************************************************************)

\* SetToSeq lists every element of a finite set once.
LEMMA SetToSeqProperties ==
  ASSUME NEW S, IsFiniteSet(S)
  PROVE  /\ SetToSeq(S) \in Seq(S)
         /\ ToSet(SetToSeq(S)) = S
         /\ IsInjective(SetToSeq(S))
<1> DEFINE n == Cardinality(S)
           f == SetToSeq(S)
<1>1. n \in Nat /\ ExistsBijection(1..n, S)
  BY FS_CardinalityType
<1>2. \E g \in [1..n -> S] : IsInjective(g)
  BY <1>1 DEF ExistsBijection, Bijection, Injection
<1>3. f \in [1..n -> S] /\ IsInjective(f)
  BY <1>2 DEF SetToSeq
<1>4. f \in Injection(1..n, S)
  BY <1>3 DEF Injection
<1>5. IsFiniteSet(1..n) /\ Cardinality(1..n) = n
  BY <1>1, FS_Interval
<1>6. f \in Surjection(1..n, S)
  BY <1>4, <1>5, FS_Injection
<1> HIDE DEF f, n
<1>7. DOMAIN f = 1..n /\ \A x \in S : \E i \in 1..n : f[i] = x
  BY <1>3, <1>6 DEF Surjection
<1>8. ToSet(f) = S
  BY <1>3, <1>7 DEF ToSet
<1>9. f \in Seq(S)
  BY <1>1, <1>3, SeqDef
<1> QED
  BY <1>3, <1>8, <1>9 DEF f

\* A list without repetition, followed by a set it has nothing of, is one.
LEMMA ConcatInjective ==
  ASSUME NEW T, NEW s \in Seq(T), NEW r \in Seq(T), IsInjective(s), IsInjective(r),
         ToSet(s) \cap ToSet(r) = {}
  PROVE  /\ s \o r \in Seq(T)
         /\ ToSet(s \o r) = ToSet(s) \cup ToSet(r)
         /\ IsInjective(s \o r)
<1> DEFINE q == s \o r
           m == Len(s)
           n == Len(r)
<1>1. /\ q \in Seq(T) /\ Len(q) = m + n
      /\ \A i \in 1..(m + n) : q[i] = IF i <= m THEN s[i] ELSE r[i - m]
  BY ConcatProperties
<1>2. /\ m \in Nat /\ DOMAIN s = 1..m
      /\ n \in Nat /\ DOMAIN r = 1..n
      /\ DOMAIN q = 1..(m + n)
  BY <1>1, LenProperties
<1> HIDE DEF q, m, n
<1>3. \A i \in 1..m : q[i] = s[i]
  BY <1>1, <1>2
<1>4. \A j \in 1..n : m + j \in 1..(m + n) /\ q[m + j] = r[j]
  BY <1>1, <1>2
<1>5. \A i \in 1..(m + n) : i \in 1..m \/ \E j \in 1..n : i = m + j
  <2> SUFFICES ASSUME NEW i \in 1..(m + n), i \notin 1..m
               PROVE  \E j \in 1..n : i = m + j
    OBVIOUS
  <2>1. i - m \in 1..n /\ i = m + (i - m)
    BY <1>2
  <2> QED
    BY <2>1
<1>6. 1..m \subseteq 1..(m + n)
  BY <1>2
<1>7. ToSet(q) = ToSet(s) \cup ToSet(r)
  <2>1. \A x \in ToSet(q) : x \in ToSet(s) \/ x \in ToSet(r)
    <3> SUFFICES ASSUME NEW i \in 1..(m + n)
                 PROVE  q[i] \in ToSet(s) \/ q[i] \in ToSet(r)
      BY <1>2 DEF ToSet
    <3>1. CASE i \in 1..m
      BY <1>2, <1>3, <3>1 DEF ToSet
    <3>2. CASE \E j \in 1..n : i = m + j
      BY <1>2, <1>4, <3>2 DEF ToSet
    <3> QED
      BY <1>5, <3>1, <3>2
  <2>2. \A x \in ToSet(s) : x \in ToSet(q)
    BY <1>2, <1>3, <1>6 DEF ToSet
  <2>3. \A x \in ToSet(r) : x \in ToSet(q)
    BY <1>2, <1>4 DEF ToSet
  <2> QED
    BY <2>1, <2>2, <2>3
<1>8. ASSUME NEW i \in 1..(m + n), NEW k \in 1..(m + n), q[i] = q[k]
      PROVE  i = k
  <2>1. CASE i \in 1..m /\ k \in 1..m
    BY <1>2, <1>3, <1>8, <2>1 DEF IsInjective
  <2>2. ASSUME NEW h \in 1..m, NEW j \in 1..n PROVE q[h] # q[m + j]
    BY <1>2, <1>3, <1>4, <2>2 DEF ToSet
  <2>3. CASE \E j, l \in 1..n : i = m + j /\ k = m + l
    <3>1. PICK j \in 1..n, l \in 1..n : i = m + j /\ k = m + l
      BY <2>3
    <3>2. q[m + j] = r[j] /\ q[m + l] = r[l]
      BY <1>4
    <3>3. r[j] = r[l]
      BY <1>8, <3>1, <3>2
    <3>4. j = l
      BY <1>2, <3>3 DEF IsInjective
    <3> QED
      BY <3>1, <3>4
  <2> QED
    BY <1>5, <1>8, <2>1, <2>2, <2>3
<1>9. IsInjective(q)
  BY <1>2, <1>8 DEF IsInjective
<1> QED
  BY <1>1, <1>7, <1>9 DEF q

-----------------------------------------------------------------------------
(***************************************************************************)
(* The steps.                                                              *)
(***************************************************************************)

\* A value is in the set when it is in the bucket of its hash.
LEMMA ContentIsHashed ==
  ASSUME SetTypeOK, BucketsOK, NEW v \in Values
  PROVE  v \in Content <=> v \in buckets[Hash(v)]
BY HashAssumption DEF SetTypeOK, BucketsOK, Content

\* A call changes nothing but the records of its thread.
LEMMA CallKeeps ==
  ASSUME SetIInv, NEW t \in SetThreads, NEW op, NEW v, NEW i, NEW to,
         SetCall(t, op, v, i, to),
         \/ op \in {"insert", "erase"} /\ v \in Values /\ i = Hash(v) /\ to = "lock"
         \/ op \in {"empty", "get_all"} /\ v = <<>> /\ i = 0 /\ to = "scan"
  PROVE  SetIInv'
<1> DEFINE call == [op |-> op, v |-> v, i |-> i, found |-> FALSE, ret |-> <<>>]
<1>1. /\ spc[t] = "ready" /\ spc' = [spc EXCEPT ![t] = to]
      /\ my' = [my EXCEPT ![t] = call]
      /\ steady' = [steady EXCEPT ![t] = Content]
      /\ ever' = [ever EXCEPT ![t] = Content]
      /\ buckets' = buckets /\ locked' = locked /\ balance' = balance
  BY DEF SetCall, SetMove, NewCall
<1>2. Size \in Nat \ {0} /\ \A u \in Values : Hash(u) \in Nat /\ Hash(u) \in 0..Size
  BY HashAssumption, ConcurrentSetAssumption DEF Bucket
<1>3. Content \subseteq Values /\ Content' = Content
  BY <1>1 DEF SetIInv, SetTypeOK, Content
<1>4. SetTypeOK'
  <2>1. op \in Operations /\ v \in Values \cup {<<>>} /\ i \in 0..Size
    BY <1>2 DEF Operations
  <2>2. call \in CallType
    BY <2>1 DEF CallType
  <2>3. to \in SetPCs
    BY DEF SetPCs
  <2> HIDE DEF call
  <2> QED
    BY <1>1, <1>3, <2>2, <2>3 DEF SetIInv, SetTypeOK
<1>5. my'[t] = call /\ spc'[t] = to /\ steady'[t] = Content /\ ever'[t] = Content
  BY <1>1 DEF SetIInv, SetTypeOK
<1>6. \A u \in SetThreads : u # t =>
        /\ my'[u] = my[u] /\ spc'[u] = spc[u]
        /\ steady'[u] = steady[u] /\ ever'[u] = ever[u]
  BY <1>1 DEF SetIInv, SetTypeOK
<1>7. LocksOK'
  <2>1. ~Holds(t)'
    BY <1>5 DEF Holds
  <2>2. \A u \in SetThreads : u # t => Holds(u)' = Holds(u)
    BY <1>6 DEF Holds
  <2> QED
    BY <1>1, <1>6, <2>1, <2>2 DEF SetIInv, LocksOK
<1>8. BucketsOK' /\ TrueInTurn'
  BY <1>1, <1>3 DEF SetIInv, BucketsOK, TrueInTurn
<1>9. ASSUME NEW u \in SetThreads
      PROVE  (CallOK(u) /\ ChangeOK(u) /\ GetAllOK(u) /\ EmptyOK(u) /\ RecordsOK(u))'
  <2>1. CASE u # t
    BY <1>1, <1>3, <1>6, <2>1
       DEF SetIInv, CallOK, Holds, ChangeOK, GetAllOK, EmptyOK, RecordsOK, Passed
  <2>2. CASE u = t
    <3>1. CallOK(t)' /\ ChangeOK(t)' /\ RecordsOK(t)'
      BY <1>1, <1>3, <1>5, HashAssumption DEF CallOK, Holds, ChangeOK, RecordsOK
    <3>2. ToSet(call.ret) = {} /\ IsInjective(call.ret)
      BY DEF ToSet, IsInjective
    <3>3. GetAllOK(t)' /\ EmptyOK(t)'
      BY <1>2, <1>3, <1>5, <3>2 DEF GetAllOK, EmptyOK, Passed
    <3> QED
      BY <2>2, <3>1, <3>3
  <2> QED
    BY <2>1, <2>2
<1> QED
  BY <1>4, <1>7, <1>8, <1>9 DEF SetIInv

\* A step that touches neither a bucket nor what is recorded of other calls has
\* to be looked at for its own thread only.
LEMMA LocalStep ==
  ASSUME SetIInv, NEW t \in SetThreads, NEW l \in SetPCs \ {"ready"}, NEW r \in CallType,
         spc[t] # "ready",
         spc' = [spc EXCEPT ![t] = l], my' = [my EXCEPT ![t] = r],
         buckets' = buckets, balance' = balance, steady' = steady, ever' = ever,
         locked' \in [Bucket -> BOOLEAN], LocksOK',
         CallOK(t)', ChangeOK(t)', GetAllOK(t)', EmptyOK(t)'
  PROVE  SetIInv'
<1>1. SetTypeOK'
  BY DEF SetIInv, SetTypeOK, CallType
<1>2. Content' = Content
  BY DEF Content
<1>3. BucketsOK' /\ TrueInTurn'
  BY <1>2 DEF SetIInv, BucketsOK, TrueInTurn
<1>4. \A u \in SetThreads : u # t => my'[u] = my[u] /\ spc'[u] = spc[u]
  BY DEF SetIInv, SetTypeOK
<1>5. RecordsOK(t)'
  BY <1>2 DEF SetIInv, RecordsOK
<1>6. ASSUME NEW u \in SetThreads, u # t
      PROVE  (CallOK(u) /\ ChangeOK(u) /\ GetAllOK(u) /\ EmptyOK(u) /\ RecordsOK(u))'
  BY <1>2, <1>4, <1>6
     DEF SetIInv, CallOK, Holds, ChangeOK, GetAllOK, EmptyOK, RecordsOK, Passed
<1> QED
  BY <1>1, <1>3, <1>5, <1>6 DEF SetIInv

\* What a step of one thread knows of it.
LEMMA OwnFacts ==
  ASSUME SetIInv, NEW t \in SetThreads
  PROVE  /\ my[t] \in CallType
         /\ CallOK(t) /\ ChangeOK(t) /\ GetAllOK(t) /\ EmptyOK(t) /\ RecordsOK(t)
BY DEF SetIInv, SetTypeOK, CallType

\* pthread_spin_lock lets one thread in.
LEMMA LockKeeps ==
  ASSUME SetIInv, NEW t \in SetThreads, Lock(t)
  PROVE  SetIInv'
<1>1. /\ spc[t] = "lock" /\ spc' = [spc EXCEPT ![t] = "in"]
      /\ my' = my /\ my' = [my EXCEPT ![t] = my[t]]
      /\ ~locked[my[t].i] /\ locked' = [locked EXCEPT ![my[t].i] = TRUE]
      /\ buckets' = buckets /\ balance' = balance /\ steady' = steady /\ ever' = ever
  BY DEF Lock, SetMove, SetIInv, SetTypeOK
<1>2. my[t].i \in Bucket
  BY <1>1, OwnFacts DEF CallOK
<1>3. locked' \in [Bucket -> BOOLEAN]
  BY <1>1 DEF SetIInv, SetTypeOK
<1>4. spc'[t] = "in" /\ \A u \in SetThreads : u # t => spc'[u] = spc[u]
  BY <1>1 DEF SetIInv, SetTypeOK
<1>5. \A u \in SetThreads : Holds(u) => my[u].i # my[t].i /\ my[u].i \in Bucket
  BY <1>1, OwnFacts DEF SetIInv, LocksOK, CallOK
<1>6. \A u \in SetThreads : Holds(u)' <=> Holds(u) \/ u = t
  BY <1>4 DEF Holds
<1>7. LocksOK'
  BY <1>1, <1>2, <1>5, <1>6 DEF SetIInv, SetTypeOK, LocksOK
<1>8. CallOK(t)' /\ ChangeOK(t)' /\ GetAllOK(t)' /\ EmptyOK(t)'
  BY <1>1, <1>4, OwnFacts DEF CallOK, Holds, ChangeOK, GetAllOK, EmptyOK, Passed
<1> QED
  BY <1>1, <1>3, <1>7, <1>8, OwnFacts, LocalStep DEF SetPCs

\* A step of a thread that has the lock and keeps it.
LEMMA HolderLocks ==
  ASSUME SetIInv, NEW t \in SetThreads, Holds(t), Holds(t)', locked' = locked,
         NEW l, spc' = [spc EXCEPT ![t] = l], NEW r, my' = [my EXCEPT ![t] = r],
         r.i = my[t].i
  PROVE  LocksOK'
<1>1. \A u \in SetThreads : my'[u].i = my[u].i /\ (Holds(u)' <=> Holds(u))
  BY DEF SetIInv, SetTypeOK, Holds
<1> QED
  BY <1>1 DEF SetIInv, LocksOK

\* insert and erase look for the value.
LEMMA FindKeeps ==
  ASSUME SetIInv, NEW t \in SetThreads, Find(t)
  PROVE  SetIInv'
<1> DEFINE l == IF (my[t].v \in buckets[my[t].i]) = (my[t].op = "insert")
                THEN "unlock" ELSE "change"
<1>1. /\ spc[t] = "in" /\ spc' = [spc EXCEPT ![t] = l]
      /\ my[t].op \in {"insert", "erase"}
      /\ my' = my /\ my' = [my EXCEPT ![t] = my[t]] /\ locked' = locked
      /\ buckets' = buckets /\ balance' = balance /\ steady' = steady /\ ever' = ever
  BY DEF Find, SetMove, SetIInv, SetTypeOK
<1>2. spc'[t] = l /\ l \in {"unlock", "change"}
  BY <1>1 DEF SetIInv, SetTypeOK
<1>3. l = "change" => (my[t].v \in buckets[my[t].i] <=> my[t].op = "erase")
  BY <1>1
<1> HIDE DEF l
<1>4. Holds(t) /\ Holds(t)'
  BY <1>1, <1>2 DEF Holds
<1>5. LocksOK'
  BY <1>1, <1>4, HolderLocks
<1>6. CallOK(t)' /\ ChangeOK(t)' /\ GetAllOK(t)' /\ EmptyOK(t)'
  BY <1>1, <1>2, <1>3, OwnFacts DEF CallOK, Holds, ChangeOK, GetAllOK, EmptyOK, Passed
<1>7. locked' \in [Bucket -> BOOLEAN]
  BY <1>1 DEF SetIInv, SetTypeOK
<1> QED
  BY <1>1, <1>2, <1>5, <1>6, <1>7, OwnFacts, LocalStep DEF SetPCs

\* get_all copies a bucket under its lock: nothing in it has been copied before.
LEMMA CopyKeeps ==
  ASSUME SetIInv, NEW t \in SetThreads, Copy(t)
  PROVE  SetIInv'
<1> DEFINE i == my[t].i
           more == SetToSeq(buckets[i])
           ret == my[t].ret \o more
           r == [my[t] EXCEPT !.ret = ret]
<1>1. /\ spc[t] = "in" /\ spc' = [spc EXCEPT ![t] = "unlock"]
      /\ my[t].op = "get_all"
      /\ my' = [my EXCEPT ![t] = r] /\ locked' = locked
      /\ buckets' = buckets /\ balance' = balance /\ steady' = steady /\ ever' = ever
  BY DEF Copy, SetMove
<1>2. i \in Bucket /\ i \in Int
  BY <1>1, OwnFacts DEF CallOK, Holds, Bucket
<1>3. buckets[i] \in SUBSET Values /\ IsFiniteSet(buckets[i])
  BY <1>2 DEF SetIInv, SetTypeOK
<1>4. /\ more \in Seq(Values) /\ ToSet(more) = buckets[i] /\ IsInjective(more)
  BY <1>3, SetToSeqProperties, SeqMonotonic
<1>5. /\ my[t].ret \in Seq(Values) /\ IsInjective(my[t].ret)
      /\ \A v \in ToSet(my[t].ret) : Hash(v) < i
  BY <1>1, OwnFacts DEF GetAllOK, Passed, CallType
<1>6. \A v \in buckets[i] : Hash(v) = i
  BY <1>2 DEF SetIInv, BucketsOK
<1>7. ToSet(my[t].ret) \cap ToSet(more) = {}
  BY <1>2, <1>4, <1>5, <1>6
<1>8. /\ ret \in Seq(Values) /\ IsInjective(ret)
      /\ ToSet(ret) = ToSet(my[t].ret) \cup buckets[i]
  BY <1>4, <1>5, <1>7, ConcatInjective
<1> HIDE DEF more, ret
<1>9. /\ r \in CallType /\ r.ret = ret /\ r.i = i /\ r.op = "get_all"
  BY <1>1, <1>8, OwnFacts DEF CallType
<1> HIDE DEF r
<1>10. my'[t] = r /\ spc'[t] = "unlock"
  BY <1>1 DEF SetIInv, SetTypeOK
<1>11. \A v \in steady[t] : v \in Values /\ Hash(v) \in Int /\ (Hash(v) = i => v \in buckets[i])
  <2>1. steady[t] \subseteq Values /\ steady[t] \subseteq Content
    BY <1>1, OwnFacts DEF RecordsOK, SetIInv, SetTypeOK
  <2> QED
    BY <2>1, ContentIsHashed, HashAssumption DEF SetIInv, Bucket
<1>12. buckets[i] \subseteq ever[t]
  BY <1>1, <1>2, OwnFacts DEF RecordsOK, Content
<1>13. GetAllOK(t)'
  <2>1. ToSet(ret) \subseteq ever[t]
    BY <1>1, <1>8, <1>12, OwnFacts DEF GetAllOK
  <2>2. \A v \in ToSet(ret) : Hash(v) < i + 1
    <3>1. \A v \in ToSet(my[t].ret) : Hash(v) \in Int
      BY <1>5, HashAssumption DEF Bucket, ToSet
    <3> QED
      BY <1>2, <1>5, <1>6, <1>8, <3>1
  <2>3. \A v \in steady[t] : Hash(v) < i + 1 => v \in ToSet(ret)
    BY <1>1, <1>2, <1>8, <1>11, OwnFacts DEF GetAllOK, Passed
  <2> QED
    BY <1>1, <1>8, <1>9, <1>10, <2>1, <2>2, <2>3 DEF GetAllOK, Passed
<1>14. CallOK(t)' /\ ChangeOK(t)' /\ EmptyOK(t)'
  BY <1>2, <1>9, <1>10 DEF CallOK, ChangeOK, EmptyOK
<1>15. Holds(t) /\ Holds(t)'
  BY <1>1, <1>10 DEF Holds
<1>16. LocksOK' /\ locked' \in [Bucket -> BOOLEAN]
  BY <1>1, <1>9, <1>15, HolderLocks DEF SetIInv, SetTypeOK
<1> QED
  BY <1>1, <1>9, <1>13, <1>14, <1>16, LocalStep DEF SetPCs

\* pthread_spin_unlock: get_all has passed the bucket, the others return.
LEMMA UnlockKeeps ==
  ASSUME SetIInv, NEW t \in SetThreads, Unlock(t)
  PROVE  SetIInv'
<1> DEFINE i == my[t].i
           all == my[t].op = "get_all"
           l == IF all THEN "scan" ELSE "done"
           r == IF all THEN [my[t] EXCEPT !.i = i + 1] ELSE my[t]
<1>1. /\ spc[t] = "unlock" /\ spc' = [spc EXCEPT ![t] = l]
      /\ my' = [my EXCEPT ![t] = r]
      /\ locked' = [locked EXCEPT ![i] = FALSE]
      /\ buckets' = buckets /\ balance' = balance /\ steady' = steady /\ ever' = ever
  <2>1. CASE all
    BY <2>1 DEF Unlock, SetMove
  <2>2. CASE ~all
    BY <2>2 DEF Unlock, SetMove, SetIInv, SetTypeOK
  <2> QED
    BY <2>1, <2>2
<1>2. i \in Bucket /\ i \in Int /\ i + 1 \in 0..Size
  BY <1>1, OwnFacts, ConcurrentSetAssumption DEF CallOK, Holds, Bucket
<1>3. /\ r \in CallType /\ r.op = my[t].op /\ r.v = my[t].v /\ r.ret = my[t].ret
      /\ r.i = IF all THEN i + 1 ELSE i
  BY <1>2, OwnFacts DEF CallType
<1> HIDE DEF r
<1>4. my'[t] = r /\ spc'[t] = l
  BY <1>1 DEF SetIInv, SetTypeOK
<1>5. GetAllOK(t)'
  <2>1. CASE all
    BY <1>1, <1>3, <1>4, <2>1, OwnFacts DEF GetAllOK, Passed
  <2> QED
    BY <1>3, <1>4, <2>1 DEF GetAllOK
<1>6. CallOK(t)' /\ ChangeOK(t)' /\ EmptyOK(t)'
  BY <1>1, <1>3, <1>4, OwnFacts DEF CallOK, Holds, ChangeOK, EmptyOK
<1>7. LocksOK'
  <2>1. ~Holds(t)' /\ Holds(t)
    BY <1>1, <1>4 DEF Holds
  <2>2. \A u \in SetThreads : u # t => my'[u] = my[u] /\ (Holds(u)' <=> Holds(u))
    BY <1>1 DEF SetIInv, SetTypeOK, Holds
  <2>3. \A u \in SetThreads : u # t /\ Holds(u) => my[u].i # i /\ my[u].i \in Bucket
    BY <2>1, OwnFacts DEF SetIInv, LocksOK, CallOK
  <2> QED
    BY <1>1, <1>2, <2>1, <2>2, <2>3 DEF SetIInv, SetTypeOK, LocksOK
<1>8. locked' \in [Bucket -> BOOLEAN]
  BY <1>1 DEF SetIInv, SetTypeOK
<1> QED
  BY <1>1, <1>3, <1>5, <1>6, <1>7, <1>8, LocalStep DEF SetPCs

\* empty and get_all look at a bucket without its lock.  What stays in the set
\* is in it, so a bucket found empty has nothing that stays.
LEMMA ScanKeeps ==
  ASSUME SetIInv, NEW t \in SetThreads, Scan(t)
  PROVE  SetIInv'
<1> DEFINE i == my[t].i
<1>1. /\ spc[t] = "scan" /\ locked' = locked
      /\ buckets' = buckets /\ balance' = balance /\ steady' = steady /\ ever' = ever
  BY DEF Scan, SetMove
<1>2. my[t] \in CallType /\ i \in 0..Size /\ Size \in Nat
  BY OwnFacts, ConcurrentSetAssumption DEF CallType
<1>3. my[t].op \in {"empty", "get_all"}
  BY <1>1, OwnFacts DEF CallOK
<1>4. locked' \in [Bucket -> BOOLEAN]
  BY <1>1 DEF SetIInv, SetTypeOK
<1>5. /\ steady[t] \subseteq Values /\ steady[t] \subseteq Content
      /\ Content \subseteq ever[t]
  BY <1>1, OwnFacts DEF RecordsOK, SetIInv, SetTypeOK
<1>6. \A v \in steady[t] : Hash(v) \in Bucket /\ Hash(v) \in Int /\ v \in buckets[Hash(v)]
  BY <1>5, ContentIsHashed, HashAssumption DEF SetIInv, Bucket
<1>7. ASSUME NEW l \in {"scan", "done", "lock"}, NEW r, r.i \in 0..Size,
             spc' = [spc EXCEPT ![t] = l], my' = [my EXCEPT ![t] = r]
      PROVE  LocksOK'
  <2>1. ~Holds(t)' /\ \A u \in SetThreads : u # t => my'[u] = my[u] /\ (Holds(u)' <=> Holds(u))
    BY <1>7 DEF SetIInv, SetTypeOK, Holds
  <2> QED
    BY <1>1, <2>1 DEF SetIInv, LocksOK
<1>8. CASE i = Size
  <2>1. spc' = [spc EXCEPT ![t] = "done"] /\ my' = my /\ my' = [my EXCEPT ![t] = my[t]]
    BY <1>8 DEF Scan, SetMove, SetIInv, SetTypeOK
  <2>2. spc'[t] = "done"
    BY <2>1 DEF SetIInv, SetTypeOK
  <2>3. CallOK(t)' /\ ChangeOK(t)' /\ GetAllOK(t)' /\ EmptyOK(t)'
    BY <1>1, <1>3, <1>8, <2>1, <2>2, OwnFacts
       DEF CallOK, Holds, ChangeOK, GetAllOK, EmptyOK, Passed
  <2> QED
    BY <1>1, <1>2, <1>4, <1>7, <2>1, <2>3, LocalStep DEF SetPCs
<1>9. CASE i # Size /\ buckets[i] = {}
  <2> DEFINE r == [my[t] EXCEPT !.i = i + 1]
  <2>1. spc' = [spc EXCEPT ![t] = "scan"] /\ my' = [my EXCEPT ![t] = r]
    BY <1>9 DEF Scan, SetMove
  <2>2. /\ r \in CallType /\ r.i = i + 1 /\ r.op = my[t].op /\ r.ret = my[t].ret
        /\ r.found = my[t].found /\ r.i \in 0..Size
    BY <1>2, <1>9 DEF CallType
  <2> HIDE DEF r
  <2>3. my'[t] = r /\ spc'[t] = "scan"
    BY <2>1 DEF SetIInv, SetTypeOK
  <2>4. \A v \in steady[t] : Hash(v) # i
    BY <1>6, <1>9
  <2>5. GetAllOK(t)'
    <3>1. CASE my[t].op = "get_all"
      <4>1. my[t].ret \in Seq(Values)
        BY <1>2 DEF CallType
      <4>2. \A v \in ToSet(my[t].ret) : Hash(v) \in Int
        BY <4>1, HashAssumption DEF Bucket, ToSet
      <4> QED
        BY <1>1, <1>2, <1>6, <2>2, <2>3, <2>4, <3>1, <4>2, OwnFacts DEF GetAllOK, Passed
    <3> QED
      BY <2>2, <2>3, <3>1 DEF GetAllOK
  <2>6. EmptyOK(t)'
    <3> SUFFICES ASSUME my[t].op = "empty"
                 PROVE  /\ my[t].found => ever[t] # {}
                        /\ ~my[t].found => \A v \in steady[t] : Hash(v) >= i + 1
      BY <1>1, <2>2, <2>3 DEF EmptyOK
    <3>1. /\ my[t].found => ever[t] # {}
          /\ ~my[t].found => \A v \in steady[t] : Hash(v) >= i
      BY OwnFacts DEF EmptyOK
    <3>2. \A v \in steady[t] : Hash(v) >= i => Hash(v) >= i + 1
      BY <1>2, <1>6, <2>4
    <3> QED
      BY <3>1, <3>2
  <2>7. CallOK(t)' /\ ChangeOK(t)'
    BY <1>3, <2>2, <2>3 DEF CallOK, Holds, ChangeOK
  <2> QED
    BY <1>1, <1>4, <1>7, <2>1, <2>2, <2>5, <2>6, <2>7, LocalStep DEF SetPCs
<1>10. CASE i # Size /\ buckets[i] # {}
  <2> DEFINE r == [my[t] EXCEPT !.found = TRUE]
             l == IF my[t].op = "empty" THEN "done" ELSE "lock"
  <2>1. spc' = [spc EXCEPT ![t] = l] /\ my' = [my EXCEPT ![t] = r]
    BY <1>10 DEF Scan, SetMove
  <2>2. /\ r \in CallType /\ r.i = i /\ r.op = my[t].op /\ r.ret = my[t].ret
        /\ r.found = TRUE /\ r.i \in 0..Size
    BY <1>2 DEF CallType
  <2> HIDE DEF r
  <2>3. my'[t] = r /\ spc'[t] = l
    BY <2>1 DEF SetIInv, SetTypeOK
  <2>4. i \in Bucket
    BY <1>2, <1>10 DEF Bucket
  <2>5. ever[t] # {}
    BY <1>5, <1>10, <2>4 DEF Content
  <2>6. CallOK(t)' /\ ChangeOK(t)' /\ EmptyOK(t)'
    BY <1>1, <1>3, <2>2, <2>3, <2>4, <2>5 DEF CallOK, Holds, ChangeOK, EmptyOK
  <2>7. GetAllOK(t)'
    BY <1>1, <2>2, <2>3, OwnFacts DEF GetAllOK, Passed
  <2> QED
    BY <1>1, <1>4, <1>7, <2>1, <2>2, <2>6, <2>7, LocalStep DEF SetPCs
<1> QED
  BY <1>8, <1>9, <1>10

\* A value is inserted that is not in the set, or erased that is: what the
\* thread found holds until it changes the bucket, since it has the lock.  The
\* calls of other threads learn of the change through ever and steady.
LEMMA ChangeKeeps ==
  ASSUME SetIInv, NEW t \in SetThreads, Change(t)
  PROVE  SetIInv'
<1> DEFINE v == my[t].v
           i == my[t].i
           ins == my[t].op = "insert"
<1>1. /\ spc[t] = "change" /\ spc' = [spc EXCEPT ![t] = "unlock"]
      /\ my' = my /\ locked' = locked
  BY DEF Change, SetMove
<1>2. /\ my[t].op \in {"insert", "erase"} /\ v \in Values /\ i = Hash(v) /\ i \in Bucket
      /\ v \in buckets[i] <=> my[t].op = "erase"
  BY <1>1, OwnFacts DEF CallOK, Holds, ChangeOK
<1>3. spc'[t] = "unlock" /\ \A u \in SetThreads : u # t => spc'[u] = spc[u]
  BY <1>1 DEF SetIInv, SetTypeOK
<1>4. /\ buckets' = [buckets EXCEPT ![i] = IF ins THEN @ \cup {v} ELSE @ \ {v}]
      /\ balance' = [balance EXCEPT ![v] = IF ins THEN @ + 1 ELSE @ - 1]
      /\ ever' = IF ins THEN [u \in SetThreads |-> ever[u] \cup {v}] ELSE ever
      /\ steady' = IF ins THEN steady ELSE [u \in SetThreads |-> steady[u] \ {v}]
  <2>1. CASE ins
    BY <2>1 DEF Change
  <2>2. CASE ~ins
    BY <1>2, <2>2 DEF Change
  <2> QED
    BY <2>1, <2>2
<1>5. /\ buckets'[i] = IF ins THEN buckets[i] \cup {v} ELSE buckets[i] \ {v}
      /\ \A j \in Bucket : j # i => buckets'[j] = buckets[j]
  BY <1>2, <1>4 DEF SetIInv, SetTypeOK
<1>6. SetTypeOK'
  <2>1. buckets' \in [Bucket -> SUBSET Values]
    BY <1>2, <1>4 DEF SetIInv, SetTypeOK
  <2>2. \A j \in Bucket : IsFiniteSet(buckets'[j])
    <3>1. \A j \in Bucket : IsFiniteSet(buckets[j])
      BY DEF SetIInv, SetTypeOK
    <3>2. IsFiniteSet(buckets[i] \cup {v}) /\ IsFiniteSet(buckets[i] \ {v})
      BY <1>2, <3>1, FS_AddElement, FS_RemoveElement
    <3> QED
      BY <1>5, <3>1, <3>2
  <2>3. spc' \in [SetThreads -> SetPCs]
    BY <1>1 DEF SetIInv, SetTypeOK, SetPCs
  <2>4. balance' \in [Values -> Int]
    <3> DEFINE n == IF ins THEN balance[v] + 1 ELSE balance[v] - 1
    <3>1. balance \in [Values -> Int] /\ n \in Int
      BY <1>2 DEF SetIInv, SetTypeOK
    <3>2. balance' = [balance EXCEPT ![v] = n]
      BY <1>4
    <3> QED
      BY <3>1, <3>2
  <2>5. steady' \in [SetThreads -> SUBSET Values] /\ ever' \in [SetThreads -> SUBSET Values]
    BY <1>2, <1>4 DEF SetIInv, SetTypeOK
  <2> QED
    BY <1>1, <2>1, <2>2, <2>3, <2>4, <2>5 DEF SetIInv, SetTypeOK
<1>7. BucketsOK'
  BY <1>2, <1>5 DEF SetIInv, BucketsOK
<1>8. \A u \in Values : u # v => (u \in Content' <=> u \in Content)
  <2>1. \A u \in Values : u # v => (u \in buckets'[Hash(u)] <=> u \in buckets[Hash(u)])
    BY <1>5, HashAssumption
  <2>2. \A u \in Values : u \in Content' <=> u \in buckets'[Hash(u)]
    BY <1>6, <1>7, HashAssumption DEF SetTypeOK, BucketsOK, Content
  <2> QED
    BY <2>1, <2>2, ContentIsHashed DEF SetIInv
<1>9. (v \in Content <=> ~ins) /\ (v \in Content' <=> ins)
  <2>1. v \in Content' <=> v \in buckets'[i]
    <3>1. v \in buckets'[i] => v \in Content'
      BY <1>2 DEF Content
    <3>2. ASSUME NEW j \in Bucket, v \in buckets'[j] PROVE j = i
      BY <1>2, <1>7, <3>2 DEF BucketsOK
    <3> QED
      BY <3>1, <3>2 DEF Content
  <2>2. v \in Content <=> v \in buckets[i]
    BY <1>2, ContentIsHashed DEF SetIInv
  <2>3. v \in buckets'[i] <=> ins
    BY <1>2, <1>5
  <2> HIDE DEF v, i
  <2> QED
    BY <1>2, <2>1, <2>2, <2>3
<1>10. TrueInTurn'
  BY <1>2, <1>4, <1>8, <1>9 DEF SetIInv, SetTypeOK, TrueInTurn
<1>11. LocksOK'
  <2>1. \A u \in SetThreads : Holds(u)' <=> Holds(u)
    BY <1>1, <1>3 DEF Holds
  <2> QED
    BY <1>1, <2>1 DEF SetIInv, LocksOK
<1>12. ASSUME NEW u \in SetThreads
       PROVE  (CallOK(u) /\ ChangeOK(u) /\ GetAllOK(u) /\ EmptyOK(u) /\ RecordsOK(u))'
  <2>1. CallOK(u)'
    BY <1>1, <1>2, <1>3, OwnFacts DEF CallOK, Holds
  <2>2. ChangeOK(u)'
    <3>1. CASE u = t
      BY <1>3, <3>1 DEF ChangeOK
    <3>2. CASE u # t /\ spc[u] = "change"
      <4>1. my[u].i # i /\ my[u].i \in Bucket
        BY <1>1, <3>2, OwnFacts DEF SetIInv, LocksOK, Holds, CallOK
      <4> QED
        BY <1>1, <1>3, <1>5, <3>2, <4>1, OwnFacts DEF ChangeOK
    <3> QED
      BY <1>3, <3>1, <3>2 DEF ChangeOK
  <2>3. ever[u] \subseteq ever'[u] /\ steady'[u] \subseteq steady[u]
    BY <1>4 DEF SetIInv, SetTypeOK
  <2>4. GetAllOK(u)'
    <3>1. CASE u = t
      BY <1>1, <1>2, <3>1 DEF GetAllOK
    <3>2. CASE u # t
      BY <1>1, <1>3, <2>3, <3>2, OwnFacts DEF GetAllOK, Passed
    <3> QED
      BY <3>1, <3>2
  <2>5. EmptyOK(u)'
    <3>1. CASE u = t
      BY <1>1, <1>2, <3>1 DEF EmptyOK
    <3>2. CASE u # t
      BY <1>1, <1>3, <2>3, <3>2, OwnFacts DEF EmptyOK
    <3> QED
      BY <3>1, <3>2
  <2>6. RecordsOK(u)'
    <3> SUFFICES ASSUME spc'[u] # "ready"
                 PROVE  steady'[u] \subseteq Content' /\ Content' \subseteq ever'[u]
      BY DEF RecordsOK
    <3>1. spc[u] # "ready"
      BY <1>1, <1>3
    <3>2. steady[u] \subseteq Content /\ Content \subseteq ever[u]
      BY <3>1, OwnFacts DEF RecordsOK
    <3>3. Content' \subseteq Values /\ steady'[u] \subseteq Values
      BY <1>6 DEF SetTypeOK, Content
    <3>4. ins => v \in ever'[u]
      BY <1>4
    <3>5. v \notin steady'[u] \/ ins
      BY <1>4
    <3> QED
      BY <1>8, <1>9, <2>3, <3>2, <3>3, <3>4, <3>5
  <2> QED
    BY <2>1, <2>2, <2>4, <2>5, <2>6
<1> QED
  BY <1>6, <1>7, <1>10, <1>11, <1>12 DEF SetIInv

\* The call returns.
LEMMA ReturnKeeps ==
  ASSUME SetIInv, NEW t \in SetThreads, SetReturn(t)
  PROVE  SetIInv'
<1>1. /\ spc[t] = "done" /\ spc' = [spc EXCEPT ![t] = "ready"]
      /\ my' = [my EXCEPT ![t] = NoCall]
      /\ steady' = [steady EXCEPT ![t] = {}] /\ ever' = [ever EXCEPT ![t] = {}]
      /\ buckets' = buckets /\ locked' = locked /\ balance' = balance
  BY DEF SetReturn, SetMove
<1>2. NoCall \in CallType /\ NoCall.op = "none"
  BY ConcurrentSetAssumption DEF NoCall, NewCall, CallType, Operations
<1>3. SetTypeOK'
  BY <1>1, <1>2 DEF SetIInv, SetTypeOK, CallType, SetPCs
<1>4. Content' = Content
  BY <1>1 DEF Content
<1>5. BucketsOK' /\ TrueInTurn'
  BY <1>1, <1>4 DEF SetIInv, BucketsOK, TrueInTurn
<1>6. my'[t].op = "none" /\ spc'[t] = "ready"
  BY <1>1, <1>2 DEF SetIInv, SetTypeOK
<1>7. \A u \in SetThreads : u # t =>
        /\ my'[u] = my[u] /\ spc'[u] = spc[u]
        /\ steady'[u] = steady[u] /\ ever'[u] = ever[u]
  BY <1>1 DEF SetIInv, SetTypeOK
<1>8. LocksOK'
  <2>1. ~Holds(t)' /\ \A u \in SetThreads : u # t => (Holds(u)' <=> Holds(u))
    BY <1>6, <1>7 DEF Holds
  <2> QED
    BY <1>1, <1>7, <2>1 DEF SetIInv, LocksOK
<1>9. ASSUME NEW u \in SetThreads
      PROVE  (CallOK(u) /\ ChangeOK(u) /\ GetAllOK(u) /\ EmptyOK(u) /\ RecordsOK(u))'
  <2>1. CASE u = t
    BY <1>6, <2>1
       DEF CallOK, Holds, ChangeOK, GetAllOK, EmptyOK, RecordsOK
  <2>2. CASE u # t
    BY <1>1, <1>4, <1>7, <2>2
       DEF SetIInv, CallOK, Holds, ChangeOK, GetAllOK, EmptyOK, RecordsOK, Passed
  <2> QED
    BY <2>1, <2>2
<1> QED
  BY <1>3, <1>5, <1>8, <1>9 DEF SetIInv

-----------------------------------------------------------------------------

\* The inductive invariant implies what callers rely on.
LEMMA InvImpliesSetInv == SetIInv => SetInv
<1> SUFFICES ASSUME SetIInv, NEW t \in SetThreads, spc[t] = "done"
             PROVE  /\ my[t].op = "get_all" =>
                         /\ steady[t] \subseteq ToSet(my[t].ret)
                         /\ ToSet(my[t].ret) \subseteq ever[t]
                         /\ IsInjective(my[t].ret)
                    /\ my[t].op = "empty" =>
                         IF my[t].found THEN ever[t] # {} ELSE steady[t] = {}
  BY DEF SetInv, ScansSound, SetIInv
<1>1. \A v \in steady[t] : Hash(v) \in Int /\ Hash(v) < Size
  BY HashAssumption, ConcurrentSetAssumption DEF SetIInv, SetTypeOK, Bucket
<1>2. Size \in Nat
  BY ConcurrentSetAssumption
<1>3. CASE my[t].op = "get_all"
  BY <1>1, <1>3, OwnFacts DEF GetAllOK, Passed
<1>4. CASE my[t].op = "empty"
  <2>1. CASE my[t].found
    BY <1>4, <2>1, OwnFacts DEF EmptyOK
  <2>2. CASE ~my[t].found
    <3>1. my[t].i = Size /\ \A v \in steady[t] : Hash(v) >= my[t].i
      BY <1>4, <2>2, OwnFacts DEF EmptyOK
    <3>2. steady[t] = {}
      BY <1>1, <1>2, <3>1
    <3> QED
      BY <1>4, <2>2, <3>2
  <2> QED
    BY <2>1, <2>2
<1> QED
  BY <1>3, <1>4

\* insert and erase of a value are answered with true in turn, however many
\* threads call them; get_all returns, once, every value that stays in the set
\* during the call and no value that was never in it, and empty is not misled
\* by a value that stays.
THEOREM SetAnswersSound == SetSpec => []SetInv
<1>1. SetInit => SetIInv
  <2> SUFFICES ASSUME SetInit PROVE SetIInv
    OBVIOUS
  <2>1. NoCall \in CallType /\ NoCall.op = "none"
    BY ConcurrentSetAssumption DEF NoCall, NewCall, CallType, Operations
  <2>2. SetTypeOK
    BY <2>1, FS_EmptySet DEF SetInit, SetTypeOK, CallType, SetPCs
  <2>3. Content = {}
    BY DEF SetInit, Content
  <2>4. TrueInTurn /\ LocksOK /\ BucketsOK
    BY <2>3 DEF SetInit, TrueInTurn, LocksOK, BucketsOK, Holds
  <2>5. \A t \in SetThreads : my[t].op = "none" /\ spc[t] = "ready"
    BY <2>1 DEF SetInit
  <2> QED
    BY <2>2, <2>4, <2>5
       DEF SetIInv, CallOK, Holds, ChangeOK, GetAllOK, EmptyOK, RecordsOK
<1>2. SetIInv /\ [SetNext]_setVars => SetIInv'
  <2> SUFFICES ASSUME SetIInv, [SetNext]_setVars PROVE SetIInv'
    OBVIOUS
  <2>1. CASE UNCHANGED setVars
    <3>1. Content' = Content
      BY <2>1 DEF setVars, Content
    <3> QED
      BY <2>1, <3>1
         DEF setVars, SetIInv, SetTypeOK, LocksOK, BucketsOK, TrueInTurn, CallOK, Holds,
             ChangeOK, GetAllOK, EmptyOK, RecordsOK, Passed
  <2>2. CASE SetNext
    <3>1. PICK t \in SetThreads :
            \/ \E v \in Values : CallInsert(t, v) \/ CallErase(t, v)
            \/ CallEmpty(t) \/ CallGetAll(t)
            \/ Lock(t) \/ Find(t) \/ Change(t) \/ Copy(t) \/ Unlock(t)
            \/ Scan(t) \/ SetReturn(t)
      BY <2>2 DEF SetNext
    <3>2. CASE \E v \in Values : CallInsert(t, v) \/ CallErase(t, v)
      BY <3>2, CallKeeps DEF CallInsert, CallErase
    <3>3. CASE CallEmpty(t) \/ CallGetAll(t)
      BY <3>3, CallKeeps DEF CallEmpty, CallGetAll
    <3> QED
      BY <3>1, <3>2, <3>3, LockKeeps, FindKeeps, ChangeKeeps, CopyKeeps, UnlockKeeps,
         ScanKeeps, ReturnKeeps
  <2> QED
    BY <2>1, <2>2
<1> QED
  BY <1>1, <1>2, InvImpliesSetInv, PTL DEF SetSpec

-----------------------------------------------------------------------------
(***************************************************************************)
(* The single-producer queue: the inductive invariant.                     *)
(***************************************************************************)

\* How many steps it is from x to y in a ring of n.
Steps(n, x, y) == IF x <= y THEN y - x ELSE (y - x) + n

\* How many elements a block holds.
Used(B) == Steps(B.size, B.front, B.tail)

BlockOf(n) ==
  [front : 0..(n - 1), localTail : 0..(n - 1), tail : 0..(n - 1), localFront : 0..(n - 1),
   next : Nat, size : {n}, data : [0..(n - 1) -> Nat]]

\* There is room for one more, by localFront.
HasRoom(B) == Steps(B.size, B.localFront, B.tail) < B.size - 1

AnyBlock == UNION {BlockOf(n) : n \in Nat}

\* The copies are behind what they are copies of: localFront says less room and
\* localTail fewer elements than there are.
BlockOK(B) ==
  /\ B.size \in Nat /\ B.size >= 2 /\ B \in BlockOf(B.size)
  /\ Used(B) <= Steps(B.size, B.localFront, B.tail)
  /\ Steps(B.size, B.front, B.localTail) <= Used(B)

ProducerPoints ==
  {"ready", "write", "tail", "next", "reuse", "alloc", "link", "advance", "full", "signal",
   "post", "gone"}

ConsumerPoints ==
  {"ready", "look", "block", "again", "next", "forward", "element", "front", "empty",
   "peeked", "spin", "sleep", "gone"}

QTypeOK ==
  /\ prog \in Programs
  /\ blocks \in Seq(AnyBlock)
  /\ \A b \in DOMAIN blocks : BlockOK(blocks[b])
  /\ largestBlockSize \in Nat /\ largestBlockSize >= 2
  /\ mallocs \in Nat /\ m_count \in Int /\ m_sema \in Nat
  /\ p \in [at : ProducerPoints, canAlloc : BOOLEAN, sent : Nat, seen : Nat, left : Nat]
  /\ c \in [at : ConsumerPoints, op : Ops \cup {"none"}, next : Nat, val : Nat, seen : Nat,
            left : Nat]
  /\ out \in Seq(Nat)

\* The blocks in the order of the ring, from frontBlock on; tailBlock is the t-th.
\* A block that the producer has made and not linked yet is not among them.
RingOK(s, t) ==
  /\ s \in Seq(DOMAIN blocks)
  /\ \A i, j \in 1..Len(s) : s[i] = s[j] => i = j
  /\ \A i \in 1..Len(s) : blocks[s[i]].next = s[IF i = Len(s) THEN 1 ELSE i + 1]
  /\ t \in 1..Len(s)
  /\ s[1] = frontBlock /\ s[t] = tailBlock
  /\ \A b \in DOMAIN blocks :
       IF p.at = "link" /\ b = Len(blocks) THEN \A i \in 1..Len(s) : s[i] # b
       ELSE \E i \in 1..Len(s) : s[i] = b

\* The blocks between the two hold elements, those behind the tail none but the
\* one the producer is about to advance to.
FillOK(s, t) ==
  /\ \A i \in 2..t : Used(blocks[s[i]]) > 0
  /\ \A i \in (t + 1)..Len(s) :
       Used(blocks[s[i]]) = IF p.at = "advance" /\ i = t + 1 THEN 1 ELSE 0
  /\ p.at \in {"reuse", "advance"} => t < Len(s)

\* base[b] is the number of the element at the front of block b.
BaseOK(s, t, base) ==
  /\ base \in [DOMAIN blocks -> Nat]
  /\ base[frontBlock] = Len(out) + IF c.at = "front" THEN 0 ELSE 1
  /\ base[tailBlock] + Used(blocks[tailBlock]) = Element
  /\ \A i \in 1..t : base[s[i]] + Used(blocks[s[i]]) <= Element
  /\ \A i \in 1..(t - 1) : base[s[i + 1]] = base[s[i]] + Used(blocks[s[i]])
  /\ p.at = "advance" => base[blocks[tailBlock].next] = Element

\* The consumer has read slot i and not advanced front yet; the producer has
\* written it and not advanced tail yet.
HasRead(b, i) == c.at = "front" /\ b = frontBlock /\ i = blocks[b].front
HasWritten(b, i) == p.at = "tail" /\ b = tailBlock /\ i = blocks[b].tail

\* What is in slot i of block b.
SlotIs(b, i, base) ==
  LET B == blocks[b]
  IN  CASE HasRead(b, i) -> Empty
        [] HasWritten(b, i) -> Element
        [] ~HasRead(b, i) /\ ~HasWritten(b, i) ->
             IF Steps(B.size, B.front, i) < Used(B)
             THEN base[b] + Steps(B.size, B.front, i) ELSE Empty

SlotsOK(base) ==
  \A b \in DOMAIN blocks : \A i \in 0..(blocks[b].size - 1) :
    blocks[b].data[i] = SlotIs(b, i, base)

\* The producer.
ProducerOK(base) ==
  /\ p.at \in {"write", "tail"} => HasRoom(blocks[tailBlock])
  /\ p.at = "link" =>
       LET B == blocks[Len(blocks)]
       IN  Used(B) = 1 /\ B.next = blocks[tailBlock].next /\ base[Len(blocks)] = Element

\* The consumer has taken a unit for an element that it has not read yet.
HasUnit == prog.blocking /\ c.op # "peek"
           /\ c.at \in {"look", "block", "again", "next", "forward", "element"}

ConsumerOK ==
  /\ c.at \in {"element", "front"} => blocks[frontBlock].front # blocks[frontBlock].localTail
  /\ c.at \in {"again", "next", "forward"} => frontBlock # tailBlock
  /\ c.at \in {"next", "forward"} =>
       Used(blocks[frontBlock]) = 0 /\ c.next = blocks[frontBlock].next
  /\ c.at = "forward" => blocks[c.next].front # blocks[c.next].localTail
  /\ c.at = "block" /\ frontBlock = tailBlock => c.seen = 0
  /\ c.at = "block" /\ HasUnit => c.seen > 0
  /\ c.at = "empty" => c.seen = 0 /\ (prog.blocking => c.op = "peek")
  /\ c.at = "peeked" => c.val = Len(out) + 1 /\ c.val <= p.sent
  /\ c.at = "front" => c.op # "peek"

\* Every element that is not claimed has a unit of the semaphore, or is about to.
SemOK ==
  /\ ~prog.blocking => /\ p.at \notin {"signal", "post"} /\ c.at \notin {"spin", "sleep"}
                       /\ m_count = 0 /\ m_sema = 0
  /\ c.at \in {"spin", "sleep"} => c.op = "try_dequeue"
  /\ prog.blocking =>
       /\ m_count >= IF c.at = "sleep" THEN -1 ELSE 0
       /\ m_sema + (IF p.at = "post" THEN 1 ELSE 0)
            = IF c.at = "sleep" /\ m_count >= 0 THEN 1 ELSE 0
       /\ p.sent - Len(out)
            = (IF m_count > 0 THEN m_count ELSE 0) + (IF p.at = "signal" THEN 1 ELSE 0)
              + (IF HasUnit THEN 1 ELSE 0)
              + (IF c.at = "sleep" /\ m_count >= 0 THEN 1 ELSE 0)

AliveOK(s, t, base) ==
  /\ RingOK(s, t) /\ FillOK(s, t) /\ BaseOK(s, t, base) /\ SlotsOK(base) /\ ProducerOK(base)
  /\ ConsumerOK /\ SemOK

\* Nobody has destroyed the queue.
Alive ==
  \E s \in Seq(DOMAIN blocks), t \in Nat, base \in [DOMAIN blocks -> Nat] :
    AliveOK(s, t, base)

QIInv ==
  /\ QTypeOK
  /\ InOrder
  /\ p.at = "gone" <=> c.at = "gone"
  /\ p.at = "gone" => NothingLeaks
  /\ p.at # "gone" => Alive

-----------------------------------------------------------------------------
(***************************************************************************)
(* Rings of slots.                                                         *)
(***************************************************************************)

\* The slot after x in a ring of n.
Nxt(n, x) == IF x = n - 1 THEN 0 ELSE x + 1

\* A remainder is what it should be.
LEMMA Remainder ==
  ASSUME NEW n \in Nat \ {0}, NEW x \in Int
  PROVE  /\ x \in 0..(n - 1) => x % n = x
         /\ x = n => x % n = 0
         /\ x < 0 /\ x + n >= 0 => x % n = x + n
<1>1. /\ x = n * (x \div n) + (x % n) /\ x % n \in 0..(n - 1) /\ x \div n \in Int
  OBVIOUS
<1>2. PICK q \in Int, r \in 0..(n - 1) : x = n * q + r /\ r = x % n
  BY <1>1
<1>3. ASSUME x \in 0..(n - 1) PROVE q = 0
  <2>1. CASE q >= 1
    <3>1. n * q >= n
      BY <2>1
    <3> QED
      BY <1>2, <1>3, <3>1
  <2>2. CASE q <= -1
    <3>1. n * q <= -n
      BY <2>2
    <3> QED
      BY <1>2, <1>3, <3>1
  <2> QED
    BY <2>1, <2>2
<1>4. ASSUME x = n PROVE q = 1
  <2>1. CASE q >= 2
    <3>1. n * q >= 2 * n
      BY <2>1
    <3> QED
      BY <1>2, <1>4, <3>1
  <2>2. CASE q <= 0
    <3>1. n * q <= 0
      BY <2>2
    <3> QED
      BY <1>2, <1>4, <3>1
  <2> QED
    BY <2>1, <2>2
<1>5. ASSUME x < 0, x + n >= 0 PROVE q = -1
  <2>1. CASE q >= 0
    <3>1. n * q >= 0
      BY <2>1
    <3> QED
      BY <1>2, <1>5, <3>1
  <2>2. CASE q <= -2
    <3>1. n * q <= -(2 * n)
      BY <2>2
    <3> QED
      BY <1>2, <1>5, <3>1
  <2> QED
    BY <2>1, <2>2
<1> QED
  BY <1>2, <1>3, <1>4, <1>5

\* After and the differences of indices in the code.
LEMMA RingArithmetic ==
  ASSUME NEW n \in Nat \ {0}, NEW x \in 0..(n - 1), NEW y \in 0..(n - 1)
  PROVE  /\ (x + 1) % n = Nxt(n, x)
         /\ (y - x) % n = Steps(n, x, y)
<1>1. (x + 1) % n = Nxt(n, x)
  <2>1. x + 1 \in Int /\ (x + 1 \in 0..(n - 1) \/ x + 1 = n)
    OBVIOUS
  <2> QED
    BY <2>1, Remainder DEF Nxt
<1>2. (y - x) % n = Steps(n, x, y)
  <2>1. PICK z \in Int : z = y - x
    OBVIOUS
  <2>2. IF x <= y THEN z \in 0..(n - 1) ELSE z < 0 /\ z + n >= 0
    BY <2>1
  <2>3. z % n = IF x <= y THEN z ELSE z + n
    BY <2>2, Remainder
  <2> QED
    BY <2>1, <2>3 DEF Steps
<1> QED
  BY <1>1, <1>2

\* One step more at either end.
LEMMA StepsFacts ==
  ASSUME NEW n \in Nat, n >= 2, NEW x \in 0..(n - 1), NEW y \in 0..(n - 1)
  PROVE  /\ Steps(n, x, y) \in 0..(n - 1)
         /\ Steps(n, x, y) = 0 <=> x = y
         /\ Nxt(n, x) \in 0..(n - 1) /\ Nxt(n, x) # x
         /\ Nxt(n, y) = x <=> Steps(n, x, y) = n - 1
         /\ Steps(n, x, y) < n - 1 => Steps(n, x, Nxt(n, y)) = Steps(n, x, y) + 1
         /\ x # y => Steps(n, Nxt(n, x), y) = Steps(n, x, y) - 1
         /\ Steps(n, Nxt(n, x), x) = n - 1
BY DEF Steps, Nxt

\* The indices up to the tail block and from there on.
LEMMA Indices ==
  ASSUME NEW n \in Nat, NEW t \in 1..n
  PROVE  /\ \A i \in 1..t : i \in 1..n /\ i # t + 1
         /\ \A i \in 2..t : i \in 1..n /\ i \in 2..n /\ i # 1 /\ i # t + 1 /\ i \in 1..t
         /\ \A i \in (t + 1)..n : i \in 1..n /\ i \in 2..n /\ i # 1 /\ i # t
         /\ \A i \in 1..(t - 1) : i \in 1..t /\ i + 1 \in 1..t /\ i # t
OBVIOUS

\* Different slots are a different number of steps away.
LEMMA StepsInjective ==
  ASSUME NEW n \in Nat, n >= 2, NEW x \in 0..(n - 1), NEW y \in 0..(n - 1),
         NEW z \in 0..(n - 1), Steps(n, x, y) = Steps(n, x, z)
  PROVE  y = z
BY DEF Steps

-----------------------------------------------------------------------------
(***************************************************************************)
(* Blocks.                                                                 *)
(***************************************************************************)

\* The fields of a block.
LEMMA BlockFacts ==
  ASSUME NEW B, BlockOK(B)
  PROVE  /\ B \in AnyBlock /\ B \in BlockOf(B.size)
         /\ B.size \in Nat \ {0} /\ B.size >= 2
         /\ B.front \in 0..(B.size - 1) /\ B.tail \in 0..(B.size - 1)
         /\ B.localFront \in 0..(B.size - 1) /\ B.localTail \in 0..(B.size - 1)
         /\ B.next \in Nat /\ B.data \in [0..(B.size - 1) -> Nat]
         /\ Used(B) \in 0..(B.size - 1)
         /\ Used(B) = 0 <=> B.front = B.tail
<1>1. /\ B.size \in Nat \ {0} /\ B.size >= 2
      /\ B.front \in 0..(B.size - 1) /\ B.tail \in 0..(B.size - 1)
      /\ B.localFront \in 0..(B.size - 1) /\ B.localTail \in 0..(B.size - 1)
      /\ B.next \in Nat /\ B.data \in [0..(B.size - 1) -> Nat] /\ B \in BlockOf(B.size)
  BY DEF BlockOK, BlockOf
<1>2. B \in AnyBlock
  BY <1>1 DEF AnyBlock
<1>3. Used(B) \in 0..(B.size - 1) /\ (Used(B) = 0 <=> B.front = B.tail)
  <2>1. PICK n \in Nat : n = B.size /\ n >= 2
    BY <1>1
  <2>2. B.front \in 0..(n - 1) /\ B.tail \in 0..(n - 1)
    BY <1>1, <2>1
  <2>3. /\ Steps(n, B.front, B.tail) \in 0..(n - 1)
        /\ Steps(n, B.front, B.tail) = 0 <=> B.front = B.tail
    <3>1. PICK g \in 0..(n - 1), l \in 0..(n - 1) : g = B.front /\ l = B.tail
      BY <2>2
    <3>2. Steps(n, g, l) \in 0..(n - 1) /\ (Steps(n, g, l) = 0 <=> g = l)
      BY <2>1 DEF Steps
    <3> QED
      BY <3>1, <3>2
  <2> QED
    BY <2>1, <2>3 DEF Used
<1> QED
  BY <1>1, <1>2, <1>3

\* A copy is taken.
LEMMA BlockCopies ==
  ASSUME NEW B, BlockOK(B)
  PROVE  /\ BlockOK([B EXCEPT !.localFront = B.front])
         /\ BlockOK([B EXCEPT !.localTail = B.tail])
<1>1. BlockOK([B EXCEPT !.localFront = B.front])
  <2> DEFINE D == [B EXCEPT !.localFront = B.front]
  <2>1. /\ D \in BlockOf(B.size) /\ D.size = B.size /\ D.front = B.front /\ D.tail = B.tail
        /\ D.localFront = B.front /\ D.localTail = B.localTail
    BY BlockFacts DEF BlockOf
  <2>2. Used(D) = Used(B) /\ Used(D) = Steps(B.size, B.front, B.tail)
    BY <2>1 DEF Used
  <2> HIDE DEF D
  <2>3. /\ Used(B) \in Nat /\ B.size \in Nat /\ B.size >= 2
        /\ Used(B) <= Steps(B.size, B.localFront, B.tail)
        /\ Steps(B.size, B.front, B.localTail) <= Used(B)
    BY BlockFacts DEF BlockOK
  <2>4. BlockOK(D)
    BY <2>1, <2>2, <2>3 DEF BlockOK
  <2> QED
    BY <2>4 DEF D
<1>2. BlockOK([B EXCEPT !.localTail = B.tail])
  <2> DEFINE D == [B EXCEPT !.localTail = B.tail]
  <2>1. /\ D \in BlockOf(B.size) /\ D.size = B.size /\ D.front = B.front /\ D.tail = B.tail
        /\ D.localFront = B.localFront /\ D.localTail = B.tail
    BY BlockFacts DEF BlockOf
  <2>2. Used(D) = Used(B) /\ Used(D) = Steps(B.size, B.front, B.tail)
    BY <2>1 DEF Used
  <2> HIDE DEF D
  <2>3. /\ Used(B) \in Nat /\ B.size \in Nat /\ B.size >= 2
        /\ Used(B) <= Steps(B.size, B.localFront, B.tail)
        /\ Steps(B.size, B.front, B.localTail) <= Used(B)
    BY BlockFacts DEF BlockOK
  <2>4. BlockOK(D)
    BY <2>1, <2>2, <2>3 DEF BlockOK
  <2> QED
    BY <2>4 DEF D
<1> QED
  BY <1>1, <1>2

\* A slot is written.
LEMMA BlockData ==
  ASSUME NEW B, BlockOK(B), NEW i \in 0..(B.size - 1), NEW v \in Nat,
         NEW D, D = [B EXCEPT !.data[i] = v]
  PROVE  /\ BlockOK(D) /\ Used(D) = Used(B) /\ D.size = B.size /\ D.front = B.front
         /\ D.tail = B.tail /\ D.localTail = B.localTail /\ D.next = B.next
         /\ D.data = [B.data EXCEPT ![i] = v]
<1>1. /\ D \in BlockOf(B.size) /\ D.size = B.size /\ D.front = B.front /\ D.tail = B.tail
      /\ D.localFront = B.localFront /\ D.localTail = B.localTail /\ D.next = B.next
      /\ D.data = [B.data EXCEPT ![i] = v]
  <2>1. B \in BlockOf(B.size) /\ B.data \in [0..(B.size - 1) -> Nat]
    BY BlockFacts
  <2>2. [B.data EXCEPT ![i] = v] \in [0..(B.size - 1) -> Nat]
    BY <2>1
  <2>3. D = [B EXCEPT !.data = [B.data EXCEPT ![i] = v]]
    OBVIOUS
  <2> QED
    BY <2>1, <2>2, <2>3 DEF BlockOf
<1>2. Used(D) = Used(B)
  BY <1>1 DEF Used
<1> QED
  BY <1>1, <1>2, BlockFacts DEF BlockOK

\* The tail moves on.
LEMMA BlockTail ==
  ASSUME NEW B, BlockOK(B), HasRoom(B),
         NEW D, D = [B EXCEPT !.tail = Nxt(B.size, B.tail)]
  PROVE  /\ BlockOK(D) /\ Used(D) = Used(B) + 1 /\ D.size = B.size /\ D.front = B.front
         /\ D.tail = Nxt(B.size, B.tail) /\ D.localTail = B.localTail /\ D.next = B.next
         /\ D.data = B.data
<1>0. PICK n \in Nat : n = B.size /\ n >= 2
  BY BlockFacts
<1>1. /\ B.front \in 0..(n - 1) /\ B.tail \in 0..(n - 1) /\ B.localFront \in 0..(n - 1)
      /\ B.localTail \in 0..(n - 1) /\ Nxt(n, B.tail) \in 0..(n - 1)
  BY <1>0, BlockFacts, StepsFacts
<1>2. /\ D \in BlockOf(B.size) /\ D.size = B.size /\ D.front = B.front
      /\ D.tail = Nxt(B.size, B.tail) /\ D.localFront = B.localFront
      /\ D.localTail = B.localTail /\ D.next = B.next /\ D.data = B.data
  BY <1>0, <1>1, BlockFacts DEF BlockOf
<1>3. /\ Steps(n, B.localFront, B.tail) < n - 1
      /\ Steps(n, B.front, B.tail) <= Steps(n, B.localFront, B.tail)
      /\ Steps(n, B.front, B.localTail) <= Steps(n, B.front, B.tail)
  BY <1>0 DEF BlockOK, Used, HasRoom
<1>4. Used(D) = Used(B) + 1
  <2>1. Used(B) = Steps(n, B.front, B.tail) /\ Used(D) = Steps(n, B.front, Nxt(n, B.tail))
    BY <1>0, <1>2 DEF Used
  <2> QED
    BY <1>0, <1>1, <1>3, <2>1 DEF Steps, Nxt
<1>5. /\ Steps(n, B.front, Nxt(n, B.tail)) <= Steps(n, B.localFront, Nxt(n, B.tail))
      /\ Steps(n, B.front, B.localTail) <= Steps(n, B.front, Nxt(n, B.tail))
  BY <1>0, <1>1, <1>3 DEF Steps, Nxt
<1> QED
  BY <1>0, <1>2, <1>4, <1>5 DEF BlockOK, Used

\* The front moves on.
LEMMA BlockFront ==
  ASSUME NEW B, BlockOK(B), B.front # B.localTail,
         NEW D, D = [B EXCEPT !.front = Nxt(B.size, B.front)]
  PROVE  /\ BlockOK(D) /\ Used(D) = Used(B) - 1 /\ Used(B) > 0 /\ D.size = B.size
         /\ D.front = Nxt(B.size, B.front) /\ D.tail = B.tail /\ D.localTail = B.localTail
         /\ D.next = B.next /\ D.data = B.data
<1>0. PICK n \in Nat : n = B.size /\ n >= 2
  BY BlockFacts
<1>1. /\ B.front \in 0..(n - 1) /\ B.tail \in 0..(n - 1) /\ B.localFront \in 0..(n - 1)
      /\ B.localTail \in 0..(n - 1) /\ Nxt(n, B.front) \in 0..(n - 1)
  BY <1>0, BlockFacts, StepsFacts
<1>2. /\ D \in BlockOf(B.size) /\ D.size = B.size /\ D.front = Nxt(B.size, B.front)
      /\ D.tail = B.tail /\ D.localFront = B.localFront
      /\ D.localTail = B.localTail /\ D.next = B.next /\ D.data = B.data
  BY <1>0, <1>1, BlockFacts DEF BlockOf
<1>3. /\ Steps(n, B.front, B.tail) <= Steps(n, B.localFront, B.tail)
      /\ Steps(n, B.front, B.localTail) <= Steps(n, B.front, B.tail)
  BY <1>0 DEF BlockOK, Used
<1>4. B.front # B.tail /\ Used(D) = Used(B) - 1 /\ Used(B) > 0
  BY <1>0, <1>1, <1>2, <1>3, StepsFacts DEF Used
<1>5. /\ Steps(n, Nxt(n, B.front), B.tail) <= Steps(n, B.localFront, B.tail)
      /\ Steps(n, Nxt(n, B.front), B.localTail) <= Steps(n, Nxt(n, B.front), B.tail)
  BY <1>0, <1>1, <1>3, <1>4 DEF Steps, Nxt
<1> QED
  BY <1>0, <1>2, <1>4, <1>5 DEF BlockOK, Used

-----------------------------------------------------------------------------
(***************************************************************************)
(* Steps that leave indices and elements alone.                            *)
(***************************************************************************)

\* D differs from B in its copies only.
Like(D, B) ==
  /\ D.front = B.front /\ D.tail = B.tail /\ D.size = B.size /\ D.next = B.next
  /\ D.data = B.data

\* One block changes.
LEMMA OneBlock ==
  ASSUME QTypeOK, NEW b \in DOMAIN blocks, NEW D, BlockOK(D),
         blocks' = [blocks EXCEPT ![b] = D]
  PROVE  /\ blocks' \in Seq(AnyBlock) /\ Len(blocks') = Len(blocks)
         /\ DOMAIN blocks' = DOMAIN blocks /\ blocks'[b] = D
         /\ \A x \in DOMAIN blocks : x # b => blocks'[x] = blocks[x]
         /\ \A x \in DOMAIN blocks' : BlockOK(blocks'[x])
<1>1. blocks \in Seq(AnyBlock) /\ D \in AnyBlock /\ \A x \in DOMAIN blocks : BlockOK(blocks[x])
  BY BlockFacts DEF QTypeOK
<1>2. /\ DOMAIN blocks' = DOMAIN blocks /\ blocks'[b] = D
      /\ \A x \in DOMAIN blocks : x # b => blocks'[x] = blocks[x]
      /\ blocks' \in Seq(AnyBlock) /\ Len(blocks') = Len(blocks)
  BY <1>1
<1> QED
  BY <1>1, <1>2

\* Where the two ends are.
LEMMA Ends ==
  ASSUME QTypeOK, NEW s, NEW t, RingOK(s, t)
  PROVE  /\ Len(s) \in Nat /\ Len(s) >= 1 /\ t \in 1..Len(s) /\ s \in Seq(DOMAIN blocks)
         /\ \A i \in 1..Len(s) : s[i] \in DOMAIN blocks
         /\ frontBlock \in DOMAIN blocks /\ tailBlock \in DOMAIN blocks
         /\ s[1] = frontBlock /\ s[t] = tailBlock
         /\ BlockOK(blocks[frontBlock]) /\ BlockOK(blocks[tailBlock])
         /\ frontBlock = tailBlock <=> t = 1
<1>1. /\ s \in Seq(DOMAIN blocks) /\ t \in 1..Len(s) /\ s[1] = frontBlock /\ s[t] = tailBlock
      /\ \A i, j \in 1..Len(s) : s[i] = s[j] => i = j
  BY DEF RingOK
<1>2. /\ Len(s) \in Nat /\ \A i \in 1..Len(s) : s[i] \in DOMAIN blocks
  BY <1>1
<1>3. 1 \in 1..Len(s) /\ Len(s) >= 1
  BY <1>1, <1>2
<1> QED
  BY <1>1, <1>2, <1>3 DEF QTypeOK

\* A step that changes copies at most, and neither ring nor elements.
LEMMA AliveSame ==
  ASSUME QTypeOK, NEW s, NEW t, NEW base,
         RingOK(s, t), FillOK(s, t), BaseOK(s, t, base), SlotsOK(base),
         DOMAIN blocks' = DOMAIN blocks, Len(blocks') = Len(blocks),
         \A b \in DOMAIN blocks : Like(blocks'[b], blocks[b]),
         UNCHANGED <<frontBlock, tailBlock, out>>, p'.sent = p.sent,
         p'.at = "link" <=> p.at = "link", p'.at = "advance" <=> p.at = "advance",
         p'.at = "tail" <=> p.at = "tail", c'.at = "front" <=> c.at = "front",
         p'.at = "reuse" => p.at = "reuse" \/ t < Len(s)
  PROVE  RingOK(s, t)' /\ FillOK(s, t)' /\ BaseOK(s, t, base)' /\ SlotsOK(base)'
<1>0. /\ \A i \in 1..Len(s) : s[i] \in DOMAIN blocks
      /\ frontBlock \in DOMAIN blocks /\ tailBlock \in DOMAIN blocks
      /\ t \in 1..Len(s) /\ Len(s) \in Nat
  BY Ends
<1>1. \A b \in DOMAIN blocks : Used(blocks'[b]) = Used(blocks[b])
  BY DEF Used, Like
<1>2. RingOK(s, t)'
  <2>1. \A i \in 1..Len(s) : blocks'[s[i]].next = blocks[s[i]].next
    BY <1>0 DEF Like
  <2> QED
    BY <2>1 DEF RingOK
<1>3. FillOK(s, t)'
  <2>1. \A i \in 1..Len(s) : Used(blocks'[s[i]]) = Used(blocks[s[i]])
    BY <1>0, <1>1
  <2>2. /\ \A i \in 2..t : i \in 1..Len(s)
        /\ \A i \in (t + 1)..Len(s) : i \in 1..Len(s)
    BY <1>0
  <2> QED
    BY <2>1, <2>2 DEF FillOK
<1>4. BaseOK(s, t, base)'
  <2>1. \A i \in 1..t : i \in 1..Len(s) /\ Used(blocks'[s[i]]) = Used(blocks[s[i]])
    BY <1>0, <1>1
  <2>2. \A i \in 1..(t - 1) : i \in 1..t
    BY <1>0
  <2>3. Element' = Element
    BY DEF Element
  <2>4. blocks'[tailBlock].next = blocks[tailBlock].next
    BY <1>0 DEF Like
  <2> QED
    BY <1>0, <1>1, <2>1, <2>2, <2>3, <2>4 DEF BaseOK
<1>5. SlotsOK(base)'
  <2> SUFFICES ASSUME NEW b \in DOMAIN blocks, NEW i \in 0..(blocks[b].size - 1)
               PROVE  blocks'[b].data[i] = SlotIs(b, i, base)'
    BY DEF SlotsOK, Like
  <2>1. Element' = Element
    BY DEF Element
  <2>2. (HasRead(b, i)' <=> HasRead(b, i)) /\ (HasWritten(b, i)' <=> HasWritten(b, i))
    BY DEF HasRead, HasWritten, Like
  <2>3. SlotIs(b, i, base)' = SlotIs(b, i, base)
    BY <1>1, <2>1, <2>2 DEF SlotIs, Like
  <2>4. blocks'[b].data[i] = blocks[b].data[i]
    BY DEF Like
  <2> QED
    BY <2>3, <2>4 DEF SlotsOK
<1> QED
  BY <1>2, <1>3, <1>4, <1>5

\* What the consumer knows, after a step of the producer.
LEMMA ConsumerKept ==
  ASSUME QTypeOK, NEW s, NEW t, RingOK(s, t), ConsumerOK,
         UNCHANGED <<c, out, prog, frontBlock>>, p'.sent \in Nat, p'.sent >= p.sent,
         frontBlock' = tailBlock' => frontBlock = tailBlock,
         \A b \in DOMAIN blocks : /\ blocks'[b].front = blocks[b].front
                                  /\ blocks'[b].localTail = blocks[b].localTail,
         frontBlock # tailBlock => /\ Used(blocks'[frontBlock]) = Used(blocks[frontBlock])
                                   /\ blocks'[frontBlock].next = blocks[frontBlock].next
  PROVE  ConsumerOK'
<1>1. frontBlock \in DOMAIN blocks
  BY Ends
<1>2. c.at = "forward" => c.next \in DOMAIN blocks
  <2>1. Len(s) \in Nat /\ 1 \in 1..Len(s) /\ s[1] = frontBlock
        /\ \A i \in 1..Len(s) : s[i] \in DOMAIN blocks
    BY Ends
  <2>2. blocks[s[1]].next = s[IF 1 = Len(s) THEN 1 ELSE 1 + 1]
    BY <2>1 DEF RingOK
  <2>3. (IF 1 = Len(s) THEN 1 ELSE 1 + 1) \in 1..Len(s)
    <3>1. PICK n \in Nat : n = Len(s)
      BY <2>1
    <3>2. 1 \in 1..n => (IF 1 = n THEN 1 ELSE 1 + 1) \in 1..n
      OBVIOUS
    <3> QED
      BY <2>1, <3>1, <3>2
  <2> QED
    BY <2>1, <2>2, <2>3 DEF ConsumerOK
<1>3. HasUnit' <=> HasUnit
  BY DEF HasUnit
<1>4. p.sent \in Nat /\ c.val \in Nat
  BY DEF QTypeOK
<1> QED
  BY <1>1, <1>2, <1>3, <1>4 DEF ConsumerOK

\* What the producer knows, after a step of the consumer.
LEMMA ProducerKept ==
  ASSUME QTypeOK, NEW s, NEW t, NEW base, NEW base2, RingOK(s, t), ProducerOK(base),
         UNCHANGED <<p, tailBlock>>, Len(blocks') = Len(blocks),
         \A b \in DOMAIN blocks :
           /\ blocks'[b].localFront = blocks[b].localFront /\ blocks'[b].tail = blocks[b].tail
           /\ blocks'[b].size = blocks[b].size /\ blocks'[b].next = blocks[b].next,
         p.at = "link" => /\ Used(blocks'[Len(blocks)]) = Used(blocks[Len(blocks)])
                          /\ base2[Len(blocks)] = base[Len(blocks)]
  PROVE  ProducerOK(base2)'
<1>1. tailBlock \in DOMAIN blocks
  BY Ends
<1>2. Len(blocks) \in DOMAIN blocks
  BY <1>1 DEF QTypeOK
<1>3. HasRoom(blocks'[tailBlock]) <=> HasRoom(blocks[tailBlock])
  BY <1>1 DEF HasRoom
<1>4. Element' = Element
  BY DEF Element
<1> QED
  BY <1>1, <1>2, <1>3, <1>4 DEF ProducerOK

\* The semaphore.  A consumer that has a unit finds an element.
LEMMA SemStep ==
  ASSUME QTypeOK, ConsumerOK, SemOK, ProducerStep \/ ConsumerStep
  PROVE  SemOK'
<1> USE DEF PGoto, CGoto, semaphore, ring, HasUnit
<1>0. /\ p \in [at : ProducerPoints, canAlloc : BOOLEAN, sent : Nat, seen : Nat, left : Nat]
      /\ c \in [at : ConsumerPoints, op : Ops \cup {"none"}, next : Nat, val : Nat, seen : Nat,
                left : Nat]
      /\ m_count \in Int /\ m_sema \in Nat /\ Len(out) \in Nat /\ out \in Seq(Nat)
  BY DEF QTypeOK
<1>1. CASE \/ \E canAlloc \in BOOLEAN : Enqueue(canAlloc)
           \/ Write \/ NextBlock \/ Reuse \/ Alloc \/ AllocFails \/ Link \/ Full
  <2> DEFINE Quiet == /\ p.at \notin {"signal", "post"} /\ p'.at \notin {"signal", "post"}
                      /\ p'.sent = p.sent /\ UNCHANGED <<prog, m_count, m_sema, c, out>>
  <2> SUFFICES Quiet
    BY <1>0 DEF SemOK
  <2>1. CASE \E canAlloc \in BOOLEAN : Enqueue(canAlloc)
    <3>1. PICK canAlloc \in BOOLEAN : Enqueue(canAlloc)
      BY <2>1
    <3>2. PICK l \in {"write", "next"} :
            p' = [p EXCEPT !.at = l, !.canAlloc = canAlloc, !.seen = Filled, !.left = @ - 1]
      BY <3>1 DEF Enqueue
    <3>3. UNCHANGED <<prog, m_count, m_sema, c, out>> /\ p.at = "ready"
      BY <3>1 DEF Enqueue
    <3> QED
      BY <1>0, <3>2, <3>3
  <2>2. CASE Write
    BY <1>0, <2>2 DEF Write
  <2>3. CASE NextBlock
    BY <1>0, <2>3 DEF NextBlock
  <2>4. CASE Reuse
    BY <1>0, <2>4 DEF Reuse
  <2>5. CASE Alloc
    BY <1>0, <2>5 DEF Alloc
  <2>6. CASE AllocFails \/ Link \/ Full
    BY <1>0, <2>6 DEF AllocFails, Link, Full
  <2> QED
    BY <1>1, <2>1, <2>2, <2>3, <2>4, <2>5, <2>6
<1>2. CASE StoreTail \/ Advance
  <2>1. /\ p.at \notin {"signal", "post"} /\ p'.sent = p.sent + 1
        /\ p'.at = IF prog.blocking THEN "signal" ELSE "ready"
        /\ UNCHANGED <<prog, m_count, m_sema, c, out>>
    BY <1>0, <1>2 DEF StoreTail, Advance, Published
  <2> QED
    BY <1>0, <2>1 DEF SemOK
<1>3. CASE Signal
  <2>1. /\ p.at = "signal" /\ p'.sent = p.sent /\ m_count' = m_count + 1
        /\ p'.at = IF m_count < 0 THEN "post" ELSE "ready"
        /\ UNCHANGED <<prog, m_sema, c, out>>
    BY <1>0, <1>3 DEF Signal
  <2> QED
    BY <1>0, <2>1 DEF SemOK
<1>4. CASE Post
  <2>1. /\ p.at = "post" /\ p'.sent = p.sent /\ m_sema' = m_sema + 1
        /\ p'.at = "ready" /\ UNCHANGED <<prog, m_count, c, out>>
    BY <1>0, <1>4 DEF Post
  <2> QED
    BY <1>0, <2>1 DEF SemOK
<1>5. CASE \E op \in Ops : Call(op)
  <2>1. PICK op \in Ops : Call(op)
    BY <1>5
  <2>2. /\ c.at = "ready" /\ c'.at = "look" /\ c'.op = op /\ (~prog.blocking \/ op = "peek")
        /\ UNCHANGED <<prog, m_count, m_sema, p, out>>
    BY <1>0, <2>1 DEF Call
  <2> QED
    BY <1>0, <2>2 DEF SemOK
<1>6. CASE \E op \in Ops : TryWait(op)
  <2>1. PICK op \in Ops : TryWait(op)
    BY <1>6
  <2>2. /\ prog.blocking /\ c.at = "ready" /\ op # "peek"
        /\ \/ m_count > 0 /\ m_count' = m_count - 1 /\ c'.at = "look" /\ c'.op = op
           \/ m_count <= 0 /\ m_count' = m_count /\ c'.at = "ready" /\ c'.op = c.op
        /\ UNCHANGED <<prog, m_sema, p, out>>
    BY <1>0, <2>1 DEF TryWait, TakeUnit
  <2>3. CASE m_count > 0
    BY <1>0, <2>2, <2>3 DEF SemOK
  <2>4. CASE m_count <= 0
    <3>1. /\ m_count' = m_count /\ c'.at = "ready" /\ c.at = "ready" /\ prog'.blocking
          /\ prog.blocking /\ p' = p /\ m_sema' = m_sema /\ Len(out') = Len(out)
      BY <1>0, <2>2, <2>4
    <3> QED
      BY <1>0, <3>1 DEF SemOK
  <2> QED
    BY <1>0, <2>3, <2>4
<1>7. CASE Wait
  <2>2. /\ prog.blocking /\ c.at = "ready" /\ c'.op = "try_dequeue"
        /\ \/ m_count > 0 /\ m_count' = m_count - 1 /\ c'.at = "look"
           \/ m_count <= 0 /\ m_count' = m_count /\ c'.at = "spin"
        /\ UNCHANGED <<prog, m_sema, p, out>>
    BY <1>0, <1>7 DEF Wait, TakeUnit
  <2> QED
    BY <1>0, <2>2 DEF SemOK
<1>8. CASE Look \/ LookAgain \/ LookAtTailBlock
  <2>1. /\ c.at \in {"look", "again", "block"} /\ c'.op = c.op
        /\ UNCHANGED <<prog, m_count, m_sema, p, out>>
        /\ HasUnit' <=> HasUnit
        /\ c'.at \notin {"spin", "sleep"}
    <3>1. CASE Look
      <4>1. PICK l \in {"element", "block"} : c' = [c EXCEPT !.at = l, !.seen = c'.seen]
        BY <1>0, <3>1 DEF Look
      <4> QED
        BY <1>0, <3>1, <4>1 DEF Look
    <3>2. CASE LookAgain
      BY <1>0, <3>2 DEF LookAgain
    <3>3. CASE LookAtTailBlock
      BY <1>0, <3>3 DEF LookAtTailBlock, ConsumerOK
    <3> QED
      BY <1>8, <3>1, <3>2, <3>3
  <2> QED
    BY <1>0, <2>1 DEF SemOK
<1>9. CASE LookAtNext \/ Forward
  <2>1. /\ c.at \in {"next", "forward"} /\ c'.op = c.op
        /\ UNCHANGED <<prog, m_count, m_sema, p, out>>
        /\ HasUnit' <=> HasUnit
        /\ c'.at \notin {"spin", "sleep"}
    <3>1. CASE LookAtNext
      BY <1>0, <3>1 DEF LookAtNext
    <3>2. CASE Forward
      BY <1>0, <3>2 DEF Forward
    <3> QED
      BY <1>9, <3>1, <3>2
  <2> QED
    BY <1>0, <2>1 DEF SemOK
<1>10. CASE ReadElement
  <2>1. /\ c.at = "element" /\ c'.op = c.op /\ UNCHANGED <<prog, m_count, m_sema, p>>
        /\ c'.at = IF c.op = "peek" THEN "peeked" ELSE "front"
    BY <1>0, <1>10 DEF ReadElement
  <2>2. Len(out') = IF c.op = "peek" THEN Len(out) ELSE Len(out) + 1
    <3>1. PICK e : c.op # "peek" => out' = Append(out, e)
      BY <1>10 DEF ReadElement
    <3>2. out \in Seq(Nat \cup {e})
      BY <1>0
    <3>3. Len(Append(out, e)) = Len(out) + 1
      BY <3>2
    <3> QED
      BY <1>10, <3>1, <3>3 DEF ReadElement
  <2>3. CASE c.op = "peek"
    <3>1. ~HasUnit /\ ~HasUnit' /\ Len(out') = Len(out)
      BY <1>0, <2>1, <2>2, <2>3
    <3> QED
      BY <1>0, <2>1, <2>3, <3>1 DEF SemOK
  <2>4. CASE c.op # "peek"
    <3>1. (HasUnit <=> prog.blocking) /\ ~HasUnit' /\ Len(out') = Len(out) + 1
      BY <1>0, <2>1, <2>2, <2>4
    <3>2. /\ prog' = prog /\ p' = p /\ m_count' = m_count /\ m_sema' = m_sema
          /\ c.at = "element" /\ c'.at = "front"
      BY <2>1, <2>4
    <3>3. CASE ~prog.blocking
      BY <1>0, <3>2, <3>3 DEF SemOK
    <3>4. CASE prog.blocking
      <4>1. p.sent - Len(out) = (IF m_count > 0 THEN m_count ELSE 0)
                                 + (IF p.at = "signal" THEN 1 ELSE 0) + 1
        BY <1>0, <3>1, <3>2, <3>4 DEF SemOK
      <4>2. p.sent - Len(out') = (IF m_count > 0 THEN m_count ELSE 0)
                                 + (IF p.at = "signal" THEN 1 ELSE 0)
        BY <1>0, <3>1, <4>1
      <4>3. m_count >= 0 /\ m_sema + (IF p.at = "post" THEN 1 ELSE 0) = 0
        BY <3>2, <3>4 DEF SemOK
      <4> HIDE DEF HasUnit
      <4> QED
        BY <1>0, <3>1, <3>2, <3>4, <4>2, <4>3 DEF SemOK
    <3> QED
      BY <3>3, <3>4
  <2> QED
    BY <2>3, <2>4
<1>11. CASE StoreFront \/ Return
  <2>1. /\ c.at \in {"front", "empty", "peeked"} /\ c'.op = c.op /\ c'.at = "ready"
        /\ UNCHANGED <<prog, m_count, m_sema, p, out>>
    BY <1>0, <1>11 DEF StoreFront, Return
  <2> QED
    BY <1>0, <2>1 DEF SemOK
<1>12. CASE Spin \/ SpinEnd
  <2>1. /\ c.at = "spin" /\ c'.op = c.op /\ m_count' = m_count - 1
        /\ c'.at = IF m_count <= 0 THEN "sleep" ELSE "look"
        /\ UNCHANGED <<prog, m_sema, p, out>>
    BY <1>0, <1>12 DEF Spin, SpinEnd, TakeUnit
  <2>2. prog.blocking
    BY <2>1 DEF SemOK
  <2> QED
    BY <1>0, <2>1, <2>2 DEF SemOK
<1>13. CASE WakeUp
  <2>1. /\ c.at = "sleep" /\ c'.op = c.op /\ m_sema > 0 /\ m_sema' = m_sema - 1
        /\ c'.at = "look" /\ UNCHANGED <<prog, m_count, p, out>>
    BY <1>0, <1>13 DEF WakeUp
  <2> QED
    BY <1>0, <2>1 DEF SemOK
<1> QED
  BY <1>1, <1>2, <1>3, <1>4, <1>5, <1>6, <1>7, <1>8, <1>9, <1>10, <1>11, <1>12, <1>13
     DEF ProducerStep, ConsumerStep

-----------------------------------------------------------------------------
(***************************************************************************)
(* The ring, what it holds and the types.                                  *)
(***************************************************************************)

\* The place after the i-th of n in a ring.
Succ(n, i) == IF i = n THEN 1 ELSE i + 1

\* The block after the i-th one.
LEMMA NextInRing ==
  ASSUME QTypeOK, NEW s, NEW t, RingOK(s, t), NEW i \in 1..Len(s)
  PROVE  /\ Succ(Len(s), i) \in 1..Len(s)
         /\ blocks[s[i]].next = s[Succ(Len(s), i)]
         /\ blocks[s[i]].next \in DOMAIN blocks
<1>1. PICK n \in Nat : n = Len(s)
  BY Ends
<1>2. \A k \in 1..n : Succ(n, k) \in 1..n
  BY DEF Succ
<1>3. \A k \in 1..Len(s) : s[k] \in DOMAIN blocks
  BY Ends
<1>4. blocks[s[i]].next = s[Succ(Len(s), i)]
  BY DEF RingOK, Succ
<1> QED
  BY <1>1, <1>2, <1>3, <1>4

\* The blocks after those at the two ends.
LEMMA NextOfEnds ==
  ASSUME QTypeOK, NEW s, NEW t, RingOK(s, t)
  PROVE  /\ blocks[frontBlock].next \in DOMAIN blocks
         /\ blocks[tailBlock].next \in DOMAIN blocks
         /\ blocks[frontBlock].next = s[Succ(Len(s), 1)]
         /\ blocks[tailBlock].next = s[Succ(Len(s), t)]
         /\ Succ(Len(s), 1) \in 1..Len(s) /\ Succ(Len(s), t) \in 1..Len(s)
<1>1. /\ Len(s) \in Nat /\ Len(s) >= 1 /\ t \in 1..Len(s)
      /\ s[1] = frontBlock /\ s[t] = tailBlock
  BY Ends
<1>2. 1 \in 1..Len(s)
  BY <1>1
<1> QED
  BY <1>1, <1>2, NextInRing

\* A consumer that has read an element holds a slot.
LEMMA FrontUsed ==
  ASSUME QTypeOK, NEW s, NEW t, RingOK(s, t), ConsumerOK, c.at \in {"element", "front"}
  PROVE  Used(blocks[frontBlock]) > 0
<1> DEFINE B == blocks[frontBlock]
<1>1. BlockOK(B) /\ B.front # B.localTail
  BY Ends DEF ConsumerOK
<1> HIDE DEF B
<1>2. /\ B.size \in Nat /\ B.size >= 2 /\ B.front \in 0..(B.size - 1)
      /\ B.localTail \in 0..(B.size - 1) /\ Used(B) \in Nat
  BY <1>1, BlockFacts
<1>3. Steps(B.size, B.front, B.localTail) > 0
  BY <1>1, <1>2 DEF Steps
<1>4. Used(B) > 0
  BY <1>1, <1>2, <1>3 DEF BlockOK, Steps
<1> QED
  BY <1>4 DEF B

\* What has been taken out was put in.
LEMMA OutOfSent ==
  ASSUME QTypeOK, NEW s, NEW t, NEW base, RingOK(s, t), BaseOK(s, t, base), ConsumerOK
  PROVE  /\ p.sent \in Nat /\ Len(out) \in Nat /\ Len(out) <= p.sent
         /\ p.sent - Len(out) \in Nat
         /\ Contents \in Seq(Nat) /\ Len(Contents) = p.sent - Len(out)
         /\ Filled \in Nat
<1>1. /\ frontBlock \in DOMAIN blocks /\ t \in 1..Len(s) /\ Len(s) \in Nat /\ s[1] = frontBlock
      /\ BlockOK(blocks[frontBlock])
  BY Ends
<1>2. /\ p.sent \in Nat /\ Len(out) \in Nat
  BY DEF QTypeOK
<1>3. Used(blocks[frontBlock]) \in Nat
  BY <1>1, BlockFacts
<1>4. base[frontBlock] + Used(blocks[frontBlock]) <= p.sent + 1
  BY <1>1 DEF BaseOK, Element
<1>5. base[frontBlock] = Len(out) + IF c.at = "front" THEN 0 ELSE 1
  BY DEF BaseOK
<1>6. c.at = "front" => Used(blocks[frontBlock]) > 0
  BY FrontUsed
<1>7. Len(out) <= p.sent /\ p.sent - Len(out) \in Nat
  <2>1. PICK u \in Nat, l \in Nat, n \in Nat :
          u = Used(blocks[frontBlock]) /\ l = Len(out) /\ n = p.sent
    BY <1>2, <1>3
  <2>2. CASE c.at = "front"
    <3>1. u > 0 /\ l + u <= n + 1
      BY <1>4, <1>5, <1>6, <2>1, <2>2
    <3>2. l <= n /\ n - l \in Nat
      BY <3>1
    <3> QED
      BY <2>1, <3>2
  <2>3. CASE c.at # "front"
    <3>1. l + 1 + u <= n + 1
      BY <1>4, <1>5, <2>1, <2>3
    <3>2. l <= n /\ n - l \in Nat
      BY <3>1
    <3> QED
      BY <2>1, <3>2
  <2> QED
    BY <2>2, <2>3
<1>8. PICK k \in Nat, l \in Nat : k = p.sent - Len(out) /\ l = Len(out)
  BY <1>2, <1>7
<1>9. Contents = [i \in 1..k |-> l + i]
  BY <1>8 DEF Contents
<1>10. [i \in 1..k |-> l + i] \in Seq(Nat) /\ Len([i \in 1..k |-> l + i]) = k
  OBVIOUS
<1>11. Len(Contents) = p.sent - Len(out)
  BY <1>8, <1>9, <1>10
<1> QED
  BY <1>2, <1>7, <1>8, <1>9, <1>10, <1>11 DEF Filled

\* The types are kept by the producer.
LEMMA ProducerTypes ==
  ASSUME QTypeOK, NEW s, NEW t, NEW base, RingOK(s, t), BaseOK(s, t, base), ConsumerOK,
         ProducerStep, blocks' \in Seq(AnyBlock), \A b \in DOMAIN blocks' : BlockOK(blocks'[b])
  PROVE  QTypeOK'
<1> USE DEF PGoto, CGoto, semaphore, ring
<1> DEFINE PSet == [at : ProducerPoints, canAlloc : BOOLEAN, sent : Nat, seen : Nat,
                    left : Nat]
<1>0. /\ p \in PSet /\ prog \in Programs /\ mallocs \in Nat /\ m_count \in Int /\ m_sema \in Nat
      /\ largestBlockSize \in Nat /\ largestBlockSize >= 2
      /\ c \in [at : ConsumerPoints, op : Ops \cup {"none"}, next : Nat, val : Nat, seen : Nat,
                left : Nat]
      /\ out \in Seq(Nat)
  BY DEF QTypeOK
<1>1. \A l \in ProducerPoints : [p EXCEPT !.at = l] \in PSet
  BY <1>0
<1>2. {"ready", "write", "tail", "next", "reuse", "alloc", "link", "advance", "full", "signal",
       "post"} \subseteq ProducerPoints
  BY DEF ProducerPoints
<1> HIDE DEF PSet
<1> SUFFICES /\ p' \in PSet /\ mallocs' \in Nat /\ m_count' \in Int /\ m_sema' \in Nat
             /\ largestBlockSize' \in Nat /\ largestBlockSize' >= 2
             /\ UNCHANGED <<prog, c, out>>
  BY <1>0 DEF QTypeOK, PSet
<1>3. CASE \E canAlloc \in BOOLEAN : Enqueue(canAlloc)
  <2>1. PICK canAlloc \in BOOLEAN : Enqueue(canAlloc)
    BY <1>3
  <2>2. PICK l \in {"write", "next"} :
          p' = [p EXCEPT !.at = l, !.canAlloc = canAlloc, !.seen = Filled, !.left = @ - 1]
    BY <2>1 DEF Enqueue
  <2>3. p.left \in Nat /\ p.left > 0
    BY <1>0, <2>1 DEF Enqueue, PSet
  <2>4. PICK d \in Nat, n \in Nat : d = p.left - 1 /\ n = Filled
    <3>1. p.left - 1 \in Nat
      BY <2>3
    <3> QED
      BY <3>1, OutOfSent
  <2>5. p' = [p EXCEPT !.at = l, !.canAlloc = canAlloc, !.seen = n, !.left = d]
    BY <2>2, <2>4
  <2>6. p' \in PSet
    BY <1>0, <1>2, <2>5 DEF PSet
  <2> QED
    BY <1>0, <2>1, <2>6 DEF Enqueue
<1>4. CASE Write
  BY <1>0, <1>1, <1>2, <1>4 DEF Write
<1>5. CASE StoreTail \/ Advance
  <2>1. PICK l \in {"signal", "ready"} : p' = [p EXCEPT !.at = l, !.sent = @ + 1]
    BY <1>5 DEF StoreTail, Advance, Published
  <2>2. PICK n \in Nat : n = p.sent + 1
    BY <1>0 DEF PSet
  <2>3. p' = [p EXCEPT !.at = l, !.sent = n]
    BY <2>1, <2>2
  <2>4. p' \in PSet
    BY <1>0, <1>2, <2>3 DEF PSet
  <2> QED
    BY <1>0, <1>5, <2>4 DEF StoreTail, Advance
<1>6. CASE NextBlock
  <2>1. p' \in PSet
    BY <1>1, <1>2, <1>6 DEF NextBlock
  <2> QED
    BY <1>0, <1>6, <2>1 DEF NextBlock
<1>7. CASE Reuse
  BY <1>0, <1>1, <1>2, <1>7 DEF Reuse
<1>8. CASE Alloc
  <2>1. p' \in PSet /\ mallocs' \in Nat
    BY <1>0, <1>1, <1>2, <1>8 DEF Alloc
  <2>2. largestBlockSize' = largestBlockSize \/ largestBlockSize' = largestBlockSize * 2
    BY <1>0, <1>8 DEF Alloc
  <2> QED
    BY <1>0, <1>8, <2>1, <2>2 DEF Alloc
<1>9. CASE AllocFails \/ Link \/ Full
  BY <1>0, <1>1, <1>2, <1>9 DEF AllocFails, Link, Full
<1>10. CASE Signal
  BY <1>0, <1>1, <1>2, <1>10 DEF Signal
<1>11. CASE Post
  BY <1>0, <1>1, <1>2, <1>11 DEF Post
<1> QED
  BY <1>3, <1>4, <1>5, <1>6, <1>7, <1>8, <1>9, <1>10, <1>11 DEF ProducerStep

\* The types are kept by the consumer.
LEMMA ConsumerTypes ==
  ASSUME QTypeOK, NEW s, NEW t, NEW base, RingOK(s, t), BaseOK(s, t, base), ConsumerOK,
         ConsumerStep, blocks' \in Seq(AnyBlock), \A b \in DOMAIN blocks' : BlockOK(blocks'[b])
  PROVE  QTypeOK'
<1> USE DEF PGoto, CGoto, semaphore, ring
<1> DEFINE CSet == [at : ConsumerPoints, op : Ops \cup {"none"}, next : Nat, val : Nat,
                    seen : Nat, left : Nat]
<1>0. /\ c \in CSet /\ m_count \in Int /\ m_sema \in Nat /\ out \in Seq(Nat)
  BY DEF QTypeOK
<1>1. \A l \in ConsumerPoints : [c EXCEPT !.at = l] \in CSet
  BY <1>0
<1>2. {"ready", "look", "block", "again", "next", "forward", "element", "front", "empty",
       "peeked", "spin", "sleep"} \subseteq ConsumerPoints
  BY DEF ConsumerPoints
<1> DEFINE Called(l, op) == [c EXCEPT !.at = l, !.op = op, !.left = @ - 1]
           Refused == [c EXCEPT !.left = @ - 1]
<1>3. ASSUME c.left > 0
      PROVE  /\ \A l \in ConsumerPoints, op \in Ops : Called(l, op) \in CSet
             /\ Refused \in CSet
  <2>1. PICK d \in Nat : d = c.left - 1
    <3>1. c.left \in Nat
      BY <1>0
    <3> QED
      BY <1>3, <3>1
  <2>2. ASSUME NEW l \in ConsumerPoints, NEW op \in Ops
        PROVE  Called(l, op) \in CSet
    <3>1. [c EXCEPT !.at = l, !.op = op, !.left = d] \in CSet
      BY <1>0
    <3>2. Called(l, op) = [c EXCEPT !.at = l, !.op = op, !.left = d]
      BY <2>1
    <3> HIDE DEF CSet, Called
    <3> QED
      BY <3>1, <3>2
  <2>3. [c EXCEPT !.left = d] \in CSet
    BY <1>0
  <2>4. Refused = [c EXCEPT !.left = d]
    BY <2>1
  <2> HIDE DEF CSet, Called, Refused
  <2> QED
    BY <2>2, <2>3, <2>4
<1>4. \A b \in DOMAIN blocks : \A i \in 0..(blocks[b].size - 1) : blocks[b].data[i] \in Nat
  BY BlockFacts DEF QTypeOK
<1>5. /\ frontBlock \in DOMAIN blocks /\ blocks[frontBlock].next \in DOMAIN blocks
      /\ blocks[frontBlock].next \in Nat /\ blocks \in Seq(AnyBlock)
  <2>1. frontBlock \in DOMAIN blocks /\ BlockOK(blocks[frontBlock])
    BY Ends
  <2> QED
    BY <2>1, BlockFacts, NextOfEnds DEF QTypeOK
<1>6. \A b \in DOMAIN blocks : blocks[b].front \in 0..(blocks[b].size - 1)
  BY BlockFacts DEF QTypeOK
<1> HIDE DEF CSet
<1> SUFFICES /\ c' \in CSet /\ m_count' \in Int /\ m_sema' \in Nat /\ out' \in Seq(Nat)
             /\ UNCHANGED <<prog, p, largestBlockSize, mallocs>>
  BY DEF QTypeOK, CSet
<1>7. CASE \E op \in Ops : Call(op)
  <2>1. PICK op \in Ops : Call(op)
    BY <1>7
  <2>2. c' \in CSet
    <3>1. /\ c.left > 0 /\ "look" \in ConsumerPoints
          /\ c' = Called("look", op)
      BY <1>2, <2>1 DEF Call
    <3> HIDE DEF Called
    <3> QED
      BY <1>3, <3>1
  <2> QED
    BY <1>0, <2>1, <2>2 DEF Call
<1>8. CASE \E op \in Ops : TryWait(op)
  <2>1. PICK op \in Ops : TryWait(op)
    BY <1>8
  <2>3. c' \in CSet
    <3>1. c.left > 0 /\ "look" \in ConsumerPoints
      BY <1>2, <2>1 DEF TryWait
    <3>2. c' = Called("look", op) \/ c' = Refused
      BY <2>1 DEF TryWait
    <3> HIDE DEF Called, Refused
    <3> QED
      BY <1>3, <3>1, <3>2
  <2> QED
    BY <1>0, <2>1, <2>3 DEF TryWait, TakeUnit
<1>9. CASE Wait
  <2>1. "try_dequeue" \in Ops
    BY DEF Ops
  <2>2. c' \in CSet
    <3>1. PICK l \in {"look", "spin"} : c.left > 0 /\ c' = Called(l, "try_dequeue")
      BY <1>9 DEF Wait
    <3> HIDE DEF Called
    <3>2. l \in ConsumerPoints
      BY <1>2
    <3> QED
      BY <1>3, <2>1, <3>1, <3>2
  <2> QED
    BY <1>0, <1>9, <2>2 DEF Wait, TakeUnit
<1>10. CASE Look
  <2>1. PICK l \in {"element", "block"} : c' = [c EXCEPT !.at = l, !.seen = Len(Contents)]
    BY <1>10 DEF Look
  <2>2. Len(Contents) \in Nat
    BY OutOfSent
  <2>3. c' \in CSet
    BY <1>0, <1>2, <2>1, <2>2 DEF CSet
  <2> QED
    BY <1>0, <1>10, <2>3 DEF Look
<1>11. CASE LookAtTailBlock
  <2>1. c' \in CSet
    BY <1>1, <1>2, <1>11 DEF LookAtTailBlock
  <2> QED
    BY <1>0, <1>11, <2>1 DEF LookAtTailBlock
<1>12. CASE LookAgain
  <2>1. CASE c' = [c EXCEPT !.at = "element"]
    BY <1>0, <1>1, <1>2, <1>12, <2>1 DEF LookAgain
  <2>2. CASE c' = [c EXCEPT !.at = "next", !.next = blocks[frontBlock].next]
    <3>1. c' \in CSet
      BY <1>0, <1>2, <1>5, <2>2 DEF CSet
    <3> QED
      BY <1>0, <1>12, <3>1 DEF LookAgain
  <2> QED
    BY <1>12, <2>1, <2>2 DEF LookAgain
<1>13. CASE LookAtNext
  <2>1. c.at = "next" /\ c.next \in DOMAIN blocks
    BY <1>5, <1>13 DEF LookAtNext, ConsumerOK
  <2>2. PICK v \in Nat : v = blocks[c.next].data[blocks[c.next].front]
    BY <1>4, <1>6, <2>1
  <2>3. c' \in CSet
    BY <1>0, <1>1, <1>2, <1>13, <2>2 DEF LookAtNext, CSet
  <2> QED
    BY <1>0, <1>13, <2>3 DEF LookAtNext
<1>14. CASE Forward
  BY <1>0, <1>1, <1>2, <1>14 DEF Forward
<1>15. CASE ReadElement
  <2>1. PICK v \in Nat : v = blocks[frontBlock].data[blocks[frontBlock].front]
    BY <1>4, <1>5, <1>6
  <2>2. CASE c.op = "peek"
    <3>1. c' = [c EXCEPT !.at = "peeked", !.val = v] /\ out' = out
      BY <1>15, <2>1, <2>2 DEF ReadElement
    <3> QED
      BY <1>0, <1>2, <1>15, <3>1 DEF ReadElement, CSet
  <2>3. CASE c.op # "peek"
    <3>1. c' = [c EXCEPT !.at = "front"] /\ out' = Append(out, v)
      BY <1>15, <2>1, <2>3 DEF ReadElement
    <3>2. c' \in CSet /\ out' \in Seq(Nat)
      BY <1>0, <1>1, <1>2, <3>1
    <3> QED
      BY <1>0, <1>15, <3>2 DEF ReadElement
  <2> QED
    BY <2>2, <2>3
<1>16. CASE StoreFront
  BY <1>0, <1>1, <1>2, <1>16 DEF StoreFront
<1>17. CASE Return
  <2>1. c' \in CSet
    BY <1>0, <1>2, <1>17 DEF Return, CSet, Empty
  <2> QED
    BY <1>0, <1>17, <2>1 DEF Return
<1>18. CASE Spin \/ SpinEnd
  <2>1. c' \in CSet
    BY <1>1, <1>2, <1>18 DEF Spin, SpinEnd
  <2> QED
    BY <1>0, <1>18, <2>1 DEF Spin, SpinEnd, TakeUnit
<1>19. CASE WakeUp
  BY <1>0, <1>1, <1>2, <1>19 DEF WakeUp
<1> QED
  BY <1>7, <1>8, <1>9, <1>10, <1>11, <1>12, <1>13, <1>14, <1>15, <1>16, <1>17, <1>18, <1>19
     DEF ConsumerStep

-----------------------------------------------------------------------------
(***************************************************************************)
(* Steps that change copies, or the place of a thread.                     *)
(***************************************************************************)

BlocksOK == blocks \in Seq(AnyBlock) /\ \A b \in DOMAIN blocks : BlockOK(blocks[b])

\* After is the next slot.
LEMMA AfterIsNxt ==
  ASSUME NEW b, BlockOK(blocks[b]), NEW i \in 0..(blocks[b].size - 1)
  PROVE  After(b, i) = Nxt(blocks[b].size, i)
<1>1. PICK n \in Nat \ {0} : n = blocks[b].size
  BY BlockFacts
<1>2. i \in 0..(n - 1) /\ n - 1 \in 0..(n - 1)
  BY <1>1
<1>3. (i + 1) % n = Nxt(n, i)
  BY <1>2, RingArithmetic
<1> QED
  BY <1>1, <1>3 DEF After

\* A copy of one block changes, or nothing.
LEMMA CopyStep ==
  ASSUME QTypeOK,
         \/ blocks' = blocks
         \/ \E b \in DOMAIN blocks, D \in AnyBlock :
              BlockOK(D) /\ Like(D, blocks[b]) /\ blocks' = [blocks EXCEPT ![b] = D]
  PROVE  /\ BlocksOK' /\ DOMAIN blocks' = DOMAIN blocks /\ Len(blocks') = Len(blocks)
         /\ \A b \in DOMAIN blocks : Like(blocks'[b], blocks[b])
<1>1. CASE blocks' = blocks
  BY <1>1 DEF QTypeOK, BlocksOK, Like
<1>2. CASE \E b \in DOMAIN blocks, D \in AnyBlock :
             BlockOK(D) /\ Like(D, blocks[b]) /\ blocks' = [blocks EXCEPT ![b] = D]
  <2>1. PICK b \in DOMAIN blocks, D \in AnyBlock :
          BlockOK(D) /\ Like(D, blocks[b]) /\ blocks' = [blocks EXCEPT ![b] = D]
    BY <1>2
  <2>2. /\ blocks' \in Seq(AnyBlock) /\ Len(blocks') = Len(blocks)
        /\ DOMAIN blocks' = DOMAIN blocks /\ blocks'[b] = D
        /\ \A x \in DOMAIN blocks : x # b => blocks'[x] = blocks[x]
        /\ \A x \in DOMAIN blocks' : BlockOK(blocks'[x])
    BY <2>1, OneBlock
  <2>3. \A x \in DOMAIN blocks : Like(blocks'[x], blocks[x])
    <3> TAKE x \in DOMAIN blocks
    <3>1. CASE x = b
      BY <2>1, <2>2, <3>1
    <3>2. CASE x # b
      BY <2>2, <3>2 DEF Like
    <3> QED
      BY <3>1, <3>2
  <2> QED
    BY <2>2, <2>3 DEF BlocksOK
<1> QED
  BY <1>1, <1>2

\* Does a block with localFront as it is, or brought up to date, have room?
LEMMA RoomFound ==
  ASSUME NEW B, BlockOK(B), NEW f \in {B.localFront, B.front}, Nxt(B.size, B.tail) # f,
         NEW D, D = [B EXCEPT !.localFront = f]
  PROVE  HasRoom(D)
<1>1. PICK n \in Nat : n = B.size /\ n >= 2
  BY BlockFacts
<1>2. B.tail \in 0..(n - 1) /\ f \in 0..(n - 1)
  BY <1>1, BlockFacts
<1>3. Steps(n, f, B.tail) \in 0..(n - 1) /\ Steps(n, f, B.tail) # n - 1
  <2>1. PICK g \in 0..(n - 1), l \in 0..(n - 1) : g = f /\ l = B.tail
    BY <1>2
  <2>2. Nxt(n, l) # g
    BY <1>1, <2>1
  <2>3. Steps(n, g, l) \in 0..(n - 1) /\ Steps(n, g, l) # n - 1
    BY <1>1, <2>2 DEF Steps, Nxt
  <2> QED
    BY <2>1, <2>3
<1>4. D.size = n /\ D.tail = B.tail /\ D.localFront = f
  BY <1>1, BlockFacts DEF BlockOf
<1>5. Steps(n, f, B.tail) < n - 1
  BY <1>1, <1>3
<1> QED
  BY <1>4, <1>5 DEF HasRoom

\* What the producer's first step does.
LEMMA EnqueueFacts ==
  ASSUME NEW canAlloc, Enqueue(canAlloc)
  PROVE  /\ p.at = "ready" /\ UNCHANGED <<prog, frontBlock, tailBlock, c, out>>
         /\ blocks' = [blocks EXCEPT ![tailBlock] =
                                   [blocks[tailBlock] EXCEPT !.localFront = FrontSeen]]
         /\ \E l \in {"write", "next"} :
              /\ l = "write" => After(tailBlock, blocks[tailBlock].tail) # FrontSeen
              /\ p' = [p EXCEPT !.at = l, !.canAlloc = canAlloc, !.seen = Filled,
                                !.left = @ - 1]
<1>1. p.at = "ready" /\ UNCHANGED <<prog, frontBlock, tailBlock, c, out>>
  BY DEF Enqueue
<1>2. blocks' = [blocks EXCEPT ![tailBlock] =
                             [blocks[tailBlock] EXCEPT !.localFront = FrontSeen]]
  BY Zenon DEF Enqueue
<1>3. \E l \in {"write", "next"} :
        /\ l = "write" => After(tailBlock, blocks[tailBlock].tail) # FrontSeen
        /\ p' = [p EXCEPT !.at = l, !.canAlloc = canAlloc, !.seen = Filled, !.left = @ - 1]
  BY DEF Enqueue
<1> QED
  BY Zenon, <1>1, <1>2, <1>3

\* The producer looks at what the consumer writes, or makes a signal.
LEMMA ProducerQuiet ==
  ASSUME QTypeOK, NEW s \in Seq(DOMAIN blocks), NEW t \in Nat,
         NEW base \in [DOMAIN blocks -> Nat], AliveOK(s, t, base),
         \/ \E canAlloc \in BOOLEAN : Enqueue(canAlloc)
         \/ NextBlock \/ AllocFails \/ Full \/ Signal \/ Post
  PROVE  BlocksOK' /\ Alive' /\ UNCHANGED <<out, c>>
<1> USE DEF PGoto, CGoto, semaphore, ring
<1>0. /\ RingOK(s, t) /\ FillOK(s, t) /\ BaseOK(s, t, base) /\ SlotsOK(base)
      /\ ProducerOK(base) /\ ConsumerOK /\ SemOK
      /\ p \in [at : ProducerPoints, canAlloc : BOOLEAN, sent : Nat, seen : Nat, left : Nat]
      /\ tailBlock \in DOMAIN blocks /\ BlockOK(blocks[tailBlock])
  BY Ends DEF AliveOK, QTypeOK
<1>1. SemOK'
  BY <1>0, SemStep DEF ProducerStep
<1>2. SUFFICES ASSUME BlocksOK', DOMAIN blocks' = DOMAIN blocks, Len(blocks') = Len(blocks),
                      \A b \in DOMAIN blocks : Like(blocks'[b], blocks[b])
                                               /\ blocks'[b].localTail = blocks[b].localTail
               PROVE  /\ p'.sent = p.sent /\ p.at \notin {"link", "advance", "tail"}
                      /\ p'.at \notin {"link", "advance", "tail"}
                      /\ p'.at = "reuse" => t < Len(s)
                      /\ p'.at = "write" => HasRoom(blocks'[tailBlock])
                      /\ UNCHANGED <<prog, frontBlock, tailBlock, c, out>>
  <2> DEFINE Facts == /\ p'.sent = p.sent /\ p.at \notin {"link", "advance", "tail"}
                      /\ p'.at \notin {"link", "advance", "tail"}
                      /\ p'.at = "reuse" => t < Len(s)
                      /\ p'.at = "write" => HasRoom(blocks'[tailBlock])
                      /\ UNCHANGED <<prog, frontBlock, tailBlock, c, out>>
             Copied == /\ BlocksOK' /\ DOMAIN blocks' = DOMAIN blocks
                       /\ Len(blocks') = Len(blocks)
                       /\ \A b \in DOMAIN blocks :
                            Like(blocks'[b], blocks[b])
                            /\ blocks'[b].localTail = blocks[b].localTail
  <2>1. Copied
    <3>1. CASE NextBlock \/ AllocFails \/ Full \/ Signal \/ Post
      <4>1. blocks' = blocks
        BY <3>1 DEF NextBlock, AllocFails, Full, Signal, Post
      <4> QED
        BY <4>1, CopyStep
    <3>2. CASE \E canAlloc \in BOOLEAN : Enqueue(canAlloc)
      <4> DEFINE B == blocks[tailBlock]
                 D == [B EXCEPT !.localFront = FrontSeen]
      <4>1. blocks' = [blocks EXCEPT ![tailBlock] = D]
        BY <3>2, EnqueueFacts, Zenon
      <4>2. BlockOK(B) /\ B \in BlockOf(B.size)
        BY <1>0, BlockFacts
      <4>3. [B EXCEPT !.localFront = B.localFront] = B
        BY <4>2 DEF BlockOf
      <4>4. BlockOK(D)
        BY <4>2, <4>3, BlockCopies DEF FrontSeen
      <4>5. Like(D, B) /\ D.localTail = B.localTail
        BY <4>2 DEF BlockOf, Like
      <4>6. D \in AnyBlock
        BY <4>4, BlockFacts
      <4> HIDE DEF D
      <4>7. /\ BlocksOK' /\ DOMAIN blocks' = DOMAIN blocks /\ Len(blocks') = Len(blocks)
            /\ \A b \in DOMAIN blocks : Like(blocks'[b], blocks[b])
        BY <1>0, <4>1, <4>4, <4>5, <4>6, CopyStep
      <4>8. /\ blocks'[tailBlock] = D
            /\ \A x \in DOMAIN blocks : x # tailBlock => blocks'[x] = blocks[x]
        BY <1>0, <4>1, <4>4, OneBlock
      <4> QED
        BY <4>5, <4>7, <4>8
    <3> QED
      BY <3>1, <3>2
  <2> SUFFICES Facts => Alive' /\ UNCHANGED <<out, c>>
    BY <2>1
  <2> SUFFICES ASSUME Facts PROVE Alive' /\ UNCHANGED <<out, c>>
    OBVIOUS
  <2>2. RingOK(s, t)' /\ FillOK(s, t)' /\ BaseOK(s, t, base)' /\ SlotsOK(base)'
    BY <1>0, <2>1, AliveSame
  <2>3. ConsumerOK'
    <3>1. \A b \in DOMAIN blocks : /\ blocks'[b].front = blocks[b].front
                                   /\ blocks'[b].next = blocks[b].next
                                   /\ Used(blocks'[b]) = Used(blocks[b])
      BY <2>1 DEF Like, Used
    <3>2. frontBlock \in DOMAIN blocks /\ p.sent \in Nat
      BY <1>0, Ends
    <3> QED
      BY <1>0, <2>1, <3>1, <3>2, ConsumerKept
  <2>4. ProducerOK(base)'
    BY DEF ProducerOK
  <2>5. AliveOK(s, t, base)'
    BY <1>1, <2>2, <2>3, <2>4 DEF AliveOK
  <2>6. s \in Seq(DOMAIN blocks') /\ base \in [DOMAIN blocks' -> Nat]
    BY <2>1
  <2> QED
    BY <2>5, <2>6 DEF Alive
<1>3. CASE \E canAlloc \in BOOLEAN : Enqueue(canAlloc)
  <2>1. PICK canAlloc \in BOOLEAN : Enqueue(canAlloc)
    BY <1>3
  <2> DEFINE B == blocks[tailBlock]
             room == After(tailBlock, B.tail) # FrontSeen
             D == [B EXCEPT !.localFront = FrontSeen]
  <2>2. /\ blocks' = [blocks EXCEPT ![tailBlock] = D] /\ p.at = "ready"
        /\ UNCHANGED <<prog, frontBlock, tailBlock, c, out>>
    BY <2>1, EnqueueFacts, Zenon
  <2>3. room => HasRoom(D)
    <3>1. After(tailBlock, B.tail) = Nxt(B.size, B.tail)
      BY <1>0, BlockFacts, AfterIsNxt
    <3>2. FrontSeen \in {B.localFront, B.front}
      BY DEF FrontSeen
    <3> QED
      BY <1>0, <3>1, <3>2, RoomFound
  <2>4. blocks'[tailBlock] = D
    BY <1>0, <2>2 DEF QTypeOK
  <2>5. PICK l \in {"write", "next"} :
          /\ l = "write" => room
          /\ p' = [p EXCEPT !.at = l, !.canAlloc = canAlloc, !.seen = Filled, !.left = @ - 1]
    BY <2>1, EnqueueFacts, Zenon
  <2> HIDE DEF room, D
  <2>6. p'.sent = p.sent /\ p'.at = l
    BY <1>0, <2>5
  <2> QED
    BY <2>2, <2>3, <2>4, <2>5, <2>6
<1>4. CASE NextBlock
  <2>1. p' = [p EXCEPT !.at = IF blocks[tailBlock].next # frontBlock THEN "reuse"
                              ELSE IF p.canAlloc THEN "alloc" ELSE "full"]
        /\ p.at = "next" /\ UNCHANGED <<prog, frontBlock, tailBlock, c, out>>
    BY <1>4 DEF NextBlock
  <2>2. blocks[tailBlock].next # frontBlock => t < Len(s)
    <3>1. /\ blocks[tailBlock].next = s[Succ(Len(s), t)] /\ s[1] = frontBlock
          /\ t \in 1..Len(s) /\ Len(s) \in Nat
      BY <1>0, NextOfEnds, Ends
    <3>2. t = Len(s) => Succ(Len(s), t) = 1
      BY DEF Succ
    <3> QED
      BY <3>1, <3>2
  <2> QED
    BY <1>0, <2>1, <2>2
<1>5. CASE AllocFails \/ Full
  BY <1>0, <1>5 DEF AllocFails, Full
<1>6. CASE Signal
  BY <1>0, <1>6 DEF Signal
<1>7. CASE Post
  BY <1>0, <1>7 DEF Post
<1> QED
  BY <1>3, <1>4, <1>5, <1>6, <1>7

\* The consumer copies the tail of a block.
LEMMA CopyTail ==
  ASSUME QTypeOK, NEW b \in DOMAIN blocks, NEW v \in {blocks[b].localTail, blocks[b].tail},
         blocks' = [blocks EXCEPT ![b] = [blocks[b] EXCEPT !.localTail = v]]
  PROVE  /\ BlocksOK' /\ DOMAIN blocks' = DOMAIN blocks /\ Len(blocks') = Len(blocks)
         /\ \A x \in DOMAIN blocks : Like(blocks'[x], blocks[x])
                                     /\ blocks'[x].localFront = blocks[x].localFront
         /\ blocks'[b].localTail = v
<1> DEFINE B == blocks[b]
           D == [B EXCEPT !.localTail = v]
<1>1. BlockOK(B) /\ B \in BlockOf(B.size)
  BY BlockFacts DEF QTypeOK
<1>2. [B EXCEPT !.localTail = B.localTail] = B
  BY <1>1 DEF BlockOf
<1>3. BlockOK(D)
  BY <1>1, <1>2, BlockCopies
<1>4. Like(D, B) /\ D.localFront = B.localFront /\ D.localTail = v
  BY <1>1 DEF BlockOf, Like
<1>5. D \in AnyBlock
  BY <1>3, BlockFacts
<1> HIDE DEF D
<1>6. blocks' = [blocks EXCEPT ![b] = D]
  BY DEF D
<1>7. /\ BlocksOK' /\ DOMAIN blocks' = DOMAIN blocks /\ Len(blocks') = Len(blocks)
      /\ \A x \in DOMAIN blocks : Like(blocks'[x], blocks[x])
  BY <1>3, <1>4, <1>5, <1>6, CopyStep
<1>8. /\ blocks'[b] = D
      /\ \A x \in DOMAIN blocks : x # b => blocks'[x] = blocks[x]
  BY <1>3, <1>6, OneBlock
<1> QED
  BY <1>4, <1>7, <1>8

\* The consumer looks, or asks the semaphore.
LEMMA ConsumerQuiet ==
  ASSUME QTypeOK, NEW s \in Seq(DOMAIN blocks), NEW t \in Nat,
         NEW base \in [DOMAIN blocks -> Nat], AliveOK(s, t, base), ConsumerStep,
         BlocksOK', DOMAIN blocks' = DOMAIN blocks, Len(blocks') = Len(blocks),
         \A b \in DOMAIN blocks : Like(blocks'[b], blocks[b])
                                  /\ blocks'[b].localFront = blocks[b].localFront,
         UNCHANGED <<p, frontBlock, tailBlock, out>>, c.at # "front", c'.at # "front",
         ConsumerOK'
  PROVE  Alive'
<1>0. /\ RingOK(s, t) /\ FillOK(s, t) /\ BaseOK(s, t, base) /\ SlotsOK(base)
      /\ ProducerOK(base) /\ ConsumerOK /\ SemOK
      /\ tailBlock \in DOMAIN blocks
  BY Ends DEF AliveOK
<1>1. SemOK'
  BY <1>0, SemStep
<1>2. p'.at = "reuse" => p.at = "reuse"
  OBVIOUS
<1>3. RingOK(s, t)' /\ FillOK(s, t)' /\ BaseOK(s, t, base)' /\ SlotsOK(base)'
  BY <1>0, <1>2, AliveSame
<1>4. ProducerOK(base)'
  <2>1. Len(blocks) \in DOMAIN blocks
    BY <1>0 DEF QTypeOK
  <2>2. Used(blocks'[Len(blocks)]) = Used(blocks[Len(blocks)])
    BY <2>1 DEF Used, Like
  <2>3. \A b \in DOMAIN blocks :
          /\ blocks'[b].localFront = blocks[b].localFront /\ blocks'[b].tail = blocks[b].tail
          /\ blocks'[b].size = blocks[b].size /\ blocks'[b].next = blocks[b].next
    BY DEF Like
  <2> QED
    BY <1>0, <2>2, <2>3, ProducerKept
<1>5. AliveOK(s, t, base)'
  BY <1>1, <1>3, <1>4 DEF AliveOK
<1>6. s \in Seq(DOMAIN blocks') /\ base \in [DOMAIN blocks' -> Nat]
  OBVIOUS
<1> QED
  BY <1>5, <1>6 DEF Alive

\* The element at the front of a block.
LEMMA ElementAtFront ==
  ASSUME QTypeOK, NEW s, NEW t, NEW base, RingOK(s, t), SlotsOK(base), NEW b \in DOMAIN blocks,
         Used(blocks[b]) > 0, c.at # "front"
  PROVE  blocks[b].data[blocks[b].front] = base[b] + 0
<1> DEFINE B == blocks[b]
           i == B.front
<1>1. BlockOK(B) /\ B.size \in Nat /\ B.size >= 2 /\ i \in 0..(B.size - 1) /\ i # B.tail
  BY BlockFacts DEF QTypeOK
<1>2. ~HasRead(b, i) /\ ~HasWritten(b, i)
  BY <1>1 DEF HasRead, HasWritten
<1>3. Steps(B.size, B.front, i) = 0
  BY <1>1 DEF Steps
<1>4. B.data[i] = SlotIs(b, i, base)
  BY <1>1 DEF SlotsOK
<1>5. SlotIs(b, i, base) = IF Steps(B.size, B.front, i) < Used(B)
                           THEN base[b] + Steps(B.size, B.front, i) ELSE Empty
  BY <1>2 DEF SlotIs
<1> QED
  BY <1>3, <1>4, <1>5

\* The next element is at the front of the front block, or of the one after it.
LEMMA NextElement ==
  ASSUME QTypeOK, NEW s, NEW t, NEW base \in [DOMAIN blocks -> Nat], AliveOK(s, t, base),
         c.at # "front"
  PROVE  /\ Used(blocks[frontBlock]) > 0 =>
              /\ blocks[frontBlock].data[blocks[frontBlock].front] = Len(out) + 1
              /\ Len(out) + 1 <= p.sent
         /\ frontBlock # tailBlock =>
              LET n == blocks[frontBlock].next
              IN  /\ n \in DOMAIN blocks /\ Used(blocks[n]) > 0 /\ n = s[2] /\ t >= 2
                  /\ Used(blocks[frontBlock]) = 0 =>
                       /\ blocks[n].data[blocks[n].front] = Len(out) + 1
                       /\ Len(out) + 1 <= p.sent
<1>0. /\ RingOK(s, t) /\ FillOK(s, t) /\ BaseOK(s, t, base) /\ SlotsOK(base)
  BY DEF AliveOK
<1>1. /\ Len(s) \in Nat /\ t \in 1..Len(s) /\ s[1] = frontBlock /\ frontBlock \in DOMAIN blocks
      /\ BlockOK(blocks[frontBlock]) /\ (frontBlock = tailBlock <=> t = 1)
      /\ \A i \in 1..Len(s) : s[i] \in DOMAIN blocks
      /\ \A b \in DOMAIN blocks : Used(blocks[b]) \in Nat
  <2>1. \A b \in DOMAIN blocks : BlockOK(blocks[b])
    BY DEF QTypeOK
  <2>2. \A b \in DOMAIN blocks : Used(blocks[b]) \in Nat
    <3> TAKE b \in DOMAIN blocks
    <3>1. BlockOK(blocks[b])
      BY <2>1
    <3>2. Used(blocks[b]) \in 0..(blocks[b].size - 1) /\ blocks[b].size \in Nat \ {0}
      BY <3>1, BlockFacts
    <3> QED
      BY <3>2
  <2> QED
    BY <1>0, <2>2, Ends
<1>2. /\ base[frontBlock] = Len(out) + 1 /\ p.sent \in Nat /\ Len(out) \in Nat
      /\ Element = p.sent + 1
  BY <1>0 DEF BaseOK, QTypeOK, Element
<1>3. ASSUME Used(blocks[frontBlock]) > 0
      PROVE  /\ blocks[frontBlock].data[blocks[frontBlock].front] = Len(out) + 1
             /\ Len(out) + 1 <= p.sent
  <2>1. base[s[1]] + Used(blocks[s[1]]) <= Element
    BY <1>0, <1>1 DEF BaseOK
  <2>2. blocks[frontBlock].data[blocks[frontBlock].front] = base[frontBlock] + 0
    BY <1>0, <1>1, <1>3, ElementAtFront
  <2>3. PICK u \in Nat : u = Used(blocks[frontBlock])
    BY <1>1
  <2>4. Len(out) + 1 + u <= p.sent + 1 /\ u > 0
    BY <1>1, <1>2, <1>3, <2>1, <2>3
  <2> QED
    BY <1>2, <2>2, <2>4
<1>4. ASSUME frontBlock # tailBlock
      PROVE  LET n == blocks[frontBlock].next
             IN  /\ n \in DOMAIN blocks /\ Used(blocks[n]) > 0 /\ n = s[2] /\ t >= 2
                 /\ Used(blocks[frontBlock]) = 0 =>
                      /\ blocks[n].data[blocks[n].front] = Len(out) + 1
                      /\ Len(out) + 1 <= p.sent
  <2> DEFINE n == blocks[frontBlock].next
  <2>1. t >= 2 /\ Len(s) >= 2 /\ 2 \in 1..Len(s) /\ 2 \in 2..t /\ 2 \in 1..t /\ 1 \in 1..(t - 1)
    BY <1>1, <1>4
  <2>2. n = s[2] /\ n \in DOMAIN blocks
    <3>1. n = s[Succ(Len(s), 1)] /\ n \in DOMAIN blocks
      BY <1>0, NextOfEnds
    <3>2. \A k \in Nat : k >= 2 => Succ(k, 1) = 2
      BY DEF Succ
    <3> QED
      BY <1>1, <2>1, <3>1, <3>2
  <2>3. Used(blocks[n]) > 0
    BY <1>0, <2>1, <2>2 DEF FillOK
  <2>4. base[s[2]] + Used(blocks[s[2]]) <= Element
    BY <1>0, <2>1 DEF BaseOK
  <2>5. base[s[1 + 1]] = base[s[1]] + Used(blocks[s[1]])
    BY <1>0, <2>1 DEF BaseOK
  <2>6. blocks[n].data[blocks[n].front] = base[n] + 0
    BY <1>0, <2>2, <2>3, ElementAtFront
  <2>7. ASSUME Used(blocks[frontBlock]) = 0
        PROVE  base[n] = Len(out) + 1
    BY <1>1, <1>2, <2>2, <2>5, <2>7
  <2>8. PICK u \in Nat : u = Used(blocks[n])
    BY <1>1, <2>2
  <2>9. ASSUME Used(blocks[frontBlock]) = 0
        PROVE  Len(out) + 1 + u <= p.sent + 1 /\ u > 0
    BY <1>2, <2>2, <2>3, <2>4, <2>7, <2>8, <2>9
  <2> HIDE DEF n
  <2>10. ASSUME Used(blocks[frontBlock]) = 0
         PROVE  blocks[n].data[blocks[n].front] = Len(out) + 1 /\ Len(out) + 1 <= p.sent
    BY <1>2, <2>6, <2>7, <2>9, <2>10
  <2> QED
    BY <2>1, <2>2, <2>3, <2>10 DEF n
<1> QED
  BY <1>3, <1>4

\* What the consumer's look does.
LEMMA LookFacts ==
  ASSUME Look
  PROVE  /\ c.at = "look" /\ UNCHANGED <<prog, frontBlock, tailBlock, p, out>>
         /\ blocks' = [blocks EXCEPT ![frontBlock] =
                                   [blocks[frontBlock] EXCEPT !.localTail = TailSeen]]
         /\ \E l \in {"element", "block"} :
              /\ l = "element" <=> blocks[frontBlock].front # TailSeen
              /\ c' = [c EXCEPT !.at = l, !.seen = Len(Contents)]
<1>1. c.at = "look" /\ UNCHANGED <<prog, frontBlock, tailBlock, p, out>>
  BY DEF Look
<1>2. blocks' = [blocks EXCEPT ![frontBlock] =
                             [blocks[frontBlock] EXCEPT !.localTail = TailSeen]]
  BY Zenon DEF Look
<1>3. \E l \in {"element", "block"} :
        /\ l = "element" <=> blocks[frontBlock].front # TailSeen
        /\ c' = [c EXCEPT !.at = l, !.seen = Len(Contents)]
  BY DEF Look
<1> QED
  BY Zenon, <1>1, <1>2, <1>3

\* What the consumer's second look does, and its look at the next block.
LEMMA LookAgainFacts ==
  ASSUME LookAgain
  PROVE  /\ c.at = "again" /\ UNCHANGED <<prog, frontBlock, tailBlock, p, out>>
         /\ blocks' = [blocks EXCEPT ![frontBlock] =
                         [blocks[frontBlock] EXCEPT !.localTail = blocks[frontBlock].tail]]
         /\ c' = IF blocks[frontBlock].front # blocks[frontBlock].tail
                 THEN [c EXCEPT !.at = "element"]
                 ELSE [c EXCEPT !.at = "next", !.next = blocks[frontBlock].next]
<1>1. c.at = "again" /\ UNCHANGED <<prog, frontBlock, tailBlock, p, out>>
  BY DEF LookAgain
<1>2. /\ blocks' = [blocks EXCEPT ![frontBlock] =
                      [blocks[frontBlock] EXCEPT !.localTail = blocks[frontBlock].tail]]
      /\ c' = IF blocks[frontBlock].front # blocks[frontBlock].tail
              THEN [c EXCEPT !.at = "element"]
              ELSE [c EXCEPT !.at = "next", !.next = blocks[frontBlock].next]
  BY Zenon DEF LookAgain
<1> QED
  BY Zenon, <1>1, <1>2

LEMMA LookAtNextFacts ==
  ASSUME LookAtNext
  PROVE  /\ c.at = "next" /\ UNCHANGED <<prog, frontBlock, tailBlock, p, out>>
         /\ IF c.op = "peek"
            THEN /\ c' = [c EXCEPT !.at = "peeked",
                                   !.val = blocks[c.next].data[blocks[c.next].front]]
                 /\ blocks' = blocks
            ELSE /\ c' = [c EXCEPT !.at = "forward"]
                 /\ blocks' = [blocks EXCEPT ![c.next] =
                                 [blocks[c.next] EXCEPT !.localTail = blocks[c.next].tail]]
<1>1. c.at = "next" /\ UNCHANGED <<prog, frontBlock, tailBlock, p, out>>
  BY DEF LookAtNext
<1>2. IF c.op = "peek"
      THEN /\ c' = [c EXCEPT !.at = "peeked",
                             !.val = blocks[c.next].data[blocks[c.next].front]]
           /\ blocks' = blocks
      ELSE /\ c' = [c EXCEPT !.at = "forward"]
           /\ blocks' = [blocks EXCEPT ![c.next] =
                           [blocks[c.next] EXCEPT !.localTail = blocks[c.next].tail]]
  BY Zenon DEF LookAtNext, CGoto
<1> QED
  BY Zenon, <1>1, <1>2

\* The consumer's first look.
LEMMA LookAlive ==
  ASSUME QTypeOK, NEW s \in Seq(DOMAIN blocks), NEW t \in Nat,
         NEW base \in [DOMAIN blocks -> Nat], AliveOK(s, t, base), Look
  PROVE  BlocksOK' /\ Alive' /\ UNCHANGED <<out, p>>
<1>0. /\ RingOK(s, t) /\ BaseOK(s, t, base) /\ ConsumerOK /\ SemOK
      /\ frontBlock \in DOMAIN blocks /\ BlockOK(blocks[frontBlock])
      /\ c \in [at : ConsumerPoints, op : Ops \cup {"none"}, next : Nat, val : Nat, seen : Nat,
                left : Nat]
  BY Ends DEF AliveOK, QTypeOK
<1> DEFINE B == blocks[frontBlock]
<1>1. /\ c.at = "look" /\ UNCHANGED <<prog, frontBlock, tailBlock, p, out>>
      /\ blocks' = [blocks EXCEPT ![frontBlock] = [B EXCEPT !.localTail = TailSeen]]
  BY Zenon, LookFacts
<1>2. PICK l \in {"element", "block"} :
        /\ l = "element" <=> B.front # TailSeen
        /\ c' = [c EXCEPT !.at = l, !.seen = Len(Contents)]
  BY Zenon, LookFacts
<1>3. /\ c'.at = l /\ c'.op = c.op /\ c'.seen = Len(Contents)
  BY <1>0, <1>2
<1>4. TailSeen \in {B.localTail, B.tail} /\ (B.front = TailSeen => B.front = B.tail)
  BY DEF TailSeen
<1>5. /\ BlocksOK' /\ DOMAIN blocks' = DOMAIN blocks /\ Len(blocks') = Len(blocks)
      /\ \A x \in DOMAIN blocks : Like(blocks'[x], blocks[x])
                                  /\ blocks'[x].localFront = blocks[x].localFront
      /\ blocks'[frontBlock].localTail = TailSeen
  BY <1>0, <1>1, <1>4, CopyTail
<1>6. blocks'[frontBlock].front = B.front
  BY <1>0, <1>5 DEF Like
<1>7. ASSUME l = "block", frontBlock = tailBlock PROVE Len(Contents) = 0
  <2>1. Used(B) = 0
    BY <1>0, <1>2, <1>4, <1>7, BlockFacts
  <2>2. base[frontBlock] + Used(B) = p.sent + 1 /\ base[frontBlock] = Len(out) + 1
    BY <1>0, <1>1, <1>7 DEF BaseOK, Element
  <2>3. PICK m \in Nat, k \in Nat : m = p.sent /\ k = Len(out) /\ Len(Contents) = m - k
    BY <1>0, OutOfSent
  <2>4. k + 1 + 0 = m + 1
    BY <2>1, <2>2, <2>3
  <2>5. m - k = 0
    BY <2>4
  <2> QED
    BY <2>3, <2>5
<1>8. ASSUME HasUnit PROVE Len(Contents) > 0
  <2>1. p.sent \in Nat /\ Len(out) \in Nat /\ Len(Contents) = p.sent - Len(out)
    BY <1>0, OutOfSent
  <2>2. m_count \in Int
    BY DEF QTypeOK
  <2>3. p.sent - Len(out)
            = (IF m_count > 0 THEN m_count ELSE 0) + (IF p.at = "signal" THEN 1 ELSE 0) + 1
    <3>1. prog.blocking /\ c.at # "sleep"
      BY <1>1, <1>8 DEF HasUnit
    <3>2. p.sent - Len(out)
            = (IF m_count > 0 THEN m_count ELSE 0) + (IF p.at = "signal" THEN 1 ELSE 0)
              + (IF HasUnit THEN 1 ELSE 0)
              + (IF c.at = "sleep" /\ m_count >= 0 THEN 1 ELSE 0)
      BY <1>0, <3>1 DEF SemOK
    <3> QED
      BY <1>8, <2>2, <3>1, <3>2
  <2> QED
    BY <2>1, <2>2, <2>3
<1>9. HasUnit' => HasUnit
  BY <1>1, <1>3 DEF HasUnit
<1>10. ConsumerOK'
  <2>1. CASE l = "element"
    BY <1>1, <1>2, <1>3, <1>5, <1>6, <2>1 DEF ConsumerOK
  <2>2. CASE l = "block"
    BY <1>1, <1>3, <1>7, <1>8, <1>9, <2>2 DEF ConsumerOK
  <2> QED
    BY <2>1, <2>2
<1> QED
  BY <1>1, <1>3, <1>5, <1>10, ConsumerQuiet DEF ConsumerStep

\* Its second look, and its look at the next block.
LEMMA LooksAlive ==
  ASSUME QTypeOK, NEW s \in Seq(DOMAIN blocks), NEW t \in Nat,
         NEW base \in [DOMAIN blocks -> Nat], AliveOK(s, t, base), LookAgain \/ LookAtNext
  PROVE  BlocksOK' /\ Alive' /\ UNCHANGED <<out, p>>
<1>0. /\ RingOK(s, t) /\ BaseOK(s, t, base) /\ ConsumerOK
      /\ frontBlock \in DOMAIN blocks /\ BlockOK(blocks[frontBlock])
      /\ c \in [at : ConsumerPoints, op : Ops \cup {"none"}, next : Nat, val : Nat, seen : Nat,
                left : Nat]
  BY Ends DEF AliveOK, QTypeOK
<1> DEFINE B == blocks[frontBlock]
<1>1. CASE LookAgain
  <2>1. /\ c.at = "again" /\ UNCHANGED <<prog, frontBlock, tailBlock, p, out>>
        /\ blocks' = [blocks EXCEPT ![frontBlock] = [B EXCEPT !.localTail = B.tail]]
        /\ c' = IF B.front # B.tail THEN [c EXCEPT !.at = "element"]
                ELSE [c EXCEPT !.at = "next", !.next = B.next]
    BY Zenon, <1>1, LookAgainFacts
  <2>2. /\ BlocksOK' /\ DOMAIN blocks' = DOMAIN blocks /\ Len(blocks') = Len(blocks)
        /\ \A x \in DOMAIN blocks : Like(blocks'[x], blocks[x])
                                    /\ blocks'[x].localFront = blocks[x].localFront
        /\ blocks'[frontBlock].localTail = B.tail
    BY <1>0, <2>1, CopyTail
  <2>3. /\ blocks'[frontBlock].front = B.front /\ blocks'[frontBlock].next = B.next
        /\ Used(blocks'[frontBlock]) = Used(B)
    BY <1>0, <2>2 DEF Like, Used
  <2>4. frontBlock # tailBlock
    BY <1>0, <2>1 DEF ConsumerOK
  <2>5. CASE B.front # B.tail
    <3>1. c'.at = "element"
      BY <1>0, <2>1, <2>5
    <3>2. ConsumerOK'
      BY <2>1, <2>2, <2>3, <2>4, <2>5, <3>1 DEF ConsumerOK
    <3> QED
      BY <1>1, <2>1, <2>2, <3>1, <3>2, ConsumerQuiet DEF ConsumerStep
  <2>6. CASE B.front = B.tail
    <3>1. c'.at = "next" /\ c'.next = B.next /\ Used(B) = 0
      BY <1>0, <2>1, <2>6, BlockFacts
    <3>2. ConsumerOK'
      BY <2>1, <2>2, <2>3, <2>4, <3>1 DEF ConsumerOK
    <3> QED
      BY <1>1, <2>1, <2>2, <3>1, <3>2, ConsumerQuiet DEF ConsumerStep
  <2> QED
    BY <2>5, <2>6
<1>2. CASE LookAtNext
  <2> DEFINE n == c.next
  <2>1. /\ c.at = "next" /\ UNCHANGED <<prog, frontBlock, tailBlock, p, out>>
    BY Zenon, <1>2, LookAtNextFacts
  <2>2. frontBlock # tailBlock /\ Used(B) = 0 /\ n = B.next
    BY <1>0, <2>1 DEF ConsumerOK
  <2>3. /\ n \in DOMAIN blocks /\ Used(blocks[n]) > 0
        /\ blocks[n].data[blocks[n].front] = Len(out) + 1 /\ Len(out) + 1 <= p.sent
    <3>1. c.at # "front"
      BY <2>1
    <3> QED
      BY <2>2, <3>1, NextElement
  <2>4. CASE c.op = "peek"
    <3>1. /\ blocks' = blocks
          /\ c' = [c EXCEPT !.at = "peeked", !.val = blocks[n].data[blocks[n].front]]
      BY Zenon, <1>2, <2>4, LookAtNextFacts
    <3>2. c'.at = "peeked" /\ c'.val = Len(out) + 1
      BY <1>0, <2>3, <3>1
    <3>3. ConsumerOK'
      BY <2>1, <2>3, <3>2 DEF ConsumerOK
    <3>4. /\ BlocksOK' /\ DOMAIN blocks' = DOMAIN blocks /\ Len(blocks') = Len(blocks)
          /\ \A b \in DOMAIN blocks : Like(blocks'[b], blocks[b])
                                      /\ blocks'[b].localFront = blocks[b].localFront
      BY <3>1, CopyStep
    <3> QED
      BY <1>2, <2>1, <3>2, <3>3, <3>4, ConsumerQuiet DEF ConsumerStep
  <2>5. CASE c.op # "peek"
    <3>1. /\ blocks' = [blocks EXCEPT ![n] = [blocks[n] EXCEPT !.localTail = blocks[n].tail]]
          /\ c' = [c EXCEPT !.at = "forward"]
      BY Zenon, <1>2, <2>5, LookAtNextFacts
    <3>2. c'.at = "forward" /\ c'.next = n
      BY <1>0, <3>1
    <3>3. /\ BlocksOK' /\ DOMAIN blocks' = DOMAIN blocks /\ Len(blocks') = Len(blocks)
          /\ \A x \in DOMAIN blocks : Like(blocks'[x], blocks[x])
                                      /\ blocks'[x].localFront = blocks[x].localFront
          /\ blocks'[n].localTail = blocks[n].tail
      <4>1. n \in DOMAIN blocks /\ blocks[n].tail \in {blocks[n].localTail, blocks[n].tail}
        BY <2>3
      <4> HIDE DEF n
      <4> QED
        BY <3>1, <4>1, CopyTail
    <3>4. /\ blocks'[frontBlock].next = B.next /\ Used(blocks'[frontBlock]) = Used(B)
          /\ blocks'[n].front = blocks[n].front
      BY <1>0, <2>3, <3>3 DEF Like, Used
    <3>5. blocks[n].front # blocks[n].tail
      BY <2>3, BlockFacts DEF QTypeOK
    <3>6. ConsumerOK'
      BY <2>1, <2>2, <3>2, <3>3, <3>4, <3>5 DEF ConsumerOK
    <3> QED
      BY <1>2, <2>1, <3>2, <3>3, <3>6, ConsumerQuiet DEF ConsumerStep
  <2> QED
    BY <2>4, <2>5
<1> QED
  BY <1>1, <1>2

\* What a call begins with.
LEMMA CallFacts ==
  ASSUME QTypeOK, NEW op, Call(op) \/ TryWait(op)
  PROVE  /\ UNCHANGED <<prog, blocks, frontBlock, tailBlock, p, out>>
         /\ c'.at \in {"ready", "look"} /\ c.at = "ready"
<1> USE DEF semaphore, ring
<1>0. c \in [at : ConsumerPoints, op : Ops \cup {"none"}, next : Nat, val : Nat, seen : Nat,
             left : Nat]
  BY DEF QTypeOK
<1>1. ASSUME Call(op)
      PROVE  /\ UNCHANGED <<prog, blocks, frontBlock, tailBlock, p, out>>
             /\ c'.at \in {"ready", "look"} /\ c.at = "ready"
  <2>1. PICK d : c' = [c EXCEPT !.at = "look", !.op = op, !.left = d]
    BY Zenon, <1>1 DEF Call
  <2>2. c.at = "ready" /\ UNCHANGED <<prog, blocks, frontBlock, tailBlock, p, out>>
    BY Zenon, <1>1 DEF Call
  <2> QED
    BY <1>0, <2>1, <2>2
<1>2. ASSUME TryWait(op)
      PROVE  /\ UNCHANGED <<prog, blocks, frontBlock, tailBlock, p, out>>
             /\ c'.at \in {"ready", "look"} /\ c.at = "ready"
  <2>1. PICK d : \/ c' = [c EXCEPT !.at = "look", !.op = op, !.left = d]
                 \/ c' = [c EXCEPT !.left = d]
    BY Zenon, <1>2 DEF TryWait
  <2>2. c.at = "ready" /\ UNCHANGED <<prog, blocks, frontBlock, tailBlock, p, out>>
    BY Zenon, <1>2 DEF TryWait
  <2> QED
    BY <1>0, <2>1, <2>2
<1> QED
  BY Zenon, <1>1, <1>2

\* A call begins or ends, or the consumer waits for the semaphore.
LEMMA CallsAlive ==
  ASSUME QTypeOK, NEW s \in Seq(DOMAIN blocks), NEW t \in Nat,
         NEW base \in [DOMAIN blocks -> Nat], AliveOK(s, t, base),
         \/ \E op \in Ops : Call(op) \/ TryWait(op)
         \/ LookAtTailBlock \/ Return \/ Wait \/ Spin \/ SpinEnd \/ WakeUp
  PROVE  BlocksOK' /\ Alive' /\ UNCHANGED <<out, p>>
<1> USE DEF semaphore, ring, CGoto
<1>0. /\ RingOK(s, t) /\ ConsumerOK
      /\ c \in [at : ConsumerPoints, op : Ops \cup {"none"}, next : Nat, val : Nat, seen : Nat,
                left : Nat]
  BY DEF AliveOK, QTypeOK
<1>1. UNCHANGED <<prog, blocks, frontBlock, tailBlock, p, out>>
  <2>1. CASE \E op \in Ops : Call(op) \/ TryWait(op)
    BY <2>1, CallFacts
  <2>2. CASE LookAtTailBlock \/ Return
    BY <2>2 DEF LookAtTailBlock, Return
  <2>3. CASE Wait
    BY <2>3 DEF Wait
  <2>4. CASE Spin \/ SpinEnd \/ WakeUp
    BY <2>4 DEF Spin, SpinEnd, WakeUp
  <2> QED
    BY <2>1, <2>2, <2>3, <2>4
<1>2. /\ BlocksOK' /\ DOMAIN blocks' = DOMAIN blocks /\ Len(blocks') = Len(blocks)
      /\ \A b \in DOMAIN blocks : Like(blocks'[b], blocks[b])
                                  /\ blocks'[b].localFront = blocks[b].localFront
  BY <1>1, CopyStep
<1>3. \/ c'.at \in {"ready", "look", "spin", "sleep"} /\ c.at # "front"
      \/ /\ c.at = "block" /\ c'.at = IF frontBlock = tailBlock THEN "empty" ELSE "again"
         /\ c'.op = c.op /\ c'.seen = c.seen
  <2>1. CASE \E op \in Ops : Call(op) \/ TryWait(op)
    BY <2>1, CallFacts
  <2>2. CASE LookAtTailBlock
    BY <1>0, <2>2 DEF LookAtTailBlock
  <2>3. CASE Return
    BY <1>0, <2>3 DEF Return
  <2>4. CASE Wait
    BY <1>0, <2>4 DEF Wait
  <2>5. CASE Spin \/ SpinEnd
    BY <1>0, <2>5 DEF Spin, SpinEnd
  <2>6. CASE WakeUp
    BY <1>0, <2>6 DEF WakeUp
  <2> QED
    BY <2>1, <2>2, <2>3, <2>4, <2>5, <2>6
<1>4. ConsumerOK'
  <2>1. CASE c'.at \in {"ready", "look", "spin", "sleep"}
    BY <2>1 DEF ConsumerOK
  <2>2. CASE /\ c.at = "block" /\ c'.at = IF frontBlock = tailBlock THEN "empty" ELSE "again"
             /\ c'.op = c.op /\ c'.seen = c.seen
    BY <1>0, <1>1, <2>2 DEF ConsumerOK, HasUnit, QTypeOK
  <2> QED
    BY <1>3, <2>1, <2>2
<1>5. c.at # "front" /\ c'.at # "front"
  BY <1>3
<1> QED
  BY <1>1, <1>2, <1>4, <1>5, ConsumerQuiet DEF ConsumerStep

\* The element is read.
LEMMA ReadFacts ==
  ASSUME ReadElement
  PROVE  /\ c.at = "element" /\ UNCHANGED <<prog, frontBlock, tailBlock, p>>
         /\ LET f == blocks[frontBlock].front
                e == blocks[frontBlock].data[f]
            IN  IF c.op = "peek"
                THEN /\ c' = [c EXCEPT !.at = "peeked", !.val = e]
                     /\ blocks' = blocks /\ out' = out
                ELSE /\ c' = [c EXCEPT !.at = "front"]
                     /\ blocks' = [blocks EXCEPT ![frontBlock] =
                                     [blocks[frontBlock] EXCEPT !.data[f] = Empty]]
                     /\ out' = Append(out, e)
<1>1. c.at = "element" /\ UNCHANGED <<prog, frontBlock, tailBlock, p>>
  BY DEF ReadElement
<1>2. LET f == blocks[frontBlock].front
          e == blocks[frontBlock].data[f]
      IN  IF c.op = "peek"
          THEN /\ c' = [c EXCEPT !.at = "peeked", !.val = e]
               /\ blocks' = blocks /\ out' = out
          ELSE /\ c' = [c EXCEPT !.at = "front"]
               /\ blocks' = [blocks EXCEPT ![frontBlock] =
                               [blocks[frontBlock] EXCEPT !.data[f] = Empty]]
               /\ out' = Append(out, e)
  BY Zenon DEF ReadElement, CGoto
<1> QED
  BY Zenon, <1>1, <1>2

\* peek reads the element and leaves it.
LEMMA PeekAlive ==
  ASSUME QTypeOK, NEW s \in Seq(DOMAIN blocks), NEW t \in Nat,
         NEW base \in [DOMAIN blocks -> Nat], AliveOK(s, t, base), ReadElement, c.op = "peek"
  PROVE  BlocksOK' /\ Alive' /\ UNCHANGED <<out, p>>
<1>0. /\ RingOK(s, t) /\ BaseOK(s, t, base) /\ ConsumerOK
      /\ c \in [at : ConsumerPoints, op : Ops \cup {"none"}, next : Nat, val : Nat, seen : Nat,
                left : Nat]
  BY DEF AliveOK, QTypeOK
<1>1. c.at = "element" /\ UNCHANGED <<prog, frontBlock, tailBlock, p>>
  BY Zenon, ReadFacts
<1>2. /\ c' = [c EXCEPT !.at = "peeked",
                        !.val = blocks[frontBlock].data[blocks[frontBlock].front]]
      /\ blocks' = blocks /\ out' = out
  BY Zenon, ReadFacts
<1>3. Used(blocks[frontBlock]) > 0
  BY <1>0, <1>1, FrontUsed
<1>4. /\ blocks[frontBlock].data[blocks[frontBlock].front] = Len(out) + 1
      /\ Len(out) + 1 <= p.sent
  <2>1. c.at # "front"
    BY <1>1
  <2> QED
    BY <1>3, <2>1, NextElement
<1>5. c'.at = "peeked" /\ c'.val = Len(out) + 1
  BY <1>0, <1>2, <1>4
<1>6. ConsumerOK'
  BY <1>1, <1>2, <1>4, <1>5 DEF ConsumerOK
<1>7. /\ BlocksOK' /\ DOMAIN blocks' = DOMAIN blocks /\ Len(blocks') = Len(blocks)
      /\ \A b \in DOMAIN blocks : Like(blocks'[b], blocks[b])
                                  /\ blocks'[b].localFront = blocks[b].localFront
  BY <1>2, CopyStep
<1> QED
  BY <1>1, <1>2, <1>5, <1>6, <1>7, ConsumerQuiet DEF ConsumerStep

-----------------------------------------------------------------------------
(***************************************************************************)
(* Steps that move the tail: Write, StoreTail, Reuse and Advance.          *)
(***************************************************************************)

\* What each part of the invariant depends on.
LEMMA RingSame ==
  ASSUME QTypeOK, NEW s, NEW t, RingOK(s, t),
         DOMAIN blocks' = DOMAIN blocks, Len(blocks') = Len(blocks),
         \A b \in DOMAIN blocks : blocks'[b].next = blocks[b].next,
         UNCHANGED <<frontBlock, tailBlock>>, p'.at = "link" <=> p.at = "link"
  PROVE  RingOK(s, t)'
<1>1. \A i \in 1..Len(s) : s[i] \in DOMAIN blocks
  BY Ends
<1> QED
  BY <1>1 DEF RingOK

LEMMA FillSame ==
  ASSUME QTypeOK, NEW s, NEW t, RingOK(s, t), FillOK(s, t),
         \A b \in DOMAIN blocks : Used(blocks'[b]) = Used(blocks[b]),
         p'.at = "advance" <=> p.at = "advance",
         p'.at = "reuse" => p.at = "reuse" \/ t < Len(s)
  PROVE  FillOK(s, t)'
<1>1. \A i \in 1..Len(s) : Used(blocks'[s[i]]) = Used(blocks[s[i]])
  BY Ends
<1>2. /\ \A i \in 2..t : i \in 1..Len(s)
      /\ \A i \in (t + 1)..Len(s) : i \in 1..Len(s)
  BY Ends
<1> QED
  BY <1>1, <1>2 DEF FillOK

LEMMA BaseSame ==
  ASSUME QTypeOK, NEW s, NEW t, NEW base, RingOK(s, t), BaseOK(s, t, base),
         DOMAIN blocks' = DOMAIN blocks,
         \A b \in DOMAIN blocks : Used(blocks'[b]) = Used(blocks[b])
                                  /\ blocks'[b].next = blocks[b].next,
         UNCHANGED <<frontBlock, tailBlock>>, p'.sent = p.sent,
         Len(out') + (IF c'.at = "front" THEN 0 ELSE 1)
           = Len(out) + (IF c.at = "front" THEN 0 ELSE 1),
         p'.at = "advance" <=> p.at = "advance"
  PROVE  BaseOK(s, t, base)'
<1>0. /\ Len(s) \in Nat /\ t \in 1..Len(s) /\ tailBlock \in DOMAIN blocks
      /\ \A i \in 1..Len(s) : Used(blocks'[s[i]]) = Used(blocks[s[i]])
  BY Ends
<1>1. \A i \in 1..t : i \in 1..Len(s) /\ Used(blocks'[s[i]]) = Used(blocks[s[i]])
  BY <1>0
<1>2. \A i \in 1..(t - 1) : i \in 1..t
  BY <1>0
<1>3. Element' = Element
  BY DEF Element
<1> QED
  BY <1>0, <1>1, <1>2, <1>3 DEF BaseOK

\* Slot j of block b becomes v.
Stored(b, j, v) == blocks' = [blocks EXCEPT ![b] = [blocks[b] EXCEPT !.data[j] = v]]

\* After that: the blocks are as they were, but for the slot.
SlotStored(b, j, v) ==
  /\ BlocksOK' /\ DOMAIN blocks' = DOMAIN blocks /\ Len(blocks') = Len(blocks)
  /\ \A x \in DOMAIN blocks :
       /\ blocks'[x].front = blocks[x].front /\ blocks'[x].tail = blocks[x].tail
       /\ blocks'[x].size = blocks[x].size /\ blocks'[x].next = blocks[x].next
       /\ blocks'[x].localTail = blocks[x].localTail
       /\ blocks'[x].localFront = blocks[x].localFront
       /\ Used(blocks'[x]) = Used(blocks[x])
  /\ \A x \in DOMAIN blocks : \A i \in 0..(blocks[x].size - 1) :
       blocks'[x].data[i] = IF x = b /\ i = j THEN v ELSE blocks[x].data[i]

\* A slot of one block changes.
LEMMA SlotStep ==
  ASSUME QTypeOK, NEW b \in DOMAIN blocks, NEW j \in 0..(blocks[b].size - 1), NEW v \in Nat,
         Stored(b, j, v)
  PROVE  SlotStored(b, j, v)
<1> DEFINE B == blocks[b]
           D == [B EXCEPT !.data[j] = v]
<1>1. BlockOK(B) /\ B.data \in [0..(B.size - 1) -> Nat] /\ B \in BlockOf(B.size)
  BY BlockFacts DEF QTypeOK
<1>2. /\ BlockOK(D) /\ Used(D) = Used(B) /\ D.size = B.size /\ D.front = B.front
      /\ D.tail = B.tail /\ D.localTail = B.localTail /\ D.next = B.next
      /\ D.data = [B.data EXCEPT ![j] = v]
  <2> HIDE DEF B
  <2> QED
    BY <1>1, BlockData DEF B
<1>3. D.localFront = B.localFront
  BY <1>1 DEF BlockOf
<1> HIDE DEF D
<1>4. blocks' = [blocks EXCEPT ![b] = D]
  BY DEF D, Stored
<1>5. /\ blocks' \in Seq(AnyBlock) /\ Len(blocks') = Len(blocks)
      /\ DOMAIN blocks' = DOMAIN blocks /\ blocks'[b] = D
      /\ \A x \in DOMAIN blocks : x # b => blocks'[x] = blocks[x]
      /\ \A x \in DOMAIN blocks' : BlockOK(blocks'[x])
  BY <1>2, <1>4, OneBlock
<1>6. ASSUME NEW x \in DOMAIN blocks, NEW i \in 0..(blocks[x].size - 1)
      PROVE  blocks'[x].data[i] = IF x = b /\ i = j THEN v ELSE blocks[x].data[i]
  <2>1. CASE x = b
    <3>1. i \in 0..(B.size - 1) /\ blocks'[x].data = [B.data EXCEPT ![j] = v]
      BY <1>2, <1>5, <2>1
    <3> QED
      BY <1>1, <2>1, <3>1
  <2>2. CASE x # b
    BY <1>5, <2>2
  <2> QED
    BY <2>1, <2>2
<1>7. ASSUME NEW x \in DOMAIN blocks
      PROVE  /\ blocks'[x].front = blocks[x].front /\ blocks'[x].tail = blocks[x].tail
             /\ blocks'[x].size = blocks[x].size /\ blocks'[x].next = blocks[x].next
             /\ blocks'[x].localTail = blocks[x].localTail
             /\ blocks'[x].localFront = blocks[x].localFront
             /\ Used(blocks'[x]) = Used(blocks[x])
  <2>1. CASE x = b
    BY <1>2, <1>3, <1>5, <2>1
  <2>2. CASE x # b
    BY <1>5, <2>2
  <2> QED
    BY <2>1, <2>2
<1> QED
  BY <1>5, <1>6, <1>7 DEF SlotStored, BlocksOK

\* The element is written behind the tail.
LEMMA WriteAlive ==
  ASSUME QTypeOK, NEW s \in Seq(DOMAIN blocks), NEW t \in Nat,
         NEW base \in [DOMAIN blocks -> Nat], AliveOK(s, t, base), Write
  PROVE  BlocksOK' /\ Alive' /\ UNCHANGED <<out, c>>
<1>0. /\ RingOK(s, t) /\ FillOK(s, t) /\ BaseOK(s, t, base) /\ SlotsOK(base)
      /\ ProducerOK(base) /\ ConsumerOK /\ SemOK
      /\ tailBlock \in DOMAIN blocks /\ BlockOK(blocks[tailBlock])
      /\ frontBlock \in DOMAIN blocks /\ BlockOK(blocks[frontBlock])
      /\ p \in [at : ProducerPoints, canAlloc : BOOLEAN, sent : Nat, seen : Nat, left : Nat]
  BY Ends DEF AliveOK, QTypeOK
<1> DEFINE j == blocks[tailBlock].tail
<1>1. /\ p.at = "write" /\ UNCHANGED <<prog, frontBlock, tailBlock, c, out>>
      /\ p' = [p EXCEPT !.at = "tail"]
  BY DEF Write, PGoto
<1>2. Stored(tailBlock, j, Element)
  BY Zenon DEF Write, Stored
<1>3. p'.at = "tail" /\ p'.sent = p.sent
  BY <1>0, <1>1
<1>4. Element \in Nat /\ j \in 0..(blocks[tailBlock].size - 1)
  BY <1>0, BlockFacts DEF Element
<1> HIDE DEF j
<1>5. /\ BlocksOK' /\ DOMAIN blocks' = DOMAIN blocks /\ Len(blocks') = Len(blocks)
      /\ \A x \in DOMAIN blocks :
           /\ blocks'[x].front = blocks[x].front /\ blocks'[x].tail = blocks[x].tail
           /\ blocks'[x].size = blocks[x].size /\ blocks'[x].next = blocks[x].next
           /\ blocks'[x].localTail = blocks[x].localTail
           /\ blocks'[x].localFront = blocks[x].localFront
           /\ Used(blocks'[x]) = Used(blocks[x])
      /\ \A x \in DOMAIN blocks : \A i \in 0..(blocks[x].size - 1) :
           blocks'[x].data[i] = IF x = tailBlock /\ i = j THEN Element ELSE blocks[x].data[i]
  <2>1. SlotStored(tailBlock, j, Element)
    BY <1>0, <1>2, <1>4, SlotStep
  <2> QED
    BY <2>1 DEF SlotStored
<1>6. RingOK(s, t)' /\ FillOK(s, t)' /\ BaseOK(s, t, base)'
  <2>1. RingOK(s, t)'
    BY <1>0, <1>1, <1>3, <1>5, RingSame
  <2>2. FillOK(s, t)'
    BY <1>0, <1>1, <1>3, <1>5, FillSame
  <2>3. BaseOK(s, t, base)'
    BY <1>0, <1>1, <1>3, <1>5, BaseSame
  <2> QED
    BY <2>1, <2>2, <2>3
<1>7. SlotsOK(base)'
  <2> SUFFICES ASSUME NEW b \in DOMAIN blocks, NEW i \in 0..(blocks[b].size - 1)
               PROVE  blocks'[b].data[i] = SlotIs(b, i, base)'
    BY <1>5 DEF SlotsOK
  <2>1. Element' = Element
    BY <1>3 DEF Element
  <2>2. HasWritten(b, i)' <=> b = tailBlock /\ i = j
    BY <1>1, <1>3, <1>5 DEF HasWritten, j
  <2>3. HasRead(b, i)' <=> HasRead(b, i)
    BY <1>1, <1>5 DEF HasRead
  <2>4. ~HasWritten(b, i)
    BY <1>1 DEF HasWritten
  <2>5. CASE b = tailBlock /\ i = j
    <3>1. ~HasRead(b, i)
      <4> SUFFICES ASSUME HasRead(b, i) PROVE FALSE
        OBVIOUS
      <4>1. Used(blocks[frontBlock]) > 0
        BY <1>0, FrontUsed DEF HasRead
      <4>2. b = frontBlock /\ blocks[b].front = blocks[b].tail
        BY <2>5 DEF HasRead, j
      <4> QED
        BY <1>0, <4>1, <4>2, BlockFacts
    <3>2. SlotIs(b, i, base)' = Element
      BY <2>1, <2>2, <2>3, <2>5, <3>1 DEF SlotIs
    <3> QED
      BY <1>5, <2>5, <3>2
  <2>6. CASE ~(b = tailBlock /\ i = j)
    <3>1. SlotIs(b, i, base)' = SlotIs(b, i, base)
      BY <1>5, <2>2, <2>3, <2>4, <2>6 DEF SlotIs
    <3>2. blocks'[b].data[i] = blocks[b].data[i]
      BY <1>5, <2>6
    <3> QED
      BY <1>0, <3>1, <3>2 DEF SlotsOK
  <2> QED
    BY <2>5, <2>6
<1>8. SemOK'
  BY <1>0, SemStep DEF ProducerStep
<1>9. ConsumerOK'
  <2>1. p'.sent \in Nat /\ p'.sent >= p.sent
    BY <1>0, <1>3
  <2> QED
    BY <1>0, <1>1, <1>5, <2>1, ConsumerKept
<1>10. ProducerOK(base)'
  <2>1. HasRoom(blocks[tailBlock])
    BY <1>0, <1>1 DEF ProducerOK
  <2>2. HasRoom(blocks'[tailBlock])
    BY <1>0, <1>5, <2>1 DEF HasRoom
  <2> QED
    BY <1>1, <1>3, <2>2 DEF ProducerOK
<1>11. AliveOK(s, t, base)'
  BY <1>6, <1>7, <1>8, <1>9, <1>10 DEF AliveOK
<1>12. s \in Seq(DOMAIN blocks') /\ base \in [DOMAIN blocks' -> Nat]
  BY <1>5
<1> QED
  BY <1>1, <1>5, <1>11, <1>12 DEF Alive

\* The element behind the tail becomes part of the queue.
LEMMA StoreTailAlive ==
  ASSUME QTypeOK, NEW s \in Seq(DOMAIN blocks), NEW t \in Nat,
         NEW base \in [DOMAIN blocks -> Nat], AliveOK(s, t, base), StoreTail
  PROVE  BlocksOK' /\ Alive' /\ UNCHANGED <<out, c>>
<1>0. /\ RingOK(s, t) /\ FillOK(s, t) /\ BaseOK(s, t, base) /\ SlotsOK(base)
      /\ ProducerOK(base) /\ ConsumerOK /\ SemOK
      /\ tailBlock \in DOMAIN blocks /\ BlockOK(blocks[tailBlock])
      /\ frontBlock \in DOMAIN blocks /\ BlockOK(blocks[frontBlock])
      /\ t \in 1..Len(s) /\ s[t] = tailBlock /\ Len(s) \in Nat
      /\ \A i \in 1..Len(s) : s[i] \in DOMAIN blocks
      /\ p \in [at : ProducerPoints, canAlloc : BOOLEAN, sent : Nat, seen : Nat, left : Nat]
  BY Ends DEF AliveOK, QTypeOK
<1> DEFINE B == blocks[tailBlock]
           D == [B EXCEPT !.tail = Nxt(B.size, B.tail)]
<1>1. p.at = "tail" /\ UNCHANGED <<prog, frontBlock, tailBlock, c, out>>
  BY DEF StoreTail
<1>2. p'.sent = p.sent + 1 /\ p'.at \in {"signal", "ready"} /\ p.sent \in Nat
  BY <1>0 DEF StoreTail, Published
<1>3. blocks' = [blocks EXCEPT ![tailBlock] = D]
  <2>1. After(tailBlock, B.tail) = Nxt(B.size, B.tail)
    BY <1>0, BlockFacts, AfterIsNxt
  <2>2. blocks' = [blocks EXCEPT ![tailBlock] = [B EXCEPT !.tail = After(tailBlock, B.tail)]]
    BY Zenon DEF StoreTail
  <2> QED
    BY Zenon, <2>1, <2>2
<1>4. HasRoom(B)
  BY <1>0, <1>1 DEF ProducerOK
<1>5. /\ BlockOK(D) /\ Used(D) = Used(B) + 1 /\ D.size = B.size /\ D.front = B.front
      /\ D.tail = Nxt(B.size, B.tail) /\ D.localTail = B.localTail /\ D.next = B.next
      /\ D.data = B.data
  <2> HIDE DEF B
  <2> QED
    BY <1>0, <1>4, BlockTail DEF B
<1> HIDE DEF D
<1>6. /\ blocks' \in Seq(AnyBlock) /\ Len(blocks') = Len(blocks)
      /\ DOMAIN blocks' = DOMAIN blocks /\ blocks'[tailBlock] = D
      /\ \A x \in DOMAIN blocks : x # tailBlock => blocks'[x] = blocks[x]
      /\ \A x \in DOMAIN blocks' : BlockOK(blocks'[x])
  BY <1>0, <1>3, <1>5, OneBlock
<1>7. \A x \in DOMAIN blocks :
        /\ blocks'[x].front = blocks[x].front /\ blocks'[x].size = blocks[x].size
        /\ blocks'[x].next = blocks[x].next /\ blocks'[x].localTail = blocks[x].localTail
        /\ blocks'[x].data = blocks[x].data
        /\ Used(blocks'[x]) = IF x = tailBlock THEN Used(blocks[x]) + 1 ELSE Used(blocks[x])
  <2> TAKE x \in DOMAIN blocks
  <2>1. CASE x = tailBlock
    BY <1>5, <1>6, <2>1
  <2>2. CASE x # tailBlock
    BY <1>6, <2>2
  <2> QED
    BY <2>1, <2>2
<1>8. RingOK(s, t)'
  BY <1>0, <1>1, <1>2, <1>6, <1>7, RingSame
<1>9. \A i \in 1..Len(s) : i # t => s[i] # tailBlock
  BY <1>0 DEF RingOK
<1>10. \A x \in DOMAIN blocks : Used(blocks[x]) \in Nat
  <2> TAKE x \in DOMAIN blocks
  <2>1. BlockOK(blocks[x])
    BY DEF QTypeOK
  <2>2. Used(blocks[x]) \in 0..(blocks[x].size - 1) /\ blocks[x].size \in Nat \ {0}
    BY <2>1, BlockFacts
  <2> QED
    BY <2>2
<1>11. FillOK(s, t)'
  <2>1. ASSUME NEW i \in 2..t PROVE Used(blocks'[s[i]]) > 0
    <3>1. i \in 1..Len(s) /\ s[i] \in DOMAIN blocks
      BY <1>0
    <3>2. Used(blocks[s[i]]) > 0 /\ Used(blocks[s[i]]) \in Nat
      BY <1>0, <1>10, <3>1 DEF FillOK
    <3> QED
      BY <1>7, <3>1, <3>2
  <2>2. ASSUME NEW i \in (t + 1)..Len(s) PROVE Used(blocks'[s[i]]) = 0
    <3>1. i \in 1..Len(s) /\ i # t
      BY <1>0, Indices
    <3>2. s[i] \in DOMAIN blocks /\ s[i] # tailBlock
      BY <1>0, <1>9, <3>1
    <3>3. Used(blocks[s[i]]) = 0
      BY <1>0, <1>1 DEF FillOK
    <3> QED
      BY <1>7, <3>2, <3>3
  <2> QED
    BY <1>2, <2>1, <2>2 DEF FillOK
<1>12. BaseOK(s, t, base)'
  <2>1. Element = p.sent + 1 /\ Element' = Element + 1 /\ Element \in Nat
    BY <1>2 DEF Element
  <2>2. base[tailBlock] + Used(blocks'[tailBlock]) = Element'
    <3>1. PICK a \in Nat, u \in Nat, e \in Nat :
            a = base[tailBlock] /\ u = Used(B) /\ e = Element
      BY <1>0, <1>10, <2>1
    <3>2. a + u = e
      BY <1>0, <3>1 DEF BaseOK
    <3>3. a + (u + 1) = e + 1
      BY <3>2
    <3> QED
      BY <1>0, <1>7, <2>1, <3>1, <3>3
  <2>3. ASSUME NEW i \in 1..t PROVE base[s[i]] + Used(blocks'[s[i]]) <= Element'
    <3>1. i \in 1..Len(s) /\ s[i] \in DOMAIN blocks
      BY <1>0
    <3>2. CASE i = t
      <4>1. base[s[i]] + Used(blocks'[s[i]]) = Element' /\ Element' \in Nat
        BY <1>0, <2>1, <2>2, <3>2
      <4> QED
        BY <4>1
    <3>3. CASE i # t
      <4>1. PICK a \in Nat, u \in Nat, e \in Nat :
              a = base[s[i]] /\ u = Used(blocks[s[i]]) /\ e = Element
        BY <1>10, <2>1, <3>1
      <4>2. a + u <= e
        BY <1>0, <4>1 DEF BaseOK
      <4>3. a + u <= e + 1
        BY <4>2
      <4> QED
        BY <1>7, <1>9, <2>1, <3>1, <3>3, <4>1, <4>3
    <3> QED
      BY <3>2, <3>3
  <2>4. ASSUME NEW i \in 1..(t - 1) PROVE base[s[i + 1]] = base[s[i]] + Used(blocks'[s[i]])
    <3>1. i \in 1..Len(s) /\ s[i] \in DOMAIN blocks /\ i # t
      <4>1. \A n \in Nat : \A m \in 1..n : \A k \in 1..(m - 1) : k \in 1..n /\ k # m
        OBVIOUS
      <4> QED
        BY <1>0, <4>1
    <3>2. Used(blocks'[s[i]]) = Used(blocks[s[i]])
      BY <1>7, <1>9, <3>1
    <3> QED
      BY <1>0, <3>2 DEF BaseOK
  <2> QED
    BY <1>0, <1>1, <1>2, <1>6, <2>2, <2>3, <2>4 DEF BaseOK
<1>13. SlotsOK(base)'
  <2> SUFFICES ASSUME NEW b \in DOMAIN blocks, NEW i \in 0..(blocks[b].size - 1)
               PROVE  blocks[b].data[i] = SlotIs(b, i, base)'
    BY <1>6, <1>7 DEF SlotsOK
  <2>1. ~HasWritten(b, i)'
    BY <1>2 DEF HasWritten
  <2>2. HasRead(b, i)' <=> HasRead(b, i)
    BY <1>1, <1>7 DEF HasRead
  <2>3. blocks[b].data[i] = SlotIs(b, i, base)
    BY <1>0 DEF SlotsOK
  <2>4. CASE b # tailBlock
    <3>1. ~HasWritten(b, i)
      BY <2>4 DEF HasWritten
    <3>2. SlotIs(b, i, base)' = SlotIs(b, i, base)
      BY <1>6, <2>1, <2>2, <2>4, <3>1 DEF SlotIs
    <3> QED
      BY <2>3, <3>2
  <2>5. CASE b = tailBlock /\ HasRead(b, i)
    <3>1. ~HasWritten(b, i)
      <4> SUFFICES ASSUME HasWritten(b, i) PROVE FALSE
        OBVIOUS
      <4>1. Used(blocks[frontBlock]) > 0
        BY <1>0, <2>5, FrontUsed DEF HasRead
      <4>2. b = frontBlock /\ blocks[b].front = blocks[b].tail
        BY <2>5 DEF HasRead, HasWritten
      <4> QED
        BY <1>0, <4>1, <4>2, BlockFacts
    <3>2. SlotIs(b, i, base) = Empty
      BY <2>5, <3>1 DEF SlotIs
    <3>3. SlotIs(b, i, base)' = Empty
      BY <2>1, <2>2, <2>5 DEF SlotIs
    <3> QED
      BY <2>3, <3>2, <3>3
  <2>6. CASE b = tailBlock /\ ~HasRead(b, i)
    <3>1. PICK n \in Nat : n = B.size /\ n >= 2
      BY <1>0, BlockFacts
    <3>2. B.front \in 0..(n - 1) /\ B.tail \in 0..(n - 1) /\ i \in 0..(n - 1)
      BY <1>0, <2>6, <3>1, BlockFacts
    <3>3. PICK f \in 0..(n - 1), l \in 0..(n - 1) : f = B.front /\ l = B.tail
      BY <3>2
    <3>4. PICK u \in Nat, k \in Nat :
            u = Steps(n, f, l) /\ k = Steps(n, f, i) /\ (k = u <=> i = l)
      <4>1. /\ Steps(n, f, l) \in Nat /\ Steps(n, f, i) \in Nat
            /\ Steps(n, f, i) = Steps(n, f, l) <=> i = l
        <5>1. PICK m \in 0..(n - 1) : m = i
          BY <3>2
        <5>2. /\ Steps(n, f, l) \in Nat /\ Steps(n, f, m) \in Nat
              /\ Steps(n, f, m) = Steps(n, f, l) <=> m = l
          BY DEF Steps
        <5> QED
          BY <5>1, <5>2
      <4> QED
        BY <4>1
    <3>5. u = Used(B) /\ k = Steps(B.size, B.front, i) /\ (k = u <=> i = B.tail)
      BY <3>1, <3>3, <3>4 DEF Used
    <3>6. SlotIs(b, i, base)' = IF k < u + 1 THEN base[b] + k ELSE Empty
      BY <1>7, <2>1, <2>2, <2>6, <3>5 DEF SlotIs
    <3>7. CASE i = B.tail
      <4>1. HasWritten(b, i)
        BY <1>1, <2>6, <3>7 DEF HasWritten
      <4>2. SlotIs(b, i, base) = Element
        BY <2>6, <4>1 DEF SlotIs
      <4>3. base[b] + u = Element
        BY <1>0, <2>6, <3>5 DEF BaseOK
      <4>4. k < u + 1
        BY <3>5, <3>7
      <4>5. base[b] + k = Element
        BY <3>5, <3>7, <4>3
      <4> QED
        BY <2>3, <3>6, <4>2, <4>4, <4>5
    <3>8. CASE i # B.tail
      <4>1. ~HasWritten(b, i)
        BY <2>6, <3>8 DEF HasWritten
      <4>2. SlotIs(b, i, base) = IF k < u THEN base[b] + k ELSE Empty
        BY <2>6, <3>5, <4>1 DEF SlotIs
      <4>3. k < u <=> k < u + 1
        BY <3>5, <3>8
      <4> QED
        BY <2>3, <3>6, <4>2, <4>3
    <3> QED
      BY <3>7, <3>8
  <2> QED
    BY <2>4, <2>5, <2>6
<1>14. SemOK'
  BY <1>0, SemStep DEF ProducerStep
<1>15. ConsumerOK'
  <2>1. p'.sent \in Nat /\ p'.sent >= p.sent
    BY <1>2
  <2> QED
    BY <1>0, <1>1, <1>7, <2>1, ConsumerKept
<1>16. ProducerOK(base)'
  BY <1>2 DEF ProducerOK
<1>17. AliveOK(s, t, base)'
  BY <1>8, <1>11, <1>12, <1>13, <1>14, <1>15, <1>16 DEF AliveOK
<1>18. s \in Seq(DOMAIN blocks') /\ base \in [DOMAIN blocks' -> Nat]
  BY <1>6
<1> QED
  BY <1>1, <1>6, <1>17, <1>18 DEF Alive, BlocksOK

-----------------------------------------------------------------------------
(***************************************************************************)
(* Steps that move the front: ReadElement, StoreFront and Forward.         *)
(***************************************************************************)

\* How many elements there are in a block.
LEMMA UsedNat ==
  ASSUME QTypeOK, NEW x \in DOMAIN blocks
  PROVE  Used(blocks[x]) \in Nat
<1>1. BlockOK(blocks[x])
  BY DEF QTypeOK
<1>2. Used(blocks[x]) \in 0..(blocks[x].size - 1) /\ blocks[x].size \in Nat \ {0}
  BY <1>1, BlockFacts
<1> QED
  BY <1>2

\* The slot at the front is no slot behind the tail.
LEMMA ReadNotWritten ==
  ASSUME QTypeOK, NEW s, NEW t, RingOK(s, t), ConsumerOK, c.at \in {"element", "front"}
  PROVE  ~HasWritten(frontBlock, blocks[frontBlock].front)
<1>1. Used(blocks[frontBlock]) > 0 /\ BlockOK(blocks[frontBlock])
  BY Ends, FrontUsed
<1>2. blocks[frontBlock].front # blocks[frontBlock].tail
  BY <1>1, BlockFacts
<1> QED
  BY <1>2 DEF HasWritten

\* The element at the front is taken out.
LEMMA ReadAlive ==
  ASSUME QTypeOK, InOrder, NEW s \in Seq(DOMAIN blocks), NEW t \in Nat,
         NEW base \in [DOMAIN blocks -> Nat], AliveOK(s, t, base), ReadElement, c.op # "peek"
  PROVE  /\ BlocksOK' /\ Alive' /\ InOrder' /\ UNCHANGED p
         /\ out' = Append(out, Len(out) + 1) /\ Len(out) + 1 <= p.sent
<1>0. /\ RingOK(s, t) /\ FillOK(s, t) /\ BaseOK(s, t, base) /\ SlotsOK(base)
      /\ ProducerOK(base) /\ ConsumerOK /\ SemOK
      /\ tailBlock \in DOMAIN blocks /\ frontBlock \in DOMAIN blocks
      /\ BlockOK(blocks[frontBlock]) /\ out \in Seq(Nat)
      /\ c \in [at : ConsumerPoints, op : Ops \cup {"none"}, next : Nat, val : Nat, seen : Nat,
                left : Nat]
  BY Ends DEF AliveOK, QTypeOK
<1> DEFINE f == blocks[frontBlock].front
<1>1. c.at = "element" /\ UNCHANGED <<prog, frontBlock, tailBlock, p>>
  BY Zenon, ReadFacts
<1>2. /\ c' = [c EXCEPT !.at = "front"] /\ Stored(frontBlock, f, Empty)
      /\ out' = Append(out, blocks[frontBlock].data[f])
  BY Zenon, ReadFacts DEF Stored
<1>3. c'.at = "front" /\ c'.op = c.op
  BY <1>0, <1>2
<1>4. Used(blocks[frontBlock]) > 0 /\ ~HasWritten(frontBlock, f)
  BY <1>0, <1>1, FrontUsed, ReadNotWritten
<1>5. blocks[frontBlock].data[f] = Len(out) + 1 /\ Len(out) + 1 <= p.sent
  <2>1. c.at # "front"
    BY <1>1
  <2> QED
    BY <1>4, <2>1, NextElement
<1>6. f \in 0..(blocks[frontBlock].size - 1) /\ Empty \in Nat
  BY <1>0, BlockFacts DEF Empty
<1> HIDE DEF f
<1>7. /\ BlocksOK' /\ DOMAIN blocks' = DOMAIN blocks /\ Len(blocks') = Len(blocks)
      /\ \A x \in DOMAIN blocks :
           /\ blocks'[x].front = blocks[x].front /\ blocks'[x].tail = blocks[x].tail
           /\ blocks'[x].size = blocks[x].size /\ blocks'[x].next = blocks[x].next
           /\ blocks'[x].localTail = blocks[x].localTail
           /\ blocks'[x].localFront = blocks[x].localFront
           /\ Used(blocks'[x]) = Used(blocks[x])
      /\ \A x \in DOMAIN blocks : \A i \in 0..(blocks[x].size - 1) :
           blocks'[x].data[i] = IF x = frontBlock /\ i = f THEN Empty ELSE blocks[x].data[i]
  <2>1. SlotStored(frontBlock, f, Empty)
    BY <1>0, <1>2, <1>6, SlotStep
  <2> QED
    BY <2>1 DEF SlotStored
<1>8. /\ Len(out') = Len(out) + 1 /\ Len(out) \in Nat /\ out' = Append(out, Len(out) + 1)
      /\ InOrder'
  <2>1. PICK n \in Nat : n = Len(out)
    BY <1>0
  <2>2. out' = Append(out, n + 1)
    BY <1>2, <1>5, <2>1
  <2>3. /\ DOMAIN out' = 1..(n + 1) /\ Len(out') = n + 1 /\ out'[n + 1] = n + 1
        /\ \A i \in 1..n : out'[i] = out[i]
    <3>1. PICK o \in Seq(Nat) : o = out
      BY <1>0
    <3>2. PICK e \in Nat : e = n + 1
      OBVIOUS
    <3>3. /\ DOMAIN Append(o, e) = 1..(Len(o) + 1) /\ Len(Append(o, e)) = Len(o) + 1
          /\ Append(o, e)[Len(o) + 1] = e
          /\ \A i \in 1..Len(o) : Append(o, e)[i] = o[i]
      OBVIOUS
    <3>4. out' = Append(o, e) /\ Len(o) = n
      BY <2>1, <2>2, <3>1, <3>2
    <3> QED
      BY <3>1, <3>2, <3>3, <3>4
  <2>4. \A i \in 1..n : out[i] = i
    BY <1>0, <2>1 DEF InOrder
  <2>5. InOrder'
    BY <2>3, <2>4 DEF InOrder
  <2> QED
    BY <2>1, <2>2, <2>3, <2>5
<1>9. RingOK(s, t)'
  BY <1>0, <1>1, <1>7, RingSame
<1>10. FillOK(s, t)'
  <2>1. p'.at = "reuse" => p.at = "reuse"
    BY <1>1
  <2> QED
    BY <1>0, <1>1, <1>7, <2>1, FillSame
<1>11. BaseOK(s, t, base)'
  <2>1. Len(out') + (IF c'.at = "front" THEN 0 ELSE 1)
           = Len(out) + (IF c.at = "front" THEN 0 ELSE 1)
    BY <1>1, <1>3, <1>8
  <2> QED
    BY <1>0, <1>1, <1>7, <2>1, BaseSame
<1>12. SlotsOK(base)'
  <2> SUFFICES ASSUME NEW b \in DOMAIN blocks, NEW i \in 0..(blocks[b].size - 1)
               PROVE  blocks'[b].data[i] = SlotIs(b, i, base)'
    BY <1>7 DEF SlotsOK
  <2>1. Element' = Element
    BY <1>1 DEF Element
  <2>2. HasRead(b, i)' <=> b = frontBlock /\ i = f
    BY <1>1, <1>3, <1>7 DEF HasRead, f
  <2>3. HasWritten(b, i)' <=> HasWritten(b, i)
    BY <1>1, <1>7 DEF HasWritten
  <2>4. ~HasRead(b, i)
    BY <1>1 DEF HasRead
  <2>5. CASE b = frontBlock /\ i = f
    <3>1. SlotIs(b, i, base)' = Empty
      BY <1>4, <2>2, <2>3, <2>5 DEF SlotIs
    <3> QED
      BY <1>7, <2>5, <3>1
  <2>6. CASE ~(b = frontBlock /\ i = f)
    <3>1. SlotIs(b, i, base)' = SlotIs(b, i, base)
      BY <1>7, <2>1, <2>2, <2>3, <2>4, <2>6 DEF SlotIs
    <3>2. blocks'[b].data[i] = blocks[b].data[i]
      BY <1>7, <2>6
    <3> QED
      BY <1>0, <3>1, <3>2 DEF SlotsOK
  <2> QED
    BY <2>5, <2>6
<1>13. SemOK'
  BY <1>0, SemStep DEF ConsumerStep
<1>14. ConsumerOK'
  BY <1>0, <1>1, <1>3, <1>7 DEF ConsumerOK
<1>15. ProducerOK(base)'
  <2>1. Len(blocks) \in DOMAIN blocks
    BY <1>0 DEF QTypeOK
  <2> QED
    BY <1>0, <1>1, <1>7, <2>1, ProducerKept
<1>16. AliveOK(s, t, base)'
  BY <1>9, <1>10, <1>11, <1>12, <1>13, <1>14, <1>15 DEF AliveOK
<1>17. s \in Seq(DOMAIN blocks') /\ base \in [DOMAIN blocks' -> Nat]
  BY <1>7
<1> QED
  BY <1>1, <1>5, <1>7, <1>8, <1>16, <1>17 DEF Alive

\* A front that moves on is one step nearer to each other slot.
LEMMA StepsFromNext ==
  ASSUME NEW n \in Nat, n >= 2, NEW f \in 0..(n - 1), NEW m \in 0..(n - 1)
  PROVE  /\ Steps(n, f, m) \in Nat /\ Steps(n, f, m) < n /\ Steps(n, Nxt(n, f), m) \in Nat
         /\ Steps(n, f, m) = 0 <=> m = f
         /\ m = f => Steps(n, Nxt(n, f), m) = n - 1
         /\ m # f => Steps(n, Nxt(n, f), m) = Steps(n, f, m) - 1
<1>1. CASE f = n - 1
  <2>1. Nxt(n, f) = 0
    BY <1>1 DEF Nxt
  <2> QED
    BY <1>1, <2>1 DEF Steps
<1>2. CASE f # n - 1
  <2>1. Nxt(n, f) = f + 1
    BY <1>2 DEF Nxt
  <2> QED
    BY <1>2, <2>1 DEF Steps
<1> QED
  BY <1>1, <1>2

\* The slot at the front is free.
LEMMA StoreFrontAlive ==
  ASSUME QTypeOK, NEW s \in Seq(DOMAIN blocks), NEW t \in Nat,
         NEW base \in [DOMAIN blocks -> Nat], AliveOK(s, t, base), StoreFront
  PROVE  BlocksOK' /\ Alive' /\ UNCHANGED <<out, p>>
<1>0. /\ RingOK(s, t) /\ FillOK(s, t) /\ BaseOK(s, t, base) /\ SlotsOK(base)
      /\ ProducerOK(base) /\ ConsumerOK /\ SemOK
      /\ tailBlock \in DOMAIN blocks /\ frontBlock \in DOMAIN blocks
      /\ BlockOK(blocks[frontBlock]) /\ (frontBlock = tailBlock <=> t = 1)
      /\ t \in 1..Len(s) /\ s[1] = frontBlock /\ s[t] = tailBlock /\ Len(s) \in Nat
      /\ \A i \in 1..Len(s) : s[i] \in DOMAIN blocks
      /\ c \in [at : ConsumerPoints, op : Ops \cup {"none"}, next : Nat, val : Nat, seen : Nat,
                left : Nat]
  <2>1. RingOK(s, t) /\ SemOK /\ FillOK(s, t) /\ BaseOK(s, t, base) /\ SlotsOK(base)
        /\ ProducerOK(base) /\ ConsumerOK
    BY DEF AliveOK
  <2>2. c \in [at : ConsumerPoints, op : Ops \cup {"none"}, next : Nat, val : Nat, seen : Nat,
               left : Nat]
    BY DEF QTypeOK
  <2> QED
    BY <2>1, <2>2, Ends
<1> DEFINE B == blocks[frontBlock]
           D == [B EXCEPT !.front = Nxt(B.size, B.front)]
<1>1. c.at = "front" /\ UNCHANGED <<prog, frontBlock, tailBlock, p, out>>
  BY DEF StoreFront
<1>2. c'.at = "ready"
  BY <1>0 DEF StoreFront, CGoto
<1>3. blocks' = [blocks EXCEPT ![frontBlock] = D]
  <2>1. After(frontBlock, B.front) = Nxt(B.size, B.front)
    BY <1>0, BlockFacts, AfterIsNxt
  <2>2. blocks' = [blocks EXCEPT ![frontBlock] = [B EXCEPT !.front = After(frontBlock, B.front)]]
    BY Zenon DEF StoreFront
  <2> QED
    BY Zenon, <2>1, <2>2
<1>4. B.front # B.localTail
  BY <1>0, <1>1 DEF ConsumerOK
<1>5. /\ BlockOK(D) /\ Used(D) = Used(B) - 1 /\ Used(B) > 0 /\ D.size = B.size
      /\ D.front = Nxt(B.size, B.front) /\ D.tail = B.tail /\ D.localTail = B.localTail
      /\ D.next = B.next /\ D.data = B.data
  <2> HIDE DEF B
  <2> QED
    BY <1>0, <1>4, BlockFront DEF B
<1>6. D.localFront = B.localFront
  BY <1>0, BlockFacts DEF BlockOf
<1> HIDE DEF D
<1>7. /\ blocks' \in Seq(AnyBlock) /\ Len(blocks') = Len(blocks)
      /\ DOMAIN blocks' = DOMAIN blocks /\ blocks'[frontBlock] = D
      /\ \A x \in DOMAIN blocks : x # frontBlock => blocks'[x] = blocks[x]
      /\ \A x \in DOMAIN blocks' : BlockOK(blocks'[x])
  BY <1>0, <1>3, <1>5, OneBlock
<1> DEFINE base1 == [base EXCEPT ![frontBlock] = base[frontBlock] + 1]
<1>9. PICK base2 \in [DOMAIN blocks -> Nat] : base2 = base1
  <2>1. base[frontBlock] + 1 \in Nat
    BY <1>0
  <2>2. base1 \in [DOMAIN blocks -> Nat]
    BY <2>1
  <2> QED
    BY <2>2
<1>8. \A x \in DOMAIN blocks :
        /\ blocks'[x].tail = blocks[x].tail /\ blocks'[x].size = blocks[x].size
        /\ blocks'[x].next = blocks[x].next /\ blocks'[x].localFront = blocks[x].localFront
        /\ blocks'[x].data = blocks[x].data
        /\ Used(blocks'[x]) = IF x = frontBlock THEN Used(blocks[x]) - 1 ELSE Used(blocks[x])
        /\ base2[x] = IF x = frontBlock THEN base[x] + 1 ELSE base[x]
        /\ Used(blocks[x]) \in Nat /\ base[x] \in Nat /\ base2[x] \in Nat
  <2> TAKE x \in DOMAIN blocks
  <2>1. Used(blocks[x]) \in Nat
    BY UsedNat
  <2>2. CASE x = frontBlock
    BY <1>5, <1>6, <1>7, <1>9, <2>1, <2>2
  <2>3. CASE x # frontBlock
    BY <1>7, <1>9, <2>1, <2>3
  <2> QED
    BY <2>2, <2>3
<1> HIDE DEF base1
<1>10. \A x \in DOMAIN blocks : base2[x] + Used(blocks'[x]) = base[x] + Used(blocks[x])
  <2> TAKE x \in DOMAIN blocks
  <2>1. PICK a \in Nat, u \in Nat : a = base[x] /\ u = Used(blocks[x])
    BY <1>8
  <2>2. (a + 1) + (u - 1) = a + u
    OBVIOUS
  <2>3. CASE x = frontBlock
    BY <1>8, <2>1, <2>2, <2>3
  <2>4. CASE x # frontBlock
    BY <1>8, <2>4
  <2> QED
    BY <2>3, <2>4
<1>11. \A i \in 1..Len(s) : i # 1 => s[i] # frontBlock
  <2>1. 1 \in 1..Len(s)
    BY <1>0
  <2> QED
    BY <1>0, <2>1 DEF RingOK
<1>12. RingOK(s, t)'
  BY <1>0, <1>1, <1>7, <1>8, RingSame
<1>13. FillOK(s, t)'
  <2>1. ASSUME NEW i \in 2..Len(s) PROVE Used(blocks'[s[i]]) = Used(blocks[s[i]])
    <3>1. i \in 1..Len(s) /\ i # 1
      BY <1>0
    <3> QED
      BY <1>0, <1>8, <1>11, <3>1
  <2>2. (\A i \in 2..t : i \in 2..Len(s)) /\ (\A i \in (t + 1)..Len(s) : i \in 2..Len(s))
    BY <1>0, Indices
  <2> QED
    BY <1>0, <1>1, <2>1, <2>2 DEF FillOK
<1>14. BaseOK(s, t, base2)'
  <2>1. base2[frontBlock] = Len(out) + 1
    <3>1. base[frontBlock] = Len(out) + 0
      BY <1>0, <1>1 DEF BaseOK
    <3>2. out \in Seq(Nat)
      BY DEF QTypeOK
    <3> QED
      BY <1>0, <1>8, <3>1, <3>2
  <2>2. Element' = Element
    BY <1>1 DEF Element
  <2>3. base2[tailBlock] + Used(blocks'[tailBlock]) = Element'
    BY <1>0, <1>10, <2>2 DEF BaseOK
  <2>4. ASSUME NEW i \in 1..t PROVE base2[s[i]] + Used(blocks'[s[i]]) <= Element'
    <3>1. s[i] \in DOMAIN blocks
      BY <1>0
    <3>2. base[s[i]] + Used(blocks[s[i]]) <= Element
      BY <1>0 DEF BaseOK
    <3> QED
      BY <1>10, <2>2, <3>1, <3>2
  <2>5. ASSUME NEW i \in 1..(t - 1) PROVE base2[s[i + 1]] = base2[s[i]] + Used(blocks'[s[i]])
    <3>1. /\ i \in 1..Len(s) /\ i + 1 \in 1..Len(s) /\ i + 1 # 1
          /\ s[i] \in DOMAIN blocks /\ s[i + 1] \in DOMAIN blocks
      <4>1. \A n \in Nat : \A m \in 1..n : \A k \in 1..(m - 1) :
              k \in 1..n /\ k + 1 \in 1..n /\ k + 1 # 1
        OBVIOUS
      <4> QED
        BY <1>0, <4>1
    <3>2. base[s[i + 1]] = base[s[i]] + Used(blocks[s[i]])
      BY <1>0 DEF BaseOK
    <3>3. base2[s[i + 1]] = base[s[i + 1]]
      BY <1>8, <1>11, <3>1
    <3> QED
      BY <1>10, <3>1, <3>2, <3>3
  <2>6. p'.at = "advance" => base2[blocks'[tailBlock].next] = Element'
    <3> SUFFICES ASSUME p.at = "advance" PROVE base2[blocks'[tailBlock].next] = Element'
      BY <1>1
    <3> DEFINE n == blocks[tailBlock].next
    <3>1. n \in DOMAIN blocks /\ n = s[Succ(Len(s), t)] /\ Succ(Len(s), t) \in 1..Len(s)
      BY <1>0, NextOfEnds
    <3>2. t < Len(s)
      BY <1>0 DEF FillOK
    <3>3. Succ(Len(s), t) # 1
      BY <1>0, <3>2 DEF Succ
    <3>4. n # frontBlock
      BY <1>11, <3>1, <3>3
    <3>5. base[n] = Element
      BY <1>0 DEF BaseOK
    <3>6. blocks'[tailBlock].next = n /\ base2[n] = base[n]
      BY <1>0, <1>8, <3>1, <3>4
    <3> QED
      BY <2>2, <3>5, <3>6
  <2> QED
    BY <1>1, <1>2, <1>7, <1>9, <2>1, <2>3, <2>4, <2>5, <2>6 DEF BaseOK
<1>15. SlotsOK(base2)'
  <2> SUFFICES ASSUME NEW b \in DOMAIN blocks, NEW i \in 0..(blocks[b].size - 1)
               PROVE  blocks[b].data[i] = SlotIs(b, i, base2)'
    BY <1>7, <1>8 DEF SlotsOK
  <2>1. ~HasRead(b, i)'
    BY <1>2 DEF HasRead
  <2>2. HasWritten(b, i)' <=> HasWritten(b, i)
    BY <1>1, <1>8 DEF HasWritten
  <2>3. blocks[b].data[i] = SlotIs(b, i, base)
    BY <1>0 DEF SlotsOK
  <2>4. Element' = Element
    BY <1>1 DEF Element
  <2>5. CASE b # frontBlock
    <3>1. ~HasRead(b, i)
      BY <2>5 DEF HasRead
    <3>2. SlotIs(b, i, base2)' = SlotIs(b, i, base)
      BY <1>7, <1>8, <2>1, <2>2, <2>4, <2>5, <3>1 DEF SlotIs
    <3> QED
      BY <2>3, <3>2
  <2>6. CASE b = frontBlock /\ HasWritten(b, i)
    <3>1. ~HasRead(b, i)
      <4>1. ~HasWritten(frontBlock, B.front)
        BY <1>0, <1>1, ReadNotWritten
      <4> QED
        BY <2>6, <4>1 DEF HasRead
    <3>2. SlotIs(b, i, base) = Element /\ SlotIs(b, i, base2)' = Element
      BY <2>1, <2>2, <2>4, <2>6, <3>1 DEF SlotIs
    <3> QED
      BY <2>3, <3>2
  <2>7. CASE b = frontBlock /\ ~HasWritten(b, i)
    <3>1. PICK n \in Nat : n = B.size /\ n >= 2
      BY <1>0, BlockFacts
    <3>2. PICK f \in 0..(n - 1), l \in 0..(n - 1), m \in 0..(n - 1) :
            f = B.front /\ l = B.tail /\ m = i
      BY <1>0, <2>7, <3>1, BlockFacts
    <3>3. PICK u \in Nat, k \in Nat, k2 \in Nat :
            /\ u = Steps(n, f, l) /\ k = Steps(n, f, m) /\ k2 = Steps(n, Nxt(n, f), m)
            /\ (k = 0 <=> m = f) /\ u < n
            /\ k2 = IF k = 0 THEN n - 1 ELSE k - 1
      <4>1. /\ Steps(n, f, l) \in Nat /\ Steps(n, f, l) < n /\ Steps(n, f, m) \in Nat
            /\ Steps(n, Nxt(n, f), m) \in Nat /\ (Steps(n, f, m) = 0 <=> m = f)
            /\ Steps(n, Nxt(n, f), m) = IF m = f THEN n - 1 ELSE Steps(n, f, m) - 1
        <5>1. n >= 2
          BY <3>1
        <5>2. Steps(n, f, l) \in Nat /\ Steps(n, f, l) < n
          BY <5>1, StepsFromNext
        <5>3. Steps(n, f, m) \in Nat /\ (Steps(n, f, m) = 0 <=> m = f)
          BY <5>1, StepsFromNext
        <5>4. Steps(n, Nxt(n, f), m) \in Nat
          BY <5>1, StepsFromNext
        <5>5. /\ m = f => Steps(n, Nxt(n, f), m) = n - 1
              /\ m # f => Steps(n, Nxt(n, f), m) = Steps(n, f, m) - 1
          BY <5>1, StepsFromNext
        <5> QED
          BY <5>2, <5>3, <5>4, <5>5
      <4> QED
        BY <4>1
    <3>4. u = Used(B) /\ k = Steps(B.size, B.front, i) /\ (k = 0 <=> i = B.front)
      BY <3>1, <3>2, <3>3 DEF Used
    <3>5. k2 = Steps(blocks'[b].size, blocks'[b].front, i)
      BY <1>5, <1>7, <2>7, <3>1, <3>2, <3>3
    <3>6. Used(blocks'[b]) = u - 1 /\ base2[b] = base[b] + 1 /\ base[b] \in Nat
      BY <1>8, <2>7, <3>4
    <3>7. SlotIs(b, i, base2)' = IF k2 < u - 1 THEN base[b] + 1 + k2 ELSE Empty
      BY <2>1, <2>2, <2>7, <3>5, <3>6 DEF SlotIs
    <3>8. CASE i = B.front
      <4>1. HasRead(b, i)
        BY <1>1, <2>7, <3>8 DEF HasRead
      <4>2. SlotIs(b, i, base) = Empty
        BY <2>7, <4>1 DEF SlotIs
      <4>3. ~(k2 < u - 1)
        BY <3>3, <3>4, <3>8
      <4> QED
        BY <2>3, <3>7, <4>2, <4>3
    <3>9. CASE i # B.front
      <4>1. ~HasRead(b, i)
        BY <2>7, <3>9 DEF HasRead
      <4>2. SlotIs(b, i, base) = IF k < u THEN base[b] + k ELSE Empty
        BY <2>7, <3>4, <4>1 DEF SlotIs
      <4>3. k2 = k - 1 /\ k > 0
        <5>1. k # 0
          BY <3>4, <3>9
        <5> QED
          BY <3>3, <5>1
      <4>4. (k2 < u - 1 <=> k < u) /\ \A a \in Nat : a + 1 + k2 = a + k
        BY <4>3
      <4> QED
        BY <2>3, <3>6, <3>7, <4>2, <4>4
    <3> QED
      BY <3>8, <3>9
  <2> QED
    BY <2>5, <2>6, <2>7
<1>16. SemOK'
  BY <1>0, SemStep DEF ConsumerStep
<1>17. ConsumerOK'
  BY <1>2 DEF ConsumerOK
<1>18. ProducerOK(base2)'
  <2>1. Len(blocks) \in DOMAIN blocks
    BY <1>0 DEF QTypeOK
  <2>2. p.at = "link" => Len(blocks) # frontBlock
    <3>1. 1 \in 1..Len(s)
      BY <1>0
    <3> QED
      BY <1>0, <2>1, <3>1 DEF RingOK
  <2>3. p.at = "link" => /\ Used(blocks'[Len(blocks)]) = Used(blocks[Len(blocks)])
                         /\ base2[Len(blocks)] = base[Len(blocks)]
    BY <1>8, <2>1, <2>2
  <2> QED
    BY <1>0, <1>1, <1>7, <1>8, <2>3, ProducerKept
<1>19. AliveOK(s, t, base2)'
  BY <1>12, <1>13, <1>14, <1>15, <1>16, <1>17, <1>18 DEF AliveOK
<1>20. s \in Seq(DOMAIN blocks') /\ base2 \in [DOMAIN blocks' -> Nat]
  BY <1>7
<1> QED
  BY <1>1, <1>7, <1>19, <1>20 DEF Alive, BlocksOK

\* The consumer goes on to the next block, which becomes the first of the ring.
LEMMA ForwardAlive ==
  ASSUME QTypeOK, NEW s \in Seq(DOMAIN blocks), NEW t \in Nat,
         NEW base \in [DOMAIN blocks -> Nat], AliveOK(s, t, base), Forward
  PROVE  BlocksOK' /\ Alive' /\ UNCHANGED <<out, p>>
<1>0. /\ RingOK(s, t) /\ FillOK(s, t) /\ BaseOK(s, t, base) /\ SlotsOK(base)
      /\ ProducerOK(base) /\ ConsumerOK /\ SemOK
      /\ tailBlock \in DOMAIN blocks /\ frontBlock \in DOMAIN blocks
      /\ t \in 1..Len(s) /\ s[1] = frontBlock /\ s[t] = tailBlock /\ Len(s) \in Nat
      /\ \A i \in 1..Len(s) : s[i] \in DOMAIN blocks
  <2>1. RingOK(s, t) /\ SemOK /\ FillOK(s, t) /\ BaseOK(s, t, base) /\ SlotsOK(base)
        /\ ProducerOK(base) /\ ConsumerOK
    BY DEF AliveOK
  <2> QED
    BY <2>1, Ends
<1>1. /\ c.at = "forward" /\ UNCHANGED <<prog, blocks, tailBlock, p, out>>
      /\ frontBlock' = c.next
  BY DEF Forward
<1>2. c'.at = "element"
  BY DEF Forward, CGoto, QTypeOK
<1>3. /\ frontBlock # tailBlock /\ Used(blocks[frontBlock]) = 0
      /\ c.next = blocks[frontBlock].next
      /\ blocks[c.next].front # blocks[c.next].localTail
  BY <1>0, <1>1 DEF ConsumerOK
<1>4. c.next \in DOMAIN blocks /\ c.next = s[2] /\ t >= 2
  <2>1. c.at # "front"
    BY <1>1
  <2> QED
    BY <1>3, <2>1, NextElement
<1>5. PICK n \in Nat, t2 \in Nat : n = Len(s) /\ n >= 2 /\ t = t2 + 1 /\ t2 \in 1..n /\ t <= n
  <2>1. \A m \in Nat : \A k \in 1..m : k >= 2 =>
          m >= 2 /\ k - 1 \in Nat /\ k = (k - 1) + 1 /\ k - 1 \in 1..m /\ k <= m
    OBVIOUS
  <2> QED
    BY <1>0, <1>4, <2>1
<1>6. PICK s2 : s2 = [i \in 1..n |-> s[Succ(n, i)]]
  OBVIOUS
<1>7. /\ \A i \in 1..n : Succ(n, i) \in 1..n
      /\ \A i, j \in 1..n : Succ(n, i) = Succ(n, j) => i = j
      /\ \A j \in 1..n : \E i \in 1..n : Succ(n, i) = j
      /\ Succ(n, 1) = 2 /\ Succ(n, n) = 1 /\ \A i \in 1..n : i < n => Succ(n, i) = i + 1
  <2>1. /\ \A i \in 1..n : Succ(n, i) \in 1..n
        /\ \A i, j \in 1..n : Succ(n, i) = Succ(n, j) => i = j
        /\ Succ(n, 1) = 2 /\ Succ(n, n) = 1 /\ \A i \in 1..n : i < n => Succ(n, i) = i + 1
    <3>1. n >= 2
      BY <1>5
    <3> QED
      BY <3>1 DEF Succ
  <2>2. ASSUME NEW j \in 1..n PROVE \E i \in 1..n : Succ(n, i) = j
    <3>1. CASE j = 1
      <4>1. n \in 1..n
        BY <2>2
      <4> QED
        BY <2>1, <3>1, <4>1
    <3>2. CASE j # 1
      <4>1. j - 1 \in 1..n /\ j - 1 < n /\ (j - 1) + 1 = j
        BY <3>2
      <4> QED
        BY <2>1, <4>1
    <3> QED
      BY <3>1, <3>2
  <2> QED
    BY <2>1, <2>2
<1>8. /\ s2 \in Seq(DOMAIN blocks) /\ Len(s2) = n
      /\ \A i \in 1..n : s2[i] = s[Succ(n, i)] /\ s2[i] \in DOMAIN blocks
  <2>1. s2 \in [1..n -> DOMAIN blocks]
    BY <1>0, <1>5, <1>6, <1>7
  <2> QED
    BY <1>6, <2>1
<1>9. 1 \in 1..n /\ n \in 1..n /\ t2 < n /\ t2 \in 1..n
  BY <1>5
<1>21. \A i \in 1..n : s2[i] = s[Succ(n, i)] /\ Succ(n, i) \in 1..n
  BY <1>7, <1>8
<1>22. \A i \in 1..n : i < n => Succ(n, i) = i + 1
  BY <1>7
<1>23. \A i \in 1..n : i < n => s2[i] = s[i + 1]
  BY <1>21, <1>22
<1>24. s2[n] = s[1]
  <2>1. Succ(n, n) = 1
    BY DEF Succ
  <2> QED
    BY <1>9, <1>21, <2>1
<1>25. \A i, j \in 1..n : Succ(n, i) = Succ(n, j) => i = j
  BY <1>7
<1>26. \A j \in 1..n : \E i \in 1..n : Succ(n, i) = j
  BY <1>7
<1>10. \A i \in 1..n : s[i] \in DOMAIN blocks /\ blocks[s[i]].next = s[Succ(n, i)]
  BY <1>0, <1>5 DEF RingOK, Succ
<1>11. \A i, j \in 1..n : s[i] = s[j] => i = j
  BY <1>0, <1>5 DEF RingOK
<1>12. RingOK(s2, t2)'
  <2>1. ASSUME NEW i \in 1..n, NEW j \in 1..n, s2[i] = s2[j] PROVE i = j
    <3>1. s[Succ(n, i)] = s[Succ(n, j)] /\ Succ(n, i) \in 1..n /\ Succ(n, j) \in 1..n
      BY <1>21, <2>1
    <3>2. Succ(n, i) = Succ(n, j)
      BY <1>11, <3>1
    <3> QED
      BY <1>25, <3>2
  <2>2. \A i \in 1..n : blocks[s2[i]].next = s2[IF i = n THEN 1 ELSE i + 1]
    <3> TAKE i \in 1..n
    <3>1. Succ(n, i) \in 1..n /\ s2[i] = s[Succ(n, i)]
      BY <1>21
    <3>2. blocks[s2[i]].next = s[Succ(n, Succ(n, i))]
      BY <1>10, <3>1
    <3>3. s2[Succ(n, i)] = s[Succ(n, Succ(n, i))]
      BY <1>21, <3>1
    <3> QED
      BY <3>2, <3>3 DEF Succ
  <2>3. s2[1] = frontBlock' /\ s2[t2] = tailBlock
    <3>1. s2[1] = s[1 + 1] /\ s2[t2] = s[t2 + 1]
      BY <1>5, <1>9, <1>23
    <3> QED
      BY <1>0, <1>1, <1>4, <1>5, <3>1
  <2>4. ASSUME NEW b \in DOMAIN blocks
        PROVE  (\E i \in 1..n : s2[i] = b) <=> (\E i \in 1..n : s[i] = b)
    <3>1. ASSUME NEW i \in 1..n, s2[i] = b PROVE \E j \in 1..n : s[j] = b
      BY <1>21, <3>1
    <3>2. ASSUME NEW j \in 1..n, s[j] = b PROVE \E i \in 1..n : s2[i] = b
      <4>1. PICK i \in 1..n : Succ(n, i) = j
        BY <1>26
      <4>2. s2[i] = b
        BY <1>21, <3>2, <4>1
      <4> QED
        BY <4>2
    <3> QED
      BY <3>1, <3>2
  <2>5. \A b \in DOMAIN blocks :
          IF p.at = "link" /\ b = Len(blocks) THEN \A i \in 1..n : s2[i] # b
          ELSE \E i \in 1..n : s2[i] = b
    BY <1>0, <1>5, <2>4 DEF RingOK
  <2> QED
    BY <1>1, <1>5, <1>8, <2>1, <2>2, <2>3, <2>5 DEF RingOK
<1>13. FillOK(s2, t2)'
  <2>1. ASSUME NEW i \in 2..t2 PROVE Used(blocks[s2[i]]) > 0
    <3>1. i \in 1..n /\ i < n /\ i + 1 \in 2..t
      BY <1>5
    <3>2. s2[i] = s[i + 1]
      BY <1>23, <3>1
    <3> QED
      BY <1>0, <3>1, <3>2 DEF FillOK
  <2>2. ASSUME NEW i \in (t2 + 1)..n
        PROVE  Used(blocks[s2[i]]) = IF p.at = "advance" /\ i = t2 + 1 THEN 1 ELSE 0
    <3>1. CASE i < n
      <4>1. i \in 1..n /\ i + 1 \in (t + 1)..n /\ (i = t2 + 1 <=> i + 1 = t + 1)
        BY <1>5, <3>1
      <4>2. s2[i] = s[i + 1]
        BY <1>23, <3>1, <4>1
      <4>3. Used(blocks[s[i + 1]]) = IF p.at = "advance" /\ i + 1 = t + 1 THEN 1 ELSE 0
        BY <1>0, <1>5, <4>1 DEF FillOK
      <4> QED
        BY <4>1, <4>2, <4>3
    <3>2. CASE i = n
      <4>1. n \in 1..n /\ s2[i] = frontBlock
        BY <1>0, <1>9, <1>24, <3>2
      <4>2. ~(p.at = "advance" /\ i = t2 + 1)
        BY <1>0, <1>5, <3>2 DEF FillOK
      <4> QED
        BY <1>3, <4>1, <4>2
    <3> QED
      BY <3>1, <3>2
  <2> QED
    BY <1>1, <1>8, <1>9, <2>1, <2>2 DEF FillOK
<1>14. BaseOK(s2, t2, base)'
  <2>1. base[frontBlock'] = Len(out) + 1
    <3>1. base[s[1 + 1]] = base[s[1]] + Used(blocks[s[1]])
      <4>1. 1 \in 1..(t - 1)
        BY <1>5
      <4> QED
        BY <1>0, <4>1 DEF BaseOK
    <3>2. base[frontBlock] = Len(out) + 1 /\ base[frontBlock] \in Nat
      BY <1>0, <1>1 DEF BaseOK
    <3>3. base[s[2]] = base[frontBlock] + 0
      BY <1>0, <1>3, <3>1
    <3> QED
      BY <1>1, <1>4, <3>2, <3>3
  <2>2. Element' = Element
    BY <1>1 DEF Element
  <2>3. ASSUME NEW i \in 1..t2 PROVE base[s2[i]] + Used(blocks[s2[i]]) <= Element
    <3>1. i \in 1..n /\ i < n /\ i + 1 \in 1..t
      BY <1>5
    <3>2. s2[i] = s[i + 1]
      BY <1>23, <3>1
    <3> QED
      BY <1>0, <3>1, <3>2 DEF BaseOK
  <2>4. ASSUME NEW i \in 1..(t2 - 1)
        PROVE  base[s2[i + 1]] = base[s2[i]] + Used(blocks[s2[i]])
    <3>1. i \in 1..n /\ i < n /\ i + 1 \in 1..n /\ i + 1 < n /\ i + 1 \in 1..(t - 1)
      <4>1. \A m \in Nat, k \in Nat : k < m => \A j \in 1..(k - 1) :
              j \in 1..m /\ j < m /\ j + 1 \in 1..m /\ j + 1 < m /\ j + 1 \in 1..k
        OBVIOUS
      <4>2. t - 1 = t2
        BY <1>5
      <4> QED
        BY <1>9, <4>1, <4>2
    <3>2. s2[i] = s[i + 1] /\ s2[i + 1] = s[(i + 1) + 1]
      BY <1>23, <3>1
    <3> QED
      BY <1>0, <3>1, <3>2 DEF BaseOK
  <2> QED
    BY <1>0, <1>1, <1>2, <2>1, <2>2, <2>3, <2>4 DEF BaseOK
<1>15. SlotsOK(base)'
  <2> SUFFICES ASSUME NEW b \in DOMAIN blocks, NEW i \in 0..(blocks[b].size - 1)
               PROVE  blocks[b].data[i] = SlotIs(b, i, base)'
    BY <1>1 DEF SlotsOK
  <2>1. ~HasRead(b, i) /\ ~HasRead(b, i)' /\ (HasWritten(b, i)' <=> HasWritten(b, i))
        /\ Element' = Element
    BY <1>1, <1>2 DEF HasRead, HasWritten, Element
  <2>2. SlotIs(b, i, base)' = SlotIs(b, i, base)
    BY <1>1, <2>1 DEF SlotIs
  <2> QED
    BY <1>0, <2>2 DEF SlotsOK
<1>16. SemOK'
  BY <1>0, SemStep DEF ConsumerStep
<1>17. ConsumerOK'
  BY <1>1, <1>2, <1>3 DEF ConsumerOK
<1>18. ProducerOK(base)'
  BY <1>0, <1>1, ProducerKept
<1>19. AliveOK(s2, t2, base)'
  BY <1>12, <1>13, <1>14, <1>15, <1>16, <1>17, <1>18 DEF AliveOK
<1>20. s2 \in Seq(DOMAIN blocks') /\ base \in [DOMAIN blocks' -> Nat]
  BY <1>1, <1>8
<1> QED
  BY <1>1, <1>19, <1>20 DEF Alive, BlocksOK, QTypeOK

-----------------------------------------------------------------------------
(***************************************************************************)
(* Steps to the next block: Reuse, Alloc, Link and Advance.                *)
(***************************************************************************)

\* An empty block that is filled with one element.
Refilled(B, v) ==
  [B EXCEPT !.localFront = B.front, !.data[B.tail] = v, !.tail = Nxt(B.size, B.tail)]

LEMMA ReuseBlock ==
  ASSUME NEW B, BlockOK(B), Used(B) = 0, NEW v \in Nat, NEW D, D = Refilled(B, v)
  PROVE  /\ BlockOK(D) /\ Used(D) = 1 /\ D.size = B.size /\ D.front = B.front
         /\ D.localTail = B.localTail /\ D.next = B.next
         /\ D.tail = Nxt(B.size, B.tail) /\ D.data = [B.data EXCEPT ![B.tail] = v]
<1>1. PICK C : C = [B EXCEPT !.localFront = B.front]
  OBVIOUS
<1>2. /\ BlockOK(C) /\ C.size = B.size /\ C.front = B.front /\ C.tail = B.tail
      /\ C.localTail = B.localTail /\ C.next = B.next /\ C.data = B.data
      /\ C.localFront = B.front
  <2>1. BlockOK(C)
    BY <1>1, BlockCopies
  <2>2. B \in BlockOf(B.size)
    BY BlockFacts
  <2> QED
    BY <1>1, <2>1, <2>2 DEF BlockOf
<1>3. PICK E : E = [C EXCEPT !.data[C.tail] = v]
  OBVIOUS
<1>4. B.tail \in 0..(B.size - 1) /\ B.front = B.tail /\ B.size \in Nat /\ B.size >= 2
  BY BlockFacts
<1>5. /\ BlockOK(E) /\ Used(E) = Used(C) /\ E.size = C.size /\ E.front = C.front
      /\ E.tail = C.tail /\ E.localTail = C.localTail /\ E.next = C.next
      /\ E.data = [C.data EXCEPT ![C.tail] = v]
  <2>1. PICK i \in 0..(C.size - 1) : i = C.tail
    BY <1>2, <1>4
  <2>2. BlockOK(C) /\ E = [C EXCEPT !.data[i] = v]
    BY <1>2, <1>3, <2>1
  <2>3. /\ E \in BlockOf(C.size) /\ E.size = C.size /\ E.front = C.front
        /\ E.tail = C.tail /\ E.localFront = C.localFront
        /\ E.localTail = C.localTail /\ E.next = C.next
        /\ E.data = [C.data EXCEPT ![i] = v]
    <3>1. C \in BlockOf(C.size) /\ C.data \in [0..(C.size - 1) -> Nat]
      BY <2>2, BlockFacts
    <3> QED
      BY <2>2, <3>1 DEF BlockOf
  <2>4. Used(E) = Used(C)
    BY <2>3 DEF Used
  <2>5. BlockOK(E)
    BY <2>2, <2>3, <2>4, BlockFacts DEF BlockOK
  <2> QED
    BY <2>1, <2>3, <2>4, <2>5
<1>6. E.localFront = C.localFront
  BY <1>2, <1>3, BlockFacts DEF BlockOf
<1>7. Used(C) = 0
  BY <1>2 DEF Used
<1>8. HasRoom(E)
  <2>1. PICK n \in Nat : n = B.size /\ n >= 2
    BY <1>4
  <2>2. Steps(n, B.tail, B.tail) = 0
    BY <1>4, <2>1 DEF Steps
  <2>3. E.size = n /\ E.localFront = B.tail /\ E.tail = B.tail
    BY <1>2, <1>4, <1>5, <1>6, <2>1
  <2>4. 0 < n - 1
    BY <2>1
  <2> QED
    BY <2>2, <2>3, <2>4 DEF HasRoom
<1>9. D = [E EXCEPT !.tail = Nxt(E.size, E.tail)]
  BY <1>1, <1>2, <1>3, <1>5 DEF Refilled
<1>10. /\ BlockOK(D) /\ Used(D) = Used(E) + 1 /\ D.size = E.size /\ D.front = E.front
       /\ D.tail = Nxt(E.size, E.tail) /\ D.localTail = E.localTail /\ D.next = E.next
       /\ D.data = E.data
  BY <1>5, <1>8, <1>9, BlockTail
<1> QED
  BY <1>2, <1>5, <1>7, <1>10

\* The block after the tail block, when it is not the front block.
LEMMA BlockAhead ==
  ASSUME QTypeOK, NEW s, NEW t, RingOK(s, t), t < Len(s)
  PROVE  /\ t + 1 \in 1..Len(s) /\ blocks[tailBlock].next = s[t + 1]
         /\ s[t + 1] \in DOMAIN blocks
         /\ \A i \in 1..Len(s) : i # t + 1 => s[i] # s[t + 1]
         /\ s[t + 1] # frontBlock /\ s[t + 1] # tailBlock
<1>1. /\ t \in 1..Len(s) /\ Len(s) \in Nat /\ s[1] = frontBlock /\ s[t] = tailBlock
      /\ \A i \in 1..Len(s) : s[i] \in DOMAIN blocks
  BY Ends
<1>2. /\ t + 1 \in 1..Len(s) /\ 1 \in 1..Len(s) /\ t + 1 # 1 /\ t + 1 # t /\ t # Len(s)
  BY <1>1
<1>3. /\ \A i \in 1..Len(s) : blocks[s[i]].next = s[IF i = Len(s) THEN 1 ELSE i + 1]
      /\ \A i, j \in 1..Len(s) : s[i] = s[j] => i = j
  BY DEF RingOK
<1>4. blocks[tailBlock].next = s[t + 1]
  BY <1>1, <1>2, <1>3
<1>5. \A i \in 1..Len(s) : i # t + 1 => s[i] # s[t + 1]
  BY <1>2, <1>3
<1> QED
  BY <1>1, <1>2, <1>4, <1>5

\* What Reuse does.
LEMMA ReuseFacts ==
  ASSUME Reuse, NEW n, n = blocks[tailBlock].next, n \in DOMAIN blocks
  PROVE  /\ p.at = "reuse" /\ p' = [p EXCEPT !.at = "advance"]
         /\ UNCHANGED <<prog, frontBlock, tailBlock, c, out>>
         /\ blocks' = [blocks EXCEPT ![n] =
              [blocks[n] EXCEPT !.localFront = blocks[n].front,
                                !.data[blocks[n].tail] = Element,
                                !.tail = After(n, blocks[n].tail)]]
<1>1. /\ p.at = "reuse" /\ p' = [p EXCEPT !.at = "advance"]
      /\ UNCHANGED <<prog, frontBlock, tailBlock, c, out>>
  BY Zenon DEF Reuse, PGoto
<1>2. blocks' = [blocks EXCEPT ![n] =
              [blocks[n] EXCEPT !.localFront = blocks[n].front,
                                !.data[blocks[n].tail] = Element,
                                !.tail = After(n, blocks[n].tail)]]
  BY Zenon DEF Reuse
<1> QED
  BY <1>1, <1>2

\* A free block is used again: its element is the next one.
LEMMA ReuseAlive ==
  ASSUME QTypeOK, NEW s \in Seq(DOMAIN blocks), NEW t \in Nat,
         NEW base \in [DOMAIN blocks -> Nat], AliveOK(s, t, base), Reuse
  PROVE  BlocksOK' /\ Alive' /\ UNCHANGED <<out, c>>
<1>0. /\ RingOK(s, t) /\ FillOK(s, t) /\ BaseOK(s, t, base) /\ SlotsOK(base)
      /\ ProducerOK(base) /\ ConsumerOK /\ SemOK
      /\ tailBlock \in DOMAIN blocks /\ frontBlock \in DOMAIN blocks
      /\ t \in 1..Len(s) /\ s[t] = tailBlock /\ Len(s) \in Nat
      /\ \A i \in 1..Len(s) : s[i] \in DOMAIN blocks
      /\ p \in [at : ProducerPoints, canAlloc : BOOLEAN, sent : Nat, seen : Nat, left : Nat]
  BY Ends DEF AliveOK, QTypeOK
<1>1. p.at = "reuse" /\ t < Len(s)
  BY <1>0 DEF Reuse, FillOK
<1>2. /\ t + 1 \in 1..Len(s) /\ blocks[tailBlock].next = s[t + 1]
      /\ s[t + 1] \in DOMAIN blocks
      /\ \A i \in 1..Len(s) : i # t + 1 => s[i] # s[t + 1]
      /\ s[t + 1] # frontBlock /\ s[t + 1] # tailBlock
  BY <1>0, <1>1, BlockAhead
<1>3. PICK n \in DOMAIN blocks : n = s[t + 1]
  BY <1>2
<1>4. PICK e \in Nat : e = Element
  BY <1>0 DEF Element
<1> DEFINE B == blocks[n]
<1>5. BlockOK(B) /\ B.tail \in 0..(B.size - 1) /\ B.front = B.tail /\ Used(B) = 0
  <2>1. t + 1 \in (t + 1)..Len(s)
    <3>1. PICK n1 \in Nat, t1 \in Nat : n1 = Len(s) /\ t1 = t
      BY <1>0
    <3>2. t1 < n1
      BY <1>1, <3>1
    <3>3. t1 + 1 \in (t1 + 1)..n1
      BY <3>2
    <3> QED
      BY <3>1, <3>3
  <2>2. Used(B) = 0
    BY <1>0, <1>1, <1>3, <2>1 DEF FillOK
  <2>3. BlockOK(B)
    BY DEF QTypeOK
  <2> QED
    BY <2>2, <2>3, BlockFacts
<1>6. /\ p' = [p EXCEPT !.at = "advance"]
      /\ UNCHANGED <<prog, frontBlock, tailBlock, c, out>>
      /\ blocks' = [blocks EXCEPT ![n] = Refilled(B, e)]
  <2>1. After(n, B.tail) = Nxt(B.size, B.tail)
    BY <1>5, AfterIsNxt
  <2>2. n = blocks[tailBlock].next
    BY <1>2, <1>3
  <2>3. /\ p' = [p EXCEPT !.at = "advance"]
        /\ UNCHANGED <<prog, frontBlock, tailBlock, c, out>>
        /\ blocks' = [blocks EXCEPT ![n] =
              [B EXCEPT !.localFront = B.front, !.data[B.tail] = Element,
                        !.tail = After(n, B.tail)]]
    BY Zenon, <2>2, ReuseFacts
  <2> QED
    BY Zenon, <1>4, <2>1, <2>3 DEF Refilled
<1>7. p'.at = "advance" /\ p'.sent = p.sent /\ Element' = Element
  BY <1>0, <1>6 DEF Element
<1>8. PICK D : D = Refilled(B, e)
  OBVIOUS
<1>9. /\ BlockOK(D) /\ Used(D) = 1 /\ D.size = B.size /\ D.front = B.front
      /\ D.localTail = B.localTail /\ D.next = B.next
      /\ D.tail = Nxt(B.size, B.tail) /\ D.data = [B.data EXCEPT ![B.tail] = e]
  <2> HIDE DEF B
  <2> QED
    BY <1>5, <1>8, ReuseBlock
<1>10. /\ blocks' \in Seq(AnyBlock) /\ Len(blocks') = Len(blocks)
       /\ DOMAIN blocks' = DOMAIN blocks /\ blocks'[n] = D
       /\ \A x \in DOMAIN blocks : x # n => blocks'[x] = blocks[x]
       /\ \A x \in DOMAIN blocks' : BlockOK(blocks'[x])
  <2>1. blocks' = [blocks EXCEPT ![n] = D]
    BY Zenon, <1>6, <1>8
  <2> QED
    BY <1>9, <2>1, OneBlock
<1>11. \A x \in DOMAIN blocks :
         /\ blocks'[x].front = blocks[x].front /\ blocks'[x].size = blocks[x].size
         /\ blocks'[x].next = blocks[x].next /\ blocks'[x].localTail = blocks[x].localTail
         /\ Used(blocks'[x]) = IF x = n THEN 1 ELSE Used(blocks[x])
  <2> TAKE x \in DOMAIN blocks
  <2>1. CASE x = n
    BY <1>9, <1>10, <2>1
  <2>2. CASE x # n
    BY <1>10, <2>2
  <2> QED
    BY <2>1, <2>2
<1>12. RingOK(s, t)'
  BY <1>0, <1>1, <1>6, <1>7, <1>10, <1>11, RingSame
<1>13. FillOK(s, t)'
  <2>1. ASSUME NEW i \in 2..t PROVE Used(blocks'[s[i]]) > 0
    <3>1. i \in 1..Len(s) /\ i # t + 1
      BY <1>0, Indices
    <3>2. s[i] \in DOMAIN blocks /\ s[i] # n
      BY <1>0, <1>2, <1>3, <3>1
    <3> QED
      BY <1>0, <1>11, <3>2 DEF FillOK
  <2>2. ASSUME NEW i \in (t + 1)..Len(s)
        PROVE  Used(blocks'[s[i]]) = IF i = t + 1 THEN 1 ELSE 0
    <3>1. i \in 1..Len(s)
      BY <1>0
    <3>2. s[i] \in DOMAIN blocks /\ (s[i] = n <=> i = t + 1)
      BY <1>0, <1>2, <1>3, <3>1
    <3> QED
      BY <1>0, <1>1, <1>11, <3>2 DEF FillOK
  <2> QED
    BY <1>1, <1>7, <2>1, <2>2 DEF FillOK
<1>14. PICK base2 : base2 = [base EXCEPT ![n] = e]
  OBVIOUS
<1>15. /\ base2 \in [DOMAIN blocks -> Nat] /\ base2[n] = e
       /\ \A x \in DOMAIN blocks : x # n => base2[x] = base[x]
  BY <1>14
<1>16. BaseOK(s, t, base2)'
  <2>1. base2[frontBlock] = base[frontBlock] /\ base2[tailBlock] = base[tailBlock]
    BY <1>0, <1>2, <1>3, <1>15
  <2>2. Used(blocks'[tailBlock]) = Used(blocks[tailBlock])
    BY <1>0, <1>2, <1>3, <1>11
  <2>3. \A i \in 1..t : /\ base2[s[i]] = base[s[i]]
                        /\ Used(blocks'[s[i]]) = Used(blocks[s[i]])
    <3> TAKE i \in 1..t
    <3>1. i \in 1..Len(s) /\ i # t + 1
      BY <1>0, Indices
    <3>2. s[i] \in DOMAIN blocks /\ s[i] # n
      BY <1>0, <1>2, <1>3, <3>1
    <3> QED
      BY <1>11, <1>15, <3>2
  <2>4. \A i \in 1..(t - 1) : i \in 1..t /\ i + 1 \in 1..t
    BY <1>0, Indices
  <2>5. blocks'[tailBlock].next = n
    BY <1>0, <1>2, <1>3, <1>11
  <2>6. base2[frontBlock] = Len(out) + (IF c.at = "front" THEN 0 ELSE 1)
    BY <1>0, <2>1 DEF BaseOK
  <2>7. base2[tailBlock] + Used(blocks'[tailBlock]) = Element
    BY <1>0, <2>1, <2>2 DEF BaseOK
  <2>8. \A i \in 1..t : base2[s[i]] + Used(blocks'[s[i]]) <= Element
    BY <1>0, <2>3 DEF BaseOK
  <2>9. \A i \in 1..(t - 1) : base2[s[i + 1]] = base2[s[i]] + Used(blocks'[s[i]])
    BY <1>0, <2>3, <2>4 DEF BaseOK
  <2>10. base2[blocks'[tailBlock].next] = Element
    BY <1>4, <1>15, <2>5
  <2> QED
    BY <1>6, <1>7, <1>10, <1>15, <2>6, <2>7, <2>8, <2>9, <2>10 DEF BaseOK
<1>17. SlotsOK(base2)'
  <2> SUFFICES ASSUME NEW b \in DOMAIN blocks, NEW i \in 0..(blocks[b].size - 1)
               PROVE  blocks'[b].data[i] = SlotIs(b, i, base2)'
    BY <1>10, <1>11 DEF SlotsOK
  <2>1. ~HasWritten(b, i)' /\ ~HasWritten(b, i)
    BY <1>1, <1>7 DEF HasWritten
  <2>2. blocks[b].data[i] = SlotIs(b, i, base)
    BY <1>0 DEF SlotsOK
  <2>3. HasRead(b, i)' <=> HasRead(b, i)
    BY <1>6, <1>11 DEF HasRead
  <2>4. CASE b # n
    <3>1. SlotIs(b, i, base2)' = SlotIs(b, i, base)
      BY <1>10, <1>15, <2>1, <2>3, <2>4 DEF SlotIs
    <3>2. blocks'[b].data[i] = blocks[b].data[i]
      BY <1>10, <2>4
    <3> QED
      BY <2>2, <3>1, <3>2
  <2>5. CASE b = n
    <3>1. ~HasRead(b, i) /\ ~HasRead(b, i)'
      BY <1>2, <1>3, <2>3, <2>5 DEF HasRead
    <3>2. PICK m \in Nat : m = B.size /\ m >= 2
      BY <1>5, BlockFacts
    <3>3. i \in 0..(m - 1) /\ B.front \in 0..(m - 1)
      BY <1>5, <2>5, <3>2
    <3>4. PICK k \in Nat : k = Steps(m, B.front, i) /\ (k = 0 <=> i = B.front)
      <4>1. PICK f \in 0..(m - 1), j \in 0..(m - 1) : f = B.front /\ j = i
        BY <3>3
      <4>2. Steps(m, f, j) \in Nat /\ (Steps(m, f, j) = 0 <=> j = f)
        BY DEF Steps
      <4> QED
        BY <4>1, <4>2
    <3>5. SlotIs(b, i, base2)' = IF k < 1 THEN e + k ELSE Empty
      BY <1>11, <1>15, <2>1, <2>5, <3>1, <3>2, <3>4 DEF SlotIs
    <3>6. blocks[b].data[i] = Empty
      <4>1. SlotIs(b, i, base) = IF k < 0 THEN base[b] + k ELSE Empty
        BY <1>5, <2>1, <2>5, <3>1, <3>2, <3>4 DEF SlotIs
      <4> QED
        BY <2>2, <4>1
    <3>7. B.data \in [0..(m - 1) -> Nat]
      BY <1>5, <3>2, BlockFacts
    <3>8. blocks'[b].data[i] = IF i = B.tail THEN e ELSE Empty
      <4>1. PICK d \in [0..(m - 1) -> Nat] : d = B.data
        BY <3>7
      <4>2. PICK a \in 0..(m - 1) : a = B.tail
        BY <1>5, <3>2
      <4>3. blocks'[b].data = [d EXCEPT ![a] = e]
        BY <1>9, <1>10, <2>5, <4>1, <4>2
      <4>4. d[i] = Empty
        BY <2>5, <3>6, <4>1
      <4> QED
        BY <3>3, <4>2, <4>3, <4>4
    <3>9. (k < 1 <=> i = B.tail) /\ (k < 1 => e + k = e)
      BY <1>5, <3>4
    <3> QED
      BY <3>5, <3>8, <3>9
  <2> QED
    BY <2>4, <2>5
<1>18. SemOK'
  BY <1>0, SemStep DEF ProducerStep
<1>19. ConsumerOK'
  <2>1. p'.sent \in Nat /\ p'.sent >= p.sent
    BY <1>0, <1>7
  <2> QED
    BY <1>0, <1>2, <1>3, <1>6, <1>11, <2>1, ConsumerKept
<1>20. ProducerOK(base2)'
  BY <1>7 DEF ProducerOK
<1>21. AliveOK(s, t, base2)'
  BY <1>12, <1>13, <1>16, <1>17, <1>18, <1>19, <1>20 DEF AliveOK
<1>22. s \in Seq(DOMAIN blocks') /\ base2 \in [DOMAIN blocks' -> Nat]
  BY <1>10, <1>15
<1> QED
  BY <1>6, <1>10, <1>21, <1>22 DEF Alive, BlocksOK

\* What make_block returns, with the element in it.
NewBlock(size, v, next) ==
  [MakeBlock(size) EXCEPT !.data[0] = v, !.tail = 1, !.localTail = 1, !.next = next]

HoldsOne(N, size, v, next) ==
  /\ BlockOK(N) /\ Used(N) = 1 /\ N.size = size /\ N.front = 0 /\ N.tail = 1
  /\ N.localTail = 1 /\ N.next = next
  /\ \A i \in 0..(size - 1) : N.data[i] = IF i = 0 THEN v ELSE Empty

\* A new block holds one element.
LEMMA NewBlockOK ==
  ASSUME NEW size \in Nat, size >= 2, NEW v \in Nat, NEW next \in Nat
  PROVE  HoldsOne(NewBlock(size, v, next), size, v, next)
<1>0. PICK N : N = NewBlock(size, v, next)
  OBVIOUS
<1>1. /\ 0 \in 0..(size - 1) /\ 1 \in 0..(size - 1)
      /\ Steps(size, 0, 1) = 1
  BY DEF Steps
<1>2. PICK d : d = [[i \in 0..(size - 1) |-> Empty] EXCEPT ![0] = v]
  OBVIOUS
<1>3. /\ d \in [0..(size - 1) -> Nat]
      /\ \A i \in 0..(size - 1) : d[i] = IF i = 0 THEN v ELSE Empty
  BY <1>1, <1>2 DEF Empty
<1>4. N = [front |-> 0, localTail |-> 1, tail |-> 1, localFront |-> 0, next |-> next,
           size |-> size, data |-> d]
  BY <1>0, <1>2 DEF NewBlock, MakeBlock
<1>5. /\ N.size = size /\ N.front = 0 /\ N.tail = 1 /\ N.localTail = 1 /\ N.localFront = 0
      /\ N.next = next /\ N.data = d
  BY <1>4
<1>6. N \in BlockOf(size)
  BY <1>1, <1>3, <1>4 DEF BlockOf
<1>7. Used(N) = 1
  BY <1>1, <1>5 DEF Used
<1>8. BlockOK(N)
  <2>1. Used(N) <= Steps(N.size, N.localFront, N.tail)
    BY <1>1, <1>5, <1>7
  <2>2. Steps(N.size, N.front, N.localTail) <= Used(N)
    BY <1>1, <1>5, <1>7
  <2> QED
    BY <1>5, <1>6, <2>1, <2>2 DEF BlockOK
<1>9. HoldsOne(N, size, v, next)
  BY <1>3, <1>5, <1>7, <1>8 DEF HoldsOne
<1> QED
  BY Zenon, <1>0, <1>9

\* What Alloc does.
LEMMA AllocFacts ==
  ASSUME QTypeOK, Alloc
  PROVE  /\ p.at = "alloc" /\ p' = [p EXCEPT !.at = "link"]
         /\ UNCHANGED <<prog, frontBlock, tailBlock, c, out>>
         /\ \E size \in Nat :
              /\ size >= 2
              /\ blocks' = Append(blocks, NewBlock(size, Element, blocks[tailBlock].next))
<1>1. /\ p.at = "alloc" /\ p' = [p EXCEPT !.at = "link"]
      /\ UNCHANGED <<prog, frontBlock, tailBlock, c, out>>
  BY Zenon DEF Alloc, PGoto
<1>2. PICK size : /\ size = largestBlockSize * IF largestBlockSize >= prog.maxBlock THEN 1 ELSE 2
                  /\ blocks' = Append(blocks,
                       [MakeBlock(size) EXCEPT !.data[0] = Element, !.tail = 1,
                          !.localTail = 1, !.next = blocks[tailBlock].next])
  BY Zenon DEF Alloc
<1>3. blocks' = Append(blocks, NewBlock(size, Element, blocks[tailBlock].next))
  BY Zenon, <1>2 DEF NewBlock
<1>4. size \in Nat /\ size >= 2
  BY <1>2 DEF QTypeOK
<1> QED
  BY <1>1, <1>3, <1>4

\* A sequence of elements of a larger set.
LEMMA SeqLarger ==
  ASSUME NEW S, NEW T, \A x \in S : x \in T, NEW q \in Seq(S)
  PROVE  q \in Seq(T)
OBVIOUS

\* A new block is made: it is not in the ring yet.
LEMMA AllocAlive ==
  ASSUME QTypeOK, NEW s \in Seq(DOMAIN blocks), NEW t \in Nat,
         NEW base \in [DOMAIN blocks -> Nat], AliveOK(s, t, base), Alloc
  PROVE  BlocksOK' /\ Alive' /\ UNCHANGED <<out, c>>
<1>0. /\ RingOK(s, t) /\ FillOK(s, t) /\ BaseOK(s, t, base) /\ SlotsOK(base)
      /\ ProducerOK(base) /\ ConsumerOK /\ SemOK
      /\ tailBlock \in DOMAIN blocks /\ frontBlock \in DOMAIN blocks
      /\ t \in 1..Len(s) /\ s[t] = tailBlock /\ Len(s) \in Nat
      /\ \A i \in 1..Len(s) : s[i] \in DOMAIN blocks
      /\ p \in [at : ProducerPoints, canAlloc : BOOLEAN, sent : Nat, seen : Nat, left : Nat]
  BY Ends DEF AliveOK, QTypeOK
<1>1. /\ p.at = "alloc" /\ p' = [p EXCEPT !.at = "link"]
      /\ UNCHANGED <<prog, frontBlock, tailBlock, c, out>>
      /\ \E size \in Nat :
           /\ size >= 2
           /\ blocks' = Append(blocks, NewBlock(size, Element, blocks[tailBlock].next))
  BY AllocFacts
<1>2. PICK size \in Nat :
        /\ size >= 2
        /\ blocks' = Append(blocks, NewBlock(size, Element, blocks[tailBlock].next))
  BY <1>1
<1>3. PICK e \in Nat, next \in DOMAIN blocks : e = Element /\ next = blocks[tailBlock].next
  <2>1. blocks[tailBlock].next \in DOMAIN blocks
    BY Zenon, <1>0, NextOfEnds
  <2>2. Element \in Nat
    BY <1>0 DEF Element
  <2> QED
    BY <2>1, <2>2
<1>4. PICK N : N = NewBlock(size, e, next)
  OBVIOUS
<1>5. /\ BlockOK(N) /\ N \in AnyBlock /\ Used(N) = 1 /\ N.size = size /\ N.front = 0
      /\ N.tail = 1 /\ N.localTail = 1 /\ N.next = next
      /\ \A i \in 0..(size - 1) : N.data[i] = IF i = 0 THEN e ELSE Empty
  <2>1. next \in Nat
    BY DEF QTypeOK
  <2>2. size >= 2 /\ N = NewBlock(size, e, next)
    BY <1>2, <1>4
  <2>3. HoldsOne(N, size, e, next)
    BY <2>1, <2>2, NewBlockOK
  <2> QED
    BY <2>3, BlockFacts DEF HoldsOne
<1>6. PICK m \in Nat : m = Len(blocks) + 1
  BY DEF QTypeOK
<1>7. /\ blocks' \in Seq(AnyBlock) /\ Len(blocks') = m /\ DOMAIN blocks' = 1..m
      /\ DOMAIN blocks = 1..(m - 1) /\ m \notin DOMAIN blocks /\ m \in DOMAIN blocks'
      /\ \A x \in DOMAIN blocks : x \in DOMAIN blocks' /\ blocks'[x] = blocks[x]
      /\ \A x \in DOMAIN blocks' : x = m \/ x \in DOMAIN blocks
      /\ blocks'[m] = N
  <2>1. blocks' = Append(blocks, N) /\ blocks \in Seq(AnyBlock)
    BY Zenon, <1>2, <1>3, <1>4 DEF QTypeOK
  <2>2. /\ blocks' \in Seq(AnyBlock) /\ Len(blocks') = m
        /\ \A x \in 1..(m - 1) : blocks'[x] = blocks[x]
        /\ blocks'[m] = N
    BY <1>5, <1>6, <2>1
  <2>3. DOMAIN blocks = 1..(m - 1) /\ DOMAIN blocks' = 1..m
    BY <1>6, <2>1, <2>2
  <2>4. /\ m \notin 1..(m - 1) /\ m \in 1..m
        /\ \A x \in 1..(m - 1) : x \in 1..m
        /\ \A x \in 1..m : x = m \/ x \in 1..(m - 1)
    BY <1>6
  <2> QED
    BY <2>2, <2>3, <2>4
<1>8. \A x \in DOMAIN blocks' : BlockOK(blocks'[x])
  BY <1>5, <1>7 DEF QTypeOK
<1>9. p'.at = "link" /\ p'.sent = p.sent /\ Element' = Element
  BY <1>0, <1>1 DEF Element
<1>10. \A i \in 1..Len(s) : s[i] \in DOMAIN blocks' /\ blocks'[s[i]] = blocks[s[i]] /\ s[i] # m
  BY <1>0, <1>7
<1>11. RingOK(s, t)'
  <2>1. s \in Seq(DOMAIN blocks')
    BY <1>7, SeqLarger
  <2>2. ASSUME NEW b \in DOMAIN blocks'
        PROVE  IF b = m THEN \A i \in 1..Len(s) : s[i] # b
               ELSE \E i \in 1..Len(s) : s[i] = b
    <3>1. CASE b = m
      BY <1>10, <3>1
    <3>2. CASE b # m
      BY <1>0, <1>1, <1>7, <3>2 DEF RingOK
    <3> QED
      BY <3>1, <3>2
  <2>3. \A i \in 1..Len(s) : blocks'[s[i]].next = s[IF i = Len(s) THEN 1 ELSE i + 1]
    BY <1>0, <1>10 DEF RingOK
  <2> QED
    BY <1>0, <1>1, <1>7, <1>9, <2>1, <2>2, <2>3 DEF RingOK
<1>12. FillOK(s, t)'
  <2>1. /\ \A i \in 2..t : i \in 1..Len(s)
        /\ \A i \in (t + 1)..Len(s) : i \in 1..Len(s)
    BY <1>0
  <2> QED
    BY <1>0, <1>1, <1>9, <1>10, <2>1 DEF FillOK
<1>13. PICK base2 : base2 = [b \in DOMAIN blocks' |-> IF b = m THEN e ELSE base[b]]
  OBVIOUS
<1>14. /\ base2 \in [DOMAIN blocks' -> Nat] /\ base2[m] = e
       /\ \A x \in DOMAIN blocks : base2[x] = base[x]
  BY <1>7, <1>13
<1>15. BaseOK(s, t, base2)'
  <2>1. base2[frontBlock] = Len(out) + (IF c.at = "front" THEN 0 ELSE 1)
    BY <1>0, <1>14 DEF BaseOK
  <2>2. base2[tailBlock] + Used(blocks'[tailBlock]) = Element
    BY <1>0, <1>7, <1>14 DEF BaseOK
  <2>3. \A i \in 1..t : /\ base2[s[i]] = base[s[i]]
                        /\ Used(blocks'[s[i]]) = Used(blocks[s[i]])
    BY <1>0, <1>10, <1>14, Indices
  <2>4. \A i \in 1..(t - 1) : i \in 1..t /\ i + 1 \in 1..t
    BY <1>0, Indices
  <2>5. \A i \in 1..t : base2[s[i]] + Used(blocks'[s[i]]) <= Element
    BY <1>0, <2>3 DEF BaseOK
  <2>6. \A i \in 1..(t - 1) : base2[s[i + 1]] = base2[s[i]] + Used(blocks'[s[i]])
    BY <1>0, <2>3, <2>4 DEF BaseOK
  <2> QED
    BY <1>1, <1>9, <1>14, <2>1, <2>2, <2>5, <2>6 DEF BaseOK
<1>16. SlotsOK(base2)'
  <2> SUFFICES ASSUME NEW b \in DOMAIN blocks', NEW i \in 0..(blocks'[b].size - 1)
               PROVE  blocks'[b].data[i] = SlotIs(b, i, base2)'
    BY DEF SlotsOK
  <2>1. ~HasWritten(b, i)'
    BY <1>9 DEF HasWritten
  <2>2. CASE b # m
    <3>1. b \in DOMAIN blocks /\ blocks'[b] = blocks[b] /\ i \in 0..(blocks[b].size - 1)
      BY <1>7, <2>2
    <3>2. (HasRead(b, i)' <=> HasRead(b, i)) /\ ~HasWritten(b, i)
      BY <1>1, <3>1 DEF HasRead, HasWritten
    <3>3. SlotIs(b, i, base2)' = SlotIs(b, i, base)
      BY <1>14, <2>1, <3>1, <3>2 DEF SlotIs
    <3> QED
      BY <1>0, <3>1, <3>3 DEF SlotsOK
  <2>3. CASE b = m
    <3>1. ~HasRead(b, i)'
      BY <1>0, <1>1, <1>7, <2>3 DEF HasRead
    <3>2. i \in 0..(size - 1) /\ Steps(size, 0, i) = i /\ i \in Nat
      BY <1>2, <1>5, <1>7, <2>3 DEF Steps
    <3>3. SlotIs(b, i, base2)' = IF i < 1 THEN e + i ELSE Empty
      BY <1>5, <1>7, <1>14, <2>1, <2>3, <3>1, <3>2 DEF SlotIs
    <3>4. blocks'[b].data[i] = IF i = 0 THEN e ELSE Empty
      BY <1>5, <1>7, <2>3, <3>2
    <3>5. (i < 1 <=> i = 0) /\ (i = 0 => e + i = e)
      BY <3>2
    <3> QED
      BY <3>3, <3>4, <3>5
  <2> QED
    BY <2>2, <2>3
<1>17. SemOK'
  BY <1>0, SemStep DEF ProducerStep
<1>18. ConsumerOK'
  <2>1. p'.sent \in Nat /\ p'.sent >= p.sent
    BY <1>0, <1>9
  <2> QED
    BY <1>0, <1>1, <1>7, <2>1, ConsumerKept
<1>19. ProducerOK(base2)'
  BY <1>0, <1>1, <1>3, <1>5, <1>7, <1>9, <1>14 DEF ProducerOK
<1>20. AliveOK(s, t, base2)'
  BY <1>11, <1>12, <1>15, <1>16, <1>17, <1>18, <1>19 DEF AliveOK
<1>21. s \in Seq(DOMAIN blocks')
  BY <1>7, SeqLarger
<1> QED
  BY <1>1, <1>7, <1>8, <1>14, <1>20, <1>21 DEF Alive, BlocksOK

\* m is put in after the t-th of n.
Insert(s, n, t, m) ==
  [i \in 1..(n + 1) |-> IF i <= t THEN s[i] ELSE IF i = t + 1 THEN m ELSE s[i - 1]]

\* z is s with m there: what is where.
Inserted(z, s, n, t, m) ==
  /\ \A i \in 1..t : i \in 1..(n + 1) /\ i # n + 1 /\ z[i] = s[i]
  /\ t + 1 \in 1..(n + 1) /\ z[t + 1] = m
  /\ \A i \in (t + 1)..n : i + 1 \in 1..(n + 1) /\ i \in 1..n /\ z[i + 1] = s[i]
  /\ \A i \in 1..(n + 1) : i \in 1..t \/ i = t + 1 \/ \E k \in (t + 1)..n : i = k + 1

\* None of the first n is met twice.
Distinct(s, n) == \A i, j \in 1..n : s[i] = s[j] => i = j

\* What Insert puts where.
LEMMA InsertFacts ==
  ASSUME NEW n \in Nat, NEW t \in 1..n, NEW s, NEW m, NEW z, z = Insert(s, n, t, m)
  PROVE  Inserted(z, s, n, t, m)
<1>1. \A i \in 1..t : i \in 1..(n + 1) /\ i # n + 1 /\ z[i] = s[i]
  BY DEF Insert
<1>2. t + 1 \in 1..(n + 1) /\ z[t + 1] = m
  BY DEF Insert
<1>3. ASSUME NEW i \in (t + 1)..n
      PROVE  i + 1 \in 1..(n + 1) /\ i \in 1..n /\ z[i + 1] = s[i]
  <2>1. i + 1 \in 1..(n + 1) /\ i \in 1..n /\ ~(i + 1 <= t) /\ i + 1 # t + 1 /\ (i + 1) - 1 = i
    OBVIOUS
  <2>2. z[i + 1] = s[(i + 1) - 1]
    BY <2>1 DEF Insert
  <2> QED
    BY <2>1, <2>2
<1>4. ASSUME NEW i \in 1..(n + 1), i \notin 1..t, i # t + 1
      PROVE  \E k \in (t + 1)..n : i = k + 1
  <2>1. i - 1 \in (t + 1)..n /\ i = (i - 1) + 1
    BY <1>4
  <2> QED
    BY <2>1
<1> QED
  BY <1>1, <1>2, <1>3, <1>4 DEF Inserted

\* The sequence stays one without repetition.
LEMMA InsertDistinct ==
  ASSUME NEW n \in Nat, NEW t \in 1..n, NEW s, NEW m, NEW z, Inserted(z, s, n, t, m),
         Distinct(s, n), \A i \in 1..n : s[i] # m
  PROVE  Distinct(z, n + 1)
<1>1. /\ \A i \in 1..t : z[i] = s[i]
      /\ z[t + 1] = m
      /\ \A i \in (t + 1)..n : z[i + 1] = s[i]
      /\ \A i \in 1..(n + 1) : i \in 1..t \/ i = t + 1 \/ \E k \in (t + 1)..n : i = k + 1
  BY DEF Inserted
<1> SUFFICES ASSUME NEW i \in 1..(n + 1), NEW j \in 1..(n + 1), z[i] = z[j] PROVE i = j
  BY DEF Distinct
<1>2. ASSUME NEW k \in 1..(n + 1)
      PROVE  \/ k \in 1..t /\ k \in 1..n /\ z[k] = s[k]
             \/ k = t + 1 /\ z[k] = m
             \/ \E l \in (t + 1)..n : k = l + 1 /\ l \in 1..n /\ l \notin 1..t /\ z[k] = s[l]
  <2>1. /\ \A l \in 1..t : l \in 1..n
        /\ \A l \in (t + 1)..n : l \in 1..n /\ l \notin 1..t
    OBVIOUS
  <2> QED
    BY <1>1, <2>1
<1>3. \A k, l \in 1..n : s[k] = s[l] => k = l
  BY DEF Distinct
<1>4. \A k \in 1..t : k \in 1..n
  OBVIOUS
<1> QED
  BY <1>2, <1>3, <1>4

\* The new block is put into the ring.
LEMMA LinkAlive ==
  ASSUME QTypeOK, NEW s \in Seq(DOMAIN blocks), NEW t \in Nat,
         NEW base \in [DOMAIN blocks -> Nat], AliveOK(s, t, base), Link
  PROVE  BlocksOK' /\ Alive' /\ UNCHANGED <<out, c>>
<1>0. /\ RingOK(s, t) /\ FillOK(s, t) /\ BaseOK(s, t, base) /\ SlotsOK(base)
      /\ ProducerOK(base) /\ ConsumerOK /\ SemOK
      /\ tailBlock \in DOMAIN blocks /\ frontBlock \in DOMAIN blocks
      /\ t \in 1..Len(s) /\ s[t] = tailBlock /\ s[1] = frontBlock /\ Len(s) \in Nat
      /\ \A i \in 1..Len(s) : s[i] \in DOMAIN blocks
      /\ p \in [at : ProducerPoints, canAlloc : BOOLEAN, sent : Nat, seen : Nat, left : Nat]
      /\ BlockOK(blocks[tailBlock])
  BY Ends DEF AliveOK, QTypeOK
<1> DEFINE B == blocks[tailBlock]
<1>1. /\ p.at = "link" /\ p' = [p EXCEPT !.at = "advance"]
      /\ UNCHANGED <<prog, frontBlock, tailBlock, c, out>>
      /\ blocks' = [blocks EXCEPT ![tailBlock] = [B EXCEPT !.next = Len(blocks)]]
  BY Zenon DEF Link, PGoto
<1>2. PICK m \in Nat : m = Len(blocks)
  BY DEF QTypeOK
<1>3. m \in DOMAIN blocks
  <2>1. DOMAIN blocks = 1..m
    BY <1>2 DEF QTypeOK
  <2> QED
    BY <1>0, <1>2, <2>1
<1>4. /\ Used(blocks[m]) = 1 /\ blocks[m].next = B.next /\ base[m] = Element
  BY <1>0, <1>1, <1>2 DEF ProducerOK
<1>5. PICK n \in Nat : n = Len(s)
  BY <1>0
<1>6. /\ \A i \in 1..n : s[i] \in DOMAIN blocks /\ s[i] # m
      /\ t \in 1..n /\ m # tailBlock /\ m # frontBlock
  <2>1. \A i \in 1..n : s[i] \in DOMAIN blocks /\ s[i] # m
    BY <1>0, <1>1, <1>2, <1>3, <1>5 DEF RingOK
  <2>2. t \in 1..n /\ 1 \in 1..n
    BY <1>0, <1>5
  <2> QED
    BY <1>0, <2>1, <2>2
<1>7. PICK D : D = [B EXCEPT !.next = m]
  OBVIOUS
<1>8. /\ BlockOK(D) /\ Used(D) = Used(B) /\ D.size = B.size /\ D.front = B.front
      /\ D.tail = B.tail /\ D.localTail = B.localTail /\ D.data = B.data /\ D.next = m
  <2>1. B \in BlockOf(B.size) /\ BlockOK(B)
    BY <1>0, BlockFacts
  <2> HIDE DEF B
  <2>2. /\ D \in BlockOf(B.size) /\ D.size = B.size /\ D.front = B.front
        /\ D.tail = B.tail /\ D.localTail = B.localTail /\ D.localFront = B.localFront
        /\ D.data = B.data /\ D.next = m
    BY <1>7, <2>1 DEF BlockOf
  <2>3. Used(D) = Used(B)
    BY <2>2 DEF Used
  <2>4. BlockOK(D)
    BY <2>1, <2>2, <2>3 DEF BlockOK
  <2> QED
    BY <2>2, <2>3, <2>4
<1>9. /\ blocks' \in Seq(AnyBlock) /\ Len(blocks') = Len(blocks)
      /\ DOMAIN blocks' = DOMAIN blocks /\ blocks'[tailBlock] = D
      /\ \A x \in DOMAIN blocks : x # tailBlock => blocks'[x] = blocks[x]
      /\ \A x \in DOMAIN blocks' : BlockOK(blocks'[x])
  <2>1. blocks' = [blocks EXCEPT ![tailBlock] = D]
    BY Zenon, <1>1, <1>2, <1>7
  <2> QED
    BY <1>0, <1>8, <2>1, OneBlock
<1>10. \A x \in DOMAIN blocks :
         /\ blocks'[x].front = blocks[x].front /\ blocks'[x].tail = blocks[x].tail
         /\ blocks'[x].size = blocks[x].size /\ blocks'[x].localTail = blocks[x].localTail
         /\ blocks'[x].data = blocks[x].data /\ Used(blocks'[x]) = Used(blocks[x])
         /\ blocks'[x].next = IF x = tailBlock THEN m ELSE blocks[x].next
  <2> TAKE x \in DOMAIN blocks
  <2>1. CASE x = tailBlock
    BY <1>8, <1>9, <2>1
  <2>2. CASE x # tailBlock
    BY <1>9, <2>2
  <2> QED
    BY <2>1, <2>2
<1>11. p'.at = "advance" /\ p'.sent = p.sent /\ Element' = Element
  BY <1>0, <1>1 DEF Element
<1>12. PICK z : z = Insert(s, n, t, m)
  OBVIOUS
<1>13. /\ \A i \in 1..t : i \in 1..(n + 1) /\ i # n + 1 /\ z[i] = s[i]
       /\ t + 1 \in 1..(n + 1) /\ z[t + 1] = m
       /\ \A i \in (t + 1)..n : i + 1 \in 1..(n + 1) /\ i \in 1..n /\ z[i + 1] = s[i]
       /\ \A i \in 1..(n + 1) : i \in 1..t \/ i = t + 1 \/ \E k \in (t + 1)..n : i = k + 1
  <2>1. Inserted(z, s, n, t, m)
    BY <1>6, <1>12, InsertFacts
  <2> QED
    BY <2>1 DEF Inserted
<1>14. /\ \A i \in 1..t : i \in 1..n
       /\ \A i \in 1..(n + 1) : z[i] \in DOMAIN blocks
       /\ z \in Seq(DOMAIN blocks) /\ Len(z) = n + 1
  <2>1. \A i \in 1..t : i \in 1..n
    BY <1>6
  <2>2. ASSUME NEW i \in 1..(n + 1) PROVE z[i] \in DOMAIN blocks
    <3>1. CASE i \in 1..t
      BY <1>6, <1>13, <2>1, <3>1
    <3>2. CASE i = t + 1
      BY <1>3, <1>13, <3>2
    <3>3. CASE \E k \in (t + 1)..n : i = k + 1
      BY <1>6, <1>13, <3>3
    <3> QED
      BY <1>13, <3>1, <3>2, <3>3
  <2>3. z = [i \in 1..(n + 1) |-> z[i]]
    BY <1>12 DEF Insert
  <2>4. z \in [1..(n + 1) -> DOMAIN blocks]
    BY <2>2, <2>3
  <2> QED
    BY <2>1, <2>2, <2>4
<1>15. RingOK(z, t)'
  <2>1. \A i, j \in 1..(n + 1) : z[i] = z[j] => i = j
    <3>1. Distinct(s, n)
      BY <1>0, <1>5 DEF RingOK, Distinct
    <3>2. Inserted(z, s, n, t, m)
      BY <1>6, <1>12, InsertFacts
    <3>3. Distinct(z, n + 1)
      BY <1>6, <3>1, <3>2, InsertDistinct
    <3> QED
      BY <3>3 DEF Distinct
  <2>2. ASSUME NEW i \in 1..(n + 1)
        PROVE  blocks'[z[i]].next = z[IF i = n + 1 THEN 1 ELSE i + 1]
    <3>0. \A k \in 1..n : /\ blocks[s[k]].next = s[IF k = n THEN 1 ELSE k + 1]
                          /\ k # t => s[k] # tailBlock
      BY <1>0, <1>5 DEF RingOK
    <3>1. CASE i \in 1..t /\ i # t
      <4>1. i \in 1..n /\ i # n /\ i + 1 \in 1..t /\ i # n + 1
        BY <1>6, <3>1
      <4>2. s[i] \in DOMAIN blocks /\ s[i] # tailBlock /\ blocks[s[i]].next = s[i + 1]
        BY <1>6, <3>0, <3>1, <4>1
      <4>3. blocks'[s[i]].next = s[i + 1]
        BY <1>10, <4>2
      <4>4. z[i] = s[i] /\ z[i + 1] = s[i + 1]
        BY <1>13, <3>1, <4>1
      <4> QED
        BY <4>1, <4>3, <4>4
    <3>2. CASE i = t
      <4>1. i # n + 1 /\ i \in 1..t
        BY <1>6, <3>2
      <4> QED
        BY <1>0, <1>10, <1>13, <3>2, <4>1
    <3>3. CASE i = t + 1
      <4>1. blocks'[z[i]].next = s[IF t = n THEN 1 ELSE t + 1]
        <5>1. blocks'[m].next = B.next
          BY <1>3, <1>4, <1>6, <1>10
        <5>2. B.next = s[IF t = n THEN 1 ELSE t + 1]
          BY <1>0, <1>6, <3>0
        <5> QED
          BY <1>13, <3>3, <5>1, <5>2
      <4>2. CASE t = n
        <5>1. i = n + 1 /\ 1 \in 1..t
          BY <1>6, <3>3, <4>2
        <5> QED
          BY <1>13, <4>1, <4>2, <5>1
      <4>3. CASE t # n
        <5>1. i # n + 1 /\ t + 1 \in (t + 1)..n
          BY <1>6, <3>3, <4>3
        <5> QED
          BY <1>13, <3>3, <4>1, <4>3, <5>1
      <4> QED
        BY <4>2, <4>3
    <3>4. CASE \E k \in (t + 1)..n : i = k + 1
      <4>1. PICK k \in (t + 1)..n : i = k + 1
        BY <3>4
      <4>2. k \in 1..n /\ k # t /\ 1 \in 1..t
        BY <1>6
      <4>3. blocks'[z[i]].next = s[IF k = n THEN 1 ELSE k + 1]
        <5>1. s[k] \in DOMAIN blocks /\ s[k] # tailBlock
              /\ blocks[s[k]].next = s[IF k = n THEN 1 ELSE k + 1]
          BY <1>6, <3>0, <4>2
        <5>2. z[i] = s[k]
          BY <1>13, <4>1
        <5> QED
          BY <1>10, <5>1, <5>2
      <4>4. CASE k = n
        <5>1. i = n + 1
          BY <4>1, <4>4
        <5> QED
          BY <1>13, <4>2, <4>3, <4>4, <5>1
      <4>5. CASE k # n
        <5>1. i # n + 1 /\ k + 1 \in (t + 1)..n
          BY <4>1, <4>5
        <5> QED
          BY <1>13, <4>1, <4>3, <4>5, <5>1
      <4> QED
        BY <4>4, <4>5
    <3> QED
      BY <1>13, <3>1, <3>2, <3>3, <3>4
  <2>3. ASSUME NEW b \in DOMAIN blocks PROVE \E i \in 1..(n + 1) : z[i] = b
    <3>1. CASE b = m
      BY <1>13, <3>1
    <3>2. CASE b # m
      <4>1. PICK i \in 1..n : s[i] = b
        BY <1>0, <1>2, <1>5, <3>2 DEF RingOK
      <4>2. i \in 1..t \/ i \in (t + 1)..n
        BY <1>6
      <4> QED
        BY <1>13, <4>1, <4>2
    <3> QED
      BY <3>1, <3>2
  <2>4. t \in 1..(n + 1) /\ z[1] = frontBlock /\ z[t] = tailBlock
    <3>1. 1 \in 1..t /\ t \in 1..t
      BY <1>6
    <3> QED
      BY <1>0, <1>13, <3>1
  <2> QED
    BY <1>1, <1>9, <1>11, <1>14, <2>1, <2>2, <2>3, <2>4 DEF RingOK
<1>16. FillOK(z, t)'
  <2>1. ASSUME NEW i \in 2..t PROVE Used(blocks'[z[i]]) > 0
    <3>1. i \in 1..t
      OBVIOUS
    <3>2. z[i] = s[i] /\ s[i] \in DOMAIN blocks
      BY <1>6, <1>13, <1>14, <3>1
    <3>3. Used(blocks[s[i]]) > 0
      BY <1>0 DEF FillOK
    <3> QED
      BY <1>10, <3>2, <3>3
  <2>2. ASSUME NEW i \in (t + 1)..(n + 1)
        PROVE  Used(blocks'[z[i]]) = IF i = t + 1 THEN 1 ELSE 0
    <3>1. CASE i = t + 1
      BY <1>3, <1>4, <1>10, <1>13, <3>1
    <3>2. CASE i # t + 1
      <4>1. i \in 1..(n + 1) /\ i \notin 1..t
        BY <1>6
      <4>2. PICK k \in (t + 1)..n : i = k + 1
        BY <1>13, <3>2, <4>1
      <4>3. Used(blocks[s[k]]) = 0
        BY <1>0, <1>1, <1>5 DEF FillOK
      <4> QED
        BY <1>6, <1>10, <1>13, <3>2, <4>2, <4>3
    <3> QED
      BY <3>1, <3>2
  <2>3. t < n + 1
    BY <1>6
  <2> QED
    BY <1>11, <1>14, <2>1, <2>2, <2>3 DEF FillOK
<1>17. BaseOK(z, t, base)'
  <2>1. \A i \in 1..t : z[i] = s[i] /\ Used(blocks'[s[i]]) = Used(blocks[s[i]])
    BY <1>6, <1>10, <1>13, <1>14
  <2>2. \A i \in 1..(t - 1) : i \in 1..t /\ i + 1 \in 1..t
    BY <1>6, Indices
  <2>3. \A i \in 1..t : base[z[i]] + Used(blocks'[z[i]]) <= Element
    BY <1>0, <2>1 DEF BaseOK
  <2>4. \A i \in 1..(t - 1) : base[z[i + 1]] = base[z[i]] + Used(blocks'[z[i]])
    <3> TAKE i \in 1..(t - 1)
    <3>1. z[i] = s[i] /\ z[i + 1] = s[i + 1] /\ Used(blocks'[s[i]]) = Used(blocks[s[i]])
      BY <2>1, <2>2
    <3>2. base[s[i + 1]] = base[s[i]] + Used(blocks[s[i]])
      BY <1>0 DEF BaseOK
    <3> QED
      BY <3>1, <3>2
  <2>5. base[blocks'[tailBlock].next] = Element
    BY <1>0, <1>4, <1>10
  <2>6. base[frontBlock] = Len(out) + (IF c.at = "front" THEN 0 ELSE 1)
    BY <1>0 DEF BaseOK
  <2>7. base[tailBlock] + Used(blocks'[tailBlock]) = Element
    BY <1>0, <1>10 DEF BaseOK
  <2>8. base \in [DOMAIN blocks' -> Nat] /\ UNCHANGED <<frontBlock, tailBlock, out, c>>
    BY <1>1, <1>9
  <2> QED
    BY <1>11, <2>3, <2>4, <2>5, <2>6, <2>7, <2>8 DEF BaseOK
<1>18. SlotsOK(base)'
  <2> SUFFICES ASSUME NEW b \in DOMAIN blocks, NEW i \in 0..(blocks[b].size - 1)
               PROVE  blocks[b].data[i] = SlotIs(b, i, base)'
    BY <1>9, <1>10 DEF SlotsOK
  <2>1. ~HasWritten(b, i)' /\ ~HasWritten(b, i)
    BY <1>1, <1>11 DEF HasWritten
  <2>2. HasRead(b, i)' <=> HasRead(b, i)
    BY <1>1, <1>10 DEF HasRead
  <2>3. SlotIs(b, i, base)' = SlotIs(b, i, base)
    BY <1>10, <2>1, <2>2 DEF SlotIs
  <2> QED
    BY <1>0, <2>3 DEF SlotsOK
<1>19. SemOK'
  BY <1>0, SemStep DEF ProducerStep
<1>20. ConsumerOK'
  <2>1. p'.sent \in Nat /\ p'.sent >= p.sent
    BY <1>0, <1>11
  <2> QED
    BY <1>0, <1>1, <1>10, <2>1, ConsumerKept
<1>21. ProducerOK(base)'
  BY <1>11 DEF ProducerOK
<1>22. AliveOK(z, t, base)'
  BY <1>15, <1>16, <1>17, <1>18, <1>19, <1>20, <1>21 DEF AliveOK
<1>23. z \in Seq(DOMAIN blocks') /\ base \in [DOMAIN blocks' -> Nat]
  BY <1>9, <1>14
<1> QED
  BY <1>1, <1>9, <1>22, <1>23 DEF Alive, BlocksOK

\* The tail moves to the next block, which holds the new element.
LEMMA AdvanceAlive ==
  ASSUME QTypeOK, NEW s \in Seq(DOMAIN blocks), NEW t \in Nat,
         NEW base \in [DOMAIN blocks -> Nat], AliveOK(s, t, base), Advance
  PROVE  BlocksOK' /\ Alive' /\ UNCHANGED <<out, c>>
<1>0. /\ RingOK(s, t) /\ FillOK(s, t) /\ BaseOK(s, t, base) /\ SlotsOK(base)
      /\ ProducerOK(base) /\ ConsumerOK /\ SemOK
      /\ tailBlock \in DOMAIN blocks /\ frontBlock \in DOMAIN blocks
      /\ t \in 1..Len(s) /\ s[t] = tailBlock /\ s[1] = frontBlock /\ Len(s) \in Nat
      /\ \A i \in 1..Len(s) : s[i] \in DOMAIN blocks
      /\ p \in [at : ProducerPoints, canAlloc : BOOLEAN, sent : Nat, seen : Nat, left : Nat]
  BY Ends DEF AliveOK, QTypeOK
<1>1. p.at = "advance" /\ t < Len(s)
  BY <1>0 DEF Advance, FillOK
<1>2. /\ t + 1 \in 1..Len(s) /\ blocks[tailBlock].next = s[t + 1]
      /\ s[t + 1] \in DOMAIN blocks
      /\ s[t + 1] # frontBlock /\ s[t + 1] # tailBlock
  BY <1>0, <1>1, BlockAhead
<1>3. /\ tailBlock' = s[t + 1] /\ UNCHANGED <<blocks, prog, frontBlock, c, out>>
      /\ p'.sent = p.sent + 1 /\ p'.at \in {"signal", "ready"} /\ p.sent \in Nat
  BY <1>0, <1>2 DEF Advance, Published
<1>4. PICK e \in Nat : e = Element /\ Element' = e + 1
  BY <1>3 DEF Element
<1>5. Used(blocks[s[t + 1]]) = 1 /\ base[s[t + 1]] = e
  <2>1. t + 1 \in (t + 1)..Len(s)
    BY <1>0, <1>1
  <2>2. Used(blocks[s[t + 1]]) = 1
    BY <1>0, <1>1, <2>1 DEF FillOK
  <2>3. base[s[t + 1]] = e
    BY <1>0, <1>1, <1>2, <1>4 DEF BaseOK
  <2> QED
    BY <2>2, <2>3
<1>6. RingOK(s, t + 1)'
  BY <1>0, <1>1, <1>2, <1>3 DEF RingOK
<1>7. FillOK(s, t + 1)'
  <2>1. ASSUME NEW i \in 2..(t + 1) PROVE Used(blocks[s[i]]) > 0
    <3>1. CASE i = t + 1
      BY <1>5, <3>1
    <3>2. CASE i # t + 1
      <4>1. i \in 2..t
        BY <1>0, <3>2
      <4> QED
        BY <1>0, <4>1 DEF FillOK
    <3> QED
      BY <3>1, <3>2
  <2>2. ASSUME NEW i \in ((t + 1) + 1)..Len(s) PROVE Used(blocks[s[i]]) = 0
    <3>1. i \in (t + 1)..Len(s) /\ i # t + 1
      <4>1. \A k \in Nat, l \in Nat : \A j \in ((k + 1) + 1)..l : j \in (k + 1)..l /\ j # k + 1
        OBVIOUS
      <4> QED
        BY <1>0, <4>1
    <3> QED
      BY <1>0, <3>1 DEF FillOK
  <2>3. p'.at # "advance" /\ p'.at # "reuse"
    BY <1>3
  <2> QED
    BY <1>3, <2>1, <2>2, <2>3 DEF FillOK
<1>8. BaseOK(s, t + 1, base)'
  <2>1. base[s[t + 1]] + Used(blocks[s[t + 1]]) = e + 1
    BY <1>5
  <2>2. ASSUME NEW i \in 1..(t + 1) PROVE base[s[i]] + Used(blocks[s[i]]) <= e + 1
    <3>1. CASE i = t + 1
      BY <1>4, <2>1, <3>1
    <3>2. CASE i # t + 1
      <4>1. i \in 1..t /\ i \in 1..Len(s)
        BY <1>0, <3>2
      <4>2. PICK a \in Nat, u \in Nat : a = base[s[i]] /\ u = Used(blocks[s[i]])
        BY <1>0, <4>1, UsedNat
      <4>3. a + u <= e
        BY <1>0, <1>4, <4>1, <4>2 DEF BaseOK
      <4>4. a + u <= e + 1
        BY <4>3
      <4> QED
        BY <4>2, <4>4
    <3> QED
      BY <3>1, <3>2
  <2>3. ASSUME NEW i \in 1..((t + 1) - 1)
        PROVE  base[s[i + 1]] = base[s[i]] + Used(blocks[s[i]])
    <3>1. CASE i = t
      BY <1>0, <1>4, <1>5, <3>1 DEF BaseOK
    <3>2. CASE i # t
      <4>1. i \in 1..(t - 1)
        BY <1>0, <3>2
      <4> QED
        BY <1>0, <4>1 DEF BaseOK
    <3> QED
      BY <3>1, <3>2
  <2>4. base[frontBlock] = Len(out) + (IF c.at = "front" THEN 0 ELSE 1)
    BY <1>0 DEF BaseOK
  <2>5. p'.at # "advance"
    BY <1>3
  <2> QED
    BY <1>3, <1>4, <2>1, <2>2, <2>3, <2>4, <2>5 DEF BaseOK
<1>9. SlotsOK(base)'
  <2> SUFFICES ASSUME NEW b \in DOMAIN blocks, NEW i \in 0..(blocks[b].size - 1)
               PROVE  blocks[b].data[i] = SlotIs(b, i, base)'
    BY <1>3 DEF SlotsOK
  <2>1. ~HasWritten(b, i)' /\ ~HasWritten(b, i)
    BY <1>1, <1>3 DEF HasWritten
  <2>2. HasRead(b, i)' <=> HasRead(b, i)
    BY <1>3 DEF HasRead
  <2>3. SlotIs(b, i, base)' = SlotIs(b, i, base)
    BY <1>3, <2>1, <2>2 DEF SlotIs
  <2> QED
    BY <1>0, <2>3 DEF SlotsOK
<1>10. SemOK'
  BY <1>0, SemStep DEF ProducerStep
<1>11. ConsumerOK'
  <2>1. p'.sent \in Nat /\ p'.sent >= p.sent
    <3>1. p'.sent = p.sent + 1 /\ p.sent \in Nat
      BY <1>3
    <3>2. \A k \in Nat : k + 1 \in Nat /\ k + 1 >= k
      OBVIOUS
    <3> QED
      BY <3>1, <3>2
  <2>2. frontBlock' # tailBlock'
    BY <1>2, <1>3
  <2> QED
    BY <1>0, <1>3, <2>1, <2>2, ConsumerKept
<1>12. ProducerOK(base)'
  BY <1>3 DEF ProducerOK
<1>13. AliveOK(s, t + 1, base)'
  BY <1>6, <1>7, <1>8, <1>9, <1>10, <1>11, <1>12 DEF AliveOK
<1>14. /\ s \in Seq(DOMAIN blocks') /\ base \in [DOMAIN blocks' -> Nat] /\ t + 1 \in Nat
       /\ BlocksOK'
  BY <1>3 DEF QTypeOK, BlocksOK
<1> QED
  BY <1>3, <1>13, <1>14 DEF Alive

-----------------------------------------------------------------------------
(***************************************************************************)
(* The destructor.                                                         *)
(***************************************************************************)

\* A set of numbers that is not empty has a least one.
LEMMA LeastNumber ==
  ASSUME NEW T \in SUBSET Nat, T # {}
  PROVE  \E x \in T : \A y \in T : ~(y < x)
<1>1. IsWellFoundedOn(OpToRel(<, Nat), Nat)
  BY NatLessThanWellFounded, Zenon
<1>2. PICK x \in T : \A y \in T : ~(<<y, x>> \in OpToRel(<, Nat))
  BY <1>1, WFMin, Zenon
<1>3. OpToRel(<, Nat) = {q \in Nat \X Nat : q[1] < q[2]}
  BY Zenon DEF OpToRel
<1>4. \A y \in T : ~(<<y, x>> \in {q \in Nat \X Nat : q[1] < q[2]})
  BY <1>2, <1>3, Zenon
<1> QED
  BY <1>4

\* From the front block on, every block of the ring is come to.
LEMMA AllVisited ==
  ASSUME QTypeOK, NEW s, NEW t, RingOK(s, t), p.at # "link", NEW b \in DOMAIN blocks
  PROVE  b \in Visited
<1> SUFFICES ASSUME NEW S \in SUBSET DOMAIN blocks, frontBlock \in S,
                    \A x \in S : blocks[x].next \in S
             PROVE  b \in S
  BY DEF Visited
<1>1. PICK n \in Nat : n = Len(s)
  BY Ends
<1>2. /\ s[1] = frontBlock
      /\ \A i \in 1..n : blocks[s[i]].next = s[IF i = n THEN 1 ELSE i + 1]
      /\ \E i \in 1..n : s[i] = b
  BY <1>1 DEF RingOK
<1> SUFFICES ASSUME b \notin S PROVE FALSE
  OBVIOUS
<1>3. PICK T : T = {i \in 1..n : s[i] \notin S}
  OBVIOUS
<1>4. T \in SUBSET Nat /\ T # {}
  BY <1>2, <1>3
<1>5. PICK x \in T : \A y \in T : ~(y < x)
  BY <1>4, LeastNumber
<1>6. x \in 1..n /\ s[x] \notin S /\ x # 1
  BY <1>2, <1>3
<1>7. x - 1 \in 1..n /\ x - 1 # n /\ (x - 1) + 1 = x /\ x - 1 < x
  BY <1>6
<1>8. s[x - 1] \in S
  BY <1>3, <1>5, <1>7
<1>9. blocks[s[x - 1]].next = s[x]
  BY <1>2, <1>7
<1> QED
  BY <1>6, <1>8, <1>9

\* The slots of a block change.
LEMMA BlockSlots ==
  ASSUME NEW B, BlockOK(B), NEW d \in [0..(B.size - 1) -> Nat]
  PROVE  BlockOK([B EXCEPT !.data = d]) /\ [B EXCEPT !.data = d].data = d
<1>1. PICK D : D = [B EXCEPT !.data = d]
  OBVIOUS
<1>2. B \in BlockOf(B.size)
  BY BlockFacts
<1>3. /\ D \in BlockOf(B.size) /\ D.size = B.size /\ D.front = B.front
      /\ D.tail = B.tail /\ D.localTail = B.localTail /\ D.localFront = B.localFront
      /\ D.data = d
  BY <1>1, <1>2 DEF BlockOf
<1>4. Used(D) = Used(B)
  BY <1>3 DEF Used
<1>5. BlockOK(D)
  BY <1>3, <1>4 DEF BlockOK
<1> QED
  BY <1>1, <1>3, <1>5

\* What the destructor makes of the slots of block b.
Cleared(b) ==
  [i \in DOMAIN blocks[b].data |->
     IF b \in Visited /\ Live(b, i) THEN Empty ELSE blocks[b].data[i]]

\* What Destroy does.
LEMMA DestroyFacts ==
  ASSUME Destroy
  PROVE  /\ p.at = "ready" /\ c.at = "ready"
         /\ p' = [p EXCEPT !.at = "gone"] /\ c' = [c EXCEPT !.at = "gone"]
         /\ UNCHANGED <<prog, frontBlock, tailBlock, largestBlockSize, mallocs, m_count,
                        m_sema, out>>
         /\ blocks' = [b \in DOMAIN blocks |-> [blocks[b] EXCEPT !.data = Cleared(b)]]
<1>1. /\ p.at = "ready" /\ c.at = "ready"
      /\ p' = [p EXCEPT !.at = "gone"] /\ c' = [c EXCEPT !.at = "gone"]
      /\ UNCHANGED <<prog, frontBlock, tailBlock, largestBlockSize, mallocs, m_count,
                     m_sema, out>>
  BY Zenon DEF Destroy, PGoto, CGoto, semaphore
<1>2. blocks' = [b \in DOMAIN blocks |-> [blocks[b] EXCEPT !.data = Cleared(b)]]
  BY Zenon DEF Destroy, Cleared
<1> QED
  BY <1>1, <1>2

\* Nothing is left in a block that the destructor has cleared.
LEMMA NothingLeft ==
  ASSUME QTypeOK, NEW s, NEW t, NEW base, RingOK(s, t), SlotsOK(base),
         p.at = "ready", c.at = "ready", NEW b \in DOMAIN blocks
  PROVE  /\ Cleared(b) \in [0..(blocks[b].size - 1) -> Nat]
         /\ \A i \in 0..(blocks[b].size - 1) : Cleared(b)[i] = Empty
<1> DEFINE B == blocks[b]
<1>1. /\ BlockOK(B) /\ B.data \in [0..(B.size - 1) -> Nat] /\ B.size \in Nat \ {0}
      /\ B.front \in 0..(B.size - 1) /\ B.tail \in 0..(B.size - 1)
  BY BlockFacts DEF QTypeOK
<1>2. b \in Visited
  BY AllVisited
<1>3. ASSUME NEW i \in 0..(B.size - 1) PROVE Cleared(b)[i] = Empty
  <2>1. Cleared(b)[i] = IF Live(b, i) THEN Empty ELSE B.data[i]
    BY <1>1, <1>2 DEF Cleared
  <2>2. Live(b, i) <=> Steps(B.size, B.front, i) < Used(B)
    <3>1. PICK n \in Nat \ {0} : n = B.size
      BY <1>1
    <3>2. PICK f \in 0..(n - 1), l \in 0..(n - 1), j \in 0..(n - 1) :
            f = B.front /\ l = B.tail /\ j = i
      BY <1>1, <3>1
    <3>3. (j - f) % n = Steps(n, f, j) /\ (l - f) % n = Steps(n, f, l)
      BY RingArithmetic
    <3> QED
      BY <3>1, <3>2, <3>3 DEF Live, Used
  <2>3. ~HasRead(b, i) /\ ~HasWritten(b, i)
    BY DEF HasRead, HasWritten
  <2>4. B.data[i] = SlotIs(b, i, base)
    BY DEF SlotsOK
  <2>5. ~Live(b, i) => B.data[i] = Empty
    BY <2>2, <2>3, <2>4 DEF SlotIs
  <2> QED
    BY <2>1, <2>5
<1>4. Cleared(b) \in [0..(B.size - 1) -> Nat]
  <2>1. DOMAIN B.data = 0..(B.size - 1)
    BY <1>1
  <2>2. Cleared(b) = [i \in 0..(B.size - 1) |->
                        IF b \in Visited /\ Live(b, i) THEN Empty ELSE B.data[i]]
    BY <2>1, Zenon DEF Cleared
  <2>3. \A i \in 0..(B.size - 1) :
          (IF b \in Visited /\ Live(b, i) THEN Empty ELSE B.data[i]) \in Nat
    BY <1>1 DEF Empty
  <2> QED
    BY <2>2, <2>3
<1> QED
  BY <1>3, <1>4

\* Nothing leaks.
LEMMA DestroyGone ==
  ASSUME QTypeOK, InOrder, Alive, Destroy
  PROVE  QTypeOK' /\ InOrder' /\ p'.at = "gone" /\ c'.at = "gone" /\ NothingLeaks' /\ out' = out
<1>1. PICK s \in Seq(DOMAIN blocks), t \in Nat, base \in [DOMAIN blocks -> Nat] :
        AliveOK(s, t, base)
  BY DEF Alive
<1>2. RingOK(s, t) /\ SlotsOK(base)
  BY <1>1 DEF AliveOK
<1>3. /\ p.at = "ready" /\ c.at = "ready"
      /\ p' = [p EXCEPT !.at = "gone"] /\ c' = [c EXCEPT !.at = "gone"]
      /\ UNCHANGED <<prog, frontBlock, tailBlock, largestBlockSize, mallocs, m_count,
                     m_sema, out>>
  BY Zenon, DestroyFacts
<1>4. blocks' = [b \in DOMAIN blocks |-> [blocks[b] EXCEPT !.data = Cleared(b)]]
  BY Zenon, DestroyFacts
<1>5. ASSUME NEW b \in DOMAIN blocks
      PROVE  /\ BlockOK(blocks'[b]) /\ DOMAIN blocks'[b].data = 0..(blocks[b].size - 1)
             /\ \A i \in 0..(blocks[b].size - 1) : blocks'[b].data[i] = Empty
             /\ blocks'[b].next = blocks[b].next
  <2>1. PICK d : d = Cleared(b)
    OBVIOUS
  <2>2. /\ d \in [0..(blocks[b].size - 1) -> Nat]
        /\ \A i \in 0..(blocks[b].size - 1) : d[i] = Empty
    BY Zenon, <1>2, <1>3, <2>1, NothingLeft
  <2>3. BlockOK(blocks[b])
    BY DEF QTypeOK
  <2>4. BlockOK([blocks[b] EXCEPT !.data = d]) /\ [blocks[b] EXCEPT !.data = d].data = d
    BY <2>2, <2>3, BlockSlots
  <2>5. blocks'[b] = [blocks[b] EXCEPT !.data = d]
    BY Zenon, <1>4, <2>1
  <2>6. blocks'[b].next = blocks[b].next
    BY <2>3, <2>5, BlockFacts DEF BlockOf
  <2> QED
    BY <2>2, <2>4, <2>5, <2>6
<1>6. DOMAIN blocks' = DOMAIN blocks
  BY <1>4
<1>7. blocks' \in Seq(AnyBlock)
  <2>1. PICK n \in Nat : DOMAIN blocks = 1..n
    BY DEF QTypeOK
  <2>2. \A b \in 1..n : blocks'[b] \in AnyBlock
    BY <1>5, <2>1, BlockFacts
  <2>3. blocks' = [b \in 1..n |-> blocks'[b]]
    BY <1>4, <2>1
  <2>4. blocks' \in [1..n -> AnyBlock]
    BY <2>2, <2>3
  <2> QED
    BY <2>4
<1>8. QTypeOK'
  <2>1. /\ p' \in [at : ProducerPoints, canAlloc : BOOLEAN, sent : Nat, seen : Nat, left : Nat]
        /\ c' \in [at : ConsumerPoints, op : Ops \cup {"none"}, next : Nat, val : Nat,
                   seen : Nat, left : Nat]
    BY <1>3 DEF QTypeOK, ProducerPoints, ConsumerPoints
  <2> QED
    BY <1>3, <1>5, <1>6, <1>7, <2>1 DEF QTypeOK
<1>9. NothingLeaks'
  <2>1. \A b \in DOMAIN blocks : b \in Visited
    BY <1>2, <1>3, AllVisited
  <2>2. \A S \in SUBSET DOMAIN blocks :
          (\A x \in S : blocks'[x].next \in S) <=> (\A x \in S : blocks[x].next \in S)
    BY <1>5
  <2>3. Visited' = DOMAIN blocks'
    BY <1>3, <1>6, <2>1, <2>2 DEF Visited
  <2> QED
    BY <1>5, <1>6, <2>3 DEF NothingLeaks
<1>10. p'.at = "gone" /\ c'.at = "gone"
  BY <1>3 DEF QTypeOK
<1> QED
  BY <1>3, <1>8, <1>9, <1>10 DEF InOrder

-----------------------------------------------------------------------------
(***************************************************************************)
(* The constructor.                                                        *)
(***************************************************************************)

\* The blocks of the constructor: a ring of n of one size.
NewRing(n, size) ==
  [i \in 1..n |-> [MakeBlock(size) EXCEPT !.next = (i % n) + 1]]

\* There is at least one block.
LEMMA SomeBlocks ==
  ASSUME NEW g \in Programs
  PROVE  InitialBlockCount(g) \in Nat \ {0} /\ g.maxBlock \in Nat /\ g.maxBlock >= 2
<1>1. /\ g.maxSize \in Nat /\ g.maxSize >= 1
      /\ g.maxBlock \in {2, 4, 8, 16, 32, 64, 128, 256, 512}
  BY SpscAssumption DEF Program
<1>2. PICK x \in Nat : x = g.maxSize /\ x >= 1
  BY <1>1
<1>3. ASSUME NEW m \in {2, 4, 8, 16, 32, 64, 128, 256, 512}
      PROVE  (x + m * 2 - 3) \div (m - 1) \in Nat \ {0}
  <2>1. /\ (x + 2 * 2 - 3) \div (2 - 1) \in Nat \ {0}
        /\ (x + 4 * 2 - 3) \div (4 - 1) \in Nat \ {0}
        /\ (x + 8 * 2 - 3) \div (8 - 1) \in Nat \ {0}
        /\ (x + 16 * 2 - 3) \div (16 - 1) \in Nat \ {0}
        /\ (x + 32 * 2 - 3) \div (32 - 1) \in Nat \ {0}
        /\ (x + 64 * 2 - 3) \div (64 - 1) \in Nat \ {0}
        /\ (x + 128 * 2 - 3) \div (128 - 1) \in Nat \ {0}
        /\ (x + 256 * 2 - 3) \div (256 - 1) \in Nat \ {0}
        /\ (x + 512 * 2 - 3) \div (512 - 1) \in Nat \ {0}
    BY <1>2
  <2> QED
    BY <2>1
<1> QED
  BY <1>1, <1>2, <1>3 DEF InitialBlockCount

\* What Construct makes.
LEMMA Constructed ==
  ASSUME prog \in Programs, Construct(prog)
  PROVE  \E n \in Nat \ {0}, size \in Nat :
           size >= 2 /\ blocks = NewRing(n, size) /\ largestBlockSize = size
<1>1. PICK wanted : wanted = CeilToPow2(prog.maxSize + 1)
  OBVIOUS
<1>2. PICK n, size :
        /\ n = IF wanted > prog.maxBlock * 2 THEN InitialBlockCount(prog) ELSE 1
        /\ size = IF wanted > prog.maxBlock * 2 THEN prog.maxBlock ELSE wanted
        /\ blocks = NewRing(n, size) /\ largestBlockSize = size
  BY Zenon, <1>1 DEF Construct, NewRing
<1>3. wanted \in Nat /\ wanted >= 2
  <2>1. wanted \in Nat /\ wanted > prog.maxSize
    BY <1>1, CeilAssumption
  <2>2. prog.maxSize \in Nat /\ prog.maxSize >= 1
    BY SpscAssumption DEF Program
  <2> QED
    BY <2>1, <2>2
<1>4. InitialBlockCount(prog) \in Nat \ {0} /\ prog.maxBlock \in Nat /\ prog.maxBlock >= 2
  BY SomeBlocks
<1>5. n \in Nat \ {0} /\ size \in Nat /\ size >= 2
  BY <1>2, <1>3, <1>4
<1> QED
  BY <1>2, <1>5

\* Its blocks are empty.
EmptyRing(r, n, size) ==
  /\ r \in Seq(AnyBlock) /\ Len(r) = n /\ DOMAIN r = 1..n
  /\ \A i \in 1..n :
       /\ BlockOK(r[i]) /\ Used(r[i]) = 0 /\ r[i].size = size
       /\ r[i].next = IF i = n THEN 1 ELSE i + 1
       /\ \A j \in 0..(size - 1) : r[i].data[j] = Empty

LEMMA NewRingFacts ==
  ASSUME NEW n \in Nat \ {0}, NEW size \in Nat, size >= 2, NEW r, r = NewRing(n, size)
  PROVE  EmptyRing(r, n, size)
<1>1. ASSUME NEW i \in 1..n
      PROVE  /\ BlockOK(r[i]) /\ Used(r[i]) = 0 /\ r[i].size = size
             /\ r[i].next = IF i = n THEN 1 ELSE i + 1
             /\ \A j \in 0..(size - 1) : r[i].data[j] = Empty
  <2>1. PICK k : k = (i % n) + 1
    OBVIOUS
  <2>2. k = IF i = n THEN 1 ELSE i + 1
    <3>1. CASE i = n
      <4>1. i % n = 0
        BY <3>1, Remainder
      <4> QED
        BY <2>1, <3>1, <4>1
    <3>2. CASE i # n
      <4>1. i \in 0..(n - 1) /\ i \in Int
        BY <3>2
      <4>2. i % n = i
        BY <4>1, Remainder
      <4> QED
        BY <2>1, <3>2, <4>2
    <3> QED
      BY <3>1, <3>2
  <2>3. PICK d : d = [j \in 0..(size - 1) |-> Empty]
    OBVIOUS
  <2>4. PICK B : B = [MakeBlock(size) EXCEPT !.next = k]
    OBVIOUS
  <2>5. B = [front |-> 0, localTail |-> 0, tail |-> 0, localFront |-> 0, next |-> k,
             size |-> size, data |-> d]
    BY <2>3, <2>4 DEF MakeBlock
  <2>6. /\ B.front = 0 /\ B.localTail = 0 /\ B.tail = 0 /\ B.localFront = 0 /\ B.next = k
        /\ B.size = size /\ B.data = d
    BY <2>5
  <2>7. B \in BlockOf(size)
    <3>1. 0 \in 0..(size - 1) /\ k \in Nat /\ d \in [0..(size - 1) -> Nat]
      BY <2>2, <2>3 DEF Empty
    <3> QED
      BY <2>5, <3>1 DEF BlockOf
  <2>8. Used(B) = 0 /\ BlockOK(B)
    BY <2>6, <2>7 DEF Used, BlockOK, Steps
  <2>9. r[i] = B
    BY Zenon, <2>1, <2>4 DEF NewRing
  <2>10. \A j \in 0..(size - 1) : d[j] = Empty
    BY <2>3
  <2> QED
    BY <2>2, <2>6, <2>8, <2>9, <2>10
<1>2. DOMAIN r = 1..n /\ r = [i \in 1..n |-> r[i]]
  BY DEF NewRing
<1>3. r \in [1..n -> AnyBlock]
  BY <1>1, <1>2, BlockFacts
<1> QED
  BY <1>1, <1>2, <1>3 DEF EmptyRing

\* The invariant holds initially.
LEMMA InitQIInv == Init => QIInv
<1> SUFFICES ASSUME Init PROVE QIInv
  OBVIOUS
<1>1. PICK n \in Nat \ {0}, size \in Nat :
        size >= 2 /\ blocks = NewRing(n, size) /\ largestBlockSize = size
  BY Constructed DEF Init
<1>2. /\ blocks \in Seq(AnyBlock) /\ Len(blocks) = n /\ DOMAIN blocks = 1..n
      /\ \A i \in 1..n :
           /\ BlockOK(blocks[i]) /\ Used(blocks[i]) = 0 /\ blocks[i].size = size
           /\ blocks[i].next = IF i = n THEN 1 ELSE i + 1
           /\ \A j \in 0..(size - 1) : blocks[i].data[j] = Empty
  <2>1. EmptyRing(blocks, n, size)
    BY <1>1, NewRingFacts
  <2> QED
    BY <2>1 DEF EmptyRing
<1>3. /\ prog \in Programs /\ prog.mallocs \in Nat /\ MaxPuts \in Nat /\ MaxTakes \in Nat
  BY SpscAssumption DEF Init, Program
<1>4. /\ p = [at |-> "ready", canAlloc |-> FALSE, sent |-> 0, seen |-> 0, left |-> MaxPuts]
      /\ c = [at |-> "ready", op |-> "none", next |-> 0, val |-> Empty, seen |-> 0,
              left |-> MaxTakes]
      /\ out = <<>> /\ m_count = 0 /\ m_sema = 0 /\ mallocs = prog.mallocs
      /\ frontBlock = 1 /\ tailBlock = 1
  BY DEF Init
<1>5. QTypeOK
  <2>1. p \in [at : ProducerPoints, canAlloc : BOOLEAN, sent : Nat, seen : Nat, left : Nat]
    BY <1>3, <1>4 DEF ProducerPoints
  <2>2. c \in [at : ConsumerPoints, op : Ops \cup {"none"}, next : Nat, val : Nat, seen : Nat,
               left : Nat]
    BY <1>3, <1>4 DEF ConsumerPoints, Empty
  <2> QED
    BY <1>1, <1>2, <1>3, <1>4, <2>1, <2>2 DEF QTypeOK
<1>6. p.at = "ready" /\ c.at = "ready" /\ p.sent = 0 /\ Len(out) = 0 /\ Element = 1
  BY <1>4 DEF Element
<1>7. PICK s : s = [i \in 1..n |-> i]
  OBVIOUS
<1>8. PICK base : base = [i \in 1..n |-> 1]
  OBVIOUS
<1>9. s \in Seq(DOMAIN blocks) /\ Len(s) = n /\ base \in [DOMAIN blocks -> Nat] /\ 1 \in 1..n
  BY <1>2, <1>7, <1>8
<1>10. \A i \in 1..n : s[i] = i /\ base[i] = 1
  BY <1>7, <1>8
<1>11. RingOK(s, 1)
  <2>1. \A i \in 1..n : blocks[s[i]].next = s[IF i = n THEN 1 ELSE i + 1]
    <3> TAKE i \in 1..n
    <3>1. (IF i = n THEN 1 ELSE i + 1) \in 1..n
      BY <1>9
    <3> QED
      BY <1>2, <1>10, <3>1
  <2> QED
    BY <1>2, <1>4, <1>6, <1>9, <1>10, <2>1 DEF RingOK
<1>12. FillOK(s, 1)
  <2>1. \A i \in (1 + 1)..n : i \in 1..n
    OBVIOUS
  <2> QED
    BY <1>2, <1>6, <1>9, <1>10, <2>1 DEF FillOK
<1>13. BaseOK(s, 1, base)
  <2>1. base[1] = 1 /\ Used(blocks[1]) = 0 /\ s[1] = 1
    BY <1>2, <1>9, <1>10
  <2> QED
    BY <1>4, <1>6, <1>9, <2>1 DEF BaseOK
<1>14. SlotsOK(base)
  <2> SUFFICES ASSUME NEW b \in 1..n, NEW i \in 0..(size - 1)
               PROVE  blocks[b].data[i] = SlotIs(b, i, base)
    BY <1>2 DEF SlotsOK
  <2>1. ~HasRead(b, i) /\ ~HasWritten(b, i)
    BY <1>6 DEF HasRead, HasWritten
  <2>2. Steps(size, blocks[b].front, i) \in Nat
    <3>1. blocks[b].front \in 0..(size - 1)
      BY <1>2, BlockFacts
    <3>2. \A f, j \in 0..(size - 1) : Steps(size, f, j) \in Nat
      BY <1>1 DEF Steps
    <3> QED
      BY <3>1, <3>2
  <2> QED
    BY <1>2, <2>1, <2>2 DEF SlotIs
<1>15. ProducerOK(base) /\ ConsumerOK
  BY <1>6 DEF ProducerOK, ConsumerOK, HasUnit
<1>16. SemOK
  BY <1>4, <1>6 DEF SemOK, HasUnit
<1>17. Alive
  BY <1>9, <1>11, <1>12, <1>13, <1>14, <1>15, <1>16 DEF Alive, AliveOK
<1> QED
  BY <1>4, <1>5, <1>6, <1>17 DEF QIInv, InOrder

-----------------------------------------------------------------------------
(***************************************************************************)
(* All steps together.                                                     *)
(***************************************************************************)

\* A step of the producer.
LEMMA ProducerGoesOn ==
  ASSUME QTypeOK, ProducerStep
  PROVE  /\ p.at # "gone" /\ p'.at # "gone"
         /\ p.sent \in Nat /\ (p'.sent = p.sent \/ p'.sent = p.sent + 1)
<1>0. /\ p \in [at : ProducerPoints, canAlloc : BOOLEAN, sent : Nat, seen : Nat, left : Nat]
      /\ p.sent \in Nat
  BY DEF QTypeOK
<1> USE DEF PGoto
<1>1. CASE \E canAlloc \in BOOLEAN : Enqueue(canAlloc)
  <2>1. PICK canAlloc \in BOOLEAN : Enqueue(canAlloc)
    BY <1>1
  <2>2. PICK l \in {"write", "next"} :
          p' = [p EXCEPT !.at = l, !.canAlloc = canAlloc, !.seen = Filled, !.left = @ - 1]
    BY <2>1 DEF Enqueue
  <2>3. p.at = "ready"
    BY <2>1 DEF Enqueue
  <2> QED
    BY <1>0, <2>2, <2>3
<1>2. CASE Write \/ NextBlock \/ Reuse
  BY <1>0, <1>2 DEF Write, NextBlock, Reuse
<1>3. CASE StoreTail \/ Advance
  BY <1>0, <1>3 DEF StoreTail, Advance, Published
<1>4. CASE Alloc \/ AllocFails \/ Link \/ Full
  BY <1>0, <1>4 DEF Alloc, AllocFails, Link, Full
<1>5. CASE Signal \/ Post
  BY <1>0, <1>5 DEF Signal, Post
<1> QED
  BY <1>1, <1>2, <1>3, <1>4, <1>5 DEF ProducerStep

LEMMA ProducerAlive ==
  ASSUME QTypeOK, Alive, ProducerStep
  PROVE  QTypeOK' /\ Alive' /\ UNCHANGED <<out, c>>
<1>1. PICK s \in Seq(DOMAIN blocks), t \in Nat, base \in [DOMAIN blocks -> Nat] :
        AliveOK(s, t, base)
  BY DEF Alive
<1>2. BlocksOK' /\ Alive' /\ UNCHANGED <<out, c>>
  <2>1. CASE \/ \E canAlloc \in BOOLEAN : Enqueue(canAlloc)
             \/ NextBlock \/ AllocFails \/ Full \/ Signal \/ Post
    BY <1>1, <2>1, ProducerQuiet
  <2>2. CASE Write
    BY <1>1, <2>2, WriteAlive
  <2>3. CASE StoreTail
    BY <1>1, <2>3, StoreTailAlive
  <2>4. CASE Reuse
    BY <1>1, <2>4, ReuseAlive
  <2>5. CASE Alloc
    BY <1>1, <2>5, AllocAlive
  <2>6. CASE Link
    BY <1>1, <2>6, LinkAlive
  <2>7. CASE Advance
    BY <1>1, <2>7, AdvanceAlive
  <2> QED
    BY <2>1, <2>2, <2>3, <2>4, <2>5, <2>6, <2>7 DEF ProducerStep
<1>3. RingOK(s, t) /\ BaseOK(s, t, base) /\ ConsumerOK
  BY <1>1 DEF AliveOK
<1>4. QTypeOK'
  BY <1>2, <1>3, ProducerTypes DEF BlocksOK
<1> QED
  BY <1>2, <1>4

\* A step of the consumer.
LEMMA ConsumerGoesOn ==
  ASSUME QTypeOK, ConsumerStep
  PROVE  c.at # "gone" /\ c'.at # "gone"
<1>0. c \in [at : ConsumerPoints, op : Ops \cup {"none"}, next : Nat, val : Nat, seen : Nat,
             left : Nat]
  BY DEF QTypeOK
<1> USE DEF CGoto
<1>1. CASE \E op \in Ops : Call(op) \/ TryWait(op)
  <2>1. PICK op \in Ops : Call(op) \/ TryWait(op)
    BY <1>1
  <2> QED
    BY <1>0, <2>1 DEF Call, TryWait
<1>2. CASE Look
  <2>1. PICK n : n = Len(Contents)
    OBVIOUS
  <2>2. PICK l : l = IF blocks[frontBlock].front # TailSeen THEN "element" ELSE "block"
    OBVIOUS
  <2>3. c' = [c EXCEPT !.at = l, !.seen = n]
    BY Zenon, <1>2, <2>1, <2>2 DEF Look
  <2>4. c.at = "look"
    BY Zenon, <1>2 DEF Look
  <2> QED
    BY <1>0, <2>2, <2>3, <2>4
<1>3. CASE LookAtTailBlock \/ LookAgain
  BY <1>0, <1>3 DEF LookAtTailBlock, LookAgain
<1>4. CASE LookAtNext
  <2>1. PICK v : v = blocks[c.next].data[blocks[c.next].front]
    OBVIOUS
  <2>2. c.at = "next" /\ (c' = [c EXCEPT !.at = "forward"]
                         \/ c' = [c EXCEPT !.at = "peeked", !.val = v])
    BY Zenon, <1>4, <2>1 DEF LookAtNext
  <2> QED
    BY <1>0, <2>2
<1>5. CASE Forward
  BY <1>0, <1>5 DEF Forward
<1>6. CASE ReadElement
  <2>1. PICK v : v = blocks[frontBlock].data[blocks[frontBlock].front]
    OBVIOUS
  <2>2. c.at = "element" /\ (c' = [c EXCEPT !.at = "front"]
                         \/ c' = [c EXCEPT !.at = "peeked", !.val = v])
    BY Zenon, <1>6, <2>1 DEF ReadElement
  <2> QED
    BY <1>0, <2>2
<1>7. CASE StoreFront \/ Return
  BY <1>0, <1>7 DEF StoreFront, Return
<1>8. CASE Wait
  BY <1>0, <1>8 DEF Wait
<1>9. CASE Spin \/ SpinEnd \/ WakeUp
  BY <1>0, <1>9 DEF Spin, SpinEnd, WakeUp
<1> QED
  BY <1>1, <1>2, <1>3, <1>4, <1>5, <1>6, <1>7, <1>8, <1>9 DEF ConsumerStep

LEMMA ConsumerAlive ==
  ASSUME QTypeOK, InOrder, Alive, ConsumerStep
  PROVE  /\ QTypeOK' /\ InOrder' /\ Alive' /\ UNCHANGED p
         /\ out' = out \/ (out' = Append(out, Len(out) + 1) /\ Len(out) + 1 <= p.sent)
<1>1. PICK s \in Seq(DOMAIN blocks), t \in Nat, base \in [DOMAIN blocks -> Nat] :
        AliveOK(s, t, base)
  BY DEF Alive
<1>2. /\ BlocksOK' /\ Alive' /\ UNCHANGED p /\ InOrder'
      /\ out' = out \/ (out' = Append(out, Len(out) + 1) /\ Len(out) + 1 <= p.sent)
  <2>1. CASE ReadElement /\ c.op # "peek"
    BY <1>1, <2>1, ReadAlive
  <2>2. CASE ~(ReadElement /\ c.op # "peek")
    <3>1. BlocksOK' /\ Alive' /\ UNCHANGED <<out, p>>
      <4>1. CASE \/ \E op \in Ops : Call(op) \/ TryWait(op)
                 \/ LookAtTailBlock \/ Return \/ Wait \/ Spin \/ SpinEnd \/ WakeUp
        BY <1>1, <4>1, CallsAlive
      <4>2. CASE Look
        BY <1>1, <4>2, LookAlive
      <4>3. CASE LookAgain \/ LookAtNext
        BY <1>1, <4>3, LooksAlive
      <4>4. CASE Forward
        BY <1>1, <4>4, ForwardAlive
      <4>5. CASE ReadElement
        BY <1>1, <2>2, <4>5, PeekAlive
      <4>6. CASE StoreFront
        BY <1>1, <4>6, StoreFrontAlive
      <4> QED
        BY <4>1, <4>2, <4>3, <4>4, <4>5, <4>6 DEF ConsumerStep
    <3>2. InOrder'
      BY <3>1 DEF InOrder
    <3> QED
      BY <3>1, <3>2
  <2> QED
    BY <2>1, <2>2
<1>3. RingOK(s, t) /\ BaseOK(s, t, base) /\ ConsumerOK
  BY <1>1 DEF AliveOK
<1>4. QTypeOK'
  BY <1>2, <1>3, ConsumerTypes DEF BlocksOK
<1> QED
  BY <1>2, <1>4

\* The invariant is about the state only.
LEMMA QIInvStutters == QIInv /\ UNCHANGED vars => QIInv'
<1> SUFFICES ASSUME QIInv, UNCHANGED vars PROVE QIInv'
  OBVIOUS
<1>0. /\ prog' = prog /\ blocks' = blocks /\ frontBlock' = frontBlock
      /\ tailBlock' = tailBlock /\ largestBlockSize' = largestBlockSize
      /\ mallocs' = mallocs /\ m_count' = m_count /\ m_sema' = m_sema /\ p' = p /\ c' = c
      /\ out' = out
  BY DEF vars
<1>1. QTypeOK' <=> QTypeOK
  BY <1>0 DEF QTypeOK
<1>2. (InOrder' <=> InOrder) /\ (NothingLeaks' <=> NothingLeaks)
  BY <1>0 DEF InOrder, NothingLeaks, Visited
<1>3. ASSUME Alive PROVE Alive'
  <2>1. PICK s \in Seq(DOMAIN blocks), t \in Nat, base \in [DOMAIN blocks -> Nat] :
          AliveOK(s, t, base)
    BY <1>3 DEF Alive
  <2>2. RingOK(s, t)' /\ FillOK(s, t)'
    BY <1>0, <2>1 DEF AliveOK, RingOK, FillOK
  <2>3. BaseOK(s, t, base)'
    BY <1>0, <2>1 DEF AliveOK, BaseOK, Element
  <2>4. SlotsOK(base)'
    BY <1>0, <2>1 DEF AliveOK, SlotsOK, SlotIs, HasRead, HasWritten, Element
  <2>5. ProducerOK(base)'
    BY <1>0, <2>1 DEF AliveOK, ProducerOK, Element
  <2>6. ConsumerOK' /\ SemOK'
    BY <1>0, <2>1 DEF AliveOK, ConsumerOK, SemOK, HasUnit
  <2>7. AliveOK(s, t, base)'
    BY <2>2, <2>3, <2>4, <2>5, <2>6 DEF AliveOK
  <2> QED
    BY <1>0, <2>7 DEF Alive
<1> QED
  BY <1>0, <1>1, <1>2, <1>3 DEF QIInv

\* The invariant is kept.
LEMMA NextQIInv == QIInv /\ [Next]_vars => QIInv'
<1> SUFFICES ASSUME QIInv, [Next]_vars PROVE QIInv'
  OBVIOUS
<1>0. /\ QTypeOK /\ InOrder /\ (p.at = "gone" <=> c.at = "gone")
      /\ p.at = "gone" => NothingLeaks
      /\ p.at # "gone" => Alive
  BY DEF QIInv
<1>1. CASE ProducerStep
  <2>1. /\ p.at # "gone" /\ p'.at # "gone"
    BY <1>0, <1>1, ProducerGoesOn
  <2>2. QTypeOK' /\ Alive' /\ UNCHANGED <<out, c>>
    BY <1>0, <1>1, <2>1, ProducerAlive
  <2> QED
    BY <1>0, <2>1, <2>2 DEF QIInv, InOrder
<1>2. CASE ConsumerStep
  <2>1. c.at # "gone" /\ c'.at # "gone"
    BY <1>0, <1>2, ConsumerGoesOn
  <2>2. QTypeOK' /\ InOrder' /\ Alive' /\ UNCHANGED p
    BY <1>0, <1>2, <2>1, ConsumerAlive
  <2> QED
    BY <1>0, <2>1, <2>2 DEF QIInv
<1>3. CASE Destroy
  <2>1. p.at = "ready"
    BY <1>3 DEF Destroy
  <2>2. QTypeOK' /\ InOrder' /\ p'.at = "gone" /\ c'.at = "gone" /\ NothingLeaks'
    BY <1>0, <1>3, <2>1, DestroyGone
  <2> QED
    BY <2>2 DEF QIInv
<1>4. CASE UNCHANGED vars
  BY <1>4, QIInvStutters
<1> QED
  BY <1>1, <1>2, <1>3, <1>4 DEF Next

\* Whatever the interleaving of the two threads, each block of the queue is where the
\* ring has it and each slot holds what the indices say: ReaderWriterQueue and
\* BlockingReaderWriterQueue of readerwriterqueue.h.
THEOREM QueueInductive == Spec => []QIInv
BY InitQIInv, NextQIInv, PTL DEF Spec

-----------------------------------------------------------------------------
(***************************************************************************)
(* What follows.                                                           *)
(***************************************************************************)

\* The elements from the (a + 1)-th to the b-th.
Run(a, b) == [i \in 1..(b - a) |-> a + i]

\* One more is put in, and one is taken out.
LEMMA RunFacts ==
  ASSUME NEW a \in Nat, NEW b \in Nat, a <= b
  PROVE  /\ Run(a, b) \in Seq(Nat) /\ Len(Run(a, b)) = b - a /\ b - a \in Nat
         /\ Run(a, b + 1) = Append(Run(a, b), a + Len(Run(a, b)) + 1)
         /\ a < b => /\ Run(a, b) # <<>> /\ Head(Run(a, b)) = a + 1
                     /\ Run(a + 1, b) = Tail(Run(a, b))
<1>1. PICK k \in Nat : k = b - a
  OBVIOUS
<1>2. (b + 1) - a = k + 1 /\ b = a + k
  BY <1>1
<1>3. PICK r : r = [i \in 1..k |-> a + i]
  OBVIOUS
<1>4. Run(a, b) = r
  BY <1>1, <1>3 DEF Run
<1>5. r \in Seq(Nat) /\ Len(r) = k /\ \A i \in 1..k : r[i] = a + i
  BY <1>3
<1>6. Run(a, b + 1) = Append(r, a + k + 1)
  <2>1. PICK q : q = [i \in 1..(k + 1) |-> a + i]
    OBVIOUS
  <2>2. q \in Seq(Nat) /\ Len(q) = k + 1 /\ \A i \in 1..(k + 1) : q[i] = a + i
    BY <2>1
  <2>3. PICK z : z = Append(r, a + k + 1)
    OBVIOUS
  <2>4. /\ z \in Seq(Nat) /\ Len(z) = k + 1
        /\ \A i \in 1..(k + 1) : z[i] = IF i = k + 1 THEN a + k + 1 ELSE r[i]
    BY <1>5, <2>3
  <2>5. \A i \in 1..(k + 1) : z[i] = q[i]
    <3> TAKE i \in 1..(k + 1)
    <3>1. CASE i = k + 1
      BY <2>2, <2>4, <3>1
    <3>2. CASE i # k + 1
      <4>1. i \in 1..k
        BY <3>2
      <4> QED
        BY <1>5, <2>2, <2>4, <3>2, <4>1
    <3> QED
      BY <3>1, <3>2
  <2>6. z = q
    BY <2>2, <2>4, <2>5, SeqEqual
  <2>7. Run(a, b + 1) = q
    BY <1>2, <2>1 DEF Run
  <2> QED
    BY <2>3, <2>6, <2>7
<1>7. ASSUME a < b
      PROVE  r # <<>> /\ Head(r) = a + 1 /\ Run(a + 1, b) = Tail(r)
  <2>1. k >= 1 /\ 1 \in 1..k /\ b - (a + 1) = k - 1
    BY <1>1, <1>7
  <2>2. r # <<>> /\ Head(r) = a + 1
    BY <1>5, <2>1
  <2>3. PICK q : q = [i \in 1..(k - 1) |-> (a + 1) + i]
    OBVIOUS
  <2>4. k - 1 \in Nat
    BY <2>1
  <2>5. q \in Seq(Nat) /\ Len(q) = k - 1 /\ \A i \in 1..(k - 1) : q[i] = (a + 1) + i
    BY <2>3, <2>4
  <2>6. PICK z : z = Tail(r)
    OBVIOUS
  <2>7. /\ z \in Seq(Nat) /\ Len(z) = k - 1
        /\ \A i \in 1..(k - 1) : z[i] = r[i + 1]
    BY <1>5, <2>1, <2>2, <2>6
  <2>8. \A i \in 1..(k - 1) : z[i] = q[i]
    <3> TAKE i \in 1..(k - 1)
    <3>1. i + 1 \in 1..k /\ a + (i + 1) = (a + 1) + i
      BY <2>1
    <3> QED
      BY <1>5, <2>5, <2>7, <3>1
  <2>9. z = q
    BY <2>5, <2>7, <2>8, SeqEqual
  <2>10. Run(a + 1, b) = q
    BY <2>1, <2>3 DEF Run
  <2> QED
    BY <2>2, <2>6, <2>9, <2>10
<1> QED
  BY <1>1, <1>4, <1>5, <1>6, <1>7

\* What is in the queue is a run.
LEMMA ContentsRun ==
  ASSUME QTypeOK, Alive
  PROVE  /\ Contents = Run(Len(out), p.sent)
         /\ Len(out) \in Nat /\ p.sent \in Nat /\ Len(out) <= p.sent
<1>1. PICK s \in Seq(DOMAIN blocks), t \in Nat, base \in [DOMAIN blocks -> Nat] :
        AliveOK(s, t, base)
  BY DEF Alive
<1>2. RingOK(s, t) /\ BaseOK(s, t, base) /\ ConsumerOK
  BY <1>1 DEF AliveOK
<1>3. Len(out) \in Nat /\ p.sent \in Nat /\ Len(out) <= p.sent
  BY <1>2, OutOfSent
<1> QED
  BY <1>3 DEF Contents, Run

\* The invariant has what the two sides see in it.
LEMMA QIInvSides == QIInv => SidesInv
<1> SUFFICES ASSUME QIInv PROVE SidesInv
  OBVIOUS
<1>0. /\ QTypeOK /\ InOrder /\ (p.at = "gone" <=> c.at = "gone")
      /\ p.at # "gone" => Alive
  BY DEF QIInv
<1>1. CASE p.at = "gone"
  BY <1>0, <1>1 DEF SidesInv, DequeueFinds, PeekShows, AssertionsHold
<1>2. CASE p.at # "gone"
  <2>1. Alive
    BY <1>0, <1>2
  <2>2. PICK s \in Seq(DOMAIN blocks), t \in Nat, base \in [DOMAIN blocks -> Nat] :
          AliveOK(s, t, base)
    BY <2>1 DEF Alive
  <2>3. /\ RingOK(s, t) /\ FillOK(s, t) /\ BaseOK(s, t, base) /\ SlotsOK(base)
        /\ ConsumerOK /\ SemOK
    BY <2>2 DEF AliveOK
  <2>4. DequeueFinds
    BY <2>3 DEF ConsumerOK, DequeueFinds
  <2>5. PeekShows
    <3> SUFFICES ASSUME c.at = "peeked" PROVE Contents # <<>> /\ c.val = Head(Contents)
      BY DEF PeekShows
    <3>1. c.val = Len(out) + 1 /\ c.val <= p.sent
      BY <2>3 DEF ConsumerOK
    <3>2. /\ Contents = Run(Len(out), p.sent)
          /\ Len(out) \in Nat /\ p.sent \in Nat /\ Len(out) <= p.sent
      BY <1>0, <2>1, ContentsRun
    <3>3. PICK a \in Nat, b \in Nat : a = Len(out) /\ b = p.sent
      BY <3>2
    <3>4. a < b /\ a <= b
      BY <3>1, <3>3
    <3>5. Run(a, b) # <<>> /\ Head(Run(a, b)) = a + 1
      BY <3>4, RunFacts
    <3> QED
      BY <3>1, <3>2, <3>3, <3>5
  <2>6. ASSUME p.at = "reuse"
        PROVE  blocks[blocks[tailBlock].next].front = blocks[blocks[tailBlock].next].tail
    <3>1. t < Len(s)
      BY <2>3, <2>6 DEF FillOK
    <3>2. /\ t + 1 \in 1..Len(s) /\ blocks[tailBlock].next = s[t + 1]
          /\ s[t + 1] \in DOMAIN blocks /\ Len(s) \in Nat /\ t \in Nat
      BY <1>0, <2>3, <3>1, BlockAhead, Ends
    <3>3. t + 1 \in (t + 1)..Len(s)
      BY <3>1, <3>2
    <3>4. Used(blocks[s[t + 1]]) = 0
      BY <2>3, <2>6, <3>3 DEF FillOK
    <3>5. BlockOK(blocks[s[t + 1]])
      BY <1>0, <3>2 DEF QTypeOK
    <3> QED
      BY <3>2, <3>4, <3>5, BlockFacts
  <2>7. ASSUME c.at = "next"
        PROVE  blocks[c.next].front # blocks[c.next].tail
    <3>1. frontBlock # tailBlock /\ c.next = blocks[frontBlock].next
      BY <2>3, <2>7 DEF ConsumerOK
    <3>2. c.next \in DOMAIN blocks /\ Used(blocks[c.next]) > 0
      BY <1>0, <2>2, <2>7, <3>1, NextElement
    <3>3. BlockOK(blocks[c.next])
      BY <1>0, <3>2 DEF QTypeOK
    <3> QED
      BY <3>2, <3>3, BlockFacts
  <2>8. p.at = "signal" => m_count >= -1
    <3>1. m_count \in Int
      BY <1>0 DEF QTypeOK
    <3> QED
      BY <2>3, <3>1 DEF SemOK
  <2>9. AssertionsHold
    BY <2>6, <2>7, <2>8 DEF AssertionsHold
  <2> QED
    BY <1>0, <2>4, <2>5, <2>9 DEF SidesInv
<1> QED
  BY <1>1, <1>2

\* A dequeue that fails first looked when there was nothing, peek shows the next element,
\* what comes out is in order, and the assertions of inner_enqueue, inner_dequeue and
\* the blocking operations hold.
THEOREM SidesAgree == Spec => []SidesInv
BY QueueInductive, QIInvSides, PTL

\* ~ReaderWriterQueue comes to every block and leaves no element in any.
THEOREM QueueLeavesNothing == Spec => []NothingLeaks
<1>1. QIInv => NothingLeaks
  BY DEF QIInv, NothingLeaks
<1> QED
  BY <1>1, QueueInductive, PTL

\* A step of the queue is a step of the abstract one, or none of it.
LEMMA FifoStep == QIInv /\ [Next]_vars => [Fifo!Next]_<<IF p.at = "gone" THEN <<>> ELSE Contents, out, p.at # "gone">>
<1> DEFINE contents == IF p.at = "gone" THEN <<>> ELSE Contents
           alive == p.at # "gone"
<1> SUFFICES ASSUME QIInv, [Next]_vars
             PROVE  Fifo!Next \/ UNCHANGED <<contents, out, alive>>
  OBVIOUS
<1>0. /\ QTypeOK /\ InOrder /\ (p.at = "gone" <=> c.at = "gone")
      /\ p.at # "gone" => Alive
  BY DEF QIInv
<1>1. CASE ProducerStep
  <2>1. /\ p.at # "gone" /\ p'.at # "gone"
        /\ p.sent \in Nat /\ (p'.sent = p.sent \/ p'.sent = p.sent + 1)
    BY <1>0, <1>1, ProducerGoesOn
  <2>2. QTypeOK' /\ Alive' /\ UNCHANGED <<out, c>>
    BY <1>0, <1>1, <2>1, ProducerAlive
  <2>3. /\ Contents = Run(Len(out), p.sent)
        /\ Len(out) \in Nat /\ Len(out) <= p.sent
    BY <1>0, <2>1, ContentsRun
  <2>4. Contents' = Run(Len(out), p'.sent)
    BY <2>2 DEF Contents, Run
  <2>5. CASE p'.sent = p.sent
    BY <2>1, <2>2, <2>3, <2>4, <2>5
  <2>6. CASE p'.sent = p.sent + 1
    <3>1. PICK a \in Nat, b \in Nat : a = Len(out) /\ b = p.sent
      BY <2>1, <2>3
    <3>2. Run(a, b + 1) = Append(Run(a, b), a + Len(Run(a, b)) + 1)
      BY <2>3, <3>1, RunFacts
    <3>3. Contents' = Append(Contents, Len(out) + Len(Contents) + 1)
      BY <2>3, <2>4, <2>6, <3>1, <3>2
    <3>4. Fifo!Put
      BY <2>1, <2>2, <3>3 DEF Fifo!Put
    <3> QED
      BY <3>4 DEF Fifo!Next
  <2> QED
    BY <2>1, <2>5, <2>6
<1>2. CASE ConsumerStep
  <2>1. p.at # "gone" /\ c'.at # "gone"
    BY <1>0, <1>2, ConsumerGoesOn
  <2>2. /\ QTypeOK' /\ Alive' /\ UNCHANGED p
        /\ out' = out \/ (out' = Append(out, Len(out) + 1) /\ Len(out) + 1 <= p.sent)
    BY <1>0, <1>2, <2>1, ConsumerAlive
  <2>3. /\ Contents = Run(Len(out), p.sent)
        /\ Len(out) \in Nat /\ p.sent \in Nat /\ Len(out) <= p.sent
    BY <1>0, <2>1, ContentsRun
  <2>4. CASE out' = out
    <3>1. Contents' = Contents
      BY <2>2, <2>4 DEF Contents
    <3> QED
      BY <2>1, <2>2, <2>4, <3>1
  <2>5. CASE out' = Append(out, Len(out) + 1) /\ Len(out) + 1 <= p.sent
    <3>1. PICK a \in Nat, b \in Nat : a = Len(out) /\ b = p.sent /\ a < b /\ a <= b
      BY <2>3, <2>5
    <3>2. /\ Run(a, b) # <<>> /\ Head(Run(a, b)) = a + 1
          /\ Run(a + 1, b) = Tail(Run(a, b))
      BY <3>1, RunFacts
    <3>3. Len(out') = a + 1
      BY <1>0, <2>5, <3>1 DEF QTypeOK
    <3>4. Contents' = Run(a + 1, b)
      BY <2>2, <3>1, <3>3 DEF Contents, Run
    <3>5. /\ Contents # <<>> /\ Contents' = Tail(Contents)
          /\ out' = Append(out, Head(Contents))
      BY <2>3, <2>5, <3>1, <3>2, <3>4
    <3>6. Fifo!Take
      BY <2>1, <2>2, <3>5 DEF Fifo!Take
    <3> QED
      BY <3>6 DEF Fifo!Next
  <2> QED
    BY <2>2, <2>4, <2>5
<1>3. CASE Destroy
  <2>1. p.at = "ready"
    BY <1>3 DEF Destroy
  <2>2. p'.at = "gone" /\ out' = out
    BY <1>0, <1>3, <2>1, DestroyGone
  <2>3. Fifo!Drop
    BY <2>1, <2>2 DEF Fifo!Drop
  <2> QED
    BY <2>3 DEF Fifo!Next
<1>4. CASE UNCHANGED vars
  BY <1>4 DEF vars, Contents
<1> QED
  BY <1>1, <1>2, <1>3, <1>4 DEF Next

\* The queue is a FIFO queue: each element comes out once, in the order it was put in,
\* although each side goes by an old copy of the other's index and blocks are used again.
THEOREM QueueIsFifo == Spec => IsFifo
<1>1. Init => Fifo!Init
  <2> SUFFICES ASSUME Init PROVE Fifo!Init
    OBVIOUS
  <2>1. p.at = "ready" /\ p.sent = 0 /\ out = <<>> /\ Len(out) = 0
    BY DEF Init
  <2>2. Contents = [i \in 1..(0 - 0) |-> 0 + i]
    BY <2>1 DEF Contents
  <2>3. Contents = <<>>
    BY <2>2
  <2> QED
    BY <2>1, <2>3 DEF Fifo!Init
<1> QED
  BY <1>1, QueueInductive, FifoStep, PTL DEF Spec, IsFifo, Fifo!Spec

=============================================================================
