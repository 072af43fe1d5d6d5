--------------------------- MODULE ProcessProofs ---------------------------
(***************************************************************************)
(* The shared number of tasks is exact and the gate of the workers stays   *)
(* open, for any finite set of processes, any number of processors and any *)
(* number of starts and kills.  In each process pthread_create keeps its   *)
(* promise for as many vthreads as there are slots.                        *)
(***************************************************************************)
EXTENDS TaskNum, Slots, FiniteSetTheorems, TLAPS

\* The processes that are counted are a finite set.
LEMMA CountedFinite == IsFiniteSet(Counted) /\ Cardinality(Counted) \in Nat
<1>1. IsFiniteSet(Counted)
  BY TaskNumAssumption, FS_Subset DEF Counted
<1> QED
  BY <1>1, FS_CardinalityType

\* So are those that will be counted after a step.
LEMMA CountedFiniteNext == IsFiniteSet(Counted') /\ Cardinality(Counted') \in Nat
<1>1. Counted' \subseteq Processes
  BY DEF Counted
<1>2. IsFiniteSet(Counted')
  BY <1>1, TaskNumAssumption, FS_Subset
<1> QED
  BY <1>2, FS_CardinalityType

\* A process that passes from one counted position to another, or from one that
\* is not counted to another, leaves the count as it is.
LEMMA CountedSame ==
  ASSUME TypeOK, NEW p \in Processes, NEW l \in PCs,
         pc' = [pc EXCEPT ![p] = l],
         pc[p] \in {"out", "add"} <=> l \in {"out", "add"}
  PROVE  Counted' = Counted
BY DEF Counted, TypeOK

\* A process that becomes counted adds one to the count.
LEMMA CountedGrows ==
  ASSUME TypeOK, NEW p \in Processes, NEW l \in PCs,
         pc' = [pc EXCEPT ![p] = l],
         pc[p] \in {"out", "add"}, l \notin {"out", "add"}
  PROVE  Cardinality(Counted') = Cardinality(Counted) + 1
<1>1. Counted' = Counted \cup {p} /\ p \notin Counted
  BY DEF Counted, TypeOK
<1> QED
  BY <1>1, CountedFinite, FS_AddElement

\* A counted process that goes takes one from the count, which was not 0.
LEMMA CountedShrinks ==
  ASSUME TypeOK, NEW p \in Processes,
         pc' = [pc EXCEPT ![p] = "out"], p \in Counted
  PROVE  /\ Cardinality(Counted') = Cardinality(Counted) - 1
         /\ Cardinality(Counted) > 0
<1>1. Counted' = Counted \ {p}
  BY DEF Counted, TypeOK
<1>2. Cardinality(Counted') = Cardinality(Counted) - 1
  BY <1>1, CountedFinite, FS_RemoveElement
<1> QED
  BY <1>2, CountedFinite, CountedFiniteNext

\* Whoever is past the increment is counted, so the number is not 0.
LEMMA CountedNotZero ==
  ASSUME TasksCounted, leaked \in Nat, NEW p \in Counted
  PROVE  task_number > 0
<1>1. Cardinality(Counted) # 0
  BY CountedFinite, FS_EmptySet
<1> QED
  BY <1>1, CountedFinite DEF TasksCounted

-----------------------------------------------------------------------------

\* A step of the constructor of tthreads keeps the number exact, and finds it
\* positive when it divides by it.
LEMMA TaskLoad ==
  ASSUME TaskInv, NEW p \in Processes, Load(p)
  PROVE  TaskInv'
<1> USE TaskNumAssumption DEF TaskInv, TypeOK, Go, PCs
<1>1. CASE AddTask(p)
  <2>1. Cardinality(Counted') = Cardinality(Counted) + 1
    BY <1>1, CountedGrows DEF AddTask
  <2> QED
    BY <1>1, <2>1, CountedFinite DEF AddTask, TasksCounted, NoDivisionByZero
<1>2. CASE DivideTask(p)
  <2>1. task_number > 0
    BY <1>2, CountedNotZero DEF DivideTask, Counted
  <2>2. /\ Go(p, "div", "mod")
        /\ allowed' = [allowed EXCEPT ![p] = Quotient(NThreads, task_number)]
        /\ UNCHANGED <<task_number, leaked, seen, core_ids, loads, crashes>>
    BY <1>2, <2>1 DEF DivideTask
  <2>3. Counted' = Counted
    BY <2>2, CountedSame
  <2>4. Quotient(NThreads, task_number) \in Int
    BY <2>1 DEF Quotient
  <2> QED
    BY <2>2, <2>3, <2>4 DEF TasksCounted, NoDivisionByZero
<1>3. CASE RoundTask(p)
  <2>1. task_number > 0
    BY <1>3, CountedNotZero DEF RoundTask, Counted
  <2>2. /\ Go(p, "mod", "pool")
        /\ allowed' = [allowed EXCEPT ![p] =
             IF Remainder(NThreads, task_number) # 0 THEN @ + 1 ELSE @]
        /\ UNCHANGED <<task_number, leaked, seen, core_ids, loads, crashes>>
    BY <1>3, <2>1 DEF RoundTask
  <2>3. Counted' = Counted
    BY <2>2, CountedSame
  <2> QED
    BY <2>2, <2>3 DEF TasksCounted, NoDivisionByZero
<1>4. CASE AddPthreads(p)
  <2>1. Counted' = Counted
    BY <1>4, CountedSame DEF AddPthreads
  <2>2. \A g \in FirstIds : CoreIds(g) \subseteq Int
    BY DEF CoreIds
  <2> QED
    BY <1>4, <2>1, <2>2 DEF AddPthreads, TasksCounted, NoDivisionByZero
<1> QED
  BY <1>1, <1>2, <1>3, <1>4 DEF Load

\* The manager thread only reads the number.
LEMMA TaskManage ==
  ASSUME TaskInv, NEW p \in Processes, Manage(p)
  PROVE  TaskInv'
<1> USE TaskNumAssumption DEF TaskInv, TypeOK, Go, PCs
<1>1. CASE ReadTask(p)
  <2>1. Counted' = Counted
    BY <1>1, CountedSame DEF ReadTask
  <2> QED
    BY <1>1, <2>1 DEF ReadTask, TasksCounted, NoDivisionByZero
<1>2. CASE SetAllowed(p)
  <2>1. Tasks(p) \in Nat \ {0}
    BY DEF Tasks
  <2>2. Quotient(NThreads, Tasks(p)) \in Int
    BY <2>1 DEF Quotient
  <2>3. \E l \in {"run", "round"} : Go(p, "set", l)
    BY <1>2 DEF SetAllowed
  <2>4. Counted' = Counted
    BY <2>3, CountedSame
  <2> QED
    BY <1>2, <2>2, <2>3, <2>4 DEF SetAllowed, TasksCounted, NoDivisionByZero
<1>3. CASE RoundAllowed(p)
  <2>1. Counted' = Counted
    BY <1>3, CountedSame DEF RoundAllowed
  <2> QED
    BY <1>3, <2>1 DEF RoundAllowed, TasksCounted, NoDivisionByZero
<1> QED
  BY <1>1, <1>2, <1>3 DEF Manage

\* Starting, exiting, being killed and clean_shm keep the number exact.
LEMMA TaskLife ==
  ASSUME TaskInv,
         \/ \E p \in Processes : Start(p) \/ Fini(p) \/ Crash(p)
         \/ Clean
  PROVE  TaskInv'
<1> USE TaskNumAssumption DEF TaskInv, TypeOK, Go, PCs
<1>1. CASE \E p \in Processes : Start(p)
  <2>1. PICK p \in Processes : Start(p)
    BY <1>1
  <2>2. Counted' = Counted
    BY <2>1, CountedSame DEF Start
  <2> QED
    BY <2>1, <2>2 DEF Start, TasksCounted, NoDivisionByZero
<1>2. CASE \E p \in Processes : Fini(p)
  <2>1. PICK p \in Processes : Fini(p)
    BY <1>2
  <2>2. p \in Counted
    BY <2>1 DEF Fini, Running, Counted
  <2>3. /\ Cardinality(Counted') = Cardinality(Counted) - 1
        /\ Cardinality(Counted) > 0
    BY <2>1, <2>2, CountedShrinks DEF Fini, Gone
  <2> QED
    BY <2>1, <2>3, CountedFinite DEF Fini, Gone, TasksCounted, NoDivisionByZero
<1>3. CASE \E p \in Processes : Crash(p)
  <2>1. PICK p \in Processes : Crash(p)
    BY <1>3
  <2>2. CASE p \in Counted
    <3>1. /\ Cardinality(Counted') = Cardinality(Counted) - 1
          /\ Cardinality(Counted) > 0
      BY <2>1, <2>2, CountedShrinks DEF Crash, Gone
    <3> QED
      BY <2>1, <2>2, <3>1, CountedFinite
         DEF Crash, Gone, TasksCounted, NoDivisionByZero
  <2>3. CASE p \notin Counted
    <3>1. Counted' = Counted
      BY <2>1, <2>3, CountedSame DEF Crash, Gone, Counted
    <3> QED
      BY <2>1, <2>3, <3>1 DEF Crash, Gone, TasksCounted, NoDivisionByZero
  <2> QED
    BY <2>2, <2>3
<1>4. CASE Clean
  <2>1. Counted' = Counted
    BY <1>4 DEF Clean, Counted
  <2>2. Cleaner \in Counted
    BY <1>4 DEF Clean, Running, Counted
  <2>3. /\ Cardinality(Counted \ {Cleaner}) = Cardinality(Counted) - 1
        /\ Cardinality(Counted \ {Cleaner}) \in Nat
    BY <2>2, CountedFinite, FS_RemoveElement, FS_CardinalityType
  <2> QED
    BY <1>4, <2>1, <2>3, CountedFinite DEF Clean, TasksCounted, NoDivisionByZero
<1> QED
  BY <1>1, <1>2, <1>3, <1>4

\* The shared number counts exactly the processes that use the library and
\* those that were killed since clean_shm last ran, and so nobody who divides
\* by it finds 0.
THEOREM TaskNumberExact == Spec => []TaskInv
<1>1. Init => TaskInv
  <2> SUFFICES ASSUME Init PROVE TaskInv
    OBVIOUS
  <2>1. Counted = {}
    BY DEF Init, Counted
  <2> QED
    BY <2>1, FS_EmptySet, TaskNumAssumption
       DEF Init, TaskInv, TypeOK, TasksCounted, NoDivisionByZero, PCs
<1>2. TaskInv /\ [Next]_vars => TaskInv'
  <2> SUFFICES ASSUME TaskInv, [Next]_vars PROVE TaskInv'
    OBVIOUS
  <2>1. CASE UNCHANGED vars
    BY <2>1 DEF vars, TaskInv, TypeOK, TasksCounted, NoDivisionByZero, Counted
  <2> QED
    BY <2>1, TaskLoad, TaskManage, TaskLife DEF Next
<1> QED
  BY <1>1, <1>2, PTL DEF Spec

-----------------------------------------------------------------------------
(***************************************************************************)
(* The gate.  A pool that has been numbered has a real thread that is      *)
(* numbered 0 or less, whatever core_id held: one thread is enough to let  *)
(* it through.                                                             *)
(***************************************************************************)

\* Before its pool is numbered a process has no numbers, and afterwards one of
\* them is 0 or less.
GateInv ==
  \A p \in Processes :
    /\ ~Running(p) => core_ids[p] = {}
    /\ core_ids[p] # {} => \E i \in core_ids[p] : i <= 0

\* Whatever core_id held, one of NThreads numbers is 0 or less.
LEMMA CoreIdsLow == \A g \in FirstIds : \E i \in CoreIds(g) : i <= 0
<1> SUFFICES ASSUME NEW g \in FirstIds PROVE \E i \in CoreIds(g) : i <= 0
  OBVIOUS
<1>1. g \in Int /\ NThreads \in Nat /\ NThreads >= 2
  BY TaskNumAssumption
<1>2. CASE g >= 0
  <2>1. 0 \in CoreIds(g)
    BY <1>1, <1>2 DEF CoreIds
  <2> QED
    BY <2>1
<1>3. CASE g < 0
  <2>1. g \in CoreIds(g)
    BY <1>1, <1>3 DEF CoreIds
  <2> QED
    BY <1>1, <1>3, <2>1
<1> QED
  BY <1>1, <1>2, <1>3

\* Fewer tasks than processors: the share of each is at least one.
LEMMA QuotientPositive ==
  ASSUME NEW t \in Nat \ {0}, t < NThreads
  PROVE  Quotient(NThreads, t) \in Nat /\ Quotient(NThreads, t) >= 1
<1>1. NThreads \in Nat
  BY TaskNumAssumption
<1> DEFINE q == NThreads \div t
           r == NThreads % t
<1>2. q \in Int /\ r \in 0..(t - 1) /\ NThreads = t * q + r
  BY <1>1
<1>3. CASE q <= 0
  <2>1. t * q <= 0
    BY <1>2, <1>3
  <2> QED
    BY <1>1, <1>2, <2>1
<1> HIDE DEF q, r
<1>4. q >= 1
  BY <1>2, <1>3
<1>5. Quotient(NThreads, t) = q
  BY DEF q, Quotient
<1> QED
  BY <1>2, <1>4, <1>5

\* Every step keeps the numbers of the pools as GateInv says.
LEMMA GateStep ==
  ASSUME TypeOK, GateInv, Next
  PROVE  GateInv'
<1> USE DEF TypeOK, GateInv, Running, Go
<1>1. CASE \E p \in Processes : AddPthreads(p)
  BY <1>1, CoreIdsLow DEF AddPthreads
<1>2. CASE \E p \in Processes : Fini(p) \/ Crash(p)
  BY <1>2 DEF Fini, Crash, Gone
<1>3. CASE \E p \in Processes : Start(p) \/ AddTask(p) \/ DivideTask(p) \/ RoundTask(p)
  BY <1>3 DEF Start, AddTask, DivideTask, RoundTask
<1>4. CASE \E p \in Processes : Manage(p)
  BY <1>4 DEF Manage, ReadTask, SetAllowed, RoundAllowed
<1>5. CASE Clean
  BY <1>5 DEF Clean
<1> QED
  BY <1>1, <1>2, <1>3, <1>4, <1>5 DEF Next, Load

\* A process whose threads pass the gate sets allowed to one or more.
LEMMA GateAction ==
  ASSUME TypeOK, GateInv, Next, NEW p \in Processes,
         Passing(p) # {}, core_ids'[p] # {}
  PROVE  Passing(p)' # {}
<1> USE TaskNumAssumption DEF TypeOK, Go
<1>1. core_ids[p] # {} /\ Running(p)
  BY DEF Passing, GateInv
<1>2. PICK low \in core_ids[p] : low <= 0
  BY <1>1 DEF GateInv
<1>3. CASE SetAllowed(p)
  <2>1. Tasks(p) \in Nat \ {0}
    BY DEF Tasks
  <2>2. core_ids' = core_ids /\ allowed'[p] \in Int /\ allowed'[p] >= 1
    BY <1>3, <2>1, QuotientPositive DEF SetAllowed
  <2>3. low \in Int
    BY <1>2
  <2>4. low \in Passing(p)'
    BY <1>2, <2>2, <2>3 DEF Passing
  <2> QED
    BY <2>4
<1>4. CASE RoundAllowed(p)
  <2>1. core_ids'[p] = core_ids[p] /\ allowed'[p] = allowed[p] + 1
    BY <1>4 DEF RoundAllowed
  <2>2. \A i \in core_ids[p] : i \in Int
    OBVIOUS
  <2> QED
    BY <2>1, <2>2 DEF Passing
<1>5. CASE core_ids'[p] = core_ids[p] /\ allowed'[p] = allowed[p]
  BY <1>5 DEF Passing
<1>6. SetAllowed(p) \/ RoundAllowed(p) \/ (core_ids'[p] = core_ids[p] /\ allowed'[p] = allowed[p])
  <2>1. CASE \E q \in Processes : Load(q)
    BY <1>1, <2>1
       DEF Load, AddTask, DivideTask, RoundTask, AddPthreads, Running
  <2>2. CASE \E q \in Processes : Manage(q)
    BY <2>2 DEF Manage, ReadTask, SetAllowed, RoundAllowed
  <2>3. CASE \E q \in Processes : Start(q) \/ Fini(q) \/ Crash(q)
    BY <2>3 DEF Start, Fini, Crash, Gone
  <2>4. CASE Clean
    BY <2>4 DEF Clean
  <2> QED
    BY <2>1, <2>2, <2>3, <2>4 DEF Next
<1> QED
  BY <1>3, <1>4, <1>5, <1>6

\* With two or more processors, once one of its real threads passes the gate of
\* worker_routine, a process always has one that does, at every step of its manager
\* thread and of all the other processes.
THEOREM GateOpen == Spec => GateStaysOpen
<1>1. Init => GateInv
  BY DEF Init, GateInv
<1>2. TypeOK /\ GateInv /\ [Next]_vars => GateInv'
  BY GateStep DEF vars, GateInv, Running
<1>3. TypeOK /\ GateInv /\ [Next]_vars =>
        [\A p \in Processes :
           Passing(p) # {} /\ core_ids'[p] # {} => Passing(p)' # {}]_vars
  BY GateAction
<1>4. TaskInv => TypeOK
  BY DEF TaskInv
<1> QED
  BY <1>1, <1>2, <1>3, <1>4, TaskNumberExact, PTL DEF Spec, GateStaysOpen

-----------------------------------------------------------------------------
(***************************************************************************)
(* Slots.  What pthread_create promises holds while no slot is used a      *)
(* second time: the stack a context is made on is the one that the         *)
(* previous init of the slot has allocated, and is deleted once another is *)
(* used, so that with reuse it fails (the run slots_reuse).                *)
(***************************************************************************)

\* The program creates no more vthreads than there are slots, vid does not wrap,
\* and vs_queue has room for all the vthreads there are at a time.
Fits ==
  /\ MaxCreates <= MaxVThreads
  /\ FirstVid + MaxCreates <= 2 ^ Width
  /\ MaxAlive <= QueueSize

\* The creations that have taken their value of vid.
Created == FirstVid..(vid - 1)

\* A creation that has begun and has not been put into the queue is its creator's:
\* the slot is not in the queue, and what init has set so far is set.
CreatorOK(t) ==
  cpc[t] # "ready" =>
    /\ number[t] \in Created
    /\ cur_vid[t] = SlotOf(number[t])
    /\ starts[number[t]] = 0
    /\ queue[cur_vid[t]] = 0
    /\ cpc[t] # "init" => start_routine[cur_vid[t]] = number[t]
    /\ cpc[t] \in {"init", "make"} => sp[cur_vid[t]] = cur_vid[t] + 1
    /\ cpc[t] \in {"new", "enq"} => ctx[cur_vid[t]] = cur_vid[t] + 1
    /\ cpc[t] = "enq" => sp[cur_vid[t]] \notin 1..MaxVThreads
    /\ \A u \in Creators \ {t} : cpc[u] # "ready" => number[u] # number[t]

\* A slot in the queue is there once, complete, for a creation that was not
\* started.
SlotOK(s) ==
  /\ queue[s] \in {0, 1}
  /\ queue[s] = 1 =>
       /\ start_routine[s] \in Created
       /\ SlotOf(start_routine[s]) = s
       /\ starts[start_routine[s]] = 0
       /\ ctx[s] = s + 1
       /\ sp[s] \notin 1..MaxVThreads

\* A creation whose routine runs is one worker's.
WorkerOK(w) ==
  wpc[w] # "idle" =>
    /\ runs[w] \in Created
    /\ pvth[w] = SlotOf(runs[w])
    /\ starts[runs[w]] = 1
    /\ runs[w] \notin ended
    /\ stack[w] = pvth[w] + 1
    /\ sp[pvth[w]] \notin 1..MaxVThreads
    /\ \A x \in Workers \ {w} : wpc[x] # "idle" => runs[x] # runs[w]

\* What has not been created was not started, what has ended was; a slot that
\* no creation has taken has its first stack.
CreationOK(n) ==
  /\ starts[n] \in {0, 1}
  /\ n \notin Created => starts[n] = 0 /\ queue[SlotOf(n)] = 0
  /\ n \in ended => starts[n] = 1 /\ n \in Created
  /\ n \notin Created /\ state = "run" => sp[SlotOf(n)] = SlotOf(n) + 1

\* Once the library is loaded the first stacks stay allocated; before, nobody is
\* doing anything.
HeapOK ==
  \/ 1..MaxVThreads \subseteq heap /\ state # "load"
  \/ /\ state # "run"
     /\ \A t \in Creators : cpc[t] = "ready"
     /\ \A w \in Workers : wpc[w] = "idle"
     /\ \A s \in Slot : queue[s] = 0

SlotsIInv ==
  /\ SlotsTypeOK
  /\ \A t \in Creators : CreatorOK(t)
  /\ \A s \in Slot : SlotOK(s)
  /\ \A w \in Workers : WorkerOK(w)
  /\ \A n \in Creation : CreationOK(n)
  /\ HeapOK
  /\ Cardinality(Alive) <= MaxAlive

\* A number is a multiple of the modulus and a remainder.
LEMMA Division ==
  ASSUME NEW m \in Nat, NEW k \in Nat \ {0}
  PROVE  /\ m = k * (m \div k) + (m % k)
         /\ m \div k \in Int /\ m % k \in 0..(k - 1)
<1>1. m = k * (m \div k) + (m % k)
  BY Z3
<1> QED
  BY <1>1

\* A multiple other than zero is at least as far from zero as the modulus.
LEMMA Multiples ==
  ASSUME NEW d \in Int, NEW k \in Nat \ {0}, d # 0
  PROVE  k * d >= k \/ k * d <= -k
<1>1. CASE d >= 1
  <2>1. PICK e \in Nat : d = e + 1
    BY <1>1
  <2>2. k * d = k * e + k /\ k * e \in Nat
    BY <2>1
  <2> QED
    BY <2>2
<1>2. CASE d <= -1
  <2>1. PICK e \in Nat : d = -e - 1
    BY <1>2
  <2>2. k * d = -(k * e) - k /\ k * e \in Nat
    BY <2>1
  <2> QED
    BY <2>2
<1> QED
  BY <1>1, <1>2

\* Numbers that are less than the modulus apart have different remainders.
LEMMA Remainders ==
  ASSUME NEW m \in Nat, NEW n \in Nat, NEW k \in Nat \ {0}, m < n, n < m + k
  PROVE  m % k # n % k
<1> SUFFICES ASSUME m % k = n % k PROVE FALSE
  OBVIOUS
<1>1. PICK q \in Int : m = k * q + (m % k)
  BY Division
<1>2. PICK r \in Int : n = k * r + (n % k)
  BY Division
<1>3. n - m = k * (r - q)
  <2>1. k * (r - q) = k * r - k * q
    OBVIOUS
  <2>2. m % k \in Int
    BY Division
  <2> QED
    BY <1>1, <1>2, <2>1, <2>2
<1>4. r - q # 0
  BY <1>3
<1> QED
  BY <1>3, <1>4, Multiples

\* Each creation has a slot of its own.
LEMMA SlotFacts ==
  ASSUME Fits
  PROVE  /\ \A n \in Creation : SlotOf(n) \in Slot
         /\ \A m, n \in Creation : m # n => SlotOf(m) # SlotOf(n)
<1>0. /\ MaxVThreads \in Nat \ {0} /\ FirstVid \in Nat /\ MaxCreates \in Nat
      /\ Width \in Nat /\ 2 ^ Width \in Int
  BY SlotsAssumption
<1>1. \A n \in Creation : n \in Nat /\ SlotOf(n) = n % MaxVThreads
  <2> SUFFICES ASSUME NEW n \in Creation PROVE n \in Nat /\ SlotOf(n) = n % MaxVThreads
    OBVIOUS
  <2>1. n \in Nat /\ n < 2 ^ Width
    BY <1>0 DEF Creation, Fits
  <2>2. n % (2 ^ Width) = n
    BY <1>0, <2>1
  <2> QED
    BY <2>1, <2>2 DEF SlotOf
<1>2. \A n \in Creation : SlotOf(n) \in Slot
  BY <1>0, <1>1, Division DEF Slot
<1>3. \A m, n \in Creation : m < n => n < m + MaxVThreads
  BY <1>0 DEF Creation, Fits
<1>4. \A m, n \in Creation : m < n => SlotOf(m) # SlotOf(n)
  BY <1>0, <1>1, <1>3, Remainders
<1> QED
  BY <1>1, <1>2, <1>4

\* The creations so far are creations, and they are finitely many.
LEMMA CreatedFacts ==
  ASSUME SlotsTypeOK
  PROVE  /\ Created \subseteq Creation
         /\ IsFiniteSet(Created) /\ IsFiniteSet(Alive) /\ Cardinality(Alive) \in Nat
         /\ Alive = Created \ ended
<1>1. vid \in Int /\ vid <= FirstVid + MaxCreates /\ FirstVid \in Nat /\ MaxCreates \in Nat
  BY SlotsAssumption DEF SlotsTypeOK
<1>2. Created \subseteq Creation
  BY <1>1 DEF Created, Creation
<1>3. IsFiniteSet(Created)
  BY <1>1, FS_Interval DEF Created
<1>4. Alive = Created \ ended
  BY DEF Alive, Created
<1>5. IsFiniteSet(Alive)
  BY <1>3, <1>4, FS_Subset
<1> QED
  BY <1>2, <1>3, <1>4, <1>5, FS_CardinalityType

\* Initially nothing has been created.
LEMMA SlotsStart ==
  ASSUME Fits, SlotsInit
  PROVE  SlotsIInv
<1>1. SlotsTypeOK
  BY SlotsAssumption DEF SlotsInit, SlotsTypeOK, Slot
<1>2. Created = {}
  BY SlotsAssumption DEF SlotsInit, Created
<1>3. Alive = {} /\ Cardinality(Alive) = 0
  BY <1>1, <1>2, CreatedFacts, FS_EmptySet
<1>4. \A t \in Creators : CreatorOK(t)
  BY DEF SlotsInit, CreatorOK
<1>5. \A s \in Slot : SlotOK(s)
  BY DEF SlotsInit, SlotOK
<1>6. \A w \in Workers : WorkerOK(w)
  BY DEF SlotsInit, WorkerOK
<1>7. HeapOK
  BY DEF SlotsInit, HeapOK
<1>8. \A n \in Creation : CreationOK(n)
  BY SlotFacts DEF SlotsInit, CreationOK
<1> QED
  BY <1>1, <1>3, <1>4, <1>5, <1>6, <1>7, <1>8, SlotsAssumption DEF SlotsIInv

\* The constructors of the slots.
LEMMA ConstructKeeps ==
  ASSUME Fits, SlotsIInv, Construct
  PROVE  SlotsIInv'
<1>1. /\ state = "load" /\ state' \in {"run", "fault"}
      /\ vid' = vid /\ queue' = queue /\ ctx' = ctx /\ start_routine' = start_routine
      /\ cpc' = cpc /\ number' = number /\ cur_vid' = cur_vid /\ wpc' = wpc /\ pvth' = pvth
      /\ runs' = runs /\ stack' = stack /\ starts' = starts /\ ended' = ended
      /\ \/ state' = "fault" /\ sp' = sp /\ heap' = heap
         \/ sp' = [s \in Slot |-> s + 1] /\ heap' = 1..MaxVThreads
  BY DEF Construct, creatorVars, workerVars
<1>2. SlotsTypeOK
  BY DEF SlotsIInv
<1>3. /\ \A t \in Creators : cpc[t] = "ready"
      /\ \A w \in Workers : wpc[w] = "idle"
      /\ \A n \in Creation : CreationOK(n)
      /\ \A s \in Slot : queue[s] = 0
  BY <1>1 DEF SlotsIInv, HeapOK
<1>4. SlotsTypeOK'
  <2>1. \A s \in Slot : s + 1 \in Blocks
    BY SlotsAssumption DEF Slot, Blocks
  <2>2. 1..MaxVThreads \subseteq Blocks
    BY SlotsAssumption DEF Blocks
  <2>3. sp' \in [Slot -> Blocks \cup {None}] /\ heap' \in SUBSET Blocks
    BY <1>1, <1>2, <2>1, <2>2 DEF SlotsTypeOK
  <2> QED
    BY <1>1, <1>2, <2>3 DEF SlotsTypeOK
<1>5. \A t \in Creators : CreatorOK(t)'
  BY <1>1, <1>3 DEF CreatorOK
<1>6. \A w \in Workers : WorkerOK(w)'
  BY <1>1, <1>3 DEF WorkerOK
<1>7. \A n \in Creation : CreationOK(n)'
  BY <1>1, <1>3, SlotFacts DEF CreationOK, Created
<1>8. \A s \in Slot : SlotOK(s)'
  BY <1>1, <1>3 DEF SlotOK
<1>9. HeapOK' /\ Alive' = Alive
  BY <1>1, <1>3 DEF HeapOK, Alive
<1> QED
  BY <1>4, <1>5, <1>6, <1>7, <1>8, <1>9 DEF SlotsIInv


\* vid is fetched: the slot of the new creation is not in use.
LEMMA FetchVidKeeps ==
  ASSUME Fits, SlotsIInv, NEW t \in Creators, FetchVid(t)
  PROVE  SlotsIInv'
<1>1. /\ state = "run" /\ vid < FirstVid + MaxCreates /\ Cardinality(Alive) < MaxAlive
      /\ cpc[t] = "ready" /\ cpc' = [cpc EXCEPT ![t] = "init"]
      /\ number' = [number EXCEPT ![t] = vid] /\ cur_vid' = [cur_vid EXCEPT ![t] = SlotOf(vid)]
      /\ vid' = vid + 1
      /\ state' = state /\ queue' = queue /\ sp' = sp /\ ctx' = ctx
      /\ start_routine' = start_routine /\ heap' = heap /\ wpc' = wpc /\ pvth' = pvth
      /\ runs' = runs /\ stack' = stack /\ starts' = starts /\ ended' = ended
  BY DEF FetchVid, Creator, workerVars
<1>2. SlotsTypeOK /\ vid \in Nat /\ vid >= FirstVid
  BY SlotsAssumption DEF SlotsIInv, SlotsTypeOK
<1>3. vid \in Creation /\ SlotOf(vid) \in Slot
  BY <1>1, <1>2, SlotsAssumption, SlotFacts DEF Creation
<1>4. Created' = Created \cup {vid} /\ vid \notin Created /\ Created \subseteq Creation
  BY <1>1, <1>2, SlotsAssumption, CreatedFacts DEF Created
<1>5. /\ starts[vid] = 0 /\ queue[SlotOf(vid)] = 0 /\ vid \notin ended
      /\ sp[SlotOf(vid)] = SlotOf(vid) + 1
  BY <1>1, <1>3, <1>4 DEF SlotsIInv, CreationOK
<1>6. SlotsTypeOK'
  <2>1. vid' \in FirstVid..(FirstVid + MaxCreates)
    BY <1>1, <1>2, SlotsAssumption
  <2> QED
    BY <1>1, <1>2, <1>3, <2>1 DEF SlotsTypeOK
<1>7. /\ cpc'[t] = "init" /\ number'[t] = vid /\ cur_vid'[t] = SlotOf(vid)
      /\ \A u \in Creators \ {t} : cpc'[u] = cpc[u] /\ number'[u] = number[u] /\ cur_vid'[u] = cur_vid[u]
  BY <1>1, <1>2 DEF SlotsTypeOK
<1>8. \A u \in Creators : CreatorOK(u)'
  <2>1. \A u \in Creators : CreatorOK(u)
    BY DEF SlotsIInv
  <2>2. \A u \in Creators \ {t} : cpc[u] # "ready" => number[u] # vid
    BY <1>4, <2>1 DEF CreatorOK
  <2>3. CreatorOK(t)'
    BY <1>1, <1>4, <1>5, <1>7, <2>2 DEF CreatorOK
  <2>4. \A u \in Creators \ {t} : CreatorOK(u)'
    BY <1>1, <1>4, <1>7, <2>1, <2>2 DEF CreatorOK
  <2> QED
    BY <2>3, <2>4
<1>9. \A s \in Slot : SlotOK(s)'
  BY <1>1, <1>4 DEF SlotsIInv, SlotOK
<1>10. \A w \in Workers : WorkerOK(w)'
  BY <1>1, <1>4 DEF SlotsIInv, WorkerOK
<1>11. \A n \in Creation : CreationOK(n)'
  BY <1>1, <1>4 DEF SlotsIInv, CreationOK
<1>12. HeapOK'
  BY <1>1 DEF SlotsIInv, HeapOK
<1>13. Cardinality(Alive') <= MaxAlive
  <2>1. Alive = Created \ ended /\ IsFiniteSet(Alive) /\ Cardinality(Alive) \in Nat
    BY <1>2, CreatedFacts
  <2>2. Alive' = Created' \ ended
    BY <1>1 DEF Alive, Created
  <2>3. Alive' = Alive \cup {vid} /\ vid \notin Alive
    BY <1>4, <1>5, <2>1, <2>2
  <2>4. Cardinality(Alive') = Cardinality(Alive) + 1
    BY <2>1, <2>3, FS_AddElement
  <2> QED
    BY <1>1, <2>1, <2>4, SlotsAssumption
<1> QED
  BY <1>6, <1>8, <1>9, <1>10, <1>11, <1>12, <1>13 DEF SlotsIInv

\* The slot that a creator works on is nobody else's.
LEMMA OwnSlot ==
  ASSUME Fits, SlotsIInv, NEW t \in Creators, cpc[t] # "ready"
  PROVE  /\ cur_vid[t] \in Slot /\ number[t] \in Creation /\ queue[cur_vid[t]] = 0
         /\ \A u \in Creators \ {t} : cpc[u] # "ready" => cur_vid[u] # cur_vid[t]
         /\ \A w \in Workers : wpc[w] # "idle" => pvth[w] # cur_vid[t] /\ runs[w] # number[t]
         /\ \A n \in Creation : n \notin Created => SlotOf(n) # cur_vid[t]
         /\ \A s \in Slot : queue[s] = 1 => start_routine[s] # number[t]
<1>1. /\ SlotsTypeOK /\ \A u \in Creators : CreatorOK(u)
      /\ \A w \in Workers : WorkerOK(w)
      /\ \A s \in Slot : SlotOK(s)
  BY DEF SlotsIInv
<1>2. Created \subseteq Creation
  BY <1>1, CreatedFacts
<1>3. /\ number[t] \in Created /\ cur_vid[t] = SlotOf(number[t]) /\ starts[number[t]] = 0
      /\ queue[cur_vid[t]] = 0
  BY <1>1 DEF CreatorOK
<1>4. \A u \in Creators \ {t} : cpc[u] # "ready" => cur_vid[u] # cur_vid[t]
  BY <1>1, <1>2, <1>3, SlotFacts DEF CreatorOK
<1>5. \A w \in Workers : wpc[w] # "idle" => pvth[w] # cur_vid[t] /\ runs[w] # number[t]
  BY <1>1, <1>2, <1>3, SlotFacts DEF WorkerOK
<1>6. \A s \in Slot : queue[s] = 1 => start_routine[s] # number[t]
  BY <1>1, <1>3 DEF SlotOK
<1> QED
  BY <1>2, <1>3, <1>4, <1>5, <1>6, SlotFacts

\* The steps of init that set start_routine and make the context.
LEMMA InitKeeps ==
  ASSUME Fits, SlotsIInv, NEW t \in Creators, InitFields(t) \/ MakeContext(t)
  PROVE  SlotsIInv'
<1> DEFINE d == cur_vid[t]
<1>1. /\ cpc[t] \in {"init", "make"} /\ vid' = vid /\ queue' = queue /\ sp' = sp
      /\ state' = state /\ heap' = heap /\ number' = number /\ cur_vid' = cur_vid
      /\ wpc' = wpc /\ pvth' = pvth /\ runs' = runs /\ stack' = stack /\ starts' = starts
      /\ ended' = ended /\ state = "run"
      /\ \/ /\ cpc[t] = "init" /\ cpc' = [cpc EXCEPT ![t] = "make"]
            /\ start_routine' = [start_routine EXCEPT ![d] = number[t]] /\ ctx' = ctx
         \/ /\ cpc[t] = "make" /\ cpc' = [cpc EXCEPT ![t] = "new"]
            /\ ctx' = [ctx EXCEPT ![d] = sp[d]] /\ start_routine' = start_routine
  BY DEF InitFields, MakeContext, Creator, workerVars
<1>2. /\ SlotsTypeOK /\ \A u \in Creators : CreatorOK(u)
  BY DEF SlotsIInv
<1>3. /\ d \in Slot /\ number[t] \in Creation /\ queue[d] = 0
      /\ \A u \in Creators \ {t} : cpc[u] # "ready" => cur_vid[u] # d
      /\ \A w \in Workers : wpc[w] # "idle" => pvth[w] # d
  BY <1>1, OwnSlot
<1> HIDE DEF d
<1>4. SlotsTypeOK'
  <2>1. sp[d] \in Blocks \cup {None}
    BY <1>2, <1>3 DEF SlotsTypeOK
  <2> QED
    BY <1>1, <1>2, <1>3, <2>1 DEF SlotsTypeOK
<1>5. /\ \A u \in Creators \ {t} : cpc'[u] = cpc[u]
      /\ \A s \in Slot \ {d} : start_routine'[s] = start_routine[s] /\ ctx'[s] = ctx[s]
      /\ \/ cpc[t] = "init" /\ cpc'[t] = "make" /\ start_routine'[d] = number[t]
         \/ /\ cpc[t] = "make" /\ cpc'[t] = "new" /\ ctx'[d] = sp[d]
            /\ start_routine'[d] = start_routine[d]
  BY <1>1, <1>2, <1>3 DEF SlotsTypeOK
<1>6. Created' = Created /\ Alive' = Alive
  BY <1>1 DEF Created, Alive
<1>7. \A u \in Creators : CreatorOK(u)'
  <2>1. CreatorOK(t)'
    BY <1>1, <1>2, <1>5, <1>6 DEF CreatorOK, d
  <2>2. ASSUME NEW u \in Creators \ {t} PROVE CreatorOK(u)'
    <3> SUFFICES ASSUME cpc[u] # "ready" PROVE CreatorOK(u)'
      BY <1>5 DEF CreatorOK
    <3>1. cur_vid[u] \in Slot \ {d}
      BY <1>2, <1>3 DEF SlotsTypeOK
    <3>2. \A v \in Creators \ {u} : cpc'[v] # "ready" => cpc[v] # "ready"
      BY <1>1, <1>5
    <3> QED
      BY <1>1, <1>2, <1>5, <1>6, <3>1, <3>2 DEF CreatorOK
  <2> QED
    BY <2>1, <2>2
<1>8. \A s \in Slot : SlotOK(s)'
  BY <1>1, <1>3, <1>5, <1>6 DEF SlotsIInv, SlotOK
<1>9. \A w \in Workers : WorkerOK(w)'
  BY <1>1, <1>6 DEF SlotsIInv, WorkerOK
<1>10. \A n \in Creation : CreationOK(n)'
  BY <1>1, <1>6 DEF SlotsIInv, CreationOK
<1>11. HeapOK'
  BY <1>1 DEF SlotsIInv, HeapOK
<1> QED
  BY <1>4, <1>6, <1>7, <1>8, <1>9, <1>10, <1>11 DEF SlotsIInv

\* The new stack is none of the first ones.
LEMMA NewStackKeeps ==
  ASSUME Fits, SlotsIInv, NEW t \in Creators, NewStack(t)
  PROVE  SlotsIInv'
<1> DEFINE d == cur_vid[t]
<1>1. PICK b \in Blocks \ heap : heap' = heap \cup {b} /\ sp' = [sp EXCEPT ![d] = b]
  BY DEF NewStack
<1>2. /\ cpc[t] = "new" /\ cpc' = [cpc EXCEPT ![t] = "enq"] /\ vid' = vid /\ queue' = queue
      /\ state = "run" /\ state' = state /\ number' = number /\ cur_vid' = cur_vid
      /\ ctx' = ctx /\ start_routine' = start_routine
      /\ wpc' = wpc /\ pvth' = pvth /\ runs' = runs /\ stack' = stack /\ starts' = starts
      /\ ended' = ended
  BY DEF NewStack, Creator, workerVars
<1>3. /\ SlotsTypeOK /\ \A u \in Creators : CreatorOK(u)
  BY DEF SlotsIInv
<1>4. /\ d \in Slot /\ number[t] \in Creation /\ queue[d] = 0
      /\ \A u \in Creators \ {t} : cpc[u] # "ready" => cur_vid[u] # d
      /\ \A w \in Workers : wpc[w] # "idle" => pvth[w] # d
      /\ \A n \in Creation : n \notin Created => SlotOf(n) # d
  BY <1>2, OwnSlot
<1>5. 1..MaxVThreads \subseteq heap /\ b \notin 1..MaxVThreads
  BY <1>2 DEF SlotsIInv, HeapOK
<1> HIDE DEF d
<1>6. SlotsTypeOK'
  BY <1>1, <1>2, <1>3 DEF SlotsTypeOK
<1>7. /\ cpc'[t] = "enq" /\ \A u \in Creators \ {t} : cpc'[u] = cpc[u]
      /\ sp'[d] = b /\ \A s \in Slot \ {d} : sp'[s] = sp[s]
  BY <1>1, <1>2, <1>3, <1>4 DEF SlotsTypeOK
<1>8. Created' = Created /\ Alive' = Alive
  BY <1>2 DEF Created, Alive
<1>9. \A u \in Creators : CreatorOK(u)'
  <2>1. CreatorOK(t)'
    BY <1>2, <1>3, <1>5, <1>7, <1>8 DEF CreatorOK, d
  <2>2. ASSUME NEW u \in Creators \ {t} PROVE CreatorOK(u)'
    <3> SUFFICES ASSUME cpc[u] # "ready" PROVE CreatorOK(u)'
      BY <1>7 DEF CreatorOK
    <3>1. cur_vid[u] \in Slot \ {d}
      BY <1>3, <1>4 DEF SlotsTypeOK
    <3>2. \A v \in Creators \ {u} : cpc'[v] # "ready" => cpc[v] # "ready"
      BY <1>2, <1>7
    <3> QED
      BY <1>2, <1>3, <1>7, <1>8, <3>1, <3>2 DEF CreatorOK
  <2> QED
    BY <2>1, <2>2
<1>10. \A s \in Slot : SlotOK(s)'
  BY <1>2, <1>4, <1>7, <1>8 DEF SlotsIInv, SlotOK
<1>11. \A w \in Workers : WorkerOK(w)'
  <2>1. \A w \in Workers : WorkerOK(w) /\ pvth[w] \in Slot
    BY <1>3 DEF SlotsIInv, SlotsTypeOK
  <2> QED
    BY <1>2, <1>4, <1>7, <1>8, <2>1 DEF WorkerOK
<1>12. \A n \in Creation : CreationOK(n)'
  <2>1. \A n \in Creation : CreationOK(n) /\ SlotOf(n) \in Slot
    BY SlotFacts DEF SlotsIInv
  <2> QED
    BY <1>2, <1>4, <1>7, <1>8, <2>1 DEF CreationOK
<1>13. HeapOK'
  BY <1>1, <1>2, <1>5 DEF HeapOK
<1> QED
  BY <1>6, <1>8, <1>9, <1>10, <1>11, <1>12, <1>13 DEF SlotsIInv

\* The slot is put into the queue.
LEMMA EnqueueNewKeeps ==
  ASSUME Fits, SlotsIInv, NEW t \in Creators, EnqueueNew(t)
  PROVE  SlotsIInv'
<1> DEFINE d == cur_vid[t]
<1>1. /\ cpc[t] = "enq" /\ cpc' = [cpc EXCEPT ![t] = "ready"] /\ vid' = vid
      /\ queue' = [queue EXCEPT ![d] = @ + 1]
      /\ state = "run" /\ state' = state /\ number' = number /\ cur_vid' = cur_vid
      /\ ctx' = ctx /\ start_routine' = start_routine /\ sp' = sp /\ heap' = heap
      /\ wpc' = wpc /\ pvth' = pvth /\ runs' = runs /\ stack' = stack /\ starts' = starts
      /\ ended' = ended
  BY DEF EnqueueNew, Push, Creator, workerVars
<1>2. /\ SlotsTypeOK /\ \A u \in Creators : CreatorOK(u)
  BY DEF SlotsIInv
<1>3. /\ d \in Slot /\ queue[d] = 0
      /\ \A u \in Creators \ {t} : cpc[u] # "ready" => cur_vid[u] # d
      /\ \A w \in Workers : wpc[w] # "idle" => pvth[w] # d
      /\ \A n \in Creation : n \notin Created => SlotOf(n) # d
  BY <1>1, OwnSlot
<1>4. /\ start_routine[d] \in Created /\ SlotOf(start_routine[d]) = d
      /\ starts[start_routine[d]] = 0 /\ ctx[d] = d + 1 /\ sp[d] \notin 1..MaxVThreads
  BY <1>1, <1>2 DEF CreatorOK
<1> HIDE DEF d
<1>5. SlotsTypeOK'
  BY <1>1, <1>2, <1>3 DEF SlotsTypeOK
<1>6. /\ cpc'[t] = "ready" /\ \A u \in Creators \ {t} : cpc'[u] = cpc[u]
      /\ queue'[d] = 1 /\ \A s \in Slot \ {d} : queue'[s] = queue[s]
  BY <1>1, <1>2, <1>3 DEF SlotsTypeOK
<1>7. Created' = Created /\ Alive' = Alive
  BY <1>1 DEF Created, Alive
<1>8. \A u \in Creators : CreatorOK(u)'
  <2>1. ASSUME NEW u \in Creators, cpc'[u] # "ready" PROVE CreatorOK(u)'
    <3>1. u # t /\ cpc'[u] = cpc[u] /\ cur_vid[u] \in Slot \ {d}
      BY <1>2, <1>3, <1>6, <2>1 DEF SlotsTypeOK
    <3>2. \A v \in Creators \ {u} : cpc'[v] # "ready" => cpc[v] # "ready"
      BY <1>1, <1>6
    <3> QED
      BY <1>1, <1>2, <1>6, <1>7, <2>1, <3>1, <3>2 DEF CreatorOK
  <2> QED
    BY <2>1 DEF CreatorOK
<1>9. \A s \in Slot : SlotOK(s)'
  <2>1. ASSUME NEW s \in Slot, s = d PROVE SlotOK(s)'
    BY <1>1, <1>4, <1>6, <1>7, <2>1 DEF SlotOK
  <2>2. ASSUME NEW s \in Slot, s # d PROVE SlotOK(s)'
    BY <1>1, <1>6, <1>7, <2>2 DEF SlotsIInv, SlotOK
  <2> QED
    BY <2>1, <2>2
<1>10. \A w \in Workers : WorkerOK(w)'
  BY <1>1, <1>7 DEF SlotsIInv, WorkerOK
<1>11. \A n \in Creation : CreationOK(n)'
  <2>1. \A n \in Creation : CreationOK(n) /\ SlotOf(n) \in Slot
    BY SlotFacts DEF SlotsIInv
  <2> QED
    BY <1>1, <1>3, <1>6, <1>7, <2>1 DEF CreationOK
<1>12. HeapOK'
  BY <1>1 DEF SlotsIInv, HeapOK
<1> QED
  BY <1>5, <1>7, <1>8, <1>9, <1>10, <1>11, <1>12 DEF SlotsIInv

-----------------------------------------------------------------------------

\* A worker takes a slot from the queue and starts its routine.
LEMMA StartRoutineKeeps ==
  ASSUME Fits, SlotsIInv, NEW w \in Workers, StartRoutine(w)
  PROVE  SlotsIInv'
<1>1. PICK s \in Slot :
         /\ queue[s] > 0 /\ queue' = [queue EXCEPT ![s] = @ - 1]
         /\ pvth' = [pvth EXCEPT ![w] = s]
         /\ runs' = [runs EXCEPT ![w] = start_routine[s]]
         /\ stack' = [stack EXCEPT ![w] = ctx[s]]
         /\ starts' = [starts EXCEPT ![start_routine[s]] = @ + 1]
  BY DEF StartRoutine, Pop
<1>2. /\ wpc[w] = "idle" /\ wpc' = [wpc EXCEPT ![w] = "run"] /\ vid' = vid
      /\ state = "run" /\ state' = state /\ number' = number /\ cur_vid' = cur_vid
      /\ ctx' = ctx /\ start_routine' = start_routine /\ sp' = sp /\ heap' = heap
      /\ cpc' = cpc /\ ended' = ended
  BY DEF StartRoutine, Worker, creatorVars
<1>3. SlotsTypeOK
  BY DEF SlotsIInv
<1>4. /\ queue[s] = 1 /\ start_routine[s] \in Created /\ SlotOf(start_routine[s]) = s
      /\ starts[start_routine[s]] = 0 /\ ctx[s] = s + 1 /\ sp[s] \notin 1..MaxVThreads
  BY <1>1 DEF SlotsIInv, SlotOK
<1>5. PICK n \in Creation : n = start_routine[s]
  BY <1>3, <1>4, CreatedFacts
<1>6. Created' = Created /\ Alive' = Alive
  BY <1>2 DEF Created, Alive
<1>7. SlotsTypeOK'
  <2>1. ctx[s] \in Blocks \cup {None} /\ start_routine[s] \in Creation
    BY <1>3, <1>5 DEF SlotsTypeOK
  <2>2. queue' \in [Slot -> Nat]
    BY <1>1, <1>3 DEF SlotsTypeOK
  <2>3. starts' \in [Creation -> Nat]
    BY <1>1, <1>3, <1>5 DEF SlotsTypeOK
  <2> QED
    BY <1>1, <1>2, <1>3, <2>1, <2>2, <2>3 DEF SlotsTypeOK
<1>8. /\ queue'[s] = 0 /\ \A r \in Slot \ {s} : queue'[r] = queue[r]
      /\ starts'[n] = 1 /\ \A m \in Creation \ {n} : starts'[m] = starts[m]
      /\ wpc'[w] = "run" /\ pvth'[w] = s /\ runs'[w] = n /\ stack'[w] = s + 1
      /\ \A x \in Workers \ {w} : /\ wpc'[x] = wpc[x] /\ pvth'[x] = pvth[x]
                                  /\ runs'[x] = runs[x] /\ stack'[x] = stack[x]
  <2>1. starts'[n] = 1
    BY <1>1, <1>3, <1>4, <1>5 DEF SlotsTypeOK
  <2>2. \A m \in Creation \ {n} : starts'[m] = starts[m]
    BY <1>1, <1>3, <1>5 DEF SlotsTypeOK
  <2>3. queue'[s] = 0 /\ \A r \in Slot \ {s} : queue'[r] = queue[r]
    BY <1>1, <1>3, <1>4 DEF SlotsTypeOK
  <2> QED
    BY <1>1, <1>2, <1>3, <1>4, <1>5, <2>1, <2>2, <2>3 DEF SlotsTypeOK
<1>9. \A t \in Creators : CreatorOK(t)'
  <2> SUFFICES ASSUME NEW t \in Creators, cpc[t] # "ready" PROVE CreatorOK(t)'
    BY <1>2 DEF CreatorOK
  <2>1. CreatorOK(t)
    BY DEF SlotsIInv
  <2>2. /\ cur_vid[t] \in Slot /\ number[t] \in Creation /\ queue[cur_vid[t]] = 0
        /\ start_routine[s] # number[t]
    BY <1>4, OwnSlot
  <2>3. starts'[number[t]] = starts[number[t]] /\ queue'[cur_vid[t]] = 0
    BY <1>5, <1>8, <2>2
  <2> QED
    BY <1>2, <1>6, <2>1, <2>2, <2>3 DEF CreatorOK
<1>10. \A r \in Slot : SlotOK(r)'
  <2>1. ASSUME NEW r \in Slot, r = s PROVE SlotOK(r)'
    BY <1>8, <2>1 DEF SlotOK
  <2>2. ASSUME NEW r \in Slot, r # s PROVE SlotOK(r)'
    <3>1. SlotOK(r) /\ queue'[r] = queue[r]
      BY <1>8, <2>2 DEF SlotsIInv
    <3>2. queue[r] = 1 => start_routine[r] \in Creation \ {n}
      BY <1>3, <1>4, <1>5, <2>2, <3>1, CreatedFacts DEF SlotOK
    <3> QED
      BY <1>2, <1>6, <1>8, <3>1, <3>2 DEF SlotOK
  <2> QED
    BY <2>1, <2>2
<1>11. \A x \in Workers : WorkerOK(x)'
  <2>1. \A x \in Workers \ {w} : wpc[x] # "idle" => runs[x] \in Creation \ {n}
    BY <1>3, <1>4, <1>5, CreatedFacts DEF SlotsIInv, WorkerOK
  <2>2. n \notin ended
    BY <1>4, <1>5 DEF SlotsIInv, CreationOK
  <2>3. ASSUME NEW x \in Workers, x = w PROVE WorkerOK(x)'
    BY <1>2, <1>4, <1>5, <1>6, <1>8, <2>1, <2>2, <2>3 DEF WorkerOK
  <2>4. ASSUME NEW x \in Workers, x # w PROVE WorkerOK(x)'
    <3>1. WorkerOK(x)
      BY DEF SlotsIInv
    <3> QED
      BY <1>2, <1>6, <1>8, <2>1, <2>4, <3>1 DEF WorkerOK
  <2> QED
    BY <2>3, <2>4
<1>12. \A m \in Creation : CreationOK(m)'
  <2> SUFFICES ASSUME NEW m \in Creation PROVE CreationOK(m)'
    OBVIOUS
  <2>1. CreationOK(m) /\ SlotOf(m) \in Slot
    BY SlotFacts DEF SlotsIInv
  <2>2. CASE m = n
    BY <1>2, <1>4, <1>5, <1>6, <1>8, <2>1, <2>2 DEF CreationOK
  <2>3. CASE m # n
    <3>1. SlotOf(m) # s
      BY <1>4, <1>5, <2>3, SlotFacts
    <3> QED
      BY <1>2, <1>6, <1>8, <2>1, <2>3, <3>1 DEF CreationOK
  <2> QED
    BY <2>2, <2>3
<1>13. HeapOK'
  BY <1>2 DEF SlotsIInv, HeapOK
<1> QED
  BY <1>6, <1>7, <1>9, <1>10, <1>11, <1>12, <1>13 DEF SlotsIInv

\* The stack that is deleted is none of the first ones.
LEMMA DeleteStackKeeps ==
  ASSUME Fits, SlotsIInv, NEW w \in Workers, DeleteStack(w)
  PROVE  SlotsIInv'
<1>1. /\ wpc[w] = "run" /\ wpc' = [wpc EXCEPT ![w] = "end"] /\ vid' = vid
      /\ state = "run" /\ state' \in {"run", "fault"} /\ number' = number /\ cur_vid' = cur_vid
      /\ ctx' = ctx /\ start_routine' = start_routine /\ sp' = sp /\ queue' = queue
      /\ cpc' = cpc /\ ended' = ended /\ pvth' = pvth /\ runs' = runs /\ stack' = stack
      /\ starts' = starts /\ heap' = heap \ {sp[pvth[w]]}
  BY DEF DeleteStack, Worker, creatorVars
<1>2. SlotsTypeOK /\ WorkerOK(w)
  BY DEF SlotsIInv
<1>3. SlotsTypeOK'
  BY <1>1, <1>2 DEF SlotsTypeOK
<1>4. Created' = Created /\ Alive' = Alive
  BY <1>1 DEF Created, Alive
<1>5. \A t \in Creators : CreatorOK(t)'
  BY <1>1, <1>4 DEF SlotsIInv, CreatorOK
<1>6. \A s \in Slot : SlotOK(s)'
  BY <1>1, <1>4 DEF SlotsIInv, SlotOK
<1>7. \A x \in Workers : WorkerOK(x)'
  <2>1. \A x \in Workers : wpc'[x] # "idle" => wpc[x] # "idle"
    BY <1>1, <1>2 DEF SlotsTypeOK
  <2> QED
    BY <1>1, <1>4, <2>1 DEF SlotsIInv, WorkerOK
<1>8. \A n \in Creation : CreationOK(n)'
  BY <1>1, <1>4 DEF SlotsIInv, CreationOK
<1>9. HeapOK'
  BY <1>1, <1>2 DEF SlotsIInv, HeapOK, WorkerOK
<1> QED
  BY <1>3, <1>4, <1>5, <1>6, <1>7, <1>8, <1>9 DEF SlotsIInv

\* The vthread has ended.
LEMMA PublishKeeps ==
  ASSUME Fits, SlotsIInv, NEW w \in Workers, Publish(w)
  PROVE  SlotsIInv'
<1>1. /\ wpc[w] = "end" /\ wpc' = [wpc EXCEPT ![w] = "idle"] /\ vid' = vid
      /\ state = "run" /\ state' = state /\ number' = number /\ cur_vid' = cur_vid
      /\ ctx' = ctx /\ start_routine' = start_routine /\ sp' = sp /\ queue' = queue
      /\ cpc' = cpc /\ heap' = heap /\ pvth' = pvth /\ runs' = runs /\ stack' = stack
      /\ starts' = starts /\ ended' = ended \cup {runs[w]}
  BY DEF Publish, Worker, creatorVars
<1>2. SlotsTypeOK /\ WorkerOK(w)
  BY DEF SlotsIInv
<1>3. runs[w] \in Created /\ runs[w] \in Creation /\ starts[runs[w]] = 1
  BY <1>1, <1>2, CreatedFacts DEF WorkerOK
<1>4. SlotsTypeOK'
  BY <1>1, <1>2, <1>3 DEF SlotsTypeOK
<1>5. Created' = Created
  BY <1>1 DEF Created
<1>6. \A t \in Creators : CreatorOK(t)'
  BY <1>1, <1>5 DEF SlotsIInv, CreatorOK
<1>7. \A s \in Slot : SlotOK(s)'
  BY <1>1, <1>5 DEF SlotsIInv, SlotOK
<1>8. \A x \in Workers : WorkerOK(x)'
  <2>1. wpc'[w] = "idle" /\ \A x \in Workers \ {w} : wpc'[x] = wpc[x]
    BY <1>1, <1>2 DEF SlotsTypeOK
  <2>2. \A x \in Workers \ {w} : wpc[x] # "idle" => runs[x] # runs[w]
    BY <1>1, <1>2 DEF WorkerOK
  <2> QED
    BY <1>1, <1>5, <2>1, <2>2 DEF SlotsIInv, WorkerOK
<1>9. \A n \in Creation : CreationOK(n)'
  BY <1>1, <1>3, <1>5 DEF SlotsIInv, CreationOK
<1>10. HeapOK'
  BY <1>1 DEF SlotsIInv, HeapOK
<1>11. Cardinality(Alive') <= MaxAlive
  <2>1. IsFiniteSet(Alive) /\ Cardinality(Alive) \in Nat /\ Cardinality(Alive) <= MaxAlive
    BY <1>2, CreatedFacts DEF SlotsIInv
  <2>2. Alive' \subseteq Alive
    BY <1>1 DEF Alive
  <2>3. Cardinality(Alive') <= Cardinality(Alive) /\ Cardinality(Alive') \in Nat
    BY <2>1, <2>2, FS_Subset, FS_CardinalityType
  <2> QED
    BY <2>1, <2>3, SlotsAssumption
<1> QED
  BY <1>4, <1>6, <1>7, <1>8, <1>9, <1>10, <1>11 DEF SlotsIInv

\* A pthread_create that is about to push has a vthread that is not in the queue:
\* the others are at most one less than the vthreads that are alive.
LEMMA RoomForAll ==
  ASSUME Fits, SlotsIInv, NEW t \in Creators, cpc[t] = "enq"
  PROVE  HasRoom
<1> DEFINE A == Alive \ {number[t]}
           f(n) == <<SlotOf(n), 1>>
<1>1. /\ SlotsTypeOK /\ CreatorOK(t)
      /\ \A s \in Slot : SlotOK(s)
      /\ \A n \in Creation : CreationOK(n)
      /\ Cardinality(Alive) <= MaxAlive
  BY DEF SlotsIInv
<1>2. IsFiniteSet(Alive) /\ Cardinality(Alive) \in Nat /\ Alive = Created \ ended
      /\ Created \subseteq Creation
  BY <1>1, CreatedFacts
<1>3. number[t] \in Alive
  BY <1>1, <1>2 DEF CreatorOK, CreationOK
<1>4. IsFiniteSet(A) /\ Cardinality(A) = Cardinality(Alive) - 1
  BY <1>2, <1>3, FS_RemoveElement
<1>5. \A s \in Slot : queue[s] = 1 => start_routine[s] \in A
  <2>1. \A s \in Slot : queue[s] = 1 => start_routine[s] # number[t]
    BY OwnSlot
  <2>2. \A s \in Slot : queue[s] = 1 => start_routine[s] \in Alive
    BY <1>1, <1>2 DEF SlotOK, CreationOK
  <2> QED
    BY <2>1, <2>2
<1>6. Queued \subseteq {f(n) : n \in A}
  <2> SUFFICES ASSUME NEW e \in Queued PROVE \E n \in A : e = f(n)
    OBVIOUS
  <2>1. PICK s \in Slot : e \in {s} \X (1..queue[s])
    BY DEF Queued
  <2>2. queue[s] = 1
    BY <1>1, <2>1 DEF SlotOK
  <2>3. e = <<s, 1>>
    BY <2>1, <2>2
  <2>4. start_routine[s] \in A /\ SlotOf(start_routine[s]) = s
    BY <1>1, <1>5, <2>2 DEF SlotOK
  <2> HIDE DEF A
  <2> QED
    BY <2>3, <2>4
<1> HIDE DEF A
<1>7. IsFiniteSet({f(n) : n \in A}) /\ Cardinality({f(n) : n \in A}) <= Cardinality(A)
  <2>1. [n \in A |-> f(n)] \in Surjection(A, {f(n) : n \in A})
    BY DEF Surjection
  <2> QED
    BY <1>4, <2>1, FS_Surjection
<1>8. IsFiniteSet(Queued) /\ Cardinality(Queued) <= Cardinality({f(n) : n \in A})
  BY <1>6, <1>7, FS_Subset
<1>9. Cardinality(Queued) \in Nat /\ Cardinality({f(n) : n \in A}) \in Nat
  BY <1>7, <1>8, FS_CardinalityType
<1> QED
  BY <1>1, <1>2, <1>4, <1>7, <1>8, <1>9, SlotsAssumption DEF HasRoom, Fits

\* The invariant implies what pthread_create promises.
LEMMA SlotsPromise ==
  ASSUME Fits, SlotsIInv
  PROVE  SlotsInv
<1>1. SlotsTypeOK
  BY DEF SlotsIInv
<1>2. HandlesDistinct
  BY <1>1, CreatedFacts, SlotFacts DEF HandlesDistinct
<1>3. OwnStack
  <2>1. \A w \in Workers : wpc[w] = "run" => stack[w] \in 1..MaxVThreads
    BY <1>1, SlotsAssumption DEF SlotsIInv, WorkerOK, SlotsTypeOK, Slot
  <2>2. \A w \in Workers : wpc[w] = "run" => 1..MaxVThreads \subseteq heap
    BY DEF SlotsIInv, HeapOK
  <2>3. \A w \in Workers : \A x \in Workers \ {w} :
           wpc[w] = "run" /\ wpc[x] = "run" => stack[x] # stack[w]
    <3> SUFFICES ASSUME NEW w \in Workers, NEW x \in Workers \ {w},
                        wpc[w] = "run", wpc[x] = "run"
                 PROVE  stack[x] # stack[w]
      OBVIOUS
    <3>1. WorkerOK(w) /\ WorkerOK(x) /\ Created \subseteq Creation
      BY <1>1, CreatedFacts DEF SlotsIInv
    <3>2. pvth[x] # pvth[w]
      BY <3>1, SlotFacts DEF WorkerOK
    <3>3. stack[x] = pvth[x] + 1 /\ stack[w] = pvth[w] + 1
      BY <3>1 DEF WorkerOK
    <3>4. pvth[x] \in Int /\ pvth[w] \in Int
      BY <1>1, SlotsAssumption DEF SlotsTypeOK, Slot
    <3> QED
      BY <3>2, <3>3, <3>4
  <2> QED
    BY <2>1, <2>2, <2>3 DEF OwnStack
<1>4. StartedOnce
  BY DEF SlotsIInv, CreationOK, StartedOnce
<1>5. EnqueueFindsRoom
  BY RoomForAll DEF EnqueueFindsRoom
<1> QED
  BY <1>1, <1>2, <1>3, <1>4, <1>5 DEF SlotsInv

\* Each creation is with one creator, in the queue, with one worker, or has ended,
\* and the stacks of the slots that are in use are the first ones.
THEOREM SlotsInductive == ASSUME Fits PROVE SlotsSpec => []SlotsIInv
<1>1. SlotsInit => SlotsIInv
  BY SlotsStart
<1>2. SlotsIInv /\ [SlotsNext]_slotVars => SlotsIInv'
  <2> SUFFICES ASSUME SlotsIInv, [SlotsNext]_slotVars PROVE SlotsIInv'
    OBVIOUS
  <2>1. CASE Construct
    BY <2>1, ConstructKeeps
  <2>2. ASSUME NEW t \in Creators, Create(t) PROVE SlotsIInv'
    BY <2>2, FetchVidKeeps, InitKeeps, NewStackKeeps, EnqueueNewKeeps DEF Create
  <2>3. ASSUME NEW w \in Workers, Work(w) PROVE SlotsIInv'
    BY <2>3, StartRoutineKeeps, DeleteStackKeeps, PublishKeeps DEF Work
  <2>4. CASE UNCHANGED slotVars
    <3> USE <2>4 DEF slotVars, creatorVars, workerVars
    <3>1. SlotsTypeOK'
      BY DEF SlotsIInv, SlotsTypeOK
    <3>2. Created' = Created /\ Alive' = Alive
      BY DEF Created, Alive
    <3>3. \A t \in Creators : CreatorOK(t)'
      BY <3>2 DEF SlotsIInv, CreatorOK
    <3>4. \A s \in Slot : SlotOK(s)'
      BY <3>2 DEF SlotsIInv, SlotOK
    <3>5. \A w \in Workers : WorkerOK(w)'
      BY <3>2 DEF SlotsIInv, WorkerOK
    <3>6. \A n \in Creation : CreationOK(n)'
      BY <3>2 DEF SlotsIInv, CreationOK
    <3>7. HeapOK'
      BY DEF SlotsIInv, HeapOK
    <3> QED
      BY <3>1, <3>2, <3>3, <3>4, <3>5, <3>6, <3>7 DEF SlotsIInv
  <2> QED
    BY <2>1, <2>2, <2>3, <2>4 DEF SlotsNext
<1> QED
  BY <1>1, <1>2, PTL DEF SlotsSpec

\* pthread_create keeps its promise for as many vthreads as there are slots: each
\* has a handle and a stack of its own and is started once, and no call waits for
\* room in vs_queue, for any number of creators, workers, slots and vthreads.
THEOREM SlotsCorrect == ASSUME Fits PROVE SlotsSpec => []SlotsInv
<1>1. SlotsIInv => SlotsInv
  BY SlotsPromise
<1> QED
  BY <1>1, SlotsInductive, PTL

=============================================================================
