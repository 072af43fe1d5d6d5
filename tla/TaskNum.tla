------------------------------ MODULE TaskNum ------------------------------
(***************************************************************************)
(* How the processes that use the library share the machine: the number of *)
(* tasks they keep in shared memory (hinit.cpp), the number of real        *)
(* threads each allows itself from it (init_task_num, and the manager      *)
(* thread's task_num_update_handler in mgr_thread.cpp), the pool of real   *)
(* threads and its gate (tthreads.cpp, worker_routine), and the program    *)
(* clean_shm, which sets the number and is itself such a process.          *)
(***************************************************************************)
EXTENDS Integers, FiniteSets

CONSTANTS
  Processes,   \* the processes, clean_shm among them
  Cleaner,     \* the process that is clean_shm
  NThreads,    \* N_THREADS and core_num, the number of processors
  FirstIds,    \* what core_id may hold before it is given a value
  MaxLoads,    \* bound: how many processes are started
  MaxCrashes   \* bound: how often a process is killed

ASSUME TaskNumAssumption ==
  /\ IsFiniteSet(Processes)
  /\ Cleaner \in Processes
  /\ NThreads \in Nat \ {0, 1}
  /\ FirstIds \subseteq Int
  /\ MaxLoads \in Nat
  /\ MaxCrashes \in Nat

VARIABLES
  task_number,  \* *ptask_number, in shared memory
  leaked,       \* how many killed processes it still counts
  pc,           \* where each process is
  allowed,      \* N_THREADS_ALLOWED
  seen,         \* task_number as its manager thread has read it, 0 when unused
  core_ids,     \* the core_id of its real threads
  loads,        \* how many processes may still be started
  crashes       \* how many processes may still be killed

vars == <<task_number, leaked, pc, allowed, seen, core_ids, loads, crashes>>

PCs ==
  { "out",    \* not running
    "add",    \* init_task_num: before the increment
    "div",    \* ... before the division
    "mod",    \* ... before the remainder is added
    "pool",   \* before add_pthread
    "run",    \* loaded; the manager thread sleeps, or is about to read
    "set",    \* the manager thread has read task_number
    "round",  \* ... and has set allowed, to be rounded up
    "fpe" }   \* has divided by zero

\* The processes task_number should count.
Counted == {p \in Processes : pc[p] \notin {"out", "add"}}

TypeOK ==
  /\ task_number \in Nat
  /\ leaked \in Nat
  /\ pc \in [Processes -> PCs]
  /\ allowed \in [Processes -> Int]
  /\ seen \in [Processes -> Nat]
  /\ core_ids \in [Processes -> SUBSET Int]
  /\ loads \in 0..MaxLoads
  /\ crashes \in 0..MaxCrashes

\* The shared memory is created filled with zeros.
Init ==
  /\ task_number = 0
  /\ leaked = 0
  /\ pc = [p \in Processes |-> "out"]
  /\ allowed = [p \in Processes |-> 0]
  /\ seen = [p \in Processes |-> 0]
  /\ core_ids = [p \in Processes |-> {}]
  /\ loads = MaxLoads
  /\ crashes = MaxCrashes

-----------------------------------------------------------------------------
(***************************************************************************)
(* Division of C: it rounds towards zero.                                  *)
(***************************************************************************)

Quotient(n, d) == IF d > 0 THEN n \div d ELSE -(n \div (-d))
Remainder(n, d) == IF d > 0 THEN n % d ELSE n % (-d)

Go(p, from, to) == pc[p] = from /\ pc' = [pc EXCEPT ![p] = to]

\* Loaded; its main thread runs beside its manager thread.
Running(p) == pc[p] \in {"run", "set", "round"}

\* The memory of the process is gone.
Gone(p) ==
  /\ pc' = [pc EXCEPT ![p] = "out"]
  /\ allowed' = [allowed EXCEPT ![p] = 0]
  /\ seen' = [seen EXCEPT ![p] = 0]
  /\ core_ids' = [core_ids EXCEPT ![p] = {}]

\* What the handler takes the number for: zero counts as one.
Tasks(p) == IF seen[p] = 0 THEN 1 ELSE seen[p]

(***************************************************************************)
(* Faulty forms of steps below.                                            *)
(***************************************************************************)

\* The number is divided by before the process has added itself.
AddLate(p) ==
  /\ Go(p, "add", "div")
  /\ UNCHANGED <<task_number, leaked, allowed, seen, core_ids, loads, crashes>>

\* The manager thread does not treat many tasks apart.
SetAllowedPlain(p) ==
  /\ Go(p, "set", IF Remainder(NThreads, Tasks(p)) # 0 THEN "round" ELSE "run")
  /\ allowed' = [allowed EXCEPT ![p] = Quotient(NThreads, Tasks(p))]
  /\ seen' = [seen EXCEPT ![p] = 0]
  /\ UNCHANGED <<task_number, leaked, core_ids, loads, crashes>>

\* The manager thread reads the number only once.
ReadNot(p) ==
  /\ Go(p, "run", "set")
  /\ UNCHANGED <<task_number, leaked, allowed, seen, core_ids, loads, crashes>>

-----------------------------------------------------------------------------
(***************************************************************************)
(* Loading the library: the constructor of tthreads.                       *)
(***************************************************************************)

Start(p) ==
  /\ Go(p, "out", "add")
  /\ loads > 0
  /\ loads' = loads - 1
  /\ UNCHANGED <<task_number, leaked, allowed, seen, core_ids, crashes>>

\* init_task_num maps the shared memory and adds the process.
AddTask(p) ==
  /\ Go(p, "add", "div")
  /\ task_number' = task_number + 1
  /\ UNCHANGED <<leaked, allowed, seen, core_ids, loads, crashes>>

\* It reads the number again, and divides by it ...
DivideTask(p) ==
  /\ pc[p] = "div"
  /\ \/ /\ task_number # 0
        /\ Go(p, "div", "mod")
        /\ allowed' = [allowed EXCEPT ![p] = Quotient(NThreads, task_number)]
     \/ /\ task_number = 0
        /\ Go(p, "div", "fpe")
        /\ UNCHANGED allowed
  /\ UNCHANGED <<task_number, leaked, seen, core_ids, loads, crashes>>

\* ... and once more, to round up.
RoundTask(p) ==
  /\ pc[p] = "mod"
  /\ \/ /\ task_number # 0
        /\ Go(p, "mod", "pool")
        /\ allowed' = [allowed EXCEPT ![p] =
             IF Remainder(NThreads, task_number) # 0 THEN @ + 1 ELSE @]
     \/ /\ task_number = 0
        /\ Go(p, "mod", "fpe")
        /\ UNCHANGED allowed
  /\ UNCHANGED <<task_number, leaked, seen, core_ids, loads, crashes>>

\* The numbers add_pthread gives NThreads real threads when core_id is g:
\* it goes back to 0 once it has reached the number of processors.
CoreIds(g) ==
  IF g >= NThreads THEN {g} \cup (0..(NThreads - 2))
  ELSE IF g >= 0 THEN 0..(NThreads - 1)
  ELSE g..(g + NThreads - 1)

\* add_pthread runs before core_id is set to 0; then the manager thread starts.
AddPthreads(p) ==
  /\ Go(p, "pool", "run")
  /\ \E g \in FirstIds : core_ids' = [core_ids EXCEPT ![p] = CoreIds(g)]
  /\ UNCHANGED <<task_number, leaked, allowed, seen, loads, crashes>>

-----------------------------------------------------------------------------
(***************************************************************************)
(* The manager thread: task_num_update_handler, once in a time slice.      *)
(***************************************************************************)

ReadTask(p) ==
  /\ Go(p, "run", "set")
  /\ seen' = [seen EXCEPT ![p] = task_number]
  /\ UNCHANGED <<task_number, leaked, allowed, core_ids, loads, crashes>>

SetAllowed(p) ==
  /\ pc[p] = "set"
  /\ \/ /\ Tasks(p) >= NThreads
        /\ Go(p, "set", "run")
        /\ allowed' = [allowed EXCEPT ![p] = 1]
     \/ /\ Tasks(p) < NThreads
        /\ Go(p, "set",
              IF Remainder(NThreads, Tasks(p)) # 0 THEN "round" ELSE "run")
        /\ allowed' = [allowed EXCEPT ![p] = Quotient(NThreads, Tasks(p))]
  /\ seen' = [seen EXCEPT ![p] = 0]
  /\ UNCHANGED <<task_number, leaked, core_ids, loads, crashes>>

RoundAllowed(p) ==
  /\ Go(p, "round", "run")
  /\ allowed' = [allowed EXCEPT ![p] = @ + 1]
  /\ UNCHANGED <<task_number, leaked, seen, core_ids, loads, crashes>>

\* The real threads of p that pass the gate of worker_routine.
Passing(p) == {i \in core_ids[p] : i < allowed[p]}

-----------------------------------------------------------------------------

\* hthread_fini, when the process exits.
Fini(p) ==
  /\ Running(p)
  /\ Gone(p)
  /\ task_number' = task_number - 1
  /\ UNCHANGED <<leaked, loads, crashes>>

\* The process is killed: hthread_fini does not run.
Crash(p) ==
  /\ pc[p] # "out"
  /\ crashes > 0
  /\ crashes' = crashes - 1
  /\ leaked' = IF p \in Counted THEN leaked + 1 ELSE leaked
  /\ Gone(p)
  /\ UNCHANGED <<task_number, loads>>

\* The main of clean_shm, called with the number of the other processes.
Clean ==
  /\ Running(Cleaner)
  /\ task_number' = Cardinality(Counted \ {Cleaner}) + 1
  /\ leaked' = 0
  /\ UNCHANGED <<pc, allowed, seen, core_ids, loads, crashes>>

Load(p) ==
  AddTask(p) \/ DivideTask(p) \/ RoundTask(p) \/ AddPthreads(p)

Manage(p) == ReadTask(p) \/ SetAllowed(p) \/ RoundAllowed(p)

Next ==
  \/ \E p \in Processes : Start(p) \/ Load(p) \/ Manage(p) \/ Fini(p) \/ Crash(p)
  \/ Clean

Spec == Init /\ [][Next]_vars

\* A process that loads the library goes on, and its manager thread wakes up
\* again and again; nobody has to exit or to be killed.
Fairness ==
  \A p \in Processes : WF_vars(Load(p)) /\ WF_vars(Manage(p))

FairSpec == Spec /\ Fairness

-----------------------------------------------------------------------------
(***************************************************************************)
(* Properties.                                                             *)
(***************************************************************************)

\* The number counts the processes that use the library and those that were
\* killed since clean_shm last ran, whatever happened in between.
TasksCounted == task_number = Cardinality(Counted) + leaked

\* No process divides by zero while it loads the library, though it reads the
\* number again after it has added itself.
NoDivisionByZero == \A p \in Processes : pc[p] # "fpe"

\* Once one of its real threads passes the gate of worker_routine, a process
\* always has one that does: not between the two writes of the manager thread,
\* with more tasks than processors, nor for any numbering of the threads is the
\* whole pool shut out again.  (It may be for a moment before: the two reads of
\* init_task_num can give 0, which the manager thread corrects.)
GateStaysOpen ==
  [][\A p \in Processes :
       Passing(p) # {} /\ core_ids'[p] # {} => Passing(p)' # {}]_vars

\* What a process may take when t tasks are counted, before and after it is
\* rounded up.
Shares(t) ==
  IF t >= NThreads THEN {1}
  ELSE {NThreads \div t} \cup
       (IF NThreads % t = 0 THEN {} ELSE {NThreads \div t + 1})

\* Once processes stop coming and going, every process that stays settles on
\* its share of the processors.
SharesSettle ==
  <>[](\A p \in Processes : core_ids[p] # {} => allowed[p] \in Shares(task_number))

\* The shared number is exact, and so nobody who divides by it finds 0.
TaskInv ==
  /\ TypeOK
  /\ TasksCounted
  /\ NoDivisionByZero

=============================================================================
