------------------------------- MODULE MCSem -------------------------------
(***************************************************************************)
(* Sem and KernelSem for TLC: one of the three kinds of semaphore is      *)
(* chosen at the start, and only it is used.                               *)
(***************************************************************************)
EXTENDS Sem, KernelSem

MCInit == Init /\ KInit

MCNext ==
  \/ kind = "sem" /\ Next /\ UNCHANGED kvars
  \/ KNext /\ UNCHANGED vars

MCSpec ==
  /\ MCInit
  /\ [][MCNext]_<<vars, kvars>>
  /\ \A a \in Callers : WF_vars(kind = "sem" /\ Step(a) /\ UNCHANGED kvars)
  /\ \A t \in Threads : WF_kvars(KStep(t) /\ UNCHANGED vars)

=============================================================================
