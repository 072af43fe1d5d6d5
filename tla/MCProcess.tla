----------------------------- MODULE MCProcess -----------------------------
(***************************************************************************)
(* For TLC: the life of processes that share the machine (TaskNum), or of  *)
(* the vthreads in one process (Slots).                                    *)
(***************************************************************************)
EXTENDS TaskNum, Slots

\* What the memory of core_id may hold: negative, in the range of the
\* processors, and beyond it.
MCFirstIds == {-1, 0, 5}

VARIABLE part  \* which of the two runs

MCInit == part \in {"machine", "process"} /\ Init /\ SlotsInit

MCNext ==
  /\ \/ part = "machine" /\ Next /\ UNCHANGED slotVars
     \/ part = "process" /\ SlotsNext /\ UNCHANGED vars
  /\ UNCHANGED part

\* Each part with its own fairness.
MCSpec ==
  /\ MCInit
  /\ [][MCNext]_<<vars, slotVars, part>>
  /\ \A p \in Processes :
       /\ WF_vars(part = "machine" /\ Load(p) /\ UNCHANGED <<slotVars, part>>)
       /\ WF_vars(part = "machine" /\ Manage(p) /\ UNCHANGED <<slotVars, part>>)
  /\ \A t \in Creators :
       WF_slotVars(part = "process" /\ Create(t) /\ cpc[t] # "ready"
                     /\ UNCHANGED <<vars, part>>)
  /\ \A w \in Workers :
       WF_slotVars(part = "process" /\ Work(w) /\ UNCHANGED <<vars, part>>)

=============================================================================
