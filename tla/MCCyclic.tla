------------------------------ MODULE MCCyclic ------------------------------
(***************************************************************************)
(* Cyclic on small buses, for TLC.  A bus that misbehaves for ever never   *)
(* starts, and liveness needs one that calms down: FairSpec lets it        *)
(* misbehave Budget times in all.  Safety is proved without that bound     *)
(* (CyclicProofs).                                                         *)
(***************************************************************************)
EXTENDS Cyclic

CONSTANT Budget   \* bound: misbehaviours in one behaviour of FairSpec

VARIABLE budget   \* misbehaviours left

mcvars == <<vars, budget>>

\* A frame lost, late or foreign, a slave leaving OP, a cable cut.
Trouble ==
  \/ faults' > faults
  \/ reach' < reach
  \/ \E s \in Slaves : al[s] = "OP" /\ al'[s] # "OP"

Within(A) ==
  /\ A
  /\ IF Trouble THEN budget > 0 /\ budget' = budget - 1
                ELSE UNCHANGED budget

MCInit == Init /\ budget = Budget

\* The PIT keeps firing, a frame that is not lost comes back, and a slave that
\* was asked for OP settles the request one way or the other.
Fairness ==
  /\ WF_mcvars(Within(Tick))
  /\ WF_mcvars(Within(Return))
  /\ \A s \in Slaves : WF_mcvars(Within(EnterOp(s) \/ RefuseOp(s)))

BoundedSpec == MCInit /\ [][Within(Next)]_mcvars
FairSpec    == BoundedSpec /\ Fairness
=============================================================================
