--------------------------- MODULE MCDriveControl ---------------------------
(***************************************************************************)
(* DriveControl with the fairness its liveness properties need, for a host *)
(* that asks for nothing, for motion, for a reset with it, or to stop.     *)
(***************************************************************************)
EXTENDS DriveControl

Moving == [NoIntent EXCEPT !.enable = TRUE]
MCIntent == {NoIntent, Moving, [Moving EXCEPT !.fault_reset = TRUE],
             [Moving EXCEPT !.quick_stop = TRUE]}

\* Drive d looks at the controlword it is sent, and that is one of cws.
Sees(d, cws) ==
  /\ controlword[d] \in cws
  /\ \E awake \in SUBSET Drives : d \in awake /\ Pass(awake)

\* The PIT fires while the engine runs; among its frames infinitely many come
\* back in time, and a drive that is sent a controlword again and again looks
\* at it some time.  A ramp comes to its end.
Fairness ==
  /\ WF_vars(Tick)
  /\ SF_vars(wire = "back" /\ Tick)
  /\ \A d \in Drives :
       /\ WF_vars(RampEnds(d))
       /\ SF_vars(Sees(d, Controlwords))
       /\ SF_vars(Sees(d, {"FAULT_RESET"}))
       /\ SF_vars(Sees(d, {"DISABLE_VOLTAGE"}))

FairSpec == Init /\ [][Next]_vars /\ Fairness
=============================================================================
