------------------------------ MODULE MCMaster ------------------------------
(***************************************************************************)
(* Instances of Master for TLC.                                            *)
(***************************************************************************)
EXTENDS Master

\* One datagram per phase of the bring-up and two transfers; the PDO mapping,
\* the assignment and the process-data sync managers repeat them.
MCWork ==
  [ph \in Phases |-> CASE ph \in {"PdoMapping", "PdoAssign", "PdSm"} -> 0
                       [] ph \in {"SdoInit", "Fmmu"} -> 2
                       [] OTHER       -> 1]

\* Slaves without CoE configuration, process data or distributed clock.
MCWorkBare == [ph \in Phases |-> IF ph \in Optional THEN 0 ELSE 1]
=============================================================================
