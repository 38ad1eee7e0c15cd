---------------------------- MODULE SlaveConfig ----------------------------
(***************************************************************************)
(* The bring-up of one slave to SAFE-OP (fsm_slave_config.rs) with its     *)
(* distributed clock (dc.rs), and the helper that brings a slave to a      *)
(* state with a working mailbox (PreOp in master.rs).                      *)
(*                                                                         *)
(* The loops of a phase over sync managers, PDOs, FMMUs and SDOs are one   *)
(* count of datagrams (or transfers) per phase, Work; what a datagram      *)
(* writes is told apart by phase and count.  The DC arithmetic is left out.*)
(***************************************************************************)
EXTENDS Datagrams, Sequences

CONSTANT Work    \* datagrams or CoE transfers of every phase, from the BUS table

Order == <<"ClearFmmus", "DcClear", "MboxSm0", "MboxSm1", "ToPreop", "SdoInit",
           "PdoMapping", "PdoAssign", "PdSm", "WatchdogDiv", "WatchdogTime",
           "Fmmu", "DcCycle", "ToSafeop">>
Phases     == {Order[k] : k \in DOMAIN Order}
Changes    == {"ToPreop", "ToSafeop"}
CoePhases  == {"SdoInit", "PdoMapping", "PdoAssign"}

\* Phases a slave may have nothing to do in.
Optional == CoePhases \cup {"PdSm", "Fmmu", "DcCycle"}

ASSUME WorkAssumption ==
  /\ Work \in [Phases -> Nat]
  /\ \A ph \in Phases \ Optional : Work[ph] = 1
  /\ Work["DcCycle"] \in {0, 1}

-----------------------------------------------------------------------------
(* Distributed clock: followers are compensated before SYNC0 is set up *)

Sync0      == <<"WriteCycle", "WriteStart", "Activate">>
DcPath(follower) ==
  IF follower THEN <<"CompLatch", "CompReadPorts", "CompWriteDelay", "CompReadTimes",
                     "CompWriteOffset", "WriteCycle", "WriteStart", "Activate">>
              ELSE <<"LatchTime", "ReadTime", "WriteCycle", "WriteStart", "Activate">>

DcRequest(step, station, ref) ==
  CASE step = "CompLatch" -> Datagram("BWR", {}, "DC_RECV_TIME", step)
    [] step \in {"CompReadPorts", "CompReadTimes"} ->
         Datagram("FPRD", {ref, station}, "DC_TIMES", step)
    [] step = "ReadTime" -> Read(station, "DC_TIMES")
    [] OTHER -> Write(station, "CONFIG", <<step, 1>>)

\* The working counter of the time read by the reference is not looked at.
DcAccepts(step, r) ==
  CASE step = "CompLatch" -> r.wkc # 0
    [] step = "ReadTime"  -> ~Lost(r)
    [] OTHER              -> r.wkc = 1

-----------------------------------------------------------------------------
(* One slave *)

\* "n" counts the datagrams or transfers of the phase, the steps of its clock.
Config(follower) ==
  [at |-> "ClearFmmus", n |-> 1, follower |-> follower,
   change |-> Change("PREOP"), coe |-> Transfer]

Length(f) == IF f.at = "DcCycle" THEN Len(DcPath(f.follower)) ELSE Work[f.at]

\* Mutant: a phase is left after its first datagram.
NextWorkFirstOnly(f) ==
  LET here == CHOOSE k \in DOMAIN Order : Order[k] = f.at
      later == {k \in here + 1 .. Len(Order) : Work[Order[k]] > 0}
  IN IF later = {} THEN [f EXCEPT !.at = "Done"]
     ELSE [f EXCEPT !.at = Order[CHOOSE k \in later : \A j \in later : k <= j],
                    !.n = 1]

\* On with the phase, or to the next one that has work.
NextWork(f) ==
  LET here  == CHOOSE k \in DOMAIN Order : Order[k] = f.at
      later == {k \in here + 1 .. Len(Order) : Work[Order[k]] > 0}
  IN IF f.n < Length(f) THEN [f EXCEPT !.n = @ + 1]
     ELSE IF later = {} THEN [f EXCEPT !.at = "Done"]
     ELSE [f EXCEPT !.at = Order[CHOOSE k \in later : \A j \in later : k <= j],
                    !.n = 1]

ConfigRequest(f, station, ref) ==
  CASE f.at \in Changes   -> ChangeRequest(f.change, station)
    [] f.at \in CoePhases -> TransferRequest(f.coe, station, <<f.at, f.n>>)
    [] f.at = "DcCycle"   -> DcRequest(DcPath(f.follower)[f.n], station, ref)
    [] OTHER              -> Write(station, "CONFIG", <<f.at, f.n>>)

GaveUp(f) == [f EXCEPT !.at = "Failed"]

ChangedAfter(f, c) ==
  CASE c.at = "Done"   -> NextWork([f EXCEPT !.change = Change("SAFEOP")])
    [] c.at = "Failed" -> GaveUp(f)
    [] OTHER           -> [f EXCEPT !.change = c]

SentAfter(f, t) ==
  CASE t.at = "Done"   -> NextWork([f EXCEPT !.coe = Transfer])
    [] t.at = "Failed" -> GaveUp(f)
    [] OTHER           -> [f EXCEPT !.coe = t]

ConfigAfter(f, r) ==
  CASE f.at \in Changes   -> ChangedAfter(f, ChangeAfter(f.change, r))
    [] f.at \in CoePhases -> SentAfter(f, TransferAfter(f.coe, r))
    [] f.at = "DcCycle" ->
         IF DcAccepts(DcPath(f.follower)[f.n], r) THEN NextWork(f) ELSE GaveUp(f)
    [] OTHER -> IF r.wkc = 1 THEN NextWork(f) ELSE GaveUp(f)

\* What has been written to a slave that was configured from end to end.
FullyConfigured ==
  (UNION {{<<ph, n>> : n \in 1 .. Work[ph]} :
            ph \in Phases \ (Changes \cup {"DcCycle"})})
  \cup {<<Sync0[k], 1>> : k \in {j \in DOMAIN Sync0 : Work["DcCycle"] = 1}}

-----------------------------------------------------------------------------
(* PreOp: the mailbox, if the state needs one, then the state *)

NeedsMailbox(al) == al \in {"PREOP", "SAFEOP", "OP"}

PreOp(target, configure) ==
  [at |-> IF configure THEN "ConfigSm0" ELSE "Change", change |-> Change(target)]

PreOpRequest(p, station) ==
  CASE p.at = "ConfigSm0" -> Write(station, "CONFIG", <<"MboxSm0", 1>>)
    [] p.at = "ConfigSm1" -> Write(station, "CONFIG", <<"MboxSm1", 1>>)
    [] p.at = "Change"    -> ChangeRequest(p.change, station)

\* Mutant: the mailbox from the slave is left as it is.
PreOpAfterKeepsSm1(p, r) ==
  CASE p.at = "Change" ->
         LET c == ChangeAfter(p.change, r)
         IN [p EXCEPT !.change = c,
                      !.at = IF c.at \in Ended THEN c.at ELSE @]
    [] p.at # "Change" /\ r.wkc # 1 -> [p EXCEPT !.at = "Failed"]
    [] p.at # "Change" /\ r.wkc = 1 -> [p EXCEPT !.at = "Change"]

PreOpAfter(p, r) ==
  CASE p.at = "Change" ->
         LET c == ChangeAfter(p.change, r)
         IN [p EXCEPT !.change = c,
                      !.at = IF c.at \in Ended THEN c.at ELSE @]
    [] p.at # "Change" /\ r.wkc # 1 -> [p EXCEPT !.at = "Failed"]
    [] p.at = "ConfigSm0" /\ r.wkc = 1 -> [p EXCEPT !.at = "ConfigSm1"]
    [] p.at = "ConfigSm1" /\ r.wkc = 1 -> [p EXCEPT !.at = "Change"]
=============================================================================
