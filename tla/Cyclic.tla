------------------------------- MODULE Cyclic -------------------------------
(***************************************************************************)
(* The cyclic process-data engine (src/ethercat/cyclic.rs): one PIT tick   *)
(* collects the reply to the previous frame, advances the bring-up phase,  *)
(* and sends the next LRW frame with the datagrams appended for the phase. *)
(*                                                                         *)
(* A frame carries the datagrams appended after the LRW.  Its index is     *)
(* kept relative to the frame the engine expects: "lag" counts the indices *)
(* allocated since the frame was built, so the code's test of one index    *)
(* byte is the test of lag modulo IndexMod, and lag = 0 says (as the code  *)
(* cannot) that the frame really is the one sent last.                     *)
(*                                                                         *)
(* The process image, the DC telemetry, the latency statistics and the     *)
(* wrapping cycle counter do not influence the phase and are left out.     *)
(***************************************************************************)
EXTENDS Naturals, Sequences, FiniteSets

CONSTANTS
  N,              \* slaves on the bus, in ring order
  RefSlave,       \* the slave that is the DC reference clock
  PrimingCycles,  \* PRIMING_CYCLES
  IndexMod,       \* number of datagram indices (256: an u8)
  RxLen,          \* descriptors in the ENET receive ring
  TxLen,          \* descriptors in the ENET transmit ring
  MaxFaults       \* bound: frames lost, late or foreign between two replies

ASSUME NAssumption      == N \in Nat \ {0}
ASSUME RefAssumption    == RefSlave \in 0 .. N-1
ASSUME SizesAssumption  == /\ PrimingCycles \in Nat \ {0}
                           /\ RxLen \in Nat \ {0}
                           /\ TxLen \in Nat \ {0}
                           /\ MaxFaults \in Nat
ASSUME IndexAssumption  == /\ IndexMod \in Nat
                           /\ IndexMod > 3 * (MaxFaults + RxLen)

Slaves == 0 .. N-1

VARIABLES
  phase,        \* Phase of the bring-up
  goodCycles,   \* good_cycles, saturating at PrimingCycles: only >= is tested
  reachedOp,    \* reached_op of every slave
  opCursor,     \* slave being driven to OP
  opCtrlPhase,  \* next OP datagram is the AL-control write
  monToggle,    \* next monitoring datagram is the drift read
  monCursor,    \* slave polled last by the monitor
  outstanding,  \* a frame was handed to the ENET
  appended      \* datagrams appended to that frame

engine == <<phase, goodCycles, reachedOp, opCursor, opCtrlPhase,
            monToggle, monCursor, outstanding, appended>>

VARIABLES
  wire,         \* frames sent, not yet back (oldest first)
  rx            \* frames in the receive ring (oldest first)

net == <<wire, rx>>

VARIABLES
  al,           \* AL state of every slave
  asked,        \* slaves with an OP request they have not answered
  reach         \* slaves from "reach" on are cut off; 0: no link at all

slave == <<al, asked, reach>>

VARIABLES
  faults,       \* frames lost, late or foreign since the last reply
  everOp,       \* history: slaves that have been in OP
  slipped       \* history: slaves that refused OP or left it

history == <<faults, everOp, slipped>>
vars    == <<engine, net, slave, history>>

-----------------------------------------------------------------------------
(* Data *)

Phases   == {"Priming", "RequestingOp", "Operational", "Faulted"}
AlStates == {"SAFEOP", "OP", "ERROR", "INIT"}
            \* ERROR: SAFE-OP with the error bit; INIT: power-cycled, the slave
            \* passes frames on but has lost its station address and FMMUs
Kinds    == {"Control", "Status", "DcArmw", "DcDiff", "AlPoll"}

Datagram == [kind : Kinds, idx : Slaves]
Answer   == [wkc : {0, 1}, al : AlStates \cup {"NONE"}]
Frame    == [dgs : Seq(Datagram), lag : Nat]
Reply    == [type : {"reply"}, wkc : 0 .. N, res : Seq(Answer), lag : Nat]
Stray    == [type : {"noise", "foreign"}]

Dg(kind, idx) == [kind |-> kind, idx |-> idx]

Lesser(a, b)  == IF a <= b THEN a ELSE b
Least(S)      == CHOOSE x \in S : \A y \in S : x <= y

-----------------------------------------------------------------------------
(* Receive: drain the ring for the reply to the frame sent last *)

\* Mutant: the index of the reply is not compared.
EndsDrainAnyIndex(f) == f.type \in {"noise", "reply"}

\* Device::poll reports a frame that is not EtherCAT as "nothing there".
EndsDrain(f) ==
  \/ f.type = "noise"
  \/ f.type = "reply" /\ f.lag % IndexMod = 0

Stops   == {k \in DOMAIN rx : EndsDrain(rx[k])}

\* Mutant: one frame is read per tick.
DrainedOne == Lesser(1, Len(rx))

Drained == IF Stops = {} THEN Len(rx) ELSE Least(Stops)
Matched == outstanding /\ Drained \in Stops /\ rx[Drained].type = "reply"

\* Mutant: a read that reached no slave is interpreted.
ReportsFaultUnread(dg, ans) ==
  \/ dg.kind = "Status" /\ ans.al = "ERROR"
  \/ dg.kind = "AlPoll" /\ ans.al # "OP"

ReportsFault(dg, ans) ==
  /\ ans.wkc > 0
  /\ \/ dg.kind = "Status" /\ ans.al = "ERROR"
     \/ dg.kind = "AlPoll" /\ ans.al # "OP"

\* Mutant: any answer to the status read counts as OP.
ReportsOpAlways(dg, ans, s) == ans.wkc > 0 /\ dg = Dg("Status", s)

ReportsOp(dg, ans, s) ==
  /\ ans.wkc > 0
  /\ dg = Dg("Status", s)
  /\ ans.al = "OP"

AllReachedOp(reached) == \A s \in Slaves : reached[s]

\* Mutant: Operational is entered without waiting for the slaves.
SettledAtOnce(p, reached) == IF p = "RequestingOp" THEN "Operational" ELSE p

Settled(p, reached) ==
  IF p = "RequestingOp" /\ AllReachedOp(reached) THEN "Operational" ELSE p

Process(reply) ==
  LET walked == 1 .. Lesser(Len(appended), Len(reply.res))
      good   == IF reply.wkc > 0 THEN Lesser(goodCycles + 1, PrimingCycles)
                                 ELSE 0
      primed == IF phase = "Priming" /\ good >= PrimingCycles
                THEN "RequestingOp" ELSE phase
      failed == \E k \in walked : ReportsFault(appended[k], reply.res[k])
      after  == IF failed THEN "Faulted" ELSE primed
  IN /\ goodCycles' = good
     /\ reachedOp' = [s \in Slaves |->
          \/ reachedOp[s]
          \/ \E k \in walked : ReportsOp(appended[k], reply.res[k], s)]
     /\ phase' = Settled(after, reachedOp')

Unread == IF outstanding THEN SubSeq(rx, Drained + 1, Len(rx)) ELSE rx

Receive ==
  IF Matched THEN Process(rx[Drained])
             ELSE UNCHANGED <<phase, goodCycles, reachedOp>>

-----------------------------------------------------------------------------
(* Send: build the frame of this cycle from the state Receive has left *)

\* Mutant: the cursor moves on after a status read, whatever it said.
NextCursorNoWait == IF opCtrlPhase /\ appended # << >>
                    THEN Lesser(opCursor + 1, N) ELSE opCursor

\* Mutant: the cursor never moves.
NextCursorStuck == opCursor

\* The first slave at or after the cursor that has not reported OP, N if none.
NextCursor == Least({c \in opCursor .. N : c = N \/ ~reachedOp'[c]})

AppendOpRequest ==
  LET ctrl == opCtrlPhase \/ NextCursor # opCursor
  IN /\ opCursor' = NextCursor
     /\ appended' = IF NextCursor = N THEN << >>
                    ELSE << Dg(IF ctrl THEN "Control" ELSE "Status",
                               NextCursor) >>
     /\ opCtrlPhase' = IF NextCursor = N THEN ctrl ELSE ~ctrl
     /\ UNCHANGED <<monToggle, monCursor>>

Follower == IF N = 1 THEN 0 ELSE Least(Slaves \ {RefSlave})

\* Mutant: the poll runs one past the last slave.
NextPollPastEnd == (monCursor + 1) % (N + 1)

\* Mutant: the same slave is polled every time.
NextPollStuck == monCursor

NextPoll == (monCursor + 1) % N

AppendMonitor ==
  /\ IF N = 1
     THEN /\ appended' = << Dg("DcDiff", 0) >>
          /\ UNCHANGED <<monToggle, monCursor>>
     ELSE /\ monCursor' = IF monToggle THEN monCursor
                                       ELSE NextPoll
          /\ appended' = << Dg("DcArmw", RefSlave),
                            IF monToggle THEN Dg("DcDiff", Follower)
                                         ELSE Dg("AlPoll", monCursor') >>
          /\ monToggle' = ~monToggle
  /\ UNCHANGED <<opCursor, opCtrlPhase>>

AppendNothing ==
  /\ appended' = << >>
  /\ UNCHANGED <<opCursor, opCtrlPhase, monToggle, monCursor>>

\* Every frame under way falls behind by the indices the last one used.
Aged(f) == [f EXCEPT !.lag = @ + 1 + Len(appended)]

Send ==
  LET older == [k \in DOMAIN wire |-> Aged(wire[k])]
  IN /\ CASE phase' = "RequestingOp" -> AppendOpRequest
          [] phase' = "Operational"  -> AppendMonitor
          [] OTHER                   -> AppendNothing
     /\ outstanding' = (Len(wire) < TxLen)
     /\ wire' = IF Len(wire) < TxLen
                THEN Append(older, [dgs |-> appended', lag |-> 0])
                ELSE older
     /\ rx' = [k \in DOMAIN Unread |->
                 IF Unread[k].type = "reply" THEN Aged(Unread[k])
                                             ELSE Unread[k]]

\* A tick that finds a frame still on the wire counts as a fault of the bus.
Tick ==
  /\ wire # << >> => faults < MaxFaults
  /\ faults' = IF Matched THEN 0
               ELSE IF wire = << >> THEN faults ELSE faults + 1
  /\ Receive
  /\ Send
  /\ UNCHANGED <<slave, everOp, slipped>>

-----------------------------------------------------------------------------
(* The bus: frames pass the slaves in order and come back *)

Answering == {s \in Slaves : s < reach /\ al[s] # "INIT"}

\* A datagram that reaches no slave comes back with the zeros it left with.
Answers(f) ==
  [k \in DOMAIN f.dgs |->
     IF f.dgs[k].idx \in Answering
     THEN [wkc |-> 1, al |-> al[f.dgs[k].idx]]
     ELSE [wkc |-> 0, al |-> "NONE"]]

\* A slave in SAFE-OP without an unacknowledged error takes the OP request.
AskedBy(f) ==
  {s \in Answering : al[s] = "SAFEOP" /\ \E k \in DOMAIN f.dgs :
                                           f.dgs[k] = Dg("Control", s)}

\* The ENET drops a frame that finds no free receive descriptor.
Arrive(f) == rx' = IF Len(rx) < RxLen THEN Append(rx, f) ELSE rx

Return ==
  /\ wire # << >>
  /\ LET f == Head(wire)
     IN /\ IF reach = 0 THEN UNCHANGED rx
           ELSE Arrive([type |-> "reply", wkc |-> Cardinality(Answering),
                        res |-> Answers(f), lag |-> f.lag])
        /\ asked' = asked \cup AskedBy(f)
  /\ wire' = Tail(wire)
  /\ UNCHANGED <<engine, al, reach, history>>

Misbehave == faults < MaxFaults /\ faults' = faults + 1

\* A frame is lost on its way out, or on its way back.
Lose ==
  /\ Misbehave
  /\ wire # << >>
  /\ wire' = Tail(wire)
  /\ asked' \in {asked, asked \cup AskedBy(Head(wire))}
  /\ UNCHANGED <<engine, rx, al, reach, everOp, slipped>>

\* Another node's frame, or the late reply to a request before "start".
Disturb ==
  /\ Misbehave
  /\ \E t \in {"noise", "foreign"} : Arrive([type |-> t])
  /\ UNCHANGED <<engine, wire, slave, everOp, slipped>>

-----------------------------------------------------------------------------
(* The slaves *)

EnterOp(s) ==
  /\ s \in asked /\ al[s] = "SAFEOP"
  /\ al' = [al EXCEPT ![s] = "OP"]
  /\ asked' = asked \ {s}
  /\ everOp' = everOp \cup {s}
  /\ UNCHANGED <<engine, net, reach, faults, slipped>>

RefuseOp(s) ==
  /\ s \in asked /\ al[s] = "SAFEOP"
  /\ al' = [al EXCEPT ![s] = "ERROR"]
  /\ asked' = asked \ {s}
  /\ slipped' = slipped \cup {s}
  /\ UNCHANGED <<engine, net, reach, faults, everOp>>

DropOp(s) ==
  /\ al[s] = "OP"
  /\ \E a \in {"SAFEOP", "ERROR"} : al' = [al EXCEPT ![s] = a]
  /\ slipped' = slipped \cup {s}
  /\ UNCHANGED <<engine, net, asked, reach, faults, everOp>>

PowerCycle(s) ==
  /\ al[s] # "INIT"
  /\ al' = [al EXCEPT ![s] = "INIT"]
  /\ asked' = asked \ {s}
  /\ slipped' = slipped \cup {s}
  /\ UNCHANGED <<engine, net, reach, faults, everOp>>

\* The cable to slave s is cut, which also cuts off the slaves behind it.
Unplug(s) ==
  /\ s < reach
  /\ reach' = s
  /\ UNCHANGED <<engine, net, al, asked, history>>

Replug ==
  /\ reach < N
  /\ reach' = N
  /\ UNCHANGED <<engine, net, al, asked, history>>

-----------------------------------------------------------------------------

\* Cyclic::new: every slave has been brought to SAFE-OP by the worker.
Init ==
  /\ phase = "Priming" /\ goodCycles = 0
  /\ reachedOp = [s \in Slaves |-> FALSE]
  /\ opCursor = 0 /\ opCtrlPhase = TRUE
  /\ monToggle = TRUE /\ monCursor = 0
  /\ outstanding = FALSE /\ appended = << >>
  /\ wire = << >> /\ rx = << >>
  /\ al = [s \in Slaves |-> "SAFEOP"] /\ asked = {} /\ reach = N
  /\ faults = 0 /\ everOp = {} /\ slipped = {}

SlaveStep(s) ==
  \/ EnterOp(s)
  \/ RefuseOp(s)
  \/ DropOp(s)
  \/ PowerCycle(s)
  \/ Unplug(s)

Next ==
  \/ Tick
  \/ Return
  \/ Lose
  \/ Disturb
  \/ Replug
  \/ \E s \in Slaves : SlaveStep(s)

Spec == Init /\ [][Next]_vars

-----------------------------------------------------------------------------
(* Properties.  The liveness properties are for a bus that misbehaves only  *)
(* finitely often: see MCCyclic.                                            *)

\* Every variable of cyclic.rs keeps its type; op_cursor may be one past the
\* last slave, mon_cursor never is.
TypeOK ==
  /\ phase \in Phases
  /\ goodCycles \in 0 .. PrimingCycles
  /\ reachedOp \in [Slaves -> BOOLEAN]
  /\ opCursor \in 0 .. N
  /\ opCtrlPhase \in BOOLEAN
  /\ monToggle \in BOOLEAN
  /\ monCursor \in Slaves
  /\ outstanding \in BOOLEAN
  /\ appended \in Seq(Datagram) /\ Len(appended) <= 2
  /\ wire \in Seq(Frame) /\ Len(wire) <= TxLen
  /\ rx \in Seq(Reply \cup Stray) /\ Len(rx) <= RxLen
  /\ al \in [Slaves -> AlStates]
  /\ asked \subseteq Slaves
  /\ reach \in 0 .. N
  /\ faults \in 0 .. MaxFaults
  /\ everOp \subseteq Slaves
  /\ slipped \subseteq Slaves

\* receive() matches one index byte: whatever was lost, late or stray, the
\* reply it decodes with the current "appended" list answers that very frame.
ReplyIsCurrent == Matched => rx[Drained].lag = 0

\* process(): steady operation is entered only when every slave has really
\* been in OP, however replies were lost, delayed or shifted in the ring.
OperationalIsGenuine == phase = "Operational" => everOp = Slaves

\* append_op_request(): a slave is sent the OP request only after every
\* earlier slave of the ring has been in OP.
OpInRingOrder == \A s \in asked \cup everOp : \A t \in 0 .. s-1 : t \in everOp

\* decode_appended(): a read that did not reach its slave, or a stale one,
\* never faults the bus: some slave did refuse OP or leave it.
FaultJustified == phase = "Faulted" => slipped # {}

\* process(): the phases are taken in order and Faulted is left by no reply.
PhaseOrder ==
  [][phase' # phase => <<phase, phase'>> \in
       {<<"Priming", "RequestingOp">>, <<"RequestingOp", "Operational">>,
        <<"RequestingOp", "Faulted">>, <<"Operational", "Faulted">>}]_phase

\* receive(): once the bus behaves and has a link, the drain catches up with what was left
\* in the ring and replies are processed again, for ever.
RepliesResume == <>[](reach > 0) => []<>Matched

\* RequestingOp is left: a bus whose slaves stay reachable ends its
\* bring-up, in OP or Faulted.
BringUpEnds ==
  <>[](Answering = Slaves) => <>(phase \in {"Operational", "Faulted"})

\* append_monitor(): a slave that leaves OP while the bus is operational is
\* noticed by the round-robin AL poll.
DropDetected ==
  \A s \in Slaves :
    (phase = "Operational" /\ al[s] # "OP")
      ~> (phase = "Faulted" \/ al[s] = "OP" \/ s \notin Answering)
=============================================================================
