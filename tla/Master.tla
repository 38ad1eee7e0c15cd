------------------------------- MODULE Master -------------------------------
(***************************************************************************)
(* The master (master.rs) and the worker that drives it (main.rs): one     *)
(* command at a time, one datagram per step, on a bus whose slaves change  *)
(* state on their own, lose power and come back; and the PIT, which may    *)
(* use the device only while the worker does not.                          *)
(*                                                                         *)
(* A step is one datagram: it reaches the slaves or not, its reply comes   *)
(* back or the Pump gives up.  What a late reply could do to the next      *)
(* request is not modelled here.  Lines of output are left out.            *)
(***************************************************************************)
EXTENDS SlaveConfig, BusScan, DcClock, FiniteSets

CONSTANTS
  N,           \* slaves of the BUS table, at the ring positions 0 .. N-1
  RefSlave,    \* BUS.ref_clock_slave
  CoeSlaves,   \* slaves whose EEPROM lists CoE
  Commands,    \* commands typed: Rescan, States, Sdo, Start, Stop
  Targets,     \* AL states asked for with "states"
  MaxMishaps   \* bound: slaves power-cycled, slipping, cables cut

ASSUME MasterAssumption ==
  /\ N \in Nat \ {0} /\ RefSlave \in Nat /\ CoeSlaves \subseteq Nat
  /\ Targets \subseteq AlStates
  /\ MaxMishaps \in Nat

UserSdo == <<"Sdo", 1>>   \* a transfer typed by the operator

Bus == 0 .. N-1

VARIABLES
  slaves,    \* Master::slaves: what the scan has found, by ring position
  op,        \* Master::op
  cyclic,    \* Master::cyclic: the stations it drives, <<>> if there is none
  pit        \* the PIT runs

master == <<slaves, op, cyclic, pit>>

VARIABLES
  station,   \* station address of every slave on the bus, 0 if it has none
  al,        \* AL status of every slave
  request,   \* the AL state it has been asked for and has not settled
  inbox,     \* whose request the mailbox to the slave holds
  outbox,    \* whose answer the mailbox from the slave holds
  reach      \* slaves from "reach" on are cut off

bus == <<station, al, request, inbox, outbox, reach>>

VARIABLES
  mishaps,   \* bounded by MaxMishaps
  conf,      \* history: what this bring-up, until its engine is stopped, has
             \* written to each slave
  lapsed     \* history: slaves that lost power since their address was set or
             \* their configuration began

history == <<mishaps, conf, lapsed>>
vars == <<master, bus, history>>

-----------------------------------------------------------------------------
(* The bus: which slaves take a datagram, what it does, what they reply *)

Reached == {p \in Bus : p < reach}

HasMailbox(p) == al[p].state # "INIT"

\* What a mailbox holds: "own", the request or the answer of the transfer under
\* way; "old", of one that was given up; "late", of one given up before SM1 was
\* written anew, and not answered by then, or of one that took such an answer for
\* its own.
Letters == {"none", "own", "old", "late"}
Empty(box, p) == box[p] = "none"

\* A slave takes a write to a full mailbox, or a read of an empty one, for
\* an error and leaves the datagram as it is.
Takes(p, dg) ==
  CASE dg.cmd \in {"BRD", "BWR"} -> TRUE
    [] dg.cmd = "APWR"           -> p \in dg.to
    [] OTHER ->
         /\ station[p] \in dg.to
         /\ dg.reg = "RX_MBOX" => HasMailbox(p) /\ Empty(inbox, p)
         /\ dg.reg = "TX_MBOX" => HasMailbox(p) /\ ~Empty(outbox, p)

Takers(dg) == {p \in Reached : Takes(p, dg)}

\* A frame that asks two slaves is good only if each has answered.
Wkc(dg) ==
  IF Cardinality(dg.to) <= 1 THEN Cardinality(Takers(dg))
  ELSE IF \A s \in dg.to : Cardinality({p \in Takers(dg) : station[p] = s}) = 1
       THEN 1 ELSE 0

\* What a slave answers.
Data(p, dg) ==
  CASE dg.reg = "AL_STATUS" -> {[al |-> al[p].state, err |-> al[p].err]}
    [] dg.reg = "SII_CONTROL" /\ dg.cmd = "FPRD" ->
         {"busy", "error", IF p \in CoeSlaves THEN "coe" ELSE "no coe"}
    [] dg.reg = "SM1_STATUS" -> {IF Empty(outbox, p) THEN "empty" ELSE "full"}
    [] dg.reg = "TX_MBOX" -> [accepted : BOOLEAN]
    [] OTHER -> {"-"}

Replies(dg) ==
  IF Takers(dg) = {} THEN {Reply(0, "-")}
  ELSE {Reply(Wkc(dg), d) : d \in UNION {Data(p, dg) : p \in Takers(dg)}}

Written(f, S, val) == [p \in Bus |-> IF p \in S THEN val ELSE f[p]]

\* A latched error makes a slave deaf to requests that do not acknowledge it.
Hears(p, val) == val.ack \/ ~al[p].err

\* A transfer has sent its request and waits for the answer.
Transferring(o) ==
  CASE o.kind = "Sdo"   -> o.pre.at = "Done" /\ o.coe.at # "WriteRequest"
    [] o.kind = "Start" -> o.cfg.at \in CoePhases /\ o.cfg.coe.at # "WriteRequest"
    [] OTHER            -> FALSE

\* What is left in a mailbox when its transfer is over is an old letter, unless
\* a late answer has been read in its place.
Aged(box) ==
  [p \in Bus |-> IF box[p] = "own" /\ ~Transferring(op')
                 THEN IF outbox[p] = "late" THEN "late" ELSE "old"
                 ELSE box[p]]

\* What the slaves in S, which have taken the datagram, do.  Writing SM1 empties
\* the mailbox it guards, as the master relies on (docs/ethercat-v1-followups.md);
\* a request already taken is still served.
Executed(dg, S) ==
  LET asks(reg) == dg.reg = reg /\ dg.cmd \in {"BWR", "APWR", "FPWR"}
      resets == asks("CONFIG") /\ dg.val = <<"MboxSm1", 1>>
      hear == IF asks("AL_CONTROL") THEN {p \in S : Hears(p, dg.val)} ELSE {}
  IN /\ station' = IF asks("STATION_ADDR") THEN Written(station, S, dg.val) ELSE station
     /\ request' = IF asks("AL_CONTROL") THEN Written(request, hear, dg.val.state) ELSE request
     /\ al' = [p \in Bus |-> [al[p] EXCEPT !.err = @ /\ p \notin hear]]
     /\ inbox' = Aged(CASE asks("RX_MBOX") -> Written(inbox, S, "own")
                        [] resets -> Written(inbox, {p \in S : inbox[p] = "old"}, "late")
                        [] OTHER  -> inbox)
     /\ outbox' = Aged(IF dg.reg = "TX_MBOX" \/ resets THEN Written(outbox, S, "none")
                                                     ELSE outbox)
     /\ UNCHANGED reach

\* The history of the configuration, S being the slaves that took the datagram.
\* It is forgotten when a bring-up fails and when its engine is stopped.
Recorded(dg, S) ==
  LET restarts == dg.reg = "CONFIG" /\ dg.val = <<"ClearFmmus", 1>>
      gone == op'.kind = "none" /\ cyclic' = <<>>
  IN /\ conf' = [p \in Bus |-> CASE gone -> {}
                                 [] ~gone /\ p \in S /\ dg.reg \in {"CONFIG", "RX_MBOX"}
                                      -> conf[p] \cup {dg.val}
                                 [] OTHER -> conf[p]]
     /\ lapsed' = IF restarts \/ dg.reg = "STATION_ADDR" THEN lapsed \ S ELSE lapsed

-----------------------------------------------------------------------------
(* Operations: what the master begins (Master::begin) *)

Idle == [kind |-> "none"]

\* Pre-op state of an SDO: the slave is kept where the master believes it is.
SdoState(s) == IF NeedsMailbox(s.al) THEN s.al ELSE "PREOP"

Follower(pos) == RefSlave < Len(slaves) /\ RefSlave # pos

Begin(o) == op.kind = "none" /\ op' = o /\ UNCHANGED <<cyclic, bus, history>>

\* Mutant: the list of the last scan is kept.
RescanKeepsList ==
  /\ "Rescan" \in Commands /\ cyclic = <<>>
  /\ Begin([kind |-> "Rescan", scan |-> Scan])
  /\ UNCHANGED <<slaves, pit>>

\* A command that drives the bus is refused while the cyclic engine has it.
Rescan ==
  /\ "Rescan" \in Commands /\ cyclic = <<>>
  /\ slaves' = <<>>
  /\ Begin([kind |-> "Rescan", scan |-> Scan])
  /\ UNCHANGED pit

SetState ==
  /\ "States" \in Commands /\ cyclic = <<>>
  /\ \E k \in DOMAIN slaves, target \in Targets :
       Begin([kind |-> "State", pos |-> k - 1, target |-> target,
              pre |-> PreOp(target, NeedsMailbox(target))])
  /\ UNCHANGED <<slaves, pit>>

Sdo ==
  /\ "Sdo" \in Commands /\ cyclic = <<>>
  /\ \E k \in {j \in DOMAIN slaves : slaves[j].coe} :
       Begin([kind |-> "Sdo", pos |-> k - 1, target |-> SdoState(slaves[k]),
              pre |-> PreOp(SdoState(slaves[k]), TRUE), coe |-> Transfer])
  /\ UNCHANGED <<slaves, pit>>

Start ==
  /\ "Start" \in Commands /\ cyclic = <<>> /\ slaves # <<>>
  /\ Begin([kind |-> "Start", pos |-> 0, cfg |-> Config(Follower(0))])
  /\ UNCHANGED <<slaves, pit>>

\* Mutant: the PIT runs on while the slaves are brought down.
StopLeavesPit ==
  /\ "Stop" \in Commands
  /\ Begin([kind |-> "Stop", idx |-> 1, change |-> Change("PREOP")])
  /\ UNCHANGED <<slaves, pit>>

\* The PIT is stopped before the operation begins.
Stop ==
  /\ "Stop" \in Commands
  /\ pit' = FALSE
  /\ Begin([kind |-> "Stop", idx |-> 1, change |-> Change("PREOP")])
  /\ UNCHANGED slaves

-----------------------------------------------------------------------------
(* Operations: what a reply does (Master::drive) *)

\* The datagram the operation waits for.
OpRequest ==
  CASE op.kind = "Rescan" -> ScanRequest(op.scan)
    [] op.kind = "State"  -> PreOpRequest(op.pre, Station(op.pos))
    [] op.kind = "Sdo"    ->
         IF op.pre.at = "Done" THEN TransferRequest(op.coe, Station(op.pos), UserSdo)
                               ELSE PreOpRequest(op.pre, Station(op.pos))
    [] op.kind = "Start"  -> ConfigRequest(op.cfg, Station(op.pos), Station(RefSlave))
    [] op.kind = "Stop"   -> ChangeRequest(op.change, cyclic[op.idx])

Tracked(S, target) ==
  [k \in DOMAIN slaves |-> IF k - 1 \in S THEN [slaves[k] EXCEPT !.al = target]
                                          ELSE slaves[k]]

RescanAfter(r) ==
  LET f == ScanAfter(op.scan, r)
  IN /\ op' = IF f.at \in Ended THEN Idle ELSE [op EXCEPT !.scan = f]
     /\ slaves' = IF Completes(op.scan, r)
                  THEN Append(slaves, [al |-> op.scan.al, coe |-> r.data = "coe"])
                  ELSE slaves
     /\ UNCHANGED <<cyclic, pit>>

StateAfter(r) ==
  LET f == PreOpAfter(op.pre, r)
  IN /\ op' = IF f.at \in Ended THEN Idle ELSE [op EXCEPT !.pre = f]
     /\ slaves' = IF f.at = "Done" THEN Tracked({op.pos}, op.target) ELSE slaves
     /\ UNCHANGED <<cyclic, pit>>

\* The transfer follows the state.
SdoPreAfter(r) ==
  LET f == PreOpAfter(op.pre, r)
  IN /\ op.pre.at # "Done"
     /\ op' = IF f.at = "Failed" THEN Idle ELSE [op EXCEPT !.pre = f]
     /\ slaves' = IF f.at = "Done" THEN Tracked({op.pos}, op.target) ELSE slaves
     /\ UNCHANGED <<cyclic, pit>>

SdoCoeAfter(r) ==
  LET f == TransferAfter(op.coe, r)
  IN /\ op.pre.at = "Done"
     /\ op' = IF f.at \in Ended THEN Idle ELSE [op EXCEPT !.coe = f]
     /\ UNCHANGED <<slaves, cyclic, pit>>

\* The slave is configured: on to the next, or the engine is made.
StartNext ==
  IF op.pos + 1 < N
  THEN /\ op' = [op EXCEPT !.pos = @ + 1, !.cfg = Config(Follower(op.pos + 1))]
       /\ UNCHANGED <<slaves, cyclic>>
  ELSE /\ op' = [kind |-> "Launch"]
       /\ slaves' = Tracked(Bus, "SAFEOP")
       /\ cyclic' = [k \in 1 .. N |-> Station(k - 1)]

StartAfter(r) ==
  LET f == ConfigAfter(op.cfg, r)
  IN /\ CASE f.at = "Done"   -> StartNext
          [] f.at = "Failed" -> op' = Idle /\ UNCHANGED <<slaves, cyclic>>
          [] OTHER           -> op' = [op EXCEPT !.cfg = f] /\ UNCHANGED <<slaves, cyclic>>
     /\ UNCHANGED pit

\* Mutant: an engine with a slave that cannot be reached is kept.
StopAfterInsists(r) ==
  LET f == ChangeAfter(op.change, r)
  IN /\ IF f.at = "Failed" THEN op' = Idle /\ cyclic' = cyclic
        ELSE IF f.at # "Done" THEN op' = [op EXCEPT !.change = f] /\ cyclic' = cyclic
        ELSE IF op.idx < Len(cyclic)
        THEN /\ op' = [op EXCEPT !.idx = @ + 1, !.change = Change("PREOP")]
             /\ cyclic' = cyclic
        ELSE op' = Idle /\ cyclic' = <<>>
     /\ slaves' = IF f.at = "Done" THEN Tracked({cyclic[op.idx] - 1}, "PREOP") ELSE slaves
     /\ UNCHANGED <<pit>>

\* Best effort: a slave that fails is skipped.
StopAfter(r) ==
  LET f == ChangeAfter(op.change, r)
  IN /\ IF f.at \notin Ended THEN op' = [op EXCEPT !.change = f] /\ cyclic' = cyclic
        ELSE IF op.idx < Len(cyclic)
        THEN /\ op' = [op EXCEPT !.idx = @ + 1, !.change = Change("PREOP")]
             /\ cyclic' = cyclic
        ELSE op' = Idle /\ cyclic' = <<>>
     /\ slaves' = IF f.at = "Done" THEN Tracked({cyclic[op.idx] - 1}, "PREOP") ELSE slaves
     /\ UNCHANGED <<pit>>

OpAfter(r) ==
  \/ op.kind = "Rescan" /\ RescanAfter(r)
  \/ op.kind = "State"  /\ StateAfter(r)
  \/ op.kind = "Sdo"    /\ SdoPreAfter(r)
  \/ op.kind = "Sdo"    /\ SdoCoeAfter(r)
  \/ op.kind = "Start"  /\ StartAfter(r)
  \/ op.kind = "Stop"   /\ StopAfter(r)

-----------------------------------------------------------------------------
(* The worker: one datagram of the operation per step *)

\* The slave to configure is looked up when its turn comes.
Missing == op.kind = "Start" /\ op.pos >= Len(slaves)

Waiting ==
  \/ op.kind \in {"Rescan", "State", "Sdo"}
  \/ op.kind = "Start" /\ ~Missing
  \/ op.kind = "Stop" /\ cyclic # <<>>

Mishap == mishaps < MaxMishaps /\ mishaps' = mishaps + 1

Answered ==
  /\ Waiting /\ reach > 0
  /\ \E r \in Replies(OpRequest) : OpAfter(r)
  /\ Executed(OpRequest, Takers(OpRequest)) /\ Recorded(OpRequest, Takers(OpRequest))
  /\ UNCHANGED mishaps

\* No slave has seen it: the datagram was lost, or the cable is cut.
LostOut ==
  /\ Waiting /\ OpAfter(NoReply)
  /\ IF reach = 0 THEN UNCHANGED mishaps ELSE Mishap
  /\ Executed(OpRequest, {}) /\ Recorded(OpRequest, {})

\* The slaves have seen it: the reply was lost.
LostBack ==
  /\ Waiting /\ reach > 0 /\ OpAfter(NoReply)
  /\ Executed(OpRequest, Takers(OpRequest)) /\ Recorded(OpRequest, Takers(OpRequest))
  /\ Mishap

\* ConfigSeq: a slave that is not in the list.
StartMissing ==
  /\ Missing /\ op' = Idle
  /\ conf' = [p \in Bus |-> {}]
  /\ UNCHANGED <<slaves, cyclic, pit, bus, mishaps, lapsed>>

\* DownSeq with nothing to bring down.
StopIdle ==
  /\ op.kind = "Stop" /\ cyclic = <<>> /\ op' = Idle
  /\ UNCHANGED <<slaves, cyclic, pit, bus, history>>

\* cycle_timer::start
Launch ==
  /\ op.kind = "Launch" /\ op' = Idle /\ pit' = TRUE
  /\ UNCHANGED <<slaves, cyclic, bus, history>>

Worker == Answered \/ LostOut \/ LostBack \/ StartMissing \/ StopIdle \/ Launch

\* The engine in the PIT interrupt asks its slaves for OP.
CyclicTick ==
  /\ pit /\ cyclic # <<>>
  /\ \E p \in Reached :
       /\ \E k \in DOMAIN cyclic : cyclic[k] = station[p]
       /\ Hears(p, [state |-> "OP", ack |-> FALSE])
       /\ request' = [request EXCEPT ![p] = "OP"]
  /\ UNCHANGED <<master, station, al, inbox, outbox, reach, history>>

-----------------------------------------------------------------------------
(* The slaves and their cables *)

Rank(state) == CASE state = "INIT" -> 0 [] state = "PREOP" -> 1
                 [] state = "SAFEOP" -> 2 [] state = "OP" -> 3

\* Going to INIT empties the mailboxes.
Entered(p, state, err) ==
  /\ al' = [al EXCEPT ![p] = [state |-> state, err |-> err]]
  /\ request' = [request EXCEPT ![p] = state]
  /\ inbox' = [inbox EXCEPT ![p] = IF state = "INIT" THEN "none" ELSE @]
  /\ outbox' = [outbox EXCEPT ![p] = IF state = "INIT" THEN "none" ELSE @]

\* A slave goes down by any number of states and up by one.
Settle(p) ==
  /\ request[p] # al[p].state
  /\ Rank(request[p]) <= Rank(al[p].state) + 1
  /\ Entered(p, request[p], FALSE)
  /\ UNCHANGED <<master, station, reach, history>>

\* A way up that it refuses, or that skips a state, is an error.
Refuse(p) ==
  /\ Rank(request[p]) > Rank(al[p].state)
  /\ Entered(p, al[p].state, TRUE)
  /\ UNCHANGED <<master, station, reach, history>>

\* Out of OP on its own (synchronisation, watchdog).
Slip(p) ==
  /\ al[p].state = "OP" /\ Mishap
  /\ Entered(p, "SAFEOP", TRUE)
  /\ UNCHANGED <<master, station, reach, conf, lapsed>>

PowerCycle(p) ==
  /\ Mishap
  /\ Entered(p, "INIT", FALSE)
  /\ station' = [station EXCEPT ![p] = 0]
  /\ conf' = [conf EXCEPT ![p] = {}]
  /\ lapsed' = lapsed \cup {p}
  /\ UNCHANGED <<master, reach>>

\* The mailbox service of a slave answers once the last answer is read.
Serve(p) ==
  /\ HasMailbox(p) /\ ~Empty(inbox, p) /\ Empty(outbox, p)
  /\ inbox' = [inbox EXCEPT ![p] = "none"]
  /\ outbox' = [outbox EXCEPT ![p] = inbox[p]]
  /\ UNCHANGED <<master, station, al, request, reach, history>>

Cut ==
  /\ Mishap
  /\ reach' \in 0 .. reach - 1
  /\ UNCHANGED <<master, station, al, request, inbox, outbox, conf, lapsed>>

Mend ==
  /\ reach < N /\ reach' = N
  /\ UNCHANGED <<master, station, al, request, inbox, outbox, history>>

Environment ==
  \/ \E p \in Bus : Settle(p) \/ Refuse(p) \/ Slip(p) \/ PowerCycle(p) \/ Serve(p)
  \/ Cut \/ Mend

-----------------------------------------------------------------------------

Init ==
  /\ slaves = <<>> /\ op = Idle /\ cyclic = <<>> /\ pit = FALSE
  /\ station = [p \in Bus |-> 0]
  /\ al = [p \in Bus |-> [state |-> "INIT", err |-> FALSE]]
  /\ request = [p \in Bus |-> "INIT"]
  /\ inbox = [p \in Bus |-> "none"] /\ outbox = [p \in Bus |-> "none"]
  /\ reach = N
  /\ mishaps = 0 /\ conf = [p \in Bus |-> {}] /\ lapsed = {}

Next ==
  \/ Rescan \/ SetState \/ Sdo \/ Start \/ Stop
  \/ Worker \/ CyclicTick \/ Environment

Spec == Init /\ [][Next]_vars /\ WF_vars(Worker)

-----------------------------------------------------------------------------
(* Properties *)

Kinds == {"none", "Rescan", "State", "Sdo", "Start", "Launch", "Stop"}

\* The list never has more slaves than the bus, an engine drives all of its
\* slaves or there is none, and the tracked states are AL states.
TypeOK ==
  /\ slaves \in Seq([al : AlStates, coe : BOOLEAN]) /\ Len(slaves) <= N
  /\ op.kind \in Kinds
  /\ cyclic \in {<<>>, [k \in 1 .. N |-> Station(k - 1)]}
  /\ pit \in BOOLEAN
  /\ station \in [Bus -> 0 .. N]
  /\ al \in [Bus -> [state : AlStates, err : BOOLEAN]]
  /\ request \in [Bus -> AlStates]
  /\ {inbox, outbox} \subseteq [Bus -> Letters]
  /\ reach \in 0 .. N /\ mishaps \in 0 .. MaxMishaps
  /\ lapsed \subseteq Bus

\* The device has one user: when the PIT runs, there is an engine to tick and
\* the worker has no operation on the bus (main.rs starts the timer after
\* "start" and stops it before "stop" begins).
OneUser == pit => op.kind = "none" /\ cyclic # <<>>

\* What a slave must have been written before the engine drives it.
Configuration(p) ==
  FullyConfigured
  \cup (IF Work["DcCycle"] = 1 /\ RefSlave \in Bus \ {p}
        THEN {<<"CompWriteDelay", 1>>, <<"CompWriteOffset", 1>>} ELSE {})

\* An engine drives only slaves that have been configured from end to end, the
\* clocks of the followers compensated, since they last lost power: a lost
\* datagram, a refused state or a slave missing from the list never leads to
\* one that is half configured (ConfigSeq, FsmSlaveConfig).
StartedIsConfigured ==
  cyclic # <<>> => \A p \in Bus \ lapsed : Configuration(p) \subseteq conf[p]

\* A listed slave answers to the station address the master uses for its index,
\* whatever scans failed or were cut short before (begin, ScanFsm).
ListedIsAddressed ==
  \A k \in DOMAIN slaves :
    k - 1 \in Bus /\ (station[k - 1] = Station(k - 1) \/ k - 1 \in lapsed)

\* When nothing goes wrong on the bus, a slave is tracked in a new state only
\* when it is in that state (update_state follows AL status, not AL control).
ReportedIsReached ==
  [][\A k \in DOMAIN slaves \cap DOMAIN slaves' :
       slaves'[k].al # slaves[k].al => al'[k - 1].state = slaves'[k].al \/ mishaps > 0]_vars

\* While a transfer waits for its answer, no answer left over from a transfer
\* that was given up is in the mailbox or can come into it, except to a request
\* the slave had still not answered when SM1 was set up for this one.  Where that
\* happens every later transfer of the same bring-up takes the answer of the one
\* before it, until SM1 is set up again.
\* parse_sdo_response compares nothing with the request: what keeps transfers
\* apart is that PreOp and FsmSlaveConfig write SM1 before the first.
AnswerIsOwn ==
  Transferring(op) =>
    \A p \in Bus : station[p] = Station(op.pos) => "old" \notin {inbox[p], outbox[p]}

\* The clocks of the slaves an engine drives: the offset, the delay and the start
\* of SYNC0 that the bring-up has computed put the follower on the time and the
\* grid of the reference, whatever their clocks showed (FsmDc::step, cyclic_start,
\* propagation_delay).
ClocksAligned == cyclic # <<>> => ClocksAgree /\ PulsesAgree /\ DelayIsTrue

\* Every operation ends, whatever the slaves answer, refuse or leave unanswered
\* (bounded waits, one acknowledgement per change): the command line is never
\* blocked for good.
OpEnds == op.kind # "none" ~> op.kind = "none"

\* "stop" always gives the bus back, also with slaves that are gone (DownSeq).
StopTearsDown == op.kind = "Stop" ~> cyclic = <<>>
=============================================================================
