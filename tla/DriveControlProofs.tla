------------------------- MODULE DriveControlProofs -------------------------
(***************************************************************************)
(* DriveControl for every set of drives and every watchdog limit: the      *)
(* types, and the justification of every enabling controlword.             *)
(***************************************************************************)
EXTENDS DriveControl, TLAPS

\* The sequencer writes controlwords, and enables only when asked to.
LEMMA NextControlwordSound ==
  ASSUME NEW sw \in Statuswords, NEW cmd \in Intent, NEW high \in BOOLEAN
  PROVE  /\ NextControlword(sw, cmd, high) \in Controlwords
         /\ NextControlword(sw, cmd, high) = "ENABLE_OP" => Asks(cmd)
  BY DEF NextControlword, Controlwords, Statuswords, DriveStates, Intent, Asks

\* A controlword takes a drive from state to state.
LEMMA MovedType ==
  ASSUME NEW s \in DriveStates, NEW cw \in Controlwords, NEW high \in BOOLEAN
  PROVE  Moved(s, cw, high) \in DriveStates
  BY DEF Moved, Controlwords, DriveStates

\* The counter stays below its limit and grows by one at a time.
LEMMA StalledType ==
  ASSUME TypeOK
  PROVE  /\ Stalled \in 0 .. Limit
         /\ beat => Stalled = 0
         /\ ~beat /\ outValid => Stalled = Lesser(stall + 1, Limit)
  BY LimitAssumption DEF TypeOK, Stalled, Lesser

\* The command of a tick is an intent that asks for motion only when the host
\* does and nothing triggers the safe state.
LEMMA CommandSound ==
  ASSUME TypeOK, stall' \in Nat, upset' \in BOOLEAN
  PROVE  /\ Command \in Intent
         /\ Asks(Command) => Asks(flags) /\ stall' < Limit /\ ~upset'
<1> DEFINE quick == flags.quick_stop \/ stall' >= Limit \/ upset'
<1>1. flags \in Intent
  BY DEF TypeOK
<1>2. Command = [flags EXCEPT !.quick_stop = quick]
  BY DEF Command
<1>3. quick \in BOOLEAN
  BY <1>1 DEF Intent
<1>4. /\ Command \in Intent
      /\ Command.enable = flags.enable
      /\ Command.quick_stop = quick
  BY <1>1, <1>2, <1>3 DEF Intent
<1>5. ASSUME Asks(Command) PROVE Asks(flags) /\ stall' < Limit /\ ~upset'
  <2>1. Asks(flags) /\ ~quick
    BY <1>1, <1>4, <1>5 DEF Asks
  <2>2. ~upset' /\ ~(stall' >= Limit)
    BY <2>1
  <2> HIDE DEF quick
  <2> QED
    BY <2>1, <2>2, LimitAssumption
<1> HIDE DEF quick
<1> QED
  BY <1>4, <1>5

\* The initial state is well typed.
LEMMA TypeInit == Init => TypeOK
<1> SUFFICES ASSUME Init PROVE TypeOK
  OBVIOUS
<1>1. flags \in Intent
  BY DEF Init, NoIntent, Intent
<1>2. stall \in 0 .. Limit /\ sinceAsk \in 0 .. Limit + 1
  BY LimitAssumption DEF Init
<1>3. /\ statusword \in [Drives -> Statuswords] /\ answer \in [Drives -> Statuswords]
      /\ state \in [Drives -> DriveStates]
      /\ controlword \in [Drives -> Controlwords]
  BY DEF Init, Statuswords, DriveStates, Controlwords
<1>4. frHigh \in [Drives -> BOOLEAN] /\ level \in [Drives -> BOOLEAN]
  BY DEF Init
<1> QED
  BY <1>1, <1>2, <1>3, <1>4 DEF Init, TypeOK

\* A tick keeps the types.
LEMMA TypeTick == TypeOK /\ Tick => TypeOK'
<1> SUFFICES ASSUME TypeOK, Tick PROVE TypeOK'
  OBVIOUS
<1>1. /\ stall' \in 0 .. Limit /\ upset' \in BOOLEAN
      /\ beat' \in BOOLEAN /\ wire' \in {"none", "out", "back"}
  BY StalledType DEF Tick
<1>2. sinceAsk' \in 0 .. Limit + 1
  BY LimitAssumption DEF Tick, TypeOK, Lesser
<1>3. statusword' \in [Drives -> Statuswords]
  BY DEF Tick, TypeOK
<1>4. Command \in Intent
  BY <1>1, CommandSound, LimitAssumption
<1>5. /\ controlword' \in [Drives -> Controlwords]
      /\ frHigh' \in [Drives -> BOOLEAN]
  <2>1. CASE ~outValid
    BY <2>1 DEF Tick, TypeOK
  <2>2. CASE outValid
    <3>1. \A d \in Drives :
            NextControlword(statusword'[d], Command, frHigh[d]) \in Controlwords
      BY <1>3, <1>4, NextControlwordSound DEF TypeOK
    <3>2. controlword' = [d \in Drives |->
            NextControlword(statusword'[d], Command, frHigh[d])]
      BY <2>2 DEF Tick
    <3>3. \A d \in Drives : FrHigh(statusword'[d], Command, frHigh[d]) \in BOOLEAN
      BY <1>4 DEF FrHigh, Intent
    <3>4. frHigh' = [d \in Drives |-> FrHigh(statusword'[d], Command, frHigh[d])]
      BY <2>2 DEF Tick
    <3> QED
      BY <3>1, <3>2, <3>3, <3>4
  <2> QED
    BY <2>1, <2>2
<1> QED
  BY <1>1, <1>2, <1>3, <1>5 DEF Tick, TypeOK

\* A passing frame keeps the types.
LEMMA TypePass == ASSUME TypeOK, NEW awake \in SUBSET Drives, Pass(awake) PROVE TypeOK'
<1>1. \A d \in Drives : Moved(state[d], controlword[d], level[d]) \in DriveStates
  BY MovedType DEF TypeOK
<1>2. state' \in [Drives -> DriveStates]
  BY <1>1 DEF Pass, TypeOK
<1>3. level' \in [Drives -> BOOLEAN]
  BY DEF Pass, TypeOK
<1>4. answer' \in [Drives -> Statuswords] /\ wire' \in {"none", "out", "back"}
  BY DEF Pass, TypeOK, Statuswords
<1> QED
  BY <1>2, <1>3, <1>4 DEF Pass, TypeOK, bridge, engine

\* Every step keeps the types.
LEMMA TypeNext == TypeOK /\ [Next]_vars => TypeOK'
<1> SUFFICES ASSUME TypeOK, [Next]_vars PROVE TypeOK'
  OBVIOUS
<1>1. ASSUME NEW intent \in Intents, NEW fresh \in BOOLEAN, Ingest(intent, fresh)
      PROVE TypeOK'
  BY <1>1, IntentAssumption, LimitAssumption DEF Ingest, TypeOK, engine, bus
<1>2. CASE Tick
  BY <1>2, TypeTick
<1>3. CASE Start
  BY <1>3 DEF Start, TypeOK, bridge, Statuswords, Controlwords
<1>4. CASE Stop
  BY <1>4 DEF Stop, TypeOK, bridge
<1>5. ASSUME NEW awake \in SUBSET Drives, Pass(awake) PROVE TypeOK'
  BY <1>5, TypePass
<1>6. CASE Lose
  BY <1>6 DEF Lose, TypeOK, bridge, engine
<1>7. ASSUME NEW d \in Drives, DriveStep(d) PROVE TypeOK'
  BY <1>7 DEF DriveStep, DriveFaults, RampEnds, OutputsExpire, TypeOK, bridge,
              engine, DriveStates
<1>8. CASE UNCHANGED vars
  BY <1>8 DEF vars, bridge, engine, bus, TypeOK
<1> QED
  BY <1>1, <1>2, <1>3, <1>4, <1>5, <1>6, <1>7, <1>8 DEF Next, BusStep

-----------------------------------------------------------------------------

\* While the flags ask for motion, the stall counter of the bridge keeps pace
\* with the ticks since a frame said so, one behind at most.
AgeKept ==
  outValid /\ Asks(flags) /\ sinceAsk > 0 => ~beat /\ sinceAsk <= stall + 1

\* Before the first frame the sequencer has not written a controlword.
HostFirst == ~outValid => \A d \in Drives : controlword[d] # "ENABLE_OP"

IInv == TypeOK /\ AgeKept /\ HostFirst /\ EnableIsJustified

\* The two facts about the host that every step keeps.
LEMMA AgeNext == ASSUME IInv, [Next]_vars PROVE AgeKept'
<1> USE DEF IInv
<1>1. ASSUME NEW intent \in Intents, NEW fresh \in BOOLEAN, Ingest(intent, fresh)
      PROVE AgeKept'
  BY <1>1 DEF Ingest, AgeKept
<1>2. CASE Tick
  <2>1. sinceAsk' = Lesser(sinceAsk + 1, Limit + 1) /\ ~beat' /\ stall' = Stalled
    BY <1>2 DEF Tick
  <2>2. UNCHANGED <<flags, outValid>>
    BY <1>2 DEF Tick
  <2>3. sinceAsk \in Nat /\ stall \in 0 .. Limit /\ Limit \in Nat
    BY LimitAssumption DEF TypeOK
  <2>4. ASSUME outValid, Asks(flags) PROVE sinceAsk' <= stall' + 1
    <3>1. CASE sinceAsk = 0
      BY <2>1, <2>3, <3>1, StalledType DEF Lesser
    <3>2. CASE sinceAsk > 0
      <4>1. ~beat /\ sinceAsk <= stall + 1
        BY <2>4, <3>2 DEF AgeKept
      <4>2. stall' = Lesser(stall + 1, Limit)
        BY <2>1, <2>4, <4>1, StalledType
      <4> QED
        BY <2>1, <2>3, <4>1, <4>2 DEF Lesser
    <3> QED
      BY <2>3, <3>1, <3>2
  <2> QED
    BY <2>1, <2>2, <2>4 DEF AgeKept, Asks
<1>3. CASE Start \/ Stop \/ Lose
  BY <1>3 DEF Start, Stop, Lose, bridge, AgeKept, Asks
<1>4. ASSUME NEW awake \in SUBSET Drives, Pass(awake) PROVE AgeKept'
  BY <1>4 DEF Pass, bridge, AgeKept, Asks
<1>5. ASSUME NEW d \in Drives, DriveStep(d) PROVE AgeKept'
  BY <1>5 DEF DriveStep, DriveFaults, RampEnds, OutputsExpire, bridge, AgeKept, Asks
<1>6. CASE UNCHANGED vars
  BY <1>6 DEF vars, bridge, AgeKept, Asks
<1> QED
  BY <1>1, <1>2, <1>3, <1>4, <1>5, <1>6 DEF Next, BusStep

\* One behind a counter that is below a limit is not above the limit.
LEMMA OneBehind ==
  ASSUME NEW age \in Nat, NEW count \in Nat, NEW limit \in Nat,
         age <= count + 1, count < limit
  PROVE  age <= limit
  OBVIOUS

\* A tick enables a drive only when it may.
LEMMA TickEnables ==
  ASSUME IInv, Tick, AgeKept', outValid,
         NEW d \in Drives, controlword'[d] = "ENABLE_OP"
  PROVE  sinceAsk' <= Limit /\ ~upset'
<1> USE DEF IInv
<1>1. TypeOK'
  BY TypeTick
<1>2. Limit \in Nat /\ stall' \in Nat /\ sinceAsk' \in Nat /\ upset' \in BOOLEAN
  BY <1>1, LimitAssumption DEF TypeOK
<1>3. /\ Command \in Intent
      /\ Asks(Command) => Asks(flags) /\ stall' < Limit /\ ~upset'
  BY <1>2, CommandSound
<1>4. statusword'[d] \in Statuswords /\ frHigh[d] \in BOOLEAN
  BY <1>1 DEF TypeOK
<1>5. controlword'[d] = NextControlword(statusword'[d], Command, frHigh[d])
  BY DEF Tick
<1>6. Asks(flags) /\ stall' < Limit /\ ~upset'
  BY <1>3, <1>4, <1>5, NextControlwordSound
<1>7. flags' = flags /\ outValid' = outValid
  BY DEF Tick
<1>8. sinceAsk' > 0 => sinceAsk' <= stall' + 1
  <2>1. outValid'
    BY <1>7
  <2>2. flags'.enable /\ ~flags'.quick_stop
    BY <1>6, <1>7 DEF Asks
  <2> QED
    BY <2>1, <2>2, Zenon DEF AgeKept, Asks
<1>9. sinceAsk' <= Limit
  <2>1. stall' < Limit
    BY <1>6
  <2>2. Limit \in Nat /\ stall' \in Nat /\ sinceAsk' \in Nat
    BY <1>2
  <2>3. CASE sinceAsk' > 0
    <3>1. sinceAsk' <= stall' + 1
      BY <1>8, <2>3
    <3> QED
      BY <2>1, <2>2, <3>1, OneBehind
  <2>4. CASE ~(sinceAsk' > 0)
    BY ONLY <2>2, <2>4
  <2> QED
    BY <2>3, <2>4
<1> QED
  BY <1>6, <1>9

\* Every step keeps the invariant.
LEMMA InductiveStep == IInv /\ [Next]_vars => IInv'
<1> SUFFICES ASSUME IInv, [Next]_vars PROVE IInv'
  OBVIOUS
<1> USE DEF IInv
<1>1. TypeOK' /\ AgeKept'
  BY TypeNext, AgeNext
<1>2. HostFirst' /\ EnableIsJustified'
  <2>1. ASSUME NEW intent \in Intents, NEW fresh \in BOOLEAN, Ingest(intent, fresh)
        PROVE HostFirst' /\ EnableIsJustified'
    <3>1. sinceAsk' = 0 \/ sinceAsk' = sinceAsk
      BY <2>1 DEF Ingest
    <3> QED
      BY <2>1, <3>1, LimitAssumption DEF Ingest, engine, bus, HostFirst,
                                         EnableIsJustified
  <2>2. CASE Tick
    <3>1. CASE outValid
      BY <1>1, <2>2, <3>1, TickEnables DEF Tick, HostFirst, EnableIsJustified
    <3>2. CASE ~outValid
      BY <2>2, <3>2 DEF Tick, HostFirst, EnableIsJustified
    <3> QED
      BY <3>1, <3>2
  <2>3. CASE Start
    BY <2>3 DEF Start, HostFirst, EnableIsJustified
  <2>4. CASE Stop \/ Lose
    BY <2>4 DEF Stop, Lose, bridge, engine, HostFirst, EnableIsJustified
  <2>5. ASSUME NEW awake \in SUBSET Drives, Pass(awake)
        PROVE HostFirst' /\ EnableIsJustified'
    BY <2>5 DEF Pass, bridge, engine, HostFirst, EnableIsJustified
  <2>6. ASSUME NEW d \in Drives, DriveStep(d)
        PROVE HostFirst' /\ EnableIsJustified'
    BY <2>6 DEF DriveStep, DriveFaults, RampEnds, OutputsExpire, bridge, engine,
                HostFirst, EnableIsJustified
  <2>7. CASE UNCHANGED vars
    BY <2>7 DEF vars, bridge, engine, bus, HostFirst, EnableIsJustified
  <2> QED
    BY <2>1, <2>2, <2>3, <2>4, <2>5, <2>6, <2>7 DEF Next, BusStep
<1> QED
  BY <1>1, <1>2

-----------------------------------------------------------------------------

\* Every variable of the bridge, the sequencer and the drives keeps its type.
THEOREM DriveTypeCorrect == Spec => []TypeOK
  BY TypeInit, TypeNext, PTL DEF Spec

\* apply_drive_control() for every limit and every number of drives: a frame
\* enables a drive only on a request at most Limit ticks old, with the bus and
\* the motion stream sound.
THEOREM EnableJustified == Spec => []EnableIsJustified
<1>1. Init => IInv
  BY TypeInit DEF Init, IInv, AgeKept, HostFirst, EnableIsJustified
<1>2. IInv => EnableIsJustified
  BY DEF IInv
<1> QED
  BY <1>1, <1>2, InductiveStep, PTL DEF Spec
=============================================================================
