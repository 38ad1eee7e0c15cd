---------------------------- MODULE DriveControl ----------------------------
(***************************************************************************)
(* From the intent of the LinuxCNC host to the state of the drives: the    *)
(* host's heartbeat and flags (linuxcnc/teensy_ecat_bridge.c), the bridge  *)
(* that holds the last frame accepted (host_bridge.rs), the watchdog,      *)
(* safe state and CiA-402 sequencer run by every cyclic tick (cyclic.rs,   *)
(* cia402.rs), and drives that sample the process data as they please.     *)
(*                                                                         *)
(* Of the heartbeat it is kept whether it differs from the one the last    *)
(* tick saw; it need not when the host was restarted or its counter came   *)
(* round, so that is a free choice.  At most one LRW frame is under way: a *)
(* reply that misses its tick is lost (what the ENET rings do to late      *)
(* replies is the subject of Cyclic).  Whether the bus is faulted or the   *)
(* motion ring drained are verdicts of Cyclic and MotionStream, inputs     *)
(* here.                                                                   *)
(***************************************************************************)
EXTENDS Naturals

CONSTANTS
  Drives,    \* drives discovered on the bus
  Intents,   \* flags the host may send
  Limit      \* HOST_WDOG_LIMIT_CYCLES

ASSUME LimitAssumption  == Limit \in Nat \ {0}

VARIABLES
  flags,      \* flags of the frame accepted last
  beat,       \* its heartbeat differs from last_seen_wdog
  stall,      \* wdog_stall_cycles, saturating at Limit: only >= is tested
  outValid    \* out_valid: a frame has been accepted since power-up

bridge == <<flags, beat, stall, outValid>>

VARIABLES
  running,    \* the worker has started the cyclic engine
  upset,      \* the last tick found the bus faulted or the ring drained
  statusword, \* of every drive, as in the process image
  frHigh,     \* fr_high of every binding
  controlword \* of every drive, as in the process image

engine == <<running, upset, statusword, frHigh, controlword>>

VARIABLES
  wire,       \* the LRW frame: none, on its way out, or on its way back
  answer,     \* statuswords in the frame on its way back
  state,      \* CiA-402 state of every drive
  level       \* controlword bit 7 as every drive sampled it last

bus == <<wire, answer, state, level>>

VARIABLE
  sinceAsk    \* history: ticks since a frame asking for motion was accepted
vars == <<bridge, engine, bus, sinceAsk>>

-----------------------------------------------------------------------------
(* Data *)

Intent == [enable : BOOLEAN, fault_reset : BOOLEAN, quick_stop : BOOLEAN]
NoIntent == [enable |-> FALSE, fault_reset |-> FALSE, quick_stop |-> FALSE]

\* QUICK_STOP_ACTIVE is a state the sequencer does not decode.
DriveStates == {"SWITCH_ON_DISABLED", "READY_TO_SWITCH_ON", "SWITCHED_ON",
                "OPERATION_ENABLED", "QUICK_STOP_ACTIVE", "FAULT"}
Statuswords == DriveStates \cup {"NONE"}    \* NONE: the zeros of a new image

Controlwords == {"SHUTDOWN", "SWITCH_ON", "ENABLE_OP", "QUICK_STOP",
                 "FAULT_RESET", "DISABLE_VOLTAGE"}

ASSUME IntentAssumption == Intents \subseteq Intent

Lesser(a, b) == IF a <= b THEN a ELSE b

\* The host asks for motion: enable without quick-stop.
Asks(intent) == intent.enable /\ ~intent.quick_stop

-----------------------------------------------------------------------------
(* The host and its frames *)

\* ingest(): the frame carries the enable, fault-reset and quick-stop pins of
\* the host and its heartbeat.  One with a wrong CRC leaves no trace.
Ingest(intent, fresh) ==
  /\ flags' = intent
  /\ beat' = fresh
  /\ outValid' = TRUE
  /\ sinceAsk' = IF Asks(intent) THEN 0 ELSE sinceAsk
  /\ UNCHANGED <<stall, engine, bus>>

-----------------------------------------------------------------------------
(* The cyclic tick *)

\* Mutant: the stall counter restarts whenever the heartbeat stands still.
StalledReset == IF beat THEN stall ELSE 0

\* tick_watchdog
Stalled ==
  IF beat THEN 0
  ELSE IF outValid THEN Lesser(stall + 1, Limit) ELSE stall

\* Mutant: the bit of the fault reset is held instead of pulsed.
FrHighHeld(sw, cmd, high) == (sw = "FAULT" /\ cmd.fault_reset) \/ high

\* The level of bit 7 toggles while a reset is asked for.
FrHigh(sw, cmd, high) == sw = "FAULT" /\ cmd.fault_reset /\ ~high

\* Mutant: a running drive is only stopped by a quick-stop.
NextControlwordStuck(sw, cmd, high) ==
  CASE sw = "FAULT" -> "DISABLE_VOLTAGE"
    [] sw = "OPERATION_ENABLED" /\ ~cmd.quick_stop -> "ENABLE_OP"
    [] sw = "SWITCHED_ON" /\ Asks(cmd) -> "ENABLE_OP"
    [] sw = "READY_TO_SWITCH_ON" /\ Asks(cmd) -> "SWITCH_ON"
    [] OTHER -> "SHUTDOWN"

\* Mutant: a drive that is ready is not switched on.
NextControlwordShort(sw, cmd, high) ==
  CASE sw = "FAULT" -> "DISABLE_VOLTAGE"
    [] sw \in {"SWITCHED_ON", "OPERATION_ENABLED"} ->
         IF Asks(cmd) THEN "ENABLE_OP" ELSE "SWITCH_ON"
    [] OTHER -> "SHUTDOWN"

NextControlword(sw, cmd, high) ==
  CASE sw = "FAULT" ->
         IF FrHigh(sw, cmd, high) THEN "FAULT_RESET" ELSE "DISABLE_VOLTAGE"
    [] sw = "OPERATION_ENABLED" ->
         IF cmd.quick_stop THEN "QUICK_STOP"
         ELSE IF cmd.enable THEN "ENABLE_OP" ELSE "SWITCH_ON"
    [] sw = "SWITCHED_ON" -> IF Asks(cmd) THEN "ENABLE_OP" ELSE "SWITCH_ON"
    [] sw = "READY_TO_SWITCH_ON" -> IF Asks(cmd) THEN "SWITCH_ON" ELSE "SHUTDOWN"
    [] OTHER -> "SHUTDOWN"

\* The command of apply_drive_control, with every trigger of the safe state.
Command ==
  [flags EXCEPT !.quick_stop = @ \/ stall' >= Limit \/ upset']

\* tick_with_host: receive, watchdog, outputs, safe state, send.
Tick ==
  /\ running
  /\ statusword' = IF wire = "back" THEN answer ELSE statusword
  /\ upset' \in BOOLEAN
  /\ stall' = Stalled
  /\ beat' = FALSE
  /\ IF outValid
     THEN /\ controlword' = [d \in Drives |->
                NextControlword(statusword'[d], Command, frHigh[d])]
          /\ frHigh' = [d \in Drives |->
                FrHigh(statusword'[d], Command, frHigh[d])]
     ELSE UNCHANGED <<controlword, frHigh>>
  /\ wire' = "out"
  /\ sinceAsk' = Lesser(sinceAsk + 1, Limit + 1)
  /\ UNCHANGED <<flags, outValid, running, answer, state, level>>

\* The worker has brought every slave to SAFE-OP: a new engine and image; the
\* bridge keeps what it held.
Start ==
  /\ ~running
  /\ running' = TRUE
  /\ upset' = FALSE
  /\ statusword' = [d \in Drives |-> "NONE"]
  /\ frHigh' = [d \in Drives |-> FALSE]
  /\ controlword' = [d \in Drives |-> "DISABLE_VOLTAGE"]
  /\ wire' = "none"
  /\ UNCHANGED <<bridge, answer, state, level, sinceAsk>>

\* The PIT is stopped, and with it the frames.
Stop ==
  /\ running
  /\ running' = FALSE
  /\ wire' = "none"
  /\ UNCHANGED <<bridge, upset, statusword, frHigh, controlword, answer, state, level, sinceAsk>>

-----------------------------------------------------------------------------
(* The drives *)

\* Where a controlword takes a drive.
Moved(s, cw, high) ==
  IF s = "FAULT" THEN
    IF cw = "FAULT_RESET" /\ ~high THEN "SWITCH_ON_DISABLED" ELSE s
  ELSE IF s = "QUICK_STOP_ACTIVE" THEN
    IF cw = "DISABLE_VOLTAGE" THEN "SWITCH_ON_DISABLED" ELSE s
  ELSE CASE cw = "QUICK_STOP" /\ s = "OPERATION_ENABLED" -> "QUICK_STOP_ACTIVE"
         [] cw = "QUICK_STOP" /\ s # "OPERATION_ENABLED" -> "SWITCH_ON_DISABLED"
         [] cw = "DISABLE_VOLTAGE" -> "SWITCH_ON_DISABLED"
         [] cw = "SHUTDOWN" -> "READY_TO_SWITCH_ON"
         [] cw \in {"SWITCH_ON", "ENABLE_OP"} /\ s = "READY_TO_SWITCH_ON" -> "SWITCHED_ON"
         [] cw = "SWITCH_ON" /\ s = "OPERATION_ENABLED" -> "SWITCHED_ON"
         [] cw = "ENABLE_OP" /\ s = "SWITCHED_ON" -> "OPERATION_ENABLED"
         [] OTHER -> s

\* The frame passes: it takes the statuswords along and leaves a controlword
\* with every drive; those awake look at it before the next frame comes.
Pass(awake) ==
  /\ wire = "out"
  /\ wire' = "back"
  /\ answer' = state
  /\ state' = [d \in Drives |->
       IF d \in awake THEN Moved(state[d], controlword[d], level[d]) ELSE state[d]]
  /\ level' = [d \in Drives |->
       IF d \in awake THEN controlword[d] = "FAULT_RESET" ELSE level[d]]
  /\ UNCHANGED <<bridge, engine, sinceAsk>>

\* The frame is lost on its way out, or on its way back.
Lose ==
  /\ wire # "none"
  /\ wire' = "none"
  /\ UNCHANGED <<bridge, engine, answer, state, level, sinceAsk>>

DriveFaults(d) ==
  /\ state' = [state EXCEPT ![d] = "FAULT"]
  /\ UNCHANGED <<bridge, engine, wire, answer, level, sinceAsk>>

\* The quick-stop ramp has ended (quick-stop option code 2).
RampEnds(d) ==
  /\ state[d] = "QUICK_STOP_ACTIVE"
  /\ state' = [state EXCEPT ![d] = "SWITCH_ON_DISABLED"]
  /\ UNCHANGED <<bridge, engine, wire, answer, level, sinceAsk>>

\* No frame comes any more: a slave leaves OP, and its drive loses power.
OutputsExpire(d) ==
  /\ ~running
  /\ state[d] # "FAULT"
  /\ state' = [state EXCEPT ![d] = "SWITCH_ON_DISABLED"]
  /\ UNCHANGED <<bridge, engine, wire, answer, level, sinceAsk>>

-----------------------------------------------------------------------------

Init ==
  /\ flags = NoIntent /\ beat = FALSE /\ stall = 0 /\ outValid = FALSE
  /\ running = FALSE /\ upset = FALSE
  /\ statusword = [d \in Drives |-> "NONE"]
  /\ frHigh = [d \in Drives |-> FALSE]
  /\ controlword = [d \in Drives |-> "DISABLE_VOLTAGE"]
  /\ wire = "none" /\ answer = [d \in Drives |-> "NONE"]
  /\ state = [d \in Drives |-> "SWITCH_ON_DISABLED"]
  /\ level = [d \in Drives |-> FALSE]
  /\ sinceAsk = Limit + 1

BusStep ==
  \/ \E awake \in SUBSET Drives : Pass(awake)
  \/ Lose

DriveStep(d) == DriveFaults(d) \/ RampEnds(d) \/ OutputsExpire(d)

Next ==
  \/ \E intent \in Intents, fresh \in BOOLEAN : Ingest(intent, fresh)
  \/ Tick
  \/ Start
  \/ Stop
  \/ BusStep
  \/ \E d \in Drives : DriveStep(d)

Spec == Init /\ [][Next]_vars

-----------------------------------------------------------------------------
(* Properties.  The liveness properties are for a bus and drives that are   *)
(* fair: see MCDriveControl.                                                *)

\* Every variable keeps its type; the stall count of tick_watchdog() saturates.
TypeOK ==
  /\ flags \in Intent /\ beat \in BOOLEAN
  /\ stall \in 0 .. Limit
  /\ outValid \in BOOLEAN /\ running \in BOOLEAN /\ upset \in BOOLEAN
  /\ statusword \in [Drives -> Statuswords]
  /\ answer \in [Drives -> Statuswords]
  /\ state \in [Drives -> DriveStates]
  /\ frHigh \in [Drives -> BOOLEAN] /\ level \in [Drives -> BOOLEAN]
  /\ controlword \in [Drives -> Controlwords]
  /\ wire \in {"none", "out", "back"}
  /\ sinceAsk \in 0 .. Limit + 1

\* apply_drive_control(): no frame that leaves the board enables a drive unless
\* the host has asked for motion within the last Limit ticks, the bus is not
\* faulted and the motion ring is not drained; whatever frames were lost, how
\* the heartbeat wrapped, and however often the engine was stopped and started.
EnableIsJustified ==
  \A d \in Drives :
    wire = "out" /\ controlword[d] = "ENABLE_OP" =>
      sinceAsk <= Limit /\ ~upset

\* Once no frame asks for motion any more, the host being silent, lost or
\* content, every drive stands still for good.
SilenceStops ==
  <>[](running /\ sinceAsk > Limit)
    => <>[](\A d \in Drives : state[d] # "OPERATION_ENABLED")

\* cia402.rs:5-7, the walk from Switch-On-Disabled to Operation-Enabled: it
\* arrives from wherever a drive is, a quick-stop included, on stale statuswords.
EnableArrives ==
  <>[](/\ running /\ ~upset
       /\ Asks(flags) /\ outValid /\ stall < Limit
       /\ \A d \in Drives : state[d] # "FAULT")
    => <>[](\A d \in Drives : state[d] = "OPERATION_ENABLED")

\* next_controlword(): a reset that the host holds clears the fault of a drive,
\* although a drive only reacts to a rising edge and samples when it likes.
ResetClearsFault ==
  \A d \in Drives :
    <>[](running /\ outValid /\ flags.fault_reset) => []<>(state[d] # "FAULT")
=============================================================================
