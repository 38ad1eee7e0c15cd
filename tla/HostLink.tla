------------------------------ MODULE HostLink ------------------------------
(***************************************************************************)
(* The status path from the cyclic engine to the pins of LinuxCNC: the PIT *)
(* tick builds a reply (reply_status, HostBridge::build_reply), the SPI    *)
(* task takes it for the next frame (host_spi_task), the host component    *)
(* turns what comes back into pins (update in teensy_ecat_bridge.c); and   *)
(* what crashes and resets of the board do to it (CrashLog).               *)
(*                                                                         *)
(* The engine is its phase and its last working counter.  A frame is a     *)
(* whole SPI transfer; HostSpi has its words.  The way from the host to    *)
(* the drives is DriveControl's.                                           *)
(***************************************************************************)
EXTENDS CrashLog, ProcessData

VARIABLES
  pit,      \* the PIT runs
  phase,    \* phase of the engine, as build_reply encodes it
  linkUp    \* last_wkc > 0

engine == <<pit, phase, linkUp>>

VARIABLES
  staged,   \* HostBridge::staged_in
  shift,    \* the reply that goes out with the next frame (HostSpi::tx)
  pins      \* HAL pins of the component

path == <<staged, shift, pins>>

VARIABLES
  shown     \* history: frames, 2 at most, since the PIT last built a reply
            \* that is not Faulted

vars == <<crash, engine, path, shown>>

Priming == 0
RequestingOp == 1
Operational == 2
Faulted == 3

\* A reply that was never built: zeros, whose magic word does not match.
Blank == [phase |-> Priming, link |-> FALSE, magic |-> FALSE]

Reply(ph, link) == [phase |-> ph, link |-> link, magic |-> TRUE]

-----------------------------------------------------------------------------
(* The engine: host_cycle, start and stop *)

\* The reply to the last frame, with any working counter, moves the phase on;
\* without one the phase and the working counter stay (Cyclic).
Engine(ph, link) ==
  \/ ph = phase /\ link \in BOOLEAN
  \/ phase = Priming /\ ph = RequestingOp /\ link
  \/ phase = RequestingOp /\ ph \in {Operational, Faulted} /\ link \in BOOLEAN
  \/ phase = Operational /\ ph = Faulted /\ link \in BOOLEAN

\* Mutant: the status is taken before the reply is processed.
StagedEarly == Reply(phase, linkUp)

Staged == Reply(phase', linkUp')

Tick ==
  /\ pit /\ stuck < Pit
  /\ \E ph \in Priming .. Faulted, link \in BOOLEAN :
       Engine(ph, link) /\ phase' = ph /\ linkUp' = link
  /\ staged' = Staged
  /\ shown' = IF phase' = Faulted THEN shown ELSE 0
  /\ UNCHANGED <<crash, pit, shift, pins>>

\* Made by the worker from a bus in SAFE-OP; the bridge keeps its last reply.
Start ==
  /\ stuck = 0 /\ ~pit
  /\ pit' = TRUE /\ phase' = Priming /\ linkUp' = FALSE
  /\ shown' = 0
  /\ UNCHANGED <<crash, path>>

Stop ==
  /\ stuck = 0 /\ pit
  /\ pit' = FALSE
  /\ UNCHANGED <<crash, phase, linkUp, path, shown>>

-----------------------------------------------------------------------------
(* The host: one transfer per servo period *)

\* Mutant: a bad frame leaves the pins as they are.
UnreachableUnnoticed == pins

\* After a failed transfer, a bad magic word or a bad CRC.
Unreachable == [pins EXCEPT !.online = FALSE, !.fault = TRUE]

Read(reply) ==
  [online |-> TRUE, link |-> reply.link,
   operational |-> reply.phase = Operational, fault |-> reply.phase = Faulted]

\* The SPI task takes the reply that is staged when a frame is complete;
\* without the task, what comes back is not a frame.
Frame(good) ==
  LET served == stuck < SpiTask
  IN /\ pins' = IF served /\ good /\ shift.magic THEN Read(shift) ELSE Unreachable
     /\ shift' = IF served THEN staged ELSE shift
     /\ shown' = IF served /\ pit /\ phase = Faulted /\ shown < 2 THEN shown + 1 ELSE shown
     /\ UNCHANGED <<crash, engine, staged>>

\* The ioctl fails.
TransferFails ==
  /\ pins' = Unreachable
  /\ UNCHANGED <<crash, engine, staged, shift, shown>>

\* The component is loaded anew.
Unloaded == [online |-> FALSE, link |-> FALSE, operational |-> FALSE, fault |-> FALSE]

Load ==
  /\ pins' = Unloaded /\ shown' = 0
  /\ UNCHANGED <<crash, engine, staged, shift>>

-----------------------------------------------------------------------------
(* Crashes and resets of the board *)

CrashStep ==
  /\ Crashes \/ CrashClear
  /\ UNCHANGED <<engine, path, shown>>

Boots ==
  /\ pit' = FALSE /\ phase' = Priming /\ linkUp' = FALSE
  /\ staged' = Blank /\ shift' = Blank
  /\ shown' = 0
  /\ UNCHANGED pins

Reset == Resets /\ Boots

Init ==
  /\ CrashInit
  /\ pit = FALSE /\ phase = Priming /\ linkUp = FALSE
  /\ staged = Blank /\ shift = Blank /\ pins = Unloaded
  /\ shown = 0

Next ==
  \/ Tick \/ Start \/ Stop
  \/ \E good \in BOOLEAN : Frame(good)
  \/ TransferFails \/ Load
  \/ CrashStep \/ Reset

\* The PIT fires again and again, the host clocks frame after frame, and not
\* all of them are bad; a handler that runs runs on.
Fairness ==
  /\ WF_vars(Tick) /\ WF_vars(Frame(TRUE))
  /\ WF_vars(Store /\ UNCHANGED <<engine, path, shown>>)
  /\ WF_vars(FaultReset /\ Boots)

Spec == Init /\ [][Next]_vars /\ Fairness

-----------------------------------------------------------------------------
(* Properties *)

TypeOK ==
  /\ CrashTypeOK
  /\ pit \in BOOLEAN /\ phase \in Priming .. Faulted /\ linkUp \in BOOLEAN
  /\ {staged, shift} \subseteq
       [phase : Priming .. Faulted, link : BOOLEAN, magic : BOOLEAN]
  /\ pins \in [online : BOOLEAN, link : BOOLEAN, operational : BOOLEAN, fault : BOOLEAN]
  /\ shown \in 0 .. 2

\* An engine that has faulted shows on the fault pin no later than with the
\* second frame after it, whatever becomes of the frames: lost and garbled ones
\* raise the pin as well, and no frame brings back the reply of before.
FaultShown == shown = 2 => pins.fault

\* While the SPI task runs and the PIT ticks, the host comes online again after
\* every failure and every reset; and a crash that holds up the SPI task takes
\* it offline with a fault, unless the board is reset first.
HostFollows ==
  /\ (pit /\ stuck < SpiTask) ~> (pins.online \/ ~pit \/ stuck >= SpiTask)
  /\ stuck >= SpiTask ~> ((~pins.online /\ pins.fault) \/ stuck < SpiTask)

\* serialize_out and deserialize_in of the component, read_value and write_value
\* of the board: whenever the host is online, its pins show the values that are
\* in the image, and the image gets the values of its pins, whatever the bytes,
\* the types and the places of the pins.
PinsExact == pins.online => OutputsArrive /\ InputsArrive
=============================================================================
