------------------------------ MODULE Console ------------------------------
(***************************************************************************)
(* The serial console (main.rs): usb_isr takes command lines and drains    *)
(* the output buffer, ethercat_worker runs one command at a time, fills    *)
(* the buffer and, while "monitor" is on, streams telemetry.  usb_isr has  *)
(* the higher priority, so it is one step here; the worker's steps are its *)
(* locked sections.  An interrupt that is not pended does not run.         *)
(*                                                                         *)
(* Of a line only the command is kept (Cli has its words), of output its   *)
(* length in USB packets and whether it is the line "[mon] cyclic          *)
(* stopped".                                                               *)
(***************************************************************************)
EXTENDS Naturals, Sequences, Cli

CONSTANTS
  Commands,     \* lines typed: Empty, Query (the ones that only read, and the
                \* bus commands), Rescan, Start, Stop, Monitor
  MaxTyped,     \* bound: packets of lines typed
  MaxChunks,    \* bound: packets of a reply
  MaxTraces,    \* bound: progress lines of a rescan
  MaxWaits,     \* 100: looks at the buffer before a line is given up
  Banner,       \* BOOT_BANNER_LINES
  MaxUnplugs    \* bound: times the host detaches, or a write fails

ASSUME ConsoleAssumption ==
  /\ Commands \subseteq {"Empty", "Query", "Rescan", "Start", "Stop", "Monitor"}
  /\ MaxWaits \in Nat \ {0} /\ MaxChunks \in Nat \ {0}
  /\ {MaxTyped, MaxTraces, Banner, MaxUnplugs} \subseteq Nat

VARIABLES
  attached,   \* the device is configured
  typed,      \* lines of the packet from the host that is not read yet
  endpoint,   \* the packet to the host has not been collected
  pend        \* USB_OTG1 is pended

usb == <<attached, typed, endpoint, pend>>

VARIABLES
  slot,       \* ecat_cmd: <<>> or the command
  left,       \* ecat_out: packets from the cursor to the end of the buffer
  banner      \* banner lines written

shared == <<slot, left, banner>>

VARIABLES
  at,         \* worker: take, run, scan, emit, monitor
  cmd,        \* the command at hand
  waits,      \* of emit_line
  traces,     \* progress lines of the rescan
  ended,      \* the rescan has its result
  cyclic_active, \* the engine ticks
  on,         \* monitor_on
  running     \* mon_running

worker == <<at, cmd, waits, traces, ended, cyclic_active, on, running>>

VARIABLES
  count,      \* packets typed, bounded by MaxTyped
  unplugs,    \* bounded by MaxUnplugs
  failed,     \* history: a write to the host has failed
  owed        \* history: the engine has run since the last "stopped" line

history == <<count, unplugs, failed, owed>>
console == <<usb, shared, worker, history>>

Pending == left > 0

-----------------------------------------------------------------------------
(* The host *)

Type ==
  /\ attached /\ typed = <<>> /\ count < MaxTyped
  /\ \E c \in Commands : typed' = <<c>> \/ \E d \in Commands : typed' = <<c, d>>
  /\ count' = count + 1 /\ pend' = TRUE
  /\ UNCHANGED <<attached, endpoint, shared, worker, unplugs, failed, owed>>

Collect ==
  /\ attached /\ endpoint
  /\ endpoint' = FALSE /\ pend' = TRUE
  /\ UNCHANGED <<attached, typed, shared, worker, history>>

Unplug ==
  /\ attached /\ unplugs < MaxUnplugs
  /\ attached' = FALSE /\ typed' = <<>> /\ endpoint' = FALSE /\ pend' = TRUE
  /\ unplugs' = unplugs + 1
  /\ UNCHANGED <<shared, worker, count, failed, owed>>

Plug ==
  /\ ~attached /\ attached' = TRUE /\ pend' = TRUE
  /\ UNCHANGED <<typed, endpoint, shared, worker, history>>

-----------------------------------------------------------------------------
(* usb_isr *)

\* A command waits in the slot; one that finds it taken is dropped.
ReadLines ==
  /\ slot' = IF slot = <<>> /\ typed # <<>> THEN <<Head(typed)>> ELSE slot
  /\ typed' = <<>>

\* A response goes before the banner.  The interrupt is pended again only after
\* progress: it is the host's collecting that raises the next one.
WriteResponse ==
  /\ Pending /\ ~endpoint
  /\ left' = left - 1 /\ endpoint' = TRUE /\ pend' = (left' > 0)
  /\ UNCHANGED <<banner, unplugs, failed>>

WouldBlock ==
  /\ endpoint /\ (Pending \/ banner < Banner)
  /\ pend' = FALSE
  /\ UNCHANGED <<left, endpoint, banner, unplugs, failed>>

\* Another error of the write: the packet, or the banner line, is dropped.
WriteFails ==
  /\ unplugs < MaxUnplugs /\ unplugs' = unplugs + 1
  /\ failed' = TRUE /\ pend' = FALSE
  /\ \/ Pending /\ left' = left - 1 /\ banner' = banner
     \/ ~Pending /\ banner < Banner /\ banner' = banner + 1 /\ left' = left
  /\ UNCHANGED endpoint

WriteBanner ==
  /\ ~Pending /\ banner < Banner /\ ~endpoint
  /\ banner' = banner + 1 /\ endpoint' = TRUE /\ pend' = FALSE
  /\ UNCHANGED <<left, unplugs, failed>>

NothingToWrite ==
  /\ ~Pending /\ banner >= Banner
  /\ pend' = FALSE
  /\ UNCHANGED <<left, endpoint, banner, unplugs, failed>>

UsbIsr ==
  /\ pend /\ attached
  /\ ReadLines
  /\ WriteResponse \/ WouldBlock \/ WriteFails \/ WriteBanner \/ NothingToWrite
  /\ UNCHANGED <<attached, worker, count, owed>>

UsbIsrDetached ==
  /\ pend /\ ~attached
  /\ pend' = FALSE /\ banner' = 0
  /\ UNCHANGED <<attached, typed, endpoint, slot, left, worker, history>>

-----------------------------------------------------------------------------
(* ethercat_worker *)

\* Mutant: usb_isr is not told.
PublishSilently(n) == left' = n /\ pend' = pend

\* set_lines or load_line, then NVIC::pend: what was not drained is lost.
Publish(n) == left' = n /\ pend' = TRUE

Goto(label) == at' = label

\* Nothing to do, or a command: rescan streams, monitor and queries answer.
Take ==
  /\ at = "take"
  /\ IF slot = <<>> THEN Goto("monitor") /\ cmd' = cmd
     ELSE /\ cmd' = Head(slot)
          /\ Goto(IF cmd' = "Rescan" THEN "scan" ELSE "run")
  /\ slot' = <<>> /\ traces' = 0 /\ ended' = FALSE
  /\ UNCHANGED <<left, banner, waits, cyclic_active, on, running, usb, history>>

\* ecat_run_command: "start" makes an engine if the bring-up succeeds and there
\* is none, "stop" removes it; the reply replaces the one before.
Run ==
  /\ at = "run" /\ Goto("monitor")
  /\ IF cmd = "Start" THEN cyclic_active' \in {cyclic_active, TRUE}
     ELSE cyclic_active' = (cyclic_active /\ cmd # "Stop")
  /\ owed' = (owed \/ cyclic_active')
  /\ on' = IF cmd = "Monitor" THEN ~on ELSE on
  /\ \E n \in 0 .. MaxChunks : (n = 0 <=> cmd = "Empty") /\ Publish(n)
  /\ UNCHANGED <<slot, banner, cmd, waits, traces, ended, running, attached, typed,
                 endpoint, count, unplugs, failed>>

\* emit_line: the line is loaded at once, then it is waited for.
EmitLine ==
  /\ Publish(1) /\ waits' = 0 /\ Goto("emit")

\* run_rescan_traced: a refusal or the result is the last line.
Scan ==
  /\ at = "scan"
  /\ EmitLine
  /\ \/ ~cyclic_active /\ traces < MaxTraces /\ traces' = traces + 1 /\ ended' = FALSE
     \/ ended' = TRUE /\ traces' = traces
  /\ UNCHANGED <<slot, banner, cmd, cyclic_active, on, running, attached, typed, endpoint,
                 history>>

\* Mutant: the wait for the host has no end.
EmitForever ==
  /\ at = "emit"
  /\ IF Pending THEN Goto("emit") ELSE Goto(IF ended THEN "monitor" ELSE "scan")
  /\ waits' = 0
  /\ UNCHANGED <<shared, cmd, traces, ended, cyclic_active, on, running, usb, history>>

Emit ==
  /\ at = "emit"
  /\ IF Pending /\ waits + 1 < MaxWaits
     THEN Goto("emit") /\ waits' = waits + 1
     ELSE Goto(IF ended THEN "monitor" ELSE "scan") /\ waits' = 0
  /\ UNCHANGED <<shared, cmd, traces, ended, cyclic_active, on, running, usb, history>>

\* The monitor is off, or its period has not passed.
NotDue ==
  /\ at = "monitor" /\ Goto("take")
  /\ UNCHANGED <<shared, cmd, waits, traces, ended, cyclic_active, on, running, usb, history>>

\* Mutant: the "stopped" line counts as said when the channel is busy.
EmitMonitorDrops ==
  /\ at = "monitor" /\ on /\ Goto("take")
  /\ IF (cyclic_active \/ running) /\ ~Pending THEN Publish(1) ELSE UNCHANGED <<left, pend>>
  /\ running' = cyclic_active
  /\ owed' = (owed /\ (cyclic_active \/ ~running \/ Pending))
  /\ UNCHANGED <<slot, banner, cmd, waits, traces, ended, cyclic_active, on, attached, typed,
                 endpoint, count, unplugs, failed>>

\* Mutant: the "stopped" line is said again and again.
EmitMonitorRepeats ==
  /\ at = "monitor" /\ on /\ Goto("take")
  /\ IF (cyclic_active \/ running) /\ ~Pending THEN Publish(1) ELSE UNCHANGED <<left, pend>>
  /\ running' = (running \/ cyclic_active)
  /\ owed' = (owed /\ (cyclic_active \/ ~running \/ Pending))
  /\ UNCHANGED <<slot, banner, cmd, waits, traces, ended, cyclic_active, on, attached, typed,
                 endpoint, count, unplugs, failed>>

\* maybe_emit_monitor: telemetry of a running engine, "stopped" once of one that
\* was seen running; either only while the channel is idle.
EmitMonitor ==
  /\ at = "monitor" /\ on /\ Goto("take")
  /\ IF (cyclic_active \/ running) /\ ~Pending THEN Publish(1) ELSE UNCHANGED <<left, pend>>
  /\ running' = (cyclic_active \/ (running /\ Pending))
  /\ owed' = (owed /\ (cyclic_active \/ ~running \/ Pending))
  /\ UNCHANGED <<slot, banner, cmd, waits, traces, ended, cyclic_active, on, attached, typed,
                 endpoint, count, unplugs, failed>>

EthercatWorker == Take \/ Run \/ Scan \/ Emit \/ NotDue \/ EmitMonitor

-----------------------------------------------------------------------------

\* The worker pends the interrupt once before its loop.
ConsoleInit ==
  /\ attached = FALSE /\ typed = <<>> /\ endpoint = FALSE /\ pend = TRUE
  /\ slot = <<>> /\ left = 0 /\ banner = 0
  /\ at = "take" /\ cmd = "Empty" /\ waits = 0 /\ traces = 0 /\ ended = FALSE
  /\ cyclic_active = FALSE /\ on = FALSE /\ running = FALSE
  /\ count = 0 /\ unplugs = 0 /\ failed = FALSE /\ owed = FALSE

ConsoleNext ==
  \/ Type \/ Collect \/ Unplug \/ Plug
  \/ UsbIsr \/ UsbIsrDetached
  \/ EthercatWorker

\* A pended interrupt and the worker run; the monitor's period passes again and
\* again.  An attached host reads what it is sent.
ConsoleSpec ==
  /\ ConsoleInit /\ [][ConsoleNext]_console
  /\ WF_console(UsbIsr \/ UsbIsrDetached) /\ WF_console(EthercatWorker) /\ SF_console(EmitMonitor)
  /\ WF_console(Collect)

-----------------------------------------------------------------------------
(* Properties *)

ConsoleTypeOK ==
  /\ {attached, endpoint, pend, ended, cyclic_active, on, running, failed, owed} \subseteq BOOLEAN
  /\ Len(typed) \in 0 .. 2 /\ Len(slot) \in 0 .. 1
  /\ left \in 0 .. MaxChunks /\ banner \in 0 .. Banner
  /\ at \in {"take", "run", "scan", "emit", "monitor"}
  /\ waits \in 0 .. MaxWaits - 1 /\ traces \in 0 .. MaxTraces
  /\ count \in 0 .. MaxTyped /\ unplugs \in 0 .. MaxUnplugs

\* Output that waits is sent as long as a host is attached and reads: the
\* hand-over by NVIC::pend, the re-pend after progress and the interrupt of the
\* collected packet leave no gap in which both sides wait (usb_isr).
OutputDrains == Pending /\ attached ~> ~Pending \/ ~attached \/ failed

\* The worker is back for the next command however slow or absent the host is
\* (emit_line: "the wait is capped").
WorkerReturns == at # "take" ~> at = "take"

\* "Exactly one stopped line when the engine halts": never one without a run of
\* the engine since the last (maybe_emit_monitor).
StoppedOnce ==
  [][at = "monitor" /\ ~cyclic_active /\ left' > left => owed]_console

\* "A momentarily busy channel just defers it instead of dropping it".
StopAnnounced ==
  running /\ ~cyclic_active ~> ~owed \/ cyclic_active \/ ~on \/ ~attached \/ failed

\* A command that waits in the slot asks for what was typed: numbers that do not
\* fit are refused, or cut in the one way Cli says, a rate out of bounds never
\* starts an engine, and what is downloaded is shown again by an upload (parse).
CommandsExact == slot # <<>> => DownloadsReadBack /\ ObjectsAreTyped /\ RatesAreBounded
=============================================================================
