------------------------------ MODULE CrashLog ------------------------------
(***************************************************************************)
(* The crash record of main.rs: RAM that a reset does not clear, written   *)
(* word by word by the panic and the HardFault handler, read and cleared   *)
(* by commands.  A HardFault resets the board when its record is written;  *)
(* a panic stays where it is, and what interrupts it runs on.              *)
(*                                                                         *)
(* The contents of a field are left out: "last" holds the fields that were *)
(* written by the last crash.                                              *)
(***************************************************************************)
EXTENDS Naturals, Sequences

VARIABLES
  magic,     \* CrashLog::magic is CRASHLOG_MAGIC
  kind,      \* CrashLog::kind
  last,      \* history: the fields the last crash has written
  handler,   \* the handler of the last crash, and the stores it has done
  stuck,     \* interrupt priority the processor does not return from, 0 if none
  fate       \* history: what has become of the record of the last crash

crash == <<magic, kind, last, handler, stuck, fate>>

\* Priorities: 1 the worker, 2 USB and the SPI task, 3 the PIT, and whatever
\* holds a lock; 4 the HardFault exception.
Worker == 1
SpiTask == 2
Pit == 3
Exception == 4

Kinds == {"HARDFAULT", "PANIC"}
NoHandler == [kind |-> "none", done |-> 0]

\* Mutant: the registers are left for later.
StoresNoFrame(k) ==
  IF k = "HARDFAULT" THEN <<"magic", "kind", "msg_len">>
                     ELSE <<"magic", "kind", "msg", "msg_len">>

\* What a handler writes, in its order.
Stores(k) ==
  IF k = "HARDFAULT" THEN <<"magic", "kind", "frame", "msg_len">>
                     ELSE <<"magic", "kind", "msg", "msg_len">>

\* What "crashlog" prints of a record (fmt_crash_report).
Reported(k) ==
  CASE k = "HARDFAULT" -> {"kind", "frame"}
    [] k = "PANIC"     -> {"kind", "msg", "msg_len"}
    [] OTHER           -> {"kind"}

Writing == handler.kind # "none" /\ handler.done < Len(Stores(handler.kind))

-----------------------------------------------------------------------------
(* Crashes *)

Crash(k, level) ==
  /\ handler' = [kind |-> k, done |-> 0]
  /\ stuck' = level
  /\ last' = {} /\ fate' = "open"
  /\ UNCHANGED <<magic, kind>>

\* In a task, whose priority is raised while it holds a lock; in an interrupt
\* of a task that has panicked before.
Panic == \E level \in stuck + 1 .. Pit : Crash("PANIC", level)

HardFault == stuck < Exception /\ Crash("HARDFAULT", Exception)

\* One store of the handler that runs.
Store ==
  /\ Writing
  /\ LET field == Stores(handler.kind)[handler.done + 1]
     IN /\ magic' = (magic \/ field = "magic")
        /\ kind' = IF field = "kind" THEN handler.kind ELSE kind
        /\ last' = last \cup {field}
  /\ handler' = [handler EXCEPT !.done = @ + 1]
  /\ UNCHANGED <<stuck, fate>>

-----------------------------------------------------------------------------
(* Resets, which leave the record as it is, and the power *)

Restarted ==
  /\ handler' = NoHandler /\ stuck' = 0
  /\ fate' = IF fate # "open" THEN fate ELSE IF Writing THEN "torn" ELSE "kept"
  /\ UNCHANGED <<magic, kind, last>>

\* sys_reset at the end of HardFault; blink_diag never ends.
FaultReset == handler.kind = "HARDFAULT" /\ ~Writing /\ Restarted

\* Asked for by the host over USB, as long as usb_isr runs.
UsbReset == stuck < SpiTask /\ Restarted

\* RAM comes up as it likes, or as the bootloader has left it; the magic word
\* is then taken not to match.
PowerCycle ==
  /\ magic' = FALSE /\ kind' = "?" /\ last' = {}
  /\ handler' = NoHandler /\ stuck' = 0 /\ fate' = "none"

\* The worker, at the command "crashclear".
CrashClear ==
  /\ stuck = 0
  /\ magic' = FALSE
  /\ fate' = IF fate = "none" THEN "none" ELSE "cleared"
  /\ UNCHANGED <<kind, last, handler, stuck>>

Crashes == Panic \/ HardFault \/ Store
Resets  == FaultReset \/ UsbReset \/ PowerCycle

CrashInit ==
  /\ magic = FALSE /\ kind = "?" /\ last = {}
  /\ handler = NoHandler /\ stuck = 0 /\ fate = "none"

-----------------------------------------------------------------------------
(* Properties *)

CrashTypeOK ==
  /\ magic \in BOOLEAN
  /\ kind \in Kinds \cup {"?"}
  /\ last \subseteq {"magic", "kind", "frame", "msg", "msg_len"}
  /\ handler \in [kind : Kinds \cup {"none"}, done : 0 .. 4]
  /\ stuck \in 0 .. Exception
  /\ fate \in {"none", "open", "kept", "torn", "cleared"}

\* Whenever the worker can serve "crashlog", it prints the last crash, whole
\* and with nothing of an earlier one, exactly if there was one since the power
\* came and since "crashclear": however a handler was interrupted by another,
\* and whichever way the board was reset.  Only a record that a reset over USB
\* has cut short is excepted (the magic word is written first).
CrashIsReported ==
  stuck = 0 /\ fate # "torn" =>
    /\ magic = (fate = "kept")
    /\ magic => Reported(kind) \subseteq last
=============================================================================
