------------------------------ MODULE HostSpi ------------------------------
(***************************************************************************)
(* The SPI peripheral of the host link (host_spi.rs) and the interrupt     *)
(* task that serves it (host_spi_task in main.rs).  The host clocks one    *)
(* frame per servo period; a word goes into the receive FIFO and one comes *)
(* out of the transmit FIFO, whatever the task is doing.  The code never   *)
(* sees chip select: a frame is FrameLen words since the last reset.       *)
(*                                                                         *)
(* A word is <<transfer, position>> from the host, <<reply, position>> to  *)
(* it, transfers and replies counted modulo 2.  What the words say is left *)
(* out; HostBridge::ingest and the host reject by CRC what is not a frame. *)
(***************************************************************************)
EXTENDS Naturals, Sequences

CONSTANTS
  FrameLen,    \* frame_len
  Depth,       \* FIFO_DEPTH
  MaxMishaps   \* bound: times the task is late or a transfer is broken off

ASSUME HostSpiAssumption ==
  /\ FrameLen \in Nat \ {0} /\ Depth \in Nat \ {0} /\ MaxMishaps \in Nat

VARIABLES
  clocked,   \* words of this transfer that have been clocked
  turn,      \* the transfer
  got        \* what the host has received in it

host == <<clocked, turn, got>>

VARIABLES
  rxFifo, txFifo,
  error      \* SR: TEF or REF, an interrupt source of its own

fifos == <<rxFifo, txFifo, error>>

VARIABLES
  task,      \* idle, drain (in the loop of service), complete (a frame is in)
  rx,        \* rx[..rx_idx]
  txIdx,
  reply      \* the frame in tx

spi == <<task, rx, txIdx, reply>>

VARIABLES
  mishaps,   \* bounded by MaxMishaps
  clean,     \* history: the transfer began at a frame boundary, and there
             \* has been no mishap since
  delivered  \* history: the frame handed to the bridge since it began

history == <<mishaps, clean, delivered>>
vars == <<host, fifos, spi, history>>

Frame(t) == [k \in 1 .. FrameLen |-> <<t, k>>]
Garbage  == <<0, 0>>    \* what an empty transmit FIFO sends

-----------------------------------------------------------------------------
(* The host and the shift register *)

\* The gap between two transfers, a servo period, is long: it has passed only
\* when the task has nothing left to do.
Served == task = "idle" /\ rxFifo = <<>> /\ ~error

\* The task is late when a word finds the receive FIFO full.
Late == Len(rxFifo) >= Depth

Mishap == mishaps < MaxMishaps /\ mishaps' = mishaps + 1

\* One word each way.
Shift(word, before) ==
  /\ rxFifo' = IF Late THEN rxFifo ELSE Append(rxFifo, word)
  /\ txFifo' = IF txFifo = <<>> THEN <<>> ELSE Tail(txFifo)
  /\ got' = Append(before, IF txFifo = <<>> THEN Garbage ELSE Head(txFifo))
  /\ error' = (error \/ Late \/ txFifo = <<>>)
  /\ IF Late /\ ~error THEN Mishap ELSE UNCHANGED mishaps
  /\ UNCHANGED spi

BeginTransfer ==
  /\ clocked = 0 /\ Served
  /\ clocked' = 1 /\ turn' = 1 - turn
  /\ Shift(<<turn', 1>>, <<>>)
  /\ clean' = (clean \/ rx = <<>>) /\ delivered' = <<>>

Clock ==
  /\ clocked \in 1 .. FrameLen - 1
  /\ clocked' = clocked + 1
  /\ Shift(<<turn, clocked'>>, got)
  /\ clean' = (clean /\ ~Late)
  /\ UNCHANGED <<turn, delivered>>

EndTransfer ==
  /\ clocked = FrameLen /\ clocked' = 0
  /\ UNCHANGED <<turn, got, fifos, spi, history>>

\* The host gives up, or dies, in the middle of a transfer.
BreakOff ==
  /\ clocked \in 1 .. FrameLen - 1 /\ clocked' = 0
  /\ Mishap /\ clean' = FALSE
  /\ UNCHANGED <<turn, got, fifos, spi, delivered>>

Host == BeginTransfer \/ Clock \/ EndTransfer

-----------------------------------------------------------------------------
(* The interrupt task *)

Least(a, b) == IF a <= b THEN a ELSE b

\* Both FIFOs flushed, reload_tx_fifo from the start of the frame r.
Refilled(r) ==
  /\ rxFifo' = <<>>
  /\ txFifo' = [k \in 1 .. Least(Depth, FrameLen) |-> <<r, k>>]
  /\ txIdx' = Least(Depth, FrameLen)

\* Mutant: nothing is pushed.
PushTxWordNone == UNCHANGED <<txFifo, txIdx>>

PushTxWord ==
  IF txIdx < FrameLen /\ Len(txFifo) < Depth
  THEN txFifo' = Append(txFifo, <<reply, txIdx + 1>>) /\ txIdx' = txIdx + 1
  ELSE UNCHANGED <<txFifo, txIdx>>

\* service, the flags: an error drops the words received so far.
RestartFrame ==
  /\ task = "idle" /\ error
  /\ error' = FALSE /\ rx' = <<>>
  /\ Refilled(reply)
  /\ UNCHANGED <<task, reply, host, history>>

Interrupt ==
  /\ task = "idle" /\ ~error /\ rxFifo # <<>>
  /\ task' = "drain"
  /\ UNCHANGED <<rx, txIdx, reply, host, fifos, history>>

\* Mutant: one word more is waited for.
DrainWordLate ==
  /\ task = "drain" /\ rxFifo # <<>>
  /\ rx' = Append(rx, Head(rxFifo)) /\ rxFifo' = Tail(rxFifo)
  /\ PushTxWord
  /\ task' = IF Len(rx') > FrameLen THEN "complete" ELSE "drain"
  /\ UNCHANGED <<error, reply, host, history>>

DrainWord ==
  /\ task = "drain" /\ rxFifo # <<>>
  /\ rx' = Append(rx, Head(rxFifo)) /\ rxFifo' = Tail(rxFifo)
  /\ PushTxWord
  /\ task' = IF Len(rx') >= FrameLen THEN "complete" ELSE "drain"
  /\ UNCHANGED <<error, reply, host, history>>

Drained ==
  /\ task = "drain" /\ rxFifo = <<>>
  /\ task' = "idle"
  /\ UNCHANGED <<rx, txIdx, reply, host, fifos, history>>

\* The frame goes to the bridge, whose reply is staged and becomes the next
\* frame at once (set_next_tx, begin_next_frame).
FrameComplete ==
  /\ task = "complete" /\ task' = "idle"
  /\ rx' = <<>> /\ reply' = 1 - reply
  /\ Refilled(reply')
  /\ delivered' = rx
  /\ UNCHANGED <<error, host, mishaps, clean>>

Task == RestartFrame \/ Interrupt \/ DrainWord \/ Drained \/ FrameComplete

-----------------------------------------------------------------------------

\* init: the FIFO is filled with the zeros of the first reply.
Init ==
  /\ clocked = 0 /\ turn = 0 /\ got = <<>>
  /\ rxFifo = <<>> /\ error = FALSE
  /\ txFifo = [k \in 1 .. Least(Depth, FrameLen) |-> <<0, k>>]
  /\ txIdx = Least(Depth, FrameLen)
  /\ task = "idle" /\ rx = <<>> /\ reply = 0
  /\ mishaps = 0 /\ clean = TRUE /\ delivered = <<>>

Next == Host \/ BreakOff \/ Task

\* The servo thread is periodic, and an interrupt is served in the end.
Spec == Init /\ [][Next]_vars /\ WF_vars(Host) /\ WF_vars(Task)

-----------------------------------------------------------------------------
(* Properties *)

Word == {0, 1} \X (0 .. FrameLen)

\* The FIFOs are never filled past their depth, nor the buffers past a frame.
TypeOK ==
  /\ clocked \in 0 .. FrameLen /\ turn \in {0, 1}
  /\ got \in Seq(Word) /\ Len(got) <= FrameLen
  /\ rxFifo \in Seq(Word) /\ Len(rxFifo) <= Depth
  /\ txFifo \in Seq(Word) /\ Len(txFifo) <= Depth
  /\ error \in BOOLEAN
  /\ task \in {"idle", "drain", "complete"}
  /\ rx \in Seq(Word) /\ Len(rx) <= FrameLen /\ (Len(rx) = FrameLen <=> task = "complete")
  /\ txIdx \in 0 .. FrameLen /\ reply \in {0, 1}
  /\ mishaps \in 0 .. MaxMishaps /\ clean \in BOOLEAN
  /\ delivered \in {<<>>} \cup [1 .. FrameLen -> Word]

\* A transfer that begins at a frame boundary, with the task never more than a
\* FIFO late, stays in step however the task and the wire interleave: neither
\* FIFO runs over or empty, the frame that reaches the bridge is this transfer's
\* from its first word to its last, and so is the reply that reaches the host
\* (service, push_tx_word, begin_next_frame).  No FIFO is ever filled past its
\* depth, by the task or by the wire, in step or not.
InStep ==
  /\ Len(rxFifo) <= Depth /\ Len(txFifo) <= Depth
  /\ clean =>
    /\ ~error
    /\ delivered \in {<<>>, Frame(turn)}
    /\ clocked = FrameLen => got \in {Frame(0), Frame(1)}

\* Every such transfer is delivered before the next one begins.
FrameDelivered ==
  clean /\ clocked = FrameLen ~> ~clean \/ delivered = Frame(turn)

\* "Drop the partial frame and resync to a frame boundary (the controller will
\* re-assert CS for the next frame)" (host_spi.rs, restart_frame): after an
\* error the transfers are in step again some time.
Resyncs == error ~> clean
=============================================================================
