---------------------------- MODULE Transaction ----------------------------
(***************************************************************************)
(* One request and one reply at a time: Device::pump (device.rs) over the  *)
(* two descriptor rings of the ENET (enet_driver.rs).  A request is given  *)
(* up after MaxAttempts polls; its frame may still be in the transmit      *)
(* ring, on the wire or in the receive ring when the next one is made, and *)
(* the one index byte has to tell the replies apart.                       *)
(*                                                                         *)
(* A frame is known by its lag, the requests made since it, which is how   *)
(* far its index byte is behind the one expected: modulo IndexMod.         *)
(***************************************************************************)
EXTENDS Naturals, Sequences, SequencesExt

CONSTANTS
  TxLen, RxLen,   \* ECAT_TX_LEN, ECAT_RX_LEN
  IndexMod,       \* 256
  MaxAttempts,    \* PUMP_MAX_ATTEMPTS
  WireLen,        \* bound: frames between the two rings
  MaxTrouble      \* bound: frames lost, foreign, late or refused

ASSUME TransactionAssumption ==
  /\ {TxLen, RxLen, IndexMod, MaxAttempts, WireLen} \subseteq Nat \ {0}
  /\ MaxTrouble \in Nat

\* tx: None, or the frame of a descriptor with R set, which is the ENET's.
\* rx: None of a descriptor with E set, which is the ENET's, or a frame.
VARIABLES
  tx, txPos, txDma, txActive,   \* the driver's place, the ENET's, TDAR
  rx, rxPos, rxDma, rxActive    \* the driver's place, the ENET's, RDAR

txRing == <<tx, txPos, txDma, txActive>>
rxRing == <<rx, rxPos, rxDma, rxActive>>

VARIABLES
  waiting,    \* Pump: sent
  attempts

pump == <<waiting, attempts>>

VARIABLES
  wire,       \* frames on their way around the bus, oldest first
  trouble,    \* bounded by MaxTrouble
  fails       \* history: requests since the last that got its own reply, up
              \* to IndexMod

vars == <<txRing, rxRing, pump, wire, trouble, fails>>

Frames  == [lag : 0 .. IndexMod - 1, mine : BOOLEAN]
Own     == [lag |-> 0, mine |-> TRUE]
Foreign == [lag |-> IndexMod, mine |-> FALSE]   \* not EtherCAT, or too short
None    == [lag |-> IndexMod + 1, mine |-> FALSE]

-----------------------------------------------------------------------------
(* The rings *)

NextSlot(pos, len) == (pos + 1) % len

\* A new index is taken: every frame under way falls behind.
Aged(f) ==
  IF f \in Frames THEN [lag |-> (f.lag + 1) % IndexMod, mine |-> FALSE] ELSE f

AllAged(ring) == [k \in DOMAIN ring |-> Aged(ring[k])]

\* Mutant: the frame is read, its descriptor is read again the next time.
PolledAgain ==
  IF rx[rxPos] = None THEN UNCHANGED rxRing
  ELSE /\ rx' = [rx EXCEPT ![rxPos] = None]
       /\ rxActive' = TRUE /\ UNCHANGED <<rxPos, rxDma>>

\* Mutant: the ENET is not told of the descriptor.
PolledNoRearm ==
  IF rx[rxPos] = None THEN UNCHANGED rxRing
  ELSE /\ rx' = [rx EXCEPT ![rxPos] = None]
       /\ rxPos' = NextSlot(rxPos, RxLen)
       /\ UNCHANGED <<rxDma, rxActive>>

\* poll_raw: the frame of the next descriptor, if any; the descriptor goes back.
Polled ==
  IF rx[rxPos] = None THEN UNCHANGED rxRing
  ELSE /\ rx' = [rx EXCEPT ![rxPos] = None]
       /\ rxPos' = NextSlot(rxPos, RxLen)
       /\ rxActive' = TRUE /\ UNCHANGED rxDma

-----------------------------------------------------------------------------
(* The request *)

Trouble == trouble < MaxTrouble /\ trouble' = trouble + 1

Failed == fails' = IF fails < IndexMod THEN fails + 1 ELSE fails

\* A machine builds its frame, with a new index, and pump sends it.
Send ==
  /\ ~waiting /\ tx[txPos] = None
  /\ tx' = [AllAged(tx) EXCEPT ![txPos] = Own]
  /\ txPos' = NextSlot(txPos, TxLen) /\ txActive' = TRUE
  /\ wire' = AllAged(wire) /\ rx' = AllAged(rx)
  /\ waiting' = TRUE /\ attempts' = 0
  /\ UNCHANGED <<txDma, rxPos, rxDma, rxActive, trouble, fails>>

\* The descriptor is still the ENET's: the request fails at once.
SendRefused ==
  /\ ~waiting /\ tx[txPos] # None
  /\ tx' = AllAged(tx) /\ wire' = AllAged(wire) /\ rx' = AllAged(rx)
  /\ Failed /\ Trouble
  /\ UNCHANGED <<txPos, txDma, txActive, rxPos, rxDma, rxActive, pump>>

\* Mutant: any EtherCAT frame will do.
MatchesAny == rx[rxPos] \in Frames

\* The index byte of the frame that is polled.
Matches == rx[rxPos].lag = 0

Answered ==
  /\ waiting /\ Matches /\ Polled
  /\ waiting' = FALSE
  /\ IF rx[rxPos].mine THEN fails' = 0 ELSE Failed
  /\ UNCHANGED <<attempts, txRing, wire, trouble>>

\* MaxAttempts polls are longer than a frame takes, but for MaxTrouble times.
UnderWay ==
  \/ \E k \in DOMAIN tx : tx[k].mine
  \/ \E k \in DOMAIN rx : rx[k].mine
  \/ \E k \in DOMAIN wire : wire[k].mine

Tired == attempts + 1 >= MaxAttempts /\ (UnderWay => trouble < MaxTrouble)

\* Mutant: a poll that finds nothing sends the frame once more.
AgainResends ==
  /\ waiting /\ ~Matches /\ ~Tired /\ Polled
  /\ attempts' = IF attempts + 1 < MaxAttempts THEN attempts + 1 ELSE attempts
  /\ IF rx[rxPos] = None /\ tx[txPos] = None
     THEN /\ tx' = [tx EXCEPT ![txPos] = Own]
          /\ txPos' = NextSlot(txPos, TxLen) /\ txActive' = TRUE /\ UNCHANGED txDma
     ELSE UNCHANGED txRing
  /\ UNCHANGED <<waiting, wire, trouble, fails>>

\* Nothing, or another frame, which is gone: one attempt.
Again ==
  /\ waiting /\ ~Matches /\ ~Tired /\ Polled
  /\ attempts' = IF attempts + 1 < MaxAttempts THEN attempts + 1 ELSE attempts
  /\ UNCHANGED <<waiting, txRing, wire, trouble, fails>>

GiveUp ==
  /\ waiting /\ ~Matches /\ Tired /\ Polled
  /\ waiting' = FALSE /\ attempts' = attempts + 1
  /\ trouble' = IF UnderWay THEN trouble + 1 ELSE trouble
  /\ Failed
  /\ UNCHANGED <<txRing, wire>>

Pump == Answered \/ Again \/ GiveUp

-----------------------------------------------------------------------------
(* The ENET and the bus *)

Transmit ==
  /\ txActive /\ tx[txDma] # None /\ Len(wire) < WireLen
  /\ wire' = Append(wire, tx[txDma])
  /\ tx' = [tx EXCEPT ![txDma] = None]
  /\ txDma' = NextSlot(txDma, TxLen)
  /\ UNCHANGED <<txPos, txActive, rxRing, pump, trouble, fails>>

\* The ENET looks for more and finds a descriptor that is not ready.
TransmitEnds ==
  /\ txActive /\ tx[txDma] = None
  /\ txActive' = FALSE
  /\ UNCHANGED <<tx, txPos, txDma, rxRing, pump, wire, trouble, fails>>

\* A frame that finds no empty descriptor is dropped, and the ENET stops.
Received(f) ==
  IF rxActive /\ rx[rxDma] = None
  THEN /\ rx' = [rx EXCEPT ![rxDma] = f]
       /\ rxDma' = NextSlot(rxDma, RxLen) /\ UNCHANGED <<rxPos, rxActive>>
  ELSE rxActive' = FALSE /\ UNCHANGED <<rx, rxPos, rxDma>>

Arrive ==
  /\ wire # <<>> /\ Received(Head(wire)) /\ wire' = Tail(wire)
  /\ UNCHANGED <<txRing, pump, trouble, fails>>

Lose ==
  /\ wire # <<>> /\ Trouble
  /\ \E k \in DOMAIN wire : wire' = RemoveAt(wire, k)
  /\ UNCHANGED <<txRing, rxRing, pump, fails>>

Disturb ==
  /\ Trouble /\ Received(Foreign)
  /\ UNCHANGED <<txRing, pump, wire, fails>>

-----------------------------------------------------------------------------

Init ==
  /\ tx = [k \in 0 .. TxLen - 1 |-> None] /\ txPos = 0 /\ txDma = 0 /\ txActive = FALSE
  /\ rx = [k \in 0 .. RxLen - 1 |-> None] /\ rxPos = 0 /\ rxDma = 0 /\ rxActive = TRUE
  /\ waiting = FALSE /\ attempts = 0
  /\ wire = <<>> /\ trouble = 0 /\ fails = 0

Next ==
  \/ Send \/ SendRefused \/ Pump
  \/ Transmit \/ TransmitEnds \/ Arrive \/ Lose \/ Disturb

\* The worker goes on asking and polling; the ENET and the bus go on.
Spec ==
  /\ Init /\ [][Next]_vars
  /\ WF_vars(Send \/ SendRefused) /\ WF_vars(Pump)
  /\ WF_vars(Transmit) /\ WF_vars(Arrive)

-----------------------------------------------------------------------------
(* Properties *)

TypeOK ==
  /\ tx \in [0 .. TxLen - 1 -> Frames \cup {None}]
  /\ rx \in [0 .. RxLen - 1 -> Frames \cup {Foreign, None}]
  /\ {txPos, txDma} \subseteq 0 .. TxLen - 1 /\ {rxPos, rxDma} \subseteq 0 .. RxLen - 1
  /\ {txActive, rxActive, waiting} \subseteq BOOLEAN
  /\ attempts \in 0 .. MaxAttempts
  /\ wire \in Seq(Frames) /\ Len(wire) <= WireLen
  /\ trouble \in 0 .. MaxTrouble /\ fails \in 0 .. IndexMod

\* The slots in use are the ones between the place of the one who fills them and
\* the place of the one who empties them.
Between(ring, from, to, len) ==
  \E n \in 0 .. len :
    /\ to = (from + n) % len
    /\ \A k \in 0 .. len - 1 : (ring[(from + k) % len] # None) <=> k < n

\* Driver and ENET walk both rings in step, also when one of them is full: no
\* frame is skipped, overwritten or seen twice (send_frame, poll_raw).
RingsInStep ==
  /\ Between(tx, txDma, txPos, TxLen)
  /\ Between(rx, rxPos, rxDma, RxLen)

\* The reply taken is the reply to this request, whatever was given up before,
\* unless the index byte has come round with no request answered meanwhile (pump).
OwnReply ==
  [][waiting /\ Matches /\ ~waiting' => rx[rxPos].mine \/ fails >= IndexMod]_vars

\* A request that got its own reply leaves no frame behind, of any request: the
\* next one starts, and so does the cyclic engine, on a quiet bus.
QuietAfterReply ==
  ~waiting /\ fails = 0 =>
    /\ wire = <<>>
    /\ \A k \in DOMAIN tx : tx[k] = None
    /\ \A k \in DOMAIN rx : rx[k] \in {None, Foreign}

\* Every request ends, and requests given up, replies that come late or find the
\* ring full do not spoil the ones after them for good: one gets its own reply
\* again (PUMP_MAX_ATTEMPTS, the drain by poll, RDAR).
Recovers == waiting \/ fails > 0 ~> ~waiting /\ fails = 0
=============================================================================
