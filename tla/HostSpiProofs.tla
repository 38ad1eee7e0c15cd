--------------------------- MODULE HostSpiProofs ---------------------------
(***************************************************************************)
(* The SPI transport proved, for frames of any length, FIFOs of any depth  *)
(* and any number of mishaps.                                              *)
(*                                                                         *)
(* The argument.  As long as there is no error, every word clocked since   *)
(* the last refill is in rx or in rxFifo, and what is in txFifo follows    *)
(* from their number (FifosFollow): the task has pushed one word for each  *)
(* it has drained, so that txFifo runs empty only behind the whole frame.  *)
(* In a clean transfer these words are the transfer's (TransferFollowed).  *)
(***************************************************************************)
EXTENDS HostSpi, TLAPS, SequenceTheorems

\* Words clocked since the FIFOs were refilled, if there was no error.
Words == Len(rx) + Len(rxFifo)

\* The host has received as many words as it has clocked.
TypeInv == TypeOK /\ (clocked > 0 => Len(got) = clocked)

FifosFollow ==
  ~error =>
    /\ txIdx = Least(FrameLen, Depth + Len(rx))
    /\ Words <= txIdx /\ Len(txFifo) = txIdx - Words
    /\ \A k \in 1 .. Len(txFifo) : txFifo[k] = <<reply, Words + k>>

\* The transfer is under way, or has been broken into by EndTransfer or
\* FrameComplete, whichever comes first, and then by both.
TransferFollowed ==
  clean =>
    /\ ~error
    /\ \A k \in 1 .. Len(rx) : rx[k] = <<turn, k>>
    /\ \A k \in 1 .. Len(rxFifo) : rxFifo[k] = <<turn, Len(rx) + k>>
    /\ \/ Words = clocked /\ \A k \in 1 .. clocked : got[k] = <<reply, k>>
       \/ clocked = 0 /\ Words = FrameLen
       \/ clocked = FrameLen /\ Words = 0 /\ got \in {Frame(0), Frame(1)}
    /\ delivered \in {<<>>, Frame(turn)}

IInv == TypeInv /\ FifosFollow /\ TransferFollowed

-----------------------------------------------------------------------------
(* Sequences and sizes *)

\* What the proofs need of the constants.
LEMMA Sizes ==
  FrameLen \in Nat \ {0} /\ Depth \in Nat \ {0} /\ MaxMishaps \in Nat
  BY HostSpiAssumption

\* A word put at the end of a FIFO.
LEMMA AppendedWord ==
  ASSUME NEW s \in Seq(Word), NEW word \in Word
  PROVE  /\ Append(s, word) \in Seq(Word) /\ Len(Append(s, word)) = Len(s) + 1
         /\ Len(s) \in Nat
         /\ \A k \in 1 .. Len(s) : Append(s, word)[k] = s[k]
         /\ Append(s, word)[Len(s) + 1] = word
  OBVIOUS

\* A word taken from the front of a FIFO.
LEMMA FirstWord ==
  ASSUME NEW s \in Seq(Word), s # <<>>
  PROVE  /\ Head(s) \in Word /\ Head(s) = s[1]
         /\ Tail(s) \in Seq(Word) /\ Len(Tail(s)) = Len(s) - 1 /\ Len(s) \in Nat \ {0}
         /\ \A k \in 1 .. Len(s) - 1 : Tail(s)[k] = s[k + 1]
  OBVIOUS

\* What reload_tx_fifo leaves in the FIFO.
LEMMA RefilledProperties ==
  ASSUME NEW r \in {0, 1}, Refilled(r)
  PROVE  /\ rxFifo' = <<>> /\ rxFifo' \in Seq(Word) /\ Len(rxFifo') = 0
         /\ txFifo' \in Seq(Word) /\ Len(txFifo') = Least(Depth, FrameLen)
         /\ \A k \in 1 .. Len(txFifo') : txFifo'[k] = <<r, k>>
         /\ txIdx' = Least(Depth, FrameLen)
<1>. DEFINE n == Least(Depth, FrameLen)
<1>1. n \in Nat /\ n <= Depth /\ n <= FrameLen
  BY Sizes DEF Least
<1>2. txFifo' = [k \in 1 .. n |-> <<r, k>>] /\ rxFifo' = <<>> /\ txIdx' = n
  BY DEF Refilled
<1>3. \A k \in 1 .. n : <<r, k>> \in Word
  BY <1>1, Sizes DEF Word
<1>. HIDE DEF n
<1>4. txFifo' \in Seq(Word) /\ Len(txFifo') = n
  BY <1>1, <1>2, <1>3
<1>5. \A k \in 1 .. n : txFifo'[k] = <<r, k>>
  BY <1>2
<1>6. rxFifo' \in Seq(Word) /\ Len(rxFifo') = 0
  BY <1>2
<1>. QED BY <1>2, <1>4, <1>5, <1>6 DEF n

\* The lesser of two numbers.
LEMMA LeastProperties ==
  ASSUME NEW a \in Nat, NEW b \in Nat
  PROVE  Least(a, b) = Least(b, a) /\ Least(a, b) \in Nat /\ Least(a, b) <= a /\ Least(a, b) <= b
  BY DEF Least

-----------------------------------------------------------------------------
(* Types *)

\* The FIFOs are filled for a first frame.
LEMMA InitType ==
  ASSUME Init
  PROVE  TypeInv
<1>. DEFINE n == Least(Depth, FrameLen)
<1>1. n \in Nat /\ n <= Depth /\ n <= FrameLen /\ txIdx = n
  BY Sizes DEF Least, Init
<1>2. txFifo = [k \in 1 .. n |-> <<0, k>>]
  BY DEF Init
<1>3. \A k \in 1 .. n : <<0, k>> \in Word
  BY <1>1, Sizes DEF Word
<1>. HIDE DEF n
<1>4. txFifo \in Seq(Word) /\ Len(txFifo) <= Depth
  BY <1>1, <1>2, <1>3
<1>5. got \in Seq(Word) /\ Len(got) = 0 /\ rxFifo \in Seq(Word) /\ Len(rxFifo) = 0
      /\ rx \in Seq(Word) /\ Len(rx) = 0 /\ delivered = <<>>
  BY DEF Init
<1>6. /\ clocked = 0 /\ turn = 0 /\ error = FALSE /\ task = "idle" /\ reply = 0 /\ mishaps = 0
      /\ clean = TRUE
  BY DEF Init
<1>7. /\ Len(rx) <= FrameLen /\ Len(rx) # FrameLen /\ Len(rxFifo) <= Depth /\ Len(got) <= FrameLen
      /\ 0 \in 0 .. FrameLen /\ 0 \in 0 .. MaxMishaps /\ txIdx \in 0 .. FrameLen
  BY <1>1, <1>5, Sizes
<1>8. delivered \in {<<>>} \cup [1 .. FrameLen -> Word]
  BY <1>5
<1>. QED BY <1>4, <1>5, <1>6, <1>7, <1>8 DEF TypeInv, TypeOK

\* One word each way.
LEMMA ShiftType ==
  ASSUME TypeInv, NEW word \in Word, NEW before \in Seq(Word), Shift(word, before)
  PROVE  /\ rxFifo' \in Seq(Word) /\ Len(rxFifo') <= Depth
         /\ txFifo' \in Seq(Word) /\ Len(txFifo') <= Depth
         /\ got' \in Seq(Word) /\ Len(got') = Len(before) + 1
         /\ error' \in BOOLEAN /\ mishaps' \in 0 .. MaxMishaps
         /\ UNCHANGED <<task, rx, txIdx, reply>>
<1>1. /\ rxFifo \in Seq(Word) /\ Len(rxFifo) <= Depth /\ Len(rxFifo) \in Nat
      /\ txFifo \in Seq(Word) /\ Len(txFifo) <= Depth
      /\ error \in BOOLEAN /\ mishaps \in 0 .. MaxMishaps
  BY DEF TypeInv, TypeOK
<1>2. rxFifo' \in Seq(Word) /\ Len(rxFifo') <= Depth
  <2>1. CASE Late
    BY <1>1, <2>1 DEF Shift
  <2>2. CASE ~Late
    BY <1>1, <2>2, Sizes, AppendedWord DEF Shift, Late
  <2>. QED BY <2>1, <2>2
<1>3. /\ txFifo' \in Seq(Word) /\ Len(txFifo') <= Depth
      /\ got' \in Seq(Word) /\ Len(got') = Len(before) + 1
  <2>1. Garbage \in Word
    BY Sizes DEF Garbage, Word
  <2>2. CASE txFifo = <<>>
    BY <1>1, <2>1, <2>2, AppendedWord DEF Shift
  <2>3. CASE txFifo # <<>>
    BY <1>1, <2>3, Sizes, FirstWord, AppendedWord DEF Shift
  <2>. QED BY <2>2, <2>3
<1>4. error' \in BOOLEAN
  BY DEF Shift
<1>5. mishaps' \in 0 .. MaxMishaps /\ UNCHANGED <<task, rx, txIdx, reply>>
  BY <1>1, Sizes DEF Shift, Mishap, spi
<1>. QED BY <1>2, <1>3, <1>4, <1>5

\* What the host clocks keeps the types.
LEMMA HostType ==
  ASSUME TypeInv, Host \/ BreakOff
  PROVE  TypeInv'
<1>. USE DEF TypeInv
<1>1. /\ clocked \in 0 .. FrameLen /\ turn \in {0, 1} /\ FrameLen \in Nat \ {0}
      /\ got \in Seq(Word) /\ Len(got) \in Nat /\ clean \in BOOLEAN
  BY Sizes DEF TypeOK
<1>2. CASE BeginTransfer
  <2>1. clocked' = 1 /\ turn' \in {0, 1} /\ <<turn', 1>> \in Word /\ Shift(<<turn', 1>>, <<>>) /\ delivered' = <<>>
    BY <1>1, <1>2 DEF BeginTransfer, Word
  <2>2. ASSUME NEW none, none = <<>>
        PROVE  none \in Seq(Word) /\ Len(none) = 0
    BY <2>2
  <2>3. clean' \in BOOLEAN
    BY <1>2 DEF BeginTransfer
  <2>4. /\ rxFifo' \in Seq(Word) /\ Len(rxFifo') <= Depth
        /\ txFifo' \in Seq(Word) /\ Len(txFifo') <= Depth
        /\ got' \in Seq(Word) /\ Len(got') = clocked'
        /\ error' \in BOOLEAN /\ mishaps' \in 0 .. MaxMishaps
        /\ UNCHANGED <<task, rx, txIdx, reply>>
    <3>. DEFINE none == <<>>
    <3>1. none \in Seq(Word) /\ Len(none) = 0 /\ Shift(<<turn', 1>>, none) /\ <<turn', 1>> \in Word
      BY <2>1, <2>2
    <3>2. clocked' = Len(none) + 1
      BY <2>1, <3>1
    <3>. HIDE DEF none, TypeInv
    <3>. QED BY <3>1, <3>2, ShiftType
  <2>. QED BY <1>1, <2>1, <2>3, <2>4 DEF TypeOK
<1>3. CASE Clock
  <2>1. clocked' = clocked + 1 /\ clocked' \in 1 .. FrameLen /\ <<turn, clocked'>> \in Word
        /\ Shift(<<turn, clocked'>>, got) /\ UNCHANGED <<turn, delivered>> /\ clocked > 0
    BY <1>1, <1>3 DEF Clock, Word
  <2>2. clean' \in BOOLEAN
    BY <1>3 DEF Clock
  <2>3. /\ rxFifo' \in Seq(Word) /\ Len(rxFifo') <= Depth
        /\ txFifo' \in Seq(Word) /\ Len(txFifo') <= Depth
        /\ got' \in Seq(Word) /\ Len(got') = clocked'
        /\ error' \in BOOLEAN /\ mishaps' \in 0 .. MaxMishaps
        /\ UNCHANGED <<task, rx, txIdx, reply>>
    BY <1>1, <2>1, ShiftType
  <2>. QED BY <1>1, <2>1, <2>2, <2>3 DEF TypeOK
<1>4. CASE EndTransfer
  <2>1. clocked' = 0 /\ UNCHANGED <<turn, got, fifos, spi, history>>
    BY <1>4 DEF EndTransfer
  <2>. QED BY <1>1, <2>1 DEF TypeOK, fifos, spi, history
<1>5. CASE BreakOff
  <2>1. clocked' = 0 /\ clean' = FALSE /\ mishaps' \in 0 .. MaxMishaps
    BY <1>5, Sizes DEF BreakOff, Mishap, TypeOK
  <2>2. UNCHANGED <<turn, got, rxFifo, txFifo, error, task, rx, txIdx, reply, delivered>>
    BY <1>5 DEF BreakOff, fifos, spi
  <2>3. clocked' \in 0 .. FrameLen /\ ~(clocked' > 0)
    BY <2>1, Sizes
  <2>4. clean' \in BOOLEAN
    BY <2>1
  <2>. QED BY <2>1, <2>2, <2>3, <2>4 DEF TypeOK
<1>. QED BY <1>2, <1>3, <1>4, <1>5 DEF Host

\* The task keeps the types.
LEMMA TaskType ==
  ASSUME TypeInv, Task
  PROVE  TypeInv'
<1>. USE DEF TypeInv
<1>1. /\ FrameLen \in Nat \ {0} /\ Depth \in Nat \ {0} /\ reply \in {0, 1} /\ txIdx \in 0 .. FrameLen
      /\ rxFifo \in Seq(Word) /\ txFifo \in Seq(Word) /\ rx \in Seq(Word)
      /\ Len(rxFifo) <= Depth /\ Len(txFifo) <= Depth /\ Len(txFifo) \in Nat /\ Len(rxFifo) \in Nat /\ Len(rx) \in Nat
      /\ Len(rx) <= FrameLen /\ (Len(rx) = FrameLen <=> task = "complete")
  BY Sizes DEF TypeOK
<1>2. Least(Depth, FrameLen) \in Nat /\ Least(Depth, FrameLen) <= Depth /\ Least(Depth, FrameLen) <= FrameLen
  BY <1>1, LeastProperties
<1>3. CASE RestartFrame
  <2>1. Refilled(reply) /\ rx' = <<>> /\ task = "idle" /\ error' = FALSE /\ UNCHANGED <<task, reply, host, history>>
    BY <1>3 DEF RestartFrame
  <2>2. rx' \in Seq(Word) /\ Len(rx') = 0
    BY <2>1
  <2>3. /\ rxFifo' \in Seq(Word) /\ Len(rxFifo') = 0
        /\ txFifo' \in Seq(Word) /\ Len(txFifo') <= Depth /\ txIdx' \in 0 .. FrameLen
    BY <1>1, <1>2, <2>1, RefilledProperties
  <2>4. UNCHANGED <<task, reply, clocked, turn, got, mishaps, clean, delivered>>
    BY <2>1 DEF host, history
  <2>5. delivered' \in {<<>>} \cup [1 .. FrameLen -> Word]
    BY <2>4 DEF TypeOK
  <2>6. task' = "idle" /\ error' \in BOOLEAN
    BY <2>1
  <2>7. Len(rx') <= FrameLen /\ Len(rx') # FrameLen /\ Len(rxFifo') <= Depth
    BY <2>2, <2>3, Sizes
  <2>. QED BY <2>2, <2>3, <2>4, <2>5, <2>6, <2>7 DEF TypeOK
<1>4. CASE Interrupt
  BY <1>1, <1>4 DEF Interrupt, TypeOK, host, fifos, history
<1>5. CASE DrainWord
  <2>1. /\ rxFifo # <<>> /\ rxFifo' = Tail(rxFifo) /\ rx' = Append(rx, Head(rxFifo)) /\ task = "drain"
        /\ PushTxWord /\ UNCHANGED <<error, reply, host, history>>
    BY <1>5 DEF DrainWord
  <2>2. rxFifo' \in Seq(Word) /\ Len(rxFifo') <= Depth /\ rx' \in Seq(Word) /\ Len(rx') = Len(rx) + 1
    BY <1>1, <2>1, FirstWord, AppendedWord
  <2>3. Len(rx') <= FrameLen
    BY <1>1, <2>1, <2>2
  <2>4. task' \in {"drain", "complete"} /\ (Len(rx') = FrameLen <=> task' = "complete")
    BY <1>1, <1>5, <2>2, <2>3 DEF DrainWord
  <2>5. txFifo' \in Seq(Word) /\ Len(txFifo') <= Depth /\ txIdx' \in 0 .. FrameLen
    <3>1. CASE txIdx < FrameLen /\ Len(txFifo) < Depth
      <4>1. <<reply, txIdx + 1>> \in Word
        BY <1>1, <3>1 DEF Word
      <4>2. txFifo' = Append(txFifo, <<reply, txIdx + 1>>) /\ txIdx' = txIdx + 1
        BY <2>1, <3>1 DEF PushTxWord
      <4>3. txFifo' \in Seq(Word) /\ Len(txFifo') = Len(txFifo) + 1
        BY <1>1, <4>1, <4>2, AppendedWord
      <4>. QED BY <1>1, <3>1, <4>2, <4>3
    <3>2. CASE ~(txIdx < FrameLen /\ Len(txFifo) < Depth)
      BY <1>1, <2>1, <3>2 DEF PushTxWord
    <3>. QED BY <3>1, <3>2
  <2>. QED BY <1>1, <2>1, <2>2, <2>3, <2>4, <2>5 DEF TypeOK, host, history
<1>6. CASE Drained
  BY <1>1, <1>6 DEF Drained, TypeOK, host, fifos, history
<1>7. CASE FrameComplete
  <2>1. /\ Refilled(reply') /\ reply' \in {0, 1} /\ rx' = <<>> /\ task = "complete" /\ task' = "idle"
        /\ delivered' = rx /\ UNCHANGED <<error, host, mishaps, clean>>
    BY <1>1, <1>7 DEF FrameComplete
  <2>2. rx' \in Seq(Word) /\ Len(rx') = 0
    BY <2>1
  <2>3. delivered' \in [1 .. FrameLen -> Word]
    BY <1>1, <2>1
  <2>4. /\ rxFifo' \in Seq(Word) /\ Len(rxFifo') = 0
        /\ txFifo' \in Seq(Word) /\ Len(txFifo') <= Depth /\ txIdx' \in 0 .. FrameLen
    BY <1>1, <1>2, <2>1, RefilledProperties
  <2>. QED BY <1>1, <2>1, <2>2, <2>3, <2>4 DEF TypeOK, host
<1>. QED BY <1>3, <1>4, <1>5, <1>6, <1>7 DEF Task

\* Every step keeps the types.
LEMMA StepType ==
  ASSUME TypeInv, [Next]_vars
  PROVE  TypeInv'
<1>1. CASE UNCHANGED vars
  BY <1>1 DEF vars, host, fifos, spi, history, TypeInv, TypeOK
<1>. QED BY <1>1, HostType, TaskType DEF Next

-----------------------------------------------------------------------------
(* The FIFOs *)

\* The types in the form the steps use them.
LEMMA TypeFacts ==
  ASSUME TypeInv
  PROVE  /\ clocked \in 0 .. FrameLen /\ turn \in {0, 1} /\ reply \in {0, 1}
         /\ got \in Seq(Word) /\ rxFifo \in Seq(Word) /\ txFifo \in Seq(Word) /\ rx \in Seq(Word)
         /\ Len(got) \in Nat /\ Len(rxFifo) \in Nat /\ Len(txFifo) \in Nat /\ Len(rx) \in Nat
         /\ Len(rx) <= FrameLen /\ txIdx \in 0 .. FrameLen
         /\ Words \in Nat /\ (clocked > 0 => Len(got) = clocked)
  BY Sizes DEF TypeInv, TypeOK, Words

\* At the start nothing is clocked and the FIFOs are full.
LEMMA InitFollow ==
  ASSUME Init
  PROVE  FifosFollow /\ TransferFollowed
<1>. DEFINE n == Least(Depth, FrameLen)
<1>1. n \in Nat /\ n = Least(FrameLen, Depth + 0)
  BY Sizes DEF Least
<1>2. txFifo = [k \in 1 .. n |-> <<0, k>>] /\ txIdx = n /\ reply = 0 /\ clocked = 0
  BY DEF Init
<1>3. Len(rx) = 0 /\ Len(rxFifo) = 0 /\ Words = 0
  BY DEF Init, Words
<1>. HIDE DEF n
<1>4. Len(txFifo) = n /\ \A k \in 1 .. n : txFifo[k] = <<0, k>>
  BY <1>1, <1>2
<1>5. FifosFollow
  BY <1>1, <1>2, <1>3, <1>4 DEF FifosFollow
<1>6. ~error /\ delivered = <<>>
  BY DEF Init
<1>7. TransferFollowed
  BY <1>2, <1>3, <1>6 DEF TransferFollowed
<1>. QED BY <1>5, <1>7

\* A word each way without an error: the host gets the next one of the reply.
LEMMA ShiftFollow ==
  ASSUME TypeInv, FifosFollow, NEW word \in Word, NEW before, Shift(word, before), ~error'
  PROVE  /\ FifosFollow' /\ Words' = Words + 1 /\ UNCHANGED <<rx, reply>>
         /\ rxFifo' = Append(rxFifo, word) /\ got' = Append(before, <<reply, Words + 1>>)
<1>1. ~error /\ ~Late /\ txFifo # <<>>
  BY DEF Shift
<1>2. /\ rxFifo' = Append(rxFifo, word) /\ txFifo' = Tail(txFifo) /\ got' = Append(before, Head(txFifo))
      /\ UNCHANGED <<rx, txIdx, reply>>
  BY <1>1 DEF Shift, spi
<1>3. /\ Words \in Nat /\ txIdx \in Nat /\ Len(txFifo) = txIdx - Words /\ Len(rx) \in Nat
      /\ txIdx = Least(FrameLen, Depth + Len(rx))
      /\ \A k \in 1 .. Len(txFifo) : txFifo[k] = <<reply, Words + k>>
  BY <1>1, TypeFacts, Sizes DEF FifosFollow
<1>4. /\ Len(txFifo) \in Nat \ {0} /\ Head(txFifo) = txFifo[1] /\ Len(txFifo') = Len(txFifo) - 1
      /\ \A k \in 1 .. Len(txFifo) - 1 : txFifo'[k] = txFifo[k + 1]
  BY <1>1, <1>2, TypeFacts, FirstWord
<1>5. Words' = Words + 1
  <2>1. Len(rxFifo') = Len(rxFifo) + 1 /\ Len(rxFifo) \in Nat
    BY <1>2, TypeFacts, AppendedWord
  <2>. QED BY <1>2, <1>3, <2>1 DEF Words
<1>6. ASSUME NEW k \in 1 .. Len(txFifo')
      PROVE  txFifo'[k] = <<reply', Words' + k>>
  <2>1. k \in 1 .. Len(txFifo) - 1 /\ k + 1 \in 1 .. Len(txFifo) /\ Words + (k + 1) = Words' + k
    BY <1>3, <1>4, <1>5
  <2>2. txFifo'[k] = txFifo[k + 1]
    BY <1>4, <2>1
  <2>3. txFifo[k + 1] = <<reply, Words + (k + 1)>>
    BY <1>3, <2>1
  <2>. QED BY <1>2, <2>1, <2>2, <2>3
<1>7. Words' <= txIdx' /\ Len(txFifo') = txIdx' - Words' /\ txIdx' = Least(FrameLen, Depth + Len(rx'))
  BY <1>2, <1>3, <1>4, <1>5
<1>8. Head(txFifo) = <<reply, Words + 1>>
  BY <1>3, <1>4
<1>. QED BY <1>2, <1>5, <1>6, <1>7, <1>8 DEF FifosFollow

\* After a refill nothing has been clocked.
LEMMA RefilledFollow ==
  ASSUME TypeInv, NEW r \in {0, 1}, Refilled(r), reply' = r, rx' = <<>>
  PROVE  FifosFollow' /\ Words' = 0 /\ Len(rx') = 0 /\ Len(rxFifo') = 0
<1>. DEFINE n == Least(Depth, FrameLen)
<1>1. n \in Nat /\ n = Least(FrameLen, Depth + 0)
  BY Sizes DEF Least
<1>2. Len(rx') = 0
  OBVIOUS
<1>3. /\ Len(rxFifo') = 0 /\ Len(txFifo') = n /\ txIdx' = n
      /\ \A k \in 1 .. Len(txFifo') : txFifo'[k] = <<r, k>>
  BY RefilledProperties
<1>. HIDE DEF n
<1>4. Words' = 0
  BY <1>2, <1>3 DEF Words
<1>5. \A k \in 1 .. Len(txFifo') : txFifo'[k] = <<reply', Words' + k>>
  BY <1>1, <1>3, <1>4
<1>. QED BY <1>1, <1>2, <1>3, <1>4, <1>5 DEF FifosFollow

\* The task drains one word and pushes one, as long as there is one to push.
LEMMA DrainFollow ==
  ASSUME TypeInv, FifosFollow, DrainWord
  PROVE  /\ FifosFollow'
         /\ Words' = Words /\ Len(rx') = Len(rx) + 1 /\ Len(rxFifo') = Len(rxFifo) - 1
         /\ \A k \in 1 .. Len(rx) : rx'[k] = rx[k]
         /\ rx'[Len(rx) + 1] = rxFifo[1]
         /\ \A k \in 1 .. Len(rxFifo) - 1 : rxFifo'[k] = rxFifo[k + 1]
<1>1. /\ rxFifo # <<>> /\ rxFifo' = Tail(rxFifo) /\ rx' = Append(rx, Head(rxFifo))
      /\ PushTxWord /\ error' = error /\ reply' = reply
  BY DEF DrainWord
<1>2. /\ Len(rxFifo) \in Nat \ {0} /\ Head(rxFifo) = rxFifo[1] /\ Len(rxFifo') = Len(rxFifo) - 1
      /\ Head(rxFifo) \in Word
      /\ \A k \in 1 .. Len(rxFifo) - 1 : rxFifo'[k] = rxFifo[k + 1]
  BY <1>1, TypeFacts, FirstWord
<1>3. /\ Len(rx) \in Nat /\ Len(rx') = Len(rx) + 1 /\ rx'[Len(rx) + 1] = rxFifo[1]
      /\ \A k \in 1 .. Len(rx) : rx'[k] = rx[k]
  BY <1>1, <1>2, TypeFacts, AppendedWord
<1>4. Words' = Words
  BY <1>2, <1>3 DEF Words
<1>5. ASSUME ~error'
      PROVE  /\ txIdx' = Least(FrameLen, Depth + Len(rx')) /\ Words' <= txIdx' /\ Len(txFifo') = txIdx' - Words'
             /\ \A k \in 1 .. Len(txFifo') : txFifo'[k] = <<reply', Words' + k>>
  <2>1. /\ txIdx = Least(FrameLen, Depth + Len(rx)) /\ Words <= txIdx /\ Len(txFifo) = txIdx - Words
        /\ \A k \in 1 .. Len(txFifo) : txFifo[k] = <<reply, Words + k>>
    BY <1>1, <1>5 DEF FifosFollow
  <2>2. /\ Words = Len(rx) + Len(rxFifo) /\ Words \in Nat /\ txIdx \in 0 .. FrameLen /\ Len(txFifo) \in Nat
        /\ txFifo \in Seq(Word) /\ reply \in {0, 1}
    BY TypeFacts DEF Words
  <2>3. Len(txFifo) < Depth
    BY <1>2, <1>3, <2>1, <2>2, Sizes DEF Least
  <2>4. CASE txIdx < FrameLen
    <3>1. txFifo' = Append(txFifo, <<reply, txIdx + 1>>) /\ txIdx' = txIdx + 1
      BY <1>1, <2>3, <2>4 DEF PushTxWord
    <3>2. <<reply, txIdx + 1>> \in Word
      BY <2>2, <2>4, Sizes DEF Word
    <3>3. /\ Len(txFifo') = Len(txFifo) + 1 /\ txFifo'[Len(txFifo) + 1] = <<reply, txIdx + 1>>
          /\ \A k \in 1 .. Len(txFifo) : txFifo'[k] = txFifo[k]
      BY <2>2, <3>1, <3>2, AppendedWord
    <3>4. txIdx' = Least(FrameLen, Depth + Len(rx'))
      BY <1>3, <2>1, <2>2, <2>4, <3>1, Sizes DEF Least
    <3>5. ASSUME NEW k \in 1 .. Len(txFifo')
          PROVE  txFifo'[k] = <<reply', Words' + k>>
      <4>1. CASE k \in 1 .. Len(txFifo)
        BY <1>1, <1>4, <2>1, <3>3, <4>1
      <4>2. CASE k = Len(txFifo) + 1
        <5>1. txFifo'[k] = <<reply', txIdx + 1>>
          BY <1>1, <3>3, <4>2
        <5>2. Len(txFifo) = txIdx - Words /\ Words' = Words /\ txIdx \in Int /\ Words \in Nat
          BY <1>4, <2>1, <2>2
        <5>3. txIdx + 1 = Words' + k
          BY <4>2, <5>2
        <5>. QED BY <5>1, <5>3
      <4>3. Len(txFifo) \in Nat /\ Len(txFifo') = Len(txFifo) + 1
        BY <2>2, <3>3
      <4>. QED BY <4>1, <4>2, <4>3
    <3>6. Words' <= txIdx' /\ Len(txFifo') = txIdx' - Words'
      <4>1. Len(txFifo) = txIdx - Words /\ Words' = Words /\ Words <= txIdx /\ txIdx \in Int /\ Words \in Nat
        BY <1>4, <2>1, <2>2
      <4>. QED BY <3>1, <3>3, <4>1
    <3>. QED BY <3>4, <3>5, <3>6
  <2>5. CASE ~(txIdx < FrameLen)
    <3>1. UNCHANGED <<txFifo, txIdx>>
      BY <1>1, <2>5 DEF PushTxWord
    <3>2. txIdx' = Least(FrameLen, Depth + Len(rx'))
      BY <1>3, <2>1, <2>2, <2>5, <3>1, Sizes DEF Least
    <3>. QED BY <1>1, <1>4, <2>1, <3>1, <3>2
  <2>. QED BY <2>4, <2>5
<1>. QED BY <1>2, <1>3, <1>4, <1>5 DEF FifosFollow

\* Every step keeps the count of words: what leaves rxFifo is made up for in txFifo.
LEMMA StepFollow ==
  ASSUME TypeInv, FifosFollow, [Next]_vars
  PROVE  FifosFollow'
<1>1. reply \in {0, 1} /\ 1 - reply \in {0, 1}
  BY TypeFacts
<1>2. CASE BeginTransfer
  <2>1. Shift(<<turn', 1>>, <<>>) /\ <<turn', 1>> \in Word
    BY <1>2, TypeFacts, Sizes DEF BeginTransfer, Word
  <2>2. CASE error'
    BY <2>2 DEF FifosFollow
  <2>3. CASE ~error'
    BY <2>1, <2>3, ShiftFollow
  <2>. QED BY <2>2, <2>3
<1>3. CASE Clock
  <2>1. Shift(<<turn, clocked'>>, got) /\ <<turn, clocked'>> \in Word
    BY <1>3, TypeFacts, Sizes DEF Clock, Word
  <2>2. CASE error'
    BY <2>2 DEF FifosFollow
  <2>3. CASE ~error'
    BY <2>1, <2>3, ShiftFollow
  <2>. QED BY <2>2, <2>3
<1>4. CASE RestartFrame
  BY <1>1, <1>4, RefilledFollow DEF RestartFrame
<1>5. CASE FrameComplete
  BY <1>1, <1>5, RefilledFollow DEF FrameComplete
<1>6. CASE DrainWord
  BY <1>6, DrainFollow
<1>7. CASE EndTransfer \/ BreakOff \/ Interrupt \/ Drained \/ UNCHANGED vars
  <2>1. UNCHANGED <<rxFifo, txFifo, error, rx, txIdx, reply>>
    BY <1>7 DEF EndTransfer, BreakOff, Interrupt, Drained, vars, fifos, spi
  <2>. QED BY <2>1 DEF FifosFollow, Words
<1>. QED BY <1>2, <1>3, <1>4, <1>5, <1>6, <1>7 DEF Next, Host, Task

-----------------------------------------------------------------------------
(* The transfer *)

\* A transfer begins with both FIFOs as they were refilled.
LEMMA BeginFollow ==
  ASSUME IInv, BeginTransfer
  PROVE  TransferFollowed'
<1>. USE DEF IInv
<1>1. SUFFICES ASSUME clean'
               PROVE  TransferFollowed'
  BY DEF TransferFollowed
<1>2. /\ clocked = 0 /\ clocked' = 1 /\ rxFifo = <<>> /\ ~error /\ task = "idle" /\ (clean \/ rx = <<>>)
      /\ Shift(<<turn', 1>>, <<>>) /\ <<turn', 1>> \in Word /\ delivered' = <<>>
  <2>1. /\ clocked = 0 /\ clocked' = 1 /\ rxFifo = <<>> /\ ~error /\ task = "idle" /\ turn' = 1 - turn
        /\ Shift(<<turn', 1>>, <<>>) /\ delivered' = <<>>
    BY DEF BeginTransfer, Served
  <2>2. clean \/ rx = <<>>
    BY <1>1 DEF BeginTransfer
  <2>3. <<turn', 1>> \in Word
    BY <2>1, TypeFacts, Sizes DEF Word
  <2>. QED BY <2>1, <2>2, <2>3
<1>3. Len(rxFifo) = 0
  BY <1>2
<1>4. Len(rx) = 0
  <2>1. CASE rx = <<>>
    BY <2>1
  <2>2. CASE clean
    <3>1. Len(rx) # FrameLen
      BY <1>2 DEF TypeInv, TypeOK
    <3>2. Words = Len(rx) /\ Len(rx) \in Nat
      BY <1>3, TypeFacts DEF Words
    <3>3. Words = 0 \/ Words = FrameLen
      BY <1>2, <2>2 DEF TransferFollowed
    <3>. QED BY <3>1, <3>2, <3>3
  <2>. QED BY <1>2, <2>1, <2>2
<1>5. Words = 0
  BY <1>3, <1>4 DEF Words
<1>6. ~Late /\ txFifo # <<>>
  <2>1. Len(txFifo) = Least(FrameLen, Depth + 0)
    BY <1>2, <1>4, <1>5, TypeFacts DEF FifosFollow
  <2>2. Len(txFifo) > 0
    BY <2>1, Sizes DEF Least
  <2>. QED BY <1>3, <2>2, Sizes DEF Late
<1>7. ~error'
  BY <1>2, <1>6 DEF Shift
<1>8. /\ Words' = 1 /\ rx' = rx /\ reply' = reply
      /\ rxFifo' = Append(rxFifo, <<turn', 1>>) /\ got' = Append(<<>>, <<reply, 1>>)
  <2>1. /\ Words' = Words + 1 /\ UNCHANGED <<rx, reply>>
        /\ rxFifo' = Append(rxFifo, <<turn', 1>>) /\ got' = Append(<<>>, <<reply, Words + 1>>)
    BY <1>2, <1>7, ShiftFollow
  <2>. QED BY <1>5, <2>1
<1>9. \A k \in 1 .. Len(rxFifo') : rxFifo'[k] = <<turn', Len(rx') + k>>
  <2>1. Len(rxFifo') = 1 /\ rxFifo'[1] = <<turn', 1>>
    BY <1>2, <1>3, <1>8, TypeFacts, AppendedWord
  <2>. QED BY <1>4, <1>8, <2>1
<1>10. \A k \in 1 .. 1 : got'[k] = <<reply', k>>
  BY <1>8
<1>11. \A k \in 1 .. Len(rx') : rx'[k] = <<turn', k>>
  BY <1>4, <1>8
<1>. QED BY <1>2, <1>7, <1>8, <1>9, <1>10, <1>11 DEF TransferFollowed

\* In a clean transfer, a task that is not late has pushed the word the host gets.
LEMMA ClockFollow ==
  ASSUME IInv, Clock
  PROVE  TransferFollowed'
<1>. USE DEF IInv
<1>1. SUFFICES ASSUME clean'
               PROVE  TransferFollowed'
  BY DEF TransferFollowed
<1>2. /\ clocked \in 1 .. FrameLen - 1 /\ clocked' = clocked + 1 /\ clean /\ ~Late
      /\ Shift(<<turn, clocked'>>, got) /\ <<turn, clocked'>> \in Word /\ UNCHANGED <<turn, delivered>>
  <2>1. /\ clocked \in 1 .. FrameLen - 1 /\ clocked' = clocked + 1
        /\ Shift(<<turn, clocked'>>, got) /\ UNCHANGED <<turn, delivered>>
    BY DEF Clock
  <2>2. clean /\ ~Late
    BY <1>1 DEF Clock
  <2>3. <<turn, clocked'>> \in Word
    BY <2>1, TypeFacts, Sizes DEF Word
  <2>. QED BY <2>1, <2>2, <2>3
<1>3. /\ ~error /\ Words = clocked /\ delivered \in {<<>>, Frame(turn)}
      /\ \A k \in 1 .. Len(rx) : rx[k] = <<turn, k>>
      /\ \A k \in 1 .. Len(rxFifo) : rxFifo[k] = <<turn, Len(rx) + k>>
      /\ \A k \in 1 .. clocked : got[k] = <<reply, k>>
  BY <1>2, Sizes DEF TransferFollowed
<1>4. txFifo # <<>>
  <2>1. Len(txFifo) = Least(FrameLen, Depth + Len(rx)) - Words /\ Words = Len(rx) + Len(rxFifo)
    BY <1>3 DEF FifosFollow, Words
  <2>2. Len(rxFifo) < Depth /\ Words < FrameLen /\ Len(rx) \in Nat /\ Len(rxFifo) \in Nat
    BY <1>2, <1>3, TypeFacts, Sizes DEF Late
  <2>3. Len(txFifo) > 0
    BY <2>1, <2>2, Sizes DEF Least
  <2>. QED BY <2>3
<1>5. ~error'
  BY <1>2, <1>3, <1>4 DEF Shift
<1>6. /\ Words' = clocked' /\ rx' = rx /\ reply' = reply
      /\ rxFifo' = Append(rxFifo, <<turn, clocked'>>) /\ got' = Append(got, <<reply, clocked'>>)
  <2>1. /\ Words' = Words + 1 /\ UNCHANGED <<rx, reply>>
        /\ rxFifo' = Append(rxFifo, <<turn, clocked'>>) /\ got' = Append(got, <<reply, Words + 1>>)
    BY <1>2, <1>5, ShiftFollow
  <2>. QED BY <1>2, <1>3, <2>1
<1>7. ASSUME NEW k \in 1 .. Len(rxFifo')
      PROVE  rxFifo'[k] = <<turn, Len(rx) + k>>
  <2>1. /\ Len(rxFifo') = Len(rxFifo) + 1 /\ Len(rxFifo) \in Nat
        /\ \A i \in 1 .. Len(rxFifo) : rxFifo'[i] = rxFifo[i]
        /\ rxFifo'[Len(rxFifo) + 1] = <<turn, clocked'>>
    BY <1>2, <1>6, TypeFacts, AppendedWord
  <2>2. clocked' = Len(rx) + (Len(rxFifo) + 1) /\ Len(rx) \in Nat
    BY <1>2, <1>3, <2>1, TypeFacts DEF Words
  <2>3. CASE k \in 1 .. Len(rxFifo)
    BY <1>3, <2>1, <2>3
  <2>4. CASE k = Len(rxFifo) + 1
    BY <2>1, <2>2, <2>4
  <2>. QED BY <2>1, <2>3, <2>4
<1>8. ASSUME NEW k \in 1 .. clocked'
      PROVE  got'[k] = <<reply', k>>
  <2>1. <<reply, clocked'>> \in Word /\ Len(got) = clocked /\ got \in Seq(Word)
    BY <1>2, TypeFacts, Sizes DEF Word
  <2>2. /\ \A i \in 1 .. clocked : got'[i] = got[i]
        /\ got'[clocked + 1] = <<reply, clocked'>>
    BY <1>6, <2>1, AppendedWord
  <2>3. CASE k \in 1 .. clocked
    BY <1>3, <1>6, <2>2, <2>3
  <2>4. CASE k = clocked + 1
    BY <1>2, <1>6, <2>2, <2>4
  <2>. QED BY <1>2, <2>3, <2>4
<1>. QED BY <1>2, <1>3, <1>5, <1>6, <1>7, <1>8 DEF TransferFollowed

\* The words drained are the transfer's, in their order.
LEMMA DrainTransfer ==
  ASSUME IInv, DrainWord
  PROVE  TransferFollowed'
<1>. USE DEF IInv
<1>1. UNCHANGED <<error, reply, clocked, turn, got, clean, delivered>>
  BY DEF DrainWord, host, history
<1>2. SUFFICES ASSUME clean
               PROVE  TransferFollowed'
  BY <1>1 DEF TransferFollowed
<1>3. /\ Words' = Words /\ Len(rx') = Len(rx) + 1 /\ Len(rxFifo') = Len(rxFifo) - 1
      /\ \A k \in 1 .. Len(rx) : rx'[k] = rx[k]
      /\ rx'[Len(rx) + 1] = rxFifo[1]
      /\ \A k \in 1 .. Len(rxFifo) - 1 : rxFifo'[k] = rxFifo[k + 1]
  BY DrainFollow
<1>4. /\ \A k \in 1 .. Len(rx) : rx[k] = <<turn, k>>
      /\ \A k \in 1 .. Len(rxFifo) : rxFifo[k] = <<turn, Len(rx) + k>>
  BY <1>2 DEF TransferFollowed
<1>5. Len(rx) \in Nat /\ Len(rxFifo) \in Nat \ {0}
  BY TypeFacts, FirstWord DEF DrainWord
<1>6. ASSUME NEW k \in 1 .. Len(rx')
      PROVE  rx'[k] = <<turn', k>>
  <2>1. CASE k \in 1 .. Len(rx)
    BY <1>1, <1>3, <1>4, <2>1
  <2>2. CASE k = Len(rx) + 1
    <3>1. rxFifo[1] = <<turn, Len(rx) + 1>>
      BY <1>4, <1>5
    <3>. QED BY <1>1, <1>3, <2>2, <3>1
  <2>. QED BY <1>3, <1>5, <2>1, <2>2
<1>7. ASSUME NEW k \in 1 .. Len(rxFifo')
      PROVE  rxFifo'[k] = <<turn', Len(rx') + k>>
  <2>1. k \in 1 .. Len(rxFifo) - 1 /\ k + 1 \in 1 .. Len(rxFifo) /\ Len(rx) + (k + 1) = Len(rx') + k
    BY <1>3, <1>5
  <2>2. rxFifo[k + 1] = <<turn, Len(rx) + (k + 1)>>
    BY <1>4, <2>1
  <2>3. rxFifo'[k] = rxFifo[k + 1]
    BY <1>3, <2>1
  <2>. QED BY <1>1, <2>1, <2>2, <2>3
<1>8. Frame(0)' = Frame(0) /\ Frame(1)' = Frame(1) /\ Frame(turn)' = Frame(turn)
  BY <1>1 DEF Frame
<1>. QED BY <1>1, <1>2, <1>3, <1>6, <1>7, <1>8 DEF TransferFollowed

\* A complete frame is the whole transfer, and the FIFOs are the next one's.
LEMMA CompleteTransfer ==
  ASSUME IInv, FrameComplete
  PROVE  TransferFollowed'
<1>. USE DEF IInv
<1>1. /\ task = "complete" /\ rx' = <<>> /\ reply' = 1 - reply /\ Refilled(reply') /\ delivered' = rx
      /\ UNCHANGED <<error, clocked, turn, got, clean>>
  BY DEF FrameComplete, host
<1>2. SUFFICES ASSUME clean
               PROVE  TransferFollowed'
  BY <1>1 DEF TransferFollowed
<1>3. /\ ~error /\ \A k \in 1 .. Len(rx) : rx[k] = <<turn, k>>
      /\ \/ Words = clocked /\ \A k \in 1 .. clocked : got[k] = <<reply, k>>
         \/ clocked = 0 /\ Words = FrameLen
         \/ clocked = FrameLen /\ Words = 0 /\ got \in {Frame(0), Frame(1)}
  BY <1>2 DEF TransferFollowed
<1>4. Len(rx) = FrameLen
  BY <1>1 DEF TypeInv, TypeOK
<1>5. Words = FrameLen
  <2>1. Words <= FrameLen
    BY <1>3, <1>4, TypeFacts, Sizes DEF FifosFollow
  <2>2. Words = Len(rx) + Len(rxFifo) /\ Len(rxFifo) \in Nat
    BY TypeFacts DEF Words
  <2>. QED BY <1>4, <2>1, <2>2, Sizes
<1>6. rx = Frame(turn)
  <2>1. rx = [k \in 1 .. FrameLen |-> rx[k]]
    BY <1>4, TypeFacts
  <2>. QED BY <1>3, <1>4, <2>1 DEF Frame
<1>7. Words' = 0 /\ Len(rx') = 0 /\ Len(rxFifo') = 0
  <2>1. reply' \in {0, 1}
    BY <1>1, TypeFacts
  <2>. QED BY <1>1, <2>1, RefilledFollow
<1>8. clocked = 0 \/ (clocked = FrameLen /\ got \in {Frame(0), Frame(1)})
  <2>1. CASE Words = clocked /\ \A k \in 1 .. clocked : got[k] = <<reply, k>>
    <3>1. clocked = FrameLen /\ Len(got) = FrameLen
      BY <1>5, <2>1, TypeFacts, Sizes
    <3>2. got = [k \in 1 .. FrameLen |-> got[k]]
      BY <3>1, TypeFacts
    <3>3. got = Frame(reply)
      BY <2>1, <3>1, <3>2 DEF Frame
    <3>. QED BY <3>1, <3>3, TypeFacts
  <2>2. CASE clocked = 0 /\ Words = FrameLen
    BY <2>2
  <2>. QED BY <1>3, <1>5, <2>1, <2>2, Sizes
<1>9. Frame(0)' = Frame(0) /\ Frame(1)' = Frame(1) /\ Frame(turn)' = Frame(turn)
  BY <1>1 DEF Frame
<1>10. /\ \A k \in 1 .. Len(rx') : rx'[k] = <<turn', k>>
       /\ \A k \in 1 .. Len(rxFifo') : rxFifo'[k] = <<turn', Len(rx') + k>>
  BY <1>7
<1>11. \/ Words' = clocked' /\ \A k \in 1 .. clocked' : got'[k] = <<reply', k>>
       \/ clocked' = FrameLen /\ Words' = 0 /\ got' \in {Frame(0), Frame(1)}
  BY <1>1, <1>7, <1>8
<1>12. delivered' \in {<<>>, Frame(turn')}
  BY <1>1, <1>6
<1>. QED BY <1>1, <1>3, <1>9, <1>10, <1>11, <1>12 DEF TransferFollowed

\* Every step keeps the transfer whole, or it is no longer clean.
LEMMA StepTransfer ==
  ASSUME IInv, [Next]_vars
  PROVE  TransferFollowed'
<1>. USE DEF IInv
<1>1. CASE EndTransfer
  <2>1. /\ clocked = FrameLen /\ clocked' = 0
        /\ UNCHANGED <<turn, got, rxFifo, error, rx, reply, clean, delivered>>
    BY <1>1 DEF EndTransfer, fifos, spi, history
  <2>2. Words' = Words /\ Frame(turn)' = Frame(turn)
    BY <2>1 DEF Words, Frame
  <2>. QED BY <2>1, <2>2, Sizes DEF TransferFollowed
<1>2. CASE BreakOff
  BY <1>2 DEF BreakOff, TransferFollowed
<1>3. CASE RestartFrame
  BY <1>3 DEF RestartFrame, TransferFollowed, history
<1>4. CASE Interrupt \/ Drained \/ UNCHANGED vars
  <2>1. UNCHANGED <<clocked, turn, got, rxFifo, error, rx, reply, clean, delivered>>
    BY <1>4 DEF Interrupt, Drained, vars, host, fifos, spi, history
  <2>2. Words' = Words /\ Frame(turn)' = Frame(turn) /\ Frame(0)' = Frame(0) /\ Frame(1)' = Frame(1)
    BY <2>1 DEF Words, Frame
  <2>. QED BY <2>1, <2>2 DEF TransferFollowed
<1>. QED BY <1>1, <1>2, <1>3, <1>4, BeginFollow, ClockFollow, DrainTransfer, CompleteTransfer
         DEF Next, Host, Task

-----------------------------------------------------------------------------
(* Theorems *)

\* The inductive invariant behind the theorems.
LEMMA Inductive == Spec => []IInv
<1>1. Init => IInv
  BY InitType, InitFollow DEF IInv
<1>2. IInv /\ [Next]_vars => IInv'
  BY StepType, StepFollow, StepTransfer DEF IInv
<1>. QED BY <1>1, <1>2, PTL DEF Spec

\* The task and the wire never fill a FIFO past FIFO_DEPTH or a buffer past
\* frame_len, in step or not, for FIFOs and frames of any size.
THEOREM SpiTypeCorrect == Spec => []TypeOK
<1>1. IInv => TypeOK
  BY DEF IInv, TypeInv
<1>. QED BY <1>1, Inductive, PTL

\* service and begin_next_frame keep a transfer in step, for FIFOs and frames of
\* any size: what the bridge gets is the host's whole frame, what the host gets
\* is one whole reply, however the task and the wire interleave.
THEOREM TransfersInStep == Spec => []InStep
<1>1. ASSUME IInv
      PROVE  InStep
  <2>1. Len(rxFifo) <= Depth /\ Len(txFifo) <= Depth
    BY <1>1 DEF IInv, TypeInv, TypeOK
  <2>2. ASSUME clean
        PROVE  ~error /\ delivered \in {<<>>, Frame(turn)}
    BY <1>1, <2>2 DEF IInv, TransferFollowed
  <2>3. ASSUME clean, clocked = FrameLen
        PROVE  got \in {Frame(0), Frame(1)}
    <3>1. CASE Words = clocked /\ \A k \in 1 .. clocked : got[k] = <<reply, k>>
      <4>1. Len(got) = FrameLen /\ got \in Seq(Word) /\ reply \in {0, 1}
        BY <1>1, <2>3, TypeFacts, Sizes DEF IInv
      <4>2. got = [k \in 1 .. FrameLen |-> got[k]]
        BY <4>1
      <4>3. got = Frame(reply)
        BY <2>3, <3>1, <4>2 DEF Frame
      <4>. QED BY <4>1, <4>3
    <3>. QED BY <1>1, <2>3, <3>1, Sizes DEF IInv, TransferFollowed
  <2>. QED BY <2>1, <2>2, <2>3 DEF InStep
<1>. QED BY <1>1, Inductive, PTL
=============================================================================
