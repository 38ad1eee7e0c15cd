--------------------------- MODULE HostLinkProofs ---------------------------
(***************************************************************************)
(* What the host and the operator are told, proved.  Over SPI and in the   *)
(* crash record: CrashIsReported and FaultShown are invariants of HostLink,*)
(* however crashes interrupt one another and whatever becomes of the       *)
(* frames; and the pins are exact (PinsExact), whatever the widths and the *)
(* layout.  Over USB: the console, which shares no state with them,        *)
(* keeps its types, says "stopped" only where it is owed (StoppedOnce) and *)
(* asks for what was typed (CommandsExact).                                *)
(***************************************************************************)
EXTENDS HostLink, Console, TLAPS, FiniteSetTheorems, SequenceTheorems, WellFoundedInduction

\* A handler that runs has written the first of its stores and holds the
\* processor; without one, the record of the last crash is whole, cleared or
\* torn, and the magic word says which.
RecordInv ==
  /\ handler.kind = "none" <=> stuck = 0
  /\ handler.kind # "none" <=> fate = "open"
  /\ handler.kind # "none" =>
       /\ handler.done <= 4
       /\ \A i \in 1 .. handler.done : Stores(handler.kind)[i] \in last
       /\ handler.done >= 1 => magic
       /\ handler.done >= 2 => kind = handler.kind
  /\ fate = "kept" => magic /\ Reported(kind) \subseteq last
  /\ fate \in {"none", "cleared"} => ~magic

\* A reply that says the engine has faulted.
TellsFault(reply) == reply.magic /\ reply.phase = Faulted

\* The first frame counted takes the faulted reply to where the second brings it
\* to the pins.
PinInv ==
  /\ pit /\ phase = Faulted => TellsFault(staged)
  /\ shown > 0 => phase = Faulted /\ TellsFault(staged) /\ TellsFault(shift)
  /\ FaultShown

-----------------------------------------------------------------------------
(* Types *)

\* Both handlers do four stores, the second of them the kind.
LEMMA StoresProperties ==
  ASSUME NEW k \in Kinds
  PROVE  /\ Len(Stores(k)) = 4
         /\ Stores(k)[1] = "magic" /\ Stores(k)[2] = "kind"
         /\ \A i \in 1 .. 4 :
              /\ Stores(k)[i] \in {"magic", "kind", "frame", "msg", "msg_len"}
              /\ Stores(k)[i] = "magic" => i = 1
              /\ Stores(k)[i] = "kind" => i = 2
         /\ \A S : (\A i \in 1 .. 4 : Stores(k)[i] \in S) => Reported(k) \subseteq S
<1>1. CASE k = "HARDFAULT"
  <2>1. Stores(k) = <<"magic", "kind", "frame", "msg_len">>
    BY <1>1 DEF Stores
  <2>2. Reported(k) = {"kind", "frame"}
    BY <1>1 DEF Reported
  <2>3. \A S : (\A i \in 1 .. 4 : Stores(k)[i] \in S) => Reported(k) \subseteq S
    <3>1. SUFFICES ASSUME NEW S, \A i \in 1 .. 4 : Stores(k)[i] \in S
                   PROVE  "kind" \in S /\ "frame" \in S
      BY <2>2
    <3>2. Stores(k)[2] \in S /\ Stores(k)[3] \in S
      BY <3>1
    <3>. QED BY <2>1, <3>2
  <2>. QED BY <2>1, <2>3
<1>2. CASE k = "PANIC"
  <2>1. Stores(k) = <<"magic", "kind", "msg", "msg_len">>
    BY <1>2 DEF Stores
  <2>2. Reported(k) = {"kind", "msg", "msg_len"}
    BY <1>2 DEF Reported
  <2>3. \A S : (\A i \in 1 .. 4 : Stores(k)[i] \in S) => Reported(k) \subseteq S
    <3>1. SUFFICES ASSUME NEW S, \A i \in 1 .. 4 : Stores(k)[i] \in S
                   PROVE  "kind" \in S /\ "msg" \in S /\ "msg_len" \in S
      BY <2>2
    <3>2. Stores(k)[2] \in S /\ Stores(k)[3] \in S /\ Stores(k)[4] \in S
      BY <3>1
    <3>. QED BY <2>1, <3>2
  <2>. QED BY <2>1, <2>3
<1>. QED BY <1>1, <1>2 DEF Kinds

\* Crashes, stores, resets and "crashclear" keep the types of the record.
LEMMA CrashTypes ==
  ASSUME CrashTypeOK, Crashes \/ CrashClear \/ Resets
  PROVE  CrashTypeOK'
<1>. USE DEF CrashTypeOK, Kinds, Exception, Pit, SpiTask
<1>1. CASE Panic
  BY <1>1 DEF Panic, Crash
<1>2. CASE HardFault
  BY <1>2 DEF HardFault, Crash
<1>3. CASE Store
  <2>1. handler.kind \in Kinds /\ handler.done \in 0 .. 3
    BY <1>3, StoresProperties DEF Store, Writing
  <2>2. Stores(handler.kind)[handler.done + 1] \in {"magic", "kind", "frame", "msg", "msg_len"}
    BY <2>1, StoresProperties
  <2>3. handler' \in [kind : Kinds \cup {"none"}, done : 0 .. 4]
    BY <1>3, <2>1 DEF Store
  <2>4. magic' \in BOOLEAN
    BY <1>3 DEF Store
  <2>5. kind' \in Kinds \cup {"?"}
    BY <1>3, <2>1 DEF Store
  <2>6. last' \subseteq {"magic", "kind", "frame", "msg", "msg_len"}
    BY <1>3, <2>2 DEF Store
  <2>. QED BY <1>3, <2>3, <2>4, <2>5, <2>6 DEF Store
<1>4. CASE FaultReset \/ UsbReset
  <2>1. Restarted
    BY <1>4 DEF FaultReset, UsbReset
  <2>. QED BY <2>1 DEF Restarted, NoHandler
<1>5. CASE PowerCycle
  <2>1. magic' \in BOOLEAN
    BY <1>5 DEF PowerCycle
  <2>2. handler' \in [kind : Kinds \cup {"none"}, done : 0 .. 4]
    BY <1>5 DEF PowerCycle, NoHandler
  <2>. QED BY <1>5, <2>1, <2>2 DEF PowerCycle
<1>6. CASE CrashClear
  BY <1>6 DEF CrashClear
<1>. QED BY <1>1, <1>2, <1>3, <1>4, <1>5, <1>6 DEF Crashes, Resets

\* The reply that was never built is one of the replies.
LEMMA BlankType == Blank \in [phase : Priming .. Faulted, link : BOOLEAN, magic : BOOLEAN]
<1>1. Priming \in Priming .. Faulted
  BY DEF Priming, Faulted
<1>. QED BY <1>1 DEF Blank

\* The path starts with blank replies.
LEMMA InitType == Init => TypeOK
<1>. SUFFICES ASSUME Init PROVE TypeOK
  OBVIOUS
<1>1. magic \in BOOLEAN /\ pit \in BOOLEAN /\ linkUp \in BOOLEAN
  BY DEF Init, CrashInit
<1>2. handler \in [kind : Kinds \cup {"none"}, done : 0 .. 4]
  BY DEF Init, CrashInit, NoHandler
<1>3. CrashTypeOK
  BY <1>1, <1>2 DEF Init, CrashInit, CrashTypeOK, Exception
<1>4. Blank \in [phase : Priming .. Faulted, link : BOOLEAN, magic : BOOLEAN]
  BY BlankType
<1>5. pins \in [online : BOOLEAN, link : BOOLEAN, operational : BOOLEAN, fault : BOOLEAN]
  BY DEF Init, Unloaded
<1>6. phase \in Priming .. Faulted /\ shown \in 0 .. 2
  BY DEF Init, Priming, Faulted
<1>. QED BY <1>1, <1>3, <1>4, <1>5, <1>6 DEF Init, TypeOK

\* Every step keeps the types of record and path.
LEMMA StepType ==
  ASSUME TypeOK, Next
  PROVE  TypeOK'
<1>. DEFINE Status == [phase : Priming .. Faulted, link : BOOLEAN, magic : BOOLEAN]
            Shows  == [online : BOOLEAN, link : BOOLEAN, operational : BOOLEAN, fault : BOOLEAN]
<1>0. \A reply \in Status : Read(reply) \in Shows
  BY DEF Read
<1>1. Unreachable \in Shows
  BY DEF Unreachable, TypeOK
<1>2. CASE Tick
  <2>1. staged' \in Status
    BY <1>2 DEF Tick, Staged, Reply
  <2>. QED BY <1>2, <2>1 DEF Tick, TypeOK, CrashTypeOK, crash
<1>3. CASE Start \/ Stop
  <2>1. CrashTypeOK'
    BY <1>3 DEF Start, Stop, TypeOK, CrashTypeOK, crash
  <2>2. pit' \in BOOLEAN /\ linkUp' \in BOOLEAN
    BY <1>3 DEF Start, Stop, TypeOK
  <2>3. phase' \in Priming .. Faulted /\ shown' \in 0 .. 2
    BY <1>3 DEF Start, Stop, TypeOK, Priming, Faulted
  <2>. QED BY <1>3, <2>1, <2>2, <2>3 DEF Start, Stop, TypeOK, path
<1>4. CASE \E good \in BOOLEAN : Frame(good)
  <2>1. PICK good \in BOOLEAN : Frame(good)
    BY <1>4
  <2>2. pins' \in Shows /\ shift' \in Status
    BY <1>0, <1>1, <2>1 DEF Frame, TypeOK
  <2>3. shown' \in 0 .. 2
    BY <2>1 DEF Frame, TypeOK
  <2>. QED BY <2>1, <2>2, <2>3 DEF Frame, TypeOK, CrashTypeOK, crash, engine
<1>5. CASE TransferFails
  BY <1>1, <1>5 DEF TransferFails, TypeOK, CrashTypeOK, crash, engine
<1>6. CASE Load
  BY <1>6 DEF Load, Unloaded, TypeOK, CrashTypeOK, crash, engine
<1>7. CASE CrashStep
  <2>1. CrashTypeOK'
    BY <1>7, CrashTypes DEF CrashStep, TypeOK
  <2>. QED BY <1>7, <2>1 DEF CrashStep, TypeOK, engine, path
<1>8. CASE Reset
  <2>1. CrashTypeOK'
    BY <1>8, CrashTypes DEF Reset, TypeOK
  <2>2. pit' \in BOOLEAN /\ linkUp' \in BOOLEAN
    BY <1>8 DEF Reset, Boots
  <2>3. phase' \in Priming .. Faulted /\ shown' \in 0 .. 2
    BY <1>8 DEF Reset, Boots, Priming, Faulted
  <2>. QED BY <1>8, <2>1, <2>2, <2>3, BlankType DEF Reset, Boots, TypeOK
<1>. QED BY <1>2, <1>3, <1>4, <1>5, <1>6, <1>7, <1>8 DEF Next

\* Every variable of the record and of the status path keeps its type: a handler
\* never writes past its last store (panic, HardFault).
THEOREM LinkTypeCorrect == Spec => []TypeOK
<1>1. TypeOK /\ [Next]_vars => TypeOK'
  <2>1. CASE UNCHANGED vars
    BY <2>1 DEF vars, crash, engine, path, TypeOK, CrashTypeOK
  <2>. QED BY <2>1, StepType
<1>. QED BY <1>1, InitType, PTL DEF Spec

-----------------------------------------------------------------------------
(* The crash record *)

\* The record starts with no magic word and no handler.
LEMMA InitRecord == Init => RecordInv
  BY DEF Init, CrashInit, RecordInv, NoHandler

\* A crash starts anew, whatever it interrupts; a store moves its handler on.
LEMMA CrashRecord ==
  ASSUME CrashTypeOK, RecordInv, Crashes
  PROVE  RecordInv'
<1>1. ASSUME NEW k \in Kinds, NEW level \in 1 .. Exception, Crash(k, level)
      PROVE  RecordInv'
  <2>1. handler'.kind = k /\ handler'.done = 0 /\ k # "none"
    BY <1>1 DEF Crash, Kinds
  <2>2. stuck' # 0 /\ fate' = "open"
    BY <1>1 DEF Crash, Exception
  <2>. QED BY <2>1, <2>2 DEF RecordInv
<1>2. CASE Panic
  <2>1. PICK level \in stuck + 1 .. Pit : Crash("PANIC", level)
    BY <1>2 DEF Panic
  <2>2. level \in 1 .. Exception
    BY DEF CrashTypeOK, Pit, Exception
  <2>. QED BY <1>1, <2>1, <2>2 DEF Kinds
<1>3. CASE HardFault
  <2>1. Exception \in 1 .. Exception
    BY DEF Exception
  <2>. QED BY <1>1, <1>3, <2>1 DEF HardFault, Kinds
<1>4. CASE Store
  <2>. DEFINE k == handler.kind
              n == handler.done
              field == Stores(k)[n + 1]
  <2>1. k \in Kinds /\ n \in 0 .. 3
    BY <1>4, StoresProperties DEF Store, Writing, CrashTypeOK
  <2>2. handler'.kind = k /\ handler'.done = n + 1
    BY <1>4 DEF Store, CrashTypeOK
  <2>3. stuck' = stuck /\ fate' = fate /\ fate = "open" /\ k # "none"
    BY <1>4, <2>1 DEF Store, RecordInv, Kinds
  <2>4. last' = last \cup {field}
    BY <1>4 DEF Store
  <2>5. \A i \in 1 .. n + 1 : Stores(k)[i] \in last'
    BY <2>1, <2>3, <2>4 DEF RecordInv
  <2>6. magic'
    <3>1. CASE n = 0
      <4>1. field = "magic"
        BY <2>1, <3>1, StoresProperties
      <4>. QED BY <1>4, <4>1 DEF Store
    <3>2. CASE n >= 1
      BY <1>4, <2>3, <3>2 DEF Store, RecordInv
    <3>. QED BY <2>1, <3>1, <3>2
  <2>7. n + 1 >= 2 => kind' = k
    <3>1. CASE n = 1
      <4>1. field = "kind"
        BY <2>1, <3>1, StoresProperties
      <4>. QED BY <1>4, <4>1 DEF Store
    <3>2. CASE n >= 2
      <4>1. kind = k
        BY <2>3, <3>2 DEF RecordInv
      <4>. QED BY <1>4, <4>1 DEF Store
    <3>. QED BY <2>1, <3>1, <3>2
  <2>8. n + 1 <= 4
    BY <2>1
  <2>9. stuck # 0
    BY <2>3 DEF RecordInv
  <2>. QED BY <2>1, <2>2, <2>3, <2>5, <2>6, <2>7, <2>8, <2>9 DEF RecordInv
<1>. QED BY <1>2, <1>3, <1>4 DEF Crashes

\* A reset finds a handler at its end, and the record whole, or cuts it short.
LEMMA ResetRecord ==
  ASSUME CrashTypeOK, RecordInv, Resets \/ CrashClear
  PROVE  RecordInv'
<1>1. CASE Restarted
  <2>1. handler'.kind = "none" /\ stuck' = 0
    BY <1>1 DEF Restarted, NoHandler
  <2>2. CASE fate # "open"
    BY <1>1, <2>1, <2>2 DEF Restarted, RecordInv
  <2>3. CASE fate = "open" /\ Writing
    BY <1>1, <2>1, <2>3 DEF Restarted, RecordInv
  <2>4. CASE fate = "open" /\ ~Writing
    <3>1. handler.kind \in Kinds
      BY <2>4 DEF RecordInv, CrashTypeOK
    <3>2. handler.kind # "none"
      BY <3>1 DEF Kinds
    <3>3. handler.done = 4
      <4>1. ~(handler.done < 4)
        BY <2>4, <3>1, <3>2, StoresProperties DEF Writing
      <4>2. handler.done \in 0 .. 4
        BY DEF CrashTypeOK
      <4>. QED BY <4>1, <4>2
    <3>4. magic /\ kind = handler.kind
      BY <3>2, <3>3 DEF RecordInv
    <3>5. Reported(kind) \subseteq last
      <4>1. \A i \in 1 .. 4 : Stores(handler.kind)[i] \in last
        BY <3>2, <3>3 DEF RecordInv
      <4>. QED BY <3>1, <3>4, <4>1, StoresProperties
    <3>6. fate' = "kept" /\ UNCHANGED <<magic, kind, last>>
      BY <1>1, <2>4 DEF Restarted
    <3>. QED BY <2>1, <3>4, <3>5, <3>6 DEF RecordInv
  <2>. QED BY <2>2, <2>3, <2>4
<1>2. CASE PowerCycle
  <2>1. handler'.kind = "none" /\ stuck' = 0 /\ fate' = "none" /\ ~magic'
    BY <1>2 DEF PowerCycle, NoHandler
  <2>. QED BY <2>1 DEF RecordInv
<1>3. CASE CrashClear
  <2>1. handler' = handler /\ stuck' = stuck /\ handler.kind = "none" /\ ~magic'
    BY <1>3 DEF CrashClear, RecordInv
  <2>2. fate' \in {"none", "cleared"}
    BY <1>3 DEF CrashClear
  <2>. QED BY <1>3, <2>1, <2>2 DEF CrashClear, RecordInv
<1>. QED BY <1>1, <1>2, <1>3 DEF Resets, FaultReset, UsbReset

\* panic, HardFault, ecat_crashlog: what "crashlog" prints is the last crash,
\* whole, and nothing if there was none since the power came or since
\* "crashclear"; crashes may interrupt crashes in any order and number.
THEOREM CrashReported == Spec => []CrashIsReported
<1>1. TypeOK /\ RecordInv /\ [Next]_vars => RecordInv'
  <2>. SUFFICES ASSUME TypeOK, RecordInv, [Next]_vars PROVE RecordInv'
    OBVIOUS
  <2>1. CASE Crashes \/ CrashClear \/ Resets
    BY <2>1, CrashRecord, ResetRecord DEF TypeOK
  <2>2. CASE UNCHANGED crash
    BY <2>2 DEF crash, RecordInv
  <2>3. \/ Crashes \/ CrashClear \/ Resets
        \/ UNCHANGED crash
    BY DEF Next, vars, Tick, Start, Stop, Frame, TransferFails, Load, CrashStep, Reset
  <2>. QED BY <2>1, <2>2, <2>3
<1>2. TypeOK /\ RecordInv => CrashIsReported
  <2>. SUFFICES ASSUME TypeOK, RecordInv, stuck = 0, fate # "torn"
                PROVE  magic = (fate = "kept") /\ (magic => Reported(kind) \subseteq last)
    BY DEF CrashIsReported
  <2>1. fate \in {"none", "kept", "cleared"}
    BY DEF TypeOK, CrashTypeOK, RecordInv
  <2>2. magic \in BOOLEAN
    BY DEF TypeOK, CrashTypeOK
  <2>. QED BY <2>1, <2>2 DEF RecordInv
<1>. QED BY <1>1, <1>2, InitRecord, LinkTypeCorrect, PTL DEF Spec

-----------------------------------------------------------------------------
(* The fault pin *)

\* Nothing is counted at the start.
LEMMA InitPin == Init => PinInv
  BY DEF Init, PinInv, FaultShown

\* A tick of a faulted engine stages a reply that says so.
LEMMA TickPin ==
  ASSUME TypeOK, PinInv, Tick
  PROVE  PinInv'
<1>1. phase' = Faulted => TellsFault(staged)'
  BY DEF Tick, Staged, Reply, TellsFault
<1>2. CASE phase' = Faulted
  <2>1. shown' = shown /\ shift' = shift /\ pins' = pins
    BY <1>2 DEF Tick
  <2>. QED BY <1>1, <1>2, <2>1 DEF PinInv, FaultShown, TellsFault
<1>3. CASE phase' # Faulted
  BY <1>3 DEF Tick, PinInv, FaultShown
<1>. QED BY <1>2, <1>3

\* The first frame after it takes the reply along, the second one delivers it;
\* one that fails raises the pin itself.
LEMMA FramePin ==
  ASSUME TypeOK, PinInv, NEW good \in BOOLEAN, Frame(good)
  PROVE  PinInv'
<1>. DEFINE served == stuck < SpiTask
            counts == served /\ pit /\ phase = Faulted
<1>1. Unreachable.fault
  BY DEF Unreachable, TypeOK
<1>2. pit' = pit /\ phase' = phase /\ staged' = staged
  BY DEF Frame, engine
<1>3. TellsFault(shift) => pins'.fault
  BY <1>1 DEF Frame, Read, TellsFault
<1>4. shown' > 0 => phase = Faulted /\ TellsFault(staged) /\ TellsFault(shift')
  <2>1. CASE counts
    BY <2>1 DEF PinInv, Frame
  <2>2. CASE ~counts
    <3>1. shown' = shown
      BY <2>2 DEF Frame
    <3>2. shift' \in {shift, staged}
      BY DEF Frame
    <3>. QED BY <3>1, <3>2 DEF PinInv
  <2>. QED BY <2>1, <2>2
<1>5. shown' = 2 => pins'.fault
  <2>. SUFFICES ASSUME shown' = 2 PROVE pins'.fault
    OBVIOUS
  <2>1. shown > 0
    BY DEF Frame, TypeOK
  <2>. QED BY <1>3, <2>1 DEF PinInv
<1>6. (pit /\ phase = Faulted => TellsFault(staged))'
  BY <1>2 DEF PinInv, TellsFault
<1>7. (shown > 0 => phase = Faulted /\ TellsFault(staged) /\ TellsFault(shift))'
  BY <1>2, <1>4 DEF TellsFault
<1>. QED BY <1>5, <1>6, <1>7 DEF PinInv, FaultShown

\* Whatever starts anew, the board, the engine or the host, starts the count too.
LEMMA OthersPin ==
  ASSUME TypeOK, PinInv,
         Start \/ Stop \/ TransferFails \/ Load \/ CrashStep \/ Reset
  PROVE  PinInv'
<1>1. CASE Start
  BY <1>1 DEF Start, PinInv, FaultShown, Priming, Faulted
<1>2. CASE Stop
  BY <1>2 DEF Stop, path, PinInv, FaultShown, TellsFault
<1>3. CASE TransferFails
  <2>1. pins'.fault
    BY <1>3 DEF TransferFails, Unreachable, TypeOK
  <2>. QED BY <1>3, <2>1 DEF TransferFails, engine, PinInv, FaultShown, TellsFault
<1>4. CASE Load
  BY <1>4 DEF Load, engine, PinInv, FaultShown, TellsFault
<1>5. CASE CrashStep
  BY <1>5 DEF CrashStep, engine, path, PinInv, FaultShown, TellsFault
<1>6. CASE Reset
  BY <1>6 DEF Reset, Boots, PinInv, FaultShown
<1>. QED BY <1>1, <1>2, <1>3, <1>4, <1>5, <1>6

\* build_reply, host_spi_task, update: an engine that has faulted is on the fault
\* pin with the second frame at the latest, whichever frames are lost or garbled.
THEOREM FaultIsShown == Spec => []FaultShown
<1>1. TypeOK /\ PinInv /\ [Next]_vars => PinInv'
  <2>. SUFFICES ASSUME TypeOK, PinInv, [Next]_vars PROVE PinInv'
    OBVIOUS
  <2>1. CASE UNCHANGED vars
    BY <2>1 DEF vars, engine, path, PinInv, FaultShown, TellsFault
  <2>2. CASE Next
    BY <2>2, TickPin, FramePin, OthersPin DEF Next
  <2>. QED BY <2>1, <2>2
<1>2. PinInv => FaultShown
  BY DEF PinInv
<1>. QED BY <1>1, <1>2, InitPin, LinkTypeCorrect, PTL DEF Spec

-----------------------------------------------------------------------------
(* The input pins: component and board take the same bytes for a number,   *)
(* each at its own place, and extend its sign alike.                       *)

\* The n bytes of a from i on, and of b from j on, are the same.
SameBytes(a, i, b, j, n) ==
  \A k \in 0 .. n - 1 : i + k \in DOMAIN a /\ j + k \in DOMAIN b /\ a[i + k] = b[j + k]

\* The same bytes make the same number.
LEMMA SameNumber ==
  ASSUME NEW a, NEW b, NEW i, NEW j, NEW n \in Nat, SameBytes(a, i, b, j, n)
  PROVE  LittleEndian(a, i, n) = LittleEndian(b, j, n)
<1>. DEFINE byteA(k) == IF i + k \in DOMAIN a THEN a[i + k] * 2^(ByteBits * k) ELSE 0
            byteB(k) == IF j + k \in DOMAIN b THEN b[j + k] * 2^(ByteBits * k) ELSE 0
            A(f) == [m \in 0 .. n |-> IF m = 0 THEN 0 ELSE f[m - 1] + byteA(m - 1)]
            B(f) == [m \in 0 .. n |-> IF m = 0 THEN 0 ELSE f[m - 1] + byteB(m - 1)]
<1>1. ASSUME NEW f PROVE A(f) = B(f)
  <2>1. ASSUME NEW m \in 0 .. n, m # 0 PROVE byteA(m - 1) = byteB(m - 1)
    <3>1. m - 1 \in 0 .. n - 1
      BY <2>1
    <3>. QED BY <3>1, Zenon DEF SameBytes
  <2>. HIDE DEF byteA, byteB
  <2>2. \A m \in 0 .. n : (IF m = 0 THEN 0 ELSE f[m - 1] + byteA(m - 1))
                            = (IF m = 0 THEN 0 ELSE f[m - 1] + byteB(m - 1))
    BY <2>1, Zenon
  <2>. QED BY <2>2, Zenon
<1>2. LittleEndian(a, i, n) = (CHOOSE f : f = A(f))[n]
  BY DEF LittleEndian
<1>3. LittleEndian(b, j, n) = (CHOOSE f : f = B(f))[n]
  BY DEF LittleEndian
<1>4. (CHOOSE f : f = A(f)) = (CHOOSE f : f = B(f))
  <2>. HIDE DEF A, B
  <2>1. \A f : f = A(f) <=> f = B(f)
    BY <1>1
  <2>. QED BY <2>1, Zenon
<1>. QED BY <1>2, <1>3, <1>4

\* A number of n bytes has n bytes, no more than the word.
LEMMA WholeBytes ==
  ASSUME NEW n \in 1 .. WordBytes
  PROVE  /\ n * ByteBits \in 1 .. WordBits /\ WordBits \in Nat
         /\ (n * ByteBits) \div ByteBits = n
         /\ (n * ByteBits + ByteBits - 1) \div ByteBits = n
<1>1. n \in Nat /\ n >= 1 /\ n <= WordBytes /\ ByteBits \in Nat /\ ByteBits >= 1 /\ WordBytes \in Nat
  BY LayoutAssumption
<1>2. n * ByteBits \in Nat /\ n * ByteBits >= 1 /\ n * ByteBits <= ByteBits * WordBytes
  BY <1>1
<1>. QED BY <1>1, <1>2 DEF WordBits

\* What a pin is: a bit, or a number within its half of the image.
LEMMA PinProperties ==
  ASSUME NEW p \in Pins
  PROVE  \/ /\ p.type = "b" /\ p.off \in 0 .. ImageSize - 1
            /\ p.pos \in 0 .. ByteBits - 1 /\ p.len = 1
         \/ /\ p.type \in {"u", "s"} /\ p.off \in 0 .. ImageSize - 1
            /\ p.len \in 1 .. WordBits /\ NBytes(p) \in Nat
            /\ p.pos = 0 /\ p.len = NBytes(p) * ByteBits
            /\ \/ \A k \in 0 .. NBytes(p) - 1 : p.off + k \in 0 .. OutBytes - 1
               \/ \A k \in 0 .. NBytes(p) - 1 : p.off + k \in OutBytes .. ImageSize - 1
            /\ NBytes(p) >= 1
<1>1. CASE p \in [type : {"b"}, off : 0 .. ImageSize - 1, pos : 0 .. ByteBits - 1, len : {1}]
  BY <1>1
<1>2. CASE p \in [type : {"u", "s"}, off : 0 .. ImageSize - 1, pos : {0},
                  len : {n * ByteBits : n \in 1 .. WordBytes}]
           /\ \E half \in {0 .. OutBytes - 1, OutBytes .. ImageSize - 1} :
                p.off .. p.off + p.len \div ByteBits - 1 \subseteq half
  <2>1. PICK n \in 1 .. WordBytes : p.len = n * ByteBits
    BY <1>2
  <2>2. p.len \in 1 .. WordBits /\ p.len \div ByteBits = n /\ NBytes(p) = n /\ n \in Nat /\ n >= 1
    BY <2>1, WholeBytes DEF NBytes
  <2>3. p.type \in {"u", "s"} /\ p.off \in 0 .. ImageSize - 1 /\ p.pos = 0
    BY <1>2
  <2>4. \A k \in 0 .. n - 1 : p.off + k \in p.off .. p.off + n - 1
    BY <2>2, <2>3
  <2>. QED BY <1>2, <2>1, <2>2, <2>3, <2>4
<1>. QED BY <1>1, <1>2 DEF Pins

\* deserialize_in from the frame is read_value from the image, when the frame
\* holds the bytes of the input half at their place behind the header.
LEMMA HostReads ==
  ASSUME NEW p \in Inputs, NEW frame, NEW data,
         \A i \in OutBytes .. ImageSize - 1 :
           /\ i \in DOMAIN data /\ MisoHdr + i - OutBytes \in DOMAIN frame
           /\ frame[MisoHdr + i - OutBytes] = data[i]
  PROVE  DeserializeIn(frame, p) = ReadValue(data, p)
<1>1. p \in Pins /\ ~(p.off < OutBytes)
  BY DEF Inputs, Outputs
<1>2. p.off \in 0 .. ImageSize - 1 /\ ImageSize \in Nat /\ OutBytes \in Nat /\ MisoHdr \in Nat
  BY <1>1, PinProperties, LayoutAssumption DEF ImageSize
<1>3. p.off \in OutBytes .. ImageSize - 1 /\ FrameOff(p) = MisoHdr + p.off - OutBytes
  BY <1>1, <1>2 DEF FrameOff
<1>4. CASE p.type = "b"
  <2>1. p.off \in DOMAIN data /\ frame[FrameOff(p)] = data[p.off]
    BY <1>3
  <2>2. DeserializeIn(frame, p) = BitAt(frame, FrameOff(p), p.pos)
    BY <1>4 DEF DeserializeIn
  <2>3. ReadValue(data, p) = BitAt(data, p.off, p.pos)
    BY <1>4, <2>1 DEF ReadValue
  <2>. QED BY <2>1, <2>2, <2>3 DEF BitAt
<1>5. CASE p.type # "b"
  <2>1. /\ p.type \in {"u", "s"} /\ p.len \in 1 .. WordBits /\ NBytes(p) \in Nat
        /\ \A k \in 0 .. NBytes(p) - 1 : p.off + k \in OutBytes .. ImageSize - 1
    <3>1. 0 \in 0 .. NBytes(p) - 1 /\ ~(p.off + 0 \in 0 .. OutBytes - 1)
      BY <1>1, <1>2, <1>5, PinProperties
    <3>. QED BY <1>1, <1>5, <3>1, PinProperties
  <2>2. SameBytes(frame, FrameOff(p), data, p.off, NBytes(p))
    <3>1. ASSUME NEW k \in 0 .. NBytes(p) - 1
          PROVE  /\ FrameOff(p) + k \in DOMAIN frame /\ p.off + k \in DOMAIN data
                 /\ frame[FrameOff(p) + k] = data[p.off + k]
      <4>1. p.off + k \in OutBytes .. ImageSize - 1 /\ FrameOff(p) + k = MisoHdr + (p.off + k) - OutBytes
        BY <1>2, <1>3, <2>1
      <4>. QED BY <4>1
    <3>. QED BY <3>1 DEF SameBytes
  <2>3. LittleEndian(frame, FrameOff(p), NBytes(p)) = LittleEndian(data, p.off, NBytes(p))
    BY <2>1, <2>2, SameNumber
  <2>4. CASE p.type = "s"
    <3>1. WordBits \in Nat /\ p.len \in Nat /\ p.len >= 1 /\ p.len <= WordBits
      BY <2>1, LayoutAssumption DEF WordBits
    <3>2. DeserializeIn(frame, p) = Signed(LittleEndian(frame, FrameOff(p), NBytes(p)), p.len)
      <4>1. CASE WordBits - p.len > 0
        BY <2>4, <3>1, <4>1 DEF DeserializeIn
      <4>2. CASE ~(WordBits - p.len > 0)
        <5>1. p.len = WordBits
          BY <3>1, <4>2
        <5>. QED BY <2>4, <4>2, <5>1 DEF DeserializeIn
      <4>. QED BY <4>1, <4>2
    <3>3. ReadValue(data, p) = Signed(LittleEndian(data, p.off, NBytes(p)), p.len)
      <4>1. p.len \in 1 .. 2 * WordBits - 1
        BY <3>1
      <4>. QED BY <2>4, <4>1 DEF ReadValue
    <3>. QED BY <2>3, <3>2, <3>3
  <2>5. CASE p.type = "u"
    <3>1. DeserializeIn(frame, p) = LittleEndian(frame, FrameOff(p), NBytes(p))
      BY <2>5 DEF DeserializeIn
    <3>2. ReadValue(data, p) = LittleEndian(data, p.off, NBytes(p))
      BY <2>5 DEF ReadValue
    <3>. QED BY <2>3, <3>1, <3>2
  <2>. QED BY <2>1, <2>4, <2>5
<1>. QED BY <1>4, <1>5

\* An output pin depends on the bytes of the output half only.
LEMMA OutputReads ==
  ASSUME NEW p \in Outputs, NEW a, NEW b,
         \A i \in 0 .. OutBytes - 1 : i \in DOMAIN a /\ i \in DOMAIN b /\ a[i] = b[i]
  PROVE  ReadValue(a, p) = ReadValue(b, p)
<1>1. p \in Pins /\ p.off < OutBytes
  BY DEF Outputs
<1>2. p.off \in 0 .. OutBytes - 1 /\ OutBytes \in Nat
  BY <1>1, PinProperties, LayoutAssumption DEF ImageSize
<1>3. CASE p.type = "b"
  BY <1>2, <1>3 DEF ReadValue, BitAt
<1>4. CASE p.type # "b"
  <2>1. /\ NBytes(p) \in Nat
        /\ \A k \in 0 .. NBytes(p) - 1 : p.off + k \in 0 .. OutBytes - 1
    <3>1. 0 \in 0 .. NBytes(p) - 1 /\ ~(p.off + 0 \in OutBytes .. ImageSize - 1)
      BY <1>1, <1>2, <1>4, PinProperties
    <3>. QED BY <1>1, <1>4, <3>1, PinProperties
  <2>2. SameBytes(a, p.off, b, p.off, NBytes(p))
    BY <2>1 DEF SameBytes
  <2>3. LittleEndian(a, p.off, NBytes(p)) = LittleEndian(b, p.off, NBytes(p))
    BY <2>1, <2>2, SameNumber
  <2>. QED BY <1>4, <2>3 DEF ReadValue
<1>. QED BY <1>3, <1>4

\* apply_reply, build_reply, deserialize_in: every input pin of the component
\* shows what the slave has written, for every layout of the frames and the image
\* and every width of bytes and words; no output pin changes, and a reply that is
\* too short changes nothing.
THEOREM InputsExact == InputsArrive
<1>. SUFFICES ASSUME NEW data \in Image, NEW image \in Blanks
              PROVE  LET next == ApplyReply(image, data)
                         cut  == ApplyReply(image, [i \in 0 .. ImageSize - 2 |-> data[i]])
                     IN /\ \A p \in Inputs : DeserializeIn(BuildReply(next), p) = ReadValue(data, p)
                        /\ \A p \in Outputs : ReadValue(next, p) = ReadValue(image, p)
                        /\ cut = image
  BY DEF InputsArrive
<1>. DEFINE next == ApplyReply(image, data)
            short == [i \in 0 .. ImageSize - 2 |-> data[i]]
<1>1. /\ OutBytes \in Nat /\ InBytes \in Nat /\ MisoHdr \in Nat
      /\ ImageSize = OutBytes + InBytes
  BY LayoutAssumption DEF ImageSize
<1>2. PICK v : image = [i \in 0 .. ImageSize - 1 |-> v]
  BY DEF Blanks, Same
<1>3. DOMAIN image = 0 .. ImageSize - 1 /\ DOMAIN data = 0 .. ImageSize - 1
  BY <1>2 DEF Image
<1>4. DOMAIN next = 0 .. ImageSize - 1
  BY <1>3 DEF ApplyReply
<1>5. \A i \in OutBytes .. ImageSize - 1 : next[i] = data[i]
  <2>1. OutBytes .. ImageSize - 1 \subseteq DOMAIN data
    BY <1>1, <1>3
  <2>. QED BY <1>1, <1>3, <2>1 DEF ApplyReply, InputRanges
<1>6. \A i \in 0 .. OutBytes - 1 : i \in DOMAIN image /\ i \in DOMAIN next /\ next[i] = image[i]
  BY <1>1, <1>3 DEF ApplyReply, InputRanges
<1>7. ASSUME NEW p \in Inputs PROVE DeserializeIn(BuildReply(next), p) = ReadValue(data, p)
  <2>. HIDE DEF next
  <2>1. ASSUME NEW i \in OutBytes .. ImageSize - 1
        PROVE  /\ i \in DOMAIN data /\ MisoHdr + i - OutBytes \in DOMAIN BuildReply(next)
               /\ BuildReply(next)[MisoHdr + i - OutBytes] = data[i]
    <3>1. i \in DOMAIN data
      BY <1>1, <1>3
    <3>2. /\ MisoHdr + i - OutBytes \in 0 .. MisoHdr + InBytes - 1
          /\ ~(MisoHdr + i - OutBytes < MisoHdr)
          /\ OutBytes + (MisoHdr + i - OutBytes) - MisoHdr = i
      BY <1>1
    <3>. QED BY <1>5, <3>1, <3>2 DEF BuildReply
  <2>. QED BY <2>1, HostReads
<1>8. ASSUME NEW p \in Outputs PROVE ReadValue(next, p) = ReadValue(image, p)
  <2>. HIDE DEF next
  <2>. QED BY <1>6, OutputReads
<1>9. ApplyReply(image, short) = image
  <2>1. \A i \in OutBytes .. ImageSize - 1 : ~(OutBytes .. ImageSize - 1 \subseteq 0 .. ImageSize - 2)
    <3>1. ASSUME NEW i \in OutBytes .. ImageSize - 1
          PROVE  ImageSize - 1 \in OutBytes .. ImageSize - 1 /\ ImageSize - 1 \notin 0 .. ImageSize - 2
      BY <1>1
    <3>. QED BY <3>1
  <2>2. DOMAIN short = 0 .. ImageSize - 2
    OBVIOUS
  <2>. HIDE DEF short
  <2>3. ApplyReply(image, short) = [i \in DOMAIN image |-> image[i]]
    BY <2>1, <2>2 DEF ApplyReply, InputRanges
  <2>. QED BY <1>2, <2>3
<1>. QED BY <1>7, <1>8, <1>9

-----------------------------------------------------------------------------
(* The output pins: powers of two, digits and bits.                        *)

\* A set of numbers has a least element.
LEMMA LeastNumber ==
  ASSUME NEW S \in SUBSET Nat, S # {}
  PROVE  \E m \in S : \A n \in S : m <= n
<1>. DEFINE Below == {0 .. n - 1 : n \in S}
<1>1. Below \in SUBSET FiniteSubsetsOf(Nat) /\ Below # {}
  <2>1. ASSUME NEW n \in S PROVE 0 .. n - 1 \in FiniteSubsetsOf(Nat)
    <3>1. 0 \in Int /\ n - 1 \in Int /\ 0 .. n - 1 \in SUBSET Nat
      OBVIOUS
    <3>2. IsFiniteSet(0 .. n - 1)
      BY <3>1, FS_Interval
    <3>. QED BY <3>1, <3>2 DEF FiniteSubsetsOf
  <2>. QED BY <2>1
<1>2. PICK X \in Below : \A Y \in Below : ~(<<Y, X>> \in StrictSubsetOrdering(Nat))
  BY <1>1, FS_StrictSubsetOrderingWellFounded, WFMin
<1>3. PICK m \in S : X = 0 .. m - 1
  OBVIOUS
<1>4. ASSUME NEW n \in S, n < m PROVE FALSE
  <2>1. 0 .. n - 1 \subseteq X /\ n \in X /\ n \notin 0 .. n - 1
    BY <1>3, <1>4
  <2>2. <<0 .. n - 1, X>> \in StrictSubsetOrdering(Nat)
    BY <1>3, <2>1 DEF StrictSubsetOrdering
  <2>. QED BY <1>2, <2>2
<1>. QED BY <1>4

\* 2^n counts the subsets of 1 .. n, of which there is one at least.
LEMMA PowerCounts ==
  ASSUME NEW n \in Nat
  PROVE  /\ IsFiniteSet(SUBSET (1 .. n)) /\ Cardinality(SUBSET (1 .. n)) = 2^n
         /\ 2^n \in Nat /\ 2^n >= 1
<1>1. IsFiniteSet(1 .. n) /\ Cardinality(1 .. n) = n
  BY FS_Interval
<1>2. IsFiniteSet(SUBSET (1 .. n)) /\ Cardinality(SUBSET (1 .. n)) = 2^n
  BY <1>1, FS_SUBSET
<1>3. Cardinality(SUBSET (1 .. n)) \in Nat
  BY <1>2, FS_CardinalityType
<1>4. Cardinality(SUBSET (1 .. n)) # 0
  BY <1>2, FS_EmptySet
<1>. QED BY <1>2, <1>3, <1>4

\* A subset of 1 .. a + b is one of 1 .. a and one of a + 1 .. a + b.
LEMMA PowerSum ==
  ASSUME NEW a \in Nat, NEW b \in Nat
  PROVE  2^(a + b) = 2^a * 2^b
<1>. DEFINE A == 1 .. a
            B == a + 1 .. a + b
            Both == (SUBSET A) \X (SUBSET B)
            Join == [x \in Both |-> x[1] \cup x[2]]
<1>1. /\ IsFiniteSet(A) /\ Cardinality(A) = a
      /\ IsFiniteSet(B) /\ Cardinality(B) = b
      /\ A \cup B = 1 .. a + b /\ A \cap B = {}
  <2>1. A \cup B = 1 .. a + b /\ A \cap B = {}
    OBVIOUS
  <2>2. IsFiniteSet(A) /\ Cardinality(A) = a
    BY FS_Interval
  <2>3. IsFiniteSet(B) /\ Cardinality(B) = b
    <3>1. Cardinality(B) = IF a + 1 > a + b THEN 0 ELSE (a + b) - (a + 1) + 1
      BY FS_Interval
    <3>. QED BY <3>1, FS_Interval
  <2>. QED BY <2>1, <2>2, <2>3
<1>2. /\ IsFiniteSet(SUBSET A) /\ Cardinality(SUBSET A) = 2^a
      /\ IsFiniteSet(SUBSET B) /\ Cardinality(SUBSET B) = 2^b
  BY <1>1, FS_SUBSET
<1>3. IsFiniteSet(Both) /\ Cardinality(Both) = 2^a * 2^b
  <2>. HIDE DEF A, B
  <2>1. IsFiniteSet(Both) /\ Cardinality(Both) = Cardinality(SUBSET A) * Cardinality(SUBSET B)
    BY <1>2, FS_Product, Zenon
  <2>. QED BY <1>2, <2>1, Zenon
<1>4. Join \in Bijection(Both, SUBSET (1 .. a + b))
  <2>. HIDE DEF A, B
  <2>1. ASSUME NEW x \in Both
        PROVE  Join[x] = x[1] \cup x[2] /\ x[1] = Join[x] \cap A /\ x[2] = Join[x] \cap B
    <3>1. Join[x] = x[1] \cup x[2]
      OBVIOUS
    <3>2. x[1] \subseteq A /\ x[2] \subseteq B
      OBVIOUS
    <3>3. (x[1] \cup x[2]) \cap A = x[1] /\ (x[1] \cup x[2]) \cap B = x[2]
      BY <1>1, <3>2
    <3>. QED BY <3>1, <3>3
  <2>2. Join \in [Both -> SUBSET (1 .. a + b)]
    BY <1>1
  <2>3. ASSUME NEW x \in Both, NEW y \in Both, Join[x] = Join[y] PROVE x = y
    <3>1. x[1] = y[1] /\ x[2] = y[2]
      <4>1. x[1] = Join[x] \cap A /\ x[2] = Join[x] \cap B
        BY <2>1
      <4>2. y[1] = Join[y] \cap A /\ y[2] = Join[y] \cap B
        BY <2>1
      <4>. HIDE DEF Join
      <4>. QED BY <2>3, <4>1, <4>2
    <3>2. x = <<x[1], x[2]>> /\ y = <<y[1], y[2]>>
      OBVIOUS
    <3>. QED BY <3>1, <3>2, Zenon
  <2>4. \A S \in SUBSET (1 .. a + b) : \E x \in Both : Join[x] = S
    <3>1. SUFFICES ASSUME NEW S \in SUBSET (1 .. a + b)
                   PROVE  \E x \in Both : Join[x] = S
      OBVIOUS
    <3>2. <<S \cap A, S \cap B>> \in Both /\ (S \cap A) \cup (S \cap B) = S
      BY <1>1
    <3>. QED BY <3>2
  <2>. HIDE DEF Both, Join
  <2>. QED BY <2>2, <2>3, <2>4 DEF Bijection, Injection, Surjection, IsInjective
<1>5. Cardinality(SUBSET (1 .. a + b)) = Cardinality(Both)
  <2>1. ExistsBijection(Both, SUBSET (1 .. a + b))
    BY <1>4 DEF ExistsBijection
  <2>. QED BY <1>3, <2>1, FS_Bijection
<1>6. a + b \in Nat
  OBVIOUS
<1>. QED BY <1>3, <1>5, <1>6, PowerCounts

\* The first two powers.
LEMMA PowerSmall == 2^0 = 1 /\ 2^1 = 2
<1>. DEFINE None == {{}}
            Some == None \cup {{1}}
<1>1. SUBSET (1 .. 0) = None /\ SUBSET (1 .. 1) = Some /\ {1} \notin None
  <2>1. 1 .. 0 = {} /\ 1 .. 1 = {1}
    OBVIOUS
  <2>. QED BY <2>1
<1>2. Cardinality(None) = 1 /\ IsFiniteSet(None)
  BY FS_Singleton
<1>3. Cardinality(Some) = Cardinality(None) + 1
  BY <1>1, <1>2, FS_AddElement, Zenon
<1>. HIDE DEF None, Some
<1>4. Cardinality(Some) = 2
  BY <1>2, <1>3
<1>5. Cardinality(SUBSET (1 .. 0)) = 2^0 /\ Cardinality(SUBSET (1 .. 1)) = 2^1
  BY PowerCounts
<1>. QED BY <1>1, <1>2, <1>4, <1>5, Zenon

\* Quotient and remainder.
LEMMA Division ==
  ASSUME NEW m \in Nat \ {0}, NEW v \in Int
  PROVE  \E q, r \in Int : /\ q = v \div m /\ r = v % m
                           /\ 0 <= r /\ r < m /\ v = m * q + r
<1>1. v % m \in 0 .. m - 1 /\ v \div m \in Int
  OBVIOUS
<1>2. v = (v % m) + (v \div m) * m
  OBVIOUS
<1>3. PICK q \in Int, r \in 0 .. m - 1 : q = v \div m /\ r = v % m
  BY <1>1
<1>4. v = r + q * m
  BY <1>2, <1>3, Zenon
<1>5. v = m * q + r /\ r \in Int /\ 0 <= r /\ r < m
  BY <1>4
<1>. QED BY <1>3, <1>5

\* There is one of each.
LEMMA OneDivision ==
  ASSUME NEW m \in Nat \ {0}, NEW v \in Int, NEW q \in Int, NEW r \in Int,
         0 <= r, r < m, v = m * q + r
  PROVE  q = v \div m /\ r = v % m
<1>1. PICK h \in Int, d \in Int : h = v \div m /\ d = v % m /\ 0 <= d /\ d < m /\ v = m * h + d
  BY Division
<1>2. PICK k \in Int : k = q - h
  OBVIOUS
<1>3. m * k = d - r
  <2>1. m * k = m * q - m * h
    BY <1>2
  <2>. QED BY <1>1, <2>1
<1>4. ASSUME k >= 1 PROVE FALSE
  <2>1. m * k >= m
    BY <1>4
  <2>. QED BY <1>1, <1>3, <2>1
<1>5. ASSUME k <= -1 PROVE FALSE
  <2>1. m * k <= -m
    BY <1>5
  <2>. QED BY <1>1, <1>3, <2>1
<1>6. k = 0
  BY <1>4, <1>5
<1>7. q = h /\ r = d
  <2>1. q = h
    BY <1>2, <1>6
  <2>. QED BY <1>1, <2>1
<1>. QED BY <1>1, <1>7

\* A number by the product of two: the digits by the one and by the other.
LEMMA Digits ==
  ASSUME NEW P \in Nat \ {0}, NEW Q \in Nat \ {0}, NEW v \in Int
  PROVE  /\ v % (P * Q) = (v % P) + ((v \div P) % Q) * P
         /\ v \div (P * Q) = (v \div P) \div Q
<1>1. PICK h \in Int, r \in Int : h = v \div P /\ r = v % P /\ 0 <= r /\ r < P /\ v = P * h + r
  BY Division
<1>2. PICK k \in Int, d \in Int : k = h \div Q /\ d = h % Q /\ 0 <= d /\ d < Q /\ h = Q * k + d
  BY Division
<1>3. PICK M \in Nat \ {0} : M = P * Q
  OBVIOUS
<1>4. PICK t \in Int : t = r + d * P
  OBVIOUS
<1>5. v = M * k + t
  <2>1. P * h = P * (Q * k) + d * P
    BY <1>2
  <2>2. P * (Q * k) = M * k
    BY <1>3
  <2>. QED BY <1>1, <1>4, <2>1, <2>2
<1>6. 0 <= t /\ t < M
  <2>1. d * P >= 0
    BY <1>2
  <2>2. d * P <= (Q - 1) * P
    BY <1>2
  <2>3. (Q - 1) * P = M - P
    BY <1>3
  <2>. QED BY <1>1, <1>4, <2>1, <2>2, <2>3
<1>7. k = v \div M /\ t = v % M
  BY <1>5, <1>6, OneDivision
<1>. QED BY <1>1, <1>2, <1>3, <1>4, <1>7, Zenon

\* Adding a multiple adds to the quotient.
LEMMA Multiple ==
  ASSUME NEW P \in Nat \ {0}, NEW v \in Int, NEW c \in Int
  PROVE  (v + c * P) \div P = (v \div P) + c
<1>1. PICK h \in Int, r \in Int : h = v \div P /\ r = v % P /\ 0 <= r /\ r < P /\ v = P * h + r
  BY Division
<1>2. PICK y \in Int : y = v + c * P
  OBVIOUS
<1>3. PICK n \in Int : n = h + c
  OBVIOUS
<1>4. y = P * n + r
  BY <1>1, <1>2, <1>3
<1>5. n = y \div P
  BY <1>1, <1>4, OneDivision
<1>. QED BY <1>1, <1>2, <1>3, <1>5, Zenon

\* A power of two is none of nothing; its double, and the product of two.
LEMMA Powers ==
  /\ \A n \in Nat : 2^n \in Nat \ {0} /\ 2^(n + 1) = 2 * 2^n
  /\ \A a, b \in Nat : 2^(a + b) = 2^a * 2^b
  /\ 2^0 = 1 /\ 2^1 = 2
<1>1. ASSUME NEW n \in Nat PROVE 2^n \in Nat \ {0} /\ 2^(n + 1) = 2 * 2^n
  <2>1. PICK m \in Nat : m = 2^n /\ m >= 1
    BY PowerCounts
  <2>2. 2^(n + 1) = 2^n * 2^1
    <3>1. 1 \in Nat
      OBVIOUS
    <3>. QED BY <3>1, PowerSum, Zenon
  <2>3. 2^(n + 1) = m * 2
    BY <2>1, <2>2, PowerSmall, Zenon
  <2>4. m * 2 = 2 * m /\ m \in Nat \ {0}
    BY <2>1
  <2>. QED BY <2>1, <2>3, <2>4, Zenon
<1>. QED BY <1>1, PowerSum, PowerSmall, Zenon

\* Setting the bit worth P, which is o now.
Change(x, P, o, b) == x + (b - o) * P
Set(x, P, b) == Change(x, P, (x \div P) % 2, b)

\* A number is a bit and what is above and below it.
LEMMA BitSplit ==
  ASSUME NEW x \in Int, NEW P \in Nat \ {0}
  PROVE  \E g, o, r \in Int :
           /\ 0 <= o /\ o < 2 /\ 0 <= r /\ r < P
           /\ o = (x \div P) % 2 /\ x = (2 * P) * g + (o * P + r)
<1>1. PICK h \in Int, r \in Int : h = x \div P /\ r = x % P /\ 0 <= r /\ r < P /\ x = P * h + r
  BY Division
<1>2. PICK g \in Int, o \in Int : g = h \div 2 /\ o = h % 2 /\ 0 <= o /\ o < 2 /\ h = 2 * g + o
  BY Division
<1>3. x = (2 * P) * g + (o * P + r)
  <2>1. P * h = (2 * P) * g + o * P
    BY <1>2
  <2>2. PICK a \in Int, c \in Int : a = (2 * P) * g /\ c = o * P
    OBVIOUS
  <2>3. x = a + c + r /\ a + c + r = a + (c + r)
    BY <1>1, <2>1, <2>2
  <2>. QED BY <2>2, <2>3, Zenon
<1>4. o = (x \div P) % 2
  BY <1>1, <1>2, Zenon
<1>. QED BY <1>1, <1>2, <1>3, <1>4

\* Above a bit, nothing depends on it.
LEMMA AboveBit ==
  ASSUME NEW P \in Nat \ {0}, NEW g \in Int, NEW b \in 0 .. 1, NEW r \in Int, 0 <= r, r < P,
         NEW y \in Int, y = (2 * P) * g + (b * P + r)
  PROVE  g = y \div (2 * P) /\ (y \div P) % 2 = b
<1>1. PICK M \in Nat \ {0} : M = 2 * P
  OBVIOUS
<1>2. PICK t \in Int : t = b * P + r
  OBVIOUS
<1>3. 0 <= t /\ t < M
  <2>1. CASE b = 0
    BY <1>1, <1>2, <2>1
  <2>2. CASE b = 1
    BY <1>1, <1>2, <2>2
  <2>. QED BY <2>1, <2>2
<1>4. y = M * g + t
  BY <1>1, <1>2
<1>5. g = y \div M
  BY <1>3, <1>4, OneDivision
<1>6. PICK n \in Int : n = 2 * g + b
  OBVIOUS
<1>7. y = P * n + r
  <2>1. P * n = (2 * P) * g + b * P
    BY <1>6
  <2>. QED BY <2>1
<1>8. n = y \div P
  BY <1>7, OneDivision
<1>9. n % 2 = b
  BY <1>6
<1>. QED BY <1>1, <1>5, <1>8, <1>9, Zenon

\* The bit set is there, every other one is as it was.
LEMMA SetProperties ==
  ASSUME NEW x \in Int, NEW p \in Nat, NEW b \in 0 .. 1
  PROVE  /\ Set(x, 2^p, b) \in Int
         /\ (Set(x, 2^p, b) \div 2^p) % 2 = b
         /\ \A q \in Nat : q # p => (Set(x, 2^p, b) \div 2^q) % 2 = (x \div 2^q) % 2
<1>1. PICK P \in Nat \ {0} : P = 2^p
  BY Powers
<1>2. PICK g \in Int, o \in Int, r \in Int :
        /\ 0 <= o /\ o < 2 /\ 0 <= r /\ r < P
        /\ o = (x \div P) % 2 /\ x = (2 * P) * g + (o * P + r)
  BY BitSplit
<1>3. PICK c \in Int : c = b - o
  OBVIOUS
<1>4. PICK y \in Int : y = x + c * P
  OBVIOUS
<1>5. Set(x, 2^p, b) = y
  <2>1. Set(x, P, b) = Change(x, P, o, b)
    BY <1>2, Zenon DEF Set
  <2>2. Set(x, P, b) = y
    BY <1>3, <1>4, <2>1, Zenon DEF Change
  <2>. QED BY <1>1, <2>2, Zenon
<1>6. y = (2 * P) * g + (b * P + r)
  <2>1. c * P = b * P - o * P
    BY <1>3
  <2>. QED BY <1>2, <1>4, <2>1
<1>7. g = y \div (2 * P) /\ (y \div P) % 2 = b
  BY <1>2, <1>6, AboveBit
<1>8. g = x \div (2 * P)
  <2>1. o \in 0 .. 1
    BY <1>2
  <2>. QED BY <1>2, <2>1, AboveBit
<1>9. ASSUME NEW q \in Nat, q < p
      PROVE  (y \div 2^q) % 2 = (x \div 2^q) % 2
  <2>1. PICK k \in Nat : k = p - q - 1
    BY <1>9
  <2>2. PICK Q \in Nat \ {0} : Q = 2^q
    BY Powers
  <2>3. PICK R \in Nat : R = 2^k
    BY Powers
  <2>4. P = Q * (2 * R)
    <3>1. p = q + (k + 1) /\ k + 1 \in Nat
      BY <2>1
    <3>2. 2^p = 2^q * 2^(k + 1)
      BY <3>1, Powers, Zenon
    <3>. QED BY <1>1, <2>2, <2>3, <3>2, Powers, Zenon
  <2>5. PICK d \in Int : d = c * R
    OBVIOUS
  <2>6. PICK e \in Int : e = 2 * d
    OBVIOUS
  <2>7. c * P = e * Q
    <3>1. c * (Q * (2 * R)) = (2 * (c * R)) * Q
      OBVIOUS
    <3>. QED BY <2>4, <2>5, <2>6, <3>1, Zenon
  <2>8. PICK h \in Int : h = x \div Q
    OBVIOUS
  <2>9. y \div Q = h + e
    <3>1. y = x + e * Q
      BY <1>4, <2>7, Zenon
    <3>2. (x + e * Q) \div Q = (x \div Q) + e
      BY Multiple
    <3>. QED BY <2>8, <3>1, <3>2, Zenon
  <2>10. (h + e) % 2 = h % 2
    BY <2>6
  <2>. QED BY <2>2, <2>8, <2>9, <2>10, Zenon
<1>10. ASSUME NEW q \in Nat, p < q
       PROVE  (y \div 2^q) % 2 = (x \div 2^q) % 2
  <2>1. PICK k \in Nat : k = q - p - 1
    BY <1>10
  <2>2. PICK R \in Nat \ {0} : R = 2^k
    BY Powers
  <2>3. PICK M \in Nat \ {0} : M = 2 * P
    OBVIOUS
  <2>4. 2^q = M * R
    <3>1. q = (p + 1) + k /\ p + 1 \in Nat
      BY <2>1
    <3>2. 2^q = 2^(p + 1) * 2^k
      BY <3>1, Powers, Zenon
    <3>. QED BY <1>1, <2>2, <2>3, <3>2, Powers, Zenon
  <2>5. y \div (M * R) = g \div R /\ x \div (M * R) = g \div R
    <3>1. y \div (M * R) = (y \div M) \div R /\ x \div (M * R) = (x \div M) \div R
      BY Digits
    <3>. QED BY <1>7, <1>8, <2>3, <3>1, Zenon
  <2>. QED BY <2>4, <2>5, Zenon
<1>11. (y \div 2^p) % 2 = b
  BY <1>1, <1>7, Zenon
<1>12. ASSUME NEW q \in Nat, q # p PROVE (y \div 2^q) % 2 = (x \div 2^q) % 2
  <2>1. q < p \/ p < q
    BY <1>12
  <2>. QED BY <1>9, <1>10, <2>1, Zenon
<1>. QED BY <1>5, <1>11, <1>12, Zenon

\* So it is for any other bit.
LEMMA OtherBit ==
  ASSUME NEW x \in Int, NEW p \in Nat, NEW q \in Nat, q # p, NEW b \in 0 .. 1
  PROVE  (Set(x, 2^p, b) \div 2^q) % 2 = (x \div 2^q) % 2
<1>1. \A m \in Nat : m # p => (Set(x, 2^p, b) \div 2^m) % 2 = (x \div 2^m) % 2
  BY SetProperties, ZenonT(40)
<1>. QED BY <1>1, Zenon

\* The digits of a number to the base of a byte of w bits, each with its power, and
\* the sum LittleEndian and FormatValue make of them.
HasDigits(digit, n, v, w) ==
  \A k \in 0 .. n - 1 : digit[k] = ((v \div 2^(w * k)) % 2^w) * 2^(w * k)
SumOf(digit, n) ==
  (CHOOSE f : f = [m \in 0 .. n |-> IF m = 0 THEN 0 ELSE f[m - 1] + digit[m - 1]])[n]

\* Digits that are added up, each with its power, make the number again, up to
\* what they can hold.
LEMMA DigitsSum ==
  ASSUME NEW w \in Nat \ {0}, NEW n \in Nat, NEW v \in Int, NEW digit,
         HasDigits(digit, n, v, w)
  PROVE  SumOf(digit, n) = v % 2^(w * n)
<1>. DEFINE A(f) == [m \in 0 .. n |-> IF m = 0 THEN 0 ELSE f[m - 1] + digit[m - 1]]
            F == [m \in 0 .. n |-> v % 2^(w * m)]
            S == CHOOSE f : f = A(f)
<1>1. w \in Nat \ {0}
  OBVIOUS
<1>2. ASSUME NEW m \in 0 .. n, m # 0
      PROVE  v % 2^(w * m) = (v % 2^(w * (m - 1))) + digit[m - 1]
  <2>1. PICK k \in 0 .. n - 1 : k = m - 1 /\ k \in Nat
    BY <1>2
  <2>2. PICK e \in Nat : e = w * k
    BY <1>1, <2>1
  <2>3. w * m = e + w
    <3>1. w * (k + 1) = w * k + w
      BY <1>1, <2>1
    <3>. QED BY <2>1, <2>2, <3>1
  <2>4. PICK P \in Nat \ {0}, Q \in Nat \ {0} : P = 2^e /\ Q = 2^w
    BY <1>1, Powers
  <2>5. 2^(e + w) = P * Q
    BY <1>1, <2>4, Powers, Zenon
  <2>6. v % (P * Q) = (v % P) + ((v \div P) % Q) * P
    BY Digits
  <2>7. digit[k] = ((v \div P) % Q) * P
    BY <2>1, <2>2, <2>4, Zenon DEF HasDigits
  <2>. QED BY <2>1, <2>2, <2>3, <2>4, <2>5, <2>6, <2>7, Zenon
<1>3. v % 2^(w * 0) = 0
  <2>1. w * 0 = 0 /\ v % 1 = 0
    BY <1>1
  <2>. QED BY <2>1, Powers, Zenon
<1>4. F = A(F)
  <2>1. ASSUME NEW m \in 0 .. n
        PROVE  F[m] = IF m = 0 THEN 0 ELSE F[m - 1] + digit[m - 1]
    <3>1. CASE m = 0
      BY <1>3, <3>1, Zenon
    <3>2. CASE m # 0
      <4>1. m - 1 \in 0 .. n
        BY <3>2
      <4>2. F[m] = v % 2^(w * m) /\ F[m - 1] = v % 2^(w * (m - 1))
        BY <4>1, Zenon
      <4>. HIDE DEF F
      <4>. QED BY <1>2, <3>2, <4>2, Zenon
    <3>. QED BY <3>1, <3>2
  <2>2. F = [m \in 0 .. n |-> F[m]]
    OBVIOUS
  <2>. HIDE DEF F
  <2>. QED BY <2>1, <2>2, Zenon
<1>5. S = A(S)
  <2>. HIDE DEF A, F
  <2>. QED BY <1>4
<1>6. \A m \in 0 .. n : S[m] = F[m]
  <2>. DEFINE Wrong == {m \in 0 .. n : S[m] # F[m]}
  <2>1. SUFFICES ASSUME Wrong # {} PROVE FALSE
    OBVIOUS
  <2>2. Wrong \in SUBSET Nat
    OBVIOUS
  <2>3. PICK m \in Wrong : \A j \in Wrong : m <= j
    <3>. HIDE DEF Wrong
    <3>. QED BY <2>1, <2>2, LeastNumber
  <2>. HIDE DEF S, F
  <2>4. m \in 0 .. n /\ S[m] # F[m]
    OBVIOUS
  <2>5. /\ S[m] = IF m = 0 THEN 0 ELSE S[m - 1] + digit[m - 1]
        /\ F[m] = IF m = 0 THEN 0 ELSE F[m - 1] + digit[m - 1]
    <3>1. A(S)[m] = IF m = 0 THEN 0 ELSE S[m - 1] + digit[m - 1]
      BY <2>4, Zenon
    <3>2. A(F)[m] = IF m = 0 THEN 0 ELSE F[m - 1] + digit[m - 1]
      BY <2>4, Zenon
    <3>. HIDE DEF A
    <3>. QED BY <1>4, <1>5, <3>1, <3>2, Zenon
  <2>6. m # 0
    BY <2>4, <2>5, Zenon
  <2>7. m - 1 \in 0 .. n /\ ~(m <= m - 1)
    BY <2>4, <2>6
  <2>8. S[m - 1] = F[m - 1]
    BY <2>3, <2>7, Zenon
  <2>. QED BY <2>4, <2>5, <2>6, <2>8, Zenon
<1>7. F[n] = v % 2^(w * n) /\ n \in 0 .. n
  OBVIOUS
<1>. HIDE DEF F
<1>. QED BY <1>6, <1>7, Zenon DEF SumOf

\* The bytes of a number put together again.
LEMMA NumberBack ==
  ASSUME NEW D \in SUBSET Int, NEW buf \in [D -> Int], NEW o \in Int, NEW n \in Nat, NEW v \in Int,
         \A k \in 0 .. n - 1 : o + k \in D
  PROVE  LittleEndian(PutLittleEndian(buf, o, v, n), o, n) = v % 2^(ByteBits * n)
<1>. DEFINE W == PutLittleEndian(buf, o, v, n)
            byte(k) == IF o + k \in DOMAIN W THEN W[o + k] * 2^(ByteBits * k) ELSE 0
            A(f) == [m \in 0 .. n |-> IF m = 0 THEN 0 ELSE f[m - 1] + byte(m - 1)]
            digit == [k \in 0 .. n - 1 |-> byte(k)]
            B(f) == [m \in 0 .. n |-> IF m = 0 THEN 0 ELSE f[m - 1] + digit[m - 1]]
<1>1. ASSUME NEW k \in 0 .. n - 1
      PROVE  byte(k) = ((v \div 2^(ByteBits * k)) % 2^ByteBits) * 2^(ByteBits * k)
  <2>1. o + k \in D /\ o + k \in o .. o + n - 1 /\ (o + k) - o = k
    OBVIOUS
  <2>2. DOMAIN W = D /\ W[o + k] = (v \div 2^(ByteBits * ((o + k) - o))) % 2^ByteBits
    BY <2>1 DEF PutLittleEndian
  <2>. HIDE DEF W
  <2>3. W[o + k] = (v \div 2^(ByteBits * k)) % 2^ByteBits
    BY <2>1, <2>2, Zenon
  <2>. QED BY <2>1, <2>2, <2>3, Zenon
<1>2. LittleEndian(W, o, n) = (CHOOSE f : f = A(f))[n]
  <2>. HIDE DEF W
  <2>. QED BY DEF LittleEndian
<1>. HIDE DEF byte
<1>3. ASSUME NEW f PROVE A(f) = B(f)
  <2>1. ASSUME NEW m \in 0 .. n, m # 0 PROVE byte(m - 1) = digit[m - 1]
    <3>1. m - 1 \in 0 .. n - 1
      BY <2>1
    <3>. QED BY <3>1, Zenon
  <2>. HIDE DEF digit
  <2>2. \A m \in 0 .. n : (IF m = 0 THEN 0 ELSE f[m - 1] + byte(m - 1))
                            = (IF m = 0 THEN 0 ELSE f[m - 1] + digit[m - 1])
    BY <2>1, Zenon
  <2>. QED BY <2>2, Zenon
<1>4. (CHOOSE f : f = A(f)) = (CHOOSE f : f = B(f))
  <2>. HIDE DEF A, B
  <2>1. \A f : f = A(f) <=> f = B(f)
    BY <1>3
  <2>. QED BY <2>1, Zenon
<1>5. (CHOOSE f : f = B(f))[n] = v % 2^(ByteBits * n)
  <2>1. HasDigits(digit, n, v, ByteBits)
    BY <1>1, Zenon DEF HasDigits
  <2>. HIDE DEF digit
  <2>2. ByteBits \in Nat \ {0}
    BY LayoutAssumption
  <2>3. SumOf(digit, n) = v % 2^(ByteBits * n)
    BY <2>1, <2>2, DigitsSum, Zenon
  <2>. QED BY <2>3, Zenon DEF SumOf
<1>. QED BY <1>2, <1>4, <1>5, Zenon

\* A value of the pin put into a frame or an image at the place o, and taken out.
Put(buf, o, p, v) ==
  IF p.type = "b" THEN PutBit(buf, o, p.pos, v) ELSE PutLittleEndian(buf, o, v, NBytes(p))

Got(buf, o, p) ==
  CASE p.type = "b" -> BitAt(buf, o, p.pos)
    [] p.type = "s" -> Signed(LittleEndian(buf, o, NBytes(p)), p.len)
    [] OTHER -> LittleEndian(buf, o, NBytes(p))

\* Bytes that a pin has a part in.
Width(p) == IF p.type = "b" THEN 1 ELSE NBytes(p)

\* A pin has bytes.
LEMMA WidthProperties ==
  ASSUME NEW p \in Pins
  PROVE  /\ p.off \in Int /\ Width(p) \in Nat /\ Width(p) >= 1
         /\ p.type # "b" => NBytes(p) = Width(p)
  BY PinProperties DEF Width

\* Putting changes bytes of the pin only, to numbers.
LEMMA PutProperties ==
  ASSUME NEW D \in SUBSET Int, NEW buf \in [D -> Int], NEW p \in Pins, NEW v \in Int,
         NEW o \in Int, \A k \in 0 .. Width(p) - 1 : o + k \in D
  PROVE  /\ Put(buf, o, p, v) \in [D -> Int]
         /\ \A i \in D : ~(i \in o .. o + Width(p) - 1) => Put(buf, o, p, v)[i] = buf[i]
         /\ p.type = "b" => \E b \in 0 .. 1 : /\ Put(buf, o, p, v)[o] = Set(buf[o], 2^p.pos, b)
                                              /\ v \in 0 .. 1 => b = v
<1>1. CASE p.type = "b"
  <2>1. o \in D /\ buf[o] \in Int /\ p.pos \in Nat /\ o .. o + Width(p) - 1 = {o}
    <3>1. Width(p) = 1 /\ 0 \in 0 .. Width(p) - 1 /\ o + 0 = o
      BY <1>1 DEF Width
    <3>2. p.pos \in Nat
      BY <1>1, PinProperties, LayoutAssumption
    <3>. QED BY <3>1, <3>2
  <2>2. PICK b \in 0 .. 1 : b = IF v # 0 THEN 1 ELSE 0
    OBVIOUS
  <2>3. Put(buf, o, p, v) = [buf EXCEPT ![o] = Set(buf[o], 2^p.pos, b)]
    <3>1. Put(buf, o, p, v) = [buf EXCEPT ![o] = buf[o] + (b - BitAt(buf, o, p.pos)) * 2^p.pos]
      BY <1>1, <2>1, <2>2, Zenon DEF Put, PutBit
    <3>. QED BY <3>1, Zenon DEF Set, Change, BitAt
  <2>4. Set(buf[o], 2^p.pos, b) \in Int
    BY <2>1, SetProperties
  <2>5. v \in 0 .. 1 => b = v
    BY <2>2
  <2>. HIDE DEF Put, Set
  <2>. QED BY <1>1, <2>1, <2>3, <2>4, <2>5
<1>2. CASE p.type # "b"
  <2>1. Put(buf, o, p, v) = PutLittleEndian(buf, o, v, Width(p)) /\ Width(p) \in Nat
    BY <1>2, WidthProperties DEF Put
  <2>2. PICK n \in Nat : n = Width(p)
    BY <2>1
  <2>3. ASSUME NEW i \in D, i \in o .. o + n - 1
        PROVE  (v \div 2^(ByteBits * (i - o))) % 2^ByteBits \in Int
    <3>1. i - o \in Nat /\ ByteBits \in Nat
      BY <2>3, LayoutAssumption
    <3>2. ByteBits * (i - o) \in Nat
      BY <3>1
    <3>3. PICK P \in Nat \ {0}, Q \in Nat \ {0} : P = 2^(ByteBits * (i - o)) /\ Q = 2^ByteBits
      BY <3>1, <3>2, Powers
    <3>4. (v \div P) % Q \in Int
      OBVIOUS
    <3>. QED BY <3>3, <3>4, Zenon
  <2>4. PutLittleEndian(buf, o, v, n) = [i \in D |-> IF i \in o .. o + n - 1
          THEN (v \div 2^(ByteBits * (i - o))) % 2^ByteBits ELSE buf[i]]
    BY DEF PutLittleEndian
  <2>. QED BY <1>2, <2>1, <2>2, <2>3, <2>4
<1>. QED BY <1>1, <1>2

\* The same bytes make the same value.
LEMMA SameValue ==
  ASSUME NEW p \in Pins, NEW a, NEW b, NEW i \in Int, NEW j \in Int,
         SameBytes(a, i, b, j, Width(p))
  PROVE  Got(a, i, p) = Got(b, j, p)
<1>1. CASE p.type = "b"
  <2>1. Width(p) = 1 /\ 0 \in 0 .. 0 /\ i + 0 = i /\ j + 0 = j
    BY <1>1 DEF Width
  <2>2. a[i] = b[j]
    BY <2>1 DEF SameBytes
  <2>. QED BY <1>1, <2>2 DEF Got, BitAt
<1>2. CASE p.type # "b"
  <2>1. LittleEndian(a, i, NBytes(p)) = LittleEndian(b, j, NBytes(p))
    BY <1>2, WidthProperties, SameNumber
  <2>. QED BY <1>2, <2>1 DEF Got
<1>. QED BY <1>1, <1>2

\* What is put in is taken out.
LEMMA PutGot ==
  ASSUME NEW D \in SUBSET Int, NEW buf \in [D -> Int], NEW p \in Pins, NEW v \in Values(p),
         NEW o \in Int, \A k \in 0 .. Width(p) - 1 : o + k \in D
  PROVE  v \in Int /\ Got(Put(buf, o, p, v), o, p) = v
<1>1. CASE p.type = "b"
  <2>1. v \in 0 .. 1
    <3>1. Values(p) = 0 .. 2^1 - 1
      BY <1>1, PinProperties, Zenon DEF Values
    <3>2. Values(p) = 0 .. 2 - 1
      BY <3>1, Powers, Zenon
    <3>. QED BY <3>2
  <2>2. o \in D /\ buf[o] \in Int /\ p.pos \in Nat
    <3>1. Width(p) = 1 /\ 0 \in 0 .. Width(p) - 1 /\ o + 0 = o
      BY <1>1 DEF Width
    <3>2. p.pos \in Nat
      BY <1>1, PinProperties, LayoutAssumption
    <3>. QED BY <3>1, <3>2
  <2>3. Put(buf, o, p, v)[o] = Set(buf[o], 2^p.pos, v)
    BY <1>1, <2>1, PutProperties
  <2>4. (Set(buf[o], 2^p.pos, v) \div 2^p.pos) % 2 = v
    BY <2>1, <2>2, SetProperties
  <2>5. Got(Put(buf, o, p, v), o, p) = (Put(buf, o, p, v)[o] \div 2^p.pos) % 2
    BY <1>1, Zenon DEF Got, BitAt
  <2>6. v \in Int
    BY <2>1
  <2>. HIDE DEF Put, Set
  <2>. QED BY <2>3, <2>4, <2>5, <2>6, Zenon
<1>2. CASE p.type # "b"
  <2>1. /\ p.type \in {"u", "s"} /\ p.len \in Nat \ {0} /\ p.len - 1 \in Nat
        /\ NBytes(p) = Width(p) /\ NBytes(p) \in Nat /\ p.len = ByteBits * NBytes(p)
    BY <1>2, PinProperties, LayoutAssumption DEF Width
  <2>2. PICK H \in Nat \ {0} : H = 2^(p.len - 1) /\ 2^p.len = 2 * H
    <3>1. PICK n \in Nat : n = p.len - 1 /\ p.len = n + 1
      BY <2>1
    <3>2. 2^n \in Nat \ {0} /\ 2^(n + 1) = 2 * 2^n
      BY Powers
    <3>. QED BY <3>1, <3>2, Zenon
  <2>3. PICK M \in Nat \ {0} : M = 2 * H
    OBVIOUS
  <2>4. 2^p.len = M
    BY <2>2, <2>3
  <2>5. ASSUME v \in Int
        PROVE  LittleEndian(Put(buf, o, p, v), o, NBytes(p)) = v % M
    <3>1. LittleEndian(PutLittleEndian(buf, o, v, NBytes(p)), o, NBytes(p)) = v % 2^(ByteBits * NBytes(p))
      <4>1. \A k \in 0 .. NBytes(p) - 1 : o + k \in D
        BY <2>1
      <4>2. NBytes(p) \in Nat
        BY <2>1
      <4>. QED BY <2>5, <4>1, <4>2, NumberBack, ZenonT(40)
    <3>. QED BY <1>2, <2>1, <2>4, <3>1, Zenon DEF Put
  <2>6. CASE p.type = "u"
    <3>1. v \in 0 .. M - 1
      <4>1. Values(p) = 0 .. M - 1
        BY <2>4, <2>6 DEF Values
      <4>. QED BY <4>1
    <3>2. v % M = v
      <4>1. v = M * 0 + v
        BY <3>1
      <4>. QED BY <3>1, <4>1, OneDivision
    <3>. QED BY <2>5, <2>6, <3>1, <3>2 DEF Got
  <2>7. CASE p.type = "s"
    <3>1. PICK u \in 0 .. M - 1 : v = u - H
      <4>1. Values(p) = {w - H : w \in 0 .. M - 1}
        BY <2>2, <2>4, <2>7 DEF Values
      <4>. QED BY <4>1
    <3>2. v \in Int
      BY <3>1
    <3>3. PICK low \in Int : low = v % M /\ low = IF v >= 0 THEN v ELSE v + M
      <4>1. CASE v >= 0
        <5>1. v = M * 0 + v /\ v < M
          BY <2>3, <3>1
        <5>. QED BY <3>2, <4>1, <5>1, OneDivision
      <4>2. CASE ~(v >= 0)
        <5>1. PICK w \in Int : w = v + M
          BY <3>2
        <5>2. v = M * (-1) + w /\ 0 <= w /\ w < M /\ -1 \in Int
          BY <2>3, <3>1, <4>2, <5>1
        <5>3. w = v % M
          BY <3>2, <5>2, OneDivision
        <5>. QED BY <4>2, <5>1, <5>3
      <4>. QED BY <4>1, <4>2
    <3>4. low % M = low
      <4>1. low = M * 0 + low /\ 0 <= low /\ low < M
        BY <2>3, <3>1, <3>3
      <4>. QED BY <4>1, OneDivision
    <3>5. Signed(low, p.len) = IF 2 * low >= M THEN low - M ELSE low
      BY <2>4, <3>4, Zenon DEF Signed
    <3>6. Signed(low, p.len) = v
      BY <2>3, <3>1, <3>3, <3>5
    <3>7. Got(Put(buf, o, p, v), o, p) = Signed(LittleEndian(Put(buf, o, p, v), o, NBytes(p)), p.len)
      BY <2>7, Zenon DEF Got
    <3>. QED BY <2>5, <3>2, <3>3, <3>6, <3>7, Zenon
  <2>. QED BY <2>1, <2>6, <2>7
<1>. QED BY <1>1, <1>2

\* Where the bits of a pin are: every bit of each byte of a number.
LEMMA BitsOf ==
  ASSUME NEW p \in Pins
  PROVE  /\ p.type = "b" => p.off * ByteBits + p.pos \in Bits(p)
         /\ p.type # "b" => \A k \in 0 .. Width(p) - 1, c \in 0 .. ByteBits - 1 :
                              (p.off + k) * ByteBits + c \in Bits(p)
<1>1. ByteBits \in Nat /\ ByteBits >= 1
  BY LayoutAssumption
<1>2. CASE p.type = "b"
  <2>1. p.off \in Nat /\ p.pos \in Nat /\ p.len = 1
    BY <1>1, <1>2, PinProperties
  <2>2. PICK first \in Int : first = p.off * ByteBits + p.pos
    BY <1>1, <2>1
  <2>. QED BY <1>2, <2>1, <2>2 DEF Bits
<1>3. CASE p.type # "b"
  <2>1. p.off \in Nat /\ p.pos = 0 /\ Width(p) \in Nat /\ p.len = Width(p) * ByteBits
    BY <1>3, PinProperties DEF Width
  <2>2. ASSUME NEW k \in 0 .. Width(p) - 1, NEW c \in 0 .. ByteBits - 1
        PROVE  (p.off + k) * ByteBits + c \in Bits(p)
    <3>1. PICK first \in Int, n \in Int, x \in Int :
            first = p.off * ByteBits /\ n = p.len /\ x = k * ByteBits
      BY <1>1, <2>1
    <3>2. (p.off + k) * ByteBits = first + x
      BY <1>1, <2>1, <3>1
    <3>3. x >= 0 /\ x <= n - ByteBits
      <4>1. k * ByteBits <= (Width(p) - 1) * ByteBits
        BY <1>1, <2>1
      <4>2. (Width(p) - 1) * ByteBits = Width(p) * ByteBits - ByteBits
        BY <1>1, <2>1
      <4>3. k * ByteBits >= 0
        BY <1>1
      <4>. QED BY <2>1, <3>1, <4>1, <4>2, <4>3
    <3>4. Bits(p) = first .. first + n - 1
      BY <2>1, <3>1 DEF Bits
    <3>5. first + x + c \in first .. first + n - 1
      BY <1>1, <3>1, <3>3
    <3>. QED BY <3>2, <3>4, <3>5
  <2>. QED BY <1>3, <2>2
<1>. QED BY <1>2, <1>3

\* Pins with no bit in common have no byte in common, unless both are bits; two
\* bits of one byte have different positions.
LEMMA Apart ==
  ASSUME NEW p \in Pins, NEW q \in Pins, Bits(p) \cap Bits(q) = {},
         NEW k \in 0 .. Width(p) - 1, NEW l \in 0 .. Width(q) - 1, p.off + k = q.off + l
  PROVE  p.type = "b" /\ q.type = "b" /\ p.off = q.off /\ p.pos # q.pos
<1>1. ByteBits \in Nat /\ ByteBits >= 1 /\ 0 \in 0 .. ByteBits - 1
  BY LayoutAssumption
<1>2. p.off \in Int /\ q.off \in Int
  BY WidthProperties
<1>3. ASSUME NEW x \in Pins, x.type = "b"
      PROVE  /\ \A m \in 0 .. Width(x) - 1 : x.off + m = x.off
             /\ x.pos \in 0 .. ByteBits - 1
             /\ x.off * ByteBits + x.pos \in Bits(x)
  <2>1. Width(x) = 1 /\ x.off \in Int
    BY <1>3, WidthProperties DEF Width
  <2>. QED BY <1>3, <2>1, PinProperties, BitsOf
<1>4. CASE p.type = "b" /\ q.type = "b"
  <2>1. p.off = q.off
    BY <1>3, <1>4
  <2>2. p.off * ByteBits + p.pos \in Bits(p) /\ q.off * ByteBits + q.pos \in Bits(q)
    BY <1>3, <1>4
  <2>3. p.pos # q.pos
    <3>1. SUFFICES ASSUME p.pos = q.pos PROVE FALSE
      OBVIOUS
    <3>2. p.off * ByteBits + p.pos \in Bits(q)
      BY <2>1, <2>2, <3>1, Zenon
    <3>. QED BY <2>2, <3>2, Zenon
  <2>. QED BY <1>4, <2>1, <2>3
<1>5. CASE p.type = "b" /\ q.type # "b"
  <2>1. p.off = q.off + l
    BY <1>3, <1>5
  <2>2. (q.off + l) * ByteBits + p.pos \in Bits(q)
    BY <1>3, <1>5, BitsOf
  <2>3. p.off * ByteBits + p.pos \in Bits(p)
    BY <1>3, <1>5
  <2>. QED BY <2>1, <2>2, <2>3, Zenon
<1>6. CASE p.type # "b" /\ q.type = "b"
  <2>1. q.off = p.off + k
    BY <1>3, <1>6
  <2>2. (p.off + k) * ByteBits + q.pos \in Bits(p)
    BY <1>3, <1>6, BitsOf
  <2>3. q.off * ByteBits + q.pos \in Bits(q)
    BY <1>3, <1>6
  <2>. QED BY <2>1, <2>2, <2>3, Zenon
<1>7. CASE p.type # "b" /\ q.type # "b"
  <2>1. (p.off + k) * ByteBits + 0 \in Bits(p)
    BY <1>1, <1>7, BitsOf
  <2>2. (q.off + l) * ByteBits + 0 \in Bits(q)
    BY <1>1, <1>7, BitsOf
  <2>. QED BY <2>1, <2>2, Zenon
<1>. QED BY <1>4, <1>5, <1>6, <1>7

\* A pin put into a buffer at the place i leaves the pins beside it alone, if they
\* are beside it there.
LEMMA PutBeside ==
  ASSUME NEW D \in SUBSET Int, NEW buf \in [D -> Int], NEW i \in Int, NEW j \in Int,
         NEW p \in Pins, NEW q \in Pins, Bits(p) \cap Bits(q) = {}, NEW v \in Int, i + q.off = j + p.off,
         \A k \in 0 .. Width(p) - 1 : i + k \in D,
         \A k \in 0 .. Width(q) - 1 : j + k \in D
  PROVE  Got(Put(buf, i, p, v), j, q) = Got(buf, j, q)
<1>1. /\ p.off \in Int /\ q.off \in Int /\ i \in Int /\ j \in Int
      /\ Width(p) \in Nat /\ Width(q) \in Nat
  BY WidthProperties
<1>2. PICK W \in [D -> Int] :
        /\ W = Put(buf, i, p, v)
        /\ \A d \in D : ~(d \in i .. i + Width(p) - 1) => W[d] = buf[d]
        /\ p.type = "b" => \E b \in 0 .. 1 : W[i] = Set(buf[i], 2^p.pos, b)
  BY <1>1, PutProperties
<1>3. CASE p.type = "b" /\ q.type = "b" /\ p.off = q.off /\ p.pos # q.pos
  <2>1. PICK b \in 0 .. 1 : W[i] = Set(buf[i], 2^p.pos, b)
    BY <1>2, <1>3
  <2>2. buf[i] \in Int
    <3>1. 0 \in 0 .. Width(p) - 1 /\ i + 0 = i
      BY <1>1, <1>3 DEF Width
    <3>. QED BY <3>1
  <2>3. p.pos \in Nat /\ q.pos \in Nat
    BY <1>3, PinProperties, LayoutAssumption
  <2>4. PICK x \in Int : x = buf[i]
    BY <2>2
  <2>5. (Set(x, 2^p.pos, b) \div 2^q.pos) % 2 = (x \div 2^q.pos) % 2
    <3>1. q.pos # p.pos
      BY <1>3
    <3>. QED BY <2>3, <3>1, OtherBit, ZenonT(40)
  <2>6. /\ Got(W, j, q) = (W[j] \div 2^q.pos) % 2
        /\ Got(buf, j, q) = (buf[j] \div 2^q.pos) % 2
    BY <1>3, Zenon DEF Got, BitAt
  <2>7. W[j] = Set(x, 2^p.pos, b) /\ buf[j] = x
    <3>1. i = j
      BY <1>1, <1>3
    <3>. QED BY <2>1, <2>4, <3>1, Zenon
  <2>. HIDE DEF Set
  <2>. QED BY <1>2, <2>5, <2>6, <2>7, Zenon
<1>4. CASE ~(p.type = "b" /\ q.type = "b" /\ p.off = q.off /\ p.pos # q.pos)
  <2>1. ASSUME NEW l \in 0 .. Width(q) - 1
        PROVE  W[j + l] = buf[j + l]
    <3>1. ASSUME j + l \in i .. i + Width(p) - 1 PROVE FALSE
      <4>1. PICK k \in 0 .. Width(p) - 1 : p.off + k = q.off + l
        <5>1. q.off + l - p.off \in 0 .. Width(p) - 1 /\ p.off + (q.off + l - p.off) = q.off + l
          BY <1>1, <3>1
        <5>. QED BY <5>1
      <4>. QED BY <1>4, <4>1, Apart
    <3>. QED BY <1>2, <3>1
  <2>2. SameBytes(W, j, buf, j, Width(q))
    BY <2>1 DEF SameBytes
  <2>. QED BY <1>1, <1>2, <2>2, SameValue
<1>. QED BY <1>3, <1>4

\* The bytes of an output pin are in the first half of the image.
LEMMA OutputPlace ==
  ASSUME NEW p \in Outputs
  PROVE  /\ p \in Pins /\ p.off < OutBytes
         /\ \A k \in 0 .. Width(p) - 1 : p.off + k \in 0 .. OutBytes - 1
<1>1. p \in Pins /\ p.off < OutBytes
  BY DEF Outputs
<1>2. p.off \in Nat /\ OutBytes \in Nat /\ Width(p) \in Nat /\ Width(p) >= 1
  BY <1>1, PinProperties, WidthProperties, LayoutAssumption
<1>3. \A k \in 0 .. Width(p) - 1 : p.off + k \in 0 .. OutBytes - 1
  <2>1. CASE p.type = "b"
    BY <1>1, <1>2, <2>1 DEF Width
  <2>2. CASE p.type # "b"
    <3>1. 0 \in 0 .. Width(p) - 1 /\ NBytes(p) = Width(p) /\ ~(p.off + 0 \in OutBytes .. ImageSize - 1)
      BY <1>1, <1>2, <2>2, WidthProperties
    <3>. QED BY <1>1, <2>2, <3>1, PinProperties
  <2>. QED BY <2>1, <2>2
<1>. QED BY <1>1, <1>3

\* read_value and write_value, serialize_out: the same access at different places.
LEMMA Access ==
  ASSUME NEW D \in SUBSET Int, NEW buf \in [D -> Int], NEW p \in Outputs, NEW v
  PROVE  /\ SerializeOut(buf, p, v) = Put(buf, MosiHdr + p.off, p, v)
         /\ p.off \in D => /\ ReadValue(buf, p) = Got(buf, p.off, p)
                           /\ WriteValue(buf, p, v) = Put(buf, p.off, p, v)
<1>1. p \in Pins /\ p.off < OutBytes
  BY OutputPlace
<1>2. SerializeOut(buf, p, v) = Put(buf, MosiHdr + p.off, p, v)
  <2>1. FrameOff(p) = MosiHdr + p.off
    BY <1>1 DEF FrameOff
  <2>. QED BY <2>1, Zenon DEF SerializeOut, Put
<1>3. ASSUME p.off \in D
      PROVE  /\ ReadValue(buf, p) = Got(buf, p.off, p)
             /\ WriteValue(buf, p, v) = Put(buf, p.off, p, v)
  <2>1. DOMAIN buf = D
    OBVIOUS
  <2>2. CASE p.type = "b"
    BY <1>3, <2>1, <2>2 DEF ReadValue, WriteValue, Got, Put
  <2>3. CASE p.type = "u"
    <3>1. ReadValue(buf, p) = LittleEndian(buf, p.off, NBytes(p))
      BY <2>3 DEF ReadValue
    <3>2. Got(buf, p.off, p) = LittleEndian(buf, p.off, NBytes(p))
      BY <2>3 DEF Got
    <3>3. WriteValue(buf, p, v) = PutLittleEndian(buf, p.off, v, NBytes(p))
      BY <2>3 DEF WriteValue
    <3>4. Put(buf, p.off, p, v) = PutLittleEndian(buf, p.off, v, NBytes(p))
      BY <2>3 DEF Put
    <3>. QED BY <3>1, <3>2, <3>3, <3>4, Zenon
  <2>4. CASE p.type = "s"
    <3>1. p.len \in 1 .. 2 * WordBits - 1
      <4>1. WordBits \in Nat
        BY LayoutAssumption DEF WordBits
      <4>2. p.len \in 1 .. WordBits
        BY <1>1, <2>4, PinProperties
      <4>. QED BY <4>1, <4>2
    <3>2. ReadValue(buf, p) = Signed(LittleEndian(buf, p.off, NBytes(p)), p.len)
      BY <2>4, <3>1 DEF ReadValue
    <3>3. Got(buf, p.off, p) = Signed(LittleEndian(buf, p.off, NBytes(p)), p.len)
      BY <2>4 DEF Got
    <3>4. WriteValue(buf, p, v) = PutLittleEndian(buf, p.off, v, NBytes(p))
      BY <2>4 DEF WriteValue
    <3>5. Put(buf, p.off, p, v) = PutLittleEndian(buf, p.off, v, NBytes(p))
      BY <2>4 DEF Put
    <3>. QED BY <3>2, <3>3, <3>4, <3>5, Zenon
  <2>. QED BY <1>1, <2>2, <2>3, <2>4, PinProperties
<1>. QED BY <1>2, <1>3

\* What is in the buffers that the output pins are put into and taken from.
LEMMA Buffers ==
  ASSUME NEW image \in Blanks
  PROVE  /\ NoFrame \in [0 .. MosiHdr + OutBytes - 1 -> Int]
         /\ image \in [0 .. ImageSize - 1 -> Int]
         /\ MosiHdr \in Nat /\ OutBytes \in Nat /\ InBytes \in Nat
         /\ ImageSize = OutBytes + InBytes
<1>1. PICK n \in Nat \ {0} : n = 2^ByteBits
  BY LayoutAssumption, Powers
<1>2. PICK e \in Int : image = [i \in 0 .. ImageSize - 1 |-> e]
  <2>1. image = Same(0) \/ image = Same(n - 1)
    BY <1>1 DEF Blanks
  <2>2. Same(0) = [i \in 0 .. ImageSize - 1 |-> 0] /\ Same(n - 1) = [i \in 0 .. ImageSize - 1 |-> n - 1]
    BY DEF Same
  <2>3. PICK m \in Int : m = n - 1
    OBVIOUS
  <2>. QED BY <2>1, <2>2, <2>3
<1>. QED BY <1>2, LayoutAssumption DEF NoFrame, ImageSize

\* serialize_out, then apply_outputs: what is in the frame is in the image.
LEMMA Sent ==
  ASSUME NEW image \in Blanks, NEW mosi \in [0 .. MosiHdr + OutBytes - 1 -> Int],
         NEW p \in Outputs
  PROVE  ReadValue(ApplyOutputs(image, mosi), p) = Got(mosi, MosiHdr + p.off, p)
<1>. DEFINE sent == ApplyOutputs(image, mosi)
<1>1. /\ MosiHdr \in Nat /\ OutBytes \in Nat /\ ImageSize = OutBytes + InBytes /\ InBytes \in Nat
      /\ DOMAIN image = 0 .. ImageSize - 1 /\ image \in [0 .. ImageSize - 1 -> Int]
  BY Buffers
<1>2. \A i \in 0 .. OutBytes - 1 : i \in DOMAIN sent /\ sent[i] = mosi[MosiHdr + i]
  BY <1>1 DEF ApplyOutputs
<1>3. sent \in [0 .. ImageSize - 1 -> Int]
  <2>1. ASSUME NEW i \in 0 .. ImageSize - 1
        PROVE  (IF i < OutBytes THEN mosi[MosiHdr + i] ELSE image[i]) \in Int
    <3>1. i < OutBytes => MosiHdr + i \in 0 .. MosiHdr + OutBytes - 1
      BY <1>1
    <3>. QED BY <1>1, <3>1
  <2>. QED BY <1>1, <2>1 DEF ApplyOutputs
<1>4. /\ p \in Pins /\ p.off \in Int /\ Width(p) >= 1 /\ Width(p) \in Nat
      /\ \A k \in 0 .. Width(p) - 1 : p.off + k \in 0 .. OutBytes - 1
  BY OutputPlace, WidthProperties
<1>. HIDE DEF sent
<1>5. p.off \in 0 .. ImageSize - 1
  <2>1. p.off + 0 \in 0 .. OutBytes - 1
    BY <1>4
  <2>. QED BY <1>1, <1>4, <2>1
<1>6. ReadValue(sent, p) = Got(sent, p.off, p)
  <2>1. 0 .. ImageSize - 1 \in SUBSET Int
    OBVIOUS
  <2>. QED BY <1>3, <1>5, <2>1, Access
<1>7. SameBytes(sent, p.off, mosi, MosiHdr + p.off, Width(p))
  <2>1. ASSUME NEW k \in 0 .. Width(p) - 1
        PROVE  /\ p.off + k \in DOMAIN sent /\ MosiHdr + p.off + k \in DOMAIN mosi
               /\ sent[p.off + k] = mosi[MosiHdr + p.off + k]
    <3>1. PICK y \in 0 .. OutBytes - 1 : y = p.off + k
      BY <1>4
    <3>2. MosiHdr + p.off + k = MosiHdr + y /\ MosiHdr + y \in 0 .. MosiHdr + OutBytes - 1
      <4>1. p.off \in Int /\ k \in Int
        BY <1>4
      <4>. QED BY <3>1, <4>1, LayoutAssumption, SMTT(30)
    <3>3. DOMAIN mosi = 0 .. MosiHdr + OutBytes - 1
      OBVIOUS
    <3>. QED BY <1>2, <3>1, <3>2, <3>3, Zenon
  <2>. QED BY <2>1 DEF SameBytes
<1>8. Got(sent, p.off, p) = Got(mosi, MosiHdr + p.off, p)
  <2>1. MosiHdr + p.off \in Int
    BY <1>1, <1>4
  <2>. QED BY <1>4, <1>7, <2>1, SameValue
<1>. QED BY <1>6, <1>8 DEF sent

\* serialize_out, apply_outputs, read_value: what the host writes to two output
\* pins with no bit in common is what is read at their places in the image; and
\* write_value, read_value: a pin written is read back, the other one is as it
\* was; for every layout of the frames and the image and every width of bytes and
\* words.
THEOREM OutputsExact == OutputsArrive
<1>. SUFFICES ASSUME NEW p \in Outputs, NEW q \in Outputs, Bits(p) \cap Bits(q) = {},
                     NEW v \in Values(p), NEW w \in Values(q), NEW image \in Blanks
              PROVE  LET mosi    == SerializeOut(SerializeOut(NoFrame, p, v), q, w)
                         sent    == ApplyOutputs(image, mosi)
                         written == WriteValue(image, p, v)
                     IN /\ ReadValue(sent, p) = v /\ ReadValue(sent, q) = w
                        /\ ReadValue(written, p) = v /\ ReadValue(written, q) = ReadValue(image, q)
  BY DEF OutputsArrive
<1>. DEFINE F == 0 .. MosiHdr + OutBytes - 1
            I == 0 .. ImageSize - 1
            P == MosiHdr + p.off
            Q == MosiHdr + q.off
            one == SerializeOut(NoFrame, p, v)
            mosi == SerializeOut(one, q, w)
            sent == ApplyOutputs(image, mosi)
            written == WriteValue(image, p, v)
<1>1. /\ NoFrame \in [F -> Int] /\ image \in [I -> Int] /\ F \in SUBSET Int /\ I \in SUBSET Int
      /\ MosiHdr \in Nat /\ OutBytes \in Nat /\ InBytes \in Nat /\ ImageSize = OutBytes + InBytes
  BY Buffers
<1>2. /\ p \in Pins /\ p.off \in Int /\ Width(p) \in Nat /\ Width(p) >= 1
      /\ q \in Pins /\ q.off \in Int /\ Width(q) \in Nat /\ Width(q) >= 1
  BY WidthProperties DEF Outputs
<1>3. /\ \A k \in 0 .. Width(p) - 1 : p.off + k \in 0 .. OutBytes - 1
      /\ \A k \in 0 .. Width(q) - 1 : q.off + k \in 0 .. OutBytes - 1
  BY OutputPlace
<1>4. /\ \A k \in 0 .. Width(p) - 1 : P + k \in F /\ p.off + k \in I
      /\ \A k \in 0 .. Width(q) - 1 : Q + k \in F /\ q.off + k \in I
      /\ p.off \in I /\ q.off \in I /\ P \in Int /\ Q \in Int
  <2>1. ASSUME NEW x \in Pins, x.off \in Int, Width(x) \in Nat, Width(x) >= 1,
               \A k \in 0 .. Width(x) - 1 : x.off + k \in 0 .. OutBytes - 1
        PROVE  /\ \A k \in 0 .. Width(x) - 1 : MosiHdr + x.off + k \in F /\ x.off + k \in I
               /\ x.off \in I /\ MosiHdr + x.off \in Int
    <3>1. ASSUME NEW k \in 0 .. Width(x) - 1
          PROVE  MosiHdr + x.off + k \in F /\ x.off + k \in I
      <4>1. PICK y \in Int : y = x.off + k /\ 0 <= y /\ y < OutBytes
        BY <2>1, LayoutAssumption
      <4>2. MosiHdr + x.off + k = MosiHdr + y
        BY <2>1, <4>1, LayoutAssumption
      <4>3. MosiHdr + y \in F /\ y \in I
        BY <4>1, LayoutAssumption DEF ImageSize
      <4>. HIDE DEF F, I
      <4>. QED BY <4>1, <4>2, <4>3, Zenon
    <3>2. x.off + 0 \in I /\ x.off + 0 = x.off
      BY <2>1, <3>1
    <3>. QED BY <1>1, <2>1, <3>1, <3>2
  <2>. HIDE DEF F, I
  <2>. QED BY <1>2, <1>3, <2>1
<1>5. v \in Int /\ w \in Int /\ Bits(q) \cap Bits(p) = {}
  BY <1>1, <1>2, <1>4, PutGot
<1>. HIDE DEF F, I
<1>6. one = Put(NoFrame, P, p, v) /\ one \in [F -> Int]
  <2>1. one = Put(NoFrame, P, p, v)
    BY <1>1, Access
  <2>2. Put(NoFrame, P, p, v) \in [F -> Int]
    BY <1>1, <1>2, <1>4, <1>5, PutProperties
  <2>. QED BY <2>1, <2>2, Zenon
<1>7. mosi = Put(one, Q, q, w) /\ mosi \in [F -> Int]
  <2>. HIDE DEF one
  <2>1. mosi = Put(one, Q, q, w)
    BY <1>1, <1>6, Access
  <2>2. Put(one, Q, q, w) \in [F -> Int]
    BY <1>1, <1>2, <1>4, <1>5, <1>6, PutProperties
  <2>. QED BY <2>1, <2>2, Zenon
<1>8. Got(mosi, Q, q) = w
  <2>. HIDE DEF one, Q
  <2>1. Got(Put(one, Q, q, w), Q, q) = w
    BY <1>1, <1>2, <1>4, <1>6, PutGot
  <2>. HIDE DEF mosi
  <2>. QED BY <1>7, <2>1, Zenon
<1>9. Got(mosi, P, p) = v
  <2>. HIDE DEF one, mosi
  <2>1. Got(Put(one, Q, q, w), P, p) = Got(one, P, p)
    <3>1. Q + p.off = P + q.off
      BY <1>1, <1>2
    <3>2. /\ F \in SUBSET Int /\ one \in [F -> Int] /\ w \in Int
          /\ \A k \in 0 .. Width(q) - 1 : Q + k \in F
          /\ \A k \in 0 .. Width(p) - 1 : P + k \in F
          /\ P \in Int /\ Q \in Int /\ p \in Pins /\ q \in Pins
          /\ Bits(q) \cap Bits(p) = {}
      BY <1>1, <1>2, <1>4, <1>5, <1>6
    <3>. HIDE DEF P, Q
    <3>. QED BY <3>1, <3>2, PutBeside
  <2>2. Got(Put(NoFrame, P, p, v), P, p) = v
    BY <1>1, <1>2, <1>4, PutGot
  <2>. QED BY <1>6, <1>7, <2>1, <2>2, Zenon
<1>10. ReadValue(sent, p) = v /\ ReadValue(sent, q) = w
  <2>. HIDE DEF mosi
  <2>1. ReadValue(sent, p) = Got(mosi, P, p) /\ ReadValue(sent, q) = Got(mosi, Q, q)
    BY <1>7, Sent DEF F
  <2>. QED BY <1>8, <1>9, <2>1, Zenon
<1>11. written = Put(image, p.off, p, v) /\ written \in [I -> Int]
  <2>1. written = Put(image, p.off, p, v)
    BY <1>1, <1>4, Access
  <2>2. Put(image, p.off, p, v) \in [I -> Int]
    BY <1>1, <1>2, <1>4, <1>5, PutProperties
  <2>. QED BY <2>1, <2>2, Zenon
<1>12. ReadValue(written, p) = v
  <2>. HIDE DEF written
  <2>1. ReadValue(written, p) = Got(written, p.off, p)
    BY <1>1, <1>4, <1>11, Access
  <2>2. Got(Put(image, p.off, p, v), p.off, p) = v
    BY <1>1, <1>2, <1>4, PutGot
  <2>. QED BY <1>11, <2>1, <2>2, Zenon
<1>13. ReadValue(written, q) = ReadValue(image, q)
  <2>. HIDE DEF written
  <2>1. ReadValue(written, q) = Got(written, q.off, q) /\ ReadValue(image, q) = Got(image, q.off, q)
    BY <1>1, <1>4, <1>11, Access
  <2>2. Got(Put(image, p.off, p, v), q.off, q) = Got(image, q.off, q)
    <3>1. PICK i \in Int, j \in Int : i = p.off /\ j = q.off
      BY <1>2
    <3>2. i + q.off = j + p.off
      BY <3>1
    <3>3. /\ I \in SUBSET Int /\ image \in [I -> Int] /\ v \in Int
          /\ \A k \in 0 .. Width(p) - 1 : i + k \in I
          /\ \A k \in 0 .. Width(q) - 1 : j + k \in I
          /\ p \in Pins /\ q \in Pins
      BY <1>1, <1>2, <1>4, <1>5, <3>1
    <3>4. Got(Put(image, i, p, v), j, q) = Got(image, j, q)
      BY <3>2, <3>3, PutBeside
    <3>. QED BY <3>1, <3>4, Zenon
  <2>. QED BY <1>11, <2>1, <2>2, Zenon
<1>. QED BY <1>10, <1>12, <1>13

\* serialize_out and deserialize_in, read_value and write_value: whenever the host
\* is online its pins are exact, in every layout and for every width.
THEOREM PinsAlwaysExact == Spec => []PinsExact
<1>1. PinsExact
  BY InputsExact, OutputsExact DEF PinsExact
<1>. QED BY <1>1, PTL

-----------------------------------------------------------------------------
(* The console, whose steps are ConsoleNext                                *)

\* What ConsoleAssumption and CliAssumption say, bound by bound.
LEMMA BoundsTyped ==
  /\ MaxWaits \in Nat \ {0} /\ MaxChunks \in Nat \ {0}
  /\ MaxTyped \in Nat /\ MaxTraces \in Nat /\ Banner \in Nat /\ MaxUnplugs \in Nat
  /\ MaxNumber \in Nat /\ MaxPlace \in Nat
BY ConsoleAssumption, CliAssumption

FlagsTyped ==
  /\ attached \in BOOLEAN /\ endpoint \in BOOLEAN /\ pend \in BOOLEAN
  /\ ended \in BOOLEAN /\ cyclic_active \in BOOLEAN /\ on \in BOOLEAN /\ running \in BOOLEAN
  /\ failed \in BOOLEAN /\ owed \in BOOLEAN

\* Lines and slot hold commands; the rest is counts.
CountsTyped ==
  /\ typed \in Seq(Commands) /\ Len(typed) \in 0 .. 2
  /\ slot \in Seq(Commands) /\ Len(slot) \in 0 .. 1
  /\ left \in 0 .. MaxChunks /\ banner \in 0 .. Banner
  /\ at \in {"take", "run", "scan", "emit", "monitor"}
  /\ waits \in 0 .. MaxWaits - 1 /\ traces \in 0 .. MaxTraces
  /\ count \in 0 .. MaxTyped /\ unplugs \in 0 .. MaxUnplugs

\* Flags are set to truth values only.
LEMMA FlagsStep ==
  ASSUME FlagsTyped, [ConsoleNext]_console
  PROVE  FlagsTyped'
<1>1. CASE Type \/ Collect \/ Unplug \/ Plug
  BY <1>1, Zenon DEF FlagsTyped, Type, Collect, Unplug, Plug, shared, worker, history
<1>2. CASE UsbIsr
  <2>1. endpoint' \in BOOLEAN /\ pend' \in BOOLEAN /\ failed' \in BOOLEAN
    <3>1. CASE WriteResponse
      <4>1. (left' > 0) \in BOOLEAN
        OBVIOUS
      <4>. QED BY <3>1, <4>1, Zenon DEF FlagsTyped, WriteResponse
    <3>2. CASE WouldBlock \/ WriteFails \/ WriteBanner \/ NothingToWrite
      BY <3>2, Zenon DEF FlagsTyped, WouldBlock, WriteFails, WriteBanner, NothingToWrite
    <3>. QED BY <1>2, <3>1, <3>2 DEF UsbIsr
  <2>. QED BY <1>2, <2>1, Zenon DEF FlagsTyped, UsbIsr, worker
<1>3. CASE UsbIsrDetached \/ Take \/ Scan \/ Emit \/ NotDue
  BY <1>3, ZenonT(40) DEF FlagsTyped, UsbIsrDetached, Take, Scan, Emit, NotDue,
                     EmitLine, Publish, usb, shared, worker, history
<1>4. CASE Run
  BY <1>4, Zenon DEF FlagsTyped, Run, Publish
<1>5. CASE EmitMonitor
  BY <1>5, Zenon DEF FlagsTyped, EmitMonitor, Publish
<1>6. CASE UNCHANGED console
  BY <1>6, Zenon DEF FlagsTyped, console, usb, shared, worker, history
<1>. QED BY <1>1, <1>2, <1>3, <1>4, <1>5, <1>6 DEF ConsoleNext, EthercatWorker

\* Host and usb_isr: at most two lines of a packet, at most one in the slot.
LEMMA IsrCounts ==
  ASSUME CountsTyped,
         Type \/ Collect \/ Unplug \/ Plug \/ UsbIsr \/ UsbIsrDetached
  PROVE  CountsTyped'
<1>1. CASE Type
  <2>1. typed' \in Seq(Commands) /\ Len(typed') \in 0 .. 2
    <3>1. PICK c \in Commands : typed' = <<c>> \/ \E d \in Commands : typed' = <<c, d>>
      BY <1>1 DEF Type
    <3>2. CASE typed' = <<c>>
      BY <3>2
    <3>3. CASE \E d \in Commands : typed' = <<c, d>>
      BY <3>3
    <3>. QED BY <3>1, <3>2, <3>3
  <2>2. count' \in 0 .. MaxTyped
    BY <1>1, BoundsTyped DEF Type, CountsTyped
  <2>. QED BY <1>1, <2>1, <2>2 DEF Type, CountsTyped, shared, worker
<1>2. CASE Collect \/ Plug
  BY <1>2, Zenon DEF CountsTyped, Collect, Plug, shared, worker, history
<1>3. CASE Unplug
  BY <1>3, BoundsTyped DEF CountsTyped, Unplug, shared, worker
<1>4. CASE UsbIsrDetached
  <2>1. 0 \in 0 .. Banner
    BY BoundsTyped
  <2>. QED BY <1>4, <2>1, Zenon DEF CountsTyped, UsbIsrDetached, worker, history
<1>5. CASE UsbIsr
  <2>1. /\ slot' \in Seq(Commands) /\ Len(slot') \in 0 .. 1
        /\ typed' \in Seq(Commands) /\ Len(typed') \in 0 .. 2
    <3>1. typed # <<>> => <<Head(typed)>> \in Seq(Commands) /\ Len(<<Head(typed)>>) = 1
      BY DEF CountsTyped
    <3>. QED BY <1>5, <3>1 DEF UsbIsr, ReadLines, CountsTyped
  <2>2. left' \in 0 .. MaxChunks /\ banner' \in 0 .. Banner /\ unplugs' \in 0 .. MaxUnplugs
    BY <1>5, BoundsTyped DEF UsbIsr, WriteResponse, WouldBlock, WriteFails, WriteBanner,
                             NothingToWrite, Pending, CountsTyped
  <2>. QED BY <1>5, <2>1, <2>2 DEF UsbIsr, worker, CountsTyped
<1>. QED BY <1>1, <1>2, <1>3, <1>4, <1>5

\* The worker: the wait of emit_line stays below its cap.
LEMMA WorkerCounts ==
  ASSUME CountsTyped, EthercatWorker
  PROVE  CountsTyped'
<1>1. CASE Take
  BY <1>1, BoundsTyped DEF Take, Goto, usb, history, CountsTyped
<1>2. CASE Run
  BY <1>2 DEF Run, Publish, Goto, CountsTyped
<1>3. CASE Scan
  BY <1>3, BoundsTyped DEF Scan, EmitLine, Publish, Goto, history, CountsTyped
<1>4. CASE Emit
  BY <1>4, BoundsTyped DEF Emit, Goto, Pending, shared, usb, history, CountsTyped
<1>5. CASE NotDue
  BY <1>5 DEF NotDue, Goto, shared, usb, history, CountsTyped
<1>6. CASE EmitMonitor
  BY <1>6, BoundsTyped DEF EmitMonitor, Publish, Goto, CountsTyped
<1>. QED BY <1>1, <1>2, <1>3, <1>4, <1>5, <1>6 DEF EthercatWorker

\* usb_isr and ethercat_worker: every variable of the console keeps its type, and
\* every count its bound, for every number of packets, lines and looks.
THEOREM ConsoleTypeCorrect == ConsoleSpec => []ConsoleTypeOK
<1>1. ConsoleInit => FlagsTyped /\ CountsTyped
  <2>1. ConsoleInit => FlagsTyped
    BY Zenon DEF ConsoleInit, FlagsTyped
  <2>2. ConsoleInit => CountsTyped
    BY BoundsTyped DEF ConsoleInit, CountsTyped
  <2>. QED BY <2>1, <2>2
<1>2. FlagsTyped /\ CountsTyped /\ [ConsoleNext]_console => FlagsTyped' /\ CountsTyped'
  <2>. SUFFICES ASSUME FlagsTyped, CountsTyped, [ConsoleNext]_console
                PROVE  FlagsTyped' /\ CountsTyped'
    OBVIOUS
  <2>1. CASE UNCHANGED console
    BY <2>1, FlagsStep DEF console, usb, shared, worker, history, CountsTyped
  <2>2. CASE ConsoleNext
    BY <2>2, FlagsStep, IsrCounts, WorkerCounts DEF ConsoleNext
  <2>. QED BY <2>1, <2>2
<1>3. FlagsTyped /\ CountsTyped => ConsoleTypeOK
  BY DEF FlagsTyped, CountsTyped, ConsoleTypeOK
<1>. QED BY <1>1, <1>2, <1>3, PTL DEF ConsoleSpec

\* What maybe_emit_monitor owes a "stopped" line for: an engine that runs, or one
\* it has seen running and not taken leave of.
OwedInv ==
  /\ left \in Nat
  /\ cyclic_active => owed
  /\ running => owed

\* The interrupt only shortens what waits for the host.
LEMMA IsrShortens ==
  ASSUME OwedInv, Type \/ Collect \/ Unplug \/ Plug \/ UsbIsr \/ UsbIsrDetached
  PROVE  left' <= left /\ OwedInv'
<1>1. CASE Type \/ Collect \/ Unplug \/ Plug \/ UsbIsrDetached
  BY <1>1 DEF OwedInv, Type, Collect, Unplug, Plug, UsbIsrDetached,
              shared, worker, history
<1>2. CASE UsbIsr
  <2>1. left' \in Nat /\ left' <= left
    BY <1>2 DEF OwedInv, UsbIsr, WriteResponse, WouldBlock, WriteFails,
                WriteBanner, NothingToWrite, Pending
  <2>. QED BY <1>2, <2>1 DEF OwedInv, UsbIsr, worker
<1>. QED BY <1>1, <1>2

\* A command, a line of the rescan and the wait for it leave the monitor's flag
\* alone; an engine that a command has made owes a line.
LEMMA CommandOwes ==
  ASSUME OwedInv, Take \/ Run \/ Scan \/ Emit
  PROVE  OwedInv' /\ at # "monitor"
<1>1. CASE Take
  BY <1>1 DEF OwedInv, Take, history
<1>2. CASE Run
  <2>1. /\ left' \in Nat
        /\ owed' = (owed \/ cyclic_active') /\ running' = running /\ at = "run"
    BY <1>2 DEF Run, Publish
  <2>2. OwedInv'
    BY <2>1, Zenon DEF OwedInv
  <2>. QED BY <2>1, <2>2
<1>3. CASE Scan
  BY <1>3 DEF OwedInv, Scan, EmitLine, Publish, history
<1>4. CASE Emit
  BY <1>4 DEF OwedInv, Emit, shared, history
<1>. QED BY <1>1, <1>2, <1>3, <1>4

\* The monitor publishes nothing for an engine that is gone unless it has seen
\* it run, and forgets it with the line.
LEMMA MonitorOwes ==
  ASSUME OwedInv, NotDue \/ EmitMonitor
  PROVE  OwedInv' /\ (~cyclic_active /\ left' > left => owed)
<1>1. CASE NotDue
  BY <1>1 DEF OwedInv, NotDue, shared, history
<1>2. CASE EmitMonitor
  <2>1. IF (cyclic_active \/ running) /\ ~Pending THEN left' = 1 ELSE left' = left
    BY <1>2 DEF EmitMonitor, Publish
  <2>2. left' \in Nat /\ (left' > left => cyclic_active \/ running)
    BY <2>1 DEF OwedInv
  <2>3. /\ running' = (cyclic_active \/ (running /\ Pending)) /\ cyclic_active' = cyclic_active
        /\ owed' = (owed /\ (cyclic_active \/ ~running \/ Pending))
    BY <1>2 DEF EmitMonitor
  <2>4. (cyclic_active' => owed') /\ (running' => owed')
    BY <2>3, Zenon DEF OwedInv
  <2>. QED BY <2>2, <2>4 DEF OwedInv
<1>. QED BY <1>1, <1>2

\* maybe_emit_monitor: "exactly one stopped line when the engine halts" - none
\* without a run of the engine since the last, however starts, stops, switches of
\* the monitor and a busy channel follow one another.
THEOREM StoppedSaidOnce == ConsoleSpec => StoppedOnce
<1>1. ConsoleInit => OwedInv
  BY DEF ConsoleInit, OwedInv
<1>2. OwedInv /\ [ConsoleNext]_console =>
        OwedInv' /\ (at = "monitor" /\ ~cyclic_active /\ left' > left => owed)
  <2>. SUFFICES ASSUME OwedInv, [ConsoleNext]_console
                PROVE  OwedInv' /\ (at = "monitor" /\ ~cyclic_active /\ left' > left => owed)
    OBVIOUS
  <2>1. CASE UNCHANGED console
    BY <2>1 DEF OwedInv, console, shared, worker, history
  <2>2. CASE Type \/ Collect \/ Unplug \/ Plug \/ UsbIsr \/ UsbIsrDetached
    <3>1. left' <= left /\ OwedInv'
      BY <2>2, IsrShortens
    <3>2. left' \in Nat /\ left \in Nat
      BY <3>1 DEF OwedInv
    <3>. QED BY <3>1, <3>2
  <2>3. CASE Take \/ Run \/ Scan \/ Emit
    BY <2>3, CommandOwes
  <2>4. CASE NotDue \/ EmitMonitor
    BY <2>4, MonitorOwes
  <2>. QED BY <2>1, <2>2, <2>3, <2>4 DEF ConsoleNext, EthercatWorker
<1>. QED BY <1>1, <1>2, PTL DEF ConsoleSpec, StoppedOnce

-----------------------------------------------------------------------------
(* The numbers of the console: parse, encode_value, format_value.          *)

\* The types have one, two or four bytes.
LEMMA TypeSizes ==
  ASSUME NEW type \in DOMAIN Types
  PROVE  Types[type].size \in {1, 2, 4}
<1>1. DOMAIN Types = {"bool", "int8", "int16", "int32", "uint8", "uint16", "uint32"}
  BY DEF Types
<1>2. /\ Types["bool"].size = 1 /\ Types["int8"].size = 1 /\ Types["uint8"].size = 1
      /\ Types["int16"].size = 2 /\ Types["uint16"].size = 2
      /\ Types["int32"].size = 4 /\ Types["uint32"].size = 4
  BY DEF Types
<1>. QED BY <1>1, <1>2

\* encode_value, then format_value: the number up to what its bytes can hold, and
\* its sign.
LEMMA RawBack ==
  ASSUME NEW type \in DOMAIN Types, NEW v \in Int
  PROVE  FormatValue(type, EncodeValue(type, v)) =
           IF Types[type].signed
           THEN SignExtend(v % Unsigned(Types[type].size), Types[type].size)
           ELSE v % Unsigned(Types[type].size)
<1>. DEFINE n == Types[type].size
            data == EncodeValue(type, v)
            digit == [k \in 0 .. n - 1 |-> data[k + 1] * Unsigned(k)]
            A(f) == [m \in 0 .. n |-> IF m = 0 THEN 0 ELSE f[m - 1] + data[m] * Unsigned(m - 1)]
            B(f) == [m \in 0 .. n |-> IF m = 0 THEN 0 ELSE f[m - 1] + digit[m - 1]]
            raw == (CHOOSE f : f = A(f))[n]
<1>0. n \in Nat
  BY TypeSizes
<1>1. data = [i \in 1 .. n |-> (v \div Unsigned(i - 1)) % Unsigned(1)]
  BY DEF EncodeValue
<1>2. Len(data) = n
  <2>. HIDE DEF data, n
  <2>. QED BY <1>0, <1>1
<1>3. \A k \in 0 .. n - 1 : digit[k] = ((v \div 2^(OctetBits * k)) % 2^OctetBits) * 2^(OctetBits * k)
  <2>1. ASSUME NEW k \in 0 .. n - 1
        PROVE  data[k + 1] = (v \div 2^(OctetBits * k)) % 2^OctetBits
    <3>. HIDE DEF data, n
    <3>1. k + 1 \in 1 .. n /\ (k + 1) - 1 = k /\ OctetBits * 1 = OctetBits
      BY <1>0, CliAssumption
    <3>2. data[k + 1] = (v \div Unsigned((k + 1) - 1)) % Unsigned(1)
      BY <1>1, <3>1, Zenon
    <3>. QED BY <3>1, <3>2, Zenon DEF Unsigned
  <2>. HIDE DEF data
  <2>. QED BY <2>1, Zenon DEF Unsigned
<1>4. FormatValue(type, data) = IF Types[type].signed THEN SignExtend(raw, n) ELSE raw
  <2>. HIDE DEF data
  <2>. QED BY <1>2 DEF FormatValue
<1>. HIDE DEF data, n
<1>5. ASSUME NEW f PROVE A(f) = B(f)
  <2>1. ASSUME NEW m \in 0 .. n, m # 0 PROVE data[m] * Unsigned(m - 1) = digit[m - 1]
    <3>1. m - 1 \in 0 .. n - 1 /\ (m - 1) + 1 = m
      BY <1>0, <2>1
    <3>. QED BY <3>1, Zenon
  <2>. HIDE DEF digit
  <2>2. \A m \in 0 .. n : (IF m = 0 THEN 0 ELSE f[m - 1] + data[m] * Unsigned(m - 1))
                            = (IF m = 0 THEN 0 ELSE f[m - 1] + digit[m - 1])
    BY <2>1, Zenon
  <2>. QED BY <2>2, Zenon
<1>6. (CHOOSE f : f = A(f)) = (CHOOSE f : f = B(f))
  <2>. HIDE DEF A, B
  <2>1. \A f : f = A(f) <=> f = B(f)
    BY <1>5
  <2>. QED BY <2>1, Zenon
<1>7. (CHOOSE f : f = B(f))[n] = v % 2^(OctetBits * n)
  <2>1. HasDigits(digit, n, v, OctetBits)
    BY <1>3, Zenon DEF HasDigits
  <2>. HIDE DEF digit
  <2>2. OctetBits \in Nat \ {0}
    BY CliAssumption
  <2>3. SumOf(digit, n) = v % 2^(OctetBits * n)
    BY <1>0, <2>1, <2>2, DigitsSum, Zenon
  <2>. QED BY <2>3, Zenon DEF SumOf
<1>8. raw = v % Unsigned(n)
  BY <1>6, <1>7, Zenon DEF Unsigned
<1>. HIDE DEF raw
<1>. QED BY <1>4, <1>8, Zenon DEF data, n

\* What is shown is a number of the type, the one encoded if the type holds it,
\* otherwise one with the same low bytes.
LEMMA ReadBack ==
  ASSUME NEW type \in DOMAIN Types, NEW v \in Int, NEW read,
         read = FormatValue(type, EncodeValue(type, v))
  PROVE  /\ read \in Holds(type)
         /\ v \in Holds(type) => read = v
         /\ (read - v) % Unsigned(Types[type].size) = 0
<1>1. PICK n \in Nat \ {0} : n = Types[type].size
  BY TypeSizes
<1>2. PICK H \in Nat \ {0}, U \in Nat \ {0} : U = Unsigned(n) /\ U = 2 * H
  <2>1. PICK k \in Nat : OctetBits * n = k + 1
    <3>1. OctetBits * n \in Nat /\ OctetBits * n >= 1
      BY CliAssumption
    <3>. QED BY <3>1
  <2>2. PICK h \in Nat \ {0} : h = 2^k /\ 2^(k + 1) = 2 * 2^k
    BY Powers
  <2>3. PICK u \in Nat \ {0} : u = 2 * h
    OBVIOUS
  <2>4. u = 2^(OctetBits * n)
    BY <2>1, <2>2, <2>3, Zenon
  <2>. QED BY <2>3, <2>4 DEF Unsigned
<1>3. PICK q \in Int, r \in Int : q = v \div U /\ r = v % U /\ 0 <= r /\ r < U /\ v = U * q + r
  BY Division
<1>4. read = IF Types[type].signed THEN SignExtend(r, n) ELSE r
  <2>1. r = v % Unsigned(Types[type].size)
    BY <1>1, <1>2, <1>3, Zenon
  <2>2. read = IF Types[type].signed THEN SignExtend(r, Types[type].size) ELSE r
    BY <2>1, RawBack, Zenon
  <2>. QED BY <1>1, <2>2, Zenon
<1>5. SignExtend(r, n) = IF 2 * r >= U THEN r - U ELSE r
  BY <1>2, Zenon DEF SignExtend
<1>6. ASSUME NEW x \in Int, x = r \/ x = r - U
      PROVE  (x - v) % U = 0
  <2>1. PICK c \in Int : c = IF x = r THEN -q ELSE -q - 1
    OBVIOUS
  <2>2. PICK d \in Int : d = x - v
    OBVIOUS
  <2>3. d = U * c + 0
    <3>1. U * (-q) = -(U * q) /\ U * (-q - 1) = -(U * q) - U
      OBVIOUS
    <3>. QED BY <1>3, <1>6, <2>1, <2>2, <3>1
  <2>4. 0 = d % U
    BY <2>3, OneDivision
  <2>. QED BY <2>2, <2>4
<1>7. ASSUME 0 <= v, v < U PROVE r = v
  <2>1. v = U * 0 + v
    BY <1>7
  <2>2. 0 \in Int /\ v = v % U
    BY <1>7, <2>1, OneDivision
  <2>. QED BY <1>3, <2>2, Zenon
<1>8. CASE Types[type].signed
  <2>1. U \div 2 = H
    BY <1>2
  <2>2. Holds(type) = {w - H : w \in 0 .. U - 1}
    <3>1. Holds(type) = {w - Unsigned(n) \div 2 : w \in 0 .. Unsigned(n) - 1}
      BY <1>1, <1>8 DEF Holds
    <3>. QED BY <1>2, <2>1, <3>1, Zenon
  <2>3. read \in Int /\ read = IF 2 * r >= U THEN r - U ELSE r
    BY <1>4, <1>5, <1>8
  <2>4. read \in Holds(type)
    <3>1. read + H \in 0 .. U - 1 /\ read = (read + H) - H
      <4>1. 0 <= r /\ r < U /\ U = 2 * H
        BY <1>2, <1>3
      <4>2. CASE 2 * r >= U
        BY <2>3, <4>1, <4>2
      <4>3. CASE ~(2 * r >= U)
        BY <2>3, <4>1, <4>3
      <4>. QED BY <4>2, <4>3
    <3>. QED BY <2>2, <3>1
  <2>5. ASSUME v \in Holds(type) PROVE read = v
    <3>1. -H <= v /\ v < H
      BY <1>2, <2>2, <2>5
    <3>2. CASE v >= 0
      BY <1>2, <1>7, <2>3, <3>1, <3>2
    <3>3. CASE v < 0
      <4>1. PICK w \in Int : w = v + U
        OBVIOUS
      <4>2. v = U * (-1) + w /\ 0 <= w /\ w < U /\ -1 \in Int
        BY <1>2, <3>1, <3>3, <4>1
      <4>3. w = r
        BY <1>3, <4>2, OneDivision
      <4>. QED BY <1>2, <2>3, <3>1, <4>1, <4>3
    <3>. QED BY <3>2, <3>3
  <2>6. (read - v) % U = 0
    BY <1>6, <2>3
  <2>. QED BY <1>1, <1>2, <2>4, <2>5, <2>6, Zenon
<1>9. CASE ~Types[type].signed
  <2>1. read = r
    BY <1>4, <1>9
  <2>2. Holds(type) = 0 .. U - 1
    BY <1>1, <1>2, <1>9 DEF Holds
  <2>3. read \in Holds(type) /\ (v \in Holds(type) => read = v)
    BY <1>3, <1>7, <2>1, <2>2
  <2>4. (read - v) % U = 0
    BY <1>6, <2>1
  <2>. QED BY <1>1, <1>2, <2>3, <2>4, Zenon
<1>. QED BY <1>8, <1>9

\* parse_opts: of the options of a kind the last one holds.
LEMMA LastHolds ==
  ASSUME NEW words, DOMAIN words \subseteq Int, NEW opt \in {"p", "r", "t"},
         NEW k \in DOMAIN words, words[k].kind = opt,
         \A j \in DOMAIN words : words[j].kind = opt => j <= k
  PROVE  opt \in DOMAIN Options(words) /\ Options(words)[opt] = Cut(opt, words[k].word)
<1>. DEFINE given(x) == {j \in DOMAIN words : words[j].kind = x}
            latest(ks) == CHOOSE j \in ks : \A i \in ks : i <= j
<1>1. Options(words) = [x \in {y \in {"p", "r", "t"} : given(y) # {}} |->
                            Cut(x, words[latest(given(x))].word)]
  BY DEF Options
<1>2. k \in given(opt) /\ \A j \in given(opt) : j <= k /\ j \in Int
  OBVIOUS
<1>. HIDE DEF given
<1>3. latest(given(opt)) \in given(opt) /\ \A i \in given(opt) : i <= latest(given(opt))
  BY <1>2
<1>. HIDE DEF latest
<1>4. latest(given(opt)) = k
  BY <1>2, <1>3
<1>. QED BY <1>1, <1>2, <1>4

\* parse_upload, parse_download: a line that is taken asks for what its options and
\* arguments say.
LEMMA SdoTaken ==
  ASSUME NEW words, NEW download \in BOOLEAN, ParseSdo(words, download).ok
  PROVE  LET asked == ParseSdo(words, download)
             a     == Arguments(words)
         IN /\ asked.slave = Options(words)["p"]
            /\ asked.index = a[1].word /\ asked.subindex = a[2].word
            /\ download => asked.data = EncodeValue(Options(words)["t"], a[3].word)
<1>. DEFINE asked == ParseSdo(words, download)
            o == Options(words)
            a == Arguments(words)
            rec == [ok |-> TRUE, slave |-> o["p"], index |-> a[1].word, subindex |-> a[2].word,
                    data |-> IF download THEN EncodeValue(o["t"], a[3].word) ELSE <<>>]
<1>1. asked = Bad \/ asked = rec
  BY DEF ParseSdo
<1>2. ~Bad.ok
  BY DEF Bad
<1>3. asked = rec
  BY <1>1, <1>2, Zenon
<1>. QED BY <1>3

\* Short sequences, by their definition.
LEMMA ShortSequences ==
  ASSUME NEW a, NEW b, NEW c
  PROVE  Append(<<>>, a) = <<a>> /\ Append(<<a>>, b) = <<a, b>> /\ Append(<<a, b>>, c) = <<a, b, c>>
<1>. DEFINE S == {a, b, c}
<1>1. /\ a \in S /\ b \in S /\ c \in S
      /\ <<a>> \in Seq(S) /\ <<a, b>> \in Seq(S) /\ <<a, b, c>> \in Seq(S)
  OBVIOUS
<1>2. Append(<<>>, a) = <<a>>
  OBVIOUS
<1>. HIDE DEF S
<1>3. Append(<<a>>, b) = <<a, b>>
  <2>1. PICK t \in Seq(S) : t = Append(<<a>>, b)
    BY <1>1, AppendProperties
  <2>2. Len(t) = 2 /\ t[1] = a /\ t[2] = b
    BY <1>1, <2>1, AppendProperties
  <2>3. PICK u \in Seq(S) : u = <<a, b>> /\ Len(u) = 2 /\ u[1] = a /\ u[2] = b
    BY <1>1
  <2>4. t = u
    BY <2>2, <2>3
  <2>. QED BY <2>1, <2>3, <2>4
<1>4. Append(<<a, b>>, c) = <<a, b, c>>
  <2>1. PICK t \in Seq(S) : t = Append(<<a, b>>, c)
    BY <1>1, AppendProperties
  <2>2. Len(t) = 3 /\ t[1] = a /\ t[2] = b /\ t[3] = c
    BY <1>1, <2>1, AppendProperties
  <2>3. Len(<<a, b, c>>) = 3 /\ <<a, b, c>>[1] = a /\ <<a, b, c>>[2] = b /\ <<a, b, c>>[3] = c
    OBVIOUS
  <2>4. PICK u \in Seq(S) : u = <<a, b, c>> /\ Len(u) = 3 /\ u[1] = a /\ u[2] = b /\ u[3] = c
    BY <1>1, <2>3, Zenon
  <2>5. t = u
    BY <2>2, <2>4
  <2>. QED BY <2>1, <2>4, <2>5
<1>. QED BY <1>2, <1>3, <1>4

\* The arguments of "download" with both options among them.
LEMMA FiveWords ==
  ASSUME NEW a, NEW t, NEW b, NEW p, NEW c,
         a.kind = "arg", t.kind # "arg", b.kind = "arg", p.kind # "arg", c.kind = "arg"
  PROVE  Arguments(<<a, t, b, p, c>>) = <<a, b, c>>
<1>. DEFINE words == <<a, t, b, p, c>>
            A(f) == [n \in 0 .. 5 |->
                       IF n = 0 THEN <<>>
                       ELSE IF words[n].kind = "arg" THEN Append(f[n - 1], words[n])
                       ELSE f[n - 1]]
            F == [n \in 0 .. 5 |-> IF n = 0 THEN <<>> ELSE IF n <= 2 THEN <<a>>
                                   ELSE IF n <= 4 THEN <<a, b>> ELSE <<a, b, c>>]
            S == CHOOSE f : f = A(f)
<1>1. Append(<<>>, a) = <<a>> /\ Append(<<a>>, b) = <<a, b>> /\ Append(<<a, b>>, c) = <<a, b, c>>
  BY ShortSequences
<1>2. ASSUME NEW f
      PROVE  /\ A(f)[0] = <<>> /\ A(f)[1] = Append(f[0], a) /\ A(f)[2] = f[1]
             /\ A(f)[3] = Append(f[2], b) /\ A(f)[4] = f[3] /\ A(f)[5] = Append(f[4], c)
  <2>1. words[1] = a /\ words[2] = t /\ words[3] = b /\ words[4] = p /\ words[5] = c
    OBVIOUS
  <2>. HIDE DEF words
  <2>2. ASSUME NEW n \in 1 .. 5
        PROVE  A(f)[n] = IF words[n].kind = "arg" THEN Append(f[n - 1], words[n]) ELSE f[n - 1]
    <3>1. n \in 0 .. 5 /\ n # 0
      OBVIOUS
    <3>. QED BY <3>1, Zenon
  <2>3. A(f)[0] = <<>>
    OBVIOUS
  <2>. HIDE DEF A
  <2>4. /\ A(f)[1] = IF words[1].kind = "arg" THEN Append(f[0], words[1]) ELSE f[0]
        /\ A(f)[2] = IF words[2].kind = "arg" THEN Append(f[1], words[2]) ELSE f[1]
        /\ A(f)[3] = IF words[3].kind = "arg" THEN Append(f[2], words[3]) ELSE f[2]
        /\ A(f)[4] = IF words[4].kind = "arg" THEN Append(f[3], words[4]) ELSE f[3]
        /\ A(f)[5] = IF words[5].kind = "arg" THEN Append(f[4], words[5]) ELSE f[4]
    BY <2>2
  <2>. QED BY <2>1, <2>3, <2>4, Zenon
<1>3. /\ F[0] = <<>> /\ F[1] = <<a>> /\ F[2] = <<a>> /\ F[3] = <<a, b>> /\ F[4] = <<a, b>>
      /\ F[5] = <<a, b, c>>
  OBVIOUS
<1>4. F = A(F)
  <2>1. F = [n \in 0 .. 5 |-> F[n]] /\ A(F) = [n \in 0 .. 5 |-> A(F)[n]]
    OBVIOUS
  <2>. HIDE DEF A, F
  <2>2. \A n \in 0 .. 5 : F[n] = A(F)[n]
    <3>1. /\ F[0] = A(F)[0] /\ F[1] = A(F)[1] /\ F[2] = A(F)[2] /\ F[3] = A(F)[3]
          /\ F[4] = A(F)[4] /\ F[5] = A(F)[5]
      BY <1>1, <1>2, <1>3, Zenon
    <3>2. \A n \in 0 .. 5 : n = 0 \/ n = 1 \/ n = 2 \/ n = 3 \/ n = 4 \/ n = 5
      OBVIOUS
    <3>. QED BY <3>1, <3>2, Zenon
  <2>. QED BY <2>1, <2>2, Zenon
<1>5. S = A(S)
  <2>. HIDE DEF A, F
  <2>. QED BY <1>4
<1>6. Arguments(words) = S[5]
  <2>1. Len(words) = 5
    OBVIOUS
  <2>. HIDE DEF words
  <2>. QED BY <2>1 DEF Arguments
<1>7. S[5] = <<a, b, c>>
  <2>. HIDE DEF A, S
  <2>1. /\ S[0] = A(S)[0] /\ S[1] = A(S)[1] /\ S[2] = A(S)[2] /\ S[3] = A(S)[3]
        /\ S[4] = A(S)[4] /\ S[5] = A(S)[5]
    BY <1>5
  <2>2. S[2] = <<a>>
    <3>1. S[0] = <<>>
      BY <1>2, <2>1, Zenon
    <3>2. S[1] = <<a>>
      BY <1>1, <1>2, <2>1, <3>1, ZenonT(40)
    <3>. QED BY <1>2, <2>1, <3>2, ZenonT(40)
  <2>3. S[4] = <<a, b>>
    BY <1>1, <1>2, <2>1, <2>2, ZenonT(40)
  <2>. QED BY <1>1, <1>2, <2>1, <2>3, ZenonT(40)
<1>. HIDE DEF A, F, S
<1>. QED BY <1>6, <1>7, Zenon

\* The arguments of "upload" with its option between them.
LEMMA ThreeWords ==
  ASSUME NEW a, NEW p, NEW b, a.kind = "arg", p.kind # "arg", b.kind = "arg"
  PROVE  Arguments(<<a, p, b>>) = <<a, b>>
<1>. DEFINE words == <<a, p, b>>
            A(f) == [n \in 0 .. 3 |->
                       IF n = 0 THEN <<>>
                       ELSE IF words[n].kind = "arg" THEN Append(f[n - 1], words[n])
                       ELSE f[n - 1]]
            F == [n \in 0 .. 3 |-> IF n = 0 THEN <<>> ELSE IF n <= 2 THEN <<a>> ELSE <<a, b>>]
            S == CHOOSE f : f = A(f)
<1>1. Append(<<>>, a) = <<a>> /\ Append(<<a>>, b) = <<a, b>>
  BY ShortSequences
<1>2. ASSUME NEW f
      PROVE  /\ A(f)[0] = <<>> /\ A(f)[1] = Append(f[0], a)
             /\ A(f)[2] = f[1] /\ A(f)[3] = Append(f[2], b)
  <2>1. words[1] = a /\ words[2] = p /\ words[3] = b
    OBVIOUS
  <2>. HIDE DEF words
  <2>2. ASSUME NEW n \in 1 .. 3
        PROVE  A(f)[n] = IF words[n].kind = "arg" THEN Append(f[n - 1], words[n]) ELSE f[n - 1]
    <3>1. n \in 0 .. 3 /\ n # 0
      OBVIOUS
    <3>. QED BY <3>1, Zenon
  <2>3. A(f)[0] = <<>>
    OBVIOUS
  <2>. HIDE DEF A
  <2>4. /\ A(f)[1] = IF words[1].kind = "arg" THEN Append(f[0], words[1]) ELSE f[0]
        /\ A(f)[2] = IF words[2].kind = "arg" THEN Append(f[1], words[2]) ELSE f[1]
        /\ A(f)[3] = IF words[3].kind = "arg" THEN Append(f[2], words[3]) ELSE f[2]
    BY <2>2
  <2>. QED BY <2>1, <2>3, <2>4, Zenon
<1>3. F[0] = <<>> /\ F[1] = <<a>> /\ F[2] = <<a>> /\ F[3] = <<a, b>>
  OBVIOUS
<1>4. F = A(F)
  <2>1. F = [n \in 0 .. 3 |-> F[n]] /\ A(F) = [n \in 0 .. 3 |-> A(F)[n]]
    OBVIOUS
  <2>. HIDE DEF A, F
  <2>2. \A n \in 0 .. 3 : F[n] = A(F)[n]
    <3>1. F[0] = A(F)[0] /\ F[1] = A(F)[1] /\ F[2] = A(F)[2] /\ F[3] = A(F)[3]
      BY <1>1, <1>2, <1>3, Zenon
    <3>2. \A n \in 0 .. 3 : n = 0 \/ n = 1 \/ n = 2 \/ n = 3
      OBVIOUS
    <3>. QED BY <3>1, <3>2, Zenon
  <2>. QED BY <2>1, <2>2, Zenon
<1>5. S = A(S)
  <2>. HIDE DEF A, F
  <2>. QED BY <1>4
<1>6. Arguments(words) = S[3]
  <2>1. Len(words) = 3
    OBVIOUS
  <2>. HIDE DEF words
  <2>. QED BY <2>1 DEF Arguments
<1>7. S[3] = <<a, b>>
  <2>. HIDE DEF A, S
  <2>. QED BY <1>1, <1>2, <1>5, ZenonT(40)
<1>. HIDE DEF A, F, S
<1>. QED BY <1>6, <1>7, Zenon

\* A position typed is the one asked for, if 16 bits can hold it.
LEMMA PositionCut ==
  ASSUME NEW p \in Nat
  PROVE  Cut("p", p) = p % Unsigned(2) /\ (p < Unsigned(2) => Cut("p", p) = p)
<1>1. Cut("p", p) = p % Unsigned(2)
  BY DEF Cut
<1>2. PICK U \in Nat \ {0} : U = Unsigned(2)
  <2>1. OctetBits * 2 \in Nat
    BY CliAssumption
  <2>. QED BY <2>1, Powers DEF Unsigned
<1>3. ASSUME p < U PROVE p % U = p
  <2>1. p = U * 0 + p
    BY <1>3
  <2>. QED BY <1>3, <2>1, OneDivision
<1>. QED BY <1>1, <1>2, <1>3, Zenon

\* download, then upload: the number shown is the one typed, or one with the same
\* low bytes if the type cannot hold it, for every width of a byte and every number.
LEMMA DownloadsExact == DownloadsReadBack
<1>. SUFFICES ASSUME NEW type \in DOMAIN Types, NEW v \in -MaxNumber .. MaxNumber
              PROVE  LET asked == ParseSdo(<<Word("arg", 1), Word("t", type), Word("arg", 2),
                                               Word("p", 1), Word("arg", v)>>, TRUE)
                         read == FormatValue(type, asked.data)
                     IN asked.ok =>
                          /\ read \in Holds(type)
                          /\ v \in Holds(type) => read = v
                          /\ (read - v) % Unsigned(Types[type].size) = 0
  BY DEF DownloadsReadBack
<1>. DEFINE words == <<Word("arg", 1), Word("t", type), Word("arg", 2),
                       Word("p", 1), Word("arg", v)>>
            asked == ParseSdo(words, TRUE)
<1>1. v \in Int
  BY BoundsTyped
<1>2. Options(words)["t"] = type
  <2>1. /\ DOMAIN words \subseteq Int /\ 2 \in DOMAIN words
        /\ words[2].kind = "t" /\ words[2].word = type
        /\ \A j \in DOMAIN words : words[j].kind = "t" => j <= 2
    BY DEF Word
  <2>. HIDE DEF words
  <2>2. Options(words)["t"] = Cut("t", type)
    BY <2>1, LastHolds
  <2>. QED BY <2>2 DEF Cut
<1>3. Arguments(words)[3].word = v
  <2>1. /\ Word("arg", 1).kind = "arg" /\ Word("t", type).kind # "arg" /\ Word("arg", 2).kind = "arg"
        /\ Word("p", 1).kind # "arg" /\ Word("arg", v).kind = "arg" /\ Word("arg", v).word = v
    BY DEF Word
  <2>2. Arguments(words) = <<Word("arg", 1), Word("arg", 2), Word("arg", v)>>
    BY <2>1, FiveWords, Zenon
  <2>3. Arguments(words)[3] = Word("arg", v)
    <3>. HIDE DEF words
    <3>. QED BY <2>2
  <2>. QED BY <2>1, <2>3, Zenon
<1>. HIDE DEF words
<1>4. ASSUME asked.ok PROVE asked.data = EncodeValue(type, v)
  BY <1>2, <1>3, <1>4, SdoTaken, Zenon
<1>. HIDE DEF asked
<1>5. ASSUME asked.ok
      PROVE  LET read == FormatValue(type, asked.data)
             IN /\ read \in Holds(type)
                /\ v \in Holds(type) => read = v
                /\ (read - v) % Unsigned(Types[type].size) = 0
  BY <1>1, <1>4, <1>5, ReadBack, Zenon
<1>. QED BY <1>5, Zenon DEF asked, words

\* upload: index and subindex are those typed, and the position up to its width.
LEMMA ObjectsExact == ObjectsAreTyped
<1>. SUFFICES ASSUME NEW p \in 0 .. MaxPlace, NEW index \in 0 .. MaxPlace, NEW sub \in 0 .. MaxPlace
              PROVE  LET asked == ParseSdo(<<Word("arg", index), Word("p", p), Word("arg", sub)>>, FALSE)
                     IN asked.ok =>
                          /\ asked.index = index /\ asked.subindex = sub
                          /\ p < Unsigned(2) => asked.slave = p
  BY DEF ObjectsAreTyped
<1>. DEFINE words == <<Word("arg", index), Word("p", p), Word("arg", sub)>>
            asked == ParseSdo(words, FALSE)
<1>1. p \in Nat
  BY BoundsTyped
<1>2. Options(words)["p"] = Cut("p", p)
  <2>1. /\ DOMAIN words \subseteq Int /\ 2 \in DOMAIN words
        /\ words[2].kind = "p" /\ words[2].word = p
        /\ \A j \in DOMAIN words : words[j].kind = "p" => j <= 2
    BY DEF Word
  <2>. HIDE DEF words
  <2>. QED BY <2>1, LastHolds
<1>3. Arguments(words)[1].word = index /\ Arguments(words)[2].word = sub
  <2>1. /\ Word("arg", index).kind = "arg" /\ Word("p", p).kind # "arg" /\ Word("arg", sub).kind = "arg"
        /\ Word("arg", index).word = index /\ Word("arg", sub).word = sub
    BY DEF Word
  <2>2. Arguments(words) = <<Word("arg", index), Word("arg", sub)>>
    BY <2>1, ThreeWords, Zenon
  <2>3. Arguments(words)[1] = Word("arg", index) /\ Arguments(words)[2] = Word("arg", sub)
    <3>. HIDE DEF words
    <3>. QED BY <2>2
  <2>. QED BY <2>1, <2>3, Zenon
<1>. HIDE DEF words
<1>4. ASSUME asked.ok
      PROVE  asked.index = index /\ asked.subindex = sub /\ asked.slave = Cut("p", p)
  <2>1. FALSE \in BOOLEAN
    OBVIOUS
  <2>. QED BY <1>2, <1>3, <1>4, <2>1, SdoTaken, Zenon
<1>. HIDE DEF asked
<1>5. asked.ok => /\ asked.index = index /\ asked.subindex = sub
                  /\ p < Unsigned(2) => asked.slave = p
  BY <1>1, <1>4, PositionCut, Zenon
<1>. QED BY <1>5, Zenon DEF asked, words

\* start: a rate that is taken is the last one typed, and within its bounds.
LEMMA RatesExact == RatesAreBounded
<1>. SUFFICES ASSUME NEW first \in {RateMin, MaxNumber},
                     NEW rate \in 0 .. MaxNumber, NEW p \in 0 .. MaxPlace
              PROVE  LET asked == ParseStart(<<Word("r", first), Word("p", p), Word("r", rate)>>)
                     IN asked.ok =>
                          /\ asked.rate \in RateMin .. RateMax
                          /\ p < Unsigned(2) => asked.slave = p
  BY DEF RatesAreBounded
<1>. DEFINE words == <<Word("r", first), Word("p", p), Word("r", rate)>>
            asked == ParseStart(words)
            o == Options(words)
<1>1. p \in Nat
  BY BoundsTyped
<1>2. /\ DOMAIN words \subseteq Int /\ 2 \in DOMAIN words /\ 3 \in DOMAIN words
      /\ words[2].kind = "p" /\ words[2].word = p /\ words[3].kind = "r"
      /\ \A j \in DOMAIN words : words[j].kind = "p" => j <= 2
      /\ \A j \in DOMAIN words : words[j].kind = "r" => j <= 3
  BY DEF Word
<1>. HIDE DEF words
<1>3. "p" \in DOMAIN o /\ o["p"] = Cut("p", p)
  BY <1>2, LastHolds
<1>4. "r" \in DOMAIN o
  BY <1>2, LastHolds
<1>. HIDE DEF o
<1>5. /\ asked = Bad \/ asked = [ok |-> TRUE, slave |-> o["p"], rate |-> o["r"]]
      /\ o["r"] \notin RateMin .. RateMax => asked = Bad
  BY <1>3, <1>4 DEF ParseStart, Given, o
<1>6. ~Bad.ok
  BY DEF Bad
<1>. HIDE DEF asked
<1>7. ASSUME asked.ok PROVE asked.rate \in RateMin .. RateMax /\ asked.slave = Cut("p", p)
  <2>1. asked = [ok |-> TRUE, slave |-> o["p"], rate |-> o["r"]] /\ o["r"] \in RateMin .. RateMax
    BY <1>5, <1>6, <1>7, Zenon
  <2>2. asked.slave = o["p"] /\ asked.rate = o["r"]
    BY <2>1
  <2>. QED BY <1>3, <2>1, <2>2, Zenon
<1>8. asked.ok => asked.rate \in RateMin .. RateMax /\ (p < Unsigned(2) => asked.slave = p)
  BY <1>1, <1>7, PositionCut, Zenon
<1>. QED BY <1>8, Zenon DEF asked, words

\* parse, format_value: what a command asks for is what was typed, for every width
\* of a byte, every number and any bounds of the rate (CommandsExact).
THEOREM CommandsAlwaysExact == ConsoleSpec => []CommandsExact
<1>1. CommandsExact
  BY DownloadsExact, ObjectsExact, RatesExact DEF CommandsExact
<1>. QED BY <1>1, PTL
=============================================================================
