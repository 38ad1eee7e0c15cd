---------------------------- MODULE CyclicProofs ----------------------------
(***************************************************************************)
(* Cyclic proved, for any number of slaves and any sizes of the rings.     *)
(*                                                                         *)
(* First the types, and what the operators return: the lemmas of each      *)
(* section are about the operators of that section of the specification.   *)
(*                                                                         *)
(* Then safety.  A reply is matched by one index byte.  LagBound says how  *)
(* old a frame still under way can be, and with LagOrder that the indices  *)
(* cannot have wrapped: a matched reply answers the frame sent last        *)
(* (CurrentFrame, CurrentReply), so that what it says of a slave was true  *)
(* when the slave was asked.  The other conjuncts carry that knowledge     *)
(* from the slaves to reached_op, to the cursor and to the phase.          *)
(***************************************************************************)
EXTENDS Cyclic, TLAPS, FiniteSetTheorems, WellFoundedInduction, SequenceTheorems

-----------------------------------------------------------------------------
(* Arithmetic and sequences *)

\* A set of numbers has a least element: by the length of the least prefix.
LEMMA LeastProperties ==
  ASSUME NEW S \in SUBSET Nat, S # {}
  PROVE  /\ Least(S) \in S
         /\ \A y \in S : Least(S) <= y
<1> DEFINE Below == {0 .. n-1 : n \in S}
<1>1. Below \in SUBSET FiniteSubsetsOf(Nat) /\ Below # {}
  <2>1. ASSUME NEW n \in S PROVE 0 .. n-1 \in FiniteSubsetsOf(Nat)
    <3>1. 0 \in Int /\ n-1 \in Int /\ 0 .. n-1 \in SUBSET Nat
      OBVIOUS
    <3>2. IsFiniteSet(0 .. n-1)
      BY <3>1, FS_Interval
    <3> QED
      BY <3>1, <3>2 DEF FiniteSubsetsOf
  <2> QED
    BY <2>1
<1>2. PICK X \in Below :
        \A Y \in Below : ~ (<<Y, X>> \in StrictSubsetOrdering(Nat))
  BY <1>1, FS_StrictSubsetOrderingWellFounded, WFMin
<1>3. PICK m \in S : X = 0 .. m-1
  OBVIOUS
<1>4. ASSUME NEW n \in S, n < m PROVE FALSE
  <2>1. 0 .. n-1 \subseteq X /\ n \in X /\ n \notin 0 .. n-1
    BY <1>3, <1>4
  <2>2. <<0 .. n-1, X>> \in StrictSubsetOrdering(Nat)
    BY <1>3, <2>1 DEF StrictSubsetOrdering
  <2> QED
    BY <1>2, <2>2
<1> QED
  <2>1. \A n \in S : m <= n
    BY <1>4
  <2> QED
    BY <2>1 DEF Least

\* The index byte tells apart frames less than IndexMod indices old.
LEMMA ModIsIdentity ==
  ASSUME NEW n \in Nat, NEW m \in Nat, n < m
  PROVE  n % m = n
OBVIOUS

\* The fields of a frame on the wire.
LEMMA FrameType ==
  ASSUME NEW f \in Frame
  PROVE  /\ f.dgs \in Seq(Datagram)
         /\ f.lag \in Nat
BY DEF Frame

\* A tick that sends ages a frame under way, and changes nothing else of it.
LEMMA AgedFrame ==
  ASSUME NEW f \in Frame, appended \in Seq(Datagram)
  PROVE  /\ Aged(f) \in Frame
         /\ Aged(f).dgs = f.dgs
         /\ Aged(f).lag = f.lag + 1 + Len(appended)
BY DEF Aged, Frame

\* The same of a reply in the ring.
LEMMA AgedReply ==
  ASSUME NEW f \in Reply, appended \in Seq(Datagram)
  PROVE  /\ Aged(f) \in Reply
         /\ Aged(f).type = "reply"
         /\ Aged(f).res = f.res
         /\ Aged(f).lag = f.lag + 1 + Len(appended)
BY DEF Aged, Reply

-----------------------------------------------------------------------------
(* Receive *)

\* How many frames a tick takes from the ring.
Skipped == IF outstanding THEN Drained ELSE 0

\* The drain ends at the first entry that stops it, or with the ring.
LEMMA DrainedProperties ==
  ASSUME TypeOK
  PROVE  /\ Drained \in 0 .. Len(rx)
         /\ Stops # {} => Drained \in Stops
         /\ Stops = {} => Drained = Len(rx)
<1>1. Len(rx) \in Nat /\ DOMAIN rx = 1 .. Len(rx)
  BY DEF TypeOK
<1>2. Stops \in SUBSET Nat /\ Stops \subseteq DOMAIN rx
  BY <1>1 DEF Stops
<1>3. CASE Stops = {}
  BY <1>1, <1>3 DEF Drained
<1>4. CASE Stops # {}
  <2>1. Drained \in Stops
    BY <1>2, <1>4, LeastProperties DEF Drained
  <2>2. Drained \in 1 .. Len(rx)
    BY <1>1, <1>2, <2>1, Zenon
  <2>3. Drained \in 0 .. Len(rx)
    BY <1>1, <2>2
  <2> QED
    BY <1>4, <2>1, <2>3, Zenon
<1> QED
  BY <1>3, <1>4

\* The entries the drain leaves in the ring, moved up by those it took.
LEMMA UnreadProperties ==
  ASSUME TypeOK
  PROVE  /\ Skipped \in 0 .. Len(rx)
         /\ Unread \in Seq(Reply \cup Stray)
         /\ Len(Unread) = Len(rx) - Skipped
         /\ DOMAIN Unread = 1 .. Len(Unread)
         /\ \A k \in DOMAIN Unread : k + Skipped \in DOMAIN rx
                                     /\ Unread[k] = rx[k + Skipped]
<1>1. rx \in Seq(Reply \cup Stray) /\ Len(rx) \in Nat /\ DOMAIN rx = 1 .. Len(rx)
  BY DEF TypeOK
<1>2. Skipped \in 0 .. Len(rx)
  BY <1>1, DrainedProperties DEF Skipped
<1>3. Unread = SubSeq(rx, Skipped + 1, Len(rx))
  <2>1. CASE outstanding
    BY <2>1, Zenon DEF Unread, Skipped
  <2>2. CASE ~outstanding
    <3>1. Skipped + 1 = 1 /\ Unread = rx
      BY <2>2 DEF Unread, Skipped
    <3> QED
      BY <1>1, <3>1, SubSeqFull
  <2> QED
    BY <2>1, <2>2
<1>4. \A i \in Skipped + 1 .. Len(rx) : rx[i] \in Reply \cup Stray
  BY <1>1, <1>2, ElementOfSeq
<1>5. Skipped + 1 \in Int /\ Len(rx) \in Int
  BY <1>1, <1>2
<1>6. /\ Unread \in Seq(Reply \cup Stray)
      /\ Len(Unread) = IF Skipped + 1 <= Len(rx)
                       THEN Len(rx) - (Skipped + 1) + 1 ELSE 0
      /\ \A i \in 1 .. Len(rx) - (Skipped + 1) + 1 :
           Unread[i] = rx[Skipped + 1 + i - 1]
  BY <1>3, <1>4, <1>5, SubSeqProperties
<1>7. Len(Unread) = Len(rx) - Skipped
  BY <1>1, <1>2, <1>6
<1>8. DOMAIN Unread = 1 .. Len(Unread)
  BY <1>6
<1>9. ASSUME NEW k \in DOMAIN Unread
      PROVE  k + Skipped \in DOMAIN rx /\ Unread[k] = rx[k + Skipped]
  <2>1. k \in 1 .. Len(rx) - Skipped
    BY <1>7, <1>8
  <2>2. k \in 1 .. Len(rx) - (Skipped + 1) + 1 /\ Skipped + 1 + k - 1 = k + Skipped
    BY <1>1, <1>2, <2>1
  <2> QED
    <3>1. Unread[k] = rx[Skipped + 1 + k - 1]
      BY <1>6, <2>2, Zenon
    <3>2. k + Skipped \in 1 .. Len(rx)
      BY <1>1, <1>2, <2>1
    <3> QED
      BY <1>1, <2>2, <3>1, <3>2, Zenon
<1> QED
  BY <1>2, <1>6, <1>7, <1>8, <1>9

\* A match is a reply whose index byte is that of the frame sent last.
LEMMA MatchedReply ==
  ASSUME TypeOK, Matched
  PROVE  /\ outstanding
         /\ Drained \in DOMAIN rx
         /\ rx[Drained] \in Reply
         /\ rx[Drained].lag % IndexMod = 0
<1>1. outstanding /\ Drained \in Stops /\ rx[Drained].type = "reply"
  BY DEF Matched
<1>2. Drained \in DOMAIN rx /\ rx[Drained] \in Reply \cup Stray
  BY <1>1, ElementOfSeq DEF Stops, TypeOK
<1>3. EndsDrain(rx[Drained])
  BY <1>1 DEF Stops
<1> QED
  BY <1>1, <1>2, <1>3 DEF EndsDrain, Stray

\* Taking replies keeps the type of what it writes.
LEMMA ReceiveType ==
  ASSUME TypeOK, Receive
  PROVE  /\ phase' \in Phases
         /\ goodCycles' \in 0 .. PrimingCycles
         /\ reachedOp' \in [Slaves -> BOOLEAN]
<1>1. CASE Matched
  <2>1. rx[Drained] \in Reply /\ Process(rx[Drained])
    BY <1>1, MatchedReply DEF Receive
  <2>2. rx[Drained].wkc \in 0 .. N
    BY <2>1 DEF Reply
  <2>3. reachedOp' \in [Slaves -> BOOLEAN]
    BY <2>1, <2>2 DEF Process
  <2>4. goodCycles' \in 0 .. PrimingCycles
    BY <2>1, <2>2, SizesAssumption DEF Process, Lesser, TypeOK
  <2>5. phase' \in Phases
    BY <2>1 DEF Process, Settled, TypeOK, Phases
  <2> QED
    BY <2>3, <2>4, <2>5
<1>2. CASE ~Matched
  BY <1>2 DEF Receive, TypeOK
<1> QED
  BY <1>1, <1>2

-----------------------------------------------------------------------------
(* Send *)

\* The OP walk stops at the first slave that has not reached OP.
LEMMA NextCursorProperties ==
  ASSUME TypeOK
  PROVE  /\ NextCursor \in opCursor .. N
         /\ NextCursor = N \/ ~reachedOp'[NextCursor]
         /\ \A c \in opCursor .. N : c < NextCursor => reachedOp'[c]
<1> DEFINE Open == {c \in opCursor .. N : c = N \/ ~reachedOp'[c]}
<1>1. opCursor \in 0 .. N /\ N \in Nat
  BY NAssumption DEF TypeOK
<1>2. Open \in SUBSET Nat /\ N \in Open
  BY <1>1
<1>3. NextCursor \in Open /\ \A c \in Open : NextCursor <= c
  BY <1>2, LeastProperties DEF NextCursor
<1>4. ASSUME NEW c \in opCursor .. N, c < NextCursor PROVE reachedOp'[c]
  <2>1. c \notin Open
    BY <1>1, <1>2, <1>3, <1>4
  <2> QED
    BY <2>1
<1> QED
  BY <1>3, <1>4

\* Requesting OP appends at most two datagrams, for slaves of the ring.
LEMMA OpRequestType ==
  ASSUME TypeOK, AppendOpRequest
  PROVE  /\ opCursor' \in 0 .. N /\ opCtrlPhase' \in BOOLEAN
         /\ monToggle' \in BOOLEAN /\ monCursor' \in Slaves
         /\ appended' \in Seq(Datagram) /\ Len(appended') <= 2
<1>1. NextCursor \in 0 .. N
  BY NextCursorProperties, NAssumption DEF TypeOK
<1>2. opCtrlPhase' \in BOOLEAN
  BY DEF AppendOpRequest, TypeOK
<1>3. appended' \in Seq(Datagram) /\ Len(appended') <= 2
  <2>1. CASE NextCursor = N
    BY <2>1 DEF AppendOpRequest
  <2>2. CASE NextCursor # N
    <3>1. NextCursor \in Slaves
      BY <1>1, <2>2, NAssumption DEF Slaves
    <3>2. PICK kind \in {"Control", "Status"} :
            appended' = << Dg(kind, NextCursor) >>
      BY <2>2 DEF AppendOpRequest
    <3>3. Dg(kind, NextCursor) \in Datagram
      BY <3>1, <3>2 DEF Dg, Datagram, Kinds
    <3> QED
      BY <3>2, <3>3
  <2> QED
    BY <2>1, <2>2
<1> QED
  BY <1>1, <1>2, <1>3 DEF AppendOpRequest, TypeOK

\* The drift is read from a slave of the ring.
LEMMA FollowerType == Follower \in Slaves
<1>1. CASE N = 1
  BY <1>1 DEF Follower, Slaves
<1>2. CASE N # 1
  <2>1. Slaves \ {RefSlave} \in SUBSET Nat /\ Slaves \ {RefSlave} # {}
    <3>1. 0 \in Slaves /\ 1 \in Slaves
      BY <1>2, NAssumption DEF Slaves
    <3> QED
      BY <3>1 DEF Slaves
  <2> QED
    BY <1>2, <2>1, LeastProperties DEF Follower
<1> QED
  BY <1>1, <1>2

\* The poll wraps around the ring of slaves.
LEMMA NextPollType ==
  ASSUME TypeOK
  PROVE  NextPoll \in Slaves
BY NAssumption DEF TypeOK, NextPoll, Slaves

\* The monitor appends at most two datagrams, for slaves of the ring.
LEMMA MonitorType ==
  ASSUME TypeOK, AppendMonitor
  PROVE  /\ opCursor' \in 0 .. N /\ opCtrlPhase' \in BOOLEAN
         /\ monToggle' \in BOOLEAN /\ monCursor' \in Slaves
         /\ appended' \in Seq(Datagram) /\ Len(appended') <= 2
<1>1. opCursor' \in 0 .. N /\ opCtrlPhase' \in BOOLEAN
  BY DEF AppendMonitor, TypeOK
<1>2. CASE N = 1
  <2>1. Dg("DcDiff", 0) \in Datagram
    BY <1>2 DEF Dg, Datagram, Kinds, Slaves
  <2>2. appended' = << Dg("DcDiff", 0) >>
    BY <1>2 DEF AppendMonitor
  <2> QED
    BY <1>1, <1>2, <2>1, <2>2 DEF AppendMonitor, TypeOK
<1>3. CASE N # 1
  <2>1. monCursor' \in Slaves /\ monToggle' \in BOOLEAN
    BY <1>3, NextPollType DEF AppendMonitor, TypeOK
  <2>2. PICK d \in {Dg("DcDiff", Follower), Dg("AlPoll", monCursor')} :
          appended' = << Dg("DcArmw", RefSlave), d >>
    BY <1>3 DEF AppendMonitor
  <2>3. Dg("DcArmw", RefSlave) \in Datagram /\ d \in Datagram
    BY <2>1, <2>2, FollowerType, RefAssumption DEF Dg, Datagram, Kinds, Slaves
  <2> QED
    BY <1>1, <2>1, <2>2, <2>3
<1> QED
  BY <1>2, <1>3

\* Sending keeps the type of what it writes.
LEMMA SendType ==
  ASSUME TypeOK, Send
  PROVE  /\ opCursor' \in 0 .. N /\ opCtrlPhase' \in BOOLEAN
         /\ monToggle' \in BOOLEAN /\ monCursor' \in Slaves
         /\ appended' \in Seq(Datagram) /\ Len(appended') <= 2
         /\ outstanding' \in BOOLEAN
<1>1. outstanding' \in BOOLEAN
  BY DEF Send
<1>2. CASE phase' = "RequestingOp"
  BY <1>1, <1>2, OpRequestType DEF Send
<1>3. CASE phase' = "Operational"
  BY <1>1, <1>3, MonitorType DEF Send
<1>4. CASE phase' \notin {"RequestingOp", "Operational"}
  <2>1. AppendNothing
    BY <1>4 DEF Send
  <2> QED
    BY <1>1, <2>1 DEF AppendNothing, TypeOK
<1> QED
  BY <1>2, <1>3, <1>4

\* What a tick makes of the frames on the wire: older frames age and keep
\* their places, and the new frame, if it could be sent, comes last.
LEMMA SendWire ==
  ASSUME TypeOK, Send, appended' \in Seq(Datagram)
  PROVE  /\ wire' \in Seq(Frame) /\ Len(wire') <= TxLen
         /\ \A j \in DOMAIN wire : j \in DOMAIN wire' /\ wire'[j] = Aged(wire[j])
         /\ \A j \in DOMAIN wire' : j \in DOMAIN wire
              \/ /\ j = Len(wire) + 1 /\ outstanding'
                 /\ wire'[j] = [dgs |-> appended', lag |-> 0]
<1> DEFINE older == [k \in DOMAIN wire |-> Aged(wire[k])]
           new   == [dgs |-> appended', lag |-> 0]
<1>1. wire \in Seq(Frame) /\ Len(wire) \in Nat /\ DOMAIN wire = 1 .. Len(wire)
  BY DEF TypeOK
<1>2. \A k \in 1 .. Len(wire) : Aged(wire[k]) \in Frame
  BY <1>1, AgedFrame, ElementOfSeq DEF TypeOK
<1>3. older \in Seq(Frame) /\ Len(older) = Len(wire)
  BY <1>1, <1>2
<1>4. new \in Frame
  BY DEF Frame
<1>5. wire' = IF Len(wire) < TxLen THEN Append(older, new) ELSE older
  BY DEF Send
<1>6. outstanding' = (Len(wire) < TxLen)
  BY DEF Send
<1> HIDE DEF older, new
<1>7. \A k \in DOMAIN wire : older[k] = Aged(wire[k])
  BY DEF older
<1>8. CASE Len(wire) < TxLen
  <2>1. wire' = Append(older, new)
    BY <1>5, <1>8
  <2>2. /\ wire' \in Seq(Frame) /\ Len(wire') = Len(wire) + 1
        /\ \A i \in 1 .. Len(wire) : wire'[i] = older[i]
        /\ wire'[Len(wire) + 1] = new
    BY <1>3, <1>4, <2>1, AppendProperties
  <2>3. DOMAIN wire' = 1 .. Len(wire) + 1
    BY <2>2
  <2>4. /\ Len(wire') <= TxLen
        /\ DOMAIN wire \subseteq DOMAIN wire'
        /\ \A j \in DOMAIN wire' : j \in DOMAIN wire \/ j = Len(wire) + 1
    BY <1>1, <1>8, <2>2, <2>3, SizesAssumption
  <2>5. \A j \in DOMAIN wire : wire'[j] = Aged(wire[j])
    BY <1>1, <1>7, <2>2, Zenon
  <2>6. outstanding' /\ wire'[Len(wire) + 1] = [dgs |-> appended', lag |-> 0]
    BY <1>6, <1>8, <2>2, Zenon DEF new
  <2> QED
    BY <2>2, <2>4, <2>5, <2>6, Zenon
<1>9. CASE ~(Len(wire) < TxLen)
  <2>1. wire' = older /\ DOMAIN wire' = DOMAIN wire
    BY <1>1, <1>3, <1>5, <1>9 DEF older
  <2> QED
    BY <1>1, <1>3, <1>7, <2>1 DEF TypeOK
<1> QED
  BY <1>8, <1>9

\* What a tick makes of the ring: the frames it did not take move up and age.
LEMMA SendRing ==
  ASSUME TypeOK, Send
  PROVE  /\ rx' \in Seq(Reply \cup Stray) /\ Len(rx') <= RxLen
         /\ \A i \in DOMAIN rx' :
              /\ i + Skipped \in DOMAIN rx
              /\ rx'[i] = IF rx[i + Skipped].type = "reply"
                          THEN Aged(rx[i + Skipped]) ELSE rx[i + Skipped]
<1>1. /\ rx' = [k \in DOMAIN Unread |->
                  IF Unread[k].type = "reply" THEN Aged(Unread[k]) ELSE Unread[k]]
      /\ appended \in Seq(Datagram)
  BY DEF Send, TypeOK
<1>2. Unread \in Seq(Reply \cup Stray) /\ DOMAIN Unread = 1 .. Len(Unread)
  BY UnreadProperties
<1>3. Len(Unread) \in Nat
  BY <1>2
<1>4. ASSUME NEW k \in 1 .. Len(Unread)
      PROVE  (IF Unread[k].type = "reply" THEN Aged(Unread[k]) ELSE Unread[k])
               \in Reply \cup Stray
  <2>1. Unread[k] \in Reply \cup Stray
    BY <1>2, ElementOfSeq
  <2>2. CASE Unread[k] \in Reply
    BY <1>1, <2>2, AgedReply
  <2>3. CASE Unread[k] \in Stray
    BY <2>3 DEF Stray
  <2> QED
    BY <2>1, <2>2, <2>3
<1>5. rx' \in Seq(Reply \cup Stray) /\ Len(rx') = Len(Unread)
  BY <1>1, <1>2, <1>3, <1>4
<1>6. Len(rx') <= RxLen
  <2>1. Len(Unread) <= Len(rx) /\ Len(rx) \in Nat
    BY UnreadProperties DEF TypeOK
  <2> QED
    BY <1>3, <1>5, <2>1, SizesAssumption DEF TypeOK
<1>7. ASSUME NEW i \in DOMAIN rx'
      PROVE  /\ i + Skipped \in DOMAIN rx
             /\ rx'[i] = IF rx[i + Skipped].type = "reply"
                         THEN Aged(rx[i + Skipped]) ELSE rx[i + Skipped]
  <2>1. i \in DOMAIN Unread
    BY <1>1
  <2>2. i + Skipped \in DOMAIN rx /\ Unread[i] = rx[i + Skipped]
    BY <2>1, UnreadProperties
  <2> QED
    BY <1>1, <2>1, <2>2
<1> QED
  BY <1>5, <1>6, <1>7

-----------------------------------------------------------------------------
(* Type correctness *)

\* The engine starts well typed.
LEMMA InitType == Init => TypeOK
<1> SUFFICES ASSUME Init PROVE TypeOK
  OBVIOUS
<1> QED
  BY NAssumption, SizesAssumption DEF Init, TypeOK, Phases, AlStates, Slaves

\* A tick keeps the types.
LEMMA TickType ==
  ASSUME TypeOK, Tick
  PROVE  TypeOK'
<1>1. Receive /\ Send
  BY DEF Tick
<1>2. faults' \in 0 .. MaxFaults
  <2>1. faults \in 0 .. MaxFaults /\ MaxFaults \in Nat
    BY SizesAssumption DEF TypeOK
  <2>2. CASE Matched
    BY <2>1, <2>2 DEF Tick
  <2>3. CASE ~Matched /\ wire = << >>
    BY <2>1, <2>3 DEF Tick
  <2>4. CASE ~Matched /\ wire # << >>
    BY <2>1, <2>4 DEF Tick
  <2> QED
    BY <2>2, <2>3, <2>4
<1>3. UNCHANGED <<al, asked, reach, everOp, slipped>>
  BY DEF Tick, slave
<1>4. appended' \in Seq(Datagram)
  BY <1>1, SendType
<1> QED
  BY <1>1, <1>2, <1>3, <1>4, ReceiveType, SendType, SendWire, SendRing DEF TypeOK

\* A frame comes back with one answer for each of its datagrams.
LEMMA AnswersType ==
  ASSUME TypeOK, NEW f \in Frame
  PROVE  /\ Answers(f) \in Seq(Answer)
         /\ DOMAIN Answers(f) = DOMAIN f.dgs
<1>1. f.dgs \in Seq(Datagram) /\ DOMAIN f.dgs = 1 .. Len(f.dgs) /\ Len(f.dgs) \in Nat
  BY FrameType
<1>2. ASSUME NEW k \in DOMAIN f.dgs
      PROVE  (IF f.dgs[k].idx \in Answering
              THEN [wkc |-> 1, al |-> al[f.dgs[k].idx]]
              ELSE [wkc |-> 0, al |-> "NONE"]) \in Answer
  <2>1. f.dgs[k].idx \in Answering => al[f.dgs[k].idx] \in AlStates
    BY DEF Answering, TypeOK
  <2> QED
    BY <2>1 DEF Answer
<1> QED
  BY <1>1, <1>2 DEF Answers

\* The working counter never exceeds the number of slaves.
LEMMA AnsweringSize ==
  ASSUME TypeOK
  PROVE  Cardinality(Answering) \in 0 .. N
<1>1. IsFiniteSet(Slaves) /\ Cardinality(Slaves) = N
  <2>1. 0 \in Int /\ N-1 \in Int /\ N \in Nat /\ N >= 1
    BY NAssumption
  <2>2. /\ IsFiniteSet(0 .. N-1)
        /\ Cardinality(0 .. N-1) = IF 0 > N-1 THEN 0 ELSE (N-1) - 0 + 1
    BY <2>1, FS_Interval
  <2> QED
    BY <2>1, <2>2 DEF Slaves
<1>2. Answering \subseteq Slaves
  BY DEF Answering
<1>3. IsFiniteSet(Answering) /\ Cardinality(Answering) <= N
  BY <1>1, <1>2, FS_Subset
<1>4. Cardinality(Answering) \in Nat
  BY <1>3, FS_CardinalityType
<1> QED
  BY <1>3, <1>4, NAssumption

\* A frame that arrives is the last of the ring, or it is dropped.
LEMMA ArriveType ==
  ASSUME TypeOK, NEW f \in Reply \cup Stray, Arrive(f)
  PROVE  /\ rx' \in Seq(Reply \cup Stray) /\ Len(rx') <= RxLen
         /\ DOMAIN rx \subseteq DOMAIN rx'
         /\ \A i \in DOMAIN rx : rx'[i] = rx[i]
         /\ \A i \in DOMAIN rx' :
              i \in DOMAIN rx \/ (i = Len(rx) + 1 /\ rx'[i] = f)
<1>1. rx \in Seq(Reply \cup Stray) /\ Len(rx) \in Nat /\ Len(rx) <= RxLen
      /\ DOMAIN rx = 1 .. Len(rx)
  BY DEF TypeOK
<1>2. CASE Len(rx) < RxLen
  <2>1. rx' = Append(rx, f)
    BY <1>2 DEF Arrive
  <2>2. /\ rx' \in Seq(Reply \cup Stray) /\ Len(rx') = Len(rx) + 1
        /\ \A i \in 1 .. Len(rx) : rx'[i] = rx[i]
        /\ rx'[Len(rx) + 1] = f
    BY <1>1, <2>1, AppendProperties
  <2>3. DOMAIN rx' = 1 .. Len(rx) + 1
    BY <2>2
  <2>4. /\ Len(rx') <= RxLen
        /\ DOMAIN rx \subseteq DOMAIN rx'
        /\ \A i \in DOMAIN rx' : i \in DOMAIN rx \/ i = Len(rx) + 1
    BY <1>1, <1>2, <2>2, <2>3, SizesAssumption
  <2> QED
    BY <1>1, <2>2, <2>4, Zenon
<1>3. CASE ~(Len(rx) < RxLen)
  BY <1>1, <1>3 DEF Arrive
<1> QED
  BY <1>2, <1>3

\* What is left on the wire without its oldest frame.
LEMMA TailWire ==
  ASSUME TypeOK, wire # << >>, wire' = Tail(wire)
  PROVE  /\ wire' \in Seq(Frame) /\ Len(wire') <= TxLen
         /\ Head(wire) = wire[1] /\ Head(wire) \in Frame /\ 1 \in DOMAIN wire
         /\ \A j \in DOMAIN wire' : j + 1 \in DOMAIN wire /\ wire'[j] = wire[j + 1]
<1>1. wire \in Seq(Frame) /\ Len(wire) \in Nat /\ Len(wire) <= TxLen
      /\ DOMAIN wire = 1 .. Len(wire)
  BY DEF TypeOK
<1>2. /\ Head(wire) \in Frame /\ Tail(wire) \in Seq(Frame)
      /\ Len(Tail(wire)) = Len(wire) - 1
      /\ \A i \in 1 .. Len(Tail(wire)) : Tail(wire)[i] = wire[i + 1]
  BY <1>1, HeadTailProperties
<1>3. Len(wire) # 0
  BY <1>1, EmptySeq
<1>4. DOMAIN Tail(wire) = 1 .. Len(wire) - 1
  BY <1>2
<1>5. Len(wire') <= TxLen /\ 1 \in DOMAIN wire
      /\ \A j \in DOMAIN wire' : j + 1 \in DOMAIN wire
  BY <1>1, <1>2, <1>3, <1>4, SizesAssumption
<1>6. Head(wire) = wire[1]
  BY <1>1
<1> QED
  BY <1>2, <1>4, <1>5, <1>6, Zenon

\* A frame that comes back keeps the types.
LEMMA ReturnType ==
  ASSUME TypeOK, Return
  PROVE  TypeOK'
<1> DEFINE f     == Head(wire)
           reply == [type |-> "reply", wkc |-> Cardinality(Answering),
                     res |-> Answers(f), lag |-> f.lag]
<1>1. wire # << >> /\ wire' = Tail(wire) /\ UNCHANGED <<engine, al, reach, history>>
  BY DEF Return
<1>2. f \in Frame /\ wire' \in Seq(Frame) /\ Len(wire') <= TxLen
  BY <1>1, TailWire
<1>3. reply \in Reply
  BY <1>2, AnswersType, AnsweringSize, FrameType DEF Reply
<1>4. rx' \in Seq(Reply \cup Stray) /\ Len(rx') <= RxLen
  <2>1. CASE reach = 0
    BY <2>1 DEF Return, TypeOK
  <2>2. CASE reach # 0
    <3>1. Arrive(reply)
      BY <2>2 DEF Return
    <3> HIDE DEF reply
    <3> QED
      BY <1>3, <3>1, ArriveType
  <2> QED
    BY <2>1, <2>2
<1>5. asked' \subseteq Slaves
  BY DEF Return, AskedBy, Answering, TypeOK
<1> QED
  BY <1>1, <1>2, <1>4, <1>5 DEF TypeOK, engine, history

\* A lost or a foreign frame keeps the types.
LEMMA BusType ==
  ASSUME TypeOK, Lose \/ Disturb
  PROVE  TypeOK'
<1>1. faults' \in 0 .. MaxFaults
  BY SizesAssumption DEF Lose, Disturb, Misbehave, TypeOK
<1>2. CASE Lose
  <2>1. wire' \in Seq(Frame) /\ Len(wire') <= TxLen
    BY <1>2, TailWire DEF Lose
  <2>2. asked' \subseteq Slaves
    BY <1>2 DEF Lose, AskedBy, Answering, TypeOK
  <2> QED
    BY <1>1, <1>2, <2>1, <2>2 DEF Lose, TypeOK, engine
<1>3. CASE Disturb
  <2>1. PICK t \in {"noise", "foreign"} : Arrive([type |-> t])
    BY <1>3 DEF Disturb
  <2>2. [type |-> t] \in Stray
    BY DEF Stray
  <2>3. rx' \in Seq(Reply \cup Stray) /\ Len(rx') <= RxLen
    BY <2>1, <2>2, ArriveType
  <2> QED
    BY <1>1, <1>3, <2>3 DEF Disturb, TypeOK, engine, slave
<1> QED
  BY <1>2, <1>3

\* A step of a slave keeps the types.
LEMMA SlaveType ==
  ASSUME TypeOK, NEW s \in Slaves, SlaveStep(s)
  PROVE  TypeOK'
<1>1. s \in 0 .. N
  BY NAssumption DEF Slaves
<1>2. /\ al' \in [Slaves -> AlStates] /\ asked' \subseteq Slaves
      /\ everOp' \subseteq Slaves /\ slipped' \subseteq Slaves
      /\ reach' \in 0 .. N
  BY <1>1 DEF SlaveStep, EnterOp, RefuseOp, DropOp, PowerCycle, Unplug, TypeOK,
              AlStates, history
<1>3. UNCHANGED <<engine, net, faults>>
  BY DEF SlaveStep, EnterOp, RefuseOp, DropOp, PowerCycle, Unplug, history
<1> QED
  BY <1>2, <1>3 DEF TypeOK, engine, net

\* A cable plugged in again keeps the types.
LEMMA ReplugType ==
  ASSUME TypeOK, Replug
  PROVE  TypeOK'
BY NAssumption DEF Replug, TypeOK, engine, net, history

\* Every step keeps the types.
LEMMA NextType ==
  ASSUME TypeOK, [Next]_vars
  PROVE  TypeOK'
<1>1. CASE UNCHANGED vars
  BY <1>1 DEF vars, engine, net, slave, history, TypeOK
<1>2. CASE Next
  BY <1>2, TickType, ReturnType, BusType, SlaveType, ReplugType DEF Next
<1> QED
  BY <1>1, <1>2

\* Type correctness of the engine, its rings and the slaves: in particular
\* the poll cursor never leaves the ring of slaves and a frame never carries
\* more than the two datagrams there is room for.
THEOREM TypeCorrect == Spec => []TypeOK
<1>1. Init => TypeOK
  BY InitType
<1>2. TypeOK /\ [Next]_vars => TypeOK'
  BY NextType
<1> QED
  BY <1>1, <1>2, PTL DEF Spec

-----------------------------------------------------------------------------
(* The inductive invariant *)

\* Frames come back in the order they were sent.
LagOrder ==
  /\ \A i, j \in DOMAIN wire : i < j => wire[i].lag > wire[j].lag
  /\ \A i, j \in DOMAIN rx :
       i < j /\ rx[i].type = "reply" /\ rx[j].type = "reply"
         => rx[i].lag > rx[j].lag
  /\ \A i \in DOMAIN rx, j \in DOMAIN wire :
       rx[i].type = "reply" => rx[i].lag > wire[j].lag

\* A tick ages a frame by at most 3.  It survives on the wire only if the tick
\* is late; in the ring, it moves up at every tick that drains the ring, and
\* the tick after a failed send is the only one that does not.
LagBound ==
  /\ \A j \in DOMAIN wire : wire[j].lag <= 3 * faults
  /\ \A i \in DOMAIN rx :
       rx[i].type = "reply" =>
         rx[i].lag + 3 * i + (IF outstanding THEN 0 ELSE 3)
           <= 3 * (faults + RxLen + 1)

CurrentFrame == \A j \in DOMAIN wire : wire[j].lag = 0 => wire[j].dgs = appended

\* What the reply to the frame sent last says of the slaves.
Truthful(dg, ans) ==
  ans.wkc > 0 =>
    /\ ans.al = "OP" => dg.idx \in everOp
    /\ ans.al = "ERROR" => slipped # {}
    /\ dg.kind = "AlPoll" /\ ans.al # "OP" => slipped # {}

CurrentReply ==
  \A i \in DOMAIN rx :
    rx[i].type = "reply" /\ rx[i].lag = 0 =>
      \A k \in DOMAIN appended \cap DOMAIN rx[i].res :
        Truthful(appended[k], rx[i].res[k])

ControlOrder ==
  \A j \in DOMAIN wire : \A k \in DOMAIN wire[j].dgs :
    wire[j].dgs[k].kind = "Control" =>
      \A t \in 0 .. wire[j].dgs[k].idx - 1 : t \in everOp

PollAfterOp ==
  \A k \in DOMAIN appended : appended[k].kind = "AlPoll" => everOp = Slaves

SlaveHistory ==
  \A s \in Slaves :
    /\ al[s] = "OP" => s \in everOp
    /\ al[s] = "ERROR" => slipped # {}
    /\ s \in everOp /\ al[s] # "OP" => slipped # {}

ReachedIsGenuine == \A s \in Slaves : reachedOp[s] => s \in everOp
CursorPassed     == \A t \in Slaves : t < opCursor => reachedOp[t]
OperationalReached ==
  phase = "Operational" => \A s \in Slaves : reachedOp[s]

\* Until it requests OP the engine appends nothing and has heard of no slave.
PrimingIdle ==
  phase = "Priming" => appended = << >> /\ \A s \in Slaves : ~reachedOp[s]

IInv ==
  /\ TypeOK
  /\ LagOrder
  /\ LagBound
  /\ CurrentFrame
  /\ CurrentReply
  /\ ControlOrder
  /\ PollAfterOp
  /\ SlaveHistory
  /\ ReachedIsGenuine
  /\ CursorPassed
  /\ OperationalReached
  /\ PrimingIdle
  /\ OpInRingOrder
  /\ FaultJustified

-----------------------------------------------------------------------------
(* A matched reply is the reply to the frame sent last *)

\* A reply in the ring: its place and its age.
LEMMA RingReply ==
  ASSUME TypeOK, NEW i \in DOMAIN rx, rx[i].type = "reply"
  PROVE  /\ i \in 1 .. RxLen
         /\ rx[i] \in Reply
         /\ rx[i].lag \in Nat
<1>1. rx \in Seq(Reply \cup Stray) /\ Len(rx) \in Nat /\ DOMAIN rx = 1 .. Len(rx)
      /\ Len(rx) <= RxLen
  BY DEF TypeOK
<1>2. rx[i] \in Reply \cup Stray
  BY <1>1, ElementOfSeq
<1>3. rx[i] \in Reply
  BY <1>2 DEF Stray
<1> QED
  BY <1>1, <1>3, SizesAssumption DEF Reply

\* A frame on the wire: its place and its age.
LEMMA WireFrame ==
  ASSUME TypeOK, NEW j \in DOMAIN wire
  PROVE  /\ j \in 1 .. TxLen
         /\ wire[j] \in Frame
         /\ wire[j].lag \in Nat
<1>1. wire \in Seq(Frame) /\ Len(wire) \in Nat /\ DOMAIN wire = 1 .. Len(wire)
      /\ Len(wire) <= TxLen
  BY DEF TypeOK
<1>2. wire[j] \in Frame
  BY <1>1, ElementOfSeq
<1> QED
  BY <1>1, <1>2, SizesAssumption, FrameType

\* The age of a matched reply is below IndexMod and a multiple of it: zero.
LEMMA MatchIsCurrent ==
  ASSUME TypeOK, LagBound, Matched
  PROVE  rx[Drained].lag = 0
<1>1. /\ outstanding /\ Drained \in DOMAIN rx
      /\ rx[Drained] \in Reply /\ rx[Drained].lag % IndexMod = 0
  BY MatchedReply
<1>2. /\ rx[Drained].type = "reply" /\ rx[Drained].lag \in Nat
      /\ Drained \in Nat /\ Drained >= 1 /\ faults \in 0 .. MaxFaults
  BY <1>1 DEF Reply, TypeOK
<1>3. rx[Drained].lag + 3 * Drained <= 3 * (faults + RxLen + 1)
  <2>1. rx[Drained].lag + 3 * Drained + (IF outstanding THEN 0 ELSE 3)
          <= 3 * (faults + RxLen + 1)
    BY <1>1, <1>2 DEF LagBound
  <2> QED
    BY <1>1, <1>2, <2>1
<1>4. rx[Drained].lag < IndexMod /\ IndexMod \in Nat
  BY <1>2, <1>3, SizesAssumption, IndexAssumption
<1>5. rx[Drained].lag % IndexMod = rx[Drained].lag
  BY <1>2, <1>4, ModIsIdentity
<1> QED
  BY <1>1, <1>5

\* Nothing older is left once the reply to the frame sent last is there.
LEMMA MatchEmpties ==
  ASSUME TypeOK, LagBound, LagOrder, Matched
  PROVE  /\ wire = << >>
         /\ \A i \in DOMAIN rx : i > Drained => rx[i].type # "reply"
<1>1. Drained \in DOMAIN rx /\ rx[Drained].type = "reply" /\ rx[Drained].lag = 0
  BY MatchedReply, MatchIsCurrent DEF Matched
<1>2. wire \in Seq(Frame) /\ DOMAIN wire = 1 .. Len(wire) /\ Len(wire) \in Nat
  BY DEF TypeOK
<1>3. ASSUME wire # << >> PROVE FALSE
  <2>1. 1 \in DOMAIN wire
    BY <1>2, <1>3, EmptySeq
  <2>2. wire[1].lag \in Nat
    BY <1>2, <2>1, ElementOfSeq, FrameType
  <2>3. 0 > wire[1].lag
    BY <1>1, <2>1 DEF LagOrder
  <2> QED
    BY <2>2, <2>3
<1>4. ASSUME NEW i \in DOMAIN rx, i > Drained, rx[i].type = "reply" PROVE FALSE
  <2>2. rx[i].lag \in Nat
    BY <1>4, RingReply
  <2>3. i \in Nat /\ Drained \in Nat
    BY <1>1, <1>4 DEF TypeOK
  <2>4. 0 > rx[i].lag
    BY <1>1, <1>4, <2>3 DEF LagOrder
  <2> QED
    BY <2>2, <2>4
<1> QED
  BY <1>3, <1>4

-----------------------------------------------------------------------------
(* What a tick makes of the frames under way *)

\* The indices a tick allocates before it builds its frame: how much every
\* other frame ages.
Step == 1 + Len(appended)

\* A tick uses up one index for its frame and one per datagram appended.
LEMMA StepRange ==
  ASSUME TypeOK
  PROVE  Step \in 1 .. 3
<1>1. Len(appended) \in Nat /\ Len(appended) <= 2
  BY DEF TypeOK
<1> QED
  BY <1>1 DEF Step

\* Ageing by a tick, as a sum.
LEMMA StepSum ==
  ASSUME TypeOK, NEW n \in Nat
  PROVE  n + 1 + Len(appended) = n + Step
<1>1. Len(appended) \in Nat
  BY DEF TypeOK
<1> QED
  BY <1>1 DEF Step

\* A tick ages the frames on the wire and puts its own behind them.
LEMMA TickWire ==
  ASSUME TypeOK, Tick, NEW j \in DOMAIN wire'
  PROVE  /\ j \in Nat
         /\ \/ /\ j \in DOMAIN wire
               /\ wire[j].lag \in Nat
               /\ wire'[j].dgs = wire[j].dgs
               /\ wire'[j].lag = wire[j].lag + Step
            \/ /\ j \notin DOMAIN wire
               /\ \A i \in DOMAIN wire : i < j
               /\ wire'[j].dgs = appended'
               /\ wire'[j].lag = 0
<1>1. Send /\ appended' \in Seq(Datagram) /\ appended \in Seq(Datagram)
  BY SendType DEF Tick, TypeOK
<1>2. wire \in Seq(Frame) /\ Len(wire) \in Nat /\ DOMAIN wire = 1 .. Len(wire)
  BY DEF TypeOK
<1>3. CASE j \in DOMAIN wire
  <2>1. wire[j] \in Frame /\ wire[j].lag \in Nat /\ j \in Nat
    BY <1>3, WireFrame
  <2>2. wire'[j] = Aged(wire[j])
    BY <1>1, <1>3, SendWire
  <2>3. wire'[j].dgs = wire[j].dgs /\ wire'[j].lag = wire[j].lag + 1 + Len(appended)
    BY <1>1, <2>1, <2>2, AgedFrame
  <2>4. wire[j].lag + 1 + Len(appended) = wire[j].lag + Step
    BY <2>1, StepSum
  <2> QED
    BY <1>3, <2>1, <2>3, <2>4
<1>4. CASE j \notin DOMAIN wire
  <2>1. j = Len(wire) + 1 /\ wire'[j] = [dgs |-> appended', lag |-> 0]
    BY <1>1, <1>4, SendWire
  <2>2. j \in Nat /\ \A i \in DOMAIN wire : i < j
    BY <1>2, <2>1
  <2> QED
    BY <1>4, <2>1, <2>2
<1> QED
  BY <1>3, <1>4

\* A tick moves up and ages the replies it leaves in the ring.
LEMMA TickRing ==
  ASSUME TypeOK, Tick, NEW i \in DOMAIN rx', rx'[i].type = "reply"
  PROVE  /\ i \in Nat /\ i >= 1 /\ Skipped \in Nat
         /\ i + Skipped \in DOMAIN rx
         /\ rx[i + Skipped].type = "reply"
         /\ rx[i + Skipped].lag \in Nat
         /\ rx'[i].lag = rx[i + Skipped].lag + Step
<1> DEFINE r == rx[i + Skipped]
<1>1. Send /\ appended \in Seq(Datagram)
  BY DEF Tick, TypeOK
<1>2. /\ i + Skipped \in DOMAIN rx
      /\ rx'[i] = IF r.type = "reply" THEN Aged(r) ELSE r
      /\ rx' \in Seq(Reply \cup Stray)
  BY <1>1, SendRing
<1>3. r.type = "reply"
  BY <1>2
<1>4. r \in Reply /\ r.lag \in Nat
  BY <1>2, <1>3, RingReply
<1>5. rx'[i].lag = r.lag + 1 + Len(appended)
  BY <1>1, <1>2, <1>3, <1>4, AgedReply
<1>6. r.lag + 1 + Len(appended) = r.lag + Step
  BY <1>4, StepSum
<1>7. i \in Nat /\ i >= 1
  <2>1. DOMAIN rx' = 1 .. Len(rx') /\ Len(rx') \in Nat
    BY <1>2
  <2> QED
    BY <2>1
<1>8. Skipped \in Nat
  <2>1. Skipped \in 0 .. Len(rx)
    BY UnreadProperties
  <2> QED
    BY <2>1 DEF TypeOK
<1> QED
  BY <1>2, <1>3, <1>4, <1>5, <1>6, <1>7, <1>8

\* A tick keeps frames in the order they were sent.
LEMMA TickLagOrder ==
  ASSUME TypeOK, LagOrder, Tick
  PROVE  LagOrder'
<1>1. Step \in Nat /\ Step > 0
  BY StepRange
<1>2. ASSUME NEW i \in DOMAIN wire', NEW j \in DOMAIN wire', i < j
      PROVE  wire'[i].lag > wire'[j].lag
  <2>1. i \in Nat /\ j \in Nat
    BY TickWire
  <2>2. i \in DOMAIN wire
    <3>1. ASSUME i \notin DOMAIN wire PROVE FALSE
      <4>1. j \notin DOMAIN wire
        BY <1>2, <2>1, <3>1, TickWire
      <4>2. wire \in Seq(Frame) /\ i = Len(wire) + 1 /\ j = Len(wire) + 1
        BY <3>1, <4>1, SendType, SendWire DEF Tick, TypeOK
      <4> QED
        BY <1>2, <4>2
    <3> QED
      BY <3>1
  <2>3. wire[i].lag \in Nat /\ wire'[i].lag = wire[i].lag + Step
    BY <2>2, TickWire
  <2>4. CASE j \in DOMAIN wire
    <3>1. wire[i].lag > wire[j].lag
      BY <1>2, <2>2, <2>4 DEF LagOrder
    <3>2. wire[j].lag \in Nat /\ wire'[j].lag = wire[j].lag + Step
      BY <2>4, TickWire
    <3> QED
      BY <1>1, <2>3, <3>1, <3>2
  <2>5. CASE j \notin DOMAIN wire
    <3>1. wire'[j].lag = 0
      BY <2>5, TickWire
    <3> QED
      BY <1>1, <2>3, <3>1
  <2> QED
    BY <2>4, <2>5
<1>3. ASSUME NEW i \in DOMAIN rx', NEW j \in DOMAIN rx', i < j,
             rx'[i].type = "reply", rx'[j].type = "reply"
      PROVE  rx'[i].lag > rx'[j].lag
  <2>1. /\ i \in Nat /\ i + Skipped \in DOMAIN rx
        /\ rx[i + Skipped].type = "reply" /\ rx[i + Skipped].lag \in Nat
        /\ rx'[i].lag = rx[i + Skipped].lag + Step
    BY <1>3, TickRing
  <2>2. /\ j \in Nat /\ j + Skipped \in DOMAIN rx /\ Skipped \in Nat
        /\ rx[j + Skipped].type = "reply" /\ rx[j + Skipped].lag \in Nat
        /\ rx'[j].lag = rx[j + Skipped].lag + Step
    BY <1>3, TickRing
  <2>3. i + Skipped < j + Skipped
    BY <1>3, <2>1, <2>2
  <2>4. rx[i + Skipped].lag > rx[j + Skipped].lag
    BY <2>1, <2>2, <2>3 DEF LagOrder
  <2> QED
    BY <1>1, <2>1, <2>2, <2>4
<1>4. ASSUME NEW i \in DOMAIN rx', NEW j \in DOMAIN wire', rx'[i].type = "reply"
      PROVE  rx'[i].lag > wire'[j].lag
  <2>1. /\ i + Skipped \in DOMAIN rx
        /\ rx[i + Skipped].type = "reply" /\ rx[i + Skipped].lag \in Nat
        /\ rx'[i].lag = rx[i + Skipped].lag + Step
    BY <1>4, TickRing
  <2>2. CASE j \in DOMAIN wire
    <3>1. rx[i + Skipped].lag > wire[j].lag
      BY <2>1, <2>2 DEF LagOrder
    <3>2. wire[j].lag \in Nat /\ wire'[j].lag = wire[j].lag + Step
      BY <2>2, TickWire
    <3> QED
      BY <1>1, <2>1, <3>1, <3>2
  <2>3. CASE j \notin DOMAIN wire
    <3>1. wire'[j].lag = 0
      BY <2>3, TickWire
    <3> QED
      BY <1>1, <2>1, <3>1
  <2> QED
    BY <2>2, <2>3
<1> QED
  BY <1>2, <1>3, <1>4, Zenon DEF LagOrder

\* A tick keeps the bound on the age of frames: a drain that stops at a
\* foreign frame still takes one entry.
LEMMA TickLagBound ==
  ASSUME TypeOK, LagOrder, LagBound, Tick
  PROVE  LagBound'
<1>1. /\ Step \in Nat /\ Step <= 3
      /\ faults \in Nat /\ faults' \in Nat /\ RxLen \in Nat /\ TxLen \in Nat \ {0}
      /\ outstanding \in BOOLEAN /\ outstanding' \in BOOLEAN
  <2>1. TypeOK'
    BY TickType
  <2>2. /\ faults \in 0 .. MaxFaults /\ faults' \in 0 .. MaxFaults
        /\ outstanding \in BOOLEAN /\ outstanding' \in BOOLEAN
    BY <2>1 DEF TypeOK
  <2>3. Step \in Nat /\ Step <= 3
    BY StepRange
  <2> QED
    BY <2>2, <2>3, SizesAssumption
<1>2. Matched => wire = << >> /\ \A i \in DOMAIN rx : i > Drained => rx[i].type # "reply"
  BY MatchEmpties
<1>3. ~Matched /\ wire # << >> => faults' = faults + 1
  BY DEF Tick
<1>4. ~Matched => faults' >= faults
  BY <1>1 DEF Tick
<1>5. ASSUME NEW j \in DOMAIN wire'
      PROVE  wire'[j].lag <= 3 * faults'
  <2>1. CASE j \in DOMAIN wire
    <3>1. wire[j].lag \in Nat /\ wire'[j].lag = wire[j].lag + Step
      BY <2>1, TickWire
    <3>2. wire # << >>
      BY <2>1
    <3>3. faults' = faults + 1
      BY <1>2, <1>3, <3>2
    <3>4. wire[j].lag <= 3 * faults
      BY <2>1 DEF LagBound
    <3> QED
      BY <1>1, <3>1, <3>3, <3>4
  <2>2. CASE j \notin DOMAIN wire
    <3>1. wire'[j].lag = 0
      BY <2>2, TickWire
    <3>2. \A n \in Nat : 0 <= 3 * n
      OBVIOUS
    <3> QED
      BY <1>1, <3>1, <3>2, Zenon
  <2> QED
    BY <2>1, <2>2
<1>6. ASSUME NEW i \in DOMAIN rx', rx'[i].type = "reply"
      PROVE  rx'[i].lag + 3 * i + (IF outstanding' THEN 0 ELSE 3)
               <= 3 * (faults' + RxLen + 1)
  <2>1. /\ i \in Nat /\ i >= 1 /\ Skipped \in Nat /\ i + Skipped \in DOMAIN rx
        /\ rx[i + Skipped].type = "reply" /\ rx[i + Skipped].lag \in Nat
        /\ rx'[i].lag = rx[i + Skipped].lag + Step
    BY <1>6, TickRing
  <2>2. ~Matched
    <3>1. ASSUME Matched PROVE FALSE
      <4>1. Skipped = Drained
        BY <3>1 DEF Matched, Skipped
      <4>2. i + Skipped > Drained
        BY <2>1, <4>1
      <4> QED
        BY <1>2, <2>1, <3>1, <4>2
    <3> QED
      BY <3>1
  <2>3. rx[i + Skipped].lag + 3 * (i + Skipped) + (IF outstanding THEN 0 ELSE 3)
          <= 3 * (faults + RxLen + 1)
    BY <2>1 DEF LagBound
  <2>4. outstanding => Skipped >= 1
    <3>1. ASSUME outstanding, Skipped = 0 PROVE FALSE
      <4>1. Drained = 0
        BY <3>1 DEF Skipped
      <4>2. DOMAIN rx = 1 .. Len(rx) /\ Len(rx) \in Nat
        BY DEF TypeOK
      <4>3. Stops = {}
        BY <4>1, <4>2, DrainedProperties DEF Stops
      <4>4. Len(rx) = 0
        BY <4>1, <4>3, DrainedProperties
      <4> QED
        BY <2>1, <4>2, <4>4
    <3> QED
      BY <2>1, <3>1
  <2>5. rx'[i].lag + 3 * i <= 3 * (faults + RxLen + 1)
    <3>1. CASE outstanding
      BY <1>1, <2>1, <2>3, <2>4, <3>1
    <3>2. CASE ~outstanding
      BY <1>1, <2>1, <2>3, <3>2
    <3> QED
      BY <3>1, <3>2
  <2>6. CASE outstanding'
    <3>1. rx'[i].lag \in Nat
      BY <1>1, <2>1
    <3> QED
      BY <1>1, <1>4, <2>1, <2>2, <2>5, <2>6, <3>1
  <2>7. CASE ~outstanding'
    <3>1. wire # << >>
      <4>1. ~(Len(wire) < TxLen)
        BY <2>7 DEF Tick, Send
      <4> QED
        BY <1>1, <4>1
    <3>2. faults' = faults + 1
      BY <1>3, <2>2, <3>1
    <3>3. rx'[i].lag \in Nat
      BY <1>1, <2>1
    <3> QED
      BY <1>1, <2>1, <2>5, <2>7, <3>2, <3>3
  <2> QED
    BY <2>6, <2>7
<1> QED
  BY <1>5, <1>6 DEF LagBound

\* No frame that was under way before the tick is the current one after it.
LEMMA TickCurrent ==
  ASSUME TypeOK, Tick
  PROVE  CurrentFrame' /\ CurrentReply'
<1>1. Step \in Nat /\ Step > 0
  BY StepRange
<1>2. ASSUME NEW j \in DOMAIN wire', wire'[j].lag = 0
      PROVE  wire'[j].dgs = appended'
  BY <1>1, <1>2, TickWire
<1>3. ASSUME NEW i \in DOMAIN rx', rx'[i].type = "reply", rx'[i].lag = 0
      PROVE  FALSE
  BY <1>1, <1>3, TickRing
<1> QED
  BY <1>2, <1>3 DEF CurrentFrame, CurrentReply

-----------------------------------------------------------------------------
(* What a tick concludes from a reply *)

\* Each answer of a matched reply is true of the slave asked.
LEMMA MatchTruthful ==
  ASSUME TypeOK, LagBound, CurrentReply, Matched,
         NEW k \in 1 .. Lesser(Len(appended), Len(rx[Drained].res))
  PROVE  /\ appended[k] \in Datagram
         /\ Truthful(appended[k], rx[Drained].res[k])
<1>1. /\ Drained \in DOMAIN rx /\ rx[Drained] \in Reply
      /\ rx[Drained].type = "reply" /\ rx[Drained].lag = 0
  BY MatchedReply, MatchIsCurrent DEF Matched
<1>2. rx[Drained].res \in Seq(Answer) /\ appended \in Seq(Datagram)
  BY <1>1 DEF Reply, TypeOK
<1>3. k \in DOMAIN appended /\ k \in DOMAIN rx[Drained].res
  BY <1>2 DEF Lesser
<1>4. appended[k] \in Datagram
  BY <1>2, <1>3, ElementOfSeq
<1> QED
  BY <1>1, <1>3, <1>4 DEF CurrentReply

\* reached_op is set only for slaves that have been in OP, and never reset.
LEMMA TickReached ==
  ASSUME TypeOK, LagBound, CurrentReply, ReachedIsGenuine, Tick
  PROVE  /\ ReachedIsGenuine'
         /\ \A s \in Slaves : reachedOp[s] => reachedOp'[s]
<1>1. Receive /\ UNCHANGED everOp
  BY DEF Tick
<1>2. CASE ~Matched
  BY <1>1, <1>2 DEF Receive, ReachedIsGenuine
<1>3. CASE Matched
  <2> DEFINE walked == 1 .. Lesser(Len(appended), Len(rx[Drained].res))
  <2>1. reachedOp' = [s \in Slaves |->
          \/ reachedOp[s]
          \/ \E k \in walked : ReportsOp(appended[k], rx[Drained].res[k], s)]
    BY <1>1, <1>3 DEF Receive, Process
  <2>2. ASSUME NEW s \in Slaves, NEW k \in walked,
               ReportsOp(appended[k], rx[Drained].res[k], s)
        PROVE  s \in everOp
    <3>1. Truthful(appended[k], rx[Drained].res[k])
      BY <1>3, MatchTruthful
    <3>2. /\ rx[Drained].res[k].wkc > 0 /\ rx[Drained].res[k].al = "OP"
          /\ appended[k].idx = s
      BY <2>2 DEF ReportsOp, Dg
    <3> QED
      BY <3>1, <3>2 DEF Truthful
  <2> QED
    BY <1>1, <2>1, <2>2 DEF ReachedIsGenuine
<1> QED
  BY <1>2, <1>3

\* The engine faults only on an answer that a slave has really given.
LEMMA TickFault ==
  ASSUME TypeOK, LagBound, CurrentReply, FaultJustified, Tick
  PROVE  FaultJustified'
<1>1. Receive /\ UNCHANGED slipped
  BY DEF Tick
<1>2. CASE ~Matched
  BY <1>1, <1>2 DEF Receive, FaultJustified
<1>3. CASE Matched
  <2> DEFINE walked == 1 .. Lesser(Len(appended), Len(rx[Drained].res))
             failed == \E k \in walked :
                         ReportsFault(appended[k], rx[Drained].res[k])
  <2>1. phase' = "Faulted" => failed \/ phase = "Faulted"
    <3>1. Process(rx[Drained])
      BY <1>1, <1>3 DEF Receive
    <3> HIDE DEF failed
    <3>2. PICK primed \in {phase, "RequestingOp"} :
            phase' = Settled(IF failed THEN "Faulted" ELSE primed, reachedOp')
      BY <3>1 DEF Process, failed
    <3> QED
      BY <3>2 DEF Settled
  <2>2. ASSUME NEW k \in walked, ReportsFault(appended[k], rx[Drained].res[k])
        PROVE  slipped # {}
    <3>1. Truthful(appended[k], rx[Drained].res[k])
      BY <1>3, MatchTruthful
    <3> QED
      BY <2>2, <3>1 DEF ReportsFault, Truthful
  <2> QED
    BY <1>1, <2>1, <2>2 DEF FaultJustified
<1> QED
  BY <1>2, <1>3

\* How a tick moves the phase.  A reply to a frame without appended
\* datagrams, the only kind there is while Priming, changes no more than that.
LEMMA TickPhase ==
  ASSUME TypeOK, PrimingIdle, Tick
  PROVE  /\ phase = "Priming" => /\ phase' \in {"Priming", "RequestingOp"}
                                 /\ reachedOp' = reachedOp
         /\ phase = "RequestingOp" => phase' # "Priming"
         /\ phase = "Operational" => phase' \in {"Operational", "Faulted"}
         /\ phase = "Faulted" => phase' = "Faulted"
         /\ phase' = "Operational" =>
              phase = "Operational" \/ \A s \in Slaves : reachedOp'[s]
<1>1. Receive
  BY DEF Tick
<1>2. CASE ~Matched
  BY <1>1, <1>2 DEF Receive
<1>3. CASE Matched
  <2> DEFINE walked == 1 .. Lesser(Len(appended), Len(rx[Drained].res))
             failed == \E k \in walked :
                         ReportsFault(appended[k], rx[Drained].res[k])
             good   == IF rx[Drained].wkc > 0
                       THEN Lesser(goodCycles + 1, PrimingCycles) ELSE 0
             primed == IF phase = "Priming" /\ good >= PrimingCycles
                       THEN "RequestingOp" ELSE phase
  <2>1. Process(rx[Drained])
    BY <1>1, <1>3 DEF Receive
  <2>2. phase' = Settled(IF failed THEN "Faulted" ELSE primed, reachedOp')
    BY <2>1 DEF Process
  <2>3. reachedOp' = [s \in Slaves |->
          \/ reachedOp[s]
          \/ \E k \in walked : ReportsOp(appended[k], rx[Drained].res[k], s)]
    BY <2>1 DEF Process
  <2>4. ASSUME phase = "Priming"
        PROVE  /\ ~failed
               /\ reachedOp' = reachedOp
               /\ \E s \in Slaves : ~reachedOp'[s]
    <3>1. appended = << >> /\ \A s \in Slaves : ~reachedOp[s]
      BY <2>4 DEF PrimingIdle
    <3>2. walked = {}
      <4>1. rx[Drained].res \in Seq(Answer)
        BY <1>3, MatchedReply DEF Reply
      <4>2. Len(appended) = 0 /\ Len(rx[Drained].res) \in Nat
        BY <3>1, <4>1
      <4> QED
        BY <4>2 DEF Lesser
    <3> HIDE DEF walked
    <3>3. reachedOp' = reachedOp
      BY <2>3, <3>2 DEF TypeOK
    <3>4. 0 \in Slaves
      BY NAssumption DEF Slaves
    <3> QED
      BY <3>1, <3>2, <3>3, <3>4
  <2>5. primed = phase \/ (phase = "Priming" /\ primed = "RequestingOp")
    OBVIOUS
  <2> HIDE DEF failed, primed
  <2> QED
    BY <2>2, <2>4, <2>5 DEF Settled, AllReachedOp
<1> QED
  BY <1>2, <1>3

\* Operational is entered only with every reached_op set.
LEMMA TickOperational ==
  ASSUME TypeOK, PrimingIdle, OperationalReached, Tick,
         \A s \in Slaves : reachedOp[s] => reachedOp'[s]
  PROVE  OperationalReached'
BY TickPhase DEF OperationalReached

-----------------------------------------------------------------------------
(* What a tick asks next *)

\* While Priming the engine asks no slave about OP.
LEMMA TickIdle ==
  ASSUME TypeOK, PrimingIdle, Tick
  PROVE  PrimingIdle'
<1> SUFFICES ASSUME phase' = "Priming" PROVE PrimingIdle'
  BY DEF PrimingIdle
<1>1. phase = "Priming" /\ reachedOp' = reachedOp
  BY TickPhase DEF TypeOK, Phases
<1>2. AppendNothing
  BY DEF Tick, Send
<1> QED
  BY <1>1, <1>2 DEF PrimingIdle, AppendNothing

\* The cursor leaves behind only slaves that have reached OP.
LEMMA TickCursor ==
  ASSUME TypeOK, CursorPassed, Tick, \A s \in Slaves : reachedOp[s] => reachedOp'[s]
  PROVE  CursorPassed'
<1>1. CASE phase' = "RequestingOp"
  <2>1. opCursor' = NextCursor
    BY <1>1 DEF Tick, Send, AppendOpRequest
  <2>2. ASSUME NEW t \in Slaves, t < NextCursor PROVE reachedOp'[t]
    <3>1. t \in 0 .. N /\ opCursor \in 0 .. N
      BY NAssumption DEF TypeOK, Slaves
    <3>2. CASE t < opCursor
      BY <3>2 DEF CursorPassed
    <3>3. CASE ~(t < opCursor)
      <4>1. t \in opCursor .. N
        BY <3>1, <3>3, NAssumption
      <4> QED
        BY <2>2, <4>1, NextCursorProperties
    <3> QED
      BY <3>2, <3>3
  <2> QED
    BY <2>1, <2>2 DEF CursorPassed
<1>2. CASE phase' # "RequestingOp"
  <2>1. opCursor' = opCursor
    BY <1>2 DEF Tick, Send, AppendMonitor, AppendNothing
  <2> QED
    BY <2>1 DEF CursorPassed
<1> QED
  BY <1>1, <1>2

\* The AL poll starts only after every slave has been in OP.
LEMMA TickPoll ==
  ASSUME TypeOK, PollAfterOp, OperationalReached', ReachedIsGenuine', Tick
  PROVE  PollAfterOp'
<1>1. everOp' \subseteq Slaves
  BY TickType DEF TypeOK
<1>2. CASE phase' = "Operational"
  BY <1>1, <1>2 DEF OperationalReached, ReachedIsGenuine, PollAfterOp
<1>3. CASE phase' # "Operational"
  <2>1. appended' = << >> \/ \E kind \in {"Control", "Status"} :
                                appended' = << Dg(kind, NextCursor) >>
    BY <1>3 DEF Tick, Send, AppendOpRequest, AppendNothing
  <2>2. ASSUME NEW k \in DOMAIN appended' PROVE appended'[k].kind # "AlPoll"
    BY <2>1 DEF Dg
  <2> QED
    BY <2>2 DEF PollAfterOp
<1> QED
  BY <1>2, <1>3

\* A request for OP is sent only behind slaves that have been in OP.
LEMMA TickControl ==
  ASSUME TypeOK, ControlOrder, CursorPassed', ReachedIsGenuine', Tick
  PROVE  ControlOrder'
<1>1. UNCHANGED everOp
  BY DEF Tick
<1>2. ASSUME NEW k \in DOMAIN appended', appended'[k].kind = "Control",
             NEW t \in 0 .. appended'[k].idx - 1
      PROVE  t \in everOp'
  <2>1. CASE phase' = "RequestingOp"
    <3>1. opCursor' = NextCursor /\ NextCursor \in 0 .. N
      BY <2>1, TickType, SendType DEF Tick, Send, AppendOpRequest
    <3>2. appended'[k].idx = opCursor'
      BY <1>2, <2>1, <3>1 DEF Tick, Send, AppendOpRequest, Dg
    <3>3. t \in Slaves /\ t < opCursor'
      BY <1>2, <3>1, <3>2, NAssumption DEF Slaves
    <3> QED
      BY <3>3 DEF CursorPassed, ReachedIsGenuine
  <2>2. CASE phase' # "RequestingOp"
    <3>1. appended'[k].kind # "Control"
      BY <2>2 DEF Tick, Send, AppendMonitor, AppendNothing, Dg
    <3> QED
      BY <1>2, <3>1
  <2> QED
    BY <2>1, <2>2
<1>3. ASSUME NEW j \in DOMAIN wire', NEW k \in DOMAIN wire'[j].dgs,
             wire'[j].dgs[k].kind = "Control", NEW t \in 0 .. wire'[j].dgs[k].idx - 1
      PROVE  t \in everOp'
  <2>1. CASE j \in DOMAIN wire
    <3>1. wire'[j].dgs = wire[j].dgs
      BY <2>1, TickWire
    <3> QED
      BY <1>1, <1>3, <2>1, <3>1 DEF ControlOrder
  <2>2. CASE j \notin DOMAIN wire
    <3>1. wire'[j].dgs = appended'
      BY <2>2, TickWire
    <3> QED
      BY <1>2, <1>3, <3>1
  <2> QED
    BY <2>1, <2>2
<1> QED
  BY <1>3 DEF ControlOrder

\* A tick keeps the inductive invariant.
LEMMA TickInv ==
  ASSUME IInv, Tick
  PROVE  IInv'
<1>1. UNCHANGED <<al, asked, everOp, slipped>>
  BY DEF Tick, slave
<1>2. SlaveHistory' /\ OpInRingOrder'
  BY <1>1 DEF IInv, SlaveHistory, OpInRingOrder
<1>3. ReachedIsGenuine' /\ \A s \in Slaves : reachedOp[s] => reachedOp'[s]
  BY TickReached DEF IInv
<1>4. OperationalReached' /\ CursorPassed'
  BY <1>3, TickOperational, TickCursor DEF IInv
<1>5. PollAfterOp' /\ ControlOrder'
  BY <1>3, <1>4, TickPoll, TickControl DEF IInv
<1> QED
  BY <1>2, <1>3, <1>4, <1>5, TickType, TickLagOrder, TickLagBound, TickCurrent,
     TickIdle, TickFault DEF IInv
-----------------------------------------------------------------------------
(* The bus and the slaves *)

\* What remains true of the frames on the wire when the first one leaves it.
LEMMA TailInv ==
  ASSUME TypeOK, LagOrder, LagBound, CurrentFrame, ControlOrder,
         wire # << >>, wire' = Tail(wire),
         faults' \in Nat, faults' >= faults, UNCHANGED <<appended, everOp>>
  PROVE  /\ \A i, j \in DOMAIN wire' : i < j => wire'[i].lag > wire'[j].lag
         /\ \A j \in DOMAIN wire' : wire'[j].lag <= 3 * faults'
         /\ \A j \in DOMAIN wire' : Head(wire).lag > wire'[j].lag
         /\ \A i \in DOMAIN rx, j \in DOMAIN wire' :
              rx[i].type = "reply" => rx[i].lag > wire'[j].lag
         /\ CurrentFrame' /\ ControlOrder'
<1>1. /\ Head(wire) = wire[1] /\ 1 \in DOMAIN wire
      /\ \A j \in DOMAIN wire' : j + 1 \in DOMAIN wire /\ wire'[j] = wire[j + 1]
  BY TailWire
<1>2. \A j \in DOMAIN wire' : j \in Nat /\ j >= 1
  <2>1. wire' \in Seq(Frame)
    BY TailWire
  <2> QED
    BY <2>1
<1>3. ASSUME NEW i \in DOMAIN wire', NEW j \in DOMAIN wire', i < j
      PROVE  wire'[i].lag > wire'[j].lag
  <2>1. i + 1 < j + 1
    BY <1>2, <1>3
  <2> QED
    BY <1>1, <1>3, <2>1 DEF LagOrder
<1>4. ASSUME NEW j \in DOMAIN wire'
      PROVE  /\ wire'[j].lag <= 3 * faults'
             /\ Head(wire).lag > wire'[j].lag
  <2>1. j + 1 \in DOMAIN wire /\ wire'[j] = wire[j + 1] /\ 1 < j + 1
    BY <1>1, <1>2, <1>4
  <2>2. wire[j + 1].lag \in Nat /\ wire[j + 1].lag <= 3 * faults
    BY <2>1, WireFrame DEF LagBound
  <2>3. faults \in Nat
    BY DEF TypeOK
  <2>4. wire[1].lag > wire[j + 1].lag
    BY <1>1, <2>1 DEF LagOrder
  <2>5. wire[j + 1].lag <= 3 * faults'
    BY <2>2, <2>3
  <2> QED
    BY <1>1, <2>1, <2>4, <2>5
<1>5. CurrentFrame' /\ ControlOrder'
  BY <1>1 DEF CurrentFrame, ControlOrder
<1>6. \A i \in DOMAIN rx, j \in DOMAIN wire' :
        rx[i].type = "reply" => rx[i].lag > wire'[j].lag
  BY <1>1 DEF LagOrder
<1> QED
  BY <1>3, <1>4, <1>5, <1>6

\* An OP request is taken from the slaves in ring order.
LEMMA AskedInOrder ==
  ASSUME TypeOK, ControlOrder, OpInRingOrder, wire # << >>,
         asked' \subseteq asked \cup AskedBy(Head(wire)), UNCHANGED everOp
  PROVE  OpInRingOrder'
<1>1. Head(wire) = wire[1] /\ 1 \in DOMAIN wire
  <2>1. wire \in Seq(Frame) /\ DOMAIN wire = 1 .. Len(wire) /\ Len(wire) \in Nat
    BY DEF TypeOK
  <2> QED
    BY <2>1, EmptySeq
<1>2. ASSUME NEW s \in AskedBy(Head(wire)), NEW t \in 0 .. s-1
      PROVE  t \in everOp
  BY <1>1, <1>2 DEF AskedBy, ControlOrder, Dg
<1> QED
  BY <1>2 DEF OpInRingOrder

\* The reply to the frame sent last is true: it carries the AL states the
\* slaves have at the moment the frame passes them.
LEMMA AnswersTruthful ==
  ASSUME TypeOK, PollAfterOp, SlaveHistory,
         NEW f \in Frame, f.dgs = appended, NEW k \in DOMAIN appended
  PROVE  Truthful(appended[k], Answers(f)[k])
<1> DEFINE dg == appended[k]
<1>1. dg \in Datagram
  BY ElementOfSeq DEF TypeOK
<1>2. Answers(f)[k] = IF dg.idx \in Answering
                      THEN [wkc |-> 1, al |-> al[dg.idx]]
                      ELSE [wkc |-> 0, al |-> "NONE"]
  BY DEF Answers
<1>3. CASE dg.idx \in Answering
  <2>1. Answers(f)[k].al = al[dg.idx] /\ dg.idx \in Slaves
    BY <1>2, <1>3 DEF Answering
  <2>2. dg.kind = "AlPoll" => dg.idx \in everOp
    BY <2>1 DEF PollAfterOp
  <2> QED
    BY <2>1, <2>2 DEF Truthful, SlaveHistory
<1>4. CASE dg.idx \notin Answering
  BY <1>2, <1>4 DEF Truthful
<1> QED
  BY <1>3, <1>4

\* A frame that comes back keeps the inductive invariant.
LEMMA ReturnInv ==
  ASSUME IInv, Return
  PROVE  IInv'
<1> DEFINE f     == Head(wire)
           reply == [type |-> "reply", wkc |-> Cardinality(Answering),
                     res |-> Answers(f), lag |-> f.lag]
<1>1. /\ TypeOK /\ LagOrder /\ LagBound /\ CurrentFrame /\ CurrentReply
      /\ ControlOrder /\ OpInRingOrder /\ PollAfterOp /\ SlaveHistory
  BY DEF IInv
<1>2. /\ wire # << >> /\ wire' = Tail(wire)
      /\ UNCHANGED <<engine, al, reach, history>>
      /\ asked' = asked \cup AskedBy(f)
  BY DEF Return
<1>3. /\ UNCHANGED <<phase, goodCycles, reachedOp, opCursor, outstanding, appended>>
      /\ UNCHANGED <<al, faults, everOp, slipped>>
  BY <1>2 DEF engine, history
<1>4. /\ f \in Frame /\ f.lag \in Nat /\ 1 \in DOMAIN wire /\ f = wire[1]
      /\ f.lag <= 3 * faults
  BY <1>1, <1>2, TailWire, FrameType DEF LagBound
<1>5. faults \in Nat /\ faults' = faults
  BY <1>1, <1>3 DEF TypeOK
<1>6. /\ \A i, j \in DOMAIN wire' : i < j => wire'[i].lag > wire'[j].lag
      /\ \A j \in DOMAIN wire' : wire'[j].lag <= 3 * faults'
      /\ \A j \in DOMAIN wire' : f.lag > wire'[j].lag
      /\ \A i \in DOMAIN rx, j \in DOMAIN wire' :
           rx[i].type = "reply" => rx[i].lag > wire'[j].lag
      /\ CurrentFrame' /\ ControlOrder'
  BY <1>1, <1>2, <1>3, <1>5, TailInv
<1>7. OpInRingOrder'
  BY <1>1, <1>2, <1>3, AskedInOrder
<1>8. TypeOK'
  BY <1>1, ReturnType
<1>9. /\ \A i \in DOMAIN rx' :
           \/ i \in DOMAIN rx /\ rx'[i] = rx[i]
           \/ i = Len(rx) + 1 /\ rx'[i] = reply
  <2>1. CASE reach = 0
    BY <2>1 DEF Return
  <2>2. CASE reach # 0
    <3>1. Arrive(reply)
      BY <2>2 DEF Return
    <3>2. reply \in Reply
      BY <1>1, <1>4, AnswersType, AnsweringSize DEF Reply
    <3> HIDE DEF reply
    <3> QED
      BY <1>1, <3>1, <3>2, ArriveType
  <2> QED
    BY <2>1, <2>2
<1>10. /\ DOMAIN rx = 1 .. Len(rx) /\ Len(rx) \in Nat
       /\ DOMAIN rx' = 1 .. Len(rx') /\ Len(rx') \in Nat /\ Len(rx') <= RxLen
       /\ RxLen \in Nat
  <2>1. /\ rx \in Seq(Reply \cup Stray)
        /\ rx' \in Seq(Reply \cup Stray) /\ Len(rx') <= RxLen
    BY <1>1, <1>8 DEF TypeOK
  <2> QED
    BY <2>1, SizesAssumption
<1>11. reply.type = "reply" /\ reply.lag = f.lag /\ reply.res = Answers(f)
  OBVIOUS
<1> HIDE DEF f, reply
<1>12. \A i \in DOMAIN rx : rx[i].type = "reply" => rx[i].lag > f.lag
  BY <1>1, <1>4 DEF LagOrder
<1>13. LagOrder'
  <2>1. ASSUME NEW i \in DOMAIN rx', NEW j \in DOMAIN rx', i < j,
               rx'[i].type = "reply", rx'[j].type = "reply"
        PROVE  rx'[i].lag > rx'[j].lag
    <3>1. i \in DOMAIN rx /\ rx'[i] = rx[i]
      BY <1>9, <1>10, <2>1
    <3>2. CASE j \in DOMAIN rx /\ rx'[j] = rx[j]
      BY <1>1, <2>1, <3>1, <3>2 DEF LagOrder
    <3>3. CASE rx'[j] = reply
      BY <1>11, <1>12, <2>1, <3>1, <3>3
    <3> QED
      BY <1>9, <3>2, <3>3
  <2>2. ASSUME NEW i \in DOMAIN rx', NEW j \in DOMAIN wire', rx'[i].type = "reply"
        PROVE  rx'[i].lag > wire'[j].lag
    BY <1>6, <1>9, <1>11, <2>2
  <2> QED
    BY <1>6, <2>1, <2>2, Zenon DEF LagOrder
<1>14. LagBound'
  <2>1. ASSUME NEW i \in DOMAIN rx', rx'[i].type = "reply"
        PROVE  rx'[i].lag + 3 * i + (IF outstanding' THEN 0 ELSE 3)
                 <= 3 * (faults' + RxLen + 1)
    <3>1. CASE i \in DOMAIN rx /\ rx'[i] = rx[i]
      BY <1>1, <1>3, <2>1, <3>1 DEF LagBound
    <3>2. CASE i = Len(rx) + 1 /\ rx'[i] = reply
      <4>1. i \in Nat /\ i <= RxLen /\ rx'[i].lag = f.lag
        BY <1>10, <1>11, <3>2
      <4> QED
        BY <1>4, <1>5, <1>10, <4>1
    <3> QED
      BY <1>9, <3>1, <3>2
  <2> QED
    BY <1>6, <2>1 DEF LagBound
<1>15. CurrentReply'
  <2>1. ASSUME NEW i \in DOMAIN rx', rx'[i].type = "reply", rx'[i].lag = 0,
               NEW k \in DOMAIN appended \cap DOMAIN rx'[i].res
        PROVE  Truthful(appended[k], rx'[i].res[k])
    <3>1. CASE i \in DOMAIN rx /\ rx'[i] = rx[i]
      BY <1>1, <2>1, <3>1 DEF CurrentReply
    <3>2. CASE rx'[i] = reply
      <4>1. f.lag = 0 /\ rx'[i].res = Answers(f)
        BY <1>11, <2>1, <3>2
      <4>2. f.dgs = appended
        BY <1>1, <1>4, <4>1 DEF CurrentFrame
      <4> QED
        BY <1>1, <1>4, <2>1, <4>1, <4>2, AnswersTruthful
    <3> QED
      BY <1>9, <3>1, <3>2
  <2> QED
    BY <1>3, <2>1 DEF CurrentReply, Truthful
<1> QED
  BY <1>3, <1>6, <1>7, <1>8, <1>13, <1>14, <1>15
     DEF IInv, PollAfterOp, SlaveHistory, ReachedIsGenuine, CursorPassed,
         OperationalReached, PrimingIdle, FaultJustified

\* A lost frame keeps the inductive invariant.
LEMMA LoseInv ==
  ASSUME IInv, Lose
  PROVE  IInv'
<1>1. /\ TypeOK /\ LagOrder /\ LagBound /\ CurrentFrame /\ CurrentReply
      /\ ControlOrder /\ OpInRingOrder
  BY DEF IInv
<1>2. /\ wire # << >> /\ wire' = Tail(wire)
      /\ UNCHANGED <<engine, rx, al, reach, everOp, slipped>>
      /\ asked' \subseteq asked \cup AskedBy(Head(wire))
      /\ faults' = faults + 1
  BY DEF Lose, Misbehave
<1>3. UNCHANGED <<phase, goodCycles, reachedOp, opCursor, outstanding, appended>>
  BY <1>2 DEF engine
<1>4. faults \in Nat /\ faults' \in Nat /\ faults' >= faults
  BY <1>1, <1>2, SizesAssumption DEF TypeOK
<1>5. /\ \A i, j \in DOMAIN wire' : i < j => wire'[i].lag > wire'[j].lag
      /\ \A j \in DOMAIN wire' : wire'[j].lag <= 3 * faults'
      /\ \A i \in DOMAIN rx, j \in DOMAIN wire' :
           rx[i].type = "reply" => rx[i].lag > wire'[j].lag
      /\ CurrentFrame' /\ ControlOrder'
  BY <1>1, <1>2, <1>3, <1>4, TailInv
<1>6. OpInRingOrder'
  BY <1>1, <1>2, AskedInOrder
<1>7. TypeOK'
  BY <1>1, BusType
<1>8. LagOrder' /\ CurrentReply'
  BY <1>1, <1>2, <1>3, <1>5 DEF LagOrder, CurrentReply, Truthful
<1>9. LagBound'
  <2>1. ASSUME NEW i \in DOMAIN rx, rx[i].type = "reply"
        PROVE  rx[i].lag + 3 * i + (IF outstanding THEN 0 ELSE 3)
                 <= 3 * (faults' + RxLen + 1)
    <3>1. i \in Nat /\ rx[i].lag \in Nat
      BY <1>1, <2>1, RingReply
    <3>2. rx[i].lag + 3 * i + (IF outstanding THEN 0 ELSE 3)
            <= 3 * (faults + RxLen + 1)
      BY <1>1, <2>1 DEF LagBound
    <3>3. RxLen \in Nat
      BY SizesAssumption
    <3> QED
      BY <1>2, <1>4, <3>1, <3>2, <3>3
  <2> QED
    BY <1>2, <1>3, <1>5, <2>1 DEF LagBound
<1> QED
  BY <1>2, <1>3, <1>5, <1>6, <1>7, <1>8, <1>9
     DEF IInv, PollAfterOp, SlaveHistory, ReachedIsGenuine, CursorPassed,
         OperationalReached, PrimingIdle, FaultJustified

\* A foreign frame keeps the inductive invariant.
LEMMA DisturbInv ==
  ASSUME IInv, Disturb
  PROVE  IInv'
<1>1. TypeOK /\ LagOrder /\ LagBound /\ CurrentReply
  BY DEF IInv
<1>2. faults' = faults + 1 /\ UNCHANGED <<engine, wire, slave, everOp, slipped>>
  BY DEF Disturb, Misbehave
<1>3. /\ UNCHANGED <<phase, goodCycles, reachedOp, opCursor, outstanding, appended>>
      /\ UNCHANGED <<al, asked, reach>>
  BY <1>2 DEF engine, slave
<1>4. TypeOK'
  BY <1>1, BusType
<1>5. \A i \in DOMAIN rx' : rx'[i].type = "reply" => i \in DOMAIN rx /\ rx'[i] = rx[i]
  <2>1. PICK t \in {"noise", "foreign"} : Arrive([type |-> t])
    BY DEF Disturb
  <2>2. [type |-> t] \in Stray /\ [type |-> t].type # "reply"
    BY DEF Stray
  <2> QED
    BY <1>1, <2>1, <2>2, ArriveType
<1>6. faults \in Nat /\ RxLen \in Nat
  BY <1>1, SizesAssumption DEF TypeOK
<1>7. LagOrder' /\ CurrentReply'
  BY <1>1, <1>2, <1>3, <1>5 DEF LagOrder, CurrentReply, Truthful
<1>8. LagBound'
  <2>1. ASSUME NEW i \in DOMAIN rx', rx'[i].type = "reply"
        PROVE  rx'[i].lag + 3 * i + (IF outstanding' THEN 0 ELSE 3)
                 <= 3 * (faults' + RxLen + 1)
    <3>1. i \in DOMAIN rx /\ rx[i].type = "reply" /\ rx'[i] = rx[i]
      BY <1>5, <2>1
    <3>2. i \in Nat /\ rx[i].lag \in Nat
      BY <1>1, <3>1, RingReply
    <3>3. rx[i].lag + 3 * i + (IF outstanding THEN 0 ELSE 3)
            <= 3 * (faults + RxLen + 1)
      BY <1>1, <3>1 DEF LagBound
    <3> QED
      BY <1>2, <1>3, <1>6, <3>1, <3>2, <3>3
  <2>2. ASSUME NEW j \in DOMAIN wire PROVE wire[j].lag <= 3 * faults'
    <3>1. wire[j].lag \in Nat /\ wire[j].lag <= 3 * faults
      BY <1>1, <2>2, WireFrame DEF LagBound
    <3> QED
      BY <1>2, <1>6, <3>1
  <2> QED
    BY <1>2, <2>1, <2>2 DEF LagBound
<1> QED
  BY <1>2, <1>3, <1>4, <1>7, <1>8
     DEF IInv, CurrentFrame, ControlOrder, PollAfterOp, SlaveHistory,
         ReachedIsGenuine, CursorPassed, OperationalReached, PrimingIdle,
         OpInRingOrder, FaultJustified

\* The slaves disturb only what is known of them, and what has been true of
\* them stays true: everOp and slipped only grow.
LEMMA SlaveInv ==
  ASSUME IInv, (\E s \in Slaves : SlaveStep(s)) \/ Replug
  PROVE  IInv'
<1>1. TypeOK /\ CurrentReply /\ ControlOrder /\ PollAfterOp /\ SlaveHistory
      /\ OpInRingOrder
  BY DEF IInv
<1>2. /\ UNCHANGED <<engine, net, faults>>
      /\ everOp \subseteq everOp' /\ (slipped # {} => slipped' # {})
  BY DEF SlaveStep, EnterOp, RefuseOp, DropOp, PowerCycle, Unplug, Replug, history
<1>3. UNCHANGED <<phase, goodCycles, reachedOp, opCursor, outstanding, appended, wire, rx>>
  BY <1>2 DEF engine, net
<1>4. TypeOK'
  BY <1>1, SlaveType, ReplugType
<1>5. everOp \subseteq Slaves /\ everOp' \subseteq Slaves
  BY <1>1, <1>4 DEF TypeOK
<1>6. SlaveHistory'
  <2>1. al \in [Slaves -> AlStates]
    BY <1>1 DEF TypeOK
  <2>2. CASE UNCHANGED <<al, everOp, slipped>>
    BY <1>1, <2>2 DEF SlaveHistory
  <2>3. ASSUME NEW s \in Slaves, EnterOp(s) PROVE SlaveHistory'
    BY <1>1, <2>1, <2>3 DEF SlaveHistory, EnterOp
  <2>4. ASSUME NEW s \in Slaves, RefuseOp(s) \/ DropOp(s) \/ PowerCycle(s)
        PROVE  SlaveHistory'
    <3>1. slipped' # {} /\ everOp' = everOp
      BY <2>4 DEF RefuseOp, DropOp, PowerCycle
    <3>2. \A t \in Slaves : al'[t] = "OP" => al[t] = "OP"
      BY <2>1, <2>4 DEF RefuseOp, DropOp, PowerCycle
    <3> QED
      BY <1>1, <3>1, <3>2 DEF SlaveHistory
  <2> QED
    BY <2>2, <2>3, <2>4 DEF SlaveStep, Unplug, Replug, history
<1>7. OpInRingOrder'
  BY <1>1, <1>2 DEF OpInRingOrder, SlaveStep, EnterOp, RefuseOp, DropOp, PowerCycle,
                    Unplug, Replug, history
<1>8. CurrentReply' /\ ControlOrder' /\ PollAfterOp'
  BY <1>1, <1>2, <1>3, <1>5 DEF CurrentReply, Truthful, ControlOrder, PollAfterOp
<1> QED
  BY <1>2, <1>3, <1>4, <1>6, <1>7, <1>8
     DEF IInv, LagOrder, LagBound, CurrentFrame, ReachedIsGenuine, CursorPassed,
         OperationalReached, PrimingIdle, FaultJustified
-----------------------------------------------------------------------------
(* Theorems *)

\* The inductive invariant holds at the start.
LEMMA InitInv == Init => IInv
<1> SUFFICES ASSUME Init PROVE IInv
  OBVIOUS
<1>1. TypeOK
  BY InitType
<1>2. /\ phase = "Priming" /\ appended = << >> /\ wire = << >> /\ rx = << >>
      /\ \A s \in Slaves : ~reachedOp[s] /\ al[s] = "SAFEOP"
      /\ opCursor = 0 /\ asked = {} /\ everOp = {}
  BY DEF Init
<1>3. DOMAIN wire = {} /\ DOMAIN rx = {} /\ DOMAIN appended = {}
  BY <1>2
<1>4. CursorPassed
  BY <1>2, NAssumption DEF CursorPassed, Slaves
<1> QED
  BY <1>1, <1>2, <1>3, <1>4
     DEF IInv, LagOrder, LagBound, CurrentFrame, CurrentReply, ControlOrder,
         PollAfterOp, SlaveHistory, ReachedIsGenuine, OperationalReached,
         PrimingIdle, OpInRingOrder, FaultJustified

\* Every step keeps the inductive invariant.
LEMMA NextInv == IInv /\ [Next]_vars => IInv'
<1> SUFFICES ASSUME IInv, [Next]_vars PROVE IInv'
  OBVIOUS
<1>1. CASE UNCHANGED vars
  <2>1. TypeOK'
    BY NextType DEF IInv
  <2> QED
    BY <1>1, <2>1
       DEF vars, engine, net, slave, history, IInv, LagOrder, LagBound,
           CurrentFrame, CurrentReply, Truthful, ControlOrder, PollAfterOp,
           SlaveHistory, ReachedIsGenuine, CursorPassed, OperationalReached,
           PrimingIdle, OpInRingOrder, FaultJustified
<1>2. CASE Next
  BY <1>2, TickInv, ReturnInv, LoseInv, DisturbInv, SlaveInv DEF Next
<1> QED
  BY <1>1, <1>2

\* The invariant behind the theorems below: tick(), receive() and send_frame()
\* never lose the relation between ages of frames, what their replies say of
\* the slaves, and reached_op, op_cursor and phase.
THEOREM Inductive == Spec => []IInv
BY InitInv, NextInv, PTL DEF Spec

\* receive(): however many frames are lost, late or foreign between two
\* replies, up to the number an 8-bit index can tell apart, the reply it
\* decodes is the reply to the frame it sent last.
THEOREM ReplyCurrent == Spec => []ReplyIsCurrent
<1>1. IInv => ReplyIsCurrent
  BY MatchIsCurrent DEF IInv, ReplyIsCurrent
<1> QED
  BY <1>1, Inductive, PTL

\* process(): the phase Operational is entered only after every slave, of
\* however many, has really been in OP.
THEOREM OperationalGenuine == Spec => []OperationalIsGenuine
<1>1. IInv => OperationalIsGenuine
  BY DEF IInv, TypeOK, OperationalReached, ReachedIsGenuine, OperationalIsGenuine
<1> QED
  BY <1>1, Inductive, PTL

\* append_op_request(): the slaves are asked for OP, and enter it for the
\* first time, in ring order.
THEOREM OpOrder == Spec => []OpInRingOrder
<1>1. IInv => OpInRingOrder
  BY DEF IInv
<1> QED
  BY <1>1, Inductive, PTL

\* decode_appended(): the bus is faulted only if some slave refused OP or
\* left it, never on a lost, late or unanswered read.
THEOREM FaultSound == Spec => []FaultJustified
<1>1. IInv => FaultJustified
  BY DEF IInv
<1> QED
  BY <1>1, Inductive, PTL

\* process(): no step of the engine or of the bus skips a phase of the
\* bring-up, goes back to an earlier one, or leaves Faulted.
THEOREM PhasesInOrder == Spec => PhaseOrder
<1> DEFINE Moves == {<<"Priming", "RequestingOp">>, <<"RequestingOp", "Operational">>,
                     <<"RequestingOp", "Faulted">>, <<"Operational", "Faulted">>}
<1>1. ASSUME IInv, [Next]_vars
      PROVE  [phase' # phase => <<phase, phase'>> \in Moves]_phase
  <2>1. phase \in Phases /\ phase' \in Phases
    BY <1>1, NextInv DEF IInv, TypeOK
  <2>2. CASE Tick
    BY <1>1, <2>1, <2>2, TickPhase DEF IInv, Phases
  <2>3. CASE ~Tick
    BY <1>1, <2>3 DEF Next, Return, Lose, Disturb, Replug, SlaveStep, EnterOp,
       RefuseOp, DropOp, PowerCycle, Unplug, engine, vars
  <2> QED
    BY <2>2, <2>3
<1> QED
  BY <1>1, Inductive, PTL DEF PhaseOrder, Spec
=============================================================================
