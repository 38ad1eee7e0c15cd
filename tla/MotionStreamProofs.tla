------------------------- MODULE MotionStreamProofs -------------------------
(***************************************************************************)
(* The motion stream, for every depth, lead and batch and for frames lost  *)
(* in any number: the tags in the ring ascend (TagsAscend), and a host     *)
(* that sends one good frame per cycle gets a whole stream back while the  *)
(* ring has room (HealsWithRoom) and is not stopped for an underrun        *)
(* (FedIsNotStopped).                                                      *)
(*                                                                         *)
(* TagsAscend is not inductive: the ring is fed from the frame under way,  *)
(* the frame from nextTag, and a restart makes tags that have passed count *)
(* again.  StreamInv orders ring, frame and nextTag, passed tags included; *)
(* only at the horizon, where an index stays, two of them may be the same. *)
(* FrameRun says that a frame is a run of tags, HealInv what a number of   *)
(* smooth cycles has led to.                                               *)
(***************************************************************************)
EXTENDS MotionStream, TLAPS, FiniteSetTheorems, WellFoundedInduction, SequenceTheorems

Before(a, b) == a < b \/ (a = -Horizon /\ b = -Horizon)

StreamInv ==
  /\ \A i, j \in DOMAIN queue : i < j => Before(queue[i], queue[j])
  /\ \A i, j \in DOMAIN frame : i < j => Before(frame[i], frame[j])
  /\ \A i \in DOMAIN queue, j \in DOMAIN frame : Before(queue[i], frame[j])
  /\ \A i \in DOMAIN queue : Before(queue[i], nextTag)
  /\ \A j \in DOMAIN frame : Before(frame[j], nextTag)

-----------------------------------------------------------------------------
(* Numbers and sequences *)

\* A set of numbers has a least element.
LEMMA LeastNumber ==
  ASSUME NEW S \in SUBSET Nat, S # {}
  PROVE  \E m \in S : \A n \in S : m <= n
<1>. DEFINE Below == {0 .. n - 1 : n \in S}
<1>1. Below \in SUBSET FiniteSubsetsOf(Nat) /\ Below # {}
  <2>1. ASSUME NEW n \in S PROVE 0 .. n - 1 \in FiniteSubsetsOf(Nat)
    <3>1. 0 \in Int /\ n - 1 \in Int /\ 0 .. n - 1 \in SUBSET Nat
      OBVIOUS
    <3>2. IsFiniteSet(0 .. n - 1)
      BY <3>1, FS_Interval
    <3>. QED BY <3>1, <3>2 DEF FiniteSubsetsOf
  <2>. QED BY <2>1
<1>2. PICK X \in Below : \A Y \in Below : ~(<<Y, X>> \in StrictSubsetOrdering(Nat))
  BY <1>1, FS_StrictSubsetOrderingWellFounded, WFMin
<1>3. PICK m \in S : X = 0 .. m - 1
  OBVIOUS
<1>4. ASSUME NEW n \in S, n < m PROVE FALSE
  <2>1. 0 .. n - 1 \subseteq X /\ n \in X /\ n \notin 0 .. n - 1
    BY <1>3, <1>4
  <2>2. <<0 .. n - 1, X>> \in StrictSubsetOrdering(Nat)
    BY <1>3, <2>1 DEF StrictSubsetOrdering
  <2>. QED BY <1>2, <2>2
<1>. QED BY <1>4

\* An index grows older by one, and no older than the horizon.
LEMMA PastProperties ==
  ASSUME NEW a \in Index
  PROVE  /\ Past(a) \in Index
         /\ \A b \in Index : Before(a, b) => Before(Past(a), Past(b))
  BY StreamAssumption DEF Index, Past, Greater, Before

\* The same of all tags of a frame or a ring.
LEMMA PastAllProperties ==
  ASSUME NEW tags \in Seq(Index)
  PROVE  /\ PastAll(tags) \in Seq(Index)
         /\ Len(PastAll(tags)) = Len(tags)
         /\ DOMAIN PastAll(tags) = DOMAIN tags
         /\ \A i \in DOMAIN tags : PastAll(tags)[i] = Past(tags[i])
<1>1. \A i \in DOMAIN tags : tags[i] \in Index
  OBVIOUS
<1>. QED BY <1>1, PastProperties DEF PastAll

\* pop discards the passed samples at the head, a number of them.
LEMMA SkipProperties ==
  ASSUME NEW tags \in Seq(Index),
         NEW stale, stale = {k \in DOMAIN tags : \A i \in 1 .. k : Passed(tags[i])}
  PROVE  LET skip == IF stale = {} THEN 0 ELSE CHOOSE k \in stale : k + 1 \notin stale
         IN /\ skip \in 0 .. Len(tags)
            /\ \A i \in 1 .. skip : Passed(tags[i])
            /\ skip < Len(tags) => ~Passed(tags[skip + 1])
<1>1. CASE stale = {}
  <2>1. Len(tags) > 0 => 1 \notin stale /\ 1 \in DOMAIN tags
    BY <1>1
  <2>. QED BY <1>1, <2>1
<1>2. CASE stale # {}
  <2>. DEFINE fresh == {k \in Nat : k # 0 /\ k \notin stale}
  <2>1. Len(tags) + 1 \in fresh
    OBVIOUS
  <2>2. PICK m \in fresh : \A n \in fresh : m <= n
    BY <2>1, LeastNumber
  <2>3. 1 \in stale
    <3>1. PICK k \in stale : TRUE
      BY <1>2
    <3>. QED BY <3>1
  <2>4. m - 1 \in stale
    <3>1. m # 1 /\ m - 1 \in Nat
      BY <2>2, <2>3
    <3>2. m - 1 \notin fresh
      BY <2>2, <3>1
    <3>. QED BY <3>1, <3>2
  <2>5. (m - 1) + 1 \notin stale
    BY <2>2
  <2>. DEFINE skip == CHOOSE k \in stale : k + 1 \notin stale
  <2>6. skip \in stale /\ skip + 1 \notin stale
    BY <2>4, <2>5
  <2>. HIDE DEF skip
  <2>7. skip \in 1 .. Len(tags) /\ \A i \in 1 .. skip : Passed(tags[i])
    BY <2>6
  <2>8. skip < Len(tags) => ~Passed(tags[skip + 1])
    <3>1. SUFFICES ASSUME skip < Len(tags), Passed(tags[skip + 1])
                   PROVE  skip + 1 \in stale
      BY <2>6
    <3>2. \A i \in 1 .. skip + 1 : Passed(tags[i])
      BY <2>7, <3>1
    <3>. QED BY <2>7, <3>1, <3>2
  <2>. QED BY <1>2, <2>7, <2>8 DEF skip
<1>. QED BY <1>1, <1>2

-----------------------------------------------------------------------------
(* Types *)

\* What ingest and pop leave: part of a sequence.
LEMMA PartProperties ==
  ASSUME NEW tags \in Seq(Index), NEW m \in 1 .. Len(tags) + 2, NEW n \in 0 .. Len(tags),
         n < Len(tags) => m = 1
  PROVE  /\ SubSeq(tags, m, n) \in Seq(Index)
         /\ Len(SubSeq(tags, m, n)) = IF m <= n THEN n - m + 1 ELSE 0
         /\ \A i \in DOMAIN SubSeq(tags, m, n) :
              i + m - 1 \in DOMAIN tags /\ SubSeq(tags, m, n)[i] = tags[i + m - 1]
  OBVIOUS

\* build_motion tags at least one sample and at most a batch.
LEMMA WantProperties ==
  ASSUME TypeOK
  PROVE  Want \in 1 .. Batch
  BY StreamAssumption DEF TypeOK, Want, Lesser

\* The first tag of a frame: not in the past, and not one sent before.
LEMMA ResyncedProperties ==
  ASSUME TypeOK
  PROVE  Resynced \in Int /\ Resynced >= nextTag /\ Resynced > -Horizon
  BY StreamAssumption DEF TypeOK, Resynced, Greater, Index

\* ingest takes as much of the frame as there is room for.
LEMMA RoomProperties ==
  ASSUME TypeOK
  PROVE  LET room == Lesser(Depth - Len(queue), Len(frame))
         IN room \in 0 .. Len(frame) /\ Len(queue) + room <= Depth
  BY StreamAssumption DEF TypeOK, Lesser

\* build_motion keeps the types: tags ahead of the board by no more than it may send.
LEMMA BuildType ==
  ASSUME TypeOK, Build
  PROVE  TypeOK'
<1>1. frame' \in Seq(Index) /\ Len(frame') = Want
  BY WantProperties, ResyncedProperties, StreamAssumption DEF Build, Index
<1>2. nextTag' \in Index
  BY WantProperties, ResyncedProperties, StreamAssumption DEF Build, Index
<1>. QED BY <1>1, <1>2, WantProperties, StreamAssumption DEF TypeOK, Build, board

\* A frame, delivered or lost, keeps the types: the push stops at the depth.
LEMMA DeliverType ==
  ASSUME TypeOK, NEW mosiOk \in BOOLEAN, NEW misoOk \in BOOLEAN, Deliver(mosiOk, misoOk)
  PROVE  TypeOK'
<1>. DEFINE room == Lesser(Depth - Len(queue), Len(frame))
<1>1. queue' \in Seq(Index) /\ Len(queue') <= Depth /\ streams' \in BOOLEAN
  <2>1. CASE mosiOk
    <3>. DEFINE taken == SubSeq(frame, 1, room)
    <3>1. room \in 0 .. Len(frame) /\ Len(queue) + room <= Depth
      BY RoomProperties
    <3>2. taken \in Seq(Index) /\ Len(taken) = room
      <4>. HIDE DEF room
      <4>. QED BY <3>1, PartProperties DEF TypeOK
    <3>3. queue' = queue \o taken /\ streams' = TRUE
      BY <2>1 DEF Deliver, Ingest
    <3>. HIDE DEF taken, room
    <3>4. queue \in Seq(Index)
      BY DEF TypeOK
    <3>5. queue' \in Seq(Index) /\ Len(queue') = Len(queue) + Len(taken)
      BY <3>2, <3>3, <3>4, ConcatProperties
    <3>. QED BY <3>1, <3>2, <3>3, <3>5
  <2>2. CASE ~mosiOk
    BY <2>2 DEF Deliver, TypeOK
  <2>. QED BY <2>1, <2>2
<1>2. shift \in [index : Index, depth : 0 .. Depth, valid : BOOLEAN]
  BY DEF TypeOK
<1>3. lastIndex' \in Index /\ lastDepth' \in 0 .. Depth
  BY <1>2 DEF Deliver, TypeOK
<1>4. frame' \in Seq(Index) /\ Len(frame') <= Batch
  BY StreamAssumption DEF Deliver
<1>5. {staged', shift'} \subseteq [index : Index, depth : 0 .. Depth, valid : BOOLEAN]
  BY DEF Deliver, TypeOK
<1>. QED BY <1>1, <1>3, <1>4, <1>5 DEF TypeOK, Deliver

\* pop: what is left of the ring is its end.
LEMMA TickLeft ==
  ASSUME TypeOK, Tick
  PROVE  \E m \in 1 .. Len(queue) + 2 :
           /\ queue' = SubSeq(PastAll(queue), m, Len(queue))
           /\ staged' = [index |-> 0, depth |-> Len(queue'), valid |-> TRUE]
<1>. DEFINE aged  == PastAll(queue)
            stale == {k \in DOMAIN aged : \A i \in 1 .. k : Passed(aged[i])}
            skip  == IF stale = {} THEN 0 ELSE CHOOSE k \in stale : k + 1 \notin stale
            found == skip < Len(aged) /\ aged[skip + 1] = 0
            m     == skip + (IF found THEN 2 ELSE 1)
<1>1. aged \in Seq(Index) /\ Len(aged) = Len(queue)
  BY PastAllProperties DEF TypeOK
<1>2. skip \in 0 .. Len(aged)
  BY <1>1, SkipProperties
<1>3. queue' = SubSeq(aged, m, Len(aged)) /\ staged' = [index |-> 0, depth |-> Len(queue'), valid |-> TRUE]
  BY DEF Tick
<1>4. m \in 1 .. Len(queue) + 2
  <2>. HIDE DEF skip, found, aged
  <2>. QED BY <1>1, <1>2
<1>. HIDE DEF m
<1>. QED BY <1>1, <1>3, <1>4

\* The tick keeps the types: pop only shortens the ring.
LEMMA TickType ==
  ASSUME TypeOK, Tick
  PROVE  TypeOK'
<1>1. PICK m \in 1 .. Len(queue) + 2 :
         /\ queue' = SubSeq(PastAll(queue), m, Len(queue))
         /\ staged' = [index |-> 0, depth |-> Len(queue'), valid |-> TRUE]
  BY TickLeft
<1>2. PastAll(queue) \in Seq(Index) /\ Len(PastAll(queue)) = Len(queue)
  BY PastAllProperties DEF TypeOK
<1>3. queue' \in Seq(Index) /\ Len(queue') \in 0 .. Depth
  BY <1>1, <1>2, PartProperties, StreamAssumption DEF TypeOK
<1>4. frame' \in Seq(Index) /\ Len(frame') <= Batch
  BY PastAllProperties DEF TypeOK, Tick
<1>5. staged' \in [index : Index, depth : 0 .. Depth, valid : BOOLEAN]
  BY <1>1, <1>3, StreamAssumption DEF Index
<1>6. shift' \in [index : Index, depth : 0 .. Depth, valid : BOOLEAN]
  BY PastProperties DEF Tick, TypeOK
<1>7. nextTag' \in Index /\ lastIndex' \in Index
  BY PastProperties DEF Tick, TypeOK
<1>8. onTime' \in BOOLEAN /\ underrun' \in BOOLEAN
  BY DEF Tick, Drained
<1>9. UNCHANGED <<streams, lastDepth, primed>>
  BY DEF Tick
<1>. QED BY <1>3, <1>4, <1>5, <1>6, <1>7, <1>8, <1>9 DEF TypeOK

\* A new engine counts from zero: what is kept is ahead by the cycles of the old.
LEMMA LaterProperties ==
  ASSUME NEW tags \in Seq(Index), NEW cycles \in 1 .. MaxRun,
         \A i \in DOMAIN tags : Later(tags[i], cycles) \in 0 .. MaxAhead
  PROVE  LET later == [k \in DOMAIN tags |-> Later(tags[k], cycles)]
         IN /\ later \in Seq(Index) /\ Len(later) = Len(tags)
            /\ DOMAIN later = DOMAIN tags
            /\ \A i \in DOMAIN tags : later[i] = tags[i] + cycles
<1>. DEFINE later == [k \in 1 .. Len(tags) |-> Later(tags[k], cycles)]
<1>1. 0 .. MaxAhead \subseteq Index
  BY StreamAssumption DEF Index
<1>2. \A k \in 1 .. Len(tags) : Later(tags[k], cycles) \in Index
  BY <1>1
<1>3. later \in Seq(Index) /\ Len(later) = Len(tags)
  <2>1. Len(tags) \in Nat
    OBVIOUS
  <2>2. later \in [1 .. Len(tags) -> Index]
    BY <1>2
  <2>. HIDE DEF later
  <2>. QED BY <2>1, <2>2, SeqDef, LenProperties
<1>4. DOMAIN tags = 1 .. Len(tags)
  OBVIOUS
<1>. QED BY <1>3, <1>4 DEF Later

\* What a restart asks of the tags it keeps, and does to them.
LEMMA RestartKept ==
  ASSUME TypeOK, Restart
  PROVE  \E cycles \in 1 .. MaxRun :
           /\ \A i \in DOMAIN queue : queue[i] > -Horizon /\ Later(queue[i], cycles) \in 0 .. MaxAhead
           /\ \A i \in DOMAIN frame : frame[i] > -Horizon /\ Later(frame[i], cycles) \in 0 .. MaxAhead
           /\ \A index \in {nextTag, lastIndex, shift.index, staged.index} :
                index > -Horizon /\ Later(index, cycles) \in 0 .. MaxAhead
           /\ queue' = [k \in DOMAIN queue |-> Later(queue[k], cycles)]
           /\ frame' = [k \in DOMAIN frame |-> Later(frame[k], cycles)]
           /\ staged' = [staged EXCEPT !.index = Later(@, cycles)]
           /\ shift' = [shift EXCEPT !.index = Later(@, cycles)]
           /\ nextTag' = Later(nextTag, cycles) /\ lastIndex' = Later(lastIndex, cycles)
  BY DEF Restart, Range

\* A new engine keeps the types.
LEMMA RestartType ==
  ASSUME TypeOK, Restart
  PROVE  TypeOK'
<1>1. PICK cycles \in 1 .. MaxRun :
         /\ \A i \in DOMAIN queue : queue[i] > -Horizon /\ Later(queue[i], cycles) \in 0 .. MaxAhead
         /\ \A i \in DOMAIN frame : frame[i] > -Horizon /\ Later(frame[i], cycles) \in 0 .. MaxAhead
         /\ \A index \in {nextTag, lastIndex, shift.index, staged.index} :
              index > -Horizon /\ Later(index, cycles) \in 0 .. MaxAhead
         /\ queue' = [k \in DOMAIN queue |-> Later(queue[k], cycles)]
         /\ frame' = [k \in DOMAIN frame |-> Later(frame[k], cycles)]
         /\ staged' = [staged EXCEPT !.index = Later(@, cycles)]
         /\ shift' = [shift EXCEPT !.index = Later(@, cycles)]
         /\ nextTag' = Later(nextTag, cycles) /\ lastIndex' = Later(lastIndex, cycles)
  BY RestartKept
<1>2. 0 .. MaxAhead \subseteq Index
  BY StreamAssumption DEF Index
<1>3. queue' \in Seq(Index) /\ Len(queue') <= Depth
  BY <1>1, LaterProperties DEF TypeOK
<1>4. frame' \in Seq(Index) /\ Len(frame') <= Batch
  BY <1>1, LaterProperties DEF TypeOK
<1>5. nextTag' \in Index /\ lastIndex' \in Index
  BY <1>1, <1>2
<1>6. {staged', shift'} \subseteq [index : Index, depth : 0 .. Depth, valid : BOOLEAN]
  BY <1>1, <1>2 DEF TypeOK
<1>7. UNCHANGED <<streams, onTime, underrun, lastDepth, primed>>
  BY DEF Restart
<1>. QED BY <1>3, <1>4, <1>5, <1>6, <1>7 DEF TypeOK

\* Ring and frames are empty at power-up.
LEMMA InitType ==
  ASSUME Init
  PROVE  TypeOK
<1>1. 0 \in Index /\ -Horizon \in Index /\ 0 \in 0 .. Depth /\ Batch \in Nat /\ Depth \in Nat
  BY StreamAssumption DEF Index
<1>2. {staged, shift} \subseteq [index : Index, depth : 0 .. Depth, valid : BOOLEAN]
  <2>1. Blank \in [index : Index, depth : 0 .. Depth, valid : BOOLEAN]
    BY <1>1 DEF Blank
  <2>2. [Blank EXCEPT !.valid = TRUE] \in [index : Index, depth : 0 .. Depth, valid : BOOLEAN]
    BY <2>1
  <2>. QED BY <2>1, <2>2 DEF Init
<1>3. queue \in Seq(Index) /\ Len(queue) <= Depth /\ frame \in Seq(Index) /\ Len(frame) <= Batch
  BY <1>1 DEF Init
<1>4. lastIndex \in Index /\ nextTag \in Index /\ lastDepth \in 0 .. Depth
  BY <1>1 DEF Init
<1>5. streams \in BOOLEAN /\ onTime \in BOOLEAN /\ underrun \in BOOLEAN /\ primed \in BOOLEAN
  BY DEF Init
<1>. QED BY <1>2, <1>3, <1>4, <1>5 DEF TypeOK

\* Every step keeps the types.
LEMMA StepType ==
  ASSUME TypeOK, [Next]_vars
  PROVE  TypeOK'
<1>1. CASE Build
  BY <1>1, BuildType
<1>2. ASSUME NEW mosiOk \in BOOLEAN, NEW misoOk \in BOOLEAN, Deliver(mosiOk, misoOk)
      PROVE  TypeOK'
  BY <1>2, DeliverType
<1>3. CASE Tick
  BY <1>3, TickType
<1>4. CASE Restart
  BY <1>4, RestartType
<1>5. CASE UNCHANGED vars
  BY <1>5 DEF TypeOK, vars, board, spi, host, pace
<1>. QED BY <1>1, <1>2, <1>3, <1>4, <1>5 DEF Next

\* The ring keeps to its depth and a frame to its batch, and no index leaves the
\* range of what the host tags, for every depth, lead and batch, whatever frames
\* are lost and however often the engine is stopped and started again.
THEOREM StreamTypeCorrect == Spec => []TypeOK
<1>1. Init => TypeOK
  BY InitType
<1>2. TypeOK /\ [Next]_vars => TypeOK'
  BY StepType
<1>. QED BY <1>1, <1>2, PTL DEF Spec

-----------------------------------------------------------------------------
(* The order of the tags *)

\* With nothing in the ring all tags are in order.
LEMMA InitOrder ==
  ASSUME Init
  PROVE  StreamInv
  BY DEF Init, StreamInv

\* build_motion tags its frame later than all that is in the ring or under way.
LEMMA BuildOrder ==
  ASSUME TypeOK, StreamInv, Build
  PROVE  StreamInv'
<1>1. Want \in 1 .. Batch /\ Batch \in Nat
  BY WantProperties, StreamAssumption
<1>2. Resynced \in Int /\ Resynced >= nextTag /\ Resynced > -Horizon
  BY ResyncedProperties
<1>3. frame' = [k \in 1 .. Want |-> Resynced + k - 1] /\ nextTag' = Resynced + Want /\ queue' = queue
  BY DEF Build, board
<1>4. \A i \in DOMAIN queue : queue[i] \in Index /\ queue[i] < Resynced
  <2>1. TAKE i \in DOMAIN queue
  <2>2. queue[i] \in Index /\ nextTag \in Index /\ Before(queue[i], nextTag)
    BY DEF TypeOK, StreamInv
  <2>. QED BY <1>2, <2>2, StreamAssumption DEF Before, Index
<1>5. DOMAIN frame' = 1 .. Want /\ \A k \in 1 .. Want : frame'[k] = Resynced + k - 1
  BY <1>3
<1>6. \A i, j \in DOMAIN frame' : i < j => Before(frame'[i], frame'[j])
  BY <1>1, <1>2, <1>5 DEF Before
<1>7. \A i \in DOMAIN queue', j \in DOMAIN frame' : Before(queue'[i], frame'[j])
  BY <1>1, <1>2, <1>3, <1>4, <1>5, StreamAssumption DEF Before, Index
<1>8. \A i \in DOMAIN queue' : Before(queue'[i], nextTag')
  BY <1>1, <1>2, <1>3, <1>4, StreamAssumption DEF Before, Index
<1>9. \A j \in DOMAIN frame' : Before(frame'[j], nextTag')
  BY <1>1, <1>2, <1>3, <1>5 DEF Before
<1>10. \A i, j \in DOMAIN queue' : i < j => Before(queue'[i], queue'[j])
  BY <1>3 DEF StreamInv
<1>. QED BY <1>6, <1>7, <1>8, <1>9, <1>10 DEF StreamInv, Before

\* What is pushed comes behind what is in the ring.
LEMMA DeliverOrder ==
  ASSUME TypeOK, StreamInv, NEW mosiOk \in BOOLEAN, NEW misoOk \in BOOLEAN,
         Deliver(mosiOk, misoOk)
  PROVE  StreamInv'
<1>1. frame' = << >> /\ nextTag' = nextTag
  BY DEF Deliver
<1>2. CASE ~mosiOk
  <2>1. queue' = queue
    BY <1>2 DEF Deliver
  <2>. QED BY <1>1, <2>1 DEF StreamInv, Before
<1>3. CASE mosiOk
  <2>. DEFINE room  == Lesser(Depth - Len(queue), Len(frame))
              taken == SubSeq(frame, 1, room)
  <2>1. room \in 0 .. Len(frame)
    BY RoomProperties
  <2>2. frame \in Seq(Index) /\ queue \in Seq(Index)
    BY DEF TypeOK
  <2>3. /\ taken \in Seq(Index)
        /\ \A i \in DOMAIN taken : i \in DOMAIN frame /\ taken[i] = frame[i]
    <3>. HIDE DEF room
    <3>. QED BY <2>1, <2>2, PartProperties
  <2>4. queue' = queue \o taken
    BY <1>3 DEF Deliver, Ingest
  <2>. HIDE DEF taken, room
  <2>5. \A i \in DOMAIN queue' : \/ i \in DOMAIN queue /\ queue'[i] = queue[i]
                                 \/ /\ i - Len(queue) \in DOMAIN taken
                                    /\ i > Len(queue)
                                    /\ queue'[i] = taken[i - Len(queue)]
    <3>1. TAKE i \in DOMAIN queue'
    <3>2. Len(queue') = Len(queue) + Len(taken) /\ queue' \in Seq(Index)
      BY <2>2, <2>3, <2>4, ConcatProperties
    <3>3. i \in 1 .. Len(queue) + Len(taken)
      BY <3>2
    <3>4. queue'[i] = IF i <= Len(queue) THEN queue[i] ELSE taken[i - Len(queue)]
      BY <2>2, <2>3, <2>4, <3>3, ConcatProperties
    <3>. QED BY <2>2, <2>3, <3>3, <3>4
  <2>6. \A i, j \in DOMAIN queue' : i < j => Before(queue'[i], queue'[j])
    <3>1. SUFFICES ASSUME NEW i \in DOMAIN queue', NEW j \in DOMAIN queue', i < j
                   PROVE  Before(queue'[i], queue'[j])
      BY DEF Before
    <3>2. i \in Nat /\ j \in Nat
      BY <2>2, <2>3, <2>4, ConcatProperties
    <3>3. CASE j \in DOMAIN queue /\ queue'[j] = queue[j]
      <4>1. i \in DOMAIN queue /\ queue'[i] = queue[i]
        BY <2>2, <2>5, <3>1, <3>2, <3>3
      <4>. QED BY <3>1, <3>3, <4>1 DEF StreamInv
    <3>4. CASE j - Len(queue) \in DOMAIN taken /\ queue'[j] = taken[j - Len(queue)]
      BY <2>2, <2>3, <2>5, <3>1, <3>2, <3>4 DEF StreamInv
    <3>. QED BY <2>5, <3>3, <3>4
  <2>7. \A i \in DOMAIN queue' : Before(queue'[i], nextTag')
    BY <1>1, <2>3, <2>5 DEF StreamInv
  <2>. QED BY <1>1, <2>6, <2>7 DEF StreamInv, Before
<1>. QED BY <1>2, <1>3

\* pop takes from the front, and ageing keeps the order.
LEMMA TickOrder ==
  ASSUME TypeOK, StreamInv, Tick
  PROVE  StreamInv'
<1>1. PICK m \in 1 .. Len(queue) + 2 :
         /\ queue' = SubSeq(PastAll(queue), m, Len(queue))
         /\ staged' = [index |-> 0, depth |-> Len(queue'), valid |-> TRUE]
  BY TickLeft
<1>2. queue \in Seq(Index) /\ frame \in Seq(Index) /\ nextTag \in Index
  BY DEF TypeOK
<1>3. frame' = PastAll(frame) /\ nextTag' = Past(nextTag)
  BY DEF Tick
<1>4. \A i \in DOMAIN queue' : i + m - 1 \in DOMAIN queue /\ queue'[i] = Past(queue[i + m - 1])
  <2>. DEFINE aged == PastAll(queue)
  <2>1. aged \in Seq(Index) /\ Len(aged) = Len(queue) /\ DOMAIN aged = DOMAIN queue
        /\ \A i \in DOMAIN queue : aged[i] = Past(queue[i])
    BY <1>2, PastAllProperties
  <2>. HIDE DEF aged
  <2>2. \A i \in DOMAIN SubSeq(aged, m, Len(aged)) :
          i + m - 1 \in DOMAIN aged /\ SubSeq(aged, m, Len(aged))[i] = aged[i + m - 1]
    BY <2>1, PartProperties
  <2>. QED BY <1>1, <2>1, <2>2 DEF aged
<1>5. DOMAIN frame' = DOMAIN frame /\ \A i \in DOMAIN frame : frame'[i] = Past(frame[i])
  BY <1>2, <1>3, PastAllProperties
<1>6. \A a, b \in Index : Before(a, b) => Before(Past(a), Past(b))
  BY PastProperties
<1>7. \A i \in DOMAIN queue : queue[i] \in Index
  BY <1>2
<1>8. \A i \in DOMAIN frame : frame[i] \in Index
  BY <1>2
<1>9. queue' \in Seq(Index)
  BY TickType DEF TypeOK
<1>10. \A i, j \in DOMAIN queue' : i < j => Before(queue'[i], queue'[j])
  <2>1. SUFFICES ASSUME NEW i \in DOMAIN queue', NEW j \in DOMAIN queue', i < j
                 PROVE  Before(queue'[i], queue'[j])
    BY DEF Before
  <2>2. i + m - 1 < j + m - 1
    BY <1>9, <2>1
  <2>3. Before(queue[i + m - 1], queue[j + m - 1])
    BY <1>4, <2>2 DEF StreamInv
  <2>. QED BY <1>4, <1>6, <1>7, <2>3
<1>11. \A i, j \in DOMAIN frame' : i < j => Before(frame'[i], frame'[j])
  BY <1>5, <1>6, <1>8 DEF StreamInv
<1>12. \A i \in DOMAIN queue', j \in DOMAIN frame' : Before(queue'[i], frame'[j])
  BY <1>4, <1>5, <1>6, <1>7, <1>8 DEF StreamInv
<1>13. \A i \in DOMAIN queue' : Before(queue'[i], nextTag')
  BY <1>2, <1>3, <1>4, <1>6, <1>7 DEF StreamInv
<1>14. \A j \in DOMAIN frame' : Before(frame'[j], nextTag')
  BY <1>2, <1>3, <1>5, <1>6, <1>8 DEF StreamInv
<1>. QED BY <1>10, <1>11, <1>12, <1>13, <1>14 DEF StreamInv, Before

\* A new engine counts anew: all tags move by the same number.
LEMMA RestartOrder ==
  ASSUME TypeOK, StreamInv, Restart
  PROVE  StreamInv'
<1>1. PICK cycles \in 1 .. MaxRun :
         /\ \A i \in DOMAIN queue : queue[i] > -Horizon /\ Later(queue[i], cycles) \in 0 .. MaxAhead
         /\ \A i \in DOMAIN frame : frame[i] > -Horizon /\ Later(frame[i], cycles) \in 0 .. MaxAhead
         /\ queue' = [k \in DOMAIN queue |-> Later(queue[k], cycles)]
         /\ frame' = [k \in DOMAIN frame |-> Later(frame[k], cycles)]
         /\ nextTag' = Later(nextTag, cycles)
  BY RestartKept
<1>2. DOMAIN queue' = DOMAIN queue /\ \A i \in DOMAIN queue : queue'[i] = queue[i] + cycles
  BY <1>1 DEF Later
<1>3. DOMAIN frame' = DOMAIN frame /\ \A i \in DOMAIN frame : frame'[i] = frame[i] + cycles
  BY <1>1 DEF Later
<1>4. nextTag' = nextTag + cycles /\ nextTag \in Int /\ cycles \in Int /\ -Horizon \in Int
  BY <1>1, StreamAssumption DEF Later, TypeOK, Index
<1>5. \A i \in DOMAIN queue : queue[i] \in Int /\ queue[i] > -Horizon
  BY <1>1, StreamAssumption DEF TypeOK, Index
<1>6. \A i \in DOMAIN frame : frame[i] \in Int /\ frame[i] > -Horizon
  BY <1>1, StreamAssumption DEF TypeOK, Index
<1>7. \A a, b \in Int : a > -Horizon /\ Before(a, b) => Before(a + cycles, b + cycles)
  BY <1>4 DEF Before
<1>. QED
  <2>1. \A i, j \in DOMAIN queue' : i < j => Before(queue'[i], queue'[j])
    BY <1>2, <1>5, <1>7 DEF StreamInv
  <2>2. \A i, j \in DOMAIN frame' : i < j => Before(frame'[i], frame'[j])
    BY <1>3, <1>6, <1>7 DEF StreamInv
  <2>3. \A i \in DOMAIN queue', j \in DOMAIN frame' : Before(queue'[i], frame'[j])
    BY <1>2, <1>3, <1>5, <1>6, <1>7 DEF StreamInv
  <2>4. \A i \in DOMAIN queue' : Before(queue'[i], nextTag')
    BY <1>2, <1>4, <1>5, <1>7 DEF StreamInv
  <2>5. \A j \in DOMAIN frame' : Before(frame'[j], nextTag')
    BY <1>3, <1>4, <1>6, <1>7 DEF StreamInv
  <2>. QED BY <2>1, <2>2, <2>3, <2>4, <2>5 DEF StreamInv, Before

\* Every step keeps the order.
LEMMA StepOrder ==
  ASSUME TypeOK, StreamInv, [Next]_vars
  PROVE  StreamInv'
<1>1. CASE Build
  BY <1>1, BuildOrder
<1>2. ASSUME NEW mosiOk \in BOOLEAN, NEW misoOk \in BOOLEAN, Deliver(mosiOk, misoOk)
      PROVE  StreamInv'
  BY <1>2, DeliverOrder
<1>3. CASE Tick
  BY <1>3, TickOrder
<1>4. CASE Restart
  BY <1>4, RestartOrder
<1>5. CASE UNCHANGED vars
  BY <1>5 DEF StreamInv, Before, vars, board, spi, host
<1>. QED BY <1>1, <1>2, <1>3, <1>4, <1>5 DEF Next

\* A tag that has not passed is in front of all behind it and of those still to
\* be sent, whatever frames are lost and however often the engine is restarted:
\* pop, which looks at the head only, misses no sample that is there.
THEOREM TagsAscending == Spec => []TagsAscend
<1>1. Init => TypeOK /\ StreamInv
  BY InitType, InitOrder
<1>2. TypeOK /\ StreamInv /\ [Next]_vars => (TypeOK /\ StreamInv)'
  BY StepType, StepOrder
<1>3. TypeOK /\ StreamInv => TagsAscend
  <2>1. SUFFICES ASSUME TypeOK, StreamInv,
                        NEW i \in DOMAIN queue, NEW j \in DOMAIN queue, i < j, ~Passed(queue[i])
                 PROVE  queue[i] < queue[j] /\ queue[j] < nextTag
    BY DEF TagsAscend
  <2>2. queue[i] \in Index /\ queue[j] \in Index /\ nextTag \in Index
    BY <2>1 DEF TypeOK
  <2>3. Before(queue[i], queue[j]) /\ Before(queue[j], nextTag)
    BY <2>1 DEF StreamInv
  <2>. QED BY <2>1, <2>2, <2>3, StreamAssumption DEF Before, Passed, Index
<1>. QED BY <1>1, <1>2, <1>3, PTL DEF Spec

-----------------------------------------------------------------------------
(* A regular host heals the stream.                                        *)
(*                                                                         *)
(* Ticked is what smooth cycles have led to after a tick, Fed the same     *)
(* once the frame of the next cycle has come.  After two smooth cycles the *)
(* host knows an index and a depth of its present; if the ring is drained  *)
(* it then sends at least two samples per cycle, so that the tags catch up *)
(* with the board: after five cycles at the latest the ring keeps a sample *)
(* for a later cycle, and from then on always does.  If all samples have   *)
(* found room, those behind the last gap grow in number with every cycle,  *)
(* until the gap is at the head of the ring or the ring full of them.      *)

\* A frame is a run of tags up to nextTag, but for those left at the horizon.
FrameRun ==
  /\ \A i \in DOMAIN frame : frame[i] = Greater(nextTag - Len(frame) + i - 1, -Horizon)
  /\ frame # << >> => primed

\* The first tag that has not reached the board.
Sent == nextTag - Len(frame)

\* The tag the next frame to be delivered begins with.
Front == IF frame = << >> THEN Resynced ELSE Sent

\* The last k samples of the ring are a run up to the next frame.
Unbroken(k) ==
  /\ k <= Len(queue)
  /\ \A i \in DOMAIN queue : i > Len(queue) - k => queue[i] = Sent - 1 - Len(queue) + i

\* The ring has a sample for every cycle from the next one on.
Steady ==
  /\ Sent = Len(queue) + 1
  /\ \A i \in DOMAIN queue : queue[i] = i

\* The ring holds a sample for a later cycle than the next.
Lasting == \E i \in DOMAIN queue : queue[i] >= 2

PaceOK ==
  /\ got \in 0 .. 2 /\ clipped \in BOOLEAN
  /\ smooth \in 0 .. Settle /\ whole \in 0 .. Settle /\ whole <= smooth

Ticked ==
  /\ ~clipped
  /\ staged.valid /\ staged.index = 0 /\ staged.depth = Len(queue)
  /\ \A i \in DOMAIN queue : queue[i] >= 1
  /\ smooth >= 1 => /\ shift.valid /\ shift.index = -1 /\ primed
                    /\ queue = << >> => shift.depth = 0
  /\ smooth >= 2 => /\ lastIndex = -2
                    /\ queue = << >> => /\ lastDepth = 0
                                        /\ Front >= smooth - 3
                                        /\ frame # << >> => Len(frame) >= 2
  /\ smooth >= 5 => queue # << >>
  /\ whole >= 4 => \/ Steady /\ onTime
                   \/ Unbroken(whole - 4)

Fed ==
  /\ shift.valid /\ shift.index = 0 /\ primed
  /\ ~Lasting => shift.depth = 0
  /\ smooth >= 1 => /\ lastIndex = -1
                    /\ ~Lasting => /\ lastDepth = 0
                                   /\ Front >= smooth - 1
                                   /\ frame # << >> => Len(frame) >= 2
  /\ smooth >= 4 => /\ Lasting
                    /\ \A i \in DOMAIN queue : queue[i] >= 1
  /\ whole >= 4 /\ ~clipped => Steady \/ Unbroken(whole - 3)

HealInv ==
  /\ PaceOK
  /\ got = 0 => Ticked
  /\ got = 1 => Fed
  /\ HealsWithRoom /\ FedIsNotStopped

\* pop leaves the samples for later cycles, and those only; if none is for a
\* passed cycle it looks at the first one.
LEMMA TickPops ==
  ASSUME TypeOK, StreamInv, Tick
  PROVE  \E m \in 1 .. Len(queue) + 1 :
           /\ Len(queue') = Len(queue) + 1 - m
           /\ \A i \in 1 .. Len(queue') : queue'[i] = Past(queue[i + m - 1]) /\ queue'[i] >= 1
           /\ \A i \in DOMAIN queue : queue[i] >= 2 => m <= i
           /\ (\A i \in DOMAIN queue : queue[i] >= 1) =>
                IF queue # << >> /\ queue[1] = 1 THEN m = 2 /\ onTime' ELSE m = 1
           /\ underrun' => queue' = << >>
<1>. DEFINE aged  == PastAll(queue)
            stale == {k \in DOMAIN aged : \A i \in 1 .. k : Passed(aged[i])}
            skip  == IF stale = {} THEN 0 ELSE CHOOSE k \in stale : k + 1 \notin stale
            found == skip < Len(aged) /\ aged[skip + 1] = 0
            m     == skip + (IF found THEN 2 ELSE 1)
<1>1. /\ aged \in Seq(Index) /\ Len(aged) = Len(queue) /\ Len(queue) \in Nat
      /\ \A i \in 1 .. Len(queue) : aged[i] = Past(queue[i])
  BY PastAllProperties DEF TypeOK
<1>2. /\ skip \in 0 .. Len(aged)
      /\ \A i \in 1 .. skip : Passed(aged[i])
      /\ skip < Len(aged) => ~Passed(aged[skip + 1])
  <2>. HIDE DEF aged
  <2>. QED BY <1>1, SkipProperties
<1>3. queue' = SubSeq(aged, m, Len(aged)) /\ onTime' = found /\ underrun' = (~found /\ Drained(queue', found))
  BY DEF Tick
<1>. HIDE DEF aged, skip
<1>4. \A i \in 1 .. Len(queue) : /\ queue[i] \in Int /\ aged[i] \in Int
                                 /\ aged[i] = IF queue[i] - 1 >= -Horizon THEN queue[i] - 1 ELSE -Horizon
  <2>1. TAKE i \in 1 .. Len(queue)
  <2>2. queue[i] \in Int /\ aged[i] = Past(queue[i]) /\ Horizon \in Nat
    BY <1>1, StreamAssumption DEF TypeOK, Index
  <2>. QED BY <2>2 DEF Past, Greater
<1>5. /\ skip \in 0 .. Len(queue)
      /\ \A i \in 1 .. skip : aged[i] < 0
      /\ skip < Len(queue) => ~(aged[skip + 1] < 0)
  BY <1>1, <1>2 DEF Passed
<1>6. /\ found => skip < Len(queue) /\ aged[skip + 1] = 0
      /\ ~found => skip = Len(queue) \/ (skip < Len(queue) /\ aged[skip + 1] > 0)
  <2>1. skip < Len(queue) => skip + 1 \in 1 .. Len(queue)
    BY <1>1, <1>5
  <2>. QED BY <1>1, <1>4, <1>5, <2>1
<1>7. m = IF found THEN skip + 2 ELSE skip + 1
  BY <1>1, <1>5
<1>. HIDE DEF found, m
<1>8. m \in 1 .. Len(queue) + 1
  BY <1>1, <1>5, <1>6, <1>7
<1>9. /\ Len(queue') = Len(queue) + 1 - m
      /\ \A i \in 1 .. Len(queue') : queue'[i] = aged[i + m - 1] /\ i + m - 1 \in 1 .. Len(queue)
  <2>1. /\ Len(queue') = IF m <= Len(aged) THEN Len(aged) - m + 1 ELSE 0
        /\ \A i \in DOMAIN queue' : i + m - 1 \in DOMAIN aged /\ queue'[i] = aged[i + m - 1]
        /\ queue' \in Seq(Index)
    BY <1>1, <1>3, <1>8, PartProperties
  <2>. QED BY <1>1, <1>8, <2>1
<1>10. Horizon \in Nat /\ Horizon > 2
  BY StreamAssumption, HealAssumption
<1>11. \A i, j \in 1 .. Len(queue) : i < j => queue[i] < queue[j] \/ queue[i] = -Horizon
  BY DEF StreamInv, Before, TypeOK
<1>12. \A j \in 1 .. Len(queue) : j >= m => aged[j] >= 1
  <2>1. TAKE j \in 1 .. Len(queue)
  <2>2. SUFFICES ASSUME j >= m PROVE aged[j] >= 1
    OBVIOUS
  <2>3. skip + 1 \in 1 .. Len(queue) /\ j >= skip + 1
    BY <1>1, <1>5, <1>7, <2>2
  <2>4. CASE j = skip + 1
    BY <1>1, <1>4, <1>5, <1>6, <1>7, <2>2, <2>3, <2>4
  <2>5. CASE j > skip + 1
    <3>1. queue[skip + 1] < queue[j] \/ queue[skip + 1] = -Horizon
      BY <1>11, <2>3, <2>5
    <3>2. aged[skip + 1] >= 0
      BY <1>1, <1>4, <1>5, <2>3
    <3>. QED BY <1>4, <1>10, <2>3, <3>1, <3>2
  <2>. QED BY <1>1, <1>5, <2>3, <2>4, <2>5
<1>13. \A i \in 1 .. Len(queue) : queue[i] >= 2 => m <= i
  <2>1. TAKE i \in 1 .. Len(queue)
  <2>2. SUFFICES ASSUME queue[i] >= 2 PROVE m <= i
    OBVIOUS
  <2>3. aged[i] >= 1 /\ aged[i] \in Int
    BY <1>4, <1>10, <2>2
  <2>4. ~(i <= skip)
    BY <1>1, <1>5, <2>3
  <2>. QED BY <1>1, <1>5, <1>6, <1>7, <2>3, <2>4
<1>14. ASSUME \A i \in DOMAIN queue : queue[i] >= 1
       PROVE  IF queue # << >> /\ queue[1] = 1 THEN m = 2 /\ onTime' ELSE m = 1
  <2>1. \A i \in 1 .. Len(queue) : aged[i] = queue[i] - 1 /\ aged[i] >= 0 /\ aged[i] \in Int
    BY <1>4, <1>10, <1>14
  <2>2. skip = 0
    <3>1. SUFFICES ASSUME skip # 0 PROVE FALSE
      OBVIOUS
    <3>2. 1 \in 1 .. skip /\ 1 \in 1 .. Len(queue)
      BY <1>1, <1>5, <3>1
    <3>. QED BY <1>5, <2>1, <3>2
  <2>3. found <=> Len(queue) > 0 /\ aged[1] = 0
    BY <1>1, <2>2 DEF found
  <2>4. Len(queue) > 0 <=> queue # << >>
    BY DEF TypeOK
  <2>5. Len(queue) > 0 => queue[1] \in Int /\ aged[1] = queue[1] - 1
    BY <1>1, <1>4, <2>1
  <2>6. found <=> queue # << >> /\ queue[1] = 1
    BY <2>3, <2>4, <2>5
  <2>. QED BY <1>3, <1>7, <2>2, <2>6
<1>15. underrun' => queue' = << >>
  BY <1>3 DEF Drained
<1>16. \A i \in 1 .. Len(queue') : queue'[i] = Past(queue[i + m - 1]) /\ queue'[i] >= 1
  <2>1. TAKE i \in 1 .. Len(queue')
  <2>2. i + m - 1 \in 1 .. Len(queue) /\ i + m - 1 >= m
    BY <1>8, <1>9
  <2>. QED BY <1>1, <1>9, <1>12, <2>2
<1>. WITNESS m \in 1 .. Len(queue) + 1
<1>. QED BY <1>9, <1>13, <1>14, <1>15, <1>16

\* A good frame: as many of its samples as there is room for come last in the ring.
LEMMA DeliverPushes ==
  ASSUME TypeOK, Deliver(TRUE, TRUE)
  PROVE  \E room \in 0 .. Len(frame) :
           /\ room = Lesser(Depth - Len(queue), Len(frame))
           /\ Len(queue') = Len(queue) + room
           /\ \A i \in 1 .. Len(queue) : queue'[i] = queue[i]
           /\ \A i \in 1 .. room : queue'[Len(queue) + i] = frame[i]
           /\ room < Len(frame) => clipped'
<1>. DEFINE room  == Lesser(Depth - Len(queue), Len(frame))
            taken == SubSeq(frame, 1, room)
<1>1. room \in 0 .. Len(frame)
  BY RoomProperties
<1>2. frame \in Seq(Index) /\ queue \in Seq(Index)
  BY DEF TypeOK
<1>3. queue' = queue \o taken /\ (room < Len(frame) => clipped')
  BY DEF Deliver, Ingest
<1>4. taken \in Seq(Index) /\ Len(taken) = room /\ \A i \in 1 .. room : taken[i] = frame[i]
  <2>. HIDE DEF room
  <2>. QED BY <1>1, <1>2, PartProperties
<1>. HIDE DEF taken, room
<1>5. /\ Len(queue') = Len(queue) + room
      /\ \A i \in 1 .. Len(queue) + room :
           queue'[i] = IF i <= Len(queue) THEN queue[i] ELSE taken[i - Len(queue)]
  <2>1. Len(queue') = Len(queue) + Len(taken)
    BY <1>2, <1>3, <1>4, ConcatProperties
  <2>2. \A i \in 1 .. Len(queue) + Len(taken) :
          queue'[i] = IF i <= Len(queue) THEN queue[i] ELSE taken[i - Len(queue)]
    BY <1>2, <1>3, <1>4, ConcatProperties
  <2>. QED BY <1>4, <2>1, <2>2
<1>6. \A i \in 1 .. Len(queue) : queue'[i] = queue[i]
  BY <1>1, <1>2, <1>5
<1>7. \A i \in 1 .. room : queue'[Len(queue) + i] = frame[i]
  <2>1. TAKE i \in 1 .. room
  <2>2. Len(queue) + i \in 1 .. Len(queue) + room /\ ~(Len(queue) + i <= Len(queue)) /\ (Len(queue) + i) - Len(queue) = i
    BY <1>1, <1>2
  <2>. QED BY <1>4, <1>5, <2>2
<1>. QED BY <1>1, <1>3, <1>5, <1>6, <1>7 DEF room

\* The bounds, and the types of what the argument counts with.
LEMMA HealTypes ==
  ASSUME TypeOK
  PROVE  /\ Horizon \in Nat /\ Horizon > 2 /\ Depth \in Nat /\ Depth >= 2
         /\ Batch \in Nat /\ Batch >= 2 /\ Lead \in Nat /\ Lead >= 1
         /\ Settle \in Nat /\ Settle >= Depth + 5
         /\ nextTag \in Int /\ nextTag >= -Horizon /\ lastIndex \in Int /\ lastDepth \in Int
         /\ Len(queue) \in 0 .. Depth /\ Len(frame) \in Nat
         /\ (queue = << >> <=> Len(queue) = 0) /\ (frame = << >> <=> Len(frame) = 0)
         /\ \A i \in 1 .. Len(queue) : queue[i] \in Int
         /\ \A i \in 1 .. Len(frame) : frame[i] \in Int
         /\ staged.depth \in Int /\ shift.index \in Int /\ shift.depth \in Int
<1>1. nextTag \in Index /\ lastIndex \in Index /\ lastDepth \in 0 .. Depth
  BY DEF TypeOK
<1>2. queue \in Seq(Index) /\ frame \in Seq(Index) /\ Len(queue) <= Depth
  BY DEF TypeOK
<1>3. /\ staged \in [index : Index, depth : 0 .. Depth, valid : BOOLEAN]
      /\ shift \in [index : Index, depth : 0 .. Depth, valid : BOOLEAN]
  BY DEF TypeOK
<1>. QED BY <1>1, <1>2, <1>3, StreamAssumption, HealAssumption DEF Index

\* The samples in the ring that are not due are in front of later ones, of those
\* of the frame and of nextTag.
LEMMA QueueAscends ==
  ASSUME TypeOK, StreamInv
  PROVE  /\ \A i, j \in 1 .. Len(queue) : i < j /\ queue[i] >= 0 => queue[i] < queue[j]
         /\ \A i \in 1 .. Len(queue), j \in 1 .. Len(frame) : queue[i] >= 0 => queue[i] < frame[j]
         /\ \A i \in 1 .. Len(queue) : queue[i] >= 0 => queue[i] < nextTag
<1>1. queue \in Seq(Index) /\ frame \in Seq(Index) /\ Horizon \in Nat /\ Horizon > 2
  BY HealTypes DEF TypeOK
<1>2. DOMAIN queue = 1 .. Len(queue) /\ DOMAIN frame = 1 .. Len(frame)
  BY <1>1
<1>3. \A i \in 1 .. Len(queue) : queue[i] \in Int
  BY HealTypes
<1>4. \A i \in 1 .. Len(queue) : queue[i] >= 0 => \A b : Before(queue[i], b) => queue[i] < b
  BY <1>1, <1>3 DEF Before
<1>5. \A i, j \in 1 .. Len(queue) : i < j => Before(queue[i], queue[j])
  BY <1>2 DEF StreamInv
<1>6. \A i \in 1 .. Len(queue), j \in 1 .. Len(frame) : Before(queue[i], frame[j])
  BY <1>2 DEF StreamInv
<1>7. \A i \in 1 .. Len(queue) : Before(queue[i], nextTag)
  BY <1>2 DEF StreamInv
<1>. QED BY <1>4, <1>5, <1>6, <1>7

-----------------------------------------------------------------------------
(* The frame under way is a run of tags *)

\* No frame is under way at power-up.
LEMMA InitRun ==
  ASSUME Init
  PROVE  FrameRun
  BY DEF Init, FrameRun

\* build_motion: the samples of a frame are tagged one after the other.
LEMMA BuildRun ==
  ASSUME TypeOK, Build
  PROVE  /\ FrameRun'
         /\ Len(frame') = Want /\ Want \in Nat /\ Want >= 1 /\ frame' # << >>
         /\ nextTag' = Resynced + Want /\ Resynced \in Int
         /\ (primed /\ lastDepth = 0 => Want >= 2)
<1>1. Want \in Nat /\ Want >= 1 /\ Resynced \in Int /\ Resynced > -Horizon
  BY WantProperties, ResyncedProperties, StreamAssumption
<1>2. frame' = [k \in 1 .. Want |-> Resynced + k - 1] /\ nextTag' = Resynced + Want /\ primed' = TRUE
  BY DEF Build
<1>3. Len(frame') = Want /\ DOMAIN frame' = 1 .. Want /\ frame' # << >>
  BY <1>1, <1>2
<1>4. \A i \in 1 .. Want : frame'[i] = Greater(nextTag' - Want + i - 1, -Horizon)
  BY <1>1, <1>2, StreamAssumption DEF Greater
<1>5. primed /\ lastDepth = 0 => Want >= 2
  BY HealTypes DEF Want, Lesser
<1>. QED BY <1>1, <1>2, <1>3, <1>4, <1>5 DEF FrameRun

\* No frame is under way once it is delivered.
LEMMA DeliverRun ==
  ASSUME FrameRun, NEW mosiOk \in BOOLEAN, NEW misoOk \in BOOLEAN, Deliver(mosiOk, misoOk)
  PROVE  FrameRun'
  BY DEF Deliver, FrameRun

\* The tags of a frame grow older together.
LEMMA TickRun ==
  ASSUME TypeOK, FrameRun, Tick
  PROVE  FrameRun' /\ Len(frame') = Len(frame) /\ (frame' = << >> <=> frame = << >>)
<1>1. frame' = PastAll(frame) /\ nextTag' = Past(nextTag) /\ primed' = primed
  BY DEF Tick
<1>2. /\ Len(frame') = Len(frame) /\ DOMAIN frame' = DOMAIN frame /\ DOMAIN frame = 1 .. Len(frame)
      /\ \A i \in 1 .. Len(frame) : frame'[i] = Past(frame[i])
      /\ frame' \in Seq(Index) /\ frame \in Seq(Index)
  BY <1>1, PastAllProperties DEF TypeOK
<1>3. frame' = << >> <=> frame = << >>
  BY <1>2
<1>4. nextTag \in Int /\ nextTag >= -Horizon /\ Horizon \in Nat /\ Len(frame) \in Nat
  BY HealTypes
<1>5. \A i \in 1 .. Len(frame) : frame'[i] = Greater(nextTag' - Len(frame) + i - 1, -Horizon)
  <2>1. TAKE i \in 1 .. Len(frame)
  <2>2. frame[i] = Greater(nextTag - Len(frame) + i - 1, -Horizon)
    BY <1>2 DEF FrameRun
  <2>3. i \in Int /\ i <= Len(frame) /\ frame'[i] = Past(frame[i])
    BY <1>2
  <2>. QED BY <1>1, <1>4, <2>2, <2>3 DEF Past, Greater
<1>. QED BY <1>1, <1>2, <1>3, <1>5 DEF FrameRun

\* A new engine leaves the run as it is.
LEMMA RestartRun ==
  ASSUME TypeOK, FrameRun, Restart
  PROVE  FrameRun'
<1>1. PICK cycles \in 1 .. MaxRun :
         /\ \A i \in DOMAIN frame : frame[i] > -Horizon /\ Later(frame[i], cycles) \in 0 .. MaxAhead
         /\ frame' = [k \in DOMAIN frame |-> Later(frame[k], cycles)]
         /\ nextTag' = Later(nextTag, cycles)
  BY RestartKept
<1>2. Len(frame') = Len(frame) /\ DOMAIN frame' = DOMAIN frame /\ frame' \in Seq(Index) /\ frame \in Seq(Index)
      /\ \A i \in DOMAIN frame : frame'[i] = frame[i] + cycles
  BY <1>1, LaterProperties DEF TypeOK
<1>3. primed' = primed /\ (frame' = << >> <=> frame = << >>)
  BY <1>2 DEF Restart
<1>4. nextTag \in Int /\ Horizon \in Nat /\ Len(frame) \in Nat /\ cycles \in Nat
  BY <1>1, HealTypes, StreamAssumption
<1>5. \A i \in 1 .. Len(frame) : frame'[i] = Greater(nextTag' - Len(frame) + i - 1, -Horizon)
  <2>1. TAKE i \in 1 .. Len(frame)
  <2>2. i \in DOMAIN frame /\ i \in Int
    BY <1>2
  <2>3. frame[i] = Greater(nextTag - Len(frame) + i - 1, -Horizon) /\ frame[i] > -Horizon
    BY <1>1, <2>2 DEF FrameRun
  <2>. QED BY <1>1, <1>2, <1>4, <2>2, <2>3 DEF Greater, Later
<1>. QED BY <1>2, <1>3, <1>5 DEF FrameRun

\* Every step keeps the run.
LEMMA StepRun ==
  ASSUME TypeOK, FrameRun, [Next]_vars
  PROVE  FrameRun'
<1>1. CASE Build
  BY <1>1, BuildRun
<1>2. ASSUME NEW mosiOk \in BOOLEAN, NEW misoOk \in BOOLEAN, Deliver(mosiOk, misoOk)
      PROVE  FrameRun'
  BY <1>2, DeliverRun
<1>3. CASE Tick
  BY <1>3, TickRun
<1>4. CASE Restart
  BY <1>4, RestartRun
<1>5. CASE UNCHANGED vars
  BY <1>5 DEF FrameRun, vars, board, spi, host, pace
<1>. QED BY <1>1, <1>2, <1>3, <1>4, <1>5 DEF Next

-----------------------------------------------------------------------------
(* What smooth cycles lead to *)

\* The ring is empty at power-up and no cycle has been smooth.
LEMMA InitHeal ==
  ASSUME Init
  PROVE  HealInv
<1>1. Settle \in Nat /\ Settle > 0
  BY StreamAssumption, HealAssumption
<1>2. PaceOK /\ HealsWithRoom /\ FedIsNotStopped
  <2>1. got = 0 /\ smooth = 0 /\ whole = 0 /\ clipped = FALSE
    BY DEF Init
  <2>2. PaceOK
    <3>1. clipped \in BOOLEAN
      BY <2>1
    <3>2. got \in 0 .. 2 /\ smooth \in 0 .. Settle /\ whole \in 0 .. Settle /\ whole <= smooth
      BY <1>1, <2>1
    <3>. QED BY <3>1, <3>2 DEF PaceOK
  <2>3. HealsWithRoom /\ FedIsNotStopped
    BY <1>1, <2>1 DEF HealsWithRoom, FedIsNotStopped
  <2>. QED BY <2>2, <2>3
<1>3. Ticked
  BY DEF Init, Ticked, Blank
<1>. QED BY <1>2, <1>3 DEF HealInv, Init

\* build_motion: the next frame begins where the last one ended, or at the board's
\* present; a host that knows of a drained ring sends two samples or more.
LEMMA BuildHeal ==
  ASSUME TypeOK, StreamInv, HealInv, Build
  PROVE  HealInv'
<1>1. /\ UNCHANGED <<queue, onTime, underrun, staged, shift, lastIndex, lastDepth, got, clipped, smooth, whole>>
      /\ frame = << >> /\ primed' = TRUE
  BY DEF Build, board
<1>2. /\ Len(frame') = Want /\ Want \in Nat /\ Want >= 1 /\ frame' # << >>
      /\ nextTag' = Resynced + Want /\ Resynced \in Int
      /\ (primed /\ lastDepth = 0 => Want >= 2)
  BY BuildRun
<1>3. Sent' = Resynced /\ Front' = Resynced /\ Front = Resynced
  BY <1>1, <1>2 DEF Sent, Front
<1>4. Sent = nextTag
  BY <1>1, HealTypes DEF Sent
<1>5. PaceOK' /\ HealsWithRoom' /\ FedIsNotStopped'
  BY <1>1 DEF HealInv, PaceOK, HealsWithRoom, FedIsNotStopped
<1>6. PaceOK
  BY DEF HealInv
<1>7. ASSUME Sent' = Sent
      PROVE  /\ Steady => Steady'
             /\ Unbroken(whole - 4) => Unbroken(whole - 4)'
             /\ Unbroken(whole - 3) => Unbroken(whole - 3)'
  BY <1>1, <1>7 DEF Steady, Unbroken
<1>8. ASSUME nextTag >= lastIndex + 1 PROVE Sent' = Sent
  BY <1>3, <1>4, <1>8, HealTypes DEF Resynced, Greater
<1>9. \A i \in 1 .. Len(queue) : queue[i] >= 0 => queue[i] < nextTag
  BY QueueAscends
<1>10. ASSUME got = 0, Ticked PROVE Ticked'
  <2>1. smooth >= 2 => lastIndex' = -2 /\ (queue' = << >> =>
          lastDepth' = 0 /\ Front' >= smooth' - 3 /\ (frame' # << >> => Len(frame') >= 2))
    <3>1. smooth >= 2 => smooth >= 1
      BY <1>6 DEF PaceOK
    <3>. QED BY <1>1, <1>2, <1>3, <1>10, <3>1 DEF Ticked
  <2>2. ASSUME whole >= 4 PROVE nextTag >= lastIndex + 1
    <3>1. smooth >= 4 /\ smooth \in Nat
      BY <1>6, <2>2, HealTypes DEF PaceOK
    <3>2. lastIndex = -2 /\ (queue = << >> => Front >= 1)
      BY <1>10, <3>1 DEF Ticked
    <3>3. CASE queue = << >>
      BY <1>3, <3>2, <3>3, HealTypes DEF Resynced, Greater
    <3>4. CASE queue # << >>
      <4>1. 1 \in 1 .. Len(queue) /\ 1 \in DOMAIN queue
        BY <3>4, HealTypes DEF TypeOK
      <4>2. queue[1] >= 1 /\ queue[1] \in Int /\ nextTag \in Int
        BY <1>10, <4>1, HealTypes DEF Ticked
      <4>3. queue[1] < nextTag
        BY <1>9, <4>1, <4>2
      <4>. QED BY <3>2, <4>2, <4>3
    <3>. QED BY <3>3, <3>4
  <2>4. whole' >= 4 => (Steady' /\ onTime') \/ Unbroken(whole - 4)'
    BY <1>1, <1>7, <1>8, <1>10, <2>2 DEF Ticked
  <2>5. /\ ~clipped'
        /\ staged'.valid /\ staged'.index = 0 /\ staged'.depth = Len(queue')
        /\ \A i \in DOMAIN queue' : queue'[i] >= 1
        /\ smooth' >= 1 => /\ shift'.valid /\ shift'.index = -1 /\ primed'
                           /\ queue' = << >> => shift'.depth = 0
        /\ smooth' >= 5 => queue' # << >>
    BY <1>1, <1>10 DEF Ticked
  <2>. QED BY <1>1, <2>1, <2>4, <2>5 DEF Ticked
<1>11. ASSUME got = 1, Fed PROVE Fed'
  <2>1. Lasting' = Lasting
    BY <1>1 DEF Lasting
  <2>2. ASSUME smooth >= 4, Lasting PROVE nextTag >= lastIndex + 1
    <3>1. lastIndex = -1
      <4>1. smooth >= 1
        BY <1>6, <2>2 DEF PaceOK
      <4>. QED BY <1>11, <4>1 DEF Fed
    <3>2. PICK i \in DOMAIN queue : queue[i] >= 2
      BY <2>2 DEF Lasting
    <3>3. i \in 1 .. Len(queue) /\ queue[i] \in Int /\ nextTag \in Int
      <4>1. queue \in Seq(Index)
        BY DEF TypeOK
      <4>2. i \in 1 .. Len(queue)
        BY <3>2, <4>1
      <4>. QED BY <4>2, HealTypes
    <3>4. queue[i] < nextTag
      BY <1>9, <3>2, <3>3
    <3>. QED BY <3>1, <3>2, <3>3, <3>4
  <2>3. ASSUME whole >= 4, ~clipped PROVE Steady' \/ Unbroken(whole - 3)'
    <3>1. smooth >= 4
      BY <1>6, <2>3 DEF PaceOK
    <3>2. Lasting /\ (Steady \/ Unbroken(whole - 3))
      BY <1>11, <2>3, <3>1 DEF Fed
    <3>. QED BY <1>7, <1>8, <2>2, <3>1, <3>2
  <2>4. /\ shift'.valid /\ shift'.index = 0 /\ primed'
        /\ ~Lasting' => shift'.depth = 0
        /\ smooth' >= 4 => /\ Lasting'
                           /\ \A i \in DOMAIN queue' : queue'[i] >= 1
    BY <1>1, <1>11, <2>1 DEF Fed
  <2>5. smooth' >= 1 => /\ lastIndex' = -1
                        /\ ~Lasting' => /\ lastDepth' = 0
                                        /\ Front' >= smooth' - 1
                                        /\ frame' # << >> => Len(frame') >= 2
    BY <1>1, <1>2, <1>3, <1>11, <2>1 DEF Fed
  <2>. QED BY <1>1, <2>3, <2>4, <2>5 DEF Fed
<1>. QED BY <1>1, <1>5, <1>10, <1>11 DEF HealInv

\* A frame that comes in full or in part leaves a sample for a later cycle behind
\* those the ring had.
LEMMA FedLasts ==
  ASSUME TypeOK, StreamInv, Ticked, Deliver(TRUE, TRUE), queue # << >>
  PROVE  Lasting' /\ \A i \in DOMAIN queue' : queue'[i] >= 1
<1>1. PICK room \in 0 .. Len(frame) :
        /\ room = Lesser(Depth - Len(queue), Len(frame))
        /\ Len(queue') = Len(queue) + room
        /\ \A i \in 1 .. Len(queue) : queue'[i] = queue[i]
        /\ \A i \in 1 .. room : queue'[Len(queue) + i] = frame[i]
        /\ room < Len(frame) => clipped'
  BY DeliverPushes
<1>2. /\ Len(queue) \in 1 .. Depth /\ Len(frame) \in Nat /\ Len(frame) >= 1
      /\ Depth \in Nat /\ Depth >= 2
  BY HealTypes DEF Deliver
<1>3. \A i \in 1 .. Len(queue) : queue[i] \in Int /\ queue[i] >= 1
  <2>1. DOMAIN queue = 1 .. Len(queue)
    BY DEF TypeOK
  <2>. QED BY <2>1, HealTypes DEF Ticked
<1>4. \A j \in 1 .. Len(frame) : frame[j] \in Int /\ frame[j] >= 2
  <2>1. TAKE j \in 1 .. Len(frame)
  <2>2. 1 \in 1 .. Len(queue)
    BY <1>2
  <2>3. queue[1] < frame[j]
    BY <1>3, <2>2, QueueAscends
  <2>4. frame[j] \in Int
    BY HealTypes
  <2>. QED BY <1>3, <2>2, <2>3, <2>4
<1>5. queue' \in Seq(Index) /\ DOMAIN queue' = 1 .. Len(queue')
  <2>1. TypeOK'
    BY DeliverType
  <2>. QED BY <2>1 DEF TypeOK
<1>6. \A i \in DOMAIN queue' : queue'[i] >= 1
  <2>1. TAKE i \in DOMAIN queue'
  <2>2. CASE i \in 1 .. Len(queue)
    BY <1>1, <1>3, <2>2
  <2>3. CASE i > Len(queue)
    <3>1. i - Len(queue) \in 1 .. room /\ Len(queue) + (i - Len(queue)) = i
      BY <1>1, <1>2, <1>5, <2>3
    <3>2. i - Len(queue) \in 1 .. Len(frame)
      BY <1>1, <1>2, <3>1
    <3>3. queue'[i] = frame[i - Len(queue)]
      BY <1>1, <3>1
    <3>. QED BY <1>4, <3>2, <3>3
  <2>. QED BY <1>2, <1>5, <2>2, <2>3
<1>7. CASE Len(queue) < Depth
  <2>1. room >= 1
    BY <1>1, <1>2, <1>7 DEF Lesser
  <2>2. 1 \in 1 .. room /\ 1 \in 1 .. Len(frame) /\ Len(queue) + 1 \in DOMAIN queue'
    BY <1>1, <1>2, <1>5, <2>1
  <2>3. queue'[Len(queue) + 1] >= 2
    BY <1>1, <1>4, <2>2
  <2>. QED BY <1>6, <2>2, <2>3 DEF Lasting
<1>8. CASE Len(queue) = Depth
  <2>1. 1 \in 1 .. Len(queue) /\ 2 \in 1 .. Len(queue) /\ 2 \in DOMAIN queue'
    BY <1>1, <1>2, <1>5, <1>8
  <2>2. queue[1] < queue[2]
    BY <1>3, <2>1, QueueAscends
  <2>3. queue'[2] >= 2
    BY <1>1, <1>3, <2>1, <2>2
  <2>. QED BY <1>6, <2>1, <2>3 DEF Lasting
<1>. QED BY <1>2, <1>7, <1>8

\* After four smooth cycles a drained ring is filled again: the frame reaches
\* beyond the next cycle.
LEMMA FedFills ==
  ASSUME TypeOK, FrameRun, Ticked, Deliver(TRUE, TRUE), queue = << >>,
         smooth \in Nat, smooth >= 4
  PROVE  Lasting' /\ \A i \in DOMAIN queue' : queue'[i] >= 1
<1>1. PICK room \in 0 .. Len(frame) :
        /\ room = Lesser(Depth - Len(queue), Len(frame))
        /\ Len(queue') = Len(queue) + room
        /\ \A i \in 1 .. room : queue'[Len(queue) + i] = frame[i]
  BY DeliverPushes
<1>2. Len(queue) = 0 /\ Len(frame) \in Nat /\ Depth \in Nat /\ Depth >= 2 /\ nextTag \in Int
  BY HealTypes
<1>3. frame # << >>
  BY DEF Deliver
<1>4. smooth >= 2 /\ smooth - 3 >= 1 /\ smooth - 3 \in Int
  OBVIOUS
<1>5. Front >= smooth - 3 /\ Len(frame) >= 2
  BY <1>3, <1>4 DEF Ticked
<1>6. nextTag - Len(frame) >= 1
  BY <1>2, <1>3, <1>4, <1>5 DEF Front, Sent
<1>7. \A i \in 1 .. Len(frame) : frame[i] >= i
  <2>1. TAKE i \in 1 .. Len(frame)
  <2>2. i \in DOMAIN frame
    BY DEF TypeOK
  <2>3. frame[i] = Greater(nextTag - Len(frame) + i - 1, -Horizon)
    BY <2>2 DEF FrameRun
  <2>. QED BY <1>2, <1>6, <2>3, HealTypes DEF Greater
<1>8. room >= 2 /\ Len(queue') = room
  BY <1>1, <1>2, <1>5 DEF Lesser
<1>9. \A i \in 1 .. room : queue'[i] = frame[i] /\ frame[i] >= i
  <2>1. TAKE i \in 1 .. room
  <2>2. Len(queue) + i = i /\ i \in 1 .. Len(frame)
    BY <1>1, <1>2
  <2>. QED BY <1>1, <1>7, <2>2
<1>10. DOMAIN queue' = 1 .. room
  BY <1>8, DeliverType DEF TypeOK
<1>11. \A i \in 1 .. room : frame[i] \in Int
  BY <1>1, <1>2, HealTypes
<1>12. 2 \in 1 .. room /\ queue'[2] >= 2
  BY <1>1, <1>8, <1>9
<1>. QED BY <1>9, <1>10, <1>11, <1>12 DEF Lasting

\* A frame that comes in full adds to the run at the end of the ring.
LEMMA FedRun ==
  ASSUME TypeOK, StreamInv, FrameRun, Ticked, PaceOK, whole >= 4,
         Deliver(TRUE, TRUE), ~clipped',
         \A i \in DOMAIN queue' : queue'[i] >= 1
  PROVE  Steady' \/ Unbroken(whole - 3)'
<1>1. PICK room \in 0 .. Len(frame) :
        /\ room = Lesser(Depth - Len(queue), Len(frame))
        /\ Len(queue') = Len(queue) + room
        /\ \A i \in 1 .. Len(queue) : queue'[i] = queue[i]
        /\ \A i \in 1 .. room : queue'[Len(queue) + i] = frame[i]
        /\ room < Len(frame) => clipped'
  BY DeliverPushes
<1>2. /\ Len(queue) \in Nat /\ Len(frame) \in Nat /\ Len(frame) >= 1 /\ room = Len(frame)
      /\ nextTag \in Int /\ Horizon \in Nat
  <2>1. Len(queue) \in Nat /\ Len(frame) \in Nat /\ nextTag \in Int /\ Horizon \in Nat
        /\ (frame = << >> <=> Len(frame) = 0)
    BY HealTypes
  <2>2. frame # << >>
    BY DEF Deliver
  <2>3. ~(room < Len(frame))
    BY <1>1
  <2>. QED BY <2>1, <2>2, <2>3
<1>3. frame' = << >> /\ Len(frame') = 0 /\ nextTag' = nextTag /\ whole' = whole
  BY DEF Deliver
<1>4. PICK n \in Nat : n = Len(frame) /\ n >= 1
  BY <1>2
<1>5. PICK len \in Nat : len = Len(queue)
  BY <1>2
<1>6. PICK sent \in Int : sent = Sent /\ sent = nextTag - n
  <2>1. nextTag - n \in Int
    BY <1>2
  <2>2. Sent = nextTag - n
    BY <1>4 DEF Sent
  <2>. QED BY <2>1, <2>2
<1>7. Sent' = sent + n /\ Len(queue') = len + n
  BY <1>1, <1>2, <1>3, <1>4, <1>5, <1>6 DEF Sent
<1>8. DOMAIN queue' = 1 .. len + n /\ DOMAIN queue = 1 .. len /\ DOMAIN frame = 1 .. n
  BY <1>4, <1>5, <1>7, DeliverType DEF TypeOK
<1>9. \A i \in 1 .. n : queue'[len + i] = sent + i - 1
  <2>1. TAKE i \in 1 .. n
  <2>2. len + i \in DOMAIN queue' /\ queue'[len + i] = frame[i]
    BY <1>1, <1>2, <1>4, <1>5, <1>8
  <2>3. frame[i] = Greater(sent + i - 1, -Horizon)
    BY <1>4, <1>6, <1>8 DEF FrameRun
  <2>4. frame[i] >= 1
    BY <2>2
  <2>. QED BY <1>2, <2>2, <2>3, <2>4 DEF Greater
<1>10. \A i \in 1 .. len : queue'[i] = queue[i]
  BY <1>1, <1>5
<1>11. \A i \in 1 .. len + n : i > len => queue'[i] = sent + (i - len) - 1
  <2>1. TAKE i \in 1 .. len + n
  <2>2. SUFFICES ASSUME i > len PROVE queue'[i] = sent + (i - len) - 1
    OBVIOUS
  <2>3. i - len \in 1 .. n /\ len + (i - len) = i
    BY <2>2
  <2>. QED BY <1>9, <2>3
<1>12. CASE Steady
  <2>1. sent = len + 1 /\ \A i \in 1 .. len : queue[i] = i
    BY <1>5, <1>6, <1>8, <1>12 DEF Steady
  <2>2. \A i \in 1 .. len + n : queue'[i] = i
    <3>1. TAKE i \in 1 .. len + n
    <3>. QED BY <1>10, <1>11, <2>1
  <2>3. Sent' = Len(queue') + 1
    BY <1>7, <2>1
  <2>. QED BY <1>8, <2>2, <2>3 DEF Steady
<1>13. CASE Unbroken(whole - 4)
  <2>1. PICK k \in Nat : k = whole - 4
    BY HealTypes DEF PaceOK
  <2>2. k <= len /\ \A i \in 1 .. len : i > len - k => queue[i] = sent - 1 - len + i
    BY <1>5, <1>6, <1>8, <1>13, <2>1 DEF Unbroken
  <2>3. \A i \in 1 .. len + n : i > len + n - (k + 1) => queue'[i] = (sent + n) - 1 - (len + n) + i
    <3>1. TAKE i \in 1 .. len + n
    <3>. QED BY <1>4, <1>10, <1>11, <2>2
  <2>4. whole - 3 = k + 1 /\ whole' = whole
    BY <1>3, <2>1, HealTypes DEF PaceOK
  <2>5. k + 1 <= Len(queue') /\ \A i \in DOMAIN queue' :
          i > Len(queue') - (k + 1) => queue'[i] = Sent' - 1 - Len(queue') + i
    BY <1>4, <1>7, <1>8, <2>2, <2>3
  <2>. QED BY <2>4, <2>5 DEF Unbroken
<1>. QED BY <1>12, <1>13 DEF Ticked

\* The one good frame of a cycle: the host takes in what the board was two ticks
\* ago, and the ring is filled, kept filled, and its run at the end extended.
LEMMA DeliverHeal ==
  ASSUME TypeOK, StreamInv, FrameRun, HealInv,
         NEW mosiOk \in BOOLEAN, NEW misoOk \in BOOLEAN, Deliver(mosiOk, misoOk)
  PROVE  HealInv'
<1>1. UNCHANGED <<onTime, underrun, staged, nextTag, primed, smooth, whole>>
  BY DEF Deliver
<1>2. got' = (IF mosiOk /\ misoOk THEN Lesser(got + 1, 2) ELSE 2) /\ clipped' \in BOOLEAN
      /\ got \in 0 .. 2
  BY DEF Deliver, Ingest, HealInv, PaceOK
<1>3. got' \in 1 .. 2 /\ (got' = 1 => mosiOk = TRUE /\ misoOk = TRUE /\ got = 0)
  BY <1>2 DEF Lesser
<1>4. PaceOK' /\ HealsWithRoom' /\ FedIsNotStopped'
  BY <1>1, <1>2, <1>3 DEF HealInv, PaceOK, HealsWithRoom, FedIsNotStopped
<1>5. ASSUME got' = 1 PROVE Fed'
  <2>1. Deliver(TRUE, TRUE) /\ Ticked /\ PaceOK
    BY <1>3, <1>5 DEF HealInv
  <2>2. frame # << >> /\ frame' = << >> /\ shift' = staged /\ primed
    BY <2>1 DEF Deliver, FrameRun
  <2>3. shift.valid => lastIndex' = shift.index /\ lastDepth' = shift.depth
    BY <2>1 DEF Deliver
  <2>4. queue # << >> => Lasting'
    BY <2>1, FedLasts
  <2>5. smooth \in Nat /\ whole \in Nat /\ whole <= smooth
    BY <2>1, HealTypes DEF PaceOK
  <2>6. smooth >= 4 => Lasting' /\ \A i \in DOMAIN queue' : queue'[i] >= 1
    BY <2>1, <2>5, FedLasts, FedFills
  <2>7. shift'.valid /\ shift'.index = 0 /\ primed'
    BY <1>1, <2>1, <2>2 DEF Ticked
  <2>8. ~Lasting' => shift'.depth = 0
    BY <2>1, <2>2, <2>4, HealTypes DEF Ticked
  <2>9. ASSUME smooth >= 1
        PROVE  /\ lastIndex' = -1
               /\ ~Lasting' => lastDepth' = 0 /\ Front' >= smooth - 1
    <3>1. lastIndex' = -1 /\ (queue = << >> => lastDepth' = 0)
      BY <2>1, <2>3, <2>9 DEF Ticked
    <3>2. Front' >= 0 /\ Front' >= nextTag /\ Front' \in Int /\ nextTag \in Int
      <4>1. Front' = Greater(nextTag', lastIndex' + 1)
        BY <2>2 DEF Front, Resynced
      <4>. QED BY <1>1, <3>1, <4>1, HealTypes DEF Greater
    <3>3. ASSUME queue = << >>, smooth >= 2 PROVE nextTag >= smooth - 1
      <4>1. Front >= smooth - 3 /\ Len(frame) >= 2 /\ Front = nextTag - Len(frame)
        BY <2>1, <2>2, <3>3 DEF Ticked, Front, Sent
      <4>. QED BY <2>5, <3>2, <4>1, HealTypes
    <3>4. queue = << >> => Front' >= smooth - 1
      BY <2>5, <2>9, <3>2, <3>3
    <3>. QED BY <2>4, <3>1, <3>4
  <2>10. ASSUME whole >= 4, ~clipped' PROVE Steady' \/ Unbroken(whole - 3)'
    BY <2>1, <2>5, <2>6, <2>10, FedRun
  <2>. QED BY <1>1, <2>2, <2>6, <2>7, <2>8, <2>9, <2>10 DEF Fed
<1>. QED BY <1>3, <1>4, <1>5 DEF HealInv

\* pop takes the sample of this cycle from the front, if it is there: a run at the
\* end of the ring stays as long, or the whole ring is a run and stays so.
LEMMA TickKeepsRun ==
  ASSUME TypeOK, StreamInv, FrameRun, Tick, NEW k \in Nat, k >= 1,
         Lasting, \A i \in DOMAIN queue : queue[i] >= 1,
         Steady \/ Unbroken(k)
  PROVE  (Steady' /\ onTime') \/ Unbroken(k)'
<1>1. PICK m \in 1 .. Len(queue) + 1 :
        /\ Len(queue') = Len(queue) + 1 - m
        /\ \A i \in 1 .. Len(queue') : queue'[i] = Past(queue[i + m - 1]) /\ queue'[i] >= 1
        /\ IF queue # << >> /\ queue[1] = 1 THEN m = 2 /\ onTime' ELSE m = 1
  BY TickPops
<1>2. PICK len \in Nat : len = Len(queue)
  BY HealTypes
<1>3. DOMAIN queue = 1 .. len /\ \A i \in 1 .. len : queue[i] \in Int /\ queue[i] >= 1
  <2>1. DOMAIN queue = 1 .. len
    BY <1>2 DEF TypeOK
  <2>. QED BY <1>2, <2>1, HealTypes
<1>4. PICK last \in 1 .. len : queue[last] >= 2
  BY <1>3 DEF Lasting
<1>5. queue # << >> /\ len >= 1 /\ 1 \in 1 .. len
  BY <1>2, <1>4, HealTypes
<1>6. nextTag \in Int /\ nextTag > 1 /\ Horizon \in Nat /\ Horizon > 2 /\ Len(frame) \in Nat
  <2>1. nextTag \in Int /\ Horizon \in Nat /\ Horizon > 2 /\ Len(frame) \in Nat
    BY HealTypes
  <2>2. queue[1] < nextTag
    BY <1>2, <1>3, <1>5, QueueAscends
  <2>. QED BY <1>3, <1>5, <2>1, <2>2
<1>7. PICK sent \in Int : sent = Sent
  BY <1>6 DEF Sent
<1>8. Sent' = sent - 1
  <2>1. nextTag' = Past(nextTag) /\ Len(frame') = Len(frame)
    BY TickRun DEF Tick
  <2>2. Past(nextTag) = nextTag - 1
    BY <1>6 DEF Past, Greater
  <2>. QED BY <1>6, <1>7, <2>1, <2>2 DEF Sent
<1>9. \A i \in 1 .. len : Past(queue[i]) = queue[i] - 1
  BY <1>3, <1>6 DEF Past, Greater
<1>10. TypeOK'
  BY TickType
<1>11. CASE queue[1] = 1
  <2>1. m = 2 /\ onTime' /\ Len(queue') = len - 1
    BY <1>1, <1>2, <1>5, <1>11
  <2>2. DOMAIN queue' = 1 .. len - 1 /\ \A i \in 1 .. len - 1 : queue'[i] = queue[i + 1] - 1
    <3>1. DOMAIN queue' = 1 .. len - 1
      BY <1>5, <1>10, <2>1 DEF TypeOK
    <3>2. \A i \in 1 .. len - 1 : i + 2 - 1 = i + 1 /\ i + 1 \in 1 .. len
      OBVIOUS
    <3>. QED BY <1>1, <1>9, <2>1, <3>1, <3>2
  <2>3. ASSUME sent = len + 1, \A i \in 1 .. len : queue[i] = i PROVE Steady' /\ onTime'
    <3>1. \A i \in 1 .. len - 1 : queue'[i] = i
      <4>1. TAKE i \in 1 .. len - 1
      <4>2. i + 1 \in 1 .. len /\ (i + 1) - 1 = i
        OBVIOUS
      <4>3. queue[i + 1] = i + 1
        BY <2>3, <4>2
      <4>. QED BY <2>2, <4>2, <4>3
    <3>2. Sent' = Len(queue') + 1
      BY <1>8, <2>1, <2>3
    <3>. QED BY <2>1, <2>2, <3>1, <3>2 DEF Steady
  <2>4. CASE Steady
    BY <1>2, <1>3, <1>7, <2>3, <2>4 DEF Steady
  <2>5. CASE Unbroken(k)
    <3>1. k <= len /\ \A i \in 1 .. len : i > len - k => queue[i] = sent - 1 - len + i
      BY <1>2, <1>3, <1>7, <2>5 DEF Unbroken
    <3>2. CASE k = len
      <4>1. sent = len + 1
        BY <1>5, <1>11, <3>1, <3>2
      <4>2. \A i \in 1 .. len : queue[i] = i
        BY <3>1, <3>2, <4>1
      <4>. QED BY <2>3, <4>1, <4>2
    <3>3. CASE k < len
      <4>1. \A i \in 1 .. len - 1 : i > len - 1 - k => queue'[i] = (sent - 1) - 1 - (len - 1) + i
        <5>1. TAKE i \in 1 .. len - 1
        <5>2. i + 1 \in 1 .. len /\ queue'[i] = queue[i + 1] - 1
          BY <2>2
        <5>. QED BY <3>1, <5>2
      <4>. QED BY <1>8, <2>1, <2>2, <3>3, <4>1 DEF Unbroken
    <3>. QED BY <3>1, <3>2, <3>3
  <2>. QED BY <2>4, <2>5
<1>12. CASE queue[1] # 1
  <2>1. m = 1 /\ Len(queue') = len
    BY <1>1, <1>2, <1>12
  <2>2. DOMAIN queue' = 1 .. len /\ \A i \in 1 .. len : queue'[i] = queue[i] - 1
    <3>1. DOMAIN queue' = 1 .. len
      BY <1>10, <2>1 DEF TypeOK
    <3>2. \A i \in 1 .. len : i + 1 - 1 = i
      OBVIOUS
    <3>. QED BY <1>1, <1>9, <2>1, <3>1, <3>2
  <2>3. ~Steady
    BY <1>3, <1>5, <1>12 DEF Steady
  <2>4. k <= len /\ \A i \in 1 .. len : i > len - k => queue[i] = sent - 1 - len + i
    BY <1>2, <1>3, <1>7, <2>3 DEF Unbroken
  <2>5. \A i \in 1 .. len : i > len - k => queue'[i] = (sent - 1) - 1 - len + i
    <3>1. TAKE i \in 1 .. len
    <3>. QED BY <2>2, <2>4
  <2>. QED BY <1>8, <2>1, <2>2, <2>4, <2>5 DEF Unbroken
<1>. QED BY <1>11, <1>12

\* What is first to come is no further back for it than a cycle.
LEMMA TickFront ==
  ASSUME TypeOK, FrameRun, Tick
  PROVE  Front' >= Front - 1 /\ Front' \in Int /\ Front \in Int
<1>1. nextTag' = Past(nextTag) /\ lastIndex' = Past(lastIndex)
  BY DEF Tick
<1>2. Len(frame') = Len(frame) /\ (frame' = << >> <=> frame = << >>)
  BY TickRun
<1>3. nextTag \in Int /\ lastIndex \in Int /\ Len(frame) \in Nat /\ Horizon \in Nat
  BY HealTypes
<1>4. CASE frame = << >>
  <2>1. Front = Resynced /\ Front' = Greater(nextTag', lastIndex' + 1)
    BY <1>2, <1>4 DEF Front, Resynced
  <2>. QED BY <1>1, <1>3, <2>1 DEF Resynced, Past, Greater
<1>5. CASE frame # << >>
  <2>1. Front = nextTag - Len(frame) /\ Front' = nextTag' - Len(frame)
    BY <1>2, <1>5 DEF Front, Sent
  <2>. QED BY <1>1, <1>3, <2>1 DEF Past, Greater
<1>. QED BY <1>4, <1>5

\* The tick ends a cycle: if it was smooth the argument is a cycle further, and if
\* it was not it begins anew.
LEMMA TickHeal ==
  ASSUME TypeOK, StreamInv, FrameRun, HealInv, Tick
  PROVE  HealInv'
<1>1. PICK m \in 1 .. Len(queue) + 1 :
        /\ Len(queue') = Len(queue) + 1 - m
        /\ \A i \in 1 .. Len(queue') : queue'[i] >= 1
        /\ \A i \in DOMAIN queue : queue[i] >= 2 => m <= i
        /\ underrun' => queue' = << >>
  BY TickPops
<1>2. PICK k \in 1 .. Len(queue) + 2 :
        staged' = [index |-> 0, depth |-> Len(queue'), valid |-> TRUE]
  BY TickLeft
<1>3. TypeOK' /\ PaceOK
  BY TickType DEF HealInv
<1>4. /\ smooth' = IF got = 1 THEN Lesser(smooth + 1, Settle) ELSE 0
      /\ got' = 0 /\ clipped' = FALSE
      /\ UNCHANGED <<lastDepth, primed>>
      /\ lastIndex' = Past(lastIndex) /\ shift' = [shift EXCEPT !.index = Past(@)]
  BY DEF Tick
<1>5. /\ got = 1 /\ ~clipped => whole' = Lesser(whole + 1, Settle)
      /\ ~(got = 1 /\ ~clipped) => whole' = 0
  BY DEF Tick
<1>6. /\ smooth \in Nat /\ smooth <= Settle /\ whole \in Nat /\ whole <= smooth
      /\ Settle \in Nat /\ Settle >= Depth + 5 /\ Depth \in Nat /\ Depth >= 2
      /\ Horizon \in Nat /\ Horizon > 2
  BY <1>3, HealTypes DEF PaceOK
<1>7. /\ smooth' \in 0 .. Settle /\ whole' \in 0 .. Settle /\ whole' <= smooth'
      /\ smooth' <= smooth + 1 /\ whole' <= whole + 1
      /\ smooth' >= 1 => got = 1
      /\ whole' >= 1 => got = 1 /\ ~clipped
  <2>1. smooth' \in 0 .. Settle /\ smooth' <= smooth + 1 /\ (smooth' >= 1 => got = 1)
        /\ (got = 1 => smooth' = Lesser(smooth + 1, Settle))
    BY <1>4, <1>6 DEF Lesser
  <2>2. CASE got = 1 /\ ~clipped
    BY <1>5, <1>6, <2>1, <2>2 DEF Lesser
  <2>3. CASE ~(got = 1 /\ ~clipped)
    BY <1>5, <1>6, <2>1, <2>3
  <2>. QED BY <2>2, <2>3
<1>8. PaceOK'
  <2>1. got' \in 0 .. 2
    BY <1>4
  <2>2. clipped' \in BOOLEAN
    BY <1>4
  <2>. QED BY <1>7, <2>1, <2>2 DEF PaceOK
<1>9. queue' = << >> => ~Lasting
  <2>1. SUFFICES ASSUME Lasting PROVE queue' # << >>
    OBVIOUS
  <2>2. PICK i \in DOMAIN queue : queue[i] >= 2
    BY <2>1 DEF Lasting
  <2>3. m <= i /\ i \in 1 .. Len(queue) /\ Len(queue) \in Nat
    BY <1>1, <2>2 DEF TypeOK
  <2>. QED BY <1>1, <2>3
<1>10. DOMAIN queue' = 1 .. Len(queue')
  BY <1>3 DEF TypeOK
<1>11. smooth' >= 1 => Fed
  BY <1>7 DEF HealInv
<1>12. smooth' >= 5 => queue' # << >>
  BY <1>6, <1>7, <1>9, <1>11 DEF Fed
<1>13. ASSUME smooth' >= 1
       PROVE  shift'.valid /\ shift'.index = -1 /\ primed' /\ (queue' = << >> => shift'.depth = 0)
  <2>1. shift.valid /\ shift.index = 0 /\ primed /\ (~Lasting => shift.depth = 0)
    BY <1>11, <1>13 DEF Fed
  <2>2. shift \in [index : Index, depth : 0 .. Depth, valid : BOOLEAN]
    BY DEF TypeOK
  <2>3. shift'.valid = shift.valid /\ shift'.index = Past(shift.index) /\ shift'.depth = shift.depth
    BY <1>4, <2>2
  <2>. QED BY <1>4, <1>6, <1>9, <2>1, <2>3 DEF Past, Greater
<1>14. ASSUME smooth' >= 2
       PROVE  /\ lastIndex' = -2
              /\ queue' = << >> => /\ lastDepth' = 0
                                   /\ Front' >= smooth' - 3
                                   /\ frame' # << >> => Len(frame') >= 2
  <2>1. Fed /\ smooth >= 1
    BY <1>6, <1>7, <1>11, <1>14
  <2>2. lastIndex = -1
    BY <2>1 DEF Fed
  <2>3. lastIndex' = -2
    BY <1>4, <1>6, <2>2 DEF Past, Greater
  <2>4. ASSUME queue' = << >>
        PROVE  lastDepth' = 0 /\ Front' >= smooth' - 3 /\ (frame' # << >> => Len(frame') >= 2)
    <3>1. lastDepth = 0 /\ Front >= smooth - 1 /\ (frame # << >> => Len(frame) >= 2)
      BY <1>9, <2>1, <2>4 DEF Fed
    <3>2. Front' >= Front - 1 /\ Front' \in Int /\ Front \in Int
      BY TickFront
    <3>3. smooth' \in 0 .. Settle /\ smooth' <= smooth + 1 /\ smooth \in Nat /\ Settle \in Nat
      BY <1>6, <1>7
    <3>4. PICK count \in Int : count = smooth' /\ count <= smooth + 1
      BY <3>3
    <3>5. PICK front \in Int : front = Front' /\ front >= Front - 1
      BY <3>2
    <3>6. count <= smooth + 1 /\ front >= Front - 1
      BY <3>4, <3>5
    <3>7. front >= count - 3
      BY <3>1, <3>2, <3>3, <3>6
    <3>8. Front' >= smooth' - 3
      BY <3>4, <3>5, <3>7, Zenon
    <3>. QED BY <1>4, <3>1, <3>8, TickRun
  <2>. QED BY <2>3, <2>4
<1>15. ASSUME whole' >= 4 PROVE (Steady' /\ onTime') \/ Unbroken(whole - 4)'
  <2>1. got = 1 /\ ~clipped /\ whole >= 3 /\ smooth' >= 1
    BY <1>6, <1>7, <1>15
  <2>2. Fed
    BY <1>11, <2>1
  <2>3. PICK n \in Nat : n = whole - 3
    BY <1>6, <2>1
  <2>4. Len(queue') \in 0 .. Depth
    BY <1>3, <1>6 DEF TypeOK
  <2>5. (Steady' /\ onTime') \/ Unbroken(n)'
    <3>1. CASE n = 0
      BY <1>10, <2>4, <3>1 DEF Unbroken
    <3>2. CASE n >= 1
      <4>1. whole >= 4 /\ smooth >= 4
        BY <1>6, <2>3, <3>2
      <4>2. Lasting /\ \A i \in DOMAIN queue : queue[i] >= 1
        BY <2>2, <4>1 DEF Fed
      <4>3. Steady \/ Unbroken(whole - 3)
        BY <2>1, <2>2, <4>1 DEF Fed
      <4>. QED BY <2>3, <3>2, <4>2, <4>3, TickKeepsRun
    <3>. QED BY <3>1, <3>2
  <2>6. PICK w \in Int : w = whole' /\ w - 4 <= n
    <3>1. whole' \in 0 .. Settle /\ whole' <= whole + 1 /\ whole \in Nat /\ Settle \in Nat
      BY <1>6, <1>7
    <3>2. PICK w \in Int : w = whole' /\ w <= n + 4
      BY <2>3, <3>1
    <3>3. w <= n + 4
      BY <3>2
    <3>4. w - 4 <= n
      BY <3>3
    <3>. QED BY <3>2, <3>4
  <2>7. ASSUME Unbroken(n)' PROVE Unbroken(whole - 4)'
    <3>1. n <= Len(queue') /\ \A i \in 1 .. Len(queue') :
            i > Len(queue') - n => queue'[i] = Sent' - 1 - Len(queue') + i
      BY <1>10, <2>7 DEF Unbroken
    <3>2. \A i \in 1 .. Len(queue') : i > Len(queue') - (w - 4) => i > Len(queue') - n
      BY <2>3, <2>4, <2>6
    <3>3. w - 4 <= Len(queue')
      <4>1. PICK len \in Nat : len = Len(queue')
        BY <1>6, <2>4
      <4>2. n <= len /\ w - 4 <= n
        BY <2>6, <3>1, <4>1
      <4>3. w - 4 <= len
        BY <4>2
      <4>. QED BY <4>1, <4>3, Zenon
    <3>4. \A i \in DOMAIN queue' : i > Len(queue') - (w - 4) => queue'[i] = Sent' - 1 - Len(queue') + i
      BY <1>10, <3>1, <3>2
    <3>5. whole' - 4 = w - 4
      BY <2>6
    <3>. QED BY <3>3, <3>4, <3>5, Zenon DEF Unbroken
  <2>. QED BY <2>5, <2>7
<1>16. Ticked'
  <2>1. ~clipped' /\ staged'.valid /\ staged'.index = 0 /\ staged'.depth = Len(queue')
    BY <1>2, <1>4
  <2>2. \A i \in DOMAIN queue' : queue'[i] >= 1
    BY <1>1, <1>10
  <2>. QED BY <1>12, <1>13, <1>14, <1>15, <2>1, <2>2 DEF Ticked
<1>17. FedIsNotStopped'
  <2>1. smooth' >= Settle => smooth' >= 5
    BY <1>6, <1>7
  <2>. QED BY <1>1, <1>12, <2>1 DEF FedIsNotStopped
<1>18. HealsWithRoom'
  <2>1. SUFFICES ASSUME whole' >= Settle PROVE onTime'
    BY DEF HealsWithRoom
  <2>2. whole' >= Depth + 5 /\ whole' \in Int
    BY <1>6, <1>7, <2>1
  <2>3. Len(queue') \in 0 .. Depth
    BY <1>3, <1>6 DEF TypeOK
  <2>4. ~Unbroken(whole - 4)'
    BY <1>6, <2>2, <2>3 DEF Unbroken
  <2>. QED BY <1>6, <1>15, <2>2, <2>4
<1>. QED BY <1>4, <1>8, <1>16, <1>17, <1>18 DEF HealInv

\* A new engine ends the run of smooth cycles; the last tick was the old one's.
LEMMA RestartHeal ==
  ASSUME HealInv, Restart
  PROVE  HealInv'
<1>1. got' = 2 /\ UNCHANGED <<onTime, underrun, clipped, smooth, whole>>
  BY DEF Restart
<1>. QED BY <1>1 DEF HealInv, PaceOK, HealsWithRoom, FedIsNotStopped

\* Every step keeps what smooth cycles have led to.
LEMMA StepHeal ==
  ASSUME TypeOK, StreamInv, FrameRun, HealInv, [Next]_vars
  PROVE  HealInv'
<1>1. CASE Build
  BY <1>1, BuildHeal
<1>2. ASSUME NEW mosiOk \in BOOLEAN, NEW misoOk \in BOOLEAN, Deliver(mosiOk, misoOk)
      PROVE  HealInv'
  BY <1>2, DeliverHeal
<1>3. CASE Tick
  BY <1>3, TickHeal
<1>4. CASE Restart
  BY <1>4, RestartHeal
<1>5. CASE UNCHANGED vars
  <2>1. PaceOK' = PaceOK /\ Ticked' = Ticked /\ Fed' = Fed
    BY <1>5 DEF PaceOK, Ticked, Fed, Steady, Unbroken, Lasting, Sent, Front, Resynced,
                vars, board, spi, host, pace
  <2>2. HealsWithRoom' = HealsWithRoom /\ FedIsNotStopped' = FedIsNotStopped /\ got' = got
    BY <1>5 DEF HealsWithRoom, FedIsNotStopped, vars, board, pace
  <2>. QED BY <2>1, <2>2 DEF HealInv
<1>. QED BY <1>1, <1>2, <1>3, <1>4, <1>5 DEF Next

\* All parts of the invariant together.
LEMMA HealInvariant == Spec => [](TypeOK /\ StreamInv /\ FrameRun /\ HealInv)
<1>1. Init => TypeOK /\ StreamInv /\ FrameRun /\ HealInv
  BY InitType, InitOrder, InitRun, InitHeal
<1>2. TypeOK /\ StreamInv /\ FrameRun /\ HealInv /\ [Next]_vars => (TypeOK /\ StreamInv /\ FrameRun /\ HealInv)'
  BY StepType, StepOrder, StepRun, StepHeal
<1>. QED BY <1>1, <1>2, PTL DEF Spec

\* Once the host sends one good frame per cycle again and the ring has room for
\* all of them, every tick finds its sample: whatever was lost before, however
\* late the host was, and however old the depths are it refills from.
THEOREM StreamHeals == Spec => []HealsWithRoom
<1>1. TypeOK /\ StreamInv /\ FrameRun /\ HealInv => HealsWithRoom
  BY DEF HealInv
<1>. QED BY <1>1, HealInvariant, PTL

\* A host that sends one good frame per cycle is never quick-stopped for an
\* underrun, also while samples are dropped at a full ring.
THEOREM FedNeverStopped == Spec => []FedIsNotStopped
<1>1. TypeOK /\ StreamInv /\ FrameRun /\ HealInv => FedIsNotStopped
  BY DEF HealInv
<1>. QED BY <1>1, HealInvariant, PTL
=============================================================================
